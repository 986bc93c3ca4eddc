----------------------------- MODULE MCLifecycle -----------------------------
(* Small instances of Lifecycle for TLC. *)
EXTENDS Lifecycle

\* Two flows: one with an accumulator (accumulator, uploader, two workers),
\* one without (uploader, worker).
MCActors == <<"signal", "api", "stage", "stage", "stage", "stage", "stage", "stage">>
MCContext == <<1, 2, 3, 4, 5, 5, 7, 8>>
=============================================================================
