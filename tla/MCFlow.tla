------------------------------- MODULE MCFlow -------------------------------
(* Small instances of Flow for TLC. *)
EXTENDS Flow

CONSTANTS small, big

\* With a limit of 5 and a separator of 1, two smalls make a chunk of exactly
\* the limit, and big goes on its own.
MCPayloads == {small, big}
MCSize == [d \in MCPayloads |-> CASE d = small -> 2 [] d = big -> 5]
=============================================================================
