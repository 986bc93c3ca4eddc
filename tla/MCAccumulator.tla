---------------------------- MODULE MCAccumulator ----------------------------
(* Small instances of Accumulator for TLC. *)
EXTENDS Accumulator

CONSTANTS empty, small, medium, big

\* With a limit of 6 and a separator of 1: small and medium together have
\* exactly the limit, two mediums exceed it, big goes on its own.
MCPayloads == {empty, small, medium, big}
MCSize == [d \in MCPayloads |-> CASE d = empty -> 0 [] d = small -> 2
                                  [] d = medium -> 3 [] d = big -> 6]
=============================================================================
