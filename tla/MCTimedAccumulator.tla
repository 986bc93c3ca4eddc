------------------------- MODULE MCTimedAccumulator -------------------------
(* Small instances of TimedAccumulator for TLC. *)
EXTENDS TimedAccumulator

CONSTANTS empty, small, medium, big

\* As in MCAccumulator.
MCPayloads == {empty, small, medium, big}
MCSize == [d \in MCPayloads |-> CASE d = empty -> 0 [] d = small -> 2
                                  [] d = medium -> 3 [] d = big -> 6]
=============================================================================
