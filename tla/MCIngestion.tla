---------------------------- MODULE MCIngestion ----------------------------
(* Small instances of Ingestion for TLC. *)
EXTENDS Ingestion

CONSTANTS r1, r2

\* All that can happen to a body on the first route; of the second, which
\* shares the breaker but no semaphore, those that take and lose its token.
MCRequests ==
    [r \in Routes |-> IF r = r1 THEN {"plain", "compressed", "corrupt", "empty", "stalled"}
                      ELSE {"compressed"}]

MCFewRequests == [r \in Routes |-> {"plain", "corrupt"}]
=============================================================================
