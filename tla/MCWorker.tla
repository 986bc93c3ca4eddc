------------------------------ MODULE MCWorker ------------------------------
(* Small instances of Worker for TLC. *)
EXTENDS Worker

CONSTANTS s1, s2

\* Files announced to SQS, and S3 objects announced to nobody.
MCSlots == {s1, s2}
MCStorageOf == [s \in MCSlots |-> IF s = s1 THEN "localstorage" ELSE "s3"]
MCQueueOf == [s \in MCSlots |-> IF s = s1 THEN "sqs" ELSE "noop"]

\* The upload of the first unit to S3.
MCHanging == {<<1, s2>>}
=============================================================================
