------------------------------- MODULE Worker -------------------------------
(***************************************************************************)
(* The workers of a flow share one channel of work units.  A worker takes  *)
(* a unit, compresses it, and runs one goroutine per pair of an object     *)
(* storage and an external queue (a slot): upload, and if the upload       *)
(* returned no error, announce the object on the queue.  It takes its next *)
(* unit when all of them have ended.  Errors are logged and nothing is     *)
(* retried.  On cancellation it drains the channel until it is closed.     *)
(*                                                                         *)
(* Of the adapters of storages and queues the model keeps what a call may  *)
(* leave behind: one that returns an error may have had its effect (an     *)
(* answer lost, a timeout), none, or for a file half of it.                *)
(***************************************************************************)
EXTENDS Naturals, Sequences, FiniteSets

CONSTANTS Workers,
          Slots,            \* indices of the flow's storages and queues
          StorageOf,        \* the type of each slot's storage...
          QueueOf,          \* ...and of its queue
          Units,            \* the work units, numbered as the uploader sends them
          NoUnit,
          Hanging,          \* the <<unit, slot>> of which a call may never return
          IncomingCapacity  \* capacity of incomingWorkChan

StorageTypes == {"s3", "localstorage", "httpstorage"}
QueueTypes == {"sqs", "http", "noop"}

ASSUME UnitsAssumption == Units \subseteq Nat
\* max_concurrent_uploads has a default where it is not positive.
ASSUME WorkersAssumption == Workers # {}
\* NewWorker panics unless there is a queue for each storage.
ASSUME StorageAssumption == StorageOf \in [Slots -> StorageTypes]
ASSUME QueueAssumption == QueueOf \in [Slots -> QueueTypes]
ASSUME NoUnitAssumption == NoUnit \notin Units
\* An upload to S3 has a deadline only if one is configured, and SendMessage
\* of SQS none at all; the http adapters give up after their own.
ASSUME HangingAssumption ==
    Hanging \subseteq {call \in Units \X Slots :
                          StorageOf[call[2]] = "s3" \/ QueueOf[call[2]] = "sqs"}
ASSUME IncomingCapacityAssumption == IncomingCapacity \in Nat \ {0}

VARIABLES compressor,     \* "sound", or "broken": NewWriter fails for its settings
          incoming,       \* contents of incomingWorkChan
          incomingState,  \* "open", or "closed" by the uploader
          fed,            \* the units the uploader has sent
          ctx,            \* the workers' shared context: "live" or "cancelled"
          run,            \* run[w]: where the Run goroutine of w is
          unit,           \* unit[w]: the unit w works on, or NoUnit
          progress,       \* progress[u][s]: how far slot s is with unit u
          content,        \* content[u][s]: what the storage of s holds of u
          announced,      \* the <<u, s>> the queue of s holds a message for
          finished        \* the units whose work() returned

workerVars == <<run, unit, progress, content, announced, finished>>
vars == <<compressor, incoming, incomingState, fed, ctx,
          run, unit, progress, content, announced, finished>>

Steps == {"waiting", "uploading", "announcing", "failed", "done"}

TypeOK ==
    /\ compressor \in {"sound", "broken"}
    /\ incoming \in Seq(Units)
    /\ Len(incoming) <= IncomingCapacity
    /\ incomingState \in {"open", "closed"}
    /\ fed \subseteq Units
    /\ ctx \in {"live", "cancelled"}
    /\ run \in [Workers -> {"new", "select", "draining", "done"}]
    /\ unit \in [Workers -> Units \cup {NoUnit}]
    /\ progress \in [Units -> [Slots -> Steps]]
    /\ content \in [Units -> [Slots -> {"absent", "partial", "whole"}]]
    /\ announced \subseteq Units \X Slots
    /\ finished \subseteq Units

\* The level of the compression is not validated, and looked at first when
\* there is a unit to compress; then it fails for each of them.
Init ==
    /\ compressor \in {"sound", "broken"}
    /\ incoming = <<>>
    /\ incomingState = "open"
    /\ fed = {}
    /\ ctx = "live"
    /\ run = [w \in Workers |-> "new"]
    /\ unit = [w \in Workers |-> NoUnit]
    /\ progress = [u \in Units |-> [s \in Slots |-> "waiting"]]
    /\ content = [u \in Units |-> [s \in Slots |-> "absent"]]
    /\ announced = {}
    /\ finished = {}

-----------------------------------------------------------------------------
(* The environment: the uploader and the application. *)

Feed(u) ==
    /\ fed = {v \in Units : v < u}
    /\ incomingState = "open"
    /\ Len(incoming) < IncomingCapacity
    /\ incoming' = Append(incoming, u)
    /\ fed' = fed \cup {u}
    /\ UNCHANGED <<compressor, incomingState, ctx, workerVars>>

CloseIncoming ==
    /\ incomingState = "open"
    /\ incomingState' = "closed"
    /\ UNCHANGED <<compressor, incoming, fed, ctx, workerVars>>

Cancel ==
    /\ ctx = "live"
    /\ ctx' = "cancelled"
    /\ UNCHANGED <<compressor, incoming, incomingState, fed, workerVars>>

-----------------------------------------------------------------------------
(* The Run goroutine of a worker. *)

Start(w) ==
    /\ run[w] = "new"
    /\ run' = [run EXCEPT ![w] = "select"]
    /\ UNCHANGED <<compressor, incoming, incomingState, fed, ctx, unit, progress, content,
                   announced, finished>>

\* compress: a writer that NewWriter made writes, flushes and closes into a
\* buffer in memory, none of which fails.
CompressSucceeds == compressor = "sound"

\* Mutation: a worker that has received looks at its context first, and lets
\* go of the unit if it has been cancelled meanwhile.
TakeUnlessCancelled(w) ==
    /\ run[w] \in {"select", "draining"}
    /\ unit[w] = NoUnit
    /\ incoming # <<>>
    /\ incoming' = Tail(incoming)
    /\ IF run[w] = "select" /\ ctx = "cancelled"
         THEN UNCHANGED <<unit, progress>>
         ELSE LET u == Head(incoming) IN
              /\ unit' = [unit EXCEPT ![w] = u]
              /\ progress' = IF CompressSucceeds
                             THEN [progress EXCEPT ![u] = [s \in Slots |-> "uploading"]]
                             ELSE progress
    /\ UNCHANGED <<compressor, incomingState, fed, ctx, run, content, announced, finished>>

\* work: the unit is compressed, and if that succeeds its slots start.  (A
\* closed, empty channel yields nil, which the loop ignores and the drain
\* ends on.)
Take(w) ==
    /\ run[w] \in {"select", "draining"}
    /\ unit[w] = NoUnit
    /\ incoming # <<>>
    /\ incoming' = Tail(incoming)
    /\ LET u == Head(incoming) IN
         /\ unit' = [unit EXCEPT ![w] = u]
         /\ progress' = IF CompressSucceeds
                        THEN [progress EXCEPT ![u] = [s \in Slots |-> "uploading"]]
                        ELSE progress
    /\ UNCHANGED <<compressor, incomingState, fed, ctx, run, content, announced, finished>>

\* work returns, and its unit is out of the worker's hands.
WorkReturns(w) ==
    /\ unit[w] # NoUnit
    /\ unit' = [unit EXCEPT ![w] = NoUnit]
    /\ finished' = finished \cup {unit[w]}
    /\ UNCHANGED <<compressor, incoming, incomingState, fed, ctx, run, progress, content, announced>>

\* work: compress failed; the unit is logged and dropped.
DropUncompressed(w) ==
    /\ ~CompressSucceeds
    /\ WorkReturns(w)

SlotMoves(w, s, from, to) ==
    /\ unit[w] # NoUnit
    /\ progress[unit[w]][s] = from
    /\ progress' = [progress EXCEPT ![unit[w]][s] = to]
    /\ UNCHANGED <<compressor, incoming, incomingState, fed, ctx, run, unit, finished>>

\* What a failed upload may leave.  S3: the answer or the timeout came late,
\* or the object never did.
S3Leaves == {"absent", "whole"}

\* os.Stat or MkdirAll failed; or WriteFile, which may have written any part.
LocalStorageLeaves == {"absent", "partial", "whole"}

\* No answer in time, or a status outside 2xx, from a server that may have
\* taken the object.
HTTPStorageLeaves == {"absent", "whole"}

\* The metrics around a storage return what it returns.
StorageLeaves ==
    [s3           |-> S3Leaves,
     localstorage |-> LocalStorageLeaves,
     httpstorage  |-> HTTPStorageLeaves]

\* Whether a failed call left a message with the queue.
SQSLeaves == {"no message", "message"}

HTTPQueueLeaves == {"no message", "message"}

\* Enqueue of the no-op queue never fails, and tells nobody.
NoopLeaves == {}

\* The metrics around a queue return what it returns.
QueueLeaves ==
    [sqs |-> SQSLeaves, http |-> HTTPQueueLeaves, noop |-> NoopLeaves]

Leave(w, s, what) == content' = [content EXCEPT ![unit[w]][s] = what]

Announce(w, s) == announced' = announced \cup {<<unit[w], s>>}

\* storage.Upload returned a result.
Uploaded(w, s) ==
    /\ SlotMoves(w, s, "uploading", "announcing")
    /\ Leave(w, s, "whole")
    /\ UNCHANGED announced

\* Mutation: the queue is told although the upload failed.
UploadFailedUnnoticed(w, s) ==
    /\ SlotMoves(w, s, "uploading", "announcing")
    /\ \E what \in StorageLeaves[StorageOf[s]] : Leave(w, s, what)
    /\ UNCHANGED announced

\* storage.Upload returned an error: the queue is not told.
UploadFailed(w, s) ==
    /\ SlotMoves(w, s, "uploading", "failed")
    /\ \E what \in StorageLeaves[StorageOf[s]] : Leave(w, s, what)
    /\ UNCHANGED announced

\* queue.Enqueue returned.
Announced(w, s) ==
    /\ SlotMoves(w, s, "announcing", "done")
    /\ IF QueueOf[s] = "noop" THEN UNCHANGED announced ELSE Announce(w, s)
    /\ UNCHANGED content

\* queue.Enqueue returned an error.
AnnounceFailed(w, s) ==
    /\ SlotMoves(w, s, "announcing", "failed")
    /\ \E what \in QueueLeaves[QueueOf[s]] :
          IF what = "message" THEN Announce(w, s) ELSE UNCHANGED announced
    /\ UNCHANGED content

\* Mutation: the first slot to end ends the unit (errors returned at once).
FinishUnitOnFirst(w) ==
    /\ unit[w] # NoUnit
    /\ \E s \in Slots : progress[unit[w]][s] \in {"failed", "done"}
    /\ WorkReturns(w)

\* Mutation: a slot that fails does not call wg.Done().
FinishUnitNeedsAll(w) ==
    /\ unit[w] # NoUnit
    /\ \A s \in Slots : progress[unit[w]][s] = "done"
    /\ WorkReturns(w)

\* wg.Wait() returns: every slot of the unit has ended, well or not.
FinishUnit(w) ==
    /\ unit[w] # NoUnit
    /\ \A s \in Slots : progress[unit[w]][s] \in {"failed", "done"}
    /\ WorkReturns(w)

BeginDrain(w) ==
    /\ run[w] = "select"
    /\ unit[w] = NoUnit
    /\ ctx = "cancelled"
    /\ run' = [run EXCEPT ![w] = "draining"]
    /\ UNCHANGED <<compressor, incoming, incomingState, fed, ctx, unit, progress, content,
                   announced, finished>>

\* Mutation: the drain stops at an empty channel, closed or not.
FinishDrainEmpty(w) ==
    /\ run[w] = "draining"
    /\ unit[w] = NoUnit
    /\ incoming = <<>>
    /\ run' = [run EXCEPT ![w] = "done"]
    /\ UNCHANGED <<compressor, incoming, incomingState, fed, ctx, unit, progress, content,
                   announced, finished>>

\* Mutation: a worker that ends although its channel still holds units.
FinishDrainUndrained(w) ==
    /\ run[w] = "draining"
    /\ unit[w] = NoUnit
    /\ incomingState = "closed"
    /\ run' = [run EXCEPT ![w] = "done"]
    /\ UNCHANGED <<compressor, incoming, incomingState, fed, ctx, unit, progress, content,
                   announced, finished>>

FinishDrain(w) ==
    /\ run[w] = "draining"
    /\ unit[w] = NoUnit
    /\ incoming = <<>>
    /\ incomingState = "closed"
    /\ run' = [run EXCEPT ![w] = "done"]
    /\ UNCHANGED <<compressor, incoming, incomingState, fed, ctx, unit, progress, content,
                   announced, finished>>

SlotStep(w, s) ==
    Uploaded(w, s) \/ UploadFailed(w, s) \/ Announced(w, s) \/ AnnounceFailed(w, s)

LoopStep(w) ==
    Start(w) \/ Take(w) \/ DropUncompressed(w) \/ FinishUnit(w) \/ FinishDrain(w)

Next ==
    \/ \E u \in Units : Feed(u)
    \/ CloseIncoming
    \/ Cancel
    \/ \E w \in Workers : LoopStep(w) \/ BeginDrain(w) \/ \E s \in Slots : SlotStep(w, s)

-----------------------------------------------------------------------------
(***************************************************************************)
(* Fairness.  Workers are goroutines, and a storage or queue call returns  *)
(* at some point, with a result or an error, unless it is one of Hanging.  *)
(* A cancelled worker that keeps receiving from a busy channel picks       *)
(* ctx.Done() at some point (SF).                                          *)
(* Nothing obliges the uploader to feed, nor the application to cancel; a  *)
(* cancelled flow closes the channel (Uploader's ShutdownCompletes).       *)
(***************************************************************************)
Fairness ==
    /\ \A w \in Workers : WF_vars(LoopStep(w)) /\ SF_vars(BeginDrain(w))
    /\ \A w \in Workers, s \in Slots : WF_vars(SlotStep(w, s) /\ <<unit[w], s>> \notin Hanging)
    /\ WF_vars(ctx = "cancelled" /\ CloseIncoming)

Spec == Init /\ [][Next]_vars /\ Fairness

-----------------------------------------------------------------------------
(* Properties. *)

\* A queue is told of an object only once that object is, and wholly, in the
\* storage of the same index, whatever the other slots do.
AnnouncedIsStored == \A a \in announced : content[a[1]][a[2]] = "whole"

InHand(u) == {w \in Workers : unit[w] = u}

\* A unit the uploader sent is in exactly one place: in the channel once,
\* with one worker, or finished.
EveryUnitInOnePlace ==
    \A u \in Units :
        LET queued == Cardinality({i \in DOMAIN incoming : incoming[i] = u})
            held   == Cardinality(InHand(u))
            ended  == IF u \in finished THEN 1 ELSE 0
        IN  queued + held + ended = IF u \in fed THEN 1 ELSE 0

\* A failing storage or queue does not keep the other slots from their work:
\* when work() returns, each slot has come to its own end.  Only units that
\* a broken compressor dropped were never tried.
FinishedIsAttemptedEverywhere ==
    CompressSucceeds =>
        \A u \in finished, s \in Slots : progress[u][s] \in {"failed", "done"}

\* When the first worker has ended, the uploader can send no more; when the
\* last has, every unit sent has been worked on.
DoneMeansFinished ==
    /\ (\E w \in Workers : run[w] = "done") => incomingState = "closed" /\ incoming = <<>>
    /\ (\A w \in Workers : run[w] = "done") => finished = fed

(***************************************************************************)
(* The inductive invariant behind them.                                    *)
(***************************************************************************)

\* Nothing is in the channel twice, nor with two workers.
NoCopies ==
    /\ \A i, j \in DOMAIN incoming : incoming[i] = incoming[j] => i = j
    /\ \A v, w \in Workers : unit[v] = unit[w] => v = w \/ unit[v] = NoUnit

\* What is in the channel was sent, and is neither taken nor finished; what
\* a worker has was sent, and is not finished.
Apart ==
    /\ \A i \in DOMAIN incoming : incoming[i] \in fed \ finished
    /\ \A w \in Workers : unit[w] # NoUnit => unit[w] \in fed \ finished
    /\ \A w \in Workers, i \in DOMAIN incoming : incoming[i] # unit[w]
    /\ finished \subseteq fed

\* What was sent is somewhere.
NothingLost ==
    \A u \in fed :
        \/ u \in finished
        \/ \E i \in DOMAIN incoming : incoming[i] = u
        \/ \E w \in Workers : unit[w] = u

\* How far a slot is says what its storage and its queue hold; a slot that
\* has not begun has told nobody.
SlotsInOrder ==
    \A u \in Units, s \in Slots :
        /\ progress[u][s] \in {"announcing", "done"} => content[u][s] = "whole"
        /\ <<u, s>> \in announced =>
               content[u][s] = "whole" /\ progress[u][s] \in {"failed", "done"}

\* No slot begins before its unit is taken.
SlotsFollowUnit ==
    \A u \in Units, s \in Slots :
        progress[u][s] # "waiting" => u \in finished \/ \E w \in Workers : unit[w] = u

\* A worker that has ended has nothing in hand, and found the channel closed
\* and empty.
DoneIsDrained ==
    \A w \in Workers :
        run[w] = "done" => unit[w] = NoUnit /\ incomingState = "closed" /\ incoming = <<>>

IInv ==
    /\ TypeOK
    /\ NoCopies
    /\ Apart
    /\ NothingLost
    /\ SlotsInOrder
    /\ SlotsFollowUnit
    /\ DoneIsDrained
    /\ FinishedIsAttemptedEverywhere

-----------------------------------------------------------------------------
(* Seen from the channel and the run group, a worker takes and finishes.   *)

Hand == [w \in Workers |-> IF unit[w] = NoUnit THEN <<>> ELSE <<unit[w]>>]

Pool == INSTANCE WorkerPool WITH Capacity <- IncomingCapacity, hand <- Hand

\* Whatever the storages, the queues and the compressor do, the workers are
\* what the rest of the flow takes them for: each has one unit at a time,
\* in the order of the channel, finishes it before it takes another, and
\* does not end before the channel is closed and drained.
ImplementsPool == Pool!Spec

-----------------------------------------------------------------------------
(* Liveness. *)

HangingUnits == {u \in Units : \E s \in Slots : <<u, s>> \in Hanging}

\* Every unit sent is worked on, with or without cancellation.  A call that
\* never returns holds its own worker and nobody else: while fewer units
\* hang than there are workers, all others still get their turn.
FedIsFinished ==
    Cardinality(HangingUnits) < Cardinality(Workers) =>
        \A u \in Units \ HangingUnits : (u \in fed) ~> (u \in finished)

\* Cancelled workers end, but for one that stays in a call that does not
\* return.
WorkersEnd ==
    \A w \in Workers :
        \/ (ctx = "cancelled") ~> (run[w] = "done")
        \/ <>[](unit[w] \in HangingUnits)
=============================================================================
