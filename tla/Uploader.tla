------------------------------ MODULE Uploader ------------------------------
(***************************************************************************)
(* NonBlockingUploader: the stage that turns payloads into work units and  *)
(* hands them to the flow's workers over the channel `next'.  Callers of   *)
(* Enqueue come and go concurrently with the single Run goroutine, which   *)
(* empties the inbox, and on cancellation shuts the intake, drains what is *)
(* left, and closes next.                                                  *)
(*                                                                         *)
(* A work unit is represented by its payload: the file name and prefix it  *)
(* also carries are the subject of module FilePather.                      *)
(***************************************************************************)
EXTENDS Inbox

CONSTANT NextCapacity   \* capacity of next: max_concurrent_uploads of the flow

ASSUME NextCapacityAssumption == NextCapacity \in Nat \ {0}

VARIABLES run,         \* where the Run goroutine is
          hand,        \* the payload in sendWorkToNext, if any
          ctx,         \* "live", or "cancelled": ctx.Done() is closed
          next,        \* the contents of the next channel
          nextState,   \* "open", or "closed" by close(next)
          taken        \* history: the work units a worker received

runVars == <<run, hand, ctx, next, nextState, taken>>
vars == <<caller, chan, chanState, gate, accepted,
          run, hand, ctx, next, nextState, taken>>

RunPoints == {"new", "select", "locking", "closing", "draining", "done"}

TypeOK ==
    /\ InboxTypeOK
    /\ run \in RunPoints
    /\ hand \in Seq(Payloads)
    /\ Len(hand) <= 1
    /\ ctx \in {"live", "cancelled"}
    /\ next \in Seq(Payloads)
    /\ Len(next) <= NextCapacity
    /\ nextState \in {"open", "closed"}
    /\ taken \in Seq(Payloads)

Init ==
    /\ InboxInit
    /\ run = "new"
    /\ hand = <<>>
    /\ ctx = "live"
    /\ next = <<>>
    /\ nextState = "open"
    /\ taken = <<>>

-----------------------------------------------------------------------------
(* Mutations (see Inbox). *)

\* next treated as unbounded.
SendWorkUnbounded ==
    /\ hand # <<>>
    /\ next' = Append(next, Head(hand))
    /\ hand' = <<>>
    /\ UNCHANGED <<inboxVars, run, ctx, nextState, taken>>

\* A non-blocking send to next, like the one into the uploader.
SendWorkOrDrop ==
    /\ hand # <<>>
    /\ next' = IF Len(next) < NextCapacity THEN Append(next, Head(hand)) ELSE next
    /\ hand' = <<>>
    /\ UNCHANGED <<inboxVars, run, ctx, nextState, taken>>

\* shutdown that closes next without draining.
CloseNextUndrained ==
    /\ run = "draining"
    /\ hand = <<>>
    /\ chanState = "closed"
    /\ nextState' = "closed"
    /\ run' = "done"
    /\ UNCHANGED <<inboxVars, hand, ctx, next, taken>>

\* shutdown that forgets close(internalDataChan).
CloseInboxForgotten ==
    /\ run = "closing"
    /\ run' = "draining"
    /\ UNCHANGED <<inboxVars, hand, ctx, next, nextState, taken>>

-----------------------------------------------------------------------------
(* Callers of Enqueue. *)

\* The send meets Run parked in its select: the payload passes directly, for
\* an unbuffered internalDataChan (in_memory_queue_max_size 0) the only way.
\* With a buffer the step is a Push and a Receive in one.
HandOff(c, d) ==
    /\ caller[c] = "sending"
    /\ chan = <<>>
    /\ run = "select"
    /\ hand = <<>>
    /\ hand' = <<d>>
    /\ accepted' = Append(accepted, d)
    /\ caller' = [caller EXCEPT ![c] = "ok"]
    /\ UNCHANGED <<chan, chanState, gate, run, ctx, next, nextState, taken>>

BeginEnqueue(c) == Enter(c) /\ UNCHANGED runVars

RefuseEnqueue(c) == RefuseShuttingDown(c) /\ UNCHANGED runVars

FinishEnqueue(c) ==
    \/ \E d \in Payloads : Push(c, d) /\ UNCHANGED runVars
    \/ \E d \in Payloads : HandOff(c, d)
    \/ RejectFull(c) /\ UNCHANGED runVars

-----------------------------------------------------------------------------
(* The Run goroutine. *)

\* Run makes doneChan and enters its loop.
Start ==
    /\ run = "new"
    /\ run' = "select"
    /\ UNCHANGED <<inboxVars, hand, ctx, next, nextState, taken>>

\* A payload received by the loop, or by the drain of shutdown.
Receive ==
    /\ run \in {"select", "draining"}
    /\ hand = <<>>
    /\ Pop
    /\ hand' = <<Head(chan)>>
    /\ UNCHANGED <<run, ctx, next, nextState, taken>>

\* sendWorkToNext, which blocks while next is full.
SendWorkToNext ==
    /\ hand # <<>>
    /\ Len(next) < NextCapacity
    /\ next' = Append(next, Head(hand))
    /\ hand' = <<>>
    /\ UNCHANGED <<inboxVars, run, ctx, nextState, taken>>

\* The select chose ctx.Done(): shutdown asks for the write lock.
BeginShutdown ==
    /\ run = "select"
    /\ hand = <<>>
    /\ ctx = "cancelled"
    /\ run' = "locking"
    /\ LockGate
    /\ UNCHANGED <<hand, ctx, next, nextState, taken>>

FinishSetShutdown ==
    /\ run = "locking"
    /\ SetShutdown
    /\ run' = "closing"
    /\ UNCHANGED <<hand, ctx, next, nextState, taken>>

CloseInbox ==
    /\ run = "closing"
    /\ CloseChan
    /\ run' = "draining"
    /\ UNCHANGED <<hand, ctx, next, nextState, taken>>

\* The drain found the channel empty and closed; Run returns.
CloseNext ==
    /\ run = "draining"
    /\ hand = <<>>
    /\ chanState = "closed"
    /\ chan = <<>>
    /\ nextState' = "closed"
    /\ run' = "done"
    /\ UNCHANGED <<inboxVars, hand, ctx, next, taken>>

RunStep ==
    \/ Start \/ Receive \/ SendWorkToNext \/ BeginShutdown
    \/ FinishSetShutdown \/ CloseInbox \/ CloseNext

-----------------------------------------------------------------------------
(* The environment: the application cancels, the workers take work. *)

Cancel ==
    /\ ctx = "live"
    /\ ctx' = "cancelled"
    /\ UNCHANGED <<inboxVars, run, hand, next, nextState, taken>>

TakeWork ==
    /\ next # <<>>
    /\ taken' = Append(taken, Head(next))
    /\ next' = Tail(next)
    /\ UNCHANGED <<inboxVars, run, hand, ctx, nextState>>

Next ==
    \/ \E c \in Callers : BeginEnqueue(c) \/ RefuseEnqueue(c) \/ FinishEnqueue(c)
    \/ RunStep
    \/ Cancel
    \/ TakeWork

-----------------------------------------------------------------------------
(***************************************************************************)
(* Fairness.  Enqueue has no blocking operation between its lock and its   *)
(* return, so a caller inside it gets out.  The Run goroutine takes a step *)
(* it can take; when several cases of a select are ready Go picks one at   *)
(* random, so cancellation is chosen if it keeps being ready (SF).  The    *)
(* workers keep taking work (module Worker shows when they do).            *)
(***************************************************************************)
Fairness ==
    /\ \A c \in Callers : WF_vars(FinishEnqueue(c))
    /\ WF_vars(RunStep)
    /\ SF_vars(BeginShutdown)
    /\ WF_vars(TakeWork)

Spec == Init /\ [][Next]_vars /\ Fairness

-----------------------------------------------------------------------------
(* Properties. *)

\* A close of a channel never meets a sender: no goroutine is between the
\* shuttingDown check and the send of Enqueue once internalDataChan is
\* closed (a send there would panic the process).
NoSendOnClosed == chanState = "closed" => Sending = {}

\* Nothing accepted is lost, duplicated or reordered on its way to the
\* workers, whatever Enqueue, Run and shutdown interleave: at any moment it
\* is with a worker, in next, in sendWorkToNext or in internalDataChan.
Conservation == accepted = taken \o next \o hand \o chan

\* Once next is closed no payload is left behind in the uploader and none
\* can still enter: the workers that see next closed have seen everything.
ClosedMeansDrained ==
    nextState = "closed" => accepted = taken \o next /\ gate = "shut" /\ Sending = {}

\* After the first "shutting down" answer no Enqueue succeeds any more.
RefusalIsFinal ==
    [][(\E c \in Callers : caller[c] = "shutting down")
           => accepted' = accepted]_vars

-----------------------------------------------------------------------------
(* How the Run goroutine's place determines the rest: with TypeOK and      *)
(* Conservation, an inductive invariant (module UploaderProofs).           *)

GateFollowsRun ==
    /\ gate = "open" <=> run \in {"new", "select"}
    /\ gate = "pending" <=> run = "locking"

ClosesFollowRun ==
    /\ chanState = "closed" <=> run \in {"draining", "done"}
    /\ nextState = "closed" <=> run = "done"

HandFollowsRun ==
    /\ hand # <<>> => run \in {"select", "draining"}
    /\ run = "done" => chan = <<>>

ShutMeansNoReaders == gate = "shut" => Sending = {}

RefusalMeansShut == \A c \in Callers : caller[c] = "shutting down" => gate = "shut"

\* The inductive invariant of the uploader: what its mutex and the order of
\* the steps of shutdown establish together.
IInv ==
    /\ TypeOK
    /\ GateFollowsRun
    /\ ClosesFollowRun
    /\ HandFollowsRun
    /\ ShutMeansNoReaders
    /\ RefusalMeansShut
    /\ Conservation

-----------------------------------------------------------------------------
(* Liveness and refinement. *)

\* A cancelled uploader finishes, and with every accepted payload taken by
\* a worker: the graceful shutdown of the uploader.
ShutdownCompletes == (ctx = "cancelled") ~> (run = "done" /\ taken = accepted)

\* Each accepted payload reaches a worker, cancelled or not.
AcceptedIsTaken ==
    \A n \in 1..MaxAccepted : (Len(accepted) >= n) ~> (Len(taken) >= n)

\* What the uploader passed on: the work units put on next.
Delivered == taken \o next

Phase == IF run = "done" THEN "finished" ELSE IF gate = "shut" THEN "shut" ELSE "open"

\* Uploader implements the promise of a stage.
Abstract == INSTANCE DataFlow WITH delivered <- Delivered, phase <- Phase

ImplementsDataFlow == Abstract!Spec
=============================================================================
