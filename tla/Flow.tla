-------------------------------- MODULE Flow --------------------------------
(***************************************************************************)
(* A whole flow with an accumulator, and the application that stops it:    *)
(*                                                                         *)
(*   HTTP handlers -> Accumulator -> Uploader -> workers                   *)
(*                                                                         *)
(* The accumulator's offers are calls of the uploader's Enqueue, made by   *)
(* its Run goroutine; the uploader's payloads are the accumulator's        *)
(* chunks.  Of the workers it has what module Worker is shown to implement *)
(* (WorkerPool): a worker's work on a unit is one step here.  On SIGTERM   *)
(* or Stop the run group calls the interrupts of its actors one after      *)
(* another, in the order they were added: the API, the accumulator, the    *)
(* uploader, the workers; each but the API's waits for its actor to end.   *)
(***************************************************************************)
EXTENDS Integers, Sequences, FiniteSets

CONSTANTS Callers, Payloads, Size, LimitOfBytes, SeparatorLen,
          AccCapacity,            \* accumulator.queue_capacity
          UploaderCapacity,       \* in_memory_queue_max_size
          Workers,                \* max_concurrent_uploads of them
          MaxAccepted

\* As the stages assume of theirs; at any time there are finitely many
\* handlers.
ASSUME WorkersAssumption == IsFiniteSet(Workers) /\ Workers # {}
ASSUME CallersAssumption == IsFiniteSet(Callers)
ASSUME SizeAssumption == Size \in [Payloads -> Nat]
ASSUME LimitAssumption == LimitOfBytes \in Nat /\ LimitOfBytes > 1
ASSUME SeparatorAssumption == SeparatorLen \in Nat /\ SeparatorLen < LimitOfBytes
ASSUME AccCapacityAssumption == AccCapacity \in Nat /\ AccCapacity >= 2
ASSUME UploaderCapacityAssumption == UploaderCapacity \in Nat
ASSUME MaxAcceptedAssumption == MaxAccepted \in Nat

\* The number of workers, and the capacity of the channel to them.
MaxConcurrentUploads == Cardinality(Workers)

VARIABLES caller, chan, chanState, gate, accepted, run, ctx, current, item,
          offer, breaker, emitted, received, kept, delivered,  \* accumulator
          uCaller, uChan, uChanState, uGate, uAccepted, uRun, uHand, uCtx,
          next, nextState, taken,                              \* uploader
          workerRun,  \* workerRun[w]: where the Run goroutine of worker w is
          hands,      \* hands[w]: the work unit of worker w, if any
          workerCtx,  \* the workers' shared context
          app         \* which interrupt the run group is in

accVars == <<caller, chan, chanState, gate, accepted, run, ctx, current, item,
             offer, breaker, emitted, received, kept, delivered>>
uplRunVars == <<uRun, uHand, uCtx, next, nextState, taken>>
uplVars == <<uCaller, uChan, uChanState, uGate, uAccepted, uRun, uHand, uCtx,
             next, nextState, taken>>
wrkVars == <<workerRun, hands, workerCtx>>
vars == <<accVars, uplVars, wrkVars, app>>

\* The accumulator's Run goroutine, as the uploader's only caller.
Accu == "accumulator"

Acc == INSTANCE Accumulator WITH Capacity <- AccCapacity

Upl == INSTANCE Uploader WITH
    Callers <- {Accu}, Payloads <- Seq(Payloads),
    Capacity <- UploaderCapacity, NextCapacity <- MaxConcurrentUploads,
    MaxAccepted <- MaxAccepted + Cardinality(Callers),
    caller <- uCaller, chan <- uChan, chanState <- uChanState, gate <- uGate,
    accepted <- uAccepted, run <- uRun, hand <- uHand, ctx <- uCtx

Pool == INSTANCE WorkerPool WITH
    Units <- Seq(Payloads), Capacity <- MaxConcurrentUploads,
    incoming <- next, incomingState <- nextState, ctx <- workerCtx,
    run <- workerRun, hand <- hands

Init ==
    /\ Acc!Init
    /\ Upl!Init
    /\ Pool!Init
    /\ app = "running"

-----------------------------------------------------------------------------
(* The accumulator by itself, with handlers calling its Enqueue at any     *)
(* time: api.Shutdown gives up after 5 seconds on requests under way.      *)

Ingest ==
    /\ \E c \in Callers : Acc!BeginEnqueue(c) \/ Acc!RefuseEnqueue(c) \/ Acc!FinishEnqueue(c)
    /\ UNCHANGED <<uplVars, wrkVars, app>>

Accumulate ==
    /\ \/ Acc!Start \/ Acc!Receive \/ Acc!BreakerTimeout \/ Acc!BeginShutdown
       \/ Acc!FinishSetShutdown \/ Acc!CloseInbox \/ Acc!FinishDrain \/ Acc!Return
    /\ UNCHANGED <<uplVars, wrkVars, app>>

-----------------------------------------------------------------------------
(* An offer: Execute lets it pass, and the accumulator is inside the       *)
(* uploader's Enqueue until that returns.                                  *)

Offered == IF offer = "item" THEN item ELSE current

OfferBegins ==
    /\ offer # "none"
    /\ breaker # "open"
    /\ Upl!BeginEnqueue(Accu)
    /\ UNCHANGED <<accVars, wrkVars, app>>

OfferAccepted ==
    /\ \/ Upl!Push(Accu, Offered) /\ UNCHANGED uplRunVars
       \/ Upl!HandOff(Accu, Offered)
    /\ Acc!OfferAccepted
    /\ UNCHANGED <<wrkVars, app>>

\* The uploader is full, or it is shutting down.
OfferRefused ==
    /\ \/ Upl!RejectFull(Accu) /\ UNCHANGED uplRunVars
       \/ Upl!RefuseEnqueue(Accu)
    /\ Acc!OfferRefused
    /\ UNCHANGED <<wrkVars, app>>

-----------------------------------------------------------------------------

Upload ==
    /\ Upl!RunStep
    /\ UNCHANGED <<accVars, wrkVars, app>>

StartWorker(w) ==
    /\ Pool!Start(w)
    /\ UNCHANGED <<accVars, uplVars, app>>

TakeWork(w) ==
    /\ Pool!Take(w)
    /\ Upl!TakeWork
    /\ UNCHANGED <<accVars, app>>

FinishWork(w) ==
    /\ Pool!Finish(w)
    /\ UNCHANGED <<accVars, uplVars, app>>

BeginDrain(w) ==
    /\ Pool!BeginDrain(w)
    /\ UNCHANGED <<accVars, uplVars, app>>

\* Mutation: a cancelled worker ends without draining.
FinishDrainAtOnce(w) ==
    /\ workerRun[w] = "draining"
    /\ hands[w] = <<>>
    /\ workerRun' = [workerRun EXCEPT ![w] = "done"]
    /\ UNCHANGED <<accVars, uplVars, hands, workerCtx, app>>

FinishDrain(w) ==
    /\ Pool!FinishDrain(w)
    /\ UNCHANGED <<accVars, uplVars, app>>

-----------------------------------------------------------------------------
(* The run group.  Its interrupts of goroutines that were never scheduled  *)
(* are the subject of module Lifecycle; here all of them have been.        *)

AllStarted ==
    run # "new" /\ uRun # "new" /\ \A w \in Workers : workerRun[w] # "new"

\* SIGTERM, SIGINT, Stop, or an actor that returned.
Stop ==
    /\ app = "running"
    /\ AllStarted
    /\ app' = "stopping api"
    /\ UNCHANGED <<accVars, uplVars, wrkVars>>

\* Mutation: the uploader is interrupted first.
StopAccumulatorLast ==
    /\ app = "stopping api"
    /\ ctx' = "cancelled"
    /\ UNCHANGED <<caller, chan, chanState, gate, accepted, run, current, item,
                   offer, breaker, emitted, received, kept, delivered>>
    /\ Upl!Cancel
    /\ app' = "stopping accumulator"
    /\ UNCHANGED wrkVars

\* api.Shutdown returned, in time or not.
StopAccumulator ==
    /\ app = "stopping api"
    /\ Acc!Cancel
    /\ app' = "stopping accumulator"
    /\ UNCHANGED <<uplVars, wrkVars>>

\* Mutation: the accumulator's Done is not waited for.
StopUploaderAtOnce ==
    /\ app = "stopping accumulator"
    /\ Upl!Cancel
    /\ app' = "stopping uploader"
    /\ UNCHANGED <<accVars, wrkVars>>

StopUploader ==
    /\ app = "stopping accumulator"
    /\ run = "done"
    /\ Upl!Cancel
    /\ app' = "stopping uploader"
    /\ UNCHANGED <<accVars, wrkVars>>

StopWorkers ==
    /\ app = "stopping uploader"
    /\ uRun = "done"
    /\ Pool!Cancel
    /\ app' = "stopping workers"
    /\ UNCHANGED <<accVars, uplVars>>

Stopped ==
    /\ app = "stopping workers"
    /\ \A w \in Workers : workerRun[w] = "done"
    /\ app' = "stopped"
    /\ UNCHANGED <<accVars, uplVars, wrkVars>>

WorkerStep(w) == StartWorker(w) \/ TakeWork(w) \/ FinishWork(w) \/ FinishDrain(w)

OfferReturns == OfferAccepted \/ OfferRefused

AppStep == StopAccumulator \/ StopUploader \/ StopWorkers \/ Stopped

Next ==
    \/ Ingest
    \/ Accumulate
    \/ OfferBegins \/ OfferReturns
    \/ Upload
    \/ \E w \in Workers : WorkerStep(w) \/ BeginDrain(w)
    \/ Stop
    \/ AppStep

(***************************************************************************)
(* Fairness.  Every goroutine that can take a step does, and a worker's    *)
(* work on a unit ends.  Nothing is assumed of the outcome of an offer:    *)
(* that the uploader has room again and again is a consequence.            *)
(***************************************************************************)
Fairness ==
    /\ WF_vars(Ingest /\ \E c \in Callers : Acc!FinishEnqueue(c))
    /\ WF_vars(Accumulate)
    /\ SF_vars(Acc!BeginShutdown /\ UNCHANGED <<uplVars, wrkVars, app>>)
    /\ WF_vars(OfferBegins)
    /\ WF_vars(OfferReturns)
    /\ WF_vars(Upload)
    /\ SF_vars(Upl!BeginShutdown /\ UNCHANGED <<accVars, wrkVars, app>>)
    /\ \A w \in Workers : WF_vars(WorkerStep(w)) /\ SF_vars(BeginDrain(w))
    /\ WF_vars(AppStep)

Spec == Init /\ [][Next]_vars /\ Fairness

-----------------------------------------------------------------------------
(* Properties. *)

\* The payloads of a sequence of chunks.
Unmerged(chunks) ==
    LET all[n \in 0..Len(chunks)] == IF n = 0 THEN <<>> ELSE all[n - 1] \o chunks[n]
    IN  all[Len(chunks)]

\* The order of the interrupts: the uploader never turns the accumulator
\* away because it is shutting down, which would leave it retrying for ever.
UploaderOutlivesAccumulator ==
    /\ uCaller[Accu] # "shutting down"
    /\ uCtx = "cancelled" => run = "done" /\ current = <<>> /\ item = <<>>

\* Across both stages nothing acknowledged is lost, doubled or reordered:
\* the chunks the workers took and those still in the uploader, unmerged,
\* followed by what the accumulator holds, are the payloads it was given.
EndToEnd ==
    /\ uAccepted = emitted
    /\ kept = Unmerged(taken \o next \o uHand \o uChan) \o current \o item
    /\ accepted = received \o chan

\* README.md: "Data is correctly flushed when Jiboia receives a SIGTERM,
\* which means no data is lost".  When the application has stopped, every
\* acknowledged payload with bytes has been worked on, and no handler is
\* about to be acknowledged.
StoppedMeansWorked ==
    app = "stopped" =>
        /\ Unmerged(taken) = Acc!WithBytes(accepted)
        /\ \A w \in Workers : hands[w] = <<>>
        /\ Acc!Sending = {}

-----------------------------------------------------------------------------
(* What the steps of the flow establish together: with the invariants of   *)
(* its stages, an inductive invariant (module FlowProofs).                 *)

\* How far the run group is says which contexts are cancelled, and which
\* goroutines it has seen end.
InterruptsInOrder ==
    /\ app \in {"running", "stopping api", "stopping accumulator",
                "stopping uploader", "stopping workers", "stopped"}
    /\ uCtx = "cancelled" <=> app \in {"stopping uploader", "stopping workers", "stopped"}
    /\ workerCtx = "cancelled" <=> app \in {"stopping workers", "stopped"}
    /\ uCtx = "cancelled" => run = "done"
    /\ workerCtx = "cancelled" => uRun = "done"
    /\ app = "stopped" => \A w \in Workers : workerRun[w] = "done"

\* A goroutine leaves its loop only when cancelled.
EndsWhenCancelled ==
    /\ uRun \notin {"new", "select"} => uCtx = "cancelled"
    /\ \A w \in Workers :
          /\ workerRun[w] \in {"draining", "done"} => workerCtx = "cancelled"
          /\ workerRun[w] = "done" => hands[w] = <<>> /\ next = <<>> /\ nextState = "closed"

\* The accumulator's accepted offers are the uploader's accepted payloads.
OffersAreAccepted ==
    /\ uAccepted = emitted
    /\ delivered = Unmerged(emitted)
    /\ uCaller[Accu] # "shutting down"

IInv ==
    /\ Acc!IInv
    /\ Upl!IInv
    /\ workerRun \in [Workers -> {"new", "select", "draining", "done"}]
    /\ hands \in [Workers -> Seq(Seq(Payloads))]
    /\ InterruptsInOrder
    /\ EndsWhenCancelled
    /\ OffersAreAccepted

-----------------------------------------------------------------------------
(* Seen from its callers, a flow is a stage like any other. *)

\* It takes payloads in while its accumulator does, and it has finished when
\* the run group is done with it.
Phase ==
    IF app = "stopped" THEN "finished" ELSE IF Acc!Phase = "open" THEN "open" ELSE "shut"

Abstract == INSTANCE DataFlow WITH
    accepted <- Acc!WithBytes(accepted), delivered <- Unmerged(taken), phase <- Phase

\* Two stages that keep the promise of a stage, chained by offers that can
\* be refused and by interrupts, keep it together: the workers take what was
\* accepted, in order, and the flow stops when they have taken it all.
ImplementsDataFlow == Abstract!Spec

-----------------------------------------------------------------------------
(* Liveness. *)

\* A stopping application stops: the chain of interrupts, each waiting for
\* its actor while the stages wait for each other, does not lock up.
StopCompletes == (app = "stopping api") ~> (app = "stopped")
=============================================================================
