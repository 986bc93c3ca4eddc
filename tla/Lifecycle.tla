------------------------------ MODULE Lifecycle ------------------------------
(***************************************************************************)
(* The application's actors in a run group (oklog/run): the signal actor,  *)
(* the API, and the stages of the flows in the order addFlowActorToRunGroup *)
(* adds them.  Run starts one goroutine per actor and waits for the first  *)
(* to return; then it calls every actor's interrupt, one after another in  *)
(* the order added, and waits for all the goroutines.                      *)
(*                                                                         *)
(* The interrupt of a stage cancels its context and waits on the channel   *)
(* Done() returns.  That channel is made by the stage's own Run, so before *)
(* the goroutine has been scheduled Done() returns nil, on which a receive *)
(* blocks for ever.                                                        *)
(*                                                                         *)
(* How a stage ends once cancelled is the subject of Accumulator, Uploader *)
(* and Worker; here it is one step, possible when what feeds it has ended. *)
(***************************************************************************)
EXTENDS Naturals, Sequences

CONSTANTS Actors,   \* the kinds of the actors, in the order they were added
          Context,  \* Context[i]: the context of stage i; workers share theirs
          MayHang   \* workers whose storage or queue may never answer

Kinds == {"signal", "api", "stage"}

Ids == DOMAIN Actors

ASSUME ActorsAssumption == Actors \in Seq(Kinds) /\ Len(Actors) > 0
ASSUME ContextAssumption == Context \in [Ids -> Ids]
\* A context is made before its actors are added, and theirs before the next.
ASSUME ContextOrderAssumption == \A i, j \in Ids : i < j => Context[i] <= Context[j]
ASSUME MayHangAssumption == MayHang \subseteq {i \in Ids : Actors[i] = "stage"}

VARIABLES actor,     \* actor[i]: the goroutine of actor i
          doneChan,  \* doneChan[i]: "nil" until Run made it, then "open", "closed"
          told,      \* told[i]: the interrupt of i has been called
          group,     \* "waiting" for the first return, "interrupting", "collecting", "returned"
          turn,      \* the actor whose interrupt is running
          waitOn     \* what that interrupt received from Done(): "nothing" yet,
                     \* the "nil" channel, or the stage's "channel"

vars == <<actor, doneChan, told, group, turn, waitOn>>

Stages == {i \in Ids : Actors[i] = "stage"}

TypeOK ==
    /\ actor \in [Ids -> {"spawned", "running", "returned"}]
    /\ doneChan \in [Ids -> {"nil", "open", "closed"}]
    /\ told \in [Ids -> {"no", "yes"}]
    /\ group \in {"waiting", "interrupting", "collecting", "returned"}
    /\ turn \in 0..Len(Actors)
    /\ waitOn \in {"nothing", "nil", "channel"}

Init ==
    /\ actor = [i \in Ids |-> "spawned"]
    /\ doneChan = [i \in Ids |-> "nil"]
    /\ told = [i \in Ids |-> "no"]
    /\ group = "waiting"
    /\ turn = 0
    /\ waitOn = "nothing"

-----------------------------------------------------------------------------
(* The goroutines. *)

\* The scheduler runs the goroutine of an actor for the first time; that of
\* a stage makes its doneChan.
Begin(i) ==
    /\ actor[i] = "spawned"
    /\ actor' = [actor EXCEPT ![i] = "running"]
    /\ doneChan' = IF i \in Stages THEN [doneChan EXCEPT ![i] = "open"] ELSE doneChan
    /\ UNCHANGED <<told, group, turn, waitOn>>

ReturnOf(i) ==
    /\ actor[i] = "running"
    /\ actor' = [actor EXCEPT ![i] = "returned"]
    /\ UNCHANGED <<told, group, turn, waitOn>>

\* A signal arrived, or Stop was called, possibly before Start.
Signal(i) ==
    /\ Actors[i] = "signal"
    /\ ReturnOf(i)
    /\ UNCHANGED doneChan

\* The port cannot be listened on, or Serve fails.
ServeFails(i) ==
    /\ Actors[i] = "api"
    /\ told[i] = "no"
    /\ ReturnOf(i)
    /\ UNCHANGED doneChan

\* ListenAndServe returns since the server has been shut down.
ServeEnds(i) ==
    /\ Actors[i] = "api"
    /\ told[i] = "yes"
    /\ ReturnOf(i)
    /\ UNCHANGED doneChan

Cancelled(i) == \E j \in Stages : Context[j] = Context[i] /\ told[j] = "yes"

\* Mutation: doneChan is left open.
StageEndsUnclosed(i) ==
    /\ i \in Stages
    /\ Cancelled(i)
    /\ ReturnOf(i)
    /\ UNCHANGED doneChan

\* A cancelled stage ends, and its deferred close(doneChan) runs.  (A worker
\* ends when the uploader has closed its channel, and an accumulator when
\* the uploader took its last chunk: StoppedInOrder is what makes it so.)
StageEnds(i) ==
    /\ i \in Stages
    /\ Cancelled(i)
    /\ ReturnOf(i)
    /\ doneChan' = [doneChan EXCEPT ![i] = "closed"]

-----------------------------------------------------------------------------
(* run.Group.Run. *)

Interrupting(i) ==
    /\ group = "interrupting"
    /\ turn = i
    /\ waitOn = "nothing"

\* After the last interrupt the group waits for the goroutines.
NextTurn(i) ==
    /\ waitOn' = "nothing"
    /\ IF i = Len(Actors)
         THEN group' = "collecting" /\ UNCHANGED turn
         ELSE turn' = i + 1 /\ UNCHANGED group

FirstReturned ==
    /\ group = "waiting"
    /\ \E i \in Ids : actor[i] = "returned"
    /\ group' = "interrupting"
    /\ turn' = 1
    /\ UNCHANGED <<actor, doneChan, told, waitOn>>

\* The interrupts of the signal actor (stopFunc) and of the API (Shutdown,
\* within 5 seconds) return by themselves.
InterruptOther(i) ==
    /\ Interrupting(i)
    /\ i \notin Stages
    /\ told' = [told EXCEPT ![i] = "yes"]
    /\ NextTurn(i)
    /\ UNCHANGED <<actor, doneChan>>

\* Mutation: the interrupt cancels without waiting for Done.
InterruptStageNoWait(i) ==
    /\ Interrupting(i)
    /\ i \in Stages
    /\ told' = [told EXCEPT ![i] = "yes"]
    /\ NextTurn(i)
    /\ UNCHANGED <<actor, doneChan>>

\* cancel(), and Done() evaluated.
InterruptStage(i) ==
    /\ Interrupting(i)
    /\ i \in Stages
    /\ told' = [told EXCEPT ![i] = "yes"]
    /\ waitOn' = IF doneChan[i] = "nil" THEN "nil" ELSE "channel"
    /\ UNCHANGED <<actor, doneChan, group, turn>>

\* The receive on that channel; none on the nil channel ever returns.
StageDone(i) ==
    /\ turn = i
    /\ waitOn = "channel"
    /\ doneChan[i] = "closed"
    /\ NextTurn(i)
    /\ UNCHANGED <<actor, doneChan, told>>

AllReturned ==
    /\ group = "collecting"
    /\ \A i \in Ids : actor[i] = "returned"
    /\ group' = "returned"
    /\ UNCHANGED <<actor, doneChan, told, turn, waitOn>>

GroupStep ==
    \/ FirstReturned
    \/ \E i \in Ids : InterruptOther(i) \/ InterruptStage(i) \/ StageDone(i)
    \/ AllReturned

Goes(i) == Begin(i) \/ ServeEnds(i) \/ StageEnds(i)

\* What an actor is sure to do.
Surely(i) == Begin(i) \/ ServeEnds(i) \/ (i \notin MayHang /\ StageEnds(i))

Next ==
    \/ \E i \in Ids : Goes(i) \/ Signal(i) \/ ServeFails(i)
    \/ GroupStep

(***************************************************************************)
(* Fairness: every goroutine is scheduled at some time, and a cancelled    *)
(* stage ends (Flow's StopCompletes), but for a worker whose storage never *)
(* answers (Worker's Hanging).  No signal needs to arrive, and serving     *)
(* need not fail.  The signal actor itself returns once stopFunc has been  *)
(* called, which is the first interrupt.                                   *)
(***************************************************************************)
Fairness ==
    /\ \A i \in Ids : WF_vars(Surely(i)) /\ WF_vars(told[i] = "yes" /\ Signal(i))
    /\ WF_vars(GroupStep)

Spec == Init /\ [][Next]_vars /\ Fairness

-----------------------------------------------------------------------------
(* Properties. *)

\* Stages are stopped from the entrypoint on: when a stage is cancelled, the
\* ones before it, of its flow and of the flows before, have ended, so that
\* nothing more will be sent to it.
StoppedInOrder ==
    \A i, j \in Stages :
        Context[i] < Context[j] /\ Cancelled(j) => actor[i] = "returned"

(***************************************************************************)
(* The inductive invariant behind it: no interrupt is called before its    *)
(* turn, the turn passes a stage only when its channel is closed, and only *)
(* a goroutine that returns closes it.                                     *)
(***************************************************************************)

ToldInTurn ==
    /\ group = "waiting" => turn = 0
    /\ \A i \in Ids : told[i] = "yes" => i <= turn

TurnWaits ==
    \A i \in Stages : i < turn \/ group \in {"collecting", "returned"} => doneChan[i] = "closed"

ClosedMeansReturned == \A i \in Ids : doneChan[i] = "closed" => actor[i] = "returned"

IInv == TypeOK /\ ToldInTurn /\ TurnWaits /\ ClosedMeansReturned

\* The group is waiting for a stage that may hang.
HeldUp == turn \in MayHang /\ waitOn = "channel"

\* When every goroutine was running at the first interrupt, Start returns,
\* unless the group waits for ever for a worker that hangs.  Nothing else
\* holds it up; but what was added after that worker, the flows behind its
\* own, is then never told to stop.
StopsOnceStarted ==
    \/ (group = "interrupting" /\ turn = 1 /\ \A i \in Ids : actor[i] # "spawned")
           ~> (group = "returned")
    \/ <>[]HeldUp

\* README.md promises that data is flushed on SIGTERM (graceful shutdown):
\* a stop, whenever it comes, ends with Start returning.
EveryStopCompletes == (group = "interrupting") ~> (group = "returned")
=============================================================================
