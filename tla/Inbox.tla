------------------------------- MODULE Inbox -------------------------------
(***************************************************************************)
(* The way into a stage of a flow.  The accumulators and the uploader each *)
(* own a bounded channel (internalDataChan) that any number of goroutines  *)
(* fill through Enqueue, and that the stage's single Run goroutine empties *)
(* and, at shutdown, closes.  Enqueue never blocks on the channel, and a   *)
(* reader/writer mutex orders it against the close:                        *)
(*                                                                         *)
(*   Enqueue:   RLock; if shuttingDown, fail; try to send; RUnlock         *)
(*   shutdown:  Lock; shuttingDown = true; Unlock; close(internalDataChan) *)
(*                                                                         *)
(* A pending Lock holds new readers off (sync.RWMutex), so gate has three  *)
(* values: "open", "pending" while the writer waits for the readers inside,*)
(* and "shut" once shuttingDown is true.                                   *)
(*                                                                         *)
(* The stages EXTEND this module and add their Run goroutine.              *)
(***************************************************************************)
EXTENDS Naturals, Sequences

CONSTANTS Callers,      \* the goroutines that call Enqueue
          Payloads,     \* the data they enqueue
          Capacity,     \* capacity of internalDataChan
          MaxAccepted   \* bound: payloads accepted in one behaviour

ASSUME CapacityAssumption == Capacity \in Nat
ASSUME MaxAcceptedAssumption == MaxAccepted \in Nat

VARIABLES caller,    \* caller[c]: inside Enqueue ("sending") or its last result
          chan,      \* the contents of internalDataChan
          chanState, \* "open", or "closed" by close(internalDataChan)
          gate,      \* shutdownMutex and shuttingDown
          accepted   \* history: every payload whose Enqueue returned nil

inboxVars == <<caller, chan, chanState, gate, accepted>>

Results == {"idle", "ok", "full", "shutting down"}

InboxTypeOK ==
    /\ caller \in [Callers -> Results \cup {"sending"}]
    /\ chan \in Seq(Payloads)
    /\ Len(chan) <= Capacity
    /\ chanState \in {"open", "closed"}
    /\ gate \in {"open", "pending", "shut"}
    /\ accepted \in Seq(Payloads)

InboxInit ==
    /\ caller = [c \in Callers |-> "idle"]
    /\ chan = <<>>
    /\ chanState = "open"
    /\ gate = "open"
    /\ accepted = <<>>

Sending == {c \in Callers : caller[c] = "sending"}

-----------------------------------------------------------------------------
(* Mutations: forms some definitions below would take with a bug in them.  *)
(* No specification uses them; the properties are tried against them.      *)

\* No check of shuttingDown.
EnterUnchecked(c) ==
    /\ caller[c] # "sending"
    /\ Len(accepted) < MaxAccepted
    /\ caller' = [caller EXCEPT ![c] = "sending"]
    /\ UNCHANGED <<chan, chanState, gate, accepted>>

\* shuttingDown written before the lock is held.
RefuseEarly(c) ==
    /\ caller[c] # "sending"
    /\ gate # "open"
    /\ caller' = [caller EXCEPT ![c] = "shutting down"]
    /\ UNCHANGED <<chan, chanState, gate, accepted>>

\* shuttingDown set without waiting for the readers inside Enqueue.
SetShutdownNoWait ==
    /\ gate = "pending"
    /\ gate' = "shut"
    /\ UNCHANGED <<caller, chan, chanState, accepted>>

-----------------------------------------------------------------------------
(* Enqueue.  A caller that holds the read lock is at the select statement. *)

\* RLock, and shuttingDown was false.
Enter(c) ==
    /\ caller[c] # "sending"
    /\ gate = "open"
    /\ Len(accepted) < MaxAccepted
    /\ caller' = [caller EXCEPT ![c] = "sending"]
    /\ UNCHANGED <<chan, chanState, gate, accepted>>

\* RLock, and shuttingDown was true.
RefuseShuttingDown(c) ==
    /\ caller[c] # "sending"
    /\ gate = "shut"
    /\ caller' = [caller EXCEPT ![c] = "shutting down"]
    /\ UNCHANGED <<chan, chanState, gate, accepted>>

\* The send case of the select.  Nothing here looks at chanState: on a closed
\* channel this send is a panic, which only the mutex keeps from happening.
Push(c, d) ==
    /\ caller[c] = "sending"
    /\ Len(chan) < Capacity
    /\ chan' = Append(chan, d)
    /\ accepted' = Append(accepted, d)
    /\ caller' = [caller EXCEPT ![c] = "ok"]
    /\ UNCHANGED <<chanState, gate>>

\* The default case of the select.  An unbuffered channel takes this case
\* whenever the receiver is not parked.
RejectFull(c) ==
    /\ caller[c] = "sending"
    /\ Len(chan) >= Capacity
    /\ caller' = [caller EXCEPT ![c] = "full"]
    /\ UNCHANGED <<chan, chanState, gate, accepted>>

-----------------------------------------------------------------------------
(* The steps of the Run goroutine on the channel and the mutex. *)

Pop ==
    /\ chan # <<>>
    /\ chan' = Tail(chan)
    /\ UNCHANGED <<caller, chanState, gate, accepted>>

LockGate ==
    /\ gate' = "pending"
    /\ UNCHANGED <<caller, chan, chanState, accepted>>

SetShutdown ==
    /\ gate = "pending"
    /\ Sending = {}
    /\ gate' = "shut"
    /\ UNCHANGED <<caller, chan, chanState, accepted>>

CloseChan ==
    /\ chanState' = "closed"
    /\ UNCHANGED <<caller, chan, gate, accepted>>
=============================================================================
