----------------------------- MODULE WorkerPool -----------------------------
(***************************************************************************)
(* What the workers of a flow are to the uploader that feeds them and to   *)
(* the application that stops them: goroutines that take units from one    *)
(* bounded channel, each one at a time, and that when cancelled end only   *)
(* with the channel closed and empty and nothing in hand.  What a worker   *)
(* does with a unit, and how it comes out, is left open.                   *)
(*                                                                         *)
(* Worker implements it; Flow is composed with it in Worker's place.       *)
(***************************************************************************)
EXTENDS Naturals, Sequences

CONSTANTS Workers, Units, Capacity

VARIABLES incoming,       \* contents of incomingWorkChan
          incomingState,  \* "open" or "closed"
          ctx,            \* the workers' shared context
          run,            \* run[w]: where the Run goroutine of w is
          hand            \* hand[w]: the unit of w, if any

vars == <<incoming, incomingState, ctx, run, hand>>

Init ==
    /\ incoming = <<>>
    /\ incomingState = "open"
    /\ ctx = "live"
    /\ run = [w \in Workers |-> "new"]
    /\ hand = [w \in Workers |-> <<>>]

Feed(u) ==
    /\ incomingState = "open"
    /\ Len(incoming) < Capacity
    /\ incoming' = Append(incoming, u)
    /\ UNCHANGED <<incomingState, ctx, run, hand>>

Close ==
    /\ incomingState = "open"
    /\ incomingState' = "closed"
    /\ UNCHANGED <<incoming, ctx, run, hand>>

Cancel ==
    /\ ctx = "live"
    /\ ctx' = "cancelled"
    /\ UNCHANGED <<incoming, incomingState, run, hand>>

Start(w) ==
    /\ run[w] = "new"
    /\ run' = [run EXCEPT ![w] = "select"]
    /\ UNCHANGED <<incoming, incomingState, ctx, hand>>

Take(w) ==
    /\ run[w] \in {"select", "draining"}
    /\ hand[w] = <<>>
    /\ incoming # <<>>
    /\ incoming' = Tail(incoming)
    /\ hand' = [hand EXCEPT ![w] = <<Head(incoming)>>]
    /\ UNCHANGED <<incomingState, ctx, run>>

\* work returns: the unit is in the storages, or its failure is logged.
Finish(w) ==
    /\ hand[w] # <<>>
    /\ hand' = [hand EXCEPT ![w] = <<>>]
    /\ UNCHANGED <<incoming, incomingState, ctx, run>>

BeginDrain(w) ==
    /\ run[w] = "select"
    /\ hand[w] = <<>>
    /\ ctx = "cancelled"
    /\ run' = [run EXCEPT ![w] = "draining"]
    /\ UNCHANGED <<incoming, incomingState, ctx, hand>>

FinishDrain(w) ==
    /\ run[w] = "draining"
    /\ hand[w] = <<>>
    /\ incoming = <<>>
    /\ incomingState = "closed"
    /\ run' = [run EXCEPT ![w] = "done"]
    /\ UNCHANGED <<incoming, incomingState, ctx, hand>>

Next ==
    \/ \E u \in Units : Feed(u)
    \/ Close
    \/ Cancel
    \/ \E w \in Workers :
          Start(w) \/ Take(w) \/ Finish(w) \/ BeginDrain(w) \/ FinishDrain(w)

Spec == Init /\ [][Next]_vars
=============================================================================
