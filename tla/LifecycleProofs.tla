-------------------------- MODULE LifecycleProofs --------------------------
(***************************************************************************)
(* Proofs about Lifecycle for any number of flows and workers, in whatever *)
(* order goroutines are scheduled and return.                              *)
(***************************************************************************)
EXTENDS Lifecycle, Integers, SequenceTheorems, TLAPS

\* Actors are numbered as they were added.
LEMMA Numbers == Len(Actors) \in Nat /\ Ids = 1..Len(Actors) /\ Stages \subseteq Ids
BY ActorsAssumption, LenProperties DEF Ids, Stages

LEMMA InitIInv == Init => IInv
BY Numbers DEF Init, IInv, TypeOK, ToldInTurn, TurnWaits, ClosedMeansReturned

\* The step of a goroutine: it begins, or it returns, and closes its channel
\* only then.
GoroutineStep(i) ==
    /\ UNCHANGED <<told, group, turn, waitOn>>
    /\ \/ /\ actor[i] = "spawned"
          /\ actor' = [actor EXCEPT ![i] = "running"]
          /\ doneChan' \in {doneChan, [doneChan EXCEPT ![i] = "open"]}
       \/ /\ actor[i] = "running"
          /\ actor' = [actor EXCEPT ![i] = "returned"]
          /\ doneChan' \in {doneChan, [doneChan EXCEPT ![i] = "closed"]}

LEMMA GoroutineStepKeeps ==
    ASSUME IInv, NEW i \in Ids, GoroutineStep(i)
    PROVE  IInv'
<1>1. TypeOK'
    BY DEF GoroutineStep, IInv, TypeOK
<1>2. ToldInTurn'
    BY DEF GoroutineStep, IInv, ToldInTurn
<1>3. \A j \in Ids : doneChan[j] = "closed" => doneChan'[j] = "closed"
    BY DEF GoroutineStep, IInv, TypeOK, ClosedMeansReturned
<1>4. TurnWaits'
    BY <1>3, Numbers DEF GoroutineStep, IInv, TurnWaits
<1>5. ClosedMeansReturned'
    BY DEF GoroutineStep, IInv, TypeOK, ClosedMeansReturned
<1>6. QED
    BY <1>1, <1>2, <1>4, <1>5 DEF IInv

\* An interrupt is called in its turn.
LEMMA InterruptKeeps ==
    ASSUME IInv, NEW i \in Ids, turn = i, told' = [told EXCEPT ![i] = "yes"],
           UNCHANGED <<actor, doneChan>>,
           \/ UNCHANGED <<group, turn>> /\ waitOn' \in {"nil", "channel"}
           \/ NextTurn(i) /\ i \notin Stages
    PROVE  IInv'
<1>1. turn' \in {i, i + 1} /\ (turn' = i + 1 => i # Len(Actors))
    BY DEF NextTurn
<1>2. TypeOK'
    BY <1>1, Numbers DEF NextTurn, IInv, TypeOK
<1>3. ToldInTurn'
    BY <1>1, Numbers DEF NextTurn, IInv, TypeOK, ToldInTurn
<1>4. TurnWaits'
    BY Numbers DEF NextTurn, IInv, TurnWaits
<1>5. QED
    BY <1>2, <1>3, <1>4 DEF IInv, ClosedMeansReturned

\* The turn passes a stage whose channel is closed.
LEMMA StageDoneKeeps ==
    ASSUME IInv, NEW i \in Ids, StageDone(i)
    PROVE  IInv'
<1>1. /\ turn = i /\ doneChan[i] = "closed" /\ NextTurn(i)
      /\ UNCHANGED <<actor, doneChan, told>>
    BY DEF StageDone
<1>2. TypeOK'
    BY <1>1, Numbers DEF NextTurn, IInv, TypeOK
<1>3. ToldInTurn'
    BY <1>1, Numbers DEF NextTurn, IInv, ToldInTurn
<1>4. TurnWaits'
    BY <1>1, Numbers DEF NextTurn, IInv, TurnWaits
<1>5. QED
    BY <1>1, <1>2, <1>3, <1>4 DEF IInv, ClosedMeansReturned

LEMMA IInvStep == IInv /\ [Next]_vars => IInv'
<1> SUFFICES ASSUME IInv, [Next]_vars PROVE IInv'
    OBVIOUS
<1>1. ASSUME NEW i \in Ids, Goes(i) \/ Signal(i) \/ ServeFails(i) PROVE IInv'
  <2>1. GoroutineStep(i)
      BY <1>1 DEF Goes, Begin, Signal, ServeFails, ServeEnds, StageEnds, ReturnOf, GoroutineStep
  <2>2. QED
      BY <2>1, GoroutineStepKeeps
<1>2. CASE FirstReturned
    BY <1>2, Numbers, ActorsAssumption
       DEF FirstReturned, IInv, TypeOK, ToldInTurn, TurnWaits, ClosedMeansReturned
<1>3. ASSUME NEW i \in Ids, InterruptOther(i) PROVE IInv'
    BY <1>3, InterruptKeeps DEF InterruptOther, Interrupting
<1>4. ASSUME NEW i \in Ids, InterruptStage(i) PROVE IInv'
    BY <1>4, InterruptKeeps DEF InterruptStage, Interrupting
<1>5. ASSUME NEW i \in Ids, StageDone(i) PROVE IInv'
    BY <1>5, StageDoneKeeps
<1>6. CASE AllReturned
    BY <1>6 DEF AllReturned, IInv, TypeOK, ToldInTurn, TurnWaits, ClosedMeansReturned
<1>7. CASE UNCHANGED vars
    BY <1>7 DEF vars, IInv, TypeOK, ToldInTurn, TurnWaits, ClosedMeansReturned
<1>8. QED
    BY <1>1, <1>2, <1>3, <1>4, <1>5, <1>6, <1>7 DEF Next, GroupStep

\* The inductive invariant holds of every execution.
THEOREM LifecycleInvariant == Spec => []IInv
BY InitIInv, IInvStep, PTL DEF Spec

\* Whenever a stop comes, also while goroutines have yet to be scheduled, no
\* stage is cancelled before all the stages in front of it have ended: the
\* group's interrupts wait for Done one after another.
THEOREM StagesStopInOrder == Spec => []StoppedInOrder
<1>1. ASSUME IInv, NEW i \in Stages, NEW j \in Stages, Context[i] < Context[j], Cancelled(j)
      PROVE  actor[i] = "returned"
  <2>1. PICK k \in Stages : Context[k] = Context[j] /\ told[k] = "yes"
      BY <1>1 DEF Cancelled
  <2>2. /\ i \in Ids /\ k \in Ids /\ i \in Int /\ k \in Int
        /\ Context[i] \in Int /\ Context[k] \in Int
      BY Numbers, ContextAssumption
  <2>3. i < k
    <3>1. k # i /\ ~(k < i)
        BY <1>1, <2>1, <2>2, ContextOrderAssumption
    <3>2. QED
        BY <2>2, <3>1
  <2>4. k <= turn /\ turn \in Int
      BY <1>1, <2>1, <2>2, Numbers DEF IInv, TypeOK, ToldInTurn
  <2>5. doneChan[i] = "closed"
      BY <1>1, <2>2, <2>3, <2>4 DEF IInv, TurnWaits
  <2>6. QED
      BY <1>1, <2>2, <2>5 DEF IInv, ClosedMeansReturned
<1>2. IInv => StoppedInOrder
    BY <1>1 DEF StoppedInOrder
<1>3. QED
    BY <1>2, LifecycleInvariant, PTL
=============================================================================
