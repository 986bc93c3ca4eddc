--------------------------- MODULE UploaderProofs ---------------------------
(***************************************************************************)
(* Proofs about Uploader for any number of callers, any payloads and any   *)
(* capacities.  The argument is one inductive invariant, IInv: the mutex   *)
(* (GateFollowsRun, ShutMeansNoReaders) and the order of the steps of      *)
(* shutdown (ClosesFollowRun, HandFollowsRun) fix what each place of the   *)
(* Run goroutine means for the channels, and Conservation follows a        *)
(* payload through them.  The folders of the work units come last.         *)
(***************************************************************************)
EXTENDS FilePather, SeqLemmas

\* The constructor and the make(chan) calls establish the invariant.
LEMMA InitIInv == Init => IInv
<1> SUFFICES ASSUME Init PROVE IInv
    OBVIOUS
<1> USE DEF Init, InboxInit
<1>1. <<>> \in Seq(Payloads) /\ Len(<<>>) = 0
    BY EmptySeq
<1>2. TypeOK
    BY CapacityAssumption, NextCapacityAssumption, <1>1
       DEF TypeOK, InboxTypeOK, Results, RunPoints
<1>3. GateFollowsRun /\ ClosesFollowRun /\ HandFollowsRun
    BY DEF GateFollowsRun, ClosesFollowRun, HandFollowsRun
<1>4. ShutMeansNoReaders /\ RefusalMeansShut
    BY DEF ShutMeansNoReaders, RefusalMeansShut
<1>5. Conservation
    BY <1>1, ConcatEmptySeq DEF Conservation
<1>6. QED
    BY <1>2, <1>3, <1>4, <1>5 DEF IInv

(***************************************************************************)
(* Types.                                                                  *)
(***************************************************************************)

\* The sequences of the model, and their lengths.
LEMMA Queues ==
    ASSUME TypeOK
    PROVE  /\ chan \in Seq(Payloads) /\ accepted \in Seq(Payloads)
           /\ hand \in Seq(Payloads)
           /\ next \in Seq(Payloads) /\ taken \in Seq(Payloads)
           /\ Len(chan) \in Nat /\ Len(next) \in Nat
BY LenProperties DEF TypeOK, InboxTypeOK

\* Every step of the callers, the Run goroutine and the environment keeps
\* the channels within their capacities and the variables in their types.
LEMMA TypeStep ==
    ASSUME TypeOK, [Next]_vars
    PROVE  TypeOK'
<1>0. /\ chan \in Seq(Payloads) /\ accepted \in Seq(Payloads)
      /\ hand \in Seq(Payloads)
      /\ next \in Seq(Payloads) /\ taken \in Seq(Payloads)
      /\ Len(chan) \in Nat /\ Len(next) \in Nat
    BY Queues
<1>1. ASSUME NEW c \in Callers, BeginEnqueue(c) PROVE TypeOK'
    BY <1>1 DEF BeginEnqueue, Enter, runVars, TypeOK, InboxTypeOK, Results
<1>2. ASSUME NEW c \in Callers, RefuseEnqueue(c) PROVE TypeOK'
    BY <1>2 DEF RefuseEnqueue, RefuseShuttingDown, runVars, TypeOK,
       InboxTypeOK, Results
<1>3. ASSUME NEW c \in Callers, FinishEnqueue(c) PROVE TypeOK'
  <2>1. ASSUME NEW d \in Payloads, Push(c, d), UNCHANGED runVars PROVE TypeOK'
    <3>1. /\ Append(chan, d) \in Seq(Payloads)
          /\ Len(Append(chan, d)) = Len(chan) + 1
          /\ Append(accepted, d) \in Seq(Payloads)
        BY <1>0, AppendProperties
    <3>2. InboxTypeOK'
      <4>1. chan' \in Seq(Payloads) /\ accepted' \in Seq(Payloads)
          BY <2>1, <3>1 DEF Push
      <4>2. Len(chan') <= Capacity
          BY <1>0, <2>1, <3>1, CapacityAssumption DEF Push
      <4>3. caller' \in [Callers -> Results \cup {"sending"}]
          BY <2>1 DEF Push, TypeOK, InboxTypeOK, Results
      <4>4. QED
          BY <2>1, <4>1, <4>2, <4>3 DEF Push, TypeOK, InboxTypeOK
    <3>3. QED
        BY <2>1, <3>2 DEF runVars, TypeOK
  <2>2. ASSUME NEW d \in Payloads, HandOff(c, d) PROVE TypeOK'
    <3>1. Append(accepted, d) \in Seq(Payloads)
        BY <1>0, AppendProperties
    <3>2. <<d>> \in Seq(Payloads) /\ Len(<<d>>) = 1
        BY Singleton
    <3>3. /\ accepted' = Append(accepted, d)
          /\ caller' = [caller EXCEPT ![c] = "ok"]
          /\ UNCHANGED <<chan, chanState, gate>>
        BY <2>2 DEF HandOff
    <3>4. InboxTypeOK'
      <4>1. caller' \in [Callers -> Results \cup {"sending"}]
          BY <3>3 DEF TypeOK, InboxTypeOK, Results
      <4>2. QED
          BY <3>1, <3>3, <4>1 DEF TypeOK, InboxTypeOK
    <3>5. hand' \in Seq(Payloads) /\ Len(hand') <= 1
        BY <2>2, <3>2 DEF HandOff
    <3>6. QED
        BY <2>2, <3>4, <3>5 DEF HandOff, TypeOK
  <2>3. CASE RejectFull(c) /\ UNCHANGED runVars
      BY <2>3 DEF RejectFull, runVars, TypeOK, InboxTypeOK, Results
  <2>4. QED
      BY <1>3, <2>1, <2>2, <2>3 DEF FinishEnqueue
<1>4. CASE Start
    BY <1>4 DEF Start, inboxVars, TypeOK, InboxTypeOK, RunPoints
<1>5. CASE Receive
  <2>1. /\ Head(chan) \in Payloads
        /\ Tail(chan) \in Seq(Payloads)
        /\ Len(Tail(chan)) = Len(chan) - 1
      BY <1>0, <1>5, HeadThenTail DEF Receive, Pop
  <2>2. InboxTypeOK'
      BY <1>0, <1>5, <2>1, CapacityAssumption
         DEF Receive, Pop, TypeOK, InboxTypeOK
  <2>3. <<Head(chan)>> \in Seq(Payloads) /\ Len(<<Head(chan)>>) = 1
      BY <2>1, Singleton
  <2>4. hand' \in Seq(Payloads) /\ Len(hand') <= 1
      BY <1>5, <2>3 DEF Receive
  <2>5. QED
      BY <1>5, <2>2, <2>4 DEF Receive, TypeOK
<1>6. CASE SendWorkToNext
  <2>1. Head(hand) \in Payloads
      BY <1>0, <1>6, HeadThenTail DEF SendWorkToNext
  <2>2. <<>> \in Seq(Payloads) /\ Len(<<>>) = 0
      BY EmptySeq
  <2>3. /\ Append(next, Head(hand)) \in Seq(Payloads)
        /\ Len(Append(next, Head(hand))) = Len(next) + 1
      BY <1>0, <2>1, AppendProperties
  <2>4. InboxTypeOK'
      BY <1>6 DEF SendWorkToNext, inboxVars, TypeOK, InboxTypeOK
  <2>5. QED
      BY <1>0, <1>6, <2>2, <2>3, <2>4, NextCapacityAssumption
         DEF SendWorkToNext, TypeOK
<1>7. CASE BeginShutdown
    BY <1>7 DEF BeginShutdown, LockGate, TypeOK, InboxTypeOK, RunPoints
<1>8. CASE FinishSetShutdown
    BY <1>8 DEF FinishSetShutdown, SetShutdown, TypeOK, InboxTypeOK, RunPoints
<1>9. CASE CloseInbox
    BY <1>9 DEF CloseInbox, CloseChan, TypeOK, InboxTypeOK, RunPoints
<1>10. CASE CloseNext
    BY <1>10 DEF CloseNext, inboxVars, TypeOK, InboxTypeOK, RunPoints
<1>11. CASE Cancel
    BY <1>11 DEF Cancel, inboxVars, TypeOK, InboxTypeOK
<1>12. CASE TakeWork
  <2>1. /\ Head(next) \in Payloads
        /\ Tail(next) \in Seq(Payloads)
        /\ Len(Tail(next)) = Len(next) - 1
      BY <1>0, <1>12, HeadThenTail DEF TakeWork
  <2>2. Append(taken, Head(next)) \in Seq(Payloads)
      BY <1>0, <2>1, AppendProperties
  <2>3. InboxTypeOK'
      BY <1>12 DEF TakeWork, inboxVars, TypeOK, InboxTypeOK
  <2>4. QED
      BY <1>0, <1>12, <2>1, <2>2, <2>3, NextCapacityAssumption
         DEF TakeWork, TypeOK
<1>13. CASE UNCHANGED vars
    BY <1>13 DEF vars, TypeOK, InboxTypeOK
<1>14. QED
    BY <1>1, <1>2, <1>3, <1>4, <1>5, <1>6, <1>7, <1>8, <1>9, <1>10, <1>11,
       <1>12, <1>13 DEF Next, RunStep

(***************************************************************************)
(* Control: the mutex, the closes and the place of the Run goroutine.      *)
(***************************************************************************)

\* Under the write lock there are no readers, and the places of shutdown
\* come in their order.
LEMMA ControlStep ==
    ASSUME IInv, [Next]_vars
    PROVE  /\ GateFollowsRun' /\ ClosesFollowRun' /\ HandFollowsRun'
           /\ ShutMeansNoReaders' /\ RefusalMeansShut'
<1> DEFINE Control == /\ GateFollowsRun /\ ClosesFollowRun /\ HandFollowsRun
                      /\ ShutMeansNoReaders /\ RefusalMeansShut
<1> USE DEF GateFollowsRun, ClosesFollowRun, HandFollowsRun,
            ShutMeansNoReaders, RefusalMeansShut, Sending
<1>0. TypeOK /\ Control
    BY DEF IInv
<1>t. /\ caller \in [Callers -> Results \cup {"sending"}]
      /\ run \in RunPoints /\ gate \in {"open", "pending", "shut"}
    BY <1>0 DEF TypeOK, InboxTypeOK
<1>1. ASSUME NEW c \in Callers, BeginEnqueue(c) PROVE Control'
    BY <1>0, <1>t, <1>1 DEF BeginEnqueue, Enter, runVars
<1>2. ASSUME NEW c \in Callers, RefuseEnqueue(c) PROVE Control'
    BY <1>0, <1>t, <1>2 DEF RefuseEnqueue, RefuseShuttingDown, runVars
<1>3. ASSUME NEW c \in Callers, FinishEnqueue(c) PROVE Control'
  <2>1. ASSUME NEW d \in Payloads, Push(c, d), UNCHANGED runVars PROVE Control'
    <3>1. gate # "shut"
        BY <1>0, <2>1 DEF Push
    <3>2. run # "done"
        BY <1>0, <1>t, <3>1
    <3>3. QED
        BY <1>0, <1>t, <2>1, <3>1, <3>2 DEF Push, runVars
  <2>2. ASSUME NEW d \in Payloads, HandOff(c, d) PROVE Control'
    <3>1. /\ run = "select" /\ caller' = [caller EXCEPT ![c] = "ok"]
          /\ UNCHANGED <<chan, chanState, gate, run, nextState>>
        BY <2>2 DEF HandOff
    <3>2. QED
        BY <1>0, <1>t, <3>1
  <2>3. CASE RejectFull(c) /\ UNCHANGED runVars
      BY <1>0, <1>t, <2>3 DEF RejectFull, runVars
  <2>4. QED
      BY <1>3, <2>1, <2>2, <2>3 DEF FinishEnqueue
<1>4. CASE Start
    BY <1>0, <1>4 DEF Start, inboxVars
<1>5. CASE Receive
  <2>1. /\ run \in {"select", "draining"}
        /\ UNCHANGED <<caller, chanState, gate, run, nextState>>
      BY <1>5 DEF Receive, Pop
  <2>2. QED
      BY <1>0, <2>1
<1>6. CASE SendWorkToNext
    BY <1>0, <1>6 DEF SendWorkToNext, inboxVars
<1>7. CASE BeginShutdown
    BY <1>0, <1>7 DEF BeginShutdown, LockGate
<1>8. CASE FinishSetShutdown
    BY <1>0, <1>8 DEF FinishSetShutdown, SetShutdown
<1>9. CASE CloseInbox
    BY <1>0, <1>9 DEF CloseInbox, CloseChan
<1>10. CASE CloseNext
    BY <1>0, <1>10 DEF CloseNext, inboxVars
<1>11. CASE Cancel
    BY <1>0, <1>11 DEF Cancel, inboxVars
<1>12. CASE TakeWork
    BY <1>0, <1>12 DEF TakeWork, inboxVars
<1>13. CASE UNCHANGED vars
    BY <1>0, <1>13 DEF vars
<1>14. QED
    BY <1>1, <1>2, <1>3, <1>4, <1>5, <1>6, <1>7, <1>8, <1>9, <1>10, <1>11,
       <1>12, <1>13 DEF Next, RunStep

(***************************************************************************)
(* Conservation.                                                           *)
(***************************************************************************)

\* Every step moves a payload from the end of one queue of the pipeline to
\* the start of the one before it, or adds an accepted one at its end.
LEMMA ConservationStep ==
    ASSUME IInv, [Next]_vars
    PROVE  Conservation'
<1>0. /\ chan \in Seq(Payloads) /\ accepted \in Seq(Payloads)
      /\ hand \in Seq(Payloads)
      /\ next \in Seq(Payloads) /\ taken \in Seq(Payloads)
      /\ Len(chan) \in Nat /\ Len(hand) <= 1
    BY Queues DEF IInv, TypeOK
<1>a. accepted = taken \o next \o hand \o chan
    BY DEF IInv, Conservation
<1>b. /\ taken \o next \in Seq(Payloads)
      /\ taken \o next \o hand \in Seq(Payloads)
    BY <1>0, ConcatProperties
<1>c. SUFFICES ASSUME ~ UNCHANGED <<accepted, taken, next, hand, chan>>
               PROVE  Conservation'
    BY <1>a DEF Conservation
<1>1. ASSUME NEW c \in Callers, NEW d \in Payloads, Push(c, d), UNCHANGED runVars
      PROVE  Conservation'
  <2>1. /\ accepted' = Append(accepted, d) /\ chan' = Append(chan, d)
        /\ UNCHANGED <<taken, next, hand>>
      BY <1>1 DEF Push, runVars
  <2>2. (taken \o next \o hand) \o Append(chan, d)
            = Append((taken \o next \o hand) \o chan, d)
    <3>1. PICK w \in Seq(Payloads) : w = taken \o next \o hand
        BY <1>b
    <3>2. w \o Append(chan, d) = Append(w \o chan, d)
        BY <1>0, AppendToLast
    <3>3. QED
        BY Zenon, <3>1, <3>2
  <2>3. accepted' = (taken \o next \o hand) \o chan'
      BY Zenon, <1>a, <2>1, <2>2
  <2>4. QED
      BY Zenon, <2>1, <2>3 DEF Conservation
<1>2. ASSUME NEW c \in Callers, NEW d \in Payloads, HandOff(c, d)
      PROVE  Conservation'
  <2>1. /\ accepted' = Append(accepted, d) /\ hand' = <<d>>
        /\ UNCHANGED <<taken, next, chan>>
      BY <1>2 DEF HandOff
  <2>2. hand = <<>> /\ chan = <<>>
      BY <1>2 DEF HandOff
  <2>3. accepted = taken \o next
      BY <1>0, <1>a, <1>b, <2>1, <2>2, ConcatEmptySeq
  <2>4. Append(taken \o next, d) = (taken \o next) \o <<d>>
      BY <1>b, AppendIsConcat
  <2>5. ((taken \o next) \o <<d>>) \o <<>> = (taken \o next) \o <<d>>
    <3>1. <<d>> \in Seq(Payloads)
        BY Singleton
    <3>2. (taken \o next) \o <<d>> \in Seq(Payloads)
        BY <1>b, <3>1, ConcatProperties
    <3>3. QED
        BY <3>2, ConcatEmptySeq
  <2>6. QED
      BY <2>1, <2>2, <2>3, <2>4, <2>5 DEF Conservation
<1>3. CASE Receive
  <2>1. /\ chan # <<>> /\ hand = <<>> /\ hand' = <<Head(chan)>>
        /\ chan' = Tail(chan)
        /\ UNCHANGED <<accepted, taken, next>>
      BY <1>3 DEF Receive, Pop
  <2>2. ((taken \o next) \o <<Head(chan)>>) \o Tail(chan) = (taken \o next) \o chan
      BY <1>0, <1>b, <2>1, HoldHead
  <2>3. accepted = (taken \o next) \o chan
      BY <1>a, <1>b, <2>1, ConcatEmptySeq
  <2>4. QED
      BY <2>1, <2>2, <2>3 DEF Conservation
<1>4. CASE SendWorkToNext
  <2>1. /\ hand # <<>> /\ hand' = <<>> /\ next' = Append(next, Head(hand))
        /\ UNCHANGED <<accepted, taken, chan>>
      BY <1>4 DEF SendWorkToNext, inboxVars
  <2>2. /\ taken \o Append(next, Head(hand)) = (taken \o next) \o hand
        /\ taken \o Append(next, Head(hand)) \in Seq(Payloads)
      BY <1>0, <2>1, SendHeld
  <2>3. (taken \o next') \o hand' = taken \o next'
      BY <2>1, <2>2, ConcatEmptySeq
  <2>4. QED
      BY <1>a, <2>1, <2>2, <2>3 DEF Conservation
<1>5. CASE TakeWork
  <2>1. /\ next # <<>> /\ taken' = Append(taken, Head(next))
        /\ next' = Tail(next)
        /\ UNCHANGED <<accepted, hand, chan>>
      BY <1>5 DEF TakeWork, inboxVars
  <2>2. Append(taken, Head(next)) \o Tail(next) = taken \o next
      BY <1>0, <2>1, MoveHead
  <2>3. QED
      BY <1>a, <2>1, <2>2 DEF Conservation
<1>6. QED
  <2>1. ASSUME NEW c \in Callers, BeginEnqueue(c) \/ RefuseEnqueue(c)
        PROVE  FALSE
      BY <1>c, <2>1 DEF BeginEnqueue, Enter, RefuseEnqueue, RefuseShuttingDown,
         runVars
  <2>2. ASSUME NEW c \in Callers, RejectFull(c) /\ UNCHANGED runVars
        PROVE  FALSE
      BY <1>c, <2>2 DEF RejectFull, runVars
  <2>3. ~ (Start \/ BeginShutdown \/ FinishSetShutdown \/ CloseInbox
           \/ CloseNext \/ Cancel \/ UNCHANGED vars)
      BY <1>c DEF Start, BeginShutdown, LockGate, FinishSetShutdown,
         SetShutdown, CloseInbox, CloseChan, CloseNext, Cancel, inboxVars, vars
  <2>4. QED
      BY <1>1, <1>2, <1>3, <1>4, <1>5, <2>1, <2>2, <2>3
         DEF Next, RunStep, FinishEnqueue

LEMMA IInvStep ==
    ASSUME IInv, [Next]_vars
    PROVE  IInv'
<1>1. TypeOK'
    BY TypeStep DEF IInv
<1>2. QED
    BY <1>1, ControlStep, ConservationStep DEF IInv

(***************************************************************************)
(* The theorems.                                                           *)
(***************************************************************************)

\* The inductive invariant holds in every behaviour of the uploader.
THEOREM Invariant == Spec => []IInv
<1>1. IInv /\ [Next]_vars => IInv'
    BY IInvStep
<1>2. QED
    BY InitIInv, <1>1, PTL DEF Spec

\* Every variable keeps its type; neither internalDataChan nor next ever
\* holds more than its capacity.
THEOREM TypeCorrect == Spec => []TypeOK
BY Invariant, PTL DEF IInv

\* Enqueue never sends on internalDataChan after shutdown closed it.
THEOREM NeverSendsOnClosed == Spec => []NoSendOnClosed
<1>1. IInv => NoSendOnClosed
    BY DEF IInv, NoSendOnClosed, ClosesFollowRun, GateFollowsRun,
       ShutMeansNoReaders, TypeOK, InboxTypeOK
<1>2. QED
    BY Invariant, <1>1, PTL

\* Whatever Enqueue, Run and shutdown interleave, an accepted payload is in
\* exactly one place, and in the order it was accepted.
THEOREM NothingLost == Spec => []Conservation
BY Invariant, PTL DEF IInv

\* When the workers see next closed, the uploader holds nothing more and
\* nothing more can enter it.
THEOREM ClosesDrained == Spec => []ClosedMeansDrained
<1>1. IInv => ClosedMeansDrained
  <2> SUFFICES ASSUME IInv, nextState = "closed" PROVE ClosedMeansDrained
      BY DEF ClosedMeansDrained
  <2>1. run = "done" /\ chan = <<>> /\ hand = <<>>
      BY DEF IInv, ClosesFollowRun, HandFollowsRun
  <2>2. gate = "shut" /\ Sending = {}
      BY <2>1 DEF IInv, GateFollowsRun, ShutMeansNoReaders, TypeOK, InboxTypeOK
  <2>3. taken \o next \in Seq(Payloads)
      BY Queues, ConcatProperties DEF IInv
  <2>4. accepted = taken \o next
      BY <2>1, <2>3, ConcatEmptySeq DEF IInv, Conservation
  <2>5. QED
      BY <2>2, <2>4 DEF ClosedMeansDrained
<1>2. QED
    BY Invariant, <1>1, PTL

\* Once some Enqueue was answered "shutting down", no other one succeeds.
THEOREM RefusalFinal == Spec => RefusalIsFinal
<1>1. ASSUME IInv, [Next]_vars, NEW c \in Callers, caller[c] = "shutting down"
      PROVE  accepted' = accepted
  <2>1. gate = "shut" /\ Sending = {}
      BY <1>1 DEF IInv, RefusalMeansShut, ShutMeansNoReaders
  <2>2. ASSUME NEW b \in Callers, NEW d \in Payloads, Push(b, d) \/ HandOff(b, d)
        PROVE  FALSE
      BY <2>1, <2>2 DEF Push, HandOff, Sending
  <2>3. ASSUME NEW b \in Callers, FinishEnqueue(b)
        PROVE  accepted' = accepted
      BY <2>2, <2>3 DEF FinishEnqueue, RejectFull
  <2>4. ASSUME NEW b \in Callers, BeginEnqueue(b) \/ RefuseEnqueue(b)
        PROVE  accepted' = accepted
      BY <2>4 DEF BeginEnqueue, Enter, RefuseEnqueue, RefuseShuttingDown
  <2>5. ASSUME RunStep \/ Cancel \/ TakeWork \/ UNCHANGED vars
        PROVE  accepted' = accepted
      BY <2>5 DEF RunStep, Start, Receive, Pop, SendWorkToNext, BeginShutdown,
         LockGate, FinishSetShutdown, SetShutdown, CloseInbox, CloseChan,
         CloseNext, Cancel, TakeWork, inboxVars, vars
  <2>6. QED
      BY <1>1, <2>3, <2>4, <2>5 DEF Next
<1>2. IInv /\ [Next]_vars
        => [(\E c \in Callers : caller[c] = "shutting down")
               => accepted' = accepted]_vars
    BY <1>1
<1>3. QED
    BY Invariant, <1>2, PTL DEF Spec, RefusalIsFinal

(***************************************************************************)
(* The uploader implements DataFlow.                                       *)
(***************************************************************************)

\* The mapping of the phase, by the places of the Run goroutine.
LEMMA PhaseMapping ==
    ASSUME IInv
    PROVE  /\ run \in {"new", "select", "locking"} <=> Phase = "open"
           /\ run \in {"closing", "draining"} <=> Phase = "shut"
           /\ run = "done" <=> Phase = "finished"
BY DEF IInv, GateFollowsRun, TypeOK, InboxTypeOK, RunPoints, Phase

LEMMA InitMapping == Init => Abstract!Init
<1> SUFFICES ASSUME Init PROVE Abstract!Init
    OBVIOUS
<1>1. Delivered = <<>>
  <2>1. <<>> \in Seq(Payloads)
      BY EmptySeq
  <2>2. <<>> \o <<>> = <<>>
      BY <2>1, ConcatEmptySeq
  <2>3. QED
      BY Zenon, <2>2 DEF Init, Delivered
<1>2. run = "new" /\ gate = "open" /\ accepted = <<>>
    BY Zenon DEF Init, InboxInit
<1>3. Phase = "open"
    BY Zenon, <1>2 DEF Phase
<1>4. QED
    BY Zenon, <1>1, <1>2, <1>3 DEF Abstract!Init

\* A send to next delivers one more payload: the next one accepted.
LEMMA SendDelivers ==
    ASSUME IInv, IInv', SendWorkToNext
    PROVE  Abstract!Deliver
<1>0. /\ chan \in Seq(Payloads) /\ hand \in Seq(Payloads)
      /\ next \in Seq(Payloads) /\ taken \in Seq(Payloads)
      /\ chan' \in Seq(Payloads) /\ hand' \in Seq(Payloads)
      /\ next' \in Seq(Payloads) /\ taken' \in Seq(Payloads)
    BY DEF IInv, TypeOK, InboxTypeOK
<1>1. /\ accepted' = accepted /\ taken' = taken /\ chan' = chan
      /\ run' = run /\ gate' = gate /\ hand # <<>> /\ hand' = <<>>
      /\ next' = Append(next, Head(hand))
    BY DEF SendWorkToNext, inboxVars
<1>2. Phase' = Phase
    BY <1>1 DEF Phase
<1>3. /\ Delivered \in Seq(Payloads) /\ Delivered' \in Seq(Payloads)
      /\ Len(Delivered) \in Nat /\ Len(Delivered') \in Nat
    BY <1>0, ConcatProperties, LenProperties DEF Delivered
<1>4. Len(Delivered') = Len(Delivered) + 1
  <2>1. Head(hand) \in Payloads
      BY <1>0, <1>1, HeadThenTail
  <2>2. Delivered' = Append(Delivered, Head(hand))
      BY <1>0, <1>1, <2>1, AppendToLast DEF Delivered
  <2>3. QED
      BY <1>3, <2>1, <2>2, AppendProperties
<1>5. accepted = Delivered' \o chan
  <2>1. accepted' = (Delivered' \o hand') \o chan'
      BY DEF IInv, Conservation, Delivered
  <2>2. QED
      BY <1>1, <1>3, <2>1, ConcatEmptySeq
<1>6. Len(Delivered') <= Len(accepted)
    BY <1>0, <1>3, <1>5, ConcatProperties, LenProperties
<1>7. Delivered' = SubSeq(accepted, 1, Len(Delivered'))
    BY <1>0, <1>3, <1>5, PrefixOfConcat
<1>8. Len(accepted) \in Nat
    BY LenProperties DEF IInv, TypeOK, InboxTypeOK
<1>9. Len(Delivered') \in (Len(Delivered) + 1) .. Len(accepted)
    BY <1>3, <1>4, <1>6, <1>8
<1>10. QED
    BY <1>1, <1>2, <1>7, <1>9 DEF Abstract!Deliver

\* Every step of the uploader is a step of its promise, or changes nothing
\* the promise speaks of.
LEMMA StepMapping ==
    ASSUME IInv, IInv', [Next]_vars
    PROVE  [Abstract!Next]_(Abstract!vars)
<1>1. ASSUME NEW c \in Callers, NEW d \in Payloads,
             (Push(c, d) /\ UNCHANGED runVars) \/ HandOff(c, d)
      PROVE  Abstract!Accept(d)
  <2>1. /\ accepted' = Append(accepted, d) /\ c \in Sending
        /\ run' = run /\ gate' = gate /\ taken' = taken /\ next' = next
      BY <1>1 DEF Push, HandOff, runVars, Sending
  <2>2. gate # "shut"
      BY <2>1 DEF IInv, ShutMeansNoReaders
  <2>3. Phase = "open"
      BY <2>2, PhaseMapping DEF IInv, GateFollowsRun, TypeOK, InboxTypeOK, Phase
  <2>4. Phase' = Phase /\ Delivered' = Delivered
      BY <2>1 DEF Phase, Delivered
  <2>5. QED
      BY <2>1, <2>3, <2>4 DEF Abstract!Accept
<1>2. ASSUME SendWorkToNext PROVE Abstract!Deliver
    BY <1>2, SendDelivers
<1>3. ASSUME FinishSetShutdown PROVE Abstract!Shut
  <2>1. /\ run = "locking" /\ run' = "closing"
        /\ accepted' = accepted /\ taken' = taken /\ next' = next
      BY <1>3 DEF FinishSetShutdown, SetShutdown
  <2>2. Phase = "open" /\ Phase' = "shut"
    <3>1. Phase = "open"
        BY <2>1, PhaseMapping
    <3>2. gate' = "shut"
        BY <1>3 DEF FinishSetShutdown, SetShutdown
    <3>3. QED
        BY <2>1, <3>1, <3>2 DEF Phase
  <2>3. QED
      BY <2>1, <2>2 DEF Abstract!Shut, Delivered
<1>4. ASSUME CloseNext PROVE Abstract!Finish
  <2>1. /\ run = "draining" /\ run' = "done" /\ hand = <<>> /\ chan = <<>>
        /\ accepted' = accepted /\ taken' = taken /\ next' = next
      BY <1>4 DEF CloseNext, inboxVars
  <2>2. Phase = "shut" /\ Phase' = "finished"
      BY <2>1, PhaseMapping DEF Phase
  <2>3. Delivered = accepted
    <3>1. Delivered \in Seq(Payloads)
        BY Queues, ConcatProperties DEF IInv, Delivered
    <3>2. accepted = (Delivered \o <<>>) \o <<>>
        BY <2>1 DEF IInv, Conservation, Delivered
    <3>3. QED
        BY <3>1, <3>2, ConcatEmptySeq
  <2>4. QED
      BY <2>1, <2>2, <2>3 DEF Abstract!Finish, Delivered
<1>5. ASSUME TakeWork PROVE UNCHANGED Abstract!vars
  <2>1. /\ next # <<>> /\ taken' = Append(taken, Head(next))
        /\ next' = Tail(next)
        /\ accepted' = accepted /\ run' = run /\ gate' = gate
      BY <1>5 DEF TakeWork, inboxVars
  <2>2. Delivered' = Delivered
      BY <2>1, Queues, MoveHead DEF IInv, Delivered
  <2>3. QED
      BY <2>1, <2>2 DEF Abstract!vars, Phase
<1>6. ASSUME /\ UNCHANGED <<accepted, taken, next>>
             /\ Phase' = Phase
      PROVE  UNCHANGED Abstract!vars
    BY <1>6 DEF Abstract!vars, Delivered
<1>7. ASSUME NEW c \in Callers,
             BeginEnqueue(c) \/ RefuseEnqueue(c) \/ (RejectFull(c) /\ UNCHANGED runVars)
      PROVE  UNCHANGED Abstract!vars
    BY <1>6, <1>7 DEF BeginEnqueue, Enter, RefuseEnqueue, RefuseShuttingDown,
       RejectFull, runVars, Phase
<1>8. ASSUME Receive \/ Cancel \/ UNCHANGED vars
      PROVE  UNCHANGED Abstract!vars
    BY <1>6, <1>8 DEF Receive, Pop, Cancel, inboxVars, vars, Phase
<1>9. ASSUME Start \/ BeginShutdown \/ CloseInbox
      PROVE  UNCHANGED Abstract!vars
  <2>1. UNCHANGED <<accepted, taken, next>>
      BY <1>9 DEF Start, BeginShutdown, LockGate, CloseInbox, CloseChan, inboxVars
  <2>2. \/ run = "new" /\ run' = "select" /\ gate' = gate
        \/ run = "select" /\ run' = "locking" /\ gate' = "pending"
        \/ run = "closing" /\ run' = "draining" /\ gate' = gate
      BY <1>9 DEF Start, BeginShutdown, LockGate, CloseInbox, CloseChan, inboxVars
  <2>3. run = "select" => gate = "open"
      BY DEF IInv, GateFollowsRun
  <2>4. Phase' = Phase
      BY <2>2, <2>3 DEF Phase
  <2>5. QED
      BY <1>6, <2>1, <2>4
<1>10. QED
    BY <1>1, <1>2, <1>3, <1>4, <1>5, <1>7, <1>8, <1>9
       DEF Next, RunStep, FinishEnqueue, Abstract!Next

\* The uploader delivers what it accepted, once, in order, and finishes only
\* when it has: it implements DataFlow.
THEOREM Refinement == Spec => ImplementsDataFlow
<1>1. IInv /\ IInv' /\ [Next]_vars => [Abstract!Next]_(Abstract!vars)
    BY StepMapping
<1>2. QED
    BY InitMapping, Invariant, <1>1, PTL
       DEF Spec, ImplementsDataFlow, Abstract!Spec

-----------------------------------------------------------------------------
(***************************************************************************)
(* The uploader with its folders (FilePather), for any length of a day and *)
(* any time that passes.  Labelling takes nothing from the uploader: its   *)
(* steps remain steps of Uploader, so that its invariant carries over.     *)
(* The folders are of their time because the three moments are in order.   *)
(***************************************************************************)

(***************************************************************************)
(* Arithmetic.                                                             *)
(***************************************************************************)

\* Multiplication is monotone.
LEMMA TimesMonotone ==
    ASSUME NEW a \in Nat, NEW b \in Nat, NEW h \in Nat, a <= b
    PROVE  a * h <= b * h
OBVIOUS

\* Quotient and remainder.
LEMMA Division ==
    ASSUME NEW x \in Nat, NEW h \in Nat \ {0}
    PROVE  /\ x \div h \in Nat
           /\ x % h \in 0..(h - 1)
           /\ x = (x \div h) * h + (x % h)
OBVIOUS

\* A later hour is not of an earlier day.
LEMMA DivMonotone ==
    ASSUME NEW x \in Nat, NEW y \in Nat, NEW h \in Nat \ {0}, x <= y
    PROVE  x \div h <= y \div h
<1> DEFINE a == x \div h
           b == y \div h
<1>1. a \in Nat /\ b \in Nat /\ x % h \in 0..(h - 1) /\ y % h \in 0..(h - 1)
    BY Division
<1>2. x = a * h + (x % h) /\ y = b * h + (y % h)
    BY Division
<1>3. SUFFICES ASSUME b + 1 <= a PROVE FALSE
    BY <1>1
<1> HIDE DEF a, b
<1>4. (b + 1) * h <= a * h
    BY <1>1, <1>3, TimesMonotone
<1>5. (b + 1) * h = b * h + h /\ a * h \in Nat /\ b * h \in Nat
    BY <1>1
<1>6. QED
    BY <1>1, <1>2, <1>4, <1>5

\* The folder of a date and an hour read in that order is of no time after
\* the second reading, and not a day before the first; within one day it is
\* of the hour of the second.
LEMMA FolderBounds ==
    ASSUME NEW d \in Nat, NEW h \in Nat, d <= h
    PROVE  /\ Folder(d, h) \in Nat
           /\ Folder(d, h) <= h
           /\ Folder(d, h) > d - HoursPerDay
           /\ d \div HoursPerDay = h \div HoursPerDay => Folder(d, h) = h
<1> DEFINE H == HoursPerDay
           a == d \div H
           b == h \div H
<1>0. H \in Nat \ {0}
    BY HoursAssumption
<1>1. /\ a \in Nat /\ d % H \in 0..(H - 1) /\ d = a * H + (d % H)
      /\ b \in Nat /\ h % H \in 0..(H - 1) /\ h = b * H + (h % H)
    BY <1>0, Division
<1>2. a <= b
    BY <1>0, DivMonotone
<1>3. Folder(d, h) = a * H + (h % H)
    BY DEF Folder
<1> HIDE DEF a, b, H
<1>4. a * H <= b * H /\ a * H \in Nat /\ b * H \in Nat
    BY <1>0, <1>1, <1>2, TimesMonotone
<1>5. /\ Folder(d, h) \in Nat
      /\ Folder(d, h) <= h
      /\ Folder(d, h) > d - H
      /\ a = b => Folder(d, h) = h
    BY <1>0, <1>1, <1>3, <1>4
<1>6. QED
    BY <1>5 DEF a, b, H

(***************************************************************************)
(* The invariant: the moments so far are in order, and in the past.        *)
(***************************************************************************)

\* LabelledInit starts with no reading.
LEMMA InitMoments == LabelledInit => MomentsInOrder
BY EmptySeq DEF LabelledInit, MomentsInOrder

\* A reading is of the present, which no earlier moment exceeds.
LEMMA ReadMoment ==
    ASSUME MomentsInOrder, moments' = Append(moments, clock), clock' = clock
    PROVE  MomentsInOrder'
<1>1. /\ clock \in Nat /\ moments \in Seq(Nat)
      /\ Len(moments) \in Nat
    BY LenProperties DEF MomentsInOrder
<1>2. /\ moments' \in Seq(Nat)
      /\ Len(moments') = Len(moments) + 1
      /\ moments'[Len(moments) + 1] = clock
      /\ \A i \in 1..Len(moments) : moments'[i] = moments[i]
    BY <1>1, AppendProperties
<1>3. \A i \in 1..Len(moments') : moments'[i] <= clock /\ moments'[i] \in Nat
  <2> TAKE i \in 1..Len(moments')
  <2>1. CASE i \in 1..Len(moments)
      BY <1>1, <1>2, <2>1 DEF MomentsInOrder
  <2>2. CASE i = Len(moments) + 1
      BY <1>1, <1>2, <2>2
  <2>3. QED
      BY <1>1, <1>2, <2>1, <2>2
<1>4. \A i, j \in 1..Len(moments') : i <= j => moments'[i] <= moments'[j]
  <2> TAKE i, j \in 1..Len(moments')
  <2> HAVE i <= j
  <2>1. CASE j = Len(moments) + 1
      BY <1>1, <1>2, <1>3, <2>1
  <2>2. CASE j \in 1..Len(moments)
    <3>1. i \in 1..Len(moments)
        BY <1>1, <2>2
    <3>2. QED
        BY <1>2, <2>2, <3>1 DEF MomentsInOrder
  <2>3. QED
      BY <1>1, <1>2, <2>1, <2>2
<1>5. QED
    BY <1>1, <1>2, <1>3, <1>4 DEF MomentsInOrder

\* Each step keeps the moments in order.
LEMMA MomentsStep ==
    ASSUME MomentsInOrder, [LabelledNext]_labelledVars
    PROVE  MomentsInOrder'
<1>1. CASE Labelled(Next)
  <2>1. clock' = clock /\ moments' \in {moments, <<>>, <<clock>>}
      BY <1>1 DEF Labelled
  <2>2. CASE moments' = moments
      BY <2>1, <2>2 DEF MomentsInOrder
  <2>3. CASE moments' = <<>>
      BY <2>1, <2>3, EmptySeq DEF MomentsInOrder
  <2>4. CASE moments' = <<clock>>
    <3>1. clock \in Nat
        BY DEF MomentsInOrder
    <3>2. /\ moments' \in Seq(Nat) /\ Len(moments') = 1
          /\ moments'[1] = clock
        BY <2>4, <3>1
    <3>3. \A i \in 1..Len(moments') : i = 1
        BY <3>2
    <3>4. QED
        BY <2>1, <3>1, <3>2, <3>3 DEF MomentsInOrder
  <2>5. QED
      BY <2>1, <2>2, <2>3, <2>4
<1>2. CASE ReadDate \/ ReadHour
    BY <1>2, ReadMoment DEF ReadDate, ReadHour
<1>3. CASE Tick
  <2>1. clock' = clock + 1 /\ moments' = moments
      BY <1>3 DEF Tick
  <2>2. /\ clock \in Nat /\ moments \in Seq(Nat)
        /\ \A i \in 1..Len(moments) : moments[i] <= clock /\ moments[i] \in Nat
      BY DEF MomentsInOrder
  <2>3. \A i \in 1..Len(moments) : moments[i] <= clock + 1 /\ moments[i] \in Nat
      BY <2>2
  <2>4. QED
      BY <2>1, <2>2, <2>3 DEF MomentsInOrder
<1>4. CASE UNCHANGED labelledVars
    BY <1>4 DEF labelledVars, MomentsInOrder
<1>5. QED
    BY <1>1, <1>2, <1>3, <1>4 DEF LabelledNext

\* The invariant implies the property.
LEMMA MomentsToFolders == MomentsInOrder => FoldersAreOfTheirTime
<1> SUFFICES ASSUME MomentsInOrder, Len(moments) = 3
             PROVE  LET received == moments[1]
                        folder == Folder(moments[2], moments[3])
                    IN  /\ folder <= clock
                        /\ folder > received - HoursPerDay
                        /\ received \div HoursPerDay = clock \div HoursPerDay
                               => folder \in received..clock
    BY DEF FoldersAreOfTheirTime
<1> DEFINE r == moments[1]
           d == moments[2]
           h == moments[3]
           H == HoursPerDay
<1>1. /\ r \in Nat /\ d \in Nat /\ h \in Nat /\ clock \in Nat
      /\ r <= d /\ d <= h /\ h <= clock
  <2>1. 1 \in 1..Len(moments) /\ 2 \in 1..Len(moments) /\ 3 \in 1..Len(moments)
      OBVIOUS
  <2>2. clock \in Nat /\ moments \in Seq(Nat)
      BY DEF MomentsInOrder
  <2>3. r \in Nat /\ d \in Nat /\ h \in Nat
      BY <2>1, <2>2, ElementOfSeq
  <2>4. r <= d /\ d <= h /\ h <= clock
      BY <2>1 DEF MomentsInOrder
  <2>5. QED
      BY <2>2, <2>3, <2>4
<1>2. H \in Nat \ {0}
    BY HoursAssumption
<1> HIDE DEF r, d, h
<1>3. /\ Folder(d, h) \in Nat /\ Folder(d, h) <= h
      /\ Folder(d, h) > d - H
      /\ d \div H = h \div H => Folder(d, h) = h
    BY <1>1, FolderBounds
<1>4. /\ r \div H <= d \div H /\ d \div H <= h \div H
      /\ h \div H <= clock \div H
    BY <1>1, <1>2, DivMonotone
<1>5. /\ r \div H \in Nat /\ d \div H \in Nat
      /\ h \div H \in Nat /\ clock \div H \in Nat
    BY <1>1, <1>2, Division
<1>6. r \div H = clock \div H => Folder(d, h) \in r..clock
  <2> HAVE r \div H = clock \div H
  <2>1. d \div H = h \div H
      BY <1>4, <1>5
  <2>2. QED
      BY <1>1, <1>3, <2>1
<1>7. Folder(d, h) <= clock /\ Folder(d, h) > r - H
    BY <1>1, <1>2, <1>3
<1>8. QED
    BY <1>6, <1>7 DEF r, d, h

\* For any length of a day, whatever time passes in sendWorkToNext: the
\* folder Prefix computes is not of the future, less than a day too old, and
\* exact if midnight did not pass.
THEOREM FoldersOfTheirTime == LabelledSpec => []FoldersAreOfTheirTime
BY InitMoments, MomentsStep, MomentsToFolders, PTL DEF LabelledSpec

(***************************************************************************)
(* The uploader that labels is an uploader.                                *)
(***************************************************************************)

\* Each step is one of Uploader's, or leaves its variables alone.
LEMMA LabelledIsUploader ==
    ASSUME [LabelledNext]_labelledVars
    PROVE  [Next]_vars
BY DEF LabelledNext, Labelled, ReadDate, ReadHour, Tick, labelledVars

\* The uploader's invariant, and with it all it implies, holds while units
\* are given folders.
THEOREM LabelledInvariant == LabelledSpec => []IInv
<1>1. LabelledInit => IInv
    BY InitIInv DEF LabelledInit
<1>2. IInv /\ [LabelledNext]_labelledVars => IInv'
    BY LabelledIsUploader, IInvStep
<1>3. QED
    BY <1>1, <1>2, PTL DEF LabelledSpec
=============================================================================
