----------------------------- MODULE FlowProofs -----------------------------
(***************************************************************************)
(* Proofs about Flow for any handlers, payloads, sizes, capacities and     *)
(* workers.  A step of the flow is a step of its accumulator or leaves it  *)
(* alone, and the same of its uploader, so the invariants of both stages   *)
(* hold here; what ties them together is that an accepted offer is at once *)
(* an emitted chunk and an accepted payload, and that the run group waits  *)
(* for each goroutine before it cancels the next.                          *)
(***************************************************************************)
EXTENDS Flow, SeqLemmas, FiniteSetTheorems

\* The results about the stages.  No tick and no reading of the clock is part
\* of a flow's steps, so those clocks stand still here.
AccP == INSTANCE AccumulatorProofs WITH
    Capacity <- AccCapacity, ForceFlushAfter <- 1,
    sinceOldest <- 0, headAge <- 0, tick <- [sinceOldest |-> -1, headAge |-> -1]

UplP == INSTANCE UploaderProofs WITH
    Callers <- {Accu}, Payloads <- Seq(Payloads),
    Capacity <- UploaderCapacity, NextCapacity <- MaxConcurrentUploads,
    MaxAccepted <- MaxAccepted + Cardinality(Callers),
    caller <- uCaller, chan <- uChan, chanState <- uChanState, gate <- uGate,
    accepted <- uAccepted, run <- uRun, hand <- uHand, ctx <- uCtx,
    HoursPerDay <- 1, MaxHours <- 0, clock <- 0, moments <- <<>>

\* The constants of the flow are as its uploader assumes.
LEMMA UploaderConstants ==
    MaxConcurrentUploads \in Nat \ {0} /\ MaxAccepted + Cardinality(Callers) \in Nat
<1>1. Cardinality(Workers) \in Nat /\ Cardinality(Callers) \in Nat
    BY WorkersAssumption, CallersAssumption, FS_CardinalityType
<1>2. Cardinality(Workers) # 0
    BY WorkersAssumption, FS_EmptySet
<1>3. MaxConcurrentUploads \in Nat \ {0}
    BY <1>1, <1>2 DEF MaxConcurrentUploads
<1>4. QED
    BY <1>1, <1>3, MaxAcceptedAssumption

(***************************************************************************)
(* The instances of Flow and those above are of the same modules.          *)
(***************************************************************************)

LEMMA AccumulatorInit == Acc!Init => AccP!Init
BY DEF Acc!Init, AccP!Init, Acc!InboxInit, AccP!InboxInit

LEMMA AccumulatorNext == Acc!Next => AccP!Next
BY DEF Acc!Next, AccP!Next, Acc!BeginEnqueue, AccP!BeginEnqueue,
       Acc!RefuseEnqueue, AccP!RefuseEnqueue, Acc!FinishEnqueue,
       AccP!FinishEnqueue, Acc!Enter, AccP!Enter, Acc!RefuseShuttingDown,
       AccP!RefuseShuttingDown, Acc!Push, AccP!Push, Acc!RejectFull,
       AccP!RejectFull, Acc!runVars, AccP!runVars, Acc!workVars, AccP!workVars,
       Acc!inboxVars, AccP!inboxVars, Acc!Sending, AccP!Sending, Acc!Receive,
       AccP!Receive, Acc!AppendNothing, AccP!AppendNothing, Acc!AppendFitting,
       AccP!AppendFitting, Acc!AppendAfterFlush, AccP!AppendAfterFlush,
       Acc!AppendTooBig, AccP!AppendTooBig, Acc!ReceiveData, AccP!ReceiveData,
       Acc!Pop, AccP!Pop, Acc!Idle, AccP!Idle, Acc!TooBig, AccP!TooBig,
       Acc!LenAfterAppend, AccP!LenAfterAppend, Acc!MergedLen, AccP!MergedLen,
       Acc!OfferAccepted, AccP!OfferAccepted, Acc!FlushAccepted,
       AccP!FlushAccepted, Acc!TooBigAccepted, AccP!TooBigAccepted,
       Acc!OfferRefused, AccP!OfferRefused, Acc!BreakerTimeout,
       AccP!BreakerTimeout, Acc!Start, AccP!Start, Acc!BeginShutdown,
       AccP!BeginShutdown, Acc!LockGate, AccP!LockGate, Acc!FinishSetShutdown,
       AccP!FinishSetShutdown, Acc!SetShutdown, AccP!SetShutdown,
       Acc!CloseInbox, AccP!CloseInbox, Acc!CloseChan, AccP!CloseChan,
       Acc!FinishDrain, AccP!FinishDrain, Acc!Return, AccP!Return, Acc!Cancel,
       AccP!Cancel

LEMMA AccumulatorIInv == Acc!IInv <=> AccP!IInv
BY DEF Acc!IInv, AccP!IInv, Acc!TypeOK, AccP!TypeOK, Acc!InboxTypeOK,
       AccP!InboxTypeOK, Acc!Results, AccP!Results, Acc!RunPoints,
       AccP!RunPoints, Acc!GateFollowsRun, AccP!GateFollowsRun,
       Acc!CloseFollowsRun, AccP!CloseFollowsRun, Acc!OfferFollowsRun,
       AccP!OfferFollowsRun, Acc!ShutMeansNoReaders, AccP!ShutMeansNoReaders,
       Acc!RefusalMeansShut, AccP!RefusalMeansShut, Acc!Conservation,
       AccP!Conservation, Acc!KeptHaveBytes, AccP!KeptHaveBytes, Acc!ChunkFits,
       AccP!ChunkFits, Acc!ChunksWithinLimit, AccP!ChunksWithinLimit,
       Acc!WithBytes, AccP!WithBytes, Acc!MergedLen, AccP!MergedLen,
       Acc!Sending, AccP!Sending

LEMMA UploaderInit == Upl!Init => UplP!Init
BY DEF Upl!Init, UplP!Init, Upl!InboxInit, UplP!InboxInit

LEMMA UploaderNext == Upl!Next => UplP!Next
BY DEF Upl!Next, UplP!Next, Upl!BeginEnqueue, UplP!BeginEnqueue,
       Upl!RefuseEnqueue, UplP!RefuseEnqueue, Upl!FinishEnqueue,
       UplP!FinishEnqueue, Upl!Enter, UplP!Enter, Upl!RefuseShuttingDown,
       UplP!RefuseShuttingDown, Upl!Push, UplP!Push, Upl!RejectFull,
       UplP!RejectFull, Upl!HandOff, UplP!HandOff, Upl!runVars, UplP!runVars,
       Upl!inboxVars, UplP!inboxVars, Upl!Sending, UplP!Sending, Upl!RunStep,
       UplP!RunStep, Upl!Start, UplP!Start, Upl!Receive, UplP!Receive, Upl!Pop,
       UplP!Pop, Upl!SendWorkToNext, UplP!SendWorkToNext, Upl!BeginShutdown,
       UplP!BeginShutdown, Upl!LockGate, UplP!LockGate, Upl!FinishSetShutdown,
       UplP!FinishSetShutdown, Upl!SetShutdown, UplP!SetShutdown,
       Upl!CloseInbox, UplP!CloseInbox, Upl!CloseChan, UplP!CloseChan,
       Upl!CloseNext, UplP!CloseNext, Upl!Cancel, UplP!Cancel, Upl!TakeWork,
       UplP!TakeWork

LEMMA UploaderIInv == Upl!IInv <=> UplP!IInv
BY DEF Upl!IInv, UplP!IInv, Upl!TypeOK, UplP!TypeOK, Upl!InboxTypeOK,
       UplP!InboxTypeOK, Upl!Results, UplP!Results, Upl!RunPoints,
       UplP!RunPoints, Upl!GateFollowsRun, UplP!GateFollowsRun,
       Upl!ClosesFollowRun, UplP!ClosesFollowRun, Upl!HandFollowsRun,
       UplP!HandFollowsRun, Upl!ShutMeansNoReaders, UplP!ShutMeansNoReaders,
       Upl!RefusalMeansShut, UplP!RefusalMeansShut, Upl!Conservation,
       UplP!Conservation, Upl!Sending, UplP!Sending

\* The results the flow needs of its stages.
LEMMA AccumulatorInvariant ==
    /\ Acc!Init => Acc!IInv
    /\ Acc!IInv /\ (Acc!Next \/ UNCHANGED accVars) => Acc!IInv'
<1>1. Acc!Init => Acc!IInv
    BY AccumulatorInit, AccumulatorIInv, AccP!InitIInv, SizeAssumption, LimitAssumption,
       SeparatorAssumption, AccCapacityAssumption, MaxAcceptedAssumption
<1>2. ASSUME AccP!IInv, [AccP!Next]_(AccP!vars) PROVE AccP!IInv'
    BY <1>2, AccP!IInvStep, SizeAssumption, LimitAssumption,
       SeparatorAssumption, AccCapacityAssumption, MaxAcceptedAssumption
<1>3. ASSUME Acc!IInv, Acc!Next \/ UNCHANGED accVars PROVE AccP!IInv'
  <2>1. UNCHANGED accVars => UNCHANGED AccP!vars
      BY DEF accVars, AccP!vars
  <2>2. QED
      BY <1>2, <1>3, <2>1, AccumulatorIInv, AccumulatorNext
<1>4. AccP!IInv' => Acc!IInv'
    BY AccumulatorIInv, PTL
<1>5. QED
    BY <1>1, <1>3, <1>4

LEMMA UploaderInvariant ==
    /\ Upl!Init => Upl!IInv
    /\ Upl!IInv /\ (Upl!Next \/ UNCHANGED uplVars) => Upl!IInv'
<1>1. Upl!Init => Upl!IInv
    BY UploaderInit, UploaderIInv, UplP!InitIInv, UploaderConstants, UploaderCapacityAssumption
<1>2. ASSUME UplP!IInv, [UplP!Next]_(UplP!vars) PROVE UplP!IInv'
    BY <1>2, UplP!IInvStep, UploaderConstants, UploaderCapacityAssumption
<1>3. ASSUME Upl!IInv, Upl!Next \/ UNCHANGED uplVars PROVE UplP!IInv'
  <2>1. UNCHANGED uplVars => UNCHANGED UplP!vars
      BY DEF uplVars, UplP!vars
  <2>2. QED
      BY <1>2, <1>3, <2>1, UploaderIInv, UploaderNext
<1>4. UplP!IInv' => Upl!IInv'
    BY UploaderIInv, PTL
<1>5. QED
    BY <1>1, <1>3, <1>4

\* What callers see of the accumulator, from its own proofs.
LEMMA AccumulatorIntake ==
    ASSUME Acc!IInv, Acc!IInv', Acc!Next \/ UNCHANGED accVars
    PROVE  \/ /\ Acc!WithBytes(accepted)' = Acc!WithBytes(accepted)
              /\ Acc!Phase' = "open" <=> Acc!Phase = "open"
           \/ /\ \E d \in Payloads :
                    Acc!WithBytes(accepted)' = Append(Acc!WithBytes(accepted), d)
              /\ Acc!Phase' = "open" /\ Acc!Phase = "open"
           \/ /\ Acc!WithBytes(accepted)' = Acc!WithBytes(accepted)
              /\ Acc!Phase' # "open" /\ Acc!Phase = "open"
<1>1. AccP!IInv /\ AccP!IInv'
  <2>1. Acc!IInv' => AccP!IInv'
      BY AccumulatorIInv, PTL
  <2>2. QED
      BY <2>1, AccumulatorIInv
<1>2. [AccP!Next]_(AccP!vars)
  <2>1. UNCHANGED accVars => UNCHANGED AccP!vars
      BY DEF accVars, AccP!vars
  <2>2. QED
      BY <2>1, AccumulatorNext
<1>3. /\ Acc!WithBytes(accepted) = AccP!WithBytes(accepted)
      /\ Acc!WithBytes(accepted)' = AccP!WithBytes(accepted)'
    BY DEF Acc!WithBytes, AccP!WithBytes
<1>4. Acc!Phase = AccP!Phase /\ Acc!Phase' = AccP!Phase'
    BY DEF Acc!Phase, AccP!Phase
<1>5. \/ /\ AccP!WithBytes(accepted)' = AccP!WithBytes(accepted)
         /\ AccP!Phase' = "open" <=> AccP!Phase = "open"
      \/ /\ \E d \in Payloads :
               AccP!WithBytes(accepted)' = Append(AccP!WithBytes(accepted), d)
         /\ AccP!Phase' = "open" /\ AccP!Phase = "open"
      \/ /\ AccP!WithBytes(accepted)' = AccP!WithBytes(accepted)
         /\ AccP!Phase' # "open" /\ AccP!Phase = "open"
    BY <1>1, <1>2, AccP!IntakeSteps, SizeAssumption, LimitAssumption,
       SeparatorAssumption, AccCapacityAssumption, MaxAcceptedAssumption
<1>6. QED
    BY <1>3, <1>4, <1>5

LEMMA NoneWithBytes == Acc!WithBytes(<<>>) = <<>>
<1>1. AccP!WithBytes(<<>>) = <<>>
    BY AccP!WithBytesFold, SizeAssumption, LimitAssumption,
       SeparatorAssumption, AccCapacityAssumption, MaxAcceptedAssumption
<1>2. QED
    BY <1>1 DEF Acc!WithBytes, AccP!WithBytes

LEMMA AccumulatorDelivers ==
    ASSUME Acc!IInv
    PROVE  /\ Begins(Payloads, Acc!WithBytes(accepted), delivered)
           /\ Acc!WithBytes(accepted) \in Seq(Payloads)
<1>1. AccP!IInv
    BY AccumulatorIInv
<1>2. AccP!Begins(Payloads, AccP!WithBytes(accepted), delivered)
    BY <1>1, AccP!DeliveredBegins, SizeAssumption, LimitAssumption,
       SeparatorAssumption, AccCapacityAssumption, MaxAcceptedAssumption
<1>3. Acc!WithBytes(accepted) = AccP!WithBytes(accepted)
    BY DEF Acc!WithBytes, AccP!WithBytes
<1>4. Begins(Payloads, Acc!WithBytes(accepted), delivered)
    BY <1>2, <1>3 DEF Begins, AccP!Begins
<1>5. delivered \in Seq(Payloads)
    BY DEF Acc!IInv, Acc!TypeOK
<1>6. QED
    BY <1>4, <1>5, ConcatProperties DEF Begins

(***************************************************************************)
(* The payloads of the chunks.                                             *)
(***************************************************************************)

LEMMA UnmergedFold ==
    /\ Unmerged(<<>>) = <<>>
    /\ \A s \in Seq(Seq(Payloads)) : Unmerged(s) \in Seq(Payloads)
    /\ \A s \in Seq(Seq(Payloads)), c \in Seq(Payloads) :
          Unmerged(Append(s, c)) = Unmerged(s) \o c
<1> DEFINE S == Seq(Payloads)
           step == [x \in S |-> [c \in S |-> x \o c]]
<1>0. \A x \in S, c \in S : x \o c \in S
    BY ConcatProperties
<1>e. <<>> \in S
    BY EmptySeq
<1> HIDE DEF S
<1>1. step \in [S -> [S -> S]]
    BY <1>0
<1>2. \A x \in S, c \in S : step[x][c] = x \o c
    OBVIOUS
<1> HIDE DEF step
<1>3. PICK F : IsFold(F, S, S, step, <<>>)
    BY <1>1, <1>e, FoldExists
<1>4. ASSUME NEW s \in Seq(S) PROVE Unmerged(s) = F[s]
  <2> DEFINE Loop(g) == g = [n \in 0..Len(s) |-> IF n = 0 THEN <<>> ELSE g[n - 1] \o s[n]]
             all == CHOOSE g : Loop(g)
  <2>1. Len(s) \in Nat /\ \A n \in 1..Len(s) : s[n] \in S
      BY LenProperties, ElementOfSeq
  <2>2. PICK f \in [0..Len(s) -> S] : Way(f, step, <<>>, s, Len(s)) /\ f[Len(s)] = F[s]
      BY <1>3 DEF IsFold
  <2>3. ASSUME NEW n \in 1..Len(s) PROVE f[n] = f[n - 1] \o s[n]
    <3>1. f[n - 1] \in S /\ s[n] \in S
        BY <2>1, <2>2
    <3>2. f[n] = step[f[n - 1]][s[n]]
        BY <2>2 DEF Way
    <3>3. QED
        BY <1>2, <3>1, <3>2
  <2>4. Loop(f)
    <3>1. f[0] = <<>>
        BY <2>2 DEF Way
    <3>2. QED
        BY <2>1, <2>2, <2>3, <3>1
  <2>5. Loop(all)
    <3> HIDE DEF Loop
    <3> QED
        BY <2>4
  <2>6. Unmerged(s) = all[Len(s)]
      BY DEF Unmerged
  <2> HIDE DEF all
  <2>7. all[0] = <<>> /\ \A n \in 1..Len(s) : all[n] = all[n - 1] \o s[n]
      BY <2>1, <2>5
  <2>8. \A n \in 1..Len(s) : all[n - 1] = f[n - 1] => all[n] = f[n]
      BY <2>3, <2>7
  <2>9. all[0] = f[0]
      BY <2>2, <2>7 DEF Way
  <2>10. all[Len(s)] = f[Len(s)]
      BY <2>1, <2>8, <2>9, LoopIsFold
  <2>11. QED
      BY <2>2, <2>6, <2>10
<1>5. ASSUME NEW s \in Seq(S), NEW c \in S PROVE Unmerged(Append(s, c)) = Unmerged(s) \o c
  <2>1. Append(s, c) \in Seq(S)
      BY AppendProperties
  <2>2. F[s] \in S /\ F[Append(s, c)] = F[s] \o c
    <3>1. F[s] \in S /\ F[Append(s, c)] = step[F[s]][c]
        BY <1>3 DEF IsFold
    <3>2. QED
        BY <1>2, <3>1
  <2>3. QED
      BY <1>4, <2>1, <2>2
<1>6. ASSUME NEW s \in Seq(S) PROVE Unmerged(s) \in S
    BY <1>3, <1>4 DEF IsFold
<1>7. Unmerged(<<>>) = <<>>
    BY <1>3, <1>4, EmptySeq DEF IsFold
<1>8. QED
    BY <1>5, <1>6, <1>7 DEF S

LEMMA UnmergedConcat ==
    ASSUME NEW s \in Seq(Seq(Payloads)), NEW t \in Seq(Seq(Payloads))
    PROVE  Unmerged(s \o t) = Unmerged(s) \o Unmerged(t)
<1> DEFINE C == Seq(Payloads)
           T == {u \in Seq(C) : Unmerged(s \o u) = Unmerged(s) \o Unmerged(u)}
<1>0. Unmerged(s) \in Seq(Payloads)
    BY UnmergedFold
<1>1. <<>> \in T
  <2>1. <<>> \in Seq(C)
      BY EmptySeq
  <2>2. Unmerged(s \o <<>>) = Unmerged(s) \o Unmerged(<<>>)
      BY <1>0, UnmergedFold, ConcatEmptySeq
  <2>3. QED
      BY <2>1, <2>2
<1>2. ASSUME NEW u \in Seq(C), NEW c \in C, u \in T
      PROVE  Append(u, c) \in T
  <2>1. s \o Append(u, c) = Append(s \o u, c) /\ s \o u \in Seq(C)
      BY AppendToLast, ConcatProperties
  <2>2. /\ Unmerged(Append(s \o u, c)) = Unmerged(s \o u) \o c
        /\ Unmerged(Append(u, c)) = Unmerged(u) \o c
        /\ Unmerged(u) \in Seq(Payloads)
      BY <2>1, UnmergedFold
  <2>3. (Unmerged(s) \o Unmerged(u)) \o c = Unmerged(s) \o (Unmerged(u) \o c)
    <3> DEFINE v == Unmerged(s)
               w == Unmerged(u)
    <3>1. v \in Seq(Payloads) /\ w \in Seq(Payloads) /\ c \in Seq(Payloads)
        BY <1>0, <2>2
    <3> HIDE DEF v, w, C, T
    <3>2. (v \o w) \o c = v \o (w \o c)
        BY <3>1, Regroup, SMTT(30)
    <3>3. QED
        BY Zenon, <3>2 DEF v, w
  <2>4. Unmerged(s \o Append(u, c)) = Unmerged(s) \o Unmerged(Append(u, c))
      BY Zenon, <1>2, <2>1, <2>2, <2>3
  <2>5. Append(u, c) \in Seq(C)
      BY AppendProperties
  <2>6. QED
      BY <2>4, <2>5
<1>3. Seq(C) \subseteq T
  <2> HIDE DEF T
  <2> QED
      BY <1>1, <1>2, SequencesUpTo
<1>4. QED
    BY <1>3

(***************************************************************************)
(* Steps of the flow are steps of its stages.                              *)
(***************************************************************************)

LEMMA StepsOfAccumulator ==
    ASSUME [Next]_vars PROVE Acc!Next \/ UNCHANGED accVars
<1>1. Ingest => Acc!Next
    BY DEF Ingest, Acc!Next
<1>2. Accumulate => Acc!Next
    BY DEF Accumulate, Acc!Next
<1>3. OfferReturns => Acc!Next
    BY DEF OfferReturns, OfferAccepted, OfferRefused, Acc!Next
<1>4. OfferBegins \/ Upload \/ Stop => UNCHANGED accVars
    BY DEF OfferBegins, Upload, Stop
<1>5. \A w \in Workers : WorkerStep(w) \/ BeginDrain(w) => UNCHANGED accVars
    BY DEF WorkerStep, StartWorker, TakeWork, FinishWork, FinishDrain, BeginDrain
<1>6. AppStep => Acc!Next \/ UNCHANGED accVars
    BY DEF AppStep, StopAccumulator, StopUploader, StopWorkers, Stopped, Acc!Next
<1>7. UNCHANGED vars => UNCHANGED accVars
    BY DEF vars
<1>8. QED
    BY <1>1, <1>2, <1>3, <1>4, <1>5, <1>6, <1>7 DEF Next

LEMMA StepsOfUploader ==
    ASSUME Acc!IInv, [Next]_vars PROVE Upl!Next \/ UNCHANGED uplVars
<1>1. Ingest \/ Accumulate \/ Stop => UNCHANGED uplVars
    BY DEF Ingest, Accumulate, Stop
<1>2. Offered \in Seq(Payloads)
    BY DEF Offered, Acc!IInv, Acc!TypeOK
<1>3. OfferBegins => Upl!Next
    BY DEF OfferBegins, Upl!Next
<1>4. OfferReturns => Upl!Next
    BY <1>2 DEF OfferReturns, OfferAccepted, OfferRefused, Upl!Next, Upl!FinishEnqueue,
       Upl!runVars, uplRunVars
<1>5. Upload => Upl!Next
    BY DEF Upload, Upl!Next
<1>6. \A w \in Workers : WorkerStep(w) \/ BeginDrain(w) => Upl!Next \/ UNCHANGED uplVars
    BY DEF WorkerStep, StartWorker, TakeWork, FinishWork, FinishDrain, BeginDrain, Upl!Next
<1>7. AppStep => Upl!Next \/ UNCHANGED uplVars
    BY DEF AppStep, StopAccumulator, StopUploader, StopWorkers, Stopped, Upl!Next
<1>8. UNCHANGED vars => UNCHANGED uplVars
    BY DEF vars
<1>9. QED
    BY <1>1, <1>3, <1>4, <1>5, <1>6, <1>7, <1>8 DEF Next

\* A goroutine that has ended stays so.
LEMMA AccumulatorEnded ==
    ASSUME Acc!IInv, run = "done", Acc!Next \/ UNCHANGED accVars
    PROVE  run' = "done"
<1>1. offer = "none"
    BY DEF Acc!IInv, Acc!TypeOK, Acc!OfferFollowsRun
<1>2. QED
    BY <1>1 DEF Acc!Next, accVars, Acc!BeginEnqueue, Acc!RefuseEnqueue, Acc!FinishEnqueue,
       Acc!runVars, Acc!Receive, Acc!AppendNothing, Acc!AppendFitting, Acc!AppendAfterFlush,
       Acc!AppendTooBig, Acc!ReceiveData, Acc!OfferAccepted, Acc!FlushAccepted,
       Acc!TooBigAccepted, Acc!OfferRefused, Acc!BreakerTimeout, Acc!Start,
       Acc!BeginShutdown, Acc!FinishSetShutdown, Acc!CloseInbox, Acc!FinishDrain,
       Acc!Return, Acc!Cancel

LEMMA UploaderEnded ==
    ASSUME Upl!IInv, uRun = "done", Upl!Next \/ UNCHANGED uplVars
    PROVE  /\ uRun' = "done" /\ nextState' = "closed"
           /\ next = <<>> => next' = <<>>
<1>1. uHand = <<>> /\ nextState = "closed"
    BY DEF Upl!IInv, Upl!HandFollowsRun, Upl!ClosesFollowRun
<1>2. QED
    BY <1>1 DEF Upl!Next, uplVars, Upl!BeginEnqueue, Upl!RefuseEnqueue, Upl!FinishEnqueue,
       Upl!HandOff, Upl!runVars, Upl!RunStep, Upl!Start, Upl!Receive, Upl!SendWorkToNext,
       Upl!BeginShutdown, Upl!FinishSetShutdown, Upl!CloseInbox, Upl!CloseNext,
       Upl!Cancel, Upl!TakeWork

\* One leaves its loop only when cancelled.
LEMMA UploaderLeaves ==
    ASSUME uRun \in {"new", "select"}, Upl!Next \/ UNCHANGED uplVars
    PROVE  uRun' \in {"new", "select"} \/ uCtx = "cancelled"
BY DEF Upl!Next, uplVars, Upl!BeginEnqueue, Upl!RefuseEnqueue, Upl!FinishEnqueue,
   Upl!HandOff, Upl!runVars, Upl!RunStep, Upl!Start, Upl!Receive, Upl!SendWorkToNext,
   Upl!BeginShutdown, Upl!FinishSetShutdown, Upl!CloseInbox, Upl!CloseNext,
   Upl!Cancel, Upl!TakeWork

(***************************************************************************)
(* The run group and the workers.                                          *)
(***************************************************************************)

\* What a step does to the contexts and to the run group.
LEMMA GroupMoves ==
    ASSUME [Next]_vars
    PROVE  \/ UNCHANGED <<app, uCtx, workerCtx>>
           \/ /\ UNCHANGED <<uCtx, workerCtx, workerRun>>
              /\ \/ app = "running" /\ app' = "stopping api"
                 \/ app = "stopping api" /\ app' = "stopping accumulator"
           \/ /\ app = "stopping accumulator" /\ app' = "stopping uploader"
              /\ run = "done" /\ uCtx' = "cancelled" /\ UNCHANGED <<workerCtx, workerRun>>
           \/ /\ app = "stopping uploader" /\ app' = "stopping workers"
              /\ uRun = "done" /\ workerCtx' = "cancelled" /\ UNCHANGED <<uCtx, workerRun>>
           \/ /\ app = "stopping workers" /\ app' = "stopped"
              /\ \A w \in Workers : workerRun[w] = "done"
              /\ UNCHANGED <<uCtx, workerCtx, workerRun>>
<1>1. Ingest \/ Accumulate \/ UNCHANGED vars => UNCHANGED <<app, uCtx, workerCtx>>
    BY DEF Ingest, Accumulate, vars, uplVars, wrkVars
<1>2. OfferBegins \/ OfferReturns => UNCHANGED <<app, uCtx, workerCtx>>
    BY DEF OfferBegins, OfferReturns, OfferAccepted, OfferRefused, wrkVars, uplRunVars,
       Upl!BeginEnqueue, Upl!RefuseEnqueue, Upl!HandOff, Upl!runVars
<1>3. Upload => UNCHANGED <<app, uCtx, workerCtx>>
    BY DEF Upload, wrkVars, Upl!RunStep, Upl!Start, Upl!Receive, Upl!SendWorkToNext,
       Upl!BeginShutdown, Upl!FinishSetShutdown, Upl!CloseInbox, Upl!CloseNext
<1>4. \A w \in Workers : WorkerStep(w) \/ BeginDrain(w) => UNCHANGED <<app, uCtx, workerCtx>>
    BY DEF WorkerStep, StartWorker, TakeWork, FinishWork, FinishDrain, BeginDrain, uplVars,
       Upl!TakeWork, Pool!Start, Pool!Take, Pool!Finish, Pool!BeginDrain, Pool!FinishDrain
<1>5. QED
    BY <1>1, <1>2, <1>3, <1>4 DEF Next, Stop, AppStep, StopAccumulator, StopUploader,
       StopWorkers, Stopped, uplVars, wrkVars, Upl!Cancel, Pool!Cancel

\* What a step does to the workers.
LEMMA WorkersMove ==
    ASSUME [Next]_vars
    PROVE  \/ UNCHANGED <<workerRun, hands>>
           \/ \E w \in Workers : Pool!Start(w) \/ Pool!Take(w) \/ Pool!Finish(w)
                                     \/ Pool!BeginDrain(w) \/ Pool!FinishDrain(w)
<1>1. Ingest \/ Accumulate \/ OfferBegins \/ OfferReturns \/ Upload \/ Stop \/ UNCHANGED vars
          => UNCHANGED <<workerRun, hands>>
    BY DEF Ingest, Accumulate, OfferBegins, OfferReturns, OfferAccepted, OfferRefused, Upload,
       Stop, vars, wrkVars
<1>2. AppStep => UNCHANGED <<workerRun, hands>>
    BY DEF AppStep, StopAccumulator, StopUploader, StopWorkers, Stopped, wrkVars,
       Pool!Cancel
<1>3. QED
    BY <1>1, <1>2 DEF Next, WorkerStep, StartWorker, TakeWork, FinishWork,
       FinishDrain, BeginDrain

WorkersTypeOK ==
    /\ workerRun \in [Workers -> {"new", "select", "draining", "done"}]
    /\ hands \in [Workers -> Seq(Seq(Payloads))]

LEMMA WorkersTypeStep ==
    ASSUME IInv, [Next]_vars PROVE WorkersTypeOK'
<1>1. CASE UNCHANGED <<workerRun, hands>>
    BY <1>1 DEF WorkersTypeOK, IInv
<1>2. ASSUME NEW w \in Workers, Pool!Start(w) \/ Pool!BeginDrain(w) \/ Pool!FinishDrain(w)
      PROVE  WorkersTypeOK'
    BY <1>2 DEF Pool!Start, Pool!BeginDrain, Pool!FinishDrain, WorkersTypeOK, IInv
<1>3. ASSUME NEW w \in Workers, Pool!Take(w) PROVE WorkersTypeOK'
  <2>1. next \in Seq(Seq(Payloads)) /\ next # <<>>
      BY <1>3 DEF IInv, Upl!IInv, Upl!TypeOK, Pool!Take
  <2>2. PICK c \in Seq(Payloads) : c = Head(next)
      BY <2>1, HeadThenTail
  <2>3. <<c>> \in Seq(Seq(Payloads))
      BY Singleton
  <2>4. QED
      BY <1>3, <2>2, <2>3 DEF Pool!Take, WorkersTypeOK, IInv
<1>4. ASSUME NEW w \in Workers, Pool!Finish(w) PROVE WorkersTypeOK'
  <2>1. <<>> \in Seq(Seq(Payloads))
      BY EmptySeq
  <2>2. QED
      BY <1>4, <2>1 DEF Pool!Finish, WorkersTypeOK, IInv
<1>5. QED
    BY <1>1, <1>2, <1>3, <1>4, WorkersMove

LEMMA OrderStep ==
    ASSUME IInv, [Next]_vars PROVE InterruptsInOrder'
<1>1. run = "done" => run' = "done"
    BY AccumulatorEnded, StepsOfAccumulator DEF IInv
<1>2. uRun = "done" => uRun' = "done"
    BY UploaderEnded, StepsOfUploader DEF IInv
<1>3. workerCtx = "cancelled" => \A w \in Workers : workerRun[w] = "done" => workerRun'[w] = "done"
    BY WorkersMove
       DEF IInv, Pool!Start, Pool!Take, Pool!Finish, Pool!BeginDrain, Pool!FinishDrain
<1>4. CASE UNCHANGED <<app, uCtx, workerCtx>>
    BY <1>1, <1>2, <1>3, <1>4 DEF IInv, InterruptsInOrder
<1>5. CASE ~UNCHANGED <<app, uCtx, workerCtx>>
    BY <1>1, <1>2, <1>5, GroupMoves DEF IInv, InterruptsInOrder
<1>6. QED
    BY <1>4, <1>5

LEMMA EndsStep ==
    ASSUME IInv, [Next]_vars PROVE EndsWhenCancelled'
<1>1. /\ uCtx = "cancelled" => uCtx' = "cancelled"
      /\ workerCtx = "cancelled" => workerCtx' = "cancelled"
    BY GroupMoves
<1>2. uRun' \notin {"new", "select"} => uCtx' = "cancelled"
    BY <1>1, UploaderLeaves, StepsOfUploader DEF IInv, EndsWhenCancelled
<1>3. ASSUME NEW w \in Workers, workerRun'[w] \in {"draining", "done"}
      PROVE  workerCtx' = "cancelled"
  <2>1. workerRun[w] \in {"draining", "done"} \/ workerCtx = "cancelled"
      BY <1>3, WorkersMove
         DEF IInv, Pool!Start, Pool!Take, Pool!Finish, Pool!BeginDrain, Pool!FinishDrain
  <2>2. QED
      BY <1>1, <2>1 DEF IInv, EndsWhenCancelled
<1>4. ASSUME NEW w \in Workers, workerRun'[w] = "done"
      PROVE  hands'[w] = <<>> /\ next' = <<>> /\ nextState' = "closed"
  <2>1. CASE workerRun[w] = "done"
    <3>1. hands[w] = <<>> /\ next = <<>> /\ uRun = "done"
        BY <2>1 DEF IInv, EndsWhenCancelled, InterruptsInOrder
    <3>2. next' = <<>> /\ nextState' = "closed"
        BY <3>1, UploaderEnded, StepsOfUploader DEF IInv
    <3>3. hands'[w] = <<>>
        BY <2>1, <3>1, WorkersMove
           DEF IInv, Pool!Start, Pool!Take, Pool!Finish, Pool!BeginDrain, Pool!FinishDrain
    <3>4. QED
        BY <3>2, <3>3
  <2>2. CASE workerRun[w] # "done"
    <3>1. Pool!FinishDrain(w)
        BY <1>4, <2>2, WorkersMove
           DEF IInv, Pool!Start, Pool!Take, Pool!Finish, Pool!BeginDrain, Pool!FinishDrain
    <3>2. QED
        BY <3>1 DEF Pool!FinishDrain
  <2>3. QED
      BY <2>1, <2>2
<1>5. QED
    BY <1>2, <1>3, <1>4 DEF EndsWhenCancelled

(***************************************************************************)
(* The offers.                                                             *)
(***************************************************************************)

\* An accepted offer is emitted, delivered and accepted in one step.
LEMMA AcceptedOffer ==
    ASSUME IInv, OfferAccepted PROVE OffersAreAccepted'
<1>1. PICK c \in Seq(Payloads) : c = Offered
    BY DEF Offered, IInv, Acc!IInv, Acc!TypeOK
<1>2. uAccepted' = Append(uAccepted, c) /\ uCaller' = [uCaller EXCEPT ![Accu] = "ok"]
    BY <1>1 DEF OfferAccepted, Upl!Push, Upl!HandOff
<1>3. emitted' = Append(emitted, c) /\ delivered' = delivered \o c
    BY <1>1 DEF OfferAccepted, Offered, Acc!OfferAccepted, Acc!FlushAccepted, Acc!TooBigAccepted
<1>4. emitted \in Seq(Seq(Payloads)) /\ uCaller \in [{Accu} -> Upl!Results \cup {"sending"}]
    BY DEF IInv, Acc!IInv, Acc!TypeOK, Upl!IInv, Upl!TypeOK, Upl!InboxTypeOK
<1>5. Unmerged(emitted') = Unmerged(emitted) \o c
    BY <1>3, <1>4, UnmergedFold
<1>6. uCaller'[Accu] = "ok"
    BY <1>2, <1>4
<1>7. QED
    BY <1>2, <1>3, <1>5, <1>6 DEF IInv, OffersAreAccepted

\* The uploader is not shutting down while there are offers.
LEMMA RefusedOffer ==
    ASSUME IInv, OfferRefused PROVE uCaller'[Accu] = "full"
<1>1. offer # "none" /\ run # "done"
    BY DEF OfferRefused, Acc!OfferRefused, IInv, Acc!IInv, Acc!OfferFollowsRun
<1>2. uGate # "shut"
    BY <1>1 DEF IInv, InterruptsInOrder, EndsWhenCancelled, Upl!IInv, Upl!GateFollowsRun
<1>3. uCaller \in [{Accu} -> Upl!Results \cup {"sending"}]
    BY DEF IInv, Upl!IInv, Upl!TypeOK, Upl!InboxTypeOK
<1>4. QED
    BY <1>2, <1>3 DEF OfferRefused, Upl!RejectFull, Upl!RefuseEnqueue, Upl!RefuseShuttingDown

LEMMA OffersStep ==
    ASSUME IInv, [Next]_vars PROVE OffersAreAccepted'
<1>1. CASE OfferAccepted
    BY <1>1, AcceptedOffer
<1>2. CASE OfferRefused
  <2>1. UNCHANGED <<uAccepted, emitted, delivered>>
      BY <1>2 DEF OfferRefused, Upl!RejectFull, Upl!RefuseEnqueue, Upl!RefuseShuttingDown,
         Acc!OfferRefused, Acc!workVars
  <2>2. QED
      BY <1>2, <2>1, RefusedOffer DEF IInv, OffersAreAccepted
<1>3. CASE OfferBegins
  <2>1. /\ UNCHANGED <<uAccepted, emitted, delivered>>
        /\ uCaller' = [uCaller EXCEPT ![Accu] = "sending"]
      BY <1>3 DEF OfferBegins, Upl!BeginEnqueue, Upl!Enter, accVars
  <2>2. uCaller \in [{Accu} -> Upl!Results \cup {"sending"}]
      BY DEF IInv, Upl!IInv, Upl!TypeOK, Upl!InboxTypeOK
  <2>3. uCaller'[Accu] = "sending"
      BY <2>1, <2>2
  <2>4. QED
      BY <2>1, <2>3 DEF IInv, OffersAreAccepted
<1>4. ASSUME UNCHANGED <<uAccepted, emitted, delivered, uCaller>> PROVE OffersAreAccepted'
    BY <1>4 DEF IInv, OffersAreAccepted
<1>5. Ingest \/ Accumulate => UNCHANGED <<uAccepted, emitted, delivered, uCaller>>
    BY DEF Ingest, Accumulate, uplVars, Acc!BeginEnqueue, Acc!RefuseEnqueue, Acc!FinishEnqueue,
       Acc!runVars, Acc!workVars, Acc!Receive, Acc!AppendNothing, Acc!AppendFitting,
       Acc!AppendAfterFlush, Acc!AppendTooBig, Acc!ReceiveData, Acc!BreakerTimeout, Acc!Start,
       Acc!BeginShutdown, Acc!FinishSetShutdown, Acc!CloseInbox, Acc!FinishDrain, Acc!Return
<1>6. Upload => UNCHANGED <<uAccepted, emitted, delivered, uCaller>>
    BY DEF Upload, accVars, Upl!RunStep, Upl!Start, Upl!Receive, Upl!Pop, Upl!SendWorkToNext,
       Upl!BeginShutdown, Upl!LockGate, Upl!FinishSetShutdown, Upl!SetShutdown,
       Upl!CloseInbox, Upl!CloseChan, Upl!CloseNext, Upl!inboxVars
<1>7. \A w \in Workers : WorkerStep(w) \/ BeginDrain(w)
          => UNCHANGED <<uAccepted, emitted, delivered, uCaller>>
    BY DEF WorkerStep, StartWorker, TakeWork, FinishWork, FinishDrain, BeginDrain, accVars,
       uplVars, Upl!TakeWork, Upl!inboxVars
<1>8. Stop \/ AppStep \/ UNCHANGED vars => UNCHANGED <<uAccepted, emitted, delivered, uCaller>>
    BY DEF Stop, AppStep, StopAccumulator, StopUploader, StopWorkers, Stopped, vars, accVars,
       uplVars, Acc!Cancel, Acc!workVars, Upl!Cancel, Upl!inboxVars
<1>9. QED
    BY <1>1, <1>2, <1>3, <1>4, <1>5, <1>6, <1>7, <1>8 DEF Next, OfferReturns

(***************************************************************************)
(* The theorems.                                                           *)
(***************************************************************************)

LEMMA InitIInv == Init => IInv
<1> SUFFICES ASSUME Init PROVE IInv
    OBVIOUS
<1>1. Acc!IInv /\ Upl!IInv
    BY AccumulatorInvariant, UploaderInvariant DEF Init
<1>2. <<>> \in Seq(Seq(Payloads))
    BY EmptySeq
<1>3. InterruptsInOrder /\ EndsWhenCancelled
    BY DEF Init, Acc!Init, Upl!Init, Pool!Init, InterruptsInOrder, EndsWhenCancelled
<1>4. OffersAreAccepted
    BY UnmergedFold DEF Init, Acc!Init, Upl!Init, Upl!InboxInit, OffersAreAccepted
<1>5. QED
    BY <1>1, <1>2, <1>3, <1>4 DEF Init, Pool!Init, IInv

\* The invariants of the stages and of their composition hold in every
\* behaviour of the flow.
THEOREM FlowInvariant == Spec => []IInv
<1>1. IInv /\ [Next]_vars => IInv'
  <2> SUFFICES ASSUME IInv, [Next]_vars PROVE IInv'
      OBVIOUS
  <2>1. Acc!IInv'
      BY AccumulatorInvariant, StepsOfAccumulator DEF IInv
  <2>2. Upl!IInv'
      BY UploaderInvariant, StepsOfUploader DEF IInv
  <2>3. QED
      BY <2>1, <2>2, WorkersTypeStep, OrderStep, EndsStep, OffersStep DEF IInv, WorkersTypeOK
<1>2. QED
    BY InitIInv, <1>1, PTL DEF Spec

\* The uploader is cancelled only when the accumulator has ended and holds
\* nothing, and never answers it "shutting down".
THEOREM UploaderStopsLater == Spec => []UploaderOutlivesAccumulator
<1>1. IInv => UploaderOutlivesAccumulator
  <2> SUFFICES ASSUME IInv, uCtx = "cancelled"
               PROVE  run = "done" /\ current = <<>> /\ item = <<>>
      BY DEF IInv, OffersAreAccepted, UploaderOutlivesAccumulator
  <2>1. run = "done"
      BY DEF IInv, InterruptsInOrder
  <2>2. QED
      BY <2>1 DEF IInv, Acc!IInv, Acc!TypeOK, Acc!OfferFollowsRun
<1>2. QED
    BY <1>1, FlowInvariant, PTL

\* Nothing acknowledged to a handler is lost, doubled or reordered between
\* its Enqueue and the workers, for any sizes, capacities and interleaving.
THEOREM NothingLostEndToEnd == Spec => []EndToEnd
<1>1. IInv => EndToEnd
  <2> SUFFICES ASSUME IInv PROVE EndToEnd
      OBVIOUS
  <2>1. uAccepted = emitted /\ delivered = Unmerged(uAccepted)
      BY DEF IInv, OffersAreAccepted
  <2>2. uAccepted = taken \o next \o uHand \o uChan
      BY DEF IInv, Upl!IInv, Upl!Conservation
  <2>3. kept = delivered \o current \o item /\ accepted = received \o chan
      BY DEF IInv, Acc!IInv, Acc!Conservation
  <2>4. QED
      BY <2>1, <2>2, <2>3 DEF EndToEnd
<1>2. QED
    BY <1>1, FlowInvariant, PTL

LEMMA StoppedWorked == IInv => StoppedMeansWorked
<1> SUFFICES ASSUME IInv, app = "stopped" PROVE StoppedMeansWorked
    BY DEF StoppedMeansWorked
<1>1. /\ run = "done" /\ uRun = "done"
      /\ \A w \in Workers : workerRun[w] = "done"
    BY DEF IInv, InterruptsInOrder
<1>2. next = <<>> /\ \A w \in Workers : hands[w] = <<>>
    BY <1>1, WorkersAssumption DEF IInv, EndsWhenCancelled
<1>3. uHand = <<>> /\ uChan = <<>>
    BY <1>1 DEF IInv, Upl!IInv, Upl!HandFollowsRun
<1>4. taken = uAccepted
  <2>1. taken \in Seq(Seq(Payloads))
      BY DEF IInv, Upl!IInv, Upl!TypeOK
  <2>2. uAccepted = ((taken \o <<>>) \o <<>>) \o <<>>
      BY <1>2, <1>3 DEF IInv, Upl!IInv, Upl!Conservation
  <2>3. QED
      BY <2>1, <2>2, ConcatEmptySeq
<1>5. offer = "none" /\ chan = <<>> /\ item = <<>> /\ current = <<>>
    BY <1>1 DEF IInv, Acc!IInv, Acc!OfferFollowsRun, Acc!TypeOK
<1>6. delivered = kept /\ received = accepted
  <2>1. received \in Seq(Payloads) /\ delivered \in Seq(Payloads)
      BY DEF IInv, Acc!IInv, Acc!TypeOK
  <2>2. accepted = received \o <<>> /\ kept = (delivered \o <<>>) \o <<>>
      BY <1>5 DEF IInv, Acc!IInv, Acc!Conservation
  <2>3. QED
      BY <2>1, <2>2, ConcatEmptySeq
<1>7. Unmerged(taken) = Acc!WithBytes(accepted)
    BY <1>4, <1>6 DEF IInv, OffersAreAccepted, Acc!IInv, Acc!KeptHaveBytes
<1>8. Acc!Sending = {}
    BY <1>1 DEF IInv, Acc!IInv, Acc!GateFollowsRun, Acc!ShutMeansNoReaders, Acc!TypeOK,
       Acc!InboxTypeOK
<1>9. QED
    BY <1>2, <1>7, <1>8 DEF StoppedMeansWorked

\* "Data is correctly flushed when Jiboia receives a SIGTERM": when the
\* application has stopped, the workers have dealt with every acknowledged
\* payload that has bytes.
THEOREM StopLosesNothing == Spec => []StoppedMeansWorked
BY StoppedWorked, FlowInvariant, PTL

(***************************************************************************)
(* The flow as a stage.                                                    *)
(***************************************************************************)

\* Only a worker that takes a chunk changes what was taken.
LEMMA TakenMoves ==
    ASSUME [Next]_vars
    PROVE  UNCHANGED taken \/ \E w \in Workers : TakeWork(w)
<1>1. Ingest \/ Accumulate \/ Stop \/ UNCHANGED vars => UNCHANGED taken
    BY DEF Ingest, Accumulate, Stop, vars, uplVars
<1>2. OfferBegins \/ OfferReturns => UNCHANGED taken
    BY DEF OfferBegins, OfferReturns, OfferAccepted, OfferRefused, uplRunVars,
       Upl!BeginEnqueue, Upl!RefuseEnqueue, Upl!HandOff, Upl!runVars
<1>3. Upload => UNCHANGED taken
    BY DEF Upload, Upl!RunStep, Upl!Start, Upl!Receive, Upl!SendWorkToNext,
       Upl!BeginShutdown, Upl!FinishSetShutdown, Upl!CloseInbox, Upl!CloseNext
<1>4. \A w \in Workers : WorkerStep(w) \/ BeginDrain(w) => UNCHANGED taken \/ TakeWork(w)
    BY DEF WorkerStep, StartWorker, FinishWork, FinishDrain, BeginDrain, uplVars
<1>5. AppStep => UNCHANGED taken
    BY DEF AppStep, StopAccumulator, StopUploader, StopWorkers, Stopped, uplVars, Upl!Cancel
<1>6. QED
    BY <1>1, <1>2, <1>3, <1>4, <1>5 DEF Next

\* What the workers took is where the accepted payloads begin.
LEMMA TakenBegins ==
    ASSUME IInv PROVE Begins(Payloads, Acc!WithBytes(accepted), Unmerged(taken))
<1>1. /\ taken \in Seq(Seq(Payloads)) /\ next \in Seq(Seq(Payloads))
      /\ uHand \in Seq(Seq(Payloads)) /\ uChan \in Seq(Seq(Payloads))
      /\ uAccepted = ((taken \o next) \o uHand) \o uChan
    BY DEF IInv, Upl!IInv, Upl!TypeOK, Upl!InboxTypeOK, Upl!Conservation
<1>2. PICK rest \in Seq(Seq(Payloads)) : uAccepted = taken \o rest
  <2>1. Begins(Seq(Payloads), ((taken \o next) \o uHand) \o uChan, taken)
      BY <1>1, FirstOfFour
  <2>2. QED
      BY Zenon, <1>1, <2>1 DEF Begins
<1>3. Unmerged(uAccepted) = Unmerged(taken) \o Unmerged(rest)
    BY <1>1, <1>2, UnmergedConcat
<1>4. Unmerged(taken) \in Seq(Payloads) /\ Unmerged(rest) \in Seq(Payloads)
    BY <1>1, UnmergedFold
<1>5. Begins(Payloads, Unmerged(uAccepted), Unmerged(taken))
    BY <1>3, <1>4 DEF Begins
<1>6. Begins(Payloads, Acc!WithBytes(accepted), Unmerged(uAccepted))
    BY AccumulatorDelivers DEF IInv, OffersAreAccepted
<1>7. QED
    BY <1>4, <1>5, <1>6, BeginsFurther

LEMMA TakeDelivers ==
    ASSUME IInv, IInv', NEW w \in Workers, TakeWork(w)
    PROVE  Abstract!Deliver \/ UNCHANGED Abstract!vars
<1>1. /\ UNCHANGED <<accVars, app>> /\ next # <<>> /\ taken' = Append(taken, Head(next))
    BY DEF TakeWork, Upl!TakeWork
<1>2. next \in Seq(Seq(Payloads)) /\ taken \in Seq(Seq(Payloads))
    BY DEF IInv, Upl!IInv, Upl!TypeOK
<1>3. PICK c \in Seq(Payloads) : c = Head(next)
    BY <1>1, <1>2, HeadThenTail
<1>4. Unmerged(taken') = Unmerged(taken) \o c /\ Unmerged(taken) \in Seq(Payloads)
    BY <1>1, <1>2, <1>3, UnmergedFold
<1>5. /\ Acc!WithBytes(accepted)' = Acc!WithBytes(accepted)
      /\ Unmerged(taken)' = Unmerged(taken')
  <2>1. accepted' = accepted
      BY <1>1 DEF accVars
  <2>2. QED
      BY <2>1 DEF Acc!WithBytes, Unmerged
<1>6. Phase' = Phase
    BY <1>1 DEF Phase, Acc!Phase, accVars
<1>7. CASE c = <<>>
  <2>1. Unmerged(taken)' = Unmerged(taken)
      BY <1>4, <1>5, <1>7, ConcatEmptySeq
  <2>2. QED
      BY <1>5, <1>6, <2>1 DEF Abstract!vars
<1>8. CASE c # <<>>
  <2>1. PICK v \in Seq(Payloads) : v = Acc!WithBytes(accepted)
      BY AccumulatorDelivers DEF IInv
  <2>2. PICK d \in Seq(Payloads) : d = Unmerged(taken)
      BY <1>4
  <2>3. IInv' => Begins(Payloads, Acc!WithBytes(accepted), Unmerged(taken))'
      BY TakenBegins, PTL
  <2>4. Begins(Payloads, v, d \o c)
      BY <1>4, <1>5, <2>1, <2>2, <2>3 DEF Begins
  <2>5. Extends(v, d, d \o c)
      BY <1>8, <2>4, LongerPrefix
  <2>6. Unmerged(taken)' = d \o c
      BY <1>4, <1>5, <2>2
  <2>7. QED
      BY <1>5, <1>6, <2>1, <2>2, <2>5, <2>6 DEF Abstract!Deliver, Extends
<1>9. QED
    BY <1>7, <1>8

LEMMA FlowStepMapping ==
    ASSUME IInv, IInv', [Next]_vars
    PROVE  [Abstract!Next]_(Abstract!vars)
<1>1. CASE \E w \in Workers : TakeWork(w)
    BY <1>1, TakeDelivers DEF Abstract!Next
<1>2. CASE UNCHANGED taken
  <2>1. Unmerged(taken)' = Unmerged(taken)
      BY <1>2 DEF Unmerged
  <2>2. Acc!Next \/ UNCHANGED accVars
      BY StepsOfAccumulator
  <2>3. app = "stopped" \/ app' = "stopped" => run = "done"
    <3>1. app = "stopped" => run = "done"
        BY DEF IInv, InterruptsInOrder
    <3>2. app' = "stopped" /\ app # "stopped" => app = "stopping workers"
        BY GroupMoves
    <3>3. QED
        BY <3>1, <3>2 DEF IInv, InterruptsInOrder
  <2>4. run = "done" => Acc!Phase # "open" /\ Acc!Phase' # "open"
    <3>1. run = "done" => run' = "done"
        BY <2>2, AccumulatorEnded DEF IInv
    <3>2. QED
        BY <3>1 DEF Acc!Phase
  <2>5. app = "stopped" => app' = "stopped"
      BY GroupMoves
  <2>6. CASE app' = "stopped" /\ app # "stopped"
    <3>1. run = "done" /\ Acc!Phase # "open" /\ Acc!Phase' # "open"
        BY <2>3, <2>4, <2>6
    <3>2. Acc!WithBytes(accepted)' = Acc!WithBytes(accepted)
        BY <2>2, <3>1, AccumulatorIntake DEF IInv
    <3>3. IInv' => StoppedMeansWorked'
        BY StoppedWorked, PTL
    <3>4. Unmerged(taken)' = Acc!WithBytes(accepted)'
        BY <2>6, <3>3 DEF StoppedMeansWorked
    <3>5. Phase = "shut" /\ Phase' = "finished"
        BY <2>6, <3>1 DEF Phase
    <3>6. QED
        BY <2>1, <3>2, <3>4, <3>5 DEF Abstract!Next, Abstract!Finish
  <2>7. CASE app' = "stopped" /\ app = "stopped"
    <3>1. Acc!WithBytes(accepted)' = Acc!WithBytes(accepted)
        BY <2>2, <2>3, <2>4, <2>7, AccumulatorIntake DEF IInv
    <3>2. Phase' = Phase
        BY <2>7 DEF Phase
    <3>3. QED
        BY <2>1, <3>1, <3>2 DEF Abstract!vars
  <2>8. CASE app' # "stopped" /\ app # "stopped"
    <3>1. /\ Phase = IF Acc!Phase = "open" THEN "open" ELSE "shut"
          /\ Phase' = IF Acc!Phase' = "open" THEN "open" ELSE "shut"
        BY <2>8 DEF Phase
    <3>2. QED
        BY <2>1, <2>2, <3>1, AccumulatorIntake DEF IInv, Abstract!Next, Abstract!vars,
           Abstract!Accept, Abstract!Shut
  <2>9. QED
      BY <2>5, <2>6, <2>7, <2>8
<1>3. QED
    BY <1>1, <1>2, TakenMoves

\* The pipeline as a whole keeps the promise of one stage: what its
\* accumulator acknowledged the workers take, once and in the order
\* acknowledged, and the flow stops only when they have taken it all.
THEOREM FlowRefinement == Spec => ImplementsDataFlow
<1>1. Init => Abstract!Init
  <2> SUFFICES ASSUME Init PROVE Abstract!Init
      OBVIOUS
  <2>1. /\ accepted = <<>> /\ taken = <<>> /\ app = "running"
        /\ run = "new" /\ gate = "open"
      BY DEF Init, Acc!Init, Acc!InboxInit, Upl!Init
  <2>2. Unmerged(taken) = <<>>
      BY <2>1, UnmergedFold
  <2>3. Acc!WithBytes(accepted) = <<>>
      BY <2>1, NoneWithBytes
  <2>4. Phase = "open"
      BY <2>1 DEF Phase, Acc!Phase
  <2>5. QED
      BY <2>2, <2>3, <2>4 DEF Abstract!Init
<1>2. IInv /\ IInv' /\ [Next]_vars => [Abstract!Next]_(Abstract!vars)
    BY FlowStepMapping
<1>3. QED
    BY <1>1, <1>2, FlowInvariant, PTL DEF Spec, ImplementsDataFlow, Abstract!Spec
-----------------------------------------------------------------------------
(* The workers' surroundings. *)

\* The uploader's side of the channel to the workers.
LEMMA UploadFeeds ==
    ASSUME IInv, Upload
    PROVE  (\E u \in Seq(Payloads) : Pool!Feed(u)) \/ Pool!Close \/ UNCHANGED Pool!vars
<1>1. UNCHANGED <<workerRun, hands, workerCtx>>
    BY DEF Upload, wrkVars
<1>2. /\ uHand \in Seq(Seq(Payloads))
      /\ nextState \in {"open", "closed"}
      /\ nextState = "closed" <=> uRun = "done"
      /\ uHand # <<>> => uRun \in {"select", "draining"}
    BY DEF IInv, Upl!IInv, Upl!TypeOK, Upl!ClosesFollowRun, Upl!HandFollowsRun
<1>3. ASSUME Upl!SendWorkToNext
      PROVE  \E u \in Seq(Payloads) : Pool!Feed(u)
  <2>1. Head(uHand) \in Seq(Payloads)
      BY <1>2, <1>3, HeadThenTail DEF Upl!SendWorkToNext
  <2>2. nextState = "open"
      BY <1>2, <1>3 DEF Upl!SendWorkToNext
  <2>3. Pool!Feed(Head(uHand))
      BY <1>1, <1>3, <2>2 DEF Upl!SendWorkToNext, Pool!Feed
  <2>4. QED
      BY <2>1, <2>3
<1>4. ASSUME Upl!CloseNext PROVE Pool!Close
    BY <1>1, <1>2, <1>4 DEF Upl!CloseNext, Pool!Close
<1>5. ASSUME ~Upl!SendWorkToNext, ~Upl!CloseNext PROVE UNCHANGED <<next, nextState>>
    BY <1>5 DEF Upload, Upl!RunStep, Upl!Start, Upl!Receive, Upl!BeginShutdown,
       Upl!FinishSetShutdown, Upl!CloseInbox
<1>6. QED
    BY <1>1, <1>3, <1>4, <1>5 DEF Pool!vars

\* Every step of the flow is one of the pool of its workers, or none.
LEMMA FlowPoolStep ==
    ASSUME IInv, [Next]_vars
    PROVE  [Pool!Next]_(Pool!vars)
<1>1. Ingest \/ Accumulate \/ Stop \/ UNCHANGED vars => UNCHANGED Pool!vars
    BY DEF Ingest, Accumulate, Stop, vars, uplVars, wrkVars, Pool!vars
<1>2. OfferBegins \/ OfferReturns => UNCHANGED Pool!vars
    BY DEF OfferBegins, OfferReturns, OfferAccepted, OfferRefused, wrkVars, uplRunVars,
       Upl!BeginEnqueue, Upl!RefuseEnqueue, Upl!HandOff, Upl!runVars, Pool!vars
<1>3. StopAccumulator \/ StopUploader \/ Stopped => UNCHANGED Pool!vars
    BY DEF StopAccumulator, StopUploader, Stopped, uplVars, wrkVars, Upl!Cancel, Pool!vars
<1>4. StopWorkers => Pool!Cancel
    BY DEF StopWorkers
<1>5. \A w \in Workers : WorkerStep(w) \/ BeginDrain(w) =>
          \/ Pool!Start(w) \/ Pool!Take(w) \/ Pool!Finish(w)
          \/ Pool!BeginDrain(w) \/ Pool!FinishDrain(w)
    BY DEF WorkerStep, StartWorker, TakeWork, FinishWork, FinishDrain, BeginDrain
<1>6. QED
    BY <1>1, <1>2, <1>3, <1>4, <1>5, UploadFeeds DEF Next, AppStep, Pool!Next

\* The composed flow gives its workers the surroundings that module Worker
\* assumes: what the uploader does to the channel is to send on it while it
\* is open and has room, and to close it once; the run group cancels once.
THEOREM FlowServesPool == Spec => Pool!Spec
<1>1. Init => Pool!Init
    BY DEF Init
<1>2. IInv /\ [Next]_vars => [Pool!Next]_(Pool!vars)
    BY FlowPoolStep
<1>3. QED
    BY <1>1, <1>2, FlowInvariant, PTL DEF Spec, Pool!Spec
=============================================================================
