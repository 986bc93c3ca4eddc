------------------------- MODULE AccumulatorProofs -------------------------
(***************************************************************************)
(* Proofs about Accumulator for any number of callers, any payloads, sizes *)
(* and limits.  They say that whatever the callers, the size rules, the    *)
(* refusals of the next stage and the shutdown do, nothing is lost,        *)
(* doubled or reordered, that the chunks are within the limit and are the  *)
(* ones assembleResult computes, and that Run returns only when all is     *)
(* delivered.                                                              *)
(***************************************************************************)
EXTENDS TimedAccumulator, SeqLemmas

(***************************************************************************)
(* The loops of the model: what they compute for nothing, and with one     *)
(* payload more.                                                           *)
(***************************************************************************)

\* The length of a merged chunk.
LEMMA MergedLenFold ==
    /\ MergedLen(<<>>) = -SeparatorLen
    /\ \A s \in Seq(Payloads) : MergedLen(s) \in Int /\ MergedLen(s) >= -SeparatorLen
    /\ \A s \in Seq(Payloads), d \in Payloads :
          MergedLen(Append(s, d)) = MergedLen(s) + SeparatorLen + Size[d]
<1> DEFINE step == [x \in Nat |-> [d \in Payloads |-> x + Size[d] + SeparatorLen]]
<1>0. \A x \in Nat, d \in Payloads : x + Size[d] + SeparatorLen \in Nat
    BY SizeAssumption, SeparatorAssumption
<1>1. step \in [Nat -> [Payloads -> Nat]] /\ 0 \in Nat
    BY <1>0
<1>2. \A x \in Nat, d \in Payloads : step[x][d] = x + Size[d] + SeparatorLen
    OBVIOUS
<1> HIDE DEF step
<1>3. PICK F : IsFold(F, Payloads, Nat, step, 0)
    BY <1>1, FoldExists
<1>4. ASSUME NEW s \in Seq(Payloads) PROVE MergedLen(s) = F[s] - SeparatorLen
  <2> DEFINE Loop(g) == g = [n \in 0..Len(s) |->
                               IF n = 0 THEN 0 ELSE g[n - 1] + Size[s[n]] + SeparatorLen]
             total == CHOOSE g : Loop(g)
  <2>1. Len(s) \in Nat /\ \A n \in 1..Len(s) : s[n] \in Payloads
      BY LenProperties, ElementOfSeq
  <2>2. PICK f \in [0..Len(s) -> Nat] : Way(f, step, 0, s, Len(s)) /\ f[Len(s)] = F[s]
      BY <1>3 DEF IsFold
  <2>3. ASSUME NEW n \in 1..Len(s) PROVE f[n] = f[n - 1] + Size[s[n]] + SeparatorLen
    <3>1. f[n - 1] \in Nat /\ s[n] \in Payloads
        BY <2>1, <2>2
    <3>2. f[n] = step[f[n - 1]][s[n]]
        BY <2>2 DEF Way
    <3>3. QED
        BY <1>2, <3>1, <3>2
  <2>4. Loop(f)
    <3>1. f[0] = 0
        BY <2>2 DEF Way
    <3>2. QED
        BY <2>1, <2>2, <2>3, <3>1
  <2>5. Loop(total)
    <3> HIDE DEF Loop
    <3> QED
        BY <2>4
  <2>6. MergedLen(s) = total[Len(s)] - SeparatorLen
      BY DEF MergedLen
  <2> HIDE DEF total
  <2>7. total[0] = 0 /\ \A n \in 1..Len(s) : total[n] = total[n - 1] + Size[s[n]] + SeparatorLen
      BY <2>1, <2>5
  <2>8. \A n \in 1..Len(s) : total[n - 1] = f[n - 1] => total[n] = f[n]
      BY <2>3, <2>7
  <2>9. total[0] = f[0]
      BY <2>2, <2>7 DEF Way
  <2>10. total[Len(s)] = f[Len(s)]
      BY <2>1, <2>8, <2>9, LoopIsFold
  <2>11. QED
      BY <2>2, <2>6, <2>10
<1>5. <<>> \in Seq(Payloads)
    BY EmptySeq
<1>6. ASSUME NEW s \in Seq(Payloads), NEW d \in Payloads
      PROVE  MergedLen(Append(s, d)) = MergedLen(s) + SeparatorLen + Size[d]
  <2>1. Append(s, d) \in Seq(Payloads)
      BY AppendProperties
  <2>2. F[s] \in Nat /\ F[Append(s, d)] = F[s] + Size[d] + SeparatorLen
      BY <1>2, <1>3 DEF IsFold
  <2>3. MergedLen(s) = F[s] - SeparatorLen /\ MergedLen(Append(s, d)) = F[Append(s, d)] - SeparatorLen
      BY <1>4, <2>1
  <2>4. Size[d] \in Nat /\ SeparatorLen \in Nat
      BY SizeAssumption, SeparatorAssumption
  <2>5. QED
      BY <2>2, <2>3, <2>4
<1>7. ASSUME NEW s \in Seq(Payloads) PROVE MergedLen(s) \in Int /\ MergedLen(s) >= -SeparatorLen
  <2>1. F[s] \in Nat
      BY <1>3 DEF IsFold
  <2>2. QED
      BY <1>4, <2>1, SeparatorAssumption
<1>8. MergedLen(<<>>) = -SeparatorLen
  <2>1. F[<<>>] = 0
      BY <1>3 DEF IsFold
  <2>2. MergedLen(<<>>) = F[<<>>] - SeparatorLen
      BY <1>4, <1>5
  <2>3. QED
      BY <2>1, <2>2, SeparatorAssumption
<1>9. QED
    BY <1>6, <1>7, <1>8

\* What WithBytes keeps of a sequence, one payload at a time.
LEMMA WithBytesFold ==
    /\ WithBytes(<<>>) = <<>>
    /\ \A s \in Seq(Payloads) : WithBytes(s) \in Seq(Payloads)
    /\ \A s \in Seq(Payloads), d \in Payloads :
          WithBytes(Append(s, d)) =
              IF Size[d] > 0 THEN Append(WithBytes(s), d) ELSE WithBytes(s)
<1> DEFINE Turn(x, d) == IF Size[d] > 0 THEN Append(x, d) ELSE x
           S == Seq(Payloads)
           step == [x \in S |-> [d \in Payloads |-> Turn(x, d)]]
<1>0. \A x \in S, d \in Payloads : Turn(x, d) \in S
    BY AppendProperties
<1> HIDE DEF Turn, S
<1>1. step \in [S -> [Payloads -> S]]
    BY <1>0
<1>2. \A x \in S, d \in Payloads : step[x][d] = Turn(x, d)
    OBVIOUS
<1>e. <<>> \in S
    BY EmptySeq DEF S
<1> HIDE DEF step
<1>3. PICK F : IsFold(F, Payloads, S, step, <<>>)
    BY <1>1, <1>e, FoldExists
<1>4. ASSUME NEW s \in Seq(Payloads) PROVE WithBytes(s) = F[s]
  <2> DEFINE Loop(g) == g = [n \in 0..Len(s) |->
                               IF n = 0 THEN <<>> ELSE Turn(g[n - 1], s[n])]
             some == CHOOSE g : Loop(g)
  <2>1. Len(s) \in Nat /\ \A n \in 1..Len(s) : s[n] \in Payloads
      BY LenProperties, ElementOfSeq
  <2>2. PICK f \in [0..Len(s) -> S] : Way(f, step, <<>>, s, Len(s)) /\ f[Len(s)] = F[s]
      BY <1>3 DEF IsFold
  <2>3. ASSUME NEW n \in 1..Len(s) PROVE f[n] = Turn(f[n - 1], s[n])
    <3>1. f[n - 1] \in S /\ s[n] \in Payloads
        BY <2>1, <2>2
    <3>2. f[n] = step[f[n - 1]][s[n]]
        BY <2>2 DEF Way
    <3>3. QED
        BY <1>2, <3>1, <3>2
  <2>4. Loop(f)
    <3>1. f[0] = <<>>
        BY <2>2 DEF Way
    <3>2. QED
        BY <2>1, <2>2, <2>3, <3>1
  <2>5. Loop(some)
    <3> HIDE DEF Loop
    <3> QED
        BY <2>4
  <2>6. WithBytes(s) = some[Len(s)]
      BY DEF WithBytes, Turn
  <2> HIDE DEF some
  <2>7. some[0] = <<>> /\ \A n \in 1..Len(s) : some[n] = Turn(some[n - 1], s[n])
      BY <2>1, <2>5
  <2>8. \A n \in 1..Len(s) : some[n - 1] = f[n - 1] => some[n] = f[n]
      BY <2>3, <2>7
  <2>9. some[0] = f[0]
      BY <2>2, <2>7 DEF Way
  <2>10. some[Len(s)] = f[Len(s)]
      BY <2>1, <2>8, <2>9, LoopIsFold
  <2>11. QED
      BY <2>2, <2>6, <2>10
<1>5. ASSUME NEW s \in Seq(Payloads), NEW d \in Payloads
      PROVE  WithBytes(Append(s, d)) = Turn(WithBytes(s), d)
  <2>1. Append(s, d) \in Seq(Payloads)
      BY AppendProperties
  <2>2. F[s] \in S /\ F[Append(s, d)] = Turn(F[s], d)
      BY <1>2, <1>3 DEF IsFold
  <2>3. QED
      BY <1>4, <2>1, <2>2
<1>6. ASSUME NEW s \in Seq(Payloads) PROVE WithBytes(s) \in Seq(Payloads)
    BY <1>3, <1>4 DEF IsFold, S
<1>7. WithBytes(<<>>) = <<>>
    BY <1>3, <1>4, <1>e DEF IsFold, S
<1>8. QED
    BY <1>5, <1>6, <1>7 DEF Turn

\* The states of the loop of assembleResult.
Partial == [result : Seq(Seq(Payloads)), buffer : Seq(Payloads)]

Nothing == [result |-> <<>>, buffer |-> <<>>]

\* A turn of the loop leads to another.
LEMMA AssembleStepType ==
    ASSUME NEW x \in Partial, NEW d \in Payloads
    PROVE  AssembleStep(x, d) \in Partial
<1>1. x.result \in Seq(Seq(Payloads)) /\ x.buffer \in Seq(Payloads)
    BY DEF Partial
<1>2. /\ Append(x.buffer, d) \in Seq(Payloads)
      /\ <<d>> \in Seq(Payloads) /\ <<>> \in Seq(Payloads)
    BY <1>1, AppendProperties, EmptySeq, Singleton
<1> DEFINE cut == IF x.buffer = <<>> THEN x.result ELSE Append(x.result, x.buffer)
<1>3. cut \in Seq(Seq(Payloads))
    BY <1>1, AppendProperties
<1>4. Append(cut, <<d>>) \in Seq(Seq(Payloads))
  <2> HIDE DEF cut
  <2> QED
      BY <1>2, <1>3, AppendProperties
<1>5. Append(x.result, Append(x.buffer, d)) \in Seq(Seq(Payloads))
    BY <1>1, <1>2, AppendProperties
<1>6. \E r \in Seq(Seq(Payloads)), b \in Seq(Payloads) :
          AssembleStep(x, d) = [result |-> r, buffer |-> b]
    BY <1>1, <1>2, <1>3, <1>4, <1>5 DEF AssembleStep
<1>7. QED
    BY <1>6 DEF Partial

\* The loop of assembleResult, one payload at a time.
LEMMA AssemblyFold ==
    /\ Assembly(<<>>) = Nothing
    /\ \A s \in Seq(Payloads) : Assembly(s) \in Partial
    /\ \A s \in Seq(Payloads), d \in Payloads :
          Assembly(Append(s, d)) = AssembleStep(Assembly(s), d)
<1> DEFINE step == [x \in Partial |-> [d \in Payloads |-> AssembleStep(x, d)]]
<1>0. \A x \in Partial, d \in Payloads : AssembleStep(x, d) \in Partial
    BY AssembleStepType
<1>1. step \in [Partial -> [Payloads -> Partial]]
    BY <1>0
<1>2. \A x \in Partial, d \in Payloads : step[x][d] = AssembleStep(x, d)
    OBVIOUS
<1>e. Nothing \in Partial
    BY EmptySeq DEF Nothing, Partial
<1> HIDE DEF step
<1>3. PICK F : IsFold(F, Payloads, Partial, step, Nothing)
    BY <1>1, <1>e, FoldExists
<1>4. ASSUME NEW s \in Seq(Payloads) PROVE Assembly(s) = F[s]
  <2> DEFINE Loop(g) == g = [n \in 0..Len(s) |->
                               IF n = 0 THEN Nothing ELSE AssembleStep(g[n - 1], s[n])]
             state == CHOOSE g : Loop(g)
  <2>1. Len(s) \in Nat /\ \A n \in 1..Len(s) : s[n] \in Payloads
      BY LenProperties, ElementOfSeq
  <2>2. PICK f \in [0..Len(s) -> Partial] : Way(f, step, Nothing, s, Len(s)) /\ f[Len(s)] = F[s]
      BY <1>3 DEF IsFold
  <2>3. ASSUME NEW n \in 1..Len(s) PROVE f[n] = AssembleStep(f[n - 1], s[n])
    <3>1. f[n - 1] \in Partial /\ s[n] \in Payloads
        BY <2>1, <2>2
    <3>2. f[n] = step[f[n - 1]][s[n]]
        BY <2>2 DEF Way
    <3>3. QED
        BY <1>2, <3>1, <3>2
  <2>4. Loop(f)
    <3>1. f[0] = Nothing
        BY <2>2 DEF Way
    <3>2. QED
        BY <2>1, <2>2, <2>3, <3>1
  <2>5. Loop(state)
    <3> HIDE DEF Loop
    <3> QED
        BY <2>4
  <2>6. Assembly(s) = state[Len(s)]
      BY DEF Assembly, Nothing
  <2> HIDE DEF state
  <2>7. state[0] = Nothing /\ \A n \in 1..Len(s) : state[n] = AssembleStep(state[n - 1], s[n])
      BY <2>1, <2>5
  <2>8. \A n \in 1..Len(s) : state[n - 1] = f[n - 1] => state[n] = f[n]
      BY <2>3, <2>7
  <2>9. state[0] = f[0]
      BY <2>2, <2>7 DEF Way
  <2>10. state[Len(s)] = f[Len(s)]
      BY <2>1, <2>8, <2>9, LoopIsFold
  <2>11. QED
      BY <2>2, <2>6, <2>10
<1>5. ASSUME NEW s \in Seq(Payloads), NEW d \in Payloads
      PROVE  Assembly(Append(s, d)) = AssembleStep(Assembly(s), d)
  <2>1. Append(s, d) \in Seq(Payloads)
      BY AppendProperties
  <2>2. F[s] \in Partial /\ F[Append(s, d)] = AssembleStep(F[s], d)
      BY <1>2, <1>3 DEF IsFold
  <2>3. QED
      BY <1>4, <2>1, <2>2
<1>6. ASSUME NEW s \in Seq(Payloads) PROVE Assembly(s) \in Partial
    BY <1>3, <1>4 DEF IsFold
<1>7. Assembly(<<>>) = Nothing
    BY <1>3, <1>4, EmptySeq DEF IsFold
<1>8. QED
    BY <1>5, <1>6, <1>7

(***************************************************************************)
(* The first state.                                                        *)
(***************************************************************************)

\* NewAccumulatorBySize establishes the invariant.
LEMMA InitIInv == Init => IInv
<1> SUFFICES ASSUME Init PROVE IInv
    OBVIOUS
<1> USE DEF Init, InboxInit
<1>1. <<>> \in Seq(Payloads) /\ Len(<<>>) = 0 /\ <<>> \in Seq(Seq(Payloads))
    BY EmptySeq
<1>2. TypeOK
    BY CapacityAssumption, <1>1 DEF TypeOK, InboxTypeOK, Results, RunPoints
<1>3. GateFollowsRun /\ CloseFollowsRun /\ OfferFollowsRun
    BY DEF GateFollowsRun, CloseFollowsRun, OfferFollowsRun
<1>4. ShutMeansNoReaders /\ RefusalMeansShut
    BY DEF ShutMeansNoReaders, RefusalMeansShut
<1>5. Conservation
    BY <1>1, ConcatEmptySeq DEF Conservation
<1>6. KeptHaveBytes
    BY WithBytesFold DEF KeptHaveBytes
<1>7. ChunkFits /\ ChunksWithinLimit
    BY DEF ChunkFits, ChunksWithinLimit
<1>8. QED
    BY <1>2, <1>3, <1>4, <1>5, <1>6, <1>7 DEF IInv

(***************************************************************************)
(* Types.                                                                  *)
(***************************************************************************)

\* The sequences of the model.
LEMMA Queues ==
    ASSUME TypeOK
    PROVE  /\ chan \in Seq(Payloads) /\ accepted \in Seq(Payloads)
           /\ current \in Seq(Payloads) /\ item \in Seq(Payloads)
           /\ received \in Seq(Payloads) /\ kept \in Seq(Payloads)
           /\ delivered \in Seq(Payloads) /\ emitted \in Seq(Seq(Payloads))
           /\ Len(chan) \in Nat
BY LenProperties DEF TypeOK, InboxTypeOK

\* Pop, the receive from internalDataChan, keeps the inbox well typed.
LEMMA PopType ==
    ASSUME TypeOK, Pop
    PROVE  InboxTypeOK' /\ Head(chan) \in Payloads
<1>1. /\ Head(chan) \in Payloads
      /\ Tail(chan) \in Seq(Payloads)
      /\ Len(Tail(chan)) = Len(chan) - 1
    BY Queues, HeadThenTail DEF Pop
<1>2. InboxTypeOK'
    BY <1>1, Queues, CapacityAssumption DEF Pop, TypeOK, InboxTypeOK
<1>3. QED
    BY <1>1, <1>2

\* Every step keeps the variables in their types.
LEMMA TypeStep ==
    ASSUME TypeOK, [Next]_vars
    PROVE  TypeOK'
<1>0. /\ chan \in Seq(Payloads) /\ accepted \in Seq(Payloads)
      /\ current \in Seq(Payloads) /\ item \in Seq(Payloads)
      /\ received \in Seq(Payloads) /\ kept \in Seq(Payloads)
      /\ delivered \in Seq(Payloads) /\ emitted \in Seq(Seq(Payloads))
      /\ Len(chan) \in Nat
    BY Queues
<1>e. <<>> \in Seq(Payloads) /\ Len(<<>>) = 0
    BY EmptySeq
<1>1. ASSUME NEW c \in Callers, BeginEnqueue(c) PROVE TypeOK'
    BY <1>1 DEF BeginEnqueue, Enter, runVars, TypeOK, InboxTypeOK, Results
<1>2. ASSUME NEW c \in Callers, RefuseEnqueue(c) PROVE TypeOK'
    BY <1>2 DEF RefuseEnqueue, RefuseShuttingDown, runVars, TypeOK,
       InboxTypeOK, Results
<1>3. ASSUME NEW c \in Callers, FinishEnqueue(c) PROVE TypeOK'
  <2>1. ASSUME NEW d \in Payloads, Push(c, d) PROVE InboxTypeOK'
    <3>1. /\ Append(chan, d) \in Seq(Payloads)
          /\ Len(Append(chan, d)) = Len(chan) + 1
          /\ Append(accepted, d) \in Seq(Payloads)
        BY <1>0, AppendProperties
    <3>2. chan' \in Seq(Payloads) /\ accepted' \in Seq(Payloads)
        BY <2>1, <3>1 DEF Push
    <3>3. Len(chan') <= Capacity
        BY <1>0, <2>1, <3>1, CapacityAssumption DEF Push
    <3>4. caller' \in [Callers -> Results \cup {"sending"}]
        BY <2>1 DEF Push, TypeOK, InboxTypeOK, Results
    <3>5. QED
        BY <2>1, <3>2, <3>3, <3>4 DEF Push, TypeOK, InboxTypeOK
  <2>2. ASSUME RejectFull(c) PROVE InboxTypeOK'
      BY <2>2 DEF RejectFull, TypeOK, InboxTypeOK, Results
  <2>3. InboxTypeOK' /\ UNCHANGED runVars
      BY <1>3, <2>1, <2>2 DEF FinishEnqueue
  <2>4. QED
      BY <2>3 DEF TypeOK, runVars
<1>4. CASE Receive
  <2>1. ReceiveData
      BY <1>4 DEF Receive, AppendNothing, AppendFitting, AppendAfterFlush,
         AppendTooBig
  <2> DEFINE d == Head(chan)
  <2>2. InboxTypeOK' /\ d \in Payloads
      BY <2>1, PopType DEF ReceiveData
  <2> HIDE DEF d
  <2>3. /\ Append(received, d) \in Seq(Payloads)
        /\ Append(kept, d) \in Seq(Payloads)
        /\ Append(current, d) \in Seq(Payloads)
        /\ <<d>> \in Seq(Payloads) /\ Len(<<d>>) = 1
      BY <1>0, <2>2, AppendProperties, Singleton
  <2>4. received' \in Seq(Payloads)
      BY <2>1, <2>3 DEF ReceiveData, d
  <2>5. UNCHANGED <<run, ctx, breaker, emitted, delivered>>
      BY <2>1 DEF ReceiveData
  <2>6. /\ kept' = kept \/ kept' = Append(kept, d)
        /\ current' = current \/ current' = Append(current, d)
        /\ item' = item \/ item' = <<d>>
        /\ offer' = offer \/ offer' \in {"none", "current", "item"}
      BY <1>4 DEF Receive, AppendNothing, AppendFitting, AppendAfterFlush,
         AppendTooBig, d
  <2>7. /\ kept' \in Seq(Payloads) /\ current' \in Seq(Payloads)
        /\ item' \in Seq(Payloads) /\ Len(item') <= 1
    <3>1. kept' \in Seq(Payloads) /\ current' \in Seq(Payloads)
        BY <1>0, <2>3, <2>6
    <3>2. item' \in Seq(Payloads)
        BY <1>0, <2>3, <2>6
    <3>3. Len(item') <= 1
      <4>1. Len(item) <= 1
          BY DEF TypeOK
      <4>2. CASE item' = item
          BY <4>1, <4>2
      <4>3. CASE item' = <<d>>
        <5>1. Len(item') = 1
            BY <2>3, <4>3, Zenon
        <5>2. QED
            BY <5>1
      <4>4. QED
          BY <2>6, <4>2, <4>3
    <3>4. QED
        BY <3>1, <3>2, <3>3
  <2>8. QED
      BY <2>2, <2>4, <2>5, <2>6, <2>7 DEF TypeOK
<1>5. CASE FlushAccepted
  <2>1. /\ Append(emitted, current) \in Seq(Seq(Payloads))
        /\ delivered \o current \in Seq(Payloads)
      BY <1>0, AppendProperties, ConcatProperties
  <2>2. InboxTypeOK'
      BY <1>5 DEF FlushAccepted, inboxVars, TypeOK, InboxTypeOK
  <2>3. /\ current' = <<>> \/ current' = item
        /\ item' = item \/ item' = <<>>
        /\ offer' \in {"none", "item"}
      BY <1>5 DEF FlushAccepted
  <2>4. /\ current' \in Seq(Payloads) /\ item' \in Seq(Payloads)
        /\ Len(item') <= 1
    <3>1. Len(item) <= 1
        BY DEF TypeOK
    <3>2. current' \in Seq(Payloads) /\ item' \in Seq(Payloads)
        BY <1>0, <1>e, <2>3
    <3>3. CASE item' = item
        BY <3>1, <3>2, <3>3
    <3>4. CASE item' = <<>>
      <4>1. Len(item') = 0
          BY <1>e, <3>4, Zenon
      <4>2. QED
          BY <3>2, <4>1
    <3>5. QED
        BY <2>3, <3>3, <3>4
  <2>5. QED
      BY <1>5, <2>1, <2>2, <2>3, <2>4 DEF FlushAccepted, TypeOK
<1>6. CASE TooBigAccepted
  <2>1. /\ Append(emitted, item) \in Seq(Seq(Payloads))
        /\ delivered \o item \in Seq(Payloads)
      BY <1>0, AppendProperties, ConcatProperties
  <2>2. InboxTypeOK'
      BY <1>6 DEF TooBigAccepted, inboxVars, TypeOK, InboxTypeOK
  <2>3. QED
      BY <1>e, <1>6, <2>1, <2>2 DEF TooBigAccepted, TypeOK
<1>7. CASE OfferRefused \/ BreakerTimeout \/ Start \/ CloseInbox \/ Cancel
    BY <1>7 DEF OfferRefused, BreakerTimeout, Start, CloseInbox, CloseChan,
       Cancel, inboxVars, workVars, TypeOK, InboxTypeOK, RunPoints
<1>8. CASE BeginShutdown \/ FinishSetShutdown
    BY <1>8 DEF BeginShutdown, LockGate, FinishSetShutdown, SetShutdown,
       workVars, TypeOK, InboxTypeOK, RunPoints
<1>9. CASE FinishDrain \/ Return
    BY <1>9 DEF FinishDrain, Return, inboxVars, workVars, TypeOK, InboxTypeOK,
       RunPoints
<1>10. CASE UNCHANGED vars
    BY <1>10 DEF vars, TypeOK, InboxTypeOK
<1>11. QED
    BY <1>1, <1>2, <1>3, <1>4, <1>5, <1>6, <1>7, <1>8, <1>9, <1>10
       DEF Next, OfferAccepted

(***************************************************************************)
(* Control: the mutex, the close, the offer and the place of the Run       *)
(* goroutine.                                                              *)
(***************************************************************************)

\* What a receive may do to the offer.
LEMMA ReceiveControl ==
    ASSUME TypeOK, Receive
    PROVE  /\ run \in {"select", "draining"} /\ offer = "none"
           /\ UNCHANGED <<caller, chanState, gate, run>>
           /\ offer' = "none" => item' = item
           /\ offer' = "item" => current' = <<>>
<1>1. ReceiveData
    BY DEF Receive, AppendNothing, AppendFitting, AppendAfterFlush, AppendTooBig
<1>2. /\ offer' = "none" => item' = item
      /\ offer' = "item" => current' = <<>>
  <2>1. offer = "none"
      BY <1>1 DEF ReceiveData, Idle
  <2>2. QED
      BY <2>1 DEF Receive, AppendNothing, AppendFitting, AppendAfterFlush,
         AppendTooBig
<1>3. QED
    BY <1>1, <1>2 DEF ReceiveData, Idle, Pop

\* Under the write lock there are no readers; the places of shutdown come in
\* their order; and nothing is offered but by a goroutine in its loop.
LEMMA ControlStep ==
    ASSUME IInv, [Next]_vars
    PROVE  /\ GateFollowsRun' /\ CloseFollowsRun' /\ OfferFollowsRun'
           /\ ShutMeansNoReaders' /\ RefusalMeansShut'
<1> DEFINE Control == /\ GateFollowsRun /\ CloseFollowsRun /\ OfferFollowsRun
                      /\ ShutMeansNoReaders /\ RefusalMeansShut
<1> USE DEF GateFollowsRun, CloseFollowsRun, OfferFollowsRun,
            ShutMeansNoReaders, RefusalMeansShut, Sending
<1>0. TypeOK /\ Control
    BY DEF IInv
<1>t. /\ caller \in [Callers -> Results \cup {"sending"}]
      /\ run \in RunPoints /\ gate \in {"open", "pending", "shut"}
      /\ offer \in {"none", "current", "item"}
    BY <1>0 DEF TypeOK, InboxTypeOK
<1>1. ASSUME NEW c \in Callers, BeginEnqueue(c) PROVE Control'
    BY <1>0, <1>t, <1>1 DEF BeginEnqueue, Enter, runVars
<1>2. ASSUME NEW c \in Callers, RefuseEnqueue(c) PROVE Control'
    BY <1>0, <1>t, <1>2 DEF RefuseEnqueue, RefuseShuttingDown, runVars
<1>3. ASSUME NEW c \in Callers, FinishEnqueue(c) PROVE Control'
  <2>1. ASSUME NEW d \in Payloads, Push(c, d), UNCHANGED runVars PROVE Control'
    <3>1. gate # "shut"
        BY <1>0, <2>1 DEF Push
    <3>2. run \notin {"flushing", "done"}
        BY <1>0, <1>t, <3>1
    <3>3. QED
        BY <1>0, <1>t, <2>1, <3>1, <3>2 DEF Push, runVars
  <2>2. CASE RejectFull(c) /\ UNCHANGED runVars
      BY <1>0, <1>t, <2>2 DEF RejectFull, runVars
  <2>3. QED
      BY <1>3, <2>1, <2>2 DEF FinishEnqueue
<1>4. CASE Receive
    BY <1>0, <1>4, ReceiveControl
<1>5. CASE FlushAccepted
    BY <1>0, <1>5 DEF FlushAccepted, inboxVars
<1>6. CASE TooBigAccepted
    BY <1>0, <1>6 DEF TooBigAccepted, inboxVars
<1>7. CASE OfferRefused \/ BreakerTimeout \/ Cancel \/ UNCHANGED vars
    BY <1>0, <1>7 DEF OfferRefused, BreakerTimeout, Cancel, inboxVars, workVars, vars
<1>8. CASE Start
    BY <1>0, <1>t, <1>8 DEF Start, inboxVars, workVars
<1>9. CASE BeginShutdown
    BY <1>0, <1>t, <1>9 DEF BeginShutdown, LockGate, Idle, workVars
<1>10. CASE FinishSetShutdown
    BY <1>0, <1>t, <1>10 DEF FinishSetShutdown, SetShutdown, workVars
<1>11. CASE CloseInbox
    BY <1>0, <1>t, <1>11 DEF CloseInbox, CloseChan, workVars
<1>12. CASE FinishDrain
    BY <1>0, <1>t, <1>12 DEF FinishDrain, Idle, inboxVars
<1>13. CASE Return
    BY <1>0, <1>t, <1>13 DEF Return, Idle, inboxVars, workVars
<1>14. QED
    BY <1>1, <1>2, <1>3, <1>4, <1>5, <1>6, <1>7, <1>8, <1>9, <1>10, <1>11,
       <1>12, <1>13 DEF Next, OfferAccepted

(***************************************************************************)
(* Conservation.                                                           *)
(***************************************************************************)

\* A receive moves one payload out of the channel.
LEMMA ReceivedMoves ==
    ASSUME IInv, ReceiveData
    PROVE  accepted' = received' \o chan'
<1>1. /\ chan # <<>> /\ chan' = Tail(chan) /\ accepted' = accepted
      /\ received' = Append(received, Head(chan))
    BY DEF ReceiveData, Pop
<1>2. Append(received, Head(chan)) \o Tail(chan) = received \o chan
    BY <1>1, Queues, MoveHead DEF IInv
<1>3. QED
    BY <1>1, <1>2 DEF IInv, Conservation

\* The four ways of append keep the payloads with bytes in order: data goes
\* behind the chunk being built, or waits behind its flush.
LEMMA KeptMoves ==
    ASSUME IInv, Receive
    PROVE  kept' = delivered' \o current' \o item'
<1>0. /\ current \in Seq(Payloads) /\ delivered \in Seq(Payloads)
      /\ kept \in Seq(Payloads) /\ item = <<>>
    BY Queues, ReceiveControl DEF IInv, OfferFollowsRun
<1>1. kept = delivered \o current
  <2>1. delivered \o current \in Seq(Payloads)
      BY <1>0, ConcatProperties
  <2>2. kept = (delivered \o current) \o <<>>
      BY <1>0 DEF IInv, Conservation
  <2>3. QED
      BY <2>1, <2>2, ConcatEmptySeq
<1>2. ReceiveData
    BY DEF Receive, AppendNothing, AppendFitting, AppendAfterFlush, AppendTooBig
<1>3. delivered' = delivered
    BY <1>2 DEF ReceiveData
<1> DEFINE d == Head(chan)
<1>4. d \in Payloads
    BY <1>2, PopType DEF ReceiveData, IInv
<1> HIDE DEF d
<1>5. CASE AppendNothing
    BY <1>3, <1>5 DEF AppendNothing, IInv, Conservation
<1>6. CASE AppendFitting
  <2>1. current' = Append(current, d) /\ kept' = Append(kept, d) /\ item' = <<>>
      BY <1>0, <1>6 DEF AppendFitting, d
  <2>2. delivered \o Append(current, d) = Append(delivered \o current, d)
      BY <1>0, <1>4, AppendToLast
  <2>3. kept' \in Seq(Payloads)
      BY <1>0, <1>4, <2>1, AppendProperties
  <2>4. kept' = kept' \o <<>>
      BY <2>3, ConcatEmptySeq
  <2>5. QED
      BY <1>1, <1>3, <2>1, <2>2, <2>4
<1>7. ASSUME AppendAfterFlush \/ AppendTooBig
      PROVE  kept' = delivered' \o current' \o item'
  <2>1. current' = current /\ kept' = Append(kept, d) /\ item' = <<d>>
      BY <1>7 DEF AppendAfterFlush, AppendTooBig, d
  <2>2. Append(kept, d) = kept \o <<d>>
      BY <1>0, <1>4, AppendIsConcat
  <2>3. QED
      BY <1>1, <1>3, <2>1, <2>2
<1>8. QED
    BY <1>5, <1>6, <1>7 DEF Receive

\* An accepted offer moves the chunk, or the payload on its own, to what
\* was delivered; what append still works on stays behind it.
LEMMA AcceptedMoves ==
    ASSUME IInv, OfferAccepted
    PROVE  kept' = delivered' \o current' \o item'
<1>0. /\ current \in Seq(Payloads) /\ delivered \in Seq(Payloads)
      /\ item \in Seq(Payloads) /\ delivered \o current \in Seq(Payloads)
      /\ delivered \o current \o item \in Seq(Payloads)
    BY Queues, ConcatProperties DEF IInv
<1>1. kept = delivered \o current \o item
    BY DEF IInv, Conservation
<1>2. CASE FlushAccepted
  <2>1. kept' = kept /\ delivered' = delivered \o current
      BY <1>2 DEF FlushAccepted
  <2>2. \/ current' = <<>> /\ item' = item
        \/ current' = item /\ item' = <<>>
      BY <1>2 DEF FlushAccepted
  <2>3. CASE current' = <<>> /\ item' = item
      BY <1>0, <1>1, <2>1, <2>3, ConcatEmptySeq
  <2>4. CASE current' = item /\ item' = <<>>
      BY <1>0, <1>1, <2>1, <2>4, ConcatEmptySeq
  <2>5. QED
      BY <2>2, <2>3, <2>4
<1>3. CASE TooBigAccepted
  <2>1. /\ kept' = kept /\ delivered' = delivered \o item
        /\ current' = current /\ item' = <<>> /\ current = <<>>
      BY <1>3 DEF TooBigAccepted, IInv, OfferFollowsRun
  <2>2. delivered \o current = delivered
      BY <1>0, <2>1, ConcatEmptySeq
  <2>3. delivered \o item \in Seq(Payloads)
      BY <1>0, ConcatProperties
  <2>4. QED
      BY <1>1, <2>1, <2>2, <2>3, ConcatEmptySeq
<1>4. QED
    BY <1>2, <1>3 DEF OfferAccepted

LEMMA ConservationStep ==
    ASSUME IInv, [Next]_vars
    PROVE  Conservation'
<1>a. /\ accepted = received \o chan
      /\ kept = delivered \o current \o item
    BY DEF IInv, Conservation
<1>1. ASSUME NEW c \in Callers, FinishEnqueue(c) PROVE Conservation'
  <2>1. UNCHANGED <<received, kept, delivered, current, item>>
      BY <1>1 DEF FinishEnqueue, runVars
  <2>2. ASSUME NEW d \in Payloads, Push(c, d) PROVE accepted' = received' \o chan'
    <3>1. received \o Append(chan, d) = Append(received \o chan, d)
        BY Queues, AppendToLast DEF IInv
    <3>2. QED
        BY <1>a, <2>1, <2>2, <3>1 DEF Push
  <2>3. ASSUME RejectFull(c) PROVE accepted' = received' \o chan'
      BY <1>a, <2>1, <2>3 DEF RejectFull
  <2>4. accepted' = received' \o chan'
      BY <1>1, <2>2, <2>3 DEF FinishEnqueue
  <2>5. QED
      BY <1>a, <2>1, <2>4 DEF Conservation
<1>2. CASE Receive
  <2>1. ReceiveData
      BY <1>2 DEF Receive, AppendNothing, AppendFitting, AppendAfterFlush,
         AppendTooBig
  <2>2. QED
      BY <1>2, <2>1, ReceivedMoves, KeptMoves DEF Conservation
<1>3. CASE OfferAccepted
  <2>1. UNCHANGED <<accepted, received, chan>>
      BY <1>3 DEF OfferAccepted, FlushAccepted, TooBigAccepted, inboxVars
  <2>2. QED
      BY <1>a, <1>3, <2>1, AcceptedMoves DEF Conservation
<1>4. ASSUME UNCHANGED <<accepted, received, chan, kept, delivered, current, item>>
      PROVE  Conservation'
    BY <1>4, <1>a DEF Conservation
<1>5. ASSUME NEW c \in Callers, BeginEnqueue(c) \/ RefuseEnqueue(c)
      PROVE  Conservation'
    BY <1>4, <1>5 DEF BeginEnqueue, Enter, RefuseEnqueue, RefuseShuttingDown, runVars
<1>6. ASSUME \/ OfferRefused \/ BreakerTimeout \/ Start \/ BeginShutdown
             \/ FinishSetShutdown \/ CloseInbox \/ FinishDrain \/ Return
             \/ Cancel \/ UNCHANGED vars
      PROVE  Conservation'
    BY <1>4, <1>6 DEF OfferRefused, BreakerTimeout, Start, BeginShutdown,
       LockGate, FinishSetShutdown, SetShutdown, CloseInbox, CloseChan,
       FinishDrain, Return, Cancel, inboxVars, workVars, vars
<1>7. QED
    BY <1>1, <1>2, <1>3, <1>5, <1>6 DEF Next

(***************************************************************************)
(* The chunks.                                                             *)
(***************************************************************************)

\* A sequence of one payload has its length.
LEMMA MergedLenOfOne ==
    ASSUME NEW d \in Payloads
    PROVE  MergedLen(<<d>>) = Size[d]
<1>1. <<>> \in Seq(Payloads)
    BY EmptySeq
<1>2. Append(<<>>, d) = <<d>>
    OBVIOUS
<1>3. MergedLen(<<d>>) = MergedLen(<<>>) + SeparatorLen + Size[d]
    BY <1>1, <1>2, MergedLenFold
<1>4. QED
    BY <1>3, MergedLenFold, SizeAssumption, SeparatorAssumption

\* What append works on is one payload.
LEMMA ItemIsOne ==
    ASSUME TypeOK, item # <<>>
    PROVE  item[1] \in Payloads /\ item = <<item[1]>> /\ Head(item) = item[1] /\ Len(item) = 1
<1>1. item \in Seq(Payloads) /\ Len(item) <= 1
    BY DEF TypeOK
<1>2. PICK n \in Nat \ {0} : n = Len(item)
    BY <1>1, EmptySeq
<1>3. Len(item) = 1
  <2>1. n <= 1
      BY <1>1, <1>2
  <2>2. n = 1
      BY <2>1
  <2>3. QED
      BY <1>2, <2>2
<1>4. QED
    BY <1>1, <1>3

\* The payload received joins a chunk that is still within the limit, or
\* waits on its own.
LEMMA ReceiveChunks ==
    ASSUME IInv, Receive
    PROVE  KeptHaveBytes' /\ ChunkFits' /\ ChunksWithinLimit'
<1>1. ReceiveData
    BY DEF Receive, AppendNothing, AppendFitting, AppendAfterFlush, AppendTooBig
<1>2. PICK d \in Payloads : d = Head(chan)
    BY <1>1, PopType DEF ReceiveData, IInv
<1>3. /\ received' = Append(received, d) /\ emitted' = emitted /\ offer = "none"
    BY <1>1, <1>2 DEF ReceiveData, Idle
<1>4. /\ current \in Seq(Payloads) /\ received \in Seq(Payloads) /\ kept \in Seq(Payloads)
      /\ item = <<>>
    BY <1>3, Queues DEF IInv, OfferFollowsRun
<1>5. Size[d] \in Nat /\ LimitOfBytes \in Nat /\ SeparatorLen \in Nat
    BY SizeAssumption, LimitAssumption, SeparatorAssumption
<1>6. ChunksWithinLimit'
    BY <1>3 DEF IInv, ChunksWithinLimit
<1>7. WithBytes(received') = IF Size[d] > 0 THEN Append(kept, d) ELSE kept
    BY <1>3, <1>4, WithBytesFold DEF IInv, KeptHaveBytes
<1>8. CASE AppendNothing
  <2>1. Size[d] = 0 /\ UNCHANGED <<current, item, offer, kept>>
      BY <1>2, <1>8 DEF AppendNothing
  <2>2. KeptHaveBytes'
      BY <1>7, <2>1 DEF KeptHaveBytes
  <2>3. ChunkFits'
      BY <2>1 DEF IInv, ChunkFits
  <2>4. QED
      BY <1>6, <2>2, <2>3
<1>9. CASE AppendFitting
  <2>1. /\ Size[d] > 0 /\ LenAfterAppend(d) <= LimitOfBytes
        /\ current' = Append(current, d) /\ kept' = Append(kept, d) /\ item' = item
        /\ offer' \in {"none", "current"}
      BY <1>2, <1>9 DEF AppendFitting
  <2>2. KeptHaveBytes'
      BY <1>7, <2>1 DEF KeptHaveBytes
  <2>3. MergedLen(current') = LenAfterAppend(d)
      BY <1>4, <2>1, MergedLenFold DEF LenAfterAppend
  <2>4. MergedLen(current) \in Int /\ MergedLen(current) >= -SeparatorLen
      BY <1>4, MergedLenFold
  <2>5. MergedLen(current') \in 1..LimitOfBytes
      BY <1>5, <2>1, <2>3, <2>4 DEF LenAfterAppend
  <2>6. current' # <<>>
      BY <1>4, <2>1, AppendProperties
  <2>7. ChunkFits'
      BY <1>4, <2>1, <2>5, <2>6 DEF ChunkFits
  <2>8. QED
      BY <1>6, <2>2, <2>7
<1>10. CASE AppendAfterFlush \/ AppendTooBig
  <2>1. /\ Size[d] > 0 /\ current' = current /\ kept' = Append(kept, d) /\ item' = <<d>>
        /\ offer' = "item" \/ current # <<>>
      BY <1>2, <1>5, <1>10, LimitAssumption DEF AppendAfterFlush, AppendTooBig, TooBig
  <2>2. KeptHaveBytes'
      BY <1>7, <2>1 DEF KeptHaveBytes
  <2>3. item'[1] = d /\ item' # <<>>
      BY <2>1, Singleton
  <2>4. ChunkFits'
      BY <1>10, <2>1, <2>3 DEF IInv, ChunkFits, AppendAfterFlush, AppendTooBig
  <2>5. QED
      BY <1>6, <2>2, <2>4
<1>11. QED
    BY <1>8, <1>9, <1>10 DEF Receive

\* What is emitted is the chunk on offer.
LEMMA EmitChunk ==
    ASSUME IInv, NEW chunk \in Seq(Payloads), emitted' = Append(emitted, chunk),
           MergedLen(chunk) > 0, Len(chunk) > 1 => MergedLen(chunk) <= LimitOfBytes
    PROVE  ChunksWithinLimit'
<1>1. emitted \in Seq(Seq(Payloads))
    BY Queues DEF IInv
<1>2. PICK end : end = Len(emitted) + 1
    OBVIOUS
<1>3. /\ DOMAIN emitted' = DOMAIN emitted \cup {end}
      /\ \A i \in DOMAIN emitted : emitted'[i] = emitted[i]
      /\ emitted'[end] = chunk
    BY <1>1, <1>2, AppendPositions
<1>4. QED
    BY <1>3 DEF IInv, ChunksWithinLimit

LEMMA FlushChunks ==
    ASSUME IInv, FlushAccepted
    PROVE  ChunkFits' /\ ChunksWithinLimit'
<1>1. /\ current \in Seq(Payloads) /\ current # <<>> /\ emitted' = Append(emitted, current)
      /\ MergedLen(current) \in 1..LimitOfBytes
    BY Queues DEF IInv, ChunkFits, FlushAccepted
<1>2. ChunksWithinLimit'
    BY <1>1, EmitChunk
<1>3. ASSUME item = <<>> PROVE ChunkFits'
    BY <1>3 DEF FlushAccepted, ChunkFits
<1>4. ASSUME item # <<>> PROVE ChunkFits'
  <2>1. item[1] \in Payloads /\ item = <<item[1]>> /\ Head(item) = item[1] /\ Size[item[1]] > 0
      BY <1>4, ItemIsOne DEF IInv, ChunkFits
  <2>2. CASE TooBig(Head(item))
      BY <1>4, <2>1, <2>2 DEF FlushAccepted, ChunkFits
  <2>3. CASE ~TooBig(Head(item))
    <3>1. current' = item /\ item' = <<>> /\ offer' = "none"
        BY <1>4, <2>3 DEF FlushAccepted
    <3>2. MergedLen(item) = Size[item[1]]
        BY <2>1, MergedLenOfOne
    <3>3. MergedLen(current') \in 1..LimitOfBytes
        BY <2>1, <2>3, <3>1, <3>2, SizeAssumption, LimitAssumption DEF TooBig
    <3>4. QED
        BY <3>1, <3>3 DEF ChunkFits
  <2>4. QED
      BY <2>2, <2>3
<1>5. QED
    BY <1>2, <1>3, <1>4

LEMMA TooBigChunks ==
    ASSUME IInv, TooBigAccepted
    PROVE  ChunkFits' /\ ChunksWithinLimit'
<1>1. /\ offer = "item" /\ item # <<>> /\ emitted' = Append(emitted, item)
      /\ current = <<>> /\ current' = current /\ item' = <<>> /\ offer' = "none"
    BY DEF IInv, ChunkFits, OfferFollowsRun, TooBigAccepted
<1>2. item[1] \in Payloads /\ item = <<item[1]>> /\ Len(item) = 1 /\ Size[item[1]] > 0
    BY <1>1, ItemIsOne DEF IInv, ChunkFits
<1>3. item \in Seq(Payloads) /\ MergedLen(item) = Size[item[1]]
    BY <1>2, Queues, MergedLenOfOne DEF IInv
<1>4. ~(Len(item) > 1) /\ MergedLen(item) > 0
    BY <1>2, <1>3
<1>5. ChunksWithinLimit'
    BY <1>1, <1>3, <1>4, EmitChunk
<1>6. QED
    BY <1>1, <1>5 DEF ChunkFits

LEMMA ChunksStep ==
    ASSUME IInv, [Next]_vars
    PROVE  KeptHaveBytes' /\ ChunkFits' /\ ChunksWithinLimit'
<1>1. CASE Receive
    BY <1>1, ReceiveChunks
<1>2. CASE FlushAccepted
    BY <1>2, FlushChunks DEF FlushAccepted, IInv, KeptHaveBytes
<1>3. CASE TooBigAccepted
    BY <1>3, TooBigChunks DEF TooBigAccepted, IInv, KeptHaveBytes
<1>4. CASE FinishDrain
    BY <1>4 DEF FinishDrain, IInv, KeptHaveBytes, ChunkFits, ChunksWithinLimit
<1>5. ASSUME UNCHANGED workVars
      PROVE  KeptHaveBytes' /\ ChunkFits' /\ ChunksWithinLimit'
    BY <1>5 DEF workVars, IInv, KeptHaveBytes, ChunkFits, ChunksWithinLimit
<1>6. ASSUME NEW c \in Callers, BeginEnqueue(c) \/ RefuseEnqueue(c) \/ FinishEnqueue(c)
      PROVE  UNCHANGED workVars
    BY <1>6 DEF BeginEnqueue, RefuseEnqueue, FinishEnqueue, runVars, workVars
<1>7. ASSUME \/ OfferRefused \/ BreakerTimeout \/ Start \/ BeginShutdown
             \/ FinishSetShutdown \/ CloseInbox \/ Return \/ Cancel \/ UNCHANGED vars
      PROVE  UNCHANGED workVars
    BY <1>7 DEF OfferRefused, BreakerTimeout, Start, BeginShutdown, FinishSetShutdown,
       CloseInbox, Return, Cancel, vars, workVars
<1>8. QED
    BY <1>1, <1>2, <1>3, <1>4, <1>5, <1>6, <1>7 DEF Next, OfferAccepted

LEMMA IInvStep ==
    ASSUME IInv, [Next]_vars
    PROVE  IInv'
<1>1. TypeOK'
    BY TypeStep DEF IInv
<1>2. QED
    BY <1>1, ControlStep, ConservationStep, ChunksStep DEF IInv

(***************************************************************************)
(* The chunks are those of assembleResult.  Each receive is one turn of    *)
(* its loop; an accepted offer only catches up with it.                    *)
(***************************************************************************)

\* What a turn makes of the chunk being built.
LEMMA AssembleTurns ==
    ASSUME NEW r \in Seq(Seq(Payloads)), NEW b \in Seq(Payloads), NEW d \in Payloads
    PROVE  LET x == AssembleStep([result |-> r, buffer |-> b], d)
               len == MergedLen(b) + SeparatorLen + Size[d]
           IN  /\ TooBig(d) /\ b = <<>> =>
                     x = [result |-> Append(r, <<d>>), buffer |-> <<>>]
               /\ TooBig(d) /\ b # <<>> =>
                     x = [result |-> Append(Append(r, b), <<d>>), buffer |-> <<>>]
               /\ ~TooBig(d) /\ b # <<>> /\ len > LimitOfBytes =>
                     x = [result |-> Append(r, b), buffer |-> <<d>>]
               /\ ~TooBig(d) /\ len < LimitOfBytes =>
                     x = [result |-> r, buffer |-> Append(b, d)]
               /\ ~TooBig(d) /\ len = LimitOfBytes =>
                     x = [result |-> Append(r, Append(b, d)), buffer |-> <<>>]
<1>1. MergedLen(Append(b, d)) = MergedLen(b) + SeparatorLen + Size[d]
    BY MergedLenFold
<1>2. Size[d] \in Nat /\ LimitOfBytes \in Nat /\ SeparatorLen \in Nat /\ MergedLen(b) \in Int
    BY SizeAssumption, LimitAssumption, SeparatorAssumption, MergedLenFold
<1>3. b = <<>> => MergedLen(b) + SeparatorLen + Size[d] = Size[d]
    BY <1>2, MergedLenFold
<1>4. b = <<>> => Append(b, d) = <<d>>
    OBVIOUS
<1>5. ~TooBig(d) => Size[d] < LimitOfBytes
    BY <1>2 DEF TooBig
<1>6. PICK x : x = AssembleStep([result |-> r, buffer |-> b], d)
    OBVIOUS
<1>7. PICK len \in Int : len = MergedLen(b) + SeparatorLen + Size[d]
    BY <1>2
<1>8. ASSUME TooBig(d) PROVE x = [result |-> Append(IF b = <<>> THEN r ELSE Append(r, b), <<d>>), buffer |-> <<>>]
    BY <1>6, <1>8 DEF AssembleStep
<1>9. ASSUME ~TooBig(d), b = <<>> PROVE x = [result |-> r, buffer |-> <<d>>]
    BY <1>6, <1>9 DEF AssembleStep
<1>10. ASSUME ~TooBig(d), b # <<>>, len > LimitOfBytes
       PROVE  x = [result |-> Append(r, b), buffer |-> <<d>>]
    BY <1>6, <1>7, <1>10 DEF AssembleStep
<1>11. ASSUME ~TooBig(d), b # <<>>, len <= LimitOfBytes
       PROVE  x = IF len = LimitOfBytes THEN [result |-> Append(r, Append(b, d)), buffer |-> <<>>]
                                        ELSE [result |-> r, buffer |-> Append(b, d)]
    BY <1>1, <1>2, <1>6, <1>7, <1>11 DEF AssembleStep
<1>12. b = <<>> /\ ~TooBig(d) => len < LimitOfBytes
    BY <1>2, <1>3, <1>5, <1>7
<1>13. ASSUME TooBig(d), b = <<>>
       PROVE  x = [result |-> Append(r, <<d>>), buffer |-> <<>>]
    BY <1>8, <1>13
<1>14. ASSUME TooBig(d), b # <<>>
       PROVE  x = [result |-> Append(Append(r, b), <<d>>), buffer |-> <<>>]
    BY <1>8, <1>14
<1>15. ASSUME ~TooBig(d), len < LimitOfBytes
       PROVE  x = [result |-> r, buffer |-> Append(b, d)]
  <2>1. CASE b = <<>>
      BY <1>4, <1>9, <1>15, <2>1
  <2>2. CASE b # <<>>
    <3>1. len <= LimitOfBytes /\ len # LimitOfBytes
        BY <1>2, <1>15
    <3>2. QED
        BY <1>11, <1>15, <2>2, <3>1
  <2>3. QED
      BY <2>1, <2>2
<1>16. ASSUME ~TooBig(d), len = LimitOfBytes
       PROVE  x = [result |-> Append(r, Append(b, d)), buffer |-> <<>>]
  <2>1. b # <<>> /\ len <= LimitOfBytes
      BY <1>2, <1>12, <1>16
  <2>2. QED
      BY <1>11, <1>16, <2>1
<1>17. QED
    BY <1>6, <1>7, <1>10, <1>13, <1>14, <1>15, <1>16

LEMMA AssemblingReceive ==
    ASSUME IInv, Assembling, Receive
    PROVE  Assembling'
<1>1. ReceiveData /\ run \in {"select", "draining"} /\ run' = run /\ offer = "none" /\ emitted' = emitted
    BY ReceiveControl DEF Receive, AppendNothing, AppendFitting, AppendAfterFlush,
       AppendTooBig, IInv, ReceiveData
<1>2. PICK d \in Payloads : d = Head(chan)
    BY <1>1, PopType DEF ReceiveData, IInv
<1>3. /\ current \in Seq(Payloads) /\ kept \in Seq(Payloads) /\ emitted \in Seq(Seq(Payloads))
      /\ item = <<>>
    BY <1>1, Queues DEF IInv, OfferFollowsRun
<1> DEFINE now == [result |-> emitted, buffer |-> current]
<1>4. Assembly(kept) = now
    BY <1>1 DEF Assembling
<1>5. Assembly(Append(kept, d)) = AssembleStep(now, d)
    BY <1>3, <1>4, AssemblyFold
<1>6. /\ Size[d] \in Nat /\ LimitOfBytes \in Nat /\ LenAfterAppend(d) \in Int
      /\ LenAfterAppend(d) = MergedLen(current) + SeparatorLen + Size[d]
    BY <1>3, SizeAssumption, LimitAssumption, SeparatorAssumption, MergedLenFold DEF LenAfterAppend
<1>7. CASE AppendNothing
    BY <1>1, <1>4, <1>7 DEF AppendNothing, Assembling
<1>8. CASE AppendFitting
  <2>1. /\ ~TooBig(d) /\ LenAfterAppend(d) <= LimitOfBytes
        /\ current' = Append(current, d) /\ kept' = Append(kept, d) /\ item' = <<>>
        /\ offer' = IF LenAfterAppend(d) = LimitOfBytes THEN "current" ELSE "none"
      BY <1>2, <1>3, <1>8 DEF AppendFitting
  <2>2. CASE LenAfterAppend(d) = LimitOfBytes
    <3>1. Assembly(kept') = [result |-> Append(emitted, current'), buffer |-> <<>>]
        BY <1>3, <1>5, <1>6, <2>1, <2>2, AssembleTurns
    <3>2. QED
        BY <1>1, <2>1, <2>2, <3>1 DEF Assembling
  <2>3. CASE LenAfterAppend(d) < LimitOfBytes
    <3>1. Assembly(kept') = [result |-> emitted, buffer |-> current']
        BY <1>3, <1>5, <1>6, <2>1, <2>3, AssembleTurns
    <3>2. offer' = "none"
        BY <1>6, <2>1, <2>3
    <3>3. QED
        BY <1>1, <2>1, <3>1, <3>2 DEF Assembling
  <2>4. QED
      BY <1>6, <2>1, <2>2, <2>3
<1>9. CASE AppendAfterFlush
  <2>1. /\ TooBig(d) \/ LenAfterAppend(d) > LimitOfBytes
        /\ current' = current /\ kept' = Append(kept, d) /\ item' = <<d>> /\ offer' = "current"
      BY <1>2, <1>9 DEF AppendAfterFlush
  <2>2. item'[1] = d /\ item' # <<>>
      BY <2>1, Singleton
  <2>3. Assembly(kept') = AssembleStep([result |-> emitted', buffer |-> current'], item'[1])
      BY <1>1, <1>5, <2>1, <2>2
  <2>4. TooBig(item'[1]) \/ MergedLen(current') + SeparatorLen + Size[item'[1]] > LimitOfBytes
      BY <2>1, <2>2 DEF LenAfterAppend
  <2>5. QED
      BY <1>1, <2>1, <2>2, <2>3, <2>4 DEF Assembling, TooBig, LenAfterAppend
<1>10. CASE AppendTooBig
  <2>1. /\ TooBig(d) /\ current = <<>>
        /\ current' = current /\ kept' = Append(kept, d) /\ item' = <<d>> /\ offer' = "item"
      BY <1>2, <1>10 DEF AppendTooBig
  <2>2. Assembly(kept') = [result |-> Append(emitted', item'), buffer |-> <<>>]
      BY <1>1, <1>3, <1>5, <2>1, AssembleTurns
  <2>3. QED
      BY <1>1, <2>1, <2>2 DEF Assembling
<1>11. QED
    BY <1>7, <1>8, <1>9, <1>10 DEF Receive

LEMMA AssemblingFlush ==
    ASSUME IInv, Assembling, FlushAccepted
    PROVE  Assembling'
<1>1. /\ emitted' = Append(emitted, current) /\ UNCHANGED <<run, kept>>
      /\ offer = "current" /\ current # <<>>
    BY DEF FlushAccepted, IInv, ChunkFits
<1>2. current \in Seq(Payloads) /\ emitted \in Seq(Seq(Payloads))
    BY Queues DEF IInv
<1>3. CASE item = <<>> /\ run \notin {"flushing", "done"}
  <2>1. current' = <<>> /\ offer' = "none" /\ item' = <<>>
      BY <1>3 DEF FlushAccepted
  <2>2. Assembly(kept) = [result |-> Append(emitted, current), buffer |-> <<>>]
      BY <1>1, <1>3 DEF Assembling
  <2>3. QED
      BY <1>1, <1>3, <2>1, <2>2 DEF Assembling
<1>4. CASE item = <<>> /\ run \in {"flushing", "done"}
  <2>1. current' = <<>> /\ offer' = "none" /\ item' = <<>>
      BY <1>4 DEF FlushAccepted
  <2>2. Assembly(kept) = [result |-> emitted, buffer |-> current]
      BY <1>1, <1>4 DEF Assembling
  <2>3. AssembleResult(kept) = Append(emitted, current)
      BY <1>1, <2>2 DEF AssembleResult
  <2>4. QED
      BY <1>1, <1>4, <2>1, <2>3 DEF Assembling
<1>5. CASE item # <<>>
  <2>1. /\ run \notin {"flushing", "done"} /\ item[1] \in Payloads
        /\ item = <<item[1]>> /\ Head(item) = item[1]
      BY <1>5, ItemIsOne DEF IInv, OfferFollowsRun
  <2>2. PICK d \in Payloads : d = item[1]
      BY <2>1
  <2>3. /\ Assembly(kept) = AssembleStep([result |-> emitted, buffer |-> current], d)
        /\ TooBig(d) \/ LenAfterAppend(d) > LimitOfBytes
      BY <1>1, <1>5, <2>2 DEF Assembling
  <2>4. CASE TooBig(d)
    <3>1. current' = <<>> /\ offer' = "item" /\ item' = item
        BY <1>5, <2>1, <2>2, <2>4 DEF FlushAccepted
    <3>2. Assembly(kept) = [result |-> Append(Append(emitted, current), <<d>>), buffer |-> <<>>]
        BY <1>1, <1>2, <2>3, <2>4, AssembleTurns
    <3>3. QED
        BY <1>1, <2>1, <2>2, <3>1, <3>2 DEF Assembling
  <2>5. CASE ~TooBig(d)
    <3>1. current' = item /\ offer' = "none" /\ item' = <<>>
        BY <1>5, <2>1, <2>2, <2>5 DEF FlushAccepted
    <3>2. Assembly(kept) = [result |-> Append(emitted, current), buffer |-> <<d>>]
        BY <1>1, <1>2, <2>3, <2>5, AssembleTurns DEF LenAfterAppend
    <3>3. QED
        BY <1>1, <2>1, <2>2, <3>1, <3>2 DEF Assembling
  <2>6. QED
      BY <2>4, <2>5
<1>6. QED
    BY <1>3, <1>4, <1>5

LEMMA AssemblingStep ==
    ASSUME IInv, Assembling, [Next]_vars
    PROVE  Assembling'
<1>1. CASE Receive
    BY <1>1, AssemblingReceive
<1>2. CASE FlushAccepted
    BY <1>2, AssemblingFlush
<1>3. CASE TooBigAccepted
  <2>1. /\ offer = "item" /\ emitted' = Append(emitted, item) /\ offer' = "none"
        /\ item # <<>> /\ current = <<>> /\ current' = <<>> /\ UNCHANGED <<run, kept>>
        /\ item' = <<>>
      BY <1>3 DEF TooBigAccepted, IInv, OfferFollowsRun, ChunkFits
  <2>2. run \notin {"flushing", "done"}
      BY <2>1 DEF IInv, OfferFollowsRun
  <2>3. QED
      BY <2>1, <2>2 DEF Assembling
<1>4. CASE FinishDrain
  <2>1. /\ run = "draining" /\ run' = "flushing" /\ UNCHANGED <<current, item, emitted, kept>>
        /\ offer = "none" /\ offer' = IF current = <<>> THEN "none" ELSE "current"
        /\ item = <<>>
      BY <1>4 DEF FinishDrain, Idle, IInv, OfferFollowsRun
  <2>2. Assembly(kept) = [result |-> emitted, buffer |-> current]
      BY <2>1 DEF Assembling
  <2>3. current = <<>> => AssembleResult(kept) = emitted
      BY <2>2 DEF AssembleResult
  <2>4. QED
      BY <2>1, <2>2, <2>3 DEF Assembling
<1>5. ASSUME UNCHANGED <<emitted, current, item, offer, kept>>,
             run' = run \/ (run \notin {"flushing", "done"} /\ run' \notin {"flushing", "done"})
                        \/ (run = "flushing" /\ run' = "done")
      PROVE  Assembling'
    BY <1>5 DEF Assembling, LenAfterAppend
<1>6. ASSUME NEW c \in Callers, BeginEnqueue(c) \/ RefuseEnqueue(c) \/ FinishEnqueue(c)
      PROVE  Assembling'
    BY <1>5, <1>6 DEF BeginEnqueue, RefuseEnqueue, FinishEnqueue, runVars
<1>7. CASE OfferRefused \/ BreakerTimeout \/ Start \/ BeginShutdown
    BY <1>5, <1>7 DEF OfferRefused, BreakerTimeout, Start, BeginShutdown, workVars
<1>8. CASE FinishSetShutdown \/ CloseInbox \/ Return \/ Cancel \/ UNCHANGED vars
    BY <1>5, <1>8 DEF FinishSetShutdown, CloseInbox, Return, Cancel, vars, workVars
<1>9. QED
    BY <1>1, <1>2, <1>3, <1>4, <1>6, <1>7, <1>8 DEF Next, OfferAccepted

(***************************************************************************)
(* The theorems.                                                           *)
(***************************************************************************)

\* The inductive invariant holds in every behaviour of the accumulator.
THEOREM Invariant == Spec => []IInv
<1>1. IInv /\ [Next]_vars => IInv'
    BY IInvStep
<1>2. QED
    BY InitIInv, <1>1, PTL DEF Spec

\* Every variable keeps its type, and the channel its capacity.
THEOREM TypeCorrect == Spec => []TypeOK
BY Invariant, PTL DEF IInv

LEMMA ClosedIsNotSentOn == IInv => NoSendOnClosed
BY DEF IInv, NoSendOnClosed, CloseFollowsRun, GateFollowsRun,
   ShutMeansNoReaders, TypeOK, InboxTypeOK

\* Enqueue never sends on internalDataChan after shutdown closed it.
THEOREM NeverSendsOnClosed == Spec => []NoSendOnClosed
BY Invariant, ClosedIsNotSentOn, PTL

\* Retries, refusals, flushes and shutdown lose, double and reorder nothing.
THEOREM NothingLost == Spec => []Conservation
BY Invariant, PTL DEF IInv

LEMMA ReturnedIsFlushed == IInv => DoneMeansFlushed
<1> SUFFICES ASSUME IInv, run = "done"
             PROVE  received = accepted /\ delivered = kept /\ Sending = {}
    BY DEF DoneMeansFlushed
<1>1. offer = "none" /\ chan = <<>> /\ item = <<>> /\ current = <<>>
    BY DEF IInv, OfferFollowsRun, TypeOK
<1>2. Sending = {}
    BY DEF IInv, GateFollowsRun, ShutMeansNoReaders, TypeOK, InboxTypeOK
<1>3. received \in Seq(Payloads) /\ delivered \in Seq(Payloads)
    BY Queues DEF IInv
<1>4. accepted = received \o <<>> /\ kept = (delivered \o <<>>) \o <<>>
    BY <1>1 DEF IInv, Conservation
<1>5. QED
    BY <1>2, <1>3, <1>4, ConcatEmptySeq

\* When Run returns, every accepted payload has been received and every one
\* of them that has bytes has been accepted by the next stage.
THEOREM ReturnsFlushed == Spec => []DoneMeansFlushed
BY Invariant, ReturnedIsFlushed, PTL

\* Once some Enqueue was answered "shutting down", no other one succeeds.
THEOREM RefusalFinal == Spec => RefusalIsFinal
<1>1. ASSUME IInv, [Next]_vars, NEW c \in Callers, caller[c] = "shutting down"
      PROVE  accepted' = accepted
  <2>1. gate = "shut" /\ Sending = {}
      BY <1>1 DEF IInv, RefusalMeansShut, ShutMeansNoReaders
  <2>2. ASSUME NEW b \in Callers, FinishEnqueue(b)
        PROVE  accepted' = accepted
      BY <2>1, <2>2 DEF FinishEnqueue, Push, RejectFull, Sending
  <2>3. ASSUME NEW b \in Callers, BeginEnqueue(b) \/ RefuseEnqueue(b)
        PROVE  accepted' = accepted
      BY <2>3 DEF BeginEnqueue, Enter, RefuseEnqueue, RefuseShuttingDown
  <2>4. ASSUME Receive
        PROVE  accepted' = accepted
      BY <2>4 DEF Receive, AppendNothing, AppendFitting, AppendAfterFlush,
         AppendTooBig, ReceiveData, Pop
  <2>5. ASSUME \/ OfferAccepted \/ OfferRefused \/ BreakerTimeout \/ Start
               \/ BeginShutdown \/ FinishSetShutdown \/ CloseInbox
               \/ FinishDrain \/ Return \/ Cancel \/ UNCHANGED vars
        PROVE  accepted' = accepted
      BY <2>5 DEF OfferAccepted, FlushAccepted, TooBigAccepted, OfferRefused,
         BreakerTimeout, Start, BeginShutdown, LockGate, FinishSetShutdown,
         SetShutdown, CloseInbox, CloseChan, FinishDrain, Return, Cancel,
         inboxVars, vars
  <2>6. QED
      BY <1>1, <2>2, <2>3, <2>4, <2>5 DEF Next
<1>2. IInv /\ [Next]_vars
        => [(\E c \in Callers : caller[c] = "shutting down")
               => accepted' = accepted]_vars
    BY <1>1
<1>3. QED
    BY Invariant, <1>2, PTL DEF Spec, RefusalIsFinal

\* No chunk exceeds the limit unless it is a single payload that does, and
\* none is empty, for any sizes, limit and separator.
THEOREM ChunksKeepTheLimit == Spec => []ChunksWithinLimit
BY Invariant, PTL DEF IInv

\* The chunks of a run are the ones assembleResult computes from the payloads
\* in the order accepted: they do not depend on how callers, refusals,
\* retries and the shutdown interleave.
THEOREM ChunksAsAssembled == Spec => []ChunksAreAssembled
<1>1. Init => Assembling
  <2> SUFFICES ASSUME Init PROVE Assembling
      OBVIOUS
  <2>1. kept = <<>> /\ emitted = <<>> /\ current = <<>> /\ offer = "none" /\ run = "new"
      BY DEF Init
  <2>2. QED
      BY <2>1, AssemblyFold DEF Assembling, Nothing
<1>2. IInv /\ Assembling /\ [Next]_vars => Assembling'
    BY AssemblingStep
<1>3. IInv /\ Assembling => ChunksAreAssembled
  <2> SUFFICES ASSUME IInv, Assembling, run = "done" PROVE emitted = AssembleResult(kept)
      BY DEF ChunksAreAssembled
  <2>1. offer = "none"
      BY DEF IInv, TypeOK, OfferFollowsRun
  <2>2. QED
      BY <2>1 DEF Assembling
<1>4. QED
    BY Invariant, <1>1, <1>2, <1>3, PTL DEF Spec

(***************************************************************************)
(* The promise of a stage.  It speaks of the payloads with bytes, so the   *)
(* mapping filters what was accepted.                                      *)
(***************************************************************************)

\* The payloads with bytes of two queues, one after the other.
LEMMA WithBytesConcat ==
    ASSUME NEW s \in Seq(Payloads), NEW t \in Seq(Payloads)
    PROVE  WithBytes(s \o t) = WithBytes(s) \o WithBytes(t)
<1> DEFINE T == {u \in Seq(Payloads) : WithBytes(s \o u) = WithBytes(s) \o WithBytes(u)}
<1>0. WithBytes(s) \in Seq(Payloads)
    BY WithBytesFold
<1>1. <<>> \in T
  <2>1. <<>> \in Seq(Payloads)
      BY EmptySeq
  <2>2. WithBytes(s \o <<>>) = WithBytes(s) \o WithBytes(<<>>)
      BY <1>0, WithBytesFold, ConcatEmptySeq
  <2>3. QED
      BY <2>1, <2>2
<1>2. ASSUME NEW u \in Seq(Payloads), NEW d \in Payloads, u \in T
      PROVE  Append(u, d) \in T
  <2>1. PICK w \in Seq(Payloads) : w = WithBytes(u)
      BY WithBytesFold
  <2>2. PICK v \in Seq(Payloads) : v = s \o u
      BY ConcatProperties
  <2>3. s \o Append(u, d) = Append(v, d) /\ WithBytes(v) = WithBytes(s) \o w
    <3>1. s \o Append(u, d) = Append(s \o u, d)
        BY AppendToLast
    <3>2. QED
        BY Zenon, <1>2, <2>1, <2>2, <3>1
  <2>4. /\ WithBytes(Append(v, d)) = IF Size[d] > 0 THEN Append(WithBytes(v), d) ELSE WithBytes(v)
        /\ WithBytes(Append(u, d)) = IF Size[d] > 0 THEN Append(w, d) ELSE w
      BY <2>1, WithBytesFold
  <2>5. WithBytes(s) \o Append(w, d) = Append(WithBytes(s) \o w, d)
      BY <1>0, AppendToLast
  <2>6. WithBytes(s \o Append(u, d)) = WithBytes(s) \o WithBytes(Append(u, d))
      BY <2>3, <2>4, <2>5
  <2>7. Append(u, d) \in Seq(Payloads)
      BY AppendProperties
  <2>8. QED
      BY <2>6, <2>7
<1>3. Seq(Payloads) \subseteq T
  <2> HIDE DEF T
  <2> QED
      BY <1>1, <1>2, SequencesUpTo
<1>4. QED
    BY <1>3

\* What was delivered is where the accepted payloads with bytes begin.
LEMMA DeliveredFirst ==
    ASSUME NEW a, NEW r \in Seq(Payloads), NEW ch \in Seq(Payloads),
           NEW de \in Seq(Payloads), NEW cu \in Seq(Payloads), NEW it \in Seq(Payloads),
           a = r \o ch, WithBytes(r) = (de \o cu) \o it
    PROVE  Begins(Payloads, WithBytes(a), de)
<1>1. PICK w \in Seq(Payloads) : w = WithBytes(ch)
    BY WithBytesFold
<1>2. WithBytes(r \o ch) = WithBytes(r) \o WithBytes(ch)
    BY WithBytesConcat
<1>3. WithBytes(a) = ((de \o cu) \o it) \o w
    BY <1>1, <1>2
<1>4. QED
    BY <1>3, FirstOfFour

LEMMA DeliveredBegins ==
    ASSUME IInv PROVE Begins(Payloads, WithBytes(accepted), delivered)
<1>1. /\ received \in Seq(Payloads) /\ chan \in Seq(Payloads)
      /\ delivered \in Seq(Payloads) /\ current \in Seq(Payloads) /\ item \in Seq(Payloads)
      /\ accepted = received \o chan
      /\ WithBytes(received) = (delivered \o current) \o item
    BY DEF IInv, TypeOK, InboxTypeOK, Conservation, KeptHaveBytes
<1>2. QED
    BY <1>1, DeliveredFirst

\* Where the goroutine is decides the phase.
LEMMA PhaseOfRun ==
    ASSUME IInv
    PROVE  /\ run \in {"new", "select", "locking"} => Phase = "open"
           /\ run \in {"closing", "draining", "flushing"} => Phase = "shut"
           /\ run = "done" => Phase = "finished"
BY DEF IInv, GateFollowsRun, TypeOK, InboxTypeOK, RunPoints, Phase

\* An accepted offer delivers the next payloads.
LEMMA OfferDelivers ==
    ASSUME IInv, IInv', OfferAccepted
    PROVE  Abstract!Deliver
<1>1. PICK c \in Seq(Payloads) :
          c # <<>> /\ delivered' = delivered \o c /\ UNCHANGED <<accepted, run, gate>>
  <2>1. CASE FlushAccepted
      BY <2>1, Queues DEF FlushAccepted, IInv, ChunkFits, inboxVars
  <2>2. CASE TooBigAccepted
      BY <2>2, Queues DEF TooBigAccepted, IInv, ChunkFits, inboxVars
  <2>3. QED
      BY <2>1, <2>2 DEF OfferAccepted
<1>2. delivered \in Seq(Payloads) /\ WithBytes(accepted) \in Seq(Payloads)
    BY Queues, WithBytesFold DEF IInv
<1>3. Begins(Payloads, WithBytes(accepted'), delivered')
  <2>1. /\ received' \in Seq(Payloads) /\ chan' \in Seq(Payloads)
        /\ delivered' \in Seq(Payloads) /\ current' \in Seq(Payloads) /\ item' \in Seq(Payloads)
        /\ accepted' = received' \o chan'
        /\ WithBytes(received') = (delivered' \o current') \o item'
      BY DEF IInv, TypeOK, InboxTypeOK, Conservation, KeptHaveBytes
  <2>2. QED
      BY <2>1, DeliveredFirst
<1>4. PICK w \in Seq(Payloads) : w = WithBytes(accepted)
    BY <1>2
<1>5. accepted' = accepted /\ Begins(Payloads, w, delivered \o c)
    BY <1>1, <1>3, <1>4
<1>6. Extends(w, delivered, delivered \o c)
    BY <1>1, <1>2, <1>5, LongerPrefix
<1>7. Phase' = Phase
    BY <1>1 DEF Phase
<1>8. QED
    BY <1>1, <1>4, <1>5, <1>6, <1>7 DEF Abstract!Deliver, Extends

\* Every step of the accumulator is a step of its promise, or changes nothing
\* the promise speaks of.
LEMMA StepMapping ==
    ASSUME IInv, IInv', [Next]_vars
    PROVE  [Abstract!Next]_(Abstract!vars)
<1>1. ASSUME UNCHANGED <<accepted, delivered>>, Phase' = Phase
      PROVE  UNCHANGED Abstract!vars
    BY <1>1 DEF Abstract!vars
<1>2. ASSUME NEW c \in Callers, NEW d \in Payloads, Push(c, d), UNCHANGED runVars
      PROVE  Abstract!Next \/ UNCHANGED Abstract!vars
  <2>1. /\ accepted' = Append(accepted, d) /\ c \in Sending
        /\ run' = run /\ gate' = gate /\ delivered' = delivered
      BY <1>2 DEF Push, runVars, Sending
  <2>2. Phase = "open"
    <3>1. gate # "shut"
        BY <2>1 DEF IInv, ShutMeansNoReaders
    <3>2. QED
        BY <3>1 DEF IInv, GateFollowsRun, TypeOK, InboxTypeOK, Phase
  <2>3. Phase' = Phase
      BY <2>1 DEF Phase
  <2>4. WithBytes(accepted') =
            IF Size[d] > 0 THEN Append(WithBytes(accepted), d) ELSE WithBytes(accepted)
      BY <2>1, Queues, WithBytesFold DEF IInv
  <2>5. CASE Size[d] > 0
    <3>1. Abstract!Accept(d)
        BY <2>1, <2>2, <2>3, <2>4, <2>5 DEF Abstract!Accept
    <3>2. QED
        BY <3>1 DEF Abstract!Next
  <2>6. CASE ~(Size[d] > 0)
      BY <2>1, <2>3, <2>4, <2>6 DEF Abstract!vars
  <2>7. QED
      BY <2>5, <2>6
<1>3. ASSUME OfferAccepted PROVE Abstract!Next
    BY <1>3, OfferDelivers DEF Abstract!Next
<1>4. ASSUME FinishSetShutdown PROVE Abstract!Next
  <2>1. /\ run = "locking" /\ run' = "closing" /\ gate' = "shut"
        /\ accepted' = accepted /\ delivered' = delivered
      BY <1>4 DEF FinishSetShutdown, SetShutdown, workVars
  <2>2. Phase = "open" /\ Phase' = "shut"
      BY <2>1, PhaseOfRun DEF Phase
  <2>3. Abstract!Shut
      BY <2>1, <2>2 DEF Abstract!Shut
  <2>4. QED
      BY <2>3 DEF Abstract!Next
<1>5. ASSUME Return PROVE Abstract!Next
  <2>1. /\ run = "flushing" /\ run' = "done" /\ offer = "none"
        /\ accepted' = accepted /\ delivered' = delivered
      BY <1>5 DEF Return, Idle, inboxVars, workVars
  <2>2. Phase = "shut" /\ Phase' = "finished"
      BY <2>1, PhaseOfRun DEF Phase
  <2>3. delivered = WithBytes(accepted)
    <3>1. chan = <<>> /\ item = <<>> /\ current = <<>>
        BY <2>1 DEF IInv, OfferFollowsRun
    <3>2. accepted = received \o <<>> /\ WithBytes(received) = (delivered \o <<>>) \o <<>>
        BY <3>1 DEF IInv, Conservation, KeptHaveBytes
    <3>3. received \in Seq(Payloads) /\ delivered \in Seq(Payloads)
        BY Queues DEF IInv
    <3>4. QED
        BY <3>2, <3>3, ConcatEmptySeq
  <2>4. Abstract!Finish
      BY <2>1, <2>2, <2>3 DEF Abstract!Finish
  <2>5. QED
      BY <2>4 DEF Abstract!Next
<1>6. ASSUME NEW c \in Callers,
             BeginEnqueue(c) \/ RefuseEnqueue(c) \/ (RejectFull(c) /\ UNCHANGED runVars)
      PROVE  UNCHANGED Abstract!vars
    BY <1>1, <1>6 DEF BeginEnqueue, Enter, RefuseEnqueue, RefuseShuttingDown,
       RejectFull, runVars, Phase
<1>7. ASSUME Receive PROVE UNCHANGED Abstract!vars
    BY <1>1, <1>7 DEF Receive, AppendNothing, AppendFitting, AppendAfterFlush,
       AppendTooBig, ReceiveData, Pop, Phase
<1>8. ASSUME OfferRefused \/ BreakerTimeout \/ Cancel \/ UNCHANGED vars
      PROVE  UNCHANGED Abstract!vars
    BY <1>1, <1>8 DEF OfferRefused, BreakerTimeout, Cancel, inboxVars, workVars, vars, Phase
<1>9. ASSUME Start \/ BeginShutdown \/ CloseInbox \/ FinishDrain
      PROVE  UNCHANGED Abstract!vars
  <2>1. UNCHANGED <<accepted, delivered>>
      BY <1>9 DEF Start, BeginShutdown, LockGate, CloseInbox, CloseChan, FinishDrain,
         inboxVars, workVars
  <2>2. \/ run \in {"new", "select"} /\ run' # "done" /\ gate' \in {gate, "pending"}
        \/ run \in {"closing", "draining"} /\ run' # "done" /\ gate' = gate
      BY <1>9 DEF Start, BeginShutdown, LockGate, CloseInbox, CloseChan, FinishDrain, inboxVars
  <2>3. Phase' = Phase
      BY <2>2, PhaseOfRun DEF Phase, IInv, GateFollowsRun
  <2>4. QED
      BY <1>1, <2>1, <2>3
<1>10. QED
    BY <1>2, <1>3, <1>4, <1>5, <1>6, <1>7, <1>8, <1>9 DEF Next, FinishEnqueue

\* What a step does as seen by callers: nothing, or it accepts a payload
\* while open, or it shuts.
LEMMA IntakeSteps ==
    ASSUME IInv, IInv', [Next]_vars
    PROVE  \/ /\ WithBytes(accepted)' = WithBytes(accepted)
              /\ Phase' = "open" <=> Phase = "open"
           \/ /\ \E d \in Payloads : WithBytes(accepted)' = Append(WithBytes(accepted), d)
              /\ Phase' = "open" /\ Phase = "open"
           \/ /\ WithBytes(accepted)' = WithBytes(accepted)
              /\ Phase' # "open" /\ Phase = "open"
<1>1. [Abstract!Next]_(Abstract!vars)
    BY StepMapping
<1>2. QED
    BY <1>1 DEF Abstract!Next, Abstract!vars, Abstract!Accept, Abstract!Deliver, Abstract!Shut,
       Abstract!Finish

\* The accumulator delivers the payloads with bytes that it accepted, once, in
\* order, several at a time, and finishes only when it has: it implements
\* DataFlow, as the uploader does.
THEOREM Refinement == Spec => ImplementsDataFlow
<1>1. Init => Abstract!Init
    BY WithBytesFold DEF Init, InboxInit, Phase, Abstract!Init
<1>2. IInv /\ IInv' /\ [Next]_vars => [Abstract!Next]_(Abstract!vars)
    BY StepMapping
<1>3. QED
    BY <1>1, <1>2, Invariant, PTL DEF Spec, ImplementsDataFlow, Abstract!Spec

-----------------------------------------------------------------------------
(***************************************************************************)
(* The accumulator that flushes by time too, for any force_flush_after.    *)
(* A tick is the only step that BySize does not have: it puts the chunk on *)
(* offer before it is full.  The rest of the proof is about the times.     *)
(***************************************************************************)

\* A step of the timed accumulator is one of Accumulator's, or a tick is
\* received, or time passes.
LEMMA TimedSteps ==
    ASSUME [TimedNext]_timedVars
    PROVE  [Next]_vars \/ ServeTick
BY DEF TimedNext, timedVars, Tick, TimedCallers, TimedReceive, TimedOfferAccepted, TimedShutdown,
   Next, Receive, OfferAccepted

\* The offer a tick makes is one of a chunk within the limit.
LEMMA ServeTickKeeps ==
    ASSUME IInv, ServeTick PROVE IInv'
<1>1. /\ offer = "none" /\ run = "select"
      /\ offer' \in {"none", "current"} /\ (offer' = "current" => current # <<>>)
      /\ UNCHANGED <<caller, chan, chanState, gate, accepted>>
      /\ UNCHANGED <<run, ctx, breaker, current, item, emitted, received, kept, delivered>>
    BY DEF ServeTick, Idle, inboxVars
<1>2. item = <<>>
    BY <1>1 DEF IInv, OfferFollowsRun
<1>3. TypeOK' /\ GateFollowsRun' /\ CloseFollowsRun'
    BY <1>1 DEF IInv, TypeOK, InboxTypeOK, GateFollowsRun, CloseFollowsRun
<1>4. OfferFollowsRun'
    BY <1>1, <1>2 DEF IInv, OfferFollowsRun
<1>5. ShutMeansNoReaders' /\ RefusalMeansShut' /\ Conservation' /\ KeptHaveBytes'
    BY <1>1 DEF IInv, ShutMeansNoReaders, Sending, RefusalMeansShut, Conservation, KeptHaveBytes
<1>6. ChunkFits' /\ ChunksWithinLimit'
    BY <1>1, <1>2 DEF IInv, ChunkFits, ChunksWithinLimit
<1>7. QED
    BY <1>3, <1>4, <1>5, <1>6 DEF IInv

LEMMA TimedIInvKeeps ==
    ASSUME IInv, [TimedNext]_timedVars PROVE IInv'
BY TimedSteps, ServeTickKeeps, IInvStep

\* Ages grow, up to the bound.
LEMMA OlderGrows ==
    /\ MaxAge \in Nat /\ MaxAge > 0
    /\ \A age \in 0..MaxAge : Older(age) \in 0..MaxAge /\ age <= Older(age)
<1>1. ForceFlushAfter \in Nat
    BY ForceFlushAfterAssumption
<1>2. MaxAge \in Nat /\ MaxAge > 0
    BY <1>1 DEF MaxAge
<1>3. QED
    BY <1>2 DEF Older

\* What a step may do to the times.
TimesStep ==
    \/ UNCHANGED <<sinceOldest, headAge, tick, current>>
    \/ RestartOldest
    \/ ForgetTimes
    \/ Tick
    \/ ServeTick

LEMMA TimesMove ==
    ASSUME [TimedNext]_timedVars PROVE TimesStep
<1>1. TimedReceive => TimesStep
    BY DEF TimedReceive, TimesStep, AppendNothing, AppendAfterFlush, AppendTooBig, timeVars
<1>2. TimedOfferAccepted => TimesStep
    BY DEF TimedOfferAccepted, TimesStep, TooBigAccepted, timeVars
<1>3. TimedCallers => TimesStep
    BY DEF TimedCallers, BeginEnqueue, RefuseEnqueue, FinishEnqueue, runVars, timeVars, TimesStep
<1>4. TimedShutdown => TimesStep
    BY DEF TimedShutdown, Start, BeginShutdown, FinishSetShutdown, CloseInbox, FinishDrain, Return,
       workVars, timeVars, TimesStep
<1>5. (OfferRefused \/ BreakerTimeout \/ Cancel) /\ UNCHANGED timeVars => TimesStep
    BY DEF OfferRefused, BreakerTimeout, Cancel, workVars, timeVars, TimesStep
<1>6. UNCHANGED timedVars => TimesStep
    BY DEF timedVars, vars, TimesStep
<1>7. QED
    BY <1>1, <1>2, <1>3, <1>4, <1>5, <1>6 DEF TimedNext, TimesStep

LEMMA TimesKeep ==
    ASSUME TimedIInv, [TimedNext]_timedVars
    PROVE  /\ sinceOldest' \in 0..MaxAge /\ headAge' \in 0..MaxAge /\ tick' \in Ticks
           /\ TickIsOld'
<1>1. sinceOldest \in 0..MaxAge /\ headAge \in 0..MaxAge /\ tick \in Ticks /\ TickIsOld
    BY DEF TimedIInv, TimedTypeOK
<1>2. MaxAge \in Nat /\ 0 \in 0..MaxAge
    BY OlderGrows
<1>3. /\ NoTick \in Ticks
      /\ \A a \in 0..MaxAge, b \in -1..MaxAge : [sinceOldest |-> a, headAge |-> b] \in Ticks
    BY <1>2 DEF NoTick, Ticks
<1>4. tick.sinceOldest \in -1..MaxAge /\ tick.headAge \in -1..MaxAge
    BY <1>1 DEF Ticks
<1>5. CASE UNCHANGED <<sinceOldest, headAge, tick, current>>
    BY <1>1, <1>5 DEF TickIsOld
<1>6. CASE RestartOldest
  <2>1. /\ sinceOldest' = 0 /\ headAge' \in 0..MaxAge
        /\ tick' = NoTick \/ \E b \in -1..MaxAge : tick' = [sinceOldest |-> 0, headAge |-> b]
      BY <1>1, <1>2, <1>4, <1>6 DEF RestartOldest
  <2>2. QED
      BY <1>2, <1>3, <2>1 DEF TickIsOld
<1>7. CASE ForgetTimes
  <2>1. /\ sinceOldest' = 0 /\ headAge' = 0
        /\ tick' = NoTick \/ tick' = [sinceOldest |-> 0, headAge |-> 0]
      BY <1>7 DEF ForgetTimes
  <2>2. QED
      BY <1>2, <1>3, <2>1 DEF TickIsOld
<1>8. CASE Tick
  <2>1. /\ sinceOldest' = (IF current = <<>> THEN 0 ELSE Older(sinceOldest))
        /\ headAge' = (IF current = <<>> THEN 0 ELSE Older(headAge))
        /\ tick' = (IF tick = NoTick THEN [sinceOldest |-> sinceOldest', headAge |-> headAge']
                                     ELSE tick)
        /\ current' = current
      BY <1>8 DEF Tick, vars
  <2>2. /\ sinceOldest' \in 0..MaxAge /\ headAge' \in 0..MaxAge
        /\ current # <<>> => sinceOldest <= sinceOldest'
      BY <1>1, <1>2, <2>1, OlderGrows
  <2>3. headAge' \in -1..MaxAge
      BY <1>2, <2>2
  <2>4. CASE tick = NoTick
      BY <1>2, <1>3, <2>1, <2>2, <2>3, <2>4 DEF TickIsOld
  <2>5. CASE tick # NoTick
    <3>1. tick' = tick
        BY <2>1, <2>5
    <3>2. TickIsOld'
        BY <1>1, <1>2, <1>4, <2>1, <2>2, <3>1 DEF TickIsOld
    <3>3. QED
        BY <1>1, <2>2, <3>1, <3>2
  <2>6. QED
      BY <2>4, <2>5
<1>9. CASE ServeTick
    BY <1>1, <1>3, <1>9 DEF ServeTick, TickIsOld
<1>10. QED
    BY <1>5, <1>6, <1>7, <1>8, <1>9, TimesMove DEF TimesStep

\* The invariant of BySize and the types of the times hold with a ticker too:
\* nothing is lost, and chunks keep the limit, also when time flushes them.
THEOREM TimedInvariant == TimedSpec => []TimedIInv
<1>1. TimedInit => TimedIInv
  <2> SUFFICES ASSUME TimedInit PROVE TimedIInv
      OBVIOUS
  <2>1. IInv
      BY InitIInv DEF TimedInit
  <2>2. MaxAge \in Nat
      BY OlderGrows
  <2>3. NoTick \in Ticks
      BY <2>2 DEF NoTick, Ticks
  <2>4. QED
      BY <2>1, <2>2, <2>3 DEF TimedInit, TimedIInv, TimedTypeOK, TickIsOld, IInv
<1>2. TimedIInv /\ [TimedNext]_timedVars => TimedIInv'
  <2> SUFFICES ASSUME TimedIInv, [TimedNext]_timedVars PROVE TimedIInv'
      OBVIOUS
  <2>1. IInv'
      BY TimedIInvKeeps DEF TimedIInv
  <2>2. QED
      BY <2>1, TimesKeep DEF TimedIInv, TimedTypeOK, IInv
<1>3. QED
    BY <1>1, <1>2, PTL DEF TimedSpec

\* What is proved of BySize holds of ByTimeAndSize: no send on a closed
\* channel, nothing lost, doubled or reordered, no chunk over the limit, and
\* all flushed when Run returns, however ticks interleave with the rest.
THEOREM TimedIsSafe ==
    TimedSpec => [](NoSendOnClosed /\ Conservation /\ ChunksWithinLimit /\ DoneMeansFlushed)
<1>1. TimedIInv => NoSendOnClosed /\ Conservation /\ ChunksWithinLimit /\ DoneMeansFlushed
    BY ClosedIsNotSentOn, ReturnedIsFlushed DEF TimedIInv, IInv
<1>2. QED
    BY <1>1, TimedInvariant, PTL

\* A tick that waited while the goroutine was busy flushes nothing younger
\* than forceFlushAfter.
THEOREM FlushesAreDue == TimedSpec => NoEarlyFlush
<1>1. ASSUME TimedIInv, [TimedNext]_timedVars, TimeFlush
      PROVE  sinceOldest >= ForceFlushAfter
  <2>1. tick # NoTick /\ tick' = NoTick /\ offer' = "current"
      BY <1>1 DEF TimeFlush
  <2>2. ServeTick
    <3>1. \A b : [sinceOldest |-> 0, headAge |-> b] # NoTick
        BY DEF NoTick
    <3>2. TimesStep
        BY <1>1, TimesMove
    <3>3. QED
        BY <2>1, <3>1, <3>2 DEF TimesStep, RestartOldest, ForgetTimes, Tick
  <2>3. current # <<>> /\ tick.sinceOldest >= ForceFlushAfter
      BY <2>1, <2>2 DEF ServeTick
  <2>4. tick.sinceOldest <= sinceOldest
      BY <1>1, <2>1, <2>3 DEF TimedIInv, TickIsOld
  <2>5. tick.sinceOldest \in Int /\ sinceOldest \in Int /\ ForceFlushAfter \in Int
      BY <1>1, ForceFlushAfterAssumption DEF TimedIInv, TimedTypeOK, Ticks
  <2>6. QED
      BY <2>3, <2>4, <2>5
<1>2. TimedIInv /\ [TimedNext]_timedVars
        => [TimeFlush => sinceOldest >= ForceFlushAfter]_timedVars
    BY <1>1
<1>3. QED
    BY <1>2, TimedInvariant, PTL DEF TimedSpec, NoEarlyFlush

\* It keeps the same promise as a stage.
THEOREM TimedRefinement == TimedSpec => ImplementsDataFlow
<1>1. TimedInit => Abstract!Init
    BY WithBytesFold DEF TimedInit, Init, InboxInit, Phase, Abstract!Init
<1>2. TimedIInv /\ TimedIInv' /\ [TimedNext]_timedVars => [Abstract!Next]_(Abstract!vars)
  <2>1. ServeTick => UNCHANGED Abstract!vars
      BY DEF ServeTick, inboxVars, Phase, Abstract!vars
  <2>2. QED
      BY <2>1, TimedSteps, StepMapping DEF TimedIInv
<1>3. QED
    BY <1>1, <1>2, TimedInvariant, PTL DEF TimedSpec, ImplementsDataFlow, Abstract!Spec
=============================================================================
