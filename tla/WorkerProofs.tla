---------------------------- MODULE WorkerProofs ----------------------------
(***************************************************************************)
(* Proofs about Worker for any workers, slots and units.  The inductive    *)
(* invariant IInv says where a unit can be (NoCopies, Apart, NothingLost), *)
(* and what the progress of a slot means for its storage and its queue     *)
(* (SlotsInOrder, SlotsFollowUnit).  The steps of the channel and those of *)
(* the slots disturb different parts of it.                                *)
(***************************************************************************)
EXTENDS Worker, SeqLemmas, FiniteSetTheorems

-----------------------------------------------------------------------------
(* Operators. *)

\* What a failed upload leaves is one of the contents of TypeOK.
LEMMA LeavesAreContents ==
    ASSUME NEW s \in Slots
    PROVE  StorageLeaves[StorageOf[s]] \subseteq {"absent", "partial", "whole"}
<1>1. StorageOf[s] \in {"s3", "localstorage", "httpstorage"}
    BY StorageAssumption DEF StorageTypes
<1>2. QED
    BY <1>1 DEF StorageLeaves, StorageTypes, S3Leaves, LocalStorageLeaves, HTTPStorageLeaves

-----------------------------------------------------------------------------
(* The initial states. *)

LEMMA InitIInv == Init => IInv
<1> SUFFICES ASSUME Init PROVE IInv
    OBVIOUS
<1> USE DEF Init
<1>1. <<>> \in Seq(Units) /\ Len(<<>>) = 0 /\ DOMAIN <<>> = {}
    BY EmptySeq
<1>2. TypeOK
    BY <1>1, IncomingCapacityAssumption DEF TypeOK, Steps
<1>3. NoCopies /\ Apart /\ NothingLost
    BY <1>1, NoUnitAssumption DEF NoCopies, Apart, NothingLost
<1>4. SlotsInOrder /\ SlotsFollowUnit
    BY DEF SlotsInOrder, SlotsFollowUnit
<1>5. DoneIsDrained /\ FinishedIsAttemptedEverywhere
    BY DEF DoneIsDrained, FinishedIsAttemptedEverywhere
<1>6. QED
    BY <1>2, <1>3, <1>4, <1>5 DEF IInv

-----------------------------------------------------------------------------
(* Types. *)

\* A slot's step is on a unit in hand, and leaves the other slots alone.
LEMMA SlotMoved ==
    ASSUME TypeOK, NEW w \in Workers, NEW s \in Slots, NEW from, NEW to \in Steps,
           SlotMoves(w, s, from, to)
    PROVE  /\ unit[w] \in Units /\ progress[unit[w]][s] = from
           /\ progress' \in [Units -> [Slots -> Steps]]
           /\ progress'[unit[w]][s] = to
           /\ \A u \in Units, t \in Slots :
                 u # unit[w] \/ t # s => progress'[u][t] = progress[u][t]
           /\ UNCHANGED <<compressor, incoming, incomingState, fed, ctx, run, unit, finished>>
<1> DEFINE u == unit[w]
           P == progress[u]
<1>1. u \in Units /\ P \in [Slots -> Steps]
    BY DEF SlotMoves, TypeOK
<1>2. progress \in [Units -> [Slots -> Steps]]
    BY DEF TypeOK
<1>3. progress' = [progress EXCEPT ![u] = [P EXCEPT ![s] = to]]
    BY DEF SlotMoves
<1>4. [P EXCEPT ![s] = to] \in [Slots -> Steps]
    BY <1>1
<1>5. QED
    BY <1>1, <1>2, <1>3, <1>4 DEF SlotMoves

\* Likewise for what the storages hold.
LEMMA ContentLeft ==
    ASSUME TypeOK, NEW w \in Workers, NEW s \in Slots, unit[w] \in Units,
           NEW what \in {"absent", "partial", "whole"}, Leave(w, s, what)
    PROVE  /\ content' \in [Units -> [Slots -> {"absent", "partial", "whole"}]]
           /\ content'[unit[w]][s] = what
           /\ \A u \in Units, t \in Slots :
                 u # unit[w] \/ t # s => content'[u][t] = content[u][t]
<1> DEFINE u == unit[w]
           C == content[u]
           Contents == {"absent", "partial", "whole"}
<1>1. u \in Units /\ C \in [Slots -> Contents]
    BY DEF TypeOK
<1>2. content \in [Units -> [Slots -> Contents]]
    BY DEF TypeOK
<1>3. content' = [content EXCEPT ![u] = [C EXCEPT ![s] = what]]
    BY DEF Leave
<1>4. [C EXCEPT ![s] = what] \in [Slots -> Contents]
    BY <1>1
<1>5. QED
    BY <1>1, <1>2, <1>3, <1>4

\* What a step of slot s does to the unit in hand and to slot s: its
\* progress, what the storage holds, and whether the queue is told.
SlotEffect(w, s) ==
    /\ unit[w] \in Units
    /\ progress' \in [Units -> [Slots -> Steps]]
    /\ content' \in [Units -> [Slots -> {"absent", "partial", "whole"}]]
    /\ \A u \in Units, t \in Slots :
          u # unit[w] \/ t # s =>
              progress'[u][t] = progress[u][t] /\ content'[u][t] = content[u][t]
    /\ UNCHANGED <<compressor, incoming, incomingState, fed, ctx, run, unit, finished>>
    /\ \/ /\ progress[unit[w]][s] = "uploading"
          /\ \/ progress'[unit[w]][s] = "announcing" /\ content'[unit[w]][s] = "whole"
             \/ progress'[unit[w]][s] = "failed"
          /\ announced' = announced
       \/ /\ progress[unit[w]][s] = "announcing"
          /\ progress'[unit[w]][s] \in {"done", "failed"}
          /\ content' = content
          /\ announced' \in {announced, announced \cup {<<unit[w], s>>}}

LEMMA SlotStepEffect ==
    ASSUME TypeOK, NEW w \in Workers, NEW s \in Slots, SlotStep(w, s)
    PROVE  SlotEffect(w, s)
<1>1. ASSUME NEW to \in Steps, SlotMoves(w, s, "uploading", to), announced' = announced,
             NEW what \in {"absent", "partial", "whole"}, Leave(w, s, what),
             (to = "announcing" /\ what = "whole") \/ to = "failed"
      PROVE  SlotEffect(w, s)
  <2>1. unit[w] \in Units /\ progress[unit[w]][s] = "uploading"
      BY <1>1, SlotMoved
  <2>2. QED
      BY <1>1, <2>1, SlotMoved, ContentLeft DEF SlotEffect
<1>2. ASSUME NEW to \in Steps, SlotMoves(w, s, "announcing", to), to \in {"done", "failed"},
             content' = content, announced' \in {announced, announced \cup {<<unit[w], s>>}}
      PROVE  SlotEffect(w, s)
  <2>1. content \in [Units -> [Slots -> {"absent", "partial", "whole"}]]
      BY DEF TypeOK
  <2>2. QED
      BY <1>2, <2>1, SlotMoved DEF SlotEffect
<1>3. CASE Uploaded(w, s)
    BY <1>1, <1>3 DEF Uploaded, Steps
<1>4. CASE UploadFailed(w, s)
    BY <1>1, <1>4, LeavesAreContents DEF UploadFailed, Steps
<1>5. CASE Announced(w, s)
    BY <1>2, <1>5 DEF Announced, Announce, Steps
<1>6. CASE AnnounceFailed(w, s)
    BY <1>2, <1>6 DEF AnnounceFailed, Announce, Steps
<1>7. QED
    BY <1>3, <1>4, <1>5, <1>6 DEF SlotStep

\* The steps of the uploader, the application and the workers keep the
\* variables in their types, and the channel within its capacity.
LEMMA TypeStep ==
    ASSUME TypeOK, [Next]_vars
    PROVE  TypeOK'
<1>0. incoming \in Seq(Units) /\ Len(incoming) \in Nat
    BY LenProperties DEF TypeOK
<1>1. ASSUME NEW u \in Units, Feed(u) PROVE TypeOK'
  <2>1. Append(incoming, u) \in Seq(Units) /\ Len(Append(incoming, u)) = Len(incoming) + 1
      BY <1>0, AppendProperties
  <2>2. QED
      BY <1>0, <1>1, <2>1, IncomingCapacityAssumption DEF Feed, workerVars, TypeOK
<1>2. CASE CloseIncoming \/ Cancel
    BY <1>2 DEF CloseIncoming, Cancel, workerVars, TypeOK
<1>3. ASSUME incoming # <<>>, incoming' = Tail(incoming)
      PROVE  /\ Head(incoming) \in Units
             /\ incoming' \in Seq(Units) /\ Len(incoming') <= IncomingCapacity
  <2>1. /\ Head(incoming) \in Units /\ Tail(incoming) \in Seq(Units)
        /\ Len(Tail(incoming)) = Len(incoming) - 1
      BY <1>0, <1>3, HeadThenTail
  <2>2. QED
      BY <1>0, <1>3, <2>1, IncomingCapacityAssumption DEF TypeOK
<1>4. ASSUME NEW w \in Workers, Take(w) PROVE TypeOK'
  <2>1. /\ Head(incoming) \in Units
        /\ incoming' \in Seq(Units) /\ Len(incoming') <= IncomingCapacity
      BY <1>3, <1>4 DEF Take
  <2>2. progress' \in [Units -> [Slots -> Steps]]
      BY <1>4, <2>1 DEF Take, TypeOK, Steps
  <2>3. unit' \in [Workers -> Units \cup {NoUnit}]
      BY <1>4, <2>1 DEF Take, TypeOK
  <2>4. QED
      BY <1>4, <2>1, <2>2, <2>3 DEF Take, TypeOK
<1>5. ASSUME NEW w \in Workers, WorkReturns(w) PROVE TypeOK'
    BY <1>5 DEF WorkReturns, TypeOK
<1>6. ASSUME NEW w \in Workers, Start(w) \/ BeginDrain(w) \/ FinishDrain(w) PROVE TypeOK'
    BY <1>6 DEF Start, BeginDrain, FinishDrain, TypeOK
<1>7. \A w \in Workers : FinishUnit(w) \/ DropUncompressed(w) => WorkReturns(w)
    BY DEF FinishUnit, DropUncompressed
<1>8. ASSUME NEW w \in Workers, NEW s \in Slots, SlotStep(w, s) PROVE TypeOK'
  <2>1. /\ unit[w] \in Units
        /\ announced' = announced \/ announced' = announced \cup {<<unit[w], s>>}
      BY <1>8, SlotStepEffect DEF SlotEffect
  <2>2. announced' \subseteq Units \X Slots
      BY <2>1 DEF TypeOK
  <2>3. /\ progress' \in [Units -> [Slots -> Steps]]
        /\ content' \in [Units -> [Slots -> {"absent", "partial", "whole"}]]
        /\ UNCHANGED <<compressor, incoming, incomingState, fed, ctx, run, unit, finished>>
      BY <1>8, SlotStepEffect DEF SlotEffect
  <2>4. QED
      BY <2>2, <2>3 DEF TypeOK
<1>9. CASE UNCHANGED vars
    BY <1>9 DEF vars, TypeOK
<1>10. QED
    BY <1>1, <1>2, <1>4, <1>5, <1>6, <1>7, <1>8, <1>9 DEF Next, LoopStep

-----------------------------------------------------------------------------
(* Where a unit is. *)

\* The uploader sends a unit it has not sent before.
LEMMA FeedPlaces ==
    ASSUME IInv, NEW u \in Units, Feed(u)
    PROVE  NoCopies' /\ Apart' /\ NothingLost'
<1> DEFINE end == Len(incoming) + 1
<1>1. /\ DOMAIN incoming' = DOMAIN incoming \cup {end}
      /\ end \notin DOMAIN incoming
      /\ \A i \in DOMAIN incoming : incoming'[i] = incoming[i]
      /\ incoming'[end] = u
    BY AppendPositions DEF Feed, IInv, TypeOK
<1>2. u \notin fed /\ fed' = fed \cup {u} /\ unit' = unit /\ finished' = finished
    BY UnitsAssumption DEF Feed, workerVars
<1> HIDE DEF end
<1>3. NoCopies'
    BY <1>1, <1>2 DEF IInv, NoCopies, Apart
<1>4. Apart'
    BY <1>1, <1>2, NoUnitAssumption DEF IInv, TypeOK, Apart
<1>5. NothingLost'
    BY <1>1, <1>2 DEF IInv, NothingLost
<1>6. QED
    BY <1>3, <1>4, <1>5

\* What is in the channel behind its head.
LEMMA ReceivePlaces ==
    ASSUME IInv, incoming # <<>>, incoming' = Tail(incoming)
    PROVE  /\ Head(incoming) \in fed \ finished
           /\ \A w \in Workers : unit[w] # Head(incoming)
           /\ \A i, j \in DOMAIN incoming' : incoming'[i] = incoming'[j] => i = j
           /\ \A i \in DOMAIN incoming' : /\ incoming'[i] # Head(incoming)
                                          /\ incoming'[i] \in fed \ finished
                                          /\ \A w \in Workers : incoming'[i] # unit[w]
           /\ \A u \in fed : \/ u = Head(incoming) \/ u \in finished
                             \/ \E i \in DOMAIN incoming' : incoming'[i] = u
                             \/ \E w \in Workers : unit[w] = u
<1>1. incoming \in Seq(Units)
    BY DEF IInv, TypeOK
<1>2. /\ 1 \in DOMAIN incoming /\ Head(incoming) = incoming[1]
      /\ \A i \in DOMAIN incoming' : /\ i + 1 \in DOMAIN incoming /\ i + 1 # 1
                                     /\ incoming'[i] = incoming[i + 1]
      /\ \A j \in DOMAIN incoming : j # 1 => /\ j - 1 \in DOMAIN incoming'
                                             /\ incoming'[j - 1] = incoming[j]
    BY <1>1, TailPositions
<1>3. DOMAIN incoming' \subseteq Int
  <2>1. Tail(incoming) \in Seq(Units)
      BY <1>1, HeadThenTail
  <2>2. QED
      BY <2>1, LenProperties
<1>4. \A i, j \in DOMAIN incoming' : incoming'[i] = incoming'[j] => i = j
  <2> SUFFICES ASSUME NEW i \in DOMAIN incoming', NEW j \in DOMAIN incoming',
                      incoming'[i] = incoming'[j]
               PROVE  i = j
      OBVIOUS
  <2>1. i + 1 = j + 1
      BY <1>2 DEF IInv, NoCopies
  <2>2. QED
      BY <1>3, <2>1
<1>5. \A i \in DOMAIN incoming' : /\ incoming'[i] # Head(incoming)
                                  /\ incoming'[i] \in fed \ finished
                                  /\ \A w \in Workers : incoming'[i] # unit[w]
  <2> SUFFICES ASSUME NEW i \in DOMAIN incoming'
               PROVE  /\ incoming'[i] # Head(incoming)
                      /\ incoming'[i] \in fed \ finished
                      /\ \A w \in Workers : incoming'[i] # unit[w]
      OBVIOUS
  <2>1. incoming[i + 1] # incoming[1]
      BY <1>2 DEF IInv, NoCopies
  <2>2. QED
      BY <1>2, <2>1 DEF IInv, Apart
<1>6. \A u \in fed : \/ u = Head(incoming) \/ u \in finished
                     \/ \E i \in DOMAIN incoming' : incoming'[i] = u
                     \/ \E w \in Workers : unit[w] = u
  <2> SUFFICES ASSUME NEW u \in fed, NEW j \in DOMAIN incoming, incoming[j] = u, j # 1
               PROVE  \E i \in DOMAIN incoming' : incoming'[i] = u
      BY <1>2 DEF IInv, NothingLost
  <2>1. j - 1 \in DOMAIN incoming' /\ incoming'[j - 1] = u
      BY <1>2
  <2>2. QED
      BY <2>1
<1>7. Head(incoming) \in fed \ finished /\ \A w \in Workers : unit[w] # Head(incoming)
    BY <1>2 DEF IInv, Apart
<1>8. QED
    BY <1>4, <1>5, <1>6, <1>7

\* A unit moves from the channel to a worker, and from a worker to the
\* finished ones; it is never in two places on the way.
LEMMA PlacesStep ==
    ASSUME IInv, [Next]_vars
    PROVE  NoCopies' /\ Apart' /\ NothingLost'
<1>1. ASSUME NEW w \in Workers, Take(w) PROVE NoCopies' /\ Apart' /\ NothingLost'
  <2> DEFINE h == Head(incoming)
  <2>1. /\ incoming # <<>> /\ incoming' = Tail(incoming)
        /\ unit' = [unit EXCEPT ![w] = h] /\ unit[w] = NoUnit
        /\ fed' = fed /\ finished' = finished
      BY <1>1 DEF Take
  <2>2. unit \in [Workers -> Units \cup {NoUnit}] /\ fed \subseteq Units
      BY DEF IInv, TypeOK
  <2>3. /\ h \in fed \ finished /\ h # NoUnit
        /\ \A v \in Workers : unit[v] # h
        /\ \A i, j \in DOMAIN incoming' : incoming'[i] = incoming'[j] => i = j
        /\ \A i \in DOMAIN incoming' : /\ incoming'[i] # h
                                       /\ incoming'[i] \in fed \ finished
                                       /\ \A v \in Workers : incoming'[i] # unit[v]
        /\ \A u \in fed : \/ u = h \/ u \in finished
                          \/ \E i \in DOMAIN incoming' : incoming'[i] = u
                          \/ \E v \in Workers : unit[v] = u
      BY <2>1, <2>2, ReceivePlaces, NoUnitAssumption
  <2>4. /\ unit'[w] = h
        /\ \A v \in Workers : v # w => unit'[v] = unit[v]
      BY <2>1, <2>2
  <2> HIDE DEF h
  <2>5. NoCopies'
      BY <2>3, <2>4 DEF IInv, NoCopies
  <2>6. Apart'
      BY <2>1, <2>3, <2>4 DEF IInv, Apart
  <2>7. NothingLost'
    <3> SUFFICES ASSUME NEW u \in fed
                 PROVE  \/ u \in finished
                        \/ \E i \in DOMAIN incoming' : incoming'[i] = u
                        \/ \E v \in Workers : unit'[v] = u
        BY <2>1 DEF NothingLost
    <3>1. u # NoUnit
        BY <2>2, NoUnitAssumption
    <3>2. QED
        BY <2>1, <2>3, <2>4, <3>1
  <2>8. QED
      BY <2>5, <2>6, <2>7
<1>2. \A w \in Workers : FinishUnit(w) \/ DropUncompressed(w) => WorkReturns(w)
    BY DEF FinishUnit, DropUncompressed
<1>3. ASSUME NEW w \in Workers, WorkReturns(w) PROVE NoCopies' /\ Apart' /\ NothingLost'
  <2>1. /\ unit[w] # NoUnit /\ unit' = [unit EXCEPT ![w] = NoUnit]
        /\ finished' = finished \cup {unit[w]}
        /\ fed' = fed /\ incoming' = incoming
      BY <1>3 DEF WorkReturns
  <2>2. unit \in [Workers -> Units \cup {NoUnit}] /\ fed \subseteq Units
      BY DEF IInv, TypeOK
  <2>3. unit'[w] = NoUnit /\ \A v \in Workers : v # w => unit'[v] = unit[v]
      BY <2>1, <2>2
  <2>4. \A i \in DOMAIN incoming : incoming[i] \in fed /\ incoming[i] # NoUnit
      BY <2>2, NoUnitAssumption DEF IInv, Apart
  <2>5. NoCopies'
      BY <2>1, <2>3 DEF IInv, NoCopies
  <2>6. Apart'
    <3>1. \A v \in Workers : unit'[v] # NoUnit => unit'[v] \in fed' \ finished'
        BY <2>1, <2>3 DEF IInv, Apart, NoCopies
    <3>2. QED
        BY <2>1, <2>3, <2>4, <3>1 DEF IInv, Apart
  <2>7. NothingLost'
      BY <2>1, <2>3 DEF IInv, NothingLost
  <2>8. QED
      BY <2>5, <2>6, <2>7
<1>4. ASSUME UNCHANGED <<incoming, fed, unit, finished>>
      PROVE  NoCopies' /\ Apart' /\ NothingLost'
    BY <1>4 DEF IInv, NoCopies, Apart, NothingLost
<1>5. ASSUME NEW w \in Workers, NEW s \in Slots, SlotStep(w, s)
      PROVE  UNCHANGED <<incoming, fed, unit, finished>>
    BY <1>5, SlotStepEffect DEF SlotEffect, IInv
<1>6. ASSUME NEW w \in Workers, Start(w) \/ BeginDrain(w) \/ FinishDrain(w)
      PROVE  UNCHANGED <<incoming, fed, unit, finished>>
    BY <1>6 DEF Start, BeginDrain, FinishDrain
<1>7. ASSUME CloseIncoming \/ Cancel \/ UNCHANGED vars
      PROVE  UNCHANGED <<incoming, fed, unit, finished>>
    BY <1>7 DEF CloseIncoming, Cancel, workerVars, vars
<1>8. QED
    BY <1>1, <1>2, <1>3, <1>4, <1>5, <1>6, <1>7, FeedPlaces DEF Next, LoopStep

-----------------------------------------------------------------------------
(* What a slot has done. *)

\* A unit is new to all its slots when a worker takes it, and a step of a
\* slot is on a unit in hand: what has ended stays ended.
LEMMA SlotsStep ==
    ASSUME IInv, [Next]_vars
    PROVE  SlotsInOrder' /\ SlotsFollowUnit' /\ FinishedIsAttemptedEverywhere'
<1> DEFINE Goal == SlotsInOrder' /\ SlotsFollowUnit' /\ FinishedIsAttemptedEverywhere'
<1>1. ASSUME NEW w \in Workers, Take(w) PROVE Goal
  <2> DEFINE h == Head(incoming)
  <2>1. /\ incoming # <<>> /\ incoming' = Tail(incoming)
        /\ unit' = [unit EXCEPT ![w] = h] /\ unit[w] = NoUnit
        /\ \/ progress' = [progress EXCEPT ![h] = [s \in Slots |-> "uploading"]]
           \/ progress' = progress
        /\ UNCHANGED <<compressor, finished, content, announced>>
      BY <1>1 DEF Take
  <2>2. /\ h \in Units /\ h \notin finished
        /\ \A v \in Workers : unit[v] # h
      BY <2>1, ReceivePlaces DEF IInv, TypeOK
  <2>3. \A s \in Slots : /\ progress[h][s] = "waiting"
                          /\ progress'[h][s] \in {"waiting", "uploading"}
    <3>1. progress \in [Units -> [Slots -> Steps]]
        BY DEF IInv, TypeOK
    <3>2. QED
        BY <2>1, <2>2, <3>1 DEF IInv, SlotsFollowUnit
  <2>4. \A u \in Units : u # h => progress'[u] = progress[u]
      BY <2>1, <2>2 DEF IInv, TypeOK
  <2>5. unit'[w] = h /\ \A v \in Workers : v # w => unit'[v] = unit[v]
      BY <2>1 DEF IInv, TypeOK
  <2> HIDE DEF h
  <2>6. SlotsInOrder'
    <3>1. \A s \in Slots : <<h, s>> \notin announced
        BY <2>2, <2>3 DEF IInv, SlotsInOrder
    <3> SUFFICES ASSUME NEW u \in Units, NEW s \in Slots
                 PROVE  /\ progress'[u][s] \in {"announcing", "done"} =>
                              content[u][s] = "whole"
                        /\ <<u, s>> \in announced =>
                              /\ content[u][s] = "whole"
                              /\ progress'[u][s] \in {"failed", "done"}
        BY <2>1 DEF SlotsInOrder
    <3>2. CASE u = h
        BY <2>3, <3>1, <3>2
    <3>3. CASE u # h
        BY <2>4, <3>3 DEF IInv, SlotsInOrder
    <3>4. QED
        BY <3>2, <3>3
  <2>7. SlotsFollowUnit'
    <3> SUFFICES ASSUME NEW u \in Units, NEW s \in Slots, progress'[u][s] # "waiting",
                        u \notin finished, u # h
                 PROVE  \E v \in Workers : unit'[v] = u
        BY <2>1, <2>5 DEF SlotsFollowUnit
    <3>1. PICK v \in Workers : unit[v] = u
        BY <2>4 DEF IInv, SlotsFollowUnit
    <3>2. v # w
        BY <2>1, <3>1, NoUnitAssumption
    <3>3. QED
        BY <2>5, <3>1, <3>2
  <2>8. FinishedIsAttemptedEverywhere'
      BY <2>1, <2>2, <2>4
         DEF IInv, TypeOK, FinishedIsAttemptedEverywhere, CompressSucceeds
  <2>9. QED
      BY <2>6, <2>7, <2>8
<1>2. \A w \in Workers : FinishUnit(w) \/ DropUncompressed(w) =>
          /\ WorkReturns(w)
          /\ CompressSucceeds => \A s \in Slots : progress[unit[w]][s] \in {"failed", "done"}
    BY DEF FinishUnit, DropUncompressed
<1>3. ASSUME NEW w \in Workers, WorkReturns(w),
             CompressSucceeds => \A s \in Slots : progress[unit[w]][s] \in {"failed", "done"}
      PROVE  Goal
  <2>1. /\ CompressSucceeds => \A s \in Slots : progress[unit[w]][s] \in {"failed", "done"}
        /\ unit' = [unit EXCEPT ![w] = NoUnit]
        /\ finished' = finished \cup {unit[w]}
        /\ UNCHANGED <<compressor, progress, content, announced>>
      BY <1>3 DEF WorkReturns
  <2>2. \A v \in Workers : v # w => unit'[v] = unit[v]
      BY <2>1 DEF IInv, TypeOK
  <2>3. SlotsInOrder'
      BY <2>1 DEF IInv, SlotsInOrder
  <2>4. SlotsFollowUnit'
      BY <2>1, <2>2 DEF IInv, SlotsFollowUnit
  <2>5. FinishedIsAttemptedEverywhere'
      BY <2>1 DEF IInv, FinishedIsAttemptedEverywhere, CompressSucceeds
  <2>6. QED
      BY <2>3, <2>4, <2>5
<1>4. ASSUME NEW w \in Workers, NEW s \in Slots, SlotStep(w, s) PROVE Goal
  <2> DEFINE u == unit[w]
  <2>1. SlotEffect(w, s)
      BY <1>4, SlotStepEffect DEF IInv
  <2>2. u \in Units /\ u \notin finished
      BY <2>1, NoUnitAssumption DEF SlotEffect, IInv, Apart
  <2>3. SlotsInOrder'
    <3> SUFFICES ASSUME NEW v \in Units, NEW t \in Slots
                 PROVE  /\ progress'[v][t] \in {"announcing", "done"} =>
                              content'[v][t] = "whole"
                        /\ <<v, t>> \in announced' =>
                              /\ content'[v][t] = "whole"
                              /\ progress'[v][t] \in {"failed", "done"}
        BY DEF SlotsInOrder
    <3>1. CASE v = u /\ t = s
        BY <2>1, <3>1 DEF SlotEffect, IInv, SlotsInOrder
    <3>2. CASE v # u \/ t # s
      <4>1. progress'[v][t] = progress[v][t] /\ content'[v][t] = content[v][t]
          BY <2>1, <3>2 DEF SlotEffect
      <4>2. <<v, t>> \in announced' => <<v, t>> \in announced
          BY <2>1, <3>2 DEF SlotEffect
      <4>3. QED
          BY <4>1, <4>2 DEF IInv, SlotsInOrder
    <3>3. QED
        BY <3>1, <3>2
  <2>4. SlotsFollowUnit'
    <3> SUFFICES ASSUME NEW v \in Units, NEW t \in Slots, progress'[v][t] # "waiting", v # u
                 PROVE  v \in finished \/ \E x \in Workers : unit[x] = v
        BY <2>1 DEF SlotEffect, SlotsFollowUnit
    <3>1. QED
        BY <2>1 DEF SlotEffect, IInv, SlotsFollowUnit
  <2>5. FinishedIsAttemptedEverywhere'
    <3> SUFFICES ASSUME CompressSucceeds, NEW v \in finished, NEW t \in Slots
                 PROVE  progress'[v][t] \in {"failed", "done"}
        BY <2>1 DEF SlotEffect, FinishedIsAttemptedEverywhere, CompressSucceeds
    <3>1. v \in Units /\ v # u
        BY <2>2 DEF IInv, TypeOK
    <3>2. QED
        BY <2>1, <3>1 DEF SlotEffect, IInv, FinishedIsAttemptedEverywhere
  <2>6. QED
      BY <2>3, <2>4, <2>5
<1>5. ASSUME UNCHANGED <<compressor, unit, progress, content, announced, finished>>
      PROVE  Goal
    BY <1>5 DEF IInv, SlotsInOrder, SlotsFollowUnit, FinishedIsAttemptedEverywhere,
                CompressSucceeds
<1>6. ASSUME NEW w \in Workers, Start(w) \/ BeginDrain(w) \/ FinishDrain(w)
      PROVE  UNCHANGED <<compressor, unit, progress, content, announced, finished>>
    BY <1>6 DEF Start, BeginDrain, FinishDrain
<1>7. ASSUME CloseIncoming \/ Cancel \/ (\E u \in Units : Feed(u)) \/ UNCHANGED vars
      PROVE  UNCHANGED <<compressor, unit, progress, content, announced, finished>>
    BY <1>7 DEF CloseIncoming, Cancel, Feed, workerVars, vars
<1>8. QED
    BY <1>1, <1>2, <1>3, <1>4, <1>5, <1>6, <1>7 DEF Next, LoopStep

-----------------------------------------------------------------------------
(* The end of a worker. *)

\* Nobody sends on the channel a worker found closed and empty, and a worker
\* that has ended takes nothing.
LEMMA DoneStep ==
    ASSUME IInv, [Next]_vars
    PROVE  DoneIsDrained'
<1> USE DEF IInv, DoneIsDrained
<1>1. ASSUME NEW u \in Units, Feed(u) PROVE DoneIsDrained'
    BY <1>1 DEF Feed, workerVars
<1>2. ASSUME NEW w \in Workers, Take(w) PROVE DoneIsDrained'
    BY <1>2 DEF Take
<1>3. ASSUME NEW w \in Workers, FinishUnit(w) \/ DropUncompressed(w) PROVE DoneIsDrained'
    BY <1>3 DEF FinishUnit, DropUncompressed, WorkReturns, TypeOK
<1>4. ASSUME NEW w \in Workers, Start(w) \/ BeginDrain(w) \/ FinishDrain(w)
      PROVE  DoneIsDrained'
    BY <1>4 DEF Start, BeginDrain, FinishDrain, TypeOK
<1>5. ASSUME NEW w \in Workers, NEW s \in Slots, SlotStep(w, s) PROVE DoneIsDrained'
    BY <1>5, SlotStepEffect DEF SlotEffect
<1>6. CASE CloseIncoming \/ Cancel \/ UNCHANGED vars
    BY <1>6 DEF CloseIncoming, Cancel, workerVars, vars
<1>7. QED
    BY <1>1, <1>2, <1>3, <1>4, <1>5, <1>6 DEF Next, LoopStep

-----------------------------------------------------------------------------
(* Theorems. *)

LEMMA IInvStep == IInv /\ [Next]_vars => IInv'
BY TypeStep, PlacesStep, SlotsStep, DoneStep DEF IInv

\* The inductive invariant holds of every execution.
THEOREM WorkerInvariant == Spec => []IInv
BY InitIInv, IInvStep, PTL DEF Spec

\* TypeOK for every instance: the channel to the workers stays within its
\* capacity.
THEOREM TypeCorrect == Spec => []TypeOK
<1>1. IInv => TypeOK
    BY DEF IInv
<1>2. QED
    BY <1>1, WorkerInvariant, PTL

\* Whatever fails, and however many slots there are, a queue is told only of
\* what its storage holds: Enqueue follows the Upload of the same index.
THEOREM OnlyStoredIsAnnounced == Spec => []AnnouncedIsStored
<1>1. IInv => AnnouncedIsStored
    BY DEF IInv, TypeOK, SlotsInOrder, AnnouncedIsStored
<1>2. QED
    BY <1>1, WorkerInvariant, PTL

\* No unit is lost, copied or worked on by two of the workers that share the
\* channel.
THEOREM UnitsAreInOnePlace == Spec => []EveryUnitInOnePlace
<1>1. ASSUME IInv, NEW u \in Units
      PROVE  Cardinality({i \in DOMAIN incoming : incoming[i] = u})
                 = IF \E i \in DOMAIN incoming : incoming[i] = u THEN 1 ELSE 0
  <2> DEFINE Q == {i \in DOMAIN incoming : incoming[i] = u}
  <2>1. CASE \E i \in DOMAIN incoming : incoming[i] = u
    <3>1. PICK i \in DOMAIN incoming : incoming[i] = u
        BY <2>1
    <3>2. Q = {i}
        BY <1>1, <3>1 DEF IInv, NoCopies
    <3>3. QED
        BY <2>1, <3>2, FS_Singleton
  <2>2. CASE ~ \E i \in DOMAIN incoming : incoming[i] = u
    <3>1. Q = {}
        BY <2>2
    <3>2. QED
        BY <2>2, <3>1, FS_EmptySet
  <2>3. QED
      BY <2>1, <2>2
<1>2. ASSUME IInv, NEW u \in Units
      PROVE  Cardinality(InHand(u)) = IF \E w \in Workers : unit[w] = u THEN 1 ELSE 0
  <2>1. CASE \E w \in Workers : unit[w] = u
    <3>1. PICK w \in Workers : unit[w] = u
        BY <2>1
    <3>2. InHand(u) = {w}
        BY <1>2, <3>1, NoUnitAssumption DEF IInv, NoCopies, InHand
    <3>3. QED
        BY <2>1, <3>2, FS_Singleton
  <2>2. CASE ~ \E w \in Workers : unit[w] = u
    <3>1. InHand(u) = {}
        BY <2>2 DEF InHand
    <3>2. QED
        BY <2>2, <3>1, FS_EmptySet
  <2>3. QED
      BY <2>1, <2>2
<1>3. ASSUME IInv PROVE EveryUnitInOnePlace
  <2> SUFFICES ASSUME NEW u \in Units
               PROVE  LET queued == Cardinality({i \in DOMAIN incoming : incoming[i] = u})
                          held   == Cardinality(InHand(u))
                          ended  == IF u \in finished THEN 1 ELSE 0
                      IN  queued + held + ended = IF u \in fed THEN 1 ELSE 0
      BY DEF EveryUnitInOnePlace
  <2> DEFINE queued == \E i \in DOMAIN incoming : incoming[i] = u
             held   == \E w \in Workers : unit[w] = u
  <2>1. /\ u \in fed <=> queued \/ held \/ u \in finished
        /\ ~(queued /\ held) /\ ~(queued /\ u \in finished) /\ ~(held /\ u \in finished)
      BY <1>3, NoUnitAssumption DEF IInv, Apart, NothingLost
  <2>2. Cardinality({i \in DOMAIN incoming : incoming[i] = u}) = IF queued THEN 1 ELSE 0
      BY <1>1, <1>3
  <2>3. Cardinality(InHand(u)) = IF held THEN 1 ELSE 0
      BY <1>2, <1>3
  <2> HIDE DEF queued, held
  <2>4. QED
      BY <2>1, <2>2, <2>3
<1>4. QED
    BY <1>3, WorkerInvariant, PTL

\* A slot that fails does not keep the others of its unit from their end.
THEOREM EverySlotIsAttempted == Spec => []FinishedIsAttemptedEverywhere
<1>1. IInv => FinishedIsAttemptedEverywhere
    BY DEF IInv
<1>2. QED
    BY <1>1, WorkerInvariant, PTL

\* When the interrupt that waits for the workers returns, all that was sent
\* to them has been worked on.
THEOREM WorkersEndDrained == Spec => []DoneMeansFinished
<1>1. ASSUME IInv PROVE DoneMeansFinished
  <2>1. ASSUME \A w \in Workers : run[w] = "done" PROVE finished = fed
    <3>1. incoming = <<>> /\ \A w \in Workers : unit[w] = NoUnit
        BY <1>1, <2>1, WorkersAssumption DEF IInv, DoneIsDrained
    <3>2. DOMAIN incoming = {}
        BY <3>1, EmptySeq
    <3>3. QED
      <4>1. NoUnit \notin fed /\ finished \subseteq fed
          BY <1>1, NoUnitAssumption DEF IInv, TypeOK, Apart
      <4>2. \A u \in fed : u \in finished
          BY <1>1, <3>1, <3>2, <4>1 DEF IInv, NothingLost
      <4>3. QED
          BY <4>1, <4>2
  <2>2. QED
      BY <1>1, <2>1 DEF IInv, DoneIsDrained, DoneMeansFinished
<1>2. QED
    BY <1>1, WorkerInvariant, PTL

-----------------------------------------------------------------------------
(* The workers as a pool. *)

\* A worker's hand, as the pool has it.
LEMMA HandOf ==
    ASSUME NEW w \in Workers
    PROVE  /\ Hand[w] = IF unit[w] = NoUnit THEN <<>> ELSE <<unit[w]>>
           /\ Hand[w] = <<>> <=> unit[w] = NoUnit
<1>1. Hand[w] = IF unit[w] = NoUnit THEN <<>> ELSE <<unit[w]>>
    BY DEF Hand
<1>2. <<unit[w]>> # <<>>
    OBVIOUS
<1>3. QED
    BY <1>1, <1>2

\* A worker that takes a unit, and one that is done with it.
LEMMA HandMoves ==
    ASSUME TypeOK, NEW w \in Workers
    PROVE  /\ UNCHANGED unit => Hand' = Hand
           /\ \A u \in Units : unit' = [unit EXCEPT ![w] = u] =>
                                   Hand' = [Hand EXCEPT ![w] = <<u>>]
           /\ unit' = [unit EXCEPT ![w] = NoUnit] => Hand' = [Hand EXCEPT ![w] = <<>>]
<1>1. unit \in [Workers -> Units \cup {NoUnit}]
    BY DEF TypeOK
<1>2. UNCHANGED unit => Hand' = Hand
    BY DEF Hand
<1>3. ASSUME NEW u \in Units, unit' = [unit EXCEPT ![w] = u]
      PROVE  Hand' = [Hand EXCEPT ![w] = <<u>>]
    BY <1>1, <1>3, NoUnitAssumption DEF Hand
<1>4. ASSUME unit' = [unit EXCEPT ![w] = NoUnit]
      PROVE  Hand' = [Hand EXCEPT ![w] = <<>>]
    BY <1>1, <1>4 DEF Hand
<1>5. QED
    BY <1>2, <1>3, <1>4

LEMMA InitPool == Init => Pool!Init
BY DEF Init, Pool!Init, Hand

\* The steps of a slot are no steps of the pool; every other step is the
\* pool's step of its name.
LEMMA PoolStep ==
    ASSUME IInv, [Next]_vars
    PROVE  [Pool!Next]_(Pool!vars)
<1>0. TypeOK
    BY DEF IInv
<1>1. ASSUME NEW u \in Units, Feed(u) PROVE Pool!Feed(u)
  <2>1. UNCHANGED unit
      BY <1>1 DEF Feed, workerVars
  <2>2. Hand' = Hand
      BY <2>1 DEF Hand
  <2>3. QED
      BY <1>1, <2>2 DEF Feed, workerVars, Pool!Feed
<1>2. ASSUME CloseIncoming \/ Cancel PROVE Pool!Close \/ Pool!Cancel
  <2>1. Hand' = Hand
      BY <1>2 DEF Hand, CloseIncoming, Cancel, workerVars
  <2>2. QED
      BY <1>2, <2>1 DEF CloseIncoming, Cancel, workerVars, Pool!Close, Pool!Cancel
<1>3. ASSUME NEW w \in Workers, Start(w) PROVE Pool!Start(w)
  <2>1. Hand' = Hand
      BY <1>3 DEF Hand, Start
  <2>2. QED
      BY <1>3, <2>1 DEF Start, Pool!Start
<1>4. ASSUME NEW w \in Workers, Take(w) PROVE Pool!Take(w)
  <2>1. Head(incoming) \in Units
      BY <1>0, <1>4, HeadThenTail DEF Take, TypeOK
  <2>2. Hand' = [Hand EXCEPT ![w] = <<Head(incoming)>>]
      BY <1>0, <1>4, <2>1, HandMoves DEF Take
  <2>3. Hand[w] = <<>>
      BY <1>4, HandOf DEF Take
  <2>4. QED
      BY <1>4, <2>2, <2>3 DEF Take, Pool!Take
<1>5. ASSUME NEW w \in Workers, WorkReturns(w) PROVE Pool!Finish(w)
  <2>1. Hand' = [Hand EXCEPT ![w] = <<>>]
      BY <1>0, <1>5, HandMoves DEF WorkReturns
  <2>2. Hand[w] # <<>>
      BY <1>5, HandOf DEF WorkReturns
  <2>3. QED
      BY <1>5, <2>1, <2>2 DEF WorkReturns, Pool!Finish
<1>6. ASSUME NEW w \in Workers, BeginDrain(w) \/ FinishDrain(w)
      PROVE  Pool!BeginDrain(w) \/ Pool!FinishDrain(w)
  <2>1. Hand' = Hand
      BY <1>6 DEF Hand, BeginDrain, FinishDrain
  <2>2. Hand[w] = <<>>
      BY <1>6, HandOf DEF BeginDrain, FinishDrain
  <2>3. QED
      BY <1>6, <2>1, <2>2 DEF BeginDrain, FinishDrain, Pool!BeginDrain, Pool!FinishDrain
<1>7. ASSUME NEW w \in Workers, NEW s \in Slots, SlotStep(w, s)
      PROVE  UNCHANGED Pool!vars
  <2>1. UNCHANGED <<incoming, incomingState, ctx, run, unit>>
      BY <1>0, <1>7, SlotStepEffect DEF SlotEffect
  <2>2. QED
      BY <2>1 DEF Pool!vars, Hand
<1>8. CASE UNCHANGED vars
    BY <1>8 DEF vars, Pool!vars, Hand
<1>9. \A w \in Workers : FinishUnit(w) \/ DropUncompressed(w) => WorkReturns(w)
    BY DEF FinishUnit, DropUncompressed
<1>10. QED
    BY <1>1, <1>2, <1>3, <1>4, <1>5, <1>6, <1>7, <1>8, <1>9 DEF Next, LoopStep, Pool!Next

\* What the rest of a flow takes its workers for, they are, for any number of
\* storages and queues and however these behave.
THEOREM WorkerRefinement == Spec => ImplementsPool
<1>1. IInv /\ [Next]_vars => [Pool!Next]_(Pool!vars)
    BY PoolStep
<1>2. QED
    BY <1>1, InitPool, WorkerInvariant, PTL DEF Spec, ImplementsPool, Pool!Spec
=============================================================================
