-------------------------- MODULE IngestionProofs --------------------------
(***************************************************************************)
(* Proofs about Ingestion for any handlers, routes and max_concurrency.    *)
(* The inductive invariant IInv counts the tokens of a route, and says of  *)
(* a half-open breaker that the holder of its one live callback is the     *)
(* trial it admitted.  The two are disturbed by different steps: tokens    *)
(* move when a handler begins or ends a decompression, and the breaker     *)
(* changes when it is asked, told or timed out.                            *)
(***************************************************************************)
EXTENDS Ingestion, FiniteSetTheorems, TLAPS

-----------------------------------------------------------------------------
(* The breaker. *)

\* What holds of a breaker with holders in Handlers, in a form its
\* operations preserve.
SoundBreaker(cb) ==
    /\ cb \in Breakers(Handlers)
    /\ cb.state = "half-open" =>
          \/ cb.trials = 0 /\ cb.live = {}
          \/ cb.trials = 1 /\ \E h \in Handlers : cb.live = {h}

LEMMA GenerationIsSound ==
    ASSUME NEW state \in {"closed", "open", "half-open"}
    PROVE  SoundBreaker(Generation(state))
BY DEF SoundBreaker, Generation, Breakers, MaxRequests

LEMMA NowIsSound ==
    ASSUME NEW cb, SoundBreaker(cb)
    PROVE  SoundBreaker(Now(cb))
BY GenerationIsSound DEF Now

LEMMA AllowIsSound ==
    ASSUME NEW cb, SoundBreaker(cb), NEW h \in Handlers
    PROVE  SoundBreaker(AfterAllow(cb, h))
<1> DEFINE now == Now(cb)
<1>1. SoundBreaker(now)
    BY NowIsSound
<1>2. CASE ~Admits(cb)
    BY <1>1, <1>2 DEF AfterAllow
<1>3. CASE Admits(cb)
  <2>1. now \in Breakers(Handlers)
      BY <1>1 DEF SoundBreaker
  <2>2. now.state = "half-open" => now.trials = 0 /\ now.live = {}
      BY <1>1, <1>3 DEF Admits, MaxRequests, SoundBreaker
  <2>3. AfterAllow(cb, h) =
            [state   |-> now.state,
             trials  |-> IF now.state = "half-open" THEN now.trials + 1 ELSE now.trials,
             expired |-> now.expired,
             live    |-> now.live \cup {h}]
      BY <1>3 DEF AfterAllow
  <2> HIDE DEF now
  <2>4. QED
      BY <2>1, <2>2, <2>3 DEF SoundBreaker, Breakers, MaxRequests
<1>4. QED
    BY <1>2, <1>3

LEMMA DoneIsSound ==
    ASSUME NEW cb, SoundBreaker(cb), NEW h \in Handlers, NEW success \in BOOLEAN
    PROVE  SoundBreaker(AfterDone(cb, h, success))
<1> DEFINE now == Now(cb)
<1>1. SoundBreaker(now)
    BY NowIsSound
<1>2. CASE h \notin now.live
    BY <1>1, <1>2 DEF AfterDone
<1>3. CASE h \in now.live /\ (~success \/ now.state = "half-open")
    BY <1>3, GenerationIsSound DEF AfterDone
<1>4. CASE h \in now.live /\ success /\ now.state # "half-open"
  <2>1. AfterDone(cb, h, success) = [now EXCEPT !.live = @ \ {h}]
      BY <1>4 DEF AfterDone
  <2>2. QED
      BY <1>1, <1>4, <2>1 DEF SoundBreaker, Breakers
<1>5. QED
    BY <1>2, <1>3, <1>4

LEMMA TimeoutIsSound ==
    ASSUME NEW cb, SoundBreaker(cb)
    PROVE  SoundBreaker(AfterInterval(cb))
BY DEF AfterInterval, SoundBreaker, Breakers

-----------------------------------------------------------------------------
(* The initial states. *)

LEMMA InitIInv == Init => IInv
<1> SUFFICES ASSUME Init PROVE IInv
    OBVIOUS
<1> USE DEF Init
<1>1. (CHOOSE r \in Routes : TRUE) \in Routes /\ "empty" \in Kinds
    BY RoutesAssumption DEF Kinds
<1>2. SoundBreaker(breaker)
    BY GenerationIsSound DEF NewBreaker
<1>3. TypeOK
  <2>1. route \in [Handlers -> Routes] /\ body \in [Handlers -> Kinds]
      BY <1>1
  <2>2. /\ tokens \in [Routes -> 0..MaxConcurrency] /\ lost \in [Routes -> 0..MaxConcurrency]
        /\ at \in [Handlers -> Places]
      BY MaxConcurrencyAssumption DEF Places
  <2>3. QED
      BY <1>2, <2>1, <2>2 DEF TypeOK, SoundBreaker
<1>4. ASSUME NEW r \in Routes
      PROVE  IsFiniteSet(Decompressing(r)) /\ Cardinality(Decompressing(r)) = 0
  <2>1. Decompressing(r) = {}
      BY DEF Decompressing
  <2>2. QED
      BY <2>1, FS_EmptySet
<1>5. FewDecompress /\ TokensAreConserved
    BY <1>4, MaxConcurrencyAssumption DEF FewDecompress, TokensAreConserved
<1>6. QED
    BY <1>2, <1>3, <1>5 DEF IInv, TrialIsLive, SoundBreaker

-----------------------------------------------------------------------------
(* Steps of the breaker. *)

LEMMA BreakerStep ==
    ASSUME IInv, [Next]_vars
    PROVE  SoundBreaker(breaker')
<1>1. SoundBreaker(breaker)
    BY DEF IInv, TypeOK, TrialIsLive, SoundBreaker
<1>2. ASSUME NEW h \in Handlers, NEW r \in Routes, NEW k \in Requests[r], Allowed(h, r, k)
      PROVE  SoundBreaker(breaker')
    BY <1>1, <1>2, AllowIsSound DEF Allowed
<1>3. ASSUME NEW h \in Handlers, CircuitOpen(h) PROVE SoundBreaker(breaker')
    BY <1>1, <1>3, AllowIsSound DEF CircuitOpen
<1>4. ASSUME NEW h \in Handlers, NEW success \in BOOLEAN, Enqueue(h, success)
      PROVE  SoundBreaker(breaker')
    BY <1>1, <1>4, DoneIsSound DEF Enqueue
<1>5. CASE BreakerTimeout
    BY <1>1, <1>5, TimeoutIsSound DEF BreakerTimeout
<1>6. ASSUME NEW h \in Handlers, \/ RejectBody(h) \/ ReadBody(h) \/ TakeToken(h)
                                 \/ Decompress(h) \/ DecompressPanics(h)
      PROVE  breaker' = breaker
    BY <1>6 DEF RejectBody, ReadBody, TakeToken, Decompress, DecompressPanics
<1>7. ASSUME NEW h \in Handlers, NEW k \in Requests[route[h]], Resumes(h, k)
      PROVE  breaker' = breaker
    BY <1>7 DEF Resumes
<1>8. CASE UNCHANGED vars
    BY <1>1, <1>8 DEF vars
<1>9. QED
    BY <1>1, <1>2, <1>3, <1>4, <1>5, <1>6, <1>7, <1>8 DEF Next, Serve

-----------------------------------------------------------------------------
(* Steps of the semaphores. *)

\* Where a handler can go.
LEMMA FinishTypes ==
    ASSUME TypeOK, NEW h \in Handlers, Finish(h)
    PROVE  /\ at' \in [Handlers -> Places] /\ at'[h] = "idle"
           /\ route' \in [Handlers -> Routes] /\ body' \in [Handlers -> Kinds]
           /\ \A g \in Handlers : g # h => at'[g] = at[g] /\ route'[g] = route[g]
<1>1. (CHOOSE r \in Routes : TRUE) \in Routes /\ "empty" \in Kinds
    BY RoutesAssumption DEF Kinds
<1>2. QED
    BY <1>1 DEF Finish, Goto, TypeOK, Places

LEMMA GotoTypes ==
    ASSUME TypeOK, NEW h \in Handlers, NEW place \in Places, Goto(h, place)
    PROVE  /\ at' \in [Handlers -> Places] /\ at'[h] = place
           /\ \A g \in Handlers : g # h => at'[g] = at[g]
BY DEF Goto, TypeOK

\* The step of a handler that is on no side of it decompressing.
OtherStep ==
    /\ at' \in [Handlers -> Places]
    /\ route' \in [Handlers -> Routes]
    /\ body' \in [Handlers -> Kinds]
    /\ UNCHANGED <<tokens, lost, buffer>>
    /\ \A g \in Handlers :
          \/ at'[g] = at[g] /\ route'[g] = route[g]
          \/ at[g] # "decompressing" /\ at'[g] # "decompressing"

\* A handler of route r begins to decompress...
BeginStep(h) ==
    /\ at[h] # "decompressing" /\ at'[h] = "decompressing"
    /\ at' \in [Handlers -> Places]
    /\ \A g \in Handlers : g # h => at'[g] = at[g]
    /\ MaxConcurrency > 0 => /\ tokens[route[h]] > 0
                             /\ tokens' = [tokens EXCEPT ![route[h]] = @ - 1]
    /\ MaxConcurrency = 0 => tokens' = tokens
    /\ UNCHANGED <<route, body, lost, buffer>>

\* ...or ends it, and the token is returned or lost.
EndStep(h) ==
    /\ at[h] = "decompressing" /\ at'[h] # "decompressing"
    /\ at' \in [Handlers -> Places]
    /\ route' \in [Handlers -> Routes]
    /\ body' \in [Handlers -> Kinds]
    /\ \A g \in Handlers : g # h => at'[g] = at[g] /\ route'[g] = route[g]
    /\ MaxConcurrency > 0 =>
          \/ tokens' = [tokens EXCEPT ![route[h]] = @ + 1] /\ lost' = lost
          \/ lost' = [lost EXCEPT ![route[h]] = @ + 1] /\ tokens' = tokens
    /\ MaxConcurrency = 0 => tokens' = tokens /\ lost' = lost
    /\ UNCHANGED buffer

\* Every step is one of the three.
LEMMA StepKinds ==
    ASSUME TypeOK, [Next]_vars
    PROVE  OtherStep \/ \E h \in Handlers : BeginStep(h) \/ EndStep(h)
<1>0. MaxConcurrency \in Nat
    BY MaxConcurrencyAssumption
<1>1. ASSUME NEW h \in Handlers, NEW r \in Routes, NEW k \in Requests[r], Allowed(h, r, k)
      PROVE  OtherStep
  <2>1. k \in Kinds /\ "reading" \in Places
      BY RequestsAssumption DEF Places
  <2>2. /\ at' \in [Handlers -> Places] /\ at'[h] = "reading"
        /\ \A g \in Handlers : g # h => at'[g] = at[g]
      BY <1>1, <2>1, GotoTypes DEF Allowed
  <2>3. /\ route' \in [Handlers -> Routes] /\ body' \in [Handlers -> Kinds]
        /\ \A g \in Handlers : g # h => route'[g] = route[g]
        /\ at[h] = "idle" /\ UNCHANGED <<tokens, lost, buffer>>
      BY <1>1, <2>1 DEF Allowed, TypeOK
  <2>4. QED
      BY <2>2, <2>3 DEF OtherStep
<1>2. ASSUME NEW h \in Handlers, CircuitOpen(h) PROVE OtherStep
    BY <1>2 DEF CircuitOpen, OtherStep, TypeOK
<1>3. ASSUME NEW h \in Handlers, RejectBody(h) PROVE OtherStep
    BY <1>3, FinishTypes DEF RejectBody, OtherStep
<1>4. ASSUME NEW h \in Handlers, ReadBody(h) PROVE OtherStep
    BY <1>4, GotoTypes DEF ReadBody, OtherStep, TypeOK, Places
<1>5. ASSUME NEW h \in Handlers, TakeToken(h) PROVE BeginStep(h)
    BY <1>0, <1>5, GotoTypes DEF TakeToken, BeginStep, Places
<1>6. ASSUME NEW h \in Handlers, Decompress(h) PROVE EndStep(h)
  <2>1. CASE body[h] = "compressed" /\ Goto(h, "enqueueing") /\ UNCHANGED <<route, body>>
    <3>1. /\ at' \in [Handlers -> Places] /\ at'[h] = "enqueueing"
          /\ \A g \in Handlers : g # h => at'[g] = at[g]
        BY <2>1, GotoTypes DEF Places
    <3>2. QED
        BY <1>0, <1>6, <2>1, <3>1 DEF Decompress, Decompresses, EndStep, TypeOK
  <2>2. CASE body[h] = "corrupt" /\ Finish(h)
      BY <1>0, <1>6, <2>2, FinishTypes DEF Decompress, Decompresses, EndStep
  <2>3. QED
      BY <1>6, <2>1, <2>2 DEF Decompress
<1>7. ASSUME NEW h \in Handlers, DecompressPanics(h) PROVE EndStep(h)
    BY <1>0, <1>7, FinishTypes DEF DecompressPanics, EndStep
<1>8. ASSUME NEW h \in Handlers, NEW success \in BOOLEAN, Enqueue(h, success)
      PROVE  OtherStep
    BY <1>8, FinishTypes DEF Enqueue, OtherStep
<1>9. CASE BreakerTimeout \/ UNCHANGED vars
    BY <1>9 DEF BreakerTimeout, vars, OtherStep, TypeOK
<1>10. ASSUME NEW h \in Handlers, NEW k \in Requests[route[h]], Resumes(h, k)
       PROVE  OtherStep
  <2>1. route[h] \in Routes
      BY DEF TypeOK
  <2>2. k \in Kinds
      BY <2>1, RequestsAssumption
  <2>3. body' \in [Handlers -> Kinds]
      BY <1>10, <2>2 DEF Resumes, TypeOK
  <2>4. QED
      BY <1>10, <2>3 DEF Resumes, OtherStep, TypeOK
<1>11. QED
    BY <1>1, <1>2, <1>3, <1>4, <1>5, <1>6, <1>7, <1>8, <1>9, <1>10 DEF Next, Serve

\* The token a handler takes is one that its route had, and the one it
\* returns, or loses, is the one it took.
LEMMA TokensStep ==
    ASSUME IInv, [Next]_vars
    PROVE  /\ tokens' \in [Routes -> 0..MaxConcurrency]
           /\ lost' \in [Routes -> 0..MaxConcurrency]
           /\ FewDecompress' /\ TokensAreConserved'
<1> DEFINE Goal == /\ tokens' \in [Routes -> 0..MaxConcurrency]
                   /\ lost' \in [Routes -> 0..MaxConcurrency]
                   /\ FewDecompress' /\ TokensAreConserved'
<1>0. /\ MaxConcurrency \in Nat
      /\ tokens \in [Routes -> 0..MaxConcurrency] /\ lost \in [Routes -> 0..MaxConcurrency]
      /\ route \in [Handlers -> Routes]
    BY MaxConcurrencyAssumption DEF IInv, TypeOK
<1>1. CASE OtherStep
  <2>1. \A r \in Routes : Decompressing(r)' = Decompressing(r)
      BY <1>1 DEF OtherStep, Decompressing
  <2>2. QED
      BY <1>0, <1>1, <2>1 DEF OtherStep, IInv, FewDecompress, TokensAreConserved
<1>2. ASSUME MaxConcurrency = 0, NEW h \in Handlers, BeginStep(h) \/ EndStep(h) PROVE Goal
    BY <1>0, <1>2 DEF BeginStep, EndStep, FewDecompress, TokensAreConserved
<1>3. ASSUME MaxConcurrency > 0, NEW h \in Handlers, BeginStep(h) PROVE Goal
  <2>1. PICK q \in Routes : q = route[h]
      BY <1>0
  <2>2. \A r \in Routes : /\ IsFiniteSet(Decompressing(r))
                          /\ Cardinality(Decompressing(r)) \in Nat
                          /\ tokens[r] + Cardinality(Decompressing(r)) + lost[r] = MaxConcurrency
      BY <1>3, FS_CardinalityType DEF IInv, FewDecompress, TokensAreConserved
  <2>3. /\ Decompressing(q)' = Decompressing(q) \cup {h} /\ h \notin Decompressing(q)
        /\ \A r \in Routes : r # q => Decompressing(r)' = Decompressing(r)
      BY <1>3, <2>1 DEF BeginStep, Decompressing
  <2>4. /\ IsFiniteSet(Decompressing(q)')
        /\ Cardinality(Decompressing(q)') = Cardinality(Decompressing(q)) + 1
      BY <2>1, <2>2, <2>3, FS_AddElement
  <2>5. /\ tokens[q] > 0 /\ tokens'[q] = tokens[q] - 1 /\ lost' = lost
        /\ \A r \in Routes : r # q => tokens'[r] = tokens[r]
        /\ tokens' \in [Routes -> 0..MaxConcurrency]
      BY <1>0, <1>3, <2>1 DEF BeginStep
  <2>6. FewDecompress'
      BY <2>2, <2>3, <2>4 DEF FewDecompress
  <2>7. TokensAreConserved'
    <3> SUFFICES ASSUME NEW r \in Routes
                 PROVE  tokens'[r] + Cardinality(Decompressing(r)') + lost'[r] = MaxConcurrency
        BY DEF TokensAreConserved
    <3>1. CASE r = q
        BY <1>0, <2>1, <2>2, <2>4, <2>5, <3>1
    <3>2. CASE r # q
        BY <2>2, <2>3, <2>5, <3>2
    <3>3. QED
        BY <3>1, <3>2
  <2>8. QED
      BY <1>0, <2>5, <2>6, <2>7
<1>4. ASSUME MaxConcurrency > 0, NEW h \in Handlers, EndStep(h) PROVE Goal
  <2>1. PICK q \in Routes : q = route[h]
      BY <1>0
  <2>2. \A r \in Routes : /\ IsFiniteSet(Decompressing(r))
                          /\ Cardinality(Decompressing(r)) \in Nat
                          /\ tokens[r] + Cardinality(Decompressing(r)) + lost[r] = MaxConcurrency
      BY <1>4, FS_CardinalityType DEF IInv, FewDecompress, TokensAreConserved
  <2>3. /\ Decompressing(q)' = Decompressing(q) \ {h} /\ h \in Decompressing(q)
        /\ \A r \in Routes : r # q => Decompressing(r)' = Decompressing(r)
      BY <1>4, <2>1 DEF EndStep, Decompressing
  <2>4. /\ IsFiniteSet(Decompressing(q)') /\ Cardinality(Decompressing(q)') \in Nat
        /\ Cardinality(Decompressing(q)') = Cardinality(Decompressing(q)) - 1
      BY <2>1, <2>2, <2>3, FS_RemoveElement, FS_CardinalityType
  <2>5. tokens[q] + 1 + lost[q] <= MaxConcurrency
      BY <1>0, <2>1, <2>2, <2>4
  <2>6. /\ tokens' \in [Routes -> 0..MaxConcurrency] /\ lost' \in [Routes -> 0..MaxConcurrency]
        /\ tokens'[q] + lost'[q] = tokens[q] + lost[q] + 1
        /\ \A r \in Routes : r # q => tokens'[r] = tokens[r] /\ lost'[r] = lost[r]
    <3>1. CASE tokens' = [tokens EXCEPT ![q] = @ + 1] /\ lost' = lost
        BY <1>0, <2>1, <2>5, <3>1
    <3>2. CASE lost' = [lost EXCEPT ![q] = @ + 1] /\ tokens' = tokens
        BY <1>0, <2>1, <2>5, <3>2
    <3>3. QED
        BY <1>4, <2>1, <3>1, <3>2 DEF EndStep
  <2>7. FewDecompress'
      BY <2>2, <2>3, <2>4 DEF FewDecompress
  <2>8. TokensAreConserved'
    <3> SUFFICES ASSUME NEW r \in Routes
                 PROVE  tokens'[r] + Cardinality(Decompressing(r)') + lost'[r] = MaxConcurrency
        BY DEF TokensAreConserved
    <3>1. CASE r = q
        BY <1>0, <2>1, <2>2, <2>4, <2>6, <3>1
    <3>2. CASE r # q
        BY <2>2, <2>3, <2>6, <3>2
    <3>3. QED
        BY <3>1, <3>2
  <2>9. QED
      BY <2>6, <2>7, <2>8
<1>5. QED
    BY <1>0, <1>1, <1>2, <1>3, <1>4, StepKinds DEF IInv

-----------------------------------------------------------------------------
(* Theorems. *)

LEMMA IInvStep == IInv /\ [Next]_vars => IInv'
<1> SUFFICES ASSUME IInv, [Next]_vars PROVE IInv'
    OBVIOUS
<1>1. SoundBreaker(breaker')
    BY BreakerStep
<1>2. OtherStep \/ \E h \in Handlers : BeginStep(h) \/ EndStep(h)
    BY StepKinds DEF IInv
<1>3. /\ at' \in [Handlers -> Places] /\ route' \in [Handlers -> Routes]
      /\ body' \in [Handlers -> Kinds] /\ buffer' \in Buffers
    BY <1>2 DEF IInv, TypeOK, OtherStep, BeginStep, EndStep
<1>4. QED
    BY <1>1, <1>3, TokensStep DEF IInv, TypeOK, TrialIsLive, SoundBreaker

\* The inductive invariant holds of every execution; the variables keep
\* their types, so no semaphore ever holds more tokens than it was made with.
THEOREM IngestionInvariant == Spec => []IInv
BY InitIInv, IInvStep, PTL DEF Spec

\* For any number of handlers and any max_concurrency: a token is in the
\* semaphore, with the one handler that decompresses for it, or lost by a
\* panic.
THEOREM TokensConserved == Spec => []TokensAreConserved
<1>1. IInv => TokensAreConserved
    BY DEF IInv
<1>2. QED
    BY <1>1, IngestionInvariant, PTL

\* However many handlers ask and answer, a half-open breaker lets one pass.
THEOREM AtMostOneTrial == Spec => []OneTrial
<1>1. ASSUME IInv, breaker.state = "half-open"
      PROVE  Cardinality({h \in Handlers : h \in breaker.live /\ at[h] # "idle"}) <= 1
  <2> DEFINE T == {h \in Handlers : h \in breaker.live /\ at[h] # "idle"}
  <2>1. CASE T = {}
      BY <2>1, FS_EmptySet
  <2>2. ASSUME NEW h \in Handlers, breaker.live = {h}, T # {} PROVE T = {h}
      BY <2>2
  <2>3. ASSUME NEW h \in Handlers, T = {h} PROVE Cardinality(T) <= 1
      BY <2>3, FS_Singleton
  <2>4. QED
      BY <1>1, <2>1, <2>2, <2>3 DEF IInv, TrialIsLive
<1>2. IInv => OneTrial
    BY <1>1 DEF OneTrial
<1>3. QED
    BY <1>2, IngestionInvariant, PTL
=============================================================================
