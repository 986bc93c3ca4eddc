----------------------------- MODULE Ingestion -----------------------------
(***************************************************************************)
(* The HTTP handlers of one flow.  RegisterIngestingRoutes gives a flow    *)
(* two routes, each with a semaphore of its own for decompression; the     *)
(* flow's circuit breaker is shared by both.  A handler asks the breaker,  *)
(* reads the body, decompresses it if need be, enqueues the data on the    *)
(* flow's entrypoint, and only then tells the breaker how it went.         *)
(*                                                                         *)
(* A request is represented by what its body turns out to be; the          *)
(* entrypoint (an Accumulator or an Uploader) answers either way.          *)
(***************************************************************************)
EXTENDS Gobreaker, FiniteSets

CONSTANTS Handlers,    \* the goroutines serving requests of this flow
          Routes,      \* /flow/async_ingestion and /v1/flow/async_ingestion
          Requests,    \* Requests[r]: the kinds of bodies that arrive on route r
          MaxConcurrency,  \* decompress.max_concurrency of the flow, 0: no limit
          Buffers      \* what decompress.initial_buffer_size may be

\* A body is stalled as long as its client has not sent all of it.
Kinds == {"plain", "compressed", "corrupt", "empty", "too large", "unreadable", "stalled"}

ASSUME RoutesAssumption == Routes # {}
ASSUME RequestsAssumption == Requests \in [Routes -> SUBSET Kinds]
ASSUME MaxConcurrencyAssumption == MaxConcurrency \in Nat
ASSUME BuffersAssumption == Buffers \subseteq {"sound", "unusable"}

VARIABLES at,        \* at[h]: where handler h is in ServeHTTP
          route,     \* route[h]: the route of its request
          body,      \* body[h]: the kind of its request
          tokens,    \* tokens[r]: tokens in the semaphore of route r
          lost,      \* history: lost[r]: tokens of handlers that panicked
          breaker,   \* the flow's circuit breaker
          buffer     \* the flow's decompress.initial_buffer_size

vars == <<at, route, body, tokens, lost, breaker, buffer>>

Places == {"idle", "reading", "token", "decompressing", "enqueueing"}

TypeOK ==
    /\ at \in [Handlers -> Places]
    /\ route \in [Handlers -> Routes]
    /\ body \in [Handlers -> Kinds]
    /\ tokens \in [Routes -> 0..MaxConcurrency]
    /\ lost \in [Routes -> 0..MaxConcurrency]
    /\ breaker \in Breakers(Handlers)
    /\ buffer \in Buffers

\* initial_buffer_size is not bounded by validation: one that overflows to a
\* negative number (module Sizes), or that is larger than any allocation,
\* makes the allocation of every decompression panic.
Init ==
    /\ at = [h \in Handlers |-> "idle"]
    /\ route \in [Handlers -> {CHOOSE r \in Routes : TRUE}]
    /\ body = [h \in Handlers |-> "empty"]
    /\ tokens = [r \in Routes |-> MaxConcurrency]
    /\ lost = [r \in Routes |-> 0]
    /\ breaker = NewBreaker
    /\ buffer \in Buffers

Goto(h, place) == at' = [at EXCEPT ![h] = place]

\* What is left in route and body of a finished request is of no consequence.
Finish(h) ==
    /\ Goto(h, "idle")
    /\ route' = [route EXCEPT ![h] = CHOOSE r \in Routes : TRUE]
    /\ body' = [body EXCEPT ![h] = "empty"]

-----------------------------------------------------------------------------

\* A request arrives and the breaker lets it pass...
Allowed(h, r, k) ==
    /\ at[h] = "idle"
    /\ Admits(breaker)
    /\ breaker' = AfterAllow(breaker, h)
    /\ Goto(h, "reading")
    /\ route' = [route EXCEPT ![h] = r]
    /\ body' = [body EXCEPT ![h] = k]
    /\ UNCHANGED <<tokens, lost, buffer>>

\* ...or it is answered 500 at once.
CircuitOpen(h) ==
    /\ at[h] = "idle"
    /\ ~Admits(breaker)
    /\ breaker' = AfterAllow(breaker, h)
    /\ UNCHANGED <<at, route, body, tokens, lost, buffer>>

\* buf.ReadFrom goes on when the client does: the rest of the body comes, or
\* the connection breaks.  The server sets no timeout for either.
Resumes(h, k) ==
    /\ at[h] = "reading"
    /\ body[h] = "stalled"
    /\ body' = [body EXCEPT ![h] = k]
    /\ UNCHANGED <<at, route, tokens, lost, breaker, buffer>>

\* The body is larger than the limit, cannot be read, or is empty: 413 or
\* 400.  The callback of the breaker is not called.
RejectBody(h) ==
    /\ at[h] = "reading"
    /\ body[h] \in {"too large", "unreadable", "empty"}
    /\ Finish(h)
    /\ UNCHANGED <<tokens, lost, breaker, buffer>>

ReadBody(h) ==
    /\ at[h] = "reading"
    /\ body[h] \in {"plain", "compressed", "corrupt"}
    /\ Goto(h, IF body[h] = "plain" THEN "enqueueing" ELSE "token")
    /\ UNCHANGED <<route, body, tokens, lost, breaker, buffer>>

\* A receive from the semaphore, which is closed when there is no limit.
TakeToken(h) ==
    /\ at[h] = "token"
    /\ MaxConcurrency = 0 \/ tokens[route[h]] > 0
    /\ tokens' = IF MaxConcurrency = 0 THEN tokens
                 ELSE [tokens EXCEPT ![route[h]] = @ - 1]
    /\ Goto(h, "decompressing")
    /\ UNCHANGED <<route, body, lost, breaker, buffer>>

\* decompress returns unless its buffer cannot be allocated; what is not
\* even the start of compressed data has been found out before that.
Decompresses(h) ==
    /\ at[h] = "decompressing"
    /\ buffer = "sound" \/ body[h] = "corrupt"

\* Mutation: the token is returned only by a decompression that succeeds.
DecompressKeeping(h) ==
    /\ Decompresses(h)
    /\ IF body[h] = "corrupt"
         THEN Finish(h) /\ UNCHANGED tokens
         ELSE /\ Goto(h, "enqueueing")
              /\ tokens' = IF MaxConcurrency = 0 THEN tokens
                           ELSE [tokens EXCEPT ![route[h]] = @ + 1]
              /\ UNCHANGED <<route, body>>
    /\ UNCHANGED <<lost, breaker, buffer>>

\* decompress returns and so does the token.  If the data was not what the
\* header says, 400, and again the callback of the breaker is not called.
Decompress(h) ==
    /\ Decompresses(h)
    /\ tokens' = IF MaxConcurrency = 0 THEN tokens
                 ELSE [tokens EXCEPT ![route[h]] = @ + 1]
    /\ \/ body[h] = "compressed" /\ Goto(h, "enqueueing") /\ UNCHANGED <<route, body>>
       \/ body[h] = "corrupt" /\ Finish(h)
    /\ UNCHANGED <<lost, breaker, buffer>>

\* localReadAll panics; the recovering middleware answers 500.  Nothing on
\* the way returns the token or calls the callback.
DecompressPanics(h) ==
    /\ at[h] = "decompressing"
    /\ buffer = "unusable"
    /\ lost' = IF MaxConcurrency = 0 THEN lost ELSE [lost EXCEPT ![route[h]] = @ + 1]
    /\ Finish(h)
    /\ UNCHANGED <<tokens, breaker, buffer>>

\* Mutation: only failures are reported.
EnqueueFailuresOnly(h, success) ==
    /\ at[h] = "enqueueing"
    /\ breaker' = IF success THEN breaker ELSE AfterDone(breaker, h, success)
    /\ Finish(h)
    /\ UNCHANGED <<tokens, lost, buffer>>

\* Entrypoint.Enqueue returns; the breaker is told; 200 or 500.
Enqueue(h, success) ==
    /\ at[h] = "enqueueing"
    /\ breaker' = AfterDone(breaker, h, success)
    /\ Finish(h)
    /\ UNCHANGED <<tokens, lost, buffer>>

\* The breaker's open interval ends.
BreakerTimeout ==
    /\ Expires(breaker)
    /\ breaker' = AfterInterval(breaker)
    /\ UNCHANGED <<at, route, body, tokens, lost, buffer>>

Serve(h) ==
    \/ RejectBody(h) \/ ReadBody(h) \/ Decompress(h) \/ DecompressPanics(h)
    \/ \E success \in BOOLEAN : Enqueue(h, success)

Next ==
    \/ \E h \in Handlers, r \in Routes : \E k \in Requests[r] : Allowed(h, r, k)
    \/ \E h \in Handlers : \E k \in Requests[route[h]] : Resumes(h, k)
    \/ \E h \in Handlers : CircuitOpen(h) \/ Serve(h) \/ TakeToken(h)
    \/ BreakerTimeout

(***************************************************************************)
(* Fairness.  A handler that can proceed does.  Receivers of a channel are *)
(* served in the order they came, so one that waits for a token gets it if *)
(* tokens keep coming back (SF).  The open interval ends.  Requests need   *)
(* not arrive, a client that stalls need not go on, and no outcome of      *)
(* Enqueue is promised.                                                    *)
(***************************************************************************)
Fairness ==
    /\ \A h \in Handlers : WF_vars(Serve(h)) /\ SF_vars(TakeToken(h))
    /\ WF_vars(BreakerTimeout)

Spec == Init /\ [][Next]_vars /\ Fairness

-----------------------------------------------------------------------------
(* Properties. *)

Decompressing(r) == {h \in Handlers : at[h] = "decompressing" /\ route[h] = r}

\* A route's tokens are neither leaked nor minted, whichever way its handlers
\* return from ServeHTTP: only a panic takes one away.
TokensAreConserved ==
    MaxConcurrency > 0 =>
        \A r \in Routes :
            tokens[r] + Cardinality(Decompressing(r)) + lost[r] = MaxConcurrency

\* A breaker that is half-open protects the entrypoint: of the requests it
\* let pass since it was open at most one is under way, however late the
\* callbacks of requests from before come.
OneTrial ==
    breaker.state = "half-open" =>
        Cardinality({h \in Handlers : h \in breaker.live /\ at[h] # "idle"}) <= 1

(***************************************************************************)
(* The inductive invariant behind them.  A set of decompressing handlers   *)
(* is finite because each holds a token.                                   *)
(***************************************************************************)

FewDecompress ==
    MaxConcurrency > 0 => \A r \in Routes : IsFiniteSet(Decompressing(r))

\* Half-open, the breaker knows of the trials it admitted and of nobody else.
TrialIsLive ==
    breaker.state = "half-open" =>
        \/ breaker.trials = 0 /\ breaker.live = {}
        \/ breaker.trials = 1 /\ \E h \in Handlers : breaker.live = {h}

IInv ==
    /\ TypeOK
    /\ FewDecompress
    /\ TokensAreConserved
    /\ TrialIsLive

\* A request that was let pass is answered, unless its client stalls, or each
\* token of its route went with a panic.  In particular a stalled body keeps
\* no other handler waiting, and a token comes back whatever its holder finds.
RequestsAreAnswered ==
    \A h \in Handlers :
        (at[h] # "idle") ~>
            \/ at[h] = "idle"
            \/ at[h] = "reading" /\ body[h] = "stalled"
            \/ at[h] = "token" /\ MaxConcurrency > 0 /\ lost[route[h]] = MaxConcurrency

\* config_example.yaml says of the open interval that it is how long it takes
\* until calls are allowed again: a breaker that refuses requests will at
\* some point admit one.
BreakerReadmits == (~Admits(breaker)) ~> Admits(breaker)

\* What does hold: if the trial is of a request that can be read and
\* decompressed, the breaker comes to a verdict on it and admits another.
TrialsAreGood ==
    \A h \in breaker.live :
        /\ at[h] # "idle"
        /\ body[h] = "plain" \/ (body[h] = "compressed" /\ buffer = "sound")

RecoversFromGoodTrials == (~Admits(breaker) /\ TrialsAreGood) ~> Admits(breaker)
=============================================================================
