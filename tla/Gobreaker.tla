----------------------------- MODULE Gobreaker -----------------------------
(***************************************************************************)
(* The two-step circuit breaker of sony/gobreaker as createCircuitBreaker  *)
(* configures it: one failure opens it (ReadyToTrip is always true), one   *)
(* trial request is let through when it is half-open (MaxRequests 1), and  *)
(* counts are never cleared while closed (Interval 0).  An external        *)
(* library, modelled as far as the flows rely on it.                       *)
(*                                                                         *)
(* A breaker is a record: its state; the trial requests admitted since it  *)
(* became half-open; whether the open interval has passed; and the holders *)
(* of a done callback of the current generation.  A callback of an older   *)
(* generation does nothing.                                                *)
(***************************************************************************)
EXTENDS Naturals

\* Mutation: two trial requests.
MaxRequestsTwo == 2

MaxRequests == 1

Breakers(Holders) ==
    [state : {"closed", "open", "half-open"}, trials : 0..MaxRequests,
     expired : BOOLEAN, live : SUBSET Holders]

\* toNewGeneration: counts are cleared and earlier callbacks are void.
Generation(state) ==
    [state |-> state, trials |-> 0, expired |-> FALSE, live |-> {}]

NewBreaker == Generation("closed")

\* currentState: an open breaker becomes half-open when it is next looked
\* at after its interval, not when the interval ends.
Now(cb) == IF cb.state = "open" /\ cb.expired THEN Generation("half-open") ELSE cb

\* Allow returns a callback, or an error.
Admits(cb) ==
    \/ Now(cb).state = "closed"
    \/ Now(cb).state = "half-open" /\ Now(cb).trials < MaxRequests

AfterAllow(cb, h) ==
    LET now == Now(cb) IN
    IF ~Admits(cb) THEN now
    ELSE [state   |-> now.state,
          trials  |-> IF now.state = "half-open" THEN now.trials + 1 ELSE now.trials,
          expired |-> now.expired,
          live    |-> now.live \cup {h}]

\* done(success) of the callback h holds.
AfterDone(cb, h, success) ==
    LET now == Now(cb) IN
    IF h \notin now.live THEN now
    ELSE IF ~success THEN Generation("open")
    ELSE IF now.state = "half-open" THEN Generation("closed")
    ELSE [now EXCEPT !.live = @ \ {h}]

\* The open interval ends.
Expires(cb) == cb.state = "open" /\ ~cb.expired

AfterInterval(cb) == [cb EXCEPT !.expired = TRUE]
=============================================================================
