-------------------------- MODULE TimedAccumulator --------------------------
(***************************************************************************)
(* ByTimeAndSize: the accumulator that also flushes by time.  It is BySize *)
(* (module Accumulator) with a ticker: every second the Run goroutine      *)
(* compares the time of the tick with oldestDataTime, and flushes if they  *)
(* are forceFlushAfter or more apart.                                      *)
(*                                                                         *)
(* Time is counted in ticks and kept relative: what matters of the clock   *)
(* is how long ago oldestDataTime was set, how long ago the first payload  *)
(* of the chunk was appended, and the same two at the moment of the tick   *)
(* waiting in the ticker's channel, which has room for one.                *)
(***************************************************************************)
EXTENDS Accumulator

CONSTANT ForceFlushAfter   \* force_flush_after_seconds, in ticks

ASSUME ForceFlushAfterAssumption == ForceFlushAfter \in Nat \ {0}

VARIABLES sinceOldest,  \* since oldestDataTime, while current is not empty
          headAge,      \* since the first payload of current was appended
          tick          \* the tick in the channel: its two ages, or NoTick

timeVars == <<sinceOldest, headAge, tick>>
timedVars == <<vars, sinceOldest, headAge, tick>>

NoTick == [sinceOldest |-> -1, headAge |-> -1]

\* Ages are not told apart beyond this bound.
MaxAge == ForceFlushAfter + 1

Older(age) == IF age < MaxAge THEN age + 1 ELSE MaxAge

Ticks == [sinceOldest : -1..MaxAge, headAge : -1..MaxAge]

TimedTypeOK ==
    /\ TypeOK
    /\ sinceOldest \in 0..MaxAge
    /\ headAge \in 0..MaxAge
    /\ tick \in Ticks

TimedInit ==
    /\ Init
    /\ sinceOldest = 0
    /\ headAge = 0
    /\ tick = NoTick

-----------------------------------------------------------------------------
(* What appending and flushing do to the times.  A tick that was waiting   *)
(* is older than what is appended after it.                                *)

\* Mutation: the waiting tick keeps the ages of the flushed chunk.
ForgetTimesKept ==
    /\ sinceOldest' = 0
    /\ headAge' = 0
    /\ UNCHANGED tick

\* flush sets oldestDataTime to zero.
ForgetTimes ==
    /\ sinceOldest' = 0
    /\ headAge' = 0
    /\ tick' = IF tick = NoTick THEN NoTick ELSE [sinceOldest |-> 0, headAge |-> 0]

\* append sets oldestDataTime to the current time, whatever is in current.
RestartOldest ==
    /\ sinceOldest' = 0
    /\ headAge' = IF current = <<>> THEN 0 ELSE headAge
    /\ tick' = IF tick = NoTick THEN NoTick
               ELSE [sinceOldest |-> 0,
                     headAge |-> IF current = <<>> THEN 0 ELSE tick.headAge]

TimedReceive ==
    \/ AppendFitting /\ RestartOldest
    \/ (AppendNothing \/ AppendAfterFlush \/ AppendTooBig) /\ UNCHANGED timeVars

\* A flush; if append goes on with its payload, that one is now the oldest.
TimedOfferAccepted ==
    \/ FlushAccepted /\ ForgetTimes
    \/ TooBigAccepted /\ UNCHANGED timeVars

-----------------------------------------------------------------------------

\* A second passes.  The ticker drops its tick if one is still waiting.
Tick ==
    /\ run # "done"
    /\ sinceOldest' = IF current = <<>> THEN 0 ELSE Older(sinceOldest)
    /\ headAge' = IF current = <<>> THEN 0 ELSE Older(headAge)
    /\ tick' = IF tick = NoTick
               THEN [sinceOldest |-> sinceOldest', headAge |-> headAge']
               ELSE tick
    /\ UNCHANGED vars

\* Mutation: no tick flushes.
ServeTickNever ==
    /\ run = "select"
    /\ Idle
    /\ tick # NoTick
    /\ tick' = NoTick
    /\ UNCHANGED <<vars, sinceOldest, headAge>>

\* The select received a tick.
ServeTick ==
    /\ run = "select"
    /\ Idle
    /\ tick # NoTick
    /\ tick' = NoTick
    /\ offer' = IF current # <<>> /\ tick.sinceOldest >= ForceFlushAfter
                THEN "current" ELSE "none"
    /\ UNCHANGED <<inboxVars, run, ctx, breaker, current, item, emitted, received,
                   kept, delivered, sinceOldest, headAge>>

TimedCallers ==
    /\ \E c \in Callers : BeginEnqueue(c) \/ RefuseEnqueue(c) \/ FinishEnqueue(c)
    /\ UNCHANGED timeVars

TimedShutdown ==
    /\ Start \/ BeginShutdown \/ FinishSetShutdown \/ CloseInbox \/ FinishDrain \/ Return
    /\ UNCHANGED timeVars

TimedNext ==
    \/ TimedCallers
    \/ TimedReceive
    \/ TimedOfferAccepted
    \/ (OfferRefused \/ BreakerTimeout \/ Cancel) /\ UNCHANGED timeVars
    \/ TimedShutdown
    \/ Tick
    \/ ServeTick

(***************************************************************************)
(* Fairness: as Accumulator's; time passes, and a select that keeps having *)
(* a tick to receive receives one (SF).                                    *)
(***************************************************************************)
TimedFairness ==
    /\ WF_timedVars(TimedCallers /\ \E c \in Callers : FinishEnqueue(c))
    /\ WF_timedVars(TimedReceive)
    /\ WF_timedVars(TimedShutdown)
    /\ SF_timedVars(BeginShutdown /\ UNCHANGED timeVars)
    /\ WF_timedVars(BreakerTimeout /\ UNCHANGED timeVars)
    /\ SF_timedVars(TimedOfferAccepted)
    /\ WF_timedVars(Tick)
    /\ SF_timedVars(ServeTick)

TimedSpec == TimedInit /\ [][TimedNext]_timedVars /\ TimedFairness

-----------------------------------------------------------------------------
(* Properties. *)

\* Time does nothing for a shutdown but delay it: with a tick in the way, a
\* cancelled accumulator still flushes all it accepted, and ends.
TimedShutdownCompletes ==
    (ctx = "cancelled") ~> (run = "done" /\ delivered = WithBytes(accepted))

\* Small payloads do not wait in memory for more to come or for a shutdown:
\* whatever has been accepted and has bytes is received and delivered.
NothingLingers ==
    \A n \in 1..MaxAccepted : (Len(WithBytes(accepted)) >= n) ~> (Len(delivered) >= n)

TimeFlush == tick # NoTick /\ tick' = NoTick /\ offer' = "current"

\* A flush by time is not early: a tick that waited while the goroutine was
\* busy with another chunk does not flush payloads appended after it.
NoEarlyFlush == [][TimeFlush => sinceOldest >= ForceFlushAfter]_timedVars

-----------------------------------------------------------------------------
\* Why no flush is early: a tick that waits is no younger than the times now.
TickIsOld == tick # NoTick /\ current # <<>> => tick.sinceOldest <= sinceOldest

\* The inductive invariant of the timed accumulator.
TimedIInv ==
    /\ IInv
    /\ TimedTypeOK
    /\ TickIsOld

-----------------------------------------------------------------------------
\* config_example.yaml: it flushes the data being accumulated if the oldest
\* item is older than force_flush_after_seconds.  A tick that was due when
\* the oldest payload of the chunk was older than that flushes the chunk.
OldestIsFlushed ==
    [][tick.headAge > ForceFlushAfter /\ tick' = NoTick /\ current # <<>>
           => offer' = "current"]_timedVars
=============================================================================
