---------------------------- MODULE Accumulator ----------------------------
(***************************************************************************)
(* BySize: the stage that joins small payloads into chunks of at most      *)
(* limitOfBytes, with a separator in between, and offers each chunk to the *)
(* next stage through a circuit breaker, again and again until it is       *)
(* accepted.  While the Run goroutine retries it receives nothing, so its  *)
(* channel fills and Enqueue starts failing.                               *)
(*                                                                         *)
(* The bytes of a payload are its Size and a chunk is the sequence of the  *)
(* payloads merged into it.                                                *)
(***************************************************************************)
EXTENDS Integers, Inbox

CONSTANTS Size,           \* Size[d]: length of payload d in bytes
          LimitOfBytes,
          SeparatorLen

\* What NewAccumulatorBySize panics on is excluded.
ASSUME SizeAssumption == Size \in [Payloads -> Nat]
ASSUME LimitAssumption == LimitOfBytes \in Nat /\ LimitOfBytes > 1
ASSUME SeparatorAssumption == SeparatorLen \in Nat /\ SeparatorLen < LimitOfBytes
ASSUME MinQueueCapacity == Capacity >= 2

VARIABLES run,        \* where the Run goroutine is
          ctx,        \* "live", or "cancelled": ctx.Done() is closed
          current,    \* the payloads of the chunk being built
          item,       \* the payload append works on, if any
          offer,      \* enqueueOnNext: "none", of "current", or of the "item"
          breaker,    \* state of the circuit breaker around next.Enqueue
          emitted,    \* history: the chunks next accepted
          received,   \* history: the payloads append was called with
          kept,       \* history: those of them that have any bytes
          delivered   \* history: the payloads of the emitted chunks, in order

workVars == <<current, item, offer, emitted, received, kept, delivered>>
runVars == <<run, ctx, breaker, current, item, offer, emitted, received, kept, delivered>>
vars == <<caller, chan, chanState, gate, accepted,
          run, ctx, breaker, current, item, offer, emitted, received, kept, delivered>>

RunPoints == {"new", "select", "locking", "closing", "draining", "flushing", "done"}

TypeOK ==
    /\ InboxTypeOK
    /\ run \in RunPoints
    /\ ctx \in {"live", "cancelled"}
    /\ breaker \in {"closed", "open", "half-open"}
    /\ current \in Seq(Payloads)
    /\ item \in Seq(Payloads)
    /\ Len(item) <= 1
    /\ offer \in {"none", "current", "item"}
    /\ emitted \in Seq(Seq(Payloads))
    /\ received \in Seq(Payloads)
    /\ kept \in Seq(Payloads)
    /\ delivered \in Seq(Payloads)

Init ==
    /\ InboxInit
    /\ run = "new"
    /\ ctx = "live"
    /\ breaker = "closed"
    /\ current = <<>>
    /\ item = <<>>
    /\ offer = "none"
    /\ emitted = <<>>
    /\ received = <<>>
    /\ kept = <<>>
    /\ delivered = <<>>

-----------------------------------------------------------------------------
(* Callers of Enqueue. *)

BeginEnqueue(c) == Enter(c) /\ UNCHANGED runVars

RefuseEnqueue(c) == RefuseShuttingDown(c) /\ UNCHANGED runVars

FinishEnqueue(c) ==
    /\ (\E d \in Payloads : Push(c, d)) \/ RejectFull(c)
    /\ UNCHANGED runVars

-----------------------------------------------------------------------------
(* append and flush.  append(data) is one of the four Append actions up to *)
(* its first call of enqueueOnNext, and continues when next has accepted.  *)

\* Bytes of the payloads of s and the separators between them; the length
\* of nothing is -SeparatorLen, as the code computes it.
MergedLen(s) ==
    LET total[n \in 0..Len(s)] ==
            IF n = 0 THEN 0 ELSE total[n - 1] + Size[s[n]] + SeparatorLen
    IN  total[Len(s)] - SeparatorLen

\* Mutation: the separator forgotten.
LenAfterAppendUnseparated(d) == MergedLen(current) + Size[d]

LenAfterAppend(d) == MergedLen(current) + SeparatorLen + Size[d]

TooBig(d) == Size[d] >= LimitOfBytes

Idle == offer = "none"

\* The receive of the loop, or of the drain of shutdown.
ReceiveData ==
    /\ run \in {"select", "draining"}
    /\ Idle
    /\ Pop
    /\ received' = Append(received, Head(chan))
    /\ UNCHANGED <<run, ctx, breaker, emitted, delivered>>

\* An empty payload is dropped.
AppendNothing ==
    /\ ReceiveData
    /\ Size[Head(chan)] = 0
    /\ UNCHANGED <<current, item, offer, kept>>

\* data joins the chunk, which is flushed if it now has exactly the limit.
AppendFitting ==
    /\ ReceiveData
    /\ LET d == Head(chan) IN
        /\ Size[d] > 0 /\ ~TooBig(d)
        /\ LenAfterAppend(d) <= LimitOfBytes
        /\ current' = Append(current, d)
        /\ kept' = Append(kept, d)
        /\ offer' = IF LenAfterAppend(d) = LimitOfBytes THEN "current" ELSE "none"
    /\ UNCHANGED item

\* data does not fit the chunk: the chunk is flushed first.  (Nor does data
\* of the limit's size, which then goes on its own.)
AppendAfterFlush ==
    /\ ReceiveData
    /\ LET d == Head(chan) IN
        /\ Size[d] > 0
        /\ TooBig(d) \/ LenAfterAppend(d) > LimitOfBytes
        /\ current # <<>>
        /\ item' = <<d>>
        /\ kept' = Append(kept, d)
        /\ offer' = "current"
    /\ UNCHANGED current

\* data of the limit's size or more, with nothing to flush before it.
AppendTooBig ==
    /\ ReceiveData
    /\ LET d == Head(chan) IN
        /\ TooBig(d)
        /\ current = <<>>
        /\ item' = <<d>>
        /\ kept' = Append(kept, d)
        /\ offer' = "item"
    /\ UNCHANGED current

\* Mutation: the chunk is not reset when it has been flushed.
FlushAcceptedUnreset ==
    /\ offer = "current"
    /\ breaker # "open"
    /\ breaker' = "closed"
    /\ emitted' = Append(emitted, current)
    /\ delivered' = delivered \o current
    /\ current' = current \o item
    /\ item' = <<>>
    /\ offer' = "none"
    /\ UNCHANGED <<inboxVars, run, ctx, received, kept>>

\* next.Enqueue accepted the flushed chunk; append goes on with its data, if
\* it was in the middle of one.  In the flush that ends shutdown, Run returns.
FlushAccepted ==
    /\ offer = "current"
    /\ breaker # "open"
    /\ breaker' = "closed"
    /\ emitted' = Append(emitted, current)
    /\ delivered' = delivered \o current
    /\ \/ /\ item = <<>>
          /\ current' = <<>>
          /\ offer' = "none"
          /\ UNCHANGED item
       \/ /\ item # <<>>
          /\ TooBig(Head(item))
          /\ current' = <<>>
          /\ offer' = "item"
          /\ UNCHANGED item
       \/ /\ item # <<>>
          /\ ~TooBig(Head(item))
          /\ current' = item
          /\ item' = <<>>
          /\ offer' = "none"
    /\ UNCHANGED <<inboxVars, run, ctx, received, kept>>

\* next.Enqueue accepted data of the limit's size or more.
TooBigAccepted ==
    /\ offer = "item"
    /\ breaker # "open"
    /\ breaker' = "closed"
    /\ emitted' = Append(emitted, item)
    /\ delivered' = delivered \o item
    /\ item' = <<>>
    /\ offer' = "none"
    /\ UNCHANGED <<inboxVars, run, ctx, current, received, kept>>

\* Mutation: no retry, the chunk is given up.
OfferRefusedGivenUp ==
    /\ offer # "none"
    /\ breaker # "open"
    /\ breaker' = "open"
    /\ current' = item
    /\ item' = <<>>
    /\ offer' = "none"
    /\ UNCHANGED <<inboxVars, run, ctx, emitted, received, kept, delivered>>

\* next.Enqueue failed, which trips the breaker; the loop will try again.
\* While the breaker is open Execute fails without calling next.
OfferRefused ==
    /\ offer # "none"
    /\ breaker # "open"
    /\ breaker' = "open"
    /\ UNCHANGED <<inboxVars, run, ctx, workVars>>

\* The breaker's open interval ends.
BreakerTimeout ==
    /\ breaker = "open"
    /\ breaker' = "half-open"
    /\ UNCHANGED <<inboxVars, run, ctx, workVars>>

-----------------------------------------------------------------------------
(* The Run goroutine's start and shutdown. *)

Start ==
    /\ run = "new"
    /\ run' = "select"
    /\ UNCHANGED <<inboxVars, ctx, breaker, workVars>>

BeginShutdown ==
    /\ run = "select"
    /\ Idle
    /\ ctx = "cancelled"
    /\ run' = "locking"
    /\ LockGate
    /\ UNCHANGED <<ctx, breaker, workVars>>

FinishSetShutdown ==
    /\ run = "locking"
    /\ SetShutdown
    /\ run' = "closing"
    /\ UNCHANGED <<ctx, breaker, workVars>>

\* Mutation: shutdown that forgets close(internalDataChan).
CloseInboxForgotten ==
    /\ run = "closing"
    /\ run' = "draining"
    /\ UNCHANGED <<inboxVars, ctx, breaker, workVars>>

CloseInbox ==
    /\ run = "closing"
    /\ CloseChan
    /\ run' = "draining"
    /\ UNCHANGED <<ctx, breaker, workVars>>

\* Mutation: no flush after the drain.
FinishDrainUnflushed ==
    /\ run = "draining"
    /\ Idle
    /\ chanState = "closed"
    /\ chan = <<>>
    /\ run' = "flushing"
    /\ UNCHANGED <<inboxVars, ctx, breaker, workVars>>

\* The drain found the channel empty and closed: the last flush.
FinishDrain ==
    /\ run = "draining"
    /\ Idle
    /\ chanState = "closed"
    /\ chan = <<>>
    /\ run' = "flushing"
    /\ offer' = IF current = <<>> THEN "none" ELSE "current"
    /\ UNCHANGED <<inboxVars, ctx, breaker, current, item, emitted, received, kept, delivered>>

\* The last flush is done; Run returns and closes doneChan.
Return ==
    /\ run = "flushing"
    /\ Idle
    /\ run' = "done"
    /\ UNCHANGED <<inboxVars, ctx, breaker, workVars>>

Cancel ==
    /\ ctx = "live"
    /\ ctx' = "cancelled"
    /\ UNCHANGED <<inboxVars, run, breaker, workVars>>

Receive == AppendNothing \/ AppendFitting \/ AppendAfterFlush \/ AppendTooBig

OfferAccepted == FlushAccepted \/ TooBigAccepted

Next ==
    \/ \E c \in Callers : BeginEnqueue(c) \/ RefuseEnqueue(c) \/ FinishEnqueue(c)
    \/ Receive
    \/ OfferAccepted
    \/ OfferRefused
    \/ BreakerTimeout
    \/ Start \/ BeginShutdown \/ FinishSetShutdown \/ CloseInbox \/ FinishDrain \/ Return
    \/ Cancel

-----------------------------------------------------------------------------
(***************************************************************************)
(* Fairness.  As in Uploader for the callers, the goroutine's own steps    *)
(* and the choice of a select.  BreakerTimeout is a timer.  The next stage *)
(* may refuse any number of offers, but not all of them for ever (SF):     *)
(* it has room again and again, which module Flow shows of the uploader.   *)
(***************************************************************************)
Fairness ==
    /\ \A c \in Callers : WF_vars(FinishEnqueue(c))
    /\ WF_vars(Start \/ Receive \/ FinishSetShutdown \/ CloseInbox \/ FinishDrain \/ Return)
    /\ SF_vars(BeginShutdown)
    /\ WF_vars(BreakerTimeout)
    /\ SF_vars(OfferAccepted)

Spec == Init /\ [][Next]_vars /\ Fairness

-----------------------------------------------------------------------------
(* Properties. *)

\* No goroutine is at the send of Enqueue once internalDataChan is closed.
NoSendOnClosed == chanState = "closed" => Sending = {}

\* Nothing that was acknowledged is lost, duplicated or reordered: what has
\* been received plus what waits in the channel is what was accepted, and
\* every payload with bytes is in an emitted chunk, in the chunk being
\* built, or the one append is working on, even while refused offers are
\* retried.
Conservation ==
    /\ accepted = received \o chan
    /\ kept = delivered \o current \o item

\* A chunk exceeds the limit only if it is one payload that does by itself;
\* and no empty chunk is ever sent.
ChunksWithinLimit ==
    \A i \in DOMAIN emitted :
        /\ MergedLen(emitted[i]) > 0
        /\ Len(emitted[i]) > 1 => MergedLen(emitted[i]) <= LimitOfBytes

\* What the application's own end-to-end test expects of a flow: the chunks
\* that assembleResult computes from the payloads alone.  One turn of its
\* loop; a payload below the limit does not reach it by itself.
AssembleStep(s, d) ==
    LET cut   == IF s.buffer = <<>> THEN s.result ELSE Append(s.result, s.buffer)
        grown == Append(s.buffer, d)
    IN  IF TooBig(d) THEN [result |-> Append(cut, <<d>>), buffer |-> <<>>]
        ELSE IF s.buffer = <<>> \/ MergedLen(s.buffer) + SeparatorLen + Size[d] > LimitOfBytes
             THEN [result |-> cut, buffer |-> <<d>>]
        ELSE IF MergedLen(grown) = LimitOfBytes
             THEN [result |-> Append(s.result, grown), buffer |-> <<>>]
             ELSE [result |-> s.result, buffer |-> grown]

Assembly(values) ==
    LET state[n \in 0..Len(values)] ==
            IF n = 0 THEN [result |-> <<>>, buffer |-> <<>>]
                     ELSE AssembleStep(state[n - 1], values[n])
    IN  state[Len(values)]

AssembleResult(values) ==
    LET final == Assembly(values) IN
    IF final.buffer = <<>> THEN final.result ELSE Append(final.result, final.buffer)

\* The chunks emitted by a run are those of assembleResult: interleaved
\* callers, refused offers and the shutdown change neither their bounds nor
\* their order.
ChunksAreAssembled == run = "done" => emitted = AssembleResult(kept)

\* Once Run has returned, the next stage has accepted every payload that was
\* accepted here and had bytes, and no Enqueue is under way.
DoneMeansFlushed ==
    run = "done" => received = accepted /\ delivered = kept /\ Sending = {}

\* After the first "shutting down" answer no Enqueue succeeds any more.
RefusalIsFinal ==
    [][(\E c \in Callers : caller[c] = "shutting down")
           => accepted' = accepted]_vars

-----------------------------------------------------------------------------
(* How the Run goroutine's place and its offer determine the rest: with    *)
(* TypeOK and Conservation, an inductive invariant (AccumulatorProofs).    *)

GateFollowsRun ==
    /\ gate = "open" <=> run \in {"new", "select"}
    /\ gate = "pending" <=> run = "locking"

CloseFollowsRun ==
    chanState = "closed" <=> run \in {"draining", "flushing", "done"}

OfferFollowsRun ==
    /\ offer = "none" => item = <<>>
    /\ offer = "item" => current = <<>>
    /\ offer # "none" => run \in {"select", "draining", "flushing"}
    /\ run \in {"flushing", "done"} => chan = <<>> /\ item = <<>>
    /\ run \in {"flushing", "done"} /\ offer = "none" => current = <<>>

ShutMeansNoReaders == gate = "shut" => Sending = {}

\* The chunk being built, and what is on offer.
ChunkFits ==
    /\ current # <<>> => MergedLen(current) \in 1..LimitOfBytes
    /\ item # <<>> => Size[item[1]] > 0
    /\ offer = "current" => current # <<>>
    /\ offer = "item" => item # <<>>

\* The payloads of s that append does not drop.
WithBytes(s) ==
    LET some[n \in 0..Len(s)] ==
            IF n = 0 THEN <<>>
            ELSE IF Size[s[n]] > 0 THEN Append(some[n - 1], s[n]) ELSE some[n - 1]
    IN  some[Len(s)]

KeptHaveBytes == kept = WithBytes(received)

RefusalMeansShut == \A c \in Callers : caller[c] = "shutting down" => gate = "shut"

\* The inductive invariant of the accumulator.
IInv ==
    /\ TypeOK
    /\ GateFollowsRun
    /\ CloseFollowsRun
    /\ OfferFollowsRun
    /\ ShutMeansNoReaders
    /\ RefusalMeansShut
    /\ Conservation
    /\ KeptHaveBytes
    /\ ChunkFits
    /\ ChunksWithinLimit

\* How far the chunks are from those of assembleResult: the offer of a full
\* chunk or of a big payload is ahead of what was emitted, a flush before a
\* payload that does not fit has yet to take that payload in, and the last
\* flush is what assembleResult does after its loop.  With IInv, inductive.
Assembling ==
    LET now  == [result |-> emitted, buffer |-> current]
        ahead(chunk) == [result |-> Append(emitted, chunk), buffer |-> <<>>]
    IN  /\ run \notin {"flushing", "done"} =>
            /\ offer = "none" => Assembly(kept) = now
            /\ offer = "current" /\ item = <<>> => Assembly(kept) = ahead(current)
        /\ offer = "current" /\ item # <<>> =>
            /\ Assembly(kept) = AssembleStep(now, item[1])
            /\ TooBig(item[1]) \/ LenAfterAppend(item[1]) > LimitOfBytes
        /\ offer = "item" => Assembly(kept) = ahead(item)
        /\ run \in {"flushing", "done"} =>
            /\ offer = "current" => Assembly(kept) = now
            /\ offer = "none" => emitted = AssembleResult(kept)

-----------------------------------------------------------------------------
(* Liveness. *)

\* A cancelled accumulator finishes, however often next refuses it.
ShutdownCompletes == (ctx = "cancelled") ~> (run = "done")

-----------------------------------------------------------------------------
(* Refinement: the promise of a stage, for the payloads with bytes. *)

Phase == IF run = "done" THEN "finished" ELSE IF gate = "shut" THEN "shut" ELSE "open"

Abstract == INSTANCE DataFlow WITH accepted <- WithBytes(accepted), phase <- Phase

ImplementsDataFlow == Abstract!Spec
=============================================================================
