------------------------------ MODULE DataFlow ------------------------------
(***************************************************************************)
(* What a stage of a flow promises to whoever calls its Enqueue, whatever  *)
(* it does in between: what it accepted it delivers downstream, once and   *)
(* in the order accepted, possibly several payloads at a time; after it    *)
(* stopped taking work in it accepts nothing; and it finishes only when    *)
(* everything accepted has been delivered.                                 *)
(*                                                                         *)
(* Uploader, the accumulators and Flow implement it, each under its own    *)
(* mapping.  What must eventually happen is stated there, with the         *)
(* fairness it rests on.                                                   *)
(***************************************************************************)
EXTENDS Naturals, Sequences

CONSTANT Payloads

VARIABLES accepted,    \* what callers were told is taken
          delivered,   \* what was passed downstream
          phase        \* "open", "shut" (no intake), "finished" (Done is closed)

vars == <<accepted, delivered, phase>>

Init ==
    /\ accepted = <<>>
    /\ delivered = <<>>
    /\ phase = "open"

Accept(d) ==
    /\ phase = "open"
    /\ accepted' = Append(accepted, d)
    /\ UNCHANGED <<delivered, phase>>

Deliver ==
    /\ \E n \in (Len(delivered) + 1) .. Len(accepted) :
          delivered' = SubSeq(accepted, 1, n)
    /\ UNCHANGED <<accepted, phase>>

Shut ==
    /\ phase = "open"
    /\ phase' = "shut"
    /\ UNCHANGED <<accepted, delivered>>

Finish ==
    /\ phase = "shut"
    /\ delivered = accepted
    /\ phase' = "finished"
    /\ UNCHANGED <<accepted, delivered>>

Next ==
    \/ \E d \in Payloads : Accept(d)
    \/ Deliver
    \/ Shut
    \/ Finish

Spec == Init /\ [][Next]_vars
=============================================================================
