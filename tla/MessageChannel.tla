--------------------------- MODULE MessageChannel ---------------------------
(***************************************************************************)
(* What the framing of messages promises: the messages the client sends    *)
(* are delivered, whole, once, in order, and in the end all of them.       *)
(***************************************************************************)
EXTENDS Naturals, Sequences

CONSTANT Ids

VARIABLES sent, delivered
vars == <<sent, delivered>>

Init == sent = <<>> /\ delivered = <<>>

Send(id) == /\ sent' = Append(sent, id)
            /\ UNCHANGED delivered

Deliver == /\ Len(delivered) < Len(sent)
           /\ delivered' = Append(delivered, sent[Len(delivered) + 1])
           /\ UNCHANGED sent

Next == Deliver \/ \E id \in Ids : Send(id)

SafeSpec == Init /\ [][Next]_vars

Spec == SafeSpec /\ WF_vars(Deliver)
=============================================================================
