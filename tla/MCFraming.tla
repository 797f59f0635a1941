----------------------------- MODULE MCFraming -----------------------------
(* Instances of Framing for TLC.                                           *)
EXTENDS Framing

LegalClient == [kinds |-> LegalKinds, newline |-> FALSE, most |-> 3]
NewlineClient == [kinds |-> {"plain", "bad"}, newline |-> TRUE, most |-> 3]
AnyClient == [kinds |-> AllKinds, newline |-> FALSE, most |-> 2]

AllClients == {LegalClient, NewlineClient, AnyClient}
MCSizes == {1, 2}
=============================================================================
