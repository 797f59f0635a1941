-------------------------- MODULE MCClientSession ---------------------------
(* Instances of ClientSession for TLC.                                     *)
EXTENDS ClientSession, TLC

CONSTANTS a, b, t1, t2

TwoUris == {a, b}
OneUri == {a}
TwoTexts == {t1, t2}

Synchronization == {"didOpen", "didChange", "didClose", "references"}
=============================================================================
