------------------------------ MODULE MCOutput ------------------------------
(* Instances of Output for TLC.                                            *)
EXTENDS Output

\* With a pipe of 5 units: answers several of which the pipe holds together, and
\* one that it takes in pieces only.
MCSizes == {2, 3, 9}
=============================================================================
