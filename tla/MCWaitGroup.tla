---------------------------- MODULE MCWaitGroup ----------------------------
(* Instances of WaitGroup for TLC.                                         *)
EXTENDS WaitGroup

\* Arguments of Add, one of them negative, as its documentation allows.
SignedDeltas == {1, 2, -1}
=============================================================================
