------------------------------- MODULE MCMail -------------------------------
(* Instances of Mail for TLC: two processes with one thread each, and one  *)
(* process whose two threads share a mailbox.                               *)
EXTENDS Mail

MCTwoProcs == {<<0, 0>>, <<1, 0>>, <<2, 0>>}
MCSiblings == {<<0, 0>>, <<1, 0>>, <<1, 1>>}
MCNoPost   == {}
=============================================================================
