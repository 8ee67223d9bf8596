------------------------------ MODULE MCSched ------------------------------
(* Instances of Sched for TLC: T0, processes with up to MaxThread threads;  *)
(* an interrupt wakes the main thread of the last process.                  *)
EXTENDS Sched

MCIrqThreads == {<<NrProcs - 1, 0>>}
=============================================================================
