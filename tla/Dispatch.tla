------------------------------ MODULE Dispatch ------------------------------
(***************************************************************************)
(* What the scheduler of kernel/sched.c promises the rest of the kernel.    *)
(*                                                                         *)
(* There is one CPU and every kernel entry runs with interrupts off, so a   *)
(* system call or an interrupt handler is one step.  A step may change the  *)
(* state of a thread and then either keeps the current thread, asks the     *)
(* scheduler for one, or gives the CPU to a thread it has just woken.       *)
(* Which runnable thread the scheduler picks is left open here: Sched.tla   *)
(* has the time slices that decide it and implements this module.           *)
(***************************************************************************)
CONSTANTS
    Thread,   \* the threads of all processes
    T0        \* thread 0 of process 0, which idles in main() and only pauses

CONSTANT ThreadState   \* the TS_ constants of include/casey/sched.h in use

VARIABLES
    state,    \* thread[].state of every thread
    cur       \* __curprocs and cur_tid: the thread that has the CPU

dispatchVars == <<state, cur>>

DispatchTypeOK ==
    /\ state \in [Thread -> ThreadState]
    /\ cur \in Thread

-----------------------------------------------------------------------------
(* T0 is the scheduler's baseline: it is taken when nothing else can run,   *)
(* whatever its own state is.                                               *)
Ready(st) == {t \in Thread : st[t] = "RUNNING"} \cup {T0}

Schedule(st) ==
    /\ state' = st
    /\ cur' \in Ready(st)

SleepOn(t) ==
    IF state[t] = "STUCK"
    THEN UNCHANGED dispatchVars
    ELSE Schedule([state EXCEPT ![t] = "STUCK"])

\* wake_up gives the CPU to t at once, without asking the scheduler.
WakeUp(t) ==
    IF state[t] = "RUNNING"
    THEN UNCHANGED dispatchVars
    ELSE /\ state' = [state EXCEPT ![t] = "RUNNING"]
         /\ cur' = t

\* The clock marks the thread it interrupted as running, then schedules.
Tick == Schedule([state EXCEPT ![cur] = "RUNNING"])

-----------------------------------------------------------------------------
(* The steps of the other system calls, as far as the CPU is concerned.     *)
Yield == Schedule(state)

Start(t) ==
    /\ state' = [state EXCEPT ![t] = "RUNNING"]
    /\ UNCHANGED cur

Init ==
    /\ state = [t \in Thread |-> "RUNNING"]
    /\ cur = T0

Next ==
    \/ Tick
    \/ Yield
    \/ \E t \in Thread :
          \/ SleepOn(t)
          \/ WakeUp(t)
          \/ Start(t)

Spec == Init /\ [][Next]_dispatchVars

-----------------------------------------------------------------------------
(* The thread that has the CPU can run; only T0 may hold it while asleep.   *)
CpuRunsRunnable == cur \in Ready(state)
=============================================================================
