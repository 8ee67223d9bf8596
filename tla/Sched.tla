------------------------------- MODULE Sched -------------------------------
(***************************************************************************)
(* The thread scheduler of kernel/sched.c with the thread system calls of   *)
(* kernel/syscall.c: time slices, the two-pass choice of the next thread,   *)
(* sleeping and waking, creating and ending threads.                        *)
(*                                                                         *)
(* A thread that was ended keeps its state and may go on running if its     *)
(* index is still below thread_nr; in the model it goes on making calls.    *)
(***************************************************************************)
EXTENDS Integers, FiniteSets

CONSTANTS
    NrProcs,      \* NR_TASKS: processes 0 .. NrProcs - 1, all made at boot
    MaxThread,    \* MAX_THREAD: entries of a process's thread table
    IdlePl,       \* the time slice of T0
    TaskPl,       \* the time slice of every other thread
    IrqThreads    \* the threads that interrupt handlers wake

Procs  == 0 .. NrProcs - 1
Thread == Procs \X (0 .. MaxThread - 1)
T0     == <<0, 0>>
ThreadState == {"RUNNING", "STUCK"}

ASSUME SchedAssumption ==
    /\ NrProcs \in Nat \ {0}
    /\ MaxThread \in Nat \ {0}
    /\ IdlePl \in Nat \ {0}
    /\ TaskPl \in Nat \ {0}
    /\ IrqThreads \subseteq Thread

VARIABLES
    state,     \* thread[].state
    cur,       \* __curprocs, cur_tid
    curtks,    \* thread[].curtks: ticks left in the thread's time slice
    live,      \* the threads whose t_id (or, for a main thread, thread 0) is set
    nr         \* thread_nr of every process

vars == <<state, cur, curtks, live, nr>>

-----------------------------------------------------------------------------
Pl(t) == IF t = T0 THEN IdlePl ELSE TaskPl

Before(t, u) == t[1] < u[1] \/ (t[1] = u[1] /\ t[2] < u[2])

\* The threads that choose_max enumerates when the thread counts are n.
Enumerated(n) == {t \in Thread : t[2] < n[t[1]]}

\* Mutant: the scan does not look at the state.
RunningAny(st, n) == Enumerated(n)

Running(st, n) == {t \in Enumerated(n) : st[t] = "RUNNING"}

\* Mutant: the scan stops at the first thread with more ticks than base.
WinsFirst(w, base, running, ct) ==
    \/ /\ w = base
       /\ \A t \in running : ct[t] <= ct[base]
    \/ /\ w \in running
       /\ ct[w] > ct[base]
       /\ \A t \in running : ct[t] > ct[base] => ~Before(t, w)

(* w comes out of one scan of the thread table that starts from base: the   *)
(* first of the threads with most ticks if they have more than base.        *)
Wins(w, base, running, ct) ==
    \/ /\ w = base
       /\ \A t \in running : ct[t] <= ct[base]
    \/ /\ w \in running
       /\ ct[w] > ct[base]
       /\ \A t \in running : ct[t] < ct[w] \/ (ct[t] = ct[w] /\ ~Before(t, w))

\* Mutant: only main threads get a new slice.
ReloadMain(ct, n) ==
    [t \in Thread |-> IF t \in Enumerated(n) /\ t[2] = 0 THEN Pl(t) ELSE ct[t]]

\* Every enumerated thread gets a full slice again, whatever its state.
Reload(ct, n) == [t \in Thread |-> IF t \in Enumerated(n) THEN Pl(t) ELSE ct[t]]

\* Mutant: the slices are reloaded while the best thread still has a tick.
ScheduleEarly(st, ct, n) ==
    /\ state' = st
    /\ \E best \in Thread :
          /\ Wins(best, T0, Running(st, n), ct)
          /\ IF ct[best] > 1
             THEN curtks' = ct /\ cur' = best
             ELSE /\ curtks' = Reload(ct, n)
                  /\ \E again \in Thread :
                        /\ Wins(again, best, Running(st, n), Reload(ct, n))
                        /\ cur' = again

(* choose_max and switch_to.  When even the best thread has no ticks left,  *)
(* the slices are reloaded and the scan is repeated from that thread.       *)
Schedule(st, ct, n) ==
    /\ state' = st
    /\ \E best \in Thread :
          /\ Wins(best, T0, Running(st, n), ct)
          /\ IF ct[best] > 0
             THEN curtks' = ct /\ cur' = best
             ELSE /\ curtks' = Reload(ct, n)
                  /\ \E again \in Thread :
                        /\ Wins(again, best, Running(st, n), Reload(ct, n))
                        /\ cur' = again

\* Mutant: sleep_on does not schedule.
SleepOnStay(t) ==
    /\ state' = [state EXCEPT ![t] = "STUCK"]
    /\ UNCHANGED <<cur, curtks>>

SleepOn(t) ==
    IF state[t] = "STUCK"
    THEN UNCHANGED <<state, cur, curtks>>
    ELSE Schedule([state EXCEPT ![t] = "STUCK"], curtks, nr)

WakeUp(t) ==
    /\ IF state[t] = "RUNNING"
       THEN UNCHANGED <<state, cur>>
       ELSE state' = [state EXCEPT ![t] = "RUNNING"] /\ cur' = t
    /\ UNCHANGED curtks

-----------------------------------------------------------------------------
(* Interrupt handlers. *)

\* Mutant: the clock decrements whatever is left of the slice.
TickNoFloor ==
    /\ Schedule([state EXCEPT ![cur] = "RUNNING"],
                [curtks EXCEPT ![cur] = @ - 1],
                nr)
    /\ UNCHANGED <<live, nr>>

Tick ==
    /\ Schedule([state EXCEPT ![cur] = "RUNNING"],
                [curtks EXCEPT ![cur] = IF @ >= 0 THEN @ - 1 ELSE @],
                nr)
    /\ UNCHANGED <<live, nr>>

\* The threads that handlers wake (FS's main thread, TTY's decoder) are never
\* ended.
Irq(t) ==
    /\ t \in Enumerated(nr)
    /\ WakeUp(t)
    /\ UNCHANGED <<live, nr>>

-----------------------------------------------------------------------------
(* System calls of the current thread.  T0 makes none but pause().          *)

Pause ==
    /\ SleepOn(cur)
    /\ UNCHANGED <<live, nr>>

Sibling(tid) == <<cur[1], tid>>

Block(tid) ==
    /\ cur # T0
    /\ tid < nr[cur[1]]
    /\ SleepOn(Sibling(tid))
    /\ UNCHANGED <<live, nr>>

Unblock(tid) ==
    /\ cur # T0
    /\ tid < nr[cur[1]]
    /\ WakeUp(Sibling(tid))
    /\ UNCHANGED <<live, nr>>

(* The first entry above 0 whose t_id is clear; thread_nr counts, it is no  *)
(* index.  Every caller passes TS_RUNNING (rw_con.c:324-326).               *)
AddThread(tid) ==
    /\ cur # T0
    /\ tid \in 1 .. MaxThread - 1
    /\ Sibling(tid) \notin live
    /\ \A i \in 1 .. tid - 1 : Sibling(i) \in live
    /\ live'   = live \cup {Sibling(tid)}
    /\ nr'     = [nr EXCEPT ![cur[1]] = @ + 1]
    /\ state'  = [state EXCEPT ![Sibling(tid)] = "RUNNING"]
    /\ curtks' = [curtks EXCEPT ![Sibling(tid)] = Pl(Sibling(tid))]
    /\ UNCHANGED cur

\* end_thread(-1): the caller ends itself, whatever thread it is.
EndSelf ==
    /\ cur # T0
    /\ live' = live \ {cur}
    /\ nr'   = [nr EXCEPT ![cur[1]] = @ - 1]
    /\ Schedule(state, curtks, nr')

\* end_thread(tid): only the first thread_nr entries are searched for tid.
EndOther(tid) ==
    /\ cur # T0
    /\ tid \in 1 .. nr[cur[1]] - 1
    /\ Sibling(tid) \in live
    /\ live' = live \ {Sibling(tid)}
    /\ nr'   = [nr EXCEPT ![cur[1]] = @ - 1]
    /\ UNCHANGED <<state, cur, curtks>>

-----------------------------------------------------------------------------
Init ==
    /\ state  = [t \in Thread |-> "RUNNING"]
    /\ cur    = T0
    /\ curtks = [t \in Thread |-> IF t[2] = 0 THEN Pl(t) ELSE 0]
    /\ live   = {<<p, 0>> : p \in Procs}
    /\ nr     = [p \in Procs |-> 1]

Next ==
    \/ Tick
    \/ Pause
    \/ EndSelf
    \/ \E t \in IrqThreads : Irq(t)
    \/ \E tid \in 0 .. MaxThread - 1 :
          \/ Block(tid)
          \/ Unblock(tid)
          \/ EndOther(tid)
          \/ AddThread(tid)

Spec == Init /\ [][Next]_vars

(* The 8253 keeps ticking whatever the threads do, and as it runs on its    *)
(* own clock it cannot always hit a thread whose slice is already used up.  *)
Fairness ==
    /\ WF_vars(Tick)
    /\ SF_vars(Tick /\ curtks[cur] > 0)

FairSpec == Spec /\ Fairness

-----------------------------------------------------------------------------
(* Every variable keeps its type; thread_nr, a u8, never wraps below zero   *)
(* although end_thread decrements it without a test.                        *)
TypeOK ==
    /\ state \in [Thread -> ThreadState]
    /\ cur \in Thread
    /\ curtks \in [Thread -> -1 .. (IF IdlePl > TaskPl THEN IdlePl ELSE TaskPl)]
    /\ live \subseteq Thread
    /\ nr \in [Procs -> 0 .. MaxThread]

(* No path through sleep_on, wake_up, the clock or end_thread leaves the    *)
(* CPU with a sleeping thread; only T0 may be asleep and current.           *)
CpuRunsRunnable == cur = T0 \/ state[cur] = "RUNNING"

(* A slice is refilled (other than for a thread being created) only when    *)
(* every thread that could run has used its slice up: no thread gets a      *)
(* second slice while another one still waits for its first.                *)
NoEarlyReload ==
    [][(nr' = nr /\ \E t \in Thread : curtks'[t] > curtks[t])
          => \A t \in Running(state', nr) \cup {T0} :
                curtks[t] <= (IF t = cur THEN 1 ELSE 0)]_vars

(* Among the threads that wait for the CPU the one that gets it at a clock  *)
(* tick has the largest slice left: no other runnable thread has more.      *)
TickPicksLargest ==
    [][Tick => \A t \in Running(state', nr) : curtks'[t] <= curtks'[cur']]_vars

(* Once no more threads are created or ended, a runnable thread that the    *)
(* scheduler enumerates gets the CPU (or is put to sleep by a sibling).     *)
NoStarvation ==
    <>[][nr' = nr]_vars =>
        \A t \in Thread :
            (t \in Running(state, nr)) ~> (cur = t \/ t \notin Running(state, nr))

(* sched.c:106 says that choose_max enumerates all threads of each process:  *)
(* at least of one whose main thread has not ended itself.                  *)
LiveThreadsEnumerated == {t \in live : <<t[1], 0>> \in live} \subseteq Enumerated(nr)

(* Whatever the slices decide is a choice Dispatch allows.                  *)
D == INSTANCE Dispatch
ImplementsDispatch == D!Spec
=============================================================================
