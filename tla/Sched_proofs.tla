---------------------------- MODULE Sched_proofs ----------------------------
(***************************************************************************)
(* Theorems about Sched, for any number of processes and threads and any    *)
(* time slices.                                                             *)
(***************************************************************************)
EXTENDS Sched, FiniteSetTheorems, TLAPS

MaxPl == IF IdlePl > TaskPl THEN IdlePl ELSE TaskPl
Ticks == -1 .. MaxPl

\* The threads of p, other than its main thread, that exist.
Added(p) == {i \in 1 .. MaxThread - 1 : <<p, i>> \in live}

(* What TypeOK needs to be inductive: thread_nr counts the main thread and  *)
(* at most the added ones, so it is bounded although add_thread does not    *)
(* test it; the caller of end_thread is counted, so it does not underflow.  *)
Counted == \A p \in Procs : nr[p] <= 1 + Cardinality(Added(p))
CallerCounted ==
    /\ nr[0] = 1
    /\ nr[cur[1]] >= 1
    /\ cur[1] = 0 => cur = T0

IInv == TypeOK /\ Counted /\ CallerCounted

-----------------------------------------------------------------------------
(* A scan of the thread table ends with its first thread or a running one,  *)
(* and no running thread, nor the first one, has more ticks.                *)
LEMMA WinsBest ==
    ASSUME NEW w \in Thread, NEW base \in Thread,
           NEW running \in SUBSET Thread, NEW ct \in [Thread -> Ticks],
           Wins(w, base, running, ct)
    PROVE  /\ w \in running \cup {base}
           /\ \A t \in running \cup {base} : ct[t] <= ct[w]
<1>1. \A t \in Thread : ct[t] \in Int
  BY SchedAssumption DEF Ticks, MaxPl
<1> QED
  BY <1>1 DEF Wins

(* T0 is a thread, and the main thread of every process is one. *)
LEMMA T0IsThread == T0 \in Thread /\ 0 \in Procs
  BY SchedAssumption DEF T0, Thread, Procs

(* choose_max and switch_to, whatever thread counts they find: they give    *)
(* the CPU to T0 or to an enumerated running thread with the largest slice, *)
(* and refill the slices only when all of these are used up.                *)
LEMMA ScheduleSound ==
    ASSUME NEW st, NEW ct \in [Thread -> Ticks], NEW n \in [Procs -> Nat],
           Schedule(st, ct, n)
    PROVE  /\ state' = st
           /\ cur' \in Running(st, n) \cup {T0}
           /\ curtks' \in [Thread -> Ticks]
           /\ \A t \in Running(st, n) : curtks'[t] <= curtks'[cur']
           /\ \/ curtks' = ct
              \/ \A t \in Running(st, n) \cup {T0} : ct[t] <= 0
<1> DEFINE R == Running(st, n)
<1>1. R \subseteq Thread
  BY DEF Running, Enumerated
<1>2. PICK best \in Thread :
        /\ Wins(best, T0, R, ct)
        /\ IF ct[best] > 0
           THEN curtks' = ct /\ cur' = best
           ELSE /\ curtks' = Reload(ct, n)
                /\ \E again \in Thread :
                      Wins(again, best, R, Reload(ct, n)) /\ cur' = again
  BY DEF Schedule
<1>3. best \in R \cup {T0} /\ \A t \in R \cup {T0} : ct[t] <= ct[best]
  BY <1>1, <1>2, T0IsThread, WinsBest
<1>4. state' = st
  BY DEF Schedule
<1>5. \A t \in Thread : ct[t] \in Int
  BY SchedAssumption DEF Ticks, MaxPl
<1>6. CASE ct[best] > 0
  BY <1>2, <1>3, <1>4, <1>6
<1>7. CASE ~(ct[best] > 0)
  <2>1. Reload(ct, n) \in [Thread -> Ticks]
    <3>1. \A t \in Thread : Pl(t) \in Ticks
      BY SchedAssumption DEF Pl, Ticks, MaxPl
    <3> QED
      BY <3>1 DEF Reload
  <2>2. PICK again \in Thread : Wins(again, best, R, Reload(ct, n)) /\ cur' = again
    BY <1>2, <1>7
  <2>3. again \in R \cup {best} /\ \A t \in R \cup {best} : Reload(ct, n)[t] <= Reload(ct, n)[again]
    BY <1>1, <2>1, <2>2, WinsBest
  <2>4. \A t \in R \cup {T0} : ct[t] <= 0
    BY <1>1, <1>3, <1>5, <1>7, T0IsThread
  <2> QED
    BY <1>2, <1>3, <1>4, <1>7, <2>1, <2>2, <2>3, <2>4
<1> QED
  BY <1>6, <1>7
-----------------------------------------------------------------------------
(* The entries above 0 of a thread table can be counted. *)
LEMMA EntriesFinite ==
    ASSUME NEW S \in SUBSET (1 .. MaxThread - 1)
    PROVE  IsFiniteSet(S) /\ Cardinality(S) \in 0 .. MaxThread - 1
<1>1. /\ IsFiniteSet(1 .. MaxThread - 1)
      /\ Cardinality(1 .. MaxThread - 1) = MaxThread - 1
  BY SchedAssumption, FS_Interval
<1>2. /\ IsFiniteSet(S)
      /\ Cardinality(S) <= MaxThread - 1
  BY <1>1, FS_Subset
<1> QED
  BY <1>2, FS_CardinalityType, SchedAssumption

LEMMA AddedFinite ==
    ASSUME NEW p \in Procs
    PROVE  /\ IsFiniteSet(Added(p)) /\ Cardinality(Added(p)) \in 0 .. MaxThread - 1
           /\ IsFiniteSet(Added(p)') /\ Cardinality(Added(p)') \in 0 .. MaxThread - 1
  BY EntriesFinite DEF Added

(* The invariant holds when the system is up. *)
LEMMA InitIInv == Init => IInv
<1> SUFFICES ASSUME Init PROVE IInv
  OBVIOUS
<1> USE SchedAssumption, T0IsThread DEF Init
<1>1. TypeOK
  BY DEF TypeOK, ThreadState, Pl, Thread, Procs
<1>2. Counted
  BY AddedFinite DEF Counted
<1>3. CallerCounted
  BY DEF CallerCounted, T0
<1> QED
  BY <1>1, <1>2, <1>3 DEF IInv

(* A step that leaves live and nr alone keeps the invariant if it gives the *)
(* CPU to a counted thread or to T0.                                        *)
LEMMA SameThreads ==
    ASSUME IInv, UNCHANGED <<live, nr>>,
           state' \in [Thread -> ThreadState],
           curtks' \in [Thread -> Ticks],
           cur' = cur \/ cur' \in Enumerated(nr) \cup {T0}
    PROVE  IInv'
<1> USE SchedAssumption, T0IsThread
<1>1. TypeOK'
  BY DEF IInv, TypeOK, Ticks, MaxPl, Enumerated
<1>2. Counted'
  BY DEF IInv, Counted, Added
<1>3. CallerCounted'
  <2>1. CASE cur' = cur
    BY <2>1 DEF IInv, CallerCounted
  <2>2. CASE cur' = T0
    BY <2>2 DEF IInv, CallerCounted, T0
  <2>3. CASE cur' \in Enumerated(nr)
    BY <2>3 DEF IInv, CallerCounted, TypeOK, Enumerated, T0, Thread, Procs
  <2> QED
    BY <2>1, <2>2, <2>3
<1> QED
  BY <1>1, <1>2, <1>3 DEF IInv

(* sleep_on and wake_up keep the invariant. *)
LEMMA SleepOnIInv ==
    ASSUME IInv, UNCHANGED <<live, nr>>, NEW t \in Thread, SleepOn(t)
    PROVE  IInv'
<1>1. CASE state[t] = "STUCK"
  BY <1>1, SameThreads DEF SleepOn, IInv, TypeOK, Ticks, MaxPl
<1>2. CASE state[t] # "STUCK"
  <2> DEFINE st == [state EXCEPT ![t] = "STUCK"]
  <2>1. /\ Schedule(st, curtks, nr)
        /\ st \in [Thread -> ThreadState]
        /\ curtks \in [Thread -> Ticks]
        /\ nr \in [Procs -> Nat]
    BY <1>2, SchedAssumption DEF SleepOn, IInv, TypeOK, ThreadState, Ticks, MaxPl
  <2> HIDE DEF st
  <2> QED
    BY <2>1, ScheduleSound, SameThreads DEF Running
<1> QED
  BY <1>1, <1>2

LEMMA WakeUpIInv ==
    ASSUME IInv, UNCHANGED <<live, nr>>, NEW t \in Enumerated(nr), WakeUp(t)
    PROVE  IInv'
<1>1. state' \in [Thread -> ThreadState]
  BY DEF WakeUp, IInv, TypeOK, ThreadState, Enumerated
<1>2. curtks' \in [Thread -> Ticks]
  BY DEF WakeUp, IInv, TypeOK, Ticks, MaxPl
<1>3. cur' = cur \/ cur' = t
  BY DEF WakeUp
<1> QED
  BY <1>1, <1>2, <1>3, SameThreads

LEMMA TickIInv == IInv /\ Tick => IInv'
<1> SUFFICES ASSUME IInv, Tick PROVE IInv'
  OBVIOUS
<1> DEFINE st == [state EXCEPT ![cur] = "RUNNING"]
           ct == [curtks EXCEPT ![cur] = IF @ >= 0 THEN @ - 1 ELSE @]
<1>1. /\ Schedule(st, ct, nr)
      /\ UNCHANGED <<live, nr>>
  BY DEF Tick
<1>2. /\ st \in [Thread -> ThreadState]
      /\ nr \in [Procs -> Nat]
  BY SchedAssumption DEF IInv, TypeOK, ThreadState
<1>3. ct \in [Thread -> Ticks]
  BY SchedAssumption DEF IInv, TypeOK, Ticks, MaxPl
<1> HIDE DEF st, ct
<1> QED
  BY <1>1, <1>2, <1>3, ScheduleSound, SameThreads DEF Running

(* The first free entry of the thread table of the caller is taken. *)
LEMMA AddThreadIInv ==
    ASSUME IInv, NEW tid \in 0 .. MaxThread - 1, AddThread(tid)
    PROVE  IInv'
<1> USE SchedAssumption, T0IsThread
<1> PICK me \in Procs : me = cur[1]
  BY DEF IInv, TypeOK, Thread
<1>1. /\ me # 0
      /\ Sibling(tid) = <<me, tid>> /\ Sibling(tid) \in Thread
      /\ tid \in 1 .. MaxThread - 1 /\ <<me, tid>> \notin live
  BY DEF IInv, TypeOK, CallerCounted, AddThread, Sibling, Thread, Procs
<1>2. Added(me)' = Added(me) \cup {tid} /\ tid \notin Added(me)
  BY <1>1 DEF AddThread, Added
<1>3. \A p \in Procs \ {me} : Added(p)' = Added(p)
  BY <1>1 DEF AddThread, Added
<1>4. Cardinality(Added(me)') = Cardinality(Added(me)) + 1
  BY <1>1, <1>2, AddedFinite, FS_AddElement
<1>5. nr' = [nr EXCEPT ![me] = @ + 1] /\ cur'[1] = me
  BY DEF AddThread
<1>6. Counted'
  BY <1>1, <1>3, <1>4, <1>5, AddedFinite DEF IInv, TypeOK, Counted
<1>7. nr'[me] \in 0 .. MaxThread
  <2>1. nr'[me] <= 1 + Cardinality(Added(me)')
    BY <1>1, <1>6 DEF Counted
  <2>2. nr'[me] \in Nat
    BY <1>1, <1>5 DEF IInv, TypeOK
  <2> QED
    BY <1>1, <2>1, <2>2, AddedFinite
<1>8. TypeOK'
  <2>1. state' \in [Thread -> ThreadState] /\ cur' \in Thread /\ live' \subseteq Thread
    BY <1>1 DEF AddThread, IInv, TypeOK, ThreadState
  <2>2. curtks' \in [Thread -> Ticks]
    BY <1>1 DEF AddThread, IInv, TypeOK, Ticks, MaxPl, Pl
  <2>3. nr' \in [Procs -> 0 .. MaxThread]
    BY <1>1, <1>5, <1>7 DEF IInv, TypeOK
  <2> QED
    BY <2>1, <2>2, <2>3 DEF TypeOK, Ticks, MaxPl
<1>9. CallerCounted'
  BY <1>1, <1>5 DEF IInv, TypeOK, CallerCounted, AddThread
<1> QED
  BY <1>6, <1>8, <1>9 DEF IInv

(* end_thread takes at most one thread out of live and one off thread_nr.   *)
LEMMA OneThreadLess ==
    ASSUME IInv, NEW me \in Procs, NEW tid \in 0 .. MaxThread - 1,
           live' = live \ {<<me, tid>>},
           nr' = [nr EXCEPT ![me] = @ - 1]
    PROVE  Counted'
<1> USE SchedAssumption
<1>1. Added(me)' = Added(me) \ {tid}
  BY DEF Added
<1>2. \A p \in Procs \ {me} : Added(p)' = Added(p)
  BY DEF Added
<1>3. Cardinality(Added(me)') >= Cardinality(Added(me)) - 1
  <2>1. CASE tid \in Added(me)
    <3>1. Cardinality(Added(me) \ {tid}) = Cardinality(Added(me)) - 1
      BY <2>1, AddedFinite, FS_RemoveElement
    <3> QED
      BY <1>1, <3>1, AddedFinite
  <2>2. CASE tid \notin Added(me)
    BY <1>1, <2>2, AddedFinite
  <2> QED
    BY <2>1, <2>2
<1>4. ASSUME NEW p \in Procs PROVE nr'[p] <= 1 + Cardinality(Added(p)')
  <2>1. nr[p] \in Nat /\ nr[p] <= 1 + Cardinality(Added(p))
    BY DEF IInv, TypeOK, Counted
  <2>2. CASE p = me
    BY <1>3, <2>1, <2>2, AddedFinite DEF IInv, TypeOK
  <2>3. CASE p # me
    BY <1>2, <2>1, <2>3 DEF IInv, TypeOK
  <2> QED
    BY <2>2, <2>3
<1> QED
  BY <1>4 DEF Counted

LEMMA EndSelfIInv == IInv /\ EndSelf => IInv'
<1> SUFFICES ASSUME IInv, EndSelf PROVE IInv'
  OBVIOUS
<1> USE SchedAssumption, T0IsThread
<1> PICK me \in Procs, tid \in 0 .. MaxThread - 1 : cur = <<me, tid>>
  BY DEF IInv, TypeOK, Thread
<1>1. me # 0 /\ nr[me] >= 1
  BY DEF IInv, CallerCounted, EndSelf
<1>2. nr' = [nr EXCEPT ![me] = @ - 1] /\ nr' \in [Procs -> 0 .. MaxThread] /\ nr'[0] = 1
  BY <1>1 DEF IInv, TypeOK, CallerCounted, EndSelf
<1>3. /\ state' = state
      /\ cur' \in Running(state, nr') \cup {T0}
      /\ curtks' \in [Thread -> Ticks]
  <2>1. curtks \in [Thread -> Ticks] /\ nr' \in [Procs -> Nat]
    BY <1>2 DEF IInv, TypeOK, Ticks, MaxPl
  <2>2. Schedule(state, curtks, nr')
    BY DEF EndSelf
  <2> QED
    BY <2>1, <2>2, ScheduleSound
<1>4. TypeOK'
  BY <1>2, <1>3 DEF EndSelf, IInv, TypeOK, Ticks, MaxPl, Running, Enumerated
<1>5. Counted'
  BY <1>2, OneThreadLess DEF EndSelf
<1>6. CallerCounted'
  <2>1. CASE cur' = T0
    BY <1>2, <2>1 DEF CallerCounted, T0
  <2>2. CASE cur' \in Enumerated(nr')
    BY <1>2, <2>2 DEF CallerCounted, Enumerated, T0, Thread, Procs
  <2> QED
    BY <1>3, <2>1, <2>2 DEF Running
<1> QED
  BY <1>4, <1>5, <1>6 DEF IInv

LEMMA EndOtherIInv ==
    ASSUME IInv, NEW tid \in 0 .. MaxThread - 1, EndOther(tid)
    PROVE  IInv'
<1> USE SchedAssumption, T0IsThread
<1> PICK me \in Procs : me = cur[1]
  BY DEF IInv, TypeOK, Thread
<1>1. me # 0 /\ nr[me] >= 2
  BY DEF IInv, TypeOK, CallerCounted, EndOther
<1>2. nr' = [nr EXCEPT ![me] = @ - 1] /\ nr' \in [Procs -> 0 .. MaxThread]
  BY <1>1 DEF IInv, TypeOK, EndOther
<1>3. TypeOK'
  BY <1>2 DEF EndOther, IInv, TypeOK
<1>4. Counted'
  BY <1>2, OneThreadLess DEF EndOther, Sibling
<1>5. CallerCounted'
  BY <1>1, <1>2 DEF EndOther, IInv, TypeOK, CallerCounted
<1> QED
  BY <1>3, <1>4, <1>5 DEF IInv

(* Every step keeps the invariant. *)
LEMMA NextIInv == IInv /\ [Next]_vars => IInv'
<1> SUFFICES ASSUME IInv, [Next]_vars PROVE IInv'
  OBVIOUS
<1> USE SchedAssumption
<1>1. CASE Tick
  BY <1>1, TickIInv
<1>2. CASE Pause
  BY <1>2, SleepOnIInv DEF Pause, IInv, TypeOK
<1>3. CASE EndSelf
  BY <1>3, EndSelfIInv
<1>4. CASE \E t \in IrqThreads : Irq(t)
  BY <1>4, WakeUpIInv DEF Irq
<1>5. ASSUME NEW tid \in 0 .. MaxThread - 1, Block(tid) PROVE IInv'
  <2>1. Sibling(tid) \in Thread
    BY DEF Sibling, IInv, TypeOK, Thread
  <2> QED
    BY <1>5, <2>1, SleepOnIInv DEF Block
<1>6. ASSUME NEW tid \in 0 .. MaxThread - 1, Unblock(tid) PROVE IInv'
  <2>1. Sibling(tid) \in Enumerated(nr)
    BY <1>6 DEF Sibling, IInv, TypeOK, Thread, Unblock, Enumerated
  <2> QED
    BY <1>6, <2>1, WakeUpIInv DEF Unblock
<1>7. ASSUME NEW tid \in 0 .. MaxThread - 1, EndOther(tid) PROVE IInv'
  BY <1>7, EndOtherIInv
<1>8. ASSUME NEW tid \in 0 .. MaxThread - 1, AddThread(tid) PROVE IInv'
  BY <1>8, AddThreadIInv
<1>9. CASE UNCHANGED vars
  BY <1>9, SameThreads DEF vars, IInv, TypeOK, Ticks, MaxPl
<1> QED
  BY <1>1, <1>2, <1>3, <1>4, <1>5, <1>6, <1>7, <1>8, <1>9 DEF Next

(* The variables keep their types for any number of threads; in particular  *)
(* thread_nr neither underflows nor exceeds MAX_THREAD, which add_thread    *)
(* and end_thread do not test.                                              *)
THEOREM TypeCorrect == Spec => []TypeOK
<1>1. IInv => TypeOK
  BY DEF IInv
<1> QED
  BY InitIInv, NextIInv, <1>1, PTL DEF Spec

-----------------------------------------------------------------------------
(* Every choice that the time slices make is one that Dispatch leaves open. *)
LEMMA ScheduleIsChoice ==
    ASSUME NEW st, NEW ct \in [Thread -> Ticks], NEW n \in [Procs -> Nat],
           Schedule(st, ct, n)
    PROVE  D!Schedule(st)
<1>1. /\ state' = st
      /\ cur' \in Running(st, n) \cup {T0}
  BY ScheduleSound
<1>2. Running(st, n) \subseteq {t \in Thread : st[t] = "RUNNING"}
  BY DEF Running, Enumerated
<1> QED
  BY <1>1, <1>2 DEF D!Schedule, D!Ready

LEMMA StepImplements == IInv /\ [Next]_vars => [D!Next]_(D!dispatchVars)
<1> SUFFICES ASSUME IInv, [Next]_vars PROVE [D!Next]_(D!dispatchVars)
  OBVIOUS
<1>1. /\ curtks \in [Thread -> Ticks]
      /\ nr \in [Procs -> Nat]
      /\ cur \in Thread
  BY SchedAssumption DEF IInv, TypeOK, Ticks, MaxPl
<1>2. ASSUME NEW t \in Thread, SleepOn(t) PROVE D!SleepOn(t)
  BY <1>1, <1>2, ScheduleIsChoice DEF SleepOn, D!SleepOn, D!dispatchVars
<1>3. ASSUME NEW t \in Thread, WakeUp(t) PROVE D!WakeUp(t)
  BY <1>3 DEF WakeUp, D!WakeUp, D!dispatchVars
<1>4. \A tid \in 0 .. MaxThread - 1 : Sibling(tid) \in Thread
  BY <1>1 DEF Sibling, Thread
<1>5. CASE Tick
  <2> DEFINE ct == [curtks EXCEPT ![cur] = IF @ >= 0 THEN @ - 1 ELSE @]
  <2>1. ct \in [Thread -> Ticks]
    BY <1>1, SchedAssumption DEF Ticks, MaxPl
  <2>2. Schedule([state EXCEPT ![cur] = "RUNNING"], ct, nr)
    BY <1>5 DEF Tick
  <2> HIDE DEF ct
  <2> QED
    BY <1>1, <2>1, <2>2, ScheduleIsChoice DEF D!Next, D!Tick
<1>6. CASE Pause
  BY <1>1, <1>2, <1>6 DEF Pause, D!Next
<1>7. CASE EndSelf
  <2>1. nr' \in [Procs -> Nat]
    BY <1>7, EndSelfIInv, SchedAssumption DEF IInv, TypeOK
  <2>2. Schedule(state, curtks, nr')
    BY <1>7 DEF EndSelf
  <2> QED
    BY <1>1, <2>1, <2>2, ScheduleIsChoice DEF D!Next, D!Yield
<1>8. CASE \E t \in IrqThreads : Irq(t)
  BY <1>3, <1>8, SchedAssumption DEF Irq, D!Next
<1>9. ASSUME NEW tid \in 0 .. MaxThread - 1, Block(tid) PROVE D!Next
  BY <1>2, <1>4, <1>9 DEF Block, D!Next
<1>10. ASSUME NEW tid \in 0 .. MaxThread - 1, Unblock(tid) PROVE D!Next
  BY <1>3, <1>4, <1>10 DEF Unblock, D!Next
<1>11. ASSUME NEW tid \in 0 .. MaxThread - 1, EndOther(tid)
       PROVE UNCHANGED D!dispatchVars
  BY <1>11 DEF EndOther, D!dispatchVars
<1>12. ASSUME NEW tid \in 0 .. MaxThread - 1, AddThread(tid) PROVE D!Next
  BY <1>4, <1>12 DEF AddThread, D!Next, D!Start
<1>13. CASE UNCHANGED vars
  BY <1>13 DEF vars, D!dispatchVars
<1> QED
  BY <1>5, <1>6, <1>7, <1>8, <1>9, <1>10, <1>11, <1>12, <1>13 DEF Next

(* The scheduler with its time slices implements the abstract one, which    *)
(* the models of mail, disk and keyboard use in its place.                  *)
THEOREM SchedulerImplementsDispatch == Spec => ImplementsDispatch
<1>1. Init => D!Init
  BY DEF Init, D!Init
<1> QED
  BY InitIInv, NextIInv, StepImplements, <1>1, PTL DEF Spec, ImplementsDispatch, D!Spec

-----------------------------------------------------------------------------
(* A step of the abstract scheduler keeps the CPU off sleeping threads.     *)
LEMMA DispatchRuns ==
    ASSUME TypeOK, CpuRunsRunnable, [D!Next]_(D!dispatchVars)
    PROVE  CpuRunsRunnable'
<1>1. ASSUME NEW st, D!Schedule(st) PROVE CpuRunsRunnable'
  BY <1>1 DEF D!Schedule, D!Ready, CpuRunsRunnable
<1>2. CASE D!Tick
  BY <1>1, <1>2 DEF D!Tick
<1>3. CASE D!Yield
  BY <1>1, <1>3 DEF D!Yield
<1>4. ASSUME NEW t \in Thread, D!SleepOn(t) PROVE CpuRunsRunnable'
  BY <1>1, <1>4 DEF D!SleepOn, D!dispatchVars, CpuRunsRunnable
<1>5. ASSUME NEW t \in Thread, D!WakeUp(t) PROVE CpuRunsRunnable'
  BY <1>5 DEF D!WakeUp, D!dispatchVars, CpuRunsRunnable, TypeOK
<1>6. ASSUME NEW t \in Thread, D!Start(t) PROVE CpuRunsRunnable'
  BY <1>6 DEF D!Start, CpuRunsRunnable, TypeOK
<1>7. CASE UNCHANGED D!dispatchVars
  BY <1>7 DEF D!dispatchVars, CpuRunsRunnable
<1> QED
  BY <1>2, <1>3, <1>4, <1>5, <1>6, <1>7 DEF D!Next

(* The CPU is never left with a sleeping thread other than T0.              *)
THEOREM CpuNeverWithSleeper == Spec => []CpuRunsRunnable
<1>1. Init => CpuRunsRunnable
  BY DEF Init, CpuRunsRunnable
<1>2. IInv /\ CpuRunsRunnable /\ [Next]_vars => CpuRunsRunnable'
  BY StepImplements, DispatchRuns DEF IInv
<1> QED
  BY InitIInv, NextIInv, <1>1, <1>2, PTL DEF Spec

-----------------------------------------------------------------------------
(* The clock gives the CPU to a runnable thread with the largest slice.     *)
LEMMA TickLargest ==
    ASSUME IInv, Tick
    PROVE  \A t \in Running(state', nr) : curtks'[t] <= curtks'[cur']
<1> DEFINE st == [state EXCEPT ![cur] = "RUNNING"]
           ct == [curtks EXCEPT ![cur] = IF @ >= 0 THEN @ - 1 ELSE @]
<1>1. Schedule(st, ct, nr)
  BY DEF Tick
<1>2. ct \in [Thread -> Ticks] /\ nr \in [Procs -> Nat]
  BY SchedAssumption DEF IInv, TypeOK, Ticks, MaxPl
<1> HIDE DEF st, ct
<1> QED
  BY <1>1, <1>2, ScheduleSound

(* After a tick no thread that can run has a larger slice left than the one   *)
(* clock and choose_max gave the CPU to (sched.c:100-156).                   *)
THEOREM ClockPicksLargest == Spec => TickPicksLargest
<1>1. IInv /\ [Next]_vars =>
        [Tick => \A t \in Running(state', nr) : curtks'[t] <= curtks'[cur']]_vars
  BY TickLargest
<1> QED
  BY InitIInv, NextIInv, <1>1, PTL DEF Spec, TickPicksLargest

(* Slices are refilled only when all of them are used up.                   *)
SlicesUsed == \A t \in Running(state', nr) \cup {T0} : curtks[t] <= (IF t = cur THEN 1 ELSE 0)
Refilled   == nr' = nr /\ \E t \in Thread : curtks'[t] > curtks[t]

LEMMA ReloadOnlyWhenUsed == IInv /\ Next /\ Refilled => SlicesUsed
<1> SUFFICES ASSUME IInv, Next, Refilled PROVE SlicesUsed
  OBVIOUS
<1>1. /\ curtks \in [Thread -> Ticks]
      /\ nr \in [Procs -> 0 .. MaxThread] /\ nr \in [Procs -> Nat]
      /\ cur \in Thread /\ cur[1] \in Procs
      /\ \A t \in Thread : curtks[t] \in Int
  BY SchedAssumption DEF IInv, TypeOK, Ticks, MaxPl, Thread
<1>2. curtks' # curtks
  BY <1>1 DEF Refilled
<1>3. ASSUME NEW st, Schedule(st, curtks, nr) PROVE SlicesUsed
  <2>1. /\ state' = st
        /\ \A t \in Running(st, nr) \cup {T0} : curtks[t] <= 0
    BY <1>1, <1>2, <1>3, ScheduleSound
  <2>2. Running(st, nr) \cup {T0} \subseteq Thread
    BY T0IsThread DEF Running, Enumerated
  <2> QED
    BY <1>1, <2>1, <2>2 DEF SlicesUsed
<1>4. CASE Tick
  <2> DEFINE st == [state EXCEPT ![cur] = "RUNNING"]
             ct == [curtks EXCEPT ![cur] = IF @ >= 0 THEN @ - 1 ELSE @]
  <2>1. Schedule(st, ct, nr)
    BY <1>4 DEF Tick
  <2>2. ct \in [Thread -> Ticks]
    BY SchedAssumption DEF IInv, TypeOK, Ticks, MaxPl
  <2>3. \A t \in Thread : ct[t] <= curtks[t] /\ curtks[t] <= ct[t] + (IF t = cur THEN 1 ELSE 0)
    BY <1>1
  <2>4. ct # curtks'
    BY <1>1, <2>2, <2>3 DEF Refilled, Ticks
  <2> HIDE DEF st, ct
  <2>5. \A t \in Running(state', nr) \cup {T0} : ct[t] <= 0
    BY <1>1, <2>1, <2>2, <2>4, ScheduleSound
  <2>6. Running(state', nr) \cup {T0} \subseteq Thread
    BY T0IsThread DEF Running, Enumerated
  <2>7. \A t \in Thread : ct[t] \in Int
    BY <2>2 DEF Ticks
  <2> QED
    BY <1>1, <2>3, <2>5, <2>6, <2>7 DEF SlicesUsed
<1>5. ASSUME NEW t, SleepOn(t) PROVE SlicesUsed
  BY <1>2, <1>3, <1>5 DEF SleepOn
<1>6. ASSUME NEW t, WakeUp(t) PROVE FALSE
  BY <1>2, <1>6 DEF WakeUp
<1>7. CASE EndSelf
  BY <1>1, <1>7 DEF EndSelf, Refilled
<1>8. ASSUME NEW tid \in 0 .. MaxThread - 1, AddThread(tid) \/ EndOther(tid) PROVE FALSE
  BY <1>1, <1>8 DEF AddThread, EndOther, Refilled
<1> QED
  BY <1>4, <1>5, <1>6, <1>7, <1>8 DEF Next, Pause, Irq, Block, Unblock

(* choose_max gives new slices only when every thread that could run has used *)
(* up its own (sched.c:126-153).                                            *)
THEOREM NoSecondSliceEarly == Spec => NoEarlyReload
<1>1. IInv /\ [Next]_vars => [Refilled => SlicesUsed]_vars
  BY ReloadOnlyWhenUsed
<1>2. [Refilled => SlicesUsed]_vars =>
        [(nr' = nr /\ \E t \in Thread : curtks'[t] > curtks[t])
            => \A t \in Running(state', nr) \cup {T0} :
                  curtks[t] <= (IF t = cur THEN 1 ELSE 0)]_vars
  BY DEF Refilled, SlicesUsed
<1> QED
  BY InitIInv, NextIInv, <1>1, <1>2, PTL DEF Spec, NoEarlyReload
=============================================================================
