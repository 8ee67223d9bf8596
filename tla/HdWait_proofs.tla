--------------------------- MODULE HdWait_proofs ---------------------------
(***************************************************************************)
(* Theorems about HdWait, for commands of any number of sectors.            *)
(***************************************************************************)
EXTENDS HdWait, TLAPS

(* A disk that is busy has no sector to move. *)
BusyOrReady == ~(busy /\ drq)

(* Before FS asks for an interrupt there is one to come, or one has come:   *)
(* the disk works, or waits for a sector of a write that FS still owes it.  *)
InterruptAhead ==
    /\ pc = "write" => busy \/ irq \/ intred \/ (drq /\ writing)
    /\ pc = "wait"  => busy \/ irq \/ intred

(* While FS waits the handler knows whom to wake. *)
Registered == pc = "waiting" => waitTid

Stateful ==
    /\ state \in [Thread -> ThreadState]
    /\ cur \in Thread

IInv == Stateful /\ BusyOrReady /\ InterruptAhead /\ Registered /\ NoLostWakeup

-----------------------------------------------------------------------------
(* A step of the scheduler keeps the states and the current thread typed    *)
(* and changes the state of no thread but the one it is about.              *)
LEMMA WakeUpKeeps ==
    ASSUME Stateful, NEW t \in Thread, CPU!WakeUp(t)
    PROVE  /\ Stateful'
           /\ state'[t] = "RUNNING"
           /\ \A u \in Thread \ {t} : state'[u] = state[u]
<1> USE DEF Stateful, CPU!WakeUp, CPU!dispatchVars, ThreadState
<1>1. CASE state[t] = "RUNNING"
  BY <1>1
<1>2. CASE state[t] # "RUNNING"
  BY <1>2
<1> QED
  BY <1>1, <1>2

(* The scheduler called with the states st. *)
LEMMA ScheduleKeeps ==
    ASSUME NEW st \in [Thread -> ThreadState], CPU!Schedule(st)
    PROVE  Stateful' /\ state' = st
BY DEF Stateful, CPU!Schedule, CPU!Ready, T0, Thread

(* sleep_on touches the thread it is given and the CPU. *)
LEMMA SleepOnKeeps ==
    ASSUME Stateful, NEW t \in Thread, CPU!SleepOn(t)
    PROVE  /\ Stateful'
           /\ \A u \in Thread \ {t} : state'[u] = state[u]
<1>1. CASE state[t] = "STUCK"
  BY <1>1 DEF Stateful, CPU!SleepOn, CPU!dispatchVars
<1>2. CASE state[t] # "STUCK"
  <2>1. [state EXCEPT ![t] = "STUCK"] \in [Thread -> ThreadState]
    BY DEF Stateful, ThreadState
  <2>2. CPU!Schedule([state EXCEPT ![t] = "STUCK"])
    BY <1>2 DEF CPU!SleepOn
  <2> QED
    BY <2>1, <2>2, ScheduleKeeps DEF Stateful
<1> QED
  BY <1>1, <1>2

(* A clock tick puts no thread to sleep. *)
LEMMA TickKeeps ==
    ASSUME Stateful, CPU!Tick
    PROVE  /\ Stateful'
           /\ \A u \in Thread : state'[u] = "STUCK" => state[u] = "STUCK"
<1>1. [state EXCEPT ![cur] = "RUNNING"] \in [Thread -> ThreadState]
  BY DEF Stateful, ThreadState
<1>2. Stateful' /\ state' = [state EXCEPT ![cur] = "RUNNING"]
  BY <1>1, ScheduleKeeps DEF CPU!Tick
<1> QED
  BY <1>2 DEF Stateful

-----------------------------------------------------------------------------
(* FS starts with an idle disk. *)
LEMMA InitIInv == Init => IInv
BY DEF Init, CPU!Init, IInv, Stateful, BusyOrReady, InterruptAhead, Registered,
       NoLostWakeup, ThreadState, Thread, T0

(* A step of FS between its calls of the scheduler. *)
LEMMA SameStates ==
    ASSUME IInv, UNCHANGED <<state, cur>>,
           BusyOrReady', InterruptAhead', Registered',
           pc' # "waiting" \/ NoLostWakeup'
    PROVE  IInv'
BY DEF IInv, Stateful, NoLostWakeup

(* A disk that finishes a sector leaves an interrupt pending. *)
LEMMA SectorDoneIInv == IInv /\ SectorDone => IInv'
<1> SUFFICES ASSUME IInv, SectorDone PROVE IInv'
  OBVIOUS
<1>1. BusyOrReady' /\ InterruptAhead' /\ Registered' /\ NoLostWakeup'
  BY DEF IInv, SectorDone, BusyOrReady, InterruptAhead, Registered, NoLostWakeup,
         fsVars, kernVars
<1> QED
  BY <1>1, SameStates DEF SectorDone

(* The handler wakes FS if it sleeps, and notes the interrupt if not. *)
LEMMA HandlerIInv == IInv /\ Handler => IInv'
<1> SUFFICES ASSUME IInv, Handler PROVE IInv'
  OBVIOUS
<1>1. BusyOrReady' /\ InterruptAhead' /\ Registered'
  BY DEF IInv, Handler, BusyOrReady, InterruptAhead, Registered, fsVars, diskVars
<1>2. CASE waitTid
  <2>1. Stateful' /\ state'[FS] = "RUNNING"
    BY <1>2, WakeUpKeeps DEF IInv, Handler, Thread
  <2> QED
    BY <1>1, <2>1 DEF IInv, NoLostWakeup
<1>3. CASE ~waitTid
  <2>1. pc' # "waiting"
    BY <1>3 DEF IInv, Handler, Registered, fsVars
  <2> QED
    BY <1>1, <1>3, <2>1, SameStates DEF Handler
<1> QED
  BY <1>2, <1>3

(* The clock and the other threads leave FS asleep or awake as it was. *)
LEMMA AsideIInv == IInv /\ (Tick \/ Others) => IInv'
<1> SUFFICES ASSUME IInv, Tick \/ Others PROVE IInv'
  OBVIOUS
<1>1. UNCHANGED <<fsVars, kernVars, diskVars, irq>>
  BY DEF Tick, Others
<1>2. Stateful' /\ (state'[FS] = "STUCK" => state[FS] = "STUCK")
  <2>1. CASE Tick
    BY <2>1, TickKeeps DEF Tick, IInv, Thread
  <2>2. CASE cur # FS /\ CPU!SleepOn(cur)
    BY <2>2, SleepOnKeeps DEF IInv, Stateful, Thread
  <2>3. CASE CPU!WakeUp("other")
    BY <2>3, WakeUpKeeps DEF IInv, Thread, FS
  <2> QED
    BY <2>1, <2>2, <2>3 DEF Others
<1> QED
  BY <1>1, <1>2 DEF IInv, BusyOrReady, InterruptAhead, Registered, NoLostWakeup,
                    fsVars, kernVars, diskVars

(* A command that is taken makes a read busy; one that times out finds the disk busy. *)
LEMMA IssueIInv ==
    ASSUME IInv, NEW rw \in {"READ", "WRITE"}, NEW n \in 1 .. MaxSects,
           IssueReady(rw, n) \/ IssueTimeout(rw, n)
    PROVE  IInv'
<1>1. CASE IssueReady(rw, n)
  BY <1>1, SameStates DEF IInv, IssueReady, Issue, Runs, BusyOrReady, InterruptAhead,
                          Registered, kernVars
<1>2. CASE IssueTimeout(rw, n)
  BY <1>2, SameStates DEF IInv, IssueTimeout, Issue, Runs, BusyOrReady, InterruptAhead,
                          Registered, kernVars, diskVars
<1> QED
  BY <1>1, <1>2

(* Writing the sector the disk waits for makes it busy; if it waits for     *)
(* none, an interrupt is still ahead for the reason it was before.          *)
LEMMA WriteSectorIInv == IInv /\ WriteSector => IInv'
<1> SUFFICES ASSUME IInv, WriteSector PROVE IInv'
  OBVIOUS
<1>1. pc = "write" /\ ~irq /\ pc' \in {"wait", "write"}
  BY DEF WriteSector, Runs
<1>2. UNCHANGED <<state, cur, kernVars, writing, irq>>
  BY DEF WriteSector
<1>3. BusyOrReady' /\ (busy' \/ intred)
  BY <1>1 DEF IInv, InterruptAhead, BusyOrReady, WriteSector, SectorMoved
<1> QED
  BY <1>1, <1>2, <1>3, SameStates DEF InterruptAhead, Registered, kernVars

(* FS sleeps only if no interrupt has come, so one is still ahead. *)
LEMMA WaitSleepIInv == IInv /\ WaitSleep => IInv'
<1> SUFFICES ASSUME IInv, WaitSleep PROVE IInv'
  OBVIOUS
<1>1. busy' /\ pc' = "waiting" /\ waitTid'
  BY DEF IInv, InterruptAhead, WaitSleep, Runs, diskVars
<1>2. Stateful'
  BY SleepOnKeeps DEF IInv, WaitSleep, Thread
<1> QED
  BY <1>1, <1>2 DEF IInv, BusyOrReady, InterruptAhead, Registered, NoLostWakeup,
                    WaitSleep, diskVars

(* The steps after the wait. *)
LEMMA OtherStepIInv == IInv /\ (WaitOver \/ Woken \/ ReadSector) => IInv'
<1> SUFFICES ASSUME IInv, WaitOver \/ Woken \/ ReadSector PROVE IInv'
  OBVIOUS
<1>1. pc' \in {"read", "idle"} /\ UNCHANGED <<state, cur>>
  BY DEF WaitOver, Woken, ReadSector, AfterWait
<1>2. BusyOrReady'
  BY DEF IInv, BusyOrReady, WaitOver, Woken, ReadSector, SectorMoved, diskVars
<1> QED
  BY <1>1, <1>2, SameStates DEF InterruptAhead, Registered

(* Every step keeps the invariant. *)
LEMMA NextIInv == IInv /\ [Next]_vars => IInv'
<1> SUFFICES ASSUME IInv, [Next]_vars PROVE IInv'
  OBVIOUS
<1>1. CASE Step
  BY <1>1, IssueIInv, WriteSectorIInv, WaitSleepIInv, OtherStepIInv DEF Step
<1>2. CASE UNCHANGED vars
  BY <1>2 DEF IInv, Stateful, BusyOrReady, InterruptAhead, Registered, NoLostWakeup,
              vars, fsVars, kernVars, diskVars
<1> QED
  BY <1>1, <1>2, SectorDoneIInv, HandlerIInv, AsideIInv DEF Next

(* FS never sleeps in wait_hd_intr (syscall.c:148-158) when no interrupt    *)
(* can come any more, also after a controller timeout (blk_drv.c:52).       *)
THEOREM FSAlwaysWoken == Spec => []NoLostWakeup
<1>1. IInv => NoLostWakeup
  BY DEF IInv
<1> QED
  BY <1>1, InitIInv, NextIInv, PTL DEF Spec
-----------------------------------------------------------------------------
(* Types.  A disk that works or waits has a sector left, and FS has one left  *)
(* to move whenever it is about to move one.                                *)
Numbers ==
    /\ pc \in {"idle", "write", "wait", "waiting", "read", "crashed"}
    /\ cmd \in [rw : {"READ", "WRITE"}, n : 1 .. MaxSects]
    /\ toMove \in 0 .. MaxSects
    /\ sects \in 0 .. MaxSects

CountsAhead ==
    /\ busy \/ drq => sects >= 1
    /\ pc \in {"write", "read"} => toMove >= 1
    /\ pc \in {"wait", "waiting"} /\ cmd.rw = "READ" => toMove >= 1
    /\ pc = "write" => cmd.rw = "WRITE"

Counted == Numbers /\ CountsAhead

Flags ==
    /\ intred \in BOOLEAN /\ waitTid \in BOOLEAN
    /\ busy \in BOOLEAN /\ drq \in BOOLEAN
    /\ writing \in BOOLEAN /\ irq \in BOOLEAN

(* Nothing is to move at first. *)
LEMMA InitCounted == Init => Counted /\ Flags
<1> SUFFICES ASSUME Init PROVE Counted /\ Flags
  OBVIOUS
<1>1. 1 \in 1 .. MaxSects /\ 0 \in 0 .. MaxSects
  BY HdWaitAssumption
<1>2. Counted
  BY <1>1 DEF Init, Counted, Numbers, CountsAhead
<1>3. Flags
  BY DEF Init, Flags
<1> QED
  BY <1>2, <1>3

\* Whether more than one sector is left is true or false.
LEMMA MoreIsFlag ==
    ASSUME NEW k \in Nat, NEW b, b = (k > 1)
    PROVE  b \in BOOLEAN /\ (b => k > 1)
<1>1. b = TRUE \/ b = FALSE
  OBVIOUS
<1>2. b => k > 1
  BY Zenon
<1> QED
  BY <1>1, <1>2, Zenon

\* A sector moves only if the disk has one.
LEMMA SectorMovedKeeps ==
    ASSUME Counted, SectorMoved
    PROVE  sects' \in 0 .. MaxSects /\ (busy' \/ drq' => sects' >= 1)
<1>1. sects \in 0 .. MaxSects /\ (busy \/ drq => sects >= 1)
  BY DEF Counted, Numbers, CountsAhead
<1>2. CASE ~drq
  BY <1>1, <1>2 DEF SectorMoved
<1>3. CASE drq /\ writing
  BY <1>1, <1>3 DEF SectorMoved
<1>4. CASE drq /\ ~writing
  <2>1. ~drq' /\ sects' = sects - 1 /\ busy' = (sects > 1)
    BY <1>4, Zenon DEF SectorMoved
  <2>2. busy' => sects > 1
    BY <2>1, MoreIsFlag
  <2>3. sects' \in 0 .. MaxSects /\ (sects > 1 => sects' >= 1)
    BY <1>1, <1>4, <2>1, HdWaitAssumption
  <2> QED
    BY <2>1, <2>2, <2>3, Zenon
<1> QED
  BY <1>2, <1>3, <1>4

(* The disk finishes a sector it had. *)
LEMMA SectorDoneCounted == Counted /\ SectorDone => Counted'
<1> SUFFICES ASSUME Counted, SectorDone PROVE Counted'
  OBVIOUS
<1>1. sects \in 0 .. MaxSects /\ sects >= 1
  BY DEF Counted, Numbers, CountsAhead, SectorDone
<1>2. ~busy' /\ UNCHANGED fsVars
  BY Zenon DEF SectorDone
<1>3. sects' \in 0 .. MaxSects /\ (drq' => sects' >= 1)
  <2>1. CASE writing
    <3>1. sects' = sects - 1 /\ drq' = (sects > 1)
      BY <2>1, Zenon DEF SectorDone
    <3>2. drq' => sects > 1
      BY <3>1, MoreIsFlag
    <3>3. sects' \in 0 .. MaxSects /\ (sects > 1 => sects' >= 1)
      BY <1>1, <3>1, HdWaitAssumption
    <3> QED
      BY <3>2, <3>3, Zenon
  <2>2. CASE ~writing
    BY <1>1, <2>2 DEF SectorDone
  <2> QED
    BY <2>1, <2>2
<1> QED
  BY <1>2, <1>3, Zenon DEF Counted, Numbers, CountsAhead, fsVars

(* A command, taken or not, has at least one sector. *)
LEMMA IssueCounted ==
    ASSUME Counted, NEW rw \in {"READ", "WRITE"}, NEW n \in 1 .. MaxSects,
           IssueReady(rw, n) \/ IssueTimeout(rw, n)
    PROVE  Counted'
<1>1. n \in 0 .. MaxSects /\ n >= 1 /\ cmd' = [rw |-> rw, n |-> n] /\ toMove' = n
  BY HdWaitAssumption DEF IssueReady, IssueTimeout, Issue
<1>2. cmd' \in [rw : {"READ", "WRITE"}, n : 1 .. MaxSects] /\ cmd'.rw = rw
  BY <1>1
<1>3. pc' \in {"crashed", IF rw = "READ" THEN "wait" ELSE "write"}
  BY DEF IssueReady, IssueTimeout
<1>4. sects' \in 0 .. MaxSects /\ (busy' \/ drq' => sects' >= 1)
  <2>1. CASE IssueReady(rw, n)
    BY <1>1, <2>1 DEF IssueReady
  <2>2. CASE IssueTimeout(rw, n)
    BY <2>2 DEF IssueTimeout, Counted, Numbers, CountsAhead, diskVars
  <2> QED
    BY <2>1, <2>2
<1> QED
  BY <1>1, <1>2, <1>3, <1>4 DEF Counted, Numbers, CountsAhead

(* FS moves a sector and knows how many are left. *)
LEMMA MoveCounted == Counted /\ (WriteSector \/ ReadSector) => Counted'
<1> SUFFICES ASSUME Counted, WriteSector \/ ReadSector PROVE Counted'
  OBVIOUS
<1>1. sects' \in 0 .. MaxSects /\ (busy' \/ drq' => sects' >= 1)
  BY SectorMovedKeeps DEF WriteSector, ReadSector
<1>2. cmd' = cmd /\ toMove >= 1 /\ toMove' = toMove - 1 /\ toMove' \in 0 .. MaxSects
  BY HdWaitAssumption DEF Counted, Numbers, CountsAhead, WriteSector, ReadSector, Runs
<1>3. CASE WriteSector
  BY <1>1, <1>2, <1>3, HdWaitAssumption DEF Counted, Numbers, CountsAhead, WriteSector, Runs
<1>4. CASE ReadSector
  BY <1>1, <1>2, <1>4, HdWaitAssumption DEF Counted, Numbers, CountsAhead, ReadSector, Runs
<1> QED
  BY <1>3, <1>4

(* Waiting moves no sector. *)
LEMMA WaitCounted == Counted /\ (WaitOver \/ WaitSleep \/ Woken) => Counted'
<1> SUFFICES ASSUME Counted, WaitOver \/ WaitSleep \/ Woken PROVE Counted'
  OBVIOUS
<1>1. UNCHANGED <<cmd, toMove, diskVars>>
  BY DEF WaitOver, WaitSleep, Woken
<1>2. \/ pc \in {"wait", "waiting"} /\ pc' = AfterWait
      \/ pc = "wait" /\ pc' = "waiting"
  BY DEF WaitOver, WaitSleep, Woken, Runs
<1> QED
  BY <1>1, <1>2 DEF Counted, Numbers, CountsAhead, AfterWait, diskVars

\* Steps that move nothing.
LEMMA SameCounted == Counted /\ UNCHANGED <<fsVars, diskVars>> => Counted'
BY DEF Counted, Numbers, CountsAhead, fsVars, diskVars

(* Together. *)
LEMMA NextCounted == Counted /\ [Next]_vars => Counted'
<1> SUFFICES ASSUME Counted, [Next]_vars PROVE Counted'
  OBVIOUS
<1>1. CASE Handler \/ Tick \/ Others \/ UNCHANGED vars
  BY <1>1, SameCounted DEF Handler, Tick, Others, vars
<1>2. CASE Step
  BY <1>2, IssueCounted, MoveCounted, WaitCounted DEF Step
<1> QED
  BY <1>1, <1>2, SectorDoneCounted DEF Next

(* Every step leaves the flags flags. *)
LEMMA NextFlags == Counted /\ Flags /\ [Next]_vars => Flags'
<1> SUFFICES ASSUME Counted, Flags, [Next]_vars PROVE Flags'
  OBVIOUS
<1>0. sects \in Nat
  BY HdWaitAssumption DEF Counted, Numbers
<1>1. CASE SectorDone
  <2>1. drq' \in BOOLEAN
    <3>1. drq' = (sects > 1) \/ drq' = TRUE
      BY <1>1, Zenon DEF SectorDone, diskVars
    <3> QED
      BY <1>0, <3>1, MoreIsFlag
  <2> QED
    BY <1>1, <2>1, Zenon DEF Flags, SectorDone, kernVars
<1>6. CASE Handler
  BY <1>6, Zenon DEF Flags, Handler, diskVars
<1>2. CASE Tick \/ Others \/ UNCHANGED vars
  BY <1>2 DEF Flags, Tick, Others, vars, kernVars, diskVars
<1>3. ASSUME NEW rw \in {"READ", "WRITE"}, NEW n \in 1 .. MaxSects,
             IssueReady(rw, n) \/ IssueTimeout(rw, n)
      PROVE  Flags'
  BY <1>3 DEF Flags, IssueReady, IssueTimeout, Issue, kernVars, diskVars
<1>4. CASE WriteSector \/ ReadSector
  <2>1. busy' \in BOOLEAN /\ drq' \in BOOLEAN
    <3>1. \/ busy' = busy /\ drq' = drq
          \/ busy' = TRUE /\ drq' = FALSE
          \/ busy' = (sects > 1) /\ drq' = FALSE
      BY <1>4, Zenon DEF WriteSector, ReadSector, SectorMoved
    <3> QED
      BY <1>0, <3>1, MoreIsFlag DEF Flags
  <2> QED
    BY <1>4, <2>1, Zenon DEF Flags, WriteSector, ReadSector, kernVars
<1>5. CASE WaitOver \/ WaitSleep \/ Woken
  BY <1>5 DEF Flags, WaitOver, WaitSleep, Woken, kernVars, diskVars
<1> QED
  BY <1>1, <1>2, <1>3, <1>4, <1>5, <1>6 DEF Next, Step

(* The counts of sectors to move stay within a command, also when FS reads    *)
(* or writes sectors the disk does not have (blk_drv.c:84-110).              *)
THEOREM SectorCountsTyped == Spec => []TypeOK
<1>1. IInv /\ Counted /\ Flags => TypeOK
  <2> SUFFICES ASSUME IInv, Counted, Flags PROVE TypeOK
    OBVIOUS
  <2>1. {intred, waitTid, busy, drq, writing, irq} \subseteq BOOLEAN
    BY DEF Flags
  <2> QED
    BY <2>1 DEF IInv, Stateful, Counted, Numbers, TypeOK, CPU!DispatchTypeOK
<1> QED
  BY <1>1, InitIInv, NextIInv, InitCounted, NextCounted, NextFlags, PTL DEF Spec
=============================================================================
