------------------------------- MODULE HdWait -------------------------------
(***************************************************************************)
(* How FS waits for the hard disk: ll_rw_phys_sect and set_hd_cmd of        *)
(* fs/blk_drv.c, the wait_hd_intr system call of kernel/syscall.c and the   *)
(* interrupt handler of kernel/hdsk.c, with a disk that raises one          *)
(* interrupt per sector.                                                    *)
(*                                                                         *)
(* Tasks run with interrupts enabled, so a pending interrupt is taken       *)
(* before FS makes its next step; the disk may raise one at any moment,     *)
(* also while the kernel runs a system call.                                *)
(***************************************************************************)
EXTENDS Naturals

CONSTANT MaxSects    \* the most sectors one command moves: 2 for a block

ASSUME HdWaitAssumption == MaxSects \in Nat \ {0}

T0 == "T0"
FS == "FS"              \* thread 0 of FS, the only thread that uses the disk
Thread == {T0, FS, "other"}
ThreadState == {"RUNNING", "STUCK"}

VARIABLES
    state,      \* thread[].state
    cur,        \* the thread that has the CPU
    pc,         \* where FS is: "idle", "write", "wait", "waiting", "read", "crashed"
    cmd,        \* the command FS works on: what it does and its sectors
    toMove,     \* sectors FS still has to move through the data port
    intred,     \* kernel: an interrupt came
    waitTid,    \* kernel: FS is registered as the thread to wake
    busy,       \* disk: BSY
    drq,        \* disk: a sector may be moved through the data port
    sects,      \* disk: sectors left of its command, 0 when it has none
    writing,    \* disk: its command is a write
    irq         \* IRQ 14 is pending

diskVars == <<busy, drq, sects, writing>>
fsVars   == <<pc, cmd, toMove>>
kernVars == <<intred, waitTid>>
vars     == <<state, cur, fsVars, kernVars, diskVars, irq>>

CPU == INSTANCE Dispatch

-----------------------------------------------------------------------------
(* The disk. *)

\* It finishes with a sector: fetched for a read, stored for a write.
SectorDone ==
    /\ busy
    /\ busy'  = FALSE
    /\ irq'   = TRUE
    /\ IF writing
       THEN /\ sects' = sects - 1
            /\ drq' = (sects > 1)
       ELSE /\ drq' = TRUE
            /\ UNCHANGED sects
    /\ UNCHANGED <<state, cur, fsVars, kernVars, writing>>

\* FS moved a sector through the data port (or what it takes for one).
SectorMoved ==
    IF ~drq THEN UNCHANGED <<busy, drq, sects>>
    ELSE /\ drq' = FALSE
         /\ IF writing
            THEN busy' = TRUE /\ UNCHANGED sects
            ELSE sects' = sects - 1 /\ busy' = (sects > 1)

-----------------------------------------------------------------------------
(* The kernel. *)

\* Mutant: the handler only records the interrupt.
HandlerNoWake ==
    /\ irq
    /\ irq'    = FALSE
    /\ intred' = TRUE
    /\ UNCHANGED <<state, cur, fsVars, waitTid, diskVars>>

\* hdisk(): it neither clears intred nor wait_tid when it wakes FS.
Handler ==
    /\ irq
    /\ irq'    = FALSE
    /\ intred' = TRUE
    /\ IF waitTid THEN CPU!WakeUp(FS) ELSE UNCHANGED <<state, cur>>
    /\ UNCHANGED <<fsVars, waitTid, diskVars>>

Tick ==
    /\ CPU!Tick
    /\ UNCHANGED <<fsVars, kernVars, diskVars, irq>>

\* The other threads sleep and wake each other in ways FS has no part in.
Others ==
    /\ \/ cur # FS /\ CPU!SleepOn(cur)
       \/ CPU!WakeUp("other")
    /\ UNCHANGED <<fsVars, kernVars, diskVars, irq>>

-----------------------------------------------------------------------------
(* FS. *)

Runs(at) == cur = FS /\ ~irq /\ pc = at

Issue(rw, n) ==
    /\ Runs("idle")
    /\ cmd' = [rw |-> rw, n |-> n]
    /\ toMove' = n
    /\ UNCHANGED <<state, cur, kernVars>>

\* set_hd_cmd when the controller is ready in time.
IssueReady(rw, n) ==
    /\ Issue(rw, n)
    /\ ~busy
    /\ pc' = IF rw = "READ" THEN "wait" ELSE "write"
    /\ sects' = n
    /\ writing' = (rw = "WRITE")
    /\ busy' = (rw = "READ")
    /\ drq' = (rw = "WRITE")
    /\ UNCHANGED irq

(* The controller is still busy after STATUS_TIMEOUT: cntler_rdy returns    *)
(* the error register, and only a zero there stops FS.  A busy disk does    *)
(* not take the command.                                                    *)
IssueTimeout(rw, n) ==
    /\ Issue(rw, n)
    /\ busy
    /\ pc' \in {"crashed", IF rw = "READ" THEN "wait" ELSE "write"}
    /\ UNCHANGED <<diskVars, irq>>

WriteSector ==
    /\ Runs("write")
    /\ SectorMoved
    /\ toMove' = toMove - 1
    /\ pc' = IF toMove = 1 THEN "wait" ELSE "write"
    /\ UNCHANGED <<state, cur, cmd, kernVars, writing, irq>>

AfterWait == IF cmd.rw = "READ" THEN "read" ELSE "idle"

\* sys_wait_hd_intr returns at once when an interrupt has come ...
WaitOver ==
    /\ Runs("wait") /\ intred
    /\ intred'  = FALSE
    /\ waitTid' = FALSE
    /\ pc' = AfterWait
    /\ UNCHANGED <<state, cur, cmd, toMove, diskVars, irq>>

\* Mutant: an interrupt that came before the call is forgotten.
WaitSleepForget ==
    /\ Runs("wait")
    /\ waitTid' = TRUE
    /\ intred' = FALSE
    /\ pc' = "waiting"
    /\ CPU!SleepOn(FS)
    /\ UNCHANGED <<cmd, toMove, diskVars, irq>>

\* ... and puts FS to sleep when none has.
WaitSleep ==
    /\ Runs("wait") /\ ~intred
    /\ waitTid' = TRUE
    /\ pc' = "waiting"
    /\ CPU!SleepOn(FS)
    /\ UNCHANGED <<cmd, toMove, intred, diskVars, irq>>

Woken ==
    /\ Runs("waiting")
    /\ pc' = AfterWait
    /\ UNCHANGED <<state, cur, cmd, toMove, kernVars, diskVars, irq>>

\* Mutant: one sector too many is read.
ReadSectorMore ==
    /\ Runs("read")
    /\ SectorMoved
    /\ toMove' = toMove - 1
    /\ pc' = IF toMove = 0 THEN "idle" ELSE "read"
    /\ UNCHANGED <<state, cur, cmd, kernVars, writing, irq>>

\* rdports moves the sectors of a block back to back.
ReadSector ==
    /\ Runs("read")
    /\ SectorMoved
    /\ toMove' = toMove - 1
    /\ pc' = IF toMove = 1 THEN "idle" ELSE "read"
    /\ UNCHANGED <<state, cur, cmd, kernVars, writing, irq>>

-----------------------------------------------------------------------------
Init ==
    /\ CPU!Init
    /\ pc = "idle" /\ cmd = [rw |-> "READ", n |-> 1] /\ toMove = 0
    /\ intred = FALSE /\ waitTid = FALSE
    /\ busy = FALSE /\ drq = FALSE /\ sects = 0 /\ writing = FALSE
    /\ irq = FALSE

Step ==
    \/ \E rw \in {"READ", "WRITE"}, n \in 1 .. MaxSects :
          IssueReady(rw, n) \/ IssueTimeout(rw, n)
    \/ WriteSector
    \/ WaitOver
    \/ WaitSleep
    \/ Woken
    \/ ReadSector

\* crash() ends in badness(), which halts the machine with interrupts off.
Next ==
    /\ pc # "crashed"
    /\ SectorDone \/ Handler \/ Tick \/ Others \/ Step

Spec == Init /\ [][Next]_vars

(* The disk finishes what it has begun, a pending interrupt is taken, and   *)
(* FS gets the CPU again and again while it can run (NoStarvation of Sched).*)
FairSpec ==
    /\ Spec
    /\ WF_vars(SectorDone)
    /\ WF_vars(Handler)
    /\ SF_vars(Tick /\ cur' = FS)
    /\ SF_vars(Step)

-----------------------------------------------------------------------------
(* Every variable keeps its type. *)
TypeOK ==
    /\ CPU!DispatchTypeOK
    /\ pc \in {"idle", "write", "wait", "waiting", "read", "crashed"}
    /\ cmd \in [rw : {"READ", "WRITE"}, n : 1 .. MaxSects]
    /\ toMove \in 0 .. MaxSects
    /\ sects \in 0 .. MaxSects
    /\ {intred, waitTid, busy, drq, writing, irq} \subseteq BOOLEAN

(* FS never sleeps in wait_hd_intr when no interrupt can come any more,     *)
(* although intred and wait_tid are set and cleared by different sides.     *)
NoLostWakeup ==
    (pc = "waiting" /\ state[FS] = "STUCK") => (busy \/ irq)

(* FS returns from every wait_hd_intr. *)
WaitEnds == (pc = "waiting") ~> (pc # "waiting")
=============================================================================
