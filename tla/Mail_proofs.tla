---------------------------- MODULE Mail_proofs ----------------------------
(***************************************************************************)
(* Theorems about Mail, for any threads, mailbox sizes and messages, and     *)
(* about SendMail, for any set of threads, whichever of them are taken, and  *)
(* any width of the counter.                                                 *)
(***************************************************************************)
EXTENDS SendMail, FiniteSetTheorems, WellFoundedInduction, TLAPS

(* What the steps below need of the types. *)
StateOK ==
    /\ state \in [Thread -> ThreadState]
    /\ cur \in Thread
    /\ req \in [Thread -> Request \cup {None}]
SlotOK ==
    /\ DOMAIN slot = Owners
    /\ \A p \in Owners : DOMAIN slot[p] = Level
    /\ \A p \in Owners, l \in Level :
          /\ DOMAIN slot[p][l] = 1 .. Size(l)
          /\ \A i \in 1 .. Size(l) : slot[p][l][i] \in Posted \cup {None}
CntOK == cnt \in [Owners -> [Level -> Int]]

IInv ==
    /\ StateOK
    /\ SlotOK
    /\ CntOK
    /\ CPU!CpuRunsRunnable
    /\ CountsMatchSlots
    /\ NoLostWakeup

-----------------------------------------------------------------------------
(* Mailboxes, and what a step does to one of their slots.                   *)

(* What the assumption says of threads and of None. *)
LEMMA ThreadFacts ==
    /\ T0 \in Thread
    /\ \A t \in Thread : t[1] \in Nat /\ (t # T0 => t[1] \in Owners)
    /\ \A p \in Owners : p # 0
    /\ None \notin Posted
BY MailAssumption DEF Owners

(* Both rows of slots have a size, and none more than their sum. *)
LEMMA SizeNat == \A l \in Level : Size(l) \in Nat /\ Size(l) <= NrSys + NrUsr
BY MailAssumption DEF Level, Size

(* The filled slots of a row can be counted. *)
LEMMA FilledFinite ==
    ASSUME NEW p, NEW l \in Level
    PROVE  IsFiniteSet(Filled(p, l)) /\ Cardinality(Filled(p, l)) \in Nat
<1>1. IsFiniteSet(1 .. Size(l))
  BY SizeNat, FS_Interval
<1>2. IsFiniteSet(Filled(p, l))
  BY <1>1, FS_Subset DEF Filled
<1> QED
  BY <1>2, FS_CardinalityType

(* While the count of a level is right, find_mb_mail sees all of its mails. *)
LEMMA ExaminesAll ==
    ASSUME SlotOK, CountsMatchSlots, NEW p \in Owners, NEW l \in Level
    PROVE  Examined(p, l) = Filled(p, l)
<1>1. ASSUME NEW i \in Filled(p, l)
      PROVE  Cardinality({j \in Filled(p, l) : j <= i}) <= Cardinality(Filled(p, l))
  BY FilledFinite, FS_Subset
<1> QED
  BY <1>1 DEF Examined, CountsMatchSlots

Sets(p, l, i, x) ==
    /\ slot'[p][l][i] = x
    /\ \A q \in Owners, k \in Level : \A j \in 1 .. Size(k) :
          (q # p \/ k # l \/ j # i) => slot'[q][k][j] = slot[q][k][j]

(* Storing into one slot keeps the shape of the mailboxes. *)
LEMMA SlotSet ==
    ASSUME SlotOK, NEW p \in Owners, NEW l \in Level, NEW i \in 1 .. Size(l),
           NEW x \in Posted \cup {None},
           slot' = [slot EXCEPT ![p][l][i] = x]
    PROVE  SlotOK' /\ Sets(p, l, i, x)
<1> DEFINE row == [slot[p][l] EXCEPT ![i] = x]
           box == [slot[p] EXCEPT ![l] = row]
<1>1. /\ DOMAIN row = 1 .. Size(l)
      /\ row[i] = x
      /\ \A j \in 1 .. Size(l) : j # i => row[j] = slot[p][l][j]
  BY DEF SlotOK
<1> HIDE DEF row
<1>2. DOMAIN box = Level /\ box[l] = row /\ \A k \in Level : k # l => box[k] = slot[p][k]
  BY DEF SlotOK
<1>3. slot' = [slot EXCEPT ![p] = box]
  BY DEF row
<1> HIDE DEF box
<1>4. DOMAIN slot' = Owners /\ slot'[p] = box /\ \A q \in Owners : q # p => slot'[q] = slot[q]
  BY <1>3 DEF SlotOK
<1>5. Sets(p, l, i, x)
  <2>1. ASSUME NEW q \in Owners, NEW k \in Level, NEW j \in 1 .. Size(k),
               q # p \/ k # l \/ j # i
        PROVE  slot'[q][k][j] = slot[q][k][j]
    <3>1. CASE q = p /\ k = l
      BY <1>1, <1>2, <1>4, <2>1, <3>1
    <3>2. CASE q = p /\ k # l
      BY <1>2, <1>4, <3>2
    <3>3. CASE q # p
      BY <1>4, <3>3
    <3> QED
      BY <3>1, <3>2, <3>3
  <2>2. slot'[p][l][i] = x
    BY <1>1, <1>2, <1>4
  <2> QED
    BY <2>1, <2>2 DEF Sets
<1>6. \A q \in Owners : DOMAIN slot'[q] = Level
  BY <1>2, <1>4 DEF SlotOK
<1>7. ASSUME NEW q \in Owners, NEW k \in Level
      PROVE  /\ DOMAIN slot'[q][k] = 1 .. Size(k)
             /\ \A j \in 1 .. Size(k) : slot'[q][k][j] \in Posted \cup {None}
  <2>1. DOMAIN slot'[q][k] = 1 .. Size(k)
    BY <1>1, <1>2, <1>4 DEF SlotOK
  <2>2. ASSUME NEW j \in 1 .. Size(k) PROVE slot'[q][k][j] \in Posted \cup {None}
    <3>1. CASE q = p /\ k = l /\ j = i
      BY <1>5, <3>1 DEF Sets
    <3>2. CASE ~(q = p /\ k = l /\ j = i)
      BY <1>5, <3>2 DEF Sets, SlotOK
    <3> QED
      BY <3>1, <3>2
  <2> QED
    BY <2>1, <2>2
<1> QED
  BY <1>4, <1>5, <1>6, <1>7 DEF SlotOK

(* Filling a slot or emptying it, with the count moved along. *)
LEMMA CountUp ==
    ASSUME SlotOK, CntOK, CountsMatchSlots,
           NEW p \in Owners, NEW l \in Level, NEW i \in 1 .. Size(l),
           i \notin Filled(p, l), NEW x \in Posted,
           Sets(p, l, i, x),
           cnt'  = [cnt EXCEPT ![p][l] = @ + 1]
    PROVE  CntOK' /\ CountsMatchSlots'
<1>1. CntOK'
  BY DEF CntOK
<1>2. ASSUME NEW q \in Owners, NEW k \in Level
      PROVE  (cnt[q][k] = Cardinality(Filled(q, k)))'
  <2>1. CASE q = p /\ k = l
    <3>0. \A j \in 1 .. Size(l) :
            slot'[p][l][j] # None <=> (slot[p][l][j] # None \/ j = i)
      BY ThreadFacts DEF Sets
    <3>1. Filled(q, k)' = Filled(p, l) \cup {i}
      BY <2>1, <3>0 DEF Filled
    <3>2. Cardinality(Filled(p, l) \cup {i}) = Cardinality(Filled(p, l)) + 1
      BY FilledFinite, FS_AddElement
    <3> QED
      BY <2>1, <3>1, <3>2 DEF CntOK, CountsMatchSlots
  <2>2. CASE ~(q = p /\ k = l)
    <3>1. Filled(q, k)' = Filled(q, k)
      BY <2>2 DEF Filled, Sets
    <3> QED
      BY <2>2, <3>1 DEF CntOK, CountsMatchSlots
  <2> QED
    BY <2>1, <2>2
<1> QED
  BY <1>1, <1>2 DEF CountsMatchSlots

(* The same for a slot that is emptied. *)
LEMMA CountDown ==
    ASSUME SlotOK, CntOK, CountsMatchSlots,
           NEW p \in Owners, NEW l \in Level, NEW i \in Filled(p, l),
           Sets(p, l, i, None),
           cnt'  = [cnt EXCEPT ![p][l] = @ - 1]
    PROVE  CntOK' /\ CountsMatchSlots'
<1>1. CntOK'
  BY DEF CntOK
<1>2. i \in 1 .. Size(l)
  BY DEF Filled
<1>3. ASSUME NEW q \in Owners, NEW k \in Level
      PROVE  (cnt[q][k] = Cardinality(Filled(q, k)))'
  <2>1. CASE q = p /\ k = l
    <3>0. \A j \in 1 .. Size(l) :
            slot'[p][l][j] # None <=> (slot[p][l][j] # None /\ j # i)
      BY DEF Sets
    <3>1. Filled(q, k)' = Filled(p, l) \ {i}
      BY <2>1, <3>0 DEF Filled
    <3>2. Cardinality(Filled(p, l) \ {i}) = Cardinality(Filled(p, l)) - 1
      BY FilledFinite, FS_RemoveElement
    <3> QED
      BY <2>1, <3>1, <3>2 DEF CntOK, CountsMatchSlots
  <2>2. CASE ~(q = p /\ k = l)
    <3>1. Filled(q, k)' = Filled(q, k)
      BY <2>2 DEF Filled, Sets
    <3> QED
      BY <2>2, <3>1 DEF CntOK, CountsMatchSlots
  <2> QED
    BY <2>1, <2>2
<1> QED
  BY <1>1, <1>3 DEF CountsMatchSlots

-----------------------------------------------------------------------------
(* The scheduler, as in HdWait_proofs: it gives the CPU to a thread that    *)
(* can run and changes no state but that of the thread it is asked about.   *)
LEMMA ScheduleKeeps ==
    ASSUME NEW st \in [Thread -> ThreadState], CPU!Schedule(st)
    PROVE  /\ state' = st
           /\ cur' \in Thread
           /\ CPU!CpuRunsRunnable'
BY ThreadFacts DEF CPU!Schedule, CPU!Ready, CPU!CpuRunsRunnable

(* The scheduler called with the state of one thread changed. *)
LEMMA SetState ==
    ASSUME StateOK, NEW t \in Thread, NEW s \in ThreadState,
           CPU!Schedule([state EXCEPT ![t] = s])
    PROVE  /\ state' \in [Thread -> ThreadState]
           /\ state'[t] = s
           /\ \A u \in Thread \ {t} : state'[u] = state[u]
           /\ cur' \in Thread
           /\ CPU!CpuRunsRunnable'
<1>1. [state EXCEPT ![t] = s] \in [Thread -> ThreadState]
  BY DEF StateOK
<1> QED
  BY <1>1, ScheduleKeeps DEF StateOK

(* sleep_on touches the thread it is given and the CPU. *)
LEMMA SleepOnKeeps ==
    ASSUME StateOK, CPU!CpuRunsRunnable, NEW t \in Thread, CPU!SleepOn(t)
    PROVE  /\ state' \in [Thread -> ThreadState]
           /\ state'[t] = "STUCK"
           /\ \A u \in Thread \ {t} : state'[u] = state[u]
           /\ cur' \in Thread
           /\ CPU!CpuRunsRunnable'
<1>1. CASE state[t] = "STUCK"
  BY <1>1 DEF StateOK, CPU!SleepOn, CPU!dispatchVars, CPU!CpuRunsRunnable, CPU!Ready
<1>2. CASE state[t] # "STUCK"
  BY <1>2, SetState DEF CPU!SleepOn, ThreadState
<1> QED
  BY <1>1, <1>2

(* wake_up gives the CPU to a thread it has woken. *)
LEMMA WakeUpKeeps ==
    ASSUME StateOK, CPU!CpuRunsRunnable, NEW t \in Thread, CPU!WakeUp(t)
    PROVE  /\ state' \in [Thread -> ThreadState]
           /\ state'[t] = "RUNNING"
           /\ state[t] # "RUNNING" => cur' = t
           /\ \A u \in Thread \ {t} : state'[u] = state[u]
           /\ cur' \in Thread
           /\ CPU!CpuRunsRunnable'
<1>1. CASE state[t] = "RUNNING"
  BY <1>1 DEF StateOK, CPU!WakeUp, CPU!dispatchVars, CPU!CpuRunsRunnable, CPU!Ready
<1>2. CASE state[t] # "RUNNING"
  BY <1>2 DEF StateOK, CPU!WakeUp, CPU!CpuRunsRunnable, CPU!Ready, ThreadState
<1> QED
  BY <1>1, <1>2

\* The calling thread is awake: only T0 may hold the CPU while it sleeps.
LEMMA CallerRuns ==
    ASSUME StateOK, CPU!CpuRunsRunnable, cur # T0
    PROVE  state[cur] = "RUNNING"
BY DEF CPU!CpuRunsRunnable, CPU!Ready

-----------------------------------------------------------------------------
(* The invariant, one lemma for each kind of step.                          *)

(* All mailboxes are empty at first. *)
LEMMA InitIInv == Init => IInv
<1> SUFFICES ASSUME Init PROVE IInv
  OBVIOUS
<1>1. StateOK /\ CPU!CpuRunsRunnable
  BY ThreadFacts DEF Init, CPU!Init, StateOK, ThreadState, CPU!CpuRunsRunnable, CPU!Ready
<1>2. SlotOK /\ CntOK
  BY DEF Init, SlotOK, CntOK
<1>3. \A p \in Owners, l \in Level : Filled(p, l) = {}
  BY DEF Init, Filled
<1>4. CountsMatchSlots
  BY <1>3, FS_EmptySet DEF Init, CountsMatchSlots
<1>5. NoLostWakeup
  BY ThreadFacts DEF Init, CPU!Init, NoLostWakeup
<1> QED
  BY <1>1, <1>2, <1>4, <1>5 DEF IInv

(* The mail of a thread that waits: none that answers it. *)
Unanswered(t) ==
    /\ req[t] # None
    /\ \A l \in Level : \A i \in Filled(t[1], l) :
          ~(slot[t[1]][l][i].dst = t /\ Matches(slot[t[1]][l][i], req[t]))

(* Steps that leave the mailboxes alone and put nobody to sleep in a getm().*)
LEMMA MailUntouched ==
    ASSUME IInv, UNCHANGED <<slot, cnt, req>>,
           state' \in [Thread -> ThreadState], cur' \in Thread, CPU!CpuRunsRunnable',
           \A t \in Thread : state'[t] = "RECVING" => state[t] = "RECVING"
    PROVE  IInv'
<1>1. NoLostWakeup'
  BY DEF IInv, NoLostWakeup, Filled
<1> QED
  BY <1>1 DEF IInv, StateOK, SlotOK, CntOK, CountsMatchSlots, Filled

(* postmail into a free slot wakes the addressee if it waits. *)
LEMMA DepositIInv ==
    ASSUME IInv, NEW t \in Thread, NEW d \in Addressable(t), NEW l \in Level,
           NEW m \in Msg, NEW i \in 1 .. Size(l), Deposit(t, d, l, m, i)
    PROVE  IInv'
<1> DEFINE x == [src |-> t, dst |-> d, level |-> l, msg |-> m]
<1>1. d \in Thread /\ d[1] \in Owners
  BY ThreadFacts, MailAssumption DEF Addressable
<1>2. x \in Posted
  BY <1>1 DEF Posted
<1>3. SlotOK' /\ Sets(d[1], l, i, x)
  BY <1>1, <1>2, SlotSet DEF IInv, Deposit
<1>4. CntOK' /\ CountsMatchSlots'
  BY <1>1, <1>2, <1>3, CountUp DEF IInv, Deposit, EmptySlot
<1>5. /\ state' \in [Thread -> ThreadState]
      /\ state'[d] # "RECVING"
      /\ \A u \in Thread \ {d} : state'[u] = state[u]
      /\ \A u \in Thread : state[u] = "RUNNING" => state'[u] = "RUNNING"
      /\ UNCHANGED <<cur, req>>
  BY <1>1 DEF IInv, StateOK, Deposit, ThreadState
<1>6. StateOK' /\ CPU!CpuRunsRunnable'
  BY <1>5 DEF IInv, StateOK, CPU!CpuRunsRunnable, CPU!Ready
<1>7. ASSUME NEW u \in Thread \ {T0}, state'[u] = "RECVING"
      PROVE  Unanswered(u)'
  <2>1. u # d /\ state[u] = "RECVING" /\ Unanswered(u)
    BY <1>1, <1>5, <1>7 DEF IInv, NoLostWakeup, Unanswered
  <2>2. ASSUME NEW k \in Level, NEW j \in Filled(u[1], k)'
        PROVE  ~(slot'[u[1]][k][j].dst = u /\ Matches(slot'[u[1]][k][j], req[u]))
    <3>1. CASE u[1] = d[1] /\ k = l /\ j = i
      BY <1>3, <2>1, <3>1 DEF Sets
    <3>2. CASE ~(u[1] = d[1] /\ k = l /\ j = i)
      <4>1. slot'[u[1]][k][j] = slot[u[1]][k][j] /\ j \in Filled(u[1], k)
        BY <1>3, <2>2, <3>2, ThreadFacts DEF Sets, Filled
      <4> QED
        BY <2>1, <4>1 DEF Unanswered
    <3> QED
      BY <3>1, <3>2
  <2> QED
    BY <1>5, <2>1, <2>2 DEF Unanswered
<1> QED
  BY <1>3, <1>4, <1>6, <1>7 DEF IInv, NoLostWakeup, Unanswered

(* postmail into a full mailbox only puts the caller to sleep. *)
LEMMA WaitForSlotIInv ==
    ASSUME IInv, NEW t \in Thread, NEW d, NEW l, WaitForSlot(t, d, l)
    PROVE  IInv'
<1>1. /\ state' \in [Thread -> ThreadState]
      /\ state'[t] = "FULL_WAIT"
      /\ \A u \in Thread \ {t} : state'[u] = state[u]
      /\ cur' \in Thread /\ CPU!CpuRunsRunnable'
  BY SetState DEF IInv, WaitForSlot, ThreadState
<1> QED
  BY <1>1, MailUntouched DEF WaitForSlot

(* The scheduler runs in TakeMail only if the sender was sending.           *)
LEMMA TakeMailStates ==
    ASSUME IInv, NEW t \in Thread, NEW l \in Level, NEW i \in Filled(t[1], l),
           t # T0, TakeMail(t, l, i)
    PROVE  /\ state' \in [Thread -> ThreadState]
           /\ \A u \in Thread :
                 state'[u] # state[u] => state[u] = "SENDING" /\ state'[u] = "RUNNING"
           /\ cur' \in Thread /\ CPU!CpuRunsRunnable'
<1> DEFINE src == slot[t[1]][l][i].src
<1>1. src \in Thread
  BY ThreadFacts DEF IInv, SlotOK, Filled, Posted
<1>2. CASE state[src] = "SENDING"
  <2>1. CPU!Schedule([state EXCEPT ![src] = "RUNNING"])
    BY <1>2 DEF TakeMail
  <2> HIDE DEF src
  <2> QED
    BY <1>1, <1>2, <2>1, SetState DEF IInv, ThreadState
<1>3. CASE state[src] # "SENDING"
  BY <1>3 DEF TakeMail, IInv, StateOK, CPU!CpuRunsRunnable, CPU!Ready
<1> QED
  BY <1>2, <1>3

(* Picking a mail takes an answer from nobody else: it was to the caller. *)
LEMMA TakeMailIInv ==
    ASSUME IInv, NEW t \in Thread, NEW l \in Level, NEW i \in Filled(t[1], l),
           t # T0, cur = t, TakeMail(t, l, i)
    PROVE  IInv'
<1>1. t[1] \in Owners /\ i \in 1 .. Size(l)
  BY ThreadFacts DEF Filled
<1>2. SlotOK' /\ Sets(t[1], l, i, None)
  BY <1>1, SlotSet DEF IInv, TakeMail
<1>3. CntOK' /\ CountsMatchSlots'
  BY <1>1, <1>2, CountDown DEF IInv, TakeMail
<1>4. /\ state' \in [Thread -> ThreadState]
      /\ \A u \in Thread : state'[u] = "RECVING" => state[u] = "RECVING"
      /\ cur' \in Thread /\ CPU!CpuRunsRunnable'
  BY TakeMailStates
<1>5. req' = [req EXCEPT ![t] = None]
  BY DEF TakeMail
<1>6. StateOK'
  BY <1>4, <1>5 DEF IInv, StateOK
<1>7. ASSUME NEW u \in Thread \ {T0}, state'[u] = "RECVING"
      PROVE  Unanswered(u)'
  <2>1. u # t /\ Unanswered(u)
    BY <1>4, <1>7, CallerRuns DEF IInv, NoLostWakeup, Unanswered
  <2>2. req'[u] = req[u]
    BY <1>5, <2>1 DEF IInv, StateOK
  <2>3. ASSUME NEW k \in Level, NEW j \in Filled(u[1], k)'
        PROVE  slot'[u[1]][k][j] = slot[u[1]][k][j] /\ j \in Filled(u[1], k)
    <3>1. ~(u[1] = t[1] /\ k = l /\ j = i)
      BY <1>2, <2>3 DEF Sets, Filled
    <3> QED
      BY <1>2, <2>3, <3>1, ThreadFacts DEF Sets, Filled
  <2> QED
    BY <2>1, <2>2, <2>3 DEF Unanswered
<1> QED
  BY <1>2, <1>3, <1>4, <1>6, <1>7 DEF IInv, NoLostWakeup, Unanswered

(* find_mb_mail found nothing and the counts are right: there is nothing.   *)
LEMMA AwaitMailIInv ==
    ASSUME IInv, NEW t \in Thread, NEW r \in Request, t # T0, cur = t, AwaitMail(t, r)
    PROVE  IInv'
<1>1. /\ state' \in [Thread -> ThreadState]
      /\ \A u \in Thread \ {t} : state'[u] = state[u]
      /\ cur' \in Thread /\ CPU!CpuRunsRunnable'
  BY SetState DEF IInv, AwaitMail, ThreadState
<1>2. req' = [req EXCEPT ![t] = r] /\ UNCHANGED <<slot, cnt>>
  BY DEF AwaitMail
<1>3. StateOK' /\ SlotOK' /\ CntOK' /\ CountsMatchSlots'
  BY <1>1, <1>2 DEF IInv, StateOK, SlotOK, CntOK, CountsMatchSlots, Filled
<1>4. req'[t] = r /\ r # None
  BY <1>2, MailAssumption DEF IInv, StateOK, Request
<1>5. \A l \in Level : Examined(t[1], l) = Filled(t[1], l)
  BY ExaminesAll, ThreadFacts DEF IInv
<1>6. Unanswered(t)'
  BY <1>2, <1>4, <1>5 DEF AwaitMail, Answers, Unanswered, Filled
<1>7. ASSUME NEW u \in Thread \ {T0, t}, state'[u] = "RECVING"
      PROVE  Unanswered(u)'
  BY <1>1, <1>2, <1>7 DEF IInv, StateOK, NoLostWakeup, Unanswered, Filled
<1> QED
  BY <1>1, <1>3, <1>6, <1>7 DEF IInv, NoLostWakeup, Unanswered

(* Both outcomes of pickmail. *)
LEMMA PickMailIInv ==
    ASSUME IInv, NEW t \in Thread, NEW r \in Request, PickMail(t, r)
    PROVE  IInv'
<1>1. CASE AwaitMail(t, r)
  BY <1>1, AwaitMailIInv DEF PickMail
<1>2. ASSUME NEW l \in Level, NEW i \in 1 .. Size(l), FirstMail(t, r, l, i), TakeMail(t, l, i)
      PROVE  IInv'
  <2>1. i \in Filled(t[1], l)
    BY <1>2 DEF FirstMail, Answers, Examined
  <2> QED
    BY <1>2, <2>1, TakeMailIInv DEF PickMail
<1> QED
  BY <1>1, <1>2 DEF PickMail

(* The calls that only move threads between RUNNING and STUCK.              *)
LEMMA SleepIInv ==
    ASSUME IInv, NEW u \in Thread, CPU!SleepOn(u), UNCHANGED <<slot, cnt, req>>
    PROVE  IInv'
<1>1. CPU!CpuRunsRunnable /\ StateOK
  BY DEF IInv
<1> QED
  BY <1>1, SleepOnKeeps, MailUntouched

(* unblock() wakes a thread and leaves the mailboxes alone. *)
LEMMA WakeIInv ==
    ASSUME IInv, NEW u \in Thread, CPU!WakeUp(u), UNCHANGED <<slot, cnt, req>>
    PROVE  IInv'
<1>1. CPU!CpuRunsRunnable /\ StateOK
  BY DEF IInv
<1> QED
  BY <1>1, WakeUpKeeps, MailUntouched

(* A clock tick leaves the mailboxes alone. *)
LEMMA TickIInv == IInv /\ Tick => IInv'
<1> SUFFICES ASSUME IInv, Tick PROVE IInv'
  OBVIOUS
<1>1. cur \in Thread /\ CPU!Schedule([state EXCEPT ![cur] = "RUNNING"])
  BY DEF IInv, StateOK, Tick, CPU!Tick
<1> QED
  BY <1>1, SetState, MailUntouched DEF IInv, Tick, ThreadState

(* Every step keeps the invariant. *)
LEMMA NextIInv == IInv /\ [Next]_mailVars => IInv'
<1> SUFFICES ASSUME IInv, [Next]_mailVars PROVE IInv'
  OBVIOUS
<1>1. CASE UNCHANGED mailVars
  BY <1>1, MailUntouched DEF IInv, StateOK, mailVars, CPU!CpuRunsRunnable, CPU!Ready
<1>2. ASSUME NEW t \in Thread, NEW d \in Thread, NEW l \in Level, NEW m \in Msg,
             PostMail(t, d, l, m)
      PROVE  IInv'
  BY <1>2, DepositIInv, WaitForSlotIInv DEF PostMail
<1>3. ASSUME NEW t \in Thread, Pause(t) PROVE IInv'
  BY <1>3, SleepIInv DEF Pause
<1>4. ASSUME NEW t \in Thread, NEW u \in Thread, Block(t, u) \/ Unblock(t, u) PROVE IInv'
  BY <1>4, SleepIInv, WakeIInv DEF Block, Unblock
<1> QED
  BY <1>1, <1>2, <1>3, <1>4, TickIInv, PickMailIInv DEF Next

-----------------------------------------------------------------------------
(* The invariant holds in every reachable state. *)
LEMMA Invariance == Spec => []IInv
BY InitIInv, NextIInv, PTL DEF Spec

(* postmail and pickmail keep mb_sys_cnt and mb_usr_cnt equal to the filled *)
(* slots, whatever the threads post, pick and interrupt (msgcall.c:94-120). *)
THEOREM CountsNeverDrift == Spec => []CountsMatchSlots
<1>1. IInv => CountsMatchSlots
  BY DEF IInv
<1> QED
  BY <1>1, Invariance, PTL

(* No thread sleeps in pickmail while a mail that answers its request lies  *)
(* in its mailbox (post.c:68-73 against pick.c:60-66).                      *)
THEOREM MailNeverSleptOver == Spec => []NoLostWakeup
<1>1. IInv => NoLostWakeup
  BY DEF IInv
<1> QED
  BY <1>1, Invariance, PTL

-----------------------------------------------------------------------------
(* Types: what is left of them is the wait queue, which keeps at most two    *)
(* entries because its tail never moves.                                    *)
Queued ==
    /\ DOMAIN waitq = Owners
    /\ \A p \in Owners : waitq[p] \in Seq(Thread) /\ Len(waitq[p]) <= 2

\* Nobody waits at first.
LEMMA InitQueued == Init => Queued
BY DEF Init, Queued

(* A caller that waits comes first or second. *)
LEMMA WaitQueued ==
    ASSUME Queued, NEW t \in Thread, NEW d, NEW l, WaitForSlot(t, d, l)
    PROVE  Queued'
<1>1. /\ DOMAIN waitq' = Owners
      /\ \A p \in Owners :
            \/ waitq'[p] = waitq[p]
            \/ waitq'[p] = <<t>>
            \/ waitq[p] # <<>> /\ waitq'[p] = <<Head(waitq[p]), t>>
  BY DEF Queued, WaitForSlot
<1>2. ASSUME NEW p \in Owners
      PROVE  waitq'[p] \in Seq(Thread) /\ Len(waitq'[p]) <= 2
  <2>1. CASE waitq'[p] = waitq[p]
    BY <2>1 DEF Queued
  <2>2. CASE waitq'[p] = <<t>>
    BY <2>2
  <2>3. CASE waitq[p] # <<>> /\ waitq'[p] = <<Head(waitq[p]), t>>
    <3>1. Head(waitq[p]) \in Thread
      BY <2>3 DEF Queued
    <3> QED
      BY <2>3, <3>1
  <2> QED
    BY <1>1, <2>1, <2>2, <2>3
<1> QED
  BY <1>1, <1>2 DEF Queued

(* No other call touches the queue. *)
LEMMA NextQueued == Queued /\ [Next]_mailVars => Queued'
<1> SUFFICES ASSUME Queued, [Next]_mailVars PROVE Queued'
  OBVIOUS
<1>1. ASSUME UNCHANGED waitq PROVE Queued'
  BY <1>1 DEF Queued
<1>2. ASSUME NEW t \in Thread, NEW d \in Thread, NEW l \in Level, NEW m \in Msg,
             PostMail(t, d, l, m)
      PROVE  Queued'
  BY <1>1, <1>2, WaitQueued DEF PostMail, Deposit
<1>3. ASSUME NEW t \in Thread, NEW r \in Request, PickMail(t, r) PROVE Queued'
  BY <1>1, <1>3 DEF PickMail, TakeMail, AwaitMail
<1>4. ASSUME NEW t \in Thread, Pause(t) \/ \E u \in Thread : Block(t, u) \/ Unblock(t, u)
      PROVE  Queued'
  BY <1>1, <1>4 DEF Pause, Block, Unblock
<1>5. Tick \/ UNCHANGED mailVars => Queued'
  BY <1>1 DEF Tick, mailVars
<1> QED
  BY <1>2, <1>3, <1>4, <1>5 DEF Next

(* What is recorded of a pick is who called and what it asked for. *)
ServedOK == served \in Served \cup {None}

LEMMA NextServed ==
    /\ Init => ServedOK
    /\ ServedOK /\ [Next]_mailVars => ServedOK'
<1>1. Init => ServedOK
  BY DEF Init, ServedOK
<1>2. ASSUME ServedOK, [Next]_mailVars PROVE ServedOK'
  <2>1. ASSUME NEW t \in Thread, NEW r \in Request, PickMail(t, r) PROVE ServedOK'
    BY <2>1 DEF PickMail, ServedOK, Served
  <2>2. ASSUME NEW t \in Thread, NEW d \in Thread, NEW l \in Level, NEW m \in Msg,
               PostMail(t, d, l, m)
        PROVE  ServedOK'
    BY <2>2 DEF PostMail, ServedOK
  <2>3. ASSUME NEW t \in Thread, Pause(t) \/ \E u \in Thread : Block(t, u) \/ Unblock(t, u)
        PROVE  ServedOK'
    BY <2>3 DEF Pause, Block, Unblock, ServedOK
  <2>4. CASE Tick \/ UNCHANGED mailVars
    BY <1>2, <2>4 DEF Tick, mailVars, ServedOK
  <2> QED
    BY <1>2, <2>1, <2>2, <2>3, <2>4 DEF Next
<1> QED
  BY <1>1, <1>2

(* A count that matches the slots is none but a number of slots. *)
LEMMA CountBounded ==
    ASSUME IInv PROVE cnt \in [Owners -> [Level -> 0 .. (NrSys + NrUsr)]]
<1>1. ASSUME NEW p \in Owners, NEW l \in Level
      PROVE  cnt[p][l] \in 0 .. (NrSys + NrUsr)
  <2>1. Size(l) \in Nat /\ Size(l) <= NrSys + NrUsr
    BY SizeNat
  <2>2. IsFiniteSet(1 .. Size(l)) /\ Cardinality(1 .. Size(l)) = Size(l)
    BY <2>1, FS_Interval
  <2>3. Cardinality(Filled(p, l)) <= Size(l)
    BY <2>2, FS_Subset DEF Filled
  <2> QED
    BY <2>1, <2>3, FilledFinite, MailAssumption DEF IInv, CountsMatchSlots
<1> QED
  BY <1>1 DEF IInv, CntOK

(* The types, and with them that no mailbox counts more mail than it has     *)
(* slots and its wait queue keeps at most two entries (post.c:51-65).        *)
THEOREM MailboxesTyped == Spec => []TypeOK
<1>1. IInv /\ Queued /\ ServedOK => TypeOK
  BY CountBounded DEF IInv, StateOK, SlotOK, Queued, ServedOK, TypeOK, CPU!DispatchTypeOK
<1> QED
  BY <1>1, Invariance, InitQueued, NextQueued, NextServed, PTL DEF Spec

-----------------------------------------------------------------------------
(* Who may wake a thread that sleeps in pickmail or postmail.               *)

(* A mail wakes its addressee only. *)
LEMMA DepositWakes ==
    ASSUME IInv, NEW t \in Thread, NEW d \in Addressable(t), NEW l \in Level,
           NEW m \in Msg, NEW i \in 1 .. Size(l), Deposit(t, d, l, m, i),
           NEW u \in Thread, Wakes(u)
    PROVE  ByMail(u)
<1> DEFINE x == [src |-> t, dst |-> d, level |-> l, msg |-> m]
<1>1. d \in Thread /\ d[1] \in Owners
  BY ThreadFacts, MailAssumption DEF Addressable
<1>2. x \in Posted /\ x # None
  BY <1>1, ThreadFacts DEF Posted
<1>3. slot[d[1]][l][i] = None /\ slot'[d[1]][l][i] = x
  <2>1. slot[d[1]][l][i] = None
    BY DEF Deposit, EmptySlot, Filled
  <2>2. slot' = [slot EXCEPT ![d[1]][l][i] = x]
    BY DEF Deposit
  <2> HIDE DEF x
  <2>3. Sets(d[1], l, i, x)
    BY <1>1, <1>2, <2>2, SlotSet DEF IInv
  <2> QED
    BY <2>1, <2>3 DEF Sets
<1>4. u = d /\ state[u] = "RECVING"
  BY DEF IInv, StateOK, Deposit, Wakes
<1>5. i \in 1 .. (NrSys + NrUsr)
  BY SizeNat, MailAssumption
<1> QED
  BY <1>2, <1>3, <1>4, <1>5 DEF ByMail

(* Every way to wake a thread that sleeps in a mail call. *)
LEMMA StepWakes ==
    ASSUME IInv, Next, NEW u \in Thread, Wakes(u)
    PROVE  ByMail(u) \/ BySibling(u)
<1>1. CASE Tick
  <2>1. cur \in Thread /\ CPU!Schedule([state EXCEPT ![cur] = "RUNNING"])
    BY <1>1 DEF IInv, StateOK, Tick, CPU!Tick
  <2> QED
    BY <2>1, SetState DEF IInv, Wakes, ThreadState
<1>2. ASSUME NEW t \in Thread, Pause(t) \/ \E v \in Thread : Block(t, v)
      PROVE  ~Wakes(u)
  BY <1>2, SleepOnKeeps DEF IInv, Pause, Block, Wakes
<1>3. ASSUME NEW t \in Thread, NEW v \in Thread, Unblock(t, v)
      PROVE  BySibling(u)
  BY <1>3, WakeUpKeeps DEF IInv, Unblock, Calls, Wakes, BySibling
<1>4. ASSUME NEW t \in Thread, NEW r \in Request, PickMail(t, r)
      PROVE  ~Wakes(u)
  <2>1. CASE AwaitMail(t, r)
    BY <2>1, SetState DEF IInv, AwaitMail, Wakes, ThreadState
  <2>2. ASSUME NEW l \in Level, NEW i \in 1 .. Size(l),
               FirstMail(t, r, l, i), TakeMail(t, l, i)
        PROVE  ~Wakes(u)
    <3>1. i \in Filled(t[1], l)
      BY <2>2 DEF FirstMail, Answers, Examined
    <3> QED
      BY <1>4, <2>2, <3>1, TakeMailStates DEF PickMail, Wakes
  <2> QED
    BY <1>4, <2>1, <2>2 DEF PickMail
<1>5. ASSUME NEW t \in Thread, NEW d \in Thread, NEW l \in Level, NEW m \in Msg,
             PostMail(t, d, l, m)
      PROVE  ByMail(u)
  <2>1. CASE WaitForSlot(t, d, l)
    BY <2>1, SetState DEF IInv, WaitForSlot, Wakes, ThreadState
  <2> QED
    BY <1>5, <2>1, DepositWakes DEF PostMail
<1> QED
  BY <1>1, <1>2, <1>3, <1>4, <1>5 DEF Next

(* A thread asleep in pickmail or postmail is woken only by a mail to it or *)
(* by an unblock() of its own process that hands it the CPU.                *)
THEOREM OnlyMailWakes == Spec => WakesOnlyAddressee
<1>1. IInv /\ [Next]_mailVars =>
        [\A t \in Thread : Wakes(t) => ByMail(t) \/ BySibling(t)]_mailVars
  BY StepWakes
<1> QED
  BY <1>1, Invariance, PTL DEF Spec, WakesOnlyAddressee

-----------------------------------------------------------------------------
(* The mailboxes implement Delivery.  System-level mail goes first only     *)
(* because a mail lies in the mailbox of its addressee's process, among the *)
(* slots of its level.                                                      *)

Placed ==
    \A p \in Owners, l \in Level : \A i \in Filled(p, l) :
        slot[p][l][i].dst[1] = p /\ slot[p][l][i].level = l

(* A ticket names a slot. *)
LEMMA TicketIs ==
    \A k : k \in Ticket <=>
              \E p \in Owners, l \in Level : \E i \in 1 .. Size(l) : k = <<p, l, i>>
BY SizeNat, MailAssumption DEF Ticket

(* What a step does to the mailboxes, if anything.                          *)
Posts(p, l, i, x) ==
    /\ slot[p][l][i] = None /\ x \in Posted /\ x.dst[1] = p /\ x.level = l
    /\ Sets(p, l, i, x)
    /\ served' = None

Picks(t, l, i, r) ==
    /\ i \in Filled(t[1], l) /\ Sets(t[1], l, i, None)
    /\ slot[t[1]][l][i].dst = t /\ Matches(slot[t[1]][l][i], r)
    /\ l = "USR" => Answers(t, r, "SYS") = {}
    /\ served' = [thread |-> t, asked |-> r]

(* Every step posts one mail, gives its caller one, or leaves all mailboxes  *)
(* alone.                                                                    *)
LEMMA MailboxStep ==
    ASSUME IInv, [Next]_mailVars
    PROVE  \/ UNCHANGED slot /\ (served' = None \/ UNCHANGED served)
           \/ \E p \in Owners, l \in Level : \E i \in 1 .. Size(l) :
                 \E x \in Posted : Posts(p, l, i, x)
           \/ \E t \in Thread, l \in Level : \E i \in 1 .. Size(l) :
                 t[1] \in Owners /\ \E r \in Request : Picks(t, l, i, r)
<1>1. ASSUME NEW t \in Thread, NEW d \in Thread, NEW l \in Level, NEW m \in Msg,
             d \in Addressable(t), served' = None,
             NEW i \in 1 .. Size(l), Deposit(t, d, l, m, i)
      PROVE  d[1] \in Owners /\ \E x \in Posted : Posts(d[1], l, i, x)
  <2> DEFINE x == [src |-> t, dst |-> d, level |-> l, msg |-> m]
  <2>1. d[1] \in Owners
    BY <1>1, ThreadFacts, MailAssumption DEF Addressable
  <2>2. x \in Posted /\ x.dst[1] = d[1] /\ x.level = l
    BY DEF Posted
  <2>3. slot[d[1]][l][i] = None
    BY <1>1 DEF Deposit, EmptySlot, Filled
  <2>4. slot' = [slot EXCEPT ![d[1]][l][i] = x]
    BY <1>1 DEF Deposit
  <2> HIDE DEF x
  <2>5. Sets(d[1], l, i, x)
    BY <2>1, <2>2, <2>4, SlotSet DEF IInv
  <2> QED
    BY <1>1, <2>1, <2>2, <2>3, <2>5 DEF Posts
<1>2. ASSUME NEW t \in Thread, NEW r \in Request, PickMail(t, r),
             NEW l \in Level, NEW i \in 1 .. Size(l),
             FirstMail(t, r, l, i), TakeMail(t, l, i),
             served' = [thread |-> t, asked |-> r]
      PROVE  t[1] \in Owners /\ Picks(t, l, i, r)
  <2>1. t[1] \in Owners
    BY <1>2, ThreadFacts DEF PickMail
  <2>2. /\ i \in Filled(t[1], l)
        /\ slot[t[1]][l][i].dst = t /\ Matches(slot[t[1]][l][i], r)
        /\ l = "USR" => Answers(t, r, "SYS") = {}
    BY <1>2 DEF FirstMail, Answers, Examined
  <2>3. Sets(t[1], l, i, None)
    BY <1>2, <2>1, SlotSet DEF IInv, TakeMail
  <2> QED
    BY <1>2, <2>1, <2>2, <2>3 DEF Picks
<1>3. ASSUME NEW t \in Thread, Pause(t) \/ \E u \in Thread : Block(t, u) \/ Unblock(t, u)
      PROVE  UNCHANGED slot /\ served' = None
  BY <1>3 DEF Pause, Block, Unblock
<1>4. /\ Tick => UNCHANGED slot /\ served' = None
      /\ UNCHANGED mailVars => UNCHANGED <<slot, served>>
  BY DEF Tick, mailVars
<1>5. ASSUME NEW t \in Thread, NEW r \in Request, AwaitMail(t, r) PROVE UNCHANGED slot
  BY <1>5 DEF AwaitMail
<1>6. ASSUME NEW t \in Thread, NEW d \in Thread, NEW l \in Level, WaitForSlot(t, d, l)
      PROVE  UNCHANGED slot
  BY <1>6 DEF WaitForSlot
<1> QED
  BY <1>1, <1>2, <1>3, <1>4, <1>5, <1>6 DEF Next, PostMail, PickMail

(* Mails stay in the mailbox and the row they were put into. *)
LEMMA PlacedStep == IInv /\ Placed /\ [Next]_mailVars => Placed'
<1> SUFFICES ASSUME IInv, Placed, [Next]_mailVars,
                    NEW q \in Owners, NEW k \in Level, NEW j \in Filled(q, k)'
             PROVE  slot'[q][k][j].dst[1] = q /\ slot'[q][k][j].level = k
  BY DEF Placed
<1>1. CASE UNCHANGED slot
  BY <1>1 DEF Placed, Filled
<1>2. ASSUME NEW p \in Owners, NEW l \in Level, NEW i \in 1 .. Size(l),
             NEW x, x = None \/ (x \in Posted /\ x.dst[1] = p /\ x.level = l),
             Sets(p, l, i, x)
      PROVE  slot'[q][k][j].dst[1] = q /\ slot'[q][k][j].level = k
  <2>1. CASE q = p /\ k = l /\ j = i
    BY <1>2, <2>1 DEF Sets, Filled
  <2>2. CASE ~(q = p /\ k = l /\ j = i)
    BY <1>2, <2>2 DEF Sets, Filled, Placed
  <2> QED
    BY <2>1, <2>2
<1> QED
  BY <1>1, <1>2, MailboxStep DEF Posts, Picks

(* The pending mails are the filled slots, before a step ... *)
LEMMA PendingIs ==
    \A y : y \in Pending <=>
        \E p \in Owners, l \in Level : \E i \in Filled(p, l) :
            y = <<<<p, l, i>>, slot[p][l][i]>>
BY TicketIs DEF Pending, At, Filled

(* ... and after it. *)
LEMMA PendingIsNext ==
    \A y : y \in Pending' <=>
        \E p \in Owners, l \in Level : \E i \in Filled(p, l)' :
            y = <<<<p, l, i>>, slot'[p][l][i]>>
BY TicketIs DEF Pending, At, Filled

(* Accepting a mail is Post ...                                             *)
LEMMA PostMaps ==
    ASSUME NEW p \in Owners, NEW l \in Level, NEW i \in 1 .. Size(l), NEW x \in Posted,
           Posts(p, l, i, x)
    PROVE  \E z \in Pending' : D!Post(z)
<1>1. \A y \in Pending : y[1] # <<p, l, i>>
  BY PendingIs DEF Posts, Filled
<1>2. \A q \in Owners, k \in Level : \A j :
        j \in Filled(q, k)' <=> (j \in Filled(q, k) \/ (q = p /\ k = l /\ j = i))
  BY ThreadFacts DEF Posts, Sets, Filled
<1>3. ASSUME NEW y PROVE y \in Pending' <=> y \in Pending \cup {<<<<p, l, i>>, x>>}
  BY <1>2, PendingIs, PendingIsNext DEF Posts, Sets, Filled
<1>4. D!Post(<<<<p, l, i>>, x>>)
  BY <1>1, <1>3, TicketIs DEF D!Post, Posts
<1> QED
  BY <1>3, <1>4

(* ... and picking one is Pick, by the thread it is to.                     *)
LEMMA PickMaps ==
    ASSUME IInv, Placed, NEW t \in Thread, t[1] \in Owners,
           NEW l \in Level, NEW i \in 1 .. Size(l), NEW r \in Request,
           Picks(t, l, i, r)
    PROVE  D!Pick(t, <<<<t[1], l, i>>, slot[t[1]][l][i]>>, r)
<1> DEFINE m == slot[t[1]][l][i]
           x == <<<<t[1], l, i>>, m>>
<1>1. \A q \in Owners, k \in Level : \A j :
        j \in Filled(q, k)' <=> (j \in Filled(q, k) /\ ~(q = t[1] /\ k = l /\ j = i))
  BY DEF Picks, Sets, Filled
<1>2. ASSUME NEW y PROVE y \in Pending' <=> y \in Pending \ {x}
  BY <1>1, PendingIs, PendingIsNext DEF Picks, Sets, Filled
<1>3. ASSUME m.level = "USR", NEW y \in Pending, y[2].dst = t, y[2].level = "SYS"
      PROVE  ~Matches(y[2], r)
  <2>1. PICK q \in Owners, k \in Level : \E j \in Filled(q, k) :
            y = <<<<q, k, j>>, slot[q][k][j]>>
    BY PendingIs
  <2>2. PICK j \in Filled(q, k) : y = <<<<q, k, j>>, slot[q][k][j]>>
    BY <2>1
  <2>3. q = t[1] /\ k = "SYS" /\ l = "USR"
    BY <1>3, <2>2 DEF Placed, Picks
  <2>4. j \in Examined(q, k)
    BY ExaminesAll DEF IInv
  <2> QED
    BY <1>3, <2>2, <2>3, <2>4 DEF Picks, Answers
<1>4. m.dst = t /\ Matches(m, r) /\ served' = [thread |-> t, asked |-> r]
  BY DEF Picks
<1>5. Pending' = Pending \ {x}
  BY <1>2
<1> QED
  BY <1>3, <1>4, <1>5 DEF D!Pick

(* No mail is pending at first. *)
LEMMA InitMaps == Init => Placed /\ D!Init
<1> SUFFICES ASSUME Init PROVE Placed /\ D!Init
  OBVIOUS
<1>1. \A p \in Owners, l \in Level : Filled(p, l) = {}
  BY DEF Init, Filled
<1>2. Pending = {}
  BY <1>1, PendingIs
<1>3. served = None
  BY DEF Init
<1> QED
  BY <1>1, <1>2, <1>3 DEF D!Init, Placed

(* Every step is a step of Delivery. *)
LEMMA NextMaps == IInv /\ Placed /\ [Next]_mailVars => [D!Next]_(D!vars)
<1> SUFFICES ASSUME IInv, Placed, [Next]_mailVars PROVE [D!Next]_(D!vars)
  OBVIOUS
<1>1. UNCHANGED slot => Pending' = Pending
  BY DEF Pending, At
<1>2. CASE UNCHANGED slot /\ (served' = None \/ UNCHANGED served)
  BY <1>1, <1>2 DEF D!Next, D!Other, D!vars
<1>3. ASSUME NEW p \in Owners, NEW l \in Level, NEW i \in 1 .. Size(l), NEW x \in Posted,
             Posts(p, l, i, x)
      PROVE  D!Next
  BY <1>3, PostMaps DEF D!Next
<1>4. ASSUME NEW t \in Thread, t[1] \in Owners, NEW l \in Level, NEW i \in 1 .. Size(l),
             NEW r \in Request, Picks(t, l, i, r)
      PROVE  D!Next
  <2>1. <<<<t[1], l, i>>, slot[t[1]][l][i]>> \in Pending
    BY <1>4, PendingIs DEF Picks
  <2> QED
    BY <1>4, <2>1, PickMaps DEF D!Next
<1> QED
  BY <1>2, <1>3, <1>4, MailboxStep

(* The mailboxes of ipc/ keep the promise of Delivery: every accepted mail  *)
(* is kept unchanged until pickmail gives it, once, to the thread it is     *)
(* addressed to, for a request it answers, and a user-level mail only if    *)
(* the caller has no system-level mail that answers the same request.       *)
THEOREM MailDelivers == Spec => ImplementsDelivery
<1>1. Spec => []Placed
  BY InitMaps, PlacedStep, Invariance, PTL DEF Spec
<1> QED
  BY <1>1, InitMaps, NextMaps, Invariance, PTL DEF Spec, ImplementsDelivery, D!Spec

-----------------------------------------------------------------------------
(* SendMail.                                                                 *)

(* Some number of a set of natural numbers is the least. *)
LEMMA LeastExists ==
    ASSUME NEW S \in SUBSET Nat, S # {}
    PROVE  \E n \in S : \A k \in S : n <= k
<1>1. IsWellFoundedOn(OpToRel(<, Nat), Nat)
  BY NatLessThanWellFounded
<1>2. PICK n \in S : \A k \in S : ~(<<k, n>> \in OpToRel(<, Nat))
  BY <1>1, WFMin
<1>3. \A k \in S : ~(k < n)
  BY <1>2 DEF OpToRel
<1> QED
  BY <1>3

-----------------------------------------------------------------------------
(* Types. *)

(* A system call that assigns a state to one thread keeps the states typed. *)
LEMMA StateSet ==
    ASSUME state \in [Thread -> SendState], NEW t, NEW s \in SendState,
           state' = [state EXCEPT ![t] = s]
    PROVE  state' \in [Thread -> SendState]
OBVIOUS

\* The types hold at first.
LEMMA SendInitTyped == SendInit => SendTypeOK
<1>1. 0 \in 0 .. CountWrap - 1
  BY SendMailAssumption
<1> QED
  BY <1>1 DEF SendInit, Init, CPU!Init, SendTypeOK, SendState, ThreadState

(* The calls of Mail change the states of threads, and nothing of sendmail's. *)
LEMMA OtherTyped ==
    ASSUME SendTypeOK, OtherCall
    PROVE  SendTypeOK'
<1>1. state \in [Thread -> SendState]
  BY DEF SendTypeOK
<1>2. {"RUNNING", "STUCK", "RECVING", "FULL_WAIT"} \subseteq SendState
  BY DEF SendState, ThreadState
<1>3. state' \in [Thread -> SendState]
  <2>1. CASE Tick
    BY <1>1, <1>2, <2>1, StateSet DEF Tick, CPU!Tick, CPU!Schedule
  <2>2. CASE \E t \in Thread : Pause(t)
    BY <1>1, <1>2, <2>2, StateSet
    DEF Pause, CPU!SleepOn, CPU!Schedule, CPU!dispatchVars
  <2>3. ASSUME NEW t \in Thread, NEW d \in Thread, NEW l \in Level, NEW m \in Msg,
               PostMail(t, d, l, m)
        PROVE  state' \in [Thread -> SendState]
    <3>1. CASE WaitForSlot(t, d, l)
      BY <1>1, <1>2, <3>1, StateSet DEF WaitForSlot, CPU!Schedule
    <3>2. ASSUME NEW i \in 1 .. Size(l), Deposit(t, d, l, m, i)
          PROVE  state' \in [Thread -> SendState]
      BY <1>1, <1>2, <3>2 DEF Deposit
    <3> QED
      BY <2>3, <3>1, <3>2 DEF PostMail
  <2> QED
    BY <2>1, <2>2, <2>3 DEF OtherCall
<1> QED
  BY <1>3 DEF SendTypeOK, OtherCall, sendVars

\* They hold after a pick,
LEMMA PickTyped ==
    ASSUME SendTypeOK, NEW t \in Thread, NEW r \in Request, PickCall(t, r)
    PROVE  SendTypeOK'
<1>1. state \in [Thread -> SendState] /\ {"RUNNING", "RECVING"} \subseteq SendState
  BY DEF SendTypeOK, SendState, ThreadState
<1>2. CASE PickMail(t, r) /\ UNCHANGED sendVars
  <2>1. state' \in [Thread -> SendState]
    <3>1. CASE AwaitMail(t, r)
      BY <1>1, <3>1, StateSet DEF AwaitMail, CPU!Schedule
    <3>2. ASSUME NEW l \in Level, NEW i \in 1 .. Size(l), TakeMail(t, l, i)
          PROVE  state' \in [Thread -> SendState]
      BY <1>1, <3>2, StateSet DEF TakeMail, CPU!Schedule
    <3> QED
      BY <1>2, <3>1, <3>2 DEF PickMail
  <2> QED
    BY <1>2, <2>1 DEF SendTypeOK, sendVars
<1>3. CASE panicked' = TRUE /\ UNCHANGED <<mailVars, snd, sndCnt, sendTo>>
  BY <1>3 DEF SendTypeOK, mailVars
<1> QED
  BY <1>2, <1>3 DEF PickCall

\* after a send,
LEMMA SendTyped ==
    ASSUME SendTypeOK, NEW t \in Thread, NEW d \in Thread, SendCall(t, d)
    PROVE  SendTypeOK'
<1>1. /\ state \in [Thread -> SendState]
      /\ {"RUNNING", "SENDING", "LOOP_WAIT"} \subseteq SendState
  BY DEF SendTypeOK, SendState, ThreadState
<1>2. \A n \in Nat : (n + 1) % CountWrap \in 0 .. CountWrap - 1
  BY SendMailAssumption
<1>3. d[1] \in Owners => sndCnt[d[1]] \in Nat
  BY SendMailAssumption DEF SendTypeOK
<1>4. panicked' \in BOOLEAN
  BY DEF SendCall, SendTypeOK
<1>5. CASE LoopDetected(t, d)
  BY <1>1, <1>4, <1>5, StateSet DEF LoopDetected, CPU!Schedule, SendTypeOK
<1>6. ASSUME Record(t, d) PROVE sendTo' \in [Thread -> Thread \cup {None}]
  BY <1>6 DEF Record, SendTypeOK
<1>7. ASSUME sndCnt' = [sndCnt EXCEPT ![d[1]] = (@ + 1) % CountWrap]
      PROVE  sndCnt' \in [Owners -> 0 .. CountWrap - 1]
  BY <1>2, <1>3, <1>7 DEF SendTypeOK
<1>8. CASE DepositSend(t, d)
  <2>1. state' \in [Thread -> SendState]
    BY <1>1, <1>8 DEF DepositSend, CPU!Schedule
  <2>2. snd' \in [Thread -> Thread \cup {None}]
    BY <1>8 DEF DepositSend, SendTypeOK
  <2> QED
    BY <1>4, <1>6, <1>7, <1>8, <2>1, <2>2 DEF DepositSend, SendTypeOK
<1>9. CASE SlotBusy(t, d)
  BY <1>1, <1>4, <1>6, <1>7, <1>9 DEF SlotBusy, CPU!Schedule, SendTypeOK
<1> QED
  BY <1>5, <1>8, <1>9 DEF SendCall

\* and so after every step.
LEMMA SendNextTyped == SendTypeOK /\ [SendNext]_vars => SendTypeOK'
<1> SUFFICES ASSUME SendTypeOK, [SendNext]_vars PROVE SendTypeOK'
  OBVIOUS
<1>1. CASE UNCHANGED vars
  BY <1>1 DEF vars, mailVars, sendVars, SendTypeOK
<1> QED
  BY <1>1, OtherTyped, PickTyped, SendTyped DEF SendNext

(* Every variable of sendmail keeps its type: the counter is bounded only by *)
(* the byte it is incremented through (send.c:99).                          *)
THEOREM SendStaysTyped == SendSpec => []SendTypeOK
BY SendInitTyped, SendNextTyped, PTL DEF SendSpec

-----------------------------------------------------------------------------
(* The walk of try_to_send along the recorded sends. *)

N == Cardinality(Thread)

\* The threads are finitely many.
LEMMA ThreadsCounted ==
    /\ N \in Nat
    /\ IsFiniteSet(Thread)
    /\ None \notin Thread
    /\ Taken \subseteq Thread
BY SendMailAssumption, FS_CardinalityType DEF N

(* A walk exists, so the recursive definition of Walk(d) may be read as its   *)
(* equation.                                                                *)
LEMMA WalkExists ==
    ASSUME NEW d, NEW m \in Nat
    PROVE  \E g : g = [n \in 0 .. m |-> IF n = 0 THEN d ELSE Succ(g[n - 1])]
<1> DEFINE IsWalk(g, k) == g = [n \in 0 .. k |-> IF n = 0 THEN d ELSE Succ(g[n - 1])]
           bad == {k \in Nat : ~\E g : IsWalk(g, k)}
<1>1. SUFFICES ASSUME bad # {} PROVE FALSE
  OBVIOUS
<1>2. PICK k \in bad : \A j \in bad : k <= j
  BY <1>1, LeastExists
<1>3. CASE k = 0
  <2>1. IsWalk([n \in 0 .. 0 |-> d], 0)
    OBVIOUS
  <2> QED
    BY <1>2, <1>3, <2>1
<1>4. CASE k # 0
  <2>1. k - 1 \in Nat /\ k - 1 \notin bad
    BY <1>2, <1>4
  <2>2. PICK g : IsWalk(g, k - 1)
    BY <2>1
  <2> DEFINE h == [n \in 0 .. k |-> IF n = k THEN Succ(g[k - 1]) ELSE g[n]]
  <2>3. \A n \in 0 .. k - 1 : g[n] = IF n = 0 THEN d ELSE Succ(g[n - 1])
    BY <2>2
  <2>4. IsWalk(h, k)
    <3>1. ASSUME NEW n \in 0 .. k
          PROVE  h[n] = IF n = 0 THEN d ELSE Succ(h[n - 1])
      <4>1. CASE n = k
        BY <1>2, <1>4, <4>1
      <4>2. CASE n # k
        BY <1>2, <2>3, <4>2
      <4> QED
        BY <4>1, <4>2
    <3> QED
      BY <3>1
  <2> QED
    BY <1>2, <2>4
<1> QED
  BY <1>3, <1>4

\* The walk goes from thread to thread.
LEMMA WalkIs ==
    ASSUME NEW d
    PROVE  /\ Walk(d)[0] = d
           /\ \A n \in 1 .. N : Walk(d)[n] = Succ(Walk(d)[n - 1])
<1>1. Walk(d) = CHOOSE g : g = [n \in 0 .. N |-> IF n = 0 THEN d ELSE Succ(g[n - 1])]
  BY DEF Walk, N
<1>2. \E g : g = [n \in 0 .. N |-> IF n = 0 THEN d ELSE Succ(g[n - 1])]
  BY WalkExists, ThreadsCounted
<1>3. Walk(d) = [n \in 0 .. N |-> IF n = 0 THEN d ELSE Succ(Walk(d)[n - 1])]
  BY <1>1, <1>2
<1> QED
  BY <1>3, ThreadsCounted

(* Sends are recorded for threads, and a thread whose flag is clear has none *)
(* that counts.                                                             *)
LEMMA SuccIs ==
    ASSUME SendTypeOK
    PROVE  /\ Succ(None) = None
           /\ \A x \in Thread : Succ(x) \in Thread \cup {None}
BY ThreadsCounted DEF SendTypeOK, Succ

(* R[x] are the threads a walk from x comes by, x among them: the walk goes  *)
(* on to threads that never lead back to x.                                 *)
Reaches(R) ==
    /\ R \in [Thread -> SUBSET Thread]
    /\ \A x \in Thread :
          IF Succ(x) = None THEN R[x] = {x}
          ELSE R[x] = {x} \cup R[Succ(x)] /\ x \notin R[Succ(x)]
    /\ \A x \in Thread : \A y \in R[x] : R[y] \subseteq R[x]
    /\ \A x \in Thread : \A y, z \in R[x] : z \in R[y] \/ y \in R[z]

NoCycle == \E R : Reaches(R)

(* Every step of a walk leaves a thread behind. *)
LEMMA StepLeaves ==
    ASSUME SendTypeOK, NEW R, Reaches(R), NEW x \in Thread, Succ(x) # None
    PROVE  /\ Succ(x) \in Thread
           /\ IsFiniteSet(R[x])
           /\ Cardinality(R[Succ(x)]) = Cardinality(R[x]) - 1
           /\ Cardinality(R[x]) \in Nat
<1>1. Succ(x) \in Thread
  BY SuccIs
<1>2. R[x] = {x} \cup R[Succ(x)] /\ x \notin R[Succ(x)] /\ R[Succ(x)] \subseteq Thread
  BY <1>1 DEF Reaches
<1>3. IsFiniteSet(R[Succ(x)])
  BY <1>2, ThreadsCounted, FS_Subset
<1>4. Cardinality(R[Succ(x)]) \in Nat
  BY <1>3, FS_CardinalityType
<1>5. R[x] = R[Succ(x)] \cup {x}
  BY <1>2
<1>6. IsFiniteSet(R[x]) /\ Cardinality(R[x]) = Cardinality(R[Succ(x)]) + 1
  BY <1>2, <1>3, <1>5, FS_AddElement
<1> QED
  BY <1>1, <1>4, <1>6

(* There are only so many to leave. *)
LEMMA WalkShrinks ==
    ASSUME SendTypeOK, NEW R, Reaches(R), NEW d \in Thread
    PROVE  \A n \in 0 .. N :
              Walk(d)[n] # None => /\ Walk(d)[n] \in Thread
                                   /\ Cardinality(R[Walk(d)[n]]) <= N - n
<1> DEFINE w(n) == Walk(d)[n]
           ok(n) == w(n) # None => w(n) \in Thread /\ Cardinality(R[w(n)]) <= N - n
           bad == {n \in 0 .. N : ~ok(n)}
<1>1. SUFFICES ASSUME bad # {} PROVE FALSE
  OBVIOUS
<1>2. bad \in SUBSET Nat
  BY ThreadsCounted
<1>3. PICK n \in bad : \A j \in bad : n <= j
  BY <1>1, <1>2, LeastExists
<1>4. n \in Nat /\ n <= N /\ N \in Nat
  BY <1>3, ThreadsCounted
<1>5. CASE n = 0
  <2>1. w(n) = d
    BY <1>5, WalkIs
  <2>2. R[d] \subseteq Thread
    BY DEF Reaches
  <2>3. Cardinality(R[d]) <= N
    BY <2>2, ThreadsCounted, FS_Subset DEF N
  <2> QED
    BY <1>3, <1>4, <1>5, <2>1, <2>3
<1>6. CASE n # 0
  <2>1. n - 1 \in 0 .. N /\ n - 1 \notin bad /\ n \in 1 .. N
    BY <1>3, <1>4, <1>6
  <2>2. ok(n - 1) /\ w(n) = Succ(w(n - 1))
    BY <2>1, WalkIs
  <2>3. w(n) # None /\ ~(w(n) \in Thread /\ Cardinality(R[w(n)]) <= N - n)
    BY <1>3
  <2> HIDE DEF w
  <2>4. w(n - 1) \in Thread /\ Cardinality(R[w(n - 1)]) <= N - (n - 1)
    BY <2>2, <2>3, SuccIs
  <2>5. /\ w(n) \in Thread
        /\ Cardinality(R[w(n)]) = Cardinality(R[w(n - 1)]) - 1
        /\ Cardinality(R[w(n - 1)]) \in Nat
    BY <2>2, <2>3, <2>4, StepLeaves
  <2> QED
    BY <1>4, <2>3, <2>4, <2>5
<1> QED
  BY <1>5, <1>6

\* Where no ring of waiting threads is, the walk ends.
LEMMA NoCycleEnds ==
    ASSUME SendTypeOK, NoCycle
    PROVE  WalkEnds
<1> PICK R : Reaches(R)
  BY DEF NoCycle
<1> SUFFICES ASSUME NEW d \in Thread, Walk(d)[N] # None
             PROVE  FALSE
  BY DEF WalkEnds, N
<1> DEFINE x == Walk(d)[N]
<1>1. x \in Thread /\ Cardinality(R[x]) <= 0
  BY ThreadsCounted, WalkShrinks
<1>2. R[x] \subseteq Thread /\ x \in R[x]
  BY <1>1 DEF Reaches
<1>3. IsFiniteSet(R[x])
  BY <1>2, ThreadsCounted, FS_Subset
<1>4. Cardinality(R[x]) \in Nat /\ (Cardinality(R[x]) = 0 => R[x] = {})
  BY <1>3, FS_CardinalityType, FS_EmptySet
<1> QED
  BY <1>1, <1>2, <1>4

(* A thread the walk from d does not visit, and that is not d, is not one d  *)
(* leads to: otherwise the walk would have it ahead for ever.                *)
LEMMA VisitedIfReached ==
    ASSUME SendTypeOK, NEW R, Reaches(R), NEW d \in Thread, NEW t \in Thread,
           t # d, ~Visits(d, t)
    PROVE  t \notin R[d]
<1> SUFFICES ASSUME t \in R[d] PROVE FALSE
  OBVIOUS
<1> DEFINE w(n) == Walk(d)[n]
           ok(n) == w(n) \in Thread /\ t \in R[w(n)]
           bad == {n \in 0 .. N : ~ok(n)}
<1>1. bad # {}
  <2>1. Walk(d)[N] = None
    BY NoCycleEnds DEF NoCycle, WalkEnds, N
  <2> QED
    BY <2>1, ThreadsCounted
<1>2. bad \in SUBSET Nat
  BY ThreadsCounted
<1>3. PICK n \in bad : \A j \in bad : n <= j
  BY <1>1, <1>2, LeastExists
<1>4. n \in 0 .. N /\ ~ok(n) /\ N \in Nat
  BY <1>3, ThreadsCounted
<1>5. n # 0
  BY <1>4, WalkIs
<1>6. n - 1 \in 0 .. N /\ n \in 1 .. N /\ ok(n - 1)
  BY <1>3, <1>4, <1>5
<1>7. w(n) = Succ(w(n - 1))
  BY <1>6, WalkIs
<1>8. w(n - 1) # t
  BY <1>6, WalkIs, ThreadsCounted DEF Visits, N
<1> HIDE DEF w
<1>9. Succ(w(n - 1)) # None /\ t \in R[Succ(w(n - 1))]
  BY <1>6, <1>8 DEF Reaches
<1>10. Succ(w(n - 1)) \in Thread
  BY <1>6, <1>9, SuccIs
<1> QED
  BY <1>4, <1>7, <1>9, <1>10

(* Recording a send from t to d, which does not lead back to t, closes no     *)
(* cycle: what was behind t gives way to d and what is behind d.             *)
LEMMA RecordKeeps ==
    ASSUME SendTypeOK, NEW R, Reaches(R), NEW t \in Taken, NEW d \in Thread,
           t \notin R[d], sendTo' = [sendTo EXCEPT ![t] = d]
    PROVE  NoCycle'
<1>0. t \in Thread /\ None \notin Thread
  BY ThreadsCounted
<1> DEFINE Q == [x \in Thread |-> IF t \in R[x] THEN (R[x] \ R[t]) \cup {t} \cup R[d]
                                              ELSE R[x]]
<1>1. Succ(t)' = d /\ \A x \in Thread : x # t => Succ(x)' = Succ(x)
  BY <1>0, ThreadsCounted DEF Succ, SendTypeOK
<1>2. Q \in [Thread -> SUBSET Thread]
  BY <1>0 DEF Reaches
<1>3. Q[d] = R[d] /\ Q[t] = {t} \cup R[d] /\ t \in R[t]
  BY <1>0 DEF Reaches
<1>4. ASSUME NEW x \in Thread
      PROVE  IF Succ(x)' = None THEN Q[x] = {x}
             ELSE Q[x] = {x} \cup Q[Succ(x)'] /\ x \notin Q[Succ(x)']
  <2>1. CASE x = t
    BY <1>0, <1>1, <1>3, <2>1
  <2>2. CASE x # t /\ Succ(x) = None
    BY <1>1, <2>2 DEF Reaches
  <2>3. CASE x # t /\ Succ(x) # None
    <3> DEFINE z == Succ(x)
    <3>1. z \in Thread /\ Succ(x)' = z /\ z # None
      BY <1>1, <2>3, SuccIs
    <3>2. R[x] = {x} \cup R[z] /\ x \notin R[z]
      BY <2>3 DEF Reaches
    <3> HIDE DEF z
    <3>3. CASE t \in R[z]
      <4>1. R[t] \subseteq R[z]
        BY <3>1, <3>3 DEF Reaches
      <4>2. x \notin R[t]
        BY <3>2, <4>1
      <4>3. x \notin R[d]
        <5>1. SUFFICES ASSUME x \in R[d] PROVE FALSE
          OBVIOUS
        <5>2. R[x] \subseteq R[d]
          BY <5>1 DEF Reaches
        <5> QED
          BY <3>2, <3>3, <5>2
      <4>4. Q[x] = (R[x] \ R[t]) \cup {t} \cup R[d]
        BY <3>2, <3>3
      <4>5. Q[z] = (R[z] \ R[t]) \cup {t} \cup R[d]
        BY <3>1, <3>3
      <4> QED
        BY <2>3, <3>1, <3>2, <4>2, <4>3, <4>4, <4>5
    <3>4. CASE t \notin R[z]
      BY <2>3, <3>1, <3>2, <3>4
    <3> QED
      BY <3>3, <3>4
  <2> QED
    BY <2>1, <2>2, <2>3
<1>5. ASSUME NEW x \in Thread, t \notin R[x]
      PROVE  Q[x] = R[x] /\ \A y \in Q[x] : Q[y] = R[y]
  <2>1. \A y \in R[x] : y \in Thread /\ R[y] \subseteq R[x]
    BY DEF Reaches
  <2> QED
    BY <1>5, <2>1
<1>6. ASSUME NEW x \in Thread, t \in R[x]
      PROVE  /\ Q[x] = (R[x] \ R[t]) \cup {t} \cup R[d]
             /\ \A y \in R[x] \ R[t] : Q[y] = (R[y] \ R[t]) \cup {t} \cup R[d]
             /\ \A y \in R[d] : Q[y] = R[y]
  <2>1. \A y \in R[x] \ R[t] : y \in Thread /\ t \in R[y]
    BY <1>6 DEF Reaches
  <2>2. \A y \in R[d] : y \in Thread /\ t \notin R[y]
    BY DEF Reaches
  <2> QED
    BY <1>6, <2>1, <2>2
<1> HIDE DEF Q
<1>7. ASSUME NEW x \in Thread, NEW y \in Q[x]
      PROVE  Q[y] \subseteq Q[x]
  <2>1. CASE t \notin R[x]
    BY <1>5, <1>7, <2>1 DEF Reaches
  <2>2. CASE t \in R[x] /\ y \in R[x] \ R[t]
    <3>1. R[y] \subseteq R[x]
      BY <2>2 DEF Reaches
    <3> QED
      BY <1>6, <2>2, <3>1
  <2>3. CASE t \in R[x] /\ y = t
    BY <1>3, <1>6, <2>3
  <2>4. CASE t \in R[x] /\ y \in R[d]
    <3>1. R[y] \subseteq R[d]
      BY <2>4 DEF Reaches
    <3> QED
      BY <1>6, <2>4, <3>1
  <2> QED
    BY <1>6, <1>7, <2>1, <2>2, <2>3, <2>4
<1>8. ASSUME NEW x \in Thread, NEW y \in Q[x], NEW z \in Q[x]
      PROVE  z \in Q[y] \/ y \in Q[z]
  <2>1. CASE t \notin R[x]
    BY <1>5, <1>8, <2>1 DEF Reaches
  <2>2. CASE t \in R[x] /\ y \in R[x] \ R[t] /\ z \in R[x] \ R[t]
    <3>1. z \in R[y] \/ y \in R[z]
      BY <2>2 DEF Reaches
    <3> QED
      BY <1>6, <2>2, <3>1
  <2>3. CASE t \in R[x] /\ y \in R[x] \ R[t] /\ z \in {t} \cup R[d]
    BY <1>6, <2>3
  <2>4. CASE t \in R[x] /\ z \in R[x] \ R[t] /\ y \in {t} \cup R[d]
    BY <1>6, <2>4
  <2>5. CASE t \in R[x] /\ y \in R[d] /\ z \in R[d]
    <3>1. z \in R[y] \/ y \in R[z]
      BY <2>5 DEF Reaches
    <3> QED
      BY <1>6, <2>5, <3>1
  <2>6. CASE t \in R[x] /\ y \in {t} \cup R[d] /\ z \in {t} \cup R[d] /\ (y = t \/ z = t)
    BY <1>3, <2>6
  <2> QED
    BY <1>6, <1>8, <2>1, <2>2, <2>3, <2>4, <2>5, <2>6
<1>9. Reaches(Q)'
  BY <1>2, <1>4, <1>7, <1>8 DEF Reaches
<1> QED
  BY <1>9 DEF NoCycle

(* The records change in one kind of step only. *)
LEMMA KeptIfUnchanged ==
    ASSUME NoCycle, UNCHANGED sendTo
    PROVE  NoCycle'
<1>1. \A x : Succ(x)' = Succ(x)
  BY DEF Succ
<1> PICK R : Reaches(R)
  BY DEF NoCycle
<1>2. Reaches(R)'
  BY <1>1 DEF Reaches
<1> QED
  BY <1>2 DEF NoCycle

(* A record of a thread that is not taken is never looked at. *)
LEMMA RecordKeepsAll ==
    ASSUME SendTypeOK, NoCycle, NEW t \in Thread, NEW d \in Thread, t # d,
           ~Visits(d, t), Record(t, d)
    PROVE  NoCycle'
<1> PICK R : Reaches(R)
  BY DEF NoCycle
<1>1. CASE UNCHANGED sendTo
  BY <1>1, KeptIfUnchanged
<1>2. CASE sendTo' = [sendTo EXCEPT ![t] = d] /\ t \in Taken
  BY <1>2, VisitedIfReached, RecordKeeps
<1>3. CASE sendTo' = [sendTo EXCEPT ![t] = d] /\ t \notin Taken
  <2>1. \A x \in Thread : Succ(x)' = Succ(x)
    BY <1>3 DEF Succ, SendTypeOK
  <2>2. Reaches(R)'
    BY <2>1 DEF Reaches
  <2> QED
    BY <2>2 DEF NoCycle
<1> QED
  BY <1>1, <1>2, <1>3 DEF Record

\* At first nobody waits.
LEMMA InitNoCycle == SendInit => NoCycle
<1> SUFFICES ASSUME SendInit PROVE NoCycle
  OBVIOUS
<1>1. \A x \in Thread : Succ(x) = None
  BY DEF SendInit, Succ
<1>2. Reaches([x \in Thread |-> {x}])
  BY <1>1 DEF Reaches
<1> QED
  BY <1>2 DEF NoCycle

\* No step closes a ring behind the walk.
LEMMA NextNoCycle == SendTypeOK /\ NoCycle /\ [SendNext]_vars => NoCycle'
<1> SUFFICES ASSUME SendTypeOK, NoCycle, [SendNext]_vars PROVE NoCycle'
  OBVIOUS
<1>1. CASE UNCHANGED vars
  BY <1>1, KeptIfUnchanged DEF vars, sendVars
<1>2. CASE OtherCall
  BY <1>2, KeptIfUnchanged DEF OtherCall, sendVars
<1>3. ASSUME NEW t \in Thread, NEW r \in Request, PickCall(t, r)
      PROVE  NoCycle'
  BY <1>3, KeptIfUnchanged DEF PickCall, sendVars
<1>4. ASSUME NEW t \in Thread, NEW d \in Thread, SendCall(t, d)
      PROVE  NoCycle'
  <2>1. t # d
    BY <1>4 DEF SendCall, Addressable
  <2>2. CASE LoopDetected(t, d)
    BY <2>2, KeptIfUnchanged DEF LoopDetected
  <2>3. CASE DepositSend(t, d) \/ SlotBusy(t, d)
    BY <2>1, <2>3, RecordKeepsAll DEF DepositSend, SlotBusy
  <2> QED
    BY <1>4, <2>2, <2>3 DEF SendCall
<1> QED
  BY <1>1, <1>2, <1>3, <1>4 DEF SendNext

(* The loop of try_to_send ends after at most one step per thread, however   *)
(* old the records are that it follows (send.c:24-43).                      *)
THEOREM WalkAlwaysEnds == SendSpec => []WalkEnds
<1> DEFINE SendIInv == SendTypeOK /\ NoCycle
<1>1. SendInit => SendIInv
  BY SendInitTyped, InitNoCycle
<1>2. SendIInv /\ [SendNext]_vars => SendIInv'
  BY SendNextTyped, NextNoCycle
<1>3. SendIInv => WalkEnds
  BY NoCycleEnds
<1> QED
  BY <1>1, <1>2, <1>3, PTL DEF SendSpec
============================================================================
