-------------------------------- MODULE Mail --------------------------------
(***************************************************************************)
(* The asynchronous mail of ipc/post.c, ipc/pick.c and ipc/msgcall.c: every *)
(* process but 0 has a mailbox with system-level and user-level slots,      *)
(* postmail fills a free slot of the addressee's process, pickmail looks    *)
(* for a mail to the calling thread or puts it to sleep.  getm() of         *)
(* lib/syscalls.c repeats pickmail until it returns a mail.                 *)
(*                                                                         *)
(* A slot's m_locked and m_validate are always set and cleared together, so *)
(* a slot either holds a mail or is empty.                                  *)
(***************************************************************************)
EXTENDS Integers, FiniteSets, Sequences

CONSTANTS
    Thread,      \* <<pid, tid>> pairs, T0 among them
    NoPost,      \* threads to which mail is denied: the TTY's decoder
    NrSys,       \* NR_SYS_MAILS
    NrUsr,       \* NR_USR_MAILS
    Msg,         \* the values of m_msg in use
    Any,         \* the MSG_ANY flag; without it a request names its m_msg
    None         \* no mail in a slot, no request

T0 == <<0, 0>>
Level == {"SYS", "USR"}
ThreadState == {"RUNNING", "STUCK", "RECVING", "FULL_WAIT", "SENDING"}

Owners  == {t[1] : t \in Thread} \ {0}     \* the processes that have a mailbox
Size(l) == IF l = "SYS" THEN NrSys ELSE NrUsr
Posted  == [src : Thread, dst : Thread, level : Level, msg : Msg]
Request == Msg \cup {Any}
Served  == [thread : Thread, asked : Request]

ASSUME MailAssumption ==
    /\ Thread \subseteq Nat \X Nat
    /\ \A t \in Thread : t[1] = 0 <=> t = T0    \* process 0 has one thread
    /\ T0 \in Thread
    /\ NoPost \subseteq Thread
    /\ NrSys \in Nat /\ NrUsr \in Nat
    /\ Any \notin Msg
    /\ None \notin Msg \cup {Any} \cup Posted \cup Served

VARIABLES
    state,     \* thread[].state
    cur,       \* the thread that has the CPU
    slot,      \* slot[p][l][i]: slot i of level l in the mailbox of p
    cnt,       \* mb_sys_cnt and mb_usr_cnt of every mailbox
    waitq,     \* mailbox->post: its head and, if set, the head's m_next
    req,       \* what a thread inside getm() asks for, None outside of it
    served     \* the caller and request the last step gave a mail to, if it did

mailVars == <<state, cur, slot, cnt, waitq, req, served>>

CPU == INSTANCE Dispatch

-----------------------------------------------------------------------------
(* ipc/msgcall.c *)

Filled(p, l) == {i \in 1 .. Size(l) : slot[p][l][i] # None}

\* find_empty_mail_slot: the first free slot of the level.
EmptySlot(p, l, i) ==
    /\ i \in (1 .. Size(l)) \ Filled(p, l)
    /\ 1 .. i - 1 \subseteq Filled(p, l)

Matches(m, r) == r = Any \/ m.msg = r

\* find_mb_mail looks at no more filled slots than the level's count.
Examined(p, l) ==
    {i \in Filled(p, l) : Cardinality({j \in Filled(p, l) : j <= i}) <= cnt[p][l]}

\* Mutant: a mail to any thread of the process is an answer.
AnswersAnyone(t, r, l) ==
    {i \in Examined(t[1], l) : Matches(slot[t[1]][l][i], r)}

Answers(t, r, l) ==
    {i \in Examined(t[1], l) : slot[t[1]][l][i].dst = t /\ Matches(slot[t[1]][l][i], r)}

\* The mail find_mb_mail returns: system level first, then lowest slot.
FirstMail(t, r, l, i) ==
    /\ i \in Answers(t, r, l)
    /\ \A j \in Answers(t, r, l) : i <= j
    /\ l = "USR" => Answers(t, r, "SYS") = {}

-----------------------------------------------------------------------------
(* System calls of the current thread. *)

\* The caller is in user code, not inside a getm() that still has to retry.
Calls(t) == cur = t /\ t # T0 /\ req[t] = None

Addressable(t) == {d \in Thread \ NoPost : d[1] # 0 /\ d # t}

\* Mutant: the mail is not counted.
DepositNoCount(t, d, l, m, i) ==
    /\ EmptySlot(d[1], l, i)
    /\ slot' = [slot EXCEPT ![d[1]][l][i] =
                   [src |-> t, dst |-> d, level |-> l, msg |-> m]]
    /\ state' = [state EXCEPT ![d] = IF @ = "RECVING" THEN "RUNNING" ELSE @]
    /\ UNCHANGED <<cnt, cur, waitq, req>>

\* Mutant: the addressee is not woken.
DepositNoWake(t, d, l, m, i) ==
    /\ EmptySlot(d[1], l, i)
    /\ slot' = [slot EXCEPT ![d[1]][l][i] =
                   [src |-> t, dst |-> d, level |-> l, msg |-> m]]
    /\ cnt' = [cnt EXCEPT ![d[1]][l] = @ + 1]
    /\ UNCHANGED <<state, cur, waitq, req>>

\* Mutant: the addressee is woken whatever it waits for.
DepositWakeAny(t, d, l, m, i) ==
    /\ EmptySlot(d[1], l, i)
    /\ slot' = [slot EXCEPT ![d[1]][l][i] =
                   [src |-> t, dst |-> d, level |-> l, msg |-> m]]
    /\ cnt' = [cnt EXCEPT ![d[1]][l] = @ + 1]
    /\ state' = [state EXCEPT ![d] = "RUNNING"]
    /\ UNCHANGED <<cur, waitq, req>>

Deposit(t, d, l, m, i) ==
    /\ EmptySlot(d[1], l, i)
    /\ slot' = [slot EXCEPT ![d[1]][l][i] =
                   [src |-> t, dst |-> d, level |-> l, msg |-> m]]
    /\ cnt' = [cnt EXCEPT ![d[1]][l] = @ + 1]
    /\ state' = [state EXCEPT ![d] = IF @ = "RECVING" THEN "RUNNING" ELSE @]
    /\ UNCHANGED <<cur, waitq, req>>

(* No slot is free: the caller's mail is linked behind the head of the wait *)
(* queue (the tail never moves) and the caller sleeps.                      *)
WaitForSlot(t, d, l) ==
    /\ Filled(d[1], l) = 1 .. Size(l)
    /\ waitq' = [waitq EXCEPT ![d[1]] = IF @ = <<>> THEN <<t>> ELSE <<Head(@), t>>]
    /\ CPU!Schedule([state EXCEPT ![t] = "FULL_WAIT"])
    /\ UNCHANGED <<slot, cnt, req>>

PostMail(t, d, l, m) ==
    /\ Calls(t)
    /\ d \in Addressable(t)
    /\ \/ \E i \in 1 .. Size(l) : Deposit(t, d, l, m, i)
       \/ WaitForSlot(t, d, l)
    /\ served' = None

\* Mutant: the count of the user level goes down whatever the level.
TakeMailUsrCount(t, l, i) ==
    LET src == slot[t[1]][l][i].src
    IN  /\ slot' = [slot EXCEPT ![t[1]][l][i] = None]
        /\ cnt'  = [cnt EXCEPT ![t[1]]["USR"] = @ - 1]
        /\ req'  = [req EXCEPT ![t] = None]
        /\ IF state[src] = "SENDING"
           THEN CPU!Schedule([state EXCEPT ![src] = "RUNNING"])
           ELSE UNCHANGED <<state, cur>>
        /\ UNCHANGED waitq

\* A picked mail frees its slot and its sender, should that be sending.
TakeMail(t, l, i) ==
    LET src == slot[t[1]][l][i].src
    IN  /\ slot' = [slot EXCEPT ![t[1]][l][i] = None]
        /\ cnt'  = [cnt EXCEPT ![t[1]][l] = @ - 1]
        /\ req'  = [req EXCEPT ![t] = None]
        /\ IF state[src] = "SENDING"
           THEN CPU!Schedule([state EXCEPT ![src] = "RUNNING"])
           ELSE UNCHANGED <<state, cur>>
        /\ UNCHANGED waitq

\* Mutant: the thread sleeps although system-level mail is there.
AwaitMailUsr(t, r) ==
    /\ Answers(t, r, "USR") = {}
    /\ req' = [req EXCEPT ![t] = r]
    /\ CPU!Schedule([state EXCEPT ![t] = "RECVING"])
    /\ UNCHANGED <<slot, cnt, waitq>>

AwaitMail(t, r) ==
    /\ \A l \in Level : Answers(t, r, l) = {}
    /\ req' = [req EXCEPT ![t] = r]
    /\ CPU!Schedule([state EXCEPT ![t] = "RECVING"])
    /\ UNCHANGED <<slot, cnt, waitq>>

\* The first pickmail of a getm(), or its repetition after the thread woke up.
PickMail(t, r) ==
    /\ cur = t /\ t # T0 /\ req[t] \in {None, r}
    /\ \/ \E l \in Level : \E i \in 1 .. Size(l) :
             /\ FirstMail(t, r, l, i)
             /\ TakeMail(t, l, i)
             /\ served' = [thread |-> t, asked |-> r]
       \/ AwaitMail(t, r) /\ served' = None

Pause(t) ==
    /\ cur = t /\ req[t] = None
    /\ CPU!SleepOn(t)
    /\ served' = None
    /\ UNCHANGED <<slot, cnt, waitq, req>>

Block(t, u) ==
    /\ Calls(t) /\ u[1] = t[1]
    /\ CPU!SleepOn(u)
    /\ served' = None
    /\ UNCHANGED <<slot, cnt, waitq, req>>

Unblock(t, u) ==
    /\ Calls(t) /\ u[1] = t[1]
    /\ CPU!WakeUp(u)
    /\ served' = None
    /\ UNCHANGED <<slot, cnt, waitq, req>>

Tick ==
    /\ CPU!Tick
    /\ served' = None
    /\ UNCHANGED <<slot, cnt, waitq, req>>

-----------------------------------------------------------------------------
Init ==
    /\ CPU!Init
    /\ slot  = [p \in Owners |-> [l \in Level |-> [i \in 1 .. Size(l) |-> None]]]
    /\ cnt   = [p \in Owners |-> [l \in Level |-> 0]]
    /\ waitq = [p \in Owners |-> <<>>]
    /\ req   = [t \in Thread |-> None]
    /\ served = None

Next ==
    \/ Tick
    \/ \E t \in Thread :
          \/ Pause(t)
          \/ \E r \in Request : PickMail(t, r)
          \/ \E d \in Thread, l \in Level, m \in Msg : PostMail(t, d, l, m)
          \/ \E u \in Thread : Block(t, u) \/ Unblock(t, u)

Spec == Init /\ [][Next]_mailVars

(* A thread that can run gets the CPU again and again (NoStarvation of      *)
(* Sched), and with the CPU it gets on: a time slice is long enough for a   *)
(* getm() that was woken to repeat its pickmail.                            *)
Fairness ==
    \A t \in Thread \ {T0} :
        /\ SF_mailVars(Tick /\ cur' = t)
        /\ SF_mailVars(req[t] # None /\ PickMail(t, req[t]))

FairSpec == Spec /\ Fairness

-----------------------------------------------------------------------------
(* Every variable keeps its type. *)
TypeOK ==
    /\ CPU!DispatchTypeOK
    /\ \A p \in Owners, l \in Level :
          /\ DOMAIN slot[p][l] = 1 .. Size(l)
          /\ \A i \in 1 .. Size(l) : slot[p][l][i] \in Posted \cup {None}
    /\ cnt \in [Owners -> [Level -> 0 .. (NrSys + NrUsr)]]
    /\ \A p \in Owners : Len(waitq[p]) <= 2
    /\ req \in [Thread -> Request \cup {None}]
    /\ served \in Served \cup {None}

(* find_mb_mail stops after cnt mails, so mail would become invisible if    *)
(* postmail and pickmail let the count drift from the slots.                *)
CountsMatchSlots ==
    \A p \in Owners, l \in Level : cnt[p][l] = Cardinality(Filled(p, l))

(* A thread never sleeps in pickmail while a mail that answers its request  *)
(* lies in its mailbox: the wake-up of postmail is never missed.            *)
NoLostWakeup ==
    \A t \in Thread \ {T0} :
        state[t] = "RECVING" =>
            /\ req[t] # None
            /\ \A l \in Level : \A i \in Filled(t[1], l) :
                  ~(slot[t[1]][l][i].dst = t /\ Matches(slot[t[1]][l][i], req[t]))

Wakes(t) ==
    t # cur /\ state[t] \in {"RECVING", "FULL_WAIT"} /\ state'[t] = "RUNNING"

ByMail(t) ==
    /\ state[t] = "RECVING"
    /\ \E l \in Level, i \in 1 .. (NrSys + NrUsr) :
          /\ i \in 1 .. Size(l)
          /\ slot[t[1]][l][i] = None
          /\ slot'[t[1]][l][i] # None
          /\ slot'[t[1]][l][i].dst = t

BySibling(t) == cur' = t /\ cur[1] = t[1]

(* A thread asleep in pickmail or postmail is woken only by a mail to it,   *)
(* or by an unblock() of its own process, which hands it the CPU.           *)
WakesOnlyAddressee ==
    [][\A t \in Thread : Wakes(t) => ByMail(t) \/ BySibling(t)]_mailVars

(* A mail that answers a waiting getm() is picked, unless a sibling puts    *)
(* the waiting thread to sleep.                                             *)
WaiterGetsMail ==
    \A t \in Thread \ {T0} :
        (req[t] # None /\ \E l \in Level : Answers(t, req[t], l) # {})
            ~> (req[t] = None \/ state[t] = "STUCK")

(* The mailboxes implement Delivery, the slots being the tickets: pickmail   *)
(* gives its caller a mail to the caller, for the caller's request.         *)
Ticket  == {k \in Owners \X Level \X (1 .. (NrSys + NrUsr)) : k[3] <= Size(k[2])}
At(k)   == slot[k[1]][k[2]][k[3]]
Pending == {<<k, At(k)>> : k \in {x \in Ticket : At(x) # None}}
D == INSTANCE Delivery WITH Mail <- Posted, pending <- Pending
ImplementsDelivery == D!Spec
=============================================================================
