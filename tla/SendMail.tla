------------------------------ MODULE SendMail ------------------------------
(***************************************************************************)
(* The synchronous mail of ipc/send.c on top of the asynchronous one: the   *)
(* sender sleeps with its mail in the one send slot of the addressee, after *)
(* try_to_send has followed the recorded sends from the addressee to see    *)
(* whether they lead back.  pickmail panics as soon as its process has a    *)
(* synchronous mail.                                                        *)
(***************************************************************************)
EXTENDS Mail

CONSTANTS
    Taken,      \* threads whose taken flag is set: task 0's, and added ones
    CountWrap   \* 256: sendmail increments the counter through a byte pointer

ASSUME SendMailAssumption ==
    /\ IsFiniteSet(Thread) /\ None \notin Thread
    /\ Taken \subseteq Thread
    /\ CountWrap \in Nat \ {0}

VARIABLES
    snd,       \* snd[t]: the sender of the mail in t's slot of mailbox->snd_m
    sndCnt,    \* mb_snd_cnt of every mailbox
    sendTo,    \* thread[].send_q.send_to of every thread
    panicked   \* the kernel stopped in panic()

sendVars == <<snd, sndCnt, sendTo, panicked>>
vars == <<mailVars, sendVars>>

\* LOOP_WAIT joins the states a thread can be in.
SendState == ThreadState \cup {"LOOP_WAIT"}

-----------------------------------------------------------------------------
(* try_to_send *)

Succ(x) == IF x \in Taken THEN sendTo[x] ELSE None

\* The threads the walk visits: the addressee d, whom d sent to, and so on.
Walk(d) ==
    LET visit[n \in 0 .. Cardinality(Thread)] ==
            IF n = 0 THEN d ELSE Succ(visit[n - 1])
    IN  visit

\* Mutant: only the addressee's own send is looked at.
VisitsOne(d, x) == Walk(d)[1] = x

Visits(d, x) == \E n \in 1 .. Cardinality(Thread) : Walk(d)[n] = x

\* Only a walk that ends at a taken thread without a send of its own is recorded.
EndsFree(d) ==
    \E n \in 0 .. Cardinality(Thread) :
        /\ Walk(d)[n] \in Taken
        /\ sendTo[Walk(d)[n]] = None

-----------------------------------------------------------------------------
LoopDetected(t, d) ==
    /\ Visits(d, t)
    /\ CPU!Schedule([state EXCEPT ![t] = "LOOP_WAIT"])
    /\ UNCHANGED <<snd, sndCnt, sendTo>>

Record(t, d) ==
    sendTo' = IF EndsFree(d) THEN [sendTo EXCEPT ![t] = d] ELSE sendTo

DepositSend(t, d) ==
    /\ ~Visits(d, t)
    /\ snd[d] = None
    /\ Record(t, d)
    /\ snd' = [snd EXCEPT ![d] = t]
    /\ sndCnt' = [sndCnt EXCEPT ![d[1]] = (@ + 1) % CountWrap]
    /\ CPU!Schedule([state EXCEPT ![t] = "SENDING",
                                  ![d] = IF @ = "RECVING" THEN "RUNNING" ELSE @])

\* Mutant: the counter is wider than the byte it is kept in.
SlotBusyWide(t, d) ==
    /\ ~Visits(d, t)
    /\ snd[d] # None
    /\ Record(t, d)
    /\ sndCnt' = [sndCnt EXCEPT ![d[1]] = @ + 1]
    /\ CPU!Schedule(state)
    /\ UNCHANGED snd

(* The slot is taken.  The search for the end of its list runs off it, the  *)
(* mail is linked to nothing, and the caller goes on with the CPU to share. *)
SlotBusy(t, d) ==
    /\ ~Visits(d, t)
    /\ snd[d] # None
    /\ Record(t, d)
    /\ sndCnt' = [sndCnt EXCEPT ![d[1]] = (@ + 1) % CountWrap]
    /\ CPU!Schedule(state)
    /\ UNCHANGED snd

SendCall(t, d) ==
    /\ Calls(t)
    /\ d \in Addressable(t)
    /\ LoopDetected(t, d) \/ DepositSend(t, d) \/ SlotBusy(t, d)
    /\ served' = None
    /\ UNCHANGED <<slot, cnt, waitq, req, panicked>>

PickCall(t, r) ==
    \/ /\ t[1] # 0 /\ sndCnt[t[1]] = 0
       /\ PickMail(t, r)
       /\ UNCHANGED sendVars
    \/ /\ cur = t /\ t # T0 /\ req[t] \in {None, r}
       /\ sndCnt[t[1]] > 0
       /\ panicked' = TRUE
       /\ UNCHANGED <<mailVars, snd, sndCnt, sendTo>>

(* block() and unblock() by a sibling, modelled in Mail, are left out here. *)
OtherCall ==
    /\ \/ Tick
       \/ \E t \in Thread :
             \/ Pause(t)
             \/ \E d \in Thread, l \in Level, m \in Msg : PostMail(t, d, l, m)
    /\ UNCHANGED sendVars

SendInit ==
    /\ Init
    /\ snd = [t \in Thread |-> None]
    /\ sndCnt = [p \in Owners |-> 0]
    /\ sendTo = [t \in Thread |-> None]
    /\ panicked = FALSE

SendNext ==
    /\ ~panicked
    /\ \/ OtherCall
       \/ \E t \in Thread, d \in Thread : SendCall(t, d)
       \/ \E t \in Thread, r \in Request : PickCall(t, r)

SendSpec == SendInit /\ [][SendNext]_vars

-----------------------------------------------------------------------------
(* Every variable keeps its type. *)
SendTypeOK ==
    /\ state \in [Thread -> SendState]
    /\ snd \in [Thread -> Thread \cup {None}]
    /\ sndCnt \in [Owners -> 0 .. CountWrap - 1]
    /\ sendTo \in [Thread -> Thread \cup {None}]
    /\ panicked \in BOOLEAN

(* try_to_send follows the recorded sends in the kernel with interrupts off *)
(* and without a bound: they never form a cycle, so the walk ends, although *)
(* no record is ever erased and later sends overwrite earlier ones.         *)
WalkEnds == \A d \in Thread : Walk(d)[Cardinality(Thread)] = None

WaitsFor(t, d) == state[t] = "SENDING" /\ snd[d] = t

(* send.c:12 "loop waited send mail detected !": two threads that sleep     *)
(* until the other one picks their mail are what the walk is to prevent.    *)
NoSendLoop ==
    \A t, d \in Thread : ~(WaitsFor(t, d) /\ WaitsFor(d, t))
=============================================================================
