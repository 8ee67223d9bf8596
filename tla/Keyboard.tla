------------------------------ MODULE Keyboard ------------------------------
(***************************************************************************)
(* The keyboard path: the interrupt handler of kernel/keybd.c puts scan     *)
(* codes into a ring, the decoder, thread 1 of TTY (term/decode.c), takes   *)
(* them out, keeps the line in a second ring, and on enter copies the line  *)
(* and unblocks the writer, thread 2 of TTY (term/rw_con.c).                *)
(*                                                                         *)
(* A key stands for the scan codes that decode to it.  The decoder works    *)
(* with interrupts off between cli() and sti(), so what it does there is    *)
(* one step; an interrupt can come before and after.                        *)
(***************************************************************************)
EXTENDS Integers, Sequences

CONSTANTS
    Char,           \* keys that stand for a character
    KbLen,          \* KB_BUF_LEN
    ChLen,          \* MAX_CHAR_BUF_LEN
    Chunk,          \* the 100 characters xputcmd asks getchs for
    NoKey           \* no key

Backspace == "backspace"
Enter     == "enter"
Key       == Char \cup {Backspace, Enter, "other"}

ASSUME KeyboardAssumption ==
    /\ KbLen \in Nat \ {0}
    /\ ChLen \in Nat \ {0}
    /\ Chunk \in Nat \ {0}
    /\ NoKey \notin Key
    /\ {Backspace, Enter, "other"} \cap Char = {}

T0      == "T0"
Decoder == "decoder"
Writer  == "writer"
Thread  == {T0, Decoder, Writer}
ThreadState == {"RUNNING", "STUCK"}

VARIABLES
    state, cur,             \* of the scheduler
    kHead, kTail, kBuf,     \* the ring of scan codes, KBD_QUE
    cHead, cTail, cBuf,     \* the ring of characters, CHAR_BUF
    chars,                  \* the line handed out, up to its first 0
    atStart,                \* whether the cursor is at the start of the screen
    pc, key                 \* where the decoder is, and the key it has read

kbVars   == <<kHead, kTail, kBuf>>
chVars   == <<cHead, cTail, cBuf>>
vars     == <<state, cur, kbVars, chVars, chars, atStart, pc, key>>

CPU == INSTANCE Dispatch

-----------------------------------------------------------------------------
(* keybd() and kb_get(): a key that finds the ring full is dropped, and the *)
(* decoder is woken in either case.                                         *)
NextSlot == (kTail + 1) % KbLen

\* Mutant: kb_get stores the key whether or not the ring is full.
KeybdOverrun(k) ==
    /\ kTail' = NextSlot
    /\ kBuf' = [kBuf EXCEPT ![NextSlot] = k]
    /\ CPU!WakeUp(Decoder)
    /\ UNCHANGED <<kHead, chVars, chars, atStart, pc, key>>

\* Mutant: the handler wakes the decoder only when it drops a key.
KeybdNoWake(k) ==
    /\ IF NextSlot = kHead
       THEN CPU!WakeUp(Decoder) /\ UNCHANGED kbVars
       ELSE /\ kTail' = NextSlot
            /\ kBuf' = [kBuf EXCEPT ![NextSlot] = k]
            /\ UNCHANGED <<state, cur, kHead>>
    /\ UNCHANGED <<chVars, chars, atStart, pc, key>>

Keybd(k) ==
    /\ IF NextSlot = kHead
       THEN UNCHANGED kbVars
       ELSE /\ kTail' = NextSlot
            /\ kBuf' = [kBuf EXCEPT ![NextSlot] = k]
            /\ UNCHANGED kHead
    /\ CPU!WakeUp(Decoder)
    /\ UNCHANGED <<chVars, chars, atStart, pc, key>>

Tick ==
    /\ CPU!Tick
    /\ UNCHANGED <<kbVars, chVars, chars, atStart, pc, key>>

\* Every thread but the decoder only pauses.
Idle ==
    /\ cur # Decoder
    /\ CPU!SleepOn(cur)
    /\ UNCHANGED <<kbVars, chVars, chars, atStart, pc, key>>

\* The kernel prints to the same screen (kernel/kconio.c).
Output ==
    /\ atStart' = FALSE
    /\ UNCHANGED <<state, cur, kbVars, chVars, chars, pc, key>>

-----------------------------------------------------------------------------
(* kb_put(): with interrupts off the decoder advances the head or sleeps;   *)
(* it reads the slot at the head only after it has turned them on again.    *)
Runs(at) == cur = Decoder /\ pc = at

\* Mutant: the decoder pauses after a test that may be out of date.
AwaitKeyStale ==
    /\ Runs("take")
    /\ CPU!SleepOn(Decoder)
    /\ UNCHANGED <<kbVars, chVars, chars, atStart, pc, key>>

AwaitKey ==
    /\ Runs("take")
    /\ kHead = kTail
    /\ CPU!SleepOn(Decoder)
    /\ UNCHANGED <<kbVars, chVars, chars, atStart, pc, key>>

Advance ==
    /\ Runs("take")
    /\ kHead # kTail
    /\ kHead' = (kHead + 1) % KbLen
    /\ pc' = "read"
    /\ UNCHANGED <<state, cur, kTail, kBuf, chVars, chars, atStart, key>>

ReadSlot ==
    /\ Runs("read")
    /\ key' = kBuf[kHead]
    /\ pc' = "decode"
    /\ UNCHANGED <<state, cur, kbVars, chVars, chars, atStart>>

-----------------------------------------------------------------------------
(* make_prc(), for a key that is pressed.  Of the cursor only counts whether *)
(* it is at the start of the screen, where backspace does nothing; characters*)
(* and lines move it on, backspace and the arrow keys may move it there.     *)
Decode ==
    /\ Runs("decode")
    /\ pc' = "take"
    /\ key' = NoKey
    /\ UNCHANGED kbVars

ChIn ==
    /\ Decode
    /\ key \in Char
    /\ LET next == (cTail + 1) % ChLen
       IN  IF next = cHead
           THEN UNCHANGED chVars
           ELSE /\ cTail' = next
                /\ cBuf' = [cBuf EXCEPT ![next] = key]
                /\ UNCHANGED cHead
    /\ atStart' = FALSE
    /\ UNCHANGED <<state, cur, chars>>

\* Mutant: the tail moves below the first slot.
ChDelNoWrap ==
    /\ Decode
    /\ key = Backspace
    /\ IF atStart \/ cHead = cTail
       THEN UNCHANGED <<cTail, atStart>>
       ELSE cTail' = cTail - 1 /\ atStart' \in BOOLEAN
    /\ UNCHANGED <<state, cur, cHead, cBuf, chars>>

\* Mutant: the line is shortened before the cursor is looked at.
ChDelUnseen ==
    /\ Decode
    /\ key = Backspace
    /\ IF cHead = cTail
       THEN UNCHANGED <<cTail, atStart>>
       ELSE cTail' = (cTail + ChLen - 1) % ChLen /\ atStart' \in BOOLEAN
    /\ UNCHANGED <<state, cur, cHead, cBuf, chars>>

\* xputcmd() calls ch_del() unless the cursor is at the start (rw_con.c:206).
ChDel ==
    /\ Decode
    /\ key = Backspace
    /\ IF atStart \/ cHead = cTail
       THEN UNCHANGED <<cTail, atStart>>
       ELSE cTail' = (cTail + ChLen - 1) % ChLen /\ atStart' \in BOOLEAN
    /\ UNCHANGED <<state, cur, cHead, cBuf, chars>>

\* What a ring holds: the slots after the head, up to the tail.
Held(head, tail, len)    == (tail - head + len) % len
Slots(head, n, buf, len) == [i \in 1 .. n |-> buf[(head + i) % len]]

\* getchs() calls ch_out() Chunk times, which gives 0 when the ring is empty;
\* then the writer is unblocked, and has the CPU if it was asleep.
GetChs ==
    /\ Decode
    /\ key = Enter
    /\ LET held == Held(cHead, cTail, ChLen)
           n    == IF held < Chunk THEN held ELSE Chunk
       IN  /\ chars' = Slots(cHead, n, cBuf, ChLen)
           /\ cHead' = (cHead + n) % ChLen
    /\ atStart' = FALSE
    /\ CPU!WakeUp(Writer)
    /\ UNCHANGED <<cTail, cBuf>>

OtherKey ==
    /\ Decode
    /\ key = "other"
    /\ atStart' \in BOOLEAN
    /\ UNCHANGED <<state, cur, chVars, chars>>

-----------------------------------------------------------------------------
Init ==
    /\ CPU!Init
    /\ kHead = 0 /\ kTail = 0 /\ kBuf = [i \in 0 .. KbLen - 1 |-> NoKey]
    /\ cHead = 0 /\ cTail = 0 /\ cBuf = [i \in 0 .. ChLen - 1 |-> NoKey]
    /\ chars = <<>>
    /\ atStart \in BOOLEAN
    /\ pc = "take" /\ key = NoKey

Next ==
    \/ \E k \in Key : Keybd(k)
    \/ Tick
    \/ Output
    \/ Idle
    \/ AwaitKey
    \/ Advance
    \/ ReadSlot
    \/ ChIn
    \/ ChDel
    \/ GetChs
    \/ OtherKey

Spec == Init /\ [][Next]_vars

(* The decoder gets the CPU again and again while it can run (NoStarvation  *)
(* of Sched), and gets on when it has it.                                   *)
FairSpec ==
    /\ Spec
    /\ WF_vars(Tick /\ cur' = Decoder)
    /\ SF_vars(Advance \/ ReadSlot \/ ChIn \/ ChDel \/ GetChs \/ OtherKey)

-----------------------------------------------------------------------------
(* Every variable keeps its type. *)
TypeOK ==
    /\ CPU!DispatchTypeOK
    /\ kHead \in 0 .. KbLen - 1
    /\ kTail \in 0 .. KbLen - 1
    /\ kBuf \in [0 .. KbLen - 1 -> Key \cup {NoKey}]
    /\ cHead \in 0 .. ChLen - 1
    /\ cTail \in 0 .. ChLen - 1
    /\ cBuf \in [0 .. ChLen - 1 -> Char \cup {NoKey}]
    /\ chars \in Seq(Char \cup {NoKey})
    /\ atStart \in BOOLEAN
    /\ pc \in {"take", "read", "decode"}
    /\ key \in Key \cup {NoKey}

(* The decoder never sleeps while a key waits: kb_put tests the ring and    *)
(* pauses without letting the keyboard interrupt in between.                *)
NoLostWakeup == state[Decoder] = "STUCK" => kHead = kTail

(* kb_put reads the slot at the head after sti(): no interrupt writes that  *)
(* slot before it is read, not even when the ring fills up.                 *)
SlotStableTillRead ==
    [][pc = "read" /\ pc' = "read" => kBuf'[kHead'] = kBuf[kHead]]_vars

(* Keys that wait get decoded. *)
KeysGetDecoded == (kHead # kTail) ~> (pc = "decode")

(* Both rings together implement Terminal. *)
Content(head, tail, buf, len) == Slots(head, Held(head, tail, len), buf, len)
T == INSTANCE Terminal WITH
        KeyRoom  <- KbLen - 1,
        LineRoom <- ChLen - 1,
        keys <- Content(kHead, kTail, kBuf, KbLen),
        hand <- IF pc = "read" THEN kBuf[kHead] ELSE key,
        line <- Content(cHead, cTail, cBuf, ChLen),
        out  <- chars
ImplementsTerminal == T!Spec
=============================================================================
