-------------------------- MODULE Keyboard_proofs --------------------------
(***************************************************************************)
(* Theorems about Keyboard, for rings of any length and any characters.     *)
(***************************************************************************)
EXTENDS Keyboard, SequenceTheorems, TLAPS

Typed ==
    /\ state \in [Thread -> ThreadState]
    /\ cur \in Thread
    /\ kHead \in 0 .. KbLen - 1
    /\ kTail \in 0 .. KbLen - 1
    /\ DOMAIN kBuf = 0 .. KbLen - 1

IInv == Typed /\ NoLostWakeup

ring == <<kHead, kTail, kBuf>>

-----------------------------------------------------------------------------
(* The scheduler keeps the types and changes only the state it is asked to. *)
LEMMA WakeUpKeeps ==
    ASSUME Typed, NEW t \in Thread, CPU!WakeUp(t)
    PROVE  /\ state' \in [Thread -> ThreadState] /\ cur' \in Thread
           /\ state'[t] = "RUNNING"
           /\ \A u \in Thread \ {t} : state'[u] = state[u]
<1> USE DEF Typed, CPU!WakeUp, CPU!dispatchVars, ThreadState
<1>1. CASE state[t] = "RUNNING"
  BY <1>1
<1>2. CASE state[t] # "RUNNING"
  BY <1>2
<1> QED
  BY <1>1, <1>2

LEMMA SetState ==
    ASSUME Typed, NEW t \in Thread, NEW s \in ThreadState,
           CPU!Schedule([state EXCEPT ![t] = s])
    PROVE  /\ state' \in [Thread -> ThreadState] /\ cur' \in Thread
           /\ state'[t] = s
           /\ \A u \in Thread \ {t} : state'[u] = state[u]
BY DEF Typed, CPU!Schedule, CPU!Ready, T0, Thread

LEMMA SleepOnKeeps ==
    ASSUME Typed, NEW t \in Thread, CPU!SleepOn(t)
    PROVE  /\ state' \in [Thread -> ThreadState] /\ cur' \in Thread
           /\ \A u \in Thread \ {t} : state'[u] = state[u]
<1>1. CASE state[t] = "STUCK"
  BY <1>1 DEF Typed, CPU!SleepOn, CPU!dispatchVars
<1>2. CASE state[t] # "STUCK"
  BY <1>2, SetState DEF CPU!SleepOn, ThreadState
<1> QED
  BY <1>1, <1>2

(* Both ends of the ring stay inside it. *)
LEMMA NextInRing == \A i \in 0 .. KbLen - 1 : (i + 1) % KbLen \in 0 .. KbLen - 1
BY KeyboardAssumption

-----------------------------------------------------------------------------
(* The invariant holds when the terminal starts. *)
LEMMA InitIInv == Init => IInv
BY KeyboardAssumption
   DEF Init, CPU!Init, IInv, Typed, NoLostWakeup, Thread, T0, ThreadState

(* A key comes: the decoder is awake afterwards, and the slot at the head   *)
(* is as it was, the only free slot being left unused.                      *)
LEMMA KeybdStep ==
    ASSUME IInv, NEW k \in Key, Keybd(k)
    PROVE  IInv' /\ kHead' = kHead /\ kBuf'[kHead] = kBuf[kHead]
<1>1. /\ state' \in [Thread -> ThreadState] /\ cur' \in Thread
      /\ state'[Decoder] = "RUNNING"
  BY WakeUpKeeps DEF IInv, Keybd, Thread
<1>2. CASE NextSlot = kHead
  BY <1>1, <1>2 DEF IInv, Typed, NoLostWakeup, Keybd, kbVars
<1>3. CASE NextSlot # kHead
  BY <1>1, <1>3, NextInRing DEF IInv, Typed, NoLostWakeup, Keybd, NextSlot
<1> QED
  BY <1>2, <1>3

(* The steps that leave the ring alone put the decoder to sleep only when   *)
(* the ring is empty.                                                       *)
LEMMA RingUntouched ==
    ASSUME IInv, UNCHANGED ring, state' \in [Thread -> ThreadState], cur' \in Thread,
           state'[Decoder] = "STUCK" => (state[Decoder] = "STUCK" \/ kHead = kTail)
    PROVE  IInv'
BY DEF IInv, Typed, NoLostWakeup, ring

(* A clock tick marks only the thread it interrupts as running. *)
LEMMA TickStep == IInv /\ Tick => IInv' /\ UNCHANGED ring
<1> SUFFICES ASSUME IInv, Tick PROVE IInv' /\ UNCHANGED ring
  OBVIOUS
<1>1. cur \in Thread /\ CPU!Schedule([state EXCEPT ![cur] = "RUNNING"])
  BY DEF IInv, Typed, Tick, CPU!Tick
<1>2. UNCHANGED ring
  BY DEF Tick, ring, kbVars
<1>3. /\ state' \in [Thread -> ThreadState] /\ cur' \in Thread
      /\ state'[cur] = "RUNNING"
      /\ \A u \in Thread \ {cur} : state'[u] = state[u]
  BY <1>1, SetState DEF IInv, ThreadState
<1>4. state'[Decoder] = "STUCK" => state[Decoder] = "STUCK"
  BY <1>3 DEF Thread
<1> QED
  BY <1>2, <1>3, <1>4, RingUntouched

(* What the kernel prints only moves the cursor. *)
LEMMA OutputStep == IInv /\ Output => IInv' /\ UNCHANGED ring
BY DEF IInv, Typed, NoLostWakeup, Output, ring, kbVars

(* The decoder pauses only when it has found the ring empty. *)
LEMMA SleepStep == IInv /\ (Idle \/ AwaitKey) => IInv' /\ UNCHANGED ring
<1> SUFFICES ASSUME IInv, Idle \/ AwaitKey PROVE IInv' /\ UNCHANGED ring
  OBVIOUS
<1>1. UNCHANGED ring
  BY DEF Idle, AwaitKey, ring, kbVars
<1>2. CASE Idle
  BY <1>1, <1>2, SleepOnKeeps, RingUntouched DEF IInv, Typed, Idle, Thread
<1>3. CASE AwaitKey
  BY <1>1, <1>3, SleepOnKeeps, RingUntouched DEF IInv, AwaitKey, Thread
<1> QED
  BY <1>1, <1>2, <1>3

(* Decoding a key touches the other ring and wakes at most the writer. *)
LEMMA DecodeStep ==
    IInv /\ (ReadSlot \/ ChIn \/ ChDel \/ GetChs \/ OtherKey) => IInv' /\ UNCHANGED ring
<1> SUFFICES ASSUME IInv, ReadSlot \/ ChIn \/ ChDel \/ GetChs \/ OtherKey
             PROVE  IInv' /\ UNCHANGED ring
  OBVIOUS
<1>1. UNCHANGED ring
  BY DEF ReadSlot, ChIn, ChDel, GetChs, OtherKey, Decode, ring, kbVars
<1>2. CASE UNCHANGED <<state, cur>>
  BY <1>1, <1>2, RingUntouched DEF IInv, Typed
<1>3. CASE GetChs
  BY <1>1, <1>3, WakeUpKeeps, RingUntouched DEF IInv, GetChs, Thread, Writer, Decoder
<1> QED
  BY <1>1, <1>2, <1>3 DEF ReadSlot, ChIn, ChDel, OtherKey

(* Taking a key leaves the head inside the ring and the decoder awake. *)
LEMMA AdvanceStep == IInv /\ Advance => IInv'
BY NextInRing DEF IInv, Typed, NoLostWakeup, Advance

(* Every step keeps the invariant. *)
LEMMA NextIInv == IInv /\ [Next]_vars => IInv'
<1>1. ASSUME IInv, UNCHANGED vars PROVE IInv'
  BY <1>1 DEF IInv, Typed, NoLostWakeup, vars, kbVars
<1> QED
  BY <1>1, KeybdStep, TickStep, OutputStep, SleepStep, DecodeStep, AdvanceStep DEF Next

(* The decoder never sleeps while a key waits: the test and the pause() of  *)
(* kb_put (decode.c:27) against the wake_up of the handler (keybd.c:39).    *)
THEOREM DecoderNeverOversleeps == Spec => []NoLostWakeup
<1>1. IInv => NoLostWakeup
  BY DEF IInv
<1> QED
  BY <1>1, InitIInv, NextIInv, PTL DEF Spec

(* Between the decoder's sti() and its read of the slot at the head no      *)
(* interrupt writes that slot, full ring or not.                            *)
THEOREM SlotNotOverwritten == Spec => SlotStableTillRead
<1>1. IInv /\ [Next]_vars =>
        [pc = "read" /\ pc' = "read" => kBuf'[kHead'] = kBuf[kHead]]_vars
  <2> SUFFICES ASSUME IInv, Next, pc = "read", pc' = "read"
               PROVE  kBuf'[kHead'] = kBuf[kHead]
    BY DEF vars
  <2>1. ~(Advance \/ ReadSlot \/ ChIn \/ ChDel \/ GetChs \/ OtherKey)
    BY DEF Advance, ReadSlot, ChIn, ChDel, GetChs, OtherKey, Decode, Runs
  <2> QED
    BY <2>1, KeybdStep, TickStep, OutputStep, SleepStep DEF Next, ring
<1> QED
  BY <1>1, InitIInv, NextIInv, PTL DEF Spec, SlotStableTillRead

-----------------------------------------------------------------------------
(* Keyboard implements Terminal: what the two rings hold, read from head to  *)
(* tail, changes as the queue of keys and the line of Terminal do.           *)

(* Rings: the place i slots after the head, and what lies after it.         *)
Ring(L) == 0 .. L - 1
Buf(L, S) == [Ring(L) -> S]
Place(h, i, L) == (h + i) % L

(* The remainder of a number that goes around the ring at most once. *)
LEMMA ModIs ==
    ASSUME NEW L \in Nat \ {0}, NEW a \in 0 .. 2 * L - 1
    PROVE  a % L = IF a < L THEN a ELSE a - L
OBVIOUS

(* The number of slots held, as ch_in and ch_out compute it. *)
LEMMA HeldIs ==
    ASSUME NEW L \in Nat \ {0}, NEW h \in Ring(L), NEW t \in Ring(L)
    PROVE  /\ Held(h, t, L) = IF t < h THEN t - h + L ELSE t - h
           /\ Held(h, t, L) \in Ring(L)
<1> DEFINE a == t - h + L
<1>1. a \in 0 .. 2 * L - 1 /\ Held(h, t, L) = a % L
  BY DEF Held, Ring
<1> HIDE DEF a
<1>2. Held(h, t, L) = IF a < L THEN a ELSE a - L
  BY <1>1, ModIs
<1> QED
  BY <1>1, <1>2 DEF a, Ring

(* The slot at a distance from the head. *)
LEMMA PlaceIs ==
    ASSUME NEW L \in Nat \ {0}, NEW h \in Ring(L), NEW i \in Int, 0 <= i, i <= L
    PROVE  /\ Place(h, i, L) = IF h + i < L THEN h + i ELSE h + i - L
           /\ Place(h, i, L) \in Ring(L)
<1> DEFINE a == h + i
<1>1. a \in 0 .. 2 * L - 1
  BY DEF Ring
<1> HIDE DEF a
<1>2. a % L = IF a < L THEN a ELSE a - L
  BY <1>1, ModIs
<1>3. Place(h, i, L) = a % L
  BY DEF a, Place
<1> QED
  BY <1>1, <1>2, <1>3 DEF a, Ring

(* The slots after the head as a sequence. *)
LEMMA SlotsSeq ==
    ASSUME NEW S, NEW L \in Nat \ {0}, NEW h \in Ring(L), NEW n \in Ring(L),
           NEW buf \in Buf(L, S)
    PROVE  /\ Slots(h, n, buf, L) \in Seq(S)
           /\ Len(Slots(h, n, buf, L)) = n
           /\ \A i \in 1 .. n : Slots(h, n, buf, L)[i] = buf[Place(h, i, L)]
<1>1. ASSUME NEW i \in 1 .. n PROVE buf[Place(h, i, L)] \in S
  <2>1. i \in Int /\ 0 <= i /\ i <= L
    BY DEF Ring
  <2>2. Place(h, i, L) \in Ring(L)
    BY <2>1, PlaceIs
  <2> QED
    BY <2>2 DEF Buf
<1>2. n \in Nat
  BY DEF Ring
<1> QED
  BY <1>1, <1>2 DEF Slots, Place

(* What a ring holds, as a sequence. *)
LEMMA ContentSeq ==
    ASSUME NEW S, NEW L \in Nat \ {0}, NEW h \in Ring(L), NEW t \in Ring(L),
           NEW buf \in Buf(L, S)
    PROVE  /\ Content(h, t, buf, L) \in Seq(S)
           /\ Len(Content(h, t, buf, L)) = Held(h, t, L)
           /\ \A i \in 1 .. Held(h, t, L) : Content(h, t, buf, L)[i] = buf[Place(h, i, L)]
<1> DEFINE n == Held(h, t, L)
<1>1. n \in Ring(L)
  BY HeldIs
<1>2. Content(h, t, buf, L) = Slots(h, n, buf, L)
  BY DEF Content
<1> HIDE DEF n
<1>3. /\ Slots(h, n, buf, L) \in Seq(S)
      /\ Len(Slots(h, n, buf, L)) = n
      /\ \A i \in 1 .. n : Slots(h, n, buf, L)[i] = buf[Place(h, i, L)]
  BY <1>1, SlotsSeq
<1> QED
  BY <1>2, <1>3 DEF n

(* A slot is filled behind the tail: what the ring holds grows by one.      *)
LEMMA PushContent ==
    ASSUME NEW S, NEW L \in Nat \ {0}, NEW h \in Ring(L), NEW t \in Ring(L),
           NEW buf \in Buf(L, S), NEW x \in S,
           NEW u, u = Place(t, 1, L), u # h,
           NEW new \in Buf(L, S), new[u] = x, \A j \in Ring(L) : j # u => new[j] = buf[j]
    PROVE  /\ Held(h, t, L) < L - 1
           /\ Content(h, u, new, L) = Append(Content(h, t, buf, L), x)
<1> DEFINE m == Held(h, t, L)
           c == Content(h, t, buf, L)
           d == Content(h, u, new, L)
<1>1. u \in Ring(L) /\ u = IF t + 1 < L THEN t + 1 ELSE t + 1 - L
  <2>1. 1 \in Int /\ 0 <= 1 /\ 1 <= L
    OBVIOUS
  <2>2. Place(t, 1, L) \in Ring(L)
    BY <2>1, PlaceIs
  <2>3. Place(t, 1, L) = IF t + 1 < L THEN t + 1 ELSE t + 1 - L
    BY <2>1, PlaceIs
  <2> QED
    BY <2>2, <2>3
<1>3. m \in Ring(L) /\ m = IF t < h THEN t - h + L ELSE t - h
  BY HeldIs
<1>4. Held(h, u, L) = IF u < h THEN u - h + L ELSE u - h
  BY <1>1, HeldIs
<1>5. c \in Seq(S) /\ Len(c) = m /\ \A i \in 1 .. m : c[i] = buf[Place(h, i, L)]
  BY ContentSeq
<1>6. d \in Seq(S) /\ Len(d) = Held(h, u, L)
      /\ \A i \in 1 .. Held(h, u, L) : d[i] = new[Place(h, i, L)]
  <2>1. u \in Ring(L)
    BY <1>1
  <2> QED
    BY <2>1, ContentSeq
<1> HIDE DEF m, c, d
<1>7. m < L - 1 /\ Held(h, u, L) = m + 1
  BY <1>1, <1>3, <1>4 DEF Ring
<1>8. ASSUME NEW i \in 1 .. m
      PROVE  Place(h, i, L) \in Ring(L) /\ Place(h, i, L) # u
  <2>1. i \in Int /\ 0 <= i /\ i <= L
    BY <1>3 DEF Ring
  <2>2. /\ Place(h, i, L) \in Ring(L)
        /\ Place(h, i, L) = IF h + i < L THEN h + i ELSE h + i - L
    BY <2>1, PlaceIs
  <2> QED
    BY <1>1, <1>3, <2>2 DEF Ring
<1>9. Place(h, m + 1, L) = u
  <2> DEFINE i == m + 1
  <2>1. i \in Int /\ 0 <= i /\ i <= L
    BY <1>3 DEF Ring
  <2> HIDE DEF i
  <2>2. Place(h, i, L) = IF h + i < L THEN h + i ELSE h + i - L
    BY <2>1, PlaceIs
  <2> QED
    BY <1>1, <1>3, <1>7, <2>2 DEF Ring, i
<1>10. m \in Nat
  BY <1>3 DEF Ring
<1>11. /\ Append(c, x) \in Seq(S) /\ Len(Append(c, x)) = m + 1
       /\ Append(c, x)[m + 1] = x
       /\ \A i \in 1 .. m : Append(c, x)[i] = c[i]
  BY <1>5, <1>10
<1>12. ASSUME NEW i \in 1 .. m + 1 PROVE d[i] = Append(c, x)[i]
  <2>1. CASE i \in 1 .. m
    <3>1. d[i] = new[Place(h, i, L)]
      BY <1>6, <1>7
    <3>2. new[Place(h, i, L)] = buf[Place(h, i, L)]
      BY <1>8, <2>1
    <3> QED
      BY <1>5, <1>11, <2>1, <3>1, <3>2
  <2>2. CASE i = m + 1
    <3>1. d[i] = new[Place(h, i, L)]
      BY <1>6, <1>7
    <3> QED
      BY <1>9, <1>11, <2>2, <3>1
  <2>3. i \in 1 .. m \/ i = m + 1
    BY <1>10
  <2> QED
    BY <2>1, <2>2, <2>3
<1>13. d = Append(c, x)
  BY <1>6, <1>7, <1>11, <1>12, SeqEqual
<1> QED
  BY <1>7, <1>13 DEF c, d, m

(* A ring whose tail is right before its head is full: one slot is unused.  *)
LEMMA FullContent ==
    ASSUME NEW L \in Nat \ {0}, NEW h \in Ring(L), NEW t \in Ring(L), Place(t, 1, L) = h
    PROVE  Held(h, t, L) = L - 1
<1>1. Held(h, t, L) = IF t < h THEN t - h + L ELSE t - h
  BY HeldIs
<1>2. h = IF t + 1 < L THEN t + 1 ELSE t + 1 - L
  BY PlaceIs
<1> QED
  BY <1>1, <1>2 DEF Ring

(* The head moves over n held slots, which are the first n. *)
LEMMA PopContent ==
    ASSUME NEW S, NEW L \in Nat \ {0}, NEW h \in Ring(L), NEW t \in Ring(L),
           NEW buf \in Buf(L, S),
           NEW m, m = Held(h, t, L), NEW n \in 0 .. m,
           NEW g, g = Place(h, n, L)
    PROVE  /\ Content(g, t, buf, L) = SubSeq(Content(h, t, buf, L), n + 1, m)
           /\ Slots(h, n, buf, L) = SubSeq(Content(h, t, buf, L), 1, n)
<1> DEFINE c == Content(h, t, buf, L)
           d == Content(g, t, buf, L)
           s == Slots(h, n, buf, L)
<1>1. m \in Ring(L) /\ m = IF t < h THEN t - h + L ELSE t - h
  BY HeldIs
<1>2. n \in Ring(L) /\ n \in Int /\ 0 <= n /\ n <= L
  BY <1>1 DEF Ring
<1>3. g \in Ring(L) /\ g = IF h + n < L THEN h + n ELSE h + n - L
  BY <1>2, PlaceIs
<1>4. Held(g, t, L) = IF t < g THEN t - g + L ELSE t - g
  BY <1>3, HeldIs
<1>5. c \in Seq(S) /\ Len(c) = m /\ \A i \in 1 .. m : c[i] = buf[Place(h, i, L)]
  BY ContentSeq
<1>6. d \in Seq(S) /\ Len(d) = Held(g, t, L)
      /\ \A i \in 1 .. Held(g, t, L) : d[i] = buf[Place(g, i, L)]
  <2>1. g \in Ring(L)
    BY <1>3
  <2> QED
    BY <2>1, ContentSeq
<1>7. s \in Seq(S) /\ Len(s) = n /\ \A i \in 1 .. n : s[i] = buf[Place(h, i, L)]
  <2>1. \A k \in Ring(L) :
          /\ Slots(h, k, buf, L) \in Seq(S) /\ Len(Slots(h, k, buf, L)) = k
          /\ \A i \in 1 .. k : Slots(h, k, buf, L)[i] = buf[Place(h, i, L)]
    BY SlotsSeq
  <2>2. n \in Ring(L)
    BY <1>2
  <2> QED
    BY <2>1, <2>2
<1> HIDE DEF c, d, s
<1>8. m \in Nat /\ n \in Nat /\ n <= m /\ Held(g, t, L) = m - n
  BY <1>1, <1>2, <1>3, <1>4 DEF Ring
<1>9. d = SubSeq(c, n + 1, m)
  <2> DEFINE e == SubSeq(c, n + 1, m)
  <2>1. \A i \in n + 1 .. m : c[i] \in S
    BY <1>5, <1>8, ElementOfSeq
  <2>2. e \in Seq(S) /\ Len(e) = m - n /\ \A i \in 1 .. m - n : e[i] = c[n + i]
    BY <1>8, <2>1, SubSeqProperties
  <2> HIDE DEF e
  <2>3. ASSUME NEW i \in 1 .. m - n PROVE d[i] = e[i]
    <3> DEFINE j == n + i
    <3>1. i \in Int /\ 0 <= i /\ i <= L /\ j \in Int /\ 0 <= j /\ j <= L /\ j \in 1 .. m
      BY <1>1, <1>8 DEF Ring
    <3> HIDE DEF j
    <3>2. Place(g, i, L) = IF g + i < L THEN g + i ELSE g + i - L
      BY <1>3, <3>1, PlaceIs
    <3>3. Place(h, j, L) = IF h + j < L THEN h + j ELSE h + j - L
      BY <3>1, PlaceIs
    <3>4. Place(g, i, L) = Place(h, j, L)
      BY <1>1, <1>3, <1>8, <3>1, <3>2, <3>3 DEF Ring, j
    <3>5. e[i] = c[j]
      BY <2>2 DEF j
    <3> QED
      BY <1>5, <1>6, <1>8, <3>1, <3>4, <3>5
  <2> QED
    BY <1>6, <1>8, <2>2, <2>3, SeqEqual DEF e
<1>10. s = SubSeq(c, 1, n)
  <2> DEFINE e == SubSeq(c, 1, n)
  <2>1. \A i \in 1 .. n : c[i] \in S
    BY <1>5, <1>8, ElementOfSeq
  <2>2. e \in Seq(S) /\ Len(e) = n /\ \A i \in 1 .. n : e[i] = c[i]
    BY <1>8, <2>1, SubSeqProperties
  <2> HIDE DEF e
  <2>3. \A i \in 1 .. n : s[i] = e[i]
    BY <1>5, <1>7, <1>8, <2>2
  <2> QED
    BY <1>7, <2>2, <2>3, SeqEqual DEF e
<1> QED
  BY <1>9, <1>10 DEF c, d, s

(* The tail moves back over the last of the held slots. *)
LEMMA DropContent ==
    ASSUME NEW S, NEW L \in Nat \ {0}, NEW h \in Ring(L), NEW t \in Ring(L),
           NEW buf \in Buf(L, S), h # t,
           NEW u, u = Place(t, L - 1, L),
           NEW m, m = Held(h, t, L)
    PROVE  /\ u \in Ring(L)
           /\ m > 0
           /\ Content(h, u, buf, L) = SubSeq(Content(h, t, buf, L), 1, m - 1)
<1> DEFINE i == L - 1
           n == m - 1
<1>1. i \in Int /\ 0 <= i /\ i <= L
  OBVIOUS
<1>2. u = Place(t, i, L)
  OBVIOUS
<1> HIDE DEF i
<1>3. u \in Ring(L) /\ u = IF t + i < L THEN t + i ELSE t + i - L
  BY <1>1, <1>2, PlaceIs
<1>4. m \in Ring(L) /\ m = IF t < h THEN t - h + L ELSE t - h
  BY HeldIs
<1>5. Held(h, u, L) = IF u < h THEN u - h + L ELSE u - h
  BY <1>3, HeldIs
<1>6. m > 0 /\ n \in 0 .. m /\ Held(h, u, L) = n
  BY <1>3, <1>4, <1>5 DEF Ring, i
<1> HIDE DEF n
<1>7. Content(h, u, buf, L) = Slots(h, n, buf, L)
  BY <1>6 DEF Content
<1>8. Slots(h, n, buf, L) = SubSeq(Content(h, t, buf, L), 1, n)
  BY <1>6, PopContent
<1> QED
  BY <1>3, <1>6, <1>7, <1>8 DEF n

-----------------------------------------------------------------------------
(* The invariant.                                                           *)
KeySlot  == Key \cup {NoKey}
CharSlot == Char \cup {NoKey}

Keys == Content(kHead, kTail, kBuf, KbLen)
Hand == IF pc = "read" THEN kBuf[kHead] ELSE key
Line == Content(cHead, cTail, cBuf, ChLen)

(* The slots between head and tail hold keys, never what was there at first; *)
(* so does the slot at the head until it is read.                           *)
KeysInv ==
    /\ kHead \in Ring(KbLen) /\ kTail \in Ring(KbLen)
    /\ kBuf \in Buf(KbLen, KeySlot)
    /\ Keys \in Seq(Key)
    /\ \/ pc = "take" /\ key = NoKey
       \/ pc = "read" /\ key = NoKey /\ kBuf[kHead] \in Key
       \/ pc = "decode" /\ key \in Key

LineInv ==
    /\ cHead \in Ring(ChLen) /\ cTail \in Ring(ChLen)
    /\ cBuf \in Buf(ChLen, CharSlot)
    /\ chars \in Seq(CharSlot)
    /\ atStart \in BOOLEAN

TInv == IInv /\ KeysInv /\ LineInv

(* The invariant gives every variable its type. *)
LEMMA TInvTypes == TInv => TypeOK
BY DEF TInv, IInv, Typed, KeysInv, LineInv, TypeOK, Ring, Buf, KeySlot, CharSlot,
   CPU!DispatchTypeOK

(* The lengths of the rings. *)
LEMMA Lengths ==
    KbLen \in Nat \ {0} /\ ChLen \in Nat \ {0} /\ Chunk \in Nat \ {0} /\ NoKey \notin Key
BY KeyboardAssumption

(* Two empty rings. *)
LEMMA EmptyRing ==
    ASSUME NEW S, NEW L \in Nat \ {0}, NEW h \in Ring(L), NEW buf \in Buf(L, S)
    PROVE  Held(h, h, L) = 0 /\ Content(h, h, buf, L) = <<>>
<1>1. Held(h, h, L) = IF h < h THEN h - h + L ELSE h - h
  BY HeldIs
<1>2. Held(h, h, L) = 0
  BY <1>1 DEF Ring
<1>3. Content(h, h, buf, L) \in Seq(S) /\ Len(Content(h, h, buf, L)) = 0
  BY <1>2, ContentSeq
<1> QED
  BY <1>2, <1>3, EmptySeq

(* Both rings are empty at first. *)
LEMMA InitTInv == Init => TInv /\ T!Init
<1> SUFFICES ASSUME Init PROVE TInv /\ T!Init
  OBVIOUS
<1>1. kHead \in Ring(KbLen) /\ cHead \in Ring(ChLen) /\ kTail = kHead /\ cTail = cHead
  BY Lengths DEF Init, Ring
<1>2. kBuf \in Buf(KbLen, KeySlot) /\ cBuf \in Buf(ChLen, CharSlot)
  BY DEF Init, Buf, Ring, KeySlot, CharSlot
<1>3. Keys = <<>> /\ Line = <<>>
  BY <1>1, <1>2, Lengths, EmptyRing DEF Keys, Line
<1>4. KeysInv /\ LineInv
  BY <1>1, <1>2, <1>3 DEF Init, KeysInv, LineInv
<1>5. T!Init
  BY <1>3 DEF Init, T!Init, Keys, Line
<1> QED
  BY <1>4, <1>5, InitIInv DEF TInv

-----------------------------------------------------------------------------
(* The ring of keys.                                                        *)

(* A key that comes is put behind the others, or the ring is full. *)
LEMMA KeybdKeys ==
    ASSUME TInv, NEW k \in Key, Keybd(k)
    PROVE  /\ KeysInv'
           /\ Hand' = Hand
           /\ \/ UNCHANGED Keys
              \/ Len(Keys) < KbLen - 1 /\ Keys' = Append(Keys, k)
<1> DEFINE m == Held(kHead, kTail, KbLen)
<1>1. /\ kHead \in Ring(KbLen) /\ kTail \in Ring(KbLen) /\ Keys \in Seq(Key)
      /\ kBuf \in Buf(KbLen, KeySlot)
  BY DEF TInv, KeysInv
<1>2. NextSlot = Place(kTail, 1, KbLen)
  BY DEF NextSlot, Place
<1>3. UNCHANGED <<kHead, pc, key>> /\ kBuf'[kHead] = kBuf[kHead]
  BY KeybdStep DEF TInv, Keybd
<1>4. CASE NextSlot = kHead
  <2>1. UNCHANGED <<kTail, kBuf>>
    BY <1>4 DEF Keybd, kbVars
  <2> QED
    BY <1>3, <2>1 DEF TInv, KeysInv, Hand, Keys
<1>5. CASE NextSlot # kHead
  <2>1. kTail' = NextSlot /\ kBuf' = [kBuf EXCEPT ![NextSlot] = k]
    BY <1>5 DEF Keybd
  <2>2. NextSlot \in Ring(KbLen)
    <3>1. 1 \in Int /\ 0 <= 1 /\ 1 <= KbLen
      BY Lengths
    <3> QED
      BY <1>1, <1>2, <3>1, Lengths, PlaceIs
  <2>3. /\ kBuf' \in Buf(KbLen, KeySlot)
        /\ kBuf'[NextSlot] = k
        /\ \A j \in Ring(KbLen) : j # NextSlot => kBuf'[j] = kBuf[j]
    BY <1>1, <2>1, <2>2 DEF Buf, KeySlot
  <2>8. k \in KeySlot
    BY DEF KeySlot
  <2>4. /\ Held(kHead, kTail, KbLen) < KbLen - 1
        /\ Content(kHead, NextSlot, kBuf', KbLen) = Append(Keys, k)
    BY <1>1, <1>2, <1>5, <2>3, <2>8, Lengths, PushContent DEF Keys
  <2>5. Len(Keys) = Held(kHead, kTail, KbLen)
    BY <1>1, Lengths, ContentSeq DEF Keys
  <2>6. Keys' = Append(Keys, k)
    BY <1>3, <2>1, <2>4 DEF Keys
  <2>7. Keys' \in Seq(Key)
    BY <1>1, <2>6
  <2> QED
    BY <1>1, <1>3, <2>1, <2>2, <2>3, <2>4, <2>5, <2>6, <2>7 DEF TInv, KeysInv, Hand
<1> QED
  BY <1>4, <1>5

(* The decoder takes the first key: it is the slot the head moves to. *)
LEMMA AdvanceKeys ==
    ASSUME TInv, Advance
    PROVE  /\ KeysInv'
           /\ Hand = NoKey /\ Keys # <<>>
           /\ Hand' = Head(Keys) /\ Keys' = Tail(Keys)
<1> DEFINE m == Held(kHead, kTail, KbLen)
<1>1. /\ kHead \in Ring(KbLen) /\ kTail \in Ring(KbLen) /\ Keys \in Seq(Key)
      /\ kBuf \in Buf(KbLen, KeySlot)
      /\ pc = "take" /\ key = NoKey
  BY DEF TInv, KeysInv, Advance, Runs
<1>2. /\ kHead # kTail /\ kHead' = Place(kHead, 1, KbLen)
      /\ pc' = "read" /\ UNCHANGED <<kTail, kBuf, key>>
  BY DEF Advance, Place
<1>3. m = IF kTail < kHead THEN kTail - kHead + KbLen ELSE kTail - kHead
  BY <1>1, Lengths, HeldIs
<1>4. m \in Nat /\ 1 \in 0 .. m /\ m \in 1 .. m
  BY <1>1, <1>2, <1>3, Lengths DEF Ring
<1>5. 1 \in Int /\ 0 <= 1 /\ 1 <= KbLen
  BY Lengths
<1>6. kHead' \in Ring(KbLen)
  BY <1>1, <1>2, <1>5, Lengths, PlaceIs
<1>7. /\ Len(Keys) = m
      /\ \A i \in 1 .. m : Keys[i] = kBuf[Place(kHead, i, KbLen)]
  BY <1>1, Lengths, ContentSeq DEF Keys
<1>8. Content(kHead', kTail, kBuf, KbLen) = SubSeq(Keys, 2, m)
  <2> DEFINE n == 1
  <2>1. n \in 0 .. m /\ kHead' = Place(kHead, n, KbLen)
    BY <1>2, <1>4
  <2> HIDE DEF n
  <2>2. Content(kHead', kTail, kBuf, KbLen) = SubSeq(Keys, n + 1, m)
    BY <1>1, <2>1, Lengths, PopContent DEF Keys
  <2>3. n + 1 = 2
    BY DEF n
  <2> QED
    BY <2>2, <2>3
<1> HIDE DEF m
<1>9. Keys # <<>> /\ Head(Keys) = Keys[1]
  BY <1>1, <1>4, <1>7
<1>10. Keys' = Tail(Keys)
  <2>1. Keys' = SubSeq(Keys, 2, m)
    BY <1>2, <1>8 DEF Keys
  <2>2. Tail(Keys) = SubSeq(Keys, 2, m)
    BY <1>1, <1>7, <1>9, TailIsSubSeq
  <2> QED
    BY <2>1, <2>2
<1>11. Keys' \in Seq(Key)
  BY <1>1, <1>9, <1>10, HeadTailProperties
<1>12. kBuf'[kHead'] = Head(Keys) /\ Head(Keys) \in Key
  <2>1. kBuf'[kHead'] = Keys[1]
    BY <1>2, <1>4, <1>7
  <2> QED
    BY <1>1, <1>9, <2>1, HeadTailProperties
<1>13. KeysInv'
  BY <1>1, <1>2, <1>6, <1>11, <1>12 DEF KeysInv
<1> QED
  BY <1>1, <1>2, <1>9, <1>10, <1>12, <1>13 DEF Hand

(* Reading the slot puts the key that was taken into key. *)
LEMMA ReadSlotKeys == TInv /\ ReadSlot => KeysInv' /\ UNCHANGED <<Keys, Hand>>
BY DEF TInv, KeysInv, ReadSlot, Runs, Keys, Hand, kbVars

(* Decoding it takes it out of the hand. *)
LEMMA DecodeKeys ==
    TInv /\ Decode => KeysInv' /\ UNCHANGED Keys /\ Hand = key /\ key \in Key /\ Hand' = NoKey
BY DEF TInv, KeysInv, Decode, Runs, Keys, Hand, kbVars

(* Steps that leave the ring and the decoder alone. *)
LEMMA SameKeys ==
    TInv /\ UNCHANGED <<kbVars, pc, key>> => KeysInv' /\ UNCHANGED <<Keys, Hand>>
BY DEF TInv, KeysInv, Keys, Hand, kbVars

-----------------------------------------------------------------------------
(* The line.                                                                *)

(* Steps that leave the line alone. *)
LEMMA SameLine ==
    TInv /\ UNCHANGED <<chVars, chars>> /\ atStart' \in BOOLEAN
        => LineInv' /\ UNCHANGED <<Line, chars>>
BY DEF TInv, LineInv, Line, chVars

(* A character is put at the end of the line, if there is room. *)
LEMMA ChInLine ==
    ASSUME TInv, ChIn
    PROVE  /\ LineInv'
           /\ key \in Char /\ UNCHANGED chars /\ atStart' = FALSE
           /\ Line' = IF Len(Line) < ChLen - 1 THEN Append(Line, key) ELSE Line
<1> DEFINE u == (cTail + 1) % ChLen
<1>1. /\ cHead \in Ring(ChLen) /\ cTail \in Ring(ChLen)
      /\ cBuf \in Buf(ChLen, CharSlot)
  BY DEF TInv, LineInv
<1>2. u = Place(cTail, 1, ChLen)
  BY DEF Place
<1>3. key \in Char /\ UNCHANGED chars /\ atStart' = FALSE /\ atStart' \in BOOLEAN
  BY DEF ChIn
<1>4. Len(Line) = Held(cHead, cTail, ChLen)
  BY <1>1, Lengths, ContentSeq DEF Line
<1>5. CASE u = cHead
  <2>1. UNCHANGED chVars
    BY <1>5 DEF ChIn
  <2>2. Held(cHead, cTail, ChLen) = ChLen - 1
    BY <1>1, <1>2, <1>5, Lengths, FullContent
  <2>3. ~(Len(Line) < ChLen - 1)
    BY <1>4, <2>2, Lengths
  <2> QED
    BY <1>3, <2>1, <2>3, SameLine
<1>6. CASE u # cHead
  <2>1. cHead' = cHead /\ cTail' = u /\ cBuf' = [cBuf EXCEPT ![u] = key]
    BY <1>6 DEF ChIn
  <2>2. u \in Ring(ChLen)
    <3>1. 1 \in Int /\ 0 <= 1 /\ 1 <= ChLen
      BY Lengths
    <3> QED
      BY <1>1, <1>2, <3>1, Lengths, PlaceIs
  <2> HIDE DEF u
  <2>3. /\ cBuf' \in Buf(ChLen, CharSlot)
        /\ cBuf'[u] = key
        /\ \A j \in Ring(ChLen) : j # u => cBuf'[j] = cBuf[j]
    BY <1>1, <1>3, <2>1, <2>2 DEF Buf, CharSlot
  <2>4. key \in CharSlot
    BY <1>3 DEF CharSlot
  <2>5. Held(cHead, cTail, ChLen) < ChLen - 1 /\ Content(cHead, u, cBuf', ChLen) = Append(Line, key)
    BY <1>1, <1>2, <1>6, <2>3, <2>4, Lengths, PushContent DEF Line
  <2>6. Line' = Append(Line, key)
    BY <2>1, <2>5 DEF Line
  <2> QED
    BY <1>1, <1>3, <1>4, <2>1, <2>2, <2>3, <2>5, <2>6 DEF TInv, LineInv
<1> QED
  BY <1>5, <1>6

(* Backspace takes the last character back, but none from an empty line or   *)
(* with the cursor at the start of the screen (rw_con.c:206-207).           *)
LEMMA ChDelLine ==
    ASSUME TInv, ChDel
    PROVE  /\ LineInv'
           /\ key = Backspace /\ UNCHANGED chars
           /\ IF atStart \/ Line = <<>>
              THEN UNCHANGED <<Line, atStart>>
              ELSE Line' = SubSeq(Line, 1, Len(Line) - 1) /\ atStart' \in BOOLEAN
<1>1. /\ cHead \in Ring(ChLen) /\ cTail \in Ring(ChLen)
      /\ cBuf \in Buf(ChLen, CharSlot)
      /\ atStart \in BOOLEAN
  BY DEF TInv, LineInv
<1>2. key = Backspace /\ UNCHANGED <<cHead, cBuf, chars>>
  BY DEF ChDel
<1>3. CASE atStart \/ cHead = cTail
  <2>1. UNCHANGED chVars /\ UNCHANGED atStart /\ atStart' \in BOOLEAN
    BY <1>1, <1>2, <1>3 DEF ChDel, chVars
  <2>2. atStart \/ Line = <<>>
    BY <1>1, <1>3, Lengths, EmptyRing DEF Line
  <2> QED
    BY <1>2, <2>1, <2>2, SameLine
<1>4. CASE ~(atStart \/ cHead = cTail)
  <2>1. cTail' = Place(cTail, ChLen - 1, ChLen)
    <3>1. cTail + ChLen - 1 = cTail + (ChLen - 1)
      BY <1>1, Lengths DEF Ring
    <3>2. cTail' = (cTail + ChLen - 1) % ChLen
      BY <1>4 DEF ChDel
    <3> QED
      BY <3>1, <3>2 DEF Place
  <2>2. /\ cTail' \in Ring(ChLen)
        /\ Held(cHead, cTail, ChLen) > 0
        /\ Content(cHead, cTail', cBuf, ChLen) = SubSeq(Line, 1, Held(cHead, cTail, ChLen) - 1)
    BY <1>1, <1>4, <2>1, Lengths, DropContent DEF Line
  <2>3. Len(Line) = Held(cHead, cTail, ChLen) /\ Held(cHead, cTail, ChLen) \in Ring(ChLen)
    BY <1>1, Lengths, ContentSeq, HeldIs DEF Line
  <2>4. Line # <<>>
    BY <2>2, <2>3, Lengths DEF Ring
  <2>5. Line' = SubSeq(Line, 1, Len(Line) - 1)
    BY <1>2, <2>2, <2>3 DEF Line
  <2>6. atStart' \in BOOLEAN
    BY <1>4 DEF ChDel
  <2> QED
    BY <1>1, <1>2, <1>4, <2>2, <2>4, <2>5, <2>6 DEF TInv, LineInv
<1> QED
  BY <1>3, <1>4

(* Enter hands out the front of the line, at most Chunk characters. *)
LEMMA GetChsLine ==
    ASSUME TInv, GetChs
    PROVE  /\ LineInv'
           /\ key = Enter /\ atStart' = FALSE
           /\ LET n == IF Len(Line) < Chunk THEN Len(Line) ELSE Chunk
              IN  /\ chars' = SubSeq(Line, 1, n)
                  /\ Line' = SubSeq(Line, n + 1, Len(Line))
<1> DEFINE m == Held(cHead, cTail, ChLen)
           n == IF m < Chunk THEN m ELSE Chunk
<1>1. /\ cHead \in Ring(ChLen) /\ cTail \in Ring(ChLen)
      /\ cBuf \in Buf(ChLen, CharSlot)
  BY DEF TInv, LineInv
<1>2. /\ key = Enter /\ UNCHANGED <<cTail, cBuf>> /\ atStart' = FALSE
      /\ chars' = Slots(cHead, n, cBuf, ChLen)
      /\ cHead' = Place(cHead, n, ChLen)
  BY DEF GetChs, Place
<1>3. m \in Ring(ChLen)
  BY <1>1, Lengths, HeldIs
<1>4. Len(Line) = m
  BY <1>1, Lengths, ContentSeq DEF Line
<1>5. n \in 0 .. m /\ n \in Ring(ChLen) /\ n \in Int /\ 0 <= n /\ n <= ChLen
  BY <1>3, Lengths DEF Ring
<1> HIDE DEF n
<1>6. /\ Content(cHead', cTail, cBuf, ChLen) = SubSeq(Line, n + 1, m)
      /\ Slots(cHead, n, cBuf, ChLen) = SubSeq(Line, 1, n)
  BY <1>1, <1>2, <1>5, Lengths, PopContent DEF Line
<1>7. cHead' \in Ring(ChLen)
  BY <1>1, <1>2, <1>5, Lengths, PlaceIs
<1>8. Slots(cHead, n, cBuf, ChLen) \in Seq(CharSlot)
  BY <1>1, <1>5, Lengths, SlotsSeq
<1>9. LineInv'
  BY <1>1, <1>2, <1>7, <1>8 DEF LineInv
<1>10. chars' = SubSeq(Line, 1, n) /\ Line' = SubSeq(Line, n + 1, Len(Line))
  BY <1>2, <1>4, <1>6 DEF Line
<1>11. n = IF Len(Line) < Chunk THEN Len(Line) ELSE Chunk
  BY <1>4 DEF n
<1> QED
  BY <1>2, <1>9, <1>10, <1>11

-----------------------------------------------------------------------------
(* Every step keeps the invariant and is a step of Terminal, or none.       *)
TerminalStep == T!Next \/ UNCHANGED T!vars

(* A key is pressed, or dropped. *)
LEMMA KeybdTerminal ==
    ASSUME TInv, NEW k \in Key, Keybd(k)
    PROVE  KeysInv' /\ LineInv' /\ TerminalStep
<1>0. UNCHANGED <<chVars, chars, atStart>> /\ atStart' \in BOOLEAN
  BY DEF Keybd, TInv, LineInv
<1>1. LineInv' /\ UNCHANGED <<Line, chars, atStart>>
  BY <1>0, SameLine
<1>2. CASE UNCHANGED Keys
  BY <1>1, <1>2, KeybdKeys DEF TerminalStep, T!vars, Keys, Hand, Line
<1>3. CASE Len(Keys) < KbLen - 1 /\ Keys' = Append(Keys, k)
  <2>1. T!Press(k)
    BY <1>1, <1>3, KeybdKeys DEF T!Press, Keys, Hand, Line
  <2> QED
    BY <1>1, <2>1, KeybdKeys DEF TerminalStep, T!Next, Key, Backspace, Enter
<1> QED
  BY <1>2, <1>3, KeybdKeys

(* A key is taken when the head moves; the read of the slot shows nothing. *)
LEMMA TakeTerminal == TInv /\ (Advance \/ ReadSlot) => KeysInv' /\ LineInv' /\ TerminalStep
<1> SUFFICES ASSUME TInv, Advance \/ ReadSlot PROVE KeysInv' /\ LineInv' /\ TerminalStep
  OBVIOUS
<1>0. UNCHANGED <<chVars, chars, atStart>> /\ atStart' \in BOOLEAN
  BY DEF Advance, ReadSlot, TInv, LineInv
<1>1. LineInv' /\ UNCHANGED <<Line, chars, atStart>>
  BY <1>0, SameLine
<1>2. CASE Advance
  <2>1. T!Take
    BY <1>1, <1>2, AdvanceKeys DEF T!Take, Keys, Hand, Line
  <2> QED
    BY <1>1, <1>2, <2>1, AdvanceKeys DEF TerminalStep, T!Next
<1>3. CASE ReadSlot
  BY <1>1, <1>3, ReadSlotKeys DEF TerminalStep, T!vars, Keys, Hand, Line
<1> QED
  BY <1>2, <1>3

(* The decoder looks at its key. *)
LEMMA DecodeTerminal ==
    TInv /\ (ChIn \/ ChDel \/ GetChs \/ OtherKey) => KeysInv' /\ LineInv' /\ TerminalStep
<1> SUFFICES ASSUME TInv, ChIn \/ ChDel \/ GetChs \/ OtherKey
             PROVE  KeysInv' /\ LineInv' /\ TerminalStep
  OBVIOUS
<1>1. KeysInv' /\ UNCHANGED Keys /\ Hand = key /\ Hand # NoKey /\ Hand' = NoKey
  BY DecodeKeys, Lengths DEF ChIn, ChDel, GetChs, OtherKey
<1>2. ASSUME T!TypeChar \/ T!RubOut \/ T!HandOut \/ T!Ignore PROVE TerminalStep
  BY <1>1, <1>2 DEF TerminalStep, T!Next, T!Look, Keys, Hand
<1>3. CASE ChIn
  <2>1. T!TypeChar
    BY <1>1, <1>3, ChInLine DEF T!TypeChar, Hand, Line
  <2> QED
    BY <1>1, <1>2, <1>3, <2>1, ChInLine
<1>4. CASE ChDel
  <2>1. T!RubOut
    BY <1>1, <1>4, ChDelLine DEF T!RubOut, Hand, Line
  <2> QED
    BY <1>1, <1>2, <1>4, <2>1, ChDelLine
<1>5. CASE GetChs
  <2>1. T!HandOut
    BY <1>1, <1>5, GetChsLine DEF T!HandOut, Hand, Line
  <2> QED
    BY <1>1, <1>2, <1>5, <2>1, GetChsLine
<1>6. CASE OtherKey
  <2>1. LineInv' /\ UNCHANGED <<Line, chars>>
    BY <1>6, SameLine DEF OtherKey
  <2>2. "other" \notin Char \cup {Backspace, Enter}
    BY KeyboardAssumption DEF Backspace, Enter
  <2>3. T!Ignore
    BY <1>1, <1>6, <2>1, <2>2 DEF OtherKey, T!Ignore, Hand, Line
  <2> QED
    BY <1>1, <1>2, <2>1, <2>3
<1> QED
  BY <1>3, <1>4, <1>5, <1>6

(* The scheduler's steps touch neither ring. *)
LEMMA AsideTerminal ==
    TInv /\ (Tick \/ Idle \/ AwaitKey \/ UNCHANGED vars) => KeysInv' /\ LineInv' /\ TerminalStep
<1> SUFFICES ASSUME TInv, Tick \/ Idle \/ AwaitKey \/ UNCHANGED vars
             PROVE  KeysInv' /\ LineInv' /\ TerminalStep
  OBVIOUS
<1>1. UNCHANGED <<kbVars, chVars, chars, atStart, pc, key>> /\ atStart' \in BOOLEAN
  BY DEF Tick, Idle, AwaitKey, vars, TInv, LineInv
<1>2. KeysInv' /\ LineInv' /\ UNCHANGED <<Keys, Hand, Line, chars, atStart>>
  BY <1>1, SameKeys, SameLine
<1> QED
  BY <1>2 DEF TerminalStep, T!vars, Keys, Hand, Line

(* Nor does the kernel's output. *)
LEMMA OutputTerminal == TInv /\ Output => KeysInv' /\ LineInv' /\ TerminalStep
<1> SUFFICES ASSUME TInv, Output PROVE KeysInv' /\ LineInv' /\ TerminalStep
  OBVIOUS
<1>1. UNCHANGED <<kbVars, chVars, chars, pc, key>> /\ atStart' = FALSE
  BY DEF Output
<1>2. KeysInv' /\ LineInv' /\ UNCHANGED <<Keys, Hand, Line, chars>>
  BY <1>1, SameKeys, SameLine
<1>3. T!Output
  BY <1>1, <1>2 DEF T!Output, Keys, Hand, Line
<1> QED
  BY <1>2, <1>3 DEF TerminalStep, T!Next

(* All steps together. *)
LEMMA NextTInv == TInv /\ [Next]_vars => TInv' /\ TerminalStep
<1> SUFFICES ASSUME TInv, [Next]_vars PROVE TInv' /\ TerminalStep
  OBVIOUS
<1>1. IInv'
  BY NextIInv DEF TInv
<1>2. KeysInv' /\ LineInv' /\ TerminalStep
  BY KeybdTerminal, TakeTerminal, DecodeTerminal, AsideTerminal, OutputTerminal
  DEF Next
<1> QED
  BY <1>1, <1>2 DEF TInv

(* Heads and tails stay inside their rings, and only keys are decoded and    *)
(* only characters kept (decode.c:19-139, keybd.c:15-38).                   *)
THEOREM RingsStayTyped == Spec => []TypeOK
BY InitTInv, NextTInv, TInvTypes, PTL DEF Spec

(* The two rings implement Terminal: every accepted key is decoded once and  *)
(* in order although it is read after sti() (decode.c:31), and the line is   *)
(* what was typed and not rubbed out, handed out from its front.            *)
THEOREM KeyboardImplementsTerminal == Spec => ImplementsTerminal
<1>1. TInv /\ [Next]_vars => [T!Next]_(T!vars)
  BY NextTInv DEF TerminalStep
<1> QED
  BY <1>1, InitTInv, NextTInv, PTL DEF Spec, ImplementsTerminal, T!Spec
=============================================================================
