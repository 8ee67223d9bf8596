---------------------------- MODULE Cache_proofs ----------------------------
(***************************************************************************)
(* Theorems about Cache.                                                    *)
(*                                                                         *)
(* The rows first: InRow(c, r) is the set of buffers whose block belongs in *)
(* row r, and a row is as it should be when its links make a ring of just   *)
(* these.  find_buffer sees the whole of a ring, add_hash and free_buffer   *)
(* make rings of rings.  Then the cache as a whole: every buffer is in its  *)
(* row or on the free list, no block has two, what is in no buffer is on    *)
(* the disk.  free_buffer keeps this as long as it clears a row only for    *)
(* the last buffer of it, which the comment at buffer.c:117 takes for       *)
(* granted: the theorems hold of every run, up to the first row that is cut.*)
(***************************************************************************)
EXTENDS Cache, FiniteSetTheorems, SequenceTheorems, WellFoundedInduction, TLAPS

(* Some number of a set of natural numbers is the least. *)
LEMMA LeastExists ==
    ASSUME NEW S \in SUBSET Nat, S # {}
    PROVE  \E n \in S : \A k \in S : n <= k
<1>1. IsWellFoundedOn(OpToRel(<, Nat), Nat)
  BY NatLessThanWellFounded
<1>2. PICK n \in S : \A k \in S : ~(<<k, n>> \in OpToRel(<, Nat))
  BY <1>1, WFMin
<1>3. \A k \in S : ~(k < n)
  BY <1>2 DEF OpToRel
<1> QED
  BY <1>3

Rows   == {Row[b] : b \in Block}
Header == [blk : Block \cup {None}, valid : BOOLEAN, dirt : BOOLEAN, cnt : Nat,
           data : Data \cup {None}]
Caches == [hash : [Rows -> Buffer \cup {None}],
           next : [Buffer -> Buffer \cup {None}],
           prev : [Buffer -> Buffer \cup {None}],
           free : Seq(Buffer),
           bh : [Buffer -> Header]]

LEMMA ConstFacts ==
    /\ None \notin Block /\ None \notin Data /\ None \notin Buffer
    /\ \A b \in Block : Row[b] \in Rows
    /\ Zero \in Data
    /\ NrBuffers \in Nat
    /\ \A x \in Buffer : x \in Nat
    /\ Blank \in Header /\ Blank.blk = None
BY CacheAssumption DEF Rows, Buffer, Blank, Header

-----------------------------------------------------------------------------
(* Hash rows. *)

InRow(c, r) == {x \in Buffer : c.bh[x].blk # None /\ Row[c.bh[x].blk] = r}

After(i, n)  == IF i = n - 1 THEN 0 ELSE i + 1
Before(i, n) == IF i = 0 THEN n - 1 ELSE i - 1

(* Row r of cache c is the circular list q of n buffers. *)
Links(c, r, n, q) ==
    /\ q \in [0 .. n - 1 -> Buffer]
    /\ c.hash[r] = IF n = 0 THEN None ELSE q[0]
    /\ \A i \in 0 .. n - 1 : /\ c.next[q[i]] = q[After(i, n)]
                             /\ c.prev[q[i]] = q[Before(i, n)]
    /\ \A i, j \in 0 .. n - 1 : q[i] = q[j] => i = j

Listed(n, q) == {q[i] : i \in 0 .. n - 1}
Ring(c, r, n, q) == Links(c, r, n, q) /\ InRow(c, r) = Listed(n, q)
IsRow(c, r) == \E n \in Nat : \E q : Ring(c, r, n, q)

(* A row has no more buffers than there are. *)
LEMMA RingShort ==
    ASSUME NEW c, NEW r, NEW n \in Nat, NEW q, Links(c, r, n, q)
    PROVE  n <= NrBuffers
<1>1. q \in Injection(0 .. n - 1, Buffer)
  BY DEF Links, Injection, IsInjective
<1>2. IsFiniteSet(Buffer) /\ Cardinality(Buffer) = NrBuffers
  BY ConstFacts, FS_Interval DEF Buffer
<1>3. Cardinality(0 .. n - 1) = n
  BY FS_Interval
<1> QED
  BY <1>1, <1>2, <1>3, FS_Injection

(* What add_hash makes of the lists: x is behind the head h of row r. *)
Hashed(c, d, x, r, h) ==
    /\ d \in Caches
    /\ d.bh = c.bh /\ d.free = c.free
    /\ \A s \in Rows : d.hash[s] = IF s = r /\ h = None THEN x ELSE c.hash[s]
    /\ \A y \in Buffer : d.next[y] =
           IF y = x THEN IF h = None THEN x ELSE h
           ELSE IF h # None /\ y = c.prev[h] THEN x ELSE c.next[y]
    /\ \A y \in Buffer : d.prev[y] =
           IF h = None THEN IF y = x THEN x ELSE c.prev[y]
           ELSE IF y = h THEN x ELSE IF y = x THEN c.prev[h] ELSE c.prev[y]

LEMMA AddHashFields ==
    ASSUME NEW c \in Caches, NEW x \in Buffer, c.bh[x].blk \in Block,
           NEW r, r = Row[c.bh[x].blk], c.hash[r] # None => c.prev[c.hash[r]] # None
    PROVE  Hashed(c, AddHash(c, x), x, r, c.hash[r])
<1> DEFINE h == c.hash[r]
<1>1. r \in Rows /\ x # None /\ h \in Buffer \cup {None}
  BY ConstFacts DEF Caches
<1>2. CASE h = None
  <2>1. AddHash(c, x) = [c EXCEPT !.hash = [c.hash EXCEPT ![r] = x],
                                  !.next = [c.next EXCEPT ![x] = x],
                                  !.prev = [c.prev EXCEPT ![x] = x]]
    BY <1>2 DEF AddHash
  <2> DEFINE hash == [c.hash EXCEPT ![r] = x]
             next == [c.next EXCEPT ![x] = x]
             prev == [c.prev EXCEPT ![x] = x]
  <2>2. /\ hash \in [Rows -> Buffer \cup {None}]
        /\ next \in [Buffer -> Buffer \cup {None}]
        /\ prev \in [Buffer -> Buffer \cup {None}]
    BY <1>1 DEF Caches
  <2>3. /\ \A s \in Rows : hash[s] = IF s = r THEN x ELSE c.hash[s]
        /\ \A y \in Buffer : next[y] = IF y = x THEN x ELSE c.next[y]
        /\ \A y \in Buffer : prev[y] = IF y = x THEN x ELSE c.prev[y]
    BY <1>1 DEF Caches
  <2>4. AddHash(c, x) = [c EXCEPT !.hash = hash, !.next = next, !.prev = prev]
    BY <2>1
  <2> HIDE DEF hash, next, prev
  <2> QED
    BY <1>2, <2>2, <2>3, <2>4 DEF Hashed, Caches
<1>3. CASE h # None
  <2>1. AddHash(c, x) = [c EXCEPT !.next = [c.next EXCEPT ![c.prev[h]] = x, ![x] = h],
                                  !.prev = [c.prev EXCEPT ![x] = c.prev[h], ![h] = x]]
    BY <1>3 DEF AddHash
  <2> DEFINE t == c.prev[h]
             next == [c.next EXCEPT ![t] = x, ![x] = h]
             prev == [c.prev EXCEPT ![x] = t, ![h] = x]
  <2>2. t \in Buffer /\ h \in Buffer
    BY <1>1, <1>3 DEF Caches
  <2>3. AddHash(c, x) = [c EXCEPT !.next = next, !.prev = prev]
    BY <2>1
  <2> HIDE DEF t
  <2>4. /\ next \in [Buffer -> Buffer \cup {None}]
        /\ prev \in [Buffer -> Buffer \cup {None}]
    BY <2>2 DEF Caches
  <2>5. /\ \A y \in Buffer : next[y] = IF y = x THEN h ELSE IF y = t THEN x ELSE c.next[y]
        /\ \A y \in Buffer : prev[y] = IF y = h THEN x ELSE IF y = x THEN t ELSE c.prev[y]
    BY <2>2 DEF Caches
  <2> HIDE DEF next, prev
  <2> QED
    BY <1>3, <2>3, <2>4, <2>5 DEF Hashed, Caches, t
<1> QED
  BY <1>2, <1>3

(* The list q of n buffers with x behind them. *)
With(q, n, x) == [i \in 0 .. n |-> IF i = n THEN x ELSE q[i]]

(* A buffer that is hashed becomes the last of its row, and other rows stay. *)
LEMMA AddLinks ==
    ASSUME NEW c \in Caches, NEW x \in Buffer, c.bh[x].blk \in Block,
           NEW r, r = Row[c.bh[x].blk],
           NEW n \in Nat, NEW q, Links(c, r, n, q), x \notin Listed(n, q)
    PROVE  /\ AddHash(c, x) \in Caches
           /\ Links(AddHash(c, x), r, n + 1, With(q, n, x))
           /\ Hashed(c, AddHash(c, x), x, r, c.hash[r])
           /\ \A s \in Rows \ {r} : \A m \in Nat : \A p :
                 Links(c, s, m, p) /\ x \notin Listed(m, p) /\ Listed(n, q) \cap Listed(m, p) = {}
                     => Links(AddHash(c, x), s, m, p)
<1> DEFINE d == AddHash(c, x)
           p == With(q, n, x)
           h == c.hash[r]
<1>1. r \in Rows /\ x # None
  BY ConstFacts
<1>2. p \in [0 .. n -> Buffer] /\ \A i, j \in 0 .. n : p[i] = p[j] => i = j
  BY DEF Links, Listed, With
<1>3. /\ n = 0 => h = None
      /\ n # 0 => /\ h = q[0] /\ h \in Buffer /\ h # None
                  /\ c.prev[h] = q[n - 1] /\ q[n - 1] \in Buffer
                  /\ h \in Listed(n, q) /\ q[n - 1] \in Listed(n, q)
  BY ConstFacts DEF Links, Before, Listed
<1>11. Hashed(c, d, x, r, h)
  <2>1. h # None => c.prev[h] # None
    BY <1>3, ConstFacts DEF Links
  <2> QED
    BY <2>1, AddHashFields
<1>4. /\ d \in Caches
      /\ \A s \in Rows : d.hash[s] = IF s = r /\ n = 0 THEN x ELSE c.hash[s]
      /\ \A y \in Buffer : d.next[y] =
             IF y = x THEN IF n = 0 THEN x ELSE q[0]
             ELSE IF n # 0 /\ y = q[n - 1] THEN x ELSE c.next[y]
      /\ \A y \in Buffer : d.prev[y] =
             IF n = 0 THEN IF y = x THEN x ELSE c.prev[y]
             ELSE IF y = q[0] THEN x ELSE IF y = x THEN q[n - 1] ELSE c.prev[y]
  <2> HIDE DEF d, h
  <2>1. CASE n = 0
    BY <1>3, <1>11, <2>1 DEF Hashed
  <2>2. CASE n # 0
    BY <1>3, <1>11, <2>2 DEF Hashed
  <2> QED
    BY <2>1, <2>2
<1>5. \A i \in 0 .. n - 1 : q[i] # x /\ q[i] \in Buffer /\ p[i] = q[i]
  BY DEF Links, Listed, With
<1>6. p[n] = x
  BY DEF With
<1> HIDE DEF d, h, p
<1>7. ASSUME NEW i \in 0 .. n
      PROVE  d.next[p[i]] = p[After(i, n + 1)] /\ d.prev[p[i]] = p[Before(i, n + 1)]
  <2>1. CASE i = n
    BY <1>4, <1>5, <1>6, <2>1 DEF After, Before
  <2>2. CASE i # n
    <3>1. i \in 0 .. n - 1 /\ n # 0 /\ c.next[q[i]] = q[After(i, n)] /\ c.prev[q[i]] = q[Before(i, n)]
      BY <2>2 DEF Links
    <3>2. q[i] = q[n - 1] <=> i = n - 1
      BY <3>1 DEF Links
    <3>3. q[i] = q[0] <=> i = 0
      BY <3>1 DEF Links
    <3>4. d.next[p[i]] = p[After(i, n + 1)]
      BY <1>4, <1>5, <1>6, <2>2, <3>1, <3>2 DEF After
    <3>5. d.prev[p[i]] = p[Before(i, n + 1)]
      BY <1>4, <1>5, <1>6, <2>2, <3>1, <3>3 DEF Before
    <3> QED
      BY <3>4, <3>5
  <2> QED
    BY <2>1, <2>2
<1>8. d.hash[r] = p[0] /\ (n + 1) - 1 = n /\ n + 1 # 0
  <2>1. CASE n = 0
    BY <1>1, <1>4, <1>6, <2>1
  <2>2. CASE n # 0
    BY <1>1, <1>4, <1>5, <2>2 DEF Links
  <2> QED
    BY <2>1, <2>2
<1>9. Links(d, r, n + 1, p)
  BY <1>2, <1>7, <1>8 DEF Links
<1>10. ASSUME NEW s \in Rows \ {r}, NEW m \in Nat, NEW o, Links(c, s, m, o),
              x \notin Listed(m, o), Listed(n, q) \cap Listed(m, o) = {}
       PROVE  Links(d, s, m, o)
  <2>1. d.hash[s] = c.hash[s]
    BY <1>4
  <2>2. ASSUME NEW i \in 0 .. m - 1
        PROVE  d.next[o[i]] = c.next[o[i]] /\ d.prev[o[i]] = c.prev[o[i]]
    <3>1. o[i] \in Buffer /\ o[i] \in Listed(m, o)
      BY <1>10 DEF Links, Listed
    <3>2. o[i] # x /\ o[i] \notin Listed(n, q)
      BY <1>10, <3>1
    <3> QED
      BY <1>3, <1>4, <3>1, <3>2
  <2> QED
    BY <1>10, <2>1, <2>2 DEF Links
<1> QED
  BY <1>4, <1>9, <1>10, <1>11 DEF d, p, h

-----------------------------------------------------------------------------
(* find_buffer. *)

(* g is the pair of buffers looked at in the rounds 0 to m from head h. *)
AreEnds(g, c, h, m) ==
    g = [n \in 0 .. m |-> IF n = 0 THEN <<h, c.prev[h]>>
                          ELSE <<c.next[g[n - 1][1]], c.prev[g[n - 1][2]]>>]

LEMMA EndsStep ==
    ASSUME NEW g, NEW c, NEW h, NEW m \in Nat, AreEnds(g, c, h, m)
    PROVE  /\ g[0] = <<h, c.prev[h]>>
           /\ \A n \in 1 .. m : g[n] = <<c.next[g[n - 1][1]], c.prev[g[n - 1][2]]>>
<1>1. g[0] = <<h, c.prev[h]>>
  BY DEF AreEnds
<1>2. ASSUME NEW n \in 1 .. m
      PROVE  g[n] = <<c.next[g[n - 1][1]], c.prev[g[n - 1][2]]>>
  <2>1. n \in 0 .. m /\ n # 0
    OBVIOUS
  <2> QED
    BY <2>1 DEF AreEnds
<1> QED
  BY <1>1, <1>2

LEMMA EndsExist ==
    ASSUME NEW c, NEW h, NEW m \in Nat
    PROVE  \E g : AreEnds(g, c, h, m)
<1> DEFINE bad == {k \in Nat : ~\E g : AreEnds(g, c, h, k)}
<1>1. SUFFICES ASSUME bad # {} PROVE FALSE
  OBVIOUS
<1>2. PICK k \in bad : \A j \in bad : k <= j
  BY <1>1, LeastExists
<1>3. CASE k = 0
  <2> DEFINE f == [n \in 0 .. 0 |-> <<h, c.prev[h]>>]
  <2>1. f = [n \in 0 .. 0 |-> IF n = 0 THEN <<h, c.prev[h]>>
                              ELSE <<c.next[f[n - 1][1]], c.prev[f[n - 1][2]]>>]
    <3>1. \A n \in 0 .. 0 : n = 0
      OBVIOUS
    <3> QED
      BY <3>1, Zenon
  <2>2. AreEnds(f, c, h, 0)
    BY <2>1, Zenon DEF AreEnds
  <2> QED
    BY <1>2, <1>3, <2>2
<1>4. CASE k # 0
  <2>1. k - 1 \in Nat /\ k - 1 \notin bad
    BY <1>2, <1>4
  <2>2. PICK g : AreEnds(g, c, h, k - 1)
    BY <2>1
  <2> DEFINE a == <<h, c.prev[h]>>
             z == <<c.next[g[k - 1][1]], c.prev[g[k - 1][2]]>>
             f == [n \in 0 .. k |-> IF n = k THEN z ELSE g[n]]
  <2>3. g[0] = a /\ \A n \in 1 .. k - 1 : g[n] = <<c.next[g[n - 1][1]], c.prev[g[n - 1][2]]>>
    BY <2>1, <2>2, EndsStep
  <2>4. k \in Nat \ {0}
    BY <1>2, <1>4
  <2> HIDE DEF a, z
  <2>5. f[k] = z /\ \A n \in 0 .. k - 1 : f[n] = g[n]
    BY <2>4
  <2>6. f = [n \in 0 .. k |-> f[n]]
    OBVIOUS
  <2> HIDE DEF f
  <2>7. ASSUME NEW n \in 0 .. k
        PROVE  f[n] = IF n = 0 THEN <<h, c.prev[h]>>
                      ELSE <<c.next[f[n - 1][1]], c.prev[f[n - 1][2]]>>
    <3>1. CASE n = k
      <4>1. f[n - 1] = g[k - 1] /\ n # 0
        BY <2>4, <2>5, <3>1
      <4> QED
        BY <2>5, <3>1, <4>1 DEF z
    <3>2. CASE n = 0
      BY <2>3, <2>4, <2>5, <3>2 DEF a
    <3>3. CASE n # k /\ n # 0
      <4>1. f[n] = g[n] /\ f[n - 1] = g[n - 1] /\ n \in 1 .. k - 1
        BY <2>4, <2>5, <3>3
      <4> QED
        BY <2>3, <3>3, <4>1
    <3> QED
      BY <3>1, <3>2, <3>3
  <2>8. AreEnds(f, c, h, k)
    BY <2>6, <2>7, Zenon DEF AreEnds
  <2> QED
    BY <1>2, <2>8
<1> QED
  BY <1>3, <1>4

(* The rounds of find_buffer in row r: what it looks at, and when it stops.   *)
Ends(c, r) == CHOOSE g : AreEnds(g, c, c.hash[r], NrBuffers)
Meet(c, e) == c.next[e[1]] = e[2] \/ e[1] = e[2]
Rounds(c, r) == {n \in 0 .. NrBuffers : \A k \in 0 .. n - 1 : ~Meet(c, Ends(c, r)[k])}

LEMMA ComparedIs ==
    ASSUME NEW c, NEW r, c.hash[r] # None
    PROVE  Compared(c, r) = UNION {{Ends(c, r)[n][1], Ends(c, r)[n][2]} : n \in Rounds(c, r)}
BY DEF Compared, Ends, AreEnds, Rounds, Meet

LEMMA EndsAre ==
    ASSUME NEW c, NEW r
    PROVE  /\ Ends(c, r)[0] = <<c.hash[r], c.prev[c.hash[r]]>>
           /\ \A n \in 1 .. NrBuffers :
                 Ends(c, r)[n] = <<c.next[Ends(c, r)[n - 1][1]], c.prev[Ends(c, r)[n - 1][2]]>>
<1>1. \E g : AreEnds(g, c, c.hash[r], NrBuffers)
  BY EndsExist, ConstFacts
<1>2. AreEnds(Ends(c, r), c, c.hash[r], NrBuffers)
  BY <1>1, Zenon DEF Ends
<1> QED
  BY <1>2, EndsStep, ConstFacts
LEMMA EndsOfRing ==
    ASSUME NEW c, NEW r, NEW n \in Nat \ {0}, NEW q, Links(c, r, n, q), NEW k \in 0 .. n - 1
    PROVE  Ends(c, r)[k] = <<q[k], q[n - 1 - k]>>
<1> DEFINE bad == {i \in Nat : i < n /\ Ends(c, r)[i] # <<q[i], q[n - 1 - i]>>}
<1>1. SUFFICES ASSUME bad # {} PROVE FALSE
  OBVIOUS
<1>2. PICK i \in bad : \A j \in bad : i <= j
  BY <1>1, LeastExists
<1>3. CASE i = 0
  <2>1. Ends(c, r)[0] = <<c.hash[r], c.prev[c.hash[r]]>>
    BY EndsAre
  <2>2. c.hash[r] = q[0] /\ c.prev[q[0]] = q[n - 1]
    BY DEF Links, Before
  <2> QED
    BY <1>2, <1>3, <2>1, <2>2
<1>4. CASE i # 0
  <2>1. i - 1 \in 0 .. n - 1 /\ i - 1 \notin bad /\ n - i \in 0 .. n - 1 /\ n - 1 - (i - 1) = n - i
    BY <1>2, <1>4
  <2>2. Ends(c, r)[i - 1] = <<q[i - 1], q[n - i]>>
    BY <2>1
  <2>3. c.next[q[i - 1]] = q[i] /\ c.prev[q[n - i]] = q[n - 1 - i]
    <3>1. After(i - 1, n) = i /\ Before(n - i, n) = n - 1 - i
      BY <1>2, <1>4 DEF After, Before
    <3> QED
      BY <2>1, <3>1 DEF Links
  <2>4. i \in 1 .. NrBuffers
    BY <1>2, <1>4, RingShort, ConstFacts
  <2>5. Ends(c, r)[i] = <<c.next[Ends(c, r)[i - 1][1]], c.prev[Ends(c, r)[i - 1][2]]>>
    BY <2>4, EndsAre
  <2> QED
    BY <1>2, <2>2, <2>3, <2>5
<1> QED
  BY <1>3, <1>4

(* The two ends stop when they have met in the middle of the row.           *)
LEMMA RoundsOfRing ==
    ASSUME NEW c, NEW r, NEW n \in Nat \ {0}, NEW q, Links(c, r, n, q)
    PROVE  Rounds(c, r) = 0 .. (n - 1) \div 2
<1> DEFINE m == (n - 1) \div 2
<1>1. m \in Nat /\ m <= n - 1 /\ (2 * m = n - 1 \/ 2 * m = n - 2)
  OBVIOUS
<1>2. n <= NrBuffers /\ NrBuffers \in Nat
  BY RingShort, ConstFacts
<1> HIDE DEF m
<1>3. ASSUME NEW k \in 0 .. m
      PROVE  Meet(c, Ends(c, r)[k]) <=> k = m
  <2>1. k \in 0 .. n - 1 /\ n - 1 - k \in 0 .. n - 1 /\ After(k, n) \in 0 .. n - 1
    BY <1>1 DEF After
  <2>2. Ends(c, r)[k] = <<q[k], q[n - 1 - k]>>
    BY <2>1, EndsOfRing
  <2>3. c.next[q[k]] = q[After(k, n)]
    BY <2>1 DEF Links
  <2>4. Meet(c, Ends(c, r)[k]) <=> q[After(k, n)] = q[n - 1 - k] \/ q[k] = q[n - 1 - k]
    BY <2>2, <2>3 DEF Meet
  <2>5. Meet(c, Ends(c, r)[k]) <=> After(k, n) = n - 1 - k \/ k = n - 1 - k
    BY <2>1, <2>4 DEF Links
  <2> QED
    BY <1>1, <2>5 DEF After
<1>4. ASSUME NEW i \in 0 .. NrBuffers
      PROVE  (\A k \in 0 .. i - 1 : ~Meet(c, Ends(c, r)[k])) <=> i <= m
  <2>1. CASE i <= m
    BY <1>1, <1>3, <2>1
  <2>2. CASE m < i
    BY <1>1, <1>3, <2>2
  <2> QED
    BY <1>1, <2>1, <2>2
<1>5. Rounds(c, r) = 0 .. m
  BY <1>1, <1>2, <1>4 DEF Rounds
<1> QED
  BY <1>5 DEF m

(* find_buffer looks at every buffer of a row and at no other.              *)
LEMMA ComparedAll ==
    ASSUME NEW c, NEW r, IsRow(c, r), None \notin Buffer
    PROVE  Compared(c, r) = InRow(c, r)
<1>1. PICK n, q : n \in Nat /\ Ring(c, r, n, q)
  BY DEF IsRow
<1> n \in Nat
  BY <1>1
<1>2. CASE n = 0
  <2>1. c.hash[r] = None /\ InRow(c, r) = {}
    BY <1>1, <1>2 DEF Ring, Links, Listed
  <2> QED
    BY <2>1 DEF Compared
<1>3. CASE n # 0
  <2> DEFINE m == (n - 1) \div 2
  <2>1. m \in Nat /\ m <= n - 1 /\ (2 * m = n - 1 \/ 2 * m = n - 2)
    BY <1>3
  <2>2. Links(c, r, n, q) /\ c.hash[r] # None
    BY <1>1, <1>3 DEF Ring, Links
  <2>3. Rounds(c, r) = 0 .. m
    BY <1>3, <2>2, RoundsOfRing
  <2> HIDE DEF m
  <2>4. \A k \in 0 .. m : Ends(c, r)[k] = <<q[k], q[n - 1 - k]>>
    BY <1>3, <2>1, <2>2, EndsOfRing
  <2>5. \A k \in 0 .. m : Ends(c, r)[k][1] = q[k] /\ Ends(c, r)[k][2] = q[n - 1 - k]
    BY <2>4
  <2>6. Compared(c, r) = UNION {{Ends(c, r)[k][1], Ends(c, r)[k][2]} : k \in 0 .. m}
    BY <2>2, <2>3, ComparedIs
  <2> DEFINE seen == {{Ends(c, r)[k][1], Ends(c, r)[k][2]} : k \in 0 .. m}
  <2>10. \A y : y \in UNION seen <=> \E k \in 0 .. m : y = q[k] \/ y = q[n - 1 - k]
    BY <2>5
  <2> HIDE DEF seen
  <2>11. \A y : y \in Compared(c, r) <=> \E k \in 0 .. m : y = q[k] \/ y = q[n - 1 - k]
    BY <2>6, <2>10 DEF seen
  <2>7. ASSUME NEW i \in 0 .. n - 1
        PROVE  \E k \in 0 .. m : q[i] = q[k] \/ q[i] = q[n - 1 - k]
    <3>1. CASE i <= m
      BY <2>1, <3>1
    <3>2. CASE m < i
      <4>1. n - 1 - i \in 0 .. m /\ n - 1 - (n - 1 - i) = i
        BY <2>1, <3>2
      <4> QED
        BY <4>1
    <3> QED
      BY <2>1, <3>1, <3>2
  <2>8. \A k \in 0 .. m : k \in 0 .. n - 1 /\ n - 1 - k \in 0 .. n - 1
    BY <2>1
  <2>9. Compared(c, r) = Listed(n, q)
    BY <2>7, <2>8, <2>11 DEF Listed
  <2> QED
    BY <1>1, <2>9 DEF Ring
<1> QED
  BY <1>2, <1>3
-----------------------------------------------------------------------------
(* free_buffer. *)

(* What free_buffer makes of the lists when x is in row r.                  *)
Unhashed(c, d, x, r) ==
    /\ d \in Caches
    /\ d.free = Append(c.free, x)
    /\ \A y \in Buffer : d.bh[y] = IF y = x THEN Blank ELSE c.bh[y]
    /\ \A s \in Rows : d.hash[s] = IF s = r /\ c.hash[r] = x THEN None ELSE c.hash[s]
    /\ \A y \in Buffer : d.next[y] =
           IF y = x THEN None
           ELSE IF c.hash[r] # x /\ y = c.prev[x] THEN c.next[x] ELSE c.next[y]
    /\ \A y \in Buffer : d.prev[y] =
           IF y = x THEN None
           ELSE IF c.hash[r] # x /\ y = c.next[x] THEN c.prev[x] ELSE c.prev[y]

LEMMA FreeBufferFields ==
    ASSUME NEW c \in Caches, NEW x \in Buffer, c.bh[x].blk \in Block,
           NEW r, r = Row[c.bh[x].blk], c.hash[r] # None,
           c.next[x] \in Buffer, c.prev[x] \in Buffer
    PROVE  Unhashed(c, FreeBuffer(c, x), x, r)
<1> DEFINE bh   == [c.bh EXCEPT ![x] = Blank]
           free == Append(c.free, x)
           p    == c.prev[x]
           t    == c.next[x]
<1>1. r \in Rows /\ x # None
  BY ConstFacts
<1>2. bh \in [Buffer -> Header] /\ \A y \in Buffer : bh[y] = IF y = x THEN Blank ELSE c.bh[y]
  BY ConstFacts DEF Caches
<1>3. free \in Seq(Buffer)
  BY DEF Caches
<1>4. CASE c.hash[r] = x
  <2> DEFINE hash == [c.hash EXCEPT ![r] = None]
             next == [c.next EXCEPT ![x] = None]
             prev == [c.prev EXCEPT ![x] = None]
  <2>1. FreeBuffer(c, x) = [c EXCEPT !.hash = hash, !.next = next, !.prev = prev,
                                     !.bh = bh, !.free = free]
    BY <1>1, <1>4 DEF FreeBuffer
  <2>2. /\ hash \in [Rows -> Buffer \cup {None}]
        /\ next \in [Buffer -> Buffer \cup {None}]
        /\ prev \in [Buffer -> Buffer \cup {None}]
    BY <1>1 DEF Caches
  <2>3. /\ \A s \in Rows : hash[s] = IF s = r THEN None ELSE c.hash[s]
        /\ \A y \in Buffer : next[y] = IF y = x THEN None ELSE c.next[y]
        /\ \A y \in Buffer : prev[y] = IF y = x THEN None ELSE c.prev[y]
    BY <1>1 DEF Caches
  <2> HIDE DEF hash, next, prev, bh, free
  <2> QED
    BY <1>2, <1>3, <1>4, <2>1, <2>2, <2>3 DEF Unhashed, Caches, free
<1>5. CASE c.hash[r] # x
  <2> DEFINE next == [c.next EXCEPT ![p] = t, ![x] = None]
             prev == [c.prev EXCEPT ![t] = p, ![x] = None]
  <2>1. FreeBuffer(c, x) = [c EXCEPT !.next = next, !.prev = prev, !.bh = bh, !.free = free]
    BY <1>1, <1>5 DEF FreeBuffer
  <2> HIDE DEF p, t
  <2>2. p \in Buffer /\ t \in Buffer
    BY DEF p, t
  <2>3. /\ next \in [Buffer -> Buffer \cup {None}]
        /\ prev \in [Buffer -> Buffer \cup {None}]
    BY <2>2 DEF Caches
  <2>4. /\ \A y \in Buffer : next[y] = IF y = x THEN None ELSE IF y = p THEN t ELSE c.next[y]
        /\ \A y \in Buffer : prev[y] = IF y = x THEN None ELSE IF y = t THEN p ELSE c.prev[y]
    BY <2>2 DEF Caches
  <2> HIDE DEF next, prev, bh, free
  <2> QED
    BY <1>2, <1>3, <1>5, <2>1, <2>3, <2>4 DEF Unhashed, Caches, free, p, t
<1> QED
  BY <1>4, <1>5

(* The list q of n buffers without the one at k. *)
Without(q, n, k) == [i \in 0 .. n - 2 |-> IF i < k THEN q[i] ELSE q[i + 1]]

(* A buffer that is not the head leaves its row, and the others close up.   *)
LEMMA RemoveLinks ==
    ASSUME NEW c, NEW d, NEW x \in Buffer, NEW r \in Rows,
           NEW n \in Nat, NEW q, Links(c, r, n, q),
           NEW k \in 1 .. n - 1, q[k] = x, Unhashed(c, d, x, r)
    PROVE  Links(d, r, n - 1, Without(q, n, k))
<1> DEFINE p == Without(q, n, k)
<1>1. /\ n \in Nat /\ n >= 2 /\ k \in Nat /\ k >= 1 /\ k <= n - 1
      /\ n - 1 \in Nat /\ n - 1 - 1 = n - 2
  OBVIOUS
<1>2. p \in [0 .. n - 2 -> Buffer] /\ \A i, j \in 0 .. n - 2 : p[i] = p[j] => i = j
  BY <1>1 DEF Links, Without
<1>3. c.hash[r] = q[0] /\ c.hash[r] # x /\ d.hash[r] = q[0] /\ p[0] = q[0]
  BY <1>1 DEF Links, Unhashed, Without
<1>4. /\ c.prev[x] = q[k - 1] /\ c.next[x] = q[After(k, n)]
      /\ k - 1 \in 0 .. n - 1 /\ After(k, n) \in 0 .. n - 1
  BY <1>1 DEF Links, Before, After
<1>5. \A i \in 0 .. n - 2 : p[i] = IF i < k THEN q[i] ELSE q[i + 1]
  BY <1>1 DEF Without
<1> HIDE DEF p
<1>6. ASSUME NEW i \in 0 .. n - 1, i # k
      PROVE  /\ d.next[q[i]] = IF i = k - 1 THEN q[After(k, n)] ELSE q[After(i, n)]
             /\ d.prev[q[i]] = IF i = After(k, n) THEN q[k - 1] ELSE q[Before(i, n)]
  <2>1. q[i] \in Buffer /\ q[i] # x
    BY <1>1, <1>6 DEF Links
  <2>2. (q[i] = q[k - 1] <=> i = k - 1) /\ (q[i] = q[After(k, n)] <=> i = After(k, n))
    BY <1>1, <1>4 DEF Links
  <2>3. c.next[q[i]] = q[After(i, n)] /\ c.prev[q[i]] = q[Before(i, n)]
    BY DEF Links
  <2> QED
    BY <1>3, <1>4, <2>1, <2>2, <2>3 DEF Unhashed
<1>7. ASSUME NEW i \in 0 .. n - 2
      PROVE  d.next[p[i]] = p[After(i, n - 1)] /\ d.prev[p[i]] = p[Before(i, n - 1)]
  <2>1. CASE i < k
    <3>1. p[i] = q[i] /\ i \in 0 .. n - 1 /\ i # k
      BY <1>1, <1>5, <2>1
    <3>2. d.next[p[i]] = IF i = k - 1 THEN q[After(k, n)] ELSE q[After(i, n)]
      BY <1>6, <3>1
    <3>3. d.prev[p[i]] = IF i = After(k, n) THEN q[k - 1] ELSE q[Before(i, n)]
      BY <1>6, <3>1
    <3>4. d.next[p[i]] = p[After(i, n - 1)]
      BY <1>1, <1>5, <2>1, <3>2 DEF After
    <3>5. d.prev[p[i]] = p[Before(i, n - 1)]
      BY <1>1, <1>5, <2>1, <3>3 DEF After, Before
    <3> QED
      BY <3>4, <3>5
  <2>2. CASE k <= i
    <3>1. p[i] = q[i + 1] /\ i + 1 \in 0 .. n - 1 /\ i + 1 # k
      BY <1>1, <1>5, <2>2
    <3>2. d.next[p[i]] = IF i + 1 = k - 1 THEN q[After(k, n)] ELSE q[After(i + 1, n)]
      BY <1>6, <3>1
    <3>3. d.prev[p[i]] = IF i + 1 = After(k, n) THEN q[k - 1] ELSE q[Before(i + 1, n)]
      BY <1>6, <3>1
    <3>4. d.next[p[i]] = p[After(i, n - 1)]
      BY <1>1, <1>5, <2>2, <3>2 DEF After
    <3>5. d.prev[p[i]] = p[Before(i, n - 1)]
      BY <1>1, <1>5, <2>2, <3>3 DEF After, Before
    <3> QED
      BY <3>4, <3>5
  <2> QED
    BY <1>1, <2>1, <2>2
<1>8. Links(d, r, n - 1, p)
  BY <1>1, <1>2, <1>3, <1>7 DEF Links
<1> QED
  BY <1>8 DEF p

(* Rows the freed buffer is not in stay as they are.                        *)
LEMMA OtherLinks ==
    ASSUME NEW c, NEW d, NEW x \in Buffer, NEW r \in Rows, NEW n \in Nat, NEW q,
           Links(c, r, n, q), x \in Listed(n, q), Unhashed(c, d, x, r),
           NEW s \in Rows \ {r}, NEW m \in Nat, NEW p, Links(c, s, m, p),
           Listed(n, q) \cap Listed(m, p) = {}
    PROVE  Links(d, s, m, p)
<1>1. c.next[x] \in Listed(n, q) /\ c.prev[x] \in Listed(n, q)
  <2>1. PICK k \in 0 .. n - 1 : x = q[k]
    BY DEF Listed
  <2>2. After(k, n) \in 0 .. n - 1 /\ Before(k, n) \in 0 .. n - 1
    BY DEF After, Before
  <2> QED
    BY <2>1, <2>2 DEF Links, Listed
<1>2. ASSUME NEW i \in 0 .. m - 1
      PROVE  d.next[p[i]] = c.next[p[i]] /\ d.prev[p[i]] = c.prev[p[i]]
  <2>1. p[i] \in Buffer /\ p[i] \in Listed(m, p)
    BY DEF Links, Listed
  <2>2. p[i] # x /\ p[i] # c.next[x] /\ p[i] # c.prev[x]
    BY <1>1, <2>1
  <2> QED
    BY <2>1, <2>2 DEF Unhashed
<1>3. d.hash[s] = c.hash[s]
  BY DEF Unhashed
<1> QED
  BY <1>2, <1>3 DEF Links
(* Every row is as it should be after free_buffer, if a head was alone.     *)
LEMMA FreeRows ==
    ASSUME NEW c \in Caches, \A s \in Rows : IsRow(c, s),
           NEW x \in Buffer, c.bh[x].blk \in Block, NEW r, r = Row[c.bh[x].blk],
           c.hash[r] = x => InRow(c, r) = {x}
    PROVE  /\ Unhashed(c, FreeBuffer(c, x), x, r)
           /\ \A s \in Rows : IsRow(FreeBuffer(c, x), s)
<1> DEFINE d == FreeBuffer(c, x)
<1>1. r \in Rows /\ None \notin Buffer /\ None \notin Block
  BY ConstFacts
<1>2. PICK n, q : n \in Nat /\ Ring(c, r, n, q)
  BY <1>1 DEF IsRow
<1> n \in Nat
  BY <1>2
<1>3. x \in InRow(c, r) /\ x \in Listed(n, q)
  BY <1>1, <1>2 DEF InRow, Ring
<1>4. PICK k \in 0 .. n - 1 : q[k] = x
  BY <1>3 DEF Listed
<1>5. Links(c, r, n, q) /\ n # 0
  BY <1>2, <1>4 DEF Ring
<1>6. Unhashed(c, d, x, r)
  <2>1. c.hash[r] # None
    BY <1>1, <1>5 DEF Links
  <2>2. After(k, n) \in 0 .. n - 1 /\ Before(k, n) \in 0 .. n - 1
    BY DEF After, Before
  <2>3. c.next[x] \in Buffer /\ c.prev[x] \in Buffer
    BY <1>4, <1>5, <2>2 DEF Links
  <2> QED
    BY <2>1, <2>3, FreeBufferFields
<1> HIDE DEF d
<1>7. \A s : InRow(d, s) = InRow(c, s) \ {x}
  BY <1>6 DEF Unhashed, InRow, Blank
<1>8. IsRow(d, r)
  <2>1. CASE k = 0
    <3>1. c.hash[r] = x /\ d.hash[r] = None
      BY <1>1, <1>4, <1>5, <1>6, <2>1 DEF Links, Unhashed
    <3>2. InRow(d, r) = {}
      BY <1>7, <3>1
    <3>3. Links(d, r, 0, << >>) /\ Listed(0, << >>) = {}
      BY <3>1 DEF Links, Listed
    <3> QED
      BY <3>2, <3>3 DEF IsRow, Ring
  <2>2. CASE k # 0
    <3> DEFINE p == Without(q, n, k)
    <3>1. k \in 1 .. n - 1 /\ n - 1 \in Nat /\ n - 1 - 1 = n - 2
      BY <2>2
    <3>2. Links(d, r, n - 1, p)
      BY <1>1, <1>4, <1>5, <1>6, <3>1, RemoveLinks
    <3>3. \A i \in 0 .. n - 2 : p[i] = IF i < k THEN q[i] ELSE q[i + 1]
      BY DEF Without
    <3> HIDE DEF p
    <3>4. Listed(n - 1, p) = Listed(n, q) \ {x}
      <4>1. ASSUME NEW i \in 0 .. n - 2
            PROVE  p[i] \in Listed(n, q) \ {x}
        <5>1. PICK j \in 0 .. n - 1 : p[i] = q[j] /\ j # k
          <6>1. CASE i < k
            BY <3>1, <3>3, <6>1
          <6>2. CASE k <= i
            BY <3>1, <3>3, <6>2
          <6> QED
            BY <6>1, <6>2
        <5> QED
          BY <1>4, <1>5, <5>1 DEF Links, Listed
      <4>2. ASSUME NEW j \in 0 .. n - 1, q[j] # x
            PROVE  \E i \in 0 .. n - 2 : p[i] = q[j]
        <5>1. CASE j < k
          BY <3>1, <3>3, <5>1
        <5>2. CASE k < j
          <6>1. j - 1 \in 0 .. n - 2 /\ p[j - 1] = q[j]
            BY <3>1, <3>3, <5>2
          <6> QED
            BY <6>1
        <5> QED
          BY <1>4, <4>2, <5>1, <5>2
      <4> QED
        BY <3>1, <4>1, <4>2 DEF Listed
    <3>5. Ring(d, r, n - 1, p)
      BY <1>2, <1>7, <3>2, <3>4 DEF Ring
    <3> QED
      BY <3>1, <3>5 DEF IsRow
  <2> QED
    BY <2>1, <2>2
<1>9. ASSUME NEW s \in Rows \ {r}
      PROVE  IsRow(d, s)
  <2>1. PICK m, p : m \in Nat /\ Ring(c, s, m, p)
    BY DEF IsRow
  <2> m \in Nat
    BY <2>1
  <2>2. InRow(c, r) \cap InRow(c, s) = {}
    BY DEF InRow
  <2>3. Links(c, s, m, p) /\ Listed(n, q) \cap Listed(m, p) = {} /\ InRow(c, s) = Listed(m, p)
    BY <1>2, <2>1, <2>2 DEF Ring
  <2>4. Links(d, s, m, p)
    BY <1>1, <1>3, <1>5, <1>6, <2>3, OtherLinks
  <2>5. InRow(d, s) = InRow(c, s)
    BY <1>3, <1>7, <2>2
  <2> QED
    BY <2>3, <2>4, <2>5 DEF IsRow, Ring
<1> QED
  BY <1>6, <1>8, <1>9 DEF d
(* What get_buffer makes of the cache when x is the first free buffer.      *)
Got(c, d, x, b) ==
    /\ d \in Caches
    /\ d.free = Tail(c.free)
    /\ \A y \in Buffer : d.bh[y] = IF y = x THEN [Blank EXCEPT !.blk = b] ELSE c.bh[y]
    /\ \A s \in Rows : d.hash[s] = IF s = Row[b] /\ c.hash[s] = None THEN x ELSE c.hash[s]

(* Every row is as it should be after get_buffer.                           *)
LEMMA GetRows ==
    ASSUME NEW c \in Caches, \A s \in Rows : IsRow(c, s),
           NEW x \in Buffer, c.free # << >>, x = Head(c.free), c.bh[x].blk = None, NEW b \in Block
    PROVE  Got(c, GetBuffer(c, b), x, b) /\ \A s \in Rows : IsRow(GetBuffer(c, b), s)
<1> DEFINE B == [Blank EXCEPT !.blk = b]
           e == [c EXCEPT !.free = Tail(c.free), !.bh = [c.bh EXCEPT ![x] = B]]
           d == GetBuffer(c, b)
           r == Row[b]
<1>1. r \in Rows /\ None \notin Buffer /\ None \notin Block /\ x # None /\ b # None
  BY ConstFacts
<1>2. B \in Header /\ B.blk = b
  BY CacheAssumption DEF Blank, Header
<1>3. d = AddHash(e, x)
  BY DEF GetBuffer
<1>4. Tail(c.free) \in Seq(Buffer)
  BY HeadTailProperties DEF Caches
<1> HIDE DEF B, d
<1>5. /\ e \in Caches /\ e.hash = c.hash /\ e.next = c.next /\ e.prev = c.prev
      /\ e.free = Tail(c.free)
      /\ \A y \in Buffer : e.bh[y] = IF y = x THEN B ELSE c.bh[y]
  BY <1>2, <1>4 DEF Caches
<1> HIDE DEF e
<1>6. e.bh[x].blk \in Block /\ r = Row[e.bh[x].blk] /\ e.bh[x].blk = b
  BY <1>2, <1>5
<1>7. \A s, m, p : Links(e, s, m, p) <=> Links(c, s, m, p)
  BY <1>5 DEF Links
<1>8. \A s : InRow(e, s) = IF s = r THEN InRow(c, s) \cup {x} ELSE InRow(c, s)
  BY <1>1, <1>2, <1>5 DEF InRow
<1>9. PICK n, q : n \in Nat /\ Ring(c, r, n, q)
  BY <1>1 DEF IsRow
<1> n \in Nat
  BY <1>9
<1>10. Links(e, r, n, q) /\ Listed(n, q) = InRow(c, r) /\ x \notin Listed(n, q)
  BY <1>7, <1>9 DEF Ring, InRow
<1>11. Links(d, r, n + 1, With(q, n, x)) /\ Hashed(e, d, x, r, e.hash[r])
  BY <1>3, <1>5, <1>6, <1>10, AddLinks
<1>12. \A s : InRow(d, s) = InRow(e, s)
  BY <1>11 DEF Hashed, InRow
<1>13. IsRow(d, r)
  <2>1. Listed(n + 1, With(q, n, x)) = Listed(n, q) \cup {x}
    <3>1. \A i \in 0 .. n : With(q, n, x)[i] = IF i = n THEN x ELSE q[i]
      BY DEF With
    <3>2. n \in 0 .. n /\ n + 1 - 1 = n /\ \A i : i \in 0 .. n <=> i \in 0 .. n - 1 \/ i = n
      OBVIOUS
    <3>3. \A i \in 0 .. n - 1 : i # n
      OBVIOUS
    <3> QED
      BY <3>1, <3>2, <3>3 DEF Listed
  <2>2. Ring(d, r, n + 1, With(q, n, x))
    BY <1>8, <1>10, <1>11, <1>12, <2>1 DEF Ring
  <2>3. n + 1 \in Nat
    OBVIOUS
  <2> QED
    BY <2>2, <2>3 DEF IsRow
<1>14. ASSUME NEW s \in Rows \ {r}
       PROVE  IsRow(d, s)
  <2>1. PICK m, p : m \in Nat /\ Ring(c, s, m, p)
    BY DEF IsRow
  <2> m \in Nat
    BY <2>1
  <2>2. InRow(c, r) \cap InRow(c, s) = {} /\ x \notin InRow(c, s)
    BY DEF InRow
  <2>3. /\ Links(e, s, m, p) /\ x \notin Listed(m, p)
        /\ Listed(n, q) \cap Listed(m, p) = {} /\ InRow(c, s) = Listed(m, p)
    BY <1>7, <1>10, <2>1, <2>2 DEF Ring
  <2>4. Links(AddHash(e, x), s, m, p)
    BY <1>5, <1>6, <1>10, <2>3, AddLinks
  <2> QED
    BY <1>3, <1>8, <1>12, <2>1, <2>3, <2>4 DEF IsRow, Ring
<1>15. Got(c, d, x, b)
  BY <1>1, <1>5, <1>11 DEF Got, Hashed, B
<1> QED
  BY <1>13, <1>14, <1>15 DEF d
-----------------------------------------------------------------------------
(* The cache as a whole. *)

(* The free list has every buffer without a block, and has it once.         *)
FreeList(c) ==
    /\ \A i, j \in DOMAIN c.free : c.free[i] = c.free[j] => i = j
    /\ \A x \in Buffer : c.bh[x].blk = None <=> \E i \in DOMAIN c.free : c.free[i] = x

(* No block has two buffers. *)
OneEach(c) ==
    \A x, y \in Buffer : c.bh[x].blk # None /\ c.bh[x].blk = c.bh[y].blk => x = y

WellFormed(c) ==
    /\ c \in Caches
    /\ \A s \in Rows : IsRow(c, s)
    /\ FreeList(c)
    /\ OneEach(c)

IsBitmap(b) == \E i \in DOMAIN Bitmaps : Bitmaps[i] = b

(* A row that has a bitmap begins with one. *)
HeadsPinned(c) ==
    \A b \in Block : IsBitmap(b) =>
        c.hash[Row[b]] \in Buffer /\ IsBitmap(c.bh[c.hash[Row[b]]].blk)

RowLast(c) ==
    \A r \in DOMAIN c.hash :
        c.hash[r] = None => \A x \in Buffer : c.bh[x].blk # None => Row[c.bh[x].blk] # r

LEMMA HasBlock ==
    ASSUME NEW c \in Caches, NEW x \in Buffer
    PROVE  c.bh[x] \in Header /\ (c.bh[x].blk # None => c.bh[x].blk \in Block)
BY DEF Caches, Header

(* Fields of buffers may change as long as their blocks do not.             *)
LEMMA SameShape ==
    ASSUME NEW c, NEW d \in Caches, WellFormed(c),
           d.hash = c.hash, d.next = c.next, d.prev = c.prev, d.free = c.free,
           \A y \in Buffer : d.bh[y].blk = c.bh[y].blk
    PROVE  WellFormed(d) /\ (HeadsPinned(c) => HeadsPinned(d)) /\ (RowLast(d) => RowLast(c))
<1>1. \A s : InRow(d, s) = InRow(c, s)
  BY DEF InRow
<1>2. \A s, n, q : Links(d, s, n, q) <=> Links(c, s, n, q)
  BY DEF Links
<1>3. \A s : IsRow(d, s) <=> IsRow(c, s)
  BY <1>1, <1>2 DEF IsRow, Ring
<1>4. FreeList(d) /\ OneEach(d)
  BY DEF WellFormed, FreeList, OneEach
<1>5. HeadsPinned(c) => HeadsPinned(d)
  BY DEF HeadsPinned
<1>6. RowLast(d) => RowLast(c)
  BY DEF RowLast
<1> QED
  BY <1>3, <1>4, <1>5, <1>6 DEF WellFormed

(* free_buffer keeps the cache well formed, unless it clears a row that     *)
(* still has other buffers.                                                 *)
LEMMA Frees ==
    ASSUME NEW c, WellFormed(c), HeadsPinned(c), NEW x \in Buffer,
           c.bh[x].blk \in Block, ~IsBitmap(c.bh[x].blk),
           RowLast(FreeBuffer(c, x))
    PROVE  /\ WellFormed(FreeBuffer(c, x)) /\ HeadsPinned(FreeBuffer(c, x))
           /\ \A y \in Buffer : FreeBuffer(c, x).bh[y] = IF y = x THEN Blank ELSE c.bh[y]
<1> DEFINE d == FreeBuffer(c, x)
           r == Row[c.bh[x].blk]
<1>1. /\ r \in Rows /\ None \notin Buffer /\ None \notin Block
      /\ c \in Caches /\ (\A s \in Rows : IsRow(c, s)) /\ FreeList(c) /\ OneEach(c)
  BY ConstFacts DEF WellFormed
<1>2. ASSUME c.hash[r] = x
      PROVE  InRow(c, r) = {x}
  <2>1. x \in InRow(c, r)
    BY <1>1 DEF InRow
  <2>0. RowLast(d)
    OBVIOUS
  <2>2. PICK n, q : n \in Nat /\ Ring(c, r, n, q)
    BY <1>1 DEF IsRow
  <2> n \in Nat
    BY <2>2
  <2>3. PICK k \in 0 .. n - 1 : q[k] = x
    BY <2>1, <2>2 DEF Ring, Listed
  <2>4. Links(c, r, n, q) /\ n # 0 /\ c.hash[r] # None
    BY <1>1, <2>2, <2>3 DEF Ring, Links
  <2>5. After(k, n) \in 0 .. n - 1 /\ Before(k, n) \in 0 .. n - 1
    BY DEF After, Before
  <2>6. c.next[x] \in Buffer /\ c.prev[x] \in Buffer
    BY <2>3, <2>4, <2>5 DEF Links
  <2>7. Unhashed(c, d, x, r)
    BY <1>1, <2>4, <2>6, FreeBufferFields
  <2> HIDE DEF d
  <2>8. d.hash[r] = None /\ r \in DOMAIN d.hash
    BY <1>1, <1>2, <2>7 DEF Unhashed, Caches
  <2>9. \A y \in Buffer \ {x} : c.bh[y].blk # None => Row[c.bh[y].blk] # r
    BY <2>0, <2>7, <2>8 DEF RowLast, Unhashed
  <2> QED
    BY <2>1, <2>9 DEF InRow
<1>3. Unhashed(c, d, x, r) /\ \A s \in Rows : IsRow(d, s)
  BY <1>1, <1>2, FreeRows
<1> HIDE DEF d
<1>4. d \in Caches /\ \A y \in Buffer : d.bh[y] = IF y = x THEN Blank ELSE c.bh[y]
  BY <1>3 DEF Unhashed
<1>5. FreeList(d)
  <2>1. d.free = Append(c.free, x) /\ c.free \in Seq(Buffer)
    BY <1>1, <1>3 DEF Unhashed, Caches
  <2>2. \A i \in DOMAIN c.free : c.free[i] # x
    BY <1>1 DEF FreeList
  <2> DEFINE n == Len(c.free)
  <2>3. /\ n \in Nat /\ DOMAIN c.free = 1 .. n /\ DOMAIN d.free = 1 .. n + 1
        /\ d.free[n + 1] = x /\ \A i \in 1 .. n : d.free[i] = c.free[i]
    BY <2>1
  <2> HIDE DEF n
  <2>4. \A i, j \in 1 .. n + 1 : d.free[i] = d.free[j] => i = j
    <3>1. \A i \in 1 .. n + 1 : i \in 1 .. n \/ i = n + 1
      BY <2>3
    <3> QED
      BY <1>1, <2>2, <2>3, <3>1 DEF FreeList
  <2>5. ASSUME NEW y \in Buffer
        PROVE  d.bh[y].blk = None <=> \E i \in 1 .. n + 1 : d.free[i] = y
    <3>1. CASE y = x
      <4>1. d.bh[y] = Blank
        BY <1>4, <3>1, Zenon
      <4>2. d.bh[y].blk = None
        BY <4>1, ConstFacts
      <4> QED
        BY <2>3, <3>1, <4>2
    <3>2. CASE y # x
      <4>1. d.bh[y].blk = None <=> \E i \in 1 .. n : c.free[i] = y
        BY <1>1, <1>4, <2>3, <3>2 DEF FreeList
      <4>2. ASSUME NEW i \in 1 .. n + 1, d.free[i] = y PROVE i \in 1 .. n /\ c.free[i] = y
        BY <2>3, <3>2, <4>2
      <4>3. \A i \in 1 .. n : i \in 1 .. n + 1 /\ d.free[i] = c.free[i]
        BY <2>3
      <4> QED
        BY <4>1, <4>2, <4>3
    <3> QED
      BY <3>1, <3>2
  <2> QED
    BY <2>3, <2>4, <2>5 DEF FreeList
<1>6. OneEach(d)
  BY <1>1, <1>4 DEF OneEach, Blank
<1>7. HeadsPinned(d)
  <2> SUFFICES ASSUME NEW b \in Block, IsBitmap(b)
               PROVE  d.hash[Row[b]] \in Buffer /\ IsBitmap(d.bh[d.hash[Row[b]]].blk)
    BY DEF HeadsPinned
  <2>1. c.hash[Row[b]] \in Buffer /\ IsBitmap(c.bh[c.hash[Row[b]]].blk) /\ Row[b] \in Rows
    BY ConstFacts DEF HeadsPinned
  <2>2. c.hash[Row[b]] # x /\ d.hash[Row[b]] = c.hash[Row[b]]
    BY <1>3, <2>1 DEF Unhashed
  <2> QED
    BY <1>4, <2>1, <2>2
<1> QED
  BY <1>3, <1>4, <1>5, <1>6, <1>7 DEF d, WellFormed
(* find_buffer gives the buffer that has the block, if there is one.        *)
THEOREM FindsTheBuffer ==
    ASSUME NEW c, WellFormed(c), NEW b \in Block
    PROVE  Found(c, b) = {x \in Buffer : c.bh[x].blk = b}
<1>1. Compared(c, Row[b]) = InRow(c, Row[b])
  BY ConstFacts, ComparedAll DEF WellFormed
<1>2. b # None
  BY ConstFacts
<1> QED
  BY <1>1, <1>2 DEF Found, InRow

(* get_blk makes d of c and returns x, which has b once more.               *)
Took(c, d, x, b) ==
    /\ WellFormed(d)
    /\ x \in Buffer /\ d.bh[x].blk = b
    /\ \A y \in Buffer \ {x} : d.bh[y] = c.bh[y]
    /\ \/ c.bh[x].blk = b /\ d.bh[x] = [c.bh[x] EXCEPT !.cnt = @ + 1]
       \/ /\ c.bh[x].blk = None /\ \A y \in Buffer : c.bh[y].blk # b
          /\ d.bh[x] = [Blank EXCEPT !.blk = b, !.cnt = 1]
    /\ \A s \in Rows : d.hash[s] = IF s = Row[b] /\ c.hash[s] = None THEN x ELSE c.hash[s]
    /\ Len(d.free) >= Len(c.free) - 1

LEMMA CountUp ==
    ASSUME NEW d \in Caches, NEW x \in Buffer, WellFormed(d)
    PROVE  /\ WellFormed([d EXCEPT !.bh[x].cnt = @ + 1])
           /\ \A y \in Buffer : [d EXCEPT !.bh[x].cnt = @ + 1].bh[y] =
                  IF y = x THEN [d.bh[x] EXCEPT !.cnt = @ + 1] ELSE d.bh[y]
<1> DEFINE H == [d.bh[x] EXCEPT !.cnt = @ + 1]
           e == [d EXCEPT !.bh = [d.bh EXCEPT ![x] = H]]
<1>1. H \in Header /\ H.blk = d.bh[x].blk
  BY HasBlock DEF Header
<1>2. [d EXCEPT !.bh[x].cnt = @ + 1] = e
  OBVIOUS
<1> HIDE DEF H
<1>3. /\ e \in Caches /\ e.hash = d.hash /\ e.next = d.next /\ e.prev = d.prev /\ e.free = d.free
      /\ \A y \in Buffer : e.bh[y] = IF y = x THEN H ELSE d.bh[y]
  BY <1>1 DEF Caches
<1> HIDE DEF e
<1>4. WellFormed(e)
  BY <1>1, <1>3, SameShape
<1> QED
  BY <1>2, <1>3, <1>4 DEF H

LEMMA Takes ==
    ASSUME NEW c, WellFormed(c), NEW b \in Block, Found(c, b) # {} \/ c.free # << >>
    PROVE  Took(c, GetBlk(c, b), Holder(c, b), b)
<1> DEFINE x == Holder(c, b)
<1>1. /\ c \in Caches /\ (\A s \in Rows : IsRow(c, s)) /\ FreeList(c) /\ OneEach(c)
      /\ Row[b] \in Rows /\ None \notin Buffer /\ None \notin Block /\ b # None
  BY ConstFacts DEF WellFormed
<1>2. c.free \in Seq(Buffer) /\ Len(c.free) \in Nat
  BY <1>1 DEF Caches
<1>3. CASE Found(c, b) # {}
  <2>1. x \in Found(c, b)
    BY <1>3, Zenon DEF Holder
  <2>2. GetBlk(c, b) = [c EXCEPT !.bh[x].cnt = @ + 1]
    BY <1>3 DEF GetBlk
  <2> HIDE DEF x
  <2>3. x \in Buffer /\ c.bh[x].blk = b
    BY <2>1, FindsTheBuffer
  <2> DEFINE d == [c EXCEPT !.bh[x].cnt = @ + 1]
  <2>4. d.hash = c.hash /\ d.free = c.free
    OBVIOUS
  <2>5. WellFormed(d) /\ \A y \in Buffer : d.bh[y] =
            IF y = x THEN [c.bh[x] EXCEPT !.cnt = @ + 1] ELSE c.bh[y]
    BY <1>1, <2>3, CountUp
  <2> HIDE DEF d
  <2>6. d.bh[x] = [c.bh[x] EXCEPT !.cnt = @ + 1] /\ \A y \in Buffer \ {x} : d.bh[y] = c.bh[y]
    BY <2>3, <2>5, Zenon
  <2>7. d.bh[x].blk = b
    BY <1>1, <2>3, <2>6, HasBlock DEF Header
  <2>8. c.hash[Row[b]] # None
    <3>1. PICK n, q : n \in Nat /\ Ring(c, Row[b], n, q)
      BY <1>1 DEF IsRow
    <3> n \in Nat
      BY <3>1
    <3>2. x \in InRow(c, Row[b])
      BY <1>1, <2>3 DEF InRow
    <3>3. n # 0
      BY <3>1, <3>2 DEF Ring, Listed
    <3> QED
      BY <1>1, <3>1, <3>3 DEF Ring, Links
  <2>9. Took(c, d, x, b)
    BY <1>2, <2>3, <2>4, <2>5, <2>6, <2>7, <2>8 DEF Took
  <2> QED
    BY <2>2, <2>9 DEF x, d
<1>4. CASE Found(c, b) = {}
  <2>1. x = Head(c.free) /\ c.free # << >>
    BY <1>4 DEF Holder
  <2>2. GetBlk(c, b) = [GetBuffer(c, b) EXCEPT !.bh[x].cnt = @ + 1]
    BY <1>4 DEF GetBlk
  <2> HIDE DEF x
  <2>3. x \in Buffer /\ x = c.free[1] /\ 1 \in DOMAIN c.free
    BY <1>2, <2>1
  <2>4. c.bh[x].blk = None
    BY <1>1, <2>3 DEF FreeList
  <2> DEFINE g == GetBuffer(c, b)
             d == [g EXCEPT !.bh[x].cnt = @ + 1]
  <2>5. Got(c, g, x, b) /\ \A s \in Rows : IsRow(g, s)
    BY <1>1, <2>1, <2>3, <2>4, GetRows
  <2> HIDE DEF g
  <2>6. g \in Caches /\ g.free = Tail(c.free)
    BY <2>5 DEF Got
  <2>7. g.bh[x] = [Blank EXCEPT !.blk = b] /\ \A y \in Buffer \ {x} : g.bh[y] = c.bh[y]
    BY <2>3, <2>5, Zenon DEF Got
  <2>8. g.bh[x].blk = b
    BY <2>7 DEF Blank
  <2>9. \A y \in Buffer : c.bh[y].blk # b
    BY <1>4, FindsTheBuffer
  <2>10. OneEach(g)
    <3> SUFFICES ASSUME NEW y \in Buffer, NEW z \in Buffer,
                        g.bh[y].blk # None, g.bh[y].blk = g.bh[z].blk
                 PROVE  y = z
      BY DEF OneEach
    <3>1. \A w \in Buffer : w # x => g.bh[w].blk = c.bh[w].blk /\ g.bh[w].blk # b
      BY <2>7, <2>9
    <3> QED
      BY <1>1, <2>8, <3>1 DEF OneEach
  <2>11. FreeList(g)
    <3> DEFINE n == Len(c.free)
    <3>1. /\ n \in Nat \ {0} /\ DOMAIN c.free = 1 .. n /\ DOMAIN g.free = 1 .. n - 1
          /\ \A i \in 1 .. n - 1 : g.free[i] = c.free[i + 1]
      BY <1>2, <2>1, <2>6
    <3> HIDE DEF n
    <3>2. ASSUME NEW i \in 1 .. n - 1, NEW j \in 1 .. n - 1, g.free[i] = g.free[j] PROVE i = j
      <4>1. i + 1 \in DOMAIN c.free /\ j + 1 \in DOMAIN c.free
        BY <3>1
      <4>2. c.free[i + 1] = c.free[j + 1]
        BY <3>1, <3>2
      <4>3. i + 1 = j + 1
        BY <1>1, <4>1, <4>2 DEF FreeList
      <4> QED
        BY <3>1, <4>3
    <3>3. ASSUME NEW y \in Buffer
          PROVE  g.bh[y].blk = None <=> \E i \in 1 .. n - 1 : g.free[i] = y
      <4>1. ASSUME NEW i \in 1 .. n - 1 PROVE g.free[i] # x
        <5>1. i + 1 \in DOMAIN c.free /\ 1 \in DOMAIN c.free /\ i + 1 # 1
          BY <3>1
        <5>2. c.free[i + 1] # c.free[1]
          BY <1>1, <5>1 DEF FreeList
        <5> QED
          BY <2>3, <3>1, <5>2
      <4>2. CASE y = x
        BY <1>1, <2>8, <4>1, <4>2
      <4>3. CASE y # x
        <5>1. g.bh[y].blk = None <=> \E i \in 1 .. n : c.free[i] = y
          BY <1>1, <2>7, <3>1, <4>3 DEF FreeList
        <5>2. ASSUME NEW i \in 1 .. n, c.free[i] = y
              PROVE  i - 1 \in 1 .. n - 1 /\ g.free[i - 1] = y
          <6>1. i # 1
            BY <2>3, <4>3, <5>2
          <6>2. i - 1 \in 1 .. n - 1 /\ (i - 1) + 1 = i
            BY <3>1, <6>1
          <6> QED
            BY <3>1, <5>2, <6>2
        <5>3. ASSUME NEW i \in 1 .. n - 1, g.free[i] = y
              PROVE  i + 1 \in 1 .. n /\ c.free[i + 1] = y
          BY <3>1, <5>3
        <5> QED
          BY <5>1, <5>2, <5>3
      <4> QED
        BY <4>2, <4>3
    <3> QED
      BY <3>1, <3>2, <3>3 DEF FreeList
  <2>12. WellFormed(g)
    BY <2>5, <2>6, <2>10, <2>11 DEF WellFormed
  <2>13. d.hash = g.hash /\ d.free = g.free
    OBVIOUS
  <2>14. WellFormed(d) /\ \A y \in Buffer : d.bh[y] =
            IF y = x THEN [g.bh[x] EXCEPT !.cnt = @ + 1] ELSE g.bh[y]
    BY <2>3, <2>6, <2>12, CountUp
  <2> HIDE DEF d
  <2>15. d.bh[x] = [g.bh[x] EXCEPT !.cnt = @ + 1] /\ \A y \in Buffer \ {x} : d.bh[y] = c.bh[y]
    BY <2>3, <2>7, <2>14, Zenon
  <2>16. d.bh[x] = [Blank EXCEPT !.blk = b, !.cnt = 1] /\ d.bh[x].blk = b
    BY <2>7, <2>15 DEF Blank
  <2>17. \A s \in Rows : d.hash[s] = IF s = Row[b] /\ c.hash[s] = None THEN x ELSE c.hash[s]
    BY <2>5, <2>13 DEF Got
  <2>18. Len(d.free) >= Len(c.free) - 1
    BY <1>2, <2>1, <2>6, <2>13
  <2>19. Took(c, d, x, b)
    BY <2>3, <2>4, <2>9, <2>14, <2>15, <2>16, <2>17, <2>18 DEF Took
  <2> QED
    BY <2>2, <2>19 DEF x, d, g
<1> QED
  BY <1>3, <1>4
(* Cache c with header h for buffer x. *)
Put(c, x, h) == [c EXCEPT !.bh = [c.bh EXCEPT ![x] = h]]

LEMMA Puts ==
    ASSUME NEW c, WellFormed(c), NEW x \in Buffer, NEW h \in Header, h.blk = c.bh[x].blk
    PROVE  /\ WellFormed(Put(c, x, h))
           /\ HeadsPinned(c) => HeadsPinned(Put(c, x, h))
           /\ RowLast(Put(c, x, h)) => RowLast(c)
           /\ Put(c, x, h).bh[x] = h
           /\ \A y \in Buffer \ {x} : Put(c, x, h).bh[y] = c.bh[y]
           /\ Put(c, x, h).hash = c.hash /\ Put(c, x, h).free = c.free
<1> DEFINE d == Put(c, x, h)
<1>1. /\ d \in Caches /\ d.hash = c.hash /\ d.next = c.next /\ d.prev = c.prev /\ d.free = c.free
      /\ d.bh[x] = h
      /\ \A y \in Buffer \ {x} : d.bh[y] = c.bh[y]
  BY DEF WellFormed, Caches, Put
<1> HIDE DEF d
<1>2. \A y \in Buffer : d.bh[y].blk = c.bh[y].blk
  BY <1>1
<1>3. WellFormed(d) /\ (HeadsPinned(c) => HeadsPinned(d)) /\ (RowLast(d) => RowLast(c))
  BY <1>1, <1>2, SameShape
<1> QED
  BY <1>1, <1>3 DEF d

LEMMA PutTwice ==
    ASSUME NEW c \in Caches, NEW x \in Buffer, NEW h, NEW g
    PROVE  /\ Put(Put(c, x, h), x, g) = Put(c, x, g)
           /\ Put(c, x, h).bh[x] = h
<1>1. [[c.bh EXCEPT ![x] = h] EXCEPT ![x] = g] = [c.bh EXCEPT ![x] = g]
  BY DEF Caches
<1>2. Put(c, x, h).bh = [c.bh EXCEPT ![x] = h]
  BY DEF Put, Caches
<1>3. Put(Put(c, x, h), x, g) = [Put(c, x, h) EXCEPT !.bh = [c.bh EXCEPT ![x] = g]]
  BY <1>1, <1>2 DEF Put
<1>4. [[c EXCEPT !.bh = [c.bh EXCEPT ![x] = h]] EXCEPT !.bh = [c.bh EXCEPT ![x] = g]]
          = [c EXCEPT !.bh = [c.bh EXCEPT ![x] = g]]
  BY DEF Caches
<1> QED
  BY <1>2, <1>3, <1>4 DEF Put, Caches

(* The header bread leaves, if the block was in the cache and if it was not. *)
Read(c, d, x, b) ==
    /\ WellFormed(d)
    /\ x \in Buffer /\ d.bh[x].blk = b
    /\ \A y \in Buffer \ {x} : d.bh[y] = c.bh[y]
    /\ \/ c.bh[x].blk = b /\ d.bh[x] = [c.bh[x] EXCEPT !.cnt = @ + 1]
       \/ /\ c.bh[x].blk = None /\ \A y \in Buffer : c.bh[y].blk # b
          /\ d.bh[x].valid /\ ~d.bh[x].dirt /\ d.bh[x].cnt = 1 /\ d.bh[x].data = disk[b]
    /\ \A s \in Rows : d.hash[s] = IF s = Row[b] /\ c.hash[s] = None THEN x ELSE c.hash[s]
    /\ Len(d.free) >= Len(c.free) - 1

LEMMA Reads ==
    ASSUME NEW c, WellFormed(c), NEW b \in Block, Found(c, b) # {} \/ c.free # << >>,
           \A y \in Buffer : c.bh[y].blk # None => c.bh[y].valid,
           disk \in [Block -> Data]
    PROVE  Read(c, Bread(c, b), Holder(c, b), b)
<1> DEFINE x == Holder(c, b)
           d == GetBlk(c, b)
<1>1. Took(c, d, x, b)
  BY Takes
<1>2. Bread(c, b) = IF d.bh[x].valid THEN d
                    ELSE [d EXCEPT !.bh[x].valid = TRUE, !.bh[x].data = disk[b]]
  BY DEF Bread
<1>3. b # None /\ c \in Caches
  BY ConstFacts DEF WellFormed
<1> HIDE DEF x, d
<1>4. CASE c.bh[x].blk = b /\ d.bh[x] = [c.bh[x] EXCEPT !.cnt = @ + 1]
  <2>1. x \in Buffer /\ c.bh[x].valid /\ c.bh[x] \in Header
    BY <1>1, <1>3, <1>4, HasBlock DEF Took
  <2>2. d.bh[x].valid
    BY <1>4, <2>1 DEF Header
  <2> QED
    BY <1>1, <1>2, <1>4, <2>2 DEF x, Read, Took
<1>5. CASE /\ c.bh[x].blk = None /\ \A y \in Buffer : c.bh[y].blk # b
           /\ d.bh[x] = [Blank EXCEPT !.blk = b, !.cnt = 1]
  <2>1. ~d.bh[x].valid /\ x \in Buffer /\ WellFormed(d) /\ d.bh[x].blk = b
    BY <1>1, <1>5 DEF Took, Blank
  <2> DEFINE v == disk[b]
             g == [d.bh[x] EXCEPT !.valid = TRUE]
             f == [g EXCEPT !.data = v]
  <2>8. d \in Caches
    BY <2>1 DEF WellFormed
  <2>9. Bread(c, b) = [d EXCEPT !.bh[x].valid = TRUE, !.bh[x].data = v]
    BY <1>2, <2>1
  <2>10. Bread(c, b) = Put(Put(d, x, g), x, [Put(d, x, g).bh[x] EXCEPT !.data = v])
    BY <2>9 DEF Put
  <2> HIDE DEF v
  <2>11. /\ d.bh[x] \in Header /\ d.bh[x].blk = b /\ ~d.bh[x].dirt /\ d.bh[x].cnt = 1
         /\ v \in Data
    BY <1>5, <2>1, <2>8, HasBlock DEF Blank, v
  <2>12. f \in Header /\ f.blk = b /\ f.valid /\ ~f.dirt /\ f.cnt = 1 /\ f.data = v
    BY <2>11 DEF Header
  <2> HIDE DEF g
  <2>3. Bread(c, b) = Put(d, x, f)
    BY <2>1, <2>8, <2>10, PutTwice
  <2> HIDE DEF f
  <2> DEFINE e == Put(d, x, f)
  <2>6. /\ WellFormed(e) /\ e.bh[x] = f /\ e.hash = d.hash /\ e.free = d.free
        /\ \A y \in Buffer \ {x} : e.bh[y] = d.bh[y]
    BY <2>1, <2>12, Puts
  <2> HIDE DEF e
  <2>7. Read(c, e, x, b)
    BY <1>1, <1>5, <2>1, <2>12, <2>6 DEF Read, Took, v
  <2> QED
    BY <2>3, <2>7 DEF e, x
<1> QED
  BY <1>1, <1>4, <1>5 DEF Took

(* brelse: the buffer is blank or keeps its header but for the count.       *)
Spent(h) == h.cnt = 1 /\ ~(h.dirt /\ h.valid)

LEMMA Releases ==
    ASSUME NEW c, WellFormed(c), HeadsPinned(c), NEW x \in Buffer,
           c.bh[x].blk \in Block, c.bh[x].cnt > 0,
           Spent(c.bh[x]) => ~IsBitmap(c.bh[x].blk),
           RowLast(Brelse(c, x))
    PROVE  /\ WellFormed(Brelse(c, x)) /\ HeadsPinned(Brelse(c, x))
           /\ \A y \in Buffer \ {x} : Brelse(c, x).bh[y] = c.bh[y]
           /\ Brelse(c, x).bh[x] = IF Spent(c.bh[x]) THEN Blank
                                  ELSE [c.bh[x] EXCEPT !.cnt = @ - 1]
<1> DEFINE h == [c.bh[x] EXCEPT !.cnt = @ - 1]
           d == Put(c, x, h)
<1>1. c \in Caches /\ c.bh[x] \in Header
  BY HasBlock DEF WellFormed
<1>2. /\ h \in Header /\ h.blk = c.bh[x].blk /\ h.dirt = c.bh[x].dirt /\ h.valid = c.bh[x].valid
      /\ h.cnt = 0 <=> c.bh[x].cnt = 1
  BY <1>1 DEF Header
<1>3. d = [c EXCEPT !.bh[x].cnt = @ - 1]
  BY DEF Put
<1> HIDE DEF h
<1>4. /\ WellFormed(d) /\ HeadsPinned(d) /\ d.bh[x] = h
      /\ \A y \in Buffer \ {x} : d.bh[y] = c.bh[y]
  BY <1>2, Puts
<1>5. Brelse(c, x) = IF d.bh[x].cnt = 0 /\ ~(d.bh[x].dirt /\ d.bh[x].valid)
                     THEN FreeBuffer(d, x) ELSE d
  BY <1>3 DEF Brelse
<1> HIDE DEF d
<1>6. Brelse(c, x) = IF Spent(c.bh[x]) THEN FreeBuffer(d, x) ELSE d
  BY <1>2, <1>4, <1>5 DEF Spent
<1>7. CASE Spent(c.bh[x])
  <2>1. /\ WellFormed(FreeBuffer(d, x)) /\ HeadsPinned(FreeBuffer(d, x))
        /\ \A y \in Buffer : FreeBuffer(d, x).bh[y] = IF y = x THEN Blank ELSE d.bh[y]
    BY <1>2, <1>4, <1>6, <1>7, Frees
  <2> QED
    BY <1>4, <1>6, <1>7, <2>1
<1>8. CASE ~Spent(c.bh[x])
  BY <1>4, <1>6, <1>8 DEF h
<1> QED
  BY <1>7, <1>8
-----------------------------------------------------------------------------
(* init_buffer, and the reading of the bitmaps. *)

Empty == [hash |-> [r \in {Row[b] : b \in Block} |-> None],
          next |-> [x \in Buffer |-> None], prev |-> [x \in Buffer |-> None],
          free |-> [x \in Buffer |-> x], bh |-> [x \in Buffer |-> Blank]]

(* The cache with n bitmaps read. *)
Loaded(c, n) ==
    /\ WellFormed(c)
    /\ \A x \in Buffer : c.bh[x].blk = None => c.bh[x] = Blank
    /\ \A x \in Buffer : c.bh[x].blk # None =>
           /\ IsBitmap(c.bh[x].blk) /\ c.bh[x].valid /\ ~c.bh[x].dirt /\ c.bh[x].cnt > 0
           /\ c.bh[x].data = disk[c.bh[x].blk]
    /\ \A i \in 1 .. n : \E x \in Buffer : c.bh[x].blk = Bitmaps[i]
    /\ Len(c.free) >= NrBuffers - n

LEMMA EmptyLoaded == Loaded(Empty, 0)
<1>1. Empty.free \in Seq(Buffer) /\ Len(Empty.free) = NrBuffers /\ DOMAIN Empty.free = Buffer
  BY ConstFacts DEF Empty, Buffer
<1>2. Empty \in Caches
  BY <1>1, ConstFacts DEF Empty, Caches, Rows
<1>3. /\ \A x \in Buffer : Empty.bh[x] = Blank
      /\ \A s \in Rows : Empty.hash[s] = None
      /\ \A x \in Buffer : Empty.free[x] = x
  BY DEF Empty, Rows
<1>4. \A x \in Buffer : Empty.bh[x].blk = None
  BY <1>3, ConstFacts
<1> HIDE DEF Empty
<1>5. ASSUME NEW s \in Rows PROVE IsRow(Empty, s)
  <2>1. InRow(Empty, s) = {}
    BY <1>4 DEF InRow
  <2>2. Links(Empty, s, 0, << >>) /\ Listed(0, << >>) = {}
    BY <1>3 DEF Links, Listed
  <2> QED
    BY <2>1, <2>2 DEF IsRow, Ring
<1>6. FreeList(Empty)
  BY <1>1, <1>3, <1>4 DEF FreeList
<1>7. OneEach(Empty)
  BY <1>4 DEF OneEach
<1>8. WellFormed(Empty)
  BY <1>2, <1>5, <1>6, <1>7 DEF WellFormed
<1>9. Len(Empty.free) >= NrBuffers - 0 /\ \A i \in 1 .. 0 : FALSE
  BY <1>1, ConstFacts
<1>10. \A x \in Buffer : Empty.bh[x].blk = None /\ Empty.bh[x] = Blank
  BY <1>3, <1>4
<1> QED
  BY <1>8, <1>9, <1>10, Zenon DEF Loaded

LEMMA LoadStep ==
    ASSUME NEW c, NEW n \in Nat, n < Len(Bitmaps), Loaded(c, n), disk \in [Block -> Data]
    PROVE  Loaded(Bread(c, Bitmaps[n + 1]), n + 1)
<1> DEFINE b == Bitmaps[n + 1]
           x == Holder(c, b)
           d == Bread(c, b)
<1>1. /\ b \in Block /\ n + 1 \in DOMAIN Bitmaps /\ IsBitmap(b)
      /\ NrBuffers \in Nat /\ NrBuffers > n /\ Len(Bitmaps) \in Nat
  BY CacheAssumption DEF IsBitmap
<1>2. c.free # << >> /\ Len(c.free) \in Nat /\ c \in Caches
  BY <1>1 DEF Loaded, WellFormed, Caches
<1>3. Read(c, d, x, b)
  BY <1>1, <1>2, Reads DEF Loaded
<1> HIDE DEF b, x, d
<1>4. d \in Caches /\ Len(d.free) \in Nat /\ None \notin Block
  BY <1>3, ConstFacts DEF Read, WellFormed, Caches
<1>5. /\ d.bh[x].valid /\ ~d.bh[x].dirt /\ d.bh[x].cnt > 0 /\ d.bh[x].data = disk[b]
  <2>1. CASE c.bh[x].blk = b /\ d.bh[x] = [c.bh[x] EXCEPT !.cnt = @ + 1]
    <3>1. x \in Buffer /\ c.bh[x] \in Header /\ b # None
      BY <1>1, <1>2, <1>3, <1>4, HasBlock DEF Read
    <3>2. c.bh[x].valid /\ ~c.bh[x].dirt /\ c.bh[x].cnt > 0 /\ c.bh[x].data = disk[b]
      BY <2>1, <3>1 DEF Loaded
    <3> QED
      BY <2>1, <3>1, <3>2 DEF Header
  <2>2. CASE d.bh[x].valid /\ ~d.bh[x].dirt /\ d.bh[x].cnt = 1 /\ d.bh[x].data = disk[b]
    BY <2>2
  <2> QED
    BY <1>3, <2>1, <2>2 DEF Read
<1>6. x \in Buffer /\ d.bh[x].blk = b /\ \A y \in Buffer \ {x} : d.bh[y] = c.bh[y]
  BY <1>3 DEF Read
<1>7. \A y \in Buffer : d.bh[y].blk = None => d.bh[y] = Blank
  BY <1>1, <1>4, <1>6 DEF Loaded
<1>8. \A y \in Buffer : d.bh[y].blk # None =>
           /\ IsBitmap(d.bh[y].blk) /\ d.bh[y].valid /\ ~d.bh[y].dirt /\ d.bh[y].cnt > 0
           /\ d.bh[y].data = disk[d.bh[y].blk]
  BY <1>1, <1>5, <1>6 DEF Loaded
<1>9. ASSUME NEW i \in 1 .. n + 1
      PROVE  \E y \in Buffer : d.bh[y].blk = Bitmaps[i]
  <2>1. CASE i = n + 1
    BY <1>6, <2>1 DEF b
  <2>2. CASE i # n + 1
    <3>1. PICK y \in Buffer : c.bh[y].blk = Bitmaps[i]
      BY <2>2 DEF Loaded
    <3>2. y = x => c.bh[x].blk = b
      <4>1. Bitmaps[i] # None
        BY <1>1, <2>2, CacheAssumption
      <4> QED
        BY <1>3, <3>1, <4>1 DEF Read
    <3> QED
      BY <1>6, <3>1, <3>2
  <2> QED
    BY <2>1, <2>2
<1>10. Len(d.free) >= NrBuffers - (n + 1)
  BY <1>1, <1>2, <1>3, <1>4 DEF Read, Loaded
<1>11. WellFormed(d)
  BY <1>3 DEF Read
<1> QED
  BY <1>7, <1>8, <1>9, <1>10, <1>11 DEF Loaded, d, b

(* g is the cache after every bitmap up to the m-th.                        *)
Loads(g, m) ==
    g = [n \in 0 .. m |-> IF n = 0 THEN Empty ELSE Bread(g[n - 1], Bitmaps[n])]

LEMMA LoadsStep ==
    ASSUME NEW g, NEW m \in Nat, Loads(g, m)
    PROVE  g[0] = Empty /\ \A n \in 1 .. m : g[n] = Bread(g[n - 1], Bitmaps[n])
<1>1. g[0] = Empty
  BY DEF Loads
<1>2. ASSUME NEW n \in 1 .. m PROVE g[n] = Bread(g[n - 1], Bitmaps[n])
  <2>1. n \in 0 .. m /\ n # 0
    OBVIOUS
  <2> QED
    BY <2>1 DEF Loads
<1> QED
  BY <1>1, <1>2

LEMMA LoadsExist ==
    ASSUME NEW m \in Nat
    PROVE  \E g : Loads(g, m)
<1> DEFINE bad == {k \in Nat : ~\E g : Loads(g, k)}
<1>1. SUFFICES ASSUME bad # {} PROVE FALSE
  OBVIOUS
<1>2. PICK k \in bad : \A j \in bad : k <= j
  BY <1>1, LeastExists
<1>3. CASE k = 0
  <2> DEFINE f == [n \in 0 .. 0 |-> Empty]
  <2>1. f = [n \in 0 .. 0 |-> IF n = 0 THEN Empty ELSE Bread(f[n - 1], Bitmaps[n])]
    <3>1. \A n \in 0 .. 0 : n = 0
      OBVIOUS
    <3> QED
      BY <3>1, Zenon
  <2>2. Loads(f, 0)
    BY <2>1, Zenon DEF Loads
  <2> QED
    BY <1>2, <1>3, <2>2
<1>4. CASE k # 0
  <2>1. k - 1 \in Nat /\ k - 1 \notin bad
    BY <1>2, <1>4
  <2>2. PICK g : Loads(g, k - 1)
    BY <2>1
  <2> DEFINE z == Bread(g[k - 1], Bitmaps[k])
             f == [n \in 0 .. k |-> IF n = k THEN z ELSE g[n]]
  <2>3. g[0] = Empty /\ \A n \in 1 .. k - 1 : g[n] = Bread(g[n - 1], Bitmaps[n])
    BY <2>1, <2>2, LoadsStep
  <2>4. k \in Nat \ {0}
    BY <1>2, <1>4
  <2> HIDE DEF z
  <2>5. f[k] = z /\ \A n \in 0 .. k - 1 : f[n] = g[n]
    BY <2>4
  <2>6. f = [n \in 0 .. k |-> f[n]]
    OBVIOUS
  <2> HIDE DEF f
  <2>7. ASSUME NEW n \in 0 .. k
        PROVE  f[n] = IF n = 0 THEN Empty ELSE Bread(f[n - 1], Bitmaps[n])
    <3>1. CASE n = k
      <4>1. f[n - 1] = g[k - 1] /\ n # 0
        BY <2>4, <2>5, <3>1
      <4> QED
        BY <2>5, <3>1, <4>1 DEF z
    <3>2. CASE n = 0
      BY <2>3, <2>4, <2>5, <3>2
    <3>3. CASE n # k /\ n # 0
      <4>1. f[n] = g[n] /\ f[n - 1] = g[n - 1] /\ n \in 1 .. k - 1
        BY <2>4, <2>5, <3>3
      <4> QED
        BY <2>3, <3>3, <4>1
    <3> QED
      BY <3>1, <3>2, <3>3
  <2>8. Loads(f, k)
    BY <2>6, <2>7, Zenon DEF Loads
  <2> QED
    BY <1>2, <2>8
<1> QED
  BY <1>3, <1>4

(* The cache FS starts with has every bitmap and nothing else.              *)
LEMMA BootLoaded ==
    ASSUME disk \in [Block -> Data]
    PROVE  Loaded(Boot, Len(Bitmaps))
<1> DEFINE m == Len(Bitmaps)
           load == CHOOSE g : Loads(g, m)
<1>1. m \in Nat
  BY CacheAssumption
<1>2. Loads(load, m)
  BY <1>1, LoadsExist
<1>3. Boot = load[m]
  BY DEF Boot, Loads, Empty
<1> HIDE DEF load
<1> DEFINE bad == {k \in Nat : k <= m /\ ~Loaded(load[k], k)}
<1>4. bad = {}
  <2> SUFFICES ASSUME bad # {} PROVE FALSE
    OBVIOUS
  <2>1. PICK k \in bad : \A j \in bad : k <= j
    BY LeastExists
  <2>2. CASE k = 0
    BY <1>1, <1>2, <2>1, <2>2, LoadsStep, EmptyLoaded
  <2>3. CASE k # 0
    <3>1. k - 1 \in Nat /\ k - 1 \notin bad /\ k - 1 < m /\ k - 1 <= m /\ (k - 1) + 1 = k /\ k \in 1 .. m
      BY <1>1, <2>1, <2>3
    <3>2. Loaded(load[k - 1], k - 1)
      BY <3>1
    <3>3. load[k] = Bread(load[k - 1], Bitmaps[k])
      BY <1>1, <1>2, <3>1, LoadsStep
    <3>4. Loaded(Bread(load[k - 1], Bitmaps[(k - 1) + 1]), (k - 1) + 1)
      BY <3>1, <3>2, LoadStep
    <3> QED
      BY <2>1, <3>1, <3>3, <3>4
  <2> QED
    BY <2>2, <2>3
<1>5. m \in Nat /\ m <= m
  BY <1>1
<1>6. Loaded(load[m], m)
  BY <1>4, <1>5
<1> QED
  BY <1>3, <1>6
-----------------------------------------------------------------------------
(* The inductive invariant. *)

\* A buffer without a block is blank, one with a block holds what was written.
Holds(h, D, W) ==
    /\ h.blk = None => h = Blank
    /\ h.blk # None => /\ h.valid /\ (h.cnt > 0 \/ h.dirt)
                       /\ h.data = W[h.blk]
                       /\ ~h.dirt => D[h.blk] = W[h.blk]

\* What is in no buffer is on the disk.
Stored(c, D, W) ==
    /\ \A x \in Buffer : Holds(c.bh[x], D, W)
    /\ \A b \in Block : (\A x \in Buffer : c.bh[x].blk # b) => D[b] = W[b]

\* Bitmaps stay in the cache.
Pinned(c) ==
    \A b \in Block : IsBitmap(b) => \E x \in Buffer : c.bh[x].blk = b /\ c.bh[x].cnt > 0

\* Nobody holds the block that is created or given up.
CallOK(c) ==
    /\ call \in (Op \X Block) \cup {None}
    /\ call # None /\ call[1] # "read" =>
           \A x \in Buffer : c.bh[x].cnt > 0 => c.bh[x].blk # call[2]

\* What a scan has passed is clean, if nothing but the scan was asked for.
ScanOK(c) ==
    scan # None =>
        /\ scan \in [at : 1 .. NrBuffers + 1, done : Nat, max : Nat]
        /\ scan.done < scan.at
        /\ call = None => /\ scan.max = NrBuffers
                          /\ \A k \in Buffer : k < scan.at =>
                                 ~(c.bh[At(k)].dirt /\ c.bh[At(k)].valid)

CacheOK(c, D, W) ==
    /\ WellFormed(c) /\ HeadsPinned(c) /\ Pinned(c)
    /\ Stored(c, D, W)

IInv ==
    /\ disk \in [Block -> Data]
    /\ wrote \in [Block -> Data]
    /\ CacheOK(cache, disk, wrote)
    /\ CallOK(cache)
    /\ ScanOK(cache)

LEMMA BootOK ==
    ASSUME disk \in [Block -> Data]
    PROVE  CacheOK(Boot, disk, disk)
<1>1. Loaded(Boot, Len(Bitmaps))
  BY BootLoaded
<1>2. None \notin Block /\ None \notin Buffer /\ \A b \in Block : Row[b] \in Rows
  BY ConstFacts
<1>3. ASSUME NEW b \in Block, IsBitmap(b)
      PROVE  \E x \in Buffer : Boot.bh[x].blk = b /\ Boot.bh[x].cnt > 0
  <2>1. PICK i \in 1 .. Len(Bitmaps) : Bitmaps[i] = b
    BY <1>3, CacheAssumption DEF IsBitmap
  <2>2. PICK x \in Buffer : Boot.bh[x].blk = b
    BY <1>1, <2>1 DEF Loaded
  <2> QED
    BY <1>1, <1>2, <2>2 DEF Loaded
<1>4. ASSUME NEW b \in Block, IsBitmap(b)
      PROVE  Boot.hash[Row[b]] \in Buffer /\ IsBitmap(Boot.bh[Boot.hash[Row[b]]].blk)
  <2>1. PICK x \in Buffer : Boot.bh[x].blk = b
    BY <1>3, <1>4
  <2>2. x \in InRow(Boot, Row[b])
    BY <1>2, <2>1 DEF InRow
  <2>3. PICK n, q : n \in Nat /\ Ring(Boot, Row[b], n, q)
    BY <1>1, <1>2 DEF Loaded, WellFormed, IsRow
  <2> n \in Nat
    BY <2>3
  <2>4. n # 0
    BY <2>2, <2>3 DEF Ring, Listed
  <2>5. Boot.hash[Row[b]] \in InRow(Boot, Row[b])
    BY <2>3, <2>4 DEF Ring, Listed, Links
  <2> QED
    BY <1>1, <2>5 DEF Loaded, InRow
<1>5. Stored(Boot, disk, disk)
  BY <1>1 DEF Loaded, Stored, Holds
<1> QED
  BY <1>1, <1>3, <1>4, <1>5 DEF CacheOK, HeadsPinned, Pinned, Loaded

LEMMA InitOK == Init => IInv
<1> SUFFICES ASSUME Init PROVE IInv
  OBVIOUS
<1>1. CacheOK(cache, disk, wrote)
  BY BootOK DEF Init
<1> QED
  BY <1>1 DEF Init, IInv, CallOK, ScanOK

(* The shape the data part of a step takes: buffer x, of block b, changes,  *)
(* and what the disk has and what was written change for b only.            *)
Change(c, D, W, d, E, V, b, x) ==
    /\ c.bh[x].blk \in {b, None} /\ d.bh[x].blk \in {b, None}
    /\ \A y \in Buffer \ {x} : d.bh[y] = c.bh[y] /\ c.bh[y].blk # b
    /\ \A e \in Block \ {b} : E[e] = D[e] /\ V[e] = W[e]
    /\ Holds(d.bh[x], E, V)
    /\ d.bh[x].blk = None => E[b] = V[b]
    /\ IsBitmap(b) => d.bh[x].blk = b /\ d.bh[x].cnt > 0

LEMMA Changes ==
    ASSUME NEW c, NEW D, NEW W, CacheOK(c, D, W), NEW d, WellFormed(d), HeadsPinned(d),
           NEW E, NEW V, NEW b \in Block, NEW x \in Buffer, Change(c, D, W, d, E, V, b, x)
    PROVE  CacheOK(d, E, V)
<1> USE DEF Change
<1>1. c \in Caches /\ d \in Caches /\ None \notin Block
  BY ConstFacts DEF CacheOK, WellFormed
<1>2. ASSUME NEW y \in Buffer
      PROVE  Holds(d.bh[y], E, V)
  <2>1. CASE y # x
    <3>1. d.bh[y] = c.bh[y] /\ c.bh[y].blk # b /\ Holds(c.bh[y], D, W)
      BY <2>1 DEF CacheOK, Stored
    <3>2. c.bh[y].blk # None => c.bh[y].blk \in Block \ {b}
      BY <1>1, <3>1, HasBlock
    <3> QED
      BY <3>1, <3>2 DEF Holds
  <2> QED
    BY <2>1
<1>3. ASSUME NEW e \in Block, \A y \in Buffer : d.bh[y].blk # e
      PROVE  E[e] = V[e]
  <2>1. CASE e = b
    BY <1>3, <2>1
  <2>2. CASE e # b
    <3>1. \A y \in Buffer : c.bh[y].blk # e
      BY <1>1, <1>3, <2>2
    <3> QED
      BY <2>2, <3>1 DEF CacheOK, Stored
  <2> QED
    BY <2>1, <2>2
<1>4. ASSUME NEW e \in Block, IsBitmap(e)
      PROVE  \E y \in Buffer : d.bh[y].blk = e /\ d.bh[y].cnt > 0
  <2>1. CASE e = b
    BY <1>4, <2>1
  <2>2. CASE e # b
    <3>1. PICK y \in Buffer : c.bh[y].blk = e /\ c.bh[y].cnt > 0
      BY <1>4 DEF CacheOK, Pinned
    <3>2. y # x
      BY <1>1, <2>2, <3>1
    <3> QED
      BY <3>1, <3>2
  <2> QED
    BY <2>1, <2>2
<1> QED
  BY <1>2, <1>3, <1>4 DEF CacheOK, Stored, Pinned
-----------------------------------------------------------------------------
(* Every action keeps the invariant. *)

LEMMA BlankIs ==
    Blank.blk = None /\ Blank.cnt = 0 /\ ~Blank.dirt /\ ~Blank.valid
BY DEF Blank

LEMMA BlankStays ==
    [Blank EXCEPT !.dirt = FALSE] = Blank
<1>1. Blank \in Header /\ Blank.dirt = FALSE
  BY ConstFacts DEF Blank
<1> DEFINE g == Blank
<1>2. g \in Header /\ g.dirt = FALSE
  BY <1>1
<1> HIDE DEF g
<1>3. [g EXCEPT !.dirt = FALSE] = g
  BY <1>2 DEF Header
<1> QED
  BY <1>3 DEF g

\* What a buffer with a block is, and that no other one has the block.
LEMMA HolderIs ==
    ASSUME NEW c, NEW D, NEW W, CacheOK(c, D, W), NEW x \in Buffer, c.bh[x].blk # None
    PROVE  /\ c.bh[x] \in Header /\ c.bh[x].blk \in Block
           /\ c.bh[x].valid /\ c.bh[x].data = W[c.bh[x].blk]
           /\ c.bh[x].cnt > 0 \/ c.bh[x].dirt
           /\ ~c.bh[x].dirt => D[c.bh[x].blk] = W[c.bh[x].blk]
           /\ \A y \in Buffer \ {x} : c.bh[y].blk # c.bh[x].blk
           /\ IsBitmap(c.bh[x].blk) => c.bh[x].cnt > 0
<1>1. c \in Caches /\ OneEach(c)
  BY DEF CacheOK, WellFormed
<1>2. c.bh[x] \in Header /\ c.bh[x].blk \in Block
  BY <1>1, HasBlock
<1>3. Holds(c.bh[x], D, W)
  BY DEF CacheOK, Stored
<1>4. \A y \in Buffer \ {x} : c.bh[y].blk # c.bh[x].blk
  BY <1>1 DEF OneEach
<1>5. IsBitmap(c.bh[x].blk) => c.bh[x].cnt > 0
  <2> SUFFICES ASSUME IsBitmap(c.bh[x].blk) PROVE c.bh[x].cnt > 0
    OBVIOUS
  <2>1. PICK y \in Buffer : c.bh[y].blk = c.bh[x].blk /\ c.bh[y].cnt > 0
    BY <1>2 DEF CacheOK, Pinned
  <2> QED
    BY <1>4, <2>1
<1> QED
  BY <1>2, <1>3, <1>4, <1>5 DEF Holds

\* A blank buffer is not used.
LEMMA UsedHasBlock ==
    ASSUME NEW c, NEW D, NEW W, CacheOK(c, D, W), NEW x \in Buffer,
           c.bh[x].cnt > 0 \/ c.bh[x].dirt \/ c.bh[x].valid
    PROVE  c.bh[x].blk # None
BY BlankIs DEF CacheOK, Stored, Holds

LEMMA ReleaseOK ==
    ASSUME IInv, NEW x \in Buffer, Release(x), RowLast(cache')
    PROVE  IInv'
<1> DEFINE h == cache.bh[x]
           b == h.blk
<1>1. CacheOK(cache, disk, wrote) /\ cache' = Brelse(cache, x)
  BY DEF IInv, Release
<1>2. h.cnt > 0 /\ (IsBitmap(b) => h.cnt > 1) /\ h \in Header
  <2>1. h \in Header
    BY <1>1, HasBlock DEF CacheOK, WellFormed
  <2> QED
    BY <2>1 DEF Release, IsBitmap, Bitmap, Header
<1>3. b # None
  BY <1>1, <1>2, UsedHasBlock
<1>4. /\ b \in Block /\ h.valid /\ h.data = wrote[b]
      /\ ~h.dirt => disk[b] = wrote[b]
      /\ \A y \in Buffer \ {x} : cache.bh[y].blk # b
  BY <1>1, <1>3, HolderIs
<1>5. WellFormed(cache) /\ HeadsPinned(cache)
  BY <1>1 DEF CacheOK
<1> HIDE DEF h
<1>6. Spent(h) => ~IsBitmap(b)
  BY <1>2 DEF Spent
<1>7. /\ WellFormed(cache') /\ HeadsPinned(cache')
      /\ \A y \in Buffer \ {x} : cache'.bh[y] = cache.bh[y]
      /\ cache'.bh[x] = IF Spent(h) THEN Blank ELSE [h EXCEPT !.cnt = @ - 1]
  BY <1>1, <1>2, <1>4, <1>5, <1>6, Releases DEF h
<1>8. /\ cache'.bh[x].blk \in {b, None}
      /\ Holds(cache'.bh[x], disk, wrote)
      /\ cache'.bh[x].blk = None => disk[b] = wrote[b]
      /\ IsBitmap(b) => cache'.bh[x].blk = b /\ cache'.bh[x].cnt > 0
  <2>1. CASE Spent(h)
    BY <1>4, <1>6, <1>7, <2>1, BlankIs DEF Holds, Spent
  <2>2. CASE ~Spent(h)
    <3> DEFINE g == [h EXCEPT !.cnt = @ - 1]
    <3>1. g.blk = b /\ g.cnt = h.cnt - 1 /\ g.valid = h.valid /\ g.dirt = h.dirt /\ g.data = h.data
      BY <1>2 DEF Header
    <3>2. cache'.bh[x] = g
      BY <1>7, <2>2
    <3>3. h.cnt - 1 > 0 \/ h.dirt
      BY <1>2, <1>4, <2>2 DEF Spent, Header
    <3> HIDE DEF g
    <3>4. Holds(g, disk, wrote)
      BY <1>3, <1>4, <3>1, <3>3 DEF Holds
    <3>5. IsBitmap(b) => h.cnt - 1 > 0
      BY <1>2 DEF Header
    <3> QED
      BY <1>3, <3>1, <3>2, <3>4, <3>5
  <2> QED
    BY <2>1, <2>2
<1>9. CacheOK(cache', disk, wrote)
  <2>1. cache.bh[x].blk = b
    BY DEF h
  <2> HIDE DEF b
  <2>2. Change(cache, disk, wrote, cache', disk, wrote, b, x)
    BY <1>4, <1>7, <1>8, <2>1 DEF Change
  <2> QED
    BY <1>1, <1>4, <1>7, <2>2, Changes
<1> QED
  BY <1>9 DEF IInv, Release, Idle, CallOK, ScanOK

LEMMA ModifyOK ==
    ASSUME IInv, NEW x \in Buffer, NEW v \in Data, Modify(x, v)
    PROVE  IInv'
<1> DEFINE h == cache.bh[x]
           b == h.blk
           g == [h EXCEPT !.data = v]
           f == [g EXCEPT !.dirt = TRUE]
<1>1. CacheOK(cache, disk, wrote) /\ h.cnt > 0
  BY DEF IInv, Modify, Used
<1>2. b # None
  BY <1>1, UsedHasBlock
<1>3. /\ h \in Header /\ b \in Block /\ h.valid
      /\ \A y \in Buffer \ {x} : cache.bh[y].blk # b
  BY <1>1, <1>2, HolderIs
<1>4. WellFormed(cache) /\ HeadsPinned(cache) /\ cache \in Caches
  BY <1>1 DEF CacheOK, WellFormed
<1>5. cache' = Put(Put(cache, x, g), x, [Put(cache, x, g).bh[x] EXCEPT !.dirt = TRUE])
  BY DEF Modify, Put
<1>6. /\ f \in Header /\ f.blk = b /\ f.cnt = h.cnt /\ f.valid = h.valid
      /\ f.dirt /\ f.data = v
  BY <1>3 DEF Header
<1> HIDE DEF h, g
<1>7. cache' = Put(cache, x, f)
  <2>1. Put(cache, x, g).bh[x] = g
    BY <1>4, PutTwice
  <2>2. cache' = Put(Put(cache, x, g), x, f)
    BY <1>5, <2>1
  <2> HIDE DEF f
  <2> QED
    BY <1>4, <2>2, PutTwice
<1>8. cache.bh[x].blk = b
  BY DEF h
<1> HIDE DEF f, b
<1>9. /\ WellFormed(cache') /\ HeadsPinned(cache') /\ cache'.bh[x] = f
      /\ \A y \in Buffer \ {x} : cache'.bh[y] = cache.bh[y]
  BY <1>4, <1>6, <1>7, <1>8, Puts
<1>10. wrote' = [wrote EXCEPT ![b] = v] /\ disk' = disk /\ call' = None /\ scan' = None
  BY <1>8 DEF Modify, Idle
<1>11. /\ wrote' \in [Block -> Data] /\ wrote'[b] = v
       /\ \A e \in Block \ {b} : wrote'[e] = wrote[e]
  BY <1>3, <1>10 DEF IInv
<1>12. Holds(f, disk, wrote')
  BY <1>1, <1>2, <1>3, <1>6, <1>11 DEF Holds
<1>13. CacheOK(cache', disk, wrote')
  <2>1. Change(cache, disk, wrote, cache', disk, wrote', b, x)
    BY <1>1, <1>2, <1>3, <1>6, <1>8, <1>9, <1>11, <1>12 DEF Change
  <2> QED
    BY <1>1, <1>3, <1>9, <2>1, Changes
<1> QED
  BY <1>10, <1>11, <1>13 DEF IInv, CallOK, ScanOK

LEMMA SyncBmapOK ==
    ASSUME IInv, NEW x \in Buffer, SyncBmap(x)
    PROVE  IInv'
<1> DEFINE h == cache.bh[x]
           b == h.blk
           g == [h EXCEPT !.dirt = FALSE]
<1>1. CacheOK(cache, disk, wrote) /\ h.dirt /\ IsBitmap(b)
  BY DEF IInv, SyncBmap, IsBitmap, Bitmap
<1>2. b # None
  BY <1>1, UsedHasBlock
<1>3. /\ h \in Header /\ b \in Block /\ h.valid /\ h.data = wrote[b] /\ h.cnt > 0
      /\ \A y \in Buffer \ {x} : cache.bh[y].blk # b
  BY <1>1, <1>2, HolderIs
<1>4. WellFormed(cache) /\ HeadsPinned(cache)
  BY <1>1 DEF CacheOK
<1>5. cache' = Put(cache, x, g)
  BY DEF SyncBmap, Put
<1>6. /\ g \in Header /\ g.blk = b /\ g.cnt = h.cnt /\ g.valid = h.valid
      /\ ~g.dirt /\ g.data = h.data
  BY <1>3 DEF Header
<1> HIDE DEF g
<1>7. /\ WellFormed(cache') /\ HeadsPinned(cache') /\ cache'.bh[x] = g
      /\ \A y \in Buffer \ {x} : cache'.bh[y] = cache.bh[y]
  BY <1>4, <1>5, <1>6, Puts
<1>8. disk' = [disk EXCEPT ![b] = h.data] /\ wrote' = wrote /\ call' = None /\ scan' = None
  BY DEF SyncBmap, Idle
<1>9. cache.bh[x].blk = b
  OBVIOUS
<1> HIDE DEF h, b
<1>10. /\ disk' \in [Block -> Data] /\ disk'[b] = wrote[b]
       /\ \A e \in Block \ {b} : disk'[e] = disk[e]
  BY <1>3, <1>8 DEF IInv
<1>11. Holds(g, disk', wrote)
  BY <1>2, <1>3, <1>6, <1>10 DEF Holds
<1>12. CacheOK(cache', disk', wrote)
  <2>1. Change(cache, disk, wrote, cache', disk', wrote, b, x)
    BY <1>2, <1>3, <1>6, <1>7, <1>9, <1>10, <1>11 DEF Change
  <2> QED
    BY <1>1, <1>3, <1>7, <2>1, Changes
<1> QED
  BY <1>8, <1>10, <1>12 DEF IInv, CallOK, ScanOK
\* The heads of the rows of bitmaps do not change when block b is got.
LEMMA HeadsStay ==
    ASSUME NEW c, NEW d, HeadsPinned(c), NEW x \in Buffer, NEW b \in Block,
           c.bh[x].blk \in {b, None}, d.bh[x].blk = b,
           \A y \in Buffer \ {x} : d.bh[y] = c.bh[y],
           \A s \in Rows : d.hash[s] = IF s = Row[b] /\ c.hash[s] = None THEN x ELSE c.hash[s]
    PROVE  HeadsPinned(d)
<1> SUFFICES ASSUME NEW e \in Block, IsBitmap(e)
             PROVE  d.hash[Row[e]] \in Buffer /\ IsBitmap(d.bh[d.hash[Row[e]]].blk)
  BY DEF HeadsPinned
<1> DEFINE h == c.hash[Row[e]]
<1>1. h \in Buffer /\ IsBitmap(c.bh[h].blk) /\ Row[e] \in Rows /\ None \notin Buffer
  BY ConstFacts DEF HeadsPinned
<1>2. c.bh[h].blk # None
  BY <1>1, CacheAssumption DEF IsBitmap
<1>3. d.hash[Row[e]] = h
  BY <1>1
<1>4. IsBitmap(d.bh[h].blk)
  BY <1>1, <1>2
<1> QED
  BY <1>1, <1>3, <1>4

LEMMA ReadBlockOK ==
    ASSUME IInv, NEW b \in Block, ReadBlock(b)
    PROVE  IInv'
<1> DEFINE x == Holder(cache, b)
<1>1. /\ CacheOK(cache, disk, wrote) /\ WellFormed(cache) /\ HeadsPinned(cache)
      /\ Stored(cache, disk, wrote) /\ OneEach(cache) /\ cache \in Caches
      /\ b # None /\ disk \in [Block -> Data]
  BY ConstFacts DEF IInv, CacheOK, WellFormed
<1>2. /\ cache' = Bread(cache, b) /\ disk' = disk /\ wrote' = wrote /\ call' = None /\ scan' = None
      /\ Found(cache, b) # {} \/ cache.free # << >>
  BY DEF ReadBlock, Get, Ready
<1>3. \A y \in Buffer : cache.bh[y].blk # None => cache.bh[y].valid
  BY <1>1 DEF Stored, Holds
<1>4. Read(cache, cache', x, b)
  BY <1>1, <1>2, <1>3, Reads
<1> HIDE DEF x
<1>5. /\ x \in Buffer /\ cache'.bh[x].blk = b /\ cache.bh[x].blk \in {b, None}
      /\ \A y \in Buffer \ {x} : cache'.bh[y] = cache.bh[y]
      /\ WellFormed(cache')
  BY <1>4 DEF Read
<1>6. HeadsPinned(cache')
  BY <1>1, <1>4, <1>5, HeadsStay DEF Read
<1>7. /\ Holds(cache'.bh[x], disk, wrote) /\ cache'.bh[x].cnt > 0
      /\ \A y \in Buffer \ {x} : cache.bh[y].blk # b
  <2>1. CASE cache.bh[x].blk = b /\ cache'.bh[x] = [cache.bh[x] EXCEPT !.cnt = @ + 1]
    <3>1. /\ cache.bh[x] \in Header /\ cache.bh[x].valid /\ cache.bh[x].data = wrote[b]
          /\ ~cache.bh[x].dirt => disk[b] = wrote[b]
          /\ \A y \in Buffer \ {x} : cache.bh[y].blk # b
      BY <1>1, <1>5, <2>1, HolderIs
    <3> DEFINE g == [cache.bh[x] EXCEPT !.cnt = @ + 1]
    <3>2. g.blk = b /\ g.valid /\ g.data = wrote[b] /\ g.cnt > 0 /\ g.dirt = cache.bh[x].dirt
      BY <2>1, <3>1 DEF Header
    <3> HIDE DEF g
    <3>3. cache'.bh[x] = g
      BY <2>1 DEF g
    <3> QED
      BY <1>1, <3>1, <3>2, <3>3 DEF Holds
  <2>2. CASE /\ \A y \in Buffer : cache.bh[y].blk # b
             /\ cache'.bh[x].valid /\ ~cache'.bh[x].dirt /\ cache'.bh[x].cnt = 1
             /\ cache'.bh[x].data = disk[b]
    BY <1>1, <1>5, <2>2 DEF Holds, Stored
  <2> QED
    BY <1>4, <2>1, <2>2 DEF Read
<1>8. Change(cache, disk, wrote, cache', disk, wrote, b, x)
  BY <1>1, <1>5, <1>7 DEF Change
<1>9. CacheOK(cache', disk, wrote)
  BY <1>1, <1>5, <1>6, <1>8, Changes
<1> QED
  BY <1>2, <1>9 DEF IInv, CallOK, ScanOK

\* new_block and free_block are the only ones that hold their block.
LEMMA OnlyHolder ==
    ASSUME IInv, NEW b \in Block, NEW op \in Op, op # "read", Get(op, b),
           NEW x, x = Holder(cache, b), NEW d, d = GetBlk(cache, b)
    PROVE  /\ x \in Buffer /\ WellFormed(d) /\ HeadsPinned(d) /\ ~IsBitmap(b)
           /\ d.bh[x] \in Header /\ d.bh[x].blk = b /\ d.bh[x].cnt = 1
           /\ cache.bh[x].blk \in {b, None}
           /\ \A y \in Buffer \ {x} : d.bh[y] = cache.bh[y] /\ cache.bh[y].blk # b
<1>1. /\ CacheOK(cache, disk, wrote) /\ WellFormed(cache) /\ HeadsPinned(cache)
      /\ Pinned(cache) /\ cache \in Caches /\ b # None
  BY ConstFacts DEF IInv, CacheOK, WellFormed
<1>2. \A y \in Buffer : cache.bh[y].cnt > 0 => cache.bh[y].blk # b
  <2>1. call = <<op, b>> /\ call # None
    BY CacheAssumption DEF Get, IInv, CallOK
  <2>2. call[1] = op /\ call[2] = b
    BY <2>1
  <2> QED
    BY <2>1, <2>2 DEF IInv, CallOK
<1>3. Found(cache, b) # {} \/ cache.free # << >>
  BY DEF Get, Ready
<1>4. Took(cache, d, x, b)
  BY <1>1, <1>3, Takes
<1>5. /\ x \in Buffer /\ WellFormed(d) /\ d \in Caches /\ d.bh[x].blk = b
      /\ cache.bh[x].blk \in {b, None}
      /\ \A y \in Buffer \ {x} : d.bh[y] = cache.bh[y]
  BY <1>4 DEF Took, WellFormed
<1>6. HeadsPinned(d)
  BY <1>1, <1>4, <1>5, HeadsStay DEF Took
<1>7. ~IsBitmap(b)
  BY <1>1, <1>2 DEF Pinned
<1>8. d.bh[x].cnt = 1 /\ \A y \in Buffer \ {x} : cache.bh[y].blk # b
  <2>1. CASE cache.bh[x].blk = b /\ d.bh[x] = [cache.bh[x] EXCEPT !.cnt = @ + 1]
    <3>1. cache.bh[x] \in Header /\ \A y \in Buffer \ {x} : cache.bh[y].blk # b
      BY <1>1, <1>5, <2>1, HolderIs
    <3>2. cache.bh[x].cnt = 0
      BY <1>2, <1>5, <2>1, <3>1 DEF Header
    <3> QED
      BY <2>1, <3>1, <3>2 DEF Header
  <2>2. CASE /\ \A y \in Buffer : cache.bh[y].blk # b
             /\ d.bh[x] = [Blank EXCEPT !.blk = b, !.cnt = 1]
    BY <2>2 DEF Blank
  <2> QED
    BY <1>4, <2>1, <2>2 DEF Took
<1>9. d.bh[x] \in Header
  BY <1>5, HasBlock
<1> QED
  BY <1>5, <1>6, <1>7, <1>8, <1>9

LEMMA NewBlockOK ==
    ASSUME IInv, NEW b \in Block, NewBlock(b), RowLast(cache')
    PROVE  IInv'
<1> DEFINE x == Holder(cache, b)
           d == GetBlk(cache, b)
           f1 == [d.bh[x] EXCEPT !.data = Zero]
           f2 == [f1 EXCEPT !.valid = TRUE]
           f  == [f2 EXCEPT !.dirt = TRUE]
           e == [d EXCEPT !.bh[x].data = Zero, !.bh[x].valid = TRUE, !.bh[x].dirt = TRUE]
<1>1. /\ x \in Buffer /\ WellFormed(d) /\ HeadsPinned(d) /\ ~IsBitmap(b)
      /\ d.bh[x] \in Header /\ d.bh[x].blk = b /\ d.bh[x].cnt = 1
      /\ cache.bh[x].blk \in {b, None}
      /\ \A y \in Buffer \ {x} : d.bh[y] = cache.bh[y] /\ cache.bh[y].blk # b
  <2>1. Get("new", b) /\ "new" \in Op /\ "new" # "read"
    BY DEF NewBlock, Op
  <2> QED
    BY <2>1, OnlyHolder
<1>2. cache' = Brelse(e, x) /\ wrote' = [wrote EXCEPT ![b] = Zero]
      /\ disk' = disk /\ call' = None /\ scan' = None
  BY DEF NewBlock, Get
<1>3. d \in Caches /\ b # None /\ Zero \in Data
  BY <1>1, ConstFacts DEF WellFormed
<1> HIDE DEF x, d
<1>4. e = Put(Put(Put(d, x, f1), x, [Put(d, x, f1).bh[x] EXCEPT !.valid = TRUE]), x,
              [Put(Put(d, x, f1), x, [Put(d, x, f1).bh[x] EXCEPT !.valid = TRUE]).bh[x]
                  EXCEPT !.dirt = TRUE])
  BY DEF Put
<1>5. /\ f \in Header /\ f.blk = b /\ f.cnt = 1 /\ f.valid /\ f.dirt /\ f.data = Zero
  BY <1>1, <1>3 DEF Header
<1> HIDE DEF f1, e
<1>6. e = Put(d, x, f)
  <2>1. Put(d, x, f1).bh[x] = f1
    BY <1>1, <1>3, PutTwice
  <2>2. Put(Put(d, x, f1), x, f2) = Put(d, x, f2)
    BY <1>1, <1>3, PutTwice
  <2>3. Put(d, x, f2).bh[x] = f2
    BY <1>1, <1>3, PutTwice
  <2>4. e = Put(Put(d, x, f2), x, f)
    BY <1>4, <2>1, <2>2, <2>3
  <2> HIDE DEF f, f2
  <2> QED
    BY <1>1, <1>3, <2>4, PutTwice
<1> HIDE DEF f, f2
<1>7. /\ WellFormed(e) /\ HeadsPinned(e) /\ e.bh[x] = f
      /\ \A y \in Buffer \ {x} : e.bh[y] = d.bh[y]
  BY <1>1, <1>5, <1>6, Puts
<1>8. ~Spent(e.bh[x]) /\ e.bh[x].blk \in Block /\ e.bh[x].cnt > 0
  BY <1>5, <1>7 DEF Spent
<1>9. /\ WellFormed(cache') /\ HeadsPinned(cache')
      /\ \A y \in Buffer \ {x} : cache'.bh[y] = e.bh[y]
      /\ cache'.bh[x] = [f EXCEPT !.cnt = @ - 1]
  <2>1. RowLast(Brelse(e, x))
    BY <1>2
  <2>2. /\ WellFormed(Brelse(e, x)) /\ HeadsPinned(Brelse(e, x))
        /\ \A y \in Buffer \ {x} : Brelse(e, x).bh[y] = e.bh[y]
        /\ Brelse(e, x).bh[x] = [e.bh[x] EXCEPT !.cnt = @ - 1]
    BY <1>1, <1>7, <1>8, <2>1, Releases
  <2> QED
    BY <1>2, <1>7, <2>2
<1>10. /\ wrote' \in [Block -> Data] /\ wrote'[b] = Zero
       /\ \A z \in Block \ {b} : wrote'[z] = wrote[z]
  BY <1>2, <1>3 DEF IInv
<1>11. cache'.bh[x].blk = b /\ Holds(cache'.bh[x], disk, wrote')
  <2> DEFINE g == [f EXCEPT !.cnt = @ - 1]
  <2>1. g.blk = b /\ g.valid /\ g.dirt /\ g.data = Zero
    BY <1>5 DEF Header
  <2> HIDE DEF g
  <2>2. cache'.bh[x] = g
    BY <1>9 DEF g
  <2> QED
    BY <1>3, <1>10, <2>1, <2>2 DEF Holds
<1>12. Change(cache, disk, wrote, cache', disk, wrote', b, x)
  BY <1>1, <1>3, <1>7, <1>9, <1>10, <1>11 DEF Change
<1>13. CacheOK(cache', disk, wrote')
  BY <1>1, <1>9, <1>12, Changes DEF IInv
<1> QED
  BY <1>2, <1>10, <1>13 DEF IInv, CallOK, ScanOK

LEMMA FreeBlockOK ==
    ASSUME IInv, NEW b \in Block, FreeBlock(b), RowLast(cache')
    PROVE  IInv'
<1> DEFINE x == Holder(cache, b)
           d == GetBlk(cache, b)
           f1 == [d.bh[x] EXCEPT !.valid = FALSE]
           f  == [f1 EXCEPT !.dirt = FALSE]
           e == [d EXCEPT !.bh[x].valid = FALSE, !.bh[x].dirt = FALSE]
<1>1. /\ x \in Buffer /\ WellFormed(d) /\ HeadsPinned(d) /\ ~IsBitmap(b)
      /\ d.bh[x] \in Header /\ d.bh[x].blk = b /\ d.bh[x].cnt = 1
      /\ cache.bh[x].blk \in {b, None}
      /\ \A y \in Buffer \ {x} : d.bh[y] = cache.bh[y] /\ cache.bh[y].blk # b
  <2>1. Get("free", b) /\ "free" \in Op /\ "free" # "read"
    BY DEF FreeBlock, Op
  <2> QED
    BY <2>1, OnlyHolder
<1>2. cache' = Brelse(e, x) /\ wrote' = [wrote EXCEPT ![b] = disk[b]]
      /\ disk' = disk /\ call' = None /\ scan' = None
  BY DEF FreeBlock, Get
<1>3. d \in Caches /\ b # None
  BY <1>1, ConstFacts DEF WellFormed
<1> HIDE DEF x, d
<1>4. e = Put(Put(d, x, f1), x, [Put(d, x, f1).bh[x] EXCEPT !.dirt = FALSE])
  BY DEF Put
<1>5. /\ f \in Header /\ f.blk = b /\ f.cnt = 1 /\ ~f.valid /\ ~f.dirt
  BY <1>1, <1>3 DEF Header
<1> HIDE DEF f1, e
<1>6. e = Put(d, x, f)
  <2>1. Put(d, x, f1).bh[x] = f1
    BY <1>1, <1>3, PutTwice
  <2>2. e = Put(Put(d, x, f1), x, f)
    BY <1>4, <2>1
  <2> HIDE DEF f
  <2> QED
    BY <1>1, <1>3, <2>2, PutTwice
<1> HIDE DEF f
<1>7. /\ WellFormed(e) /\ HeadsPinned(e) /\ e.bh[x] = f
      /\ \A y \in Buffer \ {x} : e.bh[y] = d.bh[y]
  BY <1>1, <1>5, <1>6, Puts
<1>8. Spent(e.bh[x]) /\ e.bh[x].blk \in Block /\ e.bh[x].cnt > 0 /\ ~IsBitmap(e.bh[x].blk)
  BY <1>1, <1>5, <1>7 DEF Spent
<1>9. /\ WellFormed(cache') /\ HeadsPinned(cache')
      /\ \A y \in Buffer \ {x} : cache'.bh[y] = e.bh[y]
      /\ cache'.bh[x] = Blank
  <2>1. RowLast(Brelse(e, x))
    BY <1>2
  <2>2. /\ WellFormed(Brelse(e, x)) /\ HeadsPinned(Brelse(e, x))
        /\ \A y \in Buffer \ {x} : Brelse(e, x).bh[y] = e.bh[y]
        /\ Brelse(e, x).bh[x] = Blank
    BY <1>1, <1>7, <1>8, <2>1, Releases
  <2> QED
    BY <1>2, <2>2
<1>10. /\ wrote' \in [Block -> Data] /\ wrote'[b] = disk[b]
       /\ \A z \in Block \ {b} : wrote'[z] = wrote[z]
  BY <1>2 DEF IInv
<1>11. cache'.bh[x].blk = None /\ Holds(cache'.bh[x], disk, wrote')
  BY <1>9, BlankIs DEF Holds
<1>12. Change(cache, disk, wrote, cache', disk, wrote', b, x)
  BY <1>1, <1>3, <1>7, <1>9, <1>10, <1>11 DEF Change
<1>13. CacheOK(cache', disk, wrote')
  BY <1>1, <1>9, <1>12, Changes DEF IInv
<1> QED
  BY <1>2, <1>10, <1>13 DEF IInv, CallOK, ScanOK
\* Actions that leave the cache and the disk alone.
LEMMA CallsOK ==
    ASSUME IInv,
           MakeRoom \/ SyncEnd \/ Sync \/ (\E op \in Op, b \in Block : Call(op, b)) \/ UNCHANGED vars
    PROVE  IInv'
<1>1. /\ NrBuffers \in Nat /\ NrBuffers > 0 /\ SyncNr \in Nat
      /\ \A k \in Buffer : k \in Nat /\ k >= 1
  BY CacheAssumption DEF Buffer
<1>2. CASE MakeRoom
  <2>1. scan'.at = 1 /\ scan'.done = 0 /\ scan' \in [at : 1 .. NrBuffers + 1, done : Nat, max : Nat]
    BY <1>1, <1>2 DEF MakeRoom
  <2> QED
    BY <1>1, <1>2, <2>1 DEF MakeRoom, IInv, CallOK, ScanOK
<1>3. CASE SyncEnd
  BY <1>3 DEF SyncEnd, IInv, CallOK, ScanOK
<1>4. CASE Sync
  <2>1. /\ scan'.at = 1 /\ scan'.done = 0 /\ scan'.max = NrBuffers
        /\ scan' \in [at : 1 .. NrBuffers + 1, done : Nat, max : Nat]
    BY <1>1, <1>4 DEF Sync
  <2>2. ScanOK(cache)'
    <3>1. \A k \in Buffer : ~(k < scan'.at)
      BY <1>1, <2>1
    <3> QED
      BY <1>1, <2>1, <3>1 DEF ScanOK
  <2> QED
    BY <1>4, <2>2 DEF Sync, IInv, CallOK
<1>5. ASSUME NEW op \in Op, NEW b \in Block, Call(op, b)
      PROVE  IInv'
  <2>1. call'[1] = op /\ call'[2] = b /\ call' \in Op \X Block
    BY <1>5 DEF Call
  <2>2. CallOK(cache)'
    <3>1. op # "read" => \A x \in Buffer : cache'.bh[x].cnt > 0 => cache'.bh[x].blk # b
      BY <1>5 DEF Call, Used
    <3> QED
      BY <2>1, <3>1 DEF CallOK
  <2>3. ScanOK(cache)'
    BY <1>5 DEF Call, Idle, ScanOK
  <2> QED
    BY <1>5, <2>2, <2>3 DEF Call, IInv
<1>6. CASE UNCHANGED vars
  BY <1>6 DEF vars, IInv, CallOK, ScanOK
<1> QED
  BY <1>2, <1>3, <1>4, <1>5, <1>6

LEMMA PowerLossOK ==
    ASSUME IInv, PowerLoss
    PROVE  IInv'
<1>1. CacheOK(cache', disk', wrote')
  BY BootOK DEF PowerLoss, IInv
<1> QED
  BY <1>1 DEF PowerLoss, IInv, CallOK, ScanOK

\* What one write of sync_blks makes of buffer x.
LEMMA Written ==
    ASSUME IInv, NEW k \in Buffer, SyncWrite(k), NEW x, x = At(k),
           RowLast(cache')
    PROVE  /\ x \in Buffer /\ cache.bh[x].blk # None /\ cache.bh[x].dirt
           /\ WellFormed(cache') /\ HeadsPinned(cache')
           /\ \A y \in Buffer \ {x} : cache'.bh[y] = cache.bh[y]
           /\ \/ cache.bh[x].cnt = 0 /\ cache'.bh[x] = Blank
              \/ cache.bh[x].cnt > 0 /\ cache'.bh[x] = cache.bh[x] /\ scan.done >= scan.max
              \/ cache.bh[x].cnt > 0 /\ cache'.bh[x] = [cache.bh[x] EXCEPT !.dirt = FALSE]
           /\ scan' # None => cache'.bh[x] = Blank \/ ~cache'.bh[x].dirt
<1>1. x \in Buffer
  BY ConstFacts DEF At, Buffer
<1>2. cache.bh[x].dirt /\ CacheOK(cache, disk, wrote)
  BY DEF SyncWrite, Dirty, IInv
<1>3. cache.bh[x].blk # None
  BY <1>1, <1>2, UsedHasBlock
<1>4. /\ cache.bh[x] \in Header /\ cache.bh[x].blk \in Block
      /\ IsBitmap(cache.bh[x].blk) => cache.bh[x].cnt > 0
      /\ WellFormed(cache) /\ HeadsPinned(cache)
  BY <1>1, <1>2, <1>3, HolderIs DEF CacheOK
<1> DEFINE freed == IF cache.bh[x].cnt = 0 THEN FreeBuffer(cache, x) ELSE cache
           g == [freed.bh[x] EXCEPT !.dirt = FALSE]
<1>5. IF scan.done >= scan.max
      THEN cache' = freed /\ scan' = None
      ELSE cache' = Put(freed, x, g)
  BY DEF SyncWrite, Put
<1>6. CASE cache.bh[x].cnt = 0
  <2> DEFINE d == FreeBuffer(cache, x)
  <2>1. freed = d
    BY <1>6
  <2>2. ASSUME RowLast(d)
        PROVE  /\ WellFormed(d) /\ HeadsPinned(d) /\ d.bh[x] = Blank
               /\ \A y \in Buffer \ {x} : d.bh[y] = cache.bh[y]
    <3>1. ~IsBitmap(cache.bh[x].blk)
      BY <1>4, <1>6
    <3>2. /\ WellFormed(FreeBuffer(cache, x)) /\ HeadsPinned(FreeBuffer(cache, x))
          /\ \A y \in Buffer : FreeBuffer(cache, x).bh[y] = IF y = x THEN Blank ELSE cache.bh[y]
      BY <1>1, <1>4, <2>2, <3>1, Frees
    <3> QED
      BY <1>1, <3>2
  <2> HIDE DEF d, freed
  <2>3. CASE scan.done >= scan.max
    <3>1. cache' = d /\ scan' = None
      BY <1>5, <2>1, <2>3
    <3> QED
      BY <1>1, <1>2, <1>3, <1>6, <2>2, <3>1
  <2>4. CASE ~(scan.done >= scan.max)
    <3> DEFINE h == [d.bh[x] EXCEPT !.dirt = FALSE]
    <3>1. cache' = Put(d, x, h)
      BY <1>5, <2>1, <2>4
    <3>2. RowLast(cache') => RowLast(d)
      BY <3>1 DEF RowLast, Put
    <3>3. /\ WellFormed(d) /\ HeadsPinned(d) /\ d.bh[x] = Blank
          /\ \A y \in Buffer \ {x} : d.bh[y] = cache.bh[y]
      BY <2>2, <3>2
    <3>4. h = Blank
      BY <3>3, BlankStays
    <3> HIDE DEF h
    <3>5. /\ WellFormed(cache') /\ HeadsPinned(cache') /\ cache'.bh[x] = h
          /\ \A y \in Buffer \ {x} : cache'.bh[y] = d.bh[y]
      BY <1>1, <3>1, <3>3, <3>4, ConstFacts, Puts
    <3> QED
      BY <1>1, <1>2, <1>3, <1>6, <3>3, <3>4, <3>5
  <2> QED
    BY <2>3, <2>4
<1>7. CASE cache.bh[x].cnt # 0
  <2>1. freed = cache /\ cache.bh[x].cnt > 0
    BY <1>4, <1>7 DEF Header
  <2> HIDE DEF freed
  <2>2. CASE scan.done >= scan.max
    BY <1>1, <1>2, <1>3, <1>4, <1>5, <2>1, <2>2
  <2>3. CASE ~(scan.done >= scan.max)
    <3> DEFINE h == [cache.bh[x] EXCEPT !.dirt = FALSE]
    <3>1. cache' = Put(cache, x, h)
      BY <1>5, <2>1, <2>3
    <3>2. h \in Header /\ h.blk = cache.bh[x].blk /\ ~h.dirt
      BY <1>4 DEF Header
    <3> HIDE DEF h
    <3>3. /\ WellFormed(cache') /\ HeadsPinned(cache') /\ cache'.bh[x] = h
          /\ \A y \in Buffer \ {x} : cache'.bh[y] = cache.bh[y]
      BY <1>1, <1>4, <3>1, <3>2, Puts
    <3> QED
      BY <1>1, <1>2, <1>3, <2>1, <3>2, <3>3 DEF h
  <2> QED
    BY <2>2, <2>3
<1> QED
  BY <1>6, <1>7

LEMMA SyncWriteOK ==
    ASSUME IInv, NEW k \in Buffer, SyncWrite(k), RowLast(cache')
    PROVE  IInv'
<1> DEFINE x == At(k)
           h == cache.bh[x]
           b == h.blk
<1>1. /\ x \in Buffer /\ b # None /\ h.dirt
      /\ WellFormed(cache') /\ HeadsPinned(cache')
      /\ \A y \in Buffer \ {x} : cache'.bh[y] = cache.bh[y]
      /\ \/ h.cnt = 0 /\ cache'.bh[x] = Blank
         \/ h.cnt > 0 /\ cache'.bh[x] = h /\ scan.done >= scan.max
         \/ h.cnt > 0 /\ cache'.bh[x] = [h EXCEPT !.dirt = FALSE]
      /\ scan' # None => cache'.bh[x] = Blank \/ ~cache'.bh[x].dirt
  BY Written
<1>2. CacheOK(cache, disk, wrote)
  BY DEF IInv
<1>3. /\ h \in Header /\ b \in Block /\ h.valid /\ h.data = wrote[b]
      /\ \A y \in Buffer \ {x} : cache.bh[y].blk # b
      /\ IsBitmap(b) => h.cnt > 0
  BY <1>1, <1>2, HolderIs
<1>4. /\ disk' = [disk EXCEPT ![b] = h.data] /\ wrote' = wrote /\ call' = call /\ scan # None
  BY DEF SyncWrite
<1>5. /\ scan' # None => /\ ~(scan.done >= scan.max)
                         /\ scan' = [scan EXCEPT !.at = k + 1, !.done = scan.done + 1]
      /\ k \in scan.at .. NrBuffers
      /\ \A j \in scan.at .. k - 1 : ~Dirty(j)
  BY DEF SyncWrite
<1>6. cache.bh[x].blk = b
  OBVIOUS
<1> HIDE DEF h, b, x
<1>7. /\ disk' \in [Block -> Data] /\ disk'[b] = wrote[b]
      /\ \A e \in Block \ {b} : disk'[e] = disk[e]
  BY <1>3, <1>4 DEF IInv
<1>8. /\ Holds(cache'.bh[x], disk', wrote) /\ cache'.bh[x].blk \in {b, None}
      /\ IsBitmap(b) => cache'.bh[x].blk = b /\ cache'.bh[x].cnt > 0
      /\ cache'.bh[x].cnt > 0 => h.cnt > 0 /\ cache'.bh[x].blk = b
  <2>1. CASE h.cnt = 0 /\ cache'.bh[x] = Blank
    BY <1>3, <2>1, BlankIs DEF Holds
  <2>2. CASE h.cnt > 0 /\ cache'.bh[x] = h
    BY <1>1, <1>3, <1>6, <1>7, <2>2 DEF Holds, h
  <2>3. CASE h.cnt > 0 /\ cache'.bh[x] = [h EXCEPT !.dirt = FALSE]
    <3> DEFINE g == [h EXCEPT !.dirt = FALSE]
    <3>1. g.blk = h.blk /\ g.cnt = h.cnt /\ g.valid = h.valid /\ ~g.dirt /\ g.data = h.data
      BY <1>3 DEF Header
    <3> HIDE DEF g
    <3>2. cache'.bh[x] = g /\ h.blk = b
      BY <1>6, <2>3 DEF g, h
    <3> QED
      BY <1>1, <1>3, <1>7, <2>3, <3>1, <3>2 DEF Holds
  <2> QED
    BY <1>1, <2>1, <2>2, <2>3
<1>9. CacheOK(cache', disk', wrote)
  <2>1. Change(cache, disk, wrote, cache', disk', wrote, b, x)
    BY <1>1, <1>3, <1>6, <1>7, <1>8 DEF Change
  <2> QED
    BY <1>1, <1>2, <1>3, <1>7, <2>1, Changes
<1>10. CallOK(cache)'
  <2>1. \A y \in Buffer : cache'.bh[y].cnt > 0 =>
            cache.bh[y].cnt > 0 /\ cache'.bh[y].blk = cache.bh[y].blk
    BY <1>1, <1>6, <1>8 DEF h
  <2> QED
    BY <1>4, <2>1 DEF IInv, CallOK
<1>11. ScanOK(cache)'
  <2> SUFFICES ASSUME scan' # None PROVE ScanOK(cache)'
    BY DEF ScanOK
  <2>1. /\ scan \in [at : 1 .. NrBuffers + 1, done : Nat, max : Nat] /\ scan.done < scan.at
        /\ call = None => /\ scan.max = NrBuffers
                          /\ \A j \in Buffer : j < scan.at =>
                                 ~(cache.bh[At(j)].dirt /\ cache.bh[At(j)].valid)
    BY <1>4 DEF IInv, ScanOK
  <2>2. scan' = [scan EXCEPT !.at = k + 1, !.done = scan.done + 1]
    BY <1>5
  <2>3. /\ scan' \in [at : 1 .. NrBuffers + 1, done : Nat, max : Nat]
        /\ scan'.at = k + 1 /\ scan'.done = scan.done + 1 /\ scan'.max = scan.max
        /\ k \in Nat /\ k >= scan.at
    <3>1. k + 1 \in 1 .. NrBuffers + 1 /\ scan.done + 1 \in Nat /\ k \in Nat /\ k >= scan.at
      BY <1>5, <2>1, ConstFacts
    <3> QED
      BY <2>1, <2>2, <3>1
  <2>4. ASSUME call = None, NEW j \in Buffer, j < k + 1
        PROVE  ~(cache'.bh[At(j)].dirt /\ cache'.bh[At(j)].valid)
    <3>1. At(j) \in Buffer
      BY ConstFacts DEF At, Buffer
    <3>2. CASE At(j) = x
      BY <1>1, <3>2, BlankIs
    <3>3. CASE At(j) # x
      <4>1. cache'.bh[At(j)] = cache.bh[At(j)]
        BY <1>1, <3>1, <3>3
      <4>2. j # k
        BY <3>3 DEF x
      <4>3. CASE j < scan.at
        BY <2>1, <2>4, <4>1, <4>3
      <4>4. CASE scan.at <= j
        <5>1. j \in scan.at .. k - 1
          BY <2>1, <2>3, <2>4, <4>2, <4>4, ConstFacts
        <5> QED
          BY <1>5, <4>1, <5>1 DEF Dirty
      <4> QED
        BY <2>1, <4>3, <4>4, ConstFacts
    <3> QED
      BY <3>2, <3>3
  <2>5. scan'.done < scan'.at
    BY <2>1, <2>3
  <2> QED
    BY <1>4, <2>1, <2>3, <2>4, <2>5 DEF ScanOK
<1> QED
  BY <1>4, <1>7, <1>9, <1>10, <1>11 DEF IInv
(* A step keeps the invariant, unless it clears a row that is still needed. *)
LEMMA NextOK ==
    ASSUME IInv, [Next]_vars, RowLast(cache')
    PROVE  IInv'
<1>1. CASE PowerLoss
  BY <1>1, PowerLossOK
<1>2. CASE MakeRoom \/ SyncEnd \/ Sync \/ (\E op \in Op, b \in Block : Call(op, b)) \/ UNCHANGED vars
  BY <1>2, CallsOK
<1>3. ASSUME NEW k \in Buffer, SyncWrite(k) PROVE IInv'
  BY <1>3, SyncWriteOK
<1>4. ASSUME NEW b \in Block, ReadBlock(b) PROVE IInv'
  BY <1>4, ReadBlockOK
<1>5. ASSUME NEW b \in Block, NewBlock(b) PROVE IInv'
  BY <1>5, NewBlockOK
<1>6. ASSUME NEW b \in Block, FreeBlock(b) PROVE IInv'
  BY <1>6, FreeBlockOK
<1>7. ASSUME NEW x \in Buffer, Release(x) PROVE IInv'
  BY <1>7, ReleaseOK
<1>8. ASSUME NEW x \in Buffer, SyncBmap(x) PROVE IInv'
  BY <1>8, SyncBmapOK
<1>9. ASSUME NEW x \in Buffer, NEW d \in Data, Modify(x, d) PROVE IInv'
  BY <1>9, ModifyOK
<1> QED
  BY <1>1, <1>2, <1>3, <1>4, <1>5, <1>6, <1>7, <1>8, <1>9 DEF Next, Step

-----------------------------------------------------------------------------
(* What follows from the invariant. *)

LEMMA TypeFollows == IInv => TypeOK
<1> SUFFICES ASSUME IInv PROVE TypeOK
  OBVIOUS
<1>1. cache \in Caches
  BY DEF IInv, CacheOK, WellFormed
<1>2. DOMAIN cache.hash = Rows
  BY <1>1 DEF Caches
<1>3. scan # None => scan.at \in 1 .. NrBuffers + 1 /\ scan.done \in 0 .. NrBuffers
  BY ConstFacts DEF IInv, ScanOK
<1> QED
  BY <1>1, <1>2, <1>3 DEF TypeOK, Caches, Header, IInv, CallOK

LEMMA FoundFollows == IInv => InUseIsFound
<1> SUFFICES ASSUME IInv, NEW x \in Buffer, Used(x) \/ cache.bh[x].dirt
             PROVE  Found(cache, cache.bh[x].blk) = {x}
  BY DEF InUseIsFound
<1>1. CacheOK(cache, disk, wrote) /\ WellFormed(cache)
  BY DEF IInv, CacheOK
<1>2. cache.bh[x].blk # None
  BY <1>1, UsedHasBlock DEF Used
<1>3. cache.bh[x].blk \in Block /\ \A y \in Buffer \ {x} : cache.bh[y].blk # cache.bh[x].blk
  BY <1>1, <1>2, HolderIs
<1>4. Found(cache, cache.bh[x].blk) = {y \in Buffer : cache.bh[y].blk = cache.bh[x].blk}
  BY <1>1, <1>3, FindsTheBuffer
<1> QED
  BY <1>3, <1>4

LEMMA ReadsFollows == IInv => ReadsWhatWasWritten
<1> SUFFICES ASSUME IInv, NEW b \in Block
             PROVE  LET holders == {x \in Found(cache, b) : cache.bh[x].valid}
                    IN  IF holders = {} THEN disk[b] = wrote[b]
                        ELSE \A x \in holders : cache.bh[x].data = wrote[b]
  BY DEF ReadsWhatWasWritten
<1>1. CacheOK(cache, disk, wrote) /\ WellFormed(cache) /\ b # None
  BY ConstFacts DEF IInv, CacheOK
<1>2. Found(cache, b) = {x \in Buffer : cache.bh[x].blk = b}
  BY <1>1, FindsTheBuffer
<1>3. \A x \in Buffer : cache.bh[x].blk = b => cache.bh[x].valid /\ cache.bh[x].data = wrote[b]
  BY <1>1, HolderIs
<1>4. (\A x \in Buffer : cache.bh[x].blk # b) => disk[b] = wrote[b]
  BY <1>1 DEF CacheOK, Stored
<1> QED
  BY <1>2, <1>3, <1>4

LEMMA LeaksFollows == IInv => NoBufferLeaks
<1> SUFFICES ASSUME IInv, NEW x \in Buffer
             PROVE  Cardinality({i \in DOMAIN cache.free : cache.free[i] = x}) =
                        (IF Used(x) \/ (cache.bh[x].dirt /\ cache.bh[x].valid) THEN 0 ELSE 1)
  BY DEF NoBufferLeaks
<1>1. CacheOK(cache, disk, wrote) /\ FreeList(cache)
  BY DEF IInv, CacheOK, WellFormed
<1> DEFINE S == {i \in DOMAIN cache.free : cache.free[i] = x}
<1>2. CASE cache.bh[x].blk = None
  <2>1. ~Used(x) /\ ~cache.bh[x].dirt
    <3>1. cache.bh[x] = Blank
      BY <1>1, <1>2 DEF CacheOK, Stored, Holds
    <3> QED
      BY <3>1, BlankIs DEF Used
  <2>2. PICK i \in DOMAIN cache.free : cache.free[i] = x
    BY <1>1, <1>2 DEF FreeList
  <2>3. S = {i}
    BY <1>1, <2>2 DEF FreeList
  <2> QED
    BY <2>1, <2>3, FS_Singleton
<1>3. CASE cache.bh[x].blk # None
  <2>1. Used(x) \/ (cache.bh[x].dirt /\ cache.bh[x].valid)
    BY <1>1, <1>3, HolderIs DEF Used
  <2>2. S = {}
    BY <1>1, <1>3 DEF FreeList
  <2> QED
    BY <2>1, <2>2, FS_EmptySet
<1> QED
  BY <1>2, <1>3

\* sync_blks comes to every buffer.
LEMMA AtReaches ==
    ASSUME NEW x \in Buffer
    PROVE  \E k \in Buffer : At(k) = x
<1>1. NrBuffers \in Nat /\ x \in 1 .. NrBuffers
  BY ConstFacts DEF Buffer
<1>2. CASE 2 * x - 1 <= NrBuffers
  <2>1. 2 * x - 1 \in Buffer /\ (2 * x - 1) % 2 = 1 /\ ((2 * x - 1) + 1) \div 2 = x
    BY <1>1, <1>2 DEF Buffer
  <2> QED
    BY <2>1 DEF At
<1>3. CASE 2 * x - 1 > NrBuffers
  <2> DEFINE k == 2 * (NrBuffers + 1 - x)
  <2>1. k \in Buffer /\ k % 2 = 0 /\ k \div 2 = NrBuffers + 1 - x
    BY <1>1, <1>3 DEF Buffer
  <2>2. At(k) = x
    BY <1>1, <2>1 DEF At
  <2> QED
    BY <2>1, <2>2
<1> QED
  BY <1>1, <1>2, <1>3

LEMMA SyncFollows ==
    ASSUME IInv, SyncEnd, call = None, NEW x \in Buffer, cache.bh[x].valid
    PROVE  disk[cache.bh[x].blk] = cache.bh[x].data
<1>1. CacheOK(cache, disk, wrote)
  BY DEF IInv
<1>2. PICK k \in Buffer : At(k) = x
  BY AtReaches
<1>3. scan # None /\ \A j \in scan.at .. NrBuffers : ~Dirty(j)
  BY DEF SyncEnd
<1>4. /\ scan \in [at : 1 .. NrBuffers + 1, done : Nat, max : Nat]
      /\ \A j \in Buffer : j < scan.at => ~(cache.bh[At(j)].dirt /\ cache.bh[At(j)].valid)
  BY <1>3 DEF IInv, ScanOK
<1>5. ~cache.bh[x].dirt
  <2>1. CASE k < scan.at
    BY <1>2, <1>4, <2>1
  <2>2. CASE scan.at <= k
    <3>1. k \in scan.at .. NrBuffers
      BY <1>4, <2>2, ConstFacts DEF Buffer
    <3> QED
      BY <1>2, <1>3, <3>1 DEF Dirty
  <2> QED
    BY <1>4, <2>1, <2>2, ConstFacts
<1> QED
  BY <1>1, <1>5, UsedHasBlock, HolderIs
-----------------------------------------------------------------------------
(* The theorems. *)

(* Until a row is cut the invariant holds. *)
CutOrIInv == cut \in BOOLEAN /\ (~cut => IInv)

LEMMA InitCut == Init => CutOrIInv
BY InitOK DEF Init, CutOrIInv

LEMMA NextCut == CutOrIInv /\ [Next /\ Watch]_<<vars, cut>> => CutOrIInv'
<1> SUFFICES ASSUME CutOrIInv, [Next /\ Watch]_<<vars, cut>> PROVE CutOrIInv'
  OBVIOUS
<1>1. cut' \in BOOLEAN /\ (~cut' => ~cut)
  BY DEF CutOrIInv, Watch
<1>2. ASSUME ~cut', Next, Watch PROVE IInv'
  <2>1. RowLast(cache')
    BY <1>2 DEF Watch, RowClearedWhenLast, RowLast
  <2> QED
    BY <1>1, <1>2, <2>1, NextOK DEF CutOrIInv
<1>3. ASSUME ~cut', UNCHANGED <<vars, cut>> PROVE IInv'
  <2>1. IInv /\ UNCHANGED vars
    BY <1>1, <1>3 DEF CutOrIInv
  <2> QED
    BY <2>1, CallsOK
<1> QED
  BY <1>1, <1>2, <1>3 DEF CutOrIInv

LEMMA Invariance == Spec => []CutOrIInv
BY InitCut, NextCut, PTL DEF Spec

(* Whatever FS calls, until free_buffer first clears a row that has other    *)
(* buffers (buffer.c:117-118): no count goes below zero and sync_blks writes *)
(* no buffer twice in a scan.                                               *)
THEOREM CacheStaysTyped == Spec => []TypeOK
<1>1. CutOrIInv => TypeOK
  BY TypeFollows DEF CutOrIInv, TypeOK
<1> QED
  BY <1>1, Invariance, PTL

(* Until then find_buffer finds every buffer that is used or must be written *)
(* back, and no second one for its block.                                   *)
THEOREM BuffersStayFound == Spec => []InUseIsFound
<1>1. CutOrIInv => InUseIsFound
  BY FoundFollows DEF CutOrIInv, InUseIsFound
<1> QED
  BY <1>1, Invariance, PTL

(* Until then get_buffer loses no buffer and gives none out twice.          *)
THEOREM BuffersNeverLeak == Spec => []NoBufferLeaks
<1>1. CutOrIInv => NoBufferLeaks
  BY LeaksFollows DEF CutOrIInv, NoBufferLeaks
<1> QED
  BY <1>1, Invariance, PTL

(* Until then bread returns what FS has last put into the block, after any   *)
(* calls, evictions and power losses: a cut row is the one way to lose it.  *)
THEOREM CacheIsCoherent == Spec => []ReadsWhatWasWritten
<1>1. CutOrIInv => ReadsWhatWasWritten
  BY ReadsFollows DEF CutOrIInv, ReadsWhatWasWritten
<1> QED
  BY <1>1, Invariance, PTL

(* Until then a full sync_blks leaves nothing unwritten. *)
THEOREM FullSyncReachesDisk == Spec => SyncReachesDisk
<1>1. CutOrIInv => [(~cut /\ SyncEnd /\ call = None) =>
                  \A x \in Buffer : cache.bh[x].valid => disk[cache.bh[x].blk] = cache.bh[x].data]_vars
  BY SyncFollows DEF CutOrIInv
<1> QED
  BY <1>1, Invariance, PTL DEF SyncReachesDisk
=============================================================================
