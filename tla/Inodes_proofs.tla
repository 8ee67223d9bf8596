---------------------------- MODULE Inodes_proofs ----------------------------
(***************************************************************************)
(* Theorems about the operators of Inodes, for bitmaps and inode tables of  *)
(* any size.                                                                *)
(***************************************************************************)
EXTENDS Inodes, FiniteSetTheorems, WellFoundedInduction, TLAPS

(* Some number of a set of natural numbers is the least. *)
LEMMA LeastExists ==
    ASSUME NEW S \in SUBSET Nat, S # {}
    PROVE  \E n \in S : \A k \in S : n <= k
<1>1. IsWellFoundedOn(OpToRel(<, Nat), Nat)
  BY NatLessThanWellFounded
<1>2. PICK n \in S : \A k \in S : ~(<<k, n>> \in OpToRel(<, Nat))
  BY <1>1, WFMin
<1>3. \A k \in S : ~(k < n)
  BY <1>2 DEF OpToRel
<1> QED
  BY <1>3

-----------------------------------------------------------------------------
(* Bitmaps. *)

(* find_first_zero gives a bit of the map that is clear, or -1: the crash of *)
(* setb in new_block and new_inode never happens (bitmap.c:95, 136).         *)
THEOREM FirstZeroIsClear ==
    ASSUME NEW used, NEW bits \in Nat
    PROVE  FirstZero(used, bits) \in ((0 .. bits - 1) \ used) \cup {-1}
<1> DEFINE byte(n) == {m \in 0 .. bits - 1 : m \div ByteBits = n \div ByteBits}
           good == {n \in (0 .. bits - 1) \ used :
                       \A m \in byte(n) : m \in used <=> m < n}
<1>1. good \subseteq (0 .. bits - 1) \ used /\ good \in SUBSET Nat
  OBVIOUS
<1>2. FirstZero(used, bits) = IF good = {} THEN -1
                              ELSE CHOOSE n \in good : \A k \in good : n <= k
  BY DEF FirstZero
<1> HIDE DEF good
<1>3. CASE good = {}
  BY <1>2, <1>3
<1>4. CASE good # {}
  <2>1. \E n \in good : \A k \in good : n <= k
    BY <1>1, <1>4, LeastExists
  <2>2. FirstZero(used, bits) \in good
    BY <1>2, <1>4, <2>1
  <2> QED
    BY <1>1, <2>2
<1> QED
  BY <1>3, <1>4

(* A block that new_block returns is a block of the device nobody had; it    *)
(* alone is marked.  If it returns 0, at most a bit that stands for no block *)
(* is (bitmap.c:80-106).                                                    *)
THEOREM NewBlockWasFree ==
    ASSUME NEW f, f.zmap \in SUBSET Int, DOMAIN f = {"imap", "zmap", "table", "dev", "body",
                                                     "pinned", "status"}
    PROVE  LET b == NewBlockNr(f)
           IN  /\ b # 0 => /\ b \in Blk /\ b - 1 \notin f.zmap
                           /\ NewBlock(f).zmap = f.zmap \cup {b - 1}
               /\ b = 0 => \A c \in Blk : c - 1 \in NewBlock(f).zmap <=> c - 1 \in f.zmap
<1> DEFINE z == FirstZero(f.zmap, ZoneBits)
<1>1. z \in ((0 .. ZoneBits - 1) \ f.zmap) \cup {-1}
  BY FirstZeroIsClear, InodesAssumption
<1>2. NewBlockNr(f) = IF z + 1 \in Blk THEN z + 1 ELSE 0
  BY DEF NewBlockNr
<1>3. NewBlock(f).zmap = f.zmap \cup ({z} \ {-1})
  BY DEF NewBlock, Marked
<1> HIDE DEF z
<1>4. ASSUME z + 1 \in Blk
      PROVE  z \in Int /\ z # -1 /\ (z + 1) - 1 = z /\ z \notin f.zmap /\ z + 1 # 0
  BY <1>1, <1>4, InodesAssumption DEF Blk
<1>5. ASSUME z + 1 \notin Blk, NEW c \in Blk
      PROVE  c - 1 # z
  BY <1>1, <1>5, InodesAssumption DEF Blk
<1>6. CASE z + 1 \in Blk
  <2>1. NewBlockNr(f) = z + 1 /\ {z} \ {-1} = {z}
    BY <1>2, <1>4, <1>6
  <2> QED
    BY <1>3, <1>4, <1>6, <2>1
<1>7. CASE z + 1 \notin Blk
  <2>1. NewBlockNr(f) = 0
    BY <1>2, <1>7
  <2> QED
    BY <1>3, <1>5, <1>7, <2>1
<1> QED
  BY <1>6, <1>7

(* What free_block gets back is what new_block took, unless the block's      *)
(* buffer is in use (bitmap.c:49-73).                                       *)
THEOREM FreeUndoesNew ==
    ASSUME NEW f, f.zmap \in SUBSET Int, f.pinned = {}, f.status = "ok",
           DOMAIN f = {"imap", "zmap", "table", "dev", "body", "pinned", "status"},
           NewBlockNr(f) # 0
    PROVE  LET g == FreeBlock(NewBlock(f), NewBlockNr(f))
           IN  g.zmap = f.zmap /\ g.status = "ok"
<1> DEFINE b == NewBlockNr(f)
           h == NewBlock(f)
<1>1. b \in Blk /\ b - 1 \notin f.zmap /\ h.zmap = f.zmap \cup {b - 1}
  BY NewBlockWasFree
<1>2. h.pinned = {} /\ h.status = "ok" /\ {"zmap", "status"} \subseteq DOMAIN h
  BY DEF NewBlock, Marked
<1> HIDE DEF b, h
<1>3. FreeBlock(h, b) = [h EXCEPT !.zmap = @ \ {b - 1}]
  BY <1>1, <1>2 DEF FreeBlock
<1>4. FreeBlock(h, b).zmap = h.zmap \ {b - 1} /\ FreeBlock(h, b).status = "ok"
  BY <1>2, <1>3
<1>5. (f.zmap \cup {b - 1}) \ {b - 1} = f.zmap
  BY <1>1
<1> QED
  BY <1>1, <1>4, <1>5 DEF b, h

(* new_inode gives out an inode nobody had, never number 0 while that is     *)
(* marked (bitmap.c:111-151).                                               *)
THEOREM NewInodeWasFree ==
    ASSUME NEW f, 0 \in f.imap, NewInodeNr(f) # 0
    PROVE  NewInodeNr(f) \in Inr \ f.imap
<1>1. FirstZero(f.imap, InodeBits) \in ((0 .. InodeBits - 1) \ f.imap) \cup {-1}
  BY FirstZeroIsClear, InodesAssumption
<1> QED
  BY <1>1, InodesAssumption DEF NewInodeNr, Inr

-----------------------------------------------------------------------------
(* The inode table. *)

(* The search from both ends looks at every entry once (inode.c:12-31).      *)
THEOREM TableSearchedOnce ==
    /\ \A s \in Slot : Rank(s) \in Slot
    /\ \A s, t \in Slot : Rank(s) = Rank(t) => s = t
<1>1. NrInode \in Nat \ {0} /\ NrInode % 2 = 0
  BY InodesAssumption
<1>2. PICK h \in Nat : NrInode = 2 * h
  <2>1. NrInode \div 2 \in Nat /\ NrInode = 2 * (NrInode \div 2) + (NrInode % 2)
    BY <1>1
  <2> QED
    BY <1>1, <2>1
<1> QED
  BY <1>2 DEF Rank, Slot

(* So the entry get_empty_inode finds is one of those it looks for.          *)
THEOREM FirstIsFound ==
    ASSUME NEW S \in SUBSET Slot, S # {}
    PROVE  First(S) \in S
<1> DEFINE R == {Rank(s) : s \in S}
<1>1. R \in SUBSET Nat /\ R # {}
  <2>1. \A s \in S : Rank(s) \in Nat
    BY TableSearchedOnce, InodesAssumption DEF Slot
  <2> QED
    BY <2>1
<1>2. PICK n \in R : \A k \in R : n <= k
  BY <1>1, LeastExists
<1>3. PICK s \in S : n = Rank(s)
  OBVIOUS
<1>4. \A t \in S : Rank(s) <= Rank(t)
  BY <1>2, <1>3
<1> QED
  BY <1>4 DEF First
-----------------------------------------------------------------------------
(* The places of a file's blocks: the zones of its inode, and the numbers in *)
(* the blocks that Ind, Dind and the numbers in Dind lead to.  Part counts    *)
(* them from 0 to LastPart, in the order clear_iblks frees them.             *)

Nr     == 0 .. NrZones - 1
Low    == 0 .. PerInd - 1
Places == 0 .. LastPart

ZonePlace(z) == IF z = Ind THEN Direct + PerInd ELSE IF z = Dind THEN LastPart ELSE z
IndPlace(i)  == Direct + i
DindPlace(a) == Direct + (PerInd + 1) + (a * (PerInd + 1) + PerInd)
BelowPlace(a, i) == Direct + (PerInd + 1) + (a * (PerInd + 1) + i)

\* The constants, as the proofs use them.
LEMMA Sizes ==
    /\ Direct \in Nat \ {0} /\ PerInd \in Nat \ {0} /\ NrZones \in Nat \ {0}
    /\ BlkSize \in Nat \ {0} /\ ZoneBits \in Nat /\ ZoneBits >= NrZones - 1
    /\ NrInode \in Nat \ {0} /\ InodeBits \in Nat \ {0} /\ PerInd <= BlkSize
    /\ Ind = Direct /\ Dind = Direct + 1 /\ Zone = 0 .. Direct + 1
    /\ 0 \in Nr /\ Blk = Nr \ {0} /\ Nr \subseteq Nat
BY InodesAssumption DEF Ind, Dind, Zone, Nr, Blk

(* Division with a remainder is unique. *)
LEMMA Quotient ==
    ASSUME NEW a \in Nat, NEW q \in Nat \ {0}, NEW i \in 0 .. q - 1
    PROVE  (a * q + i) \div q = a /\ (a * q + i) % q = i
<1> DEFINE d == (a * q + i) \div q
           m == (a * q + i) % q
<1>1. a * q \in Nat /\ a * q + i \in Nat
  OBVIOUS
<1>2. d \in Int /\ m \in 0 .. q - 1 /\ a * q + i = q * d + m
  BY <1>1
<1> HIDE DEF d, m
<1>3. q * (d - a) = i - m
  BY <1>2
<1>4. d - a < 1
  <2>1. SUFFICES ASSUME d - a >= 1 PROVE FALSE
    BY <1>2
  <2> QED
    BY <1>2, <1>3, <2>1
<1>5. d - a > -1
  <2>1. SUFFICES ASSUME d - a <= -1 PROVE FALSE
    BY <1>2
  <2> QED
    BY <1>2, <1>3, <2>1
<1>6. d = a
  BY <1>2, <1>4, <1>5
<1>7. m = i
  BY <1>2, <1>6
<1> QED
  BY <1>6, <1>7 DEF d, m

\* The quotient and the remainder of two numbers.
LEMMA Divided ==
    ASSUME NEW n \in Nat, NEW q \in Nat \ {0}
    PROVE  n \div q \in Nat /\ n % q \in 0 .. q - 1 /\ n = (n \div q) * q + (n % q)
<1>1. n \div q \in Int /\ n % q \in 0 .. q - 1 /\ n = q * (n \div q) + (n % q)
  OBVIOUS
<1>2. n \div q >= 0
  <2>1. SUFFICES ASSUME n \div q <= -1 PROVE FALSE
    BY <1>1
  <2> QED
    BY <1>1, <2>1
<1> QED
  BY <1>1, <1>2

(* A number below n * q divided by q is below n, and the other way round.    *)
LEMMA DividedBelow ==
    ASSUME NEW n \in Nat, NEW q \in Nat \ {0}
    PROVE  /\ \A m \in 0 .. n * q - 1 : m \div q \in 0 .. n - 1
           /\ \A a \in 0 .. n - 1, i \in 0 .. q - 1 : a * q + i \in 0 .. n * q - 1
<1>1. ASSUME NEW m \in 0 .. n * q - 1
      PROVE  m \div q \in 0 .. n - 1
  <2>1. n * q \in Nat /\ m \in Nat
    OBVIOUS
  <2>2. m \div q \in Nat /\ m % q \in 0 .. q - 1 /\ m = (m \div q) * q + (m % q)
    BY <2>1, Divided
  <2> DEFINE d == m \div q
  <2>3. SUFFICES ASSUME d >= n PROVE FALSE
    BY <2>2
  <2> HIDE DEF d
  <2>4. d * q >= n * q
    BY <2>2, <2>3 DEF d
  <2>5. d * q \in Nat /\ m >= d * q /\ m < n * q
    BY <2>1, <2>2 DEF d
  <2> QED
    BY <2>1, <2>4, <2>5
<1>2. ASSUME NEW a \in 0 .. n - 1, NEW i \in 0 .. q - 1
      PROVE  a * q + i \in 0 .. n * q - 1
  <2>1. a * q \in Nat /\ (a + 1) * q \in Nat /\ (a + 1) * q = a * q + q /\ n * q \in Nat
    OBVIOUS
  <2>2. (a + 1) * q <= n * q
    OBVIOUS
  <2> QED
    BY <2>1, <2>2
<1> QED
  BY <1>1, <1>2

\* The places are the numbers from 0 to LastPart.
LEMMA PlaceIsNumber ==
    /\ LastPart = Direct + (PerInd + 1) + PerInd * (PerInd + 1) /\ LastPart \in Nat
    /\ \A z \in Zone : ZonePlace(z) \in Places
    /\ \A i \in Low : IndPlace(i) \in Places /\ DindPlace(i) \in Places
    /\ \A a, i \in Low : BelowPlace(a, i) \in Places
<1> DEFINE q == PerInd + 1
           m == PerInd * q
<1>1. q \in Nat \ {0} /\ PerInd \in Nat \ {0} /\ Direct \in Nat \ {0}
  BY Sizes
<1>2. m \in Nat /\ LastPart = Direct + q + m
  BY <1>1 DEF LastPart
<1>3. \A a \in 0 .. PerInd - 1, i \in 0 .. q - 1 : a * q + i \in 0 .. m - 1
  BY <1>1, DividedBelow
<1>4. \A i \in Low : i \in 0 .. q - 1 /\ PerInd \in 0 .. q - 1
  BY <1>1 DEF Low
<1> HIDE DEF q, m
<1>5. \A z \in Zone : ZonePlace(z) \in Places
  BY <1>1, <1>2, Sizes DEF ZonePlace, Places, q
<1>6. \A i \in Low : IndPlace(i) \in Places
  BY <1>1, <1>2 DEF IndPlace, Places, Low, q
<1>7. ASSUME NEW a \in Low, NEW i \in 0 .. q - 1
      PROVE  Direct + q + (a * q + i) \in 0 .. LastPart
  <2>1. a * q + i \in 0 .. m - 1
    BY <1>3, <1>7 DEF Low
  <2> QED
    BY <1>1, <1>2, <2>1
<1>8. \A a \in Low : DindPlace(a) \in Places
  BY <1>4, <1>7 DEF DindPlace, Places, q
<1>9. \A a, i \in Low : BelowPlace(a, i) \in Places
  BY <1>4, <1>7 DEF BelowPlace, Places, q
<1> QED
  BY <1>1, <1>2, <1>5, <1>6, <1>8, <1>9 DEF q, m

(* Part at a place below Dind. *)
LEMMA PartDeep ==
    ASSUME NEW f, NEW zone, NEW a \in Low, NEW i \in 0 .. PerInd
    PROVE  Part(f, zone, Direct + (PerInd + 1) + (a * (PerInd + 1) + i))
              = IndPart(f, Ptr(f, zone[Dind], a), i)
<1> DEFINE q == PerInd + 1
           e == a * q + i
           x == Direct + q + e
<1>1. q \in Nat \ {0} /\ PerInd \in Nat \ {0} /\ Direct \in Nat \ {0} /\ a \in Nat
      /\ i \in 0 .. q - 1 /\ a \in 0 .. PerInd - 1
  BY Sizes DEF Low
<1>2. e \in 0 .. PerInd * q - 1
  BY <1>1, DividedBelow
<1>3. e \div q = a /\ e % q = i
  BY <1>1, Quotient
<1>4. PerInd * q \in Nat
  BY <1>1
<1> HIDE DEF e
<1>5. ~(x < Direct) /\ x - Direct \notin 0 .. PerInd /\ x - Direct - PerInd - 1 = e /\ e # PerInd * q
  BY <1>1, <1>2, <1>4
<1>6. Part(f, zone, x) = DindPart(f, zone[Dind], e)
  BY <1>5 DEF Part
<1>7. DindPart(f, zone[Dind], e) = IndPart(f, Ptr(f, zone[Dind], e \div q), e % q)
  BY <1>5 DEF DindPart
<1> QED
  BY <1>3, <1>6, <1>7 DEF e

(* What the places have. *)
LEMMA PartIs ==
    ASSUME NEW f, NEW zone
    PROVE  /\ \A z \in Zone : Part(f, zone, ZonePlace(z)) = zone[z]
           /\ \A i \in Low : Part(f, zone, IndPlace(i)) = Ptr(f, zone[Ind], i)
           /\ \A a \in Low : Part(f, zone, DindPlace(a)) = Ptr(f, zone[Dind], a)
           /\ \A a, i \in Low : Part(f, zone, BelowPlace(a, i)) = Ptr(f, Ptr(f, zone[Dind], a), i)
<1>1. \A z \in 0 .. Direct - 1 : ZonePlace(z) = z /\ Part(f, zone, z) = zone[z]
  BY Sizes DEF ZonePlace, Part
<1>2. Part(f, zone, Direct + PerInd) = zone[Ind]
  <2> DEFINE x == Direct + PerInd
  <2>1. ~(x < Direct) /\ x - Direct = PerInd /\ PerInd \in 0 .. PerInd
    BY Sizes
  <2> HIDE DEF x
  <2>2. Part(f, zone, x) = IndPart(f, zone[Ind], PerInd)
    BY <2>1 DEF Part
  <2> QED
    BY <2>2 DEF x, IndPart
<1>3. Part(f, zone, LastPart) = zone[Dind]
  <2> DEFINE m == PerInd * (PerInd + 1)
  <2>1. m \in Nat /\ LastPart = Direct + (PerInd + 1) + m
    BY Sizes DEF LastPart
  <2> HIDE DEF m
  <2>2. ~(LastPart < Direct) /\ LastPart - Direct \notin 0 .. PerInd
        /\ LastPart - Direct - PerInd - 1 = m
    BY <2>1, Sizes
  <2> QED
    BY <2>2 DEF Part, DindPart, m
<1>4. \A z \in Zone : Part(f, zone, ZonePlace(z)) = zone[z]
  <2> TAKE z \in Zone
  <2>1. z \in 0 .. Direct - 1 \/ z = Ind \/ z = Dind
    BY Sizes
  <2>2. Ind # Dind
    BY Sizes
  <2> QED
    BY <1>1, <1>2, <1>3, <2>1, <2>2 DEF ZonePlace
<1>5. ASSUME NEW i \in Low
      PROVE  Part(f, zone, IndPlace(i)) = Ptr(f, zone[Ind], i)
  <2> DEFINE x == Direct + i
  <2>1. ~(x < Direct) /\ x - Direct = i /\ i \in 0 .. PerInd /\ i # PerInd
    BY Sizes DEF Low
  <2> HIDE DEF x
  <2>2. Part(f, zone, x) = IndPart(f, zone[Ind], i)
    BY <2>1 DEF Part
  <2> QED
    BY <2>1, <2>2 DEF x, IndPart, IndPlace
<1>6. PerInd \in 0 .. PerInd /\ \A i \in Low : i \in 0 .. PerInd /\ i # PerInd
  BY Sizes DEF Low
<1>7. \A a \in Low : Part(f, zone, DindPlace(a)) = Ptr(f, zone[Dind], a)
  BY <1>6, PartDeep DEF DindPlace, IndPart
<1>8. \A a, i \in Low : Part(f, zone, BelowPlace(a, i)) = Ptr(f, Ptr(f, zone[Dind], a), i)
  BY <1>6, PartDeep DEF BelowPlace, IndPart
<1> QED
  BY <1>4, <1>5, <1>7, <1>8

\* What is at each kind of place.
LEMMA PlaceKinds ==
    ASSUME NEW f, NEW zone
    PROVE  /\ \A z \in Zone : ZonePlace(z) \in Places /\ Part(f, zone, ZonePlace(z)) = zone[z]
           /\ \A i \in Low : /\ IndPlace(i) \in Places
                             /\ Part(f, zone, IndPlace(i)) = Ptr(f, zone[Ind], i)
           /\ \A a \in Low : /\ DindPlace(a) \in Places
                             /\ Part(f, zone, DindPlace(a)) = Ptr(f, zone[Dind], a)
           /\ \A a, i \in Low : /\ BelowPlace(a, i) \in Places
                                /\ Part(f, zone, BelowPlace(a, i)) = Ptr(f, Ptr(f, zone[Dind], a), i)
<1>1. \A z \in Zone : ZonePlace(z) \in Places
  BY PlaceIsNumber
<1>2. \A i \in Low : IndPlace(i) \in Places /\ DindPlace(i) \in Places
  BY PlaceIsNumber
<1>3. \A a, i \in Low : BelowPlace(a, i) \in Places
  BY PlaceIsNumber
<1>4. /\ \A z \in Zone : Part(f, zone, ZonePlace(z)) = zone[z]
      /\ \A i \in Low : Part(f, zone, IndPlace(i)) = Ptr(f, zone[Ind], i)
      /\ \A a \in Low : Part(f, zone, DindPlace(a)) = Ptr(f, zone[Dind], a)
      /\ \A a, i \in Low : Part(f, zone, BelowPlace(a, i)) = Ptr(f, Ptr(f, zone[Dind], a), i)
  BY PartIs
<1> QED
  BY <1>1, <1>2, <1>3, <1>4

(* Every place is one of them, *)
LEMMA PlacesCovered ==
    ASSUME NEW x \in Places
    PROVE  \/ \E z \in Zone : x = ZonePlace(z)
           \/ \E i \in Low : x = IndPlace(i)
           \/ \E a \in Low : x = DindPlace(a)
           \/ \E a, i \in Low : x = BelowPlace(a, i)
<1> DEFINE q == PerInd + 1
           m == PerInd * q
           e == x - Direct - q
<1>1. q \in Nat \ {0} /\ PerInd \in Nat \ {0} /\ Direct \in Nat \ {0} /\ m \in Nat
      /\ LastPart = Direct + q + m /\ x \in 0 .. LastPart
  BY Sizes, PlaceIsNumber DEF Places
<1> HIDE DEF m
<1>2. CASE x < Direct
  BY <1>1, <1>2, Sizes DEF ZonePlace
<1>3. CASE x - Direct \in 0 .. PerInd
  <2>1. CASE x - Direct = PerInd
    BY <1>1, <2>1, Sizes DEF ZonePlace
  <2>2. CASE x - Direct # PerInd
    BY <1>1, <1>3, <2>2 DEF IndPlace, Low
  <2> QED
    BY <2>1, <2>2
<1>4. CASE ~(x < Direct) /\ x - Direct \notin 0 .. PerInd
  <2>1. e \in 0 .. m /\ x = Direct + q + e
    BY <1>1, <1>4
  <2>2. CASE e = m
    <3>1. x = LastPart /\ Ind # Dind /\ Dind \in Zone
      BY <1>1, <2>1, <2>2, Sizes
    <3> QED
      BY <3>1 DEF ZonePlace
  <2>3. CASE e # m
    <3> DEFINE a == e \div q
               i == e % q
    <3>1. e \in 0 .. PerInd * q - 1 /\ e \in Nat
      BY <1>1, <2>1, <2>3 DEF m
    <3> HIDE DEF e
    <3>2. a \in 0 .. PerInd - 1 /\ i \in 0 .. q - 1 /\ e = a * q + i
      BY <1>1, <3>1, Divided, DividedBelow
    <3> HIDE DEF a, i
    <3>3. a \in Low /\ x = Direct + q + (a * q + i)
      BY <2>1, <3>2 DEF Low
    <3>4. CASE i = PerInd
      BY <3>3, <3>4 DEF DindPlace
    <3>5. CASE i # PerInd
      <4>1. i \in Low
        BY <1>1, <3>2, <3>5 DEF Low
      <4> QED
        BY <3>3, <4>1 DEF BelowPlace
    <3> QED
      BY <3>4, <3>5
  <2> QED
    BY <2>2, <2>3
<1> QED
  BY <1>2, <1>3, <1>4

(* and no two of them are the same. *)
LEMMA PlacesApart ==
    /\ \A y, z \in Zone : ZonePlace(y) = ZonePlace(z) => y = z
    /\ \A z \in Zone, i \in Low : ZonePlace(z) # IndPlace(i) /\ ZonePlace(z) # DindPlace(i)
    /\ \A z \in Zone : \A a, i \in Low : ZonePlace(z) # BelowPlace(a, i)
    /\ \A i, j \in Low : /\ IndPlace(i) = IndPlace(j) => i = j
                         /\ IndPlace(i) # DindPlace(j)
                         /\ DindPlace(i) = DindPlace(j) => i = j
    /\ \A i, a, j \in Low : IndPlace(i) # BelowPlace(a, j) /\ DindPlace(i) # BelowPlace(a, j)
    /\ \A a, i, b, j \in Low : BelowPlace(a, i) = BelowPlace(b, j) => a = b /\ i = j
<1> DEFINE q == PerInd + 1
           m == PerInd * q
           D(a, i) == a * q + i
<1>1. q \in Nat \ {0} /\ PerInd \in Nat \ {0} /\ Direct \in Nat \ {0} /\ m \in Nat
      /\ LastPart = Direct + q + m
  BY Sizes, PlaceIsNumber
<1>2. PerInd \in 0 .. q - 1 /\ \A i \in Low : i \in 0 .. q - 1 /\ i \in 0 .. PerInd - 1 /\ i # PerInd
  BY <1>1 DEF Low
<1>3. \A a \in Low, i \in 0 .. q - 1 : D(a, i) \in 0 .. m - 1
  BY <1>1, DividedBelow DEF Low
<1>4. ASSUME NEW a \in Low, NEW i \in 0 .. q - 1, NEW b \in Low, NEW j \in 0 .. q - 1,
             D(a, i) = D(b, j)
      PROVE  a = b /\ i = j
  <2>1. a \in Nat /\ b \in Nat
    BY DEF Low
  <2>2. D(a, i) \div q = a /\ D(a, i) % q = i
    BY <1>1, <2>1, Quotient
  <2>3. D(b, j) \div q = b /\ D(b, j) % q = j
    BY <1>1, <2>1, Quotient
  <2> QED
    BY <1>4, <2>2, <2>3
<1>5. \A a, i \in Low : BelowPlace(a, i) = Direct + q + D(a, i)
  BY DEF BelowPlace
<1>6. \A a \in Low : DindPlace(a) = Direct + q + D(a, PerInd)
  BY DEF DindPlace
<1> HIDE DEF D, m
<1>7. \A y \in Zone : \/ y \in 0 .. Direct - 1 /\ ZonePlace(y) = y
                      \/ y = Ind /\ ZonePlace(y) = Direct + PerInd
                      \/ y = Dind /\ ZonePlace(y) = Direct + q + m
  <2> TAKE y \in Zone
  <2>1. (y \in 0 .. Direct - 1 /\ y # Ind /\ y # Dind) \/ y = Ind \/ (y = Dind /\ y # Ind)
    BY Sizes
  <2> QED
    BY <1>1, <2>1 DEF ZonePlace
<1>8. \A a, b \in Low, i, j \in 0 .. q - 1 :
         Direct + q + D(a, i) = Direct + q + D(b, j) => a = b /\ i = j
  BY <1>1, <1>3, <1>4
<1>9. \A y, z \in Zone : ZonePlace(y) = ZonePlace(z) => y = z
  BY <1>1, <1>7
<1>10. \A z \in Zone, i \in Low : ZonePlace(z) # IndPlace(i)
  BY <1>1, <1>7 DEF IndPlace, Low
<1>11. \A z \in Zone, a \in Low, i \in 0 .. q - 1 : ZonePlace(z) # Direct + q + D(a, i)
  <2> TAKE z \in Zone, a \in Low, i \in 0 .. q - 1
  <2>1. D(a, i) \in 0 .. m - 1
    BY <1>3
  <2> QED
    BY <1>1, <1>7, <2>1
<1>12. \A j \in Low, a \in Low, i \in 0 .. q - 1 : IndPlace(j) # Direct + q + D(a, i)
  <2> TAKE j \in Low, a \in Low, i \in 0 .. q - 1
  <2>1. D(a, i) \in 0 .. m - 1
    BY <1>3
  <2> QED
    BY <1>1, <1>2, <2>1 DEF IndPlace
<1>13. \A i, j \in Low : IndPlace(i) = IndPlace(j) => i = j
  BY <1>1 DEF IndPlace, Low
<1>14. \A i, j \in Low : DindPlace(i) = DindPlace(j) => i = j
  BY <1>2, <1>6, <1>8
<1>15. \A i, a, j \in Low : DindPlace(i) # BelowPlace(a, j)
  BY <1>2, <1>5, <1>6, <1>8
<1>16. \A a, i, b, j \in Low : BelowPlace(a, i) = BelowPlace(b, j) => a = b /\ i = j
  BY <1>2, <1>5, <1>8
<1>17. \A z \in Zone, i \in Low : ZonePlace(z) # DindPlace(i)
  BY <1>2, <1>6, <1>11
<1>18. \A z \in Zone : \A a, i \in Low : ZonePlace(z) # BelowPlace(a, i)
  BY <1>2, <1>5, <1>11
<1>19. \A i, j \in Low : IndPlace(i) # DindPlace(j)
  BY <1>2, <1>6, <1>12
<1>20. \A i, a, j \in Low : IndPlace(i) # BelowPlace(a, j)
  BY <1>2, <1>5, <1>12
<1> QED
  BY <1>9, <1>10, <1>13, <1>14, <1>15, <1>16, <1>17, <1>18, <1>19, <1>20
-----------------------------------------------------------------------------
(* A file owns the marked blocks: every one is at one place of its, and what *)
(* is at a place is marked.                                                 *)
Owns(f, zone) ==
    /\ zone \in [Zone -> Nr]
    /\ \A x \in Places : Part(f, zone, x) \in Nr
    /\ \A x, y \in Places : Part(f, zone, x) # 0 /\ Part(f, zone, x) = Part(f, zone, y) => x = y
    /\ \A b \in Blk : b - 1 \in f.zmap <=> \E x \in Places : Part(f, zone, x) = b

(* A file owns blocks next to a set X of others: the marked blocks are X and  *)
(* those of the file, which is Owns when X is empty.                         *)
OwnsIn(f, zone, X) ==
    /\ X \in SUBSET Blk
    /\ zone \in [Zone -> Nr]
    /\ \A x \in Places : Part(f, zone, x) \in Nr \ X
    /\ \A x, y \in Places : Part(f, zone, x) # 0 /\ Part(f, zone, x) = Part(f, zone, y) => x = y
    /\ \A b \in Blk : b - 1 \in f.zmap <=> b \in X \/ \E x \in Places : Part(f, zone, x) = b

LEMMA OwnsAlone ==
    ASSUME NEW f, NEW zone
    PROVE  Owns(f, zone) <=> OwnsIn(f, zone, {})
BY DEF Owns, OwnsIn

\* A file has a block at one place only.
Mapped(f, zone) ==
    /\ zone \in [Zone -> Nr]
    /\ \A x \in Places : Part(f, zone, x) \in Nr
    /\ \A x, y \in Places : Part(f, zone, x) # 0 /\ Part(f, zone, x) = Part(f, zone, y) => x = y

LEMMA OwnsMapped ==
    ASSUME NEW f, NEW zone
    PROVE  /\ Owns(f, zone) => Mapped(f, zone)
           /\ \A X : OwnsIn(f, zone, X) => Mapped(f, zone)
BY DEF Owns, OwnsIn, Mapped

\* A block nobody has, for a file that owns the others.
Fresh(f, zone, X, new) ==
    OwnsIn(f, zone, X) /\ DOMAIN f.body = Blk /\ new \in Blk /\ new - 1 \notin f.zmap

\* The place x of the file now has the block new, the others what they had.
Gains(f, zone, g, zone2, x, new) ==
    \A y \in Places : Part(g, zone2, y) = IF y = x THEN new ELSE Part(f, zone, y)

\* A fresh block is at no place of the file.
LEMMA FreshIsNowhere ==
    ASSUME NEW f, NEW zone, NEW X, NEW new, Fresh(f, zone, X, new)
    PROVE  /\ \A x \in Places : Part(f, zone, x) # new
           /\ new \notin X
           /\ new # 0 /\ new \in Nr /\ zone \in [Zone -> Nr]
           /\ \A z \in Zone : zone[z] \in Nr /\ zone[z] # new
           /\ \A a \in Low : Ptr(f, zone[Dind], a) \in Nr /\ Ptr(f, zone[Dind], a) # new
<1>1. new \in Blk /\ new - 1 \notin f.zmap /\ zone \in [Zone -> Nr]
      /\ \A x \in Places : Part(f, zone, x) \in Nr
  BY DEF Fresh, OwnsIn
<1>2. new \notin X /\ \A x \in Places : Part(f, zone, x) # new
  BY <1>1 DEF Fresh, OwnsIn
<1>3. \A z \in Zone : ZonePlace(z) \in Places /\ Part(f, zone, ZonePlace(z)) = zone[z]
  BY PlaceKinds
<1>4. \A a \in Low : DindPlace(a) \in Places /\ Part(f, zone, DindPlace(a)) = Ptr(f, zone[Dind], a)
  BY PlaceKinds
<1> QED
  BY <1>1, <1>2, <1>3, <1>4, Sizes

\* Equal at every kind of place is equal at every place.
LEMMA GainsByKind ==
    ASSUME NEW f, NEW zone, NEW g, NEW zone2, NEW x, NEW new,
           \A z \in Zone : zone2[z] = IF ZonePlace(z) = x THEN new ELSE zone[z],
           \A i \in Low : Ptr(g, zone2[Ind], i) = IF IndPlace(i) = x THEN new
                                                  ELSE Ptr(f, zone[Ind], i),
           \A a \in Low : Ptr(g, zone2[Dind], a) = IF DindPlace(a) = x THEN new
                                                   ELSE Ptr(f, zone[Dind], a),
           \A a, i \in Low : Ptr(g, Ptr(g, zone2[Dind], a), i)
                                = IF BelowPlace(a, i) = x THEN new
                                  ELSE Ptr(f, Ptr(f, zone[Dind], a), i)
    PROVE  Gains(f, zone, g, zone2, x, new)
<1> SUFFICES ASSUME NEW y \in Places
             PROVE  Part(g, zone2, y) = IF y = x THEN new ELSE Part(f, zone, y)
  BY DEF Gains
<1>1. CASE \E z \in Zone : y = ZonePlace(z)
  BY <1>1, PartIs
<1>2. CASE \E i \in Low : y = IndPlace(i)
  BY <1>2, PartIs
<1>3. CASE \E a \in Low : y = DindPlace(a)
  BY <1>3, PartIs
<1>4. CASE \E a, i \in Low : y = BelowPlace(a, i)
  BY <1>4, PartIs
<1> QED
  BY <1>1, <1>2, <1>3, <1>4, PlacesCovered

(* A zone of the inode gets a block. *)
LEMMA ZoneGains ==
    ASSUME NEW f, NEW zone, NEW X, NEW new, Fresh(f, zone, X, new), NEW z \in Zone, zone[z] = 0,
           NEW g, g.body = [f.body EXCEPT ![new] = ZeroBlk]
    PROVE  Gains(f, zone, g, [zone EXCEPT ![z] = new], ZonePlace(z), new)
<1> DEFINE zone2 == [zone EXCEPT ![z] = new]
<1>1. /\ new # 0 /\ new \in Nr /\ zone \in [Zone -> Nr]
      /\ \A y \in Zone : zone[y] \in Nr /\ zone[y] # new
      /\ \A a \in Low : Ptr(f, zone[Dind], a) \in Nr /\ Ptr(f, zone[Dind], a) # new
  BY FreshIsNowhere
<1>2. \A b \in Nr, i \in Low : Ptr(g, b, i) = IF b = new THEN 0 ELSE Ptr(f, b, i)
  <2>1. DOMAIN f.body = Blk /\ new \in Blk /\ Blk = Nr \ {0}
    BY Sizes DEF Fresh
  <2>2. g.body[new] = <<>> /\ \A b \in Nr \ {0} : b # new => g.body[b] = f.body[b]
    BY <2>1 DEF ZeroBlk
  <2>3. \A i \in Low : At(<<>>, i, 0) = 0
    BY DEF At, Low
  <2> QED
    BY <1>1, <2>2, <2>3 DEF Ptr
<1>3. \A y \in Zone : zone2[y] = IF y = z THEN new ELSE zone[y]
  BY <1>1
<1>4. \A i \in Low : Ptr(f, 0, i) = 0
  BY DEF Ptr
<1> HIDE DEF zone2
<1>5. Ind \in Zone /\ Dind \in Zone
  BY Sizes
<1>6. \A y \in Zone : zone2[y] = IF ZonePlace(y) = ZonePlace(z) THEN new ELSE zone[y]
  BY <1>3, PlacesApart
<1>7. \A y \in Zone : y = Ind \/ y = Dind => \A i \in Low : Ptr(g, zone2[y], i) = Ptr(f, zone[y], i)
  BY <1>1, <1>2, <1>3, <1>4
<1>8. \A i \in Low : Ptr(g, zone2[Ind], i) = IF IndPlace(i) = ZonePlace(z) THEN new
                                             ELSE Ptr(f, zone[Ind], i)
  BY <1>5, <1>7, PlacesApart
<1>9. \A a \in Low : Ptr(g, zone2[Dind], a) = Ptr(f, zone[Dind], a)
  BY <1>5, <1>7
<1>10. \A a \in Low : Ptr(g, zone2[Dind], a) = IF DindPlace(a) = ZonePlace(z) THEN new
                                              ELSE Ptr(f, zone[Dind], a)
  BY <1>9, PlacesApart
<1>11. \A a, i \in Low : Ptr(g, Ptr(g, zone2[Dind], a), i)
                            = IF BelowPlace(a, i) = ZonePlace(z) THEN new
                              ELSE Ptr(f, Ptr(f, zone[Dind], a), i)
  BY <1>1, <1>2, <1>9, PlacesApart
<1>12. Gains(f, zone, g, zone2, ZonePlace(z), new)
  BY <1>6, <1>8, <1>10, <1>11, GainsByKind
<1> QED
  BY <1>12 DEF zone2
(* The place p has a block of zone numbers, number i of which is place x.    *)
Below(p, i, x) ==
    \/ p = ZonePlace(Ind) /\ x = IndPlace(i)
    \/ p = ZonePlace(Dind) /\ x = DindPlace(i)
    \/ \E a \in Low : p = DindPlace(a) /\ x = BelowPlace(a, i)

\* A place below another holds what the block at the other names.
LEMMA BelowIs ==
    ASSUME NEW f, NEW zone, NEW p, NEW i \in Low, NEW x, Below(p, i, x)
    PROVE  p \in Places /\ x \in Places /\ Part(f, zone, x) = Ptr(f, Part(f, zone, p), i)
<1>1. Ind \in Zone /\ Dind \in Zone
  BY Sizes
<1>2. CASE p = ZonePlace(Ind) /\ x = IndPlace(i)
  BY <1>1, <1>2, PlaceKinds
<1>3. CASE p = ZonePlace(Dind) /\ x = DindPlace(i)
  <2>1. ZonePlace(Dind) \in Places /\ Part(f, zone, ZonePlace(Dind)) = zone[Dind]
    BY <1>1, PlaceKinds
  <2>2. DindPlace(i) \in Places /\ Part(f, zone, DindPlace(i)) = Ptr(f, zone[Dind], i)
    BY PlaceKinds
  <2> QED
    BY <1>3, <2>1, <2>2
<1>4. CASE \E a \in Low : p = DindPlace(a) /\ x = BelowPlace(a, i)
  <2>1. PICK a \in Low : p = DindPlace(a) /\ x = BelowPlace(a, i)
    BY <1>4
  <2>2. /\ DindPlace(a) \in Places /\ Part(f, zone, DindPlace(a)) = Ptr(f, zone[Dind], a)
        /\ BelowPlace(a, i) \in Places
        /\ Part(f, zone, BelowPlace(a, i)) = Ptr(f, Ptr(f, zone[Dind], a), i)
    BY PlaceKinds
  <2> QED
    BY <2>1, <2>2
<1> QED
  BY <1>2, <1>3, <1>4 DEF Below

(* A number in a block of zone numbers gets a block. *)
LEMMA PtrGains ==
    ASSUME NEW f, NEW zone, NEW X, NEW new, Fresh(f, zone, X, new),
           NEW p, NEW i \in Low, NEW x, Below(p, i, x),
           Part(f, zone, p) # 0, Part(f, zone, x) = 0,
           NEW g, g.body = [[f.body EXCEPT ![new] = ZeroBlk] EXCEPT ![Part(f, zone, p)] = Put(@, i, new)]
    PROVE  Gains(f, zone, g, zone, x, new)
<1> DEFINE b == Part(f, zone, p)
<1>1. /\ new # 0 /\ new \in Nr /\ zone \in [Zone -> Nr]
      /\ \A y \in Zone : zone[y] \in Nr /\ zone[y] # new
      /\ \A a \in Low : Ptr(f, zone[Dind], a) \in Nr /\ Ptr(f, zone[Dind], a) # new
  BY FreshIsNowhere
<1>2. p \in Places /\ x \in Places /\ Ptr(f, b, i) = 0
  BY BelowIs
<1>3. b # 0 /\ b \in Nr /\ b # new
  BY <1>2, FreshIsNowhere DEF Fresh, OwnsIn
<1>4. \A c \in Nr, j \in Low : Ptr(g, c, j) = IF c = b /\ j = i THEN new
                                              ELSE IF c = new THEN 0 ELSE Ptr(f, c, j)
  <2>1. DOMAIN f.body = Blk /\ new \in Blk /\ b \in Blk /\ Blk = Nr \ {0}
    BY <1>3, Sizes DEF Fresh
  <2> HIDE DEF b
  <2>2. g.body[b] = Put(f.body[b], i, new) /\ g.body[new] = <<>>
        /\ \A c \in Nr \ {0} : c # new /\ c # b => g.body[c] = f.body[c]
    BY <1>3, <2>1 DEF ZeroBlk, b
  <2>3. \A j \in Low : At(<<>>, j, 0) = 0
    BY DEF At, Low
  <2>4. \A j \in Low : At(Put(f.body[b], i, new), j, 0) = IF j = i THEN new ELSE At(f.body[b], j, 0)
    BY DEF At, Put, Fill
  <2> QED
    BY <1>1, <1>3, <2>2, <2>3, <2>4 DEF Ptr
<1>5. Ind \in Zone /\ Dind \in Zone /\ Ind # Dind
  BY Sizes
<1>6. \A y, z \in Places : Part(f, zone, y) # 0 /\ Part(f, zone, y) = Part(f, zone, z) => y = z
  BY DEF Fresh, OwnsIn
<1>7. \A j \in Low : Ptr(f, 0, j) = 0 /\ Ptr(g, 0, j) = 0
  BY DEF Ptr
<1>8. /\ \A y \in Zone : Part(f, zone, ZonePlace(y)) = zone[y] /\ ZonePlace(y) \in Places
      /\ \A a \in Low : Part(f, zone, DindPlace(a)) = Ptr(f, zone[Dind], a) /\ DindPlace(a) \in Places
  BY PlaceKinds
<1>9. \A y \in Zone : zone[y] = IF ZonePlace(y) = x THEN new ELSE zone[y]
  <2>1. \A y \in Zone : ZonePlace(y) # x
    BY PlacesApart DEF Below
  <2> QED
    BY <2>1
<1> HIDE DEF b
<1>10. \A y \in Zone : ZonePlace(y) # p => zone[y] # b
  BY <1>2, <1>3, <1>6, <1>8 DEF b
<1>11. \A a \in Low : DindPlace(a) # p => Ptr(f, zone[Dind], a) # b
  BY <1>2, <1>3, <1>6, <1>8 DEF b
<1>12. CASE p = ZonePlace(Ind) /\ x = IndPlace(i)
  <2>1. zone[Ind] = b /\ zone[Dind] # b /\ \A a \in Low : Ptr(f, zone[Dind], a) # b
    BY <1>5, <1>8, <1>10, <1>11, <1>12, PlacesApart DEF b
  <2>2. \A j \in Low : Ptr(g, zone[Ind], j) = IF IndPlace(j) = x THEN new ELSE Ptr(f, zone[Ind], j)
    BY <1>3, <1>4, <1>12, <2>1, PlacesApart
  <2>3. \A a \in Low : Ptr(g, zone[Dind], a) = Ptr(f, zone[Dind], a) /\ DindPlace(a) # x
    BY <1>1, <1>4, <1>5, <1>12, <2>1, PlacesApart
  <2>4. \A a, j \in Low : Ptr(g, Ptr(g, zone[Dind], a), j) = Ptr(f, Ptr(f, zone[Dind], a), j)
                          /\ BelowPlace(a, j) # x
    BY <1>1, <1>4, <1>12, <2>1, <2>3, PlacesApart
  <2> QED
    BY <1>9, <2>2, <2>3, <2>4, GainsByKind
<1>13. CASE p = ZonePlace(Dind) /\ x = DindPlace(i)
  <2>1. zone[Dind] = b /\ zone[Ind] # b /\ \A a \in Low : Ptr(f, zone[Dind], a) # b
    BY <1>5, <1>8, <1>10, <1>11, <1>13, PlacesApart DEF b
  <2>2. \A j \in Low : Ptr(g, zone[Ind], j) = Ptr(f, zone[Ind], j) /\ IndPlace(j) # x
    BY <1>1, <1>4, <1>5, <1>13, <2>1, PlacesApart
  <2>3. \A a \in Low : /\ Ptr(g, zone[Dind], a) = IF a = i THEN new ELSE Ptr(f, zone[Dind], a)
                       /\ a = i <=> DindPlace(a) = x
    BY <1>3, <1>4, <1>13, <2>1, PlacesApart
  <2>4. \A a, j \in Low : Ptr(g, Ptr(g, zone[Dind], a), j) = Ptr(f, Ptr(f, zone[Dind], a), j)
                          /\ BelowPlace(a, j) # x
    <3> TAKE a \in Low, j \in Low
    <3>1. BelowPlace(a, j) # x
      BY <1>13, PlacesApart
    <3>2. CASE a = i
      <4>1. Ptr(g, zone[Dind], a) = new /\ Ptr(f, zone[Dind], a) = 0
        BY <1>2, <2>1, <2>3, <3>2
      <4> QED
        BY <1>1, <1>3, <1>4, <1>7, <3>1, <4>1
    <3>3. CASE a # i
      <4>1. Ptr(g, zone[Dind], a) = Ptr(f, zone[Dind], a)
        BY <2>3, <3>3
      <4> QED
        BY <1>1, <1>4, <2>1, <3>1, <4>1
    <3> QED
      BY <3>2, <3>3
  <2> QED
    BY <1>9, <2>2, <2>3, <2>4, GainsByKind
<1>14. CASE \E a \in Low : p = DindPlace(a) /\ x = BelowPlace(a, i)
  <2> PICK c \in Low : p = DindPlace(c) /\ x = BelowPlace(c, i)
    BY <1>14
  <2>1. Ptr(f, zone[Dind], c) = b /\ zone[Ind] # b /\ zone[Dind] # b
        /\ \A a \in Low : a # c => Ptr(f, zone[Dind], a) # b
    BY <1>5, <1>8, <1>10, <1>11, PlacesApart DEF b
  <2>2. \A j \in Low : Ptr(g, zone[Ind], j) = Ptr(f, zone[Ind], j) /\ IndPlace(j) # x
    BY <1>1, <1>4, <1>5, <2>1, PlacesApart
  <2>3. \A a \in Low : Ptr(g, zone[Dind], a) = Ptr(f, zone[Dind], a) /\ DindPlace(a) # x
    BY <1>1, <1>4, <1>5, <2>1, PlacesApart
  <2>4. \A a, j \in Low : Ptr(g, Ptr(g, zone[Dind], a), j)
                             = IF BelowPlace(a, j) = x THEN new ELSE Ptr(f, Ptr(f, zone[Dind], a), j)
    <3> TAKE a \in Low, j \in Low
    <3>1. BelowPlace(a, j) = x <=> a = c /\ j = i
      BY PlacesApart
    <3>2. Ptr(f, zone[Dind], a) = b <=> a = c
      BY <2>1
    <3>3. Ptr(f, zone[Dind], a) \in Nr /\ Ptr(f, zone[Dind], a) # new
      BY <1>1
    <3> QED
      BY <1>4, <2>3, <3>1, <3>2, <3>3
  <2> QED
    BY <1>9, <2>2, <2>3, <2>4, GainsByKind
<1> QED
  BY <1>12, <1>13, <1>14 DEF Below
(* A block that comes to a free place is owned like the others. *)
LEMMA GainsOwns ==
    ASSUME NEW f, NEW zone, NEW X, NEW new, Fresh(f, zone, X, new), NEW x \in Places, Part(f, zone, x) = 0,
           NEW g, NEW zone2 \in [Zone -> Nr], Gains(f, zone, g, zone2, x, new),
           g.zmap = f.zmap \cup {new - 1}
    PROVE  OwnsIn(g, zone2, X)
<1>1. new \in Nr \ X /\ new # 0 /\ \A y \in Places : Part(f, zone, y) # new
  BY FreshIsNowhere
<1>2. \A y \in Places : Part(g, zone2, y) = IF y = x THEN new ELSE Part(f, zone, y)
  BY DEF Gains
<1>3. X \in SUBSET Blk /\ \A y \in Places : Part(f, zone, y) \in Nr \ X
  BY DEF Fresh, OwnsIn
<1>4. \A y \in Places : Part(g, zone2, y) \in Nr \ X
  BY <1>1, <1>2, <1>3
<1>5. \A y, z \in Places : Part(f, zone, y) # 0 /\ Part(f, zone, y) = Part(f, zone, z) => y = z
  BY DEF Fresh, OwnsIn
<1>6. \A y, z \in Places : Part(g, zone2, y) # 0 /\ Part(g, zone2, y) = Part(g, zone2, z) => y = z
  BY <1>1, <1>2, <1>5
<1>7. \A b \in Blk : b - 1 \in f.zmap <=> b \in X \/ \E y \in Places : Part(f, zone, y) = b
  BY DEF Fresh, OwnsIn
<1>8. \A b \in Blk : b - 1 = new - 1 <=> b = new
  BY <1>1, Sizes
<1>9. ASSUME NEW b \in Blk
      PROVE  b - 1 \in g.zmap <=> b \in X \/ \E y \in Places : Part(g, zone2, y) = b
  <2>1. CASE b = new
    BY <1>2, <2>1
  <2>2. CASE b # new
    <3>1. b - 1 \in g.zmap <=> b - 1 \in f.zmap
      BY <1>8, <2>2
    <3>2. b # 0
      BY Sizes
    <3>3. (\E y \in Places : Part(g, zone2, y) = b) <=> \E y \in Places : Part(f, zone, y) = b
      BY <1>2, <2>2, <3>2
    <3> QED
      BY <1>7, <3>1, <3>3
  <2> QED
    BY <2>1, <2>2
<1> QED
  BY <1>3, <1>4, <1>6, <1>9 DEF OwnsIn

-----------------------------------------------------------------------------
(* Contents. *)

\* The place of block k of a file, and what is at offset o of that block.
DataPlace(k) ==
    IF k < Direct THEN ZonePlace(k)
    ELSE IF k - Direct \in Low THEN IndPlace(k - Direct)
    ELSE BelowPlace((k - Direct - PerInd) \div PerInd, (k - Direct - PerInd) % PerInd)

Data(f, zone, k, o) ==
    LET b == BlockOf(f, zone, k) IN IF b = 0 THEN 0 ELSE At(f.body[b], o, 0)

\* The blocks of a file by the level that leads to them.
LEMMA FileBlkIs ==
    ASSUME NEW k \in FileBlk
    PROVE  \/ k \in Zone /\ k < Direct /\ k # Ind /\ k # Dind
           \/ ~(k < Direct) /\ k - Direct \in Low
           \/ /\ ~(k < Direct) /\ k - Direct \notin Low
              /\ k - Direct - PerInd \in Nat
              /\ (k - Direct - PerInd) \div PerInd \in Low
              /\ (k - Direct - PerInd) % PerInd \in Low
<1> DEFINE m == PerInd * PerInd
           e == k - Direct - PerInd
<1>1. Direct \in Nat \ {0} /\ PerInd \in Nat \ {0} /\ m \in Nat /\ k \in 0 .. Direct + PerInd + m - 1
  BY Sizes DEF FileBlk
<1> HIDE DEF m
<1>2. CASE k < Direct
  BY <1>1, <1>2, Sizes
<1>3. CASE ~(k < Direct) /\ k - Direct \in Low
  BY <1>3
<1>4. CASE ~(k < Direct) /\ k - Direct \notin Low
  <2>1. e \in 0 .. PerInd * PerInd - 1 /\ e \in Nat
    BY <1>1, <1>4 DEF Low, m
  <2> HIDE DEF e
  <2>2. e \div PerInd \in Low /\ e % PerInd \in Low
    BY <1>1, <2>1, Divided, DividedBelow DEF Low
  <2> QED
    BY <1>4, <2>1, <2>2 DEF e
<1> QED
  BY <1>2, <1>3, <1>4

\* Block k of a file is at its place.
LEMMA DataPlaceIs ==
    ASSUME NEW f, NEW zone, NEW k \in FileBlk
    PROVE  DataPlace(k) \in Places /\ BlockOf(f, zone, k) = Part(f, zone, DataPlace(k))
<1>1. Low = 0 .. PerInd - 1
  BY DEF Low
<1>2. CASE k \in Zone /\ k < Direct
  <2>1. ZonePlace(k) \in Places /\ Part(f, zone, ZonePlace(k)) = zone[k]
    BY <1>2, PlaceKinds
  <2>2. DataPlace(k) = ZonePlace(k)
    BY <1>2 DEF DataPlace
  <2>3. k - Direct \notin 0 .. PerInd - 1
    BY <1>2, Sizes
  <2>4. BlockOf(f, zone, k) = zone[k]
    BY <1>2, <2>3 DEF BlockOf
  <2> QED
    BY <2>1, <2>2, <2>4
<1>3. CASE ~(k < Direct) /\ k - Direct \in Low
  <2> DEFINE i == k - Direct
  <2>1. IndPlace(i) \in Places /\ Part(f, zone, IndPlace(i)) = Ptr(f, zone[Ind], i)
    BY <1>3, PlaceKinds
  <2>2. DataPlace(k) = IndPlace(i)
    BY <1>3 DEF DataPlace
  <2>3. BlockOf(f, zone, k) = Ptr(f, zone[Ind], i)
    BY <1>1, <1>3 DEF BlockOf
  <2> QED
    BY <2>1, <2>2, <2>3
<1>4. CASE /\ ~(k < Direct) /\ k - Direct \notin Low
           /\ (k - Direct - PerInd) \div PerInd \in Low
           /\ (k - Direct - PerInd) % PerInd \in Low
  <2> DEFINE a == (k - Direct - PerInd) \div PerInd
             i == (k - Direct - PerInd) % PerInd
  <2>1. a \in Low /\ i \in Low
    BY <1>4
  <2>2. DataPlace(k) = BelowPlace(a, i)
    BY <1>4 DEF DataPlace
  <2>3. BlockOf(f, zone, k) = Ptr(f, Ptr(f, zone[Dind], a), i)
    BY <1>1, <1>4 DEF BlockOf
  <2> HIDE DEF a, i
  <2>4. /\ BelowPlace(a, i) \in Places
        /\ Part(f, zone, BelowPlace(a, i)) = Ptr(f, Ptr(f, zone[Dind], a), i)
    BY <2>1, PlaceKinds
  <2> QED
    BY <2>2, <2>3, <2>4
<1> QED
  BY <1>2, <1>3, <1>4, FileBlkIs

(* Different blocks of a file are at different places, none of which is that *)
(* of a block of zone numbers.                                              *)
LEMMA DataPlacesApart ==
    /\ \A k, j \in FileBlk : DataPlace(k) = DataPlace(j) => k = j
    /\ \A k \in FileBlk : DataPlace(k) # ZonePlace(Ind) /\ DataPlace(k) # ZonePlace(Dind)
    /\ \A k \in FileBlk, a \in Low : DataPlace(k) # DindPlace(a)
<1> DEFINE A(k) == (k - Direct - PerInd) \div PerInd
           I(k) == (k - Direct - PerInd) % PerInd
           First3(k) == k \in Zone /\ k < Direct /\ k # Ind /\ k # Dind /\ DataPlace(k) = ZonePlace(k)
           Second3(k) == ~(k < Direct) /\ k - Direct \in Low /\ DataPlace(k) = IndPlace(k - Direct)
           Third3(k) == ~(k < Direct) /\ k - Direct \notin Low /\ k - Direct - PerInd \in Nat
                        /\ A(k) \in Low /\ I(k) \in Low /\ DataPlace(k) = BelowPlace(A(k), I(k))
<1>1. \A k \in FileBlk : First3(k) \/ Second3(k) \/ Third3(k)
  BY FileBlkIs DEF DataPlace
<1>2. \A k \in FileBlk : k \in Int
  BY Sizes DEF FileBlk
<1>3. ASSUME NEW k \in FileBlk, NEW j \in FileBlk, Third3(k), Third3(j), A(k) = A(j), I(k) = I(j)
      PROVE  k = j
  <2> DEFINE c == k - Direct - PerInd
             d == j - Direct - PerInd
  <2>1. c \in Nat /\ d \in Nat /\ PerInd \in Nat \ {0}
    BY <1>3, Sizes
  <2>2. c = A(k) * PerInd + I(k)
    BY <2>1, Divided
  <2>3. d = A(j) * PerInd + I(j)
    BY <2>1, Divided
  <2>4. c = d
    BY <1>3, <2>2, <2>3
  <2> QED
    BY <1>2, <2>4, Sizes
<1> HIDE DEF A, I
<1>4. Ind \in Zone /\ Dind \in Zone
  BY Sizes
<1>5. \A k \in FileBlk : DataPlace(k) # ZonePlace(Ind) /\ DataPlace(k) # ZonePlace(Dind)
  BY <1>1, <1>4, PlacesApart
<1>6. \A k \in FileBlk, a \in Low : DataPlace(k) # DindPlace(a)
  BY <1>1, PlacesApart
<1>7. ASSUME NEW k \in FileBlk, NEW j \in FileBlk, DataPlace(k) = DataPlace(j)
      PROVE  k = j
  <2>1. CASE First3(k) /\ First3(j)
    BY <1>7, <2>1, PlacesApart
  <2>2. CASE Second3(k) /\ Second3(j)
    <3>1. k - Direct = j - Direct
      BY <1>7, <2>2, PlacesApart
    <3> QED
      BY <1>2, <3>1, Sizes
  <2>3. CASE Third3(k) /\ Third3(j)
    <3>1. A(k) = A(j) /\ I(k) = I(j)
      BY <1>7, <2>3, PlacesApart
    <3> QED
      BY <1>3, <2>3, <3>1
  <2>4. ~(First3(k) /\ (Second3(j) \/ Third3(j))) /\ ~(First3(j) /\ (Second3(k) \/ Third3(k)))
    BY <1>7, PlacesApart
  <2>5. ~(Second3(k) /\ Third3(j)) /\ ~(Second3(j) /\ Third3(k))
    BY <1>7, PlacesApart
  <2> QED
    BY <1>1, <2>1, <2>2, <2>3, <2>4, <2>5
<1> QED
  BY <1>5, <1>6, <1>7
-----------------------------------------------------------------------------
(* The state of FS, and create_block. *)

Fields  == {"imap", "zmap", "table", "dev", "body", "pinned", "status"}
TabEntry == [num : {0} \cup Inr, cnt : Nat, dirt : BOOLEAN, node : Node]

IsFs(f) ==
    /\ DOMAIN f = Fields
    /\ f.zmap \in SUBSET (0 .. ZoneBits - 1)
    /\ f.table \in [Slot -> TabEntry]
    /\ f.dev \in [Inr -> Node]
    /\ DOMAIN f.body = Blk
    /\ \A b \in Blk : DOMAIN f.body[b] \subseteq 0 .. BlkSize - 1

Zones(f, s) == f.table[s].node.zone

\* The file in entry s owns the marked blocks.
Has1(f, s) == IsFs(f) /\ s \in Slot /\ Owns(f, Zones(f, s))

\* Entry s may have changed in its zones and become dirty, the other entries not.
Others(f, g, s) ==
    /\ g.imap = f.imap /\ g.dev = f.dev /\ g.pinned = f.pinned /\ g.status = f.status
    /\ \A t \in Slot \ {s} : g.table[t] = f.table[t]
    /\ g.table[s].num = f.table[s].num /\ g.table[s].cnt = f.table[s].cnt
    /\ f.table[s].dirt => g.table[s].dirt
    /\ g.table[s].node.mode = f.table[s].node.mode
    /\ g.table[s].node.nlinks = f.table[s].node.nlinks
    /\ g.table[s].node.size = f.table[s].node.size

\* The file in entry s has got blocks, in which there is nothing yet.
Grown(f, g, s) ==
    /\ Has1(g, s)
    /\ Others(f, g, s)
    /\ \A k \in FileBlk, o \in Nat : Data(g, Zones(g, s), k, o) = Data(f, Zones(f, s), k, o)

(* The same next to other blocks X, which stay as they are: of the blocks of  *)
(* data only number k may be new.                                           *)
HasIn(f, s, X) == IsFs(f) /\ s \in Slot /\ OwnsIn(f, Zones(f, s), X)

GrownIn(f, g, s, X, k) ==
    /\ HasIn(g, s, X)
    /\ Others(f, g, s)
    /\ g.table[s].dirt \/ g.table[s] = f.table[s]
    /\ \A b \in X : g.body[b] = f.body[b]
    /\ \A j \in FileBlk :
          LET b == BlockOf(f, Zones(f, s), j)
              c == BlockOf(g, Zones(g, s), j)
          IN  /\ b # 0 => c = b /\ g.body[b] = f.body[b]
              /\ b = 0 => c = 0 \/ (j = k /\ g.body[c] = ZeroBlk)

\* Growing twice is growing.
LEMMA GrownTwice ==
    ASSUME NEW f, NEW g, NEW h, NEW s, NEW X, NEW k,
           GrownIn(f, g, s, X, k), GrownIn(g, h, s, X, k)
    PROVE  GrownIn(f, h, s, X, k)
<1>1. Others(f, h, s)
  BY DEF GrownIn, Others
<1>2. h.table[s].dirt \/ h.table[s] = f.table[s]
  BY DEF GrownIn, Others
<1>3. \A b \in X : h.body[b] = f.body[b]
  BY DEF GrownIn
<1>4. ASSUME NEW j \in FileBlk
      PROVE  LET b == BlockOf(f, Zones(f, s), j)
                 c == BlockOf(h, Zones(h, s), j)
             IN  /\ b # 0 => c = b /\ h.body[b] = f.body[b]
                 /\ b = 0 => c = 0 \/ (j = k /\ h.body[c] = ZeroBlk)
  <2> DEFINE b == BlockOf(f, Zones(f, s), j)
             d == BlockOf(g, Zones(g, s), j)
             c == BlockOf(h, Zones(h, s), j)
  <2>1. /\ b # 0 => d = b /\ g.body[b] = f.body[b]
        /\ b = 0 => d = 0 \/ (j = k /\ g.body[d] = ZeroBlk)
    BY DEF GrownIn
  <2>2. /\ d # 0 => c = d /\ h.body[d] = g.body[d]
        /\ d = 0 => c = 0 \/ (j = k /\ h.body[c] = ZeroBlk)
    BY DEF GrownIn
  <2> HIDE DEF b, c, d
  <2>3. /\ b # 0 => c = b /\ h.body[b] = f.body[b]
        /\ b = 0 => c = 0 \/ (j = k /\ h.body[c] = ZeroBlk)
    BY <2>1, <2>2
  <2> QED
    BY <2>3 DEF b, c
<1> QED
  BY <1>1, <1>2, <1>3, <1>4 DEF GrownIn

\* So is not growing.
LEMMA GrownNot ==
    ASSUME NEW f, NEW s, NEW X, NEW k, HasIn(f, s, X)
    PROVE  GrownIn(f, f, s, X, k)
BY DEF GrownIn, Others

\* Who owns all marked blocks owns those next to none.
LEMMA GrownAlone ==
    ASSUME NEW f, NEW g, NEW s, NEW k, GrownIn(f, g, s, {}, k)
    PROVE  Grown(f, g, s)
<1>1. Has1(g, s)
  BY OwnsAlone DEF GrownIn, HasIn, Has1
<1>2. \A o : At(ZeroBlk, o, 0) = 0
  BY DEF At, ZeroBlk
<1>3. ASSUME NEW j \in FileBlk, NEW o \in Nat
      PROVE  Data(g, Zones(g, s), j, o) = Data(f, Zones(f, s), j, o)
  <2> DEFINE b == BlockOf(f, Zones(f, s), j)
             c == BlockOf(g, Zones(g, s), j)
  <2>1. /\ b # 0 => c = b /\ g.body[b] = f.body[b]
        /\ b = 0 => c = 0 \/ (j = k /\ g.body[c] = ZeroBlk)
    BY DEF GrownIn
  <2>2. /\ Data(g, Zones(g, s), j, o) = IF c = 0 THEN 0 ELSE At(g.body[c], o, 0)
        /\ Data(f, Zones(f, s), j, o) = IF b = 0 THEN 0 ELSE At(f.body[b], o, 0)
    BY DEF Data
  <2> HIDE DEF b, c
  <2> QED
    BY <1>2, <2>1, <2>2
<1> QED
  BY <1>1, <1>3 DEF Grown, GrownIn

\* new_block gives a fresh, empty block, or none.
LEMMA NewBlockIs ==
    ASSUME NEW f, IsFs(f)
    PROVE  LET new == NewBlockNr(f)
               g   == NewBlock(f)
           IN  /\ IsFs(g)
               /\ g.imap = f.imap /\ g.table = f.table /\ g.dev = f.dev
               /\ g.pinned = f.pinned /\ g.status = f.status
               /\ new # 0 => /\ new \in Blk /\ new - 1 \notin f.zmap
                             /\ g.zmap = f.zmap \cup {new - 1}
                             /\ g.body = [f.body EXCEPT ![new] = ZeroBlk]
               /\ new = 0 => /\ g.body = f.body
                             /\ \A b \in Blk : b - 1 \in g.zmap <=> b - 1 \in f.zmap
<1> DEFINE z == FirstZero(f.zmap, ZoneBits)
           new == NewBlockNr(f)
           g == NewBlock(f)
           body == IF z + 1 \in Blk THEN [f.body EXCEPT ![z + 1] = ZeroBlk] ELSE f.body
<1>1. DOMAIN f = Fields /\ f.zmap \in SUBSET (0 .. ZoneBits - 1) /\ f.zmap \in SUBSET Int
  BY DEF IsFs
<1>2. /\ new # 0 => new \in Blk /\ new - 1 \notin f.zmap /\ g.zmap = f.zmap \cup {new - 1}
      /\ new = 0 => \A b \in Blk : b - 1 \in g.zmap <=> b - 1 \in f.zmap
  BY <1>1, NewBlockWasFree DEF Fields
<1>3. z \in ((0 .. ZoneBits - 1) \ f.zmap) \cup {-1}
  BY FirstZeroIsClear, Sizes
<1>4. new = IF z + 1 \in Blk THEN z + 1 ELSE 0
  BY DEF NewBlockNr
<1>5. /\ DOMAIN g = Fields /\ g.zmap = f.zmap \cup ({z} \ {-1}) /\ g.body = body
      /\ g.imap = f.imap /\ g.table = f.table /\ g.dev = f.dev
      /\ g.pinned = f.pinned /\ g.status = f.status
  BY <1>1 DEF NewBlock, Marked, Fields
<1>6. DOMAIN body = Blk /\ \A b \in Blk : DOMAIN body[b] \subseteq 0 .. BlkSize - 1
  <2>1. DOMAIN ZeroBlk \subseteq 0 .. BlkSize - 1
    BY DEF ZeroBlk
  <2> QED
    BY <2>1 DEF IsFs
<1>7. g.zmap \in SUBSET (0 .. ZoneBits - 1)
  BY <1>1, <1>3, <1>5
<1>8. new # 0 => body = [f.body EXCEPT ![new] = ZeroBlk]
  BY <1>4
<1>9. new = 0 => body = f.body
  BY <1>3, <1>4, Sizes
<1> HIDE DEF z, new, g, body
<1>10. IsFs(g)
  BY <1>5, <1>6, <1>7 DEF IsFs
<1> QED
  BY <1>2, <1>5, <1>8, <1>9, <1>10 DEF new, g

(* The data of the file stays what it is when a place gets a new block.      *)
LEMMA DataKept ==
    ASSUME NEW f, NEW zone, NEW X, NEW new, Fresh(f, zone, X, new), NEW x, Part(f, zone, x) = 0,
           NEW g, NEW zone2, Gains(f, zone, g, zone2, x, new), g.body[new] = ZeroBlk,
           NEW k, \A j \in FileBlk : DataPlace(j) = x => j = k,
           \A j \in FileBlk : BlockOf(f, zone, j) # 0 =>
               g.body[BlockOf(f, zone, j)] = f.body[BlockOf(f, zone, j)]
    PROVE  \A j \in FileBlk :
               LET b == BlockOf(f, zone, j)
                   c == BlockOf(g, zone2, j)
               IN  /\ b # 0 => c = b /\ g.body[b] = f.body[b]
                   /\ b = 0 => c = 0 \/ (j = k /\ g.body[c] = ZeroBlk)
<1> TAKE j \in FileBlk
<1>1. DataPlace(j) \in Places /\ BlockOf(f, zone, j) = Part(f, zone, DataPlace(j))
      /\ BlockOf(g, zone2, j) = Part(g, zone2, DataPlace(j))
  BY DataPlaceIs
<1>2. BlockOf(g, zone2, j) = IF DataPlace(j) = x THEN new ELSE BlockOf(f, zone, j)
  BY <1>1 DEF Gains
<1>3. DataPlace(j) = x => BlockOf(f, zone, j) = 0 /\ j = k
  BY <1>1
<1> DEFINE b == BlockOf(f, zone, j)
           c == BlockOf(g, zone2, j)
<1>4. b # 0 => g.body[b] = f.body[b]
  OBVIOUS
<1> HIDE DEF b, c
<1>5. c = IF DataPlace(j) = x THEN new ELSE b
  BY <1>2 DEF b, c
<1>6. DataPlace(j) = x => b = 0 /\ j = k
  BY <1>3 DEF b
<1>7. /\ b # 0 => c = b /\ g.body[b] = f.body[b]
      /\ b = 0 => c = 0 \/ (j = k /\ g.body[c] = ZeroBlk)
  BY <1>4, <1>5, <1>6
<1> QED
  BY <1>7 DEF b, c

\* A zone of the inode is set.
LEMMA SetZoneIs ==
    ASSUME NEW f, IsFs(f), NEW s \in Slot, NEW z \in Zone, NEW new \in Nr
    PROVE  LET g == SetZone(f, s, z, new)
           IN  /\ IsFs(g) /\ Others(f, g, s) /\ g.body = f.body /\ g.zmap = f.zmap
               /\ Zones(g, s) = [Zones(f, s) EXCEPT ![z] = new]
               /\ Zones(g, s) \in [Zone -> Nr]
               /\ new # 0 => g.table[s].dirt
               /\ new = 0 /\ Zones(f, s)[z] = 0 => g.table[s] = f.table[s]
<1> DEFINE g == SetZone(f, s, z, new)
           e == f.table[s]
           zone2 == [e.node.zone EXCEPT ![z] = new]
           node2 == [e.node EXCEPT !.zone = zone2]
           e1 == [e EXCEPT !.node = node2]
           f1 == [f EXCEPT !.table = [f.table EXCEPT ![s] = e1]]
           e2 == [f1.table[s] EXCEPT !.dirt = e.dirt \/ new # 0]
<1>1. e \in TabEntry /\ e.node \in Node /\ e.node.zone \in [Zone -> Nr]
  BY DEF IsFs, TabEntry, Node, Nr
<1>2. g = [f1 EXCEPT !.table = [f1.table EXCEPT ![s] = e2]]
  BY DEF SetZone
<1>3. zone2 \in [Zone -> Nr]
  BY <1>1
<1> HIDE DEF zone2
<1>4. /\ node2 \in Node /\ node2.zone = zone2 /\ node2.mode = e.node.mode
      /\ node2.nlinks = e.node.nlinks /\ node2.size = e.node.size
  BY <1>1, <1>3 DEF Node, Nr
<1> HIDE DEF node2
<1>5. e1 \in TabEntry /\ e1.node = node2 /\ e1.num = e.num /\ e1.cnt = e.cnt
  BY <1>1, <1>4 DEF TabEntry
<1>6. /\ DOMAIN f1 = Fields /\ f1.table = [f.table EXCEPT ![s] = e1] /\ f1.table[s] = e1
      /\ f1.imap = f.imap /\ f1.zmap = f.zmap /\ f1.dev = f.dev /\ f1.body = f.body
      /\ f1.pinned = f.pinned /\ f1.status = f.status
  BY DEF IsFs, Fields
<1> HIDE DEF e1, f1
<1>7. /\ e2 \in TabEntry /\ e2.node = node2 /\ e2.num = e.num /\ e2.cnt = e.cnt
      /\ e2.dirt <=> e.dirt \/ new # 0
  BY <1>1, <1>5, <1>6 DEF TabEntry
<1>13. ASSUME new = 0, e.node.zone[z] = 0
       PROVE  e2 = e
  <2>1. zone2 = e.node.zone
    BY <1>1, <1>13 DEF zone2
  <2>2. node2 = e.node
    BY <1>1, <1>4, <2>1 DEF Node
  <2> QED
    BY <1>1, <1>7, <1>13, <2>2 DEF TabEntry
<1>8. /\ DOMAIN g = Fields /\ g.table = [f.table EXCEPT ![s] = e2]
      /\ g.imap = f.imap /\ g.zmap = f.zmap /\ g.dev = f.dev /\ g.body = f.body
      /\ g.pinned = f.pinned /\ g.status = f.status
  BY <1>2, <1>6 DEF IsFs, Fields
<1> HIDE DEF g, e2
<1>9. g.table \in [Slot -> TabEntry] /\ g.table[s] = e2
      /\ \A t \in Slot \ {s} : g.table[t] = f.table[t]
  BY <1>7, <1>8 DEF IsFs
<1>10. IsFs(g)
  BY <1>8, <1>9 DEF IsFs
<1>11. Others(f, g, s)
  BY <1>4, <1>7, <1>8, <1>9 DEF Others
<1>12. Zones(g, s) = zone2
  BY <1>4, <1>7, <1>9 DEF Zones
<1> QED
  BY <1>3, <1>7, <1>8, <1>9, <1>10, <1>11, <1>12, <1>13 DEF g, zone2, Zones

\* A place of a block of zone numbers is set.
LEMMA SetPtrIs ==
    ASSUME NEW f, IsFs(f), NEW b \in Blk, NEW i \in Low, NEW new \in Nr \ {0}
    PROVE  LET g == SetPtr(f, b, i, new)
           IN  /\ IsFs(g) /\ g.zmap = f.zmap /\ g.table = f.table
               /\ g.imap = f.imap /\ g.dev = f.dev /\ g.pinned = f.pinned /\ g.status = f.status
               /\ g.body = [f.body EXCEPT ![b] = Put(@, i, new)]
<1> DEFINE g == SetPtr(f, b, i, new)
           body == [f.body EXCEPT ![b] = Put(@, i, new)]
<1>1. /\ DOMAIN g = Fields /\ g.body = body /\ g.table = f.table
      /\ g.imap = f.imap /\ g.zmap = f.zmap /\ g.dev = f.dev
      /\ g.pinned = f.pinned /\ g.status = f.status
  BY DEF SetPtr, IsFs, Fields
<1>2. DOMAIN Put(f.body[b], i, new) \subseteq 0 .. BlkSize - 1
  <2>1. i \in 0 .. BlkSize - 1
    BY Sizes DEF Low
  <2>2. DOMAIN Put(f.body[b], i, new) = {i} \cup DOMAIN f.body[b]
    BY DEF Put, Fill
  <2> QED
    BY <2>1, <2>2 DEF IsFs
<1>3. DOMAIN body = Blk /\ \A c \in Blk : DOMAIN body[c] \subseteq 0 .. BlkSize - 1
  BY <1>2 DEF IsFs
<1> HIDE DEF g, body
<1>4. IsFs(g)
  BY <1>1, <1>3 DEF IsFs
<1> QED
  BY <1>1, <1>4 DEF g, body

\* A block of a file is its at one place only.
LEMMA OtherPlaces ==
    ASSUME NEW f, NEW zone, Mapped(f, zone), NEW k \in FileBlk, NEW p, NEW i \in Low, NEW x,
           Below(p, i, x), BlockOf(f, zone, k) # 0
    PROVE  BlockOf(f, zone, k) # Part(f, zone, p)
<1>1. DataPlace(k) \in Places /\ BlockOf(f, zone, k) = Part(f, zone, DataPlace(k))
  BY DataPlaceIs
<1>2. p \in Places
  BY BelowIs
<1>3. DataPlace(k) # p
  BY DataPlacesApart DEF Below
<1> QED
  BY <1>1, <1>2, <1>3 DEF Mapped

(* A block that is not there is created, if there is room, and owned. *)
LEMMA NewZoneGrows ==
    ASSUME NEW f, NEW s, NEW X, HasIn(f, s, X), NEW z \in Zone, NEW k,
           \A j \in FileBlk : DataPlace(j) = ZonePlace(z) => j = k
    PROVE  GrownIn(f, NewZone(f, s, z), s, X, k)
<1> DEFINE zone == Zones(f, s)
           new == NewBlockNr(f)
           h == NewBlock(f)
           g == SetZone(h, s, z, new)
<1>1. IsFs(f) /\ s \in Slot /\ OwnsIn(f, zone, X)
  BY DEF HasIn
<1>2. CASE zone[z] # 0
  BY <1>2, GrownNot DEF NewZone, Zones
<1>3. CASE zone[z] = 0
  <2>1. /\ IsFs(h) /\ h.table = f.table
        /\ h.imap = f.imap /\ h.dev = f.dev /\ h.pinned = f.pinned /\ h.status = f.status
        /\ new # 0 => /\ new \in Blk /\ new - 1 \notin f.zmap /\ h.zmap = f.zmap \cup {new - 1}
                      /\ h.body = [f.body EXCEPT ![new] = ZeroBlk]
        /\ new = 0 => h.body = f.body /\ \A b \in Blk : b - 1 \in h.zmap <=> b - 1 \in f.zmap
    BY <1>1, NewBlockIs
  <2> HIDE DEF h, new
  <2>2. new \in Nr
    BY <2>1, Sizes
  <2>3. /\ IsFs(g) /\ Others(h, g, s) /\ g.body = h.body /\ g.zmap = h.zmap
        /\ Zones(g, s) = [Zones(h, s) EXCEPT ![z] = new] /\ Zones(g, s) \in [Zone -> Nr]
        /\ new # 0 => g.table[s].dirt
        /\ new = 0 /\ Zones(h, s)[z] = 0 => g.table[s] = h.table[s]
    BY <1>1, <2>1, <2>2, SetZoneIs
  <2>4. Zones(h, s) = zone
    BY <2>1 DEF Zones
  <2>5. NewZone(f, s, z) = g
    BY <1>3 DEF NewZone, Zones, g, h, new
  <2> HIDE DEF g
  <2>6. Others(f, g, s) /\ (g.table[s].dirt \/ g.table[s] = f.table[s])
    BY <1>3, <2>1, <2>3, <2>4 DEF Others
  <2>7. CASE new = 0
    <3>1. zone \in [Zone -> Nr] /\ Zones(g, s) = zone
      BY <1>1, <1>3, <2>3, <2>4, <2>7 DEF OwnsIn
    <3>2. g.body = f.body /\ \A b \in Blk : b - 1 \in g.zmap <=> b - 1 \in f.zmap
      BY <2>1, <2>3, <2>7
    <3>3. /\ \A x \in Places : Part(g, zone, x) = Part(f, zone, x)
          /\ \A j : BlockOf(g, zone, j) = BlockOf(f, zone, j)
      BY <3>2 DEF Part, IndPart, DindPart, Ptr, BlockOf
    <3>4. OwnsIn(g, zone, X)
      BY <1>1, <3>2, <3>3 DEF OwnsIn
    <3> QED
      BY <1>1, <2>3, <2>5, <2>6, <3>1, <3>2, <3>3, <3>4 DEF GrownIn, HasIn
  <2>8. CASE new # 0
    <3>1. Fresh(f, zone, X, new)
      BY <1>1, <2>1, <2>8 DEF Fresh, IsFs
    <3>2. g.body = [f.body EXCEPT ![new] = ZeroBlk] /\ Zones(g, s) = [zone EXCEPT ![z] = new]
          /\ g.zmap = f.zmap \cup {new - 1} /\ new \in Blk /\ DOMAIN f.body = Blk
      BY <1>1, <2>1, <2>3, <2>4, <2>8 DEF IsFs
    <3>3. Gains(f, zone, g, Zones(g, s), ZonePlace(z), new)
      <4>1. Gains(f, zone, g, [zone EXCEPT ![z] = new], ZonePlace(z), new)
        BY <1>3, <3>1, <3>2, ZoneGains
      <4> QED
        BY <3>2, <4>1
    <3>4. ZonePlace(z) \in Places /\ Part(f, zone, ZonePlace(z)) = 0
      BY <1>3, PlaceKinds
    <3>5. OwnsIn(g, Zones(g, s), X)
      BY <2>3, <3>1, <3>2, <3>3, <3>4, GainsOwns
    <3>6. \A b \in Blk : b # new => g.body[b] = f.body[b]
      BY <3>2
    <3>7. X \in SUBSET Blk /\ new \notin X
      BY <1>1, <3>1, FreshIsNowhere DEF OwnsIn
    <3>8. ASSUME NEW j \in FileBlk, BlockOf(f, zone, j) # 0
          PROVE  g.body[BlockOf(f, zone, j)] = f.body[BlockOf(f, zone, j)]
      <4>1. BlockOf(f, zone, j) # new
        BY <3>1, DataPlaceIs, FreshIsNowhere
      <4>2. BlockOf(f, zone, j) \in Blk
        BY <1>1, <3>8, DataPlaceIs, Sizes DEF OwnsIn
      <4> QED
        BY <3>6, <4>1, <4>2
    <3>9. g.body[new] = ZeroBlk
      BY <3>2
    <3>10. \A j \in FileBlk :
               LET b == BlockOf(f, zone, j)
                   c == BlockOf(g, Zones(g, s), j)
               IN  /\ b # 0 => c = b /\ g.body[b] = f.body[b]
                   /\ b = 0 => c = 0 \/ (j = k /\ g.body[c] = ZeroBlk)
      BY <3>1, <3>3, <3>4, <3>8, <3>9, DataKept
    <3> QED
      BY <1>1, <2>3, <2>5, <2>6, <3>5, <3>6, <3>7, <3>10 DEF GrownIn, HasIn
  <2> QED
    BY <2>7, <2>8
<1> QED
  BY <1>2, <1>3

\* A block gets a place it has not.
LEMMA NewPtrGrows ==
    ASSUME NEW f, NEW s, NEW X, HasIn(f, s, X), NEW p, NEW i \in Low, NEW x, Below(p, i, x), NEW k,
           \A j \in FileBlk : DataPlace(j) = x => j = k
    PROVE  GrownIn(f, NewPtr(f, Part(f, Zones(f, s), p), i), s, X, k)
<1> DEFINE zone == Zones(f, s)
           b == Part(f, zone, p)
           new == NewBlockNr(f)
           h == NewBlock(f)
           g == SetPtr(h, b, i, new)
<1>1. IsFs(f) /\ s \in Slot /\ OwnsIn(f, zone, X) /\ Mapped(f, zone) /\ zone \in [Zone -> Nr]
  BY OwnsMapped DEF HasIn, OwnsIn
<1>2. p \in Places /\ x \in Places /\ Part(f, zone, x) = Ptr(f, b, i)
  BY BelowIs
<1>3. CASE b = 0 \/ Ptr(f, b, i) # 0
  BY <1>3, GrownNot DEF NewPtr
<1>4. CASE b # 0 /\ Ptr(f, b, i) = 0
  <2>1. /\ IsFs(h) /\ h.table = f.table
        /\ h.imap = f.imap /\ h.dev = f.dev /\ h.pinned = f.pinned /\ h.status = f.status
        /\ new # 0 => /\ new \in Blk /\ new - 1 \notin f.zmap /\ h.zmap = f.zmap \cup {new - 1}
                      /\ h.body = [f.body EXCEPT ![new] = ZeroBlk]
        /\ new = 0 => h.body = f.body /\ \A c \in Blk : c - 1 \in h.zmap <=> c - 1 \in f.zmap
    BY <1>1, NewBlockIs
  <2>2. b \in Blk /\ b \notin X
    BY <1>1, <1>2, <1>4, Sizes DEF OwnsIn
  <2>3. NewPtr(f, b, i) = g
    BY <1>4 DEF NewPtr
  <2> HIDE DEF h, new, g, b
  <2>4. CASE new = 0
    <3>1. g = h
      BY <2>4 DEF g, SetPtr
    <3>2. g.body = f.body /\ g.table = f.table /\ \A c \in Blk : c - 1 \in g.zmap <=> c - 1 \in f.zmap
      BY <2>1, <2>4, <3>1
    <3>3. /\ \A y \in Places : Part(g, zone, y) = Part(f, zone, y)
          /\ \A j : BlockOf(g, zone, j) = BlockOf(f, zone, j)
      BY <3>2 DEF Part, IndPart, DindPart, Ptr, BlockOf
    <3>4. OwnsIn(g, zone, X) /\ Zones(g, s) = zone
      BY <1>1, <3>2, <3>3 DEF OwnsIn, Zones
    <3>6. Others(f, g, s)
      BY <2>1, <3>1 DEF Others
    <3> QED
      BY <1>1, <2>1, <2>3, <3>1, <3>2, <3>3, <3>4, <3>6 DEF GrownIn, HasIn, b
  <2>5. CASE new # 0
    <3>1. Fresh(f, zone, X, new)
      BY <1>1, <2>1, <2>5 DEF Fresh, IsFs
    <3>2. new \in Nr \ {0} /\ b # new
      BY <1>2, <3>1, FreshIsNowhere DEF b
    <3>3. /\ IsFs(g) /\ g.zmap = h.zmap /\ g.table = h.table
          /\ g.imap = h.imap /\ g.dev = h.dev /\ g.pinned = h.pinned /\ g.status = h.status
          /\ g.body = [h.body EXCEPT ![b] = Put(@, i, new)]
      BY <2>1, <2>2, <3>2, SetPtrIs DEF g
    <3>4. /\ g.body = [[f.body EXCEPT ![new] = ZeroBlk] EXCEPT ![b] = Put(@, i, new)]
          /\ g.zmap = f.zmap \cup {new - 1} /\ new \in Blk /\ DOMAIN f.body = Blk
          /\ g.table = f.table
      BY <1>1, <2>1, <2>5, <3>3 DEF IsFs
    <3>5. Part(f, zone, p) # 0 /\ Part(f, zone, x) = 0
      BY <1>2, <1>4 DEF b
    <3>6. Gains(f, zone, g, zone, x, new)
      BY <3>1, <3>4, <3>5, PtrGains DEF b
    <3>7. Zones(g, s) = zone
      BY <3>4 DEF Zones
    <3>8. OwnsIn(g, zone, X)
      BY <1>1, <1>2, <3>1, <3>4, <3>5, <3>6, GainsOwns
    <3>9. \A c \in Blk : c # new /\ c # b => g.body[c] = f.body[c]
      <4> DEFINE body == [f.body EXCEPT ![new] = ZeroBlk]
      <4>1. DOMAIN body = Blk /\ \A c \in Blk : c # new => body[c] = f.body[c]
        BY <3>4
      <4>2. g.body = [body EXCEPT ![b] = Put(@, i, new)]
        BY <3>4
      <4> HIDE DEF body
      <4>3. \A c \in Blk : c # b => g.body[c] = body[c]
        BY <4>1, <4>2
      <4> QED
        BY <4>1, <4>3
    <3>10. X \in SUBSET Blk /\ new \notin X
      BY <1>1, <3>1, FreshIsNowhere DEF OwnsIn
    <3>11. ASSUME NEW j \in FileBlk, BlockOf(f, zone, j) # 0
          PROVE  g.body[BlockOf(f, zone, j)] = f.body[BlockOf(f, zone, j)]
      <4>1. BlockOf(f, zone, j) # new
        BY <3>1, DataPlaceIs, FreshIsNowhere
      <4>2. BlockOf(f, zone, j) # b
        BY <1>1, <3>11, OtherPlaces DEF b
      <4>3. BlockOf(f, zone, j) \in Blk
        BY <1>1, <3>11, DataPlaceIs, Sizes DEF OwnsIn
      <4> QED
        BY <3>9, <4>1, <4>2, <4>3
    <3>12. g.body[new] = ZeroBlk
      BY <2>2, <3>2, <3>4
    <3>13. \A j \in FileBlk :
               LET d == BlockOf(f, zone, j)
                   c == BlockOf(g, zone, j)
               IN  /\ d # 0 => c = d /\ g.body[d] = f.body[d]
                   /\ d = 0 => c = 0 \/ (j = k /\ g.body[c] = ZeroBlk)
      BY <3>1, <3>5, <3>6, <3>11, <3>12, DataKept
    <3>14. Others(f, g, s) /\ g.table[s] = f.table[s]
      BY <2>1, <3>3 DEF Others
    <3>15. \A c \in X : g.body[c] = f.body[c]
      BY <2>2, <3>9, <3>10
    <3> QED
      BY <1>1, <2>3, <3>3, <3>7, <3>8, <3>13, <3>14, <3>15 DEF GrownIn, HasIn, b
  <2> QED
    BY <2>4, <2>5
<1> QED
  BY <1>3, <1>4

(* create_block gives a file blocks that nobody had, and loses none if there  *)
(* is no room; the blocks of others stay as they are (inode.c:173-281).      *)
THEOREM CreateBlockKeepsOthers ==
    ASSUME NEW f, NEW s, NEW X, HasIn(f, s, X), NEW k \in FileBlk
    PROVE  GrownIn(f, CreateBlock(f, s, k), s, X, k)
<1>1. Ind \in Zone /\ Dind \in Zone
  BY Sizes
<1>0. \A j \in FileBlk : DataPlace(j) = DataPlace(k) => j = k
  BY DataPlacesApart
<1>2. CASE k \in Zone /\ k < Direct
  <2>1. k - Direct \notin 0 .. PerInd - 1
    BY <1>2, Sizes
  <2>2. CreateBlock(f, s, k) = NewZone(f, s, k)
    BY <1>2, <2>1 DEF CreateBlock
  <2>3. DataPlace(k) = ZonePlace(k)
    BY <1>2 DEF DataPlace
  <2> QED
    BY <1>0, <1>2, <2>2, <2>3, NewZoneGrows
<1>3. CASE ~(k < Direct) /\ k - Direct \in Low
  <2> DEFINE g == NewZone(f, s, Ind)
             i == k - Direct
  <2>1. GrownIn(f, g, s, X, k) /\ HasIn(g, s, X)
    <3>1. \A b \in FileBlk : DataPlace(b) = ZonePlace(Ind) => b = k
      BY DataPlacesApart
    <3>2. GrownIn(f, g, s, X, k)
      BY <1>1, <3>1, NewZoneGrows
    <3> QED
      BY <3>2 DEF GrownIn
  <2>2. CreateBlock(f, s, k) = InInd(g, s, i)
    BY <1>3 DEF CreateBlock, Low
  <2>6. DataPlace(k) = IndPlace(i)
    BY <1>3 DEF DataPlace
  <2> HIDE DEF g, i
  <2>3. InInd(g, s, i) = NewPtr(g, Part(g, Zones(g, s), ZonePlace(Ind)), i)
    <3>1. Part(g, Zones(g, s), ZonePlace(Ind)) = ZoneOf(g, s, Ind)
      BY <1>1, PlaceKinds DEF ZoneOf, Zones
    <3> QED
      BY <3>1 DEF InInd
  <2>4. i \in Low /\ Below(ZonePlace(Ind), i, IndPlace(i))
    BY <1>3 DEF i, Below
  <2>5. GrownIn(g, InInd(g, s, i), s, X, k)
    BY <1>0, <2>1, <2>3, <2>4, <2>6, NewPtrGrows
  <2> QED
    BY <2>1, <2>2, <2>5, GrownTwice
<1>4. CASE /\ ~(k < Direct) /\ k - Direct \notin Low
           /\ (k - Direct - PerInd) \div PerInd \in Low
           /\ (k - Direct - PerInd) % PerInd \in Low
  <2> DEFINE g == NewZone(f, s, Dind)
             j == k - Direct - PerInd
             h == InDind(g, s, j)
             a == j \div PerInd
             i == j % PerInd
  <2>1. GrownIn(f, g, s, X, k) /\ HasIn(g, s, X)
    <3>1. \A b \in FileBlk : DataPlace(b) = ZonePlace(Dind) => b = k
      BY DataPlacesApart
    <3>2. GrownIn(f, g, s, X, k)
      BY <1>1, <3>1, NewZoneGrows
    <3> QED
      BY <3>2 DEF GrownIn
  <2>2. CreateBlock(f, s, k) = BelowDind(h, s, j)
    BY <1>4 DEF CreateBlock, Low
  <2>3. a \in Low /\ i \in Low
    BY <1>4
  <2>9. DataPlace(k) = BelowPlace(a, i)
    BY <1>4 DEF DataPlace
  <2> HIDE DEF g, j
  <2>4. h = NewPtr(g, Part(g, Zones(g, s), ZonePlace(Dind)), a)
    <3>1. Part(g, Zones(g, s), ZonePlace(Dind)) = ZoneOf(g, s, Dind)
      BY <1>1, PlaceKinds DEF ZoneOf, Zones
    <3> QED
      BY <3>1 DEF InDind
  <2> HIDE DEF h
  <2>5. BelowDind(h, s, j) = NewPtr(h, Part(h, Zones(h, s), DindPlace(a)), i)
    <3> HIDE DEF a
    <3>0. \A zone, c : c \in Low => Part(h, zone, DindPlace(c)) = Ptr(h, zone[Dind], c)
      BY PlaceKinds
    <3>1. Part(h, Zones(h, s), DindPlace(a)) = Ptr(h, ZoneOf(h, s, Dind), a)
      BY <2>3, <3>0 DEF ZoneOf, Zones
    <3> QED
      BY <3>1 DEF BelowDind, a
  <2> HIDE DEF a, i
  <2>6. Below(ZonePlace(Dind), a, DindPlace(a)) /\ Below(DindPlace(a), i, BelowPlace(a, i))
    BY <2>3 DEF Below
  <2>10. \A b \in FileBlk : DataPlace(b) = DindPlace(a) => b = k
    BY <2>3, DataPlacesApart
  <2>7. GrownIn(g, h, s, X, k) /\ HasIn(h, s, X)
    <3>1. GrownIn(g, NewPtr(g, Part(g, Zones(g, s), ZonePlace(Dind)), a), s, X, k)
      BY <2>1, <2>3, <2>6, <2>10, NewPtrGrows
    <3>2. GrownIn(g, h, s, X, k)
      BY <2>4, <3>1
    <3> QED
      BY <3>2 DEF GrownIn
  <2>8. GrownIn(h, BelowDind(h, s, j), s, X, k)
    BY <1>0, <2>3, <2>5, <2>6, <2>7, <2>9, NewPtrGrows
  <2> QED
    BY <2>1, <2>2, <2>7, <2>8, GrownTwice
<1> QED
  BY <1>2, <1>3, <1>4, FileBlkIs

(* A file that owns all marked blocks still does, and has the same bytes. *)
THEOREM CreateBlockGrows ==
    ASSUME NEW f, NEW s, Has1(f, s), NEW k \in FileBlk
    PROVE  Grown(f, CreateBlock(f, s, k), s)
<1>1. HasIn(f, s, {})
  BY OwnsAlone DEF Has1, HasIn
<1> QED
  BY <1>1, CreateBlockKeepsOthers, GrownAlone
-----------------------------------------------------------------------------
(* clear_iblks. *)

ClearStep(g, b) == IF g.status # "ok" \/ b = 0 THEN g ELSE FreeBlock(g, b)

\* r is FS after every place up to m.
Clears(r, f, zone, m) ==
    r = [i \in -1 .. m |->
            IF i = -1 THEN f
            ELSE LET g == r[i - 1] b == Part(f, zone, i)
                 IN  IF g.status # "ok" \/ b = 0 THEN g ELSE FreeBlock(g, b)]

\* clear_iblks goes on from place to place.
LEMMA ClearsStep ==
    ASSUME NEW r, NEW f, NEW zone, NEW m \in Int, m >= -1, Clears(r, f, zone, m)
    PROVE  r[-1] = f /\ \A i \in 0 .. m : r[i] = ClearStep(r[i - 1], Part(f, zone, i))
<1>1. r[-1] = f
  <2>1. -1 \in -1 .. m
    OBVIOUS
  <2> QED
    BY <2>1 DEF Clears
<1>2. ASSUME NEW i \in 0 .. m PROVE r[i] = ClearStep(r[i - 1], Part(f, zone, i))
  <2>1. i \in -1 .. m /\ i # -1
    OBVIOUS
  <2> QED
    BY <2>1 DEF Clears, ClearStep
<1> QED
  BY <1>1, <1>2

\* There is one: otherwise there would be a least number of places without.
LEMMA ClearsExist ==
    ASSUME NEW f, NEW zone, NEW m \in Nat
    PROVE  \E r : Clears(r, f, zone, m)
<1> DEFINE bad == {k \in Nat : ~\E r : Clears(r, f, zone, k - 1)}
<1>1. ASSUME bad # {} PROVE FALSE
  <2>1. PICK k \in bad : \A j \in bad : k <= j
    BY <1>1, LeastExists
  <2>2. CASE k = 0
    <3> DEFINE r == [i \in -1 .. -1 |-> f]
    <3>1. \A i \in -1 .. -1 : i = -1
      OBVIOUS
    <3>2. r = [i \in -1 .. -1 |->
                  IF i = -1 THEN f
                  ELSE LET g == r[i - 1] b == Part(f, zone, i)
                       IN  IF g.status # "ok" \/ b = 0 THEN g ELSE FreeBlock(g, b)]
      BY <3>1, Zenon
    <3>3. Clears(r, f, zone, -1)
      BY <3>2, Zenon DEF Clears
    <3>4. k - 1 = -1
      BY <2>2
    <3> QED
      BY <2>1, <3>3, <3>4
  <2>3. CASE k # 0
    <3>1. k \in Nat /\ k - 1 \in Nat /\ k - 1 \notin bad /\ k - 1 \in Int /\ k - 1 - 1 >= -1
      BY <2>1, <2>3
    <3>2. PICK g : Clears(g, f, zone, k - 1 - 1)
      BY <3>1
    <3> DEFINE n == k - 1
               z == ClearStep(g[n - 1], Part(f, zone, n))
               r == [i \in -1 .. n |-> IF i = n THEN z ELSE g[i]]
    <3>3. n \in Nat /\ n - 1 >= -1 /\ n - 1 \in Int
      BY <3>1
    <3> HIDE DEF n
    <3>4. g[-1] = f /\ \A i \in 0 .. n - 1 : g[i] = ClearStep(g[i - 1], Part(f, zone, i))
      BY <3>2, <3>3, ClearsStep DEF n
    <3> HIDE DEF z
    <3>5. r[n] = z /\ \A i \in -1 .. n - 1 : r[i] = g[i]
      BY <3>3
    <3>6. r = [i \in -1 .. n |-> r[i]]
      OBVIOUS
    <3> HIDE DEF r
    <3>7. ASSUME NEW i \in -1 .. n
          PROVE  r[i] = IF i = -1 THEN f ELSE ClearStep(r[i - 1], Part(f, zone, i))
      <4>1. CASE i = n
        <5>1. r[i - 1] = g[n - 1] /\ i # -1
          BY <3>3, <3>5, <4>1
        <5> QED
          BY <3>5, <4>1, <5>1 DEF z
      <4>2. CASE i = -1
        BY <3>3, <3>4, <3>5, <4>2
      <4>3. CASE i # n /\ i # -1
        <5>1. r[i] = g[i] /\ r[i - 1] = g[i - 1] /\ i \in 0 .. n - 1
          BY <3>3, <3>5, <4>3
        <5> QED
          BY <3>4, <4>3, <5>1
      <4> QED
        BY <4>1, <4>2, <4>3
    <3>8. Clears(r, f, zone, n)
      BY <3>6, <3>7, Zenon DEF Clears, ClearStep
    <3> QED
      BY <2>1, <3>8 DEF n
  <2> QED
    BY <2>2, <2>3
<1>2. m + 1 \in Nat /\ m + 1 - 1 = m
  OBVIOUS
<1>3. m + 1 \notin bad
  BY <1>1
<1> QED
  BY <1>2, <1>3
(* The blocks at the places up to i are marked no more, nothing else changed. *)
Freed(f, zone, g, i) ==
    /\ DOMAIN g = Fields /\ g.table = f.table /\ g.dev = f.dev /\ g.body = f.body
    /\ g.imap = f.imap /\ g.pinned = f.pinned /\ g.status = f.status
    /\ g.zmap = {n \in f.zmap : \A x \in 0 .. i : Part(f, zone, x) # n + 1}

\* A file none of whose blocks anybody holds.
Clearable(f, zone) == IsFs(f) /\ Owns(f, zone) /\ f.pinned = {} /\ f.status = "ok"

\* One place more is given up.
LEMMA FreedStep ==
    ASSUME NEW f, NEW zone, Clearable(f, zone), NEW i \in Places, NEW g, Freed(f, zone, g, i - 1)
    PROVE  Freed(f, zone, ClearStep(g, Part(f, zone, i)), i)
<1> DEFINE b == Part(f, zone, i)
<1>1. /\ f.zmap \in SUBSET Nat /\ DOMAIN g = Fields /\ g.status = "ok" /\ g.pinned = {}
      /\ g.zmap = {n \in f.zmap : \A x \in 0 .. i - 1 : Part(f, zone, x) # n + 1}
      /\ b \in Nr
  BY DEF Clearable, IsFs, Freed, Owns
<1>2. i \in Nat /\ \A x : x \in 0 .. i <=> x \in 0 .. i - 1 \/ x = i
  BY DEF Places
<1>3. \A x \in 0 .. i - 1 : x \in Places /\ x # i
  BY <1>2, PlaceIsNumber DEF Places
<1>4. {n \in f.zmap : \A x \in 0 .. i : Part(f, zone, x) # n + 1} = {n \in g.zmap : b # n + 1}
  BY <1>1, <1>2
<1>5. CASE b = 0
  <2>1. \A n \in g.zmap : b # n + 1
    BY <1>1, <1>5
  <2>2. {n \in g.zmap : b # n + 1} = g.zmap
    BY <2>1
  <2>3. ClearStep(g, b) = g
    BY <1>5 DEF ClearStep
  <2> HIDE DEF b
  <2> QED
    BY <1>4, <2>2, <2>3 DEF Freed, b
<1>6. CASE b # 0
  <2>1. b \in Blk /\ b - 1 \in f.zmap
    BY <1>1, <1>6, Sizes DEF Clearable, Owns
  <2>2. \A x \in 0 .. i - 1 : Part(f, zone, x) # b
    BY <1>3, <1>6 DEF Clearable, Owns
  <2>3. b \in Int /\ b - 1 + 1 = b
    <3> HIDE DEF b
    <3>1. b \in Nat
      BY <2>1, Sizes
    <3> QED
      BY <3>1
  <2>4. b - 1 \in g.zmap
    BY <1>1, <2>1, <2>2, <2>3
  <2>5. ClearStep(g, b) = [g EXCEPT !.zmap = @ \ {b - 1}]
    <3>1. ClearStep(g, b) = FreeBlock(g, b)
      BY <1>1, <1>6 DEF ClearStep
    <3>2. b \notin g.pinned
      BY <1>1
    <3> HIDE DEF b
    <3>3. FreeBlock(g, b) = [g EXCEPT !.zmap = @ \ {b - 1}]
      BY <2>1, <2>4, <3>2 DEF FreeBlock
    <3> QED
      BY <3>1, <3>3
  <2>6. g.zmap \ {b - 1} = {n \in g.zmap : b # n + 1}
    BY <1>1, <2>3
  <2> HIDE DEF b
  <2> DEFINE h == ClearStep(g, b)
  <2>7. /\ DOMAIN h = Fields /\ h.table = g.table /\ h.dev = g.dev /\ h.body = g.body
        /\ h.imap = g.imap /\ h.pinned = g.pinned /\ h.status = g.status
        /\ h.zmap = g.zmap \ {b - 1}
    BY <1>1, <2>5 DEF Fields
  <2> HIDE DEF h
  <2>8. Freed(f, zone, h, i)
    BY <1>4, <2>6, <2>7 DEF Freed, b
  <2> QED
    BY <2>8 DEF b, h
<1> QED
  BY <1>5, <1>6

\* All places together.
LEMMA AllFreed ==
    ASSUME NEW f, NEW zone, Clearable(f, zone), NEW r, Clears(r, f, zone, LastPart)
    PROVE  Freed(f, zone, r[LastPart], LastPart)
<1>1. LastPart \in Nat /\ LastPart \in Int /\ LastPart >= -1
  BY PlaceIsNumber
<1>2. r[-1] = f /\ \A i \in 0 .. LastPart : r[i] = ClearStep(r[i - 1], Part(f, zone, i))
  BY <1>1, ClearsStep
<1> DEFINE bad == {k \in Nat : k <= LastPart /\ ~Freed(f, zone, r[k], k)}
<1>3. Freed(f, zone, f, -1)
  <2>1. f.zmap = {n \in f.zmap : \A x \in 0 .. -1 : Part(f, zone, x) # n + 1}
    OBVIOUS
  <2> QED
    BY <2>1 DEF Freed, Clearable, IsFs
<1>4. ASSUME bad # {} PROVE FALSE
  <2>1. PICK k \in bad : \A j \in bad : k <= j
    BY <1>4, LeastExists
  <2>2. k \in Places /\ k \in Nat
    BY <1>1, <2>1 DEF Places
  <2>3. Freed(f, zone, r[k - 1], k - 1)
    <3>1. CASE k = 0
      <4>1. k - 1 = -1
        BY <3>1
      <4> QED
        BY <1>2, <1>3, <4>1
    <3>2. CASE k # 0
      <4>1. k - 1 \in Nat /\ k - 1 \notin bad /\ k - 1 <= LastPart
        BY <1>1, <2>1, <3>2
      <4> QED
        BY <4>1
    <3> QED
      BY <3>1, <3>2
  <2>4. r[k] = ClearStep(r[k - 1], Part(f, zone, k))
    BY <1>2, <2>2 DEF Places
  <2>5. Freed(f, zone, r[k], k)
    BY <2>2, <2>3, <2>4, FreedStep
  <2> QED
    BY <2>1, <2>5
<1>5. LastPart \notin bad
  BY <1>4
<1> QED
  BY <1>1, <1>5

\* A file without zones has no blocks.
LEMMA NoParts ==
    ASSUME NEW f
    PROVE  \A x \in Places : Part(f, NoZones, x) = 0
<1> TAKE x \in Places
<1>1. /\ Ind \in Zone /\ Dind \in Zone
      /\ \A z \in Zone : NoZones[z] = 0
  BY Sizes DEF NoZones
<1>2. \A i : Ptr(f, 0, i) = 0
  BY DEF Ptr
<1>3. CASE \E z \in Zone : x = ZonePlace(z)
  BY <1>1, <1>3, PlaceKinds
<1>4. CASE \E i \in Low : x = IndPlace(i)
  BY <1>1, <1>2, <1>4, PlaceKinds
<1>5. CASE \E a \in Low : x = DindPlace(a)
  BY <1>1, <1>2, <1>5, PlaceKinds
<1>6. CASE \E a, i \in Low : x = BelowPlace(a, i)
  BY <1>1, <1>2, <1>6, PlaceKinds
<1> QED
  BY <1>3, <1>4, <1>5, <1>6, PlacesCovered

(* clear_iblks gives up the blocks of a file that nobody holds, every one    *)
(* once and none besides, and never crashes (inode.c:293-351).              *)
THEOREM ClearBlocksFrees ==
    ASSUME NEW f, NEW s, Has1(f, s), f.pinned = {}, f.status = "ok",
           f.table[s].node.mode = "reg"
    PROVE  LET g == ClearBlocks(f, s)
           IN  /\ Has1(g, s) /\ Zones(g, s) = NoZones
               /\ \A n \in g.zmap : n + 1 \notin Blk
               /\ g.imap = f.imap /\ g.dev = f.dev /\ g.pinned = {} /\ g.status = "ok"
               /\ g.body = f.body
               /\ \A t \in Slot \ {s} : g.table[t] = f.table[t]
               /\ g.table[s] \in TabEntry /\ g.table[s].num = f.table[s].num
               /\ g.table[s].cnt = f.table[s].cnt /\ g.table[s].dirt = f.table[s].dirt
               /\ g.table[s].node.mode = "reg" /\ g.table[s].node.size = 0
               /\ g.table[s].node.nlinks = f.table[s].node.nlinks
<1> DEFINE zone == Zones(f, s)
           r == CHOOSE q : Clears(q, f, zone, LastPart)
           h == r[LastPart]
           e == f.table[s]
           node1 == [e.node EXCEPT !.zone = NoZones]
           node2 == [node1 EXCEPT !.size = 0]
           g == ClearBlocks(f, s)
<1>1. Clearable(f, zone) /\ s \in Slot /\ IsFs(f)
  BY DEF Has1, Clearable
<1>2. Clears(r, f, zone, LastPart)
  BY ClearsExist, PlaceIsNumber
<1>3. Freed(f, zone, h, LastPart)
  BY <1>1, <1>2, AllFreed
<1>4. g = [h EXCEPT !.table[s].node.zone = NoZones, !.table[s].node.size = 0]
  BY DEF ClearBlocks, Clears, Zones
<1> HIDE DEF r, h
<1>5. e \in TabEntry /\ e.node \in Node /\ DOMAIN h = Fields /\ h.table = f.table
      /\ h.dev = f.dev /\ h.body = f.body /\ h.imap = f.imap /\ h.pinned = {} /\ h.status = "ok"
      /\ h.zmap = {n \in f.zmap : \A x \in 0 .. LastPart : Part(f, zone, x) # n + 1}
  BY <1>1, <1>3 DEF Freed, IsFs, TabEntry
<1>6. NoZones \in [Zone -> Nr]
  BY Sizes DEF NoZones
<1>7. /\ node1 \in Node /\ node2 \in Node /\ node2.zone = NoZones /\ node2.size = 0
      /\ node2.mode = e.node.mode /\ node2.nlinks = e.node.nlinks
  BY <1>5, <1>6 DEF Node, Nr
<1> DEFINE e1 == [e EXCEPT !.node = node1]
           f1 == [h EXCEPT !.table = [h.table EXCEPT ![s] = e1]]
           e2 == [f1.table[s] EXCEPT !.node = [f1.table[s].node EXCEPT !.size = 0]]
<1>8. g = [f1 EXCEPT !.table = [f1.table EXCEPT ![s] = e2]]
  BY <1>4, <1>5
<1> HIDE DEF node1, g
<1>9. e1 \in TabEntry /\ e1.node = node1 /\ e1.num = e.num /\ e1.cnt = e.cnt /\ e1.dirt = e.dirt
  BY <1>5, <1>7 DEF TabEntry
<1>10. /\ DOMAIN f1 = Fields /\ f1.table = [f.table EXCEPT ![s] = e1] /\ f1.table[s] = e1
       /\ f1.imap = h.imap /\ f1.zmap = h.zmap /\ f1.dev = h.dev /\ f1.body = h.body
       /\ f1.pinned = h.pinned /\ f1.status = h.status
  BY <1>1, <1>5 DEF IsFs, Fields
<1> HIDE DEF e1, f1
<1>11. /\ e2 \in TabEntry /\ e2.node = node2 /\ e2.num = e.num /\ e2.cnt = e.cnt
       /\ e2.dirt = e.dirt
  BY <1>7, <1>9, <1>10 DEF TabEntry
<1>12. /\ DOMAIN g = Fields /\ g.table = [f.table EXCEPT ![s] = e2]
       /\ g.imap = h.imap /\ g.zmap = h.zmap /\ g.dev = h.dev /\ g.body = h.body
       /\ g.pinned = h.pinned /\ g.status = h.status
  BY <1>1, <1>8, <1>10 DEF IsFs, Fields
<1> HIDE DEF e2
<1>13. g.table \in [Slot -> TabEntry] /\ g.table[s] = e2
       /\ \A t \in Slot \ {s} : g.table[t] = f.table[t]
  BY <1>1, <1>11, <1>12 DEF IsFs
<1>14. IsFs(g)
  BY <1>1, <1>5, <1>12, <1>13 DEF IsFs
<1>15. Zones(g, s) = NoZones
  BY <1>7, <1>11, <1>13 DEF Zones
<1>16. \A n \in g.zmap : n + 1 \notin Blk
  <2>1. SUFFICES ASSUME NEW n \in f.zmap, n + 1 \in Blk
                 PROVE  \E x \in Places : Part(f, zone, x) = n + 1
    BY <1>5, <1>12 DEF Places
  <2>2. n \in Int /\ n + 1 - 1 = n
    BY <1>1 DEF IsFs
  <2> QED
    BY <1>1, <2>1, <2>2 DEF Clearable, Owns
<1>17. Owns(g, NoZones)
  <2>1. \A x \in Places : Part(g, NoZones, x) = 0
    BY NoParts
  <2> QED
    BY <1>6, <1>12, <1>16, <2>1, Sizes DEF Owns
<1> QED
  BY <1>1, <1>5, <1>7, <1>11, <1>12, <1>13, <1>14, <1>15, <1>16, <1>17 DEF Has1, g
-----------------------------------------------------------------------------
(* The inode table: iget and iput. *)

\* No inode is in the table twice.
Unique(f) == \A s, t \in Slot : f.table[s].num # 0 /\ f.table[s].num = f.table[t].num => s = t

\* The entry of an inode in the table.
LEMMA EntryIs ==
    ASSUME NEW f, Unique(f), NEW s \in Slot, NEW n, f.table[s].num = n, n # 0
    PROVE  Has(f, n) /\ Entry(f, n) = s /\ Current(f, n) = f.table[s].node
<1>1. {t \in Slot : f.table[t].num = n} = {s}
  BY DEF Unique
<1>2. First({s}) = s
  BY FirstIsFound
<1> QED
  BY <1>1, <1>2 DEF Has, Entry, Current

\* An inode that is not in the table.
LEMMA EntryIsNot ==
    ASSUME NEW f, NEW n, \A s \in Slot : f.table[s].num # n
    PROVE  ~Has(f, n) /\ Current(f, n) = f.dev[n]
<1>1. {t \in Slot : f.table[t].num = n} = {}
  OBVIOUS
<1> QED
  BY <1>1 DEF Has, Current

\* In g entry s is e, all else is as in f.
Sets(f, g, s, e) ==
    /\ DOMAIN g = Fields
    /\ g.table = [f.table EXCEPT ![s] = e] /\ g.table[s] = e
    /\ \A t \in Slot \ {s} : g.table[t] = f.table[t]
    /\ g.imap = f.imap /\ g.zmap = f.zmap /\ g.dev = f.dev /\ g.body = f.body
    /\ g.pinned = f.pinned /\ g.status = f.status
    /\ IsFs(g)

\* Assigning to one entry keeps the others.
LEMMA TableSet ==
    ASSUME NEW f, IsFs(f), NEW s \in Slot, NEW e \in TabEntry
    PROVE  Sets(f, [f EXCEPT !.table = [f.table EXCEPT ![s] = e]], s, e)
<1> DEFINE table1 == [f.table EXCEPT ![s] = e]
           g == [f EXCEPT !.table = table1]
<1>1. table1 \in [Slot -> TabEntry] /\ table1[s] = e
      /\ \A t \in Slot \ {s} : table1[t] = f.table[t]
  BY DEF IsFs
<1> HIDE DEF table1
<1>2. /\ DOMAIN g = Fields /\ g.table = table1
      /\ g.imap = f.imap /\ g.zmap = f.zmap /\ g.dev = f.dev /\ g.body = f.body
      /\ g.pinned = f.pinned /\ g.status = f.status
  BY DEF IsFs, Fields
<1> HIDE DEF g
<1>3. IsFs(g)
  BY <1>1, <1>2 DEF IsFs
<1>4. Sets(f, g, s, e)
  BY <1>1, <1>2, <1>3 DEF Sets, table1
<1> QED
  BY <1>4 DEF g, table1

(* iget finds the inode in the table and counts it, or reads it into an      *)
(* entry that nobody uses and that needs no writing back; it is in the table *)
(* once (inode.c:95-133).                                                  *)
THEOREM IgetFinds ==
    ASSUME NEW f, IsFs(f), Unique(f), f.status = "ok", NEW n \in Inr, Has(f, n) \/ Spare(f) # {}
    PROVE  LET g == Iget(f, n)
               s == Entry(g, n)
               e == f.table[s]
           IN  /\ s \in Slot /\ g.table[s].num = n /\ Unique(g)
               /\ Sets(f, g, s, g.table[s])
               /\ \/ /\ e.num = n
                     /\ g.table[s] = [num |-> n, cnt |-> e.cnt + 1, dirt |-> e.dirt, node |-> e.node]
                  \/ /\ ~Has(f, n) /\ e.cnt = 0 /\ ~e.dirt
                     /\ g.table[s] = [num |-> n, cnt |-> 1, dirt |-> FALSE, node |-> f.dev[n]]
<1> DEFINE g == Iget(f, n)
<1>1. n # 0 /\ n \in {0} \cup Inr
  BY InodesAssumption DEF Inr
<1>2. CASE Has(f, n)
  <2>1. PICK s \in Slot : f.table[s].num = n
    BY <1>2 DEF Has
  <2> DEFINE e == f.table[s]
             e1 == [num |-> n, cnt |-> e.cnt + 1, dirt |-> e.dirt, node |-> e.node]
  <2>2. e \in TabEntry /\ e1 \in TabEntry
    BY <1>1 DEF IsFs, TabEntry
  <2>3. [e EXCEPT !.cnt = e.cnt + 1] = e1
    BY <2>1, <2>2 DEF TabEntry
  <2>4. g = [f EXCEPT !.table = [f.table EXCEPT ![s] = e1]]
    <3>1. Entry(f, n) = s
      BY <1>1, <2>1, EntryIs
    <3>2. g = [f EXCEPT !.table = [f.table EXCEPT ![s] = [e EXCEPT !.cnt = e.cnt + 1]]]
      BY <1>2, <3>1 DEF Iget
    <3> HIDE DEF g, e, e1
    <3> QED
      BY <2>3, <3>2
  <2> HIDE DEF g, e1
  <2>5. Sets(f, g, s, e1)
    BY <2>2, <2>4, TableSet
  <2>6. e1.num = n
    BY DEF e1
  <2>7. Unique(g)
    BY <2>1, <2>5, <2>6 DEF Unique, Sets
  <2>8. Entry(g, n) = s
    <3>1. g.table[s].num = n
      BY <2>6, <2>5 DEF Sets
    <3> QED
      BY <1>1, <2>7, <3>1, EntryIs
  <2>9. g.table[s] = e1
    BY <2>5 DEF Sets
  <2> QED
    BY <2>1, <2>5, <2>6, <2>7, <2>8, <2>9 DEF g, e1
<1>3. CASE ~Has(f, n)
  <2> DEFINE s == First(Spare(f))
             e1 == [num |-> n, cnt |-> 1, dirt |-> FALSE, node |-> f.dev[n]]
  <2>1. s \in Spare(f) /\ s \in Slot
    BY <1>3, FirstIsFound DEF Spare
  <2>2. g = [f EXCEPT !.table = [f.table EXCEPT ![s] = e1]]
    <3>1. WithSpare(f) = f
      BY <1>3 DEF WithSpare
    <3> QED
      BY <1>3, <3>1 DEF Iget, Fetch
  <2>3. e1 \in TabEntry
    BY <1>1 DEF TabEntry, IsFs
  <2> HIDE DEF g, s
  <2>4. e1.num = n
    OBVIOUS
  <2> HIDE DEF e1
  <2>5. Sets(f, g, s, e1)
    BY <2>1, <2>2, <2>3, TableSet
  <2>6. \A t \in Slot : f.table[t].num # n
    BY <1>3 DEF Has
  <2>7. Unique(g)
    BY <2>4, <2>5, <2>6 DEF Unique, Sets
  <2>8. Entry(g, n) = s
    <3>1. g.table[s].num = n
      BY <2>4, <2>5 DEF Sets
    <3> QED
      BY <1>1, <2>1, <2>7, <3>1, EntryIs
  <2>9. g.table[s] = e1
    BY <2>5 DEF Sets
  <2>10. f.table[s].cnt = 0 /\ ~f.table[s].dirt
    BY <2>1 DEF Spare
  <2> QED
    BY <1>3, <2>1, <2>4, <2>5, <2>7, <2>8, <2>9, <2>10 DEF g, e1
<1> QED
  BY <1>2, <1>3
\* An entry written back, or made dirty.
LEMMA DirtSet ==
    ASSUME NEW e \in TabEntry, NEW b \in BOOLEAN
    PROVE  LET e1 == [num |-> e.num, cnt |-> e.cnt, dirt |-> b, node |-> e.node]
           IN  e1 \in TabEntry /\ [e EXCEPT !.dirt = b] = e1
BY DEF TabEntry

(* iput of an inode that has a name, is dirty or stays in use counts it down  *)
(* and writes it back if it is dirty; it frees nothing (inode.c:136-163).    *)
THEOREM IputKeeps ==
    ASSUME NEW f, IsFs(f), NEW s \in Slot, f.table[s].num \in Inr, f.table[s].cnt > 0,
           f.table[s].dirt \/ f.table[s].node.nlinks # 0 \/ f.table[s].cnt > 1
    PROVE  LET g == Iput(f, s)
               e == f.table[s]
           IN  /\ IsFs(g)
               /\ g.imap = f.imap /\ g.zmap = f.zmap /\ g.body = f.body
               /\ g.pinned = f.pinned /\ g.status = f.status
               /\ \A t \in Slot \ {s} : g.table[t] = f.table[t]
               /\ g.table[s] = [num |-> e.num, cnt |-> e.cnt - 1, dirt |-> FALSE, node |-> e.node]
               /\ g.dev = IF e.dirt THEN [f.dev EXCEPT ![e.num] = e.node] ELSE f.dev
<1> DEFINE g == Iput(f, s)
           e == f.table[s]
           e1 == [num |-> e.num, cnt |-> e.cnt - 1, dirt |-> e.dirt, node |-> e.node]
           f1 == [f EXCEPT !.table = [f.table EXCEPT ![s] = e1]]
<1>1. e \in TabEntry /\ e.cnt \in Nat /\ e.cnt > 0
  BY DEF IsFs, TabEntry
<1>2. e1 \in TabEntry /\ [e EXCEPT !.cnt = e.cnt - 1] = e1
  BY <1>1 DEF TabEntry
<1>3. e1.num = e.num /\ e1.dirt = e.dirt /\ e1.node = e.node
  OBVIOUS
<1>4. g = Lessened(f1, s)
  <2>1. g = Lessened([f EXCEPT !.table = [f.table EXCEPT ![s] = [e EXCEPT !.cnt = e.cnt - 1]]], s)
    <3>1. f.table[s].cnt # 0
      BY <1>1
    <3> QED
      BY <3>1 DEF Iput
  <2> QED
    BY <1>2, <2>1
<1> DEFINE e2 == [num |-> e.num, cnt |-> e.cnt - 1, dirt |-> FALSE, node |-> e.node]
<1>5. e2 \in TabEntry /\ [e1 EXCEPT !.dirt = FALSE] = e2
  BY <1>2, DirtSet
<1>6. ~e.dirt => e1 = e2
  BY <1>1 DEF TabEntry
<1> HIDE DEF e1, e2, g
<1>7. Sets(f, f1, s, e1)
  BY <1>2, TableSet
<1> HIDE DEF f1
<1>8. CASE e.dirt
  <2> DEFINE dev1 == [f1.dev EXCEPT ![e.num] = e.node]
             f2 == [f1 EXCEPT !.dev = dev1]
  <2>1. f1.table[s] = e1 /\ e1.num # 0 /\ e1.dirt
    BY <1>3, <1>7, <1>8, InodesAssumption DEF Sets, Inr
  <2>2. g = [f2 EXCEPT !.table = [f2.table EXCEPT ![s] = [f2.table[s] EXCEPT !.dirt = FALSE]]]
    BY <1>3, <1>4, <2>1 DEF Lessened, WriteInode
  <2>3. dev1 \in [Inr -> Node]
    BY <1>1, <1>7 DEF Sets, IsFs, TabEntry
  <2>4. f1.dev = f.dev
    BY <1>7 DEF Sets
  <2> HIDE DEF dev1
  <2>5. /\ DOMAIN f2 = Fields /\ f2.dev = dev1 /\ f2.table = f1.table
        /\ f2.imap = f.imap /\ f2.zmap = f.zmap /\ f2.body = f.body
        /\ f2.pinned = f.pinned /\ f2.status = f.status
    BY <1>7 DEF Sets, Fields
  <2> HIDE DEF f2
  <2>6. IsFs(f2)
    BY <1>7, <2>3, <2>5 DEF Sets, IsFs
  <2>7. g = [f2 EXCEPT !.table = [f2.table EXCEPT ![s] = e2]]
    BY <1>5, <2>1, <2>2, <2>5
  <2>8. Sets(f2, g, s, e2)
    BY <1>5, <2>6, <2>7, TableSet
  <2>9. \A t \in Slot \ {s} : g.table[t] = f.table[t]
    BY <1>7, <2>5, <2>8 DEF Sets
  <2> QED
    BY <1>8, <2>4, <2>5, <2>8, <2>9 DEF Sets, dev1, e2, g
<1>9. CASE ~e.dirt
  <2>1. f1.table[s] = e1
    BY <1>7 DEF Sets
  <2>2. e1.cnt = e.cnt - 1
    BY DEF e1
  <2>3. e.node.nlinks # 0 \/ e.cnt - 1 # 0
    BY <1>1, <1>9
  <2>4. g = f1
    BY <1>3, <1>4, <1>9, <2>1, <2>2, <2>3 DEF Lessened
  <2> QED
    BY <1>6, <1>7, <1>9, <2>4 DEF Sets, e2, g
<1> QED
  BY <1>8, <1>9

(* sync_dev_inodes writes every entry that is dirty to the inode it has, and     *)
(* changes nothing that FS would find (inode.c:81-92).                      *)
THEOREM SyncKeeps ==
    ASSUME NEW f, IsFs(f), Unique(f), \A s \in Slot : f.table[s].dirt => f.table[s].num # 0
    PROVE  LET g == SyncInodes(f)
           IN  /\ IsFs(g) /\ Unique(g)
               /\ g.imap = f.imap /\ g.zmap = f.zmap /\ g.body = f.body
               /\ g.pinned = f.pinned /\ g.status = f.status
               /\ \A s \in Slot :
                     LET e == f.table[s]
                     IN  /\ g.table[s] = [num |-> e.num, cnt |-> e.cnt, dirt |-> FALSE, node |-> e.node]
                         /\ e.dirt => g.dev[e.num] = e.node
               /\ \A n \in Inr : (\A s \in Slot : f.table[s].num = n => ~f.table[s].dirt)
                                 => g.dev[n] = f.dev[n]
<1> DEFINE g == SyncInodes(f)
           dirty == {s \in Slot : f.table[s].num # 0 /\ f.table[s].dirt}
           dev1 == [n \in Inr |-> IF \E s \in dirty : f.table[s].num = n
                                  THEN f.table[CHOOSE s \in dirty : f.table[s].num = n].node
                                  ELSE f.dev[n]]
           row(s) == [num |-> f.table[s].num, cnt |-> f.table[s].cnt, dirt |-> FALSE,
                      node |-> f.table[s].node]
           table1 == [s \in Slot |-> row(s)]
<1>1. \A s \in Slot : f.table[s] \in TabEntry
  BY DEF IsFs
<1>2. \A s \in Slot : [f.table[s] EXCEPT !.dirt = FALSE] = row(s) /\ row(s) \in TabEntry
  BY <1>1, DirtSet
<1>3. g = [[f EXCEPT !.dev = dev1] EXCEPT !.table = table1]
  <2>1. [s \in Slot |-> [f.table[s] EXCEPT !.dirt = FALSE]] = table1
    BY <1>2
  <2> HIDE DEF table1
  <2>2. g = [[f EXCEPT !.dev = dev1] EXCEPT !.table = [s \in Slot |-> [f.table[s] EXCEPT !.dirt = FALSE]]]
    BY DEF SyncInodes
  <2> QED
    BY <2>1, <2>2
<1>4. \A s \in dirty : f.table[s].num \in Inr /\ dev1[f.table[s].num] = f.table[s].node
  <2> TAKE s \in dirty
  <2>1. f.table[s].num \in Inr
    BY <1>1 DEF TabEntry
  <2>2. \A t \in dirty : f.table[t].num = f.table[s].num <=> t = s
    BY DEF Unique
  <2>3. (CHOOSE t \in dirty : f.table[t].num = f.table[s].num) = s
    BY <2>2
  <2> QED
    BY <2>1, <2>3
<1>5. dev1 \in [Inr -> Node]
  <2>1. \A n \in Inr : f.dev[n] \in Node
    BY DEF IsFs
  <2>2. \A n \in Inr : (\E s \in dirty : f.table[s].num = n) => dev1[n] \in Node
    BY <1>1, <1>4 DEF TabEntry
  <2> QED
    BY <2>1, <2>2
<1>6. \A n \in Inr : (\A s \in Slot : f.table[s].num = n => ~f.table[s].dirt) => dev1[n] = f.dev[n]
  OBVIOUS
<1>7. table1 \in [Slot -> TabEntry] /\ \A s \in Slot : table1[s] = row(s)
  BY <1>2
<1> HIDE DEF table1, dev1
<1>8. /\ DOMAIN g = Fields /\ g.table = table1 /\ g.dev = dev1
      /\ g.imap = f.imap /\ g.zmap = f.zmap /\ g.body = f.body
      /\ g.pinned = f.pinned /\ g.status = f.status
  BY <1>3 DEF IsFs, Fields
<1> HIDE DEF g
<1>9. IsFs(g)
  BY <1>5, <1>7, <1>8 DEF IsFs
<1>10. Unique(g)
  BY <1>7, <1>8 DEF Unique
<1>11. \A s \in Slot : f.table[s].dirt => s \in dirty
  OBVIOUS
<1> HIDE DEF dirty
<1> QED
  BY <1>4, <1>6, <1>7, <1>8, <1>9, <1>10, <1>11 DEF g
-----------------------------------------------------------------------------
(* What a file's blocks depend on. *)

\* The blocks a file owns, and its bytes, depend on the blocks and the zone map.
LEMMA SameBlocks ==
    ASSUME NEW f, NEW g, NEW zone, g.body = f.body
    PROVE  /\ \A x \in Places : Part(g, zone, x) = Part(f, zone, x)
           /\ \A k, o : Data(g, zone, k, o) = Data(f, zone, k, o)
           /\ g.zmap = f.zmap /\ Owns(f, zone) => Owns(g, zone)
<1>1. \A b, i : Ptr(g, b, i) = Ptr(f, b, i)
  BY DEF Ptr
<1>2. \A x : Part(g, zone, x) = Part(f, zone, x)
  BY <1>1 DEF Part, IndPart, DindPart
<1>3. \A k : BlockOf(g, zone, k) = BlockOf(f, zone, k)
  BY <1>1 DEF BlockOf
<1>4. \A k, o : Data(g, zone, k, o) = Data(f, zone, k, o)
  BY <1>3 DEF Data
<1>5. ASSUME g.zmap = f.zmap, Owns(f, zone) PROVE Owns(g, zone)
  BY <1>2, <1>5 DEF Owns
<1> QED
  BY <1>2, <1>4, <1>5

\* A file without zones reads as zeros.
LEMMA NoData ==
    ASSUME NEW f, NEW k \in FileBlk, NEW o
    PROVE  Data(f, NoZones, k, o) = 0
BY NoParts, DataPlaceIs DEF Data

\* No block of zone numbers is one of data, so writing data moves no block.
LEMMA PlacesFilled ==
    ASSUME NEW f, NEW zone, Mapped(f, zone), NEW k \in FileBlk, BlockOf(f, zone, k) # 0,
           NEW g, \A b \in Blk : b # BlockOf(f, zone, k) => g.body[b] = f.body[b]
    PROVE  \A x \in Places : Part(g, zone, x) = Part(f, zone, x)
<1>1. ASSUME NEW p, NEW i \in Low, NEW x, Below(p, i, x), Part(g, zone, p) = Part(f, zone, p)
      PROVE  Part(g, zone, x) = Part(f, zone, x)
  <2> DEFINE b == Part(f, zone, p)
  <2>1. /\ p \in Places
        /\ Part(f, zone, x) = Ptr(f, b, i)
        /\ Part(g, zone, x) = Ptr(g, Part(g, zone, p), i)
    BY <1>1, BelowIs
  <2>2. b # BlockOf(f, zone, k)
    BY <1>1, OtherPlaces
  <2>3. b \in Nr
    BY <2>1 DEF Mapped
  <2> HIDE DEF b
  <2>4. CASE b = 0
    BY <1>1, <2>1, <2>4 DEF Ptr, b
  <2>5. CASE b # 0
    <3>1. b \in Blk
      BY <2>3, <2>5, Sizes
    <3>2. g.body[b] = f.body[b]
      BY <2>2, <3>1
    <3>3. Ptr(g, b, i) = Ptr(f, b, i)
      BY <3>2 DEF Ptr
    <3> QED
      BY <1>1, <2>1, <3>3 DEF b
  <2> QED
    BY <2>4, <2>5
<1>2. \A z \in Zone : Part(g, zone, ZonePlace(z)) = Part(f, zone, ZonePlace(z))
  BY PlaceKinds
<1>3. Ind \in Zone /\ Dind \in Zone
  BY Sizes
<1>4. \A i \in Low : Part(g, zone, IndPlace(i)) = Part(f, zone, IndPlace(i))
  BY <1>1, <1>2, <1>3 DEF Below
<1>5. \A a \in Low : Part(g, zone, DindPlace(a)) = Part(f, zone, DindPlace(a))
  BY <1>1, <1>2, <1>3 DEF Below
<1>6. \A a, i \in Low : Part(g, zone, BelowPlace(a, i)) = Part(f, zone, BelowPlace(a, i))
  BY <1>1, <1>5 DEF Below
<1> TAKE x \in Places
<1> QED
  BY <1>2, <1>4, <1>5, <1>6, PlacesCovered

\* The bytes in places S of data block k become c.
Refills(f, g, zone, k, S, c) ==
    /\ BlockOf(f, zone, k) # 0 /\ DOMAIN f.body = Blk
    /\ g.body = [f.body EXCEPT ![BlockOf(f, zone, k)] = Fill(@, S, c)]
    /\ g.zmap = f.zmap

\* Bytes written to a block are those of the file in that block.
LEMMA DataFilled ==
    ASSUME NEW f, NEW zone, Owns(f, zone), NEW k \in FileBlk, NEW S, NEW c, NEW g,
           Refills(f, g, zone, k, S, c)
    PROVE  /\ Owns(g, zone)
           /\ \A j \in FileBlk, o \in Nat : Data(g, zone, j, o) =
                 IF j = k /\ o \in S THEN c ELSE Data(f, zone, j, o)
<1> DEFINE b == BlockOf(f, zone, k)
<1>1. DataPlace(k) \in Places /\ b = Part(f, zone, DataPlace(k)) /\ b # 0 /\ g.zmap = f.zmap
  BY DataPlaceIs DEF Refills
<1>2. b \in Blk
  BY <1>1, Sizes DEF Owns
<1>3. /\ \A d \in Blk : d # b => g.body[d] = f.body[d]
      /\ g.body[b] = Fill(f.body[b], S, c)
  BY <1>2 DEF Refills
<1>4. \A x \in Places : Part(g, zone, x) = Part(f, zone, x)
  BY <1>1, <1>3, OwnsMapped, PlacesFilled
<1>5. Owns(g, zone)
  BY <1>1, <1>4 DEF Owns
<1>6. ASSUME NEW j \in FileBlk, NEW o \in Nat
      PROVE  Data(g, zone, j, o) = IF j = k /\ o \in S THEN c ELSE Data(f, zone, j, o)
  <2> DEFINE d == BlockOf(f, zone, j)
  <2>1. DataPlace(j) \in Places /\ d = Part(f, zone, DataPlace(j))
        /\ BlockOf(g, zone, j) = Part(g, zone, DataPlace(j))
    BY DataPlaceIs
  <2>2. BlockOf(g, zone, j) = d
    BY <1>4, <2>1
  <2>3. d = b => j = k
    BY <1>1, <2>1, DataPlacesApart DEF Owns
  <2>4. d # 0 => d \in Blk
    BY <2>1, Sizes DEF Owns
  <2>5. \A y : At(Fill(y, S, c), o, 0) = IF o \in S THEN c ELSE At(y, o, 0)
    BY DEF At, Fill
  <2>6. j = k => d = b
    OBVIOUS
  <2> HIDE DEF b, d
  <2>7. /\ Data(g, zone, j, o) = IF d = 0 THEN 0 ELSE At(g.body[d], o, 0)
        /\ Data(f, zone, j, o) = IF d = 0 THEN 0 ELSE At(f.body[d], o, 0)
    BY <2>2 DEF Data, d
  <2>8. b # 0
    BY <1>1
  <2> QED
    BY <1>3, <2>3, <2>4, <2>5, <2>6, <2>7, <2>8
<1> QED
  BY <1>5, <1>6
-----------------------------------------------------------------------------
(* The table of inodes during a call.  H says how often each entry is kept by *)
(* a descriptor, R how often each inode is kept by the call.                 *)

NoEntry == "no entry, searching for ever"

Zero       == [n \in Inr |-> 0]
Hold(R, n) == [R EXCEPT ![n] = @ + 1]
Less(R, n) == [R EXCEPT ![n] = @ - 1]

EntryOK(f, H, R, s) ==
    LET e == f.table[s]
    IN  /\ e.num \in f.imap
        /\ e.num = 0 => e.cnt = 0 /\ ~e.dirt
        /\ e.cnt = 0 => ~e.dirt
        /\ e.cnt > 0 /\ e.node.nlinks = 0 =>      \* open, and has no name any more
              ~e.dirt /\ e.node.mode # "dir" /\ R[e.num] = 0
        /\ e.num # 0 /\ ~e.dirt => e.node = f.dev[e.num]
        /\ e.cnt >= H[s] + (IF e.num = 0 THEN 0 ELSE R[e.num])

TableOK(f, H, R) ==
    /\ IsFs(f) /\ Unique(f)
    /\ f.imap \in SUBSET (0 .. InodeBits - 1) /\ 0 \in f.imap
    /\ f.pinned \in SUBSET Blk
    /\ H \in [Slot -> Nat] /\ R \in [Inr -> Nat]
    /\ \A s \in Slot : EntryOK(f, H, R, s)
    /\ \A n \in Inr : R[n] > 0 => Has(f, n)

-----------------------------------------------------------------------------
(* What is on the disk once everything is written: the inodes that are marked *)
(* as the table or else the device has them, and the blocks.                 *)

Disk(f) == [cur    |-> [n \in f.imap \cap Inr |-> Current(f, n)],
            zmap   |-> f.zmap,
            body   |-> f.body,
            pinned |-> f.pinned]

LiveIn(v) == {n \in DOMAIN v.cur : v.cur[n].nlinks > 0}

(* The table. *)

\* A function with x for one more argument, or for one it has.
With(c, n, x) == [m \in DOMAIN c \cup {n} |-> IF m = n THEN x ELSE c[m]]

\* What an entry and a node are.
LEMMA EntryIsTyped ==
    ASSUME NEW f, IsFs(f), NEW s \in Slot
    PROVE  /\ f.table[s] \in TabEntry /\ f.table[s].node \in Node
           /\ f.table[s].num \in {0} \cup Inr /\ f.table[s].cnt \in Nat /\ f.table[s].dirt \in BOOLEAN
           /\ f.table[s].node.nlinks \in Nat /\ f.table[s].node.size \in Nat
           /\ 0 \notin Inr
<1>1. f.table[s] \in TabEntry
  BY DEF IsFs
<1>2. /\ f.table[s].node \in Node /\ f.table[s].num \in {0} \cup Inr
      /\ f.table[s].cnt \in Nat /\ f.table[s].dirt \in BOOLEAN
  BY <1>1 DEF TabEntry
<1>3. f.table[s].node.nlinks \in Nat /\ f.table[s].node.size \in Nat
  BY <1>2 DEF Node
<1> QED
  BY <1>1, <1>2, <1>3 DEF Inr

\* The inodes on the disk, by the entries that have them.
LEMMA CurIs ==
    ASSUME NEW f, NEW H, NEW R, TableOK(f, H, R)
    PROVE  /\ DOMAIN Disk(f).cur = f.imap \cap Inr
           /\ Disk(f).zmap = f.zmap /\ Disk(f).body = f.body /\ Disk(f).pinned = f.pinned
           /\ \A s \in Slot : f.table[s].num # 0 =>
                 /\ f.table[s].num \in f.imap \cap Inr
                 /\ Disk(f).cur[f.table[s].num] = f.table[s].node
                 /\ Has(f, f.table[s].num) /\ Entry(f, f.table[s].num) = s
           /\ \A n \in f.imap \cap Inr : ~Has(f, n) => Disk(f).cur[n] = f.dev[n]
           /\ \A n \in f.imap \cap Inr : Disk(f).cur[n] \in Node
<1>1. DOMAIN Disk(f).cur = f.imap \cap Inr
      /\ \A n \in f.imap \cap Inr : Disk(f).cur[n] = Current(f, n)
  BY DEF Disk
<1>2. Disk(f).zmap = f.zmap /\ Disk(f).body = f.body /\ Disk(f).pinned = f.pinned
  BY DEF Disk
<1>3. ASSUME NEW s \in Slot, f.table[s].num # 0
      PROVE  /\ f.table[s].num \in f.imap \cap Inr
             /\ Disk(f).cur[f.table[s].num] = f.table[s].node
             /\ Has(f, f.table[s].num) /\ Entry(f, f.table[s].num) = s
  <2>1. f.table[s].num \in f.imap \cap Inr
    BY <1>3, EntryIsTyped DEF TableOK, EntryOK
  <2>2. Has(f, f.table[s].num) /\ Entry(f, f.table[s].num) = s
        /\ Current(f, f.table[s].num) = f.table[s].node
    BY <1>3, EntryIs DEF TableOK
  <2> QED
    BY <1>1, <2>1, <2>2
<1>4. ASSUME NEW n \in f.imap \cap Inr, ~Has(f, n)
      PROVE  Disk(f).cur[n] = f.dev[n] /\ f.dev[n] \in Node
  <2>1. Current(f, n) = f.dev[n]
    BY <1>4, EntryIsNot DEF Has
  <2> QED
    BY <1>1, <2>1 DEF TableOK, IsFs
<1>5. ASSUME NEW n \in f.imap \cap Inr
      PROVE  Disk(f).cur[n] \in Node
  <2>1. CASE Has(f, n)
    <3>1. PICK s \in Slot : f.table[s].num = n
      BY <2>1 DEF Has
    <3>2. f.table[s].node \in Node /\ n # 0
      BY EntryIsTyped DEF TableOK
    <3> QED
      BY <1>3, <3>1, <3>2
  <2>2. CASE ~Has(f, n)
    BY <1>4, <2>2
  <2> QED
    BY <2>1, <2>2
<1> QED
  BY <1>1, <1>2, <1>3, <1>4, <1>5

(* Two tables that have the same inodes have the same disk. *)
LEMMA SameDisk ==
    ASSUME NEW f, NEW H, NEW R, TableOK(f, H, R), NEW g, NEW H2, NEW R2, TableOK(g, H2, R2),
           g.imap = f.imap, g.zmap = f.zmap, g.body = f.body, g.pinned = f.pinned,
           \A n \in f.imap \cap Inr : Disk(g).cur[n] = Disk(f).cur[n]
    PROVE  Disk(g) = Disk(f)
<1>1. [n \in g.imap \cap Inr |-> Current(g, n)] = [n \in f.imap \cap Inr |-> Current(f, n)]
  <2>1. \A n \in f.imap \cap Inr : Current(g, n) = Current(f, n)
    BY Zenon DEF Disk
  <2> QED
    BY <2>1
<1> QED
  BY <1>1 DEF Disk

(* An entry that is used gets another node, and is dirty then. *)
LEMMA EntrySet ==
    ASSUME NEW f, NEW H, NEW R, TableOK(f, H, R), NEW s \in Slot,
           f.table[s].num # 0, f.table[s].cnt > 0,
           NEW g, IsFs(g), g.imap = f.imap, g.dev = f.dev, g.pinned \in SUBSET Blk,
           \A t \in Slot \ {s} : g.table[t] = f.table[t],
           g.table[s].num = f.table[s].num, g.table[s].cnt = f.table[s].cnt,
           g.table[s].node.nlinks > 0,
           g.table[s].dirt \/ g.table[s] = f.table[s]
    PROVE  /\ TableOK(g, H, R)
           /\ Disk(g).cur = With(Disk(f).cur, f.table[s].num, g.table[s].node)
<1> DEFINE n == f.table[s].num
<1>1. Unique(g)
  BY DEF TableOK, Unique
<1>2. \A t \in Slot : EntryOK(f, H, R, t)
  BY DEF TableOK
<1>3. EntryOK(g, H, R, s)
  BY <1>2, EntryIsTyped DEF EntryOK, TableOK
<1>4. \A t \in Slot \ {s} : EntryOK(g, H, R, t)
  BY <1>2 DEF EntryOK
<1>5. \A m : Has(f, m) <=> Has(g, m)
  BY DEF Has
<1>6. TableOK(g, H, R)
  BY <1>1, <1>3, <1>4, <1>5 DEF TableOK
<1>7. n \in f.imap \cap Inr /\ DOMAIN Disk(f).cur = f.imap \cap Inr /\ DOMAIN Disk(g).cur = f.imap \cap Inr
  BY <1>6, CurIs
<1>8. ASSUME NEW m \in f.imap \cap Inr
      PROVE  Disk(g).cur[m] = IF m = n THEN g.table[s].node ELSE Disk(f).cur[m]
  <2>1. CASE m = n
    BY <1>6, <2>1, CurIs
  <2>2. CASE m # n /\ Has(f, m)
    <3>1. PICK t \in Slot : f.table[t].num = m
      BY <2>2 DEF Has
    <3>2. m # 0 /\ t # s
      BY <2>2, <3>1, EntryIsTyped DEF TableOK
    <3>3. Disk(f).cur[m] = f.table[t].node
      BY <3>1, <3>2, CurIs
    <3>4. Disk(g).cur[m] = g.table[t].node
      BY <1>6, <3>1, <3>2, CurIs
    <3> QED
      BY <2>2, <3>2, <3>3, <3>4
  <2>3. CASE m # n /\ ~Has(f, m)
    <3>1. Disk(f).cur[m] = f.dev[m]
      BY <2>3, CurIs
    <3>2. Disk(g).cur[m] = g.dev[m]
      BY <1>5, <1>6, <2>3, CurIs
    <3> QED
      BY <2>3, <3>1, <3>2
  <2> QED
    BY <2>1, <2>2, <2>3
<1>9. Disk(g).cur = [m \in f.imap \cap Inr |-> Disk(g).cur[m]]
  BY DEF Disk
<1>10. With(Disk(f).cur, n, g.table[s].node)
         = [m \in f.imap \cap Inr |-> IF m = n THEN g.table[s].node ELSE Disk(f).cur[m]]
  <2>1. DOMAIN Disk(f).cur \cup {n} = f.imap \cap Inr
    BY <1>7
  <2> QED
    BY <2>1 DEF With
<1> HIDE DEF n
<1>11. Disk(g).cur = With(Disk(f).cur, n, g.table[s].node)
  BY Zenon, <1>8, <1>9, <1>10
<1> QED
  BY <1>6, <1>11 DEF n

\* The entries nobody uses are spare, writing back makes no other one spare.
LEMMA SpareIs ==
    ASSUME NEW f, NEW H, NEW R, TableOK(f, H, R)
    PROVE  /\ Spare(f) = {s \in Slot : f.table[s].cnt = 0}
           /\ Spare(f) = {} => /\ \A s \in Slot : f.table[s].cnt > 0
                               /\ WithSpare(f) = Crash(f, NoEntry)
           /\ Spare(f) # {} => WithSpare(f) = f
<1>1. \A s \in Slot : f.table[s].cnt \in Nat
  BY EntryIsTyped DEF TableOK
<1>2. Spare(f) = {s \in Slot : f.table[s].cnt = 0}
  BY DEF Spare, TableOK, EntryOK
<1>3. ASSUME Spare(f) = {}
      PROVE  /\ \A s \in Slot : f.table[s].cnt > 0
             /\ WithSpare(f) = Crash(f, NoEntry)
  <2>1. \A s \in Slot : f.table[s].cnt > 0
    BY <1>1, <1>2, <1>3
  <2>2. \A s \in Slot : f.table[s].dirt => f.table[s].num # 0
    BY DEF TableOK, EntryOK
  <2>3. \A s \in Slot : SyncInodes(f).table[s].cnt = f.table[s].cnt
    <3>1. IsFs(f) /\ Unique(f)
      BY DEF TableOK
    <3> TAKE s \in Slot
    <3> DEFINE e == f.table[s]
               row == [num |-> e.num, cnt |-> e.cnt, dirt |-> FALSE, node |-> e.node]
    <3>2. SyncInodes(f).table[s] = row
      BY <2>2, <3>1, SyncKeeps
    <3>3. row.cnt = e.cnt
      OBVIOUS
    <3> HIDE DEF row
    <3> QED
      BY <3>2, <3>3
  <2>4. Spare(SyncInodes(f)) = {}
    BY <2>1, <2>3 DEF Spare
  <2> QED
    BY <1>3, <2>1, <2>4 DEF WithSpare, NoEntry
<1> QED
  BY Zenon, <1>2, <1>3 DEF WithSpare

\* Stopping leaves the table as it is.
LEMMA Stopped ==
    ASSUME NEW f, NEW H, NEW R, TableOK(f, H, R), NEW why
    PROVE  TableOK(Crash(f, why), H, R) /\ Crash(f, why).status = why
<1> DEFINE g == Crash(f, why)
<1>1. /\ DOMAIN g = Fields /\ g.imap = f.imap /\ g.zmap = f.zmap /\ g.table = f.table
      /\ g.dev = f.dev /\ g.body = f.body /\ g.pinned = f.pinned /\ g.status = why
  BY DEF TableOK, IsFs, Fields, Crash
<1> HIDE DEF g
<1>2. IsFs(g)
  BY <1>1 DEF TableOK, IsFs
<1>3. TableOK(g, H, R)
  BY <1>1, <1>2 DEF TableOK, EntryOK, Unique, Has
<1> QED
  BY <1>1, <1>3 DEF g

\* Every entry is counted.
AllCounted(g) == \A s \in Slot : g.table[s].cnt > 0

(* FS could not get an entry and searches for one for ever. *)
Ended(g, H, R) == TableOK(g, H, R) /\ g.status = NoEntry /\ AllCounted(g)

(* iget keeps an inode that has a name, and changes nothing on the disk, or   *)
(* there is no entry (inode.c:95-133).                                      *)
LEMMA IgetHolds ==
    ASSUME NEW f, NEW H, NEW R, TableOK(f, H, R), f.status = "ok", NEW n \in LiveIn(Disk(f))
    PROVE  LET g == Iget(f, n)
           IN  \/ TableOK(g, H, Hold(R, n)) /\ Disk(g) = Disk(f) /\ g.status = "ok"
               \/ Ended(g, H, R)
<1> DEFINE g == Iget(f, n)
           R2 == Hold(R, n)
<1>1. n \in f.imap \cap Inr /\ Disk(f).cur[n].nlinks > 0 /\ n # 0
  BY CurIs, InodesAssumption DEF LiveIn, Inr
<1>2. CASE ~Has(f, n) /\ Spare(f) = {}
  <2>1. g = Crash(f, NoEntry)
    BY Zenon, <1>2, SpareIs DEF Iget, Fetch, Crash, TableOK, IsFs, Fields, NoEntry
  <2>2. AllCounted(f)
    BY <1>2, SpareIs DEF AllCounted
  <2>3. TableOK(g, H, R) /\ g.status = NoEntry
    BY <2>1, Stopped
  <2>4. g.table = f.table
    BY <2>1 DEF Crash, TableOK, IsFs, Fields
  <2> QED
    BY <2>2, <2>3, <2>4 DEF Ended, AllCounted
<1>3. CASE Has(f, n) \/ Spare(f) # {}
  <2> DEFINE s == Entry(g, n)
             e == f.table[s]
  <2>1. /\ s \in Slot /\ g.table[s].num = n /\ Unique(g)
        /\ Sets(f, g, s, g.table[s])
        /\ \/ /\ e.num = n
              /\ g.table[s] = [num |-> n, cnt |-> e.cnt + 1, dirt |-> e.dirt, node |-> e.node]
           \/ /\ ~Has(f, n) /\ e.cnt = 0 /\ ~e.dirt
              /\ g.table[s] = [num |-> n, cnt |-> 1, dirt |-> FALSE, node |-> f.dev[n]]
    BY <1>1, <1>3, IgetFinds DEF TableOK
  <2>2. /\ g.imap = f.imap /\ g.zmap = f.zmap /\ g.dev = f.dev /\ g.body = f.body
        /\ g.pinned = f.pinned /\ g.status = "ok" /\ IsFs(g)
        /\ \A t \in Slot \ {s} : g.table[t] = f.table[t]
    BY <2>1 DEF Sets
  <2> HIDE DEF g, s
  <2>3. \A t \in Slot : EntryOK(f, H, R, t)
    BY DEF TableOK
  <2>4. \A m \in Inr : R[m] > 0 => Has(f, m)
    BY DEF TableOK
  <2>5. R2 \in [Inr -> Nat] /\ R2[n] = R[n] + 1 /\ \A m \in Inr \ {n} : R2[m] = R[m]
    BY <1>1 DEF TableOK, Hold
  <2>6. e.num = n => Disk(f).cur[n] = e.node
    BY <1>1, <2>1, CurIs
  <2>7. ~Has(f, n) => Disk(f).cur[n] = f.dev[n]
    BY <1>1, CurIs
  <2>8. H[s] \in Nat /\ \A m \in Inr : R[m] \in Nat
    BY <2>1 DEF TableOK
  <2> HIDE DEF R2
  <2>9. EntryOK(g, H, R2, s)
    <3>1. CASE e.num = n /\ g.table[s] = [num |-> n, cnt |-> e.cnt + 1, dirt |-> e.dirt, node |-> e.node]
      <4>1. e.cnt \in Nat
        BY <2>1, EntryIsTyped DEF TableOK
      <4> QED
        BY <1>1, <2>1, <2>2, <2>3, <2>5, <2>6, <2>8, <3>1, <4>1 DEF EntryOK
    <3>2. CASE /\ ~Has(f, n) /\ e.cnt = 0 /\ ~e.dirt
               /\ g.table[s] = [num |-> n, cnt |-> 1, dirt |-> FALSE, node |-> f.dev[n]]
      <4>1. R[n] = 0
        BY <1>1, <2>4, <2>8, <3>2
      <4>2. H[s] = 0
        <5>1. 0 >= H[s] + (IF e.num = 0 THEN 0 ELSE R[e.num])
          BY <2>1, <2>3, <3>2 DEF EntryOK
        <5>2. e.num \in {0} \cup Inr
          BY <2>1, EntryIsTyped DEF TableOK
        <5> QED
          BY <2>8, <5>1, <5>2
      <4> QED
        BY <1>1, <2>2, <2>5, <2>7, <3>2, <4>1, <4>2 DEF EntryOK
    <3> QED
      BY <2>1, <3>1, <3>2
  <2>10. ASSUME NEW t \in Slot \ {s} PROVE EntryOK(g, H, R2, t)
    <3>1. f.table[t].num # n
      BY <1>1, <2>1, <2>2 DEF Unique
    <3>2. f.table[t].num # 0 => R2[f.table[t].num] = R[f.table[t].num]
      BY <2>5, <3>1, EntryIsTyped DEF TableOK
    <3> QED
      BY <2>2, <2>3, <3>2 DEF EntryOK
  <2>11. ASSUME NEW m \in Inr, R2[m] > 0 PROVE Has(g, m)
    <3>1. CASE m = n
      BY <2>1, <3>1 DEF Has
    <3>2. CASE m # n
      <4>1. R[m] > 0
        BY <2>5, <2>11, <3>2
      <4>2. PICK t \in Slot : f.table[t].num = m
        BY <2>4, <4>1 DEF Has
      <4>3. t # s
        <5>1. SUFFICES ASSUME t = s PROVE FALSE
          OBVIOUS
        <5>2. e.cnt = 0 /\ m # 0
          BY <2>1, <3>2, <4>2, <5>1, EntryIsTyped DEF TableOK
        <5>3. 0 >= H[s] + R[m]
          BY <2>1, <2>3, <4>2, <5>1, <5>2 DEF EntryOK
        <5> QED
          BY <2>8, <4>1, <5>3
      <4> QED
        BY <2>2, <4>2, <4>3 DEF Has
    <3> QED
      BY <3>1, <3>2
  <2>12. TableOK(g, H, R2)
    BY <2>1, <2>2, <2>5, <2>9, <2>10, <2>11 DEF TableOK
  <2>13. ASSUME NEW m \in f.imap \cap Inr
        PROVE  Disk(g).cur[m] = Disk(f).cur[m]
    <3>1. CASE m = n
      <4>1. Disk(g).cur[n] = g.table[s].node
        BY <1>1, <2>1, <2>12, CurIs
      <4> QED
        BY <2>1, <2>6, <2>7, <3>1, <4>1
    <3>2. CASE m # n /\ Has(f, m)
      <4>1. PICK t \in Slot : f.table[t].num = m
        BY <3>2 DEF Has
      <4>2. m # 0
        BY EntryIsTyped, <2>1 DEF TableOK
      <4>3. Disk(f).cur[m] = f.table[t].node
        BY <4>1, <4>2, CurIs
      <4>4. CASE t # s
        <5>1. Disk(g).cur[m] = g.table[t].node
          BY <2>2, <2>12, <4>1, <4>2, <4>4, CurIs
        <5> QED
          BY <2>2, <4>3, <4>4, <5>1
      <4>5. CASE t = s
        <5>1. ~e.dirt /\ e.num = m
          BY <2>1, <3>2, <4>1, <4>5
        <5>2. e.node = f.dev[m]
          BY <2>1, <2>3, <4>2, <5>1 DEF EntryOK
        <5>3. ~Has(g, m)
          <6>1. \A r \in Slot : r # s => f.table[r].num # m
            BY <2>1, <4>2, <5>1 DEF TableOK, Unique
          <6> QED
            BY <2>1, <2>2, <3>2, <6>1 DEF Has
        <5>4. Disk(g).cur[m] = g.dev[m]
          BY <2>2, <2>12, <5>3, CurIs
        <5> QED
          BY <2>2, <4>3, <4>5, <5>2, <5>4
      <4> QED
        BY <4>4, <4>5
    <3>3. CASE m # n /\ ~Has(f, m)
      <4>1. ~Has(g, m)
        BY <2>1, <2>2, <3>3 DEF Has
      <4>2. Disk(g).cur[m] = g.dev[m]
        BY <2>2, <2>12, <4>1, CurIs
      <4>3. Disk(f).cur[m] = f.dev[m]
        BY <3>3, CurIs
      <4> QED
        BY <2>2, <4>2, <4>3
    <3> QED
      BY <3>1, <3>2, <3>3
  <2>14. Disk(g) = Disk(f)
    BY <2>2, <2>12, <2>13, SameDisk
  <2> QED
    BY <2>2, <2>12, <2>14 DEF g, R2
<1> QED
  BY <1>2, <1>3
\* An inode the call keeps is in the table, and has a name.
LEMMA HeldIs ==
    ASSUME NEW f, NEW H, NEW R, TableOK(f, H, R), NEW n \in Inr, R[n] > 0
    PROVE  LET s == Entry(f, n)
           IN  /\ s \in Slot /\ f.table[s].num = n /\ n # 0 /\ Has(f, n)
               /\ f.table[s].cnt > 0 /\ f.table[s].cnt \in Nat
               /\ f.table[s].cnt >= H[s] + R[n] /\ H[s] \in Nat /\ R[n] \in Nat
               /\ n \in LiveIn(Disk(f)) /\ n \in f.imap \cap Inr
               /\ Disk(f).cur[n] = Mem(f, n).node /\ f.table[s].node.nlinks > 0
               /\ Less(R, n) \in [Inr -> Nat]
               /\ Less(R, n)[n] = R[n] - 1
               /\ \A m \in Inr \ {n} : Less(R, n)[m] = R[m]
<1>1. PICK s \in Slot : f.table[s].num = n
  BY DEF TableOK, Has
<1>2. n # 0 /\ R[n] \in Nat /\ H[s] \in Nat /\ f.table[s].cnt \in Nat
  BY EntryIsTyped DEF TableOK
<1>3. Entry(f, n) = s /\ Has(f, n)
  BY <1>1, <1>2, EntryIs DEF TableOK
<1>4. EntryOK(f, H, R, s)
  BY DEF TableOK
<1>5. f.table[s].cnt >= H[s] + R[n]
  BY <1>1, <1>2, <1>4 DEF EntryOK
<1>6. f.table[s].cnt > 0
  BY <1>2, <1>5
<1>7. f.table[s].node.nlinks > 0
  <2>1. f.table[s].node.nlinks # 0
    BY <1>1, <1>4, <1>6 DEF EntryOK
  <2>2. f.table[s].node.nlinks \in Nat
    BY EntryIsTyped DEF TableOK
  <2> QED
    BY <2>1, <2>2
<1>8. n \in f.imap \cap Inr /\ Disk(f).cur[n] = f.table[s].node /\ DOMAIN Disk(f).cur = f.imap \cap Inr
  BY <1>1, <1>2, CurIs
<1>9. n \in LiveIn(Disk(f))
  BY <1>7, <1>8 DEF LiveIn
<1>10. /\ Less(R, n) \in [Inr -> Nat]
       /\ Less(R, n)[n] = R[n] - 1
       /\ \A m \in Inr \ {n} : Less(R, n)[m] = R[m]
  <2>1. R \in [Inr -> Nat]
    BY DEF TableOK
  <2> QED
    BY <1>2, <2>1 DEF Less
<1> QED
  BY <1>1, <1>2, <1>3, <1>5, <1>6, <1>7, <1>8, <1>9, <1>10 DEF Mem

\* An inode has the node it has.
LEMMA WithSame ==
    ASSUME NEW c, c = [m \in DOMAIN c |-> c[m]], NEW n \in DOMAIN c
    PROVE  With(c, n, c[n]) = c
<1>1. DOMAIN c \cup {n} = DOMAIN c
  OBVIOUS
<1>2. With(c, n, c[n]) = [m \in DOMAIN c |-> IF m = n THEN c[n] ELSE c[m]]
  BY <1>1 DEF With
<1>3. \A m \in DOMAIN c : (IF m = n THEN c[n] ELSE c[m]) = c[m]
  OBVIOUS
<1>4. [m \in DOMAIN c |-> IF m = n THEN c[n] ELSE c[m]] = [m \in DOMAIN c |-> c[m]]
  BY <1>3
<1> QED
  BY <1>2, <1>4, Zenon

\* The inodes on the disk are a function.
LEMMA CurIsFun ==
    ASSUME NEW f
    PROVE  Disk(f).cur = [m \in DOMAIN Disk(f).cur |-> Disk(f).cur[m]]
<1> DEFINE c == [n \in f.imap \cap Inr |-> Current(f, n)]
<1>1. Disk(f).cur = c
  BY DEF Disk
<1>2. c = [m \in DOMAIN c |-> c[m]]
  OBVIOUS
<1> HIDE DEF c
<1> QED
  BY <1>1, <1>2

\* Two of the same disk.
LEMMA DiskIs ==
    ASSUME NEW f, NEW g
    PROVE  /\ Disk(g).zmap = g.zmap /\ Disk(g).body = g.body /\ Disk(g).pinned = g.pinned
           /\ g.zmap = f.zmap /\ g.body = f.body /\ g.pinned = f.pinned
                /\ Disk(g).cur = Disk(f).cur => Disk(g) = Disk(f)
BY DEF Disk

\* Entry s, which is used, changed in its node and maybe lost its last link: then
\* it is put back for the last time, or it is a file that is open.
ChangedAt(f, f2, s) ==
    /\ s \in Slot /\ f.table[s].num # 0 /\ f.table[s].cnt > 0
    /\ IsFs(f2) /\ f2.imap = f.imap /\ f2.dev = f.dev /\ f2.pinned = f.pinned
    /\ \A t \in Slot \ {s} : f2.table[t] = f.table[t]
    /\ f2.table[s].num = f.table[s].num /\ f2.table[s].cnt = f.table[s].cnt
    /\ f2.table[s].dirt \/ f2.table[s] = f.table[s]
    /\ \/ f2.table[s].node.nlinks > 0
       \/ f2.table[s].dirt /\ f2.table[s].cnt = 1
       \/ f2.table[s].node.mode # "dir" /\ f2.table[s].cnt > 1

\* Entry s is kept once less.
KeptLess(f, H, R, s, H2, R2) ==
    /\ H2 \in [Slot -> Nat] /\ R2 \in [Inr -> Nat]
    /\ \A t \in Slot : H2[t] <= H[t]
    /\ \A m \in Inr : R2[m] <= R[m]
    /\ f.table[s].cnt - 1 >= H2[s] + R2[f.table[s].num]

(* The inode in entry s is changed, and put back once: by a descriptor or by  *)
(* the call.  It is freed by neither (inode.c:136-163).                     *)
LEMMA PutChanged ==
    ASSUME NEW f, NEW H, NEW R, TableOK(f, H, R), NEW s, NEW f2, ChangedAt(f, f2, s),
           NEW H2, NEW R2, KeptLess(f, H, R, s, H2, R2),
           f2.table[s].node.nlinks > 0 \/ R2[f.table[s].num] = 0
    PROVE  LET g == Iput(f2, s)
           IN  /\ TableOK(g, H2, R2)
               /\ Disk(g).cur = With(Disk(f).cur, f.table[s].num, f2.table[s].node)
               /\ g.imap = f.imap /\ g.zmap = f2.zmap /\ g.body = f2.body
               /\ g.pinned = f.pinned /\ g.status = f2.status
               /\ \A t \in Slot \ {s} : g.table[t] = f.table[t]
               /\ g.table[s].num = f.table[s].num /\ g.table[s].cnt = f.table[s].cnt - 1
               /\ ~g.table[s].dirt /\ g.table[s].node = f2.table[s].node
<1> DEFINE g == Iput(f2, s)
           n == f.table[s].num
           e == f2.table[s]
           e2 == [num |-> e.num, cnt |-> e.cnt - 1, dirt |-> FALSE, node |-> e.node]
<1>01. /\ s \in Slot /\ n # 0 /\ f.table[s].cnt > 0
       /\ IsFs(f2) /\ f2.imap = f.imap /\ f2.dev = f.dev /\ f2.pinned = f.pinned
       /\ \A t \in Slot \ {s} : f2.table[t] = f.table[t]
       /\ e.num = n /\ e.cnt = f.table[s].cnt
       /\ e.dirt \/ e = f.table[s]
       /\ \/ e.node.nlinks > 0
          \/ e.dirt /\ e.cnt = 1
          \/ e.node.mode # "dir" /\ e.cnt > 1
  BY DEF ChangedAt
<1>02. /\ H2 \in [Slot -> Nat] /\ R2 \in [Inr -> Nat]
       /\ \A t \in Slot : H2[t] <= H[t]
       /\ \A m \in Inr : R2[m] <= R[m]
       /\ f.table[s].cnt - 1 >= H2[s] + R2[n]
  BY DEF KeptLess
<1> USE <1>01, <1>02
<1>1. n \in Inr /\ n \in f.imap \cap Inr /\ f.table[s].cnt \in Nat /\ e.node.nlinks \in Nat
      /\ DOMAIN Disk(f).cur = f.imap \cap Inr
  BY CurIs, EntryIsTyped DEF TableOK
<1>2. /\ IsFs(g) /\ g.imap = f2.imap /\ g.zmap = f2.zmap /\ g.body = f2.body
      /\ g.pinned = f2.pinned /\ g.status = f2.status
      /\ \A t \in Slot \ {s} : g.table[t] = f2.table[t]
      /\ g.table[s] = e2
      /\ g.dev = IF e.dirt THEN [f2.dev EXCEPT ![e.num] = e.node] ELSE f2.dev
  <2>1. f2.table[s].num \in Inr /\ f2.table[s].cnt > 0
    BY <1>1
  <2>2. f2.table[s].dirt \/ f2.table[s].node.nlinks # 0 \/ f2.table[s].cnt > 1
    BY <1>1
  <2> QED
    BY Zenon, <2>1, <2>2, IputKeeps
<1>3. e2.num = n /\ e2.cnt = f.table[s].cnt - 1 /\ ~e2.dirt /\ e2.node = e.node
  OBVIOUS
<1>4. e2 = [num |-> n, cnt |-> f.table[s].cnt - 1, dirt |-> FALSE, node |-> e.node]
  OBVIOUS
<1> HIDE DEF g, e2
<1>5. /\ \A t \in Slot : g.table[t].num = f.table[t].num
      /\ \A t \in Slot \ {s} : g.table[t] = f.table[t]
  BY <1>2, <1>3
<1>6. Unique(g) /\ Unique(f)
  BY <1>5 DEF Unique, TableOK
<1>7. \A t \in Slot : EntryOK(f, H, R, t)
  BY DEF TableOK
<1>8. g.dev[n] = e.node /\ \A m \in Inr \ {n} : g.dev[m] = f.dev[m]
  <2>1. e.dirt => g.dev = [f.dev EXCEPT ![n] = e.node]
    BY <1>2
  <2>2. ~e.dirt => g.dev = f.dev /\ e.node = f.dev[n]
    BY <1>2, <1>7 DEF EntryOK
  <2>3. f.dev \in [Inr -> Node]
    BY DEF TableOK, IsFs
  <2> QED
    BY <1>1, <2>1, <2>2, <2>3
<1>9. EntryOK(g, H2, R2, s)
  <2>1. g.table[s].num = n /\ g.table[s].cnt = f.table[s].cnt - 1 /\ ~g.table[s].dirt
        /\ g.table[s].node = e.node
    BY <1>2, <1>3
  <2>2. g.table[s].cnt > 0 /\ e.node.nlinks = 0 => e.node.mode # "dir" /\ R2[n] = 0
    BY <1>1, <2>1
  <2> QED
    BY <1>1, <1>2, <1>8, <2>1, <2>2 DEF EntryOK
<1>10. ASSUME NEW t \in Slot \ {s}
       PROVE  EntryOK(g, H2, R2, t)
  <2> DEFINE m == f.table[t].num
  <2>1. m # n
    BY <1>6 DEF Unique
  <2>2. m # 0 => m \in Inr /\ g.dev[m] = f.dev[m]
    BY <1>8, <2>1, EntryIsTyped DEF TableOK
  <2>3. H2[t] \in Nat /\ H[t] \in Nat /\ H2[t] <= H[t]
        /\ (m # 0 => R2[m] \in Nat /\ R[m] \in Nat /\ R2[m] <= R[m])
    BY <2>2 DEF TableOK
  <2>4. f.table[t].cnt \in Nat
    BY EntryIsTyped DEF TableOK
  <2>5. f.table[t].cnt >= H2[t] + (IF m = 0 THEN 0 ELSE R2[m])
    BY <1>7, <2>3, <2>4 DEF EntryOK
  <2>6. g.table[t] = f.table[t] /\ g.imap = f.imap
    BY <1>2, <1>5
  <2> QED
    BY <1>7, <2>2, <2>5, <2>6 DEF EntryOK
<1>11. \A m : Has(f, m) <=> Has(g, m)
  BY <1>5 DEF Has
<1>12. ASSUME NEW m \in Inr, R2[m] > 0
       PROVE  Has(g, m)
  BY <1>11, <1>12 DEF TableOK
<1>13. TableOK(g, H2, R2)
  BY <1>2, <1>6, <1>9, <1>10, <1>12 DEF TableOK
<1>14. ASSUME NEW m \in f.imap \cap Inr
       PROVE  Disk(g).cur[m] = IF m = n THEN e.node ELSE Disk(f).cur[m]
  <2>1. CASE m = n
    BY <1>1, <1>2, <1>3, <1>13, <2>1, CurIs
  <2>2. CASE m # n /\ Has(f, m)
    <3>1. PICK t \in Slot : f.table[t].num = m
      BY <2>2 DEF Has
    <3>2. m # 0 /\ t # s
      BY <2>2, <3>1, EntryIsTyped DEF TableOK
    <3>3. Disk(f).cur[m] = f.table[t].node
      BY <3>1, <3>2, CurIs
    <3>4. g.table[t] = f.table[t]
      BY <1>5, <3>2
    <3>5. Disk(g).cur[m] = g.table[t].node
      BY <1>13, <3>1, <3>2, <3>4, CurIs
    <3> QED
      BY <2>2, <3>3, <3>4, <3>5
  <2>3. CASE m # n /\ ~Has(f, m)
    <3>1. Disk(f).cur[m] = f.dev[m]
      BY <2>3, CurIs
    <3>2. ~Has(g, m) /\ m \in g.imap \cap Inr
      BY <1>2, <1>11, <2>3
    <3>3. Disk(g).cur[m] = g.dev[m]
      BY <1>13, <3>2, CurIs
    <3> QED
      BY <1>8, <2>3, <3>1, <3>3
  <2> QED
    BY <2>1, <2>2, <2>3
<1>15. Disk(g).cur = [m \in f.imap \cap Inr |-> Disk(g).cur[m]]
  BY <1>2 DEF Disk
<1>16. With(Disk(f).cur, n, e.node)
         = [m \in f.imap \cap Inr |-> IF m = n THEN e.node ELSE Disk(f).cur[m]]
  <2>1. DOMAIN Disk(f).cur \cup {n} = f.imap \cap Inr
    BY <1>1
  <2> QED
    BY <2>1 DEF With
<1> HIDE DEF n, e
<1>17. Disk(g).cur = With(Disk(f).cur, n, e.node)
  BY Zenon, <1>14, <1>15, <1>16
<1> QED
  BY <1>2, <1>4, <1>5, <1>13, <1>17 DEF g, n, e
\* An entry is put back once, by a descriptor or by the call.
LEMMA PutUnchanged ==
    ASSUME NEW f, NEW H, NEW R, TableOK(f, H, R), NEW s \in Slot,
           f.table[s].num # 0, f.table[s].cnt > 0,
           f.table[s].node.nlinks > 0 \/ f.table[s].cnt > 1,
           NEW H2, NEW R2, KeptLess(f, H, R, s, H2, R2)
    PROVE  LET g == Iput(f, s)
           IN  TableOK(g, H2, R2) /\ Disk(g) = Disk(f) /\ g.status = f.status
<1> DEFINE n == f.table[s].num
           f2 == f
           g == Iput(f2, s)
<1>1. IsFs(f) /\ n \in DOMAIN Disk(f).cur /\ Disk(f).cur[n] = f.table[s].node
  BY CurIs DEF TableOK
<1>2. /\ f.table[s].node.nlinks > 0 \/ (f.table[s].node.mode # "dir" /\ f.table[s].cnt > 1)
      /\ f.table[s].node.nlinks > 0 \/ R2[n] = 0
  <2>1. f.table[s].node.nlinks \in Nat /\ n \in Inr
    BY EntryIsTyped DEF TableOK
  <2>2. EntryOK(f, H, R, s)
    BY DEF TableOK
  <2>3. R2[n] \in Nat /\ R[n] \in Nat /\ R2[n] <= R[n]
    BY <2>1 DEF KeptLess, TableOK
  <2>4. f.table[s].node.nlinks = 0 => f.table[s].node.mode # "dir" /\ R[n] = 0
    BY <2>2 DEF EntryOK
  <2> QED
    BY <2>1, <2>3, <2>4
<1>3. /\ ChangedAt(f, f2, s)
      /\ f2.table[s].node = f.table[s].node
      /\ f2.pinned = f.pinned
      /\ f2.zmap = f.zmap /\ f2.body = f.body /\ f2.status = f.status
  BY <1>1, <1>2 DEF ChangedAt
<1>a. f2.table[s].node.nlinks > 0 \/ R2[f.table[s].num] = 0
  BY <1>2
<1> HIDE DEF f2
<1>4. /\ TableOK(g, H2, R2)
      /\ Disk(g).cur = With(Disk(f).cur, f.table[s].num, f2.table[s].node)
      /\ g.imap = f.imap /\ g.zmap = f2.zmap /\ g.body = f2.body
      /\ g.pinned = f.pinned /\ g.status = f2.status
  BY <1>3, <1>a, PutChanged
<1> HIDE DEF g
<1>5. Disk(g).cur = With(Disk(f).cur, n, Disk(f).cur[n])
  BY <1>1, <1>3, <1>4
<1> HIDE DEF n
<1>6. Disk(g).cur = Disk(f).cur
  BY Zenon, <1>1, <1>5, CurIsFun, WithSame
<1>7. Disk(g) = Disk(f)
  BY <1>3, <1>4, <1>6, DiskIs
<1> QED
  BY <1>4, <1>3, <1>7 DEF g, f2

(* new_inode gets an inode nobody had, with one link, and an entry for it, or  *)
(* there is none (bitmap.c:111-151).                                        *)
LEMMA NewInodeHolds ==
    ASSUME NEW f, NEW H, NEW R, TableOK(f, H, R), f.status = "ok", NewInodeNr(f) # 0
    PROVE  LET g == NewInode(f)
               n == NewInodeNr(f)
           IN  /\ n \in Inr /\ n \notin f.imap /\ n \notin DOMAIN Disk(f).cur
               /\ \/ Ended(g, H, R)
                  \/ /\ TableOK(g, H, Hold(R, n)) /\ g.status = "ok"
                     /\ g.imap = f.imap \cup {n} /\ g.zmap = f.zmap /\ g.body = f.body
                     /\ g.pinned = f.pinned
                     /\ Disk(g).cur = With(Disk(f).cur, n, Mem(g, n).node)
                     /\ Mem(g, n).cnt = 1 /\ Mem(g, n).dirt /\ Mem(g, n).node.nlinks = 1
<1> DEFINE n == NewInodeNr(f)
           g == NewInode(f)
           f1 == [f EXCEPT !.imap = @ \cup {n}]
           R2 == Hold(R, n)
<1>1. n \in Inr /\ n \notin f.imap /\ n \notin DOMAIN Disk(f).cur /\ n # 0
  BY NewInodeWasFree, CurIs DEF TableOK
<1>2. g = Occupy(WithSpare(f1), n)
  BY <1>1 DEF NewInode, InodeAs
<1> HIDE DEF n
<1>3. /\ DOMAIN f1 = Fields /\ f1.imap = f.imap \cup {n} /\ f1.zmap = f.zmap /\ f1.table = f.table
      /\ f1.dev = f.dev /\ f1.body = f.body /\ f1.pinned = f.pinned /\ f1.status = f.status
  BY DEF TableOK, IsFs, Fields
<1> HIDE DEF f1, g
<1>4. IsFs(f1) /\ Unique(f1)
  BY <1>3 DEF TableOK, IsFs, Unique
<1>5. f1.imap \in SUBSET (0 .. InodeBits - 1) /\ 0 \in f1.imap
  BY <1>1, <1>3 DEF TableOK, Inr
<1>6. TableOK(f1, H, R)
  <2>1. \A s \in Slot : EntryOK(f1, H, R, s)
    BY <1>3 DEF TableOK, EntryOK
  <2>2. \A m : Has(f1, m) <=> Has(f, m)
    BY <1>3 DEF Has
  <2> QED
    BY <1>3, <1>4, <1>5, <2>1, <2>2 DEF TableOK
<1>7. \A s \in Slot : f.table[s].num # n
  BY <1>1 DEF TableOK, EntryOK
<1>8. R \in [Inr -> Nat] /\ H \in [Slot -> Nat] /\ R[n] = 0
  <2>1. R[n] \in Nat /\ ~(R[n] > 0)
    BY <1>1, <1>7 DEF TableOK, Has
  <2> QED
    BY <2>1 DEF TableOK
<1>9. R2 \in [Inr -> Nat] /\ R2[n] = 1 /\ \A m \in Inr \ {n} : R2[m] = R[m]
  BY <1>1, <1>8 DEF Hold
<1> HIDE DEF R2
<1>10. CASE Spare(f1) = {}
  <2>1. WithSpare(f1) = Crash(f1, NoEntry) /\ \A s \in Slot : f1.table[s].cnt > 0
    BY <1>6, <1>10, SpareIs
  <2>2. g = Crash(f1, NoEntry)
    <3>1. Crash(f1, NoEntry).status = NoEntry /\ NoEntry # "ok"
      BY Zenon, <1>6, Stopped DEF NoEntry
    <3> QED
      BY <1>2, <2>1, <3>1 DEF Occupy
  <2>3. TableOK(g, H, R) /\ g.status = NoEntry
    BY <1>6, <2>2, Stopped
  <2>4. g.table = f1.table
    BY <1>3, <2>2 DEF Crash, Fields
  <2>5. Ended(g, H, R)
    BY <2>1, <2>3, <2>4 DEF Ended, AllCounted
  <2> QED
    BY <1>1, <2>5 DEF g, n
<1>11. CASE Spare(f1) # {}
  <2> DEFINE s == First(Spare(f1))
             e == f1.table[s]
             nd == [e.node EXCEPT !.nlinks = 1]
             e1 == [num |-> n, cnt |-> 1, dirt |-> TRUE, node |-> nd]
  <2>1. WithSpare(f1) = f1 /\ s \in Slot /\ e.cnt = 0 /\ s \in Spare(f1)
    BY <1>6, <1>11, SpareIs, FirstIsFound
  <2>2. g = [f1 EXCEPT !.table = [f1.table EXCEPT ![s] = e1]]
    BY Zenon, <1>2, <1>3, <2>1 DEF Occupy
  <2>3. e.node \in Node
    BY <1>4, <2>1, EntryIsTyped
  <2>4. nd \in Node /\ nd.nlinks = 1
    BY <2>3, InodesAssumption DEF Node
  <2> HIDE DEF nd
  <2>5. e1 \in TabEntry
    BY <1>1, <2>4 DEF TabEntry
  <2>6. e1.num = n /\ e1.cnt = 1 /\ e1.dirt /\ e1.node = nd
    OBVIOUS
  <2> HIDE DEF s, e1
  <2>7. Sets(f1, g, s, e1)
    BY <1>4, <2>1, <2>2, <2>5, TableSet
  <2>8. /\ g.imap = f1.imap /\ g.zmap = f.zmap /\ g.dev = f.dev /\ g.body = f.body
        /\ g.pinned = f.pinned /\ g.status = "ok" /\ IsFs(g)
        /\ g.table[s] = e1 /\ \A t \in Slot \ {s} : g.table[t] = f.table[t]
    BY <1>3, <2>7 DEF Sets
  <2>9. Unique(g)
    BY <1>3, <1>4, <1>7, <2>1, <2>6, <2>8 DEF Unique
  <2>10. \A t \in Slot : EntryOK(f, H, R, t)
    BY DEF TableOK
  <2>11. EntryOK(g, H, R2, s)
    <3>1. H[s] = 0
      <4>1. H[s] \in Nat /\ (e.num # 0 => R[e.num] \in Nat)
        BY <1>4, <1>8, <2>1, EntryIsTyped
      <4>2. 0 >= H[s] + (IF e.num = 0 THEN 0 ELSE R[e.num])
        BY <1>3, <2>1, <2>10 DEF EntryOK
      <4> QED
        BY <4>1, <4>2
    <3> QED
      BY <1>1, <1>3, <1>9, <2>4, <2>6, <2>8, <3>1 DEF EntryOK
  <2>12. ASSUME NEW t \in Slot \ {s} PROVE EntryOK(g, H, R2, t)
    <3>1. f.table[t].num # 0 => R2[f.table[t].num] = R[f.table[t].num]
      BY <1>7, <1>9, EntryIsTyped DEF TableOK
    <3> QED
      BY <1>3, <2>8, <2>10, <3>1 DEF EntryOK
  <2>13. Has(g, n)
    BY <2>1, <2>6, <2>8 DEF Has
  <2>14. ASSUME NEW m \in Inr, R2[m] > 0 PROVE Has(g, m)
    <3>1. CASE m = n
      BY <2>13, <3>1
    <3>2. CASE m # n
      <4>1. R[m] > 0 /\ R[m] \in Nat
        BY <1>8, <1>9, <2>14, <3>2
      <4>2. PICK t \in Slot : f.table[t].num = m
        BY <4>1 DEF TableOK, Has
      <4>3. t # s
        <5>1. SUFFICES ASSUME t = s PROVE FALSE
          OBVIOUS
        <5>2. m # 0 /\ H[s] \in Nat
          BY <1>8, <2>1, <4>2, EntryIsTyped DEF TableOK
        <5>3. 0 >= H[s] + R[m]
          BY <1>3, <2>1, <2>10, <4>2, <5>1, <5>2 DEF EntryOK
        <5> QED
          BY <4>1, <5>2, <5>3
      <4> QED
        BY <2>8, <4>2, <4>3 DEF Has
    <3> QED
      BY <3>1, <3>2
  <2>15. TableOK(g, H, R2)
    BY <1>3, <1>5, <1>8, <1>9, <2>8, <2>9, <2>11, <2>12, <2>14 DEF TableOK
  <2>16. Entry(g, n) = s
    BY <1>1, <2>1, <2>6, <2>8, <2>9, EntryIs
  <2>17. ASSUME NEW m \in (f.imap \cap Inr) \cup {n}
         PROVE  Disk(g).cur[m] = IF m = n THEN e1.node ELSE Disk(f).cur[m]
    <3>0. m \in g.imap \cap Inr
      BY <1>1, <1>3, <2>8
    <3>1. CASE m = n
      BY <1>1, <2>1, <2>6, <2>8, <2>15, <3>1, CurIs
    <3>2. CASE m # n /\ Has(f, m)
      <4>1. PICK t \in Slot : f.table[t].num = m
        BY <3>2 DEF Has
      <4>2. m # 0
        BY <1>1, EntryIsTyped DEF TableOK
      <4>3. Disk(f).cur[m] = f.table[t].node
        BY <4>1, <4>2, CurIs
      <4>4. CASE t # s
        <5>1. g.table[t] = f.table[t]
          BY <2>8, <4>4
        <5>2. Disk(g).cur[m] = g.table[t].node
          BY <2>15, <4>1, <4>2, <5>1, CurIs
        <5> QED
          BY <3>2, <4>3, <5>1, <5>2
      <4>5. CASE t = s
        <5>1. ~f.table[s].dirt
          BY <1>3, <2>1 DEF Spare
        <5>2. f.table[s].node = f.dev[m]
          BY <2>1, <2>10, <4>1, <4>2, <4>5, <5>1 DEF EntryOK
        <5>3. ~Has(g, m)
          <6>1. \A r \in Slot : r # s => f.table[r].num # m
            BY <4>1, <4>2, <4>5 DEF TableOK, Unique
          <6> QED
            BY <2>6, <2>8, <3>2, <6>1 DEF Has
        <5>4. Disk(g).cur[m] = g.dev[m]
          BY <2>15, <3>0, <5>3, CurIs
        <5> QED
          BY <2>8, <3>2, <4>3, <4>5, <5>2, <5>4
      <4> QED
        BY <4>4, <4>5
    <3>3. CASE m # n /\ ~Has(f, m)
      <4>1. ~Has(g, m)
        BY <2>6, <2>8, <3>3 DEF Has
      <4>2. Disk(g).cur[m] = g.dev[m]
        BY <2>15, <3>0, <4>1, CurIs
      <4>3. Disk(f).cur[m] = f.dev[m]
        BY <3>3, CurIs
      <4> QED
        BY <2>8, <3>3, <4>2, <4>3
    <3> QED
      BY <3>1, <3>2, <3>3
  <2>18. Disk(g).cur = [m \in (f.imap \cap Inr) \cup {n} |-> Disk(g).cur[m]]
    <3>1. g.imap \cap Inr = (f.imap \cap Inr) \cup {n}
      BY <1>1, <1>3, <2>8
    <3> QED
      BY <3>1 DEF Disk
  <2>19. With(Disk(f).cur, n, e1.node)
           = [m \in (f.imap \cap Inr) \cup {n} |-> IF m = n THEN e1.node ELSE Disk(f).cur[m]]
    <3>1. DOMAIN Disk(f).cur = f.imap \cap Inr
      BY CurIs
    <3> QED
      BY <3>1 DEF With
  <2>20. Disk(g).cur = With(Disk(f).cur, n, e1.node)
    BY <2>17, <2>18, <2>19
  <2>21. Mem(g, n) = e1
    BY <2>8, <2>16 DEF Mem
  <2> QED
    BY <1>1, <1>3, <2>4, <2>6, <2>8, <2>15, <2>20, <2>21 DEF g, n, R2
<1> QED
  BY <1>10, <1>11

\* sync_all changes nothing FS would find.
LEMMA SyncHolds ==
    ASSUME NEW f, NEW H, NEW R, TableOK(f, H, R)
    PROVE  LET g == SyncInodes(f)
           IN  TableOK(g, H, R) /\ Disk(g) = Disk(f) /\ g.status = f.status
<1> DEFINE g == SyncInodes(f)
<1>1. \A s \in Slot : EntryOK(f, H, R, s)
  BY DEF TableOK
<1>2. \A s \in Slot : f.table[s].dirt => f.table[s].num # 0
  BY <1>1 DEF EntryOK
<1>3. IsFs(f) /\ Unique(f)
  BY DEF TableOK
<1>4. /\ IsFs(g) /\ Unique(g)
      /\ g.imap = f.imap /\ g.zmap = f.zmap /\ g.body = f.body
      /\ g.pinned = f.pinned /\ g.status = f.status
      /\ \A s \in Slot :
            /\ g.table[s] = [num |-> f.table[s].num, cnt |-> f.table[s].cnt, dirt |-> FALSE,
                             node |-> f.table[s].node]
            /\ f.table[s].dirt => g.dev[f.table[s].num] = f.table[s].node
      /\ \A n \in Inr : (\A s \in Slot : f.table[s].num = n => ~f.table[s].dirt)
                        => g.dev[n] = f.dev[n]
  BY <1>2, <1>3, SyncKeeps
<1> HIDE DEF g
<1>5. ASSUME NEW s \in Slot
      PROVE  /\ g.table[s].num = f.table[s].num /\ g.table[s].cnt = f.table[s].cnt
             /\ g.table[s].dirt = FALSE /\ g.table[s].node = f.table[s].node
  <2> DEFINE e == f.table[s]
             row == [num |-> e.num, cnt |-> e.cnt, dirt |-> FALSE, node |-> e.node]
  <2>1. row.num = e.num /\ row.cnt = e.cnt /\ row.dirt = FALSE /\ row.node = e.node
    OBVIOUS
  <2>2. g.table[s] = row
    BY <1>4
  <2> HIDE DEF row
  <2> QED
    BY <2>1, <2>2
<1>6. ASSUME NEW s \in Slot, f.table[s].num # 0
      PROVE  g.dev[f.table[s].num] = f.table[s].node
  <2>1. CASE f.table[s].dirt
    BY Zenon, <1>4, <2>1
  <2>2. CASE ~f.table[s].dirt
    <3>1. f.table[s].num \in Inr
      BY <1>3, <1>6, EntryIsTyped
    <3>2. \A t \in Slot : f.table[t].num = f.table[s].num => ~f.table[t].dirt
      BY <1>3, <1>6, <2>2 DEF Unique
    <3>3. g.dev[f.table[s].num] = f.dev[f.table[s].num]
      BY <1>4, <3>1, <3>2
    <3> QED
      BY <1>1, <1>6, <2>2, <3>3 DEF EntryOK
  <2> QED
    BY <2>1, <2>2
<1>7. \A s \in Slot : EntryOK(g, H, R, s)
  BY Zenon, <1>1, <1>4, <1>5, <1>6 DEF EntryOK
<1>8. \A m : Has(g, m) <=> Has(f, m)
  BY Zenon, <1>5 DEF Has
<1>9. TableOK(g, H, R)
  BY <1>4, <1>7, <1>8 DEF TableOK
<1>10. ASSUME NEW n \in f.imap \cap Inr
       PROVE  Disk(g).cur[n] = Disk(f).cur[n]
  <2>1. n # 0
    BY InodesAssumption DEF Inr
  <2>2. CASE Has(f, n)
    <3>1. PICK s \in Slot : f.table[s].num = n
      BY <2>2 DEF Has
    <3>2. Disk(f).cur[n] = f.table[s].node
      BY <2>1, <3>1, CurIs
    <3>3. g.table[s].num = n /\ g.table[s].node = f.table[s].node
      BY Zenon, <1>5, <3>1
    <3>4. Disk(g).cur[n] = g.table[s].node
      BY <1>9, <2>1, <3>3, CurIs
    <3> QED
      BY <3>2, <3>3, <3>4
  <2>3. CASE ~Has(f, n)
    <3>1. ~Has(g, n) /\ n \in g.imap \cap Inr
      BY <1>4, <1>8, <2>3
    <3>2. Disk(g).cur[n] = g.dev[n]
      BY <1>9, <3>1, CurIs
    <3>3. Disk(f).cur[n] = f.dev[n]
      BY <2>3, CurIs
    <3>4. g.dev[n] = f.dev[n]
      BY <1>4, <2>3 DEF Has
    <3> QED
      BY <3>2, <3>3, <3>4
  <2> QED
    BY <2>2, <2>3
<1>11. Disk(g) = Disk(f)
  BY <1>4, <1>9, <1>10, SameDisk
<1> QED
  BY <1>4, <1>9, <1>11 DEF g
\* In g the inode in entry s is nd, and dirty or not; all else is as in f.
NodeSetTo(f, g, s, nd, b) ==
    /\ DOMAIN g = Fields /\ IsFs(g) /\ s \in Slot
    /\ g.imap = f.imap /\ g.zmap = f.zmap /\ g.dev = f.dev /\ g.body = f.body
    /\ g.pinned = f.pinned /\ g.status = f.status
    /\ \A t \in Slot \ {s} : g.table[t] = f.table[t]
    /\ g.table[s].num = f.table[s].num /\ g.table[s].cnt = f.table[s].cnt
    /\ g.table[s].dirt = b /\ g.table[s].node = nd

\* Setting the node and the dirty flag of one entry changes nothing else.
LEMMA NodeDirtSet ==
    ASSUME NEW f, IsFs(f), NEW s \in Slot, NEW nd \in Node, NEW b \in BOOLEAN
    PROVE  NodeSetTo(f, [f EXCEPT !.table[s].node = nd, !.table[s].dirt = b], s, nd, b)
<1> DEFINE e == f.table[s]
           g == [f EXCEPT !.table[s].node = nd, !.table[s].dirt = b]
           e1 == [num |-> e.num, cnt |-> e.cnt, dirt |-> b, node |-> nd]
           e2 == [[e EXCEPT !.node = nd] EXCEPT !.dirt = b]
<1>1. e \in TabEntry
  BY DEF IsFs
<1>2. e2 = e1
  <2> DEFINE e0 == [num |-> e.num, cnt |-> e.cnt, dirt |-> e.dirt, node |-> nd]
  <2>1. [e EXCEPT !.node = nd] = e0
    BY <1>1 DEF TabEntry
  <2>2. [e0 EXCEPT !.dirt = b] = e1
    OBVIOUS
  <2> HIDE DEF e0, e1, e
  <2> QED
    BY Zenon, <2>1, <2>2
<1>3. e1 \in TabEntry
  BY <1>1 DEF TabEntry
<1>4. e1.num = e.num /\ e1.cnt = e.cnt /\ e1.dirt = b /\ e1.node = nd
  OBVIOUS
<1>5. g = [f EXCEPT !.table = [f.table EXCEPT ![s] = e2]]
  <2> DEFINE f1 == [f EXCEPT !.table = [f.table EXCEPT ![s] = [e EXCEPT !.node = nd]]]
  <2>1. g = [f1 EXCEPT !.table = [f1.table EXCEPT ![s] = [f1.table[s] EXCEPT !.dirt = b]]]
    OBVIOUS
  <2>2. f1.table = [f.table EXCEPT ![s] = [e EXCEPT !.node = nd]] /\ f1.table[s] = [e EXCEPT !.node = nd]
    BY DEF IsFs, Fields
  <2>3. [f1.table EXCEPT ![s] = e2] = [f.table EXCEPT ![s] = e2]
    BY <2>2 DEF IsFs
  <2>4. [f1 EXCEPT !.table = [f.table EXCEPT ![s] = e2]] = [f EXCEPT !.table = [f.table EXCEPT ![s] = e2]]
    BY Zenon DEF IsFs, Fields
  <2> HIDE DEF f1, g
  <2> QED
    BY <2>1, <2>2, <2>3, <2>4
<1> HIDE DEF e1, e2, g
<1>6. Sets(f, g, s, e1)
  BY <1>2, <1>3, <1>5, TableSet
<1>7. NodeSetTo(f, g, s, nd, b)
  BY <1>4, <1>6 DEF Sets, NodeSetTo
<1> QED
  BY <1>7 DEF g

\* A node with another number of links.
Linked(nd, x) == [nd EXCEPT !.nlinks = x]

\* An inode whose link count is changed keeps its mode, size and zones.
LEMMA LinkedIs ==
    ASSUME NEW nd \in Node, NEW x \in 0 .. NrLinks - 1
    PROVE  /\ Linked(nd, x) \in Node /\ Linked(nd, x).nlinks = x
           /\ Linked(nd, x).mode = nd.mode /\ Linked(nd, x).size = nd.size
           /\ Linked(nd, x).zone = nd.zone
BY DEF Linked, Node

(* An inode that is put back for the last time is freed: it is marked no more. *)
LEMMA FreeHolds ==
    ASSUME NEW f, NEW H, NEW R, TableOK(f, H, R), NEW s \in Slot, NEW n, n = f.table[s].num,
           n # 0, f.table[s].cnt = 1, NEW H2, NEW R2, KeptLess(f, H, R, s, H2, R2),
           NEW g, IsFs(g), g.imap = f.imap \ {n}, g.dev = f.dev, g.pinned = f.pinned,
           \A t \in Slot \ {s} : g.table[t] = f.table[t],
           g.table[s] = Empty
    PROVE  /\ TableOK(g, H2, R2)
           /\ DOMAIN Disk(g).cur = DOMAIN Disk(f).cur \ {n}
           /\ \A m \in DOMAIN Disk(g).cur : Disk(g).cur[m] = Disk(f).cur[m]
<1>1. /\ f.table[s].num = n /\ n \in Inr /\ n \in f.imap \cap Inr
      /\ H2 \in [Slot -> Nat] /\ R2 \in [Inr -> Nat]
      /\ 0 >= H2[s] + R2[n]
      /\ \A t \in Slot : H2[t] <= H[t]
      /\ \A m \in Inr : R2[m] <= R[m]
  BY CurIs, EntryIsTyped DEF KeptLess, TableOK
<1>2. H2[s] = 0 /\ R2[n] = 0
  BY <1>1
<1>3. /\ Unique(f) /\ \A t \in Slot : EntryOK(f, H, R, t)
      /\ f.imap \in SUBSET (0 .. InodeBits - 1) /\ 0 \in f.imap
      /\ H \in [Slot -> Nat] /\ R \in [Inr -> Nat] /\ f.pinned \in SUBSET Blk
  BY DEF TableOK
<1>4. /\ \A t \in Slot \ {s} : g.table[t] = f.table[t]
      /\ g.table[s] = Empty
  OBVIOUS
<1>5. Empty.num = 0 /\ Empty.cnt = 0 /\ ~Empty.dirt
  BY DEF Empty
<1>6. \A t \in Slot \ {s} : f.table[t].num # n
  BY <1>1, <1>3 DEF Unique
<1>7. Unique(g)
  BY <1>3, <1>4, <1>5 DEF Unique
<1>8. EntryOK(g, H2, R2, s)
  BY <1>1, <1>2, <1>3, <1>4, <1>5 DEF EntryOK
<1>9. ASSUME NEW t \in Slot \ {s} PROVE EntryOK(g, H2, R2, t)
  <2> DEFINE m == f.table[t].num
  <2>1. m # 0 => m \in Inr /\ R2[m] \in Nat /\ R[m] \in Nat /\ R2[m] <= R[m]
    BY <1>1, <1>3, EntryIsTyped DEF TableOK
  <2>2. m \in g.imap
    BY <1>3, <1>6 DEF EntryOK
  <2>3. H2[t] \in Nat /\ H[t] \in Nat /\ H2[t] <= H[t] /\ f.table[t].cnt \in Nat
    BY <1>1, <1>3, EntryIsTyped DEF TableOK
  <2>4. f.table[t].cnt >= H2[t] + (IF m = 0 THEN 0 ELSE R2[m])
    BY <1>3, <2>1, <2>3 DEF EntryOK
  <2> QED
    BY <1>3, <1>4, <2>1, <2>2, <2>4 DEF EntryOK
<1>10. ASSUME NEW m \in Inr, R2[m] > 0 PROVE Has(g, m)
  <2>1. m # n /\ R[m] > 0
    BY <1>1, <1>2, <1>3, <1>10
  <2>2. PICK t \in Slot : f.table[t].num = m
    BY <2>1 DEF TableOK, Has
  <2>3. t # s
    BY <1>1, <2>1, <2>2
  <2> QED
    BY <1>4, <2>2, <2>3 DEF Has
<1>11. g.imap \in SUBSET (0 .. InodeBits - 1) /\ 0 \in g.imap
  BY <1>1, <1>3
<1>12. TableOK(g, H2, R2)
  BY <1>1, <1>3, <1>7, <1>8, <1>9, <1>10, <1>11 DEF TableOK
<1>13. DOMAIN Disk(g).cur = g.imap \cap Inr /\ DOMAIN Disk(f).cur = f.imap \cap Inr
  BY <1>12, CurIs
<1>14. ASSUME NEW m \in g.imap \cap Inr
       PROVE  Disk(g).cur[m] = Disk(f).cur[m]
  <2>1. m \in f.imap \cap Inr /\ m # n
    OBVIOUS
  <2>2. CASE Has(f, m)
    <3>1. PICK t \in Slot : f.table[t].num = m
      BY <2>2 DEF Has
    <3>0. m # 0
      BY <2>1, InodesAssumption DEF Inr
    <3>2. m # 0 /\ t # s /\ g.table[t] = f.table[t]
      BY <1>1, <1>4, <2>1, <3>0, <3>1
    <3>3. Disk(f).cur[m] = f.table[t].node
      BY <3>1, <3>2, CurIs
    <3>4. Disk(g).cur[m] = g.table[t].node
      BY <1>12, <3>1, <3>2, CurIs
    <3> QED
      BY <3>2, <3>3, <3>4
  <2>3. CASE ~Has(f, m)
    <3>1. m # 0
      BY InodesAssumption DEF Inr
    <3>2. ~Has(g, m)
      <4>1. SUFFICES ASSUME NEW t \in Slot, g.table[t].num = m PROVE FALSE
        BY DEF Has
      <4>2. t # s
        BY <1>4, <1>5, <3>1, <4>1
      <4> QED
        BY <1>4, <2>3, <4>1, <4>2 DEF Has
    <3>3. Disk(f).cur[m] = f.dev[m]
      BY <2>1, <2>3, CurIs
    <3>4. Disk(g).cur[m] = g.dev[m]
      BY <1>12, <3>2, CurIs
    <3> QED
      BY <3>3, <3>4
  <2> QED
    BY <2>2, <2>3
<1>15. \A m \in DOMAIN Disk(g).cur : Disk(g).cur[m] = Disk(f).cur[m]
  BY <1>13, <1>14
<1>16. DOMAIN Disk(g).cur = DOMAIN Disk(f).cur \ {n}
  BY <1>13
<1> QED
  BY <1>12, <1>15, <1>16

\* clear_iblks has nothing to give up when the inode of entry s is freed.
NoneGiven(f, s) == \E f0 : f0 = [f EXCEPT !.table[s].cnt = 0] /\ ClearBlocks(f0, s) = f0

\* iput frees an inode that lost its last link and is clean, when clear_iblks has
\* nothing to give up: a directory keeps its blocks.
LEMMA IputFrees ==
    ASSUME NEW f, IsFs(f), f.status = "ok", NEW s \in Slot, f.table[s].cnt = 1, ~f.table[s].dirt,
           f.table[s].node.nlinks = 0, f.table[s].num \in f.imap,
           f.table[s].node.mode = "dir" \/ NoneGiven(f, s)
    PROVE  LET g == Iput(f, s)
           IN  /\ IsFs(g) /\ g.imap = f.imap \ {f.table[s].num} /\ g.zmap = f.zmap
               /\ g.dev = f.dev /\ g.body = f.body /\ g.pinned = f.pinned /\ g.status = "ok"
               /\ \A t \in Slot \ {s} : g.table[t] = f.table[t]
               /\ g.table[s] = Empty
<1> DEFINE e == f.table[s]
           e1 == [num |-> e.num, cnt |-> e.cnt - 1, dirt |-> e.dirt, node |-> e.node]
           f1 == [f EXCEPT !.table = [f.table EXCEPT ![s] = e1]]
           g == Iput(f, s)
<1>1. e \in TabEntry /\ e.cnt - 1 = 0
  BY DEF IsFs
<1>2. e1 \in TabEntry /\ [e EXCEPT !.cnt = e.cnt - 1] = e1
  BY <1>1 DEF TabEntry
<1>3. e1.num = e.num /\ e1.dirt = e.dirt /\ e1.node = e.node /\ e1.cnt = 0
  BY <1>1
<1>4. g = Lessened(f1, s)
  <2>1. g = Lessened([f EXCEPT !.table = [f.table EXCEPT ![s] = [e EXCEPT !.cnt = e.cnt - 1]]], s)
    BY DEF Iput
  <2> QED
    BY <1>2, <2>1
<1>a. NoneGiven(f, s) => ClearBlocks(f1, s) = f1
  <2>1. ASSUME NEW f0, f0 = [f EXCEPT !.table[s].cnt = 0], ClearBlocks(f0, s) = f0
        PROVE  ClearBlocks(f1, s) = f1
    <3>1. f0 = f1
      BY <1>1, <1>2, <2>1
    <3> QED
      BY <2>1, <3>1
  <2> HIDE DEF f1
  <2> QED
    BY <2>1 DEF NoneGiven
<1> HIDE DEF g, e1
<1>5. Sets(f, f1, s, e1)
  BY <1>2, TableSet
<1> HIDE DEF f1
<1>6. f1.table[s] = e1 /\ f1.status = "ok" /\ f1.imap = f.imap /\ DOMAIN f1 = Fields /\ IsFs(f1)
  BY <1>5 DEF Sets
<1>7. ClearBlocks(f1, s) = f1
  <2>1. CASE e.node.mode = "dir"
    BY Zenon, <1>3, <1>6, <2>1 DEF ClearBlocks
  <2>2. CASE NoneGiven(f, s)
    BY <1>a, <2>2
  <2>3. e.node.mode = "dir" \/ NoneGiven(f, s)
    OBVIOUS
  <2> QED
    BY <2>1, <2>2, <2>3
<1>8. g = FreeInode(f1, s)
  BY <1>3, <1>4, <1>6, <1>7 DEF Lessened, Cleared
<1> DEFINE f2 == [f1 EXCEPT !.imap = f1.imap \ {e.num}]
<1>9. g = [f2 EXCEPT !.table = [f2.table EXCEPT ![s] = Empty]]
  BY Zenon, <1>3, <1>6, <1>8 DEF FreeInode
<1>10. /\ DOMAIN f2 = Fields /\ f2.imap = f.imap \ {e.num} /\ f2.zmap = f1.zmap
       /\ f2.table = f1.table /\ f2.dev = f1.dev /\ f2.body = f1.body
       /\ f2.pinned = f1.pinned /\ f2.status = f1.status
  BY <1>6 DEF Fields
<1> HIDE DEF f2
<1>11. IsFs(f2)
  BY <1>6, <1>10 DEF IsFs
<1>12. Empty \in TabEntry
  <2>1. NoZones \in [Zone -> 0 .. NrZones - 1]
    BY InodesAssumption DEF NoZones
  <2>2. NoNode \in Node
    BY <2>1, InodesAssumption DEF NoNode, Node
  <2> QED
    BY <2>2 DEF Empty, TabEntry
<1>13. Sets(f2, g, s, Empty)
  BY <1>9, <1>11, <1>12, TableSet
<1> QED
  BY <1>5, <1>6, <1>10, <1>13 DEF Sets, g

\* A descriptor keeps entry s: it is used, by an inode.
LEMMA OpenIs ==
    ASSUME NEW f, NEW H, NEW R, TableOK(f, H, R), NEW s \in Slot, H[s] > 0,
           NEW H2 \in [Slot -> Nat], H2[s] = H[s] - 1, \A t \in Slot : H2[t] <= H[t]
    PROVE  /\ f.table[s].num # 0 /\ f.table[s].num \in Inr /\ f.table[s].num \in f.imap
           /\ f.table[s].cnt > 0 /\ f.table[s].cnt \in Nat /\ f.table[s].node.nlinks \in Nat
           /\ KeptLess(f, H, R, s, H2, R)
           /\ f.table[s].node.nlinks = 0 =>
                 /\ ~f.table[s].dirt /\ f.table[s].node.mode # "dir"
                 /\ R[f.table[s].num] = 0
<1> DEFINE n == f.table[s].num
<1>1. /\ H \in [Slot -> Nat] /\ R \in [Inr -> Nat] /\ IsFs(f)
      /\ n \in {0} \cup Inr /\ f.table[s].cnt \in Nat /\ f.table[s].node.nlinks \in Nat
  BY EntryIsTyped DEF TableOK
<1>2. EntryOK(f, H, R, s)
  BY DEF TableOK
<1>3. n # 0 /\ f.table[s].cnt > 0 /\ f.table[s].cnt - 1 >= H2[s] + R[n]
  <2>1. n # 0 => R[n] \in Nat
    BY <1>1
  <2>2. f.table[s].cnt >= H[s] + (IF n = 0 THEN 0 ELSE R[n])
    BY <1>2 DEF EntryOK
  <2>3. f.table[s].cnt > 0
    BY <1>1, <2>1, <2>2
  <2>4. n # 0
    BY <1>2, <2>3 DEF EntryOK
  <2> QED
    BY <1>1, <2>1, <2>2, <2>3, <2>4
<1>4. KeptLess(f, H, R, s, H2, R)
  BY <1>1, <1>3 DEF KeptLess
<1>5. /\ n \in f.imap
      /\ f.table[s].node.nlinks = 0 =>
            ~f.table[s].dirt /\ f.table[s].node.mode # "dir" /\ R[n] = 0
  BY <1>2, <1>3 DEF EntryOK
<1> QED
  BY <1>1, <1>3, <1>4, <1>5

\* Closing a descriptor changes nothing on the disk while others are open on the
\* inode, or it has a name.
LEMMA CloseHolds ==
    ASSUME NEW f, NEW H, NEW R, TableOK(f, H, R), NEW s \in Slot, H[s] > 0,
           NEW H2 \in [Slot -> Nat], H2[s] = H[s] - 1, \A t \in Slot : H2[t] <= H[t],
           f.table[s].node.nlinks # 0 \/ f.table[s].cnt # 1
    PROVE  LET g == Iput(f, s)
           IN  TableOK(g, H2, R) /\ Disk(g) = Disk(f) /\ g.status = f.status
<1>1. f.table[s].num # 0 /\ f.table[s].cnt > 0 /\ KeptLess(f, H, R, s, H2, R)
      /\ f.table[s].cnt \in Nat /\ f.table[s].node.nlinks \in Nat
  BY OpenIs
<1>2. f.table[s].node.nlinks > 0 \/ f.table[s].cnt > 1
  BY <1>1
<1> QED
  BY <1>1, <1>2, PutUnchanged

(* The last descriptor of a file without a name is closed: its inode is freed, *)
(* if it has no blocks to give up (inode.c:148-160).                        *)
LEMMA LastCloseHolds ==
    ASSUME NEW f, NEW H, NEW R, TableOK(f, H, R), f.status = "ok", NEW s \in Slot, H[s] > 0,
           NEW H2 \in [Slot -> Nat], H2[s] = H[s] - 1, \A t \in Slot : H2[t] <= H[t],
           f.table[s].node.nlinks = 0, f.table[s].cnt = 1,
           NoneGiven(f, s)
    PROVE  LET g == Iput(f, s)
               n == f.table[s].num
               c == Disk(f).cur
           IN  /\ TableOK(g, H2, R) /\ g.status = "ok"
               /\ n \in DOMAIN c /\ c[n].nlinks = 0
               /\ g.zmap = f.zmap /\ g.body = f.body /\ g.pinned = f.pinned
               /\ DOMAIN Disk(g).cur = DOMAIN c \ {n}
               /\ \A m \in DOMAIN Disk(g).cur : Disk(g).cur[m] = c[m]
<1> DEFINE n == f.table[s].num
           g == Iput(f, s)
<1>1. n # 0 /\ n \in f.imap /\ ~f.table[s].dirt /\ KeptLess(f, H, R, s, H2, R)
  BY OpenIs
<1>2. IsFs(f)
  BY DEF TableOK
<1>3. /\ IsFs(g) /\ g.imap = f.imap \ {n} /\ g.zmap = f.zmap
      /\ g.dev = f.dev /\ g.body = f.body /\ g.pinned = f.pinned /\ g.status = "ok"
      /\ \A t \in Slot \ {s} : g.table[t] = f.table[t]
      /\ g.table[s] = Empty
  BY <1>1, <1>2, IputFrees
<1>4. n \in DOMAIN Disk(f).cur /\ Disk(f).cur[n] = f.table[s].node
  BY <1>1, CurIs
<1>5. n = f.table[s].num
  OBVIOUS
<1> HIDE DEF g, n
<1>6. /\ TableOK(g, H2, R)
      /\ DOMAIN Disk(g).cur = DOMAIN Disk(f).cur \ {n}
      /\ \A m \in DOMAIN Disk(g).cur : Disk(g).cur[m] = Disk(f).cur[m]
  BY <1>1, <1>3, <1>5, FreeHolds
<1> QED
  BY <1>3, <1>4, <1>6 DEF g, n
=============================================================================
