---------------------------- MODULE Names_proofs -----------------------------
(***************************************************************************)
(* Theorems about Names, for any disk, any table of inodes, any number of   *)
(* descriptors and any set of paths.                                        *)
(***************************************************************************)
EXTENDS Names, Inodes_proofs, FiniteSetTheorems, SequenceTheorems, TLAPS

-----------------------------------------------------------------------------
(* The disk.  Disk(f), in Inodes_proofs, is what it is once everything is written. *)

DirsIn(v) == {n \in LiveIn(v) : v.cur[n].mode = "dir"}

\* Block k of inode n, and the blocks of data and of zone numbers n has.
BlockIn(v, n, k) == BlockOf(v, v.cur[n].zone, k)
HeldBy(v, n)     == {Part(v, v.cur[n].zone, x) : x \in Places} \ {0}

\* Entry i of block k of directory n is used.
Used(v, n, k, i) == BlockIn(v, n, k) # 0 /\ i \in DOMAIN v.body[BlockIn(v, n, k)]
Cell(v, n, k, i) == v.body[BlockIn(v, n, k)][i]

Marks(v, n) == \A b \in HeldBy(v, n) : b - 1 \in v.zmap

\* The blocks of a directory are its first ones, as many as its size says.
Shape(v, n) ==
    \E m \in FileBlk : /\ \A k \in FileBlk : BlockIn(v, n, k) # 0 <=> k <= m
                       /\ v.cur[n].size = (m + 1) * BlkSize

Cells(v, n) ==
    \A k \in FileBlk : BlockIn(v, n, k) # 0 =>
        /\ DOMAIN v.body[BlockIn(v, n, k)] \subseteq 0 .. PerBlk - 1
        /\ \A i \in DOMAIN v.body[BlockIn(v, n, k)] :
               Cell(v, n, k, i) \in [name : Name, nr : Inr]

\* A name is at one place of a directory.
OneEach(v, n) ==
    \A k, l \in FileBlk : \A i, j \in 0 .. PerBlk - 1 :
        Used(v, n, k, i) /\ Used(v, n, l, j) /\ Cell(v, n, k, i).name = Cell(v, n, l, j).name
            => k = l /\ i = j

Dots(v, n) ==
    n # Root => /\ Used(v, n, 0, 0) /\ Cell(v, n, 0, 0) = [name |-> Dot, nr |-> n]
                /\ Used(v, n, 0, 1) /\ Cell(v, n, 0, 1).name = DotDot

DirOK(v, n) ==
    /\ Mapped(v, v.cur[n].zone) /\ Marks(v, n) /\ Shape(v, n)
    /\ Cells(v, n) /\ OneEach(v, n) /\ Dots(v, n)

DiskOK(v) ==
    /\ \A n \in DirsIn(v) : DirOK(v, n)
    /\ \A n, m \in DirsIn(v) : n # m => HeldBy(v, n) \cap HeldBy(v, m) = {}
    /\ \A b \in v.pinned : b - 1 \in v.zmap

-----------------------------------------------------------------------------
(* The tree of names. *)

EntsOf(v, n) == {<<n, Cell(v, n, t[1], t[2]).name, Cell(v, n, t[1], t[2]).nr>> :
                    t \in {u \in FileBlk \X (0 .. PerBlk - 1) : Used(v, n, u[1], u[2])}}
EntsIn(v) == UNION {EntsOf(v, n) : n \in DirsIn(v)}

Dotted == {Dot, DotDot}

Extra(n) == IF n = Root THEN 0 ELSE IF n = RootDir THEN 1 ELSE 2

Counted(dirs, ents, n) ==
    IF n \notin dirs THEN Cardinality({e \in ents : e[3] = n})
    ELSE Cardinality({e \in ents : e[3] = n /\ e[2] = DotDot}) + Extra(n)

TreeOK(live, dirs, ents, nlinks) ==
    /\ {Root, RootDir} \subseteq dirs /\ dirs \subseteq live
    /\ IsFiniteSet(ents)
    /\ ents \subseteq dirs \X Name \X live
    /\ \A e, u \in ents : e[1] = u[1] /\ e[2] = u[2] => e = u
    /\ <<Root, Slash, RootDir>> \in ents
    /\ \A e \in ents : /\ e[2] = Slash => e[1] = Root
                       /\ e[2] \in Dotted => e[1] # Root /\ e[3] \in dirs
                       /\ e[2] = Dot => e[3] = e[1]
    \* A directory has one name, in its parent.
    /\ \A n \in dirs \ {Root} : \E d \in dirs : \E x \in Name \ Dotted :
          /\ <<n, DotDot, d>> \in ents /\ <<d, x, n>> \in ents
          /\ \A e \in ents : e[3] = n /\ e[2] \notin Dotted => e = <<d, x, n>>
    /\ \A e \in ents : e[3] = Root => e[2] \in Dotted
    /\ \A n \in live : nlinks[n] = Counted(dirs, ents, n)

Tree(v) == TreeOK(LiveIn(v), DirsIn(v), EntsIn(v), [n \in DOMAIN v.cur |-> v.cur[n].nlinks])

-----------------------------------------------------------------------------
(* FS goes on, or it has no entry for an inode and searches for one for ever. *)
Good(f, H, R) ==
    /\ TableOK(f, H, R)
    /\ \/ f.status = "ok" /\ DiskOK(Disk(f)) /\ Tree(Disk(f))
       \/ f.status = NoEntry /\ AllCounted(f)

Opens == [s \in Slot |-> Cardinality({h \in Handle : handle[h] = s})]

IInv ==
    /\ harm \subseteq Reasons
    /\ harm = {} => handle \in [Handle -> Slot \cup {Closed}] /\ Good(fs, Opens, Zero)

-----------------------------------------------------------------------------
(* Calls on the table that only namei.c makes. *)

\* An inode the call keeps is put back.
LEMMA PutBackHolds ==
    ASSUME NEW f, NEW H, NEW R, TableOK(f, H, R), NEW n \in Inr, R[n] > 0
    PROVE  LET g == PutBack(f, n)
           IN  TableOK(g, H, Less(R, n)) /\ Disk(g) = Disk(f) /\ g.status = f.status
<1> DEFINE s == Entry(f, n)
           R2 == Less(R, n)
<1>1. /\ s \in Slot /\ f.table[s].num = n /\ n # 0
      /\ f.table[s].cnt > 0 /\ f.table[s].cnt \in Nat
      /\ f.table[s].cnt >= H[s] + R[n] /\ H[s] \in Nat /\ R[n] \in Nat
      /\ f.table[s].node.nlinks > 0
      /\ R2 \in [Inr -> Nat] /\ R2[n] = R[n] - 1
      /\ \A m \in Inr \ {n} : R2[m] = R[m]
  BY HeldIs
<1>2. H \in [Slot -> Nat] /\ R \in [Inr -> Nat]
  BY DEF TableOK
<1> HIDE DEF s, R2
<1>3. KeptLess(f, H, R, s, H, R2)
  BY <1>1, <1>2 DEF KeptLess
<1>4. TableOK(Iput(f, s), H, R2) /\ Disk(Iput(f, s)) = Disk(f) /\ Iput(f, s).status = f.status
  BY <1>1, <1>3, PutUnchanged
<1> QED
  BY <1>4 DEF s, R2, PutBack

\* Changing the number of links of an inode in the table.
LEMMA LinksIs ==
    ASSUME NEW f, IsFs(f), NEW n, NEW s \in Slot, Entry(f, n) = s, NEW c \in Int,
           f.table[s].node.nlinks + c \in 0 .. NrLinks - 1
    PROVE  NodeSetTo(f, Links(f, n, c), s, Linked(f.table[s].node, f.table[s].node.nlinks + c), TRUE)
<1> DEFINE nd == Linked(f.table[s].node, f.table[s].node.nlinks + c)
<1>1. f.table[s].node \in Node
  BY EntryIsTyped
<1>2. nd \in Node
  BY <1>1, LinkedIs
<1>3. Links(f, n, c) = [f EXCEPT !.table[s].node = nd, !.table[s].dirt = TRUE]
  <2>1. (f.table[s].node.nlinks + c) % NrLinks = f.table[s].node.nlinks + c
    BY InodesAssumption
  <2> QED
    BY <2>1 DEF Links, Linked
<1> HIDE DEF nd
<1>4. NodeSetTo(f, [f EXCEPT !.table[s].node = nd, !.table[s].dirt = TRUE], s, nd, TRUE)
  BY Zenon, <1>2, NodeDirtSet
<1>5. NodeSetTo(f, Links(f, n, c), s, nd, TRUE)
  BY Zenon, <1>3, <1>4
<1> QED
  BY Zenon, <1>5 DEF nd

(* The end of rmdir: the directory n loses its links, its parent d one, both   *)
(* are put back, and n is freed (namei.c:433-441).                          *)
RemovedFrom(f, d, n) ==
    Iput(PutBack(Links([f EXCEPT !.table[Entry(f, n)].node.nlinks = 0,
                                 !.table[Entry(f, n)].dirt = FALSE], d, -1), d), Entry(f, n))

\* The end of rmdir: the directory is freed, its parent has one link less, and the table stays good.
LEMMA RmdirHolds ==
    ASSUME NEW f, NEW H, NEW R, TableOK(f, H, R), f.status = "ok", NEW n \in Inr, NEW d \in Inr,
           n # d, R[n] > 0, R[d] > 0, Mem(f, n).cnt = 1, Mem(f, n).node.mode = "dir",
           Mem(f, d).node.nlinks > 1
    PROVE  LET g == RemovedFrom(f, d, n)
               c == Disk(f).cur
           IN  /\ TableOK(g, H, Less(Less(R, d), n)) /\ g.status = "ok"
               /\ g.zmap = f.zmap /\ g.body = f.body /\ g.pinned = f.pinned
               /\ DOMAIN Disk(g).cur = DOMAIN c \ {n}
               /\ \A m \in DOMAIN Disk(g).cur :
                     Disk(g).cur[m] = IF m = d THEN Linked(c[d], c[d].nlinks - 1) ELSE c[m]
<1> DEFINE s == Entry(f, n)
           t == Entry(f, d)
           es == f.table[s]
           et == f.table[t]
           nd0 == Linked(es.node, 0)
           nd1 == Linked(et.node, et.node.nlinks - 1)
           f1 == [f EXCEPT !.table[s].node.nlinks = 0, !.table[s].dirt = FALSE]
           f2 == Links(f1, d, -1)
           f3 == Iput(f2, t)
           g == Iput(f3, s)
           p2 == Links(f, d, -1)
           p == Iput(p2, t)
           R1 == Less(R, d)
<1>1. /\ s \in Slot /\ es.num = n /\ n # 0 /\ es.cnt = 1 /\ es.node.mode = "dir" /\ n \in f.imap
  BY HeldIs DEF Mem
<1>2. /\ t \in Slot /\ et.num = d /\ d # 0 /\ et.cnt > 0 /\ et.cnt \in Nat
      /\ et.node.nlinks > 1 /\ et.node.nlinks \in Nat
      /\ et.cnt >= H[t] + R[d] /\ H[t] \in Nat /\ R[d] \in Nat
      /\ R1 \in [Inr -> Nat] /\ R1[d] = R[d] - 1
      /\ \A m \in Inr \ {d} : R1[m] = R[m]
      /\ d \in DOMAIN Disk(f).cur /\ Disk(f).cur[d] = et.node
  <2>1. et.node.nlinks \in Nat
    BY HeldIs, EntryIsTyped DEF TableOK
  <2> QED
    BY <2>1, HeldIs DEF Mem, LiveIn
<1>3. s # t /\ es.node \in Node /\ et.node \in Node /\ IsFs(f) /\ Unique(f)
      /\ H \in [Slot -> Nat] /\ R \in [Inr -> Nat]
  BY <1>1, <1>2, EntryIsTyped DEF TableOK
<1>4. nd0 \in Node /\ nd0.nlinks = 0 /\ nd0.mode = "dir"
      /\ nd1 \in Node /\ nd1.nlinks = et.node.nlinks - 1 /\ nd1.nlinks > 0
      /\ et.node.nlinks - 1 \in 0 .. NrLinks - 1
  <2>0. 0 \in 0 .. NrLinks - 1
    BY InodesAssumption
  <2>1. nd0 \in Node /\ nd0.nlinks = 0 /\ nd0.mode = "dir"
    BY Zenon, <1>1, <1>3, <2>0, LinkedIs
  <2>2. et.node.nlinks - 1 \in 0 .. NrLinks - 1 /\ et.node.nlinks - 1 > 0
    <3>1. et.node.nlinks \in 0 .. NrLinks - 1
      BY <1>3 DEF Node
    <3> QED
      BY <1>2, <3>1, InodesAssumption
  <2> HIDE DEF et
  <2>3. nd1 \in Node /\ nd1.nlinks = et.node.nlinks - 1
    BY Zenon, <1>3, <2>2, LinkedIs
  <2> QED
    BY <2>1, <2>2, <2>3
<1>5. NodeSetTo(f, f1, s, nd0, FALSE)
  <2>1. f1 = [f EXCEPT !.table[s].node = nd0, !.table[s].dirt = FALSE]
    BY DEF Linked
  <2> HIDE DEF f1, nd0, s
  <2> QED
    BY Zenon, <1>1, <1>3, <1>4, <2>1, NodeDirtSet
<1> HIDE DEF f1, s, t, nd0, nd1, R1
<1>6. IsFs(f1) /\ Unique(f1) /\ f1.table[t] = et /\ Entry(f1, d) = t
  <2>1. IsFs(f1) /\ f1.table[t] = et /\ \A r \in Slot : f1.table[r].num = f.table[r].num
    BY <1>2, <1>3, <1>5 DEF NodeSetTo
  <2>2. Unique(f1)
    BY <1>3, <2>1 DEF Unique
  <2> QED
    BY <1>2, <2>1, <2>2, EntryIs
<1>7. NodeSetTo(f1, f2, t, nd1, TRUE)
  <2>1. et.node.nlinks + -1 \in 0 .. NrLinks - 1
        /\ et.node.nlinks + -1 = et.node.nlinks - 1 /\ -1 \in Int
    BY <1>2, <1>4
  <2> QED
    BY Zenon, <1>2, <1>6, <2>1, LinksIs DEF nd1
<1>8. NodeSetTo(f, p2, t, nd1, TRUE)
  <2>1. et.node.nlinks + -1 \in 0 .. NrLinks - 1
        /\ et.node.nlinks + -1 = et.node.nlinks - 1 /\ -1 \in Int
    BY <1>2, <1>4
  <2>2. Entry(f, d) = t
    BY DEF t
  <2> QED
    BY Zenon, <1>2, <1>3, <2>1, <2>2, LinksIs DEF nd1
<1> HIDE DEF f2, p2
<1>9. Entry(f2, d) = t
  <2>1. \A r \in Slot : f2.table[r].num = f1.table[r].num
    BY <1>7 DEF NodeSetTo
  <2>2. Unique(f2) /\ f2.table[t].num = d
    BY <1>2, <1>6, <2>1 DEF Unique
  <2> QED
    BY <1>2, <2>2, EntryIs
<1>10. /\ IsFs(f3) /\ f3.imap = f.imap /\ f3.zmap = f.zmap /\ f3.body = f.body
       /\ f3.pinned = f.pinned /\ f3.status = f.status
       /\ f3.dev = [f.dev EXCEPT ![d] = nd1]
       /\ \A r \in Slot \ {t} : f3.table[r] = f2.table[r]
       /\ f3.table[t] = [num |-> d, cnt |-> et.cnt - 1, dirt |-> FALSE, node |-> nd1]
  <2>1. /\ IsFs(f2) /\ f2.table[t].num = d /\ f2.table[t].cnt = et.cnt /\ f2.table[t].dirt
        /\ f2.table[t].node = nd1 /\ f2.imap = f.imap /\ f2.zmap = f.zmap /\ f2.body = f.body
        /\ f2.pinned = f.pinned /\ f2.status = f.status /\ f2.dev = f.dev
    BY <1>2, <1>5, <1>6, <1>7 DEF NodeSetTo
  <2> QED
    BY <1>2, <2>1, IputKeeps
<1>11. /\ IsFs(p) /\ p.imap = f.imap /\ p.zmap = f.zmap /\ p.body = f.body
       /\ p.pinned = f.pinned /\ p.status = f.status
       /\ p.dev = [f.dev EXCEPT ![d] = nd1]
       /\ \A r \in Slot \ {t} : p.table[r] = p2.table[r]
       /\ p.table[t] = [num |-> d, cnt |-> et.cnt - 1, dirt |-> FALSE, node |-> nd1]
  <2>1. /\ IsFs(p2) /\ p2.table[t].num = d /\ p2.table[t].cnt = et.cnt /\ p2.table[t].dirt
        /\ p2.table[t].node = nd1 /\ p2.imap = f.imap /\ p2.zmap = f.zmap /\ p2.body = f.body
        /\ p2.pinned = f.pinned /\ p2.status = f.status /\ p2.dev = f.dev
    BY <1>2, <1>8 DEF NodeSetTo
  <2> QED
    BY <1>2, <2>1, IputKeeps
<1>12. TableOK(p, H, R1) /\ Disk(p).cur = With(Disk(f).cur, d, nd1)
  <2>1. ChangedAt(f, p2, t)
    BY <1>2, <1>4, <1>8 DEF ChangedAt, NodeSetTo
  <2>2. KeptLess(f, H, R, t, H, R1)
    BY <1>2, <1>3 DEF KeptLess
  <2>5. p2.table[t].node.nlinks > 0
    BY <1>4, <1>8 DEF NodeSetTo
  <2>3. TableOK(Iput(p2, t), H, R1)
        /\ Disk(Iput(p2, t)).cur = With(Disk(f).cur, f.table[t].num, p2.table[t].node)
    BY <2>1, <2>2, <2>5, PutChanged
  <2>4. p2.table[t].node = nd1
    BY <1>8 DEF NodeSetTo
  <2> QED
    BY <1>2, <2>3, <2>4
<1> HIDE DEF f3, p
<1>13. /\ f3.table[s].num = n /\ f3.table[s].cnt = 1 /\ ~f3.table[s].dirt /\ f3.table[s].node = nd0
       /\ p.table[s] = es
       /\ \A r \in Slot \ {s} : f3.table[r] = p.table[r]
  <2>1. f3.table[s] = f1.table[s]
    BY <1>1, <1>3, <1>7, <1>10 DEF NodeSetTo
  <2>2. /\ f1.table[s].num = n /\ f1.table[s].cnt = 1 /\ ~f1.table[s].dirt /\ f1.table[s].node = nd0
    BY <1>1, <1>5 DEF NodeSetTo
  <2>3. p.table[s] = es
    BY <1>1, <1>3, <1>8, <1>11 DEF NodeSetTo
  <2>4. ASSUME NEW r \in Slot \ {s, t} PROVE f3.table[r] = p.table[r]
    BY <1>5, <1>7, <1>8, <1>10, <1>11 DEF NodeSetTo
  <2>5. f3.table[t] = p.table[t]
    BY <1>10, <1>11
  <2> QED
    BY <2>1, <2>2, <2>3, <2>4, <2>5
<1>14. /\ IsFs(g) /\ g.imap = f3.imap \ {n} /\ g.zmap = f3.zmap
       /\ g.dev = f3.dev /\ g.body = f3.body /\ g.pinned = f3.pinned /\ g.status = "ok"
       /\ \A r \in Slot \ {s} : g.table[r] = f3.table[r]
       /\ g.table[s] = Empty
  <2>1. f3.status = "ok" /\ f3.table[s].num \in f3.imap
    BY <1>1, <1>10, <1>13
  <2>2. f3.table[s].node.nlinks = 0 /\ f3.table[s].node.mode = "dir"
    BY <1>4, <1>13
  <2>4. IsFs(f3) /\ s \in Slot /\ f3.table[s].cnt = 1 /\ ~f3.table[s].dirt /\ f3.table[s].num = n
    BY <1>1, <1>10, <1>13
  <2>5. /\ IsFs(Iput(f3, s)) /\ Iput(f3, s).imap = f3.imap \ {f3.table[s].num}
        /\ Iput(f3, s).zmap = f3.zmap /\ Iput(f3, s).dev = f3.dev
        /\ Iput(f3, s).body = f3.body /\ Iput(f3, s).pinned = f3.pinned
        /\ Iput(f3, s).status = "ok"
        /\ \A r \in Slot \ {s} : Iput(f3, s).table[r] = f3.table[r]
        /\ Iput(f3, s).table[s] = Empty
    BY ONLY <2>1, <2>2, <2>4, IputFrees
  <2> QED
    BY <2>4, <2>5 DEF g
<1> HIDE DEF g
<1>15. Entry(p, n) = s
  BY <1>1, <1>12, <1>13, EntryIs DEF TableOK
<1>16. R1[n] > 0 /\ Mem(p, n).cnt = 1
  BY <1>1, <1>2, <1>13, <1>15 DEF Mem
<1>17. /\ TableOK(g, H, Less(R1, n))
       /\ DOMAIN Disk(g).cur = DOMAIN Disk(p).cur \ {n}
       /\ \A m \in DOMAIN Disk(g).cur : Disk(g).cur[m] = Disk(p).cur[m]
  <2>1. g.imap = p.imap \ {n} /\ g.dev = p.dev /\ g.pinned = p.pinned
        /\ \A r \in Slot \ {s} : g.table[r] = p.table[r]
    BY <1>10, <1>11, <1>13, <1>14
  <2>2. KeptLess(p, H, R1, s, H, Less(R1, n))
    <3>1. /\ p.table[s].num = n /\ p.table[s].cnt = 1 /\ p.table[s].cnt >= H[s] + R1[n]
          /\ H[s] \in Nat /\ R1[n] \in Nat /\ Less(R1, n) \in [Inr -> Nat]
          /\ Less(R1, n)[n] = R1[n] - 1 /\ \A m \in Inr \ {n} : Less(R1, n)[m] = R1[m]
      BY <1>1, <1>12, <1>13, <1>15, <1>16, HeldIs
    <3>2. R1 \in [Inr -> Nat]
      BY <1>2
    <3>3. \A m \in Inr : Less(R1, n)[m] <= R1[m]
      BY <3>1, <3>2
    <3>4. p.table[s].cnt - 1 >= H[s] + Less(R1, n)[n]
      BY <3>1
    <3> QED
      BY <1>3, <3>1, <3>3, <3>4 DEF KeptLess
  <2>3. n = p.table[s].num /\ p.table[s].cnt = 1
    BY <1>1, <1>13
  <2> QED
    BY <1>1, <1>12, <1>14, <2>1, <2>2, <2>3, FreeHolds
<1>18. DOMAIN Disk(p).cur = DOMAIN Disk(f).cur
       /\ \A m \in DOMAIN Disk(f).cur : Disk(p).cur[m] = IF m = d THEN nd1 ELSE Disk(f).cur[m]
  <2>1. DOMAIN Disk(f).cur \cup {d} = DOMAIN Disk(f).cur
    BY <1>2
  <2> QED
    BY <1>12, <2>1 DEF With
<1>19. \A m \in DOMAIN Disk(g).cur :
          Disk(g).cur[m] = IF m = d THEN Linked(Disk(f).cur[d], Disk(f).cur[d].nlinks - 1)
                                    ELSE Disk(f).cur[m]
  BY <1>2, <1>17, <1>18 DEF nd1
<1>20. g = RemovedFrom(f, d, n)
  BY <1>9 DEF RemovedFrom, PutBack, g, f3, f2, f1, s
<1> QED
  BY <1>10, <1>14, <1>17, <1>18, <1>19, <1>20 DEF R1
-----------------------------------------------------------------------------
(* Directories on the disk. *)

(* The blocks of a file stay when the bodies of all its blocks do. *)
LEMMA PlacesKept ==
    ASSUME NEW f, NEW zone, Mapped(f, zone), NEW g,
           \A x \in Places : Part(f, zone, x) # 0 => g.body[Part(f, zone, x)] = f.body[Part(f, zone, x)]
    PROVE  /\ \A x \in Places : Part(g, zone, x) = Part(f, zone, x)
           /\ \A k \in FileBlk : BlockOf(g, zone, k) = BlockOf(f, zone, k)
           /\ Mapped(g, zone)
<1>1. ASSUME NEW p, NEW i \in Low, NEW x, Below(p, i, x), Part(g, zone, p) = Part(f, zone, p)
      PROVE  Part(g, zone, x) = Part(f, zone, x)
  <2> DEFINE b == Part(f, zone, p)
  <2>1. /\ p \in Places
        /\ Part(f, zone, x) = Ptr(f, b, i)
        /\ Part(g, zone, x) = Ptr(g, Part(g, zone, p), i)
    BY <1>1, BelowIs
  <2>2. b # 0 => g.body[b] = f.body[b]
    BY <2>1
  <2>3. Ptr(g, b, i) = Ptr(f, b, i)
    BY <2>2 DEF Ptr
  <2> QED
    BY <1>1, <2>1, <2>3
<1>2. \A z \in Zone : Part(g, zone, ZonePlace(z)) = Part(f, zone, ZonePlace(z))
  <2>1. \A z \in Zone : Part(g, zone, ZonePlace(z)) = zone[z]
    BY PlaceKinds
  <2>2. \A z \in Zone : Part(f, zone, ZonePlace(z)) = zone[z]
    BY PlaceKinds
  <2> QED
    BY <2>1, <2>2
<1>3. Ind \in Zone /\ Dind \in Zone
  BY Sizes
<1>4. \A i \in Low : Part(g, zone, IndPlace(i)) = Part(f, zone, IndPlace(i))
  BY <1>1, <1>2, <1>3 DEF Below
<1>5. \A a \in Low : Part(g, zone, DindPlace(a)) = Part(f, zone, DindPlace(a))
  BY <1>1, <1>2, <1>3 DEF Below
<1>6. \A a, i \in Low : Part(g, zone, BelowPlace(a, i)) = Part(f, zone, BelowPlace(a, i))
  BY <1>1, <1>5 DEF Below
<1>7. \A x \in Places : Part(g, zone, x) = Part(f, zone, x)
  BY <1>2, <1>4, <1>5, <1>6, PlacesCovered
<1>8. \A k \in FileBlk : BlockOf(g, zone, k) = BlockOf(f, zone, k)
  BY <1>7, DataPlaceIs
<1>9. Mapped(g, zone)
  BY <1>7 DEF Mapped
<1> QED
  BY <1>7, <1>8, <1>9

\* A block of a directory is one that it holds.
LEMMA BlockIsHeld ==
    ASSUME NEW v, NEW n, Mapped(v, v.cur[n].zone)
    PROVE  /\ HeldBy(v, n) \subseteq Blk
           /\ \A k \in FileBlk : BlockIn(v, n, k) # 0 => BlockIn(v, n, k) \in HeldBy(v, n)
           /\ \A k \in FileBlk : BlockIn(v, n, k) \in Nr
           /\ \A k, l \in FileBlk : BlockIn(v, n, k) # 0 /\ BlockIn(v, n, k) = BlockIn(v, n, l) => k = l
<1>1. \A k \in FileBlk : DataPlace(k) \in Places /\ BlockIn(v, n, k) = Part(v, v.cur[n].zone, DataPlace(k))
  BY DataPlaceIs DEF BlockIn
<1>2. HeldBy(v, n) \subseteq Blk
  BY Sizes DEF Mapped, HeldBy
<1>3. \A k \in FileBlk : BlockIn(v, n, k) # 0 => BlockIn(v, n, k) \in HeldBy(v, n)
  BY <1>1 DEF HeldBy
<1>4. \A k \in FileBlk : BlockIn(v, n, k) \in Nr
  BY <1>1 DEF Mapped
<1>5. \A k, l \in FileBlk : BlockIn(v, n, k) # 0 /\ BlockIn(v, n, k) = BlockIn(v, n, l) => k = l
  BY <1>1, DataPlacesApart DEF Mapped
<1> QED
  BY <1>2, <1>3, <1>4, <1>5

\* The entries of a directory one by one.
LEMMA EntsAre ==
    ASSUME NEW v, NEW n
    PROVE  /\ \A e \in EntsOf(v, n) : e[1] = n /\ e = <<e[1], e[2], e[3]>>
           /\ \A k \in FileBlk, i \in 0 .. PerBlk - 1 : Used(v, n, k, i) =>
                 <<n, Cell(v, n, k, i).name, Cell(v, n, k, i).nr>> \in EntsOf(v, n)
           /\ \A e \in EntsOf(v, n) : \E k \in FileBlk, i \in 0 .. PerBlk - 1 :
                 Used(v, n, k, i) /\ e = <<n, Cell(v, n, k, i).name, Cell(v, n, k, i).nr>>
<1> DEFINE U == {u \in FileBlk \X (0 .. PerBlk - 1) : Used(v, n, u[1], u[2])}
           E(t) == <<n, Cell(v, n, t[1], t[2]).name, Cell(v, n, t[1], t[2]).nr>>
<1>1. EntsOf(v, n) = {E(t) : t \in U}
  BY DEF EntsOf
<1>2. ASSUME NEW k \in FileBlk, NEW i \in 0 .. PerBlk - 1, Used(v, n, k, i)
      PROVE  <<n, Cell(v, n, k, i).name, Cell(v, n, k, i).nr>> \in EntsOf(v, n)
  <2>1. <<k, i>> \in U
    BY <1>2
  <2>2. E(<<k, i>>) \in EntsOf(v, n)
    BY <1>1, <2>1
  <2> QED
    BY <2>2
<1>3. ASSUME NEW e \in EntsOf(v, n)
      PROVE  \E k \in FileBlk, i \in 0 .. PerBlk - 1 :
                 Used(v, n, k, i) /\ e = <<n, Cell(v, n, k, i).name, Cell(v, n, k, i).nr>>
  <2>1. PICK t \in U : e = E(t)
    BY <1>1
  <2> QED
    BY <2>1
<1>4. \A e \in EntsOf(v, n) : e[1] = n /\ e = <<e[1], e[2], e[3]>>
  BY <1>3
<1> QED
  BY <1>2, <1>3, <1>4

(* A directory stays as it is when its blocks do. *)
Kept(v, w, n) ==
    /\ w.cur[n].zone = v.cur[n].zone /\ w.cur[n].size = v.cur[n].size
    /\ \A b \in HeldBy(v, n) : w.body[b] = v.body[b] /\ b - 1 \in w.zmap

\* A directory whose inode and blocks are left alone stays good, with the same entries.
LEMMA DirKept ==
    ASSUME NEW v, NEW n, DirOK(v, n), NEW w, Kept(v, w, n)
    PROVE  DirOK(w, n) /\ HeldBy(w, n) = HeldBy(v, n) /\ EntsOf(w, n) = EntsOf(v, n)
<1> DEFINE zone == v.cur[n].zone
<1>1. Mapped(v, zone)
  BY DEF DirOK
<1>2. \A x \in Places : Part(v, zone, x) # 0 => w.body[Part(v, zone, x)] = v.body[Part(v, zone, x)]
  BY DEF Kept, HeldBy
<1>3. /\ \A x \in Places : Part(w, zone, x) = Part(v, zone, x)
      /\ \A k \in FileBlk : BlockOf(w, zone, k) = BlockOf(v, zone, k)
      /\ Mapped(w, zone)
  BY <1>1, <1>2, PlacesKept
<1>4. \A k \in FileBlk : BlockIn(w, n, k) = BlockIn(v, n, k)
  BY <1>3 DEF BlockIn, Kept
<1>5. HeldBy(w, n) = HeldBy(v, n)
  BY <1>3 DEF HeldBy, Kept
<1>6. \A k \in FileBlk : BlockIn(v, n, k) # 0 => w.body[BlockIn(v, n, k)] = v.body[BlockIn(v, n, k)]
  BY <1>1, BlockIsHeld DEF Kept
<1>7. /\ \A k \in FileBlk : \A i : Used(w, n, k, i) <=> Used(v, n, k, i)
      /\ \A k \in FileBlk : \A i : BlockIn(v, n, k) # 0 => Cell(w, n, k, i) = Cell(v, n, k, i)
  BY <1>4, <1>6 DEF Used, Cell
<1>8. Marks(w, n) /\ Shape(w, n) /\ Cells(w, n)
  <2>1. Marks(w, n)
    BY <1>5 DEF Marks, Kept
  <2>2. Shape(w, n)
    BY <1>4 DEF DirOK, Shape, Kept
  <2>3. Cells(w, n)
    BY <1>4, <1>6 DEF DirOK, Cells, Cell
  <2> QED
    BY <2>1, <2>2, <2>3
<1>9. OneEach(w, n)
  <2>1. \A k \in FileBlk : \A i : Used(v, n, k, i) => Cell(w, n, k, i) = Cell(v, n, k, i)
    BY <1>7 DEF Used
  <2> QED
    BY <1>7, <2>1 DEF DirOK, OneEach
<1>10. Dots(w, n)
  <2>1. 0 \in FileBlk
    BY Sizes DEF FileBlk
  <2> QED
    BY <1>7, <2>1 DEF DirOK, Dots, Used
<1>11. DirOK(w, n)
  BY <1>3, <1>8, <1>9, <1>10 DEF DirOK, Kept
<1>12. EntsOf(w, n) = EntsOf(v, n)
  <2>1. {u \in FileBlk \X (0 .. PerBlk - 1) : Used(w, n, u[1], u[2])}
          = {u \in FileBlk \X (0 .. PerBlk - 1) : Used(v, n, u[1], u[2])}
    BY <1>7
  <2>2. \A u \in {u \in FileBlk \X (0 .. PerBlk - 1) : Used(v, n, u[1], u[2])} :
           Cell(w, n, u[1], u[2]) = Cell(v, n, u[1], u[2])
    BY <1>7 DEF Used
  <2> QED
    BY <2>1, <2>2 DEF EntsOf
<1> QED
  BY <1>5, <1>11, <1>12
(* The disk stays in order when all directories but d stay, and d is in order *)
(* and holds no block of another.                                           *)
LEMMA DiskFrame ==
    ASSUME NEW v, DiskOK(v), NEW w, NEW d,
           \A n \in DirsIn(w) \ {d} : n \in DirsIn(v) /\ Kept(v, w, n),
           d \in DirsIn(w) => /\ DirOK(w, d)
                              /\ \A n \in DirsIn(w) \ {d} : HeldBy(w, d) \cap HeldBy(v, n) = {},
           \A b \in w.pinned : b - 1 \in w.zmap
    PROVE  /\ DiskOK(w)
           /\ \A n \in DirsIn(w) \ {d} : EntsOf(w, n) = EntsOf(v, n) /\ HeldBy(w, n) = HeldBy(v, n)
<1>1. \A n \in DirsIn(w) \ {d} : /\ DirOK(w, n)
                                 /\ EntsOf(w, n) = EntsOf(v, n) /\ HeldBy(w, n) = HeldBy(v, n)
  BY DirKept DEF DiskOK
<1>2. \A n \in DirsIn(w) : DirOK(w, n)
  BY <1>1
<1>3. \A n, m \in DirsIn(w) : n # m => HeldBy(w, n) \cap HeldBy(w, m) = {}
  BY <1>1 DEF DiskOK
<1> QED
  BY <1>1, <1>2, <1>3 DEF DiskOK

\* The blocks that are looked at are all that a directory has.
LEMMA ScannedIs ==
    ASSUME NEW v, NEW n, Shape(v, n)
    PROVE  Scanned(v, v.cur[n]) = {k \in FileBlk : BlockIn(v, n, k) # 0}
<1>1. PICK m \in FileBlk : /\ \A k \in FileBlk : BlockIn(v, n, k) # 0 <=> k <= m
                           /\ v.cur[n].size = (m + 1) * BlkSize
  BY DEF Shape
<1> DEFINE there == {k \in FileBlk : BlockOf(v, v.cur[n].zone, k) # 0}
<1>2. FileBlk \subseteq Nat /\ m \in Nat /\ \A k \in FileBlk : 0 .. k - 1 \subseteq FileBlk
  BY Sizes DEF FileBlk
<1>3. \A k \in FileBlk : k \in there <=> k <= m
  BY <1>1 DEF BlockIn
<1>4. there \subseteq FileBlk
  OBVIOUS
<1>5. Scanned(v, v.cur[n]) = {k \in there : Cardinality({j \in there : j < k}) * BlkSize < v.cur[n].size}
  BY DEF Scanned
<1>6. there = {k \in FileBlk : BlockIn(v, n, k) # 0}
  BY DEF BlockIn
<1> HIDE DEF there
<1>7. ASSUME NEW k \in there
      PROVE  Cardinality({j \in there : j < k}) * BlkSize < v.cur[n].size
  <2>1. k \in Nat /\ k <= m /\ k \in FileBlk
    BY <1>2, <1>3, <1>4
  <2>2. {j \in there : j < k} = 0 .. k - 1
    <3>1. \A j \in there : j \in Nat /\ j \in FileBlk
      BY <1>2, <1>4
    <3>2. \A j \in 0 .. k - 1 : j \in FileBlk /\ j <= m /\ j < k
      BY <1>2, <2>1
    <3>3. \A j \in 0 .. k - 1 : j \in there
      BY <1>3, <3>2
    <3>4. \A j \in there : j < k => j \in 0 .. k - 1
      BY <2>1, <3>1
    <3>5. \A j \in 0 .. k - 1 : j < k
      BY <2>1
    <3> QED
      BY <3>3, <3>4, <3>5
  <2>3. Cardinality(0 .. k - 1) = k
    <3>1. 0 \in Int /\ k - 1 \in Int
      BY <2>1
    <3> QED
      BY <2>1, <3>1, FS_Interval
  <2>4. BlkSize \in Nat \ {0}
    BY Sizes
  <2>5. k * BlkSize < (m + 1) * BlkSize
    BY <1>2, <2>1, <2>4
  <2> QED
    BY Zenon, <1>1, <2>2, <2>3, <2>5
<1> QED
  BY <1>5, <1>6, <1>7

\* What FS looks at in a directory.
LEMMA ListingIs ==
    ASSUME NEW f, NEW n, Mem(f, n).node = Disk(f).cur[n], DirOK(Disk(f), n)
    PROVE  /\ \A k \in FileBlk, i \in 0 .. PerBlk - 1 : Used(Disk(f), n, k, i) =>
                 <<PerBlk * k + i, Cell(Disk(f), n, k, i).name, Cell(Disk(f), n, k, i).nr>>
                     \in Listing(f, n)
           /\ \A e \in Listing(f, n) : \E k \in FileBlk, i \in 0 .. PerBlk - 1 :
                 /\ Used(Disk(f), n, k, i)
                 /\ e = <<PerBlk * k + i, Cell(Disk(f), n, k, i).name, Cell(Disk(f), n, k, i).nr>>
<1> DEFINE v == Disk(f)
           node == Mem(f, n).node
<1>1. v.body = f.body
  BY DEF Disk
<1>2. \A k : BlockOf(f, node.zone, k) = BlockIn(v, n, k)
  BY <1>1 DEF BlockIn, BlockOf, Ptr
<1>3. Scanned(f, node) = {k \in FileBlk : BlockIn(v, n, k) # 0}
  <2>1. Scanned(f, node) = Scanned(v, node)
    BY <1>1 DEF Scanned, BlockOf, Ptr
  <2> QED
    BY <2>1, ScannedIs DEF DirOK
<1> DEFINE row(k) == {<<PerBlk * k + i, v.body[BlockIn(v, n, k)][i].name, v.body[BlockIn(v, n, k)][i].nr>> :
                         i \in DOMAIN v.body[BlockIn(v, n, k)]}
<1>4. Listing(f, n) = UNION {row(k) : k \in {l \in FileBlk : BlockIn(v, n, l) # 0}}
  BY <1>1, <1>2, <1>3 DEF Listing
<1>5. \A k \in FileBlk : BlockIn(v, n, k) # 0 => DOMAIN v.body[BlockIn(v, n, k)] \subseteq 0 .. PerBlk - 1
  BY DEF DirOK, Cells
<1> HIDE DEF v
<1>6. ASSUME NEW k \in FileBlk, NEW i \in 0 .. PerBlk - 1, Used(v, n, k, i)
      PROVE  <<PerBlk * k + i, Cell(v, n, k, i).name, Cell(v, n, k, i).nr>> \in Listing(f, n)
  <2>1. BlockIn(v, n, k) # 0 /\ i \in DOMAIN v.body[BlockIn(v, n, k)]
    BY <1>6 DEF Used
  <2>2. <<PerBlk * k + i, Cell(v, n, k, i).name, Cell(v, n, k, i).nr>> \in row(k)
    BY <2>1 DEF Cell
  <2> HIDE DEF row
  <2> QED
    BY <1>4, <2>1, <2>2
<1>7. ASSUME NEW e \in Listing(f, n)
      PROVE  \E k \in FileBlk, i \in 0 .. PerBlk - 1 :
                 /\ Used(v, n, k, i)
                 /\ e = <<PerBlk * k + i, Cell(v, n, k, i).name, Cell(v, n, k, i).nr>>
  <2>1. PICK k \in FileBlk : BlockIn(v, n, k) # 0 /\ e \in row(k)
    BY <1>4
  <2>2. PICK i \in DOMAIN v.body[BlockIn(v, n, k)] :
           e = <<PerBlk * k + i, v.body[BlockIn(v, n, k)][i].name, v.body[BlockIn(v, n, k)][i].nr>>
    BY <2>1
  <2>3. i \in 0 .. PerBlk - 1
    BY <1>5, <2>1
  <2> QED
    BY <2>1, <2>2, <2>3 DEF Used, Cell
<1> QED
  BY <1>6, <1>7 DEF v
\* The entry of a name is the one in place i of block k.
FoundAt(f, n, name, k, i) ==
    /\ Earliest(FindEntry(f, n, name, TRUE))[1] = PerBlk * k + i
    /\ Child(f, n, name, TRUE) = Cell(Disk(f), n, k, i).nr

(* What find_entry returns, and the place it found: there is one entry of a   *)
(* name (namei.c:15-54).                                                    *)
LEMMA ChildIs ==
    ASSUME NEW f, NEW n, Mem(f, n).node = Disk(f).cur[n], DirOK(Disk(f), n),
           NEW name, NEW last
    PROVE  /\ Child(f, n, name, last) = 0
              \/ <<n, name, Child(f, n, name, last)>> \in EntsOf(Disk(f), n)
           /\ Child(f, n, name, TRUE) = 0 <=> \A e \in EntsOf(Disk(f), n) : e[2] # name
           /\ \A k \in FileBlk, i \in 0 .. PerBlk - 1 :
                 Used(Disk(f), n, k, i) /\ Cell(Disk(f), n, k, i).name = name =>
                     FoundAt(f, n, name, k, i)
<1> DEFINE v == Disk(f)
           row(k, i) == <<PerBlk * k + i, Cell(v, n, k, i).name, Cell(v, n, k, i).nr>>
<1>1. /\ \A k \in FileBlk, i \in 0 .. PerBlk - 1 : Used(v, n, k, i) => row(k, i) \in Listing(f, n)
      /\ \A e \in Listing(f, n) : \E k \in FileBlk, i \in 0 .. PerBlk - 1 :
             Used(v, n, k, i) /\ e = row(k, i)
  BY ListingIs
<1>2. OneEach(v, n) /\ Cells(v, n)
  BY DEF DirOK
<1>3. PerBlk \in Nat /\ FileBlk \subseteq Nat
  BY NamesAssumption, Sizes DEF FileBlk
<1>4. ASSUME NEW k \in FileBlk, NEW i \in 0 .. PerBlk - 1, Used(v, n, k, i)
      PROVE  Cell(v, n, k, i).nr \in Inr /\ Cell(v, n, k, i).nr # 0 /\ PerBlk * k + i \in Int
  <2>1. Cell(v, n, k, i) \in [name : Name, nr : Inr]
    BY <1>2, <1>4 DEF Cells, Used
  <2>2. 0 \notin Inr
    BY DEF Inr
  <2>3. k \in Nat /\ i \in Nat
    BY <1>3
  <2> QED
    BY <1>3, <2>1, <2>2, <2>3
<1>5. ASSUME NEW hit
      PROVE  /\ FindEntry(f, n, name, hit) \subseteq {e \in Listing(f, n) : e[2] = name}
             /\ FindEntry(f, n, name, TRUE) = {e \in Listing(f, n) : e[2] = name}
  BY DEF FindEntry, Matching
<1>6. ASSUME NEW S \in SUBSET {e \in Listing(f, n) : e[2] = name}, S # {}
      PROVE  \E k \in FileBlk, i \in 0 .. PerBlk - 1 :
                /\ Used(v, n, k, i) /\ Cell(v, n, k, i).name = name
                /\ Earliest(S) = row(k, i)
  <2>1. PICK e \in S : TRUE
    BY <1>6
  <2>2. PICK k \in FileBlk, i \in 0 .. PerBlk - 1 : Used(v, n, k, i) /\ e = row(k, i)
    BY <1>1, <2>1
  <2>3. Cell(v, n, k, i).name = name
    BY <2>1, <2>2
  <2>4. \A u \in S : u = e
    <3> TAKE u \in S
    <3>1. PICK l \in FileBlk, j \in 0 .. PerBlk - 1 : Used(v, n, l, j) /\ u = row(l, j)
      BY <1>1
    <3>2. Cell(v, n, l, j).name = name
      BY <3>1
    <3>3. k = l /\ i = j
      BY <1>2, <2>2, <2>3, <3>1, <3>2 DEF OneEach
    <3> QED
      BY <2>2, <3>1, <3>3
  <2>5. e[1] = PerBlk * k + i
    BY <2>2
  <2>6. e[1] <= e[1]
    BY <1>4, <2>2, <2>5
  <2>7. Earliest(S) = e
    BY <2>1, <2>4, <2>6 DEF Earliest
  <2> QED
    BY <2>2, <2>3, <2>7
<1> HIDE DEF v
<1>7. Child(f, n, name, last) = 0 \/ <<n, name, Child(f, n, name, last)>> \in EntsOf(v, n)
  <2> DEFINE S == FindEntry(f, n, name, last)
  <2>1. S \in SUBSET {e \in Listing(f, n) : e[2] = name}
    BY Zenon, <1>5
  <2>2. CASE S = {}
    BY <2>2 DEF Child, NrIn
  <2>3. CASE S # {}
    <3> HIDE DEF S
    <3>1. PICK k \in FileBlk, i \in 0 .. PerBlk - 1 :
             /\ Used(v, n, k, i) /\ Cell(v, n, k, i).name = name
             /\ Earliest(S) = row(k, i)
      BY Zenon, <1>6, <2>1, <2>3
    <3>2. Child(f, n, name, last) = Cell(v, n, k, i).nr
      BY <2>3, <3>1 DEF Child, NrIn, S
    <3> QED
      BY <3>1, <3>2, EntsAre
  <2> QED
    BY <2>2, <2>3
<1>8. ASSUME NEW k \in FileBlk, NEW i \in 0 .. PerBlk - 1,
             Used(v, n, k, i), Cell(v, n, k, i).name = name
      PROVE  /\ Earliest(FindEntry(f, n, name, TRUE))[1] = PerBlk * k + i
             /\ Child(f, n, name, TRUE) = Cell(v, n, k, i).nr
             /\ Child(f, n, name, TRUE) # 0
  <2> DEFINE S == FindEntry(f, n, name, TRUE)
  <2>1. S = {e \in Listing(f, n) : e[2] = name}
    BY Zenon, <1>5
  <2>2. row(k, i) \in S
    BY Zenon, <1>1, <1>8, <2>1
  <2> HIDE DEF S
  <2>3. PICK l \in FileBlk, j \in 0 .. PerBlk - 1 :
           /\ Used(v, n, l, j) /\ Cell(v, n, l, j).name = name
           /\ Earliest(S) = row(l, j)
    BY Zenon, <1>6, <2>1, <2>2
  <2>4. k = l /\ i = j
    BY <1>2, <1>8, <2>3 DEF OneEach
  <2>5. Child(f, n, name, TRUE) = Earliest(S)[3]
    BY Zenon, <2>2 DEF Child, NrIn, S
  <2>6. Earliest(S) = row(k, i)
    BY <2>3, <2>4
  <2>7. row(k, i)[1] = PerBlk * k + i /\ row(k, i)[3] = Cell(v, n, k, i).nr
    OBVIOUS
  <2>8. Cell(v, n, k, i).nr # 0
    BY <1>4, <1>8
  <2> HIDE DEF row
  <2> QED
    BY Zenon, <2>5, <2>6, <2>7, <2>8 DEF S
<1>9. Child(f, n, name, TRUE) = 0 <=> \A e \in EntsOf(v, n) : e[2] # name
  <2>1. ASSUME NEW e \in EntsOf(v, n), e[2] = name
        PROVE  Child(f, n, name, TRUE) # 0
    <3>1. PICK k \in FileBlk, i \in 0 .. PerBlk - 1 :
             Used(v, n, k, i) /\ e = <<n, Cell(v, n, k, i).name, Cell(v, n, k, i).nr>>
      BY EntsAre
    <3>2. Cell(v, n, k, i).name = name
      BY <2>1, <3>1
    <3> QED
      BY Zenon, <1>8, <3>1, <3>2
  <2>2. ASSUME Child(f, n, name, TRUE) # 0
        PROVE  \E e \in EntsOf(v, n) : e[2] = name
    <3> DEFINE S == FindEntry(f, n, name, TRUE)
    <3>1. S \in SUBSET {e \in Listing(f, n) : e[2] = name} /\ S # {}
      BY Zenon, <1>5, <2>2 DEF Child, NrIn
    <3> HIDE DEF S
    <3>2. PICK k \in FileBlk, i \in 0 .. PerBlk - 1 :
             Used(v, n, k, i) /\ Cell(v, n, k, i).name = name
      BY Zenon, <1>6, <3>1
    <3>3. <<n, Cell(v, n, k, i).name, Cell(v, n, k, i).nr>> \in EntsOf(v, n)
      BY <3>2, EntsAre
    <3> QED
      BY <3>2, <3>3
  <2> QED
    BY Zenon, <2>1, <2>2
<1> QED
  BY Zenon, <1>7, <1>8, <1>9 DEF v, FoundAt
\* A directory that has its entries in w where it has them in v, and one more.
OneMore(v, w, d, k, i, entry) ==
    /\ \A l \in FileBlk, j \in 0 .. PerBlk - 1 :
          Used(w, d, l, j) <=> Used(v, d, l, j) \/ (l = k /\ j = i)
    /\ \A l \in FileBlk, j \in 0 .. PerBlk - 1 :
          Used(v, d, l, j) => Cell(w, d, l, j) = Cell(v, d, l, j)
    /\ k \in FileBlk /\ i \in 0 .. PerBlk - 1
    /\ ~Used(v, d, k, i) /\ Cell(w, d, k, i) = entry

\* Writing one more cell adds one entry to the directory, and no other.
LEMMA OneMoreEnts ==
    ASSUME NEW v, NEW w, NEW d, NEW k, NEW i, NEW x, NEW r, NEW entry,
           entry.name = x, entry.nr = r, OneMore(v, w, d, k, i, entry)
    PROVE  EntsOf(w, d) = EntsOf(v, d) \cup {<<d, x, r>>}
<1>1. ASSUME NEW e \in EntsOf(w, d)
      PROVE  e \in EntsOf(v, d) \cup {<<d, x, r>>}
  <2>1. PICK l \in FileBlk, j \in 0 .. PerBlk - 1 :
           Used(w, d, l, j) /\ e = <<d, Cell(w, d, l, j).name, Cell(w, d, l, j).nr>>
    BY EntsAre
  <2>2. CASE Used(v, d, l, j)
    <3>1. e = <<d, Cell(v, d, l, j).name, Cell(v, d, l, j).nr>>
      BY <2>1, <2>2 DEF OneMore
    <3> QED
      BY <2>2, <3>1, EntsAre
  <2>3. CASE l = k /\ j = i
    BY <2>1, <2>3 DEF OneMore
  <2> QED
    BY <2>1, <2>2, <2>3 DEF OneMore
<1>2. ASSUME NEW e \in EntsOf(v, d)
      PROVE  e \in EntsOf(w, d)
  <2>1. PICK l \in FileBlk, j \in 0 .. PerBlk - 1 :
           Used(v, d, l, j) /\ e = <<d, Cell(v, d, l, j).name, Cell(v, d, l, j).nr>>
    BY EntsAre
  <2>2. Used(w, d, l, j) /\ e = <<d, Cell(w, d, l, j).name, Cell(w, d, l, j).nr>>
    BY <2>1 DEF OneMore
  <2> QED
    BY <2>2, EntsAre
<1>3. <<d, x, r>> \in EntsOf(w, d)
  <2>1. k \in FileBlk /\ i \in 0 .. PerBlk - 1 /\ Used(w, d, k, i) /\ Cell(w, d, k, i) = entry
    BY DEF OneMore
  <2>2. <<d, Cell(w, d, k, i).name, Cell(w, d, k, i).nr>> \in EntsOf(w, d)
    BY <2>1, EntsAre
  <2> QED
    BY <2>1, <2>2
<1> QED
  BY <1>1, <1>2, <1>3

(* An entry is put into a block of a directory, or into a block after its     *)
(* last one.                                                                *)
Entered(v, w, d, k, i, entry) ==
    /\ Mapped(w, w.cur[d].zone) /\ Marks(w, d)
    /\ k \in FileBlk /\ i \in 0 .. PerBlk - 1
    /\ BlockIn(w, d, k) # 0
    /\ \A l \in FileBlk \ {k} : /\ BlockIn(w, d, l) = BlockIn(v, d, l)
                                /\ BlockIn(v, d, l) # 0 =>
                                      w.body[BlockIn(v, d, l)] = v.body[BlockIn(v, d, l)]
    /\ \/ /\ BlockIn(w, d, k) = BlockIn(v, d, k)
          /\ i \notin DOMAIN v.body[BlockIn(v, d, k)]
          /\ w.body[BlockIn(w, d, k)] = Put(v.body[BlockIn(v, d, k)], i, entry)
          /\ w.cur[d].size = v.cur[d].size
       \/ /\ BlockIn(v, d, k) = 0
          /\ \A l \in FileBlk : l < k => BlockIn(v, d, l) # 0
          /\ w.body[BlockIn(w, d, k)] = Put(ZeroBlk, i, entry)
          /\ w.cur[d].size = v.cur[d].size + BlkSize

\* The first block and the first two entries.
LEMMA FirstPlaces ==
    0 \in FileBlk /\ FileBlk \subseteq Nat /\ PerBlk \in Nat
    /\ 0 \in 0 .. PerBlk - 1 /\ 1 \in 0 .. PerBlk - 1
<1>1. 0 \in FileBlk /\ FileBlk \subseteq Nat
  BY Sizes DEF FileBlk
<1>2. PerBlk \in Nat /\ PerBlk > 2
  BY NamesAssumption
<1> QED
  BY <1>1, <1>2

\* c is b with x at place i.
IsPut(c, b, i, x) ==
    /\ DOMAIN c = {i} \cup DOMAIN b /\ c[i] = x
    /\ \A j \in DOMAIN b \ {i} : c[j] = b[j]

\* What Put does to one place of a block, and to the others.
LEMMA PutIs ==
    ASSUME NEW b, NEW i, NEW x
    PROVE  IsPut(Put(b, i, x), b, i, x)
BY DEF Put, Fill, IsPut

\* A block that was just given out has nothing in it.
LEMMA NothingThere == DOMAIN ZeroBlk = {}
BY DEF ZeroBlk

\* A directory with a new name in a free cell is good, and has the new entry besides the old ones.
LEMMA EnteredIs ==
    ASSUME NEW v, NEW w, NEW d, DirOK(v, d), NEW k, NEW i, NEW x \in Name, NEW r \in Inr, NEW entry,
           entry = [name |-> x, nr |-> r], Entered(v, w, d, k, i, entry),
           \A e \in EntsOf(v, d) : e[2] # x
    PROVE  DirOK(w, d) /\ EntsOf(w, d) = EntsOf(v, d) \cup {<<d, x, r>>}
<1>0. /\ k \in FileBlk /\ i \in 0 .. PerBlk - 1 /\ entry.name = x /\ entry.nr = r
      /\ entry \in [name : Name, nr : Inr]
  BY DEF Entered
<1>1. ASSUME NEW l \in FileBlk \ {k}
      PROVE  \A j : /\ Used(w, d, l, j) <=> Used(v, d, l, j)
                    /\ Used(v, d, l, j) => Cell(w, d, l, j) = Cell(v, d, l, j)
  <2>1. BlockIn(w, d, l) = BlockIn(v, d, l)
        /\ (BlockIn(v, d, l) # 0 => w.body[BlockIn(v, d, l)] = v.body[BlockIn(v, d, l)])
    BY DEF Entered
  <2> QED
    BY <2>1 DEF Used, Cell
<1>2. /\ \A j : Used(w, d, k, j) <=> Used(v, d, k, j) \/ j = i
      /\ \A j : Used(v, d, k, j) => Cell(w, d, k, j) = Cell(v, d, k, j)
      /\ ~Used(v, d, k, i) /\ Cell(w, d, k, i) = entry
  <2>1. CASE BlockIn(w, d, k) = BlockIn(v, d, k) /\ BlockIn(v, d, k) # 0
    <3> DEFINE b == v.body[BlockIn(v, d, k)]
               c == w.body[BlockIn(w, d, k)]
    <3>1. c = Put(b, i, entry) /\ i \notin DOMAIN b
      BY <2>1 DEF Entered
    <3>2. DOMAIN c = {i} \cup DOMAIN b /\ c[i] = entry /\ \A j \in DOMAIN b : c[j] = b[j]
      <4> HIDE DEF b, c
      <4>1. IsPut(c, b, i, entry)
        BY <3>1, PutIs
      <4> QED
        BY <3>1, <4>1 DEF IsPut
    <3>3. \A j : /\ Used(w, d, k, j) <=> j \in DOMAIN c
                 /\ Used(v, d, k, j) <=> j \in DOMAIN b
                 /\ Cell(w, d, k, j) = c[j] /\ Cell(v, d, k, j) = b[j]
      BY <2>1 DEF Used, Cell
    <3> HIDE DEF b, c
    <3> QED
      BY <3>1, <3>2, <3>3
  <2>2. CASE BlockIn(v, d, k) = 0
    <3> DEFINE c == w.body[BlockIn(w, d, k)]
    <3>1. c = Put(ZeroBlk, i, entry) /\ BlockIn(w, d, k) # 0
      BY <2>2 DEF Entered
    <3>2. DOMAIN c = {i} /\ c[i] = entry
      <4> HIDE DEF c
      <4>1. IsPut(c, ZeroBlk, i, entry)
        BY <3>1, PutIs
      <4> QED
        BY <4>1, NothingThere DEF IsPut
    <3>3. \A j : /\ Used(w, d, k, j) <=> j \in DOMAIN c
                 /\ ~Used(v, d, k, j)
                 /\ Cell(w, d, k, j) = c[j]
      BY <2>2, <3>1 DEF Used, Cell
    <3> HIDE DEF c
    <3> QED
      BY <3>2, <3>3
  <2> QED
    BY <2>1, <2>2 DEF Entered
<1>3. OneMore(v, w, d, k, i, entry)
  BY <1>0, <1>1, <1>2 DEF OneMore
<1>4. EntsOf(w, d) = EntsOf(v, d) \cup {<<d, x, r>>}
  BY <1>0, <1>3, OneMoreEnts
<1>5. Shape(w, d)
  <2>1. PICK m \in FileBlk : /\ \A l \in FileBlk : BlockIn(v, d, l) # 0 <=> l <= m
                             /\ v.cur[d].size = (m + 1) * BlkSize
    BY DEF DirOK, Shape
  <2>2. CASE BlockIn(w, d, k) = BlockIn(v, d, k) /\ BlockIn(v, d, k) # 0
    <3>1. w.cur[d].size = v.cur[d].size /\ \A l \in FileBlk : BlockIn(w, d, l) = BlockIn(v, d, l)
      BY <2>2 DEF Entered
    <3> QED
      BY <2>1, <3>1 DEF Shape
  <2>3. CASE BlockIn(v, d, k) = 0
    <3>1. /\ w.cur[d].size = v.cur[d].size + BlkSize
          /\ \A l \in FileBlk : l < k => BlockIn(v, d, l) # 0
          /\ BlockIn(w, d, k) # 0
          /\ \A l \in FileBlk \ {k} : BlockIn(w, d, l) = BlockIn(v, d, l)
      BY <2>3 DEF Entered
    <3>2. k \in Nat /\ m \in Nat /\ FileBlk \subseteq Nat /\ BlkSize \in Nat
          /\ \A l \in Nat : l < k => l \in FileBlk
      BY <1>0, Sizes DEF FileBlk
    <3>3. k = m + 1
      <4>1. ~(k <= m)
        BY <1>0, <2>1, <2>3
      <4>2. m + 1 < k => m + 1 \in FileBlk /\ BlockIn(v, d, m + 1) # 0
        BY <3>1, <3>2
      <4>3. ~(m + 1 <= m) /\ m + 1 \in Nat
        BY <3>2
      <4> QED
        BY <2>1, <3>2, <4>1, <4>2, <4>3
    <3>4. \A l \in FileBlk : BlockIn(w, d, l) # 0 <=> l <= k
      BY <2>1, <3>1, <3>2, <3>3
    <3>5. w.cur[d].size = (k + 1) * BlkSize
      BY <2>1, <3>1, <3>2, <3>3
    <3> QED
      BY <1>0, <3>4, <3>5 DEF Shape
  <2> QED
    BY <2>2, <2>3 DEF Entered
<1>6. \A l \in FileBlk : BlockIn(w, d, l) # 0 => \A j \in DOMAIN w.body[BlockIn(w, d, l)] :
          j \in 0 .. PerBlk - 1 /\ Cell(w, d, l, j) \in [name : Name, nr : Inr]
  <2> TAKE l \in FileBlk
  <2> HAVE BlockIn(w, d, l) # 0
  <2> TAKE j \in DOMAIN w.body[BlockIn(w, d, l)]
  <2>1. Used(w, d, l, j)
    BY DEF Used
  <2>2. Used(v, d, l, j) => j \in 0 .. PerBlk - 1 /\ Cell(v, d, l, j) \in [name : Name, nr : Inr]
    BY DEF DirOK, Cells, Used
  <2>3. CASE l = k /\ j = i
    BY <1>0, <1>2, <2>3
  <2>4. CASE Used(v, d, l, j)
    <3>1. Cell(w, d, l, j) = Cell(v, d, l, j)
      BY <1>1, <1>2, <2>4
    <3> QED
      BY <2>2, <2>4, <3>1
  <2> QED
    BY <1>1, <1>2, <2>1, <2>3, <2>4
<1>7. Cells(w, d)
  BY <1>6 DEF Cells
<1>8. OneEach(w, d)
  <2>1. \A l \in FileBlk, j \in 0 .. PerBlk - 1 : Used(v, d, l, j) => Cell(v, d, l, j).name # x
    <3> TAKE l \in FileBlk, j \in 0 .. PerBlk - 1
    <3> HAVE Used(v, d, l, j)
    <3>1. <<d, Cell(v, d, l, j).name, Cell(v, d, l, j).nr>> \in EntsOf(v, d)
      BY EntsAre
    <3> QED
      BY <3>1
  <2>2. \A l \in FileBlk, j \in 0 .. PerBlk - 1 :
           Used(w, d, l, j) /\ ~(l = k /\ j = i) =>
               /\ Used(v, d, l, j) /\ Cell(w, d, l, j) = Cell(v, d, l, j)
               /\ Cell(w, d, l, j).name # x
    BY <1>3, <2>1 DEF OneMore
  <2>3. Cell(w, d, k, i).name = x
    BY <1>0, <1>2
  <2>4. OneEach(v, d)
    BY DEF DirOK
  <2> QED
    BY <2>2, <2>3, <2>4 DEF OneEach
<1>9. Dots(w, d)
  <2>1. 0 \in FileBlk /\ 0 \in 0 .. PerBlk - 1 /\ 1 \in 0 .. PerBlk - 1
    BY FirstPlaces
  <2>2. \A j \in {0, 1} : Used(v, d, 0, j) => Used(w, d, 0, j) /\ Cell(w, d, 0, j) = Cell(v, d, 0, j)
    BY <1>3, <2>1 DEF OneMore
  <2>3. d # Root => /\ Used(v, d, 0, 0) /\ Cell(v, d, 0, 0) = [name |-> Dot, nr |-> d]
                    /\ Used(v, d, 0, 1) /\ Cell(v, d, 0, 1).name = DotDot
    BY DEF DirOK, Dots
  <2>4. d # Root => /\ Used(w, d, 0, 0) /\ Cell(w, d, 0, 0) = Cell(v, d, 0, 0)
                    /\ Used(w, d, 0, 1) /\ Cell(w, d, 0, 1) = Cell(v, d, 0, 1)
    BY <2>2, <2>3
  <2>5. d # Root => Cell(w, d, 0, 0) = [name |-> Dot, nr |-> d]
    BY <2>3, <2>4
  <2>6. d # Root => Cell(w, d, 0, 1).name = DotDot
    BY <2>3, <2>4
  <2> QED
    BY <2>4, <2>5, <2>6, Zenon DEF Dots
<1> QED
  BY <1>4, <1>5, <1>7, <1>8, <1>9 DEF DirOK, Entered
(* An entry of a directory is cleared. *)
Left(v, w, d, k, i) ==
    /\ w.cur[d].zone = v.cur[d].zone /\ w.cur[d].size = v.cur[d].size
    /\ w.zmap = v.zmap
    /\ k \in FileBlk /\ i \in 0 .. PerBlk - 1 /\ Used(v, d, k, i)
    /\ \A b \in Blk : b # BlockIn(v, d, k) => w.body[b] = v.body[b]
    /\ DOMAIN w.body[BlockIn(v, d, k)] = DOMAIN v.body[BlockIn(v, d, k)] \ {i}
    /\ \A j \in DOMAIN v.body[BlockIn(v, d, k)] \ {i} :
          w.body[BlockIn(v, d, k)][j] = v.body[BlockIn(v, d, k)][j]

\* A directory that loses a cell other than its dots is good, and has the other entries.
LEMMA LeftIs ==
    ASSUME NEW v, NEW w, NEW d, DirOK(v, d), NEW k, NEW i, Left(v, w, d, k, i),
           Cell(v, d, k, i).name \notin Dotted
    PROVE  /\ DirOK(w, d) /\ HeldBy(w, d) = HeldBy(v, d)
           /\ EntsOf(w, d) = EntsOf(v, d) \ {<<d, Cell(v, d, k, i).name, Cell(v, d, k, i).nr>>}
<1> DEFINE zone == v.cur[d].zone
           x == Cell(v, d, k, i).name
<1>0. /\ k \in FileBlk /\ i \in 0 .. PerBlk - 1 /\ Used(v, d, k, i) /\ BlockIn(v, d, k) # 0
      /\ w.cur[d].zone = zone /\ w.cur[d].size = v.cur[d].size /\ w.zmap = v.zmap
  BY DEF Left, Used
<1>1. Mapped(v, zone) /\ Marks(v, d) /\ Shape(v, d) /\ Cells(v, d) /\ OneEach(v, d) /\ Dots(v, d)
  BY DEF DirOK
<1>2. \A y \in Places : Part(w, zone, y) = Part(v, zone, y)
  <2>1. BlockOf(v, zone, k) # 0 /\ \A b \in Blk : b # BlockOf(v, zone, k) => w.body[b] = v.body[b]
    BY <1>0 DEF Left, BlockIn
  <2> QED
    BY <1>0, <1>1, <2>1, PlacesFilled
<1>3. Mapped(w, zone) /\ \A l \in FileBlk : BlockIn(w, d, l) = BlockIn(v, d, l)
  <2>1. \A l \in FileBlk : BlockOf(w, zone, l) = BlockOf(v, zone, l)
    BY <1>2, DataPlaceIs
  <2>2. Mapped(w, zone)
    BY <1>1, <1>2 DEF Mapped
  <2> QED
    BY <1>0, <2>1, <2>2 DEF BlockIn
<1>4. HeldBy(w, d) = HeldBy(v, d)
  BY <1>0, <1>2 DEF HeldBy
<1>5. Marks(w, d) /\ Shape(w, d)
  <2>1. Marks(w, d)
    BY <1>0, <1>1, <1>4 DEF Marks
  <2> QED
    BY <1>0, <1>1, <1>3, <2>1 DEF Shape
<1>6. ASSUME NEW l \in FileBlk, BlockIn(v, d, l) # 0
      PROVE  /\ DOMAIN w.body[BlockIn(v, d, l)] \subseteq DOMAIN v.body[BlockIn(v, d, l)]
             /\ \A j \in DOMAIN v.body[BlockIn(v, d, l)] :
                   /\ j \in DOMAIN w.body[BlockIn(v, d, l)] <=> ~(l = k /\ j = i)
                   /\ ~(l = k /\ j = i) =>
                         w.body[BlockIn(v, d, l)][j] = v.body[BlockIn(v, d, l)][j]
  <2>1. CASE l = k
    BY <2>1 DEF Left
  <2>2. CASE l # k
    <3>1. BlockIn(v, d, l) \in Blk /\ BlockIn(v, d, l) # BlockIn(v, d, k)
      BY <1>0, <1>1, <1>6, <2>2, BlockIsHeld
    <3>2. w.body[BlockIn(v, d, l)] = v.body[BlockIn(v, d, l)]
      BY <3>1 DEF Left
    <3> QED
      BY <2>2, <3>2
  <2> QED
    BY <2>1, <2>2
<1>7. ASSUME NEW l \in FileBlk, NEW j
      PROVE  /\ Used(w, d, l, j) <=> Used(v, d, l, j) /\ ~(l = k /\ j = i)
             /\ Used(w, d, l, j) => Cell(w, d, l, j) = Cell(v, d, l, j)
  BY <1>3, <1>6 DEF Used, Cell
<1>8. Cells(w, d)
  BY <1>1, <1>3, <1>6, <1>7 DEF Cells, Used
<1>9. OneEach(w, d)
  <2>1. \A l \in FileBlk, j \in 0 .. PerBlk - 1 : Used(w, d, l, j) =>
           Used(v, d, l, j) /\ Cell(w, d, l, j) = Cell(v, d, l, j)
    BY <1>7
  <2> QED
    BY <1>1, <2>1 DEF OneEach
<1>10. Dots(w, d)
  <2>1. 0 \in FileBlk
    BY FirstPlaces
  <2>2. d # Root => /\ Used(v, d, 0, 0) /\ Cell(v, d, 0, 0) = [name |-> Dot, nr |-> d]
                    /\ Used(v, d, 0, 1) /\ Cell(v, d, 0, 1).name = DotDot
    BY <1>1 DEF Dots
  <2>3. d # Root => Cell(v, d, 0, 0).name = Dot
    BY <2>2
  <2>4. d # Root => ~(0 = k /\ 0 = i) /\ ~(0 = k /\ 1 = i)
    BY <2>2, <2>3 DEF Dotted
  <2>5. d # Root => /\ Used(w, d, 0, 0) /\ Cell(w, d, 0, 0) = Cell(v, d, 0, 0)
                    /\ Used(w, d, 0, 1) /\ Cell(w, d, 0, 1) = Cell(v, d, 0, 1)
    BY <1>7, <2>1, <2>2, <2>4
  <2>6. d # Root => Cell(w, d, 0, 0) = [name |-> Dot, nr |-> d]
    BY <2>2, <2>5
  <2>7. d # Root => Cell(w, d, 0, 1).name = DotDot
    BY <2>2, <2>5
  <2> QED
    BY <2>5, <2>6, <2>7, Zenon DEF Dots
<1>11. ASSUME NEW e \in EntsOf(w, d)
       PROVE  e \in EntsOf(v, d) \ {<<d, x, Cell(v, d, k, i).nr>>}
  <2>1. PICK l \in FileBlk, j \in 0 .. PerBlk - 1 :
           Used(w, d, l, j) /\ e = <<d, Cell(w, d, l, j).name, Cell(w, d, l, j).nr>>
    BY EntsAre
  <2>2. Used(v, d, l, j) /\ e = <<d, Cell(v, d, l, j).name, Cell(v, d, l, j).nr>> /\ ~(l = k /\ j = i)
    BY <1>7, <2>1
  <2>3. e \in EntsOf(v, d)
    BY <2>2, EntsAre
  <2>4. Cell(v, d, l, j).name # x
    BY <1>0, <1>1, <2>2 DEF OneEach
  <2> QED
    BY <2>2, <2>3, <2>4
<1>12. ASSUME NEW e \in EntsOf(v, d) \ {<<d, x, Cell(v, d, k, i).nr>>}
       PROVE  e \in EntsOf(w, d)
  <2>1. PICK l \in FileBlk, j \in 0 .. PerBlk - 1 :
           Used(v, d, l, j) /\ e = <<d, Cell(v, d, l, j).name, Cell(v, d, l, j).nr>>
    BY EntsAre
  <2>2. ~(l = k /\ j = i)
    BY <2>1
  <2>3. Used(w, d, l, j) /\ e = <<d, Cell(w, d, l, j).name, Cell(w, d, l, j).nr>>
    BY <1>7, <2>1, <2>2
  <2> QED
    BY <2>3, EntsAre
<1>13. DirOK(w, d)
  BY <1>0, <1>3, <1>5, <1>8, <1>9, <1>10 DEF DirOK
<1> QED
  BY <1>4, <1>11, <1>12, <1>13

(* A new directory: one block with two entries. *)
Zoned(b) == [z \in Zone |-> IF z = 0 THEN b ELSE 0]

\* The only block such an inode has is its first one.
LEMMA ZonedParts ==
    ASSUME NEW f, NEW b \in Blk
    PROVE  /\ Mapped(f, Zoned(b))
           /\ {Part(f, Zoned(b), x) : x \in Places} \ {0} = {b}
           /\ BlockOf(f, Zoned(b), 0) = b
           /\ \A k \in FileBlk \ {0} : BlockOf(f, Zoned(b), k) = 0
<1> DEFINE zone == Zoned(b)
<1>1. 0 \in Zone /\ Ind \in Zone /\ Dind \in Zone /\ Ind # 0 /\ Dind # 0 /\ b \in Nr /\ b # 0 /\ 0 \in Nr
  BY Sizes
<1>2. zone[0] = b /\ zone \in [Zone -> Nr] /\ \A z \in Zone \ {0} : zone[z] = 0
  BY <1>1 DEF Zoned
<1>3. \A i : Ptr(f, 0, i) = 0
  BY DEF Ptr
<1> HIDE DEF zone
<1>4. \A x \in Places : Part(f, zone, x) = IF x = ZonePlace(0) THEN b ELSE 0
  <2> TAKE x \in Places
  <2>1. CASE \E z \in Zone : x = ZonePlace(z)
    <3>1. PICK z \in Zone : x = ZonePlace(z)
      BY <2>1
    <3>2. Part(f, zone, x) = zone[z]
      BY <3>1, PlaceKinds
    <3>3. x = ZonePlace(0) <=> z = 0
      BY <1>1, <3>1, PlacesApart
    <3> QED
      BY <1>2, <3>2, <3>3
  <2>2. CASE \E i \in Low : x = IndPlace(i)
    <3>1. PICK i \in Low : x = IndPlace(i)
      BY <2>2
    <3>2. Part(f, zone, x) = Ptr(f, zone[Ind], i)
      BY <3>1, PlaceKinds
    <3>3. x # ZonePlace(0)
      BY <1>1, <3>1, PlacesApart
    <3> QED
      BY <1>1, <1>2, <1>3, <3>2, <3>3
  <2>3. CASE \E a \in Low : x = DindPlace(a)
    <3>1. PICK a \in Low : x = DindPlace(a)
      BY <2>3
    <3>2. Part(f, zone, x) = Ptr(f, zone[Dind], a)
      BY <3>1, PlaceKinds
    <3>3. x # ZonePlace(0)
      BY <1>1, <3>1, PlacesApart
    <3> QED
      BY <1>1, <1>2, <1>3, <3>2, <3>3
  <2>4. CASE \E a, i \in Low : x = BelowPlace(a, i)
    <3>1. PICK a \in Low, i \in Low : x = BelowPlace(a, i)
      BY <2>4
    <3>2. Part(f, zone, x) = Ptr(f, Ptr(f, zone[Dind], a), i)
      BY <3>1, PlaceKinds
    <3>3. x # ZonePlace(0)
      BY <1>1, <3>1, PlacesApart
    <3>4. Ptr(f, zone[Dind], a) = 0
      BY <1>1, <1>2, <1>3
    <3> QED
      BY <1>3, <3>2, <3>3, <3>4
  <2> QED
    BY <2>1, <2>2, <2>3, <2>4, PlacesCovered
<1>5. ZonePlace(0) \in Places
  BY <1>1, PlaceKinds
<1>6. Mapped(f, zone)
  BY <1>1, <1>2, <1>4 DEF Mapped
<1>7. {Part(f, zone, x) : x \in Places} \ {0} = {b}
  <2>1. b \in {Part(f, zone, x) : x \in Places}
    BY <1>4, <1>5
  <2> QED
    BY <1>1, <1>4, <2>1
<1>8. DataPlace(0) = ZonePlace(0)
  BY Sizes DEF DataPlace
<1>9. BlockOf(f, zone, 0) = b
  BY <1>4, <1>5, <1>8, DataPlaceIs, FirstPlaces
<1>10. \A k \in FileBlk \ {0} : BlockOf(f, zone, k) = 0
  <2> TAKE k \in FileBlk \ {0}
  <2>1. DataPlace(k) # ZonePlace(0)
    BY <1>8, DataPlacesApart, FirstPlaces
  <2> QED
    BY <1>4, <2>1, DataPlaceIs
<1> QED
  BY <1>6, <1>7, <1>9, <1>10 DEF zone
-----------------------------------------------------------------------------
(* Entries of directories in the table. *)

\* Block b of g holds c; all else is as in f.
BodySetTo(f, g, b, c) ==
    /\ DOMAIN g = Fields /\ IsFs(g) /\ b \in Blk
    /\ g.imap = f.imap /\ g.zmap = f.zmap /\ g.dev = f.dev /\ g.table = f.table
    /\ g.pinned = f.pinned /\ g.status = f.status
    /\ \A a \in Blk \ {b} : g.body[a] = f.body[a]
    /\ g.body[b] = c

\* Writing one block changes nothing else.
LEMMA BodySet ==
    ASSUME NEW f, IsFs(f), NEW b \in Blk, NEW c, DOMAIN c \subseteq 0 .. BlkSize - 1
    PROVE  BodySetTo(f, [f EXCEPT !.body[b] = c], b, c)
<1> DEFINE g == [f EXCEPT !.body[b] = c]
<1>1. /\ DOMAIN g = Fields
      /\ g.imap = f.imap /\ g.zmap = f.zmap /\ g.dev = f.dev /\ g.table = f.table
      /\ g.pinned = f.pinned /\ g.status = f.status
      /\ g.body = [f.body EXCEPT ![b] = c]
  BY DEF IsFs, Fields
<1> HIDE DEF g
<1>2. /\ DOMAIN g.body = Blk /\ g.body[b] = c
      /\ \A a \in Blk \ {b} : g.body[a] = f.body[a]
  BY <1>1 DEF IsFs
<1>3. \A a \in Blk : DOMAIN g.body[a] \subseteq 0 .. BlkSize - 1
  BY <1>2 DEF IsFs
<1>4. IsFs(g)
  BY <1>1, <1>2, <1>3 DEF IsFs
<1>5. BodySetTo(f, g, b, c)
  BY <1>1, <1>2, <1>4 DEF BodySetTo
<1> QED
  BY <1>5 DEF g

\* A node with another size.
Sized(nd, x) == [nd EXCEPT !.size = x]

\* An inode whose size is changed keeps its mode, links and zones.
LEMMA SizedIs ==
    ASSUME NEW nd \in Node, NEW x \in Nat
    PROVE  /\ Sized(nd, x) \in Node /\ Sized(nd, x).size = x
           /\ Sized(nd, x).mode = nd.mode /\ Sized(nd, x).nlinks = nd.nlinks
           /\ Sized(nd, x).zone = nd.zone
BY DEF Sized, Node

\* Block b holds c, and the node in entry s is x bytes longer and dirty.
Written(h, s, b, c, x) ==
    [h EXCEPT !.body[b] = c, !.table[s].node.size = @ + x, !.table[s].dirt = TRUE]

(* What add_entry writes: an entry into block b, and the size (namei.c:83-92). *)
LEMMA EntryWritten ==
    ASSUME NEW h, IsFs(h), NEW s \in Slot, NEW b \in Blk, NEW c, DOMAIN c \subseteq 0 .. BlkSize - 1,
           NEW x \in Nat, NEW g, g = Written(h, s, b, c, x)
    PROVE  /\ IsFs(g)
           /\ g.imap = h.imap /\ g.zmap = h.zmap /\ g.dev = h.dev
           /\ g.pinned = h.pinned /\ g.status = h.status
           /\ \A a \in Blk \ {b} : g.body[a] = h.body[a]
           /\ g.body[b] = c
           /\ \A t \in Slot \ {s} : g.table[t] = h.table[t]
           /\ g.table[s].num = h.table[s].num /\ g.table[s].cnt = h.table[s].cnt
           /\ g.table[s].dirt
           /\ g.table[s].node = Sized(h.table[s].node, h.table[s].node.size + x)
<1> DEFINE h1 == [h EXCEPT !.body[b] = c]
           nd == Sized(h.table[s].node, h.table[s].node.size + x)
<1>1. BodySetTo(h, h1, b, c)
  BY BodySet
<1>2. h1.table = h.table /\ IsFs(h1)
  BY <1>1 DEF BodySetTo
<1>3. h.table[s].node \in Node /\ h.table[s].node.size + x \in Nat
  BY EntryIsTyped
<1>4. nd \in Node
  BY <1>3, SizedIs
<1>5. g = [h1 EXCEPT !.table[s].node = nd, !.table[s].dirt = TRUE]
  <2>1. g = [h1 EXCEPT !.table[s].node.size = @ + x, !.table[s].dirt = TRUE]
    BY DEF Written
  <2> HIDE DEF h1
  <2>2. [h1 EXCEPT !.table[s].node.size = @ + x, !.table[s].dirt = TRUE]
          = [h1 EXCEPT !.table[s].node = nd, !.table[s].dirt = TRUE]
    BY <1>2 DEF Sized
  <2> QED
    BY <2>1, <2>2
<1> HIDE DEF h1, nd
<1>6. NodeSetTo(h1, g, s, nd, TRUE)
  <2>1. NodeSetTo(h1, [h1 EXCEPT !.table[s].node = nd, !.table[s].dirt = TRUE], s, nd, TRUE)
    BY Zenon, <1>2, <1>4, NodeDirtSet
  <2> QED
    BY Zenon, <1>5, <2>1
<1>7. /\ IsFs(g)
      /\ g.imap = h.imap /\ g.zmap = h.zmap /\ g.dev = h.dev
      /\ g.pinned = h.pinned /\ g.status = h.status
      /\ \A a \in Blk \ {b} : g.body[a] = h.body[a]
      /\ g.body[b] = c
      /\ \A t \in Slot \ {s} : g.table[t] = h.table[t]
      /\ g.table[s].num = h.table[s].num /\ g.table[s].cnt = h.table[s].cnt
      /\ g.table[s].dirt
      /\ g.table[s].node = nd
  BY <1>1, <1>2, <1>6 DEF NodeSetTo, BodySetTo
<1> QED
  BY <1>7 DEF nd

\* Not every block of a file is full: it would have more than there are.
LEMMA NotFullIs ==
    ASSUME NEW f, NEW s, Mapped(f, Zones(f, s))
    PROVE  LET k == NotFull(f, s)
           IN  /\ k \in FileBlk /\ ~Full(f, Bmap(f, s, k))
               /\ \A j \in FileBlk : j < k => Bmap(f, s, j) # 0
<1> DEFINE zone == Zones(f, s)
           S == {k \in FileBlk : ~Full(f, Bmap(f, s, k))}
<1>1. FileBlk \subseteq Nat /\ \A k \in FileBlk : 0 .. k - 1 \subseteq FileBlk
  BY Sizes DEF FileBlk
<1>2. \A k \in FileBlk : /\ Bmap(f, s, k) = Part(f, zone, DataPlace(k)) /\ DataPlace(k) \in Places
                         /\ Bmap(f, s, k) \in Nr
  BY DataPlaceIs DEF Bmap, Zones, Mapped
<1>3. S # {}
  <2> SUFFICES ASSUME S = {} PROVE FALSE
    OBVIOUS
  <2>1. \A k \in FileBlk : Bmap(f, s, k) \in Blk
    BY <1>2, Sizes DEF Full
  <2> DEFINE to == [k \in FileBlk |-> Bmap(f, s, k)]
  <2>2. to \in Injection(FileBlk, Blk)
    <3>1. to \in [FileBlk -> Blk]
      BY <2>1
    <3>2. \A k, l \in FileBlk : Bmap(f, s, k) = Bmap(f, s, l) => k = l
      <4>1. \A k \in FileBlk : Bmap(f, s, k) # 0
        BY <2>1, Sizes
      <4> QED
        BY <1>2, <4>1, DataPlacesApart DEF Mapped
    <3>3. \A k, l \in FileBlk : to[k] = to[l] => k = l
      BY <3>2
    <3> QED
      BY <3>1, <3>3 DEF Injection, IsInjective
  <2>3. IsFiniteSet(Blk) /\ Cardinality(Blk) = NrZones - 1
    <3>1. 1 \in Int /\ NrZones - 1 \in Int /\ NrZones - 1 >= 1
      BY Sizes, NamesAssumption
    <3>2. IsFiniteSet(1 .. NrZones - 1) /\ Cardinality(1 .. NrZones - 1) = NrZones - 1
      BY <3>1, FS_Interval
    <3> QED
      BY <3>2 DEF Blk
  <2>4. Cardinality(FileBlk) <= Cardinality(Blk)
    BY <2>2, <2>3, FS_Injection
  <2>5. Cardinality(FileBlk) \in Nat
    <3>1. IsFiniteSet(FileBlk)
      BY <2>2, <2>3, FS_Injection
    <3> QED
      BY <3>1, FS_CardinalityType
  <2>6. NrZones <= Cardinality(FileBlk) /\ NrZones \in Nat
    BY NamesAssumption, Sizes
  <2> HIDE DEF S, to
  <2> QED
    BY <2>3, <2>4, <2>5, <2>6
<1>4. PICK n \in S : \A k \in S : n <= k
  <2>1. S \in SUBSET Nat
    BY Zenon, <1>1
  <2> HIDE DEF S
  <2> QED
    BY <1>3, <2>1, LeastExists
<1>5. \E k \in FileBlk : /\ ~Full(f, Bmap(f, s, k))
                         /\ \A j \in 0 .. k - 1 : Full(f, Bmap(f, s, j))
  <2>1. n \in FileBlk /\ n \in Nat /\ ~Full(f, Bmap(f, s, n))
    BY <1>1
  <2>2. ASSUME NEW j \in 0 .. n - 1
        PROVE  Full(f, Bmap(f, s, j))
    <3>1. j \in FileBlk /\ j \in Nat /\ j < n
      BY <1>1, <2>1
    <3>2. j \notin S
      BY <1>4, <2>1, <3>1
    <3> QED
      BY <3>1, <3>2
  <2> QED
    BY <2>1, <2>2
<1>6. /\ NotFull(f, s) \in FileBlk /\ ~Full(f, Bmap(f, s, NotFull(f, s)))
      /\ \A j \in 0 .. NotFull(f, s) - 1 : Full(f, Bmap(f, s, j))
  BY <1>5 DEF NotFull
<1>7. ASSUME NEW j \in FileBlk, j < NotFull(f, s)
      PROVE  Bmap(f, s, j) # 0
  <2>1. j \in Nat /\ NotFull(f, s) \in Nat
    BY Zenon, <1>1, <1>6
  <2>2. j \in 0 .. NotFull(f, s) - 1
    BY <1>7, <2>1
  <2> QED
    BY <1>6, <2>2 DEF Full
<1> QED
  BY <1>6, <1>7
\* The disk has the blocks that FS has.
LEMMA DiskBlocks ==
    ASSUME NEW f
    PROVE  /\ \A zone : \A x \in Places : Part(Disk(f), zone, x) = Part(f, zone, x)
           /\ \A zone : \A k \in FileBlk : BlockOf(Disk(f), zone, k) = BlockOf(f, zone, k)
<1>1. Disk(f).body = f.body
  BY DEF Disk
<1>2. \A zone : \A x \in Places : Part(Disk(f), zone, x) = Part(f, zone, x)
  BY <1>1, SameBlocks
<1>3. \A zone : \A k \in FileBlk : BlockOf(Disk(f), zone, k) = BlockOf(f, zone, k)
  BY <1>2, DataPlaceIs
<1> QED
  BY <1>2, <1>3

\* The marked blocks that are not those of directory d.
Foreign(f, d) == {b \in Blk : b - 1 \in f.zmap} \ HeldBy(Disk(f), d)

\* A good directory owns its blocks, beside all others in use.
LEMMA ForeignIs ==
    ASSUME NEW f, NEW d, DirOK(Disk(f), d)
    PROVE  OwnsIn(f, Disk(f).cur[d].zone, Foreign(f, d))
<1> DEFINE zone == Disk(f).cur[d].zone
           X == Foreign(f, d)
<1>1. Mapped(Disk(f), zone) /\ Marks(Disk(f), d)
  BY DEF DirOK
<1>2. \A x \in Places : Part(Disk(f), zone, x) = Part(f, zone, x)
  BY DiskBlocks
<1>3. HeldBy(Disk(f), d) = {Part(f, zone, x) : x \in Places} \ {0}
  BY <1>2 DEF HeldBy
<1>4. /\ zone \in [Zone -> Nr]
      /\ \A x \in Places : Part(f, zone, x) \in Nr
      /\ \A x, y \in Places : Part(f, zone, x) # 0 /\ Part(f, zone, x) = Part(f, zone, y) => x = y
  BY <1>1, <1>2 DEF Mapped
<1>5. X \in SUBSET Blk /\ 0 \notin X
  BY Sizes DEF Foreign
<1>6. \A x \in Places : Part(f, zone, x) \notin X
  BY <1>3, <1>5 DEF Foreign
<1>7. \A b \in Blk : b - 1 \in f.zmap <=> b \in X \/ \E x \in Places : Part(f, zone, x) = b
  <2> TAKE b \in Blk
  <2>1. b # 0
    BY Sizes
  <2>2. b \in HeldBy(Disk(f), d) <=> \E x \in Places : Part(f, zone, x) = b
    BY <1>3, <2>1
  <2>3. b \in HeldBy(Disk(f), d) => b - 1 \in f.zmap
    BY Zenon, <1>1 DEF Marks, Disk
  <2> QED
    BY <2>2, <2>3 DEF Foreign
<1> HIDE DEF zone, X
<1>8. OwnsIn(f, zone, X)
  BY <1>4, <1>5, <1>6, <1>7 DEF OwnsIn
<1> QED
  BY <1>8 DEF zone, X

(* Directory d, which the call keeps, has changed in its blocks only, and has  *)
(* taken none that was marked.                                              *)
Widened(f, g, d) ==
    /\ g.imap = f.imap /\ g.pinned = f.pinned /\ g.status = f.status
    /\ \A t \in Slot \ {Entry(f, d)} : g.table[t] = f.table[t]
    /\ g.table[Entry(f, d)].num = f.table[Entry(f, d)].num
    /\ g.table[Entry(f, d)].cnt = f.table[Entry(f, d)].cnt
    /\ \A m \in DOMAIN Disk(f).cur \ {d} : Disk(g).cur[m] = Disk(f).cur[m]
    /\ Disk(g).cur[d].mode = Disk(f).cur[d].mode
    /\ Disk(g).cur[d].nlinks = Disk(f).cur[d].nlinks
    /\ DirOK(Disk(g), d)
    /\ \A b \in Blk : b - 1 \in g.zmap <=> b \in Foreign(f, d) \/ b \in HeldBy(Disk(g), d)
    /\ HeldBy(Disk(g), d) \cap Foreign(f, d) = {}
    /\ \A b \in Foreign(f, d) : g.body[b] = f.body[b]

\* A directory that grew by one file block keeps what it had, and the rest of the disk is as it was.
LEMMA WidenedIs ==
    ASSUME NEW f, NEW H, NEW R, TableOK(f, H, R), NEW d \in Inr, R[d] > 0, DirOK(Disk(f), d),
           NEW g, IsFs(g), NEW s, s = Entry(f, d),
           g.imap = f.imap, g.dev = f.dev, g.pinned = f.pinned, g.status = f.status,
           \A t \in Slot \ {s} : g.table[t] = f.table[t],
           g.table[s].num = f.table[s].num, g.table[s].cnt = f.table[s].cnt,
           g.table[s].node.mode = f.table[s].node.mode,
           g.table[s].node.nlinks = f.table[s].node.nlinks,
           g.table[s].dirt \/ g.table[s] = f.table[s],
           OwnsIn(g, Zones(g, s), Foreign(f, d)),
           \A b \in Foreign(f, d) : g.body[b] = f.body[b],
           DirOK(Disk(g), d)
    PROVE  TableOK(g, H, R) /\ Widened(f, g, d) /\ Disk(g).cur[d] = g.table[s].node
<1>1. /\ s \in Slot /\ f.table[s].num = d /\ d # 0 /\ f.table[s].cnt > 0
      /\ f.table[s].node.nlinks > 0 /\ d \in DOMAIN Disk(f).cur
      /\ Disk(f).cur[d] = f.table[s].node
  BY HeldIs DEF Mem, LiveIn
<1>2. TableOK(g, H, R) /\ Disk(g).cur = With(Disk(f).cur, d, g.table[s].node)
  <2>1. g.pinned \in SUBSET Blk
    BY DEF TableOK
  <2> QED
    BY <1>1, <2>1, EntrySet
<1>3. /\ Disk(g).cur[d] = g.table[s].node
      /\ \A m \in DOMAIN Disk(f).cur \ {d} : Disk(g).cur[m] = Disk(f).cur[m]
  BY <1>1, <1>2 DEF With
<1>4. HeldBy(Disk(g), d) = {Part(g, Zones(g, s), x) : x \in Places} \ {0}
  <2>1. Disk(g).cur[d].zone = Zones(g, s)
    BY <1>3 DEF Zones
  <2> QED
    BY <2>1, DiskBlocks DEF HeldBy
<1>5. \A b \in Blk : b \in HeldBy(Disk(g), d) <=> \E x \in Places : Part(g, Zones(g, s), x) = b
  BY <1>4, Sizes
<1>6. \A b \in Blk : b - 1 \in g.zmap <=> b \in Foreign(f, d) \/ b \in HeldBy(Disk(g), d)
  BY <1>5 DEF OwnsIn
<1>7. HeldBy(Disk(g), d) \cap Foreign(f, d) = {}
  BY <1>4 DEF OwnsIn
<1>8. /\ Disk(g).cur[d].mode = Disk(f).cur[d].mode
      /\ Disk(g).cur[d].nlinks = Disk(f).cur[d].nlinks
  BY <1>1, <1>3
<1> QED
  BY <1>2, <1>3, <1>6, <1>7, <1>8 DEF Widened
\* A directory that has its blocks at other places on the disk is the same.
LEMMA DirSame ==
    ASSUME NEW v, NEW n, DirOK(v, n), NEW w, w.cur[n].size = v.cur[n].size,
           Mapped(w, w.cur[n].zone), Marks(w, n),
           \A k \in FileBlk : /\ BlockIn(w, n, k) = BlockIn(v, n, k)
                              /\ BlockIn(v, n, k) # 0 =>
                                    w.body[BlockIn(v, n, k)] = v.body[BlockIn(v, n, k)]
    PROVE  DirOK(w, n) /\ EntsOf(w, n) = EntsOf(v, n)
<1>1. /\ \A k \in FileBlk : \A i : Used(w, n, k, i) <=> Used(v, n, k, i)
      /\ \A k \in FileBlk : \A i : BlockIn(v, n, k) # 0 => Cell(w, n, k, i) = Cell(v, n, k, i)
  BY DEF Used, Cell
<1>2. Shape(w, n)
  BY DEF DirOK, Shape
<1>3. Cells(w, n)
  BY DEF DirOK, Cells, Cell
<1>4. OneEach(w, n)
  <2>1. \A k \in FileBlk : \A i : Used(v, n, k, i) => Cell(w, n, k, i) = Cell(v, n, k, i)
    BY <1>1 DEF Used
  <2> QED
    BY <1>1, <2>1 DEF DirOK, OneEach
<1>5. Dots(w, n)
  <2>1. \A j : Used(v, n, 0, j) => Used(w, n, 0, j) /\ Cell(w, n, 0, j) = Cell(v, n, 0, j)
    BY <1>1, FirstPlaces DEF Used
  <2>2. n # Root => /\ Used(v, n, 0, 0) /\ Cell(v, n, 0, 0) = [name |-> Dot, nr |-> n]
                    /\ Used(v, n, 0, 1) /\ Cell(v, n, 0, 1).name = DotDot
    BY DEF DirOK, Dots
  <2>3. n # Root => /\ Used(w, n, 0, 0) /\ Cell(w, n, 0, 0) = Cell(v, n, 0, 0)
                    /\ Used(w, n, 0, 1) /\ Cell(w, n, 0, 1) = Cell(v, n, 0, 1)
    BY <2>1, <2>2
  <2>4. n # Root => Cell(w, n, 0, 0) = [name |-> Dot, nr |-> n]
    BY <2>2, <2>3
  <2>5. n # Root => Cell(w, n, 0, 1).name = DotDot
    BY <2>2, <2>3
  <2> QED
    BY <2>3, <2>4, <2>5, Zenon DEF Dots
<1>6. EntsOf(w, n) = EntsOf(v, n)
  <2>1. {u \in FileBlk \X (0 .. PerBlk - 1) : Used(w, n, u[1], u[2])}
          = {u \in FileBlk \X (0 .. PerBlk - 1) : Used(v, n, u[1], u[2])}
    BY <1>1
  <2>2. \A u \in {u \in FileBlk \X (0 .. PerBlk - 1) : Used(v, n, u[1], u[2])} :
           Cell(w, n, u[1], u[2]) = Cell(v, n, u[1], u[2])
    BY <1>1 DEF Used
  <2> QED
    BY <2>1, <2>2 DEF EntsOf
<1> QED
  BY <1>2, <1>3, <1>4, <1>5, <1>6 DEF DirOK

\* Entry d of the table, which the call keeps, is the directory on the disk.
LEMMA EntrySetIs ==
    ASSUME NEW f, NEW H, NEW R, TableOK(f, H, R), NEW d \in Inr, R[d] > 0,
           NEW g, IsFs(g), NEW s, s = Entry(f, d),
           g.imap = f.imap, g.dev = f.dev, g.pinned = f.pinned,
           \A t \in Slot \ {s} : g.table[t] = f.table[t],
           g.table[s].num = f.table[s].num, g.table[s].cnt = f.table[s].cnt,
           g.table[s].node.nlinks = f.table[s].node.nlinks,
           g.table[s].dirt \/ g.table[s] = f.table[s]
    PROVE  Disk(g).cur[d] = g.table[s].node
<1>1. /\ s \in Slot /\ f.table[s].num = d /\ f.table[s].num # 0 /\ f.table[s].cnt > 0
      /\ f.table[s].node.nlinks > 0
  BY HeldIs
<1>2. g.pinned \in SUBSET Blk
  BY DEF TableOK
<1>3. Disk(g).cur = With(Disk(f).cur, f.table[s].num, g.table[s].node)
  BY <1>1, <1>2, EntrySet
<1> QED
  BY <1>1, <1>3 DEF With

\* What add_entry puts into the first free place.
FreePlace(b) == CHOOSE j \in 0 .. PerBlk - 1 : j \notin DOMAIN b /\ 0 .. j - 1 \subseteq DOMAIN b

\* A block of entries that is not full has a free place.
LEMMA FreePlaceIs ==
    ASSUME NEW b, DOMAIN b \subseteq 0 .. PerBlk - 1, DOMAIN b # 0 .. PerBlk - 1
    PROVE  FreePlace(b) \in 0 .. PerBlk - 1 /\ FreePlace(b) \notin DOMAIN b
<1> DEFINE S == (0 .. PerBlk - 1) \ DOMAIN b
<1>1. S \in SUBSET Nat
  BY FirstPlaces
<1>2. S # {}
  BY Zenon
<1> HIDE DEF S
<1>3. PICK n \in S : \A k \in S : n <= k
  BY <1>1, <1>2, LeastExists
<1>4. n \in 0 .. PerBlk - 1 /\ n \notin DOMAIN b /\ 0 .. n - 1 \subseteq DOMAIN b
  <2>1. n \in 0 .. PerBlk - 1 /\ n \notin DOMAIN b
    BY DEF S
  <2>2. \A j \in 0 .. n - 1 : j \in 0 .. PerBlk - 1 /\ ~(n <= j)
    BY <2>1, FirstPlaces
  <2>3. \A j \in 0 .. n - 1 : j \in DOMAIN b
    BY <1>3, <2>2 DEF S
  <2> QED
    BY <2>1, <2>3
<1> QED
  BY <1>4 DEF FreePlace
(* add_entry puts the name into the directory, which may get a block for it,  *)
(* or there is no block and the directory is as before (namei.c:57-103).     *)
LEMMA AddEntryHolds ==
    ASSUME NEW f, NEW H, NEW R, TableOK(f, H, R), NEW d \in Inr, R[d] > 0, DirOK(Disk(f), d),
           NEW x \in Name, NEW r \in Inr, \A e \in EntsOf(Disk(f), d) : e[2] # x
    PROVE  LET g == AddEntry(f, d, x, r)
           IN  /\ TableOK(g, H, R) /\ Widened(f, g, d)
               /\ EntsOf(Disk(g), d) = EntsOf(Disk(f), d)
                                          \cup (IF Room(f, d) THEN {<<d, x, r>>} ELSE {})
<1> DEFINE g == AddEntry(f, d, x, r)
           v == Disk(f)
           w == Disk(g)
           s == Entry(f, d)
           k == NotFull(f, s)
           h == WithRoom(f, s)
           b == Bmap(h, s, k)
           X == Foreign(f, d)
           entry == [name |-> x, nr |-> r]
<1>1. /\ s \in Slot /\ f.table[s].num = d /\ d # 0 /\ f.table[s].cnt > 0
      /\ v.cur[d] = f.table[s].node /\ IsFs(f)
      /\ v.cur[d].zone = Zones(f, s) /\ v.cur[d].size = f.table[s].node.size
  BY HeldIs DEF Mem, TableOK, Zones
<1>2. OwnsIn(f, Zones(f, s), X) /\ Mapped(f, Zones(f, s))
  BY <1>1, ForeignIs, OwnsMapped
<1>3. /\ k \in FileBlk /\ ~Full(f, Bmap(f, s, k))
      /\ \A j \in FileBlk : j < k => Bmap(f, s, j) # 0
  BY <1>2, NotFullIs
<1>4. \A j \in FileBlk : BlockIn(v, d, j) = BlockOf(f, Zones(f, s), j) /\ Bmap(f, s, j) = BlockIn(v, d, j)
  BY <1>1, DiskBlocks DEF BlockIn, Bmap, Zones
<1>5. v.body = f.body
  BY DEF Disk
<1> HIDE DEF v, k, X, entry
<1>6. GrownIn(f, h, s, X, k)
  <2>1. h = CreateBlock(f, s, k)
    BY DEF WithRoom, k
  <2>2. HasIn(f, s, X)
    BY <1>1, <1>2 DEF HasIn
  <2> QED
    BY <1>3, <2>1, <2>2, CreateBlockKeepsOthers
<1> HIDE DEF h
<1>7. /\ IsFs(h) /\ OwnsIn(h, Zones(h, s), X) /\ Mapped(h, Zones(h, s))
      /\ h.imap = f.imap /\ h.dev = f.dev /\ h.pinned = f.pinned /\ h.status = f.status
      /\ \A t \in Slot \ {s} : h.table[t] = f.table[t]
      /\ h.table[s].num = f.table[s].num /\ h.table[s].cnt = f.table[s].cnt
      /\ h.table[s].node.mode = f.table[s].node.mode
      /\ h.table[s].node.nlinks = f.table[s].node.nlinks
      /\ h.table[s].node.size = f.table[s].node.size
      /\ h.table[s].dirt \/ h.table[s] = f.table[s]
      /\ \A a \in X : h.body[a] = f.body[a]
  BY <1>6, OwnsMapped DEF GrownIn, HasIn, Others
<1>8. ASSUME NEW j \in FileBlk
      PROVE  /\ BlockIn(v, d, j) # 0 => /\ BlockOf(h, Zones(h, s), j) = BlockIn(v, d, j)
                                        /\ h.body[BlockIn(v, d, j)] = f.body[BlockIn(v, d, j)]
             /\ BlockIn(v, d, j) = 0 => \/ BlockOf(h, Zones(h, s), j) = 0
                                        \/ j = k /\ h.body[BlockOf(h, Zones(h, s), j)] = ZeroBlk
  BY <1>4, <1>6 DEF GrownIn
<1>9. Room(f, d) <=> b # 0
  BY DEF Room, h, b, k, s
<1>10. b = BlockOf(h, Zones(h, s), k) /\ b \in Nr
  <2>1. b = BlockOf(h, Zones(h, s), k)
    BY DEF Bmap, Zones
  <2> QED
    BY <1>3, <1>7, <2>1, DataPlaceIs DEF Mapped
<1>11. g = Enter(f, h, s, b, entry)
  BY DEF AddEntry, EnterIn, h, b, k, s, entry
<1>12. DirOK(v, d)
  BY DEF v
<1>13. CASE b = 0
  <2>1. g = h
    BY <1>11, <1>13 DEF Enter
  <2> HIDE DEF g
  <2>2. w.cur[d] = h.table[s].node
    BY <1>7, <2>1, EntrySetIs
  <2>3. w.cur[d].zone = Zones(h, s) /\ w.cur[d].size = v.cur[d].size
    BY <1>1, <1>7, <2>2 DEF Zones
  <2>4. \A j \in FileBlk : BlockIn(w, d, j) = BlockOf(h, Zones(h, s), j)
    BY <2>1, <2>3, DiskBlocks DEF BlockIn
  <2>5. Mapped(w, w.cur[d].zone) /\ Marks(w, d)
    <3>1. \A y \in Places : Part(w, w.cur[d].zone, y) = Part(h, Zones(h, s), y)
      BY <2>1, <2>3, DiskBlocks
    <3>2. Mapped(w, w.cur[d].zone)
      BY <1>7, <2>3, <3>1 DEF Mapped
    <3>3. ASSUME NEW a \in HeldBy(w, d)
          PROVE  a - 1 \in h.zmap
      <4>1. PICK y \in Places : a = Part(w, w.cur[d].zone, y) /\ a # 0
        BY DEF HeldBy
      <4>2. a = Part(h, Zones(h, s), y) /\ a \in Blk
        BY <1>7, <3>1, <4>1, Sizes DEF Mapped
      <4> QED
        BY <1>7, <4>2 DEF OwnsIn
    <3>4. w.zmap = h.zmap
      BY <2>1 DEF Disk
    <3> QED
      BY <3>2, <3>3, <3>4 DEF Marks
  <2>6. ASSUME NEW j \in FileBlk
        PROVE  /\ BlockIn(w, d, j) = BlockIn(v, d, j)
               /\ BlockIn(v, d, j) # 0 => w.body[BlockIn(v, d, j)] = v.body[BlockIn(v, d, j)]
    <3>1. w.body = h.body
      BY <2>1 DEF Disk
    <3> QED
      BY Zenon, <1>5, <1>8, <1>10, <1>13, <2>4, <3>1
  <2>7. DirOK(w, d) /\ EntsOf(w, d) = EntsOf(v, d)
    <3> HIDE DEF w
    <3> QED
      BY <1>12, <2>3, <2>5, <2>6, DirSame
  <2>8. TableOK(g, H, R) /\ Widened(f, g, d)
    BY <1>7, <2>1, <2>7, WidenedIs DEF X
  <2> QED
    BY <1>9, <1>13, <2>7, <2>8 DEF v, g
<1>14. CASE b # 0
  <2> DEFINE c == Put(h.body[b], FreePlace(h.body[b]), entry)
             i == FreePlace(h.body[b])
             grown == IF Bmap(f, s, k) = 0 THEN BlkSize ELSE 0
  <2>1. b \in Blk
    BY <1>10, <1>14, Sizes
  <2>2. \/ BlockIn(v, d, k) = b /\ h.body[b] = v.body[b]
        \/ BlockIn(v, d, k) = 0 /\ h.body[b] = ZeroBlk
    BY <1>3, <1>5, <1>8, <1>10, <1>14
  <2>3. DOMAIN h.body[b] \subseteq 0 .. PerBlk - 1 /\ DOMAIN h.body[b] # 0 .. PerBlk - 1
    <3>1. CASE BlockIn(v, d, k) = b /\ h.body[b] = v.body[b]
      <4>1. DOMAIN v.body[b] \subseteq 0 .. PerBlk - 1
        BY <1>3, <1>12, <1>14, <3>1 DEF DirOK, Cells
      <4>2. DOMAIN f.body[b] # 0 .. PerBlk - 1
        BY <1>3, <1>4, <1>14, <3>1 DEF Full
      <4> QED
        BY <1>5, <3>1, <4>1, <4>2
    <3>2. CASE h.body[b] = ZeroBlk
      BY Zenon, <3>2, NothingThere, FirstPlaces
    <3> QED
      BY <2>2, <3>1, <3>2
  <2>4. i \in 0 .. PerBlk - 1 /\ i \notin DOMAIN h.body[b]
    BY <2>3, FreePlaceIs
  <2>5. DOMAIN c \subseteq 0 .. BlkSize - 1
    <3>1. IsPut(c, h.body[b], i, entry)
      BY PutIs
    <3>2. DOMAIN c \subseteq 0 .. PerBlk - 1
      BY <2>3, <2>4, <3>1 DEF IsPut
    <3>3. PerBlk \in Nat /\ BlkSize \in Nat /\ PerBlk <= BlkSize
      BY NamesAssumption, Sizes
    <3> HIDE DEF c
    <3> QED
      BY <3>2, <3>3
  <2>6. grown \in Nat
    BY Sizes
  <2>7. g = Written(h, s, b, c, grown)
    BY <1>11, <1>14 DEF Enter, FreePlace, k, Written
  <2> HIDE DEF g, c, i, grown
  <2>8. /\ IsFs(g)
        /\ g.imap = h.imap /\ g.zmap = h.zmap /\ g.dev = h.dev
        /\ g.pinned = h.pinned /\ g.status = h.status
        /\ \A a \in Blk \ {b} : g.body[a] = h.body[a]
        /\ g.body[b] = c
        /\ \A t \in Slot \ {s} : g.table[t] = h.table[t]
        /\ g.table[s].num = h.table[s].num /\ g.table[s].cnt = h.table[s].cnt
        /\ g.table[s].dirt
        /\ g.table[s].node = Sized(h.table[s].node, h.table[s].node.size + grown)
    <3>1. IsFs(h) /\ s \in Slot
      BY <1>1, <1>7
    <3> HIDE DEF b, s
    <3> QED
      BY <2>1, <2>5, <2>6, <2>7, <3>1, EntryWritten
  <2>9. /\ g.table[s].node.mode = f.table[s].node.mode
        /\ g.table[s].node.nlinks = f.table[s].node.nlinks
        /\ g.table[s].node.size = f.table[s].node.size + grown
        /\ Zones(g, s) = Zones(h, s)
    <3>1. h.table[s].node \in Node /\ h.table[s].node.size + grown \in Nat
      BY <1>1, <1>7, <2>6, EntryIsTyped
    <3> QED
      BY <1>7, <2>8, <3>1, SizedIs DEF Zones
  <2>10. w.cur[d] = g.table[s].node
    BY <1>7, <2>8, <2>9, EntrySetIs
  <2>11. w.cur[d].zone = Zones(h, s)
    BY <2>9, <2>10 DEF Zones
  <2>12. w.zmap = h.zmap /\ w.body = g.body
    BY <2>8 DEF Disk
  <2> HIDE DEF w
  <2>13. \A y \in Places : Part(g, Zones(h, s), y) = Part(h, Zones(h, s), y)
    <3>1. BlockOf(h, Zones(h, s), k) # 0
          /\ \A a \in Blk : a # BlockOf(h, Zones(h, s), k) => g.body[a] = h.body[a]
      BY <1>10, <1>14, <2>8
    <3> QED
      BY <1>3, <1>7, <3>1, PlacesFilled
  <2>14. \A y \in Places : Part(w, Zones(h, s), y) = Part(h, Zones(h, s), y)
    BY <2>13, DiskBlocks DEF w
  <2>15. OwnsIn(g, Zones(g, s), X)
    BY <1>7, <2>8, <2>9, <2>13 DEF OwnsIn
  <2>16. \A a \in X : g.body[a] = f.body[a]
    <3>1. b \notin X
      BY <1>3, <1>7, <1>10, DataPlaceIs DEF OwnsIn
    <3>2. X \subseteq Blk
      BY <1>2 DEF OwnsIn
    <3> QED
      BY <1>7, <2>8, <3>1, <3>2
  <2>17. Mapped(w, w.cur[d].zone) /\ Marks(w, d)
    <3>1. Mapped(w, w.cur[d].zone)
      BY <1>7, <2>11, <2>14 DEF Mapped
    <3>2. ASSUME NEW a \in HeldBy(w, d)
          PROVE  a - 1 \in h.zmap
      <4>1. PICK y \in Places : a = Part(w, w.cur[d].zone, y) /\ a # 0
        BY DEF HeldBy
      <4>2. a = Part(h, Zones(h, s), y) /\ a \in Blk
        BY <1>7, <2>11, <2>14, <4>1, Sizes DEF Mapped
      <4> QED
        BY <1>7, <4>2 DEF OwnsIn
    <3> QED
      BY <2>12, <3>1, <3>2 DEF Marks
  <2>18. \A j \in FileBlk : BlockIn(w, d, j) = BlockOf(h, Zones(h, s), j)
    BY <2>11, <2>14, DataPlaceIs DEF BlockIn
  <2>19. ASSUME NEW j \in FileBlk \ {k}
         PROVE  /\ BlockIn(w, d, j) = BlockIn(v, d, j)
                /\ BlockIn(v, d, j) # 0 => w.body[BlockIn(v, d, j)] = v.body[BlockIn(v, d, j)]
    <3>1. CASE BlockIn(v, d, j) = 0
      <4>1. BlockOf(h, Zones(h, s), j) = 0
        BY <1>8, <3>1
      <4> QED
        BY <2>18, <3>1, <4>1
    <3>2. CASE BlockIn(v, d, j) # 0
      <4>1. BlockOf(h, Zones(h, s), j) = BlockIn(v, d, j)
            /\ h.body[BlockIn(v, d, j)] = f.body[BlockIn(v, d, j)]
        BY <1>8, <3>2
      <4>2. BlockIn(v, d, j) # b
        BY <1>3, <1>7, <1>10, <1>14, <4>1, DataPlaceIs, DataPlacesApart DEF Mapped
      <4>3. BlockIn(v, d, j) \in Blk
        BY <1>7, <3>2, <4>1, DataPlaceIs, Sizes DEF Mapped
      <4> QED
        BY <1>5, <2>8, <2>12, <2>18, <4>1, <4>2, <4>3
    <3> QED
      BY <3>1, <3>2
  <2>20. Entered(v, w, d, k, i, entry)
    <3>1. BlockIn(w, d, k) = b
      BY <1>3, <1>10, <2>18
    <3>2. CASE BlockIn(v, d, k) = b /\ h.body[b] = v.body[b]
      <4>1. w.cur[d].size = v.cur[d].size
        BY <1>1, <1>3, <1>4, <1>14, <2>9, <2>10, <3>2, EntryIsTyped DEF grown
      <4>2. w.body[b] = Put(v.body[b], i, entry) /\ i \notin DOMAIN v.body[b]
        BY <2>4, <2>8, <2>12, <3>2 DEF c, i
      <4> QED
        BY <1>3, <1>14, <2>4, <2>17, <2>19, <3>1, <3>2, <4>1, <4>2 DEF Entered
    <3>3. CASE BlockIn(v, d, k) = 0 /\ h.body[b] = ZeroBlk
      <4>1. w.cur[d].size = v.cur[d].size + BlkSize
        BY <1>1, <1>3, <1>4, <2>9, <2>10, <3>3 DEF grown
      <4>2. w.body[b] = Put(ZeroBlk, i, entry)
        BY <2>8, <2>12, <3>3 DEF c, i
      <4>3. \A l \in FileBlk : l < k => BlockIn(v, d, l) # 0
        BY <1>3, <1>4
      <4> QED
        BY <1>3, <1>14, <2>4, <2>17, <2>19, <3>1, <3>3, <4>1, <4>2, <4>3 DEF Entered
    <3> QED
      BY <2>2, <3>2, <3>3
  <2>21. DirOK(w, d) /\ EntsOf(w, d) = EntsOf(v, d) \cup {<<d, x, r>>}
    <3>1. \A e \in EntsOf(v, d) : e[2] # x
      BY DEF v
    <3> QED
      BY <1>12, <2>20, <3>1, EnteredIs DEF entry
  <2>22. TableOK(g, H, R) /\ Widened(f, g, d)
    <3>1. DirOK(Disk(g), d)
      BY <2>21 DEF w
    <3> QED
      BY <1>7, <2>8, <2>9, <2>15, <2>16, <3>1, WidenedIs DEF X
  <2> QED
    BY <1>9, <1>14, <2>21, <2>22 DEF v, w, g
<1> QED
  BY <1>13, <1>14
(* Entry t of a directory is cleared; nothing else changes (namei.c:106-137).  *)
Dropped(f, g, d, t) ==
    /\ IsFs(g) /\ g.table = f.table /\ g.imap = f.imap /\ g.zmap = f.zmap /\ g.dev = f.dev
    /\ g.pinned = f.pinned /\ g.status = f.status
    /\ DirOK(Disk(g), d) /\ HeldBy(Disk(g), d) = HeldBy(Disk(f), d)
    /\ \A b \in Blk \ HeldBy(Disk(f), d) : g.body[b] = f.body[b]
    /\ t \in EntsOf(Disk(f), d) /\ EntsOf(Disk(g), d) = EntsOf(Disk(f), d) \ {t}

\* Dropping a name that is there takes its one entry out of the directory; the table stays good.
LEMMA DropEntryHolds ==
    ASSUME NEW f, NEW H, NEW R, TableOK(f, H, R), NEW d \in Inr, R[d] > 0, DirOK(Disk(f), d),
           NEW x, x \notin Dotted, NEW r, r = Child(f, d, x, TRUE), r # 0
    PROVE  LET g == DropEntry(f, d, x)
           IN  TableOK(g, H, R) /\ Dropped(f, g, d, <<d, x, r>>)
<1> DEFINE g == DropEntry(f, d, x)
           v == Disk(f)
           w == Disk(g)
           s == Entry(f, d)
<1>1. /\ s \in Slot /\ Mem(f, d).node = v.cur[d] /\ IsFs(f)
      /\ v.cur[d] = f.table[s].node
  BY HeldIs DEF Mem, TableOK
<1>2. /\ <<d, x, r>> \in EntsOf(v, d)
      /\ \A k \in FileBlk, i \in 0 .. PerBlk - 1 :
                 Used(v, d, k, i) /\ Cell(v, d, k, i).name = x =>
                     /\ Earliest(FindEntry(f, d, x, TRUE))[1] = PerBlk * k + i
                     /\ r = Cell(v, d, k, i).nr
  <2>1. /\ Child(f, d, x, TRUE) = 0 \/ <<d, x, Child(f, d, x, TRUE)>> \in EntsOf(v, d)
        /\ \A k \in FileBlk, i \in 0 .. PerBlk - 1 :
                 Used(v, d, k, i) /\ Cell(v, d, k, i).name = x => FoundAt(f, d, x, k, i)
    BY Zenon, <1>1, ChildIs
  <2> QED
    BY Zenon, <2>1 DEF FoundAt
<1>3. PICK k \in FileBlk, i \in 0 .. PerBlk - 1 :
         Used(v, d, k, i) /\ <<d, x, r>> = <<d, Cell(v, d, k, i).name, Cell(v, d, k, i).nr>>
  BY Zenon, <1>2, EntsAre
<1>4. Cell(v, d, k, i).name = x /\ Cell(v, d, k, i).nr = r
  BY Zenon, <1>3
<1> DEFINE b == BlockIn(v, d, k)
           c == [j \in DOMAIN f.body[b] \ {i} |-> f.body[b][j]]
<1>5. b \in Blk /\ b = Bmap(f, s, k) /\ v.body = f.body /\ b \in HeldBy(v, d)
  <2>1. b \in Blk /\ b \in HeldBy(v, d)
    BY <1>3, BlockIsHeld DEF DirOK, Used
  <2>2. b = Bmap(f, s, k)
    BY <1>1, DiskBlocks DEF Bmap, BlockIn
  <2> QED
    BY <2>1, <2>2 DEF Disk
<1>6. g = [f EXCEPT !.body[b] = c]
  <2> DEFINE t == Earliest(FindEntry(f, d, x, TRUE))[1]
  <2>1. t = k * PerBlk + i
    <3>1. k \in Nat /\ i \in Nat /\ PerBlk \in Nat
      BY FirstPlaces
    <3>2. t = PerBlk * k + i
      BY Zenon, <1>2, <1>3, <1>4
    <3>3. PerBlk * k = k * PerBlk
      BY <3>1
    <3> QED
      BY Zenon, <3>2, <3>3
  <2> HIDE DEF t
  <2>2. t \div PerBlk = k /\ t % PerBlk = i
    <3>1. k \in Nat /\ PerBlk \in Nat \ {0}
      BY FirstPlaces
    <3> QED
      BY <2>1, <3>1, Quotient
  <2>3. g = DropAt(f, Bmap(f, s, t \div PerBlk), t % PerBlk)
    BY DEF DropEntry, t
  <2>4. g = DropAt(f, b, i)
    BY <1>5, <2>2, <2>3
  <2> HIDE DEF g, b
  <2> QED
    BY <2>4 DEF DropAt
<1>7. DOMAIN c = DOMAIN f.body[b] \ {i} /\ \A j \in DOMAIN f.body[b] \ {i} : c[j] = f.body[b][j]
  OBVIOUS
<1>8. DOMAIN c \subseteq 0 .. BlkSize - 1
  BY <1>1, <1>5, <1>7 DEF IsFs
<1> HIDE DEF c, g, b
<1>9. BodySetTo(f, g, b, c)
  <2>1. BodySetTo(f, [f EXCEPT !.body[b] = c], b, c)
    BY <1>1, <1>5, <1>8, BodySet
  <2> QED
    BY <1>6, <2>1
<1>10. /\ IsFs(g) /\ g.table = f.table /\ g.imap = f.imap /\ g.zmap = f.zmap /\ g.dev = f.dev
       /\ g.pinned = f.pinned /\ g.status = f.status
       /\ \A a \in Blk \ {b} : g.body[a] = f.body[a]
       /\ g.body[b] = c
  BY <1>9 DEF BodySetTo
<1>11. TableOK(g, H, R)
  BY <1>10 DEF TableOK, EntryOK, Unique, Has
<1>12. w.cur = v.cur /\ w.zmap = v.zmap /\ w.body = g.body
  <2>1. \A n : Current(g, n) = Current(f, n)
    BY <1>10 DEF Current
  <2> QED
    BY <1>10, <2>1 DEF Disk
<1>13. Left(v, w, d, k, i)
  <2>1. \A a \in Blk : a # b => w.body[a] = v.body[a]
    BY <1>5, <1>10, <1>12
  <2>2. /\ DOMAIN w.body[b] = DOMAIN v.body[b] \ {i}
        /\ \A j \in DOMAIN v.body[b] \ {i} : w.body[b][j] = v.body[b][j]
    BY <1>5, <1>7, <1>10, <1>12
  <2> HIDE DEF v, w
  <2> QED
    BY <1>3, <1>12, <2>1, <2>2 DEF Left, b
<1>14. /\ DirOK(w, d) /\ HeldBy(w, d) = HeldBy(v, d)
       /\ EntsOf(w, d) = EntsOf(v, d) \ {<<d, x, r>>}
  <2>1. DirOK(v, d) /\ Cell(v, d, k, i).name \notin Dotted
    BY <1>4
  <2>2. /\ DirOK(w, d) /\ HeldBy(w, d) = HeldBy(v, d)
        /\ EntsOf(w, d) = EntsOf(v, d) \ {<<d, Cell(v, d, k, i).name, Cell(v, d, k, i).nr>>}
    BY <1>13, <2>1, LeftIs
  <2> QED
    BY <1>4, <2>2
<1>15. Dropped(f, g, d, <<d, x, r>>)
  BY <1>2, <1>5, <1>10, <1>14 DEF Dropped
<1> QED
  BY <1>11, <1>15 DEF g

(* The tree of names, changed by each call.                                  *)

\* The tree is about the link counts of live inodes only.
LEMMA TreeSame ==
    ASSUME NEW live, NEW dirs, NEW ents, NEW c1, TreeOK(live, dirs, ents, c1),
           NEW c2, \A n \in live : c2[n] = c1[n]
    PROVE  TreeOK(live, dirs, ents, c2)
BY Zenon DEF TreeOK

\* The entries of an inode, and those named "..", counted with one more or less.
LEMMA CountMore ==
    ASSUME NEW S, IsFiniteSet(S), NEW e, e \notin S
    PROVE  IsFiniteSet(S \cup {e}) /\ Cardinality(S \cup {e}) = Cardinality(S) + 1
BY FS_AddElement

\* A finite set without one of its elements has one element less.
LEMMA CountLess ==
    ASSUME NEW S, IsFiniteSet(S), NEW e, e \in S
    PROVE  /\ IsFiniteSet(S \ {e}) /\ Cardinality(S \ {e}) = Cardinality(S) - 1
           /\ Cardinality(S) \in Nat \ {0}
<1>1. IsFiniteSet(S \ {e}) /\ Cardinality(S \ {e}) = Cardinality(S) - 1
  BY FS_RemoveElement
<1>2. Cardinality(S) \in Nat /\ Cardinality(S) # 0
  BY FS_CardinalityType, FS_EmptySet
<1> QED
  BY <1>1, <1>2

(* A file gets its first name.                                               *)
LEMMA TreeFile ==
    ASSUME NEW live, NEW dirs, NEW ents, NEW c, TreeOK(live, dirs, ents, c),
           NEW n, n \notin live, NEW d \in dirs, NEW x \in Name \ (Dotted \cup {Slash}),
           \A e \in ents : e[1] = d => e[2] # x,
           NEW c2, c2[n] = 1, \A m \in live : c2[m] = c[m]
    PROVE  TreeOK(live \cup {n}, dirs, ents \cup {<<d, x, n>>}, c2)
<1> DEFINE t == <<d, x, n>>
           all == ents \cup {t}
<1>1. t[1] = d /\ t[2] = x /\ t[3] = n /\ t \notin ents
  BY DEF TreeOK
<1>2. \A e \in ents : e[3] \in live /\ e[1] \in dirs /\ e[2] \in Name
  BY DEF TreeOK
<1>3. ASSUME NEW m \in live \cup {n}
      PROVE  c2[m] = Counted(dirs, all, m)
  <2>1. CASE m = n
    <3>1. n \notin dirs
      BY DEF TreeOK
    <3>2. {e \in all : e[3] = n} = {t}
      BY <1>1, <1>2
    <3>3. Cardinality({t}) = 1
      BY Zenon, FS_Singleton
    <3> QED
      BY <2>1, <3>1, <3>2, <3>3 DEF Counted
  <2>2. CASE m # n
    <3>1. {e \in all : e[3] = m} = {e \in ents : e[3] = m}
      BY <1>1, <2>2
    <3>2. {e \in all : e[3] = m /\ e[2] = DotDot} = {e \in ents : e[3] = m /\ e[2] = DotDot}
      BY <1>1, <2>2
    <3>3. c[m] = Counted(dirs, ents, m)
      BY <2>2 DEF TreeOK
    <3> QED
      BY Zenon, <2>2, <3>1, <3>2, <3>3 DEF Counted
  <2> QED
    BY <2>1, <2>2
<1>4. IsFiniteSet(all)
  BY <1>1, CountMore DEF TreeOK
<1>5. all \subseteq dirs \X Name \X (live \cup {n})
  BY DEF TreeOK
<1>6. \A e, u \in all : e[1] = u[1] /\ e[2] = u[2] => e = u
  BY <1>1 DEF TreeOK
<1>7. \A e \in all : /\ e[2] = Slash => e[1] = Root
                     /\ e[2] \in Dotted => e[1] # Root /\ e[3] \in dirs
                     /\ e[2] = Dot => e[3] = e[1]
  <2>1. x # Slash /\ x \notin Dotted /\ x # Dot
    BY DEF Dotted
  <2> QED
    BY <1>1, <2>1 DEF TreeOK
<1>8. ASSUME NEW m \in dirs \ {Root}
      PROVE  \E p \in dirs : \E y \in Name \ Dotted :
                /\ <<m, DotDot, p>> \in all /\ <<p, y, m>> \in all
                /\ \A e \in all : e[3] = m /\ e[2] \notin Dotted => e = <<p, y, m>>
  <2>1. PICK p \in dirs, y \in Name \ Dotted :
           /\ <<m, DotDot, p>> \in ents /\ <<p, y, m>> \in ents
           /\ \A e \in ents : e[3] = m /\ e[2] \notin Dotted => e = <<p, y, m>>
    BY Zenon DEF TreeOK
  <2>2. m # n
    BY DEF TreeOK
  <2> QED
    BY <1>1, <2>1, <2>2
<1>9. \A e \in all : e[3] = Root => e[2] \in Dotted
  BY <1>1 DEF TreeOK
<1>10. {Root, RootDir} \subseteq dirs /\ dirs \subseteq live \cup {n} /\ <<Root, Slash, RootDir>> \in all
  BY DEF TreeOK
<1> HIDE DEF all
<1> QED
  BY Zenon, <1>3, <1>4, <1>5, <1>6, <1>7, <1>8, <1>9, <1>10 DEF TreeOK, all
\* The entries that name an inode, and those of them that are "..".
To(ents, n) == {e \in ents : e[3] = n}
Up(ents, n) == {e \in ents : e[3] = n /\ e[2] = DotDot}

\* The entries that name an inode can be counted, and so can those called "..".
LEMMA NamesFinite ==
    ASSUME NEW live, NEW dirs, NEW ents, NEW c, TreeOK(live, dirs, ents, c), NEW n
    PROVE  IsFiniteSet(To(ents, n)) /\ IsFiniteSet(Up(ents, n))
<1>1. IsFiniteSet(ents)
  BY DEF TreeOK
<1>2. To(ents, n) \subseteq ents /\ Up(ents, n) \subseteq ents
  BY DEF To, Up
<1> QED
  BY <1>1, <1>2, FS_Subset

(* A file gets another name.                                                 *)
LEMMA TreeLink ==
    ASSUME NEW live, NEW dirs, NEW ents, NEW c, TreeOK(live, dirs, ents, c),
           NEW n \in live \ dirs, NEW d \in dirs, NEW x \in Name \ (Dotted \cup {Slash}),
           \A e \in ents : e[1] = d => e[2] # x,
           NEW c2, c2[n] = c[n] + 1, \A m \in live \ {n} : c2[m] = c[m]
    PROVE  TreeOK(live, dirs, ents \cup {<<d, x, n>>}, c2)
<1> DEFINE t == <<d, x, n>>
           all == ents \cup {t}
<1>1. t[1] = d /\ t[2] = x /\ t[3] = n /\ t \notin ents
  BY DEF TreeOK
<1>2. \A e \in ents : e[3] \in live /\ e[1] \in dirs /\ e[2] \in Name
  BY DEF TreeOK
<1>3. ASSUME NEW m \in live
      PROVE  c2[m] = Counted(dirs, all, m)
  <2>1. CASE m = n
    <3>1. {e \in all : e[3] = n} = To(ents, n) \cup {t}
      BY <1>1 DEF To
    <3>2. IsFiniteSet(To(ents, n))
      BY NamesFinite
    <3>5. t \notin To(ents, n)
      BY <1>1 DEF To
    <3> HIDE DEF t
    <3>3. Cardinality(To(ents, n) \cup {t}) = Cardinality(To(ents, n)) + 1
      BY <3>2, <3>5, CountMore
    <3>4. c[n] = Cardinality(To(ents, n))
      BY Zenon DEF TreeOK, Counted, To
    <3> QED
      BY Zenon, <2>1, <3>1, <3>3, <3>4 DEF Counted
  <2>2. CASE m # n
    <3>1. {e \in all : e[3] = m} = {e \in ents : e[3] = m}
      BY <1>1, <2>2
    <3>2. {e \in all : e[3] = m /\ e[2] = DotDot} = {e \in ents : e[3] = m /\ e[2] = DotDot}
      BY <1>1, <2>2
    <3>3. c[m] = Counted(dirs, ents, m)
      BY <2>2 DEF TreeOK
    <3> QED
      BY Zenon, <2>2, <3>1, <3>2, <3>3 DEF Counted
  <2> QED
    BY <2>1, <2>2
<1>4. IsFiniteSet(all)
  BY <1>1, CountMore DEF TreeOK
<1>5. all \subseteq dirs \X Name \X live
  BY DEF TreeOK
<1>6. \A e, u \in all : e[1] = u[1] /\ e[2] = u[2] => e = u
  BY <1>1 DEF TreeOK
<1>7. \A e \in all : /\ e[2] = Slash => e[1] = Root
                     /\ e[2] \in Dotted => e[1] # Root /\ e[3] \in dirs
                     /\ e[2] = Dot => e[3] = e[1]
  <2>1. x # Slash /\ x \notin Dotted /\ x # Dot
    BY DEF Dotted
  <2> QED
    BY <1>1, <2>1 DEF TreeOK
<1>8. ASSUME NEW m \in dirs \ {Root}
      PROVE  \E p \in dirs : \E y \in Name \ Dotted :
                /\ <<m, DotDot, p>> \in all /\ <<p, y, m>> \in all
                /\ \A e \in all : e[3] = m /\ e[2] \notin Dotted => e = <<p, y, m>>
  <2>1. PICK p \in dirs, y \in Name \ Dotted :
           /\ <<m, DotDot, p>> \in ents /\ <<p, y, m>> \in ents
           /\ \A e \in ents : e[3] = m /\ e[2] \notin Dotted => e = <<p, y, m>>
    BY Zenon DEF TreeOK
  <2>2. m # n
    OBVIOUS
  <2> QED
    BY <1>1, <2>1, <2>2
<1>9. \A e \in all : e[3] = Root => e[2] \in Dotted
  BY <1>1 DEF TreeOK
<1>10. {Root, RootDir} \subseteq dirs /\ dirs \subseteq live /\ <<Root, Slash, RootDir>> \in all
  BY DEF TreeOK
<1> HIDE DEF all
<1> QED
  BY Zenon, <1>3, <1>4, <1>5, <1>6, <1>7, <1>8, <1>9, <1>10 DEF TreeOK, all

(* A file loses a name, and is not there without one.                        *)
LEMMA TreeUnlink ==
    ASSUME NEW live, NEW dirs, NEW ents, NEW c, TreeOK(live, dirs, ents, c),
           NEW d, NEW x, NEW n, n \notin dirs, <<d, x, n>> \in ents,
           NEW c2, c2[n] = c[n] - 1, \A m \in live \ {n} : c2[m] = c[m],
           NEW live2, live2 = IF c2[n] > 0 THEN live ELSE live \ {n}
    PROVE  TreeOK(live2, dirs, ents \ {<<d, x, n>>}, c2) /\ c[n] \in Nat \ {0}
<1> DEFINE t == <<d, x, n>>
           all == ents \ {t}
           to == To(ents, n)
<1>1. t[1] = d /\ t[2] = x /\ t[3] = n /\ t \in ents
  OBVIOUS
<1>2. \A e \in ents : e[3] \in live /\ e[1] \in dirs /\ e[2] \in Name
  BY DEF TreeOK
<1>3. n \in live /\ dirs \subseteq live2 /\ live2 \subseteq live
  BY <1>1, <1>2 DEF TreeOK
<1>4. /\ {e \in all : e[3] = n} = to \ {t}
      /\ c[n] = Cardinality(to) /\ Cardinality(to) \in Nat \ {0}
      /\ Cardinality(to \ {t}) = Cardinality(to) - 1 /\ IsFiniteSet(to \ {t})
  <2>1. {e \in all : e[3] = n} = to \ {t}
    BY DEF To
  <2>2. c[n] = Cardinality(to)
    BY Zenon, <1>3 DEF TreeOK, Counted, To
  <2>3. t \in to /\ IsFiniteSet(to)
    BY <1>1, NamesFinite DEF To
  <2> HIDE DEF t, to
  <2> QED
    BY <2>1, <2>2, <2>3, CountLess
<1>5. ASSUME NEW m \in live2
      PROVE  c2[m] = Counted(dirs, all, m)
  <2>1. CASE m = n
    BY <1>4, <2>1 DEF Counted
  <2>2. CASE m # n
    <3>1. {e \in all : e[3] = m} = {e \in ents : e[3] = m}
      BY <1>1, <2>2
    <3>2. {e \in all : e[3] = m /\ e[2] = DotDot} = {e \in ents : e[3] = m /\ e[2] = DotDot}
      BY <1>1, <2>2
    <3>3. c[m] = Counted(dirs, ents, m)
      BY <1>3, <2>2 DEF TreeOK
    <3> QED
      BY Zenon, <1>3, <2>2, <3>1, <3>2, <3>3 DEF Counted
  <2> QED
    BY <2>1, <2>2
<1>6. IsFiniteSet(all)
  BY FS_Subset DEF TreeOK
<1>7. all \subseteq dirs \X Name \X live2
  <2>1. CASE c2[n] > 0
    BY <2>1 DEF TreeOK
  <2>2. CASE ~(c2[n] > 0)
    <3>1. Cardinality(to \ {t}) = 0
      BY <1>4, <2>2
    <3>2. to \ {t} = {}
      BY <1>4, <3>1, FS_EmptySet
    <3>5. \A e \in all : e[3] # n
      BY <1>4, <3>2
    <3>3. \A e \in all : e[3] \in live2
      BY <1>2, <2>2, <3>5
    <3>4. \A e \in all : e \in dirs \X Name \X live
      BY DEF TreeOK
    <3> HIDE DEF all
    <3> QED
      BY <3>3, <3>4
  <2> QED
    BY <2>1, <2>2
<1>8. \A e, u \in all : e[1] = u[1] /\ e[2] = u[2] => e = u
  BY DEF TreeOK
<1>9. \A e \in all : /\ e[2] = Slash => e[1] = Root
                     /\ e[2] \in Dotted => e[1] # Root /\ e[3] \in dirs
                     /\ e[2] = Dot => e[3] = e[1]
  BY DEF TreeOK
<1>10. ASSUME NEW m \in dirs \ {Root}
       PROVE  \E p \in dirs : \E y \in Name \ Dotted :
                 /\ <<m, DotDot, p>> \in all /\ <<p, y, m>> \in all
                 /\ \A e \in all : e[3] = m /\ e[2] \notin Dotted => e = <<p, y, m>>
  <2>1. PICK p \in dirs, y \in Name \ Dotted :
           /\ <<m, DotDot, p>> \in ents /\ <<p, y, m>> \in ents
           /\ \A e \in ents : e[3] = m /\ e[2] \notin Dotted => e = <<p, y, m>>
    BY Zenon DEF TreeOK
  <2>2. m # n /\ p # n
    OBVIOUS
  <2> QED
    BY <1>1, <2>1, <2>2
<1>11. \A e \in all : e[3] = Root => e[2] \in Dotted
  BY DEF TreeOK
<1>12. {Root, RootDir} \subseteq dirs /\ <<Root, Slash, RootDir>> \in all
  <2>1. RootDir \in dirs /\ Root \in dirs /\ <<Root, Slash, RootDir>> \in ents
    BY DEF TreeOK
  <2>2. RootDir # n
    BY <2>1
  <2> QED
    BY <1>1, <2>1, <2>2
<1> HIDE DEF all
<1> QED
  BY Zenon, <1>3, <1>4, <1>5, <1>6, <1>7, <1>8, <1>9, <1>10, <1>11, <1>12 DEF TreeOK, all
(* A directory gets its name, and its two dots.                              *)
LEMMA TreeMkdir ==
    ASSUME NEW live, NEW dirs, NEW ents, NEW c, TreeOK(live, dirs, ents, c),
           NEW n, n \notin live, NEW d \in dirs, NEW x \in Name \ (Dotted \cup {Slash}),
           \A e \in ents : e[1] = d => e[2] # x,
           NEW c2, c2[n] = 2, c2[d] = c[d] + 1, \A m \in live \ {d} : c2[m] = c[m],
           NEW own, own = {<<n, Dot, n>>, <<n, DotDot, d>>}
    PROVE  TreeOK(live \cup {n}, dirs \cup {n}, (ents \cup own) \cup {<<d, x, n>>}, c2)
<1> DEFINE t == <<d, x, n>>
           u1 == <<n, Dot, n>>
           u2 == <<n, DotDot, d>>
           all == (ents \cup own) \cup {t}
<1>1. /\ t[1] = d /\ t[2] = x /\ t[3] = n
      /\ u1[1] = n /\ u1[2] = Dot /\ u1[3] = n
      /\ u2[1] = n /\ u2[2] = DotDot /\ u2[3] = d
  OBVIOUS
<1>2. \A e \in ents : e[3] \in live /\ e[1] \in dirs /\ e[2] \in Name
  BY DEF TreeOK
<1>3. /\ n \notin dirs /\ n # d /\ d \in live /\ {Root, RootDir} \subseteq dirs /\ dirs \subseteq live
      /\ n # Root /\ n # RootDir
  BY DEF TreeOK
<1>4. /\ {Dot, DotDot} \subseteq Name /\ Dot # DotDot /\ x # Dot /\ x # DotDot /\ x # Slash
      /\ Dot # Slash /\ DotDot # Slash
  <2>1. {Dot, DotDot} \subseteq Name /\ NameLen[Dot] = 1 /\ NameLen[DotDot] = 2 /\ Slash \notin {Dot, DotDot}
    BY NamesAssumption
  <2>2. Dot # DotDot
    BY <2>1
  <2> QED
    BY <2>1, <2>2 DEF Dotted
<1>5. \A e \in all : e \in ents \/ e = u1 \/ e = u2 \/ e = t
  OBVIOUS
<1>6. u1 \in all /\ u2 \in all /\ t \in all /\ ents \subseteq all
  OBVIOUS
<1>7. u2 \notin ents
  BY <1>1, <1>2, <1>3
<1> HIDE DEF all, u1, u2, t
<1>8. ASSUME NEW m \in live \cup {n}
      PROVE  c2[m] = Counted(dirs \cup {n}, all, m)
  <2>1. CASE m = n
    <3>1. {e \in all : e[3] = n /\ e[2] = DotDot} = {}
      BY <1>1, <1>2, <1>3, <1>4, <1>5
    <3>2. Cardinality({}) = 0
      BY FS_EmptySet
    <3>3. Extra(n) = 2
      BY <1>3 DEF Extra
    <3>4. Counted(dirs \cup {n}, all, n) = Cardinality({e \in all : e[3] = n /\ e[2] = DotDot}) + Extra(n)
      BY DEF Counted
    <3>5. Counted(dirs \cup {n}, all, n) = 0 + 2
      BY Zenon, <3>1, <3>2, <3>3, <3>4
    <3> QED
      BY <2>1, <3>5
  <2>2. CASE m = d
    <3>1. {e \in all : e[3] = d /\ e[2] = DotDot} = Up(ents, d) \cup {u2}
      <4>1. ASSUME NEW e \in all, e[3] = d, e[2] = DotDot
            PROVE  e \in Up(ents, d) \cup {u2}
        BY <1>1, <1>3, <1>4, <1>5, <4>1 DEF Up
      <4>2. Up(ents, d) \subseteq {e \in all : e[3] = d /\ e[2] = DotDot}
        BY <1>6 DEF Up
      <4>3. u2 \in {e \in all : e[3] = d /\ e[2] = DotDot}
        BY <1>1, <1>6
      <4> QED
        BY <4>1, <4>2, <4>3
    <3>2. IsFiniteSet(Up(ents, d))
      BY NamesFinite
    <3>3. u2 \notin Up(ents, d)
      BY <1>7 DEF Up
    <3>4. Cardinality(Up(ents, d) \cup {u2}) = Cardinality(Up(ents, d)) + 1
      BY <3>2, <3>3, CountMore
    <3>5. c[d] = Cardinality(Up(ents, d)) + Extra(d)
      BY Zenon, <1>3 DEF TreeOK, Counted, Up
    <3>6. Counted(dirs \cup {n}, all, d) = Cardinality(Up(ents, d) \cup {u2}) + Extra(d)
      BY Zenon, <3>1 DEF Counted
    <3>7. Cardinality(Up(ents, d)) \in Nat /\ Extra(d) \in Nat
      BY <3>2, FS_CardinalityType DEF Extra
    <3> QED
      BY <2>2, <3>4, <3>5, <3>6, <3>7
  <2>3. CASE m # n /\ m # d
    <3>1. {e \in all : e[3] = m} = {e \in ents : e[3] = m}
      BY <1>1, <1>5, <1>6, <2>3
    <3>2. {e \in all : e[3] = m /\ e[2] = DotDot} = {e \in ents : e[3] = m /\ e[2] = DotDot}
      BY <1>1, <1>5, <1>6, <2>3
    <3>3. c[m] = Counted(dirs, ents, m)
      BY <2>3 DEF TreeOK
    <3> QED
      BY Zenon, <2>3, <3>1, <3>2, <3>3 DEF Counted
  <2> QED
    BY <2>1, <2>2, <2>3
<1>9. IsFiniteSet(all)
  <2>1. IsFiniteSet(ents)
    BY DEF TreeOK
  <2>2. IsFiniteSet(ents \cup {u1})
    BY <2>1, FS_AddElement
  <2>3. IsFiniteSet((ents \cup {u1}) \cup {u2})
    BY <2>2, FS_AddElement
  <2>4. IsFiniteSet(((ents \cup {u1}) \cup {u2}) \cup {t})
    BY <2>3, FS_AddElement
  <2>5. all = ((ents \cup {u1}) \cup {u2}) \cup {t}
    BY DEF all, u1, u2, t
  <2> QED
    BY <2>4, <2>5
<1>10. all \subseteq (dirs \cup {n}) \X Name \X (live \cup {n})
  <2>1. u1 \in (dirs \cup {n}) \X Name \X (live \cup {n})
    BY <1>4 DEF u1
  <2>2. u2 \in (dirs \cup {n}) \X Name \X (live \cup {n})
    BY <1>3, <1>4 DEF u2
  <2>3. t \in (dirs \cup {n}) \X Name \X (live \cup {n})
    BY DEF t
  <2>4. ents \subseteq (dirs \cup {n}) \X Name \X (live \cup {n})
    BY DEF TreeOK
  <2> QED
    BY <1>5, <2>1, <2>2, <2>3, <2>4
<1>11. ASSUME NEW e \in all, NEW u \in all, e[1] = u[1], e[2] = u[2]
       PROVE  e = u
  <2>1. \A e1, e2 \in ents : e1[1] = e2[1] /\ e1[2] = e2[2] => e1 = e2
    BY DEF TreeOK
  <2> QED
    BY <1>1, <1>2, <1>3, <1>4, <1>5, <1>11, <2>1
<1>12. \A e \in all : /\ e[2] = Slash => e[1] = Root
                      /\ e[2] \in Dotted => e[1] # Root /\ e[3] \in dirs \cup {n}
                      /\ e[2] = Dot => e[3] = e[1]
  <2>1. \A e \in ents : /\ e[2] = Slash => e[1] = Root
                        /\ e[2] \in Dotted => e[1] # Root /\ e[3] \in dirs
                        /\ e[2] = Dot => e[3] = e[1]
    BY DEF TreeOK
  <2>2. x \notin Dotted
    OBVIOUS
  <2> QED
    BY <1>1, <1>3, <1>4, <1>5, <2>1, <2>2
<1>13. ASSUME NEW m \in (dirs \cup {n}) \ {Root}
       PROVE  \E p \in dirs \cup {n} : \E y \in Name \ Dotted :
                 /\ <<m, DotDot, p>> \in all /\ <<p, y, m>> \in all
                 /\ \A e \in all : e[3] = m /\ e[2] \notin Dotted => e = <<p, y, m>>
  <2>0. Dot \in Dotted /\ DotDot \in Dotted /\ x \notin Dotted
    BY DEF Dotted
  <2>1. CASE m = n
    <3>1. <<n, DotDot, d>> \in all /\ <<d, x, n>> \in all
      BY <1>6 DEF u2, t
    <3>2. \A e \in all : e[3] = n /\ e[2] \notin Dotted => e = <<d, x, n>>
      BY <1>1, <1>2, <1>5, <2>0 DEF t
    <3> QED
      BY <2>0, <2>1, <3>1, <3>2
  <2>2. CASE m # n
    <3>1. PICK p \in dirs, y \in Name \ Dotted :
             /\ <<m, DotDot, p>> \in ents /\ <<p, y, m>> \in ents
             /\ \A e \in ents : e[3] = m /\ e[2] \notin Dotted => e = <<p, y, m>>
      BY Zenon, <2>2 DEF TreeOK
    <3>2. \A e \in all : e[3] = m /\ e[2] \notin Dotted => e \in ents
      BY <1>1, <1>5, <2>0, <2>2
    <3> QED
      BY <1>6, <3>1, <3>2
  <2> QED
    BY Zenon, <2>1, <2>2
<1>14. \A e \in all : e[3] = Root => e[2] \in Dotted
  <2>1. \A e \in ents : e[3] = Root => e[2] \in Dotted
    BY DEF TreeOK
  <2>2. DotDot \in Dotted
    BY DEF Dotted
  <2> QED
    BY <1>1, <1>3, <1>5, <2>1, <2>2
<1>15. {Root, RootDir} \subseteq dirs \cup {n} /\ dirs \cup {n} \subseteq live \cup {n}
  BY <1>3
<1>16. <<Root, Slash, RootDir>> \in all
  BY <1>6 DEF TreeOK
<1> QED
  BY Zenon, <1>8, <1>9, <1>10, <1>11, <1>12, <1>13, <1>14, <1>15, <1>16 DEF TreeOK, all, t

(* The parent of a directory is the one that has a name for it.              *)
LEMMA TreeParent ==
    ASSUME NEW live, NEW dirs, NEW ents, NEW c, TreeOK(live, dirs, ents, c),
           NEW n \in dirs \ {Root}, NEW d, NEW x, x \notin Dotted, <<d, x, n>> \in ents
    PROVE  <<n, DotDot, d>> \in ents /\ d \in dirs
<1>1. PICK p \in dirs, y \in Name \ Dotted :
         /\ <<n, DotDot, p>> \in ents /\ <<p, y, n>> \in ents
         /\ \A e \in ents : e[3] = n /\ e[2] \notin Dotted => e = <<p, y, n>>
  BY Zenon DEF TreeOK
<1>2. <<d, x, n>> = <<p, y, n>>
  BY <1>1
<1> QED
  BY <1>1, <1>2

(* A directory that has only its two dots has no more links than them, and    *)
(* loses its name.                                                          *)
Removable(c, d, n) == n # RootDir /\ n # d /\ c[n] = 2 /\ c[d] \in Nat /\ c[d] > 1

\* A directory that holds only its dots loses its name, and its parent one link.
LEMMA TreeRmdir ==
    ASSUME NEW live, NEW dirs, NEW ents, NEW c, TreeOK(live, dirs, ents, c),
           NEW d, NEW x \in Name \ (Dotted \cup {Slash}), NEW n \in dirs \ {Root},
           <<d, x, n>> \in ents, \A e \in ents : e[1] = n => e[2] \in Dotted,
           NEW c2, c2[d] = c[d] - 1, \A m \in live \ {d} : c2[m] = c[m]
    PROVE  /\ TreeOK(live \ {n}, dirs \ {n}, {e \in ents : e[1] # n /\ e # <<d, x, n>>}, c2)
           /\ Removable(c, d, n)
<1> DEFINE t == <<d, x, n>>
           u2 == <<n, DotDot, d>>
           all == {e \in ents : e[1] # n /\ e # t}
<1>1. /\ t[1] = d /\ t[2] = x /\ t[3] = n /\ t \in ents
      /\ u2[1] = n /\ u2[2] = DotDot /\ u2[3] = d
  OBVIOUS
<1>2. \A e \in ents : e[3] \in live /\ e[1] \in dirs /\ e[2] \in Name
  BY DEF TreeOK
<1>3. /\ d \in dirs /\ u2 \in ents /\ {Root, RootDir} \subseteq dirs /\ dirs \subseteq live
      /\ x \notin Dotted /\ x # Slash
  <2>1. {Root, RootDir} \subseteq dirs /\ dirs \subseteq live
    BY DEF TreeOK
  <2>2. x \notin Dotted /\ x # Slash
    OBVIOUS
  <2>3. u2 \in ents /\ d \in dirs
    BY <2>2, TreeParent
  <2> QED
    BY <2>1, <2>2, <2>3
<1>4. n # d
  BY <1>1, <1>3
<1>5. n # RootDir
  <2>1. PICK p \in dirs, y \in Name \ Dotted : \A e \in ents : e[3] = n /\ e[2] \notin Dotted => e = <<p, y, n>>
    BY Zenon DEF TreeOK
  <2>2. <<Root, Slash, RootDir>> \in ents /\ Slash \notin Dotted
    BY NamesAssumption DEF TreeOK, Dotted
  <2>3. n = RootDir => <<Root, Slash, RootDir>> = <<p, y, n>> /\ t = <<p, y, n>>
    BY <1>1, <1>3, <2>1, <2>2
  <2> QED
    BY <1>1, <1>3, <2>3
<1>6. \A e \in ents : e[3] = n /\ e[2] = DotDot => FALSE
  <2>1. ASSUME NEW e \in ents, e[3] = n, e[2] = DotDot
        PROVE  FALSE
    <3>1. e[1] \in dirs \ {Root}
      BY <1>2, <2>1 DEF TreeOK, Dotted
    <3>2. PICK p \in dirs, y \in Name \ Dotted : <<e[1], DotDot, p>> \in ents /\ <<p, y, e[1]>> \in ents
      BY Zenon, <3>1 DEF TreeOK
    <3>3. <<e[1], DotDot, p>> = e
      BY <2>1, <3>2 DEF TreeOK
    <3>4. p = n
      BY <2>1, <3>3
    <3> QED
      BY <3>2, <3>4
  <2> QED
    BY <2>1
<1>7. c[n] = 2
  <2>1. {e \in ents : e[3] = n /\ e[2] = DotDot} = {}
    BY <1>6
  <2>2. Cardinality({}) = 0
    BY FS_EmptySet
  <2>3. Extra(n) = 2
    BY <1>5 DEF Extra
  <2>4. Counted(dirs, ents, n) = Cardinality({e \in ents : e[3] = n /\ e[2] = DotDot}) + Extra(n)
    BY DEF Counted
  <2>5. Counted(dirs, ents, n) = 0 + 2
    BY <2>1, <2>2, <2>3, <2>4
  <2>6. c[n] = Counted(dirs, ents, n)
    BY <1>3 DEF TreeOK
  <2> QED
    BY <2>5, <2>6
<1>8. IsFiniteSet(Up(ents, d)) /\ u2 \in Up(ents, d)
  <2>1. IsFiniteSet(Up(ents, d))
    BY NamesFinite
  <2>2. u2 \in Up(ents, d)
    BY <1>1, <1>3 DEF Up
  <2> QED
    BY <2>1, <2>2
<1> HIDE DEF u2
<1>9. /\ Cardinality(Up(ents, d) \ {u2}) = Cardinality(Up(ents, d)) - 1
      /\ Cardinality(Up(ents, d)) \in Nat \ {0} /\ IsFiniteSet(Up(ents, d) \ {u2})
  BY <1>8, CountLess
<1>10. c[d] = Cardinality(Up(ents, d)) + Extra(d) /\ Extra(d) \in Nat
  <2>1. c[d] = Counted(dirs, ents, d)
    BY <1>3 DEF TreeOK
  <2>2. Counted(dirs, ents, d) = Cardinality(Up(ents, d)) + Extra(d)
    BY <1>3 DEF Counted, Up
  <2>3. Extra(d) \in Nat
    BY DEF Extra
  <2> QED
    BY <2>1, <2>2, <2>3
<1>11. c[d] \in Nat /\ c[d] > 1
  <2>1. CASE d # Root
    <3>1. Extra(d) >= 1
      BY <2>1 DEF Extra
    <3> QED
      BY <1>9, <1>10, <3>1
  <2>2. CASE d = Root
    <3>1. PICK p \in dirs, y \in Name \ Dotted :
             /\ <<RootDir, DotDot, p>> \in ents
             /\ \A e \in ents : e[3] = RootDir /\ e[2] \notin Dotted => e = <<p, y, RootDir>>
      <4>1. RootDir \in dirs \ {Root}
        BY <1>3 DEF Root, RootDir
      <4> QED
        BY Zenon, <4>1 DEF TreeOK
    <3>2. <<Root, Slash, RootDir>> \in ents /\ Slash \notin Dotted
      BY NamesAssumption DEF TreeOK, Dotted
    <3>3. p = Root
      <4>1. <<Root, Slash, RootDir>> = <<p, y, RootDir>>
        BY <3>1, <3>2
      <4> QED
        BY <4>1
    <3> DEFINE u3 == <<RootDir, DotDot, Root>>
    <3>4. u3 \in Up(ents, d) /\ u3 # u2
      BY <1>1, <1>5, <2>2, <3>1, <3>3 DEF Up, u2
    <3> HIDE DEF u3
    <3>5. Cardinality(Up(ents, d) \ {u2}) \in Nat \ {0}
      BY Zenon, <1>9, <3>4, CountLess
    <3> QED
      BY <1>9, <1>10, <3>5
  <2> QED
    BY <2>1, <2>2
<1>12. \A e \in all : e \in ents /\ e[1] # n /\ e # t /\ e[3] # n
  <2>1. ASSUME NEW e \in all, e[3] = n
        PROVE  FALSE
    <3>1. e[2] # DotDot
      BY <1>6, <2>1
    <3>2. e[2] # Dot
      BY <2>1 DEF TreeOK
    <3>3. e[2] \notin Dotted
      BY <3>1, <3>2 DEF Dotted
    <3>4. PICK p \in dirs, y \in Name \ Dotted : \A r \in ents : r[3] = n /\ r[2] \notin Dotted => r = <<p, y, n>>
      BY Zenon DEF TreeOK
    <3>5. e = <<p, y, n>> /\ t = <<p, y, n>>
      BY <1>1, <1>3, <2>1, <3>3, <3>4
    <3> QED
      BY <3>5
  <2> QED
    BY <2>1
<1>13. \A e \in ents : e[1] # n /\ e # t => e \in all
  OBVIOUS
<1> HIDE DEF all, t
<1>14. ASSUME NEW m \in live \ {n}
       PROVE  c2[m] = Counted(dirs \ {n}, all, m)
  <2>1. CASE m = d
    <3>1. {e \in all : e[3] = d /\ e[2] = DotDot} = Up(ents, d) \ {u2}
      <4>1. ASSUME NEW e \in Up(ents, d), e # u2
            PROVE  e \in all
        <5>1. e \in ents /\ e[3] = d /\ e[2] = DotDot
          BY DEF Up
        <5>2. e[1] # n
          BY <1>1, <1>3, <4>1, <5>1 DEF TreeOK
        <5>3. e # t
          BY <1>1, <1>4, <5>1
        <5> QED
          BY <1>13, <5>1, <5>2, <5>3
      <4>2. ASSUME NEW e \in all, e[3] = d, e[2] = DotDot
            PROVE  e \in Up(ents, d) /\ e # u2
        BY <1>1, <1>12, <4>2 DEF Up
      <4> QED
        BY <4>1, <4>2 DEF Up
    <3>2. Counted(dirs \ {n}, all, d) = Cardinality(Up(ents, d) \ {u2}) + Extra(d)
      BY Zenon, <1>3, <1>4, <3>1 DEF Counted
    <3> QED
      BY <1>9, <1>10, <2>1, <3>2
  <2>2. CASE m # d
    <3>1. {e \in all : e[3] = m} = {e \in ents : e[3] = m} \/ m \in dirs
      <4>1. ASSUME m \notin dirs, NEW e \in ents, e[3] = m
            PROVE  e \in all
        <5>1. e[2] \notin Dotted
          BY <4>1 DEF TreeOK
        <5>2. e[1] # n
          BY <5>1
        <5>3. e # t
          BY <1>1, <4>1
        <5> QED
          BY <1>13, <5>2, <5>3
      <4> QED
        BY <1>12, <4>1
    <3>2. {e \in all : e[3] = m /\ e[2] = DotDot} = {e \in ents : e[3] = m /\ e[2] = DotDot}
      <4>1. ASSUME NEW e \in ents, e[3] = m, e[2] = DotDot
            PROVE  e \in all
        <5>1. e[1] # n
          BY <1>1, <1>3, <2>2, <4>1 DEF TreeOK
        <5>2. e # t
          BY <1>1, <4>1
        <5> QED
          BY <1>13, <5>1, <5>2
      <4> QED
        BY <1>12, <4>1
    <3>3. c[m] = Counted(dirs, ents, m)
      BY DEF TreeOK
    <3> QED
      BY Zenon, <2>2, <3>1, <3>2, <3>3 DEF Counted
  <2> QED
    BY <2>1, <2>2
<1>15. IsFiniteSet(all)
  <2>1. all \subseteq ents /\ IsFiniteSet(ents)
    BY <1>12 DEF TreeOK
  <2> QED
    BY <2>1, FS_Subset
<1>16. all \subseteq (dirs \ {n}) \X Name \X (live \ {n})
  <2>1. \A e \in all : e \in dirs \X Name \X live
    BY <1>12 DEF TreeOK
  <2> QED
    BY <1>12, <2>1
<1>17. \A e, u \in all : e[1] = u[1] /\ e[2] = u[2] => e = u
  BY <1>12 DEF TreeOK
<1>18. \A e \in all : /\ e[2] = Slash => e[1] = Root
                      /\ e[2] \in Dotted => e[1] # Root /\ e[3] \in dirs \ {n}
                      /\ e[2] = Dot => e[3] = e[1]
  BY <1>12 DEF TreeOK
<1>19. ASSUME NEW m \in (dirs \ {n}) \ {Root}
       PROVE  \E p \in dirs \ {n} : \E y \in Name \ Dotted :
                 /\ <<m, DotDot, p>> \in all /\ <<p, y, m>> \in all
                 /\ \A e \in all : e[3] = m /\ e[2] \notin Dotted => e = <<p, y, m>>
  <2>1. PICK p \in dirs, y \in Name \ Dotted :
           /\ <<m, DotDot, p>> \in ents /\ <<p, y, m>> \in ents
           /\ \A e \in ents : e[3] = m /\ e[2] \notin Dotted => e = <<p, y, m>>
    BY Zenon DEF TreeOK
  <2>2. p # n
    BY <2>1
  <2>3. <<m, DotDot, p>> \in all
    <3>1. <<m, DotDot, p>>[1] # n
      OBVIOUS
    <3>2. <<m, DotDot, p>> # t
      BY <2>2 DEF t
    <3> QED
      BY <1>13, <2>1, <3>1, <3>2
  <2>4. <<p, y, m>> \in all
    <3>1. <<p, y, m>>[1] # n
      BY <2>2
    <3>2. <<p, y, m>> # t
      BY DEF t
    <3> QED
      BY <1>13, <2>1, <3>1, <3>2
  <2> QED
    BY <1>12, <2>1, <2>2, <2>3, <2>4
<1>20. \A e \in all : e[3] = Root => e[2] \in Dotted
  BY <1>12 DEF TreeOK
<1>21. {Root, RootDir} \subseteq dirs \ {n} /\ dirs \ {n} \subseteq live \ {n}
  BY <1>3, <1>5
<1>22. <<Root, Slash, RootDir>> \in all
  <2>1. <<Root, Slash, RootDir>> \in ents /\ <<Root, Slash, RootDir>>[1] # n
    BY DEF TreeOK
  <2>2. <<Root, Slash, RootDir>> # t
    BY <1>5 DEF t
  <2> QED
    BY <1>13, <2>1, <2>2
<1>23. TreeOK(live \ {n}, dirs \ {n}, all, c2)
  BY Zenon, <1>14, <1>15, <1>16, <1>17, <1>18, <1>19, <1>20, <1>21, <1>22 DEF TreeOK
<1> QED
  BY <1>4, <1>5, <1>7, <1>11, <1>23 DEF all, t, Removable

-----------------------------------------------------------------------------
(* Directories of one block, as mkdir and load_root make them.               *)

\* What is in that block is in order, too.
OneBlock(v, n, b) ==
    /\ b \in Blk /\ v.cur[n].zone = Zoned(b) /\ v.cur[n].size = BlkSize /\ b - 1 \in v.zmap
    /\ DOMAIN v.body[b] \subseteq 0 .. PerBlk - 1
    /\ \A i \in DOMAIN v.body[b] : v.body[b][i] \in [name : Name, nr : Inr]
    /\ \A i, j \in DOMAIN v.body[b] : v.body[b][i].name = v.body[b][j].name => i = j
    /\ n # Root => /\ {0, 1} \subseteq DOMAIN v.body[b]
                   /\ v.body[b][0] = [name |-> Dot, nr |-> n] /\ v.body[b][1].name = DotDot

\* A directory of one block is good, and its entries are what is in the block.
LEMMA OneBlockIs ==
    ASSUME NEW v, NEW n, NEW b, OneBlock(v, n, b)
    PROVE  /\ DirOK(v, n) /\ HeldBy(v, n) = {b}
           /\ EntsOf(v, n) = {<<n, v.body[b][i].name, v.body[b][i].nr>> : i \in DOMAIN v.body[b]}
<1>1. b \in Blk /\ v.cur[n].zone = Zoned(b) /\ v.cur[n].size = BlkSize /\ b - 1 \in v.zmap /\ b # 0
  BY DEF OneBlock, Blk
<1>2. /\ Mapped(v, v.cur[n].zone) /\ HeldBy(v, n) = {b}
      /\ BlockIn(v, n, 0) = b /\ \A k \in FileBlk \ {0} : BlockIn(v, n, k) = 0
  BY <1>1, ZonedParts DEF HeldBy, BlockIn
<1>3. Marks(v, n)
  BY <1>1, <1>2 DEF Marks
<1>4. 0 \in FileBlk /\ FileBlk \subseteq Nat /\ BlkSize \in Nat \ {0}
  BY FirstPlaces, Sizes
<1>5. Shape(v, n)
  <2>1. ASSUME NEW k \in FileBlk
        PROVE  BlockIn(v, n, k) # 0 <=> k <= 0
    <3>1. k \in Nat
      BY <1>4
    <3> QED
      BY <1>1, <1>2, <3>1
  <2>2. v.cur[n].size = (0 + 1) * BlkSize
    BY <1>1, <1>4
  <2> QED
    BY <1>4, <2>1, <2>2 DEF Shape
<1>6. ASSUME NEW k \in FileBlk, BlockIn(v, n, k) # 0
      PROVE  k = 0 /\ BlockIn(v, n, k) = b
  BY <1>2, <1>6
<1>7. Cells(v, n)
  BY <1>6 DEF Cells, Cell, OneBlock
<1>8. \A k \in FileBlk : \A i : Used(v, n, k, i) =>
         k = 0 /\ i \in DOMAIN v.body[b] /\ Cell(v, n, k, i) = v.body[b][i]
  BY <1>6 DEF Used, Cell
<1>9. \A i \in DOMAIN v.body[b] : Used(v, n, 0, i) /\ Cell(v, n, 0, i) = v.body[b][i] /\ i \in 0 .. PerBlk - 1
  BY <1>1, <1>2 DEF Used, Cell, OneBlock
<1>10. OneEach(v, n)
  BY <1>8 DEF OneEach, OneBlock
<1>11. Dots(v, n)
  <2>1. ASSUME n # Root
        PROVE  /\ Used(v, n, 0, 0) /\ Cell(v, n, 0, 0) = [name |-> Dot, nr |-> n]
               /\ Used(v, n, 0, 1) /\ Cell(v, n, 0, 1).name = DotDot
    <3>1. 0 \in DOMAIN v.body[b] /\ 1 \in DOMAIN v.body[b] /\ v.body[b][1].name = DotDot
      BY <2>1 DEF OneBlock
    <3>2. v.body[b][0] = [name |-> Dot, nr |-> n]
      BY <2>1, Zenon DEF OneBlock
    <3>3. Used(v, n, 0, 0) /\ Cell(v, n, 0, 0) = v.body[b][0]
      BY <1>9, <3>1
    <3>4. Used(v, n, 0, 1) /\ Cell(v, n, 0, 1).name = DotDot
      BY <1>9, <3>1
    <3>5. Cell(v, n, 0, 0) = [name |-> Dot, nr |-> n]
      BY <3>2, <3>3, Zenon
    <3> QED
      BY <3>3, <3>4, <3>5, Zenon
  <2> QED
    BY <2>1, Zenon DEF Dots
<1>12. EntsOf(v, n) = {<<n, v.body[b][i].name, v.body[b][i].nr>> : i \in DOMAIN v.body[b]}
  <2>1. ASSUME NEW e \in EntsOf(v, n)
        PROVE  e \in {<<n, v.body[b][i].name, v.body[b][i].nr>> : i \in DOMAIN v.body[b]}
    <3>1. PICK k \in FileBlk, i \in 0 .. PerBlk - 1 :
             Used(v, n, k, i) /\ e = <<n, Cell(v, n, k, i).name, Cell(v, n, k, i).nr>>
      BY EntsAre
    <3> QED
      BY <1>8, <3>1
  <2>2. ASSUME NEW i \in DOMAIN v.body[b]
        PROVE  <<n, v.body[b][i].name, v.body[b][i].nr>> \in EntsOf(v, n)
    BY <1>4, <1>9, EntsAre
  <2> QED
    BY <2>1, <2>2
<1> QED
  BY <1>2, <1>3, <1>5, <1>7, <1>10, <1>11, <1>12 DEF DirOK
\* A table entry becomes a directory of block b.
AsDir(nd, b) == [nd EXCEPT !.mode = "dir", !.nlinks = 2, !.size = BlkSize, !.zone[0] = b]

\* What mkdir makes of an inode that inherits no zones.
LEMMA AsDirIs ==
    ASSUME NEW nd \in Node, NEW b \in Blk, \A z \in Zone \ {0} : nd.zone[z] = 0
    PROVE  /\ AsDir(nd, b) \in Node
           /\ AsDir(nd, b).mode = "dir" /\ AsDir(nd, b).nlinks = 2
           /\ AsDir(nd, b).size = BlkSize /\ AsDir(nd, b).zone = Zoned(b)
<1> DEFINE x == [nd EXCEPT !.mode = "dir", !.nlinks = 2, !.size = BlkSize]
           zone == [nd.zone EXCEPT ![0] = b]
<1>1. nd.zone \in [Zone -> Nr] /\ b \in Nr /\ 0 \in Zone /\ BlkSize \in Nat
  BY Sizes DEF Node, Nr
<1>2. x \in Node /\ x.mode = "dir" /\ x.nlinks = 2 /\ x.size = BlkSize /\ x.zone = nd.zone
  <2>1. 2 \in 0 .. NrLinks - 1
    BY InodesAssumption
  <2> QED
    BY Zenon, <1>1, <2>1 DEF Node
<1>3. AsDir(nd, b) = [x EXCEPT !.zone = [x.zone EXCEPT ![0] = b]]
  BY DEF AsDir
<1>4. zone \in [Zone -> Nr] /\ zone = Zoned(b)
  <2>1. zone \in [Zone -> Nr] /\ zone[0] = b /\ \A z \in Zone \ {0} : zone[z] = 0
    BY <1>1
  <2> HIDE DEF zone
  <2> QED
    BY <2>1 DEF Zoned
<1> HIDE DEF x, zone
<1>5. AsDir(nd, b) = [x EXCEPT !.zone = zone]
  BY <1>2, <1>3 DEF zone
<1> QED
  BY <1>2, <1>4, <1>5 DEF Node, Nr

\* The table and the inodes are the same.
LEMMA TableKept ==
    ASSUME NEW f, NEW H, NEW R, TableOK(f, H, R), NEW g, IsFs(g), g.table = f.table,
           g.imap = f.imap, g.dev = f.dev, g.pinned = f.pinned
    PROVE  TableOK(g, H, R) /\ Disk(g).cur = Disk(f).cur
<1>1. TableOK(g, H, R)
  BY DEF TableOK, EntryOK, Unique, Has
<1>2. \A n : Current(g, n) = Current(f, n)
  BY DEF Current
<1> QED
  BY <1>1, <1>2 DEF Disk

\* What a new directory n has: block b, which nobody had, with its two dots.
MadeDir(f, g, n, d, b) ==
    /\ g.imap = f.imap /\ g.pinned = f.pinned /\ g.status = f.status
    /\ b \in Blk /\ b - 1 \notin f.zmap /\ g.zmap = f.zmap \cup {b - 1}
    /\ \A a \in Blk \ {b} : g.body[a] = f.body[a]
    /\ \A t \in Slot \ {Entry(f, n)} : g.table[t] = f.table[t]
    /\ g.table[Entry(f, n)].num = n /\ g.table[Entry(f, n)].cnt = f.table[Entry(f, n)].cnt
    /\ g.table[Entry(f, n)].dirt
    /\ \A m \in DOMAIN Disk(f).cur \ {n} : Disk(g).cur[m] = Disk(f).cur[m]
    /\ DOMAIN Disk(g).cur = DOMAIN Disk(f).cur
    /\ Disk(g).cur[n].mode = "dir" /\ Disk(g).cur[n].nlinks = 2
    /\ DirOK(Disk(g), n) /\ HeldBy(Disk(g), n) = {b}
    /\ EntsOf(Disk(g), n) = {<<n, Dot, n>>, <<n, DotDot, d>>}

(* The new directory of mkdir with its two dots (namei.c:354-376).            *)
LEMMA NewDirHolds ==
    ASSUME NEW f, NEW H, NEW R, TableOK(f, H, R), NEW n \in Inr, R[n] > 0, NEW d \in Inr,
           NoneInherited(f, n), NEW b, b = NewBlockNr(f), b # 0
    PROVE  LET g == NewDir(f, n, d, b)
           IN  TableOK(g, H, R) /\ MadeDir(f, g, n, d, b)
<1> DEFINE g == NewDir(f, n, d, b)
           h == NewBlock(f)
           s == Entry(f, n)
           c == [i \in {0, 1} |-> IF i = 0 THEN [name |-> Dot, nr |-> n] ELSE [name |-> DotDot, nr |-> d]]
           h1 == [h EXCEPT !.body[b] = c]
           nd == AsDir(f.table[s].node, b)
           w == Disk(g)
<1>1. IsFs(f)
  BY DEF TableOK
<1>2. /\ IsFs(h) /\ h.imap = f.imap /\ h.table = f.table /\ h.dev = f.dev
      /\ h.pinned = f.pinned /\ h.status = f.status
      /\ b \in Blk /\ b - 1 \notin f.zmap /\ h.zmap = f.zmap \cup {b - 1}
      /\ h.body = [f.body EXCEPT ![b] = ZeroBlk]
  BY <1>1, NewBlockIs
<1>3. /\ s \in Slot /\ f.table[s].num = n /\ n # 0 /\ f.table[s].cnt > 0 /\ Has(f, n)
      /\ n \in f.imap \cap Inr
  BY HeldIs
<1>4. TableOK(h, H, R) /\ Disk(h).cur = Disk(f).cur
  BY <1>2, TableKept
<1>5. DOMAIN c = {0, 1} /\ c[0] = [name |-> Dot, nr |-> n] /\ c[1] = [name |-> DotDot, nr |-> d]
  OBVIOUS
<1>6. {0, 1} \subseteq 0 .. PerBlk - 1 /\ {0, 1} \subseteq 0 .. BlkSize - 1
  <2>1. PerBlk \in Nat /\ BlkSize \in Nat /\ PerBlk > 2 /\ PerBlk <= BlkSize
    BY NamesAssumption, Sizes
  <2> QED
    BY <2>1
<1> HIDE DEF c
<1>7. BodySetTo(h, h1, b, c)
  BY <1>2, <1>5, <1>6, BodySet
<1>8. IsFs(h1) /\ h1.table = f.table
  BY <1>2, <1>7 DEF BodySetTo
<1>9. /\ nd \in Node /\ nd.mode = "dir" /\ nd.nlinks = 2 /\ nd.size = BlkSize /\ nd.zone = Zoned(b)
  <2>1. f.table[s].node \in Node
    BY <1>1, <1>3, EntryIsTyped
  <2>2. \A z \in Zone \ {0} : f.table[s].node.zone[z] = 0
    BY DEF NoneInherited, Mem
  <2> QED
    BY <1>2, <2>1, <2>2, AsDirIs
<1>10. g = [h1 EXCEPT !.table[s].node = nd, !.table[s].dirt = TRUE]
  <2>1. g = [h1 EXCEPT !.table[s].node = [@ EXCEPT !.mode = "dir", !.nlinks = 2, !.size = BlkSize,
                                                   !.zone[0] = b],
                       !.table[s].dirt = TRUE]
    BY DEF NewDir, c
  <2> HIDE DEF h1, h
  <2>2. [h1 EXCEPT !.table[s].node = [@ EXCEPT !.mode = "dir", !.nlinks = 2, !.size = BlkSize,
                                               !.zone[0] = b],
                   !.table[s].dirt = TRUE]
          = [h1 EXCEPT !.table[s].node = nd, !.table[s].dirt = TRUE]
    BY <1>8 DEF AsDir
  <2> QED
    BY <2>1, <2>2
<1> HIDE DEF g, h1, nd
<1>11. NodeSetTo(h1, g, s, nd, TRUE)
  <2>1. NodeSetTo(h1, [h1 EXCEPT !.table[s].node = nd, !.table[s].dirt = TRUE], s, nd, TRUE)
    BY Zenon, <1>3, <1>8, <1>9, NodeDirtSet
  <2> QED
    BY Zenon, <1>10, <2>1
<1>12. /\ IsFs(g) /\ g.imap = f.imap /\ g.zmap = f.zmap \cup {b - 1} /\ g.dev = f.dev
       /\ g.pinned = f.pinned /\ g.status = f.status
       /\ g.body[b] = c /\ \A a \in Blk \ {b} : g.body[a] = h.body[a]
       /\ \A t \in Slot \ {s} : g.table[t] = f.table[t]
       /\ g.table[s].num = n /\ g.table[s].cnt = f.table[s].cnt
       /\ g.table[s].dirt /\ g.table[s].node = nd
  BY <1>2, <1>3, <1>7, <1>8, <1>11 DEF NodeSetTo, BodySetTo
<1>13. \A a \in Blk \ {b} : g.body[a] = f.body[a]
  BY <1>2, <1>12
<1>14. TableOK(g, H, R) /\ Disk(g).cur = With(Disk(f).cur, n, nd)
  <2>1. /\ g.imap = h.imap /\ g.dev = h.dev /\ g.pinned \in SUBSET Blk
        /\ \A t \in Slot \ {s} : g.table[t] = h.table[t]
        /\ g.table[s].num = h.table[s].num /\ g.table[s].cnt = h.table[s].cnt
        /\ h.table[s].num = n /\ h.table[s].num # 0 /\ h.table[s].cnt > 0
        /\ g.table[s].node.nlinks > 0
    BY <1>2, <1>3, <1>9, <1>12 DEF TableOK
  <2> HIDE DEF h
  <2>2. TableOK(g, H, R) /\ Disk(g).cur = With(Disk(h).cur, h.table[s].num, g.table[s].node)
    BY <1>3, <1>4, <1>12, <2>1, EntrySet
  <2> QED
    BY <1>4, <1>12, <2>1, <2>2
<1>15. /\ w.cur[n] = nd /\ DOMAIN w.cur = DOMAIN Disk(f).cur
       /\ \A m \in DOMAIN Disk(f).cur \ {n} : w.cur[m] = Disk(f).cur[m]
       /\ w.body = g.body /\ w.zmap = g.zmap
  <2>1. n \in DOMAIN Disk(f).cur
    BY <1>3, CurIs
  <2>2. w.body = g.body /\ w.zmap = g.zmap
    BY <1>14, CurIs
  <2> QED
    BY <1>14, <2>1, <2>2 DEF With
<1>16. OneBlock(w, n, b)
  <2>1. {Dot, DotDot} \subseteq Name /\ Dot # DotDot
    <3>1. {Dot, DotDot} \subseteq Name /\ NameLen[Dot] = 1 /\ NameLen[DotDot] = 2
      BY NamesAssumption
    <3> QED
      BY <3>1
  <2>2. c[0] \in [name : Name, nr : Inr] /\ c[1] \in [name : Name, nr : Inr]
    BY <1>5, <2>1
  <2>3. c[0].name = Dot /\ c[1].name = DotDot
    BY <1>5
  <2>4. w.body[b] = c
    BY <1>12, <1>15
  <2>5. \A i \in DOMAIN w.body[b] : i = 0 \/ i = 1
    BY <1>5, <2>4
  <2>6. /\ \A i \in DOMAIN w.body[b] : w.body[b][i] \in [name : Name, nr : Inr]
        /\ \A i, j \in DOMAIN w.body[b] : w.body[b][i].name = w.body[b][j].name => i = j
    BY <2>1, <2>2, <2>3, <2>4, <2>5
  <2>7. {0, 1} \subseteq DOMAIN w.body[b] /\ DOMAIN w.body[b] \subseteq 0 .. PerBlk - 1
    BY <1>5, <1>6, <2>4
  <2>8. w.body[b][0] = [name |-> Dot, nr |-> n]
    BY <1>5, <2>4, Zenon
  <2>9. w.body[b][1].name = DotDot
    BY <2>3, <2>4
  <2>10. w.cur[n].zone = Zoned(b) /\ w.cur[n].size = BlkSize /\ b - 1 \in w.zmap
    BY <1>9, <1>12, <1>15
  <2> QED
    BY <1>2, <2>6, <2>7, <2>8, <2>9, <2>10, Zenon DEF OneBlock
<1>17. /\ DirOK(w, n) /\ HeldBy(w, n) = {b}
       /\ EntsOf(w, n) = {<<n, w.body[b][i].name, w.body[b][i].nr>> : i \in DOMAIN w.body[b]}
  BY <1>16, OneBlockIs
<1>18. EntsOf(w, n) = {<<n, Dot, n>>, <<n, DotDot, d>>}
  <2>1. w.body[b] = c
    BY <1>12, <1>15
  <2>2. DOMAIN w.body[b] = {0, 1} /\ w.body[b][0].name = Dot /\ w.body[b][0].nr = n
        /\ w.body[b][1].name = DotDot /\ w.body[b][1].nr = d
    BY <1>5, <2>1
  <2> HIDE DEF w
  <2> QED
    BY <1>17, <2>2
<1>19. MadeDir(f, g, n, d, b)
  <2>1. w.cur[n].mode = "dir" /\ w.cur[n].nlinks = 2
    BY <1>9, <1>15
  <2> QED
    BY <1>2, <1>12, <1>13, <1>15, <1>17, <1>18, <2>1 DEF MadeDir
<1> QED
  BY <1>14, <1>19 DEF g
\* No block is given back.
MarksKept(f, g) == DOMAIN f = Fields => DOMAIN g = Fields /\ f.zmap \subseteq g.zmap

(* create_block and add_entry mark blocks only (inode.c:398-497).             *)
LEMMA CreateBlockMarks ==
    ASSUME NEW f, NEW s, NEW k
    PROVE  MarksKept(f, CreateBlock(f, s, k))
<1>1. \A g : MarksKept(g, NewBlock(g))
  BY DEF MarksKept, NewBlock, Marked, Fields
<1>2. \A g, z, new : MarksKept(g, SetZone(g, s, z, new))
  BY DEF MarksKept, SetZone, Fields
<1>3. \A g, b, i, new : MarksKept(g, SetPtr(g, b, i, new))
  BY DEF MarksKept, SetPtr, Fields
<1>4. \A g, z : MarksKept(g, NewZone(g, s, z))
  <2>1. \A g, h, l : MarksKept(g, h) /\ MarksKept(h, l) => MarksKept(g, l)
    BY DEF MarksKept
  <2>2. \A g : MarksKept(g, g)
    BY DEF MarksKept
  <2> QED
    BY <1>1, <1>2, <2>1, <2>2 DEF NewZone
<1>5. \A g, b, i : MarksKept(g, NewPtr(g, b, i))
  <2>1. \A g, h, l : MarksKept(g, h) /\ MarksKept(h, l) => MarksKept(g, l)
    BY DEF MarksKept
  <2>2. \A g : MarksKept(g, g)
    BY DEF MarksKept
  <2> QED
    BY <1>1, <1>3, <2>1, <2>2 DEF NewPtr
<1>6. \A g, h, l : MarksKept(g, h) /\ MarksKept(h, l) => MarksKept(g, l)
  BY DEF MarksKept
<1> DEFINE j == k - Direct - PerInd
           g1 == NewZone(f, s, k)
           g2 == InInd(NewZone(f, s, Ind), s, k - Direct)
           g3 == BelowDind(InDind(NewZone(f, s, Dind), s, j), s, j)
<1>7. MarksKept(f, g1)
  BY <1>4
<1>8. MarksKept(f, g2)
  BY <1>4, <1>5, <1>6 DEF InInd
<1>9. MarksKept(f, g3)
  <2>1. MarksKept(f, InDind(NewZone(f, s, Dind), s, j))
    BY <1>4, <1>5, <1>6 DEF InDind
  <2>2. MarksKept(InDind(NewZone(f, s, Dind), s, j), g3)
    BY <1>5 DEF BelowDind
  <2> QED
    BY <1>6, <2>1, <2>2
<1>10. CreateBlock(f, s, k) = g1 \/ CreateBlock(f, s, k) = g2 \/ CreateBlock(f, s, k) = g3
  BY DEF CreateBlock
<1> QED
  BY <1>7, <1>8, <1>9, <1>10

\* add_entry gives no block back.
LEMMA AddEntryMarks ==
    ASSUME NEW f, DOMAIN f = Fields, NEW d, NEW x, NEW r
    PROVE  f.zmap \subseteq AddEntry(f, d, x, r).zmap
<1> DEFINE s == Entry(f, d)
           g == WithRoom(f, s)
<1>1. DOMAIN g = Fields /\ f.zmap \subseteq g.zmap
  BY CreateBlockMarks DEF MarksKept, WithRoom
<1> HIDE DEF g
<1>2. \A b, e : Enter(f, g, s, b, e).zmap = g.zmap
  BY <1>1 DEF Enter, Fields
<1> QED
  BY <1>1, <1>2 DEF AddEntry, EnterIn, g

-----------------------------------------------------------------------------
(* What a call does to the disk, and to the tree of names on it.             *)

\* The inodes that have a name, their nodes and the directories.
LEMMA LiveSame ==
    ASSUME NEW v, NEW w, DOMAIN w.cur = DOMAIN v.cur,
           \A m \in DOMAIN v.cur : /\ w.cur[m].nlinks > 0 <=> v.cur[m].nlinks > 0
                                   /\ w.cur[m].mode = v.cur[m].mode
    PROVE  LiveIn(w) = LiveIn(v) /\ DirsIn(w) = DirsIn(v)
<1>1. LiveIn(w) = LiveIn(v) /\ LiveIn(v) \subseteq DOMAIN v.cur
  BY DEF LiveIn
<1> QED
  BY <1>1 DEF DirsIn

\* The entries, when those of d have changed.
LEMMA EntsInMore ==
    ASSUME NEW v, NEW w, DirsIn(w) = DirsIn(v), NEW d \in DirsIn(v), NEW S,
           \A n \in DirsIn(v) \ {d} : EntsOf(w, n) = EntsOf(v, n),
           EntsOf(w, d) = EntsOf(v, d) \cup S
    PROVE  EntsIn(w) = EntsIn(v) \cup S
<1>1. ASSUME NEW e
      PROVE  e \in EntsIn(w) <=> e \in EntsIn(v) \cup S
  <2>1. e \in EntsIn(w) <=> \E n \in DirsIn(v) : e \in EntsOf(w, n)
    BY DEF EntsIn
  <2>2. e \in EntsIn(v) <=> \E n \in DirsIn(v) : e \in EntsOf(v, n)
    BY DEF EntsIn
  <2>3. \A n \in DirsIn(v) : e \in EntsOf(w, n) <=> e \in EntsOf(v, n) \/ (n = d /\ e \in S)
    OBVIOUS
  <2> QED
    BY <2>1, <2>2, <2>3
<1> QED
  BY <1>1

\* An entry that goes from one directory goes from the disk.
LEMMA EntsInLess ==
    ASSUME NEW v, NEW w, DirsIn(w) = DirsIn(v), NEW d \in DirsIn(v), NEW t, t[1] = d,
           \A n \in DirsIn(v) \ {d} : EntsOf(w, n) = EntsOf(v, n),
           EntsOf(w, d) = EntsOf(v, d) \ {t}
    PROVE  EntsIn(w) = EntsIn(v) \ {t}
<1>1. ASSUME NEW e
      PROVE  e \in EntsIn(w) <=> e \in EntsIn(v) \ {t}
  <2>1. e \in EntsIn(w) <=> \E n \in DirsIn(v) : e \in EntsOf(w, n)
    BY DEF EntsIn
  <2>2. e \in EntsIn(v) <=> \E n \in DirsIn(v) : e \in EntsOf(v, n)
    BY DEF EntsIn
  <2>3. \A n \in DirsIn(v) : e \in EntsOf(v, n) => e[1] = n
    BY EntsAre
  <2>4. \A n \in DirsIn(v) : e \in EntsOf(w, n) <=> e \in EntsOf(v, n) /\ e # t
    BY <2>3
  <2> QED
    BY <2>1, <2>2, <2>4
<1> QED
  BY <1>1

\* The entries, when n is a directory more, or one less.
LEMMA EntsInDirs ==
    ASSUME NEW v, NEW w, NEW n, n \notin DirsIn(v), DirsIn(w) = DirsIn(v) \cup {n},
           \A m \in DirsIn(v) : EntsOf(w, m) = EntsOf(v, m)
    PROVE  EntsIn(w) = EntsIn(v) \cup EntsOf(w, n)
<1>1. ASSUME NEW e
      PROVE  e \in EntsIn(w) <=> e \in EntsIn(v) \cup EntsOf(w, n)
  <2>1. e \in EntsIn(w) <=> \E m \in DirsIn(v) \cup {n} : e \in EntsOf(w, m)
    BY DEF EntsIn
  <2>2. e \in EntsIn(v) <=> \E m \in DirsIn(v) : e \in EntsOf(v, m)
    BY DEF EntsIn
  <2> QED
    BY <2>1, <2>2
<1> QED
  BY <1>1

\* With a directory go its entries.
LEMMA EntsInGone ==
    ASSUME NEW v, NEW w, NEW n, n \in DirsIn(v), DirsIn(w) = DirsIn(v) \ {n},
           \A m \in DirsIn(w) : EntsOf(w, m) = EntsOf(v, m)
    PROVE  EntsIn(w) = {e \in EntsIn(v) : e[1] # n}
<1>1. ASSUME NEW e
      PROVE  e \in EntsIn(w) <=> e \in EntsIn(v) /\ e[1] # n
  <2>1. e \in EntsIn(w) <=> \E m \in DirsIn(v) \ {n} : e \in EntsOf(v, m)
    BY DEF EntsIn
  <2>2. e \in EntsIn(v) <=> \E m \in DirsIn(v) : e \in EntsOf(v, m)
    BY DEF EntsIn
  <2>3. \A m : e \in EntsOf(v, m) => e[1] = m
    BY EntsAre
  <2> QED
    BY <2>1, <2>2, <2>3
<1> QED
  BY <1>1
\* The inodes have the same links and modes in v and w.
SameLinks(v, w) ==
    /\ DOMAIN w.cur = DOMAIN v.cur
    /\ \A m \in DOMAIN v.cur : w.cur[m].nlinks = v.cur[m].nlinks /\ w.cur[m].mode = v.cur[m].mode

(* A name enters a directory, on a disk that is in order and stays so.       *)
LEMMA NameEntered ==
    ASSUME NEW f, NEW H, NEW R, TableOK(f, H, R), DiskOK(Disk(f)),
           NEW d \in DirsIn(Disk(f)), d \in Inr, R[d] > 0,
           NEW x \in Name, NEW r \in Inr, \A e \in EntsOf(Disk(f), d) : e[2] # x
    PROVE  LET g == AddEntry(f, d, x, r)
           IN  /\ TableOK(g, H, R) /\ Widened(f, g, d) /\ DiskOK(Disk(g))
               /\ SameLinks(Disk(f), Disk(g))
               /\ LiveIn(Disk(g)) = LiveIn(Disk(f)) /\ DirsIn(Disk(g)) = DirsIn(Disk(f))
               /\ \A n \in DirsIn(Disk(f)) \ {d} : HeldBy(Disk(g), n) = HeldBy(Disk(f), n)
               /\ EntsIn(Disk(g)) = EntsIn(Disk(f)) \cup (IF Room(f, d) THEN {<<d, x, r>>} ELSE {})
<1> DEFINE g == AddEntry(f, d, x, r)
           v == Disk(f)
           w == Disk(g)
           S == IF Room(f, d) THEN {<<d, x, r>>} ELSE {}
<1>1. DirOK(v, d)
  BY DEF DiskOK
<1>2. TableOK(g, H, R) /\ Widened(f, g, d) /\ EntsOf(w, d) = EntsOf(v, d) \cup S
  BY <1>1, AddEntryHolds
<1>3. f.zmap \subseteq g.zmap
  <2>1. DOMAIN f = Fields
    BY DEF TableOK, IsFs
  <2> QED
    BY <2>1, AddEntryMarks
<1>4. /\ w.zmap = g.zmap /\ w.body = g.body /\ w.pinned = g.pinned
      /\ v.zmap = f.zmap /\ v.body = f.body /\ v.pinned = f.pinned
      /\ DOMAIN w.cur = DOMAIN v.cur /\ d \in DOMAIN v.cur
  <2>1. DOMAIN w.cur = g.imap \cap Inr /\ DOMAIN v.cur = f.imap \cap Inr /\ g.imap = f.imap
    BY <1>2, CurIs DEF Widened
  <2>2. d \in DOMAIN v.cur
    BY DEF DirsIn, LiveIn
  <2>3. w.zmap = g.zmap /\ w.body = g.body /\ w.pinned = g.pinned
    BY DEF Disk
  <2>4. v.zmap = f.zmap /\ v.body = f.body /\ v.pinned = f.pinned
    BY DEF Disk
  <2> QED
    BY <2>1, <2>2, <2>3, <2>4
<1> HIDE DEF g, S, v, w
<1>5. SameLinks(v, w)
  <2>1. ASSUME NEW m \in DOMAIN v.cur
        PROVE  w.cur[m].nlinks = v.cur[m].nlinks /\ w.cur[m].mode = v.cur[m].mode
    BY <1>2 DEF Widened, v, w
  <2> QED
    BY <1>4, <2>1 DEF SameLinks
<1>6. LiveIn(w) = LiveIn(v) /\ DirsIn(w) = DirsIn(v)
  BY <1>5, LiveSame DEF SameLinks
<1>7. ASSUME NEW n \in DirsIn(w) \ {d}
      PROVE  n \in DirsIn(v) /\ Kept(v, w, n) /\ HeldBy(w, d) \cap HeldBy(v, n) = {}
  <2>1. n \in DirsIn(v) /\ n \in DOMAIN v.cur
    BY <1>6 DEF DirsIn, LiveIn
  <2>2. DirOK(v, n) /\ HeldBy(v, n) \cap HeldBy(v, d) = {}
    BY <1>7, <2>1 DEF DiskOK, v
  <2>3. HeldBy(v, n) \subseteq Blk /\ \A b \in HeldBy(v, n) : b - 1 \in f.zmap
    BY <1>4, <2>2, BlockIsHeld DEF DirOK, Marks
  <2>4. HeldBy(v, n) \subseteq Foreign(f, d)
    BY <2>2, <2>3 DEF Foreign, v
  <2>5. w.cur[n] = v.cur[n]
    BY <1>2, <1>7, <2>1 DEF Widened, v, w
  <2>6. \A b \in HeldBy(v, n) : w.body[b] = v.body[b] /\ b - 1 \in w.zmap
    BY <1>2, <1>3, <1>4, <2>3, <2>4 DEF Widened
  <2>7. HeldBy(w, d) \cap Foreign(f, d) = {}
    BY <1>2 DEF Widened, w
  <2> QED
    BY <2>1, <2>4, <2>5, <2>6, <2>7 DEF Kept
<1>8. DirOK(w, d)
  BY <1>2 DEF Widened, w
<1>9. \A b \in w.pinned : b - 1 \in w.zmap
  <2>1. \A b \in v.pinned : b - 1 \in v.zmap
    BY DEF DiskOK, v
  <2>2. g.pinned = f.pinned
    BY <1>2 DEF Widened
  <2> QED
    BY <1>3, <1>4, <2>1, <2>2
<1>10. /\ DiskOK(w)
       /\ \A n \in DirsIn(w) \ {d} : EntsOf(w, n) = EntsOf(v, n) /\ HeldBy(w, n) = HeldBy(v, n)
  <2>1. DiskOK(v)
    BY DEF v
  <2>2. \A n \in DirsIn(w) \ {d} : n \in DirsIn(v) /\ Kept(v, w, n)
    BY <1>7
  <2>3. d \in DirsIn(w) => /\ DirOK(w, d)
                           /\ \A n \in DirsIn(w) \ {d} : HeldBy(w, d) \cap HeldBy(v, n) = {}
    BY <1>7, <1>8
  <2> QED
    BY <1>9, <2>1, <2>2, <2>3, DiskFrame
<1>11. EntsIn(w) = EntsIn(v) \cup S
  <2>1. d \in DirsIn(v)
    BY DEF v
  <2>2. \A n \in DirsIn(v) \ {d} : EntsOf(w, n) = EntsOf(v, n)
    BY <1>6, <1>10
  <2>3. EntsOf(w, d) = EntsOf(v, d) \cup S
    BY <1>2 DEF v, w
  <2> QED
    BY <1>6, <2>1, <2>2, <2>3, EntsInMore
<1> QED
  BY <1>2, <1>5, <1>6, <1>10, <1>11 DEF g, S, v, w

(* The entry t is gone from the disk of g, which is in order.                *)
NameGone(f, g, t) ==
    /\ DiskOK(Disk(g)) /\ Disk(g).cur = Disk(f).cur
    /\ LiveIn(Disk(g)) = LiveIn(Disk(f)) /\ DirsIn(Disk(g)) = DirsIn(Disk(f))
    /\ t \in EntsIn(Disk(f)) /\ EntsIn(Disk(g)) = EntsIn(Disk(f)) \ {t}

\* The name goes from the disk, and nothing else does.
LEMMA NameDropped ==
    ASSUME NEW f, NEW H, NEW R, TableOK(f, H, R), DiskOK(Disk(f)),
           NEW d \in DirsIn(Disk(f)), d \in Inr, R[d] > 0,
           NEW x, x \notin Dotted, NEW r, r = Child(f, d, x, TRUE), r # 0
    PROVE  LET g == DropEntry(f, d, x)
           IN  /\ TableOK(g, H, R) /\ Dropped(f, g, d, <<d, x, r>>)
               /\ NameGone(f, g, <<d, x, r>>)
<1> DEFINE g == DropEntry(f, d, x)
           v == Disk(f)
           w == Disk(g)
           t == <<d, x, r>>
<1>1. DirOK(v, d)
  BY DEF DiskOK
<1>2. /\ TableOK(g, H, R) /\ Dropped(f, g, d, t) /\ w.cur = v.cur
      /\ t \in EntsOf(v, d) /\ EntsOf(w, d) = EntsOf(v, d) \ {t}
  <2>1. DirOK(Disk(f), d) /\ d \in Inr /\ R[d] > 0 /\ x \notin Dotted
    BY <1>1
  <2>2. TableOK(DropEntry(f, d, x), H, R) /\ Dropped(f, DropEntry(f, d, x), d, <<d, x, r>>)
    BY Zenon, <2>1, DropEntryHolds
  <2>3. TableOK(g, H, R) /\ Dropped(f, g, d, t)
    BY <2>2
  <2> HIDE DEF g, t
  <2>4. w.cur = v.cur
    BY <2>3, TableKept DEF Dropped
  <2> QED
    BY <2>3, <2>4 DEF Dropped
<1>3. /\ w.zmap = v.zmap /\ w.body = g.body /\ w.pinned = v.pinned /\ v.body = f.body
      /\ DirOK(w, d) /\ HeldBy(w, d) = HeldBy(v, d)
      /\ \A b \in Blk \ HeldBy(v, d) : w.body[b] = v.body[b]
  <2>1. w.zmap = g.zmap /\ w.body = g.body /\ w.pinned = g.pinned
    BY DEF Disk
  <2>2. v.zmap = f.zmap /\ v.body = f.body /\ v.pinned = f.pinned
    BY DEF Disk
  <2> QED
    BY <1>2, <2>1, <2>2 DEF Dropped
<1> HIDE DEF g, v, w, t
<1>4. LiveIn(w) = LiveIn(v) /\ DirsIn(w) = DirsIn(v)
  BY <1>2, LiveSame
<1>5. ASSUME NEW n \in DirsIn(w) \ {d}
      PROVE  n \in DirsIn(v) /\ Kept(v, w, n) /\ HeldBy(w, d) \cap HeldBy(v, n) = {}
  <2>1. n \in DirsIn(v)
    BY <1>4
  <2>2. DirOK(v, n) /\ HeldBy(v, n) \cap HeldBy(v, d) = {}
    BY <1>5, <2>1 DEF DiskOK, v
  <2>3. HeldBy(v, n) \subseteq Blk /\ \A b \in HeldBy(v, n) : b - 1 \in v.zmap
    BY <2>2, BlockIsHeld DEF DirOK, Marks
  <2>4. HeldBy(v, n) \subseteq Blk \ HeldBy(v, d)
    BY <2>2, <2>3
  <2> QED
    BY <1>2, <1>3, <2>1, <2>2, <2>3, <2>4 DEF Kept
<1>6. /\ DiskOK(w)
      /\ \A n \in DirsIn(w) \ {d} : EntsOf(w, n) = EntsOf(v, n) /\ HeldBy(w, n) = HeldBy(v, n)
  <2>1. DiskOK(v)
    BY DEF v
  <2>2. \A n \in DirsIn(w) \ {d} : n \in DirsIn(v) /\ Kept(v, w, n)
    BY <1>5
  <2>3. d \in DirsIn(w) => /\ DirOK(w, d)
                           /\ \A n \in DirsIn(w) \ {d} : HeldBy(w, d) \cap HeldBy(v, n) = {}
    BY <1>3, <1>5
  <2>4. \A b \in w.pinned : b - 1 \in w.zmap
    BY <1>3, <2>1 DEF DiskOK
  <2> QED
    BY <2>1, <2>2, <2>3, <2>4, DiskFrame
<1>7. t \in EntsIn(v) /\ EntsIn(w) = EntsIn(v) \ {t}
  <2>1. d \in DirsIn(v) /\ t[1] = d
    BY DEF v, t
  <2>2. \A n \in DirsIn(v) \ {d} : EntsOf(w, n) = EntsOf(v, n)
    BY <1>4, <1>6
  <2>3. EntsIn(w) = EntsIn(v) \ {t}
    BY <1>2, <1>4, <2>1, <2>2, EntsInLess
  <2>4. t \in EntsIn(v)
    BY <1>2, <2>1 DEF EntsIn
  <2> QED
    BY <2>3, <2>4
<1>8. NameGone(f, g, t)
  BY <1>2, <1>4, <1>6, <1>7 DEF NameGone, v, w
<1> QED
  BY <1>2, <1>8 DEF g, t

-----------------------------------------------------------------------------
(* The table between the steps of a call.                                    *)

\* Keeping an inode, and keeping it no more.
LEMMA KeepIs ==
    ASSUME NEW R \in [Inr -> Nat], NEW n \in Inr
    PROVE  /\ Hold(R, n) \in [Inr -> Nat] /\ Hold(R, n)[n] = R[n] + 1 /\ Hold(R, n)[n] > 0
           /\ \A m \in Inr \ {n} : Hold(R, n)[m] = R[m] /\ Less(R, n)[m] = R[m]
           /\ \A m \in Inr : Hold(R, n)[m] >= R[m]
BY DEF Hold, Less

\* A call that has ended keeps no inode.
LEMMA ZeroIs == Zero \in [Inr -> Nat] /\ \A n \in Inr : Zero[n] = 0
BY DEF Zero

\* What is kept more often is kept.
LEMMA TableLess ==
    ASSUME NEW f, NEW H, NEW R, TableOK(f, H, R),
           NEW R2 \in [Inr -> Nat], \A m \in Inr : R2[m] <= R[m]
    PROVE  TableOK(f, H, R2)
<1>1. R \in [Inr -> Nat] /\ H \in [Slot -> Nat]
  BY DEF TableOK
<1>2. ASSUME NEW s \in Slot
      PROVE  EntryOK(f, H, R2, s)
  <2>1. EntryOK(f, H, R, s) /\ f.table[s].num \in {0} \cup Inr /\ f.table[s].cnt \in Nat
    BY EntryIsTyped DEF TableOK
  <2>2. f.table[s].num # 0 => R2[f.table[s].num] <= R[f.table[s].num]
          /\ R2[f.table[s].num] \in Nat /\ R[f.table[s].num] \in Nat
    BY <1>1, <2>1
  <2>3. f.table[s].cnt >= H[s] + (IF f.table[s].num = 0 THEN 0 ELSE R2[f.table[s].num])
    BY <1>1, <2>1, <2>2 DEF EntryOK
  <2>4. /\ f.table[s].num = 0 => f.table[s].cnt = 0
        /\ f.table[s].cnt > 0 /\ f.table[s].node.nlinks = 0 => R[f.table[s].num] = 0
    BY <2>1 DEF EntryOK
  <2>5. f.table[s].cnt > 0 /\ f.table[s].node.nlinks = 0 => R2[f.table[s].num] = 0
    BY <2>1, <2>2, <2>4
  <2> QED
    BY <2>1, <2>3, <2>5 DEF EntryOK
<1>3. \A m \in Inr : R2[m] > 0 => R[m] > 0
  BY <1>1
<1> QED
  BY <1>2, <1>3 DEF TableOK

\* A table that is good while a call keeps inodes is good without what it keeps.
LEMMA TableZero ==
    ASSUME NEW f, NEW H, NEW R, TableOK(f, H, R)
    PROVE  TableOK(f, H, Zero)
<1>1. R \in [Inr -> Nat]
  BY DEF TableOK
<1>2. \A m \in Inr : Zero[m] <= R[m]
  BY <1>1, ZeroIs
<1> QED
  BY <1>2, ZeroIs, TableLess

\* A descriptor keeps what the call has kept.
LEMMA HandedOver ==
    ASSUME NEW f, NEW H, NEW R, TableOK(f, H, R), NEW n \in Inr, R[n] > 0,
           NEW H2, H2 = Hold(H, Entry(f, n))
    PROVE  TableOK(f, H2, Zero) /\ Entry(f, n) \in Slot
<1> DEFINE s == Entry(f, n)
<1>1. /\ s \in Slot /\ f.table[s].num = n /\ n # 0
      /\ f.table[s].cnt \in Nat /\ f.table[s].cnt >= H[s] + R[n] /\ H[s] \in Nat /\ R[n] \in Nat
  BY HeldIs
<1>2. H \in [Slot -> Nat] /\ R \in [Inr -> Nat] /\ Zero \in [Inr -> Nat]
  BY ZeroIs DEF TableOK
<1> HIDE DEF s
<1>3. H2 \in [Slot -> Nat] /\ H2[s] = H[s] + 1 /\ \A t \in Slot \ {s} : H2[t] = H[t]
  BY <1>1, <1>2 DEF s, Hold
<1>4. ASSUME NEW t \in Slot
      PROVE  EntryOK(f, H2, Zero, t)
  <2>1. EntryOK(f, H, R, t) /\ f.table[t].num \in {0} \cup Inr /\ f.table[t].cnt \in Nat
    BY EntryIsTyped DEF TableOK
  <2>2. f.table[t].num # 0 => Zero[f.table[t].num] = 0
    BY <2>1, ZeroIs
  <2>3. f.table[t].cnt >= H2[t]
    <3>1. CASE t = s
      BY <1>1, <1>3, <3>1
    <3>2. CASE t # s
      <4>1. H2[t] = H[t] /\ H[t] \in Nat
        BY <1>2, <1>3, <3>2
      <4>2. f.table[t].num # 0 => R[f.table[t].num] \in Nat
        BY <1>2, <2>1
      <4> QED
        BY <2>1, <4>1, <4>2 DEF EntryOK
    <3> QED
      BY <3>1, <3>2
  <2>4. f.table[t].cnt >= H2[t] + (IF f.table[t].num = 0 THEN 0 ELSE Zero[f.table[t].num])
    BY <1>3, <2>1, <2>2, <2>3
  <2>5. f.table[t].cnt > 0 => Zero[f.table[t].num] = 0
    BY <2>1, <2>2 DEF EntryOK
  <2> QED
    BY <2>1, <2>4, <2>5 DEF EntryOK
<1>5. \A m \in Inr : ~(Zero[m] > 0)
  BY ZeroIs
<1> QED
  BY <1>1, <1>2, <1>3, <1>4, <1>5 DEF TableOK, s

\* The same entry has an inode as long as no entry gets another one.
LEMMA SameEntry ==
    ASSUME NEW f, NEW g, \A t \in Slot : g.table[t].num = f.table[t].num
    PROVE  \A n : Entry(g, n) = Entry(f, n)
BY DEF Entry

\* Putting back one inode leaves the entries of the others.
LEMMA PutBackTable ==
    ASSUME NEW f, NEW H, NEW R, TableOK(f, H, R), NEW d \in Inr, R[d] > 0
    PROVE  /\ \A t \in Slot \ {Entry(f, d)} : PutBack(f, d).table[t] = f.table[t]
           /\ \A n : Entry(PutBack(f, d), n) = Entry(f, n)
           /\ PutBack(f, d).imap = f.imap
<1> DEFINE s == Entry(f, d)
           g == Iput(f, s)
<1>1. /\ s \in Slot /\ f.table[s].num = d /\ f.table[s].cnt > 0 /\ f.table[s].node.nlinks > 0
  BY HeldIs
<1>2. IsFs(f) /\ f.table[s].node.nlinks # 0
  BY <1>1, EntryIsTyped DEF TableOK
<1> HIDE DEF s
<1>3. /\ \A t \in Slot \ {s} : g.table[t] = f.table[t]
      /\ g.table[s] = [num |-> f.table[s].num, cnt |-> f.table[s].cnt - 1, dirt |-> FALSE,
                       node |-> f.table[s].node]
      /\ g.imap = f.imap
  BY Zenon, <1>1, <1>2, IputKeeps
<1>4. g.table[s].num = f.table[s].num
  BY <1>3
<1>5. \A t \in Slot : g.table[t].num = f.table[t].num
  BY <1>3, <1>4
<1>6. \A n : Entry(g, n) = Entry(f, n)
  BY <1>5, SameEntry
<1> QED
  BY <1>3, <1>6 DEF PutBack, s, g

\* An inode gets another node.
LEMMA NodeSet ==
    ASSUME NEW f, IsFs(f), NEW s \in Slot, NEW nd \in Node
    PROVE  NodeSetTo(f, [f EXCEPT !.table[s].node = nd], s, nd, f.table[s].dirt)
<1> DEFINE e == f.table[s]
           g == [f EXCEPT !.table[s].node = nd]
           e1 == [num |-> e.num, cnt |-> e.cnt, dirt |-> e.dirt, node |-> nd]
           e2 == [e EXCEPT !.node = nd]
<1>1. e \in TabEntry
  BY DEF IsFs
<1>2. e2 = e1
  BY <1>1 DEF TabEntry
<1>3. e1 \in TabEntry
  BY <1>1 DEF TabEntry
<1>4. e1.num = e.num /\ e1.cnt = e.cnt /\ e1.dirt = e.dirt /\ e1.node = nd
  OBVIOUS
<1>5. g = [f EXCEPT !.table = [f.table EXCEPT ![s] = e2]]
  OBVIOUS
<1> HIDE DEF e1, e2, g
<1>6. Sets(f, g, s, e1)
  BY <1>2, <1>3, <1>5, TableSet
<1>7. NodeSetTo(f, g, s, nd, e.dirt)
  BY <1>4, <1>6 DEF Sets, NodeSetTo
<1> QED
  BY <1>7 DEF g

(* An inode that is kept gets another number of links and is put back.       *)
Relinked(f, g, n, x) ==
    /\ Disk(g).cur = With(Disk(f).cur, n, Linked(Disk(f).cur[n], x))
    /\ g.imap = f.imap /\ g.zmap = f.zmap /\ g.body = f.body
    /\ g.pinned = f.pinned /\ g.status = f.status
    /\ \A t \in Slot \ {Entry(f, n)} : g.table[t] = f.table[t]
    /\ \A m : Entry(g, m) = Entry(f, m)

\* Changing the link count of an inode and putting it back: the table stays good, the disk has the new count.
LEMMA RelinkHolds ==
    ASSUME NEW f, NEW H, NEW R, TableOK(f, H, R), NEW n \in Inr, R[n] > 0,
           NEW c \in Int, NEW x \in 0 .. NrLinks - 1, x = Disk(f).cur[n].nlinks + c,
           \/ x > 0
           \/ Mem(f, n).cnt = 1
           \/ Mem(f, n).node.mode # "dir" /\ R[n] = 1
    PROVE  TableOK(PutBack(Links(f, n, c), n), H, Less(R, n))
           /\ Relinked(f, PutBack(Links(f, n, c), n), n, x)
<1> DEFINE s == Entry(f, n)
           f2 == Links(f, n, c)
           nd == Linked(f.table[s].node, x)
           R2 == Less(R, n)
           g == Iput(f2, s)
<1>1. /\ s \in Slot /\ f.table[s].num = n /\ n # 0
      /\ f.table[s].cnt > 0 /\ f.table[s].cnt \in Nat
      /\ f.table[s].cnt >= H[s] + R[n] /\ H[s] \in Nat /\ R[n] \in Nat
      /\ Disk(f).cur[n] = f.table[s].node
      /\ R2 \in [Inr -> Nat] /\ R2[n] = R[n] - 1
      /\ \A m \in Inr \ {n} : R2[m] = R[m]
  BY HeldIs DEF Mem
<1>2. H \in [Slot -> Nat] /\ R \in [Inr -> Nat] /\ IsFs(f) /\ f.table[s].node \in Node
  BY <1>1, EntryIsTyped DEF TableOK
<1>3. KeptLess(f, H, R, s, H, R2)
  BY <1>1, <1>2 DEF KeptLess
<1>4. x = f.table[s].node.nlinks + c
  BY <1>1
<1>5. NodeSetTo(f, f2, s, nd, TRUE)
  <2>1. f.table[s].node.nlinks + c \in 0 .. NrLinks - 1
    BY <1>4
  <2>2. NodeSetTo(f, f2, s, Linked(f.table[s].node, f.table[s].node.nlinks + c), TRUE)
    BY Zenon, <1>1, <1>2, <2>1, LinksIs
  <2> QED
    BY Zenon, <1>4, <2>2
<1>6. nd.nlinks = x /\ nd.mode = f.table[s].node.mode
  BY Zenon, <1>2, LinkedIs
<1> HIDE DEF f2, nd, R2, s
<1>7. ChangedAt(f, f2, s)
  <2>1. /\ f2.table[s].node = nd /\ f2.table[s].cnt = f.table[s].cnt
        /\ f2.table[s].dirt /\ f2.table[s].num = n
    BY <1>1, <1>5 DEF NodeSetTo
  <2>2. x > 0 \/ f.table[s].cnt = 1 \/ (f.table[s].node.mode # "dir" /\ f.table[s].cnt > 1)
    BY <1>1 DEF Mem, s
  <2>3. \/ f2.table[s].node.nlinks > 0
        \/ f2.table[s].dirt /\ f2.table[s].cnt = 1
        \/ f2.table[s].node.mode # "dir" /\ f2.table[s].cnt > 1
    BY <1>6, <2>1, <2>2
  <2> QED
    BY <1>1, <1>5, <2>3 DEF ChangedAt, NodeSetTo
<1>a. f2.table[s].node.nlinks > 0 \/ R2[f.table[s].num] = 0
  <2>1. x > 0 \/ R2[n] = 0
    <3>1. f.table[s].cnt = 1 \/ R[n] = 1 => R2[n] = 0
      BY <1>1
    <3> QED
      BY <3>1 DEF Mem, s
  <2> QED
    BY <1>1, <1>5, <1>6, <2>1 DEF NodeSetTo
<1>8. /\ TableOK(g, H, R2)
      /\ Disk(g).cur = With(Disk(f).cur, f.table[s].num, f2.table[s].node)
      /\ g.imap = f.imap /\ g.zmap = f2.zmap /\ g.body = f2.body
      /\ g.pinned = f.pinned /\ g.status = f2.status
      /\ \A t \in Slot \ {s} : g.table[t] = f.table[t]
      /\ g.table[s].num = f.table[s].num
  BY <1>3, <1>7, <1>a, PutChanged
<1>9. f2.zmap = f.zmap /\ f2.body = f.body /\ f2.status = f.status /\ f2.table[s].node = nd
      /\ f2.table[s].num = f.table[s].num /\ \A t \in Slot \ {s} : f2.table[t] = f.table[t]
  BY <1>5 DEF NodeSetTo
<1>10. (\A m : Entry(g, m) = Entry(f, m)) /\ Entry(f2, n) = s
  <2>1. \A t \in Slot : g.table[t].num = f.table[t].num /\ f2.table[t].num = f.table[t].num
    BY <1>8, <1>9
  <2> QED
    BY Zenon, <2>1, SameEntry DEF s
<1>11. PutBack(f2, n) = g
  BY <1>10 DEF PutBack
<1> HIDE DEF g
<1>12. Relinked(f, g, n, x)
  BY <1>1, <1>8, <1>9, <1>10 DEF Relinked, nd, s
<1> QED
  BY <1>8, <1>11, <1>12 DEF f2, R2
(* A new inode that gets no name is put back, without links: its number is    *)
(* free again once the table entry is, but the map keeps its bit.            *)
LEMMA AbandonHolds ==
    ASSUME NEW f, NEW H, NEW R, TableOK(f, H, R), NEW n \in Inr, R[n] > 0,
           Mem(f, n).cnt = 1, Mem(f, n).dirt
    PROVE  TableOK(Abandon(f, n), H, Less(R, n)) /\ Relinked(f, Abandon(f, n), n, 0)
<1> DEFINE s == Entry(f, n)
           nd == Linked(f.table[s].node, 0)
           f2 == [f EXCEPT !.table[s].node = nd]
           R2 == Less(R, n)
           g == Iput(f2, s)
<1>1. /\ s \in Slot /\ f.table[s].num = n /\ n # 0
      /\ f.table[s].cnt > 0 /\ f.table[s].cnt \in Nat
      /\ f.table[s].cnt >= H[s] + R[n] /\ H[s] \in Nat /\ R[n] \in Nat
      /\ Disk(f).cur[n] = f.table[s].node
      /\ R2 \in [Inr -> Nat] /\ R2[n] = R[n] - 1
      /\ \A m \in Inr \ {n} : R2[m] = R[m]
  BY HeldIs DEF Mem
<1>2. H \in [Slot -> Nat] /\ R \in [Inr -> Nat] /\ IsFs(f) /\ f.table[s].node \in Node
  BY <1>1, EntryIsTyped DEF TableOK
<1>3. KeptLess(f, H, R, s, H, R2)
  BY <1>1, <1>2 DEF KeptLess
<1>4. f.table[s].cnt = 1 /\ f.table[s].dirt
  BY DEF Mem
<1>5. Abandon(f, n) = PutBack(f2, n)
  BY DEF Abandon, Linked
<1>6. nd \in Node
  <2>1. 0 \in 0 .. NrLinks - 1
    BY InodesAssumption
  <2> QED
    BY <1>2, <2>1, LinkedIs
<1> HIDE DEF f2, nd, R2, s
<1>7. NodeSetTo(f, f2, s, nd, f.table[s].dirt)
  BY Zenon, <1>1, <1>2, <1>6, NodeSet DEF f2
<1>8. ChangedAt(f, f2, s)
  BY <1>1, <1>4, <1>7 DEF ChangedAt, NodeSetTo
<1>a. R2[f.table[s].num] = 0
  BY <1>1, <1>4
<1>9. /\ TableOK(g, H, R2)
      /\ Disk(g).cur = With(Disk(f).cur, f.table[s].num, f2.table[s].node)
      /\ g.imap = f.imap /\ g.zmap = f2.zmap /\ g.body = f2.body
      /\ g.pinned = f.pinned /\ g.status = f2.status
      /\ \A t \in Slot \ {s} : g.table[t] = f.table[t]
      /\ g.table[s].num = f.table[s].num
  BY <1>3, <1>8, <1>a, PutChanged
<1>10. f2.zmap = f.zmap /\ f2.body = f.body /\ f2.status = f.status /\ f2.table[s].node = nd
       /\ f2.table[s].num = f.table[s].num /\ \A t \in Slot \ {s} : f2.table[t] = f.table[t]
  BY <1>7 DEF NodeSetTo
<1>11. (\A m : Entry(g, m) = Entry(f, m)) /\ Entry(f2, n) = s
  <2>1. \A t \in Slot : g.table[t].num = f.table[t].num /\ f2.table[t].num = f.table[t].num
    BY <1>9, <1>10
  <2> QED
    BY <2>1, SameEntry DEF s
<1>12. PutBack(f2, n) = g
  BY <1>11 DEF PutBack
<1> HIDE DEF g
<1>13. Relinked(f, g, n, 0)
  BY <1>1, <1>9, <1>10, <1>11 DEF Relinked, nd, s
<1> QED
  BY <1>5, <1>9, <1>12, <1>13 DEF R2

-----------------------------------------------------------------------------
(* The tree of names on the disk.                                            *)

Plain(ents) == {e \in ents : e[2] \notin Dotted}

\* As NewName of Tree.
Names2(D, N, N2, t) ==
    /\ t[1] \in D /\ t[2] \in Name /\ t[3] \in Inr
    /\ ~ \E u \in N : u[1] = t[1] /\ u[2] = t[2]
    /\ N2 = N \cup {t}

\* A step of Tree, or none, from directories D and names N to D2 and N2.
Moves(D, N, D2, N2) ==
    \/ D2 = D /\ N2 = N
    \/ \E t \in N2 \ N :
          /\ Names2(D, N, N2, t)
          /\ \/ t[3] \notin D /\ (\A u \in N : u[3] # t[3]) /\ D2 \in {D, D \cup {t[3]}}
             \/ t[3] \notin D /\ (\E u \in N : u[3] = t[3]) /\ D2 = D
    \/ \E t \in N \ N2 :
          /\ N2 = N \ {t}
          /\ \/ t[3] \notin D /\ D2 = D
             \/ t[3] \in D \ {Root, RootDir} /\ (\A u \in N : u[1] # t[3]) /\ D2 = D \ {t[3]}

Leads(v, w) == Moves(DirsIn(v), Plain(EntsIn(v)), DirsIn(w), Plain(EntsIn(w)))

\* FS goes on with a tree on its disk.
Fine(f, H, R) == TableOK(f, H, R) /\ f.status = "ok" /\ DiskOK(Disk(f)) /\ Tree(Disk(f))

\* What the disk has, as FS sees it: the marked inodes, and directories among the live ones.
LEMMA FineIs ==
    ASSUME NEW f, NEW H, NEW R, Fine(f, H, R)
    PROVE  /\ DOMAIN Disk(f).cur = f.imap \cap Inr
           /\ Disk(f).zmap = f.zmap /\ Disk(f).body = f.body /\ Disk(f).pinned = f.pinned
           /\ DirsIn(Disk(f)) \subseteq LiveIn(Disk(f)) /\ LiveIn(Disk(f)) \subseteq DOMAIN Disk(f).cur
           /\ LiveIn(Disk(f)) \subseteq Inr
           /\ DOMAIN f = Fields
<1>1. TableOK(f, H, R)
  BY DEF Fine
<1>2. DOMAIN Disk(f).cur = f.imap \cap Inr
  BY <1>1, CurIs
<1> QED
  BY <1>1, <1>2 DEF Disk, DirsIn, LiveIn, TableOK, IsFs

\* The tree is the same.
LEMMA TreeStays ==
    ASSUME NEW v, NEW w, Tree(v), LiveIn(w) = LiveIn(v), DirsIn(w) = DirsIn(v), EntsIn(w) = EntsIn(v),
           \A n \in LiveIn(v) : w.cur[n].nlinks = v.cur[n].nlinks
    PROVE  Tree(w) /\ Leads(v, w)
<1> DEFINE c1 == [n \in DOMAIN v.cur |-> v.cur[n].nlinks]
           c2 == [n \in DOMAIN w.cur |-> w.cur[n].nlinks]
<1>1. \A n \in LiveIn(v) : c2[n] = c1[n]
  <2>1. LiveIn(v) \subseteq DOMAIN v.cur /\ LiveIn(w) \subseteq DOMAIN w.cur
    BY DEF LiveIn
  <2> QED
    BY <2>1
<1>2. TreeOK(LiveIn(v), DirsIn(v), EntsIn(v), c1)
  BY DEF Tree
<1> HIDE DEF c1, c2
<1>3. TreeOK(LiveIn(v), DirsIn(v), EntsIn(v), c2)
  BY <1>1, <1>2, TreeSame
<1>4. Tree(w)
  BY <1>3 DEF Tree, c2
<1>5. Leads(v, w)
  BY DEF Leads, Moves
<1> QED
  BY <1>4, <1>5

\* A disk whose directories are some of those of v, unchanged.
LEMMA DiskStays ==
    ASSUME NEW v, DiskOK(v), NEW w, DOMAIN w.cur \subseteq Inr,
           \A n \in DirsIn(w) : n \in DirsIn(v) /\ Kept(v, w, n),
           \A b \in w.pinned : b - 1 \in w.zmap
    PROVE  /\ DiskOK(w)
           /\ \A n \in DirsIn(w) : EntsOf(w, n) = EntsOf(v, n) /\ HeldBy(w, n) = HeldBy(v, n)
           /\ EntsIn(w) = {e \in EntsIn(v) : e[1] \in DirsIn(w)}
<1>1. 0 \notin DirsIn(w)
  BY DEF DirsIn, LiveIn, Inr
<1>2. /\ DiskOK(w)
      /\ \A n \in DirsIn(w) \ {0} : EntsOf(w, n) = EntsOf(v, n) /\ HeldBy(w, n) = HeldBy(v, n)
  BY <1>1, DiskFrame
<1>3. \A n \in DirsIn(w) : EntsOf(w, n) = EntsOf(v, n) /\ HeldBy(w, n) = HeldBy(v, n)
  BY <1>1, <1>2
<1>4. ASSUME NEW e
      PROVE  e \in EntsIn(w) <=> e \in EntsIn(v) /\ e[1] \in DirsIn(w)
  <2>1. e \in EntsIn(w) <=> \E n \in DirsIn(w) : e \in EntsOf(v, n)
    BY <1>3 DEF EntsIn
  <2>2. e \in EntsIn(v) <=> \E n \in DirsIn(v) : e \in EntsOf(v, n)
    BY DEF EntsIn
  <2>3. \A n : e \in EntsOf(v, n) => e[1] = n
    BY EntsAre
  <2> QED
    BY <2>1, <2>2, <2>3
<1> QED
  BY <1>2, <1>3, <1>4

-----------------------------------------------------------------------------
(* What happens to the tree is a step of Tree.                               *)

\* A new file, or a new directory with its own two entries.
LEMMA NewMoves ==
    ASSUME NEW live, NEW dirs, NEW ents, NEW c, TreeOK(live, dirs, ents, c),
           NEW n \in Inr, n \notin live, NEW d \in dirs, NEW x \in Name \ Dotted,
           \A e \in ents : e[1] = d => e[2] # x,
           NEW own, \A e \in own : e[2] \in Dotted,
           NEW dirs2 \in {dirs, dirs \cup {n}}
    PROVE  Moves(dirs, Plain(ents), dirs2, Plain((ents \cup own) \cup {<<d, x, n>>}))
<1> DEFINE t == <<d, x, n>>
           N == Plain(ents)
           N2 == Plain((ents \cup own) \cup {t})
<1>1. t[1] = d /\ t[2] = x /\ t[3] = n
  OBVIOUS
<1> HIDE DEF t
<1>2. N2 = N \cup {t}
  BY <1>1 DEF Plain
<1>3. ~ \E u \in N : u[1] = d /\ u[2] = x
  BY DEF Plain
<1>4. t \in N2 \ N
  BY Zenon, <1>1, <1>2, <1>3
<1>5. n \notin dirs /\ \A u \in N : u[3] # n
  <2>1. dirs \subseteq live /\ ents \subseteq dirs \X Name \X live
    BY DEF TreeOK
  <2> QED
    BY <2>1 DEF Plain
<1>6. Names2(dirs, N, N2, t)
  BY Zenon, <1>1, <1>2, <1>3 DEF Names2
<1> HIDE DEF N, N2
<1>7. Moves(dirs, N, dirs2, N2)
  BY <1>1, <1>4, <1>5, <1>6 DEF Moves
<1> QED
  BY <1>7 DEF N, N2, t

\* A second name for a file is a step of Tree.
LEMMA LinkMoves ==
    ASSUME NEW live, NEW dirs, NEW ents, NEW c, TreeOK(live, dirs, ents, c),
           NEW n \in Inr, n \in live \ dirs, c[n] > 0, NEW d \in dirs, NEW x \in Name \ Dotted,
           \A e \in ents : e[1] = d => e[2] # x
    PROVE  Moves(dirs, Plain(ents), dirs, Plain(ents \cup {<<d, x, n>>}))
<1> DEFINE t == <<d, x, n>>
           N == Plain(ents)
           N2 == Plain(ents \cup {t})
<1>1. t[1] = d /\ t[2] = x /\ t[3] = n
  OBVIOUS
<1> HIDE DEF t
<1>2. N2 = N \cup {t}
  BY <1>1 DEF Plain
<1>3. ~ \E u \in N : u[1] = d /\ u[2] = x
  BY DEF Plain
<1>4. t \in N2 \ N
  BY Zenon, <1>1, <1>2, <1>3
<1>5. \E u \in N : u[3] = n
  <2>1. c[n] = Cardinality(To(ents, n))
    BY Zenon DEF TreeOK, Counted, To
  <2>2. To(ents, n) # {}
    BY <2>1, FS_EmptySet
  <2>3. PICK u \in ents : u[3] = n
    BY <2>2 DEF To
  <2>4. u[2] \notin Dotted
    BY <2>3 DEF TreeOK
  <2> QED
    BY <2>3, <2>4 DEF Plain
<1>6. Names2(dirs, N, N2, t)
  BY <1>1, <1>2, <1>3 DEF Names2
<1> HIDE DEF N, N2
<1>7. Moves(dirs, N, dirs, N2)
  BY <1>1, <1>4, <1>5, <1>6 DEF Moves
<1> QED
  BY <1>7 DEF N, N2, t

\* A file that loses a name is a step of Tree.
LEMMA UnlinkMoves ==
    ASSUME NEW live, NEW dirs, NEW ents, NEW c, TreeOK(live, dirs, ents, c),
           NEW d, NEW x, x \notin Dotted, NEW n, n \notin dirs, <<d, x, n>> \in ents
    PROVE  Moves(dirs, Plain(ents), dirs, Plain(ents \ {<<d, x, n>>}))
<1> DEFINE t == <<d, x, n>>
           N == Plain(ents)
           N2 == Plain(ents \ {t})
<1>1. t[2] = x /\ t[3] = n
  OBVIOUS
<1> HIDE DEF t
<1>2. N2 = N \ {t} /\ t \in N \ N2
  BY <1>1 DEF Plain, t
<1> HIDE DEF N, N2
<1>3. Moves(dirs, N, dirs, N2)
  BY <1>1, <1>2 DEF Moves
<1> QED
  BY <1>3 DEF N, N2, t

\* A directory that is removed is a step of Tree.
LEMMA RmdirMoves ==
    ASSUME NEW live, NEW dirs, NEW ents, NEW c, TreeOK(live, dirs, ents, c),
           NEW d, NEW x, x \notin Dotted, NEW n \in dirs \ {Root, RootDir}, n # d,
           <<d, x, n>> \in ents, \A e \in ents : e[1] = n => e[2] \in Dotted
    PROVE  Moves(dirs, Plain(ents), dirs \ {n},
                 Plain({e \in ents : e[1] # n /\ e # <<d, x, n>>}))
<1> DEFINE t == <<d, x, n>>
           N == Plain(ents)
           N2 == Plain({e \in ents : e[1] # n /\ e # t})
<1>1. t[2] = x /\ t[3] = n /\ t[1] = d
  OBVIOUS
<1> HIDE DEF t
<1>2. N2 = N \ {t} /\ t \in N \ N2
  BY <1>1 DEF Plain, t
<1>3. \A u \in N : u[1] # n
  BY DEF Plain
<1> HIDE DEF N, N2
<1>4. Moves(dirs, N, dirs \ {n}, N2)
  BY <1>1, <1>2, <1>3 DEF Moves
<1> QED
  BY <1>4 DEF N, N2, t
-----------------------------------------------------------------------------
(* New inodes.                                                               *)

\* A dirty inode that is kept gets another node.
WithNode(f, n, nd) == [f EXCEPT !.table[Entry(f, n)].node = nd]
Renoded(f, g, n, nd) ==
    /\ NodeSetTo(f, g, Entry(f, n), nd, TRUE)
    /\ Disk(g).cur = With(Disk(f).cur, n, nd)
    /\ \A m : Entry(g, m) = Entry(f, m)

\* Changing a dirty inode that is kept leaves the table good and changes that inode only.
LEMMA NodeChanged ==
    ASSUME NEW f, NEW H, NEW R, TableOK(f, H, R), NEW n \in Inr, R[n] > 0, Mem(f, n).dirt,
           NEW nd \in Node, nd.nlinks > 0,
           NEW g, g = WithNode(f, n, nd)
    PROVE  TableOK(g, H, R) /\ Renoded(f, g, n, nd)
<1> DEFINE s == Entry(f, n)
<1>1. s \in Slot /\ f.table[s].num = n /\ n # 0 /\ f.table[s].cnt > 0
  BY HeldIs
<1>2. IsFs(f) /\ f.table[s].dirt /\ f.pinned \in SUBSET Blk
  BY DEF TableOK, Mem
<1> HIDE DEF s
<1>3. NodeSetTo(f, g, s, nd, TRUE)
  <2>1. NodeSetTo(f, [f EXCEPT !.table[s].node = nd], s, nd, f.table[s].dirt)
    BY Zenon, <1>1, <1>2, NodeSet
  <2>2. f.table[s].dirt = TRUE
    BY <1>1, <1>2, EntryIsTyped
  <2> QED
    BY Zenon, <2>1, <2>2 DEF s, WithNode
<1>4. TableOK(g, H, R) /\ Disk(g).cur = With(Disk(f).cur, f.table[s].num, g.table[s].node)
  <2>1. IsFs(g) /\ g.imap = f.imap /\ g.dev = f.dev /\ g.pinned \in SUBSET Blk
    BY <1>2, <1>3 DEF NodeSetTo
  <2>2. /\ \A t \in Slot \ {s} : g.table[t] = f.table[t]
        /\ g.table[s].num = f.table[s].num /\ g.table[s].cnt = f.table[s].cnt
        /\ g.table[s].node.nlinks > 0 /\ g.table[s].dirt
    BY <1>3 DEF NodeSetTo
  <2>3. f.table[s].num # 0 /\ f.table[s].cnt > 0
    BY <1>1
  <2> QED
    BY <1>1, <2>1, <2>2, <2>3, EntrySet
<1>5. \A t \in Slot : g.table[t].num = f.table[t].num
  BY <1>3 DEF NodeSetTo
<1>6. \A m : Entry(g, m) = Entry(f, m)
  BY Zenon, <1>5, SameEntry
<1> QED
  BY <1>1, <1>3, <1>4, <1>6 DEF s, NodeSetTo, Renoded

\* The new inode n, with node nd, is the only difference between f and g.
Given(f, g, n, nd) ==
    /\ n \in Inr /\ n \notin DOMAIN Disk(f).cur
    /\ g.imap = f.imap \cup {n} /\ g.status = f.status /\ g.pinned = f.pinned
    /\ g.body = f.body
    /\ DOMAIN Disk(g).cur = DOMAIN Disk(f).cur \cup {n}
    /\ Disk(g).cur[n] = nd /\ nd.nlinks = 1
    /\ \A m \in DOMAIN Disk(f).cur : Disk(g).cur[m] = Disk(f).cur[m]
    /\ Mem(g, n).cnt = 1 /\ Mem(g, n).dirt /\ Mem(g, n).node = nd

\* new_inode gives an inode that was free, kept by the call, or finds no entry for it.
LEMMA InodeGiven ==
    ASSUME NEW f, NEW H, NEW R, TableOK(f, H, R), f.status = "ok",
           NEW n, n = NewInodeNr(f), n # 0, NEW g, g = NewInode(f)
    PROVE  \/ Ended(g, H, R)
           \/ /\ TableOK(g, H, Hold(R, n)) /\ Given(f, g, n, Mem(g, n).node)
              /\ g.status = "ok" /\ g.zmap = f.zmap
<1>1. /\ n \in Inr /\ n \notin f.imap /\ n \notin DOMAIN Disk(f).cur
      /\ \/ Ended(g, H, R)
         \/ /\ TableOK(g, H, Hold(R, n)) /\ g.status = "ok"
            /\ g.imap = f.imap \cup {n} /\ g.zmap = f.zmap /\ g.body = f.body
            /\ g.pinned = f.pinned
            /\ Disk(g).cur = With(Disk(f).cur, n, Mem(g, n).node)
            /\ Mem(g, n).cnt = 1 /\ Mem(g, n).dirt /\ Mem(g, n).node.nlinks = 1
  BY Zenon, NewInodeHolds
<1> DEFINE nd == Mem(g, n).node
           c == Disk(f).cur
           c2 == With(c, n, nd)
<1>2. /\ DOMAIN c2 = DOMAIN c \cup {n} /\ c2[n] = nd
      /\ \A m \in DOMAIN c \ {n} : c2[m] = c[m]
  <2> HIDE DEF nd, c
  <2> QED
    BY DEF With
<1> HIDE DEF c2
<1> QED
  BY <1>1, <1>2 DEF Given, c2

\* The same when the node is changed before anything else is.
LEMMA GivenChanged ==
    ASSUME NEW f, NEW h, NEW H, NEW R, TableOK(h, H, R), NEW n \in Inr, R[n] > 0,
           Given(f, h, n, Mem(h, n).node), NEW nd \in Node, nd.nlinks = 1,
           NEW g, g = WithNode(h, n, nd)
    PROVE  TableOK(g, H, R) /\ Given(f, g, n, nd) /\ g.zmap = h.zmap
<1>1. /\ TableOK(g, H, R) /\ NodeSetTo(h, g, Entry(h, n), nd, TRUE)
      /\ Disk(g).cur = With(Disk(h).cur, n, nd)
      /\ \A m : Entry(g, m) = Entry(h, m)
  <2>0. nd.nlinks > 0
    OBVIOUS
  <2>1. Mem(h, n).dirt /\ nd.nlinks > 0
    BY <2>0 DEF Given
  <2> QED
    <3>1. TableOK(g, H, R) /\ Renoded(h, g, n, nd)
      BY <2>1, NodeChanged
    <3> QED
      BY Zenon, <3>1 DEF Renoded
<1>2. Mem(g, n).cnt = Mem(h, n).cnt /\ Mem(g, n).dirt /\ Mem(g, n).node = nd
  BY <1>1 DEF Mem, NodeSetTo
<1>3. /\ DOMAIN Disk(g).cur = DOMAIN Disk(h).cur \cup {n} /\ Disk(g).cur[n] = nd
      /\ \A m \in DOMAIN Disk(h).cur \ {n} : Disk(g).cur[m] = Disk(h).cur[m]
  <2> DEFINE c == Disk(h).cur
             c2 == With(c, n, nd)
  <2>1. /\ DOMAIN c2 = DOMAIN c \cup {n} /\ c2[n] = nd
        /\ \A m \in DOMAIN c \ {n} : c2[m] = c[m]
    <3> HIDE DEF c
    <3> QED
      BY DEF With
  <2> HIDE DEF c2
  <2> QED
    BY <1>1, <2>1 DEF c2
<1>4. g.imap = h.imap /\ g.status = h.status /\ g.pinned = h.pinned /\ g.body = h.body
      /\ g.zmap = h.zmap
  BY <1>1 DEF NodeSetTo
<1> QED
  BY <1>1, <1>2, <1>3, <1>4 DEF Given

\* A new inode without entries, that is not a directory, leaves the directories as they are.
LEMMA GivenStays ==
    ASSUME NEW f, NEW H, NEW R, Fine(f, H, R), NEW g, NEW n, NEW nd, Given(f, g, n, nd),
           f.zmap \subseteq g.zmap, nd.mode # "dir"
    PROVE  /\ DiskOK(Disk(g)) /\ LiveIn(Disk(g)) = LiveIn(Disk(f)) \cup {n}
           /\ DirsIn(Disk(g)) = DirsIn(Disk(f)) /\ EntsIn(Disk(g)) = EntsIn(Disk(f))
           /\ \A m \in DirsIn(Disk(f)) : EntsOf(Disk(g), m) = EntsOf(Disk(f), m)
<1> DEFINE v == Disk(f)
           w == Disk(g)
<1>1. /\ DiskOK(v) /\ DOMAIN v.cur \subseteq Inr /\ DOMAIN w.cur = DOMAIN v.cur \cup {n}
      /\ n \in Inr /\ n \notin DOMAIN v.cur /\ w.cur[n] = nd /\ nd.nlinks = 1
      /\ \A m \in DOMAIN v.cur : w.cur[m] = v.cur[m]
  BY FineIs DEF Fine, Given
<1>2. w.zmap = g.zmap /\ w.body = v.body /\ w.pinned = v.pinned /\ v.zmap = f.zmap
  BY DEF Given, Disk
<1> HIDE DEF v, w
<1>3. LiveIn(w) = LiveIn(v) \cup {n} /\ DirsIn(w) = DirsIn(v)
  <2>1. LiveIn(w) = LiveIn(v) \cup {n}
    BY <1>1 DEF LiveIn
  <2>2. n \notin DirsIn(w) /\ n \notin LiveIn(v)
    BY <1>1 DEF DirsIn, LiveIn
  <2>3. \A m \in LiveIn(v) : w.cur[m] = v.cur[m]
    BY <1>1 DEF LiveIn
  <2> QED
    BY <2>1, <2>2, <2>3 DEF DirsIn
<1>4. ASSUME NEW m \in DirsIn(w)
      PROVE  m \in DirsIn(v) /\ Kept(v, w, m)
  <2>1. m \in DirsIn(v) /\ m \in DOMAIN v.cur
    BY <1>3 DEF DirsIn, LiveIn
  <2>2. \A b \in HeldBy(v, m) : b - 1 \in v.zmap
    BY <1>1, <2>1 DEF DiskOK, DirOK, Marks
  <2> QED
    BY <1>1, <1>2, <2>1, <2>2 DEF Kept
<1>5. \A b \in w.pinned : b - 1 \in w.zmap
  BY <1>1, <1>2 DEF DiskOK
<1>6. DOMAIN w.cur \subseteq Inr
  BY <1>1
<1>7. /\ DiskOK(w)
      /\ \A m \in DirsIn(w) : EntsOf(w, m) = EntsOf(v, m) /\ HeldBy(w, m) = HeldBy(v, m)
      /\ EntsIn(w) = {e \in EntsIn(v) : e[1] \in DirsIn(w)}
  BY <1>1, <1>4, <1>5, <1>6, DiskStays
<1>8. \A e \in EntsIn(v) : e[1] \in DirsIn(v)
  BY EntsAre DEF EntsIn
<1> QED
  BY <1>3, <1>7, <1>8 DEF v, w

-----------------------------------------------------------------------------
(* The calls that end with a tree on the disk, or because no entry is spare. *)

LinksOf(v) == [n \in DOMAIN v.cur |-> v.cur[n].nlinks]

\* Tree in terms of the link counts of live inodes.
LEMMA TreeIs ==
    ASSUME NEW v
    PROVE  /\ Tree(v) <=> TreeOK(LiveIn(v), DirsIn(v), EntsIn(v), LinksOf(v))
           /\ \A n \in DOMAIN v.cur : LinksOf(v)[n] = v.cur[n].nlinks
           /\ \A n \in LiveIn(v) : LinksOf(v)[n] = v.cur[n].nlinks
BY DEF Tree, LinksOf, LiveIn

\* A call goes on with directory d, which it keeps.
Ready(f, H, R, d) == Fine(f, H, R) /\ d \in DirsIn(Disk(f)) /\ R[d] > 0

\* What holds when a call is about to work in directory d.
LEMMA ReadyIs ==
    ASSUME NEW f, NEW H, NEW R, NEW d, Ready(f, H, R, d)
    PROVE  /\ TableOK(f, H, R) /\ f.status = "ok" /\ DiskOK(Disk(f)) /\ Tree(Disk(f))
           /\ d \in DirsIn(Disk(f)) /\ d \in LiveIn(Disk(f)) /\ d \in DOMAIN Disk(f).cur
           /\ d \in Inr /\ R[d] > 0 /\ R \in [Inr -> Nat] /\ DirOK(Disk(f), d)
           /\ Mem(f, d).node = Disk(f).cur[d]
           /\ DOMAIN Disk(f).cur \subseteq Inr
<1>1. TableOK(f, H, R) /\ f.status = "ok" /\ DiskOK(Disk(f)) /\ Tree(Disk(f)) /\ R[d] > 0
  BY DEF Ready, Fine
<1>2. d \in DirsIn(Disk(f)) /\ d \in LiveIn(Disk(f)) /\ d \in DOMAIN Disk(f).cur
  BY DEF Ready, DirsIn, LiveIn
<1>3. DOMAIN Disk(f).cur \subseteq Inr
  BY FineIs DEF Ready
<1>4. Mem(f, d).node = Disk(f).cur[d]
  BY <1>1, <1>2, <1>3, HeldIs
<1>5. R \in [Inr -> Nat] /\ DirOK(Disk(f), d)
  BY <1>1, <1>2 DEF TableOK, DiskOK
<1> QED
  BY <1>1, <1>2, <1>3, <1>4, <1>5

\* find_entry found nothing: no entry of the directory has the name.
LEMMA NameIsFree ==
    ASSUME NEW f, NEW H, NEW R, NEW d, Ready(f, H, R, d), NEW x, Child(f, d, x, TRUE) = 0
    PROVE  /\ \A e \in EntsOf(Disk(f), d) : e[2] # x
           /\ \A e \in EntsIn(Disk(f)) : e[1] = d => e[2] # x
<1>1. Mem(f, d).node = Disk(f).cur[d] /\ DirOK(Disk(f), d)
  BY ReadyIs
<1>2. \A e \in EntsOf(Disk(f), d) : e[2] # x
  BY Zenon, <1>1, ChildIs
<1>3. \A n : \A e \in EntsOf(Disk(f), n) : e[1] = n
  BY EntsAre
<1> QED
  BY <1>2, <1>3 DEF EntsIn

\* find_entry found a number: the entry is on the disk, and its inode is live.
LEMMA NameIsThere ==
    ASSUME NEW f, NEW H, NEW R, NEW d, Ready(f, H, R, d), NEW x, NEW last,
           NEW r, r = Child(f, d, x, last), r # 0
    PROVE  <<d, x, r>> \in EntsIn(Disk(f)) /\ r \in LiveIn(Disk(f)) /\ r \in Inr
<1>1. /\ Mem(f, d).node = Disk(f).cur[d] /\ DirOK(Disk(f), d) /\ Tree(Disk(f))
      /\ d \in DirsIn(Disk(f)) /\ DOMAIN Disk(f).cur \subseteq Inr
  BY ReadyIs
<1>2. <<d, x, r>> \in EntsOf(Disk(f), d)
  <2>1. Child(f, d, x, last) = 0 \/ <<d, x, Child(f, d, x, last)>> \in EntsOf(Disk(f), d)
    BY Zenon, <1>1, ChildIs
  <2> QED
    BY <2>1
<1>3. <<d, x, r>> \in EntsIn(Disk(f))
  BY <1>1, <1>2 DEF EntsIn
<1>4. EntsIn(Disk(f)) \subseteq DirsIn(Disk(f)) \X Name \X LiveIn(Disk(f))
  BY <1>1 DEF Tree, TreeOK
<1>5. r \in LiveIn(Disk(f))
  BY <1>3, <1>4
<1> QED
  BY <1>1, <1>3, <1>5 DEF LiveIn

\* How a call that began with f may end.
Done(f, g, H) == (Fine(g, H, Zero) /\ Leads(Disk(f), Disk(g))) \/ Ended(g, H, Zero)

\* A call that searches for an entry for ever is answered by that.
LEMMA Ends ==
    ASSUME NEW f, NEW g, NEW H, NEW R, Ended(g, H, R)
    PROVE  Done(f, g, H)
BY TableZero DEF Done, Ended

\* A step that leaves the disk as it is.
LEMMA Stays ==
    ASSUME NEW f, NEW g, NEW H, NEW H2, NEW R, NEW R2, Fine(f, H, R), TableOK(g, H2, R2),
           Disk(g) = Disk(f), g.status = "ok"
    PROVE  Fine(g, H2, R2) /\ Done(f, g, H2)
<1>1. TableOK(g, H2, Zero)
  BY TableZero
<1> QED
  BY <1>1 DEF Done, Fine, Leads, Moves

\* What follows puts back the inodes that are kept still.
LEMMA Finish ==
    ASSUME NEW f, NEW g, NEW H, NEW R, Fine(g, H, R), Leads(Disk(f), Disk(g))
    PROVE  Done(f, g, H)
BY TableZero DEF Done, Fine

\* Putting an inode back after a step of the tree.
LEMMA FinishPut ==
    ASSUME NEW f, NEW g, NEW H, NEW R, Fine(g, H, R), Leads(Disk(f), Disk(g)), NEW n \in Inr, R[n] > 0
    PROVE  /\ Fine(PutBack(g, n), H, Less(R, n)) /\ Leads(Disk(f), Disk(PutBack(g, n)))
           /\ Done(f, PutBack(g, n), H)
<1> DEFINE h == PutBack(g, n)
<1>1. TableOK(h, H, Less(R, n)) /\ Disk(h) = Disk(g) /\ h.status = g.status
  BY PutBackHolds DEF Fine
<1> HIDE DEF h
<1>2. Fine(h, H, Less(R, n)) /\ Leads(Disk(f), Disk(h))
  BY <1>1 DEF Fine
<1> QED
  BY <1>2, Finish DEF h

-----------------------------------------------------------------------------
(* open_namei that makes a file.                                             *)

ModedNode(nd, mode) == [nd EXCEPT !.mode = mode]

\* The new file, which has no name yet.
LEMMA ModedGiven ==
    ASSUME NEW f, NEW H, NEW R, Fine(f, H, R), NEW n, n = NewInodeNr(f), n # 0,
           NEW h, h = NewInode(f), h.status = "ok",
           NEW mode \in Modes, mode # "dir", NEW g, g = Moded(h, n, mode)
    PROVE  /\ TableOK(g, H, Hold(R, n)) /\ Given(f, g, n, Mem(g, n).node) /\ g.zmap = f.zmap
           /\ Mem(g, n).node.mode # "dir" /\ g.status = "ok"
<1>1. TableOK(h, H, Hold(R, n)) /\ Given(f, h, n, Mem(h, n).node) /\ h.zmap = f.zmap
  <2>1. TableOK(f, H, R) /\ f.status = "ok"
    BY DEF Fine
  <2>2. ~Ended(h, H, R)
    BY DEF Ended, NoEntry
  <2> QED
    BY <2>1, <2>2, InodeGiven
<1> DEFINE nd == ModedNode(Mem(h, n).node, mode)
<1>2. n \in Inr /\ Hold(R, n)[n] > 0
  <2>1. n \in Inr /\ R \in [Inr -> Nat]
    BY <1>1 DEF Given, Fine, TableOK
  <2> QED
    BY <2>1, KeepIs
<1>3. Mem(h, n).node \in Node
  <2>1. Entry(h, n) \in Slot /\ IsFs(h)
    BY <1>1, <1>2, HeldIs DEF TableOK
  <2> QED
    BY <2>1, EntryIsTyped DEF Mem
<1>4. nd \in Node /\ nd.nlinks = Mem(h, n).node.nlinks /\ nd.mode = mode
  <2>1. mode \in {"none", "reg", "dir"}
    BY NamesAssumption
  <2> QED
    BY <1>3, <2>1 DEF ModedNode, Node
<1>5. nd.nlinks = 1
  BY <1>1, <1>4 DEF Given
<1>6. g = WithNode(h, n, nd)
  BY DEF Moded, WithNode, ModedNode, Mem
<1> HIDE DEF nd
<1>7. TableOK(g, H, Hold(R, n)) /\ Given(f, g, n, nd) /\ g.zmap = h.zmap
  BY <1>1, <1>2, <1>4, <1>5, <1>6, GivenChanged
<1>8. Mem(g, n).node = nd /\ g.status = f.status
  BY <1>7 DEF Given
<1> QED
  BY <1>1, <1>4, <1>7, <1>8 DEF Fine
\* The entry that AddEntry makes, if there is room.
Entering(g, d, x, n) == IF Room(g, d) THEN {<<d, x, n>>} ELSE {}

SamePlace(g, h, n) == Entry(h, n) = Entry(g, n)

\* The new file is entered in directory d.
FileIn(f, h, d, n, S) ==
    /\ h.status = "ok" /\ DiskOK(Disk(h)) /\ d # n /\ n \in Inr
    /\ DOMAIN Disk(h).cur = DOMAIN Disk(f).cur \cup {n} /\ n \notin DOMAIN Disk(f).cur
    /\ \A m \in DOMAIN Disk(f).cur : Disk(h).cur[m].nlinks = Disk(f).cur[m].nlinks
    /\ Disk(h).cur[n].nlinks = 1 /\ Disk(h).cur[n].mode # "dir"
    /\ LiveIn(Disk(h)) = LiveIn(Disk(f)) \cup {n} /\ DirsIn(Disk(h)) = DirsIn(Disk(f))
    /\ EntsIn(Disk(h)) = EntsIn(Disk(f)) \cup S
    /\ Mem(h, n).cnt = 1 /\ Mem(h, n).dirt

\* The name of a new file is in its directory, if there was room, and the file keeps its place in the table.
LEMMA FileEntered ==
    ASSUME NEW f, NEW H, NEW R, NEW d, Ready(f, H, R, d), NEW n, NEW g,
           TableOK(g, H, Hold(R, n)), Given(f, g, n, Mem(g, n).node), g.zmap = f.zmap,
           Mem(g, n).node.mode # "dir", g.status = "ok",
           NEW x \in Name \ (Dotted \cup {Slash}), Child(f, d, x, TRUE) = 0
    PROVE  /\ TableOK(AddEntry(g, d, x, n), H, Hold(R, n))
           /\ FileIn(f, AddEntry(g, d, x, n), d, n, Entering(g, d, x, n))
           /\ SamePlace(g, AddEntry(g, d, x, n), n)
<1> DEFINE nd == Mem(g, n).node
           h == AddEntry(g, d, x, n)
           S == Entering(g, d, x, n)
<1>1. /\ Fine(f, H, R) /\ d \in DirsIn(Disk(f)) /\ d \in DOMAIN Disk(f).cur
      /\ d \in Inr /\ R[d] > 0 /\ R \in [Inr -> Nat]
  BY ReadyIs DEF Ready
<1>2. /\ n \in Inr /\ n \notin DOMAIN Disk(f).cur /\ d # n
      /\ DOMAIN Disk(g).cur = DOMAIN Disk(f).cur \cup {n}
      /\ Disk(g).cur[n] = nd /\ nd.nlinks = 1 /\ Mem(g, n).cnt = 1 /\ Mem(g, n).dirt
      /\ \A m \in DOMAIN Disk(f).cur : Disk(g).cur[m] = Disk(f).cur[m]
  BY <1>1 DEF Given
<1>3. Hold(R, n)[d] > 0 /\ Hold(R, n)[n] > 0
  BY <1>1, <1>2, KeepIs
<1>4. /\ DiskOK(Disk(g)) /\ LiveIn(Disk(g)) = LiveIn(Disk(f)) \cup {n}
      /\ DirsIn(Disk(g)) = DirsIn(Disk(f)) /\ EntsIn(Disk(g)) = EntsIn(Disk(f))
      /\ \A m \in DirsIn(Disk(f)) : EntsOf(Disk(g), m) = EntsOf(Disk(f), m)
  <2>1. nd.mode # "dir" /\ f.zmap \subseteq g.zmap
    OBVIOUS
  <2> HIDE DEF nd
  <2>2. Given(f, g, n, nd)
    BY DEF nd
  <2> QED
    BY <1>1, <2>1, <2>2, GivenStays
<1>5. \A e \in EntsOf(Disk(g), d) : e[2] # x
  BY Zenon, <1>1, <1>4, NameIsFree
<1>6. d \in DirsIn(Disk(g)) /\ x \in Name
  BY <1>1, <1>4
<1>7. /\ TableOK(h, H, Hold(R, n)) /\ Widened(g, h, d) /\ DiskOK(Disk(h))
      /\ SameLinks(Disk(g), Disk(h))
      /\ LiveIn(Disk(h)) = LiveIn(Disk(g)) /\ DirsIn(Disk(h)) = DirsIn(Disk(g))
      /\ EntsIn(Disk(h)) = EntsIn(Disk(g)) \cup S
  BY <1>1, <1>2, <1>3, <1>4, <1>5, <1>6, NameEntered DEF Entering
<1> HIDE DEF h, S
<1>8. Disk(h).cur[n].nlinks = 1 /\ Disk(h).cur[n].mode # "dir"
  BY <1>2, <1>7 DEF SameLinks
<1>9. \A t \in Slot : h.table[t].num = g.table[t].num
  BY <1>7 DEF Widened
<1>10. \A m : Entry(h, m) = Entry(g, m)
  BY <1>9, SameEntry
<1>11. Mem(h, n).cnt = 1 /\ Mem(h, n).dirt /\ h.status = "ok"
  <2>1. Entry(g, n) # Entry(g, d) /\ Entry(g, n) \in Slot
    <3>1. g.table[Entry(g, n)].num = n /\ Entry(g, n) \in Slot
      BY <1>2, <1>3, HeldIs
    <3>2. g.table[Entry(g, d)].num = d
      BY <1>1, <1>3, HeldIs
    <3> QED
      BY <1>2, <3>1, <3>2
  <2>2. h.table[Entry(g, n)] = g.table[Entry(g, n)] /\ h.status = g.status
    BY <1>7, <2>1 DEF Widened
  <2>3. Mem(h, n) = Mem(g, n)
    BY <1>10, <2>2 DEF Mem
  <2> QED
    BY <1>2, <2>2, <2>3
<1>12. \A m \in DOMAIN Disk(f).cur : Disk(h).cur[m].nlinks = Disk(f).cur[m].nlinks
  BY <1>2, <1>7 DEF SameLinks
<1>13. DOMAIN Disk(h).cur = DOMAIN Disk(f).cur \cup {n}
  BY <1>2, <1>7 DEF SameLinks
<1> HIDE DEF nd
<1>14. FileIn(f, h, d, n, S)
  BY <1>2, <1>4, <1>7, <1>8, <1>11, <1>12, <1>13 DEF FileIn
<1> QED
  BY <1>7, <1>10, <1>14 DEF h, S, SamePlace

\* open_namei with O_CREAT: the file is made and named, its directory put back, and the descriptor keeps it.
LEMMA CreateHolds ==
    ASSUME NEW f, NEW H, NEW R, NEW d, Ready(f, H, R, d),
           NEW x \in Name \ (Dotted \cup {Slash}), Child(f, d, x, TRUE) = 0,
           NEW n, n = NewInodeNr(f), n # 0, NewInode(f).status = "ok",
           NEW mode \in Modes, mode # "dir", NEW g, g = Moded(NewInode(f), n, mode), Room(g, d),
           NEW H2, H2 = Hold(H, Entry(g, n))
    PROVE  Done(f, PutBack(AddEntry(g, d, x, n), d), H2) /\ Entry(g, n) \in Slot
<1> DEFINE h == AddEntry(g, d, x, n)
           e == PutBack(h, d)
           R2 == Hold(R, n)
           t == <<d, x, n>>
           v == Disk(f)
           w == Disk(h)
<1>1. /\ Fine(f, H, R) /\ d \in DirsIn(v) /\ d \in DOMAIN v.cur
      /\ d \in Inr /\ R[d] > 0 /\ R \in [Inr -> Nat] /\ Tree(v)
  BY Zenon, ReadyIs DEF Ready
<1>2. /\ TableOK(g, H, R2) /\ Given(f, g, n, Mem(g, n).node) /\ g.zmap = f.zmap
      /\ Mem(g, n).node.mode # "dir" /\ g.status = "ok"
  BY <1>1, ModedGiven
<1>3. TableOK(h, H, R2) /\ FileIn(f, h, d, n, {t}) /\ Entry(h, n) = Entry(g, n)
  <2>1. TableOK(AddEntry(g, d, x, n), H, Hold(R, n))
    BY Zenon, <1>2, FileEntered
  <2>2. FileIn(f, AddEntry(g, d, x, n), d, n, Entering(g, d, x, n))
    BY Zenon, <1>2, FileEntered
  <2>3. SamePlace(g, AddEntry(g, d, x, n), n)
    BY Zenon, <1>2, FileEntered
  <2>4. Entering(g, d, x, n) = {t}
    BY DEF Entering
  <2> HIDE DEF t
  <2> QED
    BY <2>1, <2>2, <2>3, <2>4 DEF SamePlace
<1> HIDE DEF h, t, v, w
<1>4. Tree(w) /\ Leads(v, w)
  <2> DEFINE c == LinksOf(v)
             c2 == LinksOf(w)
  <2>1. /\ LiveIn(w) = LiveIn(v) \cup {n} /\ DirsIn(w) = DirsIn(v) /\ EntsIn(w) = EntsIn(v) \cup {t}
        /\ n \in Inr /\ n \notin DOMAIN v.cur
    BY <1>3 DEF FileIn, v, w
  <2>2. TreeOK(LiveIn(v), DirsIn(v), EntsIn(v), c)
    BY <1>1, TreeIs
  <2>3. c2[n] = 1 /\ \A m \in LiveIn(v) : c2[m] = c[m]
    <3>1. DOMAIN w.cur = DOMAIN v.cur \cup {n} /\ w.cur[n].nlinks = 1
          /\ \A m \in DOMAIN v.cur : w.cur[m].nlinks = v.cur[m].nlinks
      BY <1>3 DEF FileIn, v, w
    <3>2. LiveIn(v) \subseteq DOMAIN v.cur
      BY DEF LiveIn
    <3> QED
      BY <3>1, <3>2, TreeIs
  <2>4. n \notin LiveIn(v)
    BY <2>1 DEF LiveIn
  <2>5. \A u \in EntsIn(v) : u[1] = d => u[2] # x
    <3>1. Ready(f, H, R, d) /\ Child(f, d, x, TRUE) = 0
      OBVIOUS
    <3>2. \A u \in EntsIn(Disk(f)) : u[1] = d => u[2] # x
      BY ONLY <3>1, NameIsFree
    <3> QED
      BY <3>2 DEF v
  <2> HIDE DEF c, c2
  <2>6. TreeOK(LiveIn(v) \cup {n}, DirsIn(v), EntsIn(v) \cup {<<d, x, n>>}, c2)
    BY Zenon, <1>1, <2>2, <2>3, <2>4, <2>5, TreeFile
  <2>7. Tree(w)
    BY Zenon, <2>1, <2>6, TreeIs DEF c2, t
  <2>8. Moves(DirsIn(v), Plain(EntsIn(v)), DirsIn(v), Plain((EntsIn(v) \cup {}) \cup {<<d, x, n>>}))
    <3>1. x \in Name \ Dotted /\ \A u \in {} : u[2] \in Dotted
      OBVIOUS
    <3>2. n \in Inr
      BY <2>1
    <3> QED
      BY Zenon, <1>1, <2>2, <2>4, <2>5, <3>1, <3>2, NewMoves
  <2>9. (EntsIn(v) \cup {}) \cup {<<d, x, n>>} = EntsIn(w)
    BY <2>1 DEF t
  <2>10. Leads(v, w)
    BY <2>1, <2>8, <2>9 DEF Leads
  <2> QED
    BY <2>7, <2>10
<1>5. Fine(h, H, R2)
  BY <1>3, <1>4 DEF Fine, FileIn, w
<1>6. R2[d] > 0 /\ R2[n] = R[n] + 1 /\ R2[n] > 0 /\ n \in Inr /\ d # n /\ R2 \in [Inr -> Nat]
  <2>1. n \in Inr /\ d # n
    BY <1>3 DEF FileIn
  <2> QED
    BY <1>1, <2>1, KeepIs
<1> HIDE DEF R2
<1>7. Fine(e, H, Less(R2, d)) /\ Leads(v, Disk(e))
  <2>1. Leads(Disk(f), Disk(h))
    BY <1>4 DEF v, w
  <2>2. Fine(PutBack(h, d), H, Less(R2, d)) /\ Leads(Disk(f), Disk(PutBack(h, d)))
    BY <1>1, <1>5, <1>6, <2>1, FinishPut
  <2> QED
    BY <2>2 DEF v
<1>8. Less(R2, d)[n] > 0
  BY <1>1, <1>6, KeepIs
<1>9. Entry(e, n) = Entry(g, n)
  <2>1. \A m : Entry(PutBack(h, d), m) = Entry(h, m)
    BY <1>1, <1>3, <1>6, PutBackTable
  <2> QED
    BY <1>3, <2>1
<1> HIDE DEF e
<1>10. TableOK(e, H2, Zero) /\ Entry(e, n) \in Slot
  <2>1. H2 = Hold(H, Entry(e, n))
    BY <1>9
  <2>2. TableOK(e, H, Less(R2, d))
    BY <1>7 DEF Fine
  <2> QED
    BY <1>6, <1>8, <2>1, <2>2, HandedOver
<1>11. Fine(e, H2, Zero)
  BY <1>7, <1>10 DEF Fine
<1>12. Done(f, e, H2)
  BY <1>7, <1>11 DEF Done, v
<1> QED
  BY <1>9, <1>10, <1>12 DEF e, h
(* The inode n of disk w is without links in u.  The other directories keep   *)
(* their marks.                                                             *)
WithoutLinks(w, u, n) ==
    /\ n \in DOMAIN w.cur /\ u.cur = With(w.cur, n, Linked(w.cur[n], 0))
    /\ u.body = w.body /\ u.pinned = w.pinned
    /\ \A m \in DirsIn(w) \ {n} : \A b \in HeldBy(w, m) : b - 1 \in u.zmap
    /\ \A b \in w.pinned : b - 1 \in u.zmap

\* An inode that loses all its links goes from the live ones with its entries; the rest of the disk is good.
LEMMA WithoutLinksIs ==
    ASSUME NEW w, DiskOK(w), DOMAIN w.cur \subseteq Inr, NEW n, NEW u, WithoutLinks(w, u, n),
           w.cur[n] \in Node
    PROVE  /\ DiskOK(u) /\ LiveIn(u) = LiveIn(w) \ {n} /\ DirsIn(u) = DirsIn(w) \ {n}
           /\ EntsIn(u) = {e \in EntsIn(w) : e[1] # n}
           /\ \A m \in DOMAIN w.cur \ {n} : u.cur[m] = w.cur[m]
<1>1. /\ DOMAIN u.cur = DOMAIN w.cur /\ u.cur[n].nlinks = 0
      /\ \A m \in DOMAIN w.cur \ {n} : u.cur[m] = w.cur[m]
  <2> DEFINE c == w.cur
             nd == Linked(w.cur[n], 0)
             c2 == With(c, n, nd)
  <2>1. DOMAIN c2 = DOMAIN c \cup {n} /\ c2[n] = nd /\ \A m \in DOMAIN c \ {n} : c2[m] = c[m]
    <3> HIDE DEF c, nd
    <3> QED
      BY DEF With
  <2>2. nd.nlinks = 0
    <3>1. 0 \in 0 .. NrLinks - 1
      BY InodesAssumption
    <3> QED
      BY <3>1, LinkedIs
  <2>3. u.cur = c2 /\ n \in DOMAIN c
    BY DEF WithoutLinks
  <2> HIDE DEF c2, nd
  <2> QED
    BY <2>1, <2>2, <2>3
<1>2. LiveIn(u) = LiveIn(w) \ {n}
  <2>1. ASSUME NEW m
        PROVE  m \in LiveIn(u) <=> m \in LiveIn(w) \ {n}
    <3>1. CASE m = n
      BY <1>1, <3>1 DEF LiveIn
    <3>2. CASE m # n
      BY <1>1, <3>2 DEF LiveIn
    <3> QED
      BY <3>1, <3>2
  <2> QED
    BY <2>1
<1>3. \A m \in LiveIn(u) : u.cur[m] = w.cur[m]
  BY <1>1, <1>2 DEF LiveIn
<1>4. DirsIn(u) = DirsIn(w) \ {n}
  BY <1>2, <1>3 DEF DirsIn
<1>5. \A m \in DirsIn(u) : m \in DirsIn(w) /\ Kept(w, u, m)
  BY <1>3, <1>4 DEF Kept, WithoutLinks, DirsIn
<1>6. DOMAIN u.cur \subseteq Inr /\ \A b \in u.pinned : b - 1 \in u.zmap
  BY <1>1 DEF WithoutLinks
<1>7. DiskOK(u) /\ EntsIn(u) = {e \in EntsIn(w) : e[1] \in DirsIn(u)}
  BY <1>5, <1>6, DiskStays
<1>8. \A e \in EntsIn(w) : e[1] \in DirsIn(w)
  BY EntsAre DEF EntsIn
<1> QED
  BY <1>1, <1>2, <1>4, <1>7, <1>8

\* The new inode has no entry: FS gives it up again.
LEMMA CreateFailsHolds ==
    ASSUME NEW f, NEW H, NEW R, NEW d, Ready(f, H, R, d),
           NEW x \in Name \ (Dotted \cup {Slash}), Child(f, d, x, TRUE) = 0,
           NEW n, n = NewInodeNr(f), n # 0, NewInode(f).status = "ok",
           NEW mode \in Modes, mode # "dir", NEW g, g = Moded(NewInode(f), n, mode), ~Room(g, d)
    PROVE  Done(f, PutBack(Abandon(AddEntry(g, d, x, n), n), d), H)
<1> DEFINE h == AddEntry(g, d, x, n)
           a == Abandon(h, n)
           R2 == Hold(R, n)
           v == Disk(f)
           w == Disk(h)
           u == Disk(a)
<1>1. /\ Fine(f, H, R) /\ d \in DirsIn(v) /\ d \in DOMAIN v.cur
      /\ d \in Inr /\ R[d] > 0 /\ R \in [Inr -> Nat] /\ Tree(v)
  BY Zenon, ReadyIs DEF Ready
<1>2. /\ TableOK(g, H, R2) /\ Given(f, g, n, Mem(g, n).node) /\ g.zmap = f.zmap
      /\ Mem(g, n).node.mode # "dir" /\ g.status = "ok"
  BY <1>1, ModedGiven
<1>3. TableOK(h, H, R2) /\ FileIn(f, h, d, n, {})
  <2>1. TableOK(AddEntry(g, d, x, n), H, Hold(R, n))
    BY Zenon, <1>2, FileEntered
  <2>2. FileIn(f, AddEntry(g, d, x, n), d, n, Entering(g, d, x, n))
    BY Zenon, <1>2, FileEntered
  <2>3. Entering(g, d, x, n) = {}
    BY DEF Entering
  <2> QED
    BY <2>1, <2>2, <2>3
<1> HIDE DEF h
<1>4. n \in Inr /\ d # n /\ Mem(h, n).cnt = 1 /\ Mem(h, n).dirt /\ R2 \in [Inr -> Nat]
      /\ R2[n] = R[n] + 1 /\ R2[n] > 0 /\ R2[d] = R[d]
  <2>1. n \in Inr /\ d # n /\ Mem(h, n).cnt = 1 /\ Mem(h, n).dirt
    BY <1>3 DEF FileIn
  <2> QED
    BY <1>1, <2>1, KeepIs
<1> HIDE DEF R2
<1>5. TableOK(a, H, Less(R2, n)) /\ Relinked(h, a, n, 0)
  BY <1>3, <1>4, AbandonHolds
<1> HIDE DEF a
<1>6. /\ DiskOK(w) /\ DOMAIN w.cur = DOMAIN v.cur \cup {n} /\ n \notin DOMAIN v.cur
      /\ \A m \in DOMAIN v.cur : w.cur[m].nlinks = v.cur[m].nlinks
      /\ LiveIn(w) = LiveIn(v) \cup {n} /\ DirsIn(w) = DirsIn(v) /\ EntsIn(w) = EntsIn(v) \cup {}
  BY <1>3 DEF FileIn
<1>7. WithoutLinks(w, u, n)
  <2>1. u.cur = With(w.cur, n, Linked(w.cur[n], 0)) /\ a.zmap = h.zmap /\ a.body = h.body
        /\ a.pinned = h.pinned
    BY <1>5 DEF Relinked
  <2>2. u.zmap = a.zmap /\ u.body = a.body /\ u.pinned = a.pinned
    BY DEF Disk
  <2>3. w.zmap = h.zmap /\ w.body = h.body /\ w.pinned = h.pinned
    BY DEF Disk
  <2> QED
    BY <1>6, <2>1, <2>2, <2>3 DEF WithoutLinks, DiskOK, DirOK, Marks
<1>8. w.cur[n] \in Node /\ DOMAIN w.cur \subseteq Inr
  BY <1>3, <1>6, CurIs
<1> HIDE DEF u, w, v
<1>9. /\ DiskOK(u) /\ LiveIn(u) = LiveIn(w) \ {n} /\ DirsIn(u) = DirsIn(w) \ {n}
      /\ EntsIn(u) = {e \in EntsIn(w) : e[1] # n}
      /\ \A m \in DOMAIN w.cur \ {n} : u.cur[m] = w.cur[m]
  BY <1>6, <1>7, <1>8, WithoutLinksIs
<1>10. Tree(u) /\ Leads(v, u)
  <2>1. n \notin LiveIn(v) /\ n \notin DirsIn(v) /\ LiveIn(v) \subseteq DOMAIN v.cur
    BY <1>6 DEF LiveIn, DirsIn
  <2>2. \A e \in EntsIn(v) : e[1] \in DirsIn(v)
    BY EntsAre DEF EntsIn
  <2>3. LiveIn(u) = LiveIn(v) /\ DirsIn(u) = DirsIn(v) /\ EntsIn(u) = EntsIn(v)
    BY <1>6, <1>9, <2>1, <2>2
  <2>4. \A m \in LiveIn(v) : u.cur[m].nlinks = v.cur[m].nlinks
    BY <1>6, <1>9, <2>1
  <2> QED
    BY <1>1, <2>3, <2>4, TreeStays
<1>11. Fine(a, H, Less(R2, n)) /\ Leads(Disk(f), Disk(a))
  <2>1. a.status = "ok"
    BY <1>3, <1>5 DEF Relinked, FileIn
  <2> QED
    BY <1>5, <1>9, <1>10, <2>1 DEF Fine, u, v
<1>12. Less(R2, n)[d] > 0
  BY <1>1, <1>4, KeepIs
<1>13. Done(f, PutBack(a, d), H)
  BY <1>1, <1>11, <1>12, FinishPut
<1> QED
  BY <1>13 DEF a, h

-----------------------------------------------------------------------------
(* mkdir                                                                     *)

\* Between v and u the inode n was given out and came to nothing.
Unborn(v, u, n) ==
    /\ n \in Inr /\ n \notin DOMAIN v.cur /\ DOMAIN u.cur = DOMAIN v.cur \cup {n}
    /\ u.cur[n].nlinks = 0 /\ \A m \in DOMAIN v.cur : u.cur[m] = v.cur[m]
    /\ u.body = v.body /\ u.pinned = v.pinned
    /\ \A b \in Blk : b - 1 \in u.zmap <=> b - 1 \in v.zmap

\* A disk that differs in an inode without links is as good, and has the same tree.
LEMMA UnbornIs ==
    ASSUME NEW v, DiskOK(v), Tree(v), DOMAIN v.cur \subseteq Inr, v.pinned \subseteq Blk,
           NEW u, NEW n, Unborn(v, u, n)
    PROVE  DiskOK(u) /\ Tree(u) /\ Leads(v, u)
<1>1. LiveIn(u) = LiveIn(v)
  BY DEF LiveIn, Unborn
<1>2. \A m \in LiveIn(v) : u.cur[m] = v.cur[m]
  BY DEF LiveIn, Unborn
<1>3. DirsIn(u) = DirsIn(v)
  BY <1>1, <1>2 DEF DirsIn
<1>4. ASSUME NEW m \in DirsIn(u)
      PROVE  m \in DirsIn(v) /\ Kept(v, u, m)
  <2>1. m \in DirsIn(v) /\ u.cur[m] = v.cur[m]
    BY <1>2, <1>3 DEF DirsIn
  <2>2. HeldBy(v, m) \subseteq Blk /\ \A b \in HeldBy(v, m) : b - 1 \in v.zmap
    <3>1. DirOK(v, m)
      BY <2>1 DEF DiskOK
    <3> QED
      BY <3>1, BlockIsHeld DEF DirOK, Marks
  <2> QED
    BY <2>1, <2>2 DEF Kept, Unborn
<1>5. DOMAIN u.cur \subseteq Inr /\ \A b \in u.pinned : b - 1 \in u.zmap
  BY DEF Unborn, DiskOK
<1>6. DiskOK(u) /\ EntsIn(u) = {e \in EntsIn(v) : e[1] \in DirsIn(u)}
  BY <1>4, <1>5, DiskStays
<1>7. \A e \in EntsIn(v) : e[1] \in DirsIn(v)
  BY EntsAre DEF EntsIn
<1>8. EntsIn(u) = EntsIn(v)
  BY <1>3, <1>6, <1>7
<1> QED
  BY <1>1, <1>2, <1>3, <1>6, <1>8, TreeStays

Unzoned(nd) == [nd EXCEPT !.zone[0] = 0]

\* Taking the first zone out of an inode keeps its links.
LEMMA UnzonedIs ==
    ASSUME NEW nd \in Node
    PROVE  Unzoned(nd) \in Node /\ Unzoned(nd).nlinks = nd.nlinks
<1>1. [nd.zone EXCEPT ![0] = 0] \in [Zone -> 0 .. NrZones - 1]
  BY Sizes DEF Node, Nr
<1> QED
  BY <1>1 DEF Unzoned, Node

\* There is no block for the new directory.
LEMMA MkdirNoBlockHolds ==
    ASSUME NEW f, NEW H, NEW R, NEW d, Ready(f, H, R, d),
           NEW n, n = NewInodeNr(f), n # 0, NEW g, g = NewInode(f), g.status = "ok",
           NewBlockNr(g) = 0
    PROVE  Done(f, Abandon(PutBack([NewBlock(g) EXCEPT !.table[Entry(g, n)].node.zone[0] = 0], d), n), H)
<1> DEFINE k == NewBlock(g)
           nd == Unzoned(Mem(k, n).node)
           c == WithNode(k, n, nd)
           p == PutBack(c, d)
           a == Abandon(p, n)
           R2 == Hold(R, n)
<1>1. /\ Fine(f, H, R) /\ TableOK(f, H, R) /\ d \in DOMAIN Disk(f).cur /\ f.status = "ok"
      /\ d \in Inr /\ R[d] > 0 /\ R \in [Inr -> Nat] /\ Tree(Disk(f)) /\ DiskOK(Disk(f))
      /\ DOMAIN Disk(f).cur \subseteq Inr
  BY Zenon, ReadyIs DEF Ready
<1>2. TableOK(g, H, R2) /\ Given(f, g, n, Mem(g, n).node) /\ g.zmap = f.zmap
  <2>1. ~Ended(g, H, R)
    BY DEF Ended, NoEntry
  <2> QED
    BY <1>1, <2>1, InodeGiven
<1>3. /\ IsFs(k) /\ k.imap = g.imap /\ k.table = g.table /\ k.dev = g.dev
      /\ k.pinned = g.pinned /\ k.status = g.status /\ k.body = g.body
      /\ \A b \in Blk : b - 1 \in k.zmap <=> b - 1 \in g.zmap
  BY Zenon, <1>2, NewBlockIs DEF TableOK
<1> HIDE DEF k
<1>4. TableOK(k, H, R2) /\ Disk(k).cur = Disk(g).cur
  BY <1>2, <1>3, TableKept
<1>5. Given(f, k, n, Mem(k, n).node) /\ Entry(k, n) = Entry(g, n)
  <2>1. \A t \in Slot : k.table[t].num = g.table[t].num
    BY <1>3
  <2>2. Entry(k, n) = Entry(g, n)
    BY Zenon, <2>1, SameEntry
  <2>3. Mem(k, n) = Mem(g, n)
    BY <1>3, <2>2 DEF Mem
  <2> QED
    BY <1>2, <1>3, <1>4, <2>2, <2>3 DEF Given
<1>6. n \in Inr /\ d # n /\ R2 \in [Inr -> Nat] /\ R2[n] = R[n] + 1 /\ R2[n] > 0 /\ R2[d] = R[d]
  <2>1. n \in Inr /\ d # n
    BY <1>1, <1>2 DEF Given
  <2> QED
    BY <1>1, <2>1, KeepIs
<1> HIDE DEF R2
<1>7. nd \in Node /\ nd.nlinks = 1
  <2>1. Entry(k, n) \in Slot /\ IsFs(k)
    BY <1>3, <1>4, <1>6, HeldIs
  <2>2. Mem(k, n).node \in Node
    BY <2>1, EntryIsTyped DEF Mem
  <2>3. Mem(k, n).node.nlinks = 1
    BY <1>5 DEF Given
  <2> QED
    BY <2>2, <2>3, UnzonedIs
<1>8. c = [NewBlock(g) EXCEPT !.table[Entry(g, n)].node.zone[0] = 0]
  <2>1. k.table[Entry(k, n)].node = Mem(k, n).node
    BY DEF Mem
  <2>2. c = [k EXCEPT !.table[Entry(k, n)].node.zone[0] = 0]
    BY <2>1 DEF WithNode, Unzoned
  <2> HIDE DEF c
  <2> QED
    BY <1>5, <2>2 DEF k
<1> HIDE DEF nd
<1>9. TableOK(c, H, R2) /\ Given(f, c, n, nd) /\ c.zmap = k.zmap
  <2>1. c = WithNode(k, n, nd)
    OBVIOUS
  <2> HIDE DEF c
  <2> QED
    BY <1>4, <1>5, <1>6, <1>7, <2>1, GivenChanged
<1> HIDE DEF c
<1>10. /\ TableOK(p, H, Less(R2, d)) /\ Disk(p) = Disk(c) /\ p.status = c.status
       /\ \A t \in Slot \ {Entry(c, d)} : p.table[t] = c.table[t]
       /\ \A m : Entry(p, m) = Entry(c, m)
  <2>1. TableOK(p, H, Less(R2, d)) /\ Disk(p) = Disk(c) /\ p.status = c.status
    BY <1>1, <1>6, <1>9, PutBackHolds
  <2>2. \A t \in Slot \ {Entry(c, d)} : p.table[t] = c.table[t]
    BY <1>1, <1>6, <1>9, PutBackTable
  <2>3. \A m : Entry(p, m) = Entry(c, m)
    BY <1>1, <1>6, <1>9, PutBackTable
  <2> QED
    BY <2>1, <2>2, <2>3
<1> HIDE DEF p
<1>11. Mem(p, n).cnt = 1 /\ Mem(p, n).dirt
  <2>1. c.table[Entry(c, n)].num = n /\ Entry(c, n) \in Slot
    BY <1>6, <1>9, HeldIs
  <2>2. c.table[Entry(c, d)].num = d
    BY <1>1, <1>6, <1>9, HeldIs
  <2>3. p.table[Entry(c, n)] = c.table[Entry(c, n)]
    BY <1>6, <1>10, <2>1, <2>2
  <2>4. Mem(p, n) = Mem(c, n)
    BY <1>10, <2>3 DEF Mem
  <2> QED
    BY <1>9, <2>4 DEF Given
<1>12. Less(R2, d)[n] > 0
  BY <1>1, <1>6, KeepIs
<1>13. TableOK(a, H, Less(Less(R2, d), n)) /\ Relinked(p, a, n, 0)
  BY <1>6, <1>10, <1>11, <1>12, AbandonHolds
<1> HIDE DEF a
<1>14. Unborn(Disk(f), Disk(a), n)
  <2> DEFINE w == Disk(p)
             c2 == With(w.cur, n, Linked(w.cur[n], 0))
  <2>1. Disk(a).cur = c2 /\ a.zmap = p.zmap /\ a.body = p.body /\ a.pinned = p.pinned
    BY <1>13 DEF Relinked
  <2>2. w.cur[n] \in Node /\ n \in DOMAIN w.cur
    <3>1. DOMAIN w.cur = p.imap \cap Inr /\ \A m \in p.imap \cap Inr : w.cur[m] \in Node
      BY <1>10, CurIs
    <3>2. n \in DOMAIN Disk(c).cur
      BY <1>9 DEF Given
    <3> QED
      BY <1>10, <3>1, <3>2
  <2>3. Linked(w.cur[n], 0).nlinks = 0
    <3>1. 0 \in 0 .. NrLinks - 1
      BY InodesAssumption
    <3> QED
      BY <2>2, <3>1, LinkedIs
  <2>4. DOMAIN c2 = DOMAIN w.cur /\ c2[n].nlinks = 0 /\ \A m \in DOMAIN w.cur \ {n} : c2[m] = w.cur[m]
    <3> HIDE DEF w
    <3> QED
      BY <2>2, <2>3 DEF With
  <2> HIDE DEF c2
  <2>5. /\ DOMAIN w.cur = DOMAIN Disk(f).cur \cup {n} /\ n \notin DOMAIN Disk(f).cur
        /\ \A m \in DOMAIN Disk(f).cur : w.cur[m] = Disk(f).cur[m]
        /\ c.body = f.body /\ c.pinned = f.pinned
    BY <1>9, <1>10 DEF Given
  <2>6. /\ w.zmap = p.zmap /\ w.body = p.body /\ w.pinned = p.pinned
        /\ w.zmap = c.zmap /\ w.body = c.body /\ w.pinned = c.pinned
    <3>1. w.zmap = p.zmap /\ w.body = p.body /\ w.pinned = p.pinned
      BY DEF Disk
    <3>2. Disk(c).zmap = c.zmap /\ Disk(c).body = c.body /\ Disk(c).pinned = c.pinned
      BY DEF Disk
    <3> QED
      BY <1>10, <3>1, <3>2
  <2>7. Disk(a).zmap = a.zmap /\ Disk(a).body = a.body /\ Disk(a).pinned = a.pinned
    BY DEF Disk
  <2>8. Disk(f).zmap = f.zmap /\ Disk(f).body = f.body /\ Disk(f).pinned = f.pinned
    BY DEF Disk
  <2>9. \A b \in Blk : b - 1 \in Disk(a).zmap <=> b - 1 \in Disk(f).zmap
    BY Zenon, <1>2, <1>3, <1>9, <2>1, <2>6, <2>7, <2>8
  <2>10. /\ DOMAIN Disk(a).cur = DOMAIN Disk(f).cur \cup {n} /\ Disk(a).cur[n].nlinks = 0
         /\ \A m \in DOMAIN Disk(f).cur : Disk(a).cur[m] = Disk(f).cur[m]
    BY <2>1, <2>4, <2>5
  <2>11. Disk(a).body = Disk(f).body /\ Disk(a).pinned = Disk(f).pinned
    BY Zenon, <2>1, <2>5, <2>6, <2>7, <2>8
  <2> QED
    BY <1>6, <2>5, <2>9, <2>10, <2>11 DEF Unborn
<1>15. DiskOK(Disk(a)) /\ Tree(Disk(a)) /\ Leads(Disk(f), Disk(a))
  <2>1. Disk(f).pinned \subseteq Blk
    BY <1>1 DEF TableOK, Disk
  <2> QED
    BY <1>1, <1>14, <2>1, UnbornIs
<1>16. a.status = "ok"
  BY <1>1, <1>9, <1>10, <1>13 DEF Given, Relinked
<1>17. Fine(a, H, Less(Less(R2, d), n))
  BY <1>13, <1>15, <1>16 DEF Fine
<1>18. Done(f, a, H)
  BY <1>15, <1>17, Finish
<1> QED
  BY <1>8, <1>18 DEF a, p
(* The new directory n with block b, which has no name yet, is all that m has *)
(* more than f.                                                             *)
DirGiven(f, m, n, d, b) ==
    /\ n \in Inr /\ n \notin DOMAIN Disk(f).cur /\ m.status = "ok" /\ m.pinned = f.pinned
    /\ DOMAIN Disk(m).cur = DOMAIN Disk(f).cur \cup {n}
    /\ \A k \in DOMAIN Disk(f).cur : Disk(m).cur[k] = Disk(f).cur[k]
    /\ Disk(m).cur[n].nlinks = 2
    /\ DiskOK(Disk(m)) /\ LiveIn(Disk(m)) = LiveIn(Disk(f)) \cup {n}
    /\ DirsIn(Disk(m)) = DirsIn(Disk(f)) \cup {n}
    /\ EntsIn(Disk(m)) = EntsIn(Disk(f)) \cup {<<n, Dot, n>>, <<n, DotDot, d>>}
    /\ \A k \in DirsIn(Disk(f)) : EntsOf(Disk(m), k) = EntsOf(Disk(f), k)
    /\ b \in Blk /\ b - 1 \notin f.zmap /\ b - 1 \in m.zmap /\ HeldBy(Disk(m), n) = {b}
    /\ Mem(m, n).cnt = 1 /\ Mem(m, n).dirt

\* mkdir gives a new inode a block that holds "." and ".."; nothing else on the disk changes.
LEMMA DirIsGiven ==
    ASSUME NEW f, NEW H, NEW R, NEW d, Ready(f, H, R, d),
           NEW n, n = NewInodeNr(f), n # 0, NEW g, g = NewInode(f), g.status = "ok",
           NEW b, b = NewBlockNr(g), b # 0, NoneInherited(g, n)
    PROVE  /\ TableOK(NewDir(g, n, d, b), H, Hold(R, n))
           /\ DirGiven(f, NewDir(g, n, d, b), n, d, b)
<1> DEFINE m == NewDir(g, n, d, b)
           R2 == Hold(R, n)
           v == Disk(f)
           w == Disk(m)
           own == {<<n, Dot, n>>, <<n, DotDot, d>>}
<1>1. /\ Fine(f, H, R) /\ TableOK(f, H, R) /\ d \in DOMAIN v.cur /\ f.status = "ok"
      /\ d \in Inr /\ R[d] > 0 /\ R \in [Inr -> Nat] /\ Tree(v) /\ DiskOK(v)
      /\ DOMAIN v.cur \subseteq Inr
  BY Zenon, ReadyIs DEF Ready
<1>2. TableOK(g, H, R2) /\ Given(f, g, n, Mem(g, n).node) /\ g.zmap = f.zmap
  <2>1. ~Ended(g, H, R)
    BY DEF Ended, NoEntry
  <2> QED
    BY <1>1, <2>1, InodeGiven
<1>3. n \in Inr /\ d # n /\ R2[n] > 0 /\ n \notin DOMAIN v.cur
  <2>1. n \in Inr /\ d # n /\ n \notin DOMAIN v.cur
    BY <1>1, <1>2 DEF Given
  <2> QED
    BY <1>1, <2>1, KeepIs
<1> HIDE DEF R2
<1>4. TableOK(m, H, R2) /\ MadeDir(g, m, n, d, b)
  <2>1. TableOK(NewDir(g, n, d, b), H, R2) /\ MadeDir(g, NewDir(g, n, d, b), n, d, b)
    BY <1>1, <1>2, <1>3, NewDirHolds
  <2> QED
    BY <2>1
<1> HIDE DEF m
<1>5. /\ DOMAIN w.cur = DOMAIN v.cur \cup {n} /\ \A k \in DOMAIN v.cur : w.cur[k] = v.cur[k]
      /\ w.cur[n].mode = "dir" /\ w.cur[n].nlinks = 2
      /\ DirOK(w, n) /\ HeldBy(w, n) = {b} /\ EntsOf(w, n) = own
  <2>1. /\ DOMAIN w.cur = DOMAIN Disk(g).cur
        /\ \A k \in DOMAIN Disk(g).cur \ {n} : w.cur[k] = Disk(g).cur[k]
        /\ w.cur[n].mode = "dir" /\ w.cur[n].nlinks = 2
        /\ DirOK(w, n) /\ HeldBy(w, n) = {b} /\ EntsOf(w, n) = own
    BY <1>4 DEF MadeDir
  <2>2. /\ DOMAIN Disk(g).cur = DOMAIN v.cur \cup {n}
        /\ \A k \in DOMAIN v.cur : Disk(g).cur[k] = v.cur[k]
    BY <1>2 DEF Given
  <2> QED
    BY <1>3, <2>1, <2>2
<1>6. /\ b \in Blk /\ b - 1 \notin f.zmap /\ m.zmap = f.zmap \cup {b - 1} /\ m.pinned = f.pinned
      /\ m.status = "ok" /\ \A a \in Blk \ {b} : m.body[a] = f.body[a]
  BY <1>1, <1>2, <1>4 DEF MadeDir, Given
<1>7. w.zmap = m.zmap /\ w.body = m.body /\ w.pinned = m.pinned
  BY DEF Disk
<1>8. v.zmap = f.zmap /\ v.body = f.body /\ v.pinned = f.pinned
  BY DEF Disk
<1>9. Mem(m, n).cnt = 1 /\ Mem(m, n).dirt
  <2>1. /\ m.table[Entry(g, n)].num = n /\ m.table[Entry(g, n)].cnt = g.table[Entry(g, n)].cnt
        /\ m.table[Entry(g, n)].dirt /\ \A t \in Slot \ {Entry(g, n)} : m.table[t] = g.table[t]
    BY <1>4 DEF MadeDir
  <2>2. g.table[Entry(g, n)].num = n
    BY <1>2, <1>3, HeldIs
  <2>3. \A t \in Slot : m.table[t].num = g.table[t].num
    BY <2>1, <2>2
  <2>4. Entry(m, n) = Entry(g, n)
    BY <2>3, SameEntry
  <2>5. g.table[Entry(g, n)].cnt = 1
    BY <1>2 DEF Given, Mem
  <2> QED
    BY <2>1, <2>4, <2>5 DEF Mem
<1> HIDE DEF v, w, own
<1>10. LiveIn(w) = LiveIn(v) \cup {n} /\ DirsIn(w) = DirsIn(v) \cup {n} /\ n \notin DirsIn(v)
  <2>1. LiveIn(w) = LiveIn(v) \cup {n}
    BY <1>5 DEF LiveIn
  <2>2. \A k \in LiveIn(v) : w.cur[k] = v.cur[k]
    BY <1>5 DEF LiveIn
  <2>3. n \notin DirsIn(v)
    BY <1>3 DEF DirsIn, LiveIn
  <2> QED
    BY <1>5, <2>1, <2>2, <2>3 DEF DirsIn
<1>11. ASSUME NEW k \in DirsIn(w) \ {n}
       PROVE  k \in DirsIn(v) /\ Kept(v, w, k) /\ HeldBy(w, n) \cap HeldBy(v, k) = {}
  <2>1. k \in DirsIn(v) /\ k \in DOMAIN v.cur
    BY <1>10, <1>11 DEF DirsIn, LiveIn
  <2>2. DirOK(v, k)
    BY <1>1, <2>1 DEF DiskOK
  <2>3. HeldBy(v, k) \subseteq Blk /\ \A a \in HeldBy(v, k) : a - 1 \in f.zmap
    BY <1>8, <2>2, BlockIsHeld DEF DirOK, Marks
  <2>4. b \notin HeldBy(v, k)
    BY <1>6, <2>3
  <2>5. \A a \in HeldBy(v, k) : w.body[a] = v.body[a] /\ a - 1 \in w.zmap
    BY <1>6, <1>7, <1>8, <2>3, <2>4
  <2> QED
    BY <1>5, <2>1, <2>4, <2>5 DEF Kept
<1>12. /\ DiskOK(w)
       /\ \A k \in DirsIn(w) \ {n} : EntsOf(w, k) = EntsOf(v, k) /\ HeldBy(w, k) = HeldBy(v, k)
  <2>1. \A k \in DirsIn(w) \ {n} : k \in DirsIn(v) /\ Kept(v, w, k)
    BY <1>11
  <2>2. n \in DirsIn(w) => /\ DirOK(w, n)
                           /\ \A k \in DirsIn(w) \ {n} : HeldBy(w, n) \cap HeldBy(v, k) = {}
    BY <1>5, <1>11
  <2>3. \A a \in w.pinned : a - 1 \in w.zmap
    BY <1>1, <1>6, <1>7, <1>8 DEF DiskOK
  <2> QED
    BY <1>1, <2>1, <2>2, <2>3, DiskFrame
<1>13. \A k \in DirsIn(v) : EntsOf(w, k) = EntsOf(v, k)
  BY <1>10, <1>12
<1>14. EntsIn(w) = EntsIn(v) \cup own
  BY <1>5, <1>10, <1>13, EntsInDirs
<1>15. b - 1 \in m.zmap
  BY <1>6
<1>16. DirGiven(f, m, n, d, b)
  <2>1. n \in Inr /\ n \notin DOMAIN v.cur /\ m.status = "ok" /\ m.pinned = f.pinned
    BY <1>3, <1>6
  <2>2. /\ DOMAIN w.cur = DOMAIN v.cur \cup {n} /\ \A k \in DOMAIN v.cur : w.cur[k] = v.cur[k]
        /\ w.cur[n].nlinks = 2 /\ HeldBy(w, n) = {b}
    BY <1>5
  <2>3. b \in Blk /\ b - 1 \notin f.zmap
    BY <1>6
  <2>4. /\ DiskOK(w) /\ LiveIn(w) = LiveIn(v) \cup {n} /\ DirsIn(w) = DirsIn(v) \cup {n}
        /\ EntsIn(w) = EntsIn(v) \cup own /\ \A k \in DirsIn(v) : EntsOf(w, k) = EntsOf(v, k)
    BY <1>10, <1>12, <1>13, <1>14
  <2> QED
    BY <1>9, <1>15, <2>1, <2>2, <2>3, <2>4 DEF DirGiven, v, w, own
<1> QED
  BY <1>4, <1>16 DEF m, R2
\* What the disk is when an inode has got another number of links.
LEMMA RelinkedIs ==
    ASSUME NEW f, NEW H, NEW R, TableOK(f, H, R), DiskOK(Disk(f)), NEW n \in LiveIn(Disk(f)),
           NEW g, NEW x \in 0 .. NrLinks - 1, Relinked(f, g, n, x), x > 0 \/ n \notin DirsIn(Disk(f))
    PROVE  /\ DiskOK(Disk(g)) /\ DirsIn(Disk(g)) = DirsIn(Disk(f)) /\ EntsIn(Disk(g)) = EntsIn(Disk(f))
           /\ LiveIn(Disk(g)) = IF x > 0 THEN LiveIn(Disk(f)) ELSE LiveIn(Disk(f)) \ {n}
           /\ DOMAIN Disk(g).cur = DOMAIN Disk(f).cur /\ Disk(g).cur[n].nlinks = x
           /\ \A m \in DOMAIN Disk(f).cur \ {n} : Disk(g).cur[m] = Disk(f).cur[m]
<1> DEFINE v == Disk(f)
           w == Disk(g)
           nd == Linked(v.cur[n], x)
           c2 == With(v.cur, n, nd)
<1>1. n \in DOMAIN v.cur /\ v.cur[n] \in Node /\ DOMAIN v.cur \subseteq Inr
  <2>1. DOMAIN v.cur = f.imap \cap Inr /\ \A m \in f.imap \cap Inr : v.cur[m] \in Node
    BY CurIs
  <2>2. n \in DOMAIN v.cur
    BY DEF LiveIn
  <2> QED
    BY <2>1, <2>2
<1>2. /\ nd.nlinks = x /\ nd.mode = v.cur[n].mode /\ nd.zone = v.cur[n].zone
      /\ nd.size = v.cur[n].size
  BY <1>1, LinkedIs
<1>3. w.cur = c2 /\ w.zmap = v.zmap /\ w.body = v.body /\ w.pinned = v.pinned
  <2>1. w.cur = c2 /\ g.zmap = f.zmap /\ g.body = f.body /\ g.pinned = f.pinned
    BY DEF Relinked
  <2>2. w.zmap = g.zmap /\ w.body = g.body /\ w.pinned = g.pinned
    BY DEF Disk
  <2>3. v.zmap = f.zmap /\ v.body = f.body /\ v.pinned = f.pinned
    BY DEF Disk
  <2> QED
    BY <2>1, <2>2, <2>3
<1> HIDE DEF nd
<1>4. DOMAIN c2 = DOMAIN v.cur /\ c2[n] = nd /\ \A m \in DOMAIN v.cur \ {n} : c2[m] = v.cur[m]
  <2> HIDE DEF v
  <2> QED
    BY <1>1 DEF With
<1> HIDE DEF c2, w, v
<1>5. /\ DOMAIN w.cur = DOMAIN v.cur /\ w.cur[n] = nd
      /\ \A m \in DOMAIN v.cur \ {n} : w.cur[m] = v.cur[m]
  BY <1>3, <1>4
<1>6. n \in LiveIn(v) /\ v.cur[n].nlinks > 0
  BY DEF LiveIn, v
<1>7. LiveIn(w) = IF x > 0 THEN LiveIn(v) ELSE LiveIn(v) \ {n}
  <2>1. ASSUME NEW m
        PROVE  m \in LiveIn(w) <=> m \in LiveIn(v) /\ (m = n => x > 0)
    <3>1. CASE m = n
      <4>1. m \in LiveIn(w) <=> x > 0
        BY <1>1, <1>2, <1>5, <3>1 DEF LiveIn, v
      <4> QED
        BY <1>6, <3>1, <4>1
    <3>2. CASE m # n
      BY <1>5, <3>2 DEF LiveIn
    <3> QED
      BY <3>1, <3>2
  <2>2. CASE x > 0
    BY <2>1, <2>2
  <2>3. CASE ~(x > 0)
    BY <2>1, <2>3
  <2> QED
    BY <2>2, <2>3
<1>8. \A m \in LiveIn(w) : /\ m \in LiveIn(v) /\ w.cur[m].mode = v.cur[m].mode
                           /\ w.cur[m].zone = v.cur[m].zone /\ w.cur[m].size = v.cur[m].size
  <2>1. \A m \in LiveIn(w) : m \in LiveIn(v) /\ m \in DOMAIN v.cur
    BY <1>7 DEF LiveIn
  <2>2. \A m \in LiveIn(w) \ {n} : w.cur[m] = v.cur[m]
    BY <1>5, <2>1
  <2> QED
    BY <1>2, <1>5, <2>1, <2>2 DEF v
<1>9. DirsIn(w) = DirsIn(v)
  <2>1. x > 0 \/ n \notin DirsIn(v)
    BY DEF v
  <2>2. \A m \in DirsIn(v) : m \in LiveIn(w)
    BY <1>7, <2>1 DEF DirsIn
  <2> QED
    BY <1>8, <2>2 DEF DirsIn
<1>10. \A m \in DirsIn(w) : m \in DirsIn(v) /\ Kept(v, w, m)
  <2>1. ASSUME NEW m \in DirsIn(w)
        PROVE  m \in DirsIn(v) /\ Kept(v, w, m)
    <3>1. m \in DirsIn(v) /\ m \in LiveIn(w)
      BY <1>9 DEF DirsIn
    <3>2. \A b \in HeldBy(v, m) : b - 1 \in v.zmap
      BY <3>1 DEF DiskOK, DirOK, Marks, v
    <3> QED
      BY <1>3, <1>8, <3>1, <3>2 DEF Kept
  <2> QED
    BY <2>1
<1>11. DOMAIN w.cur \subseteq Inr /\ \A b \in w.pinned : b - 1 \in w.zmap
  BY <1>1, <1>3, <1>5 DEF DiskOK, v
<1>12. DiskOK(w) /\ EntsIn(w) = {e \in EntsIn(v) : e[1] \in DirsIn(w)}
  <2>1. DiskOK(v)
    BY DEF v
  <2> QED
    BY <1>10, <1>11, <2>1, DiskStays
<1>13. \A e \in EntsIn(v) : e[1] \in DirsIn(v)
  BY EntsAre DEF EntsIn
<1>14. EntsIn(w) = EntsIn(v) /\ w.cur[n].nlinks = x
  <2>1. EntsIn(w) = EntsIn(v)
    BY <1>9, <1>12, <1>13
  <2>2. nd.nlinks = x
    BY <1>2
  <2> QED
    BY <1>5, <2>1, <2>2
<1> QED
  BY <1>5, <1>7, <1>9, <1>12, <1>14 DEF v, w

\* The name of the new directory is entered, or it is not.
DirIn(f, m, h, d, n, S) ==
    /\ h.status = "ok" /\ DiskOK(Disk(h)) /\ h.pinned = f.pinned
    /\ SameLinks(Disk(m), Disk(h)) /\ m.zmap \subseteq h.zmap
    /\ LiveIn(Disk(h)) = LiveIn(Disk(f)) \cup {n} /\ DirsIn(Disk(h)) = DirsIn(Disk(f)) \cup {n}
    /\ EntsIn(Disk(h)) = (EntsIn(Disk(f)) \cup {<<n, Dot, n>>, <<n, DotDot, d>>}) \cup S
    /\ HeldBy(Disk(h), n) = HeldBy(Disk(m), n)
    /\ Mem(h, n).cnt = 1 /\ Mem(h, n).dirt

\* The name of the new directory is in its parent, if there was room.
LEMMA DirEntered ==
    ASSUME NEW f, NEW H, NEW R, NEW d, Ready(f, H, R, d), NEW n, NEW m, NEW b,
           TableOK(m, H, Hold(R, n)), DirGiven(f, m, n, d, b),
           NEW x \in Name \ (Dotted \cup {Slash}), Child(f, d, x, TRUE) = 0
    PROVE  /\ TableOK(AddEntry(m, d, x, n), H, Hold(R, n))
           /\ DirIn(f, m, AddEntry(m, d, x, n), d, n, Entering(m, d, x, n))
<1> DEFINE h == AddEntry(m, d, x, n)
           S == Entering(m, d, x, n)
<1>1. /\ Fine(f, H, R) /\ d \in DirsIn(Disk(f)) /\ d \in DOMAIN Disk(f).cur
      /\ d \in Inr /\ R[d] > 0 /\ R \in [Inr -> Nat]
  BY Zenon, ReadyIs DEF Ready
<1>2. /\ n \in Inr /\ n \notin DOMAIN Disk(f).cur /\ d # n /\ DiskOK(Disk(m))
      /\ m.status = "ok" /\ m.pinned = f.pinned
      /\ LiveIn(Disk(m)) = LiveIn(Disk(f)) \cup {n} /\ DirsIn(Disk(m)) = DirsIn(Disk(f)) \cup {n}
      /\ EntsIn(Disk(m)) = EntsIn(Disk(f)) \cup {<<n, Dot, n>>, <<n, DotDot, d>>}
      /\ EntsOf(Disk(m), d) = EntsOf(Disk(f), d)
      /\ Mem(m, n).cnt = 1 /\ Mem(m, n).dirt
  BY <1>1 DEF DirGiven
<1>3. Hold(R, n)[d] > 0 /\ Hold(R, n)[n] > 0
  BY <1>1, <1>2, KeepIs
<1>4. \A e \in EntsOf(Disk(m), d) : e[2] # x
  <2>1. \A e \in EntsOf(Disk(f), d) : e[2] # x
    BY Zenon, NameIsFree
  <2> QED
    BY <1>2, <2>1
<1>5. d \in DirsIn(Disk(m)) /\ x \in Name
  BY <1>1, <1>2
<1>6. /\ TableOK(h, H, Hold(R, n)) /\ Widened(m, h, d) /\ DiskOK(Disk(h))
      /\ SameLinks(Disk(m), Disk(h))
      /\ LiveIn(Disk(h)) = LiveIn(Disk(m)) /\ DirsIn(Disk(h)) = DirsIn(Disk(m))
      /\ \A k \in DirsIn(Disk(m)) \ {d} : HeldBy(Disk(h), k) = HeldBy(Disk(m), k)
      /\ EntsIn(Disk(h)) = EntsIn(Disk(m)) \cup S
  BY <1>1, <1>2, <1>3, <1>4, <1>5, NameEntered DEF Entering
<1>7. m.zmap \subseteq h.zmap
  <2>1. DOMAIN m = Fields
    BY DEF TableOK, IsFs
  <2> QED
    BY <2>1, AddEntryMarks
<1> HIDE DEF h, S
<1>8. \A t \in Slot : h.table[t].num = m.table[t].num
  BY <1>6 DEF Widened
<1>9. Entry(h, n) = Entry(m, n)
  BY <1>8, SameEntry
<1>10. Mem(h, n).cnt = 1 /\ Mem(h, n).dirt /\ h.status = "ok" /\ h.pinned = f.pinned
  <2>1. Entry(m, n) # Entry(m, d) /\ Entry(m, n) \in Slot
    <3>1. m.table[Entry(m, n)].num = n /\ Entry(m, n) \in Slot
      BY <1>2, <1>3, HeldIs
    <3>2. m.table[Entry(m, d)].num = d
      BY <1>1, <1>3, HeldIs
    <3> QED
      BY <1>2, <3>1, <3>2
  <2>2. h.table[Entry(m, n)] = m.table[Entry(m, n)] /\ h.status = m.status /\ h.pinned = m.pinned
    BY <1>6, <2>1 DEF Widened
  <2>3. Mem(h, n) = Mem(m, n)
    BY <1>9, <2>2 DEF Mem
  <2> QED
    BY <1>2, <2>2, <2>3
<1>11. HeldBy(Disk(h), n) = HeldBy(Disk(m), n)
  BY <1>2, <1>6
<1>12. DirIn(f, m, h, d, n, S)
  BY <1>2, <1>6, <1>7, <1>10, <1>11 DEF DirIn
<1> QED
  BY <1>6, <1>12 DEF h, S
\* mkdir that makes the directory.
LEMMA MkdirHolds ==
    ASSUME NEW f, NEW H, NEW R, NEW d, Ready(f, H, R, d),
           NEW x \in Name \ (Dotted \cup {Slash}), Child(f, d, x, TRUE) = 0,
           NEW n, n = NewInodeNr(f), n # 0, NEW g, g = NewInode(f), g.status = "ok",
           NEW b, b = NewBlockNr(g), b # 0, NoneInherited(g, n),
           NEW m, m = NewDir(g, n, d, b), Room(m, d), ~LastLink(f, d)
    PROVE  Done(f, PutBack(PutBack(Links(AddEntry(m, d, x, n), d, 1), d), n), H)
<1> DEFINE h == AddEntry(m, d, x, n)
           R2 == Hold(R, n)
           l == PutBack(Links(h, d, 1), d)
           v == Disk(f)
           w == Disk(h)
           u == Disk(l)
           y == w.cur[d].nlinks + 1
           own == {<<n, Dot, n>>, <<n, DotDot, d>>}
<1>1. /\ Fine(f, H, R) /\ d \in DirsIn(v) /\ d \in LiveIn(v) /\ d \in DOMAIN v.cur
      /\ d \in Inr /\ R[d] > 0 /\ R \in [Inr -> Nat] /\ Tree(v)
  BY Zenon, ReadyIs DEF Ready
<1>2. TableOK(m, H, R2) /\ DirGiven(f, m, n, d, b)
  <2>1. TableOK(NewDir(g, n, d, b), H, Hold(R, n))
    BY DirIsGiven
  <2>2. DirGiven(f, NewDir(g, n, d, b), n, d, b)
    BY DirIsGiven
  <2> QED
    BY <2>1, <2>2
<1>3. TableOK(h, H, R2) /\ DirIn(f, m, h, d, n, {<<d, x, n>>})
  <2>1. TableOK(AddEntry(m, d, x, n), H, Hold(R, n))
    BY Zenon, <1>2, DirEntered
  <2>2. DirIn(f, m, AddEntry(m, d, x, n), d, n, Entering(m, d, x, n))
    BY Zenon, <1>2, DirEntered
  <2>3. Entering(m, d, x, n) = {<<d, x, n>>}
    BY DEF Entering
  <2> QED
    BY <2>1, <2>2, <2>3
<1> HIDE DEF h
<1>4. /\ n \in Inr /\ n \notin DOMAIN v.cur /\ d # n /\ R2 \in [Inr -> Nat]
      /\ R2[n] = R[n] + 1 /\ R2[n] > 0 /\ R2[d] = R[d]
  <2>1. n \in Inr /\ n \notin DOMAIN v.cur /\ d # n
    BY <1>1, <1>2 DEF DirGiven
  <2> QED
    BY <1>1, <2>1, KeepIs
<1> HIDE DEF R2
<1>5. /\ DiskOK(w) /\ h.status = "ok"
      /\ LiveIn(w) = LiveIn(v) \cup {n} /\ DirsIn(w) = DirsIn(v) \cup {n}
      /\ EntsIn(w) = (EntsIn(v) \cup own) \cup {<<d, x, n>>}
      /\ DOMAIN w.cur = DOMAIN v.cur \cup {n} /\ w.cur[n].nlinks = 2
      /\ \A k \in DOMAIN v.cur : w.cur[k].nlinks = v.cur[k].nlinks
  <2>1. /\ DOMAIN Disk(m).cur = DOMAIN v.cur \cup {n} /\ Disk(m).cur[n].nlinks = 2
        /\ \A k \in DOMAIN v.cur : Disk(m).cur[k] = v.cur[k]
    BY <1>2 DEF DirGiven
  <2>2. /\ DOMAIN w.cur = DOMAIN Disk(m).cur
        /\ \A k \in DOMAIN Disk(m).cur : w.cur[k].nlinks = Disk(m).cur[k].nlinks
    BY <1>3 DEF DirIn, SameLinks
  <2> QED
    BY <1>3, <2>1, <2>2 DEF DirIn
<1>6. w.cur[d].nlinks \in Nat /\ d \in LiveIn(w) /\ y \in 0 .. NrLinks - 1 /\ y > 0
  <2>1. DOMAIN w.cur = h.imap \cap Inr /\ \A k \in h.imap \cap Inr : w.cur[k] \in Node
    BY <1>3, CurIs
  <2>2. w.cur[d] \in Node
    BY <1>1, <1>5, <2>1
  <2>3. w.cur[d].nlinks \in 0 .. NrLinks - 1
    BY <2>2 DEF Node
  <2>4. w.cur[d].nlinks # NrLinks - 1
    <3>1. Mem(f, d).node = v.cur[d]
      BY ReadyIs
    <3>2. v.cur[d].nlinks # NrLinks - 1
      BY <3>1 DEF LastLink
    <3> QED
      BY <1>1, <1>5, <3>2
  <2>5. y \in 0 .. NrLinks - 1 /\ y > 0
    BY <2>3, <2>4, InodesAssumption
  <2> QED
    BY <1>1, <1>5, <2>3, <2>5
<1> HIDE DEF y
<1>7. TableOK(l, H, Less(R2, d)) /\ Relinked(h, l, d, y)
  <2>1. y = Disk(h).cur[d].nlinks + 1 /\ 1 \in Int
    BY DEF y
  <2>0. d \in Inr /\ R2[d] > 0
    BY <1>1, <1>4
  <2>2. TableOK(PutBack(Links(h, d, 1), d), H, Less(R2, d))
    BY <1>3, <1>6, <2>0, <2>1, RelinkHolds
  <2>3. Relinked(h, PutBack(Links(h, d, 1), d), d, y)
    BY <1>3, <1>6, <2>0, <2>1, RelinkHolds
  <2> QED
    BY <2>2, <2>3
<1> HIDE DEF l
<1>8. /\ DiskOK(u) /\ DirsIn(u) = DirsIn(w) /\ EntsIn(u) = EntsIn(w)
      /\ LiveIn(u) = IF y > 0 THEN LiveIn(w) ELSE LiveIn(w) \ {d}
      /\ DOMAIN u.cur = DOMAIN w.cur /\ u.cur[d].nlinks = y
      /\ \A k \in DOMAIN w.cur \ {d} : u.cur[k] = w.cur[k]
  BY <1>3, <1>5, <1>6, <1>7, RelinkedIs
<1> HIDE DEF u, w, v, own
<1>9. Tree(u) /\ Leads(v, u)
  <2> DEFINE c == LinksOf(v)
             c2 == LinksOf(u)
  <2>1. /\ LiveIn(u) = LiveIn(v) \cup {n} /\ DirsIn(u) = DirsIn(v) \cup {n}
        /\ EntsIn(u) = (EntsIn(v) \cup own) \cup {<<d, x, n>>}
    BY <1>5, <1>6, <1>8
  <2>2. TreeOK(LiveIn(v), DirsIn(v), EntsIn(v), c)
    BY <1>1, TreeIs
  <2>3. c2[n] = 2 /\ c2[d] = c[d] + 1 /\ \A k \in LiveIn(v) \ {d} : c2[k] = c[k]
    <3>1. \A k \in LiveIn(v) : k \in DOMAIN v.cur /\ k # n
      BY <1>4 DEF LiveIn
    <3>2. u.cur[n].nlinks = 2 /\ \A k \in LiveIn(v) \ {d} : u.cur[k].nlinks = v.cur[k].nlinks
      BY <1>4, <1>5, <1>8, <3>1
    <3>3. u.cur[d].nlinks = v.cur[d].nlinks + 1
      BY <1>1, <1>5, <1>8 DEF y
    <3>4. n \in DOMAIN u.cur /\ d \in DOMAIN u.cur /\ \A k \in LiveIn(v) : k \in DOMAIN u.cur
      BY <1>1, <1>5, <1>8, <3>1
    <3>5. \A k \in DOMAIN v.cur : c[k] = v.cur[k].nlinks
      BY TreeIs
    <3>6. \A k \in DOMAIN u.cur : c2[k] = u.cur[k].nlinks
      BY TreeIs
    <3> HIDE DEF c, c2
    <3>7. c2[n] = 2
      BY <3>2, <3>4, <3>6
    <3>8. c2[d] = c[d] + 1
      BY <1>1, <3>3, <3>4, <3>5, <3>6
    <3>9. \A k \in LiveIn(v) \ {d} : c2[k] = c[k]
      BY <3>1, <3>2, <3>4, <3>5, <3>6
    <3> QED
      BY <3>7, <3>8, <3>9
  <2>4. n \notin LiveIn(v)
    BY <1>4 DEF LiveIn
  <2>5. \A e \in EntsIn(v) : e[1] = d => e[2] # x
    <3>1. Ready(f, H, R, d) /\ Child(f, d, x, TRUE) = 0
      BY Zenon
    <3>2. \A e \in EntsIn(Disk(f)) : e[1] = d => e[2] # x
      BY ONLY Zenon, <3>1, NameIsFree
    <3> QED
      BY <3>2 DEF v
  <2> HIDE DEF c, c2
  <2>6. TreeOK(LiveIn(v) \cup {n}, DirsIn(v) \cup {n}, (EntsIn(v) \cup own) \cup {<<d, x, n>>}, c2)
    BY Zenon, <1>1, <2>2, <2>3, <2>4, <2>5, TreeMkdir DEF own
  <2>7. Tree(u)
    BY Zenon, <2>1, <2>6, TreeIs DEF c2
  <2>8. Moves(DirsIn(v), Plain(EntsIn(v)), DirsIn(v) \cup {n},
              Plain((EntsIn(v) \cup own) \cup {<<d, x, n>>}))
    <3>1. x \in Name \ Dotted /\ \A e \in own : e[2] \in Dotted
      BY DEF own, Dotted
    <3> QED
      BY Zenon, <1>1, <1>4, <2>2, <2>4, <2>5, <3>1, NewMoves
  <2>9. Leads(v, u)
    BY <2>1, <2>8 DEF Leads
  <2> QED
    BY <2>7, <2>9
<1>10. Fine(l, H, Less(R2, d)) /\ Leads(Disk(f), Disk(l))
  <2>1. l.status = "ok"
    BY <1>5, <1>7 DEF Relinked
  <2> QED
    BY <1>7, <1>8, <1>9, <2>1 DEF Fine, u, v
<1>11. Less(R2, d)[n] > 0
  BY <1>1, <1>4, KeepIs
<1>12. Done(f, PutBack(l, n), H)
  BY <1>4, <1>10, <1>11, FinishPut
<1> QED
  BY <1>12 DEF l, h
\* A block is given back.
BlockFreed(f, g, b) ==
    /\ IsFs(g) /\ g.table = f.table /\ g.imap = f.imap /\ g.dev = f.dev /\ g.pinned = f.pinned
    /\ g.body = f.body /\ g.status = f.status /\ g.zmap = f.zmap \ {b - 1}

\* free_block of a block that is marked and not pinned clears its bit, and no more.
LEMMA FreeBlockIs ==
    ASSUME NEW f, IsFs(f), NEW b \in Blk, b \notin f.pinned, b - 1 \in f.zmap
    PROVE  BlockFreed(f, FreeBlock(f, b), b)
<1> DEFINE g == [f EXCEPT !.zmap = @ \ {b - 1}]
<1>1. FreeBlock(f, b) = g
  BY DEF FreeBlock
<1>2. DOMAIN f = Fields
  BY DEF IsFs
<1>3. /\ DOMAIN g = Fields /\ g.table = f.table /\ g.imap = f.imap /\ g.dev = f.dev
      /\ g.pinned = f.pinned /\ g.body = f.body /\ g.status = f.status
      /\ g.zmap = f.zmap \ {b - 1}
  BY <1>2 DEF Fields
<1> HIDE DEF g
<1>4. IsFs(g)
  BY <1>3 DEF IsFs
<1> QED
  BY <1>1, <1>3, <1>4 DEF BlockFreed

\* mkdir that finds no place for the name: FS gives up the block and the inode.
LEMMA MkdirFailsHolds ==
    ASSUME NEW f, NEW H, NEW R, NEW d, Ready(f, H, R, d),
           NEW x \in Name \ (Dotted \cup {Slash}), Child(f, d, x, TRUE) = 0,
           NEW n, n = NewInodeNr(f), n # 0, NEW g, g = NewInode(f), g.status = "ok",
           NEW b, b = NewBlockNr(g), b # 0, NoneInherited(g, n),
           NEW m, m = NewDir(g, n, d, b), ~Room(m, d)
    PROVE  Done(f, Abandon(FreeBlock(PutBack(AddEntry(m, d, x, n), d), b), n), H)
<1> DEFINE h == AddEntry(m, d, x, n)
           R2 == Hold(R, n)
           R3 == Less(R2, d)
           p == PutBack(h, d)
           q == FreeBlock(p, b)
           a == Abandon(q, n)
           v == Disk(f)
           w == Disk(h)
           u == Disk(a)
           own == {<<n, Dot, n>>, <<n, DotDot, d>>}
<1>1. /\ Fine(f, H, R) /\ d \in DirsIn(v) /\ d \in LiveIn(v) /\ d \in DOMAIN v.cur
      /\ d \in Inr /\ R[d] > 0 /\ R \in [Inr -> Nat] /\ Tree(v) /\ DiskOK(v)
  BY ReadyIs DEF Ready
<1>2. TableOK(m, H, R2) /\ DirGiven(f, m, n, d, b)
  <2>1. TableOK(NewDir(g, n, d, b), H, Hold(R, n))
    BY DirIsGiven
  <2>2. DirGiven(f, NewDir(g, n, d, b), n, d, b)
    BY DirIsGiven
  <2> QED
    BY <2>1, <2>2
<1>3. TableOK(h, H, R2) /\ DirIn(f, m, h, d, n, {})
  <2>1. TableOK(AddEntry(m, d, x, n), H, Hold(R, n))
    BY Zenon, <1>2, DirEntered
  <2>2. DirIn(f, m, AddEntry(m, d, x, n), d, n, Entering(m, d, x, n))
    BY Zenon, <1>2, DirEntered
  <2>3. Entering(m, d, x, n) = {}
    BY DEF Entering
  <2> QED
    BY <2>1, <2>2, <2>3
<1> HIDE DEF h
<1>4. /\ n \in Inr /\ n \notin DOMAIN v.cur /\ d # n /\ R2 \in [Inr -> Nat]
      /\ R2[n] = R[n] + 1 /\ R2[n] > 0 /\ R2[d] = R[d] /\ R2[d] > 0
  <2>1. n \in Inr /\ n \notin DOMAIN v.cur /\ d # n
    BY <1>1, <1>2 DEF DirGiven
  <2> QED
    BY <1>1, <2>1, KeepIs
<1> HIDE DEF R2
<1>5. /\ DiskOK(w) /\ h.status = "ok" /\ h.pinned = f.pinned
      /\ LiveIn(w) = LiveIn(v) \cup {n} /\ DirsIn(w) = DirsIn(v) \cup {n}
      /\ EntsIn(w) = EntsIn(v) \cup own /\ HeldBy(w, n) = {b}
      /\ b \in Blk /\ b - 1 \notin f.zmap /\ b - 1 \in h.zmap
      /\ DOMAIN w.cur = DOMAIN v.cur \cup {n}
      /\ \A k \in DOMAIN v.cur : w.cur[k].nlinks = v.cur[k].nlinks
  <2>1. /\ DOMAIN Disk(m).cur = DOMAIN v.cur \cup {n}
        /\ \A k \in DOMAIN v.cur : Disk(m).cur[k] = v.cur[k]
        /\ b \in Blk /\ b - 1 \notin f.zmap /\ b - 1 \in m.zmap /\ HeldBy(Disk(m), n) = {b}
    BY <1>2 DEF DirGiven
  <2>2. /\ DOMAIN w.cur = DOMAIN Disk(m).cur
        /\ \A k \in DOMAIN Disk(m).cur : w.cur[k].nlinks = Disk(m).cur[k].nlinks
    BY <1>3 DEF DirIn, SameLinks
  <2>3. EntsIn(w) = EntsIn(v) \cup own
    BY <1>3 DEF DirIn
  <2> QED
    BY <1>3, <2>1, <2>2, <2>3 DEF DirIn
<1>6. Less(R2, d)[n] > 0
  BY <1>1, <1>4, KeepIs
<1>7. /\ TableOK(p, H, R3) /\ Disk(p) = w /\ p.status = h.status
      /\ \A t \in Slot \ {Entry(h, d)} : p.table[t] = h.table[t]
      /\ \A k : Entry(p, k) = Entry(h, k)
  <2>1. TableOK(p, H, R3) /\ Disk(p) = Disk(h) /\ p.status = h.status
    BY <1>1, <1>3, <1>4, PutBackHolds
  <2>2. \A t \in Slot \ {Entry(h, d)} : p.table[t] = h.table[t]
    BY <1>1, <1>3, <1>4, PutBackTable
  <2>3. \A k : Entry(p, k) = Entry(h, k)
    BY <1>1, <1>3, <1>4, PutBackTable
  <2> QED
    BY <2>1, <2>2, <2>3
<1> HIDE DEF p, R3
<1>8. Mem(p, n).cnt = 1 /\ Mem(p, n).dirt
  <2>1. h.table[Entry(h, n)].num = n /\ Entry(h, n) \in Slot
    BY <1>3, <1>4, HeldIs
  <2>2. h.table[Entry(h, d)].num = d
    BY <1>1, <1>3, <1>4, HeldIs
  <2>3. p.table[Entry(h, n)] = h.table[Entry(h, n)]
    BY <1>4, <1>7, <2>1, <2>2
  <2>4. Mem(p, n) = Mem(h, n)
    BY <1>7, <2>3 DEF Mem
  <2> QED
    BY <1>3, <2>4 DEF DirIn
<1>9. p.zmap = h.zmap /\ p.body = h.body /\ p.pinned = h.pinned
  BY <1>7, DiskIs
<1>10. b \notin f.pinned
  <2>1. \A c \in v.pinned : c - 1 \in v.zmap
    BY <1>1 DEF DiskOK
  <2>2. v.pinned = f.pinned /\ v.zmap = f.zmap
    BY DEF Disk
  <2> QED
    BY <1>5, <2>1, <2>2
<1>11. BlockFreed(p, q, b)
  BY <1>5, <1>7, <1>9, <1>10, FreeBlockIs DEF TableOK
<1> HIDE DEF q
<1>12. TableOK(q, H, R3) /\ Disk(q).cur = w.cur /\ Mem(q, n) = Mem(p, n)
  <2>1. TableOK(q, H, R3) /\ Disk(q).cur = Disk(p).cur
    BY <1>7, <1>11, TableKept DEF BlockFreed
  <2>2. \A t \in Slot : q.table[t].num = p.table[t].num
    BY <1>11 DEF BlockFreed
  <2>3. Entry(q, n) = Entry(p, n)
    BY <2>2, SameEntry
  <2>4. Mem(q, n) = Mem(p, n)
    BY <1>11, <2>3 DEF Mem, BlockFreed
  <2> QED
    BY <1>7, <2>1, <2>4
<1>13. TableOK(a, H, Less(R3, n)) /\ Relinked(q, a, n, 0)
  BY <1>4, <1>6, <1>8, <1>12, AbandonHolds DEF R3
<1> HIDE DEF a
<1>14. WithoutLinks(w, u, n)
  <2>1. u.cur = With(w.cur, n, Linked(w.cur[n], 0)) /\ a.zmap = q.zmap /\ a.body = q.body
        /\ a.pinned = q.pinned
    BY <1>12, <1>13 DEF Relinked
  <2>2. u.zmap = a.zmap /\ u.body = a.body /\ u.pinned = a.pinned
    BY DEF Disk
  <2>3. w.zmap = h.zmap /\ w.body = h.body /\ w.pinned = h.pinned
    BY DEF Disk
  <2>4. u.body = w.body /\ u.pinned = w.pinned /\ u.zmap = w.zmap \ {b - 1}
    BY <1>9, <1>11, <2>1, <2>2, <2>3 DEF BlockFreed
  <2>5. w.pinned = f.pinned /\ \A c \in w.pinned : c - 1 \in w.zmap /\ c \in Blk
    <3>1. h.pinned \in SUBSET Blk
      BY <1>3 DEF TableOK
    <3> QED
      BY <1>5, <2>3, <3>1 DEF DiskOK
  <2>6. \A c \in Blk : c # b => c - 1 # b - 1
    BY <1>5, Sizes
  <2>7. ASSUME NEW k \in DirsIn(w) \ {n}, NEW c \in HeldBy(w, k)
        PROVE  c - 1 \in u.zmap
    <3>1. DirOK(w, k) /\ n \in DirsIn(w) /\ HeldBy(w, k) \cap HeldBy(w, n) = {}
      BY <1>5, <2>7 DEF DiskOK
    <3>2. c \in Blk /\ c - 1 \in w.zmap
      BY <2>7, <3>1, BlockIsHeld DEF DirOK, Marks
    <3>3. c # b
      BY <1>5, <2>7, <3>1
    <3> QED
      BY <2>4, <2>6, <3>2, <3>3
  <2>8. \A c \in w.pinned : c - 1 \in u.zmap
    BY <1>10, <2>4, <2>5, <2>6
  <2>9. n \in DOMAIN w.cur
    BY <1>5
  <2> QED
    BY <2>1, <2>4, <2>7, <2>8, <2>9 DEF WithoutLinks
<1>15. w.cur[n] \in Node /\ DOMAIN w.cur \subseteq Inr
  BY <1>3, <1>5, CurIs
<1> HIDE DEF u, w, v, own
<1>16. /\ DiskOK(u) /\ LiveIn(u) = LiveIn(w) \ {n} /\ DirsIn(u) = DirsIn(w) \ {n}
       /\ EntsIn(u) = {e \in EntsIn(w) : e[1] # n}
       /\ \A k \in DOMAIN w.cur \ {n} : u.cur[k] = w.cur[k]
  BY <1>5, <1>14, <1>15, WithoutLinksIs
<1>17. Tree(u) /\ Leads(v, u)
  <2>1. n \notin LiveIn(v) /\ n \notin DirsIn(v) /\ LiveIn(v) \subseteq DOMAIN v.cur
    BY <1>4 DEF LiveIn, DirsIn
  <2>2. \A e \in EntsIn(v) : e[1] \in DirsIn(v)
    BY EntsAre DEF EntsIn
  <2>3. \A e \in own : e[1] = n
    BY DEF own
  <2>4. LiveIn(u) = LiveIn(v) /\ DirsIn(u) = DirsIn(v)
    BY <1>5, <1>16, <2>1
  <2>5. EntsIn(u) = EntsIn(v)
    BY <1>5, <1>16, <2>1, <2>2, <2>3
  <2>6. \A k \in LiveIn(v) : u.cur[k].nlinks = v.cur[k].nlinks
    BY <1>4, <1>5, <1>16, <2>1
  <2> QED
    BY <1>1, <2>4, <2>5, <2>6, TreeStays
<1>18. Fine(a, H, Less(R3, n)) /\ Leads(Disk(f), Disk(a))
  <2>1. a.status = "ok"
    BY <1>5, <1>7, <1>11, <1>13 DEF Relinked, BlockFreed
  <2> QED
    BY <1>13, <1>16, <1>17, <2>1 DEF Fine, u, v
<1>19. Done(f, a, H)
  BY <1>18, Finish
<1> QED
  BY <1>19 DEF a, q, p, h

-----------------------------------------------------------------------------
(* Calls about a name that is there.                                         *)

\* Its inode is fetched while the directory is kept.
Taken(f, g, H, R, d, x, n) ==
    /\ Ready(g, H, Hold(R, n), d) /\ Disk(g) = Disk(f) /\ n = Child(g, d, x, TRUE)
    /\ n \in Inr /\ Hold(R, n)[n] > 0

\* The inode of a name is got while its directory is kept: both stay, and the disk is as it was.
LEMMA Fetching ==
    ASSUME NEW f, NEW H, NEW R, NEW d, Ready(f, H, R, d), NEW x,
           NEW n, n = Child(f, d, x, TRUE), n # 0, NEW g, g = Iget(f, n), g.status = "ok"
    PROVE  Taken(f, g, H, R, d, x, n)
<1>1. /\ TableOK(f, H, R) /\ f.status = "ok" /\ DiskOK(Disk(f)) /\ Tree(Disk(f))
      /\ d \in DirsIn(Disk(f)) /\ d \in Inr /\ R[d] > 0 /\ R \in [Inr -> Nat]
      /\ DirOK(Disk(f), d)
  BY ReadyIs
<1>2. <<d, x, n>> \in EntsIn(Disk(f)) /\ n \in LiveIn(Disk(f)) /\ n \in Inr
  BY Zenon, NameIsThere
<1>3. TableOK(g, H, Hold(R, n)) /\ Disk(g) = Disk(f)
  <2>1. ~Ended(g, H, R)
    BY Zenon DEF Ended, NoEntry
  <2>2. \/ TableOK(Iget(f, n), H, Hold(R, n)) /\ Disk(Iget(f, n)) = Disk(f) /\ Iget(f, n).status = "ok"
        \/ Ended(Iget(f, n), H, R)
    BY Zenon, <1>1, <1>2, IgetHolds
  <2> QED
    BY Zenon, <2>1, <2>2
<1>4. Hold(R, n)[n] > 0 /\ Hold(R, n)[d] > 0
  <2>1. Hold(R, n)[n] > 0 /\ Hold(R, n) \in [Inr -> Nat] /\ \A m \in Inr : Hold(R, n)[m] >= R[m]
    BY ONLY <1>1, <1>2, KeepIs
  <2> QED
    BY ONLY <1>1, <2>1
<1>5. Ready(g, H, Hold(R, n), d)
  BY Zenon, <1>1, <1>3, <1>4 DEF Ready, Fine
<1>6. n = Child(g, d, x, TRUE)
  <2>1. Mem(g, d).node = Disk(g).cur[d] /\ DirOK(Disk(g), d)
    BY Zenon, <1>5, ReadyIs
  <2>2. Child(g, d, x, TRUE) = 0 <=> \A e \in EntsOf(Disk(g), d) : e[2] # x
    BY Zenon, <2>1, ChildIs
  <2>3. Child(g, d, x, TRUE) = 0 \/ <<d, x, Child(g, d, x, TRUE)>> \in EntsOf(Disk(g), d)
    BY Zenon, <2>1, ChildIs
  <2>4. Mem(f, d).node = Disk(f).cur[d]
    BY ReadyIs
  <2>5. n = 0 \/ <<d, x, n>> \in EntsOf(Disk(f), d)
    BY Zenon, <1>1, <2>4, ChildIs
  <2>6. <<d, x, n>> \in EntsOf(Disk(g), d)
    BY Zenon, <1>3, <2>5
  <2>7. Child(g, d, x, TRUE) # 0
    BY Zenon, <2>2, <2>6
  <2> DEFINE r == Child(g, d, x, TRUE)
  <2> HIDE DEF r
  <2>8. <<d, x, r>> \in EntsIn(Disk(f))
    BY Zenon, <1>1, <1>3, <2>3, <2>7 DEF EntsIn, r
  <2>9. \A e, u \in EntsIn(Disk(f)) : e[1] = u[1] /\ e[2] = u[2] => e = u
    BY <1>1 DEF Tree, TreeOK
  <2>10. <<d, x, r>> = <<d, x, n>>
    BY Zenon, <1>2, <2>8, <2>9
  <2> QED
    BY Zenon, <2>10 DEF r
<1> QED
  BY Zenon, <1>2, <1>3, <1>4, <1>5, <1>6 DEF Taken

\* What is_dir_empty looks at is all there is.
LEMMA OnlyDots ==
    ASSUME NEW v, NEW n, DirOK(v, n), n # Root, v.cur[n].size <= BlkSize,
           DOMAIN v.body[BlockIn(v, n, 0)] \subseteq {0, 1}
    PROVE  \A e \in EntsOf(v, n) : e[2] \in Dotted
<1>1. PICK m \in FileBlk : /\ \A k \in FileBlk : BlockIn(v, n, k) # 0 <=> k <= m
                           /\ v.cur[n].size = (m + 1) * BlkSize
  BY DEF DirOK, Shape
<1>2. m = 0
  <2>1. m \in Nat /\ BlkSize \in Nat /\ BlkSize > 0
    BY <1>1, FirstPlaces, InodesAssumption
  <2>2. (m + 1) * BlkSize = m * BlkSize + BlkSize
    BY <2>1
  <2>3. m * BlkSize <= 0
    BY <1>1, <2>1, <2>2
  <2>4. m > 0 => m * BlkSize > 0
    BY <2>1
  <2> QED
    BY <2>1, <2>3, <2>4
<1>3. ASSUME NEW k \in FileBlk, NEW i \in 0 .. PerBlk - 1, Used(v, n, k, i)
      PROVE  Cell(v, n, k, i).name \in Dotted
  <2>1. k = 0
    <3>1. BlockIn(v, n, k) # 0
      BY <1>3 DEF Used
    <3>2. k \in Nat /\ k <= 0
      BY ONLY <1>1, <1>2, <3>1, FirstPlaces, k \in FileBlk
    <3> QED
      BY <3>2
  <2>2. i \in {0, 1}
    BY <1>3, <2>1 DEF Used
  <2>3. Cell(v, n, 0, 0) = [name |-> Dot, nr |-> n] /\ Cell(v, n, 0, 1).name = DotDot
    BY DEF DirOK, Dots
  <2> QED
    BY <2>1, <2>2, <2>3 DEF Dotted
<1> QED
  BY <1>3, EntsAre

\* What rmdir knows of a directory that it finds empty and unused, whatever its name.
EmptyDir(f, d, x, n) ==
    LET v == Disk(f)
    IN  /\ <<d, x, n>> \in EntsIn(v) /\ n \in LiveIn(v) /\ n \in Inr
        /\ Mem(f, n).node = v.cur[n] /\ Mem(f, n).cnt = 1
        /\ Entry(f, n) \in Slot /\ f.table[Entry(f, n)].num = n
        /\ n # d /\ n # Root /\ v.cur[n].mode = "dir" /\ v.cur[n].size <= BlkSize /\ n \in DirsIn(v)
        /\ \A e \in EntsIn(v) : e[1] = n => e[2] \in Dotted

LEMMA EmptyDirIs ==
    ASSUME NEW f, NEW H, NEW R, NEW d, Ready(f, H, R, d), NEW x,
           NEW n, n = Child(f, d, x, TRUE), n # 0, R[n] > 0,
           ~NotRemovable(f, n, d), Emptied(f, n)
    PROVE  EmptyDir(f, d, x, n)
<1> DEFINE v == Disk(f)
           t == <<d, x, n>>
<1>1. /\ TableOK(f, H, R) /\ f.status = "ok" /\ DiskOK(v) /\ Tree(v) /\ Fine(f, H, R)
      /\ d \in DirsIn(v) /\ d \in LiveIn(v) /\ d \in DOMAIN v.cur /\ d \in Inr /\ R[d] > 0
      /\ R \in [Inr -> Nat] /\ DOMAIN v.cur \subseteq Inr
  BY Zenon, ReadyIs DEF Ready
<1>2. t \in EntsIn(v) /\ n \in LiveIn(v) /\ n \in Inr
  BY Zenon, NameIsThere
<1>3. /\ Mem(f, n).node = v.cur[n] /\ Mem(f, n).cnt = 1
      /\ Entry(f, n) \in Slot /\ f.table[Entry(f, n)].num = n
  <2>0. R[n] > 0
    BY Zenon
  <2>1. /\ Entry(f, n) \in Slot /\ f.table[Entry(f, n)].num = n
        /\ f.table[Entry(f, n)].cnt > 0 /\ f.table[Entry(f, n)].cnt \in Nat
        /\ Disk(f).cur[n] = Mem(f, n).node
    BY ONLY <1>1, <1>2, <2>0, HeldIs
  <2>2. Mem(f, n) = f.table[Entry(f, n)]
    BY DEF Mem
  <2>3. ~ (Mem(f, n).cnt > 1)
    BY Zenon DEF NotRemovable
  <2>4. Mem(f, n).cnt = 1
    BY ONLY <2>1, <2>2, <2>3
  <2> QED
    BY Zenon, <2>1, <2>4
<1>4. n # d /\ n # Root /\ v.cur[n].mode = "dir" /\ v.cur[n].size <= BlkSize /\ n \in DirsIn(v)
  <2>1. n \in DOMAIN v.cur /\ DOMAIN v.cur = f.imap \cap Inr
    <3>1. DOMAIN v.cur = f.imap \cap Inr
      BY <1>1, CurIs
    <3> HIDE DEF v
    <3> QED
      BY Zenon, <1>2, <3>1 DEF LiveIn
  <2>2. v.cur[n] \in Node
    BY Zenon, <1>1, <2>1, CurIs
  <2>3. v.cur[n].size \in Nat /\ BlkSize \in Nat
    BY Zenon, <2>2, InodesAssumption DEF Node
  <2>4. n # d /\ n # Root /\ Mem(f, n).node.mode = "dir" /\ ~ (Mem(f, n).node.size > BlkSize)
    BY Zenon DEF NotRemovable, IsDir, TooBig
  <2>5. v.cur[n].mode = "dir" /\ v.cur[n].size <= BlkSize
    BY ONLY <1>3, <2>3, <2>4
  <2>6. n \in DirsIn(v)
    BY ONLY <1>2, <2>5 DEF DirsIn
  <2> QED
    BY Zenon, <2>4, <2>5, <2>6
<1>5. \A e \in EntsOf(v, n) : e[2] \in Dotted
  <2>1. FirstBlk(f, n) = BlockIn(v, n, 0)
    <3>1. BlockOf(v, v.cur[n].zone, 0) = BlockOf(f, v.cur[n].zone, 0)
      <4>1. \A zone : \A k \in FileBlk : BlockOf(Disk(f), zone, k) = BlockOf(f, zone, k)
        BY DiskBlocks
      <4>2. BlockOf(Disk(f), v.cur[n].zone, 0) = BlockOf(f, v.cur[n].zone, 0)
        BY Zenon, <4>1, FirstPlaces
      <4> QED
        BY Zenon, <4>2
    <3> HIDE DEF v
    <3> QED
      BY Zenon, <1>3, <3>1 DEF FirstBlk, Bmap, BlockIn, Mem
  <2>2. DOMAIN v.body[BlockIn(v, n, 0)] \subseteq {0, 1}
    BY Zenon, <2>1 DEF Emptied, Disk
  <2>3. DirOK(v, n)
    BY Zenon, <1>1, <1>4 DEF DiskOK
  <2> QED
    BY Zenon, <1>4, <2>2, <2>3, OnlyDots
<1>6. \A e \in EntsIn(v) : e[1] = n => e[2] \in Dotted
  <2>1. \A m : \A e \in EntsOf(v, m) : e[1] = m
    BY EntsAre
  <2> QED
    BY Zenon, <1>5, <2>1 DEF EntsIn
<1> QED
  BY Zenon, <1>2, <1>3, <1>4, <1>6 DEF EmptyDir

Removing(f, H, R, d, x, n) ==
    /\ Ready(f, H, R, d) /\ n = Child(f, d, x, TRUE) /\ n # 0 /\ R[n] > 0
    /\ ~NotRemovable(f, n, d) /\ Emptied(f, n)

\* It is not reached by "." or "..": these are its parent, or lead from a directory in it.
LEMMA EmptyNotDotted ==
    ASSUME NEW f, NEW H, NEW R, NEW d, NEW x, NEW n, Removing(f, H, R, d, x, n)
    PROVE  EmptyDir(f, d, x, n) /\ x \notin Dotted
<1> DEFINE v == Disk(f)
<1>0. EmptyDir(f, d, x, n)
  BY Zenon, EmptyDirIs DEF Removing
<1>1. /\ <<d, x, n>> \in EntsIn(v) /\ n # d
      /\ \A e \in EntsIn(v) : e[1] = n => e[2] \in Dotted
  BY Zenon, <1>0 DEF EmptyDir
<1>2. Tree(v) /\ d \in DirsIn(v)
  BY Zenon, ReadyIs DEF Removing
<1>3. TreeOK(LiveIn(v), DirsIn(v), EntsIn(v), LinksOf(v))
  BY <1>2, TreeIs
<1> HIDE DEF v
<1>4. x # Dot
  <2>1. \A e \in EntsIn(v) : e[2] = Dot => e[3] = e[1]
    BY <1>3 DEF TreeOK
  <2> QED
    BY <1>1, <2>1
<1>5. CASE x = DotDot
  <2>1. d \in DirsIn(v) \ {Root}
    <3>1. \A e \in EntsIn(v) : e[2] \in Dotted => e[1] # Root
      BY <1>3 DEF TreeOK
    <3> QED
      BY <1>1, <1>2, <1>5, <3>1 DEF Dotted
  <2>2. PICK p \in DirsIn(v), y \in Name \ Dotted : <<d, DotDot, p>> \in EntsIn(v)
                                                    /\ <<p, y, d>> \in EntsIn(v)
    BY <1>3, <2>1 DEF TreeOK
  <2>3. p = n
    <3>1. \A e, u \in EntsIn(v) : e[1] = u[1] /\ e[2] = u[2] => e = u
      BY <1>3 DEF TreeOK
    <3> QED
      BY <1>1, <1>5, <2>2, <3>1
  <2> QED
    BY <1>1, <2>2, <2>3
<1> QED
  <2>1. x \notin Dotted
    BY <1>4, <1>5 DEF Dotted
  <2> QED
    BY <1>0, <2>1

\* An empty directory is removed, and its count is the one rmdir expects.
Removed(f, d, x, n, H) ==
    /\ Mem(f, n).node.nlinks = 2 /\ SamePlace(f, DropEntry(f, d, x), n)
    /\ Done(f, RemovedFrom(DropEntry(f, d, x), d, n), H)

\* rmdir of an empty directory that nobody else uses: it is removed, and the tree makes that step.
LEMMA RmdirCall ==
    ASSUME NEW f, NEW H, NEW R, NEW d, Ready(f, H, R, d), NEW x \in Name \ (Dotted \cup {Slash}),
           NEW n, n = Child(f, d, x, TRUE), n # 0, R[n] > 0,
           ~NotRemovable(f, n, d), Emptied(f, n)
    PROVE  Removed(f, d, x, n, H)
<1> DEFINE h == DropEntry(f, d, x)
           a == RemovedFrom(h, d, n)
           v == Disk(f)
           w == Disk(h)
           u == Disk(a)
           t == <<d, x, n>>
           R2 == Less(Less(R, d), n)
<1>1. /\ TableOK(f, H, R) /\ f.status = "ok" /\ DiskOK(v) /\ Tree(v) /\ Fine(f, H, R)
      /\ d \in DirsIn(v) /\ d \in LiveIn(v) /\ d \in DOMAIN v.cur /\ d \in Inr /\ R[d] > 0
      /\ R \in [Inr -> Nat] /\ DOMAIN v.cur \subseteq Inr
  BY Zenon, ReadyIs DEF Ready
<1>2. t \in EntsIn(v) /\ n \in LiveIn(v) /\ n \in Inr
      /\ EmptyDir(f, d, x, n)
  <2>1. EmptyDir(f, d, x, n)
    BY Zenon, EmptyDirIs
  <2> QED
    BY Zenon, <2>1 DEF EmptyDir
<1>3. /\ Mem(f, n).node = v.cur[n] /\ Mem(f, n).cnt = 1
      /\ Entry(f, n) \in Slot /\ f.table[Entry(f, n)].num = n
  BY Zenon, <1>2 DEF EmptyDir
<1>4. n # d /\ n # Root /\ v.cur[n].mode = "dir" /\ v.cur[n].size <= BlkSize /\ n \in DirsIn(v)
  BY Zenon, <1>2 DEF EmptyDir
<1>6. \A e \in EntsIn(v) : e[1] = n => e[2] \in Dotted
  BY Zenon, <1>2 DEF EmptyDir
<1>7. /\ TableOK(h, H, R) /\ Dropped(f, h, d, t) /\ DiskOK(w) /\ w.cur = v.cur
      /\ LiveIn(w) = LiveIn(v) /\ DirsIn(w) = DirsIn(v) /\ EntsIn(w) = EntsIn(v) \ {t}
  <2>1. x \notin Dotted
    OBVIOUS
  <2>0. n = Child(f, d, x, TRUE) /\ n # 0
    BY Zenon
  <2>2. TableOK(h, H, R)
    BY ONLY Zenon, <1>1, <2>0, <2>1, NameDropped
  <2>3. Dropped(f, h, d, t)
    BY ONLY Zenon, <1>1, <2>0, <2>1, NameDropped
  <2>4. NameGone(f, h, t)
    BY ONLY Zenon, <1>1, <2>0, <2>1, NameDropped
  <2> QED
    BY <2>2, <2>3, <2>4 DEF NameGone
<1> HIDE DEF h
<1>8. Entry(h, n) = Entry(f, n) /\ Mem(h, n) = Mem(f, n) /\ Mem(h, d) = Mem(f, d) /\ h.status = "ok"
  <2>1. h.table = f.table /\ h.status = f.status
    BY <1>7 DEF Dropped
  <2>2. \A m : Entry(h, m) = Entry(f, m)
    BY Zenon, <2>1, SameEntry
  <2> QED
    BY Zenon, <1>1, <2>1, <2>2 DEF Mem
<1>9. TreeOK(LiveIn(v), DirsIn(v), EntsIn(v), LinksOf(v))
  BY <1>1, TreeIs
<1> DEFINE c2 == [LinksOf(v) EXCEPT ![d] = @ - 1]
<1>10. c2[d] = LinksOf(v)[d] - 1 /\ \A m \in LiveIn(v) \ {d} : c2[m] = LinksOf(v)[m]
  BY <1>1 DEF LinksOf, LiveIn
<1> HIDE DEF c2
<1>11. /\ TreeOK(LiveIn(v) \ {n}, DirsIn(v) \ {n}, {e \in EntsIn(v) : e[1] # n /\ e # <<d, x, n>>}, c2)
       /\ n # RootDir /\ LinksOf(v)[n] = 2 /\ LinksOf(v)[d] \in Nat /\ LinksOf(v)[d] > 1
  <2> DEFINE c == LinksOf(v)
             live == LiveIn(v)
             dirs == DirsIn(v)
             ents == EntsIn(v)
             live2 == live \ {n}
             dirs2 == dirs \ {n}
             ents2 == {e \in ents : e[1] # n /\ e # <<d, x, n>>}
  <2>1. /\ TreeOK(live, dirs, ents, c) /\ n \in dirs \ {Root} /\ x \in Name \ (Dotted \cup {Slash})
        /\ <<d, x, n>> \in ents /\ (\A e \in ents : e[1] = n => e[2] \in Dotted)
        /\ c2[d] = c[d] - 1 /\ \A m \in live \ {d} : c2[m] = c[m]
    BY Zenon, <1>2, <1>4, <1>6, <1>9, <1>10 DEF t
  <2> HIDE DEF c, live, dirs, ents
  <2>2. TreeOK(live2, dirs2, ents2, c2)
    BY ONLY <2>1, TreeRmdir
  <2>3. Removable(c, d, n)
    BY ONLY <2>1, <2>2, TreeRmdir
  <2> QED
    BY Zenon, <2>2, <2>3 DEF c, live, dirs, ents, Removable
<1>12. v.cur[n].nlinks = 2 /\ v.cur[d].nlinks > 1
  BY Zenon, <1>1, <1>2, <1>11, TreeIs
<1>13. /\ TableOK(a, H, R2) /\ a.status = "ok"
       /\ a.zmap = h.zmap /\ a.body = h.body /\ a.pinned = h.pinned
       /\ DOMAIN u.cur = DOMAIN w.cur \ {n}
       /\ \A m \in DOMAIN u.cur :
             u.cur[m] = IF m = d THEN Linked(w.cur[d], w.cur[d].nlinks - 1) ELSE w.cur[m]
  <2>1. Mem(f, d).node = v.cur[d]
    BY ReadyIs
  <2>2. Mem(h, d).node.nlinks > 1 /\ Mem(h, n).cnt = 1 /\ Mem(h, n).node.mode = "dir"
    BY Zenon, <1>3, <1>4, <1>8, <1>12, <2>1
  <2>3. n # d /\ R[n] > 0 /\ R[d] > 0 /\ n \in Inr /\ d \in Inr /\ TableOK(h, H, R) /\ h.status = "ok"
    BY Zenon, <1>1, <1>2, <1>4, <1>7, <1>8
  <2>4. TableOK(a, H, R2) /\ a.status = "ok"
    BY ONLY <2>2, <2>3, RmdirHolds
  <2>5. a.zmap = h.zmap /\ a.body = h.body /\ a.pinned = h.pinned
    BY ONLY <2>2, <2>3, RmdirHolds
  <2>6. /\ DOMAIN u.cur = DOMAIN w.cur \ {n}
        /\ \A m \in DOMAIN u.cur :
             u.cur[m] = IF m = d THEN Linked(w.cur[d], w.cur[d].nlinks - 1) ELSE w.cur[m]
    BY ONLY <2>2, <2>3, RmdirHolds
  <2> QED
    BY Zenon, <2>4, <2>5, <2>6
<1> HIDE DEF a, R2
<1>14. /\ \A m \in DOMAIN u.cur \ {d} : u.cur[m] = v.cur[m]
       /\ u.cur[d] = Linked(v.cur[d], v.cur[d].nlinks - 1)
       /\ DOMAIN u.cur = DOMAIN v.cur \ {n} /\ d \in DOMAIN u.cur
  BY Zenon, <1>1, <1>4, <1>7, <1>13
<1> HIDE DEF u
<1>15. /\ u.cur[d].nlinks = v.cur[d].nlinks - 1 /\ u.cur[d].nlinks > 0 /\ u.cur[d].mode = v.cur[d].mode
       /\ u.cur[d].size = v.cur[d].size /\ u.cur[d].zone = v.cur[d].zone
  <2>1. v.cur[d] \in Node /\ v.cur[d].nlinks \in Nat
    BY <1>1, CurIs DEF Node
  <2>2. v.cur[d].nlinks - 1 \in 0 .. NrLinks - 1 /\ v.cur[d].nlinks - 1 > 0
    <3>1. v.cur[d].nlinks \in 0 .. NrLinks - 1
      BY <2>1 DEF Node
    <3> QED
      BY <1>12, <2>1, <3>1, InodesAssumption
  <2>3. LET nd == Linked(v.cur[d], v.cur[d].nlinks - 1)
        IN  /\ nd.nlinks = v.cur[d].nlinks - 1 /\ nd.mode = v.cur[d].mode
            /\ nd.size = v.cur[d].size /\ nd.zone = v.cur[d].zone
    BY ONLY <2>1, <2>2, LinkedIs
  <2> QED
    BY ONLY <1>14, <2>2, <2>3
<1>16. LiveIn(u) = LiveIn(v) \ {n} /\ DirsIn(u) = DirsIn(v) \ {n}
  <2>1. \A m \in DOMAIN u.cur : /\ u.cur[m].nlinks > 0 <=> v.cur[m].nlinks > 0
                                /\ u.cur[m].mode = v.cur[m].mode
    <3>1. ASSUME NEW m \in DOMAIN u.cur, m # d
          PROVE  u.cur[m] = v.cur[m]
      BY Zenon, <1>14, <3>1
    <3>2. v.cur[d].nlinks > 0
      BY <1>1 DEF LiveIn
    <3> HIDE DEF v
    <3> QED
      BY <1>15, <3>1, <3>2
  <2> HIDE DEF v
  <2>2. LiveIn(u) = LiveIn(v) \ {n}
    BY Zenon, <1>14, <2>1 DEF LiveIn
  <2> QED
    <3>1. DirsIn(u) = DirsIn(v) \ {n}
      BY ONLY <1>14, <2>1, <2>2 DEF DirsIn, LiveIn
    <3> QED
      BY <2>2, <3>1
<1>17. u.zmap = w.zmap /\ u.body = w.body /\ u.pinned = w.pinned
  BY <1>13 DEF u, Disk
<1>18. DiskOK(u) /\ EntsIn(u) = {e \in EntsIn(w) : e[1] \in DirsIn(u)}
  <2>1. ASSUME NEW m \in DirsIn(u)
        PROVE  m \in DirsIn(w) /\ Kept(w, u, m)
    <3>1. m \in DirsIn(w) /\ m \in DOMAIN u.cur
      BY Zenon, <1>7, <1>16 DEF DirsIn, LiveIn
    <3>2. u.cur[m].zone = w.cur[m].zone /\ u.cur[m].size = w.cur[m].size
      BY Zenon, <1>7, <1>14, <1>15, <3>1
    <3>3. \A b \in HeldBy(w, m) : b - 1 \in w.zmap
      BY <1>7, <3>1 DEF DiskOK, DirOK, Marks
    <3> QED
      BY <1>17, <3>1, <3>2, <3>3 DEF Kept
  <2>2. \A b \in u.pinned : b - 1 \in u.zmap
    BY <1>7, <1>17 DEF DiskOK
  <2>3. DOMAIN u.cur \subseteq Inr
    BY Zenon, <1>1, <1>14
  <2> QED
    BY Zenon, <1>7, <2>1, <2>2, <2>3, DiskStays
<1>19. EntsIn(u) = {e \in EntsIn(v) : e[1] # n /\ e # <<d, x, n>>}
  <2>1. \A e \in EntsIn(v) : e[1] \in DirsIn(v)
    BY EntsAre DEF EntsIn
  <2> QED
    BY Zenon, <1>7, <1>16, <1>18, <2>1 DEF t
<1>20. Tree(u)
  <2>1. \A m \in LiveIn(u) : LinksOf(u)[m] = u.cur[m].nlinks
    BY TreeIs
  <2>2. \A m \in LiveIn(v) : LinksOf(v)[m] = v.cur[m].nlinks
    BY TreeIs
  <2>3. LiveIn(u) \subseteq DOMAIN u.cur
    BY DEF LiveIn
  <2>4. \A m \in LiveIn(u) : LinksOf(u)[m] = c2[m]
    BY Zenon, <1>1, <1>10, <1>14, <1>15, <1>16, <2>1, <2>2, <2>3
  <2>5. TreeOK(LiveIn(u), DirsIn(u), EntsIn(u), c2)
    BY <1>11, <1>16, <1>19
  <2>6. TreeOK(LiveIn(u), DirsIn(u), EntsIn(u), LinksOf(u))
    BY <2>4, <2>5, TreeSame
  <2> QED
    BY <2>6, TreeIs
<1>21. Leads(v, u)
  <2>1. Moves(DirsIn(v), Plain(EntsIn(v)), DirsIn(v) \ {n},
              Plain({e \in EntsIn(v) : e[1] # n /\ e # <<d, x, n>>}))
    <3>1. x \notin Dotted /\ n \in DirsIn(v) \ {Root, RootDir} /\ <<d, x, n>> \in EntsIn(v)
      BY Zenon, <1>2, <1>4, <1>11 DEF t
    <3> QED
      BY ONLY <1>4, <1>6, <1>9, <3>1, RmdirMoves
  <2> QED
    BY <1>16, <1>19, <2>1 DEF Leads
<1>22. Done(f, a, H)
  <2>1. Fine(a, H, R2)
    BY <1>13, <1>18, <1>20 DEF Fine, u
  <2>2. Leads(Disk(f), Disk(a))
    BY <1>21 DEF u, v
  <2> QED
    BY <2>1, <2>2, Finish
<1> QED
  BY Zenon, <1>3, <1>8, <1>12, <1>22 DEF a, h, SamePlace, Removed

\* The same from a state with the same disk.
LEMMA DoneSame ==
    ASSUME NEW f, NEW g, NEW a, NEW H, Done(g, a, H), Disk(g) = Disk(f)
    PROVE  Done(f, a, H)
BY DEF Done

\* An inode and a directory that may be the same are put back in either order.
LEMMA BothHeld ==
    ASSUME NEW R \in [Inr -> Nat], NEW d \in Inr, R[d] > 0, NEW n \in Inr, NEW R2, R2 = Hold(R, n)
    PROVE  R2[d] > 0 /\ R2[n] > 0 /\ Less(R2, d)[n] > 0 /\ Less(R2, n)[d] > 0
<1>1. R2 \in [Inr -> Nat] /\ R2[n] = R[n] + 1 /\ \A m \in Inr \ {n} : R2[m] = R[m]
  BY KeepIs
<1>2. Less(R2, d)[d] = R2[d] - 1 /\ \A m \in Inr \ {d} : Less(R2, d)[m] = R2[m]
  BY <1>1 DEF Less
<1>3. Less(R2, n)[n] = R2[n] - 1 /\ \A m \in Inr \ {n} : Less(R2, n)[m] = R2[m]
  BY <1>1 DEF Less
<1>4. CASE n = d
  BY <1>1, <1>2, <1>3, <1>4
<1>5. CASE n # d
  BY <1>1, <1>2, <1>3, <1>5
<1> QED
  BY <1>4, <1>5

\* Putting two inodes back after a step of the tree.
LEMMA PutBoth ==
    ASSUME NEW f, NEW g, NEW H, NEW R, Fine(g, H, R), Leads(Disk(f), Disk(g)),
           NEW n \in Inr, NEW m \in Inr, R[n] > 0, Less(R, n)[m] > 0
    PROVE  /\ Fine(PutBack(PutBack(g, n), m), H, Less(Less(R, n), m))
           /\ Leads(Disk(f), Disk(PutBack(PutBack(g, n), m)))
           /\ Done(f, PutBack(PutBack(g, n), m), H)
<1> DEFINE h == PutBack(g, n)
           R2 == Less(R, n)
<1>1. Fine(h, H, R2) /\ Leads(Disk(f), Disk(h))
  BY FinishPut
<1>2. R2[m] > 0
  OBVIOUS
<1> HIDE DEF h, R2
<1>3. /\ Fine(PutBack(h, m), H, Less(R2, m)) /\ Leads(Disk(f), Disk(PutBack(h, m)))
      /\ Done(f, PutBack(h, m), H)
  BY <1>1, <1>2, FinishPut
<1> QED
  BY <1>3 DEF h, R2

\* Doing nothing is allowed.
LEMMA Stutters ==
    ASSUME NEW v
    PROVE  Leads(v, v)
BY DEF Leads, Moves

\* A name is not removed: it and its directory are put back.
LEMMA DeniedCall ==
    ASSUME NEW f, NEW H, NEW R, NEW d, Ready(f, H, R, d), NEW n \in Inr, NEW R2, R2 = Hold(R, n),
           Fine(f, H, R2)
    PROVE  /\ Done(f, PutBack(PutBack(f, d), n), H) /\ Done(f, PutBack(PutBack(f, n), d), H)
           /\ Fine(PutBack(PutBack(f, d), n), H, Less(Less(R2, d), n))
<1>1. R \in [Inr -> Nat] /\ d \in Inr /\ R[d] > 0
  BY ReadyIs
<1>2. R2[d] > 0 /\ R2[n] > 0 /\ Less(R2, d)[n] > 0 /\ Less(R2, n)[d] > 0
  BY ONLY <1>1, BothHeld, n \in Inr, R2 = Hold(R, n)
<1>3. Leads(Disk(f), Disk(f))
  BY Stutters
<1>4. Done(f, PutBack(PutBack(f, d), n), H)
  BY <1>1, <1>2, <1>3, PutBoth
<1>5. Done(f, PutBack(PutBack(f, n), d), H)
  BY <1>1, <1>2, <1>3, PutBoth
<1>6. Fine(PutBack(PutBack(f, d), n), H, Less(Less(R2, d), n))
  BY <1>1, <1>2, <1>3, PutBoth
<1> QED
  BY <1>4, <1>5, <1>6

\* The buffer of a directory stays referenced.
LEMMA PinnedIs ==
    ASSUME NEW f, NEW H, NEW R, Fine(f, H, R), NEW b \in Blk, b - 1 \in f.zmap,
           NEW g, g = [f EXCEPT !.pinned = @ \cup {b}]
    PROVE  Fine(g, H, R) /\ Leads(Disk(f), Disk(g))
<1> DEFINE v == Disk(f)
           w == Disk(g)
<1>1. TableOK(f, H, R) /\ f.status = "ok" /\ DiskOK(v) /\ Tree(v) /\ DOMAIN f = Fields /\ IsFs(f)
  BY FineIs DEF Fine, TableOK
<1>2. /\ DOMAIN g = Fields /\ g.imap = f.imap /\ g.zmap = f.zmap /\ g.table = f.table
      /\ g.dev = f.dev /\ g.body = f.body /\ g.status = f.status /\ g.pinned = f.pinned \cup {b}
  BY <1>1 DEF Fields
<1>3. IsFs(g)
  BY <1>1, <1>2 DEF IsFs
<1>4. f.pinned \in SUBSET Blk
  BY <1>1 DEF TableOK
<1>5. g.pinned \in SUBSET Blk
  BY <1>2, <1>4
<1>6. TableOK(g, H, R)
  BY ONLY <1>1, <1>2, <1>3, <1>5 DEF TableOK, EntryOK, Unique, Has
<1>7. w.cur = v.cur
  BY ONLY <1>2 DEF Disk, Current
<1>8. v.zmap = f.zmap /\ v.body = f.body /\ v.pinned = f.pinned
  BY DEF Disk
<1>9. w.zmap = g.zmap /\ w.body = g.body /\ w.pinned = g.pinned
  BY DEF Disk
<1>10. DOMAIN w.cur \subseteq Inr
  BY <1>1, <1>7, FineIs DEF Disk
<1> HIDE DEF v, w
<1>11. LiveIn(w) = LiveIn(v) /\ DirsIn(w) = DirsIn(v)
  BY <1>7 DEF LiveIn, DirsIn
<1>12. ASSUME NEW n \in DirsIn(w)
       PROVE  n \in DirsIn(v) /\ Kept(v, w, n)
  <2>1. n \in DirsIn(v) /\ \A a \in HeldBy(v, n) : a - 1 \in v.zmap
    BY <1>1, <1>11 DEF DiskOK, DirOK, Marks
  <2> QED
    BY <1>2, <1>7, <1>8, <1>9, <2>1 DEF Kept
<1>13. \A a \in w.pinned : a - 1 \in w.zmap
  BY <1>1, <1>2, <1>8, <1>9 DEF DiskOK
<1>14. DiskOK(w)
  BY <1>1, <1>10, <1>12, <1>13, DiskStays
<1>15. EntsIn(w) = {e \in EntsIn(v) : e[1] \in DirsIn(w)}
  BY <1>1, <1>10, <1>12, <1>13, DiskStays
<1>16. EntsIn(w) = EntsIn(v)
  <2>1. \A e \in EntsIn(v) : e[1] \in DirsIn(v)
    BY EntsAre DEF EntsIn
  <2> QED
    BY <1>11, <1>15, <2>1
<1>17. Tree(w) /\ Leads(v, w)
  BY <1>1, <1>7, <1>11, <1>16, TreeStays
<1> QED
  BY <1>1, <1>2, <1>6, <1>14, <1>17 DEF Fine, v, w

\* rmdir of a directory that is not empty: the tree stays, and a buffer stays pinned.
LEMMA RmdirNotEmptyCall ==
    ASSUME NEW f, NEW H, NEW R, NEW d, Ready(f, H, R, d), NEW n \in Inr, NEW R2, R2 = Hold(R, n),
           Fine(f, H, R2), IsDir(f, n)
    PROVE  /\ Done(f, [PutBack(PutBack(f, d), n) EXCEPT !.pinned = @ \cup {FirstBlk(f, n)}], H)
           /\ FirstBlk(f, n) # 0
<1> DEFINE h == PutBack(PutBack(f, d), n)
           b == FirstBlk(f, n)
           v == Disk(f)
           R3 == Less(Less(R2, d), n)
<1>1. R \in [Inr -> Nat] /\ d \in Inr /\ R[d] > 0
  BY ReadyIs
<1>2. R2[d] > 0 /\ R2[n] > 0 /\ Less(R2, d)[n] > 0
  <2>1. n \in Inr /\ R2 = Hold(R, n)
    OBVIOUS
  <2> QED
    BY ONLY <1>1, <2>1, BothHeld
<1>3. n \in LiveIn(v) /\ v.cur[n] = Mem(f, n).node
  BY <1>2, HeldIs DEF Fine
<1>4. n \in DirsIn(v) /\ DirOK(v, n)
  <2>1. n \in DirsIn(v)
    BY <1>3 DEF DirsIn, IsDir
  <2> QED
    BY <2>1 DEF Fine, DiskOK
<1>5. b = BlockIn(v, n, 0)
  <2>1. \A zone : \A k \in FileBlk : BlockOf(Disk(f), zone, k) = BlockOf(f, zone, k)
    BY DiskBlocks
  <2>2. BlockOf(v, v.cur[n].zone, 0) = BlockOf(f, v.cur[n].zone, 0)
    BY <2>1, FirstPlaces
  <2> HIDE DEF v
  <2> QED
    BY <1>3, <2>2 DEF FirstBlk, Bmap, BlockIn, Mem
<1>6. b # 0
  <2>1. PICK m \in FileBlk : \A k \in FileBlk : BlockIn(v, n, k) # 0 <=> k <= m
    BY <1>4 DEF DirOK, Shape
  <2> QED
    BY <1>5, <2>1, FirstPlaces
<1>7. b \in Blk /\ b - 1 \in v.zmap
  <2>1. b \in HeldBy(v, n) /\ HeldBy(v, n) \subseteq Blk
    BY <1>4, <1>5, <1>6, BlockIsHeld, FirstPlaces DEF DirOK
  <2> QED
    BY <1>4, <2>1 DEF DirOK, Marks
<1> HIDE DEF b
<1>8. Fine(h, H, R3) /\ Leads(v, Disk(h)) /\ Disk(h) = v
  <2>1. Leads(Disk(f), Disk(f))
    BY Stutters
  <2>2. Fine(PutBack(PutBack(f, d), n), H, Less(Less(R2, d), n))
    BY ONLY <1>1, <1>2, <2>1, PutBoth, Fine(f, H, R2), n \in Inr
  <2>3. Disk(PutBack(f, d)) = Disk(f) /\ TableOK(PutBack(f, d), H, Less(R2, d))
    BY <1>1, <1>2, PutBackHolds DEF Fine
  <2>4. Disk(PutBack(PutBack(f, d), n)) = Disk(PutBack(f, d))
    BY <1>2, <2>3, PutBackHolds
  <2> QED
    BY <2>2, <2>3, <2>4, Stutters
<1> HIDE DEF h, R3
<1>9. b - 1 \in h.zmap
  <2>1. Disk(h).zmap = h.zmap
    BY DEF Disk
  <2> QED
    BY <1>7, <1>8, <2>1
<1> DEFINE g == [h EXCEPT !.pinned = @ \cup {b}]
<1>10. Fine(g, H, R3) /\ Leads(Disk(h), Disk(g))
  <2>1. g = [h EXCEPT !.pinned = @ \cup {b}]
    OBVIOUS
  <2> HIDE DEF g
  <2> QED
    BY <1>7, <1>8, <1>9, <2>1, PinnedIs
<1> HIDE DEF g
<1>11. Done(f, g, H)
  BY <1>8, <1>10, Finish
<1> QED
  BY <1>6, <1>11 DEF g, h, b

\* A file loses a name; with its last one it loses itself, open or not.
LEMMA UnlinkCall ==
    ASSUME NEW f, NEW H, NEW R, NEW d, Ready(f, H, R, d), NEW x \in Name \ (Dotted \cup {Slash}),
           NEW n, n = Child(f, d, x, TRUE), n # 0, R[n] > 0, Less(R, n)[d] > 0,
           ~IsDir(f, n), R[n] = 1
    PROVE  Done(f, PutBack(PutBack(Links(DropEntry(f, d, x), n,
                                         IF Mem(f, n).node.nlinks = 0 THEN 0 ELSE -1), n), d), H)
<1> DEFINE h == DropEntry(f, d, x)
           a == PutBack(Links(h, n, -1), n)
           v == Disk(f)
           w == Disk(h)
           u == Disk(a)
           t == <<d, x, n>>
           y == v.cur[n].nlinks - 1
           R2 == Less(R, n)
<1>1. /\ TableOK(f, H, R) /\ f.status = "ok" /\ DiskOK(v) /\ Tree(v)
      /\ d \in DirsIn(v) /\ d \in Inr /\ R[d] > 0 /\ R \in [Inr -> Nat]
      /\ DOMAIN v.cur \subseteq Inr
  BY ReadyIs
<1>2. t \in EntsIn(v) /\ n \in LiveIn(v) /\ n \in Inr
  BY Zenon, NameIsThere
<1>3. Mem(f, n).node = v.cur[n] /\ n \notin DirsIn(v)
  <2>0. R[n] > 0
    BY Zenon
  <2>1. Disk(f).cur[n] = Mem(f, n).node
    BY ONLY <1>1, <1>2, <2>0, HeldIs
  <2>2. Mem(f, n).node.mode # "dir"
    BY Zenon DEF IsDir
  <2>3. v.cur[n].mode # "dir"
    BY Zenon, <2>1, <2>2
  <2> QED
    BY Zenon, <2>1, <2>3 DEF DirsIn
<1>4. TableOK(h, H, R) /\ Dropped(f, h, d, t) /\ NameGone(f, h, t)
  <2>1. x \notin Dotted /\ n = Child(f, d, x, TRUE) /\ n # 0
    BY Zenon
  <2>2. TableOK(h, H, R)
    BY ONLY Zenon, <1>1, <2>1, NameDropped
  <2>3. Dropped(f, h, d, t)
    BY ONLY Zenon, <1>1, <2>1, NameDropped
  <2>4. NameGone(f, h, t)
    BY ONLY Zenon, <1>1, <2>1, NameDropped
  <2> QED
    BY <2>2, <2>3, <2>4
<1> HIDE DEF h
<1>5. Mem(h, n) = Mem(f, n) /\ h.status = "ok"
  <2>1. h.table = f.table /\ h.status = f.status
    BY <1>4 DEF Dropped
  <2>2. \A m : Entry(h, m) = Entry(f, m)
    BY <2>1, SameEntry
  <2> QED
    BY Zenon, <1>1, <2>1, <2>2 DEF Mem
<1>6. /\ DiskOK(w) /\ w.cur = v.cur /\ LiveIn(w) = LiveIn(v) /\ DirsIn(w) = DirsIn(v)
      /\ EntsIn(w) = EntsIn(v) \ {t}
  BY <1>4 DEF NameGone
<1>7. TreeOK(LiveIn(v), DirsIn(v), EntsIn(v), LinksOf(v))
  BY <1>1, TreeIs
<1>8. LinksOf(v)[n] = v.cur[n].nlinks /\ \A m \in LiveIn(v) : LinksOf(v)[m] = v.cur[m].nlinks
  BY Zenon, <1>2, TreeIs
<1> DEFINE c == LinksOf(v)
           c2 == [c EXCEPT ![n] = @ - 1]
           live2 == IF c2[n] > 0 THEN LiveIn(v) ELSE LiveIn(v) \ {n}
<1>9. c2[n] = c[n] - 1 /\ \A m \in LiveIn(v) \ {n} : c2[m] = c[m]
  <2>1. n \in DOMAIN LinksOf(v)
    BY Zenon, <1>2 DEF LinksOf, LiveIn
  <2> QED
    BY <2>1
<1> HIDE DEF c2
<1>10. TreeOK(live2, DirsIn(v), EntsIn(v) \ {t}, c2) /\ c[n] \in Nat \ {0}
  <2>1. TreeOK(LiveIn(v), DirsIn(v), EntsIn(v), c) /\ <<d, x, n>> \in EntsIn(v) /\ n \notin DirsIn(v)
        /\ live2 = IF c2[n] > 0 THEN LiveIn(v) ELSE LiveIn(v) \ {n}
    BY Zenon, <1>2, <1>3, <1>7
  <2> HIDE DEF c, live2
  <2>2. TreeOK(live2, DirsIn(v), EntsIn(v) \ {<<d, x, n>>}, c2)
    BY ONLY <1>9, <2>1, TreeUnlink
  <2>3. c[n] \in Nat \ {0}
    BY ONLY <1>9, <2>1, <2>2, TreeUnlink
  <2> QED
    BY Zenon, <2>2, <2>3
<1>11. y \in 0 .. NrLinks - 1 /\ y = w.cur[n].nlinks + (-1) /\ c2[n] = y
  <2>1. v.cur[n].nlinks \in Nat \ {0} /\ c2[n] = v.cur[n].nlinks - 1
    BY ONLY <1>8, <1>9, <1>10
  <2>2. w.cur[n].nlinks = v.cur[n].nlinks
    BY ONLY <1>6
  <2>3. v.cur[n].nlinks \in 0 .. NrLinks - 1
    <3>1. n \in DOMAIN v.cur
      BY <1>2 DEF LiveIn
    <3>2. v.cur[n] \in Node
      BY <1>1, <3>1, CurIs
    <3> QED
      BY <3>2 DEF Node
  <2> QED
    BY ONLY <2>1, <2>2, <2>3, InodesAssumption
<1>12. Links(h, n, IF Mem(f, n).node.nlinks = 0 THEN 0 ELSE -1) = Links(h, n, -1)
  <2>1. Mem(f, n).node.nlinks # 0
    BY Zenon, <1>3, <1>8, <1>10
  <2> QED
    BY <2>1
<1> HIDE DEF y, c, live2
<1>13. TableOK(a, H, R2) /\ Relinked(h, a, n, y)
  <2>1. /\ y = Disk(h).cur[n].nlinks + (-1) /\ -1 \in Int /\ y \in 0 .. NrLinks - 1
        /\ n \in Inr /\ R[n] > 0 /\ Mem(h, n).node.mode # "dir" /\ R[n] = 1
    <3>1. y = Disk(h).cur[n].nlinks + (-1) /\ -1 \in Int /\ y \in 0 .. NrLinks - 1
      BY ONLY <1>11
    <3>2. Mem(h, n).node.mode # "dir" /\ n \in Inr /\ R[n] > 0 /\ R[n] = 1
      BY Zenon, <1>2, <1>5 DEF IsDir
    <3> QED
      BY ONLY <3>1, <3>2
  <2>2. TableOK(PutBack(Links(h, n, -1), n), H, Less(R, n))
    BY ONLY <1>4, <2>1, RelinkHolds
  <2>3. Relinked(h, PutBack(Links(h, n, -1), n), n, y)
    BY ONLY <1>4, <2>1, RelinkHolds
  <2> QED
    BY Zenon, <2>2, <2>3
<1> HIDE DEF a, R2
<1>14. /\ DiskOK(u) /\ DirsIn(u) = DirsIn(w) /\ EntsIn(u) = EntsIn(w)
       /\ LiveIn(u) = IF y > 0 THEN LiveIn(w) ELSE LiveIn(w) \ {n}
       /\ DOMAIN u.cur = DOMAIN w.cur /\ u.cur[n].nlinks = y
       /\ \A k \in DOMAIN w.cur \ {n} : u.cur[k] = w.cur[k]
  <2>1. /\ n \in LiveIn(Disk(h)) /\ n \notin DirsIn(Disk(h)) /\ y \in 0 .. NrLinks - 1
        /\ DiskOK(Disk(h))
    BY Zenon, <1>2, <1>3, <1>6, <1>11
  <2> QED
    BY ONLY <1>4, <1>13, <2>1, RelinkedIs
<1> HIDE DEF u, w, v, t
<1>15. LiveIn(u) = live2 /\ DirsIn(u) = DirsIn(v) /\ EntsIn(u) = EntsIn(v) \ {t}
  BY <1>6, <1>11, <1>14 DEF live2
<1>16. Tree(u)
  <2>1. \A m \in LiveIn(u) : LinksOf(u)[m] = u.cur[m].nlinks
    BY TreeIs
  <2>2. LiveIn(u) \subseteq LiveIn(v) /\ LiveIn(v) \subseteq DOMAIN v.cur
    BY Zenon, <1>15 DEF live2, LiveIn
  <2>3. ASSUME NEW m \in LiveIn(u)
        PROVE  LinksOf(u)[m] = c2[m]
    <3>1. CASE m = n
      BY Zenon, <1>11, <1>14, <2>1, <3>1
    <3>2. CASE m # n
      <4>1. m \in LiveIn(v) /\ m \in DOMAIN w.cur \ {n}
        BY Zenon, <1>6, <2>2, <3>2
      <4>2. LinksOf(u)[m] = v.cur[m].nlinks
        BY Zenon, <1>6, <1>14, <2>1, <4>1
      <4> QED
        BY Zenon, <1>8, <1>9, <3>2, <4>1, <4>2 DEF c
    <3> QED
      BY Zenon, <3>1, <3>2
  <2>4. TreeOK(LiveIn(u), DirsIn(u), EntsIn(u), c2)
    BY <1>10, <1>15
  <2>5. TreeOK(LiveIn(u), DirsIn(u), EntsIn(u), LinksOf(u))
    BY <2>3, <2>4, TreeSame
  <2> QED
    BY <2>5, TreeIs
<1>17. Leads(v, u)
  <2>1. x \notin Dotted /\ <<d, x, n>> \in EntsIn(v)
    BY <1>2 DEF t
  <2>2. Moves(DirsIn(v), Plain(EntsIn(v)), DirsIn(v), Plain(EntsIn(v) \ {<<d, x, n>>}))
    BY ONLY <1>3, <1>7, <2>1, UnlinkMoves
  <2> QED
    BY <1>15, <2>2 DEF Leads, t
<1>18. Fine(a, H, R2) /\ Leads(Disk(f), Disk(a))
  <2>1. a.status = "ok"
    BY <1>5, <1>13 DEF Relinked
  <2> QED
    BY <1>13, <1>14, <1>16, <1>17, <2>1 DEF Fine, u, v
<1>19. R2[d] > 0 /\ d \in Inr
  BY Zenon, <1>1 DEF R2
<1>20. Done(f, PutBack(a, d), H)
  BY ONLY <1>18, <1>19, FinishPut
<1> QED
  BY Zenon, <1>12, <1>20 DEF a, h

-----------------------------------------------------------------------------
(* link                                                                      *)

\* A file that is kept has got a name in directory d.
LEMMA LinkNamed ==
    ASSUME NEW f, NEW H, NEW R, NEW d, Ready(f, H, R, d), NEW x \in Name \ (Dotted \cup {Slash}),
           Child(f, d, x, TRUE) = 0, NEW n \in Inr, R[n] > 0, n \notin DirsIn(Disk(f)), Room(f, d),
           Less(R, d)[n] > 0, ~LastLink(f, n)
    PROVE  Done(f, PutBack(Links(PutBack(AddEntry(f, d, x, n), d), n, 1), n), H)
<1> DEFINE h == AddEntry(f, d, x, n)
           p == PutBack(h, d)
           a == PutBack(Links(p, n, 1), n)
           v == Disk(f)
           w == Disk(h)
           u == Disk(a)
           t == <<d, x, n>>
           R2 == Less(R, d)
<1>1. /\ TableOK(f, H, R) /\ f.status = "ok" /\ DiskOK(v) /\ Tree(v)
      /\ d \in DirsIn(v) /\ d \in Inr /\ R[d] > 0 /\ R \in [Inr -> Nat]
      /\ DOMAIN v.cur \subseteq Inr
  BY ReadyIs
<1>2. n \in LiveIn(v)
  <2>1. R[n] > 0 /\ n \in Inr
    OBVIOUS
  <2> QED
    BY ONLY <1>1, <2>1, HeldIs
<1>3. /\ TableOK(h, H, R) /\ Widened(f, h, d) /\ DiskOK(w) /\ SameLinks(v, w)
      /\ LiveIn(w) = LiveIn(v) /\ DirsIn(w) = DirsIn(v)
      /\ EntsIn(w) = EntsIn(v) \cup {t}
  <2>1. \A e \in EntsOf(Disk(f), d) : e[2] # x
    BY Zenon, NameIsFree
  <2>2. x \in Name /\ n \in Inr
    OBVIOUS
  <2>3. TableOK(h, H, R)
    BY ONLY <1>1, <2>1, <2>2, NameEntered
  <2>4. Widened(f, h, d)
    BY ONLY <1>1, <2>1, <2>2, NameEntered
  <2> DEFINE S == IF Room(f, d) THEN {<<d, x, n>>} ELSE {}
  <2>5. S = {t}
    OBVIOUS
  <2>6. /\ DiskOK(Disk(h)) /\ SameLinks(Disk(f), Disk(h))
        /\ LiveIn(Disk(h)) = LiveIn(Disk(f)) /\ DirsIn(Disk(h)) = DirsIn(Disk(f))
        /\ EntsIn(Disk(h)) = EntsIn(Disk(f)) \cup S
    BY ONLY <1>1, <2>1, <2>2, NameEntered
  <2> QED
    BY <2>3, <2>4, <2>5, <2>6
<1> HIDE DEF h
<1>4. TableOK(p, H, R2) /\ Disk(p) = w /\ p.status = "ok"
  <2>1. TableOK(p, H, R2) /\ Disk(p) = w /\ p.status = h.status
    BY ONLY <1>1, <1>3, PutBackHolds
  <2>2. h.status = "ok"
    BY <1>1, <1>3 DEF Widened
  <2> QED
    BY <2>1, <2>2
<1>5. R2[n] > 0
  OBVIOUS
<1> HIDE DEF p, R2
<1> DEFINE y == w.cur[n].nlinks + 1
<1>6. y \in 0 .. NrLinks - 1 /\ y > 0 /\ n \in LiveIn(w) /\ w.cur[n].nlinks = v.cur[n].nlinks
      /\ v.cur[n].nlinks > 0 /\ v.cur[n].nlinks \in Nat
  <2>1. n \in DOMAIN v.cur /\ v.cur[n].nlinks > 0
    BY <1>2 DEF LiveIn
  <2>2. w.cur[n].nlinks = v.cur[n].nlinks
    BY <1>3, <2>1 DEF SameLinks
  <2>3. v.cur[n] \in Node
    BY <1>1, <2>1, CurIs
  <2>4. v.cur[n].nlinks \in 0 .. NrLinks - 1
    BY <2>3 DEF Node
  <2>5. v.cur[n].nlinks # NrLinks - 1
    <3>1. R[n] > 0 /\ n \in Inr
      OBVIOUS
    <3>2. Disk(f).cur[n] = Mem(f, n).node
      BY ONLY <1>1, <3>1, HeldIs
    <3> QED
      BY <3>2 DEF LastLink
  <2>6. y \in 0 .. NrLinks - 1 /\ y > 0
    BY <2>1, <2>2, <2>4, <2>5, InodesAssumption
  <2> QED
    BY <1>2, <1>3, <2>1, <2>2, <2>4, <2>6
<1>7. y = Disk(p).cur[n].nlinks + 1
  BY <1>4
<1> HIDE DEF y
<1>8. TableOK(a, H, Less(R2, n)) /\ Relinked(p, a, n, y)
  <2>1. 1 \in Int /\ n \in Inr
    OBVIOUS
  <2>2. TableOK(PutBack(Links(p, n, 1), n), H, Less(R2, n))
    BY ONLY <1>4, <1>5, <1>6, <1>7, <2>1, RelinkHolds
  <2>3. Relinked(p, PutBack(Links(p, n, 1), n), n, y)
    BY ONLY <1>4, <1>5, <1>6, <1>7, <2>1, RelinkHolds
  <2> QED
    BY <2>2, <2>3
<1> HIDE DEF a
<1>9. /\ DiskOK(u) /\ DirsIn(u) = DirsIn(w) /\ EntsIn(u) = EntsIn(w)
      /\ LiveIn(u) = LiveIn(w)
      /\ DOMAIN u.cur = DOMAIN w.cur /\ u.cur[n].nlinks = y
      /\ \A k \in DOMAIN w.cur \ {n} : u.cur[k] = w.cur[k]
  <2>1. n \in LiveIn(Disk(p)) /\ DiskOK(Disk(p))
    BY <1>3, <1>4, <1>6
  <2>2. /\ DiskOK(Disk(a)) /\ DirsIn(Disk(a)) = DirsIn(Disk(p)) /\ EntsIn(Disk(a)) = EntsIn(Disk(p))
        /\ LiveIn(Disk(a)) = (IF y > 0 THEN LiveIn(Disk(p)) ELSE LiveIn(Disk(p)) \ {n})
        /\ DOMAIN Disk(a).cur = DOMAIN Disk(p).cur /\ Disk(a).cur[n].nlinks = y
        /\ \A m \in DOMAIN Disk(p).cur \ {n} : Disk(a).cur[m] = Disk(p).cur[m]
    BY ONLY <1>4, <1>6, <1>8, <2>1, RelinkedIs
  <2> QED
    BY <1>4, <1>6, <2>2
<1> HIDE DEF u, w, v, t
<1>10. TreeOK(LiveIn(v), DirsIn(v), EntsIn(v), LinksOf(v))
  BY <1>1, TreeIs
<1> DEFINE c == LinksOf(v)
           c2 == LinksOf(u)
<1>11. c2[n] = c[n] + 1 /\ \A m \in LiveIn(v) \ {n} : c2[m] = c[m]
  <2>1. \A m \in LiveIn(u) : c2[m] = u.cur[m].nlinks
    BY TreeIs
  <2>2. \A m \in LiveIn(v) : c[m] = v.cur[m].nlinks
    BY TreeIs
  <2>3. \A m \in LiveIn(v) \ {n} : u.cur[m] = w.cur[m] /\ w.cur[m].nlinks = v.cur[m].nlinks
    BY <1>3, <1>9 DEF SameLinks, LiveIn
  <2>4. LiveIn(u) = LiveIn(v)
    BY <1>3, <1>9
  <2> HIDE DEF c, c2
  <2> QED
    BY <1>2, <1>6, <1>9, <2>1, <2>2, <2>3, <2>4 DEF y
<1> HIDE DEF c, c2
<1>12. \A e \in EntsIn(v) : e[1] = d => e[2] # x
  <2>1. Ready(f, H, R, d) /\ Child(f, d, x, TRUE) = 0
    BY Zenon
  <2> QED
    BY ONLY Zenon, <2>1, NameIsFree DEF v
<1>13. n \in LiveIn(v) \ DirsIn(v) /\ x \in Name \ (Dotted \cup {Slash}) /\ x \in Name \ Dotted
       /\ c[n] > 0 /\ n \in Inr
  <2>1. c[n] = v.cur[n].nlinks
    BY <1>2, TreeIs DEF c
  <2> QED
    BY <1>2, <1>6, <2>1 DEF v
<1>14. Tree(u)
  <2>1. TreeOK(LiveIn(v), DirsIn(v), EntsIn(v), c)
    BY <1>10 DEF c
  <2>2. TreeOK(LiveIn(v), DirsIn(v), EntsIn(v) \cup {<<d, x, n>>}, c2)
    BY ONLY <1>1, <1>11, <1>12, <1>13, <2>1, TreeLink
  <2>3. TreeOK(LiveIn(u), DirsIn(u), EntsIn(u), c2)
    BY <1>3, <1>9, <2>2 DEF t
  <2> QED
    BY <2>3, TreeIs DEF c2
<1>15. Leads(v, u)
  <2>1. TreeOK(LiveIn(v), DirsIn(v), EntsIn(v), c)
    BY <1>10 DEF c
  <2>2. Moves(DirsIn(v), Plain(EntsIn(v)), DirsIn(v), Plain(EntsIn(v) \cup {<<d, x, n>>}))
    BY ONLY <1>1, <1>12, <1>13, <2>1, LinkMoves
  <2> QED
    BY <1>3, <1>9, <2>2 DEF Leads, t
<1>16. Fine(a, H, Less(R2, n)) /\ Leads(Disk(f), Disk(a))
  <2>1. a.status = "ok"
    BY <1>4, <1>8 DEF Relinked
  <2> QED
    BY <1>8, <1>9, <1>14, <1>15, <2>1 DEF Fine, u, v
<1>17. Done(f, a, H)
  BY <1>16, Finish
<1> QED
  BY <1>17 DEF a, p, h

\* A file that is kept gets no name: there is no room for one.
LEMMA LinkNotNamed ==
    ASSUME NEW f, NEW H, NEW R, NEW d, Ready(f, H, R, d), NEW x \in Name \ (Dotted \cup {Slash}),
           Child(f, d, x, TRUE) = 0, NEW n \in Inr, R[n] > 0, ~Room(f, d), Less(R, n)[d] > 0
    PROVE  Done(f, PutBack(PutBack(AddEntry(f, d, x, n), n), d), H)
<1> DEFINE h == AddEntry(f, d, x, n)
           v == Disk(f)
           w == Disk(h)
<1>1. /\ TableOK(f, H, R) /\ f.status = "ok" /\ DiskOK(v) /\ Tree(v)
      /\ d \in DirsIn(v) /\ d \in Inr /\ R[d] > 0
  BY ReadyIs
<1>2. /\ TableOK(h, H, R) /\ Widened(f, h, d) /\ DiskOK(w) /\ SameLinks(v, w)
      /\ LiveIn(w) = LiveIn(v) /\ DirsIn(w) = DirsIn(v) /\ EntsIn(w) = EntsIn(v)
  <2>1. \A e \in EntsOf(Disk(f), d) : e[2] # x
    BY Zenon, NameIsFree
  <2>2. x \in Name /\ n \in Inr
    OBVIOUS
  <2>3. TableOK(h, H, R)
    BY ONLY <1>1, <2>1, <2>2, NameEntered
  <2>4. Widened(f, h, d)
    BY ONLY <1>1, <2>1, <2>2, NameEntered
  <2> DEFINE S == IF Room(f, d) THEN {<<d, x, n>>} ELSE {}
  <2>5. S = {}
    OBVIOUS
  <2>6. /\ DiskOK(Disk(h)) /\ SameLinks(Disk(f), Disk(h))
        /\ LiveIn(Disk(h)) = LiveIn(Disk(f)) /\ DirsIn(Disk(h)) = DirsIn(Disk(f))
        /\ EntsIn(Disk(h)) = EntsIn(Disk(f)) \cup S
    BY ONLY <1>1, <2>1, <2>2, NameEntered
  <2> HIDE DEF S
  <2>7. EntsIn(Disk(h)) = EntsIn(Disk(f))
    BY <2>5, <2>6
  <2> QED
    BY <2>3, <2>4, <2>6, <2>7
<1> HIDE DEF h
<1>3. Tree(w) /\ Leads(v, w)
  <2>1. \A m \in LiveIn(v) : w.cur[m].nlinks = v.cur[m].nlinks
    BY <1>2 DEF SameLinks, LiveIn
  <2> QED
    BY <1>1, <1>2, <2>1, TreeStays
<1>4. Fine(h, H, R)
  <2>1. h.status = "ok"
    BY <1>1, <1>2 DEF Widened
  <2> QED
    BY <1>2, <1>3, <2>1 DEF Fine
<1>5. n \in Inr /\ d \in Inr /\ R[n] > 0 /\ Less(R, n)[d] > 0
  BY <1>1
<1>6. Done(f, PutBack(PutBack(h, n), d), H)
  BY ONLY <1>3, <1>4, <1>5, PutBoth
<1> QED
  BY <1>6 DEF h

-----------------------------------------------------------------------------
(* Paths.                                                                    *)

\* Putting back what was just got.
LEMMA LessHold ==
    ASSUME NEW R \in [Inr -> Nat], NEW n \in Inr
    PROVE  Less(Hold(R, n), n) = R
<1> DEFINE A == Hold(R, n)
           B == Less(A, n)
<1>1. A \in [Inr -> Nat] /\ A[n] = R[n] + 1 /\ \A m \in Inr \ {n} : A[m] = R[m]
  BY KeepIs
<1> HIDE DEF A
<1>2. DOMAIN A = Inr
  BY <1>1
<1>3. DOMAIN B = Inr /\ B[n] = A[n] - 1 /\ \A m \in Inr \ {n} : B[m] = A[m]
  BY <1>2 DEF Less
<1>4. B = [m \in Inr |-> B[m]]
  BY Zenon, <1>2 DEF Less
<1> HIDE DEF B
<1>5. \A m \in Inr : B[m] = R[m]
  BY <1>1, <1>3
<1>6. R = [m \in Inr |-> R[m]]
  OBVIOUS
<1>7. B = R
  BY <1>4, <1>5, <1>6
<1> QED
  BY <1>7 DEF B, A

\* Where a walk that began with f is: at an inode that it keeps, or nowhere.
Stands(f, g, H, R) ==
    \/ g.dir \in LiveIn(Disk(f)) /\ Fine(g.f, H, Hold(R, g.dir)) /\ Disk(g.f) = Disk(f)
    \/ g.dir = 0 /\ Fine(g.f, H, R) /\ Disk(g.f) = Disk(f)
    \/ g.dir = 0 /\ Ended(g.f, H, R)
Walked(f, g, H, R) == g = [f |-> g.f, dir |-> g.dir] /\ Stands(f, g, H, R)

\* iget of a live inode reaches it, or searches for ever.
LEMMA ReachedIs ==
    ASSUME NEW f, NEW H, NEW R, Fine(f, H, R), NEW h, Fine(h, H, R), Disk(h) = Disk(f),
           NEW n \in LiveIn(Disk(f))
    PROVE  /\ Walked(f, Reached(Iget(h, n), n), H, R)
           /\ Reached(Iget(h, n), n).dir \in {0, n}
<1> DEFINE e == Iget(h, n)
           g == Reached(e, n)
<1>1. g = [f |-> g.f, dir |-> g.dir] /\ g.f = e /\ g.dir = IF e.status = "ok" THEN n ELSE 0
  BY DEF Reached
<1>2. \/ TableOK(e, H, Hold(R, n)) /\ Disk(e) = Disk(h) /\ e.status = "ok"
      \/ Ended(e, H, R)
  <2>1. TableOK(h, H, R) /\ h.status = "ok" /\ n \in LiveIn(Disk(h))
    BY DEF Fine
  <2> QED
    BY ONLY <2>1, IgetHolds
<1> HIDE DEF e, g
<1>3. CASE TableOK(e, H, Hold(R, n)) /\ Disk(e) = Disk(h) /\ e.status = "ok"
  <2>1. g.dir = n /\ Fine(e, H, Hold(R, n))
    BY <1>1, <1>3 DEF Fine
  <2>2. Stands(f, g, H, R)
    BY <1>1, <1>3, <2>1 DEF Stands
  <2> QED
    BY <1>1, <2>1, <2>2 DEF Walked, e, g
<1>4. CASE Ended(e, H, R)
  <2>1. g.dir = 0
    BY Zenon, <1>1, <1>4 DEF Ended, NoEntry
  <2>2. Stands(f, g, H, R)
    BY <1>1, <1>4, <2>1 DEF Stands
  <2> QED
    BY <1>1, <2>1, <2>2 DEF Walked, e, g
<1> QED
  BY <1>2, <1>3, <1>4

\* A step along a path keeps the directory reached and nothing else.
LEMMA StepHolds ==
    ASSUME NEW f, NEW H, NEW R, Fine(f, H, R), NEW g, Walked(f, g, H, R), g.dir # 0,
           NEW n \in {0} \cup LiveIn(Disk(f))
    PROVE  Walked(f, Step(g.f, g.dir, n), H, R) /\ Step(g.f, g.dir, n).dir \in {0, n}
<1> DEFINE h == PutBack(g.f, g.dir)
<1>1. g.dir \in LiveIn(Disk(f)) /\ Fine(g.f, H, Hold(R, g.dir)) /\ Disk(g.f) = Disk(f)
  BY DEF Walked, Stands
<1>2. R \in [Inr -> Nat] /\ LiveIn(Disk(f)) \subseteq Inr
  BY FineIs DEF Fine, TableOK
<1>3. g.dir \in Inr /\ Hold(R, g.dir)[g.dir] > 0 /\ Less(Hold(R, g.dir), g.dir) = R
  BY <1>1, <1>2, KeepIs, LessHold
<1>4. TableOK(h, H, R) /\ Disk(h) = Disk(g.f) /\ h.status = g.f.status
  <2>1. TableOK(g.f, H, Hold(R, g.dir))
    BY <1>1 DEF Fine
  <2>2. TableOK(h, H, Less(Hold(R, g.dir), g.dir)) /\ Disk(h) = Disk(g.f) /\ h.status = g.f.status
    BY ONLY <1>3, <2>1, PutBackHolds
  <2> QED
    BY <1>3, <2>2
<1> HIDE DEF h
<1>5. Fine(h, H, R) /\ Disk(h) = Disk(f)
  BY <1>1, <1>4 DEF Fine
<1>6. CASE n = 0
  <2> DEFINE e == Step(g.f, g.dir, n)
  <2>1. e = [f |-> h, dir |-> 0]
    BY <1>6 DEF Step, h
  <2> HIDE DEF e
  <2>2. e = [f |-> e.f, dir |-> e.dir] /\ e.f = h /\ e.dir = 0
    BY <2>1
  <2>3. Walked(f, e, H, R)
    BY <1>5, <2>2 DEF Walked, Stands
  <2> QED
    BY <2>2, <2>3 DEF e
<1>7. CASE n # 0
  <2>1. Step(g.f, g.dir, n) = Reached(Iget(h, n), n)
    BY <1>7 DEF Step, h
  <2>2. Walked(f, Reached(Iget(h, n), n), H, R) /\ Reached(Iget(h, n), n).dir \in {0, n}
    BY <1>5, <1>7, ReachedIs
  <2> QED
    BY <2>1, <2>2
<1> QED
  BY <1>6, <1>7

\* A directory that a walk has reached.
LEMMA WalkReady ==
    ASSUME NEW f, NEW H, NEW R, Fine(f, H, R), NEW g, Walked(f, g, H, R), g.dir # 0
    PROVE  /\ IsDir(g.f, g.dir) <=> g.dir \in DirsIn(Disk(f))
           /\ g.dir \in LiveIn(Disk(f)) /\ g.dir \in Inr
           /\ Fine(g.f, H, Hold(R, g.dir)) /\ Disk(g.f) = Disk(f)
           /\ IsDir(g.f, g.dir) => Ready(g.f, H, Hold(R, g.dir), g.dir)
<1>1. g.dir \in LiveIn(Disk(f)) /\ Fine(g.f, H, Hold(R, g.dir)) /\ Disk(g.f) = Disk(f)
  BY DEF Walked, Stands
<1>2. R \in [Inr -> Nat] /\ LiveIn(Disk(f)) \subseteq Inr
  BY FineIs DEF Fine, TableOK
<1>3. g.dir \in Inr /\ Hold(R, g.dir)[g.dir] > 0
  BY <1>1, <1>2, KeepIs
<1>4. Disk(g.f).cur[g.dir] = Mem(g.f, g.dir).node
  <2>1. TableOK(g.f, H, Hold(R, g.dir))
    BY <1>1 DEF Fine
  <2> QED
    BY ONLY <1>3, <2>1, HeldIs
<1>5. IsDir(g.f, g.dir) <=> g.dir \in DirsIn(Disk(f))
  BY <1>1, <1>4 DEF IsDir, DirsIn
<1> QED
  BY <1>1, <1>3, <1>5 DEF Ready

\* A name in the middle of a path leads to a live inode, or to NULL.
LEMMA DescendHolds ==
    ASSUME NEW f, NEW H, NEW R, Fine(f, H, R), NEW g, Walked(f, g, H, R), NEW x
    PROVE  Walked(f, Descend(g, x), H, R)
<1>1. CASE g.dir = 0
  BY <1>1 DEF Descend
<1>2. CASE g.dir # 0
  <2> DEFINE n == IF IsDir(g.f, g.dir) THEN Child(g.f, g.dir, x, FALSE) ELSE 0
  <2>1. n \in {0} \cup LiveIn(Disk(f))
    <3>1. CASE IsDir(g.f, g.dir) /\ n # 0
      <4>1. Ready(g.f, H, Hold(R, g.dir), g.dir) /\ Disk(g.f) = Disk(f)
        BY <1>2, <3>1, WalkReady
      <4>2. n = Child(g.f, g.dir, x, FALSE) /\ n # 0
        BY Zenon, <3>1
      <4> HIDE DEF n
      <4>3. n \in LiveIn(Disk(g.f))
        BY ONLY Zenon, <4>1, <4>2, NameIsThere
      <4> QED
        BY <4>1, <4>3
    <3>2. CASE ~IsDir(g.f, g.dir) \/ n = 0
      BY Zenon, <3>2
    <3> QED
      BY Zenon, <3>1, <3>2
  <2>2. Descend(g, x) = Step(g.f, g.dir, n)
    BY <1>2 DEF Descend
  <2> HIDE DEF n
  <2> QED
    BY <1>2, <2>1, <2>2, StepHolds
<1> QED
  BY <1>1, <1>2

\* dir_namei ends in a directory, or in NULL.
LEMMA OnlyDirHolds ==
    ASSUME NEW f, NEW H, NEW R, Fine(f, H, R), NEW g, Walked(f, g, H, R)
    PROVE  /\ Walked(f, OnlyDir(g), H, R)
           /\ OnlyDir(g).dir # 0 => OnlyDir(g).dir \in DirsIn(Disk(f))
<1>1. CASE g.dir = 0
  BY <1>1 DEF OnlyDir
<1>2. CASE g.dir # 0 /\ IsDir(g.f, g.dir)
  <2>1. OnlyDir(g) = g
    BY <1>2 DEF OnlyDir
  <2>2. g.dir \in DirsIn(Disk(f))
    BY <1>2, WalkReady
  <2> QED
    BY <2>1, <2>2
<1>3. CASE g.dir # 0 /\ ~IsDir(g.f, g.dir)
  <2>1. OnlyDir(g) = Step(g.f, g.dir, 0)
    BY <1>3 DEF OnlyDir
  <2>2. Walked(f, Step(g.f, g.dir, 0), H, R) /\ Step(g.f, g.dir, 0).dir \in {0, 0}
    <3>1. 0 \in {0} \cup LiveIn(Disk(f))
      OBVIOUS
    <3> QED
      BY <1>3, <3>1, StepHolds
  <2> QED
    BY <2>1, <2>2
<1> QED
  BY <1>1, <1>2, <1>3

\* r is the walk along the first m names of p.
Started(f) == Reached(Iget(f, RootDir), RootDir)
Walk(r, f, p, m) ==
    r = [k \in 0 .. m |-> IF k = 0 THEN Reached(Iget(f, RootDir), RootDir)
                          ELSE Descend(r[k - 1], p[k])]

\* Each place of the walk follows from the one before.
LEMMA WalkStep ==
    ASSUME NEW r, NEW f, NEW p, NEW m \in Nat, Walk(r, f, p, m)
    PROVE  r[0] = Started(f) /\ \A k \in 1 .. m : r[k] = Descend(r[k - 1], p[k])
<1>1. r[0] = Started(f)
  <2>1. 0 \in 0 .. m
    OBVIOUS
  <2> QED
    BY <2>1 DEF Walk, Started
<1>2. ASSUME NEW k \in 1 .. m PROVE r[k] = Descend(r[k - 1], p[k])
  <2>1. k \in 0 .. m /\ k # 0
    OBVIOUS
  <2> QED
    BY <2>1 DEF Walk
<1> QED
  BY <1>1, <1>2

\* There is a walk along every path.
LEMMA WalkExists ==
    ASSUME NEW f, NEW p, NEW m \in Nat
    PROVE  \E r : Walk(r, f, p, m)
<1> DEFINE bad == {k \in Nat : ~\E r : Walk(r, f, p, k)}
<1>1. ASSUME bad # {} PROVE FALSE
  <2>1. PICK k \in bad : \A j \in bad : k <= j
    BY Zenon, <1>1, LeastExists
  <2>2. CASE k = 0
    <3> DEFINE r == [i \in 0 .. 0 |-> Started(f)]
    <3>1. \A i \in 0 .. 0 : i = 0
      OBVIOUS
    <3>2. r = [i \in 0 .. 0 |-> IF i = 0 THEN Started(f) ELSE Descend(r[i - 1], p[i])]
      BY <3>1, Zenon
    <3>3. Walk(r, f, p, 0)
      BY <3>2, Zenon DEF Walk, Started
    <3> QED
      BY <2>1, <2>2, <3>3
  <2>3. CASE k # 0
    <3>1. k \in Nat /\ k - 1 \in Nat /\ k - 1 \notin bad
      BY <2>1, <2>3
    <3>2. PICK g : Walk(g, f, p, k - 1)
      BY <3>1
    <3> DEFINE z == Descend(g[k - 1], p[k])
               r == [i \in 0 .. k |-> IF i = k THEN z ELSE g[i]]
    <3>3. k \in Nat /\ k - 1 \in Nat /\ k # 0
      BY <2>3, <3>1
    <3>4. g[0] = Started(f) /\ \A i \in 1 .. k - 1 : g[i] = Descend(g[i - 1], p[i])
      BY <3>2, <3>3, WalkStep
    <3> HIDE DEF z
    <3>5. r[k] = z /\ \A i \in 0 .. k - 1 : r[i] = g[i]
      BY <3>3
    <3>6. r = [i \in 0 .. k |-> r[i]]
      OBVIOUS
    <3> HIDE DEF r
    <3>7. ASSUME NEW i \in 0 .. k
          PROVE  r[i] = IF i = 0 THEN Started(f) ELSE Descend(r[i - 1], p[i])
      <4>1. CASE i = k
        <5>1. r[i - 1] = g[k - 1] /\ i # 0
          BY <3>3, <3>5, <4>1
        <5> QED
          BY <3>5, <4>1, <5>1 DEF z
      <4>2. CASE i = 0
        BY <3>3, <3>4, <3>5, <4>2
      <4>3. CASE i # k /\ i # 0
        <5>1. r[i] = g[i] /\ r[i - 1] = g[i - 1] /\ i \in 1 .. k - 1
          BY <3>3, <3>5, <4>3
        <5> QED
          BY <3>4, <4>3, <5>1
      <4> QED
        BY <4>1, <4>2, <4>3
    <3>8. Walk(r, f, p, k)
      BY <3>6, <3>7, Zenon DEF Walk, Started
    <3> QED
      BY <2>1, <3>8
  <2> QED
    BY <2>2, <2>3
<1>2. m \notin bad
  BY <1>1
<1> QED
  BY <1>2

\* Along the whole walk one inode at most is kept, and the disk is as it was.
LEMMA WalkHolds ==
    ASSUME NEW f, NEW H, NEW R, Fine(f, H, R), NEW p, NEW m \in Nat, NEW r, Walk(r, f, p, m)
    PROVE  Walked(f, r[m], H, R)
<1>1. r[0] = Started(f) /\ \A k \in 1 .. m : r[k] = Descend(r[k - 1], p[k])
  BY WalkStep
<1> DEFINE bad == {k \in Nat : k <= m /\ ~Walked(f, r[k], H, R)}
<1>2. ASSUME bad # {} PROVE FALSE
  <2>1. PICK k \in bad : \A j \in bad : k <= j
    BY Zenon, <1>2, LeastExists
  <2>2. CASE k = 0
    <3>1. RootDir \in LiveIn(Disk(f))
      BY DEF Fine, Tree, TreeOK
    <3>2. Walked(f, Reached(Iget(f, RootDir), RootDir), H, R)
      BY <3>1, ReachedIs
    <3> QED
      BY <1>1, <2>1, <2>2, <3>2 DEF Started
  <2>3. CASE k # 0
    <3>1. k \in 1 .. m /\ k - 1 \in Nat /\ k - 1 <= m /\ k - 1 \notin bad
      BY <2>1, <2>3
    <3>2. Walked(f, r[k - 1], H, R)
      BY <3>1
    <3>3. Walked(f, Descend(r[k - 1], p[k]), H, R)
      BY <3>2, DescendHolds
    <3> QED
      BY <1>1, <2>1, <3>1, <3>3
  <2> QED
    BY <2>2, <2>3
<1>3. m \notin bad
  BY <1>2
<1> QED
  BY <1>3

\* A path has a last name, which may be missing.
LEMMA PathIs ==
    ASSUME NEW p \in Paths
    PROVE  Len(p) \in Nat /\ Len(p) - 1 \in Nat /\ Base(p) \in (Name \ {Slash}) \cup {NoName}
<1>1. p \in Seq((Name \ {Slash}) \cup {NoName}) /\ p # <<>>
  BY NamesAssumption
<1> QED
  BY <1>1 DEF Base

\* dir_namei ends at a directory, nowhere, or not at all.
LEMMA ParentHolds ==
    ASSUME NEW f, NEW H, NEW R, Fine(f, H, R), NEW p \in Paths
    PROVE  /\ Walked(f, Parent(f, p), H, R)
           /\ Parent(f, p).dir # 0 => Parent(f, p).dir \in DirsIn(Disk(f))
<1> DEFINE m == Len(p) - 1
           r == CHOOSE q : Walk(q, f, p, m)
<1>1. m \in Nat
  BY PathIs
<1> HIDE DEF m
<1>2. Walk(r, f, p, m)
  BY <1>1, WalkExists
<1>3. Parent(f, p) = OnlyDir(r[m])
  BY DEF Parent, Walk, m
<1> HIDE DEF r
<1>4. Walked(f, r[m], H, R)
  BY <1>1, <1>2, WalkHolds
<1>5. /\ Walked(f, OnlyDir(r[m]), H, R)
      /\ OnlyDir(r[m]).dir # 0 => OnlyDir(r[m]).dir \in DirsIn(Disk(f))
  BY <1>4, OnlyDirHolds
<1> QED
  BY <1>3, <1>5

\* An entry is made dirty.
LEMMA TouchedHolds ==
    ASSUME NEW f, NEW H, NEW R, Fine(f, H, R), NEW g, Walked(f, g, H, R)
    PROVE  Walked(f, Touched(g), H, R)
<1>1. CASE g.dir = 0
  BY <1>1 DEF Touched
<1>2. CASE g.dir # 0
  <2> DEFINE n == g.dir
             e == g.f
             s == Entry(e, n)
             e2 == [e EXCEPT !.table[s].dirt = TRUE]
             g2 == [f |-> e2, dir |-> n]
             R2 == Hold(R, n)
  <2>1. n \in LiveIn(Disk(f)) /\ n \in Inr /\ Fine(e, H, R2) /\ Disk(e) = Disk(f)
    BY <1>2, WalkReady
  <2>2. g = [f |-> e, dir |-> n]
    BY DEF Walked
  <2>3. Touched(g) = g2
    BY Zenon, <1>2, <2>2 DEF Touched
  <2>4. R2[n] > 0
    <3>1. R \in [Inr -> Nat]
      BY DEF Fine, TableOK
    <3> QED
      BY <2>1, <3>1, KeepIs
  <2> HIDE DEF n, e, R2
  <2>5. /\ s \in Slot /\ e.table[s].num = n /\ e.table[s].cnt > 0 /\ n # 0
        /\ Disk(e).cur[n] = Mem(e, n).node /\ e.table[s].node.nlinks > 0 /\ IsFs(e)
        /\ n \in LiveIn(Disk(e))
    <3>1. TableOK(e, H, R2)
      BY <2>1 DEF Fine
    <3> QED
      BY <2>1, <2>4, <3>1, HeldIs DEF TableOK
  <2> DEFINE x == [e.table[s] EXCEPT !.dirt = TRUE]
  <2>6. e.table[s] \in TabEntry /\ DOMAIN e = Fields /\ e.table \in [Slot -> TabEntry]
    BY <2>5 DEF IsFs
  <2>7. x \in TabEntry /\ x.num = e.table[s].num /\ x.cnt = e.table[s].cnt /\ x.dirt = TRUE
        /\ x.node = e.table[s].node
    BY Zenon, <2>6 DEF TabEntry
  <2>8. e2 = [e EXCEPT !.table = [e.table EXCEPT ![s] = x]]
    BY <2>5, <2>6 DEF Fields
  <2> HIDE DEF x, e2, s
  <2>9. /\ DOMAIN e2 = Fields /\ e2.table = [e.table EXCEPT ![s] = x]
        /\ e2.imap = e.imap /\ e2.zmap = e.zmap /\ e2.dev = e.dev /\ e2.body = e.body
        /\ e2.pinned = e.pinned /\ e2.status = e.status
    BY <2>6, <2>8 DEF Fields
  <2>10. e2.table \in [Slot -> TabEntry] /\ e2.table[s] = x
         /\ \A t \in Slot \ {s} : e2.table[t] = e.table[t]
    BY <2>5, <2>6, <2>7, <2>9
  <2>11. IsFs(e2)
    BY <2>5, <2>9, <2>10 DEF IsFs
  <2>12. TableOK(e2, H, R2) /\ Disk(e2).cur = With(Disk(e).cur, n, e.table[s].node)
    <3>1. TableOK(e, H, R2) /\ e.pinned \in SUBSET Blk
      BY <2>1 DEF Fine, TableOK
    <3>2. /\ e2.table[s].num = e.table[s].num /\ e2.table[s].cnt = e.table[s].cnt
          /\ e2.table[s].node.nlinks > 0 /\ e2.table[s].node = e.table[s].node
          /\ e2.table[s].dirt
      BY <2>5, <2>7, <2>10
    <3>3. e2.imap = e.imap /\ e2.dev = e.dev /\ e2.pinned \in SUBSET Blk
      BY <2>9, <3>1
    <3>4. TableOK(e2, H, R2)
      BY ONLY <2>5, <2>10, <2>11, <3>1, <3>2, <3>3, EntrySet
    <3>5. Disk(e2).cur = With(Disk(e).cur, e.table[s].num, e2.table[s].node)
      BY ONLY <2>5, <2>10, <2>11, <3>1, <3>2, <3>3, EntrySet
    <3> QED
      BY <2>5, <3>2, <3>4, <3>5
  <2>13. Disk(e2).cur = Disk(e).cur
    <3>1. n \in DOMAIN Disk(e).cur /\ Disk(e).cur[n] = e.table[s].node
      BY <2>5 DEF LiveIn, Mem, s
    <3>2. Disk(e).cur = [m \in DOMAIN Disk(e).cur |-> Disk(e).cur[m]]
      BY CurIsFun
    <3>3. With(Disk(e).cur, n, Disk(e).cur[n]) = Disk(e).cur
      BY ONLY <3>1, <3>2, WithSame
    <3> QED
      BY <2>12, <3>1, <3>3
  <2>14. Disk(e2) = Disk(e)
    BY <2>9, <2>13, DiskIs
  <2>15. Fine(e2, H, R2)
    BY <2>1, <2>9, <2>12, <2>14 DEF Fine
  <2>16. g2.f = e2 /\ g2.dir = n /\ g2 = [f |-> g2.f, dir |-> g2.dir]
    OBVIOUS
  <2> HIDE DEF g2
  <2>17. Stands(f, g2, H, R)
    BY <2>1, <2>14, <2>15, <2>16 DEF Stands, R2
  <2>18. Walked(f, g2, H, R)
    BY <2>16, <2>17 DEF Walked
  <2> QED
    BY <2>3, <2>18
<1> QED
  BY <1>1, <1>2

\* namei.  When the last name is not there, its directory stays counted.
LEMMA NameiHolds ==
    ASSUME NEW f, NEW H, NEW R, Fine(f, H, R), NEW p \in Paths
    PROVE  Walked(f, Namei(f, p), H, R)
<1> DEFINE d == Parent(f, p)
           x == Base(p)
           n == Child(d.f, d.dir, x, TRUE)
<1>1. Walked(f, d, H, R) /\ (d.dir # 0 => d.dir \in DirsIn(Disk(f)))
  BY ParentHolds
<1> HIDE DEF d
<1>2. Namei(f, p) = Last(d, x)
  BY DEF Namei, d
<1>3. CASE d.dir = 0 \/ x = NoName
  BY Zenon, <1>1, <1>2, <1>3 DEF Last
<1>4. CASE d.dir # 0 /\ x # NoName /\ n = 0
  <2>1. Last(d, x) = [d EXCEPT !.dir = 0]
    BY <1>4 DEF Last, Target
  <2>2. d = [f |-> d.f, dir |-> d.dir]
    BY <1>1 DEF Walked
  <2> DEFINE e == [d EXCEPT !.dir = 0]
  <2>3. e.f = d.f /\ e.dir = 0 /\ e = [f |-> e.f, dir |-> e.dir]
    BY <2>2
  <2> HIDE DEF e
  <2>4. Fine(d.f, H, Hold(R, d.dir)) /\ Disk(d.f) = Disk(f) /\ d.dir \in Inr
    BY <1>1, <1>4, WalkReady
  <2>5. R \in [Inr -> Nat]
    BY DEF Fine, TableOK
  <2>6. \A m \in Inr : R[m] <= Hold(R, d.dir)[m]
    <3>1. \A m \in Inr : Hold(R, d.dir)[m] >= R[m] /\ R[m] \in Int
      BY <2>4, <2>5, KeepIs
    <3>2. Hold(R, d.dir) \in [Inr -> Nat]
      BY <2>4, <2>5, KeepIs
    <3>3. \A m \in Inr : Hold(R, d.dir)[m] \in Int
      BY <3>2
    <3> QED
      BY <3>1, <3>3
  <2>7. TableOK(d.f, H, R)
    <3>1. TableOK(d.f, H, Hold(R, d.dir))
      BY <2>4 DEF Fine
    <3> QED
      BY ONLY <2>5, <2>6, <3>1, TableLess
  <2>8. Fine(d.f, H, R)
    BY <2>4, <2>7 DEF Fine
  <2>9. Walked(f, e, H, R)
    BY <2>3, <2>4, <2>8 DEF Walked, Stands
  <2> QED
    BY <1>2, <2>1, <2>9 DEF e
<1>5. CASE d.dir # 0 /\ x # NoName /\ n # 0
  <2>1. Last(d, x) = Touched(Step(d.f, d.dir, n))
    BY Zenon, <1>5 DEF Last, Target
  <2>2. Ready(d.f, H, Hold(R, d.dir), d.dir) /\ Disk(d.f) = Disk(f)
    BY <1>1, <1>5, WalkReady
  <2>3. n \in LiveIn(Disk(f))
    <3>1. n = Child(d.f, d.dir, x, TRUE) /\ n # 0
      BY Zenon, <1>5
    <3> HIDE DEF n
    <3>2. n \in LiveIn(Disk(d.f))
      BY ONLY Zenon, <2>2, <3>1, NameIsThere
    <3> QED
      BY <2>2, <3>2
  <2> HIDE DEF n
  <2>4. Walked(f, Step(d.f, d.dir, n), H, R)
    BY Zenon, <1>1, <1>5, <2>3, StepHolds
  <2>5. Walked(f, Touched(Step(d.f, d.dir, n)), H, R)
    BY <2>4, TouchedHolds
  <2> QED
    BY <1>2, <2>1, <2>5
<1> QED
  BY Zenon, <1>3, <1>4, <1>5

-----------------------------------------------------------------------------
(* list                                                                      *)

Seen(f, g, H, R) == (Fine(g, H, R) /\ Disk(g) = Disk(f)) \/ Ended(g, H, R)

\* iget and iput of one inode leave the disk as it was.
LEMMA VisitHolds ==
    ASSUME NEW f, NEW H, NEW R, Fine(f, H, R), NEW g, Fine(g, H, R), Disk(g) = Disk(f),
           NEW n \in LiveIn(Disk(f))
    PROVE  Seen(f, Visit(g, n), H, R)
<1> DEFINE e == Iget(g, n)
<1>1. n \in Inr /\ R \in [Inr -> Nat]
  BY FineIs DEF Fine, TableOK
<1>2. \/ TableOK(e, H, Hold(R, n)) /\ Disk(e) = Disk(g) /\ e.status = "ok"
      \/ Ended(e, H, R)
  <2>1. TableOK(g, H, R) /\ g.status = "ok" /\ n \in LiveIn(Disk(g))
    BY DEF Fine
  <2> QED
    BY ONLY <2>1, IgetHolds
<1>3. Visit(g, n) = IF e.status # "ok" THEN e ELSE PutBack(e, n)
  BY DEF Visit
<1> HIDE DEF e
<1>4. CASE TableOK(e, H, Hold(R, n)) /\ Disk(e) = Disk(g) /\ e.status = "ok"
  <2>1. Hold(R, n)[n] > 0 /\ Less(Hold(R, n), n) = R
    BY <1>1, KeepIs, LessHold
  <2>2. LET h == PutBack(e, n)
        IN  TableOK(h, H, Less(Hold(R, n), n)) /\ Disk(h) = Disk(e) /\ h.status = e.status
    BY ONLY <1>1, <1>4, <2>1, PutBackHolds
  <2> DEFINE h == PutBack(e, n)
  <2>3. TableOK(h, H, R) /\ Disk(h) = Disk(f) /\ h.status = "ok"
    BY <1>4, <2>1, <2>2
  <2> HIDE DEF h
  <2>4. Fine(h, H, R)
    BY <2>3 DEF Fine
  <2> QED
    BY <1>3, <1>4, <2>3, <2>4 DEF Seen, h
<1>5. CASE Ended(e, H, R)
  BY Zenon, <1>3, <1>5 DEF Seen, Ended, NoEntry
<1> QED
  BY <1>2, <1>4, <1>5

Look(g, all, t) == IF g.status = "ok" /\ \E e \in all : e[1] = t
                   THEN Visit(g, (CHOOSE e \in all : e[1] = t)[3])
                   ELSE g

\* r is FS after every place up to m.
Looks(r, f, all, m) ==
    r = [t \in (0 .. m) \cup {-1} |->
            IF t = -1 THEN f
            ELSE LET g == r[t - 1]
                 IN  IF g.status = "ok" /\ \E e \in all : e[1] = t
                     THEN Visit(g, (CHOOSE e \in all : e[1] = t)[3])
                     ELSE g]

\* Each place of the listing follows from the one before.
LEMMA LooksStep ==
    ASSUME NEW r, NEW f, NEW all, NEW m \in Int, m >= -1, Looks(r, f, all, m)
    PROVE  r[-1] = f /\ \A t \in 0 .. m : r[t] = Look(r[t - 1], all, t)
<1>1. r[-1] = f
  <2>1. -1 \in (0 .. m) \cup {-1}
    OBVIOUS
  <2> QED
    BY <2>1 DEF Looks
<1>2. ASSUME NEW t \in 0 .. m PROVE r[t] = Look(r[t - 1], all, t)
  <2>1. t \in (0 .. m) \cup {-1} /\ t # -1
    OBVIOUS
  <2> QED
    BY <2>1 DEF Looks, Look
<1> QED
  BY <1>1, <1>2

\* There is such a function for every listing.
LEMMA LooksExist ==
    ASSUME NEW f, NEW all, NEW m \in Int, m >= -1
    PROVE  \E r : Looks(r, f, all, m)
<1> DEFINE bad == {k \in Nat : ~\E r : Looks(r, f, all, k - 1)}
<1>1. ASSUME bad # {} PROVE FALSE
  <2>1. PICK k \in bad : \A j \in bad : k <= j
    BY Zenon, <1>1, LeastExists
  <2>2. CASE k = 0
    <3> DEFINE r == [t \in (0 .. -1) \cup {-1} |-> f]
    <3>1. \A t \in (0 .. -1) \cup {-1} : t = -1
      OBVIOUS
    <3>2. r = [t \in (0 .. -1) \cup {-1} |-> IF t = -1 THEN f ELSE Look(r[t - 1], all, t)]
      BY <3>1, Zenon
    <3>3. Looks(r, f, all, -1)
      BY <3>2, Zenon DEF Looks, Look
    <3>4. k - 1 = -1
      BY <2>2
    <3> QED
      BY <2>1, <3>3, <3>4
  <2>3. CASE k # 0
    <3>1. k \in Nat /\ k - 1 \in Nat /\ k - 1 \notin bad /\ k - 1 \in Int /\ k - 1 - 1 >= -1
      BY <2>1, <2>3
    <3>2. PICK g : Looks(g, f, all, k - 1 - 1)
      BY <3>1
    <3> DEFINE n == k - 1
               z == Look(g[n - 1], all, n)
               r == [t \in (0 .. n) \cup {-1} |-> IF t = n THEN z ELSE g[t]]
    <3>3. n \in Nat /\ n - 1 >= -1 /\ n - 1 \in Int
      BY <3>1
    <3> HIDE DEF n
    <3>4. g[-1] = f /\ \A t \in 0 .. n - 1 : g[t] = Look(g[t - 1], all, t)
      BY <3>2, <3>3, LooksStep DEF n
    <3> HIDE DEF z
    <3>5. r[n] = z /\ \A t \in -1 .. n - 1 : r[t] = g[t]
      BY <3>3
    <3>6. r = [t \in (0 .. n) \cup {-1} |-> r[t]]
      OBVIOUS
    <3> HIDE DEF r
    <3>7. ASSUME NEW t \in (0 .. n) \cup {-1}
          PROVE  r[t] = IF t = -1 THEN f ELSE Look(r[t - 1], all, t)
      <4>1. CASE t = n
        <5>1. r[t - 1] = g[n - 1] /\ t # -1
          BY <3>3, <3>5, <4>1
        <5> QED
          BY <3>5, <4>1, <5>1 DEF z
      <4>2. CASE t = -1
        BY <3>3, <3>4, <3>5, <4>2
      <4>3. CASE t # n /\ t # -1
        <5>1. r[t] = g[t] /\ r[t - 1] = g[t - 1] /\ t \in 0 .. n - 1
          BY <3>3, <3>5, <4>3
        <5> QED
          BY <3>4, <4>3, <5>1
      <4> QED
        BY <4>1, <4>2, <4>3
    <3>8. Looks(r, f, all, n)
      BY <3>6, <3>7, Zenon DEF Looks, Look
    <3> QED
      BY <2>1, <3>8 DEF n
  <2> QED
    BY <2>2, <2>3
<1>2. m + 1 \in Nat /\ m + 1 - 1 = m
  OBVIOUS
<1>3. m + 1 \notin bad
  BY Zenon, <1>1
<1> QED
  BY <1>2, <1>3

\* Listing a directory up to any place leaves the disk as it was, or searches for ever.
LEMMA LooksHold ==
    ASSUME NEW f, NEW H, NEW R, Fine(f, H, R), NEW all, \A e \in all : e[3] \in LiveIn(Disk(f)),
           NEW m \in Int, m >= -1, NEW r, Looks(r, f, all, m)
    PROVE  Seen(f, r[m], H, R)
<1>1. r[-1] = f /\ \A t \in 0 .. m : r[t] = Look(r[t - 1], all, t)
  BY LooksStep
<1> DEFINE bad == {k \in Nat : k <= m + 1 /\ ~Seen(f, r[k - 1], H, R)}
<1>2. ASSUME bad # {} PROVE FALSE
  <2>1. PICK k \in bad : \A j \in bad : k <= j
    BY Zenon, <1>2, LeastExists
  <2>2. CASE k = 0
    <3>1. r[k - 1] = f
      BY <1>1, <2>2
    <3> QED
      BY <2>1, <3>1 DEF Seen
  <2>3. CASE k # 0
    <3>1. k - 1 \in 0 .. m /\ k - 1 \in Nat /\ k - 1 <= m + 1 /\ k - 1 \notin bad
      BY <2>1, <2>3
    <3> DEFINE g == r[k - 1 - 1]
    <3>2. Seen(f, g, H, R) /\ r[k - 1] = Look(g, all, k - 1)
      BY <1>1, <3>1
    <3> HIDE DEF g
    <3>3. CASE g.status = "ok" /\ \E e \in all : e[1] = k - 1
      <4> DEFINE n == (CHOOSE e \in all : e[1] = k - 1)[3]
      <4>1. n \in LiveIn(Disk(f)) /\ r[k - 1] = Visit(g, n)
        BY <3>2, <3>3 DEF Look
      <4> HIDE DEF n
      <4>2. Fine(g, H, R) /\ Disk(g) = Disk(f)
        BY Zenon, <3>2, <3>3 DEF Seen, Ended, NoEntry
      <4>3. Seen(f, Visit(g, n), H, R)
        BY <4>1, <4>2, VisitHolds
      <4> QED
        BY <2>1, <4>1, <4>3
    <3>4. CASE ~(g.status = "ok" /\ \E e \in all : e[1] = k - 1)
      <4>1. r[k - 1] = g
        BY <3>2, <3>4 DEF Look
      <4> QED
        BY <2>1, <3>2, <4>1
    <3> QED
      BY <3>3, <3>4
  <2> QED
    BY <2>2, <2>3
<1>3. m + 1 \in Nat /\ m + 1 \notin bad /\ m + 1 - 1 = m
  BY <1>2
<1> QED
  BY <1>3

\* What List leaves: seen is a function of its own there.
Listed(m) ==
    LET all == Listing(m.f, m.dir)
        seen[t \in Place \cup {-1}] ==
            IF t = -1 THEN m.f
            ELSE LET f == seen[t - 1]
                 IN  IF f.status = "ok" /\ \E e \in all : e[1] = t
                     THEN Visit(f, (CHOOSE e \in all : e[1] = t)[3])
                     ELSE f
        end == seen[PerBlk * Cardinality(FileBlk) - 1]
    IN  IF end.status = "ok" THEN PutBack(end, m.dir) ELSE end

\* list() of a directory leaves the tree as it was.
LEMMA ListedHolds ==
    ASSUME NEW f, NEW H, NEW R, Fine(f, H, R), NEW m, Walked(f, m, H, R), m.dir # 0, IsDir(m.f, m.dir)
    PROVE  Done(f, Listed(m), H)
<1> DEFINE last == PerBlk * Cardinality(FileBlk) - 1
           all == Listing(m.f, m.dir)
           n == m.dir
           r == CHOOSE q : Looks(q, m.f, all, last)
           R2 == Hold(R, n)
<1>1. n \in DirsIn(Disk(f)) /\ n \in Inr /\ Ready(m.f, H, R2, n) /\ Disk(m.f) = Disk(f)
      /\ Fine(m.f, H, R2)
  BY WalkReady
<1>2. last \in Int /\ last >= -1
  <2>1. Cardinality(FileBlk) \in Nat /\ PerBlk \in Nat
    <3>1. NrZones \in Nat /\ Direct \in Nat /\ PerInd \in Nat /\ PerInd * PerInd \in Nat
      BY InodesAssumption
    <3>2. IsFiniteSet(FileBlk)
      <4>1. Direct + PerInd + PerInd * PerInd - 1 \in Int
        BY <3>1
      <4> QED
        BY <4>1, FS_Interval DEF FileBlk
    <3> QED
      BY <3>2, FS_CardinalityType, NamesAssumption
  <2>2. PerBlk * Cardinality(FileBlk) \in Nat
    BY <2>1
  <2> QED
    BY <2>2
<1>3. \A e \in all : e[3] \in LiveIn(Disk(m.f))
  <2>1. Mem(m.f, n).node = Disk(m.f).cur[n] /\ DirOK(Disk(m.f), n) /\ n \in DirsIn(Disk(m.f))
        /\ Tree(Disk(m.f))
    BY <1>1, ReadyIs
  <2>2. ASSUME NEW e \in all
        PROVE  e[3] \in LiveIn(Disk(m.f))
    <3>1. PICK k \in FileBlk, i \in 0 .. PerBlk - 1 :
             /\ Used(Disk(m.f), n, k, i)
             /\ e = <<PerBlk * k + i, Cell(Disk(m.f), n, k, i).name, Cell(Disk(m.f), n, k, i).nr>>
      BY <2>1, <2>2, ListingIs
    <3> DEFINE u == <<n, Cell(Disk(m.f), n, k, i).name, Cell(Disk(m.f), n, k, i).nr>>
    <3>2. u \in EntsOf(Disk(m.f), n) /\ u[3] = e[3]
      BY <3>1, EntsAre
    <3> HIDE DEF u
    <3>3. u \in EntsIn(Disk(m.f))
      BY <2>1, <3>2 DEF EntsIn
    <3>4. EntsIn(Disk(m.f)) \subseteq DirsIn(Disk(m.f)) \X Name \X LiveIn(Disk(m.f))
      BY <2>1 DEF Tree, TreeOK
    <3> QED
      BY <3>2, <3>3, <3>4
  <2> QED
    BY <2>2
<1> HIDE DEF all
<1>4. Looks(r, m.f, all, last)
  BY <1>2, LooksExist
<1>5. Listed(m) = IF r[last].status = "ok" THEN PutBack(r[last], n) ELSE r[last]
  <2>1. Place \cup {-1} = (0 .. last) \cup {-1}
    BY DEF Place
  <2> QED
    BY DEF Listed, Looks, all, Place
<1> HIDE DEF r, last
<1>6. Seen(m.f, r[last], H, R2)
  BY <1>1, <1>2, <1>3, <1>4, LooksHold
<1> DEFINE g == r[last]
<1> HIDE DEF g
<1>7. CASE Fine(g, H, R2) /\ Disk(g) = Disk(m.f)
  <2>1. R2[n] > 0
    BY <1>1, ReadyIs
  <2>2. Leads(Disk(f), Disk(g))
    BY <1>1, <1>7, Stutters
  <2> HIDE DEF n, R2
  <2>3. Done(f, PutBack(g, n), H)
    BY ONLY <1>1, <1>7, <2>1, <2>2, FinishPut
  <2>4. Listed(m) = PutBack(g, n)
    BY <1>5, <1>7 DEF g, Fine
  <2> QED
    BY <2>3, <2>4
<1>8. CASE Ended(g, H, R2)
  <2>1. Listed(m) = g
    BY Zenon, <1>5, <1>8 DEF g, Ended, NoEntry
  <2> QED
    BY <1>8, <2>1, Ends
<1> QED
  BY <1>6, <1>7, <1>8 DEF Seen, g

-----------------------------------------------------------------------------
(* Ends that several calls have. *)

\* Nothing was reached.
LEMMA NothingReached ==
    ASSUME NEW f, NEW H, NEW R, Fine(f, H, R), NEW g, Walked(f, g, H, R), g.dir = 0
    PROVE  Done(f, g.f, H)
<1>1. 0 \notin LiveIn(Disk(f))
  BY FineIs DEF Inr
<1>2. CASE Fine(g.f, H, R) /\ Disk(g.f) = Disk(f)
  <2>1. TableOK(g.f, H, R) /\ g.f.status = "ok"
    BY <1>2 DEF Fine
  <2> QED
    BY ONLY <1>2, <2>1, Stays, Fine(f, H, R)
<1>3. CASE Ended(g.f, H, R)
  BY <1>3, Ends
<1> QED
  BY <1>1, <1>2, <1>3 DEF Walked, Stands

\* What was reached is put back.
LEMMA ReachedPut ==
    ASSUME NEW f, NEW H, NEW R, Fine(f, H, R), NEW g, Walked(f, g, H, R), g.dir # 0
    PROVE  Done(f, PutBack(g.f, g.dir), H)
<1> DEFINE n == g.dir
           R2 == Hold(R, n)
<1>1. n \in Inr /\ Fine(g.f, H, R2) /\ Disk(g.f) = Disk(f)
  BY WalkReady
<1>2. R \in [Inr -> Nat]
  BY DEF Fine, TableOK
<1>3. R2[n] > 0
  BY <1>1, <1>2, KeepIs
<1>4. Leads(Disk(f), Disk(g.f))
  BY <1>1, Stutters
<1> HIDE DEF n, R2
<1>5. Done(f, PutBack(g.f, n), H)
  BY ONLY <1>1, <1>3, <1>4, FinishPut
<1> QED
  BY <1>5 DEF n

\* A descriptor keeps what was reached.
LEMMA ReachedOpened ==
    ASSUME NEW f, NEW H, NEW R, Fine(f, H, R), NEW g, Walked(f, g, H, R), g.dir # 0,
           NEW H2, H2 = Hold(H, Entry(g.f, g.dir))
    PROVE  Done(f, g.f, H2) /\ Entry(g.f, g.dir) \in Slot
<1> DEFINE n == g.dir
           R2 == Hold(R, n)
<1>1. n \in Inr /\ Fine(g.f, H, R2) /\ Disk(g.f) = Disk(f)
  BY WalkReady
<1>2. R \in [Inr -> Nat]
  BY DEF Fine, TableOK
<1>3. R2[n] > 0
  BY <1>1, <1>2, KeepIs
<1>4. H2 = Hold(H, Entry(g.f, n))
  OBVIOUS
<1>5. TableOK(g.f, H, R2) /\ g.f.status = "ok"
  BY <1>1 DEF Fine
<1> HIDE DEF n, R2
<1>6. TableOK(g.f, H2, Zero) /\ Entry(g.f, n) \in Slot
  BY ONLY <1>1, <1>3, <1>4, <1>5, HandedOver
<1>7. Done(f, g.f, H2)
  BY ONLY <1>1, <1>5, <1>6, Stays, Fine(f, H, R)
<1> QED
  BY <1>6, <1>7 DEF n

\* A directory was reached.
LEMMA DirReached ==
    ASSUME NEW f, NEW H, NEW R, Fine(f, H, R), NEW d, Walked(f, d, H, R), d.dir # 0,
           d.dir \in DirsIn(Disk(f))
    PROVE  /\ Ready(d.f, H, Hold(R, d.dir), d.dir) /\ Disk(d.f) = Disk(f)
           /\ d.dir \in Inr /\ Fine(d.f, H, Hold(R, d.dir)) /\ R \in [Inr -> Nat]
<1>1. IsDir(d.f, d.dir)
  BY WalkReady
<1> QED
  BY <1>1, WalkReady DEF Fine, TableOK

\* The last name of a path is no slash.
LEMMA NameIs ==
    ASSUME NEW p \in Paths, Base(p) # NoName
    PROVE  /\ Base(p) \in Name \ {Slash}
           /\ ~DotName(p) => Base(p) \in Name \ (Dotted \cup {Slash})
BY PathIs DEF DotName, Dotted

\* A step that does no harm does none of the things that are harmful.
LEMMA NoHarm ==
    ASSUME NEW old, NEW r, NEW done, NEW new, new = old \cup Harm(r, done), new = {}
    PROVE  old = {} /\ ~done
BY DEF Harm

-----------------------------------------------------------------------------
(* Descriptors. *)

OpensOf(hd) == [s \in Slot |-> Cardinality({h \in Handle : hd[h] = s})]

\* The descriptors open on an entry can be counted.
LEMMA OpensIs ==
    ASSUME NEW hd \in [Handle -> Slot \cup {Closed}]
    PROVE  /\ OpensOf(hd) \in [Slot -> Nat]
           /\ \A s \in Slot : IsFiniteSet({h \in Handle : hd[h] = s})
<1>1. \A s \in Slot : IsFiniteSet({h \in Handle : hd[h] = s})
  <2>1. IsFiniteSet(Handle)
    BY NamesAssumption
  <2> TAKE s \in Slot
  <2>2. {h \in Handle : hd[h] = s} \subseteq Handle
    OBVIOUS
  <2> QED
    BY <2>1, <2>2, FS_Subset
<1>2. \A s \in Slot : Cardinality({h \in Handle : hd[h] = s}) \in Nat
  BY <1>1, FS_CardinalityType
<1> QED
  BY <1>1, <1>2 DEF OpensOf

\* No entry of the table is taken for Closed.
LEMMA NotASlot == Closed \notin Slot
BY InodesAssumption DEF Closed, Slot

\* Opening a descriptor counts its entry once more.
LEMMA OpensMore ==
    ASSUME NEW hd \in [Handle -> Slot \cup {Closed}], NEW h \in Handle, hd[h] = Closed,
           NEW s \in Slot
    PROVE  OpensOf([hd EXCEPT ![h] = s]) = Hold(OpensOf(hd), s)
<1> DEFINE hd2 == [hd EXCEPT ![h] = s]
           On(t) == {i \in Handle : hd[i] = t}
           On2(t) == {i \in Handle : hd2[i] = t}
<1>1. On2(s) = On(s) \cup {h} /\ h \notin On(s)
  BY NotASlot
<1>2. \A t \in Slot \ {s} : On2(t) = On(t)
  BY NotASlot
<1>3. IsFiniteSet(On(s))
  BY OpensIs
<1>4. Cardinality(On2(s)) = Cardinality(On(s)) + 1
  <2> HIDE DEF On, On2
  <2> QED
    BY <1>1, <1>3, CountMore
<1>5. OpensOf(hd) = [t \in Slot |-> Cardinality(On(t))]
  BY DEF OpensOf
<1>6. OpensOf(hd2) = [t \in Slot |-> Cardinality(On2(t))]
  BY DEF OpensOf
<1> HIDE DEF hd2, On, On2
<1>7. \A t \in Slot : Cardinality(On2(t)) = Hold(OpensOf(hd), s)[t]
  BY <1>2, <1>4, <1>5 DEF Hold
<1>8. OpensOf(hd2) = Hold(OpensOf(hd), s)
  BY <1>5, <1>6, <1>7 DEF Hold
<1> QED
  BY <1>8 DEF hd2

Fewer(H, H2, s) ==
    /\ H[s] > 0 /\ H2 \in [Slot -> Nat] /\ H2[s] = H[s] - 1
    /\ \A t \in Slot : H2[t] <= H[t]

\* Closing a descriptor counts its entry once less.
LEMMA OpensLess ==
    ASSUME NEW hd \in [Handle -> Slot \cup {Closed}], NEW h \in Handle, NEW s \in Slot, hd[h] = s,
           NEW H, H = OpensOf(hd), NEW H2, H2 = OpensOf([hd EXCEPT ![h] = Closed])
    PROVE  Fewer(H, H2, s)
<1> DEFINE hd2 == [hd EXCEPT ![h] = Closed]
           On(t) == {i \in Handle : hd[i] = t}
           On2(t) == {i \in Handle : hd2[i] = t}
<1>1. On2(s) = On(s) \ {h} /\ h \in On(s)
  BY NotASlot
<1>2. \A t \in Slot \ {s} : On2(t) = On(t)
  BY NotASlot
<1>3. IsFiniteSet(On(s))
  BY OpensIs
<1>4. Cardinality(On2(s)) = Cardinality(On(s)) - 1 /\ Cardinality(On(s)) \in Nat \ {0}
  <2> HIDE DEF On, On2
  <2> QED
    BY <1>1, <1>3, CountLess
<1>5. H = [t \in Slot |-> Cardinality(On(t))] /\ H \in [Slot -> Nat]
  BY OpensIs DEF OpensOf
<1>6. H2 = [t \in Slot |-> Cardinality(On2(t))]
  BY DEF OpensOf
<1>7. H2 \in [Slot -> Nat]
  <2>1. hd2 \in [Handle -> Slot \cup {Closed}] /\ H2 = OpensOf(hd2)
    OBVIOUS
  <2> HIDE DEF hd2
  <2> QED
    BY Zenon, <2>1, OpensIs
<1> HIDE DEF hd2, On, On2
<1>8. H[s] = Cardinality(On(s)) /\ H2[s] = Cardinality(On2(s))
  BY Zenon, <1>5, <1>6
<1>9. \A t \in Slot \ {s} : H2[t] = H[t]
  BY Zenon, <1>2, <1>5, <1>6
<1>10. H[s] > 0 /\ H2[s] = H[s] - 1
  BY <1>4, <1>8
<1>11. \A t \in Slot : H[t] \in Nat
  BY <1>5
<1>12. ASSUME NEW t \in Slot
       PROVE  H2[t] <= H[t]
  <2>1. H[t] \in Nat /\ (t # s => H2[t] = H[t]) /\ (t = s => H2[t] = H[t] - 1)
    BY Zenon, <1>9, <1>10, <1>11
  <2> QED
    BY ONLY <2>1
<1> QED
  BY Zenon, <1>7, <1>10, <1>12 DEF Fewer

-----------------------------------------------------------------------------
(* The calls.                                                                *)

\* A call that reached d, or nothing.
Reaching(d) ==
    /\ handle \in [Handle -> Slot \cup {Closed}]
    /\ Fine(fs, OpensOf(handle), Zero)
    /\ Walked(fs, d, OpensOf(handle), Zero)

Called(d) == Reaching(d) /\ (d.dir # 0 => d.dir \in DirsIn(Disk(fs)))

\* And what is true after it.
Answered == handle' \in [Handle -> Slot \cup {Closed}] /\ Done(fs, fs', OpensOf(handle'))

\* A call that reached a directory may work in it.
LEMMA CalledIs ==
    ASSUME NEW d, Called(d), d.dir # 0, NEW H, H = OpensOf(handle), NEW R, R = Hold(Zero, d.dir)
    PROVE  /\ Ready(d.f, H, R, d.dir) /\ Disk(d.f) = Disk(fs) /\ d.dir \in Inr
           /\ handle \in [Handle -> Slot \cup {Closed}]
           /\ R[d.dir] > 0 /\ R \in [Inr -> Nat]
BY DirReached, ZeroIs, KeepIs DEF Called, Reaching

\* A call that opens nothing.
LEMMA Unopened ==
    ASSUME NEW d, Reaching(d), UNCHANGED handle, Done(fs, fs', OpensOf(handle))
    PROVE  Answered
BY DEF Answered, Reaching

\* The call goes on with d.f, which is the same on the disk.
LEMMA UnopenedAt ==
    ASSUME NEW d, Called(d), d.dir # 0, UNCHANGED handle, Done(d.f, fs', OpensOf(handle))
    PROVE  Answered
<1>1. Disk(d.f) = Disk(fs)
  BY CalledIs
<1>2. Done(fs, fs', OpensOf(handle))
  BY <1>1, DoneSame
<1> QED
  BY <1>2, Unopened DEF Called

\* A call whose directory is not found.
LEMMA NoParentCall ==
    ASSUME NEW d, Called(d), NoParent(d)
    PROVE  Answered
<1>1. d.dir = 0 /\ fs' = d.f /\ UNCHANGED handle
  BY DEF NoParent
<1>2. Done(fs, d.f, OpensOf(handle))
  BY <1>1, NothingReached DEF Called, Reaching
<1> QED
  BY <1>1, <1>2, Unopened DEF Called

\* A call that is declined once its directory is found.
LEMMA DeclinedCall ==
    ASSUME NEW d, Called(d), Declined(d)
    PROVE  Answered
<1>1. d.dir # 0 /\ fs' = PutBack(d.f, d.dir) /\ UNCHANGED handle
  BY DEF Declined
<1>2. Done(fs, PutBack(d.f, d.dir), OpensOf(handle))
  BY <1>1, ReachedPut DEF Called, Reaching
<1> QED
  BY <1>1, <1>2, Unopened DEF Called

\* A descriptor is opened for what g reached.
LEMMA OpenedFor ==
    ASSUME NEW g, Reaching(g), g.dir # 0, NEW h \in Handle, handle[h] = Closed,
           fs' = g.f, handle' = [handle EXCEPT ![h] = Entry(g.f, g.dir)]
    PROVE  Answered
<1> DEFINE s == Entry(g.f, g.dir)
           H2 == Hold(OpensOf(handle), s)
<1>1. Done(fs, g.f, H2) /\ s \in Slot
  BY ReachedOpened DEF Reaching
<1>2. handle \in [Handle -> Slot \cup {Closed}]
  BY DEF Reaching
<1>3. handle' = [handle EXCEPT ![h] = s]
  OBVIOUS
<1> HIDE DEF s
<1>4. OpensOf(handle') = H2
  BY Zenon, <1>1, <1>2, <1>3, OpensMore
<1>5. handle' \in [Handle -> Slot \cup {Closed}]
  BY <1>1, <1>2, <1>3
<1> QED
  BY <1>1, <1>4, <1>5 DEF Answered

\* Opening a directory by a path that ends with a slash.
LEMMA OpenDirCall ==
    ASSUME NEW d, Called(d), NEW p \in Paths, NEW h \in Handle, OpenDir(d, p, h)
    PROVE  Answered
BY Zenon, OpenedFor DEF OpenDir, Called

\* The named entry is fetched.
LEMMA FetchedIs ==
    ASSUME NEW d, Called(d), NEW p \in Paths, Within(d, p, TRUE), NEW g, g = Fetched(d, p)
    PROVE  Reaching(g)
<1> DEFINE n == Child(d.f, d.dir, Base(p), TRUE)
           H == OpensOf(handle)
           R == Hold(Zero, d.dir)
<1>1. d.dir # 0 /\ n # 0
  BY Zenon DEF Within
<1>2. Ready(d.f, H, R, d.dir) /\ Disk(d.f) = Disk(fs)
  BY <1>1, CalledIs
<1>3. n \in {0} \cup LiveIn(Disk(fs))
  <2>1. n \in LiveIn(Disk(d.f))
    BY Zenon, <1>1, <1>2, NameIsThere
  <2> QED
    BY Zenon, <1>2, <2>1
<1>4. g = Step(d.f, d.dir, n)
  BY DEF Fetched
<1> HIDE DEF n
<1>5. Walked(fs, g, H, Zero)
  BY <1>1, <1>3, <1>4, StepHolds DEF Called, Reaching
<1> QED
  BY <1>5 DEF Called, Reaching

\* Opening what is there, which gives up no block.
LEMMA OpenCall ==
    ASSUME NEW d, Called(d), NEW p \in Paths, NEW h \in Handle, NEW trunc,
           Open(d, p, h, trunc), harm' = {}
    PROVE  Answered
<1> DEFINE g == Fetched(d, p)
<1>0. /\ Within(d, p, TRUE) /\ handle[h] = Closed
      /\ harm' = harm \cup Harm("blocks", fs' # g.f)
      /\ handle' = [handle EXCEPT ![h] = IF g.dir = 0 THEN Closed ELSE Entry(g.f, g.dir)]
  BY Zenon DEF Open
<1>1. /\ Within(d, p, TRUE) /\ handle[h] = Closed /\ fs' = g.f
      /\ handle' = [handle EXCEPT ![h] = IF g.dir = 0 THEN Closed ELSE Entry(g.f, g.dir)]
  BY Zenon, <1>0, NoHarm
<1>2. Reaching(g)
  BY Zenon, <1>1, FetchedIs
<1> HIDE DEF g
<1>3. CASE g.dir = 0
  <2>1. handle' = handle
    BY <1>1, <1>2, <1>3 DEF Reaching
  <2>2. Done(fs, g.f, OpensOf(handle))
    BY <1>2, <1>3, NothingReached DEF Reaching
  <2> QED
    BY <1>1, <1>2, <2>1, <2>2, Unopened
<1>4. CASE g.dir # 0
  BY Zenon, <1>1, <1>2, <1>4, OpenedFor
<1> QED
  BY <1>3, <1>4

\* Opening a directory for writing.
LEMMA OpenDeniedCall ==
    ASSUME NEW d, Called(d), NEW p \in Paths, OpenDenied(d, p)
    PROVE  Answered
<1> DEFINE g == Fetched(d, p)
<1>1. Within(d, p, TRUE) /\ g.dir # 0 /\ fs' = PutBack(g.f, g.dir) /\ UNCHANGED handle
  BY Zenon DEF OpenDenied
<1>2. Reaching(g)
  BY Zenon, <1>1, FetchedIs
<1> HIDE DEF g
<1>3. Done(fs, PutBack(g.f, g.dir), OpensOf(handle))
  BY <1>1, <1>2, ReachedPut DEF Reaching
<1> QED
  BY <1>1, <1>2, <1>3, Unopened

\* A name is to be made, and n is the inode for it.
Naming(d, p, n, H, R) ==
    /\ Ready(d.f, H, R, d.dir)
    /\ ~DotName(p) => Base(p) \in Name \ (Dotted \cup {Slash})
    /\ Child(d.f, d.dir, Base(p), TRUE) = 0 /\ n = NewInodeNr(d.f) /\ n # 0

\* A call that makes a name has a free name and a free inode.
LEMMA MakingIs ==
    ASSUME NEW d, Called(d), NEW p \in Paths, NEW n, Making(d, p, n)
    PROVE  /\ Naming(d, p, n, OpensOf(handle), Hold(Zero, d.dir))
           /\ d.dir # 0
<1>1. d.dir # 0 /\ Base(p) # NoName /\ Child(d.f, d.dir, Base(p), TRUE) = 0
      /\ n = NewInodeNr(d.f) /\ n # 0
  BY Zenon DEF Making, Within
<1>2. Ready(d.f, OpensOf(handle), Hold(Zero, d.dir), d.dir)
  BY <1>1, CalledIs
<1>3. ~DotName(p) => Base(p) \in Name \ (Dotted \cup {Slash})
  BY <1>1, NameIs
<1> QED
  BY Zenon, <1>1, <1>2, <1>3 DEF Naming

\* There is no entry in the table for it.
LEMMA NoEntryForIt ==
    ASSUME NEW d, NEW p, NEW n, NEW H, NEW R, Naming(d, p, n, H, R), NewInode(d.f).status # "ok"
    PROVE  Done(d.f, NewInode(d.f), H)
<1> DEFINE new == NewInode(d.f)
<1>1. TableOK(d.f, H, R) /\ d.f.status = "ok" /\ n = NewInodeNr(d.f) /\ n # 0
  BY ReadyIs DEF Naming
<1>2. new.status # "ok" /\ new = NewInode(d.f)
  OBVIOUS
<1> HIDE DEF new
<1>3. \/ Ended(new, H, R)
      \/ /\ TableOK(new, H, Hold(R, n)) /\ Given(d.f, new, n, Mem(new, n).node)
         /\ new.status = "ok" /\ new.zmap = d.f.zmap
  BY ONLY <1>1, <1>2, InodeGiven
<1>4. Ended(new, H, R)
  BY <1>2, <1>3
<1> QED
  BY <1>2, <1>4, Ends

\* Making a file.
LEMMA CreateCall ==
    ASSUME NEW d, Called(d), NEW p \in Paths, NEW h \in Handle, NEW mode \in Modes,
           Create(d, p, h, mode), harm' = {}
    PROVE  Answered
<1>0. ~DotName(p) /\ mode # "dir"
  BY Zenon DEF Create, MadeBy, Harm
<1>1. PICK n, new, g :
         /\ handle[h] = Closed /\ n = NewInodeNr(d.f) /\ new = NewInode(d.f)
         /\ Making(d, p, n) /\ new.status = "ok" /\ g = Moded(new, n, mode) /\ Room(g, d.dir)
         /\ fs' = PutBack(AddEntry(g, d.dir, Base(p), n), d.dir)
         /\ handle' = [handle EXCEPT ![h] = Entry(g, n)]
  BY Zenon DEF Create
<1> DEFINE H == OpensOf(handle)
           R == Hold(Zero, d.dir)
           x == Base(p)
           s == Entry(g, n)
           H2 == Hold(H, s)
<1>2. Naming(d, p, n, H, R) /\ d.dir # 0
  BY <1>1, MakingIs
<1>3. /\ Ready(d.f, H, R, d.dir) /\ x \in Name \ (Dotted \cup {Slash})
      /\ Child(d.f, d.dir, x, TRUE) = 0
  BY Zenon, <1>0, <1>2 DEF Naming
<1>4. n = NewInodeNr(d.f) /\ n # 0 /\ NewInode(d.f).status = "ok"
      /\ g = Moded(NewInode(d.f), n, mode) /\ Room(g, d.dir) /\ H2 = Hold(H, Entry(g, n))
  BY <1>1, <1>2 DEF Naming
<1>5. fs' = PutBack(AddEntry(g, d.dir, x, n), d.dir) /\ handle' = [handle EXCEPT ![h] = s]
      /\ handle[h] = Closed
  BY <1>1
<1>6. handle \in [Handle -> Slot \cup {Closed}] /\ Disk(d.f) = Disk(fs)
  BY <1>2, CalledIs
<1> HIDE DEF H, R, x, H2
<1>7. Done(d.f, PutBack(AddEntry(g, d.dir, x, n), d.dir), H2) /\ Entry(g, n) \in Slot
  <2>1. mode \in Modes /\ mode # "dir"
    BY <1>0
  <2> QED
    BY ONLY Zenon, <1>3, <1>4, <2>1, CreateHolds
<1>8. s \in Slot
  BY <1>7
<1> HIDE DEF s
<1>9. OpensOf(handle') = H2
  BY Zenon, <1>5, <1>6, <1>8, OpensMore DEF H2, H
<1>10. handle' \in [Handle -> Slot \cup {Closed}]
  BY <1>5, <1>6, <1>8
<1>11. Done(fs, fs', H2)
  BY <1>5, <1>6, <1>7, DoneSame
<1> QED
  BY <1>9, <1>10, <1>11 DEF Answered

\* Making a file without an entry in the table, or without room for its name.
LEMMA CreateFailsCall ==
    ASSUME NEW d, Called(d), NEW p \in Paths, NEW mode \in Modes, CreateFails(d, p, mode), harm' = {}
    PROVE  Answered
<1>0. ~DotName(p) /\ mode # "dir"
  BY Zenon DEF CreateFails, MadeBy, Harm
<1>1. PICK n, new :
         /\ n = NewInodeNr(d.f) /\ new = NewInode(d.f) /\ Making(d, p, n)
         /\ new.status = "ok" => ~Room(Moded(new, n, mode), d.dir)
         /\ fs' = IF new.status # "ok" THEN new
                  ELSE PutBack(Abandon(AddEntry(Moded(new, n, mode), d.dir, Base(p), n), n), d.dir)
  BY DEF CreateFails
<1>2. UNCHANGED handle
  BY DEF CreateFails
<1> DEFINE H == OpensOf(handle)
           R == Hold(Zero, d.dir)
           x == Base(p)
           g == Moded(new, n, mode)
<1>3. Naming(d, p, n, H, R) /\ d.dir # 0
  BY <1>1, MakingIs
<1>4. /\ Ready(d.f, H, R, d.dir) /\ x \in Name \ (Dotted \cup {Slash})
      /\ Child(d.f, d.dir, x, TRUE) = 0 /\ n = NewInodeNr(d.f) /\ n # 0
  BY Zenon, <1>0, <1>3 DEF Naming
<1>5. CASE new.status # "ok"
  BY <1>1, <1>2, <1>3, <1>5, NoEntryForIt, UnopenedAt
<1>6. CASE new.status = "ok"
  <2>1. NewInode(d.f).status = "ok" /\ g = Moded(NewInode(d.f), n, mode) /\ ~Room(g, d.dir)
        /\ fs' = PutBack(Abandon(AddEntry(g, d.dir, x, n), n), d.dir)
    BY <1>1, <1>6
  <2>3. mode \in Modes /\ mode # "dir"
    BY <1>0
  <2> HIDE DEF H, R, x, g
  <2>2. Done(d.f, PutBack(Abandon(AddEntry(g, d.dir, x, n), n), d.dir), H)
    BY ONLY Zenon, <1>4, <2>1, <2>3, CreateFailsHolds
  <2> QED
    BY <1>2, <1>3, <2>1, <2>2, UnopenedAt DEF H
<1> QED
  BY <1>5, <1>6

\* mkdir without an entry in the table or without a block.
LEMMA MkdirNoBlockCall ==
    ASSUME NEW d, Called(d), NEW p \in Paths, MkdirNoBlock(d, p)
    PROVE  Answered
<1>1. PICK n, g :
         /\ n = NewInodeNr(d.f) /\ g = NewInode(d.f) /\ Making(d, p, n)
         /\ g.status = "ok" => NewBlockNr(g) = 0
         /\ fs' = IF g.status # "ok" THEN g
                  ELSE Abandon(PutBack([NewBlock(g) EXCEPT
                                           !.table[Entry(g, n)].node.zone[0] = 0], d.dir), n)
  BY DEF MkdirNoBlock
<1>2. UNCHANGED handle
  BY DEF MkdirNoBlock
<1> DEFINE H == OpensOf(handle)
           R == Hold(Zero, d.dir)
<1>3. Naming(d, p, n, H, R) /\ d.dir # 0
  BY <1>1, MakingIs
<1>4. Ready(d.f, H, R, d.dir) /\ n = NewInodeNr(d.f) /\ n # 0
  BY <1>3 DEF Naming
<1>5. CASE g.status # "ok"
  BY <1>1, <1>2, <1>3, <1>5, NoEntryForIt, UnopenedAt
<1>6. CASE g.status = "ok"
  <2> DEFINE a == Abandon(PutBack([NewBlock(g) EXCEPT
                                      !.table[Entry(g, n)].node.zone[0] = 0], d.dir), n)
  <2>1. g = NewInode(d.f) /\ g.status = "ok" /\ NewBlockNr(g) = 0 /\ fs' = a
    BY <1>1, <1>6
  <2> HIDE DEF H, R
  <2>2. Done(d.f, a, H)
    BY ONLY <1>4, <2>1, MkdirNoBlockHolds
  <2> HIDE DEF a
  <2> QED
    BY <1>2, <1>3, <2>1, <2>2, UnopenedAt DEF H
<1> QED
  BY <1>5, <1>6

\* mkdir, with room for the name or without.
LEMMA MkdirCall ==
    ASSUME NEW d, Called(d), NEW p \in Paths, Mkdir(d, p), harm' = {}
    PROVE  Answered
<1> DEFINE x == Base(p)
<1>1. PICK n, g, m :
         /\ n = NewInodeNr(d.f) /\ g = NewInode(d.f) /\ Making(d, p, n)
         /\ g.status = "ok" /\ NewBlockNr(g) # 0
         /\ harm' = harm \cup Harm("dots", DotName(p)) \cup Harm("zones", ~NoneInherited(g, n))
                         \cup Harm("links", Room(m, d.dir) /\ LastLink(d.f, d.dir))
         /\ m = NewDir(g, n, d.dir, NewBlockNr(g))
         /\ \/ /\ Room(m, d.dir)
               /\ fs' = PutBack(PutBack(Links(AddEntry(m, d.dir, x, n), d.dir, 1), d.dir), n)
            \/ /\ ~Room(m, d.dir)
               /\ fs' = Abandon(FreeBlock(PutBack(AddEntry(m, d.dir, x, n), d.dir),
                                          NewBlockNr(g)), n)
  BY Zenon DEF Mkdir
<1>0. ~DotName(p) /\ NoneInherited(g, n) /\ (Room(m, d.dir) => ~LastLink(d.f, d.dir))
  <2>1. /\ harm' = harm \cup Harm("dots", DotName(p)) \cup Harm("zones", ~NoneInherited(g, n))
                        \cup Harm("links", Room(m, d.dir) /\ LastLink(d.f, d.dir))
        /\ harm' = {}
    BY Zenon, <1>1
  <2>2. harm \cup Harm("dots", DotName(p)) \cup Harm("zones", ~NoneInherited(g, n)) = {}
        /\ ~(Room(m, d.dir) /\ LastLink(d.f, d.dir))
    BY ONLY Zenon, <2>1, NoHarm
  <2>3. harm \cup Harm("dots", DotName(p)) = {} /\ ~~NoneInherited(g, n)
    BY ONLY Zenon, <2>2, NoHarm
  <2>4. ~DotName(p)
    BY ONLY Zenon, <2>3, NoHarm
  <2> QED
    BY ONLY Zenon, <2>2, <2>3, <2>4
<1>2. UNCHANGED handle
  BY DEF Mkdir
<1> DEFINE H == OpensOf(handle)
           R == Hold(Zero, d.dir)
           b == NewBlockNr(g)
<1>3. Naming(d, p, n, H, R) /\ d.dir # 0
  BY <1>1, MakingIs
<1>4. /\ Ready(d.f, H, R, d.dir) /\ x \in Name \ (Dotted \cup {Slash})
      /\ Child(d.f, d.dir, x, TRUE) = 0 /\ n = NewInodeNr(d.f) /\ n # 0
  BY Zenon, <1>0, <1>3 DEF Naming
<1>5. /\ g = NewInode(d.f) /\ g.status = "ok" /\ b = NewBlockNr(g) /\ b # 0 /\ NoneInherited(g, n)
      /\ m = NewDir(g, n, d.dir, b)
  BY <1>0, <1>1
<1>6. \/ /\ Room(m, d.dir)
         /\ fs' = PutBack(PutBack(Links(AddEntry(m, d.dir, x, n), d.dir, 1), d.dir), n)
      \/ /\ ~Room(m, d.dir)
         /\ fs' = Abandon(FreeBlock(PutBack(AddEntry(m, d.dir, x, n), d.dir), b), n)
  BY <1>1
<1> HIDE DEF H, R, x, b
<1>7. CASE Room(m, d.dir)
  <2>1. Done(d.f, PutBack(PutBack(Links(AddEntry(m, d.dir, x, n), d.dir, 1), d.dir), n), H)
    <3>1. ~LastLink(d.f, d.dir)
      BY <1>0, <1>7
    <3> QED
      BY ONLY Zenon, <1>4, <1>5, <1>7, <3>1, MkdirHolds
  <2>2. fs' = PutBack(PutBack(Links(AddEntry(m, d.dir, x, n), d.dir, 1), d.dir), n)
    BY <1>6, <1>7
  <2> QED
    BY <1>2, <1>3, <2>1, <2>2, UnopenedAt DEF H
<1>8. CASE ~Room(m, d.dir)
  <2>1. Done(d.f, Abandon(FreeBlock(PutBack(AddEntry(m, d.dir, x, n), d.dir), b), n), H)
    BY ONLY Zenon, <1>4, <1>5, <1>8, MkdirFailsHolds
  <2>2. fs' = Abandon(FreeBlock(PutBack(AddEntry(m, d.dir, x, n), d.dir), b), n)
    BY <1>6, <1>8
  <2> QED
    BY <1>2, <1>3, <2>1, <2>2, UnopenedAt DEF H
<1> QED
  BY <1>7, <1>8

\* The inode n of the name x is fetched while its directory is kept.
FetchFor(d, x, n, g, H, R) ==
    /\ Ready(d.f, H, R, d.dir) /\ x \in Name \ {Slash}
    /\ n = Child(d.f, d.dir, x, TRUE) /\ n # 0 /\ g = Iget(d.f, n)

\* rmdir and unlink get an inode that is there.
LEMMA VictimIs ==
    ASSUME NEW d, Called(d), NEW p \in Paths, NEW n, NEW g, Victim(d, p, n, g)
    PROVE  /\ FetchFor(d, Base(p), n, g, OpensOf(handle), Hold(Zero, d.dir))
           /\ d.dir # 0
<1>1. d.dir # 0 /\ Base(p) # NoName /\ n = Child(d.f, d.dir, Base(p), TRUE) /\ n # 0
      /\ g = Iget(d.f, n)
  BY Zenon DEF Victim, Within
<1>2. Ready(d.f, OpensOf(handle), Hold(Zero, d.dir), d.dir)
  BY <1>1, CalledIs
<1>3. Base(p) \in Name \ {Slash}
  BY <1>1, NameIs
<1> QED
  BY Zenon, <1>1, <1>2, <1>3 DEF FetchFor

\* rmdir and unlink find no entry in the table for it.
LEMMA NotFetched ==
    ASSUME NEW d, NEW x, NEW n, NEW g, NEW H, NEW R, FetchFor(d, x, n, g, H, R), g.status # "ok"
    PROVE  Done(d.f, g, H)
<1>1. TableOK(d.f, H, R) /\ d.f.status = "ok" /\ Ready(d.f, H, R, d.dir)
  BY ReadyIs DEF FetchFor
<1>2. n = Child(d.f, d.dir, x, TRUE) /\ n # 0 /\ g = Iget(d.f, n)
  BY Zenon DEF FetchFor
<1>3. n \in LiveIn(Disk(d.f))
  BY ONLY Zenon, <1>1, <1>2, NameIsThere
<1>4. LET e == Iget(d.f, n)
      IN  \/ TableOK(e, H, Hold(R, n)) /\ Disk(e) = Disk(d.f) /\ e.status = "ok"
          \/ Ended(e, H, R)
  BY ONLY <1>1, <1>3, IgetHolds
<1>5. Ended(g, H, R)
  BY Zenon, <1>2, <1>4
<1> QED
  BY <1>5, Ends

\* rmdir and unlink keep the directory and the inode.
LEMMA FetchIs ==
    ASSUME NEW d, NEW x, NEW n, NEW g, NEW H, NEW R, FetchFor(d, x, n, g, H, R), g.status = "ok",
           NEW R2, R2 = Hold(R, n)
    PROVE  /\ Ready(g, H, R2, d.dir) /\ Ready(g, H, R, d.dir) /\ Fine(g, H, R2)
           /\ Disk(g) = Disk(d.f) /\ n = Child(g, d.dir, x, TRUE)
           /\ n \in Inr /\ n # 0 /\ R2[n] > 0 /\ Less(R2, n)[d.dir] > 0
           /\ Less(R2, d.dir)[n] > 0 /\ R2[d.dir] > 0 /\ d.dir \in Inr
<1>1. Ready(d.f, H, R, d.dir) /\ n = Child(d.f, d.dir, x, TRUE) /\ n # 0 /\ g = Iget(d.f, n)
      /\ g.status = "ok"
  BY Zenon DEF FetchFor
<1>2. /\ Ready(g, H, Hold(R, n), d.dir) /\ Disk(g) = Disk(d.f) /\ n = Child(g, d.dir, x, TRUE)
      /\ n \in Inr /\ Hold(R, n)[n] > 0
  <2>1. Taken(d.f, g, H, R, d.dir, x, n)
    BY ONLY Zenon, <1>1, Fetching
  <2> QED
    BY Zenon, <2>1 DEF Taken
<1>3. R \in [Inr -> Nat] /\ R[d.dir] > 0 /\ d.dir \in Inr
  BY ONLY <1>1, ReadyIs
<1>4. R2 = Hold(R, n)
  OBVIOUS
<1>5. R2[d.dir] > 0 /\ R2[n] > 0 /\ Less(R2, d.dir)[n] > 0 /\ Less(R2, n)[d.dir] > 0
  BY ONLY Zenon, <1>2, <1>3, <1>4, BothHeld
<1>6. Fine(g, H, R2)
  BY <1>2 DEF Ready
<1>7. Ready(g, H, R, d.dir)
  <2>1. \A m \in Inr : R[m] <= R2[m]
    BY Zenon, <1>2, <1>3, <1>4, KeepIs
  <2>2. TableOK(g, H, R2)
    BY <1>6 DEF Fine
  <2>3. TableOK(g, H, R)
    BY ONLY <1>3, <2>1, <2>2, TableLess
  <2> QED
    BY <1>2, <1>3, <2>3 DEF Ready, Fine
<1> QED
  BY Zenon, <1>1, <1>2, <1>3, <1>5, <1>6, <1>7

\* The call fetches g and goes on with it.
LEMMA AfterFetch ==
    ASSUME NEW d, Called(d), d.dir # 0, UNCHANGED handle, NEW g, Disk(g) = Disk(d.f),
           Done(g, fs', OpensOf(handle))
    PROVE  Answered
<1>1. Done(d.f, fs', OpensOf(handle))
  BY DoneSame
<1> QED
  BY <1>1, UnopenedAt

\* rmdir of what may not be removed.
LEMMA RmdirDeniedCall ==
    ASSUME NEW d, Called(d), NEW p \in Paths, RmdirDenied(d, p)
    PROVE  Answered
<1>1. PICK n, g : /\ Victim(d, p, n, g)
                  /\ fs' = IF g.status = "ok" THEN PutBack(PutBack(g, d.dir), n) ELSE g
  BY DEF RmdirDenied
<1>2. UNCHANGED handle
  BY DEF RmdirDenied
<1> DEFINE H == OpensOf(handle)
           R == Hold(Zero, d.dir)
           R2 == Hold(R, n)
<1>3. FetchFor(d, Base(p), n, g, H, R) /\ d.dir # 0
  BY <1>1, VictimIs
<1>4. CASE g.status # "ok"
  BY <1>1, <1>2, <1>3, <1>4, NotFetched, UnopenedAt
<1>5. CASE g.status = "ok"
  <2>1. R2 = Hold(R, n)
    OBVIOUS
  <2> HIDE DEF H, R, R2
  <2>2. Ready(g, H, R, d.dir) /\ Fine(g, H, R2) /\ n \in Inr /\ Disk(g) = Disk(d.f)
    BY ONLY Zenon, <1>3, <1>5, <2>1, FetchIs
  <2>3. Done(g, PutBack(PutBack(g, d.dir), n), H)
    BY ONLY <2>1, <2>2, DeniedCall
  <2>4. Done(g, fs', OpensOf(handle))
    BY <1>1, <1>5, <2>3 DEF H
  <2> QED
    BY <1>2, <1>3, <2>2, <2>4, AfterFetch
<1> QED
  BY <1>4, <1>5

\* unlink of a directory.
LEMMA UnlinkDeniedCall ==
    ASSUME NEW d, Called(d), NEW p \in Paths, UnlinkDenied(d, p)
    PROVE  Answered
<1>1. PICK n, g : /\ Victim(d, p, n, g)
                  /\ fs' = IF g.status = "ok" THEN PutBack(PutBack(g, n), d.dir) ELSE g
  BY DEF UnlinkDenied
<1>2. UNCHANGED handle
  BY DEF UnlinkDenied
<1> DEFINE H == OpensOf(handle)
           R == Hold(Zero, d.dir)
           R2 == Hold(R, n)
<1>3. FetchFor(d, Base(p), n, g, H, R) /\ d.dir # 0
  BY <1>1, VictimIs
<1>4. CASE g.status # "ok"
  BY <1>1, <1>2, <1>3, <1>4, NotFetched, UnopenedAt
<1>5. CASE g.status = "ok"
  <2>1. R2 = Hold(R, n)
    OBVIOUS
  <2> HIDE DEF H, R, R2
  <2>2. Ready(g, H, R, d.dir) /\ Fine(g, H, R2) /\ n \in Inr /\ Disk(g) = Disk(d.f)
    BY ONLY Zenon, <1>3, <1>5, <2>1, FetchIs
  <2>3. Done(g, PutBack(PutBack(g, n), d.dir), H)
    BY ONLY <2>1, <2>2, DeniedCall
  <2>4. Done(g, fs', OpensOf(handle))
    BY <1>1, <1>5, <2>3 DEF H
  <2> QED
    BY <1>2, <1>3, <2>2, <2>4, AfterFetch
<1> QED
  BY <1>4, <1>5

\* rmdir of a directory with names in it.
LEMMA RmdirRefused ==
    ASSUME NEW d, Called(d), NEW p \in Paths, RmdirNotEmpty(d, p)
    PROVE  Answered
<1>1. PICK n, g : /\ Victim(d, p, n, g) /\ g.status = "ok" /\ ~NotRemovable(g, n, d.dir)
                  /\ FirstBlk(g, n) # 0 =>
                        fs' = [PutBack(PutBack(g, d.dir), n) EXCEPT !.pinned = @ \cup {FirstBlk(g, n)}]
  BY Zenon DEF RmdirNotEmpty
<1>2. UNCHANGED handle
  BY Zenon DEF RmdirNotEmpty
<1> DEFINE H == OpensOf(handle)
           R == Hold(Zero, d.dir)
           R2 == Hold(R, n)
           a == [PutBack(PutBack(g, d.dir), n) EXCEPT !.pinned = @ \cup {FirstBlk(g, n)}]
<1>3. FetchFor(d, Base(p), n, g, H, R) /\ d.dir # 0
  BY <1>1, VictimIs
<1>4. R2 = Hold(R, n) /\ g.status = "ok" /\ IsDir(g, n) /\ (FirstBlk(g, n) # 0 => fs' = a)
  BY <1>1 DEF NotRemovable
<1> HIDE DEF H, R, R2
<1>5. Ready(g, H, R, d.dir) /\ Fine(g, H, R2) /\ n \in Inr /\ Disk(g) = Disk(d.f)
  BY ONLY Zenon, <1>3, <1>4, FetchIs
<1>6. Done(g, a, H) /\ FirstBlk(g, n) # 0
  BY ONLY <1>4, <1>5, RmdirNotEmptyCall
<1> HIDE DEF a
<1>7. Done(g, fs', OpensOf(handle))
  BY <1>4, <1>6 DEF H
<1> QED
  BY <1>2, <1>3, <1>5, <1>7, AfterFetch

\* rmdir of an empty directory: its link count is 2, so the branch for a wrong one is not taken.
LEMMA RmdirDone ==
    ASSUME NEW d, Called(d), NEW p \in Paths, Rmdir(d, p)
    PROVE  Answered
<1> DEFINE x == Base(p)
<1> DEFINE Gone(k, s) == Iput(PutBack(Links([DropEntry(k, d.dir, x) EXCEPT
                                                !.table[s].node.nlinks = 0,
                                                !.table[s].dirt = FALSE], d.dir, -1), d.dir), s)
<1>a. PICK n \in Inr : \E g \in {Iget(d.f, n)} :
         /\ Victim(d, p, n, g) /\ g.status = "ok" /\ ~NotRemovable(g, n, d.dir) /\ Emptied(g, n)
         /\ \E k \in {IF Mem(g, n).node.nlinks = 2 THEN g ELSE PutBack(PutBack(g, d.dir), n)},
               s \in {Entry(g, n)} : fs' = Gone(k, s)
  BY Zenon DEF Rmdir
<1>b. PICK g : /\ Victim(d, p, n, g) /\ g.status = "ok" /\ ~NotRemovable(g, n, d.dir) /\ Emptied(g, n)
               /\ \E k \in {IF Mem(g, n).node.nlinks = 2 THEN g ELSE PutBack(PutBack(g, d.dir), n)},
                     s \in {Entry(g, n)} : fs' = Gone(k, s)
  BY Zenon, <1>a
<1>1. PICK k \in {IF Mem(g, n).node.nlinks = 2 THEN g ELSE PutBack(PutBack(g, d.dir), n)},
           s \in {Entry(g, n)} : fs' = Gone(k, s)
  BY Zenon, <1>b
<1>2. UNCHANGED handle
  BY DEF Rmdir
<1> DEFINE H == OpensOf(handle)
           R == Hold(Zero, d.dir)
           R2 == Hold(R, n)
           h == DropEntry(g, d.dir, x)
<1>3. FetchFor(d, x, n, g, H, R) /\ d.dir # 0
  BY <1>b, VictimIs
<1>4. x \in Name \ {Slash} /\ R2 = Hold(R, n) /\ g.status = "ok"
      /\ ~NotRemovable(g, n, d.dir) /\ Emptied(g, n)
  BY Zenon, <1>b, <1>3 DEF FetchFor
<1> HIDE DEF H, R, R2, x
<1>5. Ready(g, H, R2, d.dir) /\ n \in Inr /\ n # 0 /\ Disk(g) = Disk(d.f)
      /\ n = Child(g, d.dir, x, TRUE) /\ R2[n] > 0
  BY ONLY Zenon, <1>3, <1>4, FetchIs
<1>6. /\ Mem(g, n).node.nlinks = 2 /\ SamePlace(g, DropEntry(g, d.dir, x), n)
      /\ Done(g, RemovedFrom(DropEntry(g, d.dir, x), d.dir, n), H)
  <2>0. Removing(g, H, R2, d.dir, x, n)
    BY Zenon, <1>4, <1>5 DEF Removing
  <2>1. EmptyDir(g, d.dir, x, n) /\ x \notin Dotted
    BY ONLY Zenon, <2>0, EmptyNotDotted
  <2>2. x \in Name \ (Dotted \cup {Slash})
    BY ONLY <1>4, <2>1
  <2>3. Removed(g, d.dir, x, n, H)
    BY ONLY Zenon, <1>4, <1>5, <2>2, RmdirCall
  <2> QED
    BY <2>3 DEF Removed
<1>7. k = g /\ s = Entry(h, n)
  BY <1>1, <1>6 DEF SamePlace
<1>8. fs' = Iput(PutBack(Links([h EXCEPT !.table[Entry(h, n)].node.nlinks = 0,
                                         !.table[Entry(h, n)].dirt = FALSE], d.dir, -1), d.dir),
                 Entry(h, n))
  BY <1>1, <1>7
<1> HIDE DEF h
<1>9. fs' = RemovedFrom(h, d.dir, n)
  BY <1>8 DEF RemovedFrom
<1>10. Done(g, fs', OpensOf(handle))
  BY <1>6, <1>9 DEF H, h
<1> QED
  BY <1>2, <1>3, <1>5, <1>10, AfterFetch

\* unlink of a file that nobody has open.
LEMMA UnlinkDone ==
    ASSUME NEW d, Called(d), NEW p \in Paths, Unlink(d, p)
    PROVE  Answered
<1> DEFINE x == Base(p)
<1>1. PICK n, g :
         /\ Victim(d, p, n, g) /\ g.status = "ok" /\ ~IsDir(g, n)
         /\ fs' = PutBack(PutBack(Links(DropEntry(g, d.dir, x), n,
                             IF Mem(g, n).node.nlinks = 0 THEN 0 ELSE -1), n), d.dir)
  BY Zenon DEF Unlink
<1>2. UNCHANGED handle
  BY Zenon DEF Unlink
<1> DEFINE H == OpensOf(handle)
           R == Hold(Zero, d.dir)
           R2 == Hold(R, n)
           a == PutBack(PutBack(Links(DropEntry(g, d.dir, x), n,
                             IF Mem(g, n).node.nlinks = 0 THEN 0 ELSE -1), n), d.dir)
<1>3. FetchFor(d, x, n, g, H, R) /\ d.dir # 0
  BY <1>1, VictimIs
<1>4. x \in Name \ {Slash} /\ R2 = Hold(R, n) /\ g.status = "ok" /\ ~IsDir(g, n)
  BY Zenon, <1>1, <1>3 DEF FetchFor
<1>5. fs' = a
  BY <1>1
<1>9. R = Hold(Zero, d.dir)
  OBVIOUS
<1> HIDE DEF H, R, R2, x
<1>6. Ready(g, H, R2, d.dir) /\ n \in Inr /\ n # 0 /\ Disk(g) = Disk(d.f)
      /\ n = Child(g, d.dir, x, TRUE) /\ R2[n] > 0 /\ Less(R2, n)[d.dir] > 0
  BY ONLY Zenon, <1>3, <1>4, FetchIs
\* The file is no directory, so it is not the one the name is in, and has no dot name.
<1>10. n \notin DirsIn(Disk(g)) /\ <<d.dir, x, n>> \in EntsIn(Disk(g)) /\ n \in LiveIn(Disk(g))
  <2>1. <<d.dir, x, n>> \in EntsIn(Disk(g)) /\ n \in LiveIn(Disk(g))
    BY ONLY <1>6, NameIsThere
  <2>2. TableOK(g, H, R2)
    BY ONLY <1>6, ReadyIs
  <2>3. Disk(g).cur[n] = Mem(g, n).node
    <3>1. n \in Inr /\ R2[n] > 0
      BY ONLY <1>6
    <3> QED
      BY ONLY <2>2, <3>1, HeldIs
  <2>4. Mem(g, n).node.mode # "dir"
    BY Zenon, <1>4 DEF IsDir
  <2>5. Disk(g).cur[n].mode # "dir"
    BY Zenon, <2>3, <2>4
  <2> QED
    BY Zenon, <2>1, <2>5 DEF DirsIn
<1>11. x \in Name \ (Dotted \cup {Slash})
  <2>1. Tree(Disk(g))
    BY ONLY Zenon, <1>6, ReadyIs
  <2>2. \A e \in EntsIn(Disk(g)) : e[2] \in Dotted => e[3] \in DirsIn(Disk(g))
    BY <2>1 DEF Tree, TreeOK
  <2>3. x \notin Dotted
    BY ONLY <1>10, <2>2
  <2> QED
    BY <1>4, <2>3
<1>12. R2[n] = 1
  <2>1. d.dir \in DirsIn(Disk(g)) /\ d.dir \in Inr
    BY ONLY Zenon, <1>6, ReadyIs
  <2>2. n # d.dir
    BY Zenon, <1>10, <2>1
  <2>3. R[n] = 0 /\ R \in [Inr -> Nat]
    BY <1>6, <1>9, <2>1, <2>2, ZeroIs, KeepIs DEF Hold
  <2> QED
    BY <1>4, <1>6, <2>3 DEF Hold
<1>7. Done(g, a, H)
  BY ONLY Zenon, <1>4, <1>6, <1>11, <1>12, UnlinkCall
<1> HIDE DEF a
<1>8. Done(g, fs', OpensOf(handle))
  BY <1>5, <1>7 DEF H
<1> QED
  BY <1>2, <1>3, <1>6, <1>8, AfterFetch

\* list().
LEMMA ListCall ==
    ASSUME NEW m, Reaching(m), List(m)
    PROVE  Answered
<1> DEFINE H == OpensOf(handle)
<1>1. UNCHANGED handle
  BY DEF List
<1>2. Fine(fs, H, Zero) /\ Walked(fs, m, H, Zero)
  BY DEF Reaching
<1> HIDE DEF H
<1>3. CASE m.dir = 0
  <2>1. fs' = m.f
    BY <1>3 DEF List
  <2>2. Done(fs, m.f, H)
    BY <1>2, <1>3, NothingReached
  <2> QED
    BY <1>1, <2>1, <2>2, Unopened DEF H
<1>4. CASE m.dir # 0 /\ ~IsDir(m.f, m.dir)
  <2>1. fs' = PutBack(m.f, m.dir)
    BY <1>4 DEF List
  <2>2. Done(fs, PutBack(m.f, m.dir), H)
    BY <1>2, <1>4, ReachedPut
  <2> QED
    BY <1>1, <2>1, <2>2, Unopened DEF H
<1>5. CASE m.dir # 0 /\ IsDir(m.f, m.dir)
  <2>1. fs' = Listed(m)
    BY <1>5 DEF List, Listed
  <2>2. Done(fs, Listed(m), H)
    BY <1>2, <1>5, ListedHolds
  <2> QED
    BY <1>1, <2>1, <2>2, Unopened DEF H
<1> QED
  BY <1>3, <1>4, <1>5

\* link of what is not there or is a directory.
LEMMA LinkDeniedCall ==
    ASSUME NEW old, Reaching(old), LinkDenied(old)
    PROVE  Answered
<1> DEFINE H == OpensOf(handle)
<1>1. UNCHANGED handle
  BY DEF LinkDenied
<1>2. Fine(fs, H, Zero) /\ Walked(fs, old, H, Zero)
  BY DEF Reaching
<1> HIDE DEF H
<1>3. CASE old.dir = 0
  <2>1. fs' = old.f
    BY <1>3 DEF LinkDenied
  <2>2. Done(fs, old.f, H)
    BY <1>2, <1>3, NothingReached
  <2> QED
    BY <1>1, <2>1, <2>2, Unopened DEF H
<1>4. CASE old.dir # 0
  <2>1. fs' = PutBack(old.f, old.dir)
    BY <1>4 DEF LinkDenied
  <2>2. Done(fs, PutBack(old.f, old.dir), H)
    BY <1>2, <1>4, ReachedPut
  <2> QED
    BY <1>1, <2>1, <2>2, Unopened DEF H
<1> QED
  BY <1>3, <1>4

\* link has reached a file, and then d with the new name, or nothing.
Linking(old, d) ==
    /\ Reaching(old) /\ old.dir # 0 /\ ~IsDir(old.f, old.dir)
    /\ Walked(old.f, d, OpensOf(handle), Hold(Zero, old.dir))
    /\ d.dir # 0 => d.dir \in DirsIn(Disk(old.f))

\* link keeps the file while it looks for the new name.
LEMMA LinkingIs ==
    ASSUME NEW old, NEW d, Linking(old, d), NEW H, H = OpensOf(handle),
           NEW R, R = Hold(Zero, old.dir)
    PROVE  /\ Fine(old.f, H, R) /\ Disk(old.f) = Disk(fs) /\ old.dir \in Inr
           /\ old.dir \notin DirsIn(Disk(fs)) /\ R[old.dir] > 0 /\ R \in [Inr -> Nat]
           /\ handle \in [Handle -> Slot \cup {Closed}]
<1>1. Fine(fs, H, Zero) /\ Walked(fs, old, H, Zero) /\ old.dir # 0 /\ ~IsDir(old.f, old.dir)
      /\ handle \in [Handle -> Slot \cup {Closed}]
  BY DEF Linking, Reaching
<1>2. /\ IsDir(old.f, old.dir) <=> old.dir \in DirsIn(Disk(fs))
      /\ old.dir \in LiveIn(Disk(fs)) /\ old.dir \in Inr
      /\ Fine(old.f, H, Hold(Zero, old.dir)) /\ Disk(old.f) = Disk(fs)
  BY ONLY <1>1, WalkReady
<1>3. R[old.dir] > 0 /\ R \in [Inr -> Nat]
  BY <1>2, ZeroIs, KeepIs
<1> QED
  BY <1>1, <1>2, <1>3

\* The file and the directory are both kept.
LEMMA LinkingBoth ==
    ASSUME NEW old, NEW d, Linking(old, d), d.dir # 0, NEW H, H = OpensOf(handle),
           NEW R, R = Hold(Hold(Zero, old.dir), d.dir)
    PROVE  /\ Ready(d.f, H, R, d.dir) /\ Fine(d.f, H, R) /\ Disk(d.f) = Disk(fs)
           /\ d.dir \in Inr /\ old.dir \in Inr /\ old.dir \notin DirsIn(Disk(d.f))
           /\ R[d.dir] > 0 /\ R[old.dir] > 0
           /\ Less(R, d.dir)[old.dir] > 0 /\ Less(R, old.dir)[d.dir] > 0
<1> DEFINE R1 == Hold(Zero, old.dir)
<1>1. /\ Fine(old.f, H, R1) /\ Disk(old.f) = Disk(fs) /\ old.dir \in Inr
      /\ old.dir \notin DirsIn(Disk(fs)) /\ R1[old.dir] > 0 /\ R1 \in [Inr -> Nat]
  BY LinkingIs
<1>2. Walked(old.f, d, H, R1) /\ d.dir \in DirsIn(Disk(old.f)) /\ d.dir # 0 /\ R = Hold(R1, d.dir)
  BY DEF Linking
<1> HIDE DEF R1
<1>3. /\ Ready(d.f, H, Hold(R1, d.dir), d.dir) /\ Disk(d.f) = Disk(old.f)
      /\ d.dir \in Inr /\ Fine(d.f, H, Hold(R1, d.dir)) /\ R1 \in [Inr -> Nat]
  BY ONLY <1>1, <1>2, DirReached
<1>4. R[old.dir] > 0 /\ R[d.dir] > 0 /\ Less(R, old.dir)[d.dir] > 0 /\ Less(R, d.dir)[old.dir] > 0
  BY ONLY <1>1, <1>2, <1>3, BothHeld
<1> QED
  BY <1>1, <1>2, <1>3, <1>4

\* link to a name that is there, or below no directory.
LEMMA NoNewNameCall ==
    ASSUME NEW old, NEW d, Linking(old, d), NEW q \in Paths, NoNewName(old, d, q)
    PROVE  Answered
<1> DEFINE H == OpensOf(handle)
           R1 == Hold(Zero, old.dir)
           R2 == Hold(R1, d.dir)
<1>1. UNCHANGED handle
  BY DEF NoNewName
<1>2. /\ Fine(old.f, H, R1) /\ Disk(old.f) = Disk(fs) /\ old.dir \in Inr /\ R1[old.dir] > 0
  BY LinkingIs
<1>3. Reaching(old) /\ Walked(old.f, d, H, R1)
  BY DEF Linking
<1>4. CASE d.dir = 0
  <2>1. fs' = IF d.f.status = "ok" THEN PutBack(d.f, old.dir) ELSE d.f
    BY <1>4 DEF NoNewName
  <2>2. 0 \notin LiveIn(Disk(old.f))
    BY <1>2, FineIs DEF Inr
  <2> HIDE DEF H, R1
  <2>3. CASE Fine(d.f, H, R1) /\ Disk(d.f) = Disk(old.f)
    <3>1. Leads(Disk(fs), Disk(d.f))
      BY <1>2, <2>3, Stutters
    <3>2. Done(fs, PutBack(d.f, old.dir), H)
      BY ONLY <1>2, <2>3, <3>1, FinishPut
    <3>3. fs' = PutBack(d.f, old.dir)
      BY <2>1, <2>3 DEF Fine
    <3> QED
      BY <1>1, <1>3, <3>2, <3>3, Unopened DEF H
  <2>4. CASE Ended(d.f, H, R1)
    <3>1. fs' = d.f
      BY Zenon, <2>1, <2>4 DEF Ended, NoEntry
    <3>2. Done(fs, d.f, H)
      BY <2>4, Ends
    <3> QED
      BY <1>1, <1>3, <3>1, <3>2, Unopened DEF H
  <2> QED
    BY <1>3, <1>4, <2>2, <2>3, <2>4 DEF Walked, Stands
<1>5. CASE d.dir # 0
  <2>1. fs' = PutBack(PutBack(d.f, old.dir), d.dir)
    BY Zenon, <1>5 DEF NoNewName
  <2>2. /\ Fine(d.f, H, R2) /\ Disk(d.f) = Disk(fs) /\ d.dir \in Inr /\ old.dir \in Inr
        /\ R2[old.dir] > 0 /\ Less(R2, old.dir)[d.dir] > 0
    BY <1>5, LinkingBoth
  <2>3. Leads(Disk(fs), Disk(d.f))
    BY <2>2, Stutters
  <2> HIDE DEF H, R1, R2
  <2>4. Done(fs, PutBack(PutBack(d.f, old.dir), d.dir), H)
    BY ONLY <2>2, <2>3, PutBoth
  <2> QED
    BY <1>1, <1>3, <2>1, <2>4, Unopened DEF H
<1> QED
  BY <1>4, <1>5

\* link, with room for the name or without.
LEMMA LinkCall ==
    ASSUME NEW old, NEW d, Linking(old, d), NEW q \in Paths, Link(old, d, q), harm' = {}
    PROVE  Answered
<1> DEFINE H == OpensOf(handle)
           R == Hold(Hold(Zero, old.dir), d.dir)
           x == Base(q)
           n == old.dir
           g == AddEntry(d.f, d.dir, x, n)
<1>1. d.dir # 0 /\ Base(q) # NoName /\ Child(d.f, d.dir, x, TRUE) = 0
  BY Zenon DEF Link, Within
<1>2. UNCHANGED handle /\ fs' = IF Room(d.f, d.dir)
                                THEN PutBack(Links(PutBack(g, d.dir), n, 1), n)
                                ELSE PutBack(PutBack(g, n), d.dir)
  BY Zenon DEF Link
<1>a. ~DotName(q) /\ (Room(d.f, d.dir) => ~LastLink(d.f, n))
  <2>1. harm' = (harm \cup Harm("dots", DotName(q)))
                     \cup Harm("links", Room(d.f, d.dir) /\ LastLink(d.f, n)) /\ harm' = {}
    BY Zenon DEF Link
  <2>2. harm \cup Harm("dots", DotName(q)) = {} /\ ~(Room(d.f, d.dir) /\ LastLink(d.f, n))
    BY ONLY Zenon, <2>1, NoHarm
  <2>3. ~DotName(q)
    BY ONLY Zenon, <2>2, NoHarm
  <2> QED
    BY ONLY Zenon, <2>2, <2>3
<1>3. x \in Name \ (Dotted \cup {Slash})
  BY <1>1, <1>a, NameIs
<1>4. /\ Ready(d.f, H, R, d.dir) /\ Disk(d.f) = Disk(fs) /\ n \in Inr
      /\ n \notin DirsIn(Disk(d.f)) /\ R[n] > 0
      /\ Less(R, d.dir)[n] > 0 /\ Less(R, n)[d.dir] > 0
  BY <1>1, LinkingBoth
<1>5. Reaching(old) /\ Child(d.f, d.dir, x, TRUE) = 0
  BY Zenon, <1>1 DEF Linking
<1> HIDE DEF H, R, x, n
<1>6. CASE Room(d.f, d.dir)
  <2>1. Done(d.f, PutBack(Links(PutBack(g, d.dir), n, 1), n), H)
    <3>1. ~LastLink(d.f, n)
      BY Zenon, <1>a, <1>6
    <3> QED
      BY ONLY Zenon, <1>3, <1>4, <1>5, <1>6, <3>1, LinkNamed
  <2> HIDE DEF g
  <2>2. Done(fs, fs', H)
    BY <1>2, <1>4, <1>6, <2>1, DoneSame
  <2> QED
    BY <1>2, <1>5, <2>2, Unopened DEF H
<1>7. CASE ~Room(d.f, d.dir)
  <2>1. Done(d.f, PutBack(PutBack(g, n), d.dir), H)
    BY ONLY Zenon, <1>3, <1>4, <1>5, <1>7, LinkNotNamed
  <2> HIDE DEF g
  <2>2. Done(fs, fs', H)
    BY <1>2, <1>4, <1>7, <2>1, DoneSame
  <2> QED
    BY <1>2, <1>5, <2>2, Unopened DEF H
<1> QED
  BY <1>6, <1>7

\* An inode that has no name is freed: the tree stays.
LEMMA FreedStays ==
    ASSUME NEW f, NEW H, NEW R, Fine(f, H, R), NEW g, NEW H2, TableOK(g, H2, R), g.status = "ok",
           NEW n, n \in DOMAIN Disk(f).cur, Disk(f).cur[n].nlinks = 0,
           g.zmap = f.zmap, g.body = f.body, g.pinned = f.pinned,
           DOMAIN Disk(g).cur = DOMAIN Disk(f).cur \ {n},
           \A m \in DOMAIN Disk(g).cur : Disk(g).cur[m] = Disk(f).cur[m]
    PROVE  Done(f, g, H2)
<1> DEFINE v == Disk(f)
           w == Disk(g)
<1>1. /\ DiskOK(v) /\ Tree(v) /\ DOMAIN v.cur \subseteq Inr
      /\ w.zmap = v.zmap /\ w.body = v.body /\ w.pinned = v.pinned
  <2>1. DOMAIN v.cur = f.imap \cap Inr
    BY FineIs
  <2> QED
    BY <2>1 DEF Fine, Disk
<1>2. /\ DOMAIN w.cur = DOMAIN v.cur \ {n} /\ v.cur[n].nlinks = 0
      /\ \A m \in DOMAIN w.cur : w.cur[m] = v.cur[m]
  OBVIOUS
<1> HIDE DEF v, w
<1>3. LiveIn(w) = LiveIn(v) /\ DirsIn(w) = DirsIn(v)
  BY <1>2 DEF LiveIn, DirsIn
<1>4. \A m \in DirsIn(w) : m \in DirsIn(v) /\ Kept(v, w, m)
  <2>1. ASSUME NEW m \in DirsIn(w)
        PROVE  Kept(v, w, m)
    <3>1. m \in DirsIn(v) /\ w.cur[m] = v.cur[m]
      BY <1>2, <1>3 DEF LiveIn, DirsIn
    <3>2. \A b \in HeldBy(v, m) : b - 1 \in v.zmap
      BY <1>1, <3>1 DEF DiskOK, DirOK, Marks
    <3> QED
      BY <1>1, <3>1, <3>2 DEF Kept
  <2> QED
    BY <1>3, <2>1
<1>5. DiskOK(w) /\ EntsIn(w) = {e \in EntsIn(v) : e[1] \in DirsIn(w)}
  <2>1. DOMAIN w.cur \subseteq Inr /\ \A b \in w.pinned : b - 1 \in w.zmap
    BY <1>1, <1>2 DEF DiskOK
  <2> QED
    BY <1>1, <1>4, <2>1, DiskStays
<1>6. EntsIn(w) = EntsIn(v)
  <2>1. \A e \in EntsIn(v) : e[1] \in DirsIn(v)
    BY EntsAre DEF EntsIn
  <2> QED
    BY <1>3, <1>5, <2>1
<1>7. Tree(w) /\ Leads(v, w)
  <2>1. \A m \in LiveIn(v) : w.cur[m].nlinks = v.cur[m].nlinks
    BY <1>2, <1>3 DEF LiveIn
  <2> QED
    BY <1>1, <1>3, <1>6, <2>1, TreeStays
<1>8. Fine(g, H2, R) /\ Leads(Disk(f), Disk(g))
  BY <1>5, <1>7 DEF Fine, v, w
<1> QED
  BY <1>8, Finish

\* Closing a descriptor, which gives up no block.
LEMMA CloseCall ==
    ASSUME handle \in [Handle -> Slot \cup {Closed}], Fine(fs, OpensOf(handle), Zero),
           NEW h \in Handle, Close(h), harm' = {}
    PROVE  Answered
<1> DEFINE s == handle[h]
           H == OpensOf(handle)
           H2 == OpensOf(handle')
           g == Iput(fs, s)
<1>1. s \in Slot /\ fs' = g /\ handle' = [handle EXCEPT ![h] = Closed]
  BY DEF Close
<1>a. Unused(fs, s) => NoneGiven(fs, s)
  <2>1. harm' = harm \cup Harm("blocks", Unused(fs, s) /\ Loses([fs EXCEPT !.table[s].cnt = 0], s))
        /\ harm' = {}
    BY Zenon DEF Close
  <2> HIDE DEF s
  <2>2. ~(Unused(fs, s) /\ Loses([fs EXCEPT !.table[s].cnt = 0], s))
    BY ONLY Zenon, <2>1, NoHarm
  <2> QED
    BY Zenon, <2>2 DEF Loses, NoneGiven
<1>2. handle' \in [Handle -> Slot \cup {Closed}]
  BY <1>1
<1>3. H2 = OpensOf([handle EXCEPT ![h] = Closed]) /\ H = OpensOf(handle) /\ handle[h] = s
  BY <1>1
<1>4. TableOK(fs, H, Zero) /\ fs.status = "ok" /\ Fine(fs, H, Zero)
  BY DEF Fine
<1> HIDE DEF s, H, H2
<1>5. /\ H[s] > 0 /\ H2 \in [Slot -> Nat] /\ H2[s] = H[s] - 1
      /\ \A t \in Slot : H2[t] <= H[t]
  <2>1. handle \in [Handle -> Slot \cup {Closed}]
    OBVIOUS
  <2>2. Fewer(H, H2, s)
    BY ONLY Zenon, <1>1, <1>3, <2>1, h \in Handle, OpensLess
  <2> QED
    BY <2>2 DEF Fewer
<1>6. ASSUME fs.table[s].node.nlinks # 0 \/ fs.table[s].cnt # 1
      PROVE  Done(fs, g, H2)
  <2>1. LET a == Iput(fs, s)
        IN  TableOK(a, H2, Zero) /\ Disk(a) = Disk(fs) /\ a.status = fs.status
    BY ONLY <1>1, <1>4, <1>5, <1>6, CloseHolds
  <2>2. TableOK(g, H2, Zero) /\ Disk(g) = Disk(fs) /\ g.status = "ok"
    BY <1>4, <2>1
  <2> HIDE DEF g
  <2> QED
    BY ONLY <1>4, <2>2, Stays
<1>7. ASSUME fs.table[s].node.nlinks = 0 /\ fs.table[s].cnt = 1
      PROVE  Done(fs, g, H2)
  <2> DEFINE n == fs.table[s].num
             c == Disk(fs).cur
  <2>1. ~fs.table[s].dirt
    BY ONLY <1>1, <1>4, <1>5, <1>7, OpenIs
  <2>2. NoneGiven(fs, s)
    BY <1>7, <1>a, <2>1 DEF Unused
  <2>3. LET a == Iput(fs, s)
            k == fs.table[s].num
            cur == Disk(fs).cur
        IN  /\ TableOK(a, H2, Zero) /\ a.status = "ok"
            /\ k \in DOMAIN cur /\ cur[k].nlinks = 0
            /\ a.zmap = fs.zmap /\ a.body = fs.body /\ a.pinned = fs.pinned
            /\ DOMAIN Disk(a).cur = DOMAIN cur \ {k}
            /\ \A m \in DOMAIN Disk(a).cur : Disk(a).cur[m] = cur[m]
    BY ONLY <1>1, <1>4, <1>5, <1>7, <2>2, LastCloseHolds
  <2>4. /\ TableOK(g, H2, Zero) /\ g.status = "ok"
        /\ n \in DOMAIN Disk(fs).cur /\ Disk(fs).cur[n].nlinks = 0
        /\ g.zmap = fs.zmap /\ g.body = fs.body /\ g.pinned = fs.pinned
        /\ DOMAIN Disk(g).cur = DOMAIN Disk(fs).cur \ {n}
        /\ \A m \in DOMAIN Disk(g).cur : Disk(g).cur[m] = Disk(fs).cur[m]
    BY Zenon, <2>3
  <2> HIDE DEF g, n
  <2> QED
    BY ONLY Zenon, <1>4, <2>4, FreedStays
<1>8. Done(fs, g, H2)
  BY <1>6, <1>7
<1> HIDE DEF g
<1> QED
  BY <1>1, <1>2, <1>8 DEF Answered, H2

\* Writing everything back.
LEMMA SyncCall ==
    ASSUME handle \in [Handle -> Slot \cup {Closed}], Fine(fs, OpensOf(handle), Zero), Sync
    PROVE  Answered
<1> DEFINE H == OpensOf(handle)
           g == SyncInodes(fs)
<1>1. fs' = g /\ handle' = handle
  BY DEF Sync
<1>2. TableOK(fs, H, Zero) /\ fs.status = "ok" /\ Fine(fs, H, Zero)
  BY DEF Fine
<1>3. TableOK(g, H, Zero) /\ Disk(g) = Disk(fs) /\ g.status = "ok"
  BY <1>2, SyncHolds
<1> HIDE DEF g, H
<1>4. Done(fs, g, H)
  BY ONLY <1>2, <1>3, Stays
<1> QED
  BY <1>1, <1>4 DEF Answered, H

\* Opens by the descriptors, now and after a step.
LEMMA OpensAre == Opens = OpensOf(handle) /\ Opens' = OpensOf(handle')
BY DEF Opens, OpensOf

\* What harm is done stays known.
Harming == harm \subseteq harm' /\ harm' \subseteq harm \cup Reasons

\* A reason is added, or is not.
LEMMA HarmIs ==
    ASSUME NEW r \in Reasons, NEW done
    PROVE  Harm(r, done) \subseteq Reasons
BY DEF Harm

\* FS takes a call only while it runs, and the history goes on.
LEMMA OnlyRunning ==
    ASSUME Next
    PROVE  fs.status = "ok" /\ Harming
<1>0. {"zones", "blocks", "links", "dots", "mode"} \subseteq Reasons
  BY DEF Reasons
<1>a. \A done : /\ Harm("zones", done) \subseteq Reasons /\ Harm("blocks", done) \subseteq Reasons
                /\ Harm("links", done) \subseteq Reasons /\ Harm("dots", done) \subseteq Reasons
                /\ Harm("mode", done) \subseteq Reasons
  BY <1>0, HarmIs
<1>b. UNCHANGED harm => Harming
  BY DEF Harming
<1>c. \A S \in SUBSET Reasons : harm' = harm \cup S => Harming
  BY DEF Harming
<1>d. \A S, S2, S3 : S \subseteq Reasons /\ S2 \subseteq Reasons /\ S3 \subseteq Reasons
         => (harm' = harm \cup S \cup S2 => Harming) /\ (harm' = harm \cup S \cup S2 \cup S3 => Harming)
  BY DEF Harming
<1>1. ASSUME NEW d, NEW p, Calls(d, p)
      PROVE  fs.status = "ok" /\ Harming
  <2>1. CASE NoParent(d) \/ Declined(d) \/ OpenDenied(d, p) \/ MkdirNoBlock(d, p)
    BY Zenon, <1>b, <2>1 DEF NoParent, Declined, OpenDenied, MkdirNoBlock, Making, Within, Running
  <2>2. CASE RmdirDenied(d, p) \/ RmdirNotEmpty(d, p) \/ Rmdir(d, p)
    BY Zenon, <1>b, <2>2 DEF RmdirDenied, RmdirNotEmpty, Rmdir, Victim, Within, Running
  <2>3. CASE UnlinkDenied(d, p) \/ Unlink(d, p)
    BY Zenon, <1>b, <2>3 DEF UnlinkDenied, Unlink, Victim, Within, Running
  <2>4. CASE Mkdir(d, p)
    <3>1. fs.status = "ok"
      BY Zenon, <2>4 DEF Mkdir, Making, Within, Running
    <3>2. PICK z, l : harm' = harm \cup Harm("dots", DotName(p)) \cup Harm("zones", z)
                                  \cup Harm("links", l)
      BY Zenon, <2>4 DEF Mkdir
    <3> QED
      BY Zenon, <1>a, <1>d, <3>1, <3>2
  <2>5. ASSUME NEW mode, CreateFails(d, p, mode)
        PROVE  fs.status = "ok" /\ Harming
    <3>1. fs.status = "ok" /\ harm' = harm \cup MadeBy(p, mode)
      BY Zenon, <2>5 DEF CreateFails, Making, Within, Running
    <3>2. MadeBy(p, mode) \subseteq Reasons
      BY <1>a DEF MadeBy
    <3> QED
      BY <1>c, <3>1, <3>2
  <2>6. ASSUME NEW h, NEW mode, Create(d, p, h, mode)
        PROVE  fs.status = "ok" /\ Harming
    <3>1. fs.status = "ok" /\ harm' = harm \cup MadeBy(p, mode)
      BY Zenon, <2>6 DEF Create, Making, Within, Running
    <3>2. MadeBy(p, mode) \subseteq Reasons
      BY <1>a DEF MadeBy
    <3> QED
      BY <1>c, <3>1, <3>2
  <2>7. ASSUME NEW h, OpenDir(d, p, h)
        PROVE  fs.status = "ok" /\ Harming
    BY Zenon, <1>b, <2>7 DEF OpenDir, Running
  <2>8. ASSUME NEW h, NEW trunc, Open(d, p, h, trunc)
        PROVE  fs.status = "ok" /\ Harming
    <3>1. fs.status = "ok"
      BY Zenon, <2>8 DEF Open, Within, Running
    <3>2. PICK z : harm' = harm \cup Harm("blocks", z)
      BY Zenon, <2>8 DEF Open
    <3> QED
      BY <1>a, <1>c, <3>1, <3>2
  <2> QED
    BY Zenon, <1>1, <2>1, <2>2, <2>3, <2>4, <2>5, <2>6, <2>7, <2>8 DEF Calls
<1>2. ASSUME NEW m, List(m) \/ LinkDenied(m)
      PROVE  fs.status = "ok" /\ Harming
  <2>1. fs.status = "ok" /\ UNCHANGED harm
    BY <1>2 DEF List, LinkDenied, Running
  <2> QED
    BY <1>b, <2>1
<1>3. ASSUME NEW m, NEW d, NEW q, NoNewName(m, d, q) \/ Link(m, d, q)
      PROVE  fs.status = "ok" /\ Harming
  <2>1. CASE NoNewName(m, d, q)
    BY Zenon, <1>b, <2>1 DEF NoNewName, Running
  <2>2. CASE Link(m, d, q)
    <3>1. fs.status = "ok"
      BY Zenon, <2>2 DEF Link, Within, Running
    <3>2. PICK z, l : harm' = harm \cup Harm("dots", z) \cup Harm("links", l)
      BY Zenon, <2>2 DEF Link
    <3> QED
      BY Zenon, <1>a, <1>d, <3>1, <3>2
  <2> QED
    BY <1>3, <2>1, <2>2
<1>4. ASSUME NEW h, Close(h)
      PROVE  fs.status = "ok" /\ Harming
  <2>1. fs.status = "ok"
    BY Zenon, <1>4 DEF Close
  <2>2. PICK z : harm' = harm \cup Harm("blocks", z)
    BY Zenon, <1>4 DEF Close
  <2> QED
    BY <1>a, <1>c, <2>1, <2>2
<1>5. ASSUME Sync
      PROVE  fs.status = "ok" /\ Harming
  BY Zenon, <1>b, <1>5 DEF Sync
<1> QED
  BY <1>1, <1>2, <1>3, <1>4, <1>5 DEF Next

\* Every call that starts with dir_namei and does no harm.
LEMMA CallAnswered ==
    ASSUME NEW p \in Paths, NEW d, Called(d), Calls(d, p), harm' = {}
    PROVE  Answered
<1>1. CASE NoParent(d) \/ Declined(d) \/ OpenDenied(d, p) \/ MkdirNoBlock(d, p)
  BY <1>1, NoParentCall, DeclinedCall, OpenDeniedCall, MkdirNoBlockCall
<1>2. CASE Mkdir(d, p)
  BY <1>2, MkdirCall
<1>3. CASE RmdirDenied(d, p) \/ RmdirNotEmpty(d, p) \/ Rmdir(d, p)
  BY <1>3, RmdirDeniedCall, RmdirRefused, RmdirDone
<1>4. CASE UnlinkDenied(d, p) \/ Unlink(d, p)
  BY <1>4, UnlinkDeniedCall, UnlinkDone
<1>5. ASSUME NEW mode \in Modes, CreateFails(d, p, mode)
      PROVE  Answered
  BY <1>5, CreateFailsCall
<1>6. ASSUME NEW h \in Handle, OpenDir(d, p, h)
      PROVE  Answered
  BY <1>6, OpenDirCall
<1>7. ASSUME NEW h \in Handle, NEW mode \in Modes, Create(d, p, h, mode)
      PROVE  Answered
  BY <1>7, CreateCall
<1>8. ASSUME NEW h \in Handle, NEW trunc \in BOOLEAN, Open(d, p, h, trunc)
      PROVE  Answered
  BY <1>8, OpenCall
<1> QED
  BY Zenon, <1>1, <1>2, <1>3, <1>4, <1>5, <1>6, <1>7, <1>8 DEF Calls

\* Every call keeps the file system as it should be, and does to the tree what a
\* call may do; or there was no entry in the table for an inode, and FS searches.
LEMMA StepIs ==
    ASSUME handle \in [Handle -> Slot \cup {Closed}], Fine(fs, OpensOf(handle), Zero), Next,
           harm' = {}
    PROVE  Answered
<1> DEFINE H == OpensOf(handle)
<1>1. Fine(fs, H, Zero)
  OBVIOUS
<1>2. ASSUME NEW p \in Paths, NEW d, d = Parent(fs, p)
      PROVE  Called(d)
  <2>1. /\ Walked(fs, Parent(fs, p), H, Zero)
        /\ Parent(fs, p).dir # 0 => Parent(fs, p).dir \in DirsIn(Disk(fs))
    BY ONLY <1>1, ParentHolds, p \in Paths
  <2> QED
    BY <1>2, <2>1 DEF Called, Reaching
<1>3. ASSUME NEW p \in Paths, NEW m, m = Namei(fs, p)
      PROVE  Reaching(m)
  <2>1. Walked(fs, Namei(fs, p), H, Zero)
    BY ONLY <1>1, NameiHolds, p \in Paths
  <2> QED
    BY <1>3, <2>1 DEF Reaching
<1>4. ASSUME NEW m, Reaching(m), m.dir # 0, ~IsDir(m.f, m.dir), NEW q \in Paths,
             NEW d, d = Parent(m.f, q)
      PROVE  Linking(m, d)
  <2> DEFINE R == Hold(Zero, m.dir)
  <2>1. Fine(m.f, H, R)
    BY <1>4, WalkReady DEF Reaching
  <2>2. q \in Paths
    OBVIOUS
  <2> HIDE DEF R
  <2>3. Walked(m.f, Parent(m.f, q), H, R)
    BY ONLY <2>1, <2>2, ParentHolds
  <2>4. Parent(m.f, q).dir # 0 => Parent(m.f, q).dir \in DirsIn(Disk(m.f))
    BY ONLY <2>1, <2>2, ParentHolds
  <2> QED
    BY <1>4, <2>3, <2>4 DEF Linking, R
<1>5. ASSUME NEW p \in Paths, NEW d \in {Parent(fs, p)}, Calls(d, p)
      PROVE  Answered
  BY <1>2, <1>5, CallAnswered
<1>6. ASSUME NEW p \in Paths, NEW m \in {Namei(fs, p)}, List(m) \/ LinkDenied(m)
      PROVE  Answered
  BY <1>3, <1>6, ListCall, LinkDeniedCall
<1>7. ASSUME NEW p \in Paths, NEW m \in {Namei(fs, p)}, NEW q \in Paths,
             NEW d \in {Parent(m.f, q)}, NoNewName(m, d, q) \/ Link(m, d, q)
      PROVE  Answered
  <2>1. m.dir # 0 /\ ~IsDir(m.f, m.dir)
    BY Zenon, <1>7 DEF NoNewName, Link
  <2>2. Reaching(m)
    BY <1>3
  <2>3. Linking(m, d)
    BY <1>4, <2>1, <2>2
  <2> QED
    BY <1>7, <2>3, NoNewNameCall, LinkCall
<1>8. ASSUME NEW h \in Handle, Close(h)
      PROVE  Answered
  BY <1>1, <1>8, CloseCall
<1>9. ASSUME Sync
      PROVE  Answered
  BY <1>1, <1>9, SyncCall
<1> QED
  BY <1>5, <1>6, <1>7, <1>8, <1>9 DEF Next

\* While FS runs, Good is Fine.
LEMMA FineIsGood ==
    ASSUME NEW f, NEW H, NEW R
    PROVE  /\ Good(f, H, R) /\ f.status = "ok" => Fine(f, H, R)
           /\ Fine(f, H, R) \/ Ended(f, H, R) => Good(f, H, R)
BY Zenon DEF Good, Fine, Ended, NoEntry

\* IInv is inductive.
LEMMA IInvKept ==
    ASSUME IInv, [Next]_vars
    PROVE  IInv'
<1>1. CASE Next
  <2>1. fs.status = "ok" /\ Harming
    BY <1>1, OnlyRunning
  <2>2. harm' \subseteq Reasons
    BY <2>1 DEF Harming, IInv
  <2>3. CASE harm' = {}
    <3>1. harm = {}
      BY <2>1, <2>3 DEF Harming
    <3>2. handle \in [Handle -> Slot \cup {Closed}] /\ Fine(fs, OpensOf(handle), Zero)
      BY <2>1, <3>1, FineIsGood, OpensAre DEF IInv
    <3>3. Answered
      BY <1>1, <2>3, <3>2, StepIs
    <3>4. Good(fs', OpensOf(handle'), Zero)
      BY <3>3, FineIsGood DEF Answered, Done
    <3>5. Zero' = Zero /\ Good(fs', OpensOf(handle'), Zero)
      BY <3>4
    <3> QED
      BY <2>2, <3>3, <3>5, OpensAre DEF Answered, IInv
  <2>4. CASE harm' # {}
    BY <2>2, <2>4 DEF IInv
  <2> QED
    BY <2>3, <2>4
<1>2. CASE UNCHANGED vars
  <2>1. fs' = fs /\ handle' = handle /\ harm' = harm
    BY <1>2 DEF vars
  <2>2. Opens' = Opens
    BY <2>1, OpensAre
  <2> QED
    BY <2>1, <2>2 DEF IInv
<1> QED
  BY <1>1, <1>2

-----------------------------------------------------------------------------
(* The file system load_root makes.                                         *)

\* The bits below k are set: k is the next one.
LEMMA FirstZeroOf ==
    ASSUME NEW bits \in Nat, NEW k \in Nat, k < bits, NEW used, used = 0 .. k - 1
    PROVE  FirstZero(used, bits) = k
<1> DEFINE byte(n) == {m \in 0 .. bits - 1 : m \div ByteBits = n \div ByteBits}
           good == {n \in (0 .. bits - 1) \ used :
                       \A m \in byte(n) : m \in used <=> m < n}
<1>1. k \in good
  <2>1. \A m \in byte(k) : m \in Nat
    OBVIOUS
  <2> HIDE DEF byte
  <2>2. \A m \in byte(k) : m \in used <=> m < k
    BY <2>1
  <2> QED
    BY <2>2
<1>2. \A n \in good : n \in Nat /\ k <= n
  OBVIOUS
<1>3. FirstZero(used, bits) = IF good = {} THEN -1
                              ELSE CHOOSE n \in good : \A m \in good : n <= m
  BY DEF FirstZero
<1> HIDE DEF good
<1>4. \A n \in good : (\A m \in good : n <= m) => n = k
  BY <1>1, <1>2
<1>5. \A m \in good : k <= m
  BY <1>2
<1>6. (CHOOSE n \in good : \A m \in good : n <= m) = k
  <2>1. \E n \in good : \A m \in good : n <= m
    BY <1>1, <1>5
  <2> QED
    BY <1>4, <2>1
<1> QED
  BY Zenon, <1>1, <1>3, <1>6

\* No entry is kept.
Unkept == [s \in Slot |-> 0]

\* The entries in S are as they were at the start, when nothing was in the table.
Clear(f, S) == \A s \in S : f.table[s] = Empty

\* An entry of the table at the start.
LEMMA EmptyIs ==
    /\ Empty.num = 0 /\ Empty.cnt = 0 /\ Empty.dirt = FALSE /\ Empty.node = NoNode
    /\ NoNode \in Node /\ Empty \in TabEntry /\ NoNode.zone = NoZones
<1>1. 0 \in 0 .. NrLinks - 1
  BY InodesAssumption
<1> QED
  BY <1>1, Sizes DEF Empty, NoNode, TabEntry, Node, NoZones, Nr

\* new_inode puts an inode into one of those.
Placed(f, g, n, s) ==
    /\ s \in Slot /\ g.status = "ok" /\ g.imap = f.imap \cup {n} /\ g.dev = f.dev
    /\ g.zmap = f.zmap /\ g.body = f.body /\ g.pinned = f.pinned
    /\ g.table[s] = [num |-> n, cnt |-> 1, dirt |-> TRUE, node |-> [NoNode EXCEPT !.nlinks = 1]]
    /\ \A t \in Slot \ {s} : g.table[t] = f.table[t]

\* new_inode puts its inode into an entry of S, with no zones.
LEMMA InodePlaced ==
    ASSUME NEW f, NEW H, NEW R, TableOK(f, H, R), f.status = "ok",
           NEW n, n = NewInodeNr(f), n # 0, NEW S \in SUBSET Slot, S # {}, Clear(f, S),
           \A s \in Slot \ S : f.table[s].cnt # 0,
           NEW g, g = NewInode(f)
    PROVE  \E s \in S : Placed(f, g, n, s)
<1> DEFINE f1 == [f EXCEPT !.imap = @ \cup {n}]
           s == First(Spare(f1))
           e1 == [num |-> n, cnt |-> 1, dirt |-> TRUE, node |-> [NoNode EXCEPT !.nlinks = 1]]
<1>1. /\ DOMAIN f1 = Fields /\ f1.imap = f.imap \cup {n} /\ f1.zmap = f.zmap /\ f1.table = f.table
      /\ f1.dev = f.dev /\ f1.body = f.body /\ f1.pinned = f.pinned /\ f1.status = f.status
  BY DEF TableOK, IsFs, Fields
<1>2. g = Occupy(WithSpare(f1), n)
  BY DEF NewInode, InodeAs
<1> HIDE DEF f1
<1>3. Spare(f1) = S
  <2>1. \A t \in S : f.table[t].cnt = 0 /\ f.table[t].dirt = FALSE
    BY EmptyIs DEF Clear
  <2> QED
    BY <1>1, <2>1 DEF Spare
<1>4. s \in S
  BY <1>3, FirstIsFound
<1>5. WithSpare(f1) = f1
  BY <1>3 DEF WithSpare
<1>6. f1.table[s].node = NoNode
  BY <1>1, <1>4, EmptyIs DEF Clear
<1>7. g = [f1 EXCEPT !.table = [f1.table EXCEPT ![s] = e1]]
  BY Zenon, <1>1, <1>2, <1>5, <1>6 DEF Occupy
<1> HIDE DEF s, e1
<1>8. g.table = [f1.table EXCEPT ![s] = e1] /\ g.status = "ok" /\ g.imap = f1.imap
      /\ g.dev = f.dev /\ g.zmap = f.zmap /\ g.body = f.body /\ g.pinned = f.pinned
  BY <1>1, <1>7 DEF Fields
<1>9. DOMAIN f1.table = Slot
  BY <1>1 DEF TableOK, IsFs
<1>10. g.table[s] = e1 /\ \A t \in Slot \ {s} : g.table[t] = f.table[t]
  BY <1>1, <1>4, <1>8, <1>9
<1> QED
  BY <1>1, <1>4, <1>8, <1>10 DEF Placed, e1

\* Before load_root makes its inodes the table is good and the disk is empty.
LEMMA FormattedIs ==
    /\ TableOK(Formatted, Unkept, Zero) /\ Formatted.status = "ok" /\ Clear(Formatted, Slot)
    /\ Formatted.imap = {0} /\ Formatted.zmap = {} /\ Formatted.pinned = {}
    /\ Formatted.body = [b \in Blk |-> ZeroBlk]
<1> DEFINE f == Formatted
<1>1. /\ DOMAIN f = Fields /\ f.status = "ok" /\ f.imap = {0} /\ f.zmap = {} /\ f.pinned = {}
      /\ f.body = [b \in Blk |-> ZeroBlk] /\ f.table = [s \in Slot |-> Empty]
      /\ f.dev = [n \in Inr |-> NoNode]
  BY DEF Formatted, Fields
<1> HIDE DEF f
<1>2. \A s \in Slot : f.table[s] = Empty
  BY <1>1
<1>3. IsFs(f)
  <2>1. DOMAIN ZeroBlk \subseteq 0 .. BlkSize - 1
    BY NothingThere
  <2>2. f.table \in [Slot -> TabEntry] /\ f.dev \in [Inr -> Node]
    BY <1>1, EmptyIs
  <2> QED
    BY <1>1, <2>1, <2>2 DEF IsFs
<1>4. Unique(f)
  BY <1>2, EmptyIs DEF Unique
<1>5. f.imap \in SUBSET (0 .. InodeBits - 1) /\ 0 \in f.imap
  BY <1>1, Sizes
<1>6. Unkept \in [Slot -> Nat] /\ \A s \in Slot : Unkept[s] = 0
  BY DEF Unkept
<1>7. \A s \in Slot : EntryOK(f, Unkept, Zero, s)
  BY <1>1, <1>2, <1>6, EmptyIs DEF EntryOK
<1>8. Zero \in [Inr -> Nat] /\ \A n \in Inr : ~(Zero[n] > 0)
  BY ZeroIs
<1>9. TableOK(f, Unkept, Zero)
  BY <1>1, <1>3, <1>4, <1>5, <1>6, <1>7, <1>8 DEF TableOK
<1> QED
  BY <1>1, <1>2, <1>9 DEF f, Clear

\* After the first inodes of load_root: the numbers, the inodes, and no block.
FirstNode == [NoNode EXCEPT !.nlinks = 1]
TwoInodes == NewInode(NewInode(Formatted))

\* The two inodes of load_root have the numbers ROOT_NR and ROOT_IND_NR, one link and no zones.
LEMMA TwoInodesAre ==
    /\ TableOK(TwoInodes, Unkept, Hold(Hold(Zero, Root), RootDir)) /\ TwoInodes.status = "ok"
    /\ TwoInodes.imap = {0, Root, RootDir} /\ TwoInodes.zmap = {} /\ TwoInodes.pinned = {}
    /\ TwoInodes.body = [b \in Blk |-> ZeroBlk]
    /\ Mem(TwoInodes, Root).node = FirstNode /\ Mem(TwoInodes, RootDir).node = FirstNode
    /\ Mem(TwoInodes, Root).dirt /\ Mem(TwoInodes, RootDir).dirt
    /\ Entry(TwoInodes, Root) # Entry(TwoInodes, RootDir)
<1> DEFINE f == Formatted
           f1 == NewInode(f)
           f2 == NewInode(f1)
           R1 == Hold(Zero, 1)
           R2 == Hold(R1, 2)
<1>1. TableOK(f, Unkept, Zero) /\ f.status = "ok" /\ Clear(f, Slot) /\ f.imap = {0} /\ f.zmap = {}
      /\ f.pinned = {} /\ f.body = [b \in Blk |-> ZeroBlk]
  BY FormattedIs
<1> HIDE DEF f
<1>2. InodeBits \in Nat /\ InodeBits > 2 /\ NrInode \in Nat \ {0} /\ NrInode % 2 = 0
      /\ 1 \in Inr /\ 2 \in Inr
  BY NamesAssumption, InodesAssumption DEF Inr
<1>3. NewInodeNr(f) = 1
  <2>1. f.imap = 0 .. 1 - 1
    BY <1>1
  <2>2. 1 \in Nat /\ 1 < InodeBits /\ InodeBits \in Nat
    BY <1>2
  <2>3. FirstZero(f.imap, InodeBits) = 1
    BY ONLY Zenon, <2>1, <2>2, FirstZeroOf
  <2> QED
    BY <2>3 DEF NewInodeNr
<1>4. \E s \in Slot : Placed(f, f1, 1, s)
  <2>1. Slot \in SUBSET Slot /\ Slot # {} /\ \A s \in Slot \ Slot : f.table[s].cnt # 0
    BY <1>2 DEF Slot
  <2>2. 1 = NewInodeNr(f) /\ 1 # 0 /\ f1 = NewInode(f)
    BY <1>3
  <2> HIDE DEF f1
  <2> QED
    BY ONLY <1>1, <2>1, <2>2, InodePlaced
<1>5. PICK s1 \in Slot : Placed(f, f1, 1, s1)
  BY <1>4
<1>6. TableOK(f1, Unkept, R1) /\ f1.status = "ok"
  <2>1. NewInodeNr(f) # 0
    BY <1>3
  <2>2. LET g == NewInode(f)
            n == NewInodeNr(f)
        IN  \/ Ended(g, Unkept, Zero)
            \/ TableOK(g, Unkept, Hold(Zero, n)) /\ g.status = "ok"
    BY ONLY <1>1, <2>1, NewInodeHolds
  <2> HIDE DEF f1
  <2>3. f1.status = "ok"
    BY <1>5 DEF Placed
  <2>4. ~Ended(f1, Unkept, Zero)
    BY <2>3 DEF Ended, NoEntry
  <2> QED
    BY <1>3, <2>2, <2>3, <2>4 DEF f1
<1>7. /\ f1.imap = {0, 1} /\ f1.zmap = {} /\ f1.pinned = {} /\ f1.body = [b \in Blk |-> ZeroBlk]
      /\ f1.table[s1] = [num |-> 1, cnt |-> 1, dirt |-> TRUE, node |-> FirstNode]
      /\ Clear(f1, Slot \ {s1})
  <2> HIDE DEF f1
  <2> QED
    BY <1>1, <1>5 DEF Placed, Clear, FirstNode
<1> HIDE DEF f1, R1
<1>8. NewInodeNr(f1) = 2
  <2>1. f1.imap = 0 .. 2 - 1
    BY <1>7
  <2>2. 2 \in Nat /\ 2 < InodeBits /\ InodeBits \in Nat
    BY <1>2
  <2>3. FirstZero(f1.imap, InodeBits) = 2
    BY ONLY Zenon, <2>1, <2>2, FirstZeroOf
  <2> QED
    BY <2>3 DEF NewInodeNr
<1>9. PICK s2 \in Slot \ {s1} : Placed(f1, f2, 2, s2)
  <2>1. NrInode >= 2
    BY <1>2
  <2>2. Slot \ {s1} # {}
    <3>1. 0 \in Slot /\ 1 \in Slot
      BY <1>2, <2>1 DEF Slot
    <3> QED
      BY <3>1
  <2>3. Slot \ {s1} \in SUBSET Slot /\ \A s \in Slot \ (Slot \ {s1}) : f1.table[s].cnt # 0
    BY <1>7
  <2>4. 2 = NewInodeNr(f1) /\ 2 # 0 /\ f2 = NewInode(f1)
    BY <1>8
  <2> HIDE DEF f2
  <2>5. \E s \in Slot \ {s1} : Placed(f1, f2, 2, s)
    BY ONLY <1>6, <1>7, <2>2, <2>3, <2>4, InodePlaced
  <2> QED
    BY <2>5
<1>10. TableOK(f2, Unkept, R2) /\ f2.status = "ok"
  <2>1. NewInodeNr(f1) # 0
    BY <1>8
  <2>2. LET g == NewInode(f1)
            n == NewInodeNr(f1)
        IN  \/ Ended(g, Unkept, R1)
            \/ TableOK(g, Unkept, Hold(R1, n)) /\ g.status = "ok"
    BY ONLY <1>6, <2>1, NewInodeHolds
  <2> HIDE DEF f2
  <2>3. f2.status = "ok"
    BY <1>9 DEF Placed
  <2>4. ~Ended(f2, Unkept, R1)
    BY <2>3 DEF Ended, NoEntry
  <2> QED
    BY <1>8, <2>2, <2>3, <2>4 DEF f2
<1> HIDE DEF R2
<1>11. f2 = TwoInodes
  BY DEF f2, f1, f, TwoInodes
<1> HIDE DEF f2
<1>12. /\ f2.imap = {0, 1, 2} /\ f2.zmap = {} /\ f2.pinned = {} /\ f2.body = [b \in Blk |-> ZeroBlk]
       /\ f2.table[s1] = [num |-> 1, cnt |-> 1, dirt |-> TRUE, node |-> FirstNode]
       /\ f2.table[s2] = [num |-> 2, cnt |-> 1, dirt |-> TRUE, node |-> FirstNode]
  BY <1>7, <1>9 DEF Placed, FirstNode
<1>13. Entry(f2, 1) = s1 /\ Entry(f2, 2) = s2
  <2>1. Unique(f2) /\ f2.table[s1].num = 1 /\ f2.table[s2].num = 2
    BY <1>10, <1>12 DEF TableOK
  <2> QED
    BY <2>1, EntryIs
<1>14. Mem(f2, 1).node = FirstNode /\ Mem(f2, 2).node = FirstNode /\ Mem(f2, 1).dirt /\ Mem(f2, 2).dirt
  BY <1>12, <1>13 DEF Mem
<1> QED
  BY <1>9, <1>10, <1>11, <1>12, <1>13, <1>14 DEF R1, R2, Root, RootDir

TopBlk == [i \in {0} |-> [name |-> Slash, nr |-> RootDir]]
SubBlk == [i \in {0, 1} |-> IF i = 0 THEN [name |-> Dot, nr |-> RootDir]
                                     ELSE [name |-> DotDot, nr |-> Root]]

\* A disk with the two directories, each of which has the block of its number.
RootsOn(v) ==
    /\ DOMAIN v.cur = {Root, RootDir} /\ v.zmap = {0, 1} /\ v.pinned = {}
    /\ \A n \in {Root, RootDir} : /\ v.cur[n].mode = "dir" /\ v.cur[n].nlinks = 1
                                  /\ v.cur[n].size = BlkSize /\ v.cur[n].zone = Zoned(n)
    /\ v.body[Root] = TopBlk /\ v.body[RootDir] = SubBlk

RootEnts == {<<Root, Slash, RootDir>>, <<RootDir, Dot, RootDir>>, <<RootDir, DotDot, Root>>}

\* The numbers and names that load_root uses are there.
LEMMA NumbersAre ==
    /\ 1 \in Inr /\ 2 \in Inr /\ 1 \in Blk /\ 2 \in Blk /\ {0, 1} \subseteq 0 .. PerBlk - 1
    /\ {0, 1} \subseteq 0 .. BlkSize - 1
    /\ {Slash, Dot, DotDot} \subseteq Name /\ Slash # Dot /\ Slash # DotDot
    /\ Dot # DotDot
<1>1. NrZones \in Nat /\ NrZones > 2 /\ InodeBits \in Nat /\ InodeBits > 2
  BY NamesAssumption, InodesAssumption
<1>2. PerBlk \in Nat /\ PerBlk > 2 /\ PerBlk <= BlkSize /\ BlkSize \in Nat
  BY NamesAssumption, InodesAssumption
<1>3. NameLen[Dot] # NameLen[DotDot]
  BY NamesAssumption
<1>4. Dot # DotDot
  BY <1>3
<1>5. {Slash, Dot, DotDot} \subseteq Name /\ Slash # Dot /\ Slash # DotDot
  BY NamesAssumption
<1>6. 1 \in Inr /\ 2 \in Inr /\ 1 \in Blk /\ 2 \in Blk
  BY <1>1 DEF Inr, Blk
<1>7. {0, 1} \subseteq 0 .. PerBlk - 1 /\ {0, 1} \subseteq 0 .. BlkSize - 1
  BY <1>2
<1> QED
  BY <1>4, <1>5, <1>6, <1>7

\* Both root directories have one block.
LEMMA RootBlocks ==
    ASSUME NEW v, RootsOn(v)
    PROVE  OneBlock(v, Root, Root) /\ OneBlock(v, RootDir, RootDir)
<1>1. /\ DOMAIN TopBlk = {0} /\ DOMAIN SubBlk = {0, 1}
      /\ TopBlk[0] = [name |-> Slash, nr |-> RootDir] /\ SubBlk[0] = [name |-> Dot, nr |-> RootDir]
      /\ SubBlk[1] = [name |-> DotDot, nr |-> Root]
  BY DEF TopBlk, SubBlk
<1>2. Root = 1 /\ RootDir = 2 /\ Root \in Blk /\ RootDir \in Blk /\ Root \in Inr /\ RootDir \in Inr
  BY NumbersAre DEF Root, RootDir
<1>3. v.body[Root] = TopBlk /\ v.body[RootDir] = SubBlk /\ v.zmap = {0, 1}
      /\ v.cur[Root].zone = Zoned(Root) /\ v.cur[Root].size = BlkSize
      /\ v.cur[RootDir].zone = Zoned(RootDir) /\ v.cur[RootDir].size = BlkSize
  BY DEF RootsOn
<1>4. OneBlock(v, Root, Root)
  <2>1. Root - 1 \in v.zmap /\ DOMAIN v.body[Root] \subseteq 0 .. PerBlk - 1
    BY <1>1, <1>2, <1>3, NumbersAre
  <2>2. \A i \in DOMAIN v.body[Root] : v.body[Root][i] \in [name : Name, nr : Inr]
    BY <1>1, <1>2, <1>3, NumbersAre
  <2>3. \A i, j \in DOMAIN v.body[Root] : v.body[Root][i].name = v.body[Root][j].name => i = j
    BY <1>1, <1>3
  <2> QED
    BY <1>2, <1>3, <2>1, <2>2, <2>3 DEF OneBlock
<1>5. OneBlock(v, RootDir, RootDir)
  <2>1. RootDir - 1 \in v.zmap /\ DOMAIN v.body[RootDir] \subseteq 0 .. PerBlk - 1
    BY <1>1, <1>2, <1>3, NumbersAre
  <2>2. \A i \in DOMAIN v.body[RootDir] : v.body[RootDir][i] \in [name : Name, nr : Inr]
    BY <1>1, <1>2, <1>3, NumbersAre
  <2>3. v.body[RootDir][0].name = Dot /\ v.body[RootDir][1].name = DotDot
    BY <1>1, <1>3
  <2>4. \A i, j \in DOMAIN v.body[RootDir] :
           v.body[RootDir][i].name = v.body[RootDir][j].name => i = j
    BY <1>1, <1>3, <2>3, NumbersAre
  <2>5. v.body[RootDir][0] = [name |-> Dot, nr |-> RootDir] /\ {0, 1} \subseteq DOMAIN v.body[RootDir]
    BY <1>1, <1>3, Zenon
  <2> QED
    BY <1>2, <1>3, <2>1, <2>2, <2>3, <2>4, <2>5, Zenon DEF OneBlock
<1> QED
  BY <1>4, <1>5

\* They are a tree.
LEMMA RootTree ==
    ASSUME NEW live, live = {Root, RootDir}, NEW c, c[Root] = 1, c[RootDir] = 1
    PROVE  TreeOK(live, live, RootEnts, c)
<1>1. Root = 1 /\ RootDir = 2 /\ Slash \notin Dotted /\ Slash \in Name
      /\ Dot \in Name /\ DotDot \in Name /\ Dot # DotDot /\ Slash # Dot /\ Slash # DotDot
  BY NumbersAre DEF Root, RootDir, Dotted
<1>2. IsFiniteSet(RootEnts)
  <2>1. IsFiniteSet({<<Root, Slash, RootDir>>})
    BY Zenon, FS_Singleton
  <2>2. IsFiniteSet({<<Root, Slash, RootDir>>} \cup {<<RootDir, Dot, RootDir>>})
    BY Zenon, <2>1, FS_AddElement
  <2>3. IsFiniteSet(({<<Root, Slash, RootDir>>} \cup {<<RootDir, Dot, RootDir>>})
                       \cup {<<RootDir, DotDot, Root>>})
    BY Zenon, <2>2, FS_AddElement
  <2>4. RootEnts = ({<<Root, Slash, RootDir>>} \cup {<<RootDir, Dot, RootDir>>})
                       \cup {<<RootDir, DotDot, Root>>}
    BY DEF RootEnts
  <2> QED
    BY <2>3, <2>4
<1>3. RootEnts \subseteq live \X Name \X live
  BY <1>1 DEF RootEnts
<1>4. \A e, u \in RootEnts : e[1] = u[1] /\ e[2] = u[2] => e = u
  BY <1>1 DEF RootEnts
<1>5. \A e \in RootEnts : /\ e[2] = Slash => e[1] = Root
                          /\ e[2] \in Dotted => e[1] # Root /\ e[3] \in live
                          /\ e[2] = Dot => e[3] = e[1]
  BY <1>1 DEF RootEnts, Dotted
<1>6. \A n \in live \ {Root} : \E d \in live : \E x \in Name \ Dotted :
           /\ <<n, DotDot, d>> \in RootEnts /\ <<d, x, n>> \in RootEnts
           /\ \A e \in RootEnts : e[3] = n /\ e[2] \notin Dotted => e = <<d, x, n>>
  <2>1. <<RootDir, DotDot, Root>> \in RootEnts /\ <<Root, Slash, RootDir>> \in RootEnts
    BY DEF RootEnts
  <2>2. \A e \in RootEnts : e[3] = RootDir /\ e[2] \notin Dotted => e = <<Root, Slash, RootDir>>
    BY <1>1 DEF RootEnts, Dotted
  <2>3. live \ {Root} = {RootDir} /\ Root \in live /\ Slash \in Name \ Dotted
    BY <1>1
  <2> QED
    BY <2>1, <2>2, <2>3
<1>7. \A e \in RootEnts : e[3] = Root => e[2] \in Dotted
  BY <1>1 DEF RootEnts, Dotted
<1>8. \A n \in live : c[n] = Counted(live, RootEnts, n)
  <2>1. {e \in RootEnts : e[3] = Root /\ e[2] = DotDot} = {<<RootDir, DotDot, Root>>}
    BY <1>1 DEF RootEnts
  <2>2. {e \in RootEnts : e[3] = RootDir /\ e[2] = DotDot} = {}
    BY <1>1 DEF RootEnts
  <2>3. /\ Cardinality({e \in RootEnts : e[3] = Root /\ e[2] = DotDot}) = 1
        /\ Cardinality({e \in RootEnts : e[3] = RootDir /\ e[2] = DotDot}) = 0
    BY Zenon, <2>1, <2>2, FS_Singleton, FS_EmptySet
  <2>4. Counted(live, RootEnts, Root) = 1 + 0
    BY <2>3, Zenon DEF Counted, Extra
  <2>5. Counted(live, RootEnts, RootDir) = 0 + 1
    <3>1. RootDir # Root /\ RootDir \in live
      BY <1>1
    <3> QED
      BY <2>3, <3>1, Zenon DEF Counted, Extra
  <2> QED
    BY <2>4, <2>5
<1>9. <<Root, Slash, RootDir>> \in RootEnts /\ {Root, RootDir} \subseteq live
  BY DEF RootEnts
<1> QED
  BY Zenon, <1>2, <1>3, <1>4, <1>5, <1>6, <1>7, <1>8, <1>9 DEF TreeOK

\* The disk is as it should be, and its tree is the first one.
LEMMA RootsAre ==
    ASSUME NEW v, RootsOn(v)
    PROVE  DiskOK(v) /\ Tree(v) /\ DirsIn(v) = {Root, RootDir}
           /\ Plain(EntsIn(v)) = {<<Root, Slash, RootDir>>}
<1>1. Root = 1 /\ RootDir = 2
  BY DEF Root, RootDir
<1>2. LiveIn(v) = {Root, RootDir} /\ DirsIn(v) = {Root, RootDir}
  BY DEF RootsOn, LiveIn, DirsIn
<1>3. OneBlock(v, Root, Root) /\ OneBlock(v, RootDir, RootDir)
  BY RootBlocks
<1>4. /\ DirOK(v, Root) /\ HeldBy(v, Root) = {Root}
      /\ EntsOf(v, Root) = {<<Root, v.body[Root][i].name, v.body[Root][i].nr>> : i \in DOMAIN v.body[Root]}
  BY ONLY <1>3, OneBlockIs
<1>5. /\ DirOK(v, RootDir) /\ HeldBy(v, RootDir) = {RootDir}
      /\ EntsOf(v, RootDir) = {<<RootDir, v.body[RootDir][i].name, v.body[RootDir][i].nr>> :
                                  i \in DOMAIN v.body[RootDir]}
  BY ONLY <1>3, OneBlockIs
<1>6. DiskOK(v)
  BY <1>1, <1>2, <1>4, <1>5 DEF DiskOK, RootsOn
<1>7. EntsOf(v, Root) = {<<Root, Slash, RootDir>>}
  <2>1. v.body[Root] = TopBlk
    BY DEF RootsOn
  <2>2. DOMAIN TopBlk = {0} /\ TopBlk[0].name = Slash /\ TopBlk[0].nr = RootDir
    BY DEF TopBlk
  <2> QED
    BY <1>4, <2>1, <2>2
<1>8. EntsOf(v, RootDir) = {<<RootDir, Dot, RootDir>>, <<RootDir, DotDot, Root>>}
  <2>1. v.body[RootDir] = SubBlk
    BY DEF RootsOn
  <2>2. DOMAIN SubBlk = {0, 1} /\ SubBlk[0].name = Dot /\ SubBlk[0].nr = RootDir
        /\ SubBlk[1].name = DotDot /\ SubBlk[1].nr = Root
    BY DEF SubBlk
  <2> QED
    BY <1>5, <2>1, <2>2
<1>9. EntsIn(v) = RootEnts
  BY <1>2, <1>7, <1>8 DEF EntsIn, RootEnts
<1>10. Tree(v)
  <2>1. LinksOf(v)[Root] = 1 /\ LinksOf(v)[RootDir] = 1
    BY DEF LinksOf, RootsOn
  <2>2. TreeOK(LiveIn(v), LiveIn(v), RootEnts, LinksOf(v))
    BY <1>2, <2>1, RootTree
  <2> QED
    BY Zenon, <1>2, <1>9, <2>2, TreeIs
<1>11. Plain(RootEnts) = {<<Root, Slash, RootDir>>}
  BY NumbersAre DEF Plain, RootEnts, Dotted
<1> QED
  BY <1>2, <1>6, <1>9, <1>10, <1>11

\* A first inode becomes a directory of block b.
RootAs(b) == [FirstNode EXCEPT !.mode = "dir", !.size = BlkSize, !.zone[0] = b]

\* What load_root makes of a first inode.
LEMMA RootAsIs ==
    ASSUME NEW b \in Blk
    PROVE  /\ RootAs(b) \in Node /\ RootAs(b).mode = "dir" /\ RootAs(b).nlinks = 1
           /\ RootAs(b).size = BlkSize /\ RootAs(b).zone = Zoned(b)
<1> DEFINE x == [FirstNode EXCEPT !.mode = "dir", !.size = BlkSize]
           zone == [x.zone EXCEPT ![0] = b]
<1>1. NoNode \in Node /\ NoNode.zone = NoZones /\ FirstNode = Linked(NoNode, 1)
  BY EmptyIs DEF FirstNode, Linked
<1>2. FirstNode \in Node /\ FirstNode.nlinks = 1 /\ FirstNode.zone = NoZones
  <2>1. 1 \in 0 .. NrLinks - 1
    BY InodesAssumption
  <2>2. /\ Linked(NoNode, 1) \in Node /\ Linked(NoNode, 1).nlinks = 1
        /\ Linked(NoNode, 1).zone = NoNode.zone
    BY ONLY <1>1, <2>1, LinkedIs
  <2> QED
    BY Zenon, <1>1, <2>2
<1>3. BlkSize \in Nat /\ 0 \in Zone /\ b \in Nr
  BY Sizes
<1>4. x \in Node /\ x.mode = "dir" /\ x.nlinks = 1 /\ x.size = BlkSize /\ x.zone = NoZones
  BY Zenon, <1>2, <1>3 DEF Node
<1>5. zone \in [Zone -> Nr] /\ zone = Zoned(b)
  <2>1. NoZones \in [Zone -> Nr] /\ \A z \in Zone : NoZones[z] = 0
    BY Sizes DEF NoZones
  <2>2. zone \in [Zone -> Nr] /\ zone[0] = b /\ \A z \in Zone \ {0} : zone[z] = 0
    BY <1>3, <1>4, <2>1
  <2> HIDE DEF zone
  <2> QED
    BY <2>2 DEF Zoned
<1>6. RootAs(b) = [x EXCEPT !.zone = zone]
  BY DEF RootAs
<1> HIDE DEF x, zone
<1> QED
  BY <1>4, <1>5, <1>6 DEF Node, Nr

\* FS with the two inodes gets blocks 1 and 2.
TwoBlocks == NewBlock(NewBlock(TwoInodes))

\* The blocks that load_root gets are the first two of the disk.
LEMMA TwoBlocksAre ==
    /\ TableOK(TwoBlocks, Unkept, Hold(Hold(Zero, Root), RootDir)) /\ TwoBlocks.status = "ok"
    /\ TwoBlocks.zmap = {0, 1} /\ TwoBlocks.imap = {0, Root, RootDir} /\ TwoBlocks.pinned = {}
    /\ NewBlockNr(TwoInodes) = 1 /\ NewBlockNr(NewBlock(TwoInodes)) = 2
    /\ TwoBlocks.table = TwoInodes.table
<1> DEFINE f == TwoInodes
           f1 == NewBlock(f)
           f2 == NewBlock(f1)
           R == Hold(Hold(Zero, Root), RootDir)
<1>1. TableOK(f, Unkept, R) /\ f.status = "ok" /\ f.imap = {0, Root, RootDir} /\ f.zmap = {}
      /\ f.pinned = {}
  BY TwoInodesAre
<1> HIDE DEF f, R
<1>2. ZoneBits \in Nat /\ 1 < ZoneBits /\ 0 < ZoneBits /\ 1 \in Blk /\ 2 \in Blk
  <2>1. ZoneBits \in Nat /\ ZoneBits >= NrZones - 1 /\ NrZones \in Nat /\ NrZones > 2
    BY NamesAssumption, InodesAssumption
  <2> QED
    BY <2>1, NumbersAre
<1>3. NewBlockNr(f) = 1
  <2>1. f.zmap = 0 .. 0 - 1
    BY <1>1
  <2>2. 0 \in Nat /\ 0 < ZoneBits /\ ZoneBits \in Nat
    BY <1>2
  <2>3. FirstZero(f.zmap, ZoneBits) = 0
    BY ONLY <2>1, <2>2, FirstZeroOf
  <2> QED
    BY <1>2, <2>3 DEF NewBlockNr
<1>4. IsFs(f1) /\ f1.imap = f.imap /\ f1.table = f.table /\ f1.dev = f.dev
      /\ f1.pinned = f.pinned /\ f1.status = f.status /\ f1.zmap = {0}
  <2>1. IsFs(f)
    BY <1>1 DEF TableOK
  <2>2. LET new == NewBlockNr(f)
            g   == NewBlock(f)
        IN  /\ IsFs(g)
            /\ g.imap = f.imap /\ g.table = f.table /\ g.dev = f.dev
            /\ g.pinned = f.pinned /\ g.status = f.status
            /\ new # 0 => g.zmap = f.zmap \cup {new - 1}
    BY ONLY Zenon, <2>1, NewBlockIs
  <2> HIDE DEF f1
  <2> QED
    BY <1>1, <1>3, <2>2 DEF f1
<1> HIDE DEF f1
<1>5. NewBlockNr(f1) = 2
  <2>1. f1.zmap = 0 .. 1 - 1
    BY <1>4
  <2>2. 1 \in Nat /\ 1 < ZoneBits /\ ZoneBits \in Nat
    BY <1>2
  <2>3. FirstZero(f1.zmap, ZoneBits) = 1
    BY ONLY Zenon, <2>1, <2>2, FirstZeroOf
  <2> QED
    BY <1>2, <2>3 DEF NewBlockNr
<1>6. IsFs(f2) /\ f2.imap = f1.imap /\ f2.table = f1.table /\ f2.dev = f1.dev
      /\ f2.pinned = f1.pinned /\ f2.status = f1.status /\ f2.zmap = {0, 1}
  <2>1. LET new == NewBlockNr(f1)
            g   == NewBlock(f1)
        IN  /\ IsFs(g)
            /\ g.imap = f1.imap /\ g.table = f1.table /\ g.dev = f1.dev
            /\ g.pinned = f1.pinned /\ g.status = f1.status
            /\ new # 0 => g.zmap = f1.zmap \cup {new - 1}
    BY ONLY Zenon, <1>4, NewBlockIs
  <2> HIDE DEF f2
  <2> QED
    BY <1>4, <1>5, <2>1 DEF f2
<1> HIDE DEF f2
<1>7. TableOK(f2, Unkept, R)
  <2>1. IsFs(f2) /\ f2.table = f.table /\ f2.imap = f.imap /\ f2.dev = f.dev /\ f2.pinned = f.pinned
    BY <1>4, <1>6
  <2> QED
    BY ONLY <1>1, <2>1, TableKept
<1> QED
  BY <1>1, <1>3, <1>4, <1>5, <1>6, <1>7 DEF f, f1, f2, R, TwoBlocks

\* load_root leaves its two directories on the disk.
LEMMA WithBlocksAre ==
    LET g == WithBlocks(TwoInodes)
    IN  TableOK(g, Unkept, Zero) /\ g.status = "ok" /\ RootsOn(Disk(g))
<1> DEFINE f == TwoBlocks
           R == Hold(Hold(Zero, Root), RootDir)
           a1 == WithNode(f, Root, RootAs(Root))
           a2 == WithNode(a1, RootDir, RootAs(RootDir))
           a3 == [a2 EXCEPT !.body[Root] = TopBlk]
           a4 == [a3 EXCEPT !.body[RootDir] = SubBlk]
           g == WithBlocks(TwoInodes)
<1>1. TableOK(f, Unkept, R) /\ f.status = "ok" /\ f.zmap = {0, 1} /\ f.imap = {0, Root, RootDir}
      /\ f.pinned = {} /\ f.table = TwoInodes.table
      /\ NewBlockNr(TwoInodes) = 1 /\ NewBlockNr(NewBlock(TwoInodes)) = 2
  BY TwoBlocksAre
<1>2. Root = 1 /\ RootDir = 2 /\ Root \in Inr /\ RootDir \in Inr /\ Root \in Blk /\ RootDir \in Blk
  BY NumbersAre DEF Root, RootDir
<1>3. R[Root] > 0 /\ R[RootDir] > 0
  <2>1. Hold(Zero, Root) \in [Inr -> Nat] /\ Hold(Zero, Root)[Root] > 0
    BY <1>2, ZeroIs, KeepIs
  <2> DEFINE R1 == Hold(Zero, Root)
  <2> HIDE DEF R1
  <2>2. Hold(R1, RootDir)[RootDir] > 0 /\ Hold(R1, RootDir)[Root] = R1[Root]
    BY <1>2, <2>1, KeepIs DEF R1
  <2> QED
    BY <2>1, <2>2 DEF R1
<1>4. \A n : Entry(f, n) = Entry(TwoInodes, n) /\ Mem(f, n) = Mem(TwoInodes, n)
  BY <1>1 DEF Entry, Mem
<1>5. /\ Mem(f, Root).node = FirstNode /\ Mem(f, RootDir).node = FirstNode
      /\ Mem(f, Root).dirt /\ Mem(f, RootDir).dirt /\ Entry(f, Root) # Entry(f, RootDir)
  BY <1>4, TwoInodesAre
<1>6. RootNode(f, Root, 1) = RootAs(Root) /\ RootNode(f, RootDir, 2) = RootAs(RootDir)
  BY Zenon, <1>2, <1>5 DEF RootNode, RootAs
<1>7. /\ RootAs(Root) \in Node /\ RootAs(Root).mode = "dir" /\ RootAs(Root).nlinks = 1
      /\ RootAs(Root).size = BlkSize /\ RootAs(Root).zone = Zoned(Root)
  BY <1>2, RootAsIs
<1>8. /\ RootAs(RootDir) \in Node /\ RootAs(RootDir).mode = "dir" /\ RootAs(RootDir).nlinks = 1
      /\ RootAs(RootDir).size = BlkSize /\ RootAs(RootDir).zone = Zoned(RootDir)
  BY <1>2, RootAsIs
<1> HIDE DEF f, R
<1>9. TableOK(a1, Unkept, R) /\ Renoded(f, a1, Root, RootAs(Root))
  <2>1. RootAs(Root) \in Node /\ RootAs(Root).nlinks > 0 /\ Mem(f, Root).dirt /\ Root \in Inr
        /\ a1 = WithNode(f, Root, RootAs(Root))
    BY <1>2, <1>5, <1>7
  <2> HIDE DEF a1
  <2> QED
    BY ONLY <1>1, <1>3, <2>1, NodeChanged
<1>10. Entry(a1, RootDir) = Entry(f, RootDir) /\ Mem(a1, RootDir).dirt
  <2>1. Entry(f, RootDir) \in Slot
    BY <1>1, <1>2, <1>3, HeldIs
  <2> HIDE DEF a1
  <2> QED
    BY <1>5, <1>9, <2>1 DEF Renoded, NodeSetTo, Mem
<1> HIDE DEF a1
<1>11. TableOK(a2, Unkept, R) /\ Renoded(a1, a2, RootDir, RootAs(RootDir))
  <2>1. RootAs(RootDir) \in Node /\ RootAs(RootDir).nlinks > 0 /\ Mem(a1, RootDir).dirt /\ RootDir \in Inr
        /\ a2 = WithNode(a1, RootDir, RootAs(RootDir))
    BY <1>2, <1>8, <1>10
  <2> HIDE DEF a2
  <2> QED
    BY ONLY <1>3, <1>9, <2>1, NodeChanged
<1> HIDE DEF a2
<1>12. DOMAIN TopBlk = {0} /\ DOMAIN SubBlk = {0, 1} /\ {0, 1} \subseteq 0 .. BlkSize - 1
  BY NumbersAre DEF TopBlk, SubBlk
<1>13. BodySetTo(a2, a3, Root, TopBlk)
  BY <1>2, <1>11, <1>12, BodySet DEF TableOK
<1> HIDE DEF a3
<1>14. BodySetTo(a3, a4, RootDir, SubBlk)
  BY <1>2, <1>12, <1>13, BodySet DEF BodySetTo
<1>15. g = a4
  <2>1. g = WithRoots(f, 1, 2)
    BY <1>1 DEF WithBlocks, f, TwoBlocks
  <2>2. WithRoots(f, 1, 2) =
          [f EXCEPT !.table[Entry(f, Root)].node    = RootAs(Root),
                    !.table[Entry(f, RootDir)].node = RootAs(RootDir),
                    !.body[1] = TopBlk, !.body[2] = SubBlk]
    BY Zenon, <1>6 DEF WithRoots, TopBlk, SubBlk
  <2>3. a2 = [a1 EXCEPT !.table[Entry(f, RootDir)].node = RootAs(RootDir)]
    BY <1>10 DEF a2, WithNode
  <2> QED
    BY <1>2, <2>1, <2>2, <2>3 DEF a1, a3, WithNode
<1> HIDE DEF a4, g
<1>16. /\ IsFs(a4) /\ a4.table = a2.table /\ a4.imap = a2.imap /\ a4.dev = a2.dev
       /\ a4.pinned = a2.pinned /\ a4.status = a2.status /\ a4.zmap = a2.zmap
  BY <1>13, <1>14 DEF BodySetTo
<1>17. TableOK(a4, Unkept, R) /\ Disk(a4).cur = Disk(a2).cur
  BY ONLY <1>11, <1>16, TableKept
<1>18. a2.imap = f.imap /\ a2.zmap = f.zmap /\ a2.pinned = f.pinned /\ a2.status = f.status
  BY <1>9, <1>11 DEF Renoded, NodeSetTo
<1>19. DOMAIN Disk(f).cur = {Root, RootDir}
  <2>1. DOMAIN Disk(f).cur = f.imap \cap Inr
    BY <1>1, CurIs
  <2>2. 0 \notin Inr
    BY DEF Inr
  <2> QED
    BY <1>1, <1>2, <2>1, <2>2
<1>20. /\ DOMAIN Disk(a2).cur = {Root, RootDir}
       /\ Disk(a2).cur[Root] = RootAs(Root) /\ Disk(a2).cur[RootDir] = RootAs(RootDir)
  <2>1. Disk(a1).cur = With(Disk(f).cur, Root, RootAs(Root))
    BY <1>9 DEF Renoded
  <2>2. Disk(a2).cur = With(Disk(a1).cur, RootDir, RootAs(RootDir))
    BY <1>11 DEF Renoded
  <2>3. DOMAIN Disk(a1).cur = {Root, RootDir} /\ Disk(a1).cur[Root] = RootAs(Root)
    BY <1>19, <2>1 DEF With
  <2> QED
    BY <1>2, <2>2, <2>3 DEF With
<1>21. a4.body[Root] = TopBlk /\ a4.body[RootDir] = SubBlk
  BY <1>2, <1>13, <1>14 DEF BodySetTo
<1>22. Disk(a4).zmap = a4.zmap /\ Disk(a4).body = a4.body /\ Disk(a4).pinned = a4.pinned
  BY DEF Disk
<1>23. RootsOn(Disk(a4))
  BY <1>1, <1>7, <1>8, <1>16, <1>17, <1>18, <1>20, <1>21, <1>22 DEF RootsOn
<1>24. TableOK(a4, Unkept, Zero)
  BY <1>17, TableZero
<1> QED
  BY <1>1, <1>15, <1>16, <1>18, <1>23, <1>24 DEF g

\* Everything in the table has been written back.
Clean(f) == \A s \in Slot : f.table[s].dirt = FALSE

\* sync_dev_inodes leaves no entry dirty.
LEMMA SyncCleans ==
    ASSUME NEW f, NEW H, NEW R, TableOK(f, H, R)
    PROVE  Clean(SyncInodes(f))
<1> DEFINE g == SyncInodes(f)
<1>1. \A s \in Slot : f.table[s].dirt => f.table[s].num # 0
  BY DEF TableOK, EntryOK
<1>2. IsFs(f) /\ Unique(f)
  BY DEF TableOK
<1>3. \A s \in Slot : g.table[s] = [num |-> f.table[s].num, cnt |-> f.table[s].cnt, dirt |-> FALSE,
                                    node |-> f.table[s].node]
  BY <1>1, <1>2, SyncKeeps
<1> HIDE DEF g
<1>4. ASSUME NEW s \in Slot
      PROVE  g.table[s].dirt = FALSE
  <2> DEFINE row == [num |-> f.table[s].num, cnt |-> f.table[s].cnt, dirt |-> FALSE,
                     node |-> f.table[s].node]
  <2>1. row.dirt = FALSE
    OBVIOUS
  <2>2. g.table[s] = row
    BY <1>3
  <2> HIDE DEF row
  <2> QED
    BY <2>1, <2>2
<1> QED
  BY Zenon, <1>4 DEF Clean, g

\* FS starts again with what is on the disk: the table is empty.
LEMMA ReadAgain ==
    ASSUME NEW f, NEW H, NEW R, TableOK(f, H, R), Clean(f),
           NEW g, g = [f EXCEPT !.table = [s \in Slot |-> Empty]]
    PROVE  TableOK(g, Unkept, Zero) /\ Disk(g) = Disk(f) /\ g.status = f.status
<1>1. IsFs(f) /\ f.imap \in SUBSET (0 .. InodeBits - 1) /\ 0 \in f.imap /\ f.pinned \in SUBSET Blk
  BY DEF TableOK
<1>2. /\ DOMAIN g = Fields /\ g.imap = f.imap /\ g.zmap = f.zmap /\ g.dev = f.dev /\ g.body = f.body
      /\ g.pinned = f.pinned /\ g.status = f.status /\ g.table = [s \in Slot |-> Empty]
  BY <1>1 DEF IsFs, Fields
<1>3. \A s \in Slot : g.table[s] = Empty
  BY <1>2
<1>4. IsFs(g)
  BY <1>1, <1>2, EmptyIs DEF IsFs
<1>5. Unique(g)
  BY <1>3, EmptyIs DEF Unique
<1>6. Unkept \in [Slot -> Nat] /\ \A s \in Slot : Unkept[s] = 0
  BY DEF Unkept
<1>7. \A s \in Slot : EntryOK(g, Unkept, Zero, s)
  BY <1>1, <1>2, <1>3, <1>6, EmptyIs DEF EntryOK
<1>8. TableOK(g, Unkept, Zero)
  BY <1>1, <1>2, <1>4, <1>5, <1>6, <1>7, ZeroIs DEF TableOK
<1>9. ASSUME NEW n \in f.imap \cap Inr
      PROVE  Disk(g).cur[n] = Disk(f).cur[n]
  <2>1. n # 0
    BY InodesAssumption DEF Inr
  <2>2. ~Has(g, n)
    BY <1>3, <2>1, EmptyIs DEF Has
  <2>3. Disk(g).cur[n] = f.dev[n]
    <3>1. n \in g.imap \cap Inr
      BY <1>2
    <3>2. Disk(g).cur[n] = g.dev[n]
      BY ONLY <1>8, <2>2, <3>1, CurIs
    <3> QED
      BY <1>2, <3>2
  <2>4. CASE Has(f, n)
    <3>1. PICK s \in Slot : f.table[s].num = n
      BY <2>4 DEF Has
    <3>2. EntryOK(f, H, R, s) /\ f.table[s].dirt = FALSE
      BY DEF TableOK, Clean
    <3>3. f.table[s].node = f.dev[n]
      BY <2>1, <3>1, <3>2 DEF EntryOK
    <3>4. Disk(f).cur[n] = f.table[s].node
      BY <2>1, <3>1, CurIs
    <3> QED
      BY <2>3, <3>3, <3>4
  <2>5. CASE ~Has(f, n)
    BY <2>3, <2>5, CurIs
  <2> QED
    BY <2>4, <2>5
<1>10. Disk(g) = Disk(f)
  BY Zenon, <1>2, <1>8, <1>9, SameDisk
<1> QED
  BY <1>2, <1>8, <1>10

\* The file system at the start.
AtStart(f) == TableOK(f, Unkept, Zero) /\ f.status = "ok" /\ RootsOn(Disk(f))

\* Both ways to start, with a new file system or with one on the disk.
LEMMA StartsAre == AtStart(Installed) /\ AtStart(Rebooted)
<1> DEFINE f == WithBlocks(TwoInodes)
<1>1. TableOK(f, Unkept, Zero) /\ f.status = "ok" /\ RootsOn(Disk(f))
  BY WithBlocksAre
<1>2. Installed = SyncInodes(f)
  BY DEF Installed, TwoInodes
<1> HIDE DEF f
<1>3. TableOK(Installed, Unkept, Zero) /\ Disk(Installed) = Disk(f) /\ Installed.status = "ok"
  BY <1>1, <1>2, SyncHolds
<1>4. Clean(Installed)
  BY <1>1, <1>2, SyncCleans
<1>5. TableOK(Rebooted, Unkept, Zero) /\ Disk(Rebooted) = Disk(Installed) /\ Rebooted.status = "ok"
  BY <1>3, <1>4, ReadAgain DEF Rebooted
<1> QED
  BY <1>1, <1>3, <1>5 DEF AtStart

\* No descriptor is open at the start.
LEMMA NoneOpened ==
    OpensOf([h \in Handle |-> Closed]) = Unkept
<1>1. ASSUME NEW s \in Slot
      PROVE  Cardinality({h \in Handle : [k \in Handle |-> Closed][h] = s}) = 0
  <2>1. {h \in Handle : [k \in Handle |-> Closed][h] = s} = {}
    BY NotASlot
  <2> QED
    BY <2>1, FS_EmptySet
<1> QED
  BY <1>1 DEF OpensOf, Unkept

\* IInv holds at the start, with the two root directories on the disk.
LEMMA InitIs ==
    ASSUME Init
    PROVE  IInv /\ fs.status = "ok" /\ RootsOn(Disk(fs))
<1>1. fs \in {Installed, Rebooted} /\ handle = [h \in Handle |-> Closed] /\ harm = {}
  BY DEF Init
<1>2. AtStart(fs)
  BY <1>1, StartsAre
<1>3. Opens = Unkept
  BY <1>1, NoneOpened, OpensAre
<1>4. DiskOK(Disk(fs)) /\ Tree(Disk(fs))
  BY <1>2, RootsAre DEF AtStart
<1>5. handle \in [Handle -> Slot \cup {Closed}]
  BY <1>1
<1> QED
  BY <1>1, <1>2, <1>3, <1>4, <1>5 DEF IInv, Good, AtStart

-----------------------------------------------------------------------------
(* What Names says of fs is what is said here of the disk as FS sees it.      *)

InView ==
    /\ Live = LiveIn(Disk(fs)) /\ Dirs = DirsIn(Disk(fs))
    /\ \A n \in Live : Current(fs, n) = Disk(fs).cur[n]
    /\ \A n \in Dirs : BlocksOf(n) = {BlockIn(Disk(fs), n, k) : k \in FileBlk} \ {0}
    /\ Entries = EntsIn(Disk(fs)) /\ Names = Plain(EntsIn(Disk(fs)))

\* The blocks a directory is scanned for are all that it has.
LEMMA BlocksAre ==
    ASSUME NEW n, Current(fs, n) = Disk(fs).cur[n], Shape(Disk(fs), n)
    PROVE  BlocksOf(n) = {BlockIn(Disk(fs), n, k) : k \in FileBlk} \ {0}
<1> DEFINE v == Disk(fs)
           there == {k \in FileBlk : BlockIn(v, n, k) # 0}
<1>1. v.body = fs.body
  BY DEF Disk
<1>2. Scanned(fs, v.cur[n]) = Scanned(v, v.cur[n])
  BY <1>1 DEF Scanned, BlockOf, Ptr
<1>3. Scanned(v, v.cur[n]) = there
  BY ScannedIs
<1>4. \A k : BlockOf(fs, v.cur[n].zone, k) = BlockIn(v, n, k)
  BY <1>1 DEF BlockIn, BlockOf, Ptr
<1>5. BlocksOf(n) = {BlockOf(fs, v.cur[n].zone, k) : k \in Scanned(fs, v.cur[n])}
  BY DEF BlocksOf
<1>6. BlocksOf(n) = {BlockIn(v, n, k) : k \in there}
  BY <1>2, <1>3, <1>4, <1>5
<1> HIDE DEF v
<1> QED
  BY <1>6 DEF v

\* The entries of Names are those of the disk.
LEMMA EntriesAre ==
    ASSUME Dirs = DirsIn(Disk(fs)), DiskOK(Disk(fs)),
           \A n \in Dirs : BlocksOf(n) = {BlockIn(Disk(fs), n, k) : k \in FileBlk} \ {0}
    PROVE  Entries = EntsIn(Disk(fs))
<1> DEFINE v == Disk(fs)
           own(b) == {<<b[1], fs.body[b[2]][i].name, fs.body[b[2]][i].nr>> : i \in DOMAIN fs.body[b[2]]}
           pairs == UNION {{<<n, b>> : b \in BlocksOf(n)} : n \in Dirs}
<1>1. v.body = fs.body
  BY DEF Disk
<1>2. Entries = UNION {own(t) : t \in pairs}
  BY DEF Entries
<1>3. \A n \in Dirs : DirOK(v, n)
  BY DEF DiskOK
<1> HIDE DEF v
<1>4. ASSUME NEW e \in Entries
      PROVE  e \in EntsIn(v)
  <2>1. PICK t \in pairs : e \in own(t)
    BY <1>2
  <2>2. PICK n \in Dirs : \E b \in BlocksOf(n) : t = <<n, b>>
    BY <2>1
  <2>3. PICK b \in BlocksOf(n) : t = <<n, b>>
    BY <2>2
  <2>4. PICK k \in FileBlk : b = BlockIn(v, n, k) /\ b # 0
    BY <2>3 DEF v
  <2>5. e \in {<<n, fs.body[b][i].name, fs.body[b][i].nr>> : i \in DOMAIN fs.body[b]}
    BY <2>1, <2>3
  <2>6. PICK i \in DOMAIN fs.body[b] : e = <<n, fs.body[b][i].name, fs.body[b][i].nr>>
    BY <2>5
  <2>7. DOMAIN v.body[BlockIn(v, n, k)] \subseteq 0 .. PerBlk - 1
    BY <1>3, <2>4 DEF DirOK, Cells
  <2>8. i \in 0 .. PerBlk - 1 /\ Used(v, n, k, i)
    BY <1>1, <2>4, <2>6, <2>7 DEF Used
  <2>9. e = <<n, Cell(v, n, k, i).name, Cell(v, n, k, i).nr>>
    BY <1>1, <2>4, <2>6 DEF Cell
  <2>10. e \in EntsOf(v, n)
    BY <2>8, <2>9, EntsAre
  <2>11. n \in DirsIn(v)
    BY DEF v
  <2> QED
    BY <2>10, <2>11 DEF EntsIn
<1>5. ASSUME NEW e \in EntsIn(v)
      PROVE  e \in Entries
  <2>1. PICK n \in DirsIn(v) : e \in EntsOf(v, n)
    BY DEF EntsIn
  <2>2. \E k \in FileBlk, i \in 0 .. PerBlk - 1 :
            Used(v, n, k, i) /\ e = <<n, Cell(v, n, k, i).name, Cell(v, n, k, i).nr>>
    BY <2>1, EntsAre
  <2>3. PICK k \in FileBlk, i \in 0 .. PerBlk - 1 :
            Used(v, n, k, i) /\ e = <<n, Cell(v, n, k, i).name, Cell(v, n, k, i).nr>>
    BY <2>2
  <2> DEFINE b == BlockIn(v, n, k)
             t == <<n, b>>
  <2>4. n \in Dirs
    BY DEF v
  <2>5. b # 0 /\ i \in DOMAIN fs.body[b]
    BY <1>1, <2>3 DEF Used
  <2>6. b \in BlocksOf(n)
    BY <2>4, <2>5 DEF v
  <2>7. t \in pairs
    BY <2>4, <2>6
  <2>8. e = <<n, fs.body[b][i].name, fs.body[b][i].nr>>
    BY <1>1, <2>3 DEF Cell
  <2>9. e \in own(t)
    <3>1. t[1] = n /\ t[2] = b
      OBVIOUS
    <3> HIDE DEF t, b
    <3> QED
      BY <2>5, <2>8, <3>1
  <2> HIDE DEF t, pairs, own
  <2> QED
    BY <1>2, <2>7, <2>9
<1> QED
  BY <1>4, <1>5 DEF v

\* While FS runs, Names sees the disk.
LEMMA ViewIs ==
    ASSUME NEW H, NEW R, Fine(fs, H, R)
    PROVE  InView
<1> DEFINE v == Disk(fs)
<1>1. DiskOK(v) /\ TableOK(fs, H, R)
  BY DEF Fine
<1>2. DOMAIN v.cur = fs.imap \cap Inr
  BY <1>1, CurIs
<1>3. \A n \in fs.imap \cap Inr : Current(fs, n) = v.cur[n]
  BY DEF Disk
<1> HIDE DEF v
<1>4. Live = LiveIn(v)
  BY <1>2, <1>3 DEF Live, LiveIn
<1>5. Dirs = DirsIn(v)
  BY <1>2, <1>3 DEF Dirs, DirsIn, LiveIn
<1>6. \A n \in Live : Current(fs, n) = v.cur[n]
  BY <1>3 DEF Live
<1>7. ASSUME NEW n \in Dirs
      PROVE  BlocksOf(n) = {BlockIn(v, n, k) : k \in FileBlk} \ {0}
  <2>1. Shape(v, n)
    BY <1>1, <1>5 DEF DiskOK, DirOK
  <2>2. Current(fs, n) = v.cur[n]
    BY <1>3 DEF Dirs
  <2> QED
    BY <2>1, <2>2, BlocksAre DEF v
<1>8. Entries = EntsIn(v)
  BY <1>1, <1>5, <1>7, EntriesAre DEF v
<1>9. Names = Plain(Entries)
  BY DEF Names, Plain, Dotted
<1> QED
  BY <1>4, <1>5, <1>6, <1>7, <1>8, <1>9 DEF InView, v

-----------------------------------------------------------------------------
(* The invariants of Names. *)

\* IInv implies the type invariant.
LEMMA GoodIsTyped ==
    ASSUME IInv
    PROVE  TypeOK
<1> SUFFICES ASSUME harm = {}
             PROVE  TypeOK
  BY DEF IInv, TypeOK
<1>1. TableOK(fs, Opens, Zero) /\ fs.status \in {"ok", NoEntry}
  BY DEF IInv, Good
<1>2. IsFs(fs) /\ fs.imap \in SUBSET (0 .. InodeBits - 1) /\ fs.pinned \in SUBSET Blk
  BY <1>1 DEF TableOK
<1>3. fs.status \in Status
  BY Zenon, <1>1 DEF NoEntry, Searching, Status
<1>4. handle \in [Handle -> Slot \cup {Closed}]
  BY DEF IInv
<1> QED
  BY <1>2, <1>3, <1>4 DEF IInv, TypeOK, IsFs, TabEntry

\* IInv implies that an inode is in the table once, counted for each descriptor.
LEMMA GoodIsUnique ==
    ASSUME IInv
    PROVE  TableUnique
<1> SUFFICES ASSUME harm = {}
             PROVE  TableUnique
  BY DEF TableUnique
<1>1. TableOK(fs, Opens, Zero)
  BY DEF IInv, Good
<1>2. Unique(fs) /\ IsFs(fs) /\ \A s \in Slot : EntryOK(fs, Opens, Zero, s)
  BY <1>1 DEF TableOK
<1>3. \A s, t \in Slot : fs.table[s].num = fs.table[t].num /\ s # t => fs.table[s].num = 0
  BY <1>2 DEF Unique
<1>4. ASSUME NEW s \in Slot
      PROVE  fs.table[s].cnt >= Cardinality({h \in Handle : handle[h] = s})
  <2>1. Opens[s] = Cardinality({h \in Handle : handle[h] = s}) /\ Opens[s] \in Nat
    BY <1>1 DEF Opens, TableOK
  <2>2. fs.table[s].num # 0 => Zero[fs.table[s].num] = 0
    BY <1>2, ZeroIs, EntryIsTyped
  <2>3. fs.table[s].cnt \in Nat
    BY <1>2, EntryIsTyped
  <2>4. fs.table[s].cnt >= Opens[s] + (IF fs.table[s].num = 0 THEN 0 ELSE Zero[fs.table[s].num])
    BY <1>2 DEF EntryOK
  <2>5. fs.table[s].cnt >= Opens[s]
    BY <2>1, <2>2, <2>3, <2>4
  <2> QED
    BY <2>1, <2>5
<1> QED
  BY <1>3, <1>4 DEF TableUnique

\* In a tree every link count is right.
LEMMA CountsAre ==
    ASSUME InView, Tree(Disk(fs))
    PROVE  CountsRight
<1> DEFINE v == Disk(fs)
           c == [n \in DOMAIN v.cur |-> v.cur[n].nlinks]
<1>1. TreeOK(LiveIn(v), DirsIn(v), EntsIn(v), c)
  BY DEF Tree
<1>2. Live = LiveIn(v) /\ Dirs = DirsIn(v) /\ Entries = EntsIn(v)
      /\ \A n \in Live : Current(fs, n) = v.cur[n]
  BY DEF InView
<1>3. \A n \in LiveIn(v) : c[n] = v.cur[n].nlinks
  BY DEF LiveIn
<1> HIDE DEF v, c
<1>4. \A n \in Live : Current(fs, n).nlinks = Counted(Dirs, Entries, n)
  BY <1>1, <1>2, <1>3 DEF TreeOK
<1>5. ASSUME NEW n \in Live
      PROVE  LET to == {e \in Entries : e[3] = n}
             IN  Current(fs, n).nlinks =
                    IF n \notin Dirs THEN Cardinality(to)
                    ELSE Cardinality({e \in to : e[2] = DotDot})
                           + CASE n = Root -> 0 [] n = RootDir -> 1 [] OTHER -> 2
  <2> DEFINE to == {e \in Entries : e[3] = n}
             up == {e \in to : e[2] = DotDot}
             more == CASE n = Root -> 0 [] n = RootDir -> 1 [] OTHER -> 2
  <2>1. up = {e \in Entries : e[3] = n /\ e[2] = DotDot}
    OBVIOUS
  <2>2. more = Extra(n)
    BY DEF Extra, Root, RootDir
  <2>3. Current(fs, n).nlinks = Counted(Dirs, Entries, n)
    BY <1>4
  <2> HIDE DEF up, more
  <2>4. Current(fs, n).nlinks = IF n \notin Dirs THEN Cardinality(to) ELSE Cardinality(up) + more
    BY <2>1, <2>2, <2>3 DEF Counted
  <2> QED
    BY <2>4 DEF up, more
<1> QED
  BY Zenon, <1>5 DEF CountsRight

\* In a tree ".." is the parent.
LEMMA ParentsAre ==
    ASSUME InView, Tree(Disk(fs))
    PROVE  ParentsRight
<1> DEFINE v == Disk(fs)
           c == [n \in DOMAIN v.cur |-> v.cur[n].nlinks]
<1>1. TreeOK(LiveIn(v), DirsIn(v), EntsIn(v), c)
  BY DEF Tree
<1>2. Dirs = DirsIn(v) /\ Entries = EntsIn(v)
  BY DEF InView
<1> HIDE DEF v, c
<1>4. \A n \in Dirs \ {Root} : \E d \in Dirs : \E x \in Name \ Dotted :
         /\ <<n, DotDot, d>> \in Entries /\ <<d, x, n>> \in Entries
         /\ \A e \in Entries : e[3] = n /\ e[2] \notin Dotted => e = <<d, x, n>>
  <2>1. TreeOK(LiveIn(v), Dirs, Entries, c)
    BY <1>1, <1>2
  <2> QED
    BY ONLY Zenon, <2>1 DEF TreeOK
<1>3. ASSUME NEW n \in Dirs \ {Root}
      PROVE  \E d \in Dirs :
                /\ {e[3] : e \in {x \in Entries : x[1] = n /\ x[2] = DotDot}} = {d}
                /\ {e[1] : e \in {x \in Entries : x[3] = n /\ x[2] \notin {Dot, DotDot}}} = {d}
  <2>1. PICK d \in Dirs : \E x \in Name \ Dotted :
           /\ <<n, DotDot, d>> \in Entries /\ <<d, x, n>> \in Entries
           /\ \A e \in Entries : e[3] = n /\ e[2] \notin Dotted => e = <<d, x, n>>
    BY Zenon, <1>4
  <2>2. PICK x \in Name \ Dotted :
           /\ <<n, DotDot, d>> \in Entries /\ <<d, x, n>> \in Entries
           /\ \A e \in Entries : e[3] = n /\ e[2] \notin Dotted => e = <<d, x, n>>
    BY <2>1
  <2>3. \A e, u \in Entries : e[1] = u[1] /\ e[2] = u[2] => e = u
    BY <1>1, <1>2 DEF TreeOK
  <2> DEFINE up == {e \in Entries : e[1] = n /\ e[2] = DotDot}
             down == {e \in Entries : e[3] = n /\ e[2] \notin {Dot, DotDot}}
  <2>4. up = {<<n, DotDot, d>>}
    BY <2>2, <2>3
  <2>5. down = {<<d, x, n>>}
    BY <2>2 DEF Dotted
  <2> HIDE DEF up, down
  <2>6. {e[3] : e \in up} = {d} /\ {e[1] : e \in down} = {d}
    BY <2>4, <2>5
  <2> QED
    BY <2>6 DEF up, down
<1> QED
  BY <1>3 DEF ParentsRight

\* Good directories own their blocks.
LEMMA BlocksOwned ==
    ASSUME InView, DiskOK(Disk(fs))
    PROVE  DirBlocksOwned
<1> DEFINE v == Disk(fs)
<1>1. Dirs = DirsIn(v) /\ v.zmap = fs.zmap
  BY DEF InView, Disk
<1>2. \A n \in Dirs : BlocksOf(n) = {BlockIn(v, n, k) : k \in FileBlk} \ {0}
  BY DEF InView
<1>3. /\ \A n \in Dirs : DirOK(v, n)
      /\ \A n, m \in Dirs : n # m => HeldBy(v, n) \cap HeldBy(v, m) = {}
  BY <1>1 DEF DiskOK
<1> HIDE DEF v
<1>4. ASSUME NEW n \in Dirs
      PROVE  BlocksOf(n) \subseteq HeldBy(v, n) /\ BlocksOf(n) # {}
  <2>1. Mapped(v, v.cur[n].zone) /\ Shape(v, n)
    BY <1>3 DEF DirOK
  <2>2. BlocksOf(n) \subseteq HeldBy(v, n)
    BY <1>2, <2>1, BlockIsHeld
  <2>3. 0 \in FileBlk /\ BlockIn(v, n, 0) # 0
    BY <2>1, FirstPlaces DEF Shape
  <2>4. BlockIn(v, n, 0) \in BlocksOf(n)
    BY <1>2, <2>3
  <2> QED
    BY <2>2, <2>4
<1>5. ASSUME NEW n \in Dirs, NEW b \in BlocksOf(n)
      PROVE  b - 1 \in fs.zmap
  BY <1>1, <1>3, <1>4, <1>5 DEF DirOK, Marks
<1>6. FreedNotUsed
  BY <1>5 DEF FreedNotUsed
<1>7. \A n \in Dirs : \A m \in Dirs \ {n} : BlocksOf(n) \cap BlocksOf(m) = {}
  BY <1>3, <1>4
<1> QED
  BY <1>4, <1>6, <1>7 DEF DirBlocksOwned

-----------------------------------------------------------------------------
(* The theorems. *)

\* What IInv says of FS while it runs, and when it stops.
LEMMA GoodIsServed ==
    ASSUME IInv
    PROVE  /\ StopsOnlyFull
           /\ Sound => Fine(fs, OpensOf(handle), Zero) /\ InView
           /\ LinkCounts /\ DotDotIsParent /\ DirBlocksOwned
<1>1. harm = {} => Good(fs, OpensOf(handle), Zero)
  BY OpensAre DEF IInv
<1>2. StopsOnlyFull
  BY Zenon, <1>1 DEF Good, StopsOnlyFull, AllCounted, NoEntry, Searching
<1>3. ASSUME Sound
      PROVE  /\ Fine(fs, OpensOf(handle), Zero) /\ InView
             /\ CountsRight /\ ParentsRight /\ DirBlocksOwned
  <2>1. Fine(fs, OpensOf(handle), Zero)
    BY <1>1, <1>3, FineIsGood DEF Sound
  <2>2. InView /\ DiskOK(Disk(fs)) /\ Tree(Disk(fs))
    BY <2>1, ViewIs DEF Fine
  <2> QED
    BY <2>1, <2>2, CountsAre, ParentsAre, BlocksOwned
<1>4. harm = {} /\ fs.status # "ok" => CountsRight /\ ParentsRight
  BY Zenon DEF CountsRight, ParentsRight
<1>5. LinkCounts /\ DotDotIsParent
  BY Zenon, <1>3, <1>4 DEF Sound, LinkCounts, DotDotIsParent
<1>6. DirBlocksOwned
  BY Zenon, <1>3 DEF DirBlocksOwned
<1> QED
  BY <1>2, <1>3, <1>5, <1>6

\* IInv holds of every state (namei.c, inode.c): until a call does harm, each part of the
\* table and the disk is as it should be, or FS searches an entry for ever.
THEOREM NamesHold == Spec => []IInv
<1>1. Init => IInv
  BY InitIs
<1>2. IInv /\ [Next]_vars => IInv'
  BY IInvKept
<1> QED
  BY <1>1, <1>2, PTL DEF Spec

(* The types of the state, whatever becomes of FS.                          *)
THEOREM NamesTyped == Spec => []TypeOK
<1>1. IInv => TypeOK
  BY GoodIsTyped
<1> QED
  BY <1>1, NamesHold, PTL

\* An inode is in the table at most once, and its entry is counted at least as often
\* as descriptors are open on it (inode.c, open.c): no entry of an open descriptor is reused.
THEOREM NamesUnique == Spec => []TableUnique
<1>1. IInv => TableUnique
  BY GoodIsUnique
<1> QED
  BY <1>1, NamesHold, PTL

\* An inode has as many links as names and, if it is a directory, sub-directories
\* (namei.c), until a count gets to NrLinks or other harm is done: rmdir meets no wrong count.
THEOREM LinksCounted == Spec => []LinkCounts
<1>1. IInv => LinkCounts
  BY GoodIsServed
<1> QED
  BY <1>1, NamesHold, PTL

\* ".." of every directory names the one directory that names it (namei.c).
THEOREM ParentsNamed == Spec => []DotDotIsParent
<1>1. IInv => DotDotIsParent
  BY GoodIsServed
<1> QED
  BY <1>1, NamesHold, PTL

\* Each directory has blocks, marked in the zone map, which no other directory has
\* (bitmap.c, inode.c).
THEOREM DirBlocksKept == Spec => []DirBlocksOwned
<1>1. IInv => DirBlocksOwned
  BY GoodIsServed
<1> QED
  BY <1>1, NamesHold, PTL

\* FS never ends in crash(), and it searches an entry for ever only when all of them are
\* counted (inode.c:17).
THEOREM OnlyFullStops == Spec => []StopsOnlyFull
<1>1. IInv => StopsOnlyFull
  BY GoodIsServed
<1> QED
  BY <1>1, NamesHold, PTL

-----------------------------------------------------------------------------
(* The refinement. *)

\* The root directories are the first tree.
LEMMA TreeStarts ==
    ASSUME Init
    PROVE  T!Init
<1>1. IInv /\ fs.status = "ok" /\ RootsOn(Disk(fs))
  BY InitIs
<1>2. InView
  BY <1>1, GoodIsServed DEF Sound, Init
<1>3. DirsIn(Disk(fs)) = {Root, RootDir} /\ Plain(EntsIn(Disk(fs))) = {<<Root, Slash, RootDir>>}
  BY <1>1, RootsAre
<1>4. Dirs = {Root, RootDir} /\ Names = {<<Root, Slash, RootDir>>}
  BY <1>2, <1>3 DEF InView
<1>5. Slash \in Name
  BY NamesAssumption
<1> QED
  BY <1>4, <1>5 DEF T!Init

\* A call is a step of the tree.
LEMMA MovesAre ==
    ASSUME Moves(Dirs, Names, Dirs', Names')
    PROVE  [T!Next]_T!vars
<1>1. CASE Dirs' = Dirs /\ Names' = Names
  BY <1>1 DEF T!vars
<1>2. ASSUME NEW t \in Names' \ Names, Names2(Dirs, Names, Names', t),
             \/ t[3] \notin Dirs /\ (\A u \in Names : u[3] # t[3]) /\ Dirs' \in {Dirs, Dirs \cup {t[3]}}
             \/ t[3] \notin Dirs /\ (\E u \in Names : u[3] = t[3]) /\ Dirs' = Dirs
      PROVE  T!Next
  <2>1. T!NewName(t)
    BY <1>2 DEF T!NewName, Names2
  <2>2. T!MakeDir(t) \/ T!AddFile(t) \/ T!Link(t)
    BY <1>2, <2>1 DEF T!MakeDir, T!AddFile, T!Link, T!Fresh
  <2> QED
    BY <2>2 DEF T!Next
<1>3. ASSUME NEW t \in Names \ Names', Names' = Names \ {t},
             \/ t[3] \notin Dirs /\ Dirs' = Dirs
             \/ /\ t[3] \in Dirs \ {Root, RootDir} /\ (\A u \in Names : u[1] # t[3])
                /\ Dirs' = Dirs \ {t[3]}
      PROVE  T!Next
  <2>1. T!Unlink(t) \/ T!RemoveDir(t)
    BY <1>3 DEF T!Unlink, T!RemoveDir
  <2> QED
    BY <2>1 DEF T!Next
<1> QED
  BY <1>1, <1>2, <1>3 DEF Moves

\* Harm that is done stays done, and FS that has stopped takes no call.
LEMMA SoundBefore ==
    ASSUME [Next]_vars, Sound'
    PROVE  Sound
<1>1. CASE Next
  BY <1>1, OnlyRunning DEF Sound, Harming
<1>2. CASE UNCHANGED vars
  BY <1>2 DEF Sound, vars
<1> QED
  BY <1>1, <1>2

\* Every call that leaves the tree as it should be is a step of Tree or none.
LEMMA TreeMoves ==
    ASSUME IInv, Sound, InView, InView', Sound', [Next]_vars
    PROVE  [UNCHANGED T!vars \/ T!Next]_vars
<1>1. CASE Next
  <2>1. handle \in [Handle -> Slot \cup {Closed}] /\ Fine(fs, OpensOf(handle), Zero)
    BY GoodIsServed DEF IInv, Sound
  <2>2. harm' = {} /\ fs'.status = "ok"
    BY DEF Sound
  <2>3. Answered
    BY <1>1, <2>1, <2>2, StepIs
  <2>4. Leads(Disk(fs), Disk(fs'))
    BY <2>2, <2>3 DEF Answered, Done, Ended, NoEntry
  <2>5. /\ Dirs = DirsIn(Disk(fs)) /\ Names = Plain(EntsIn(Disk(fs)))
        /\ Dirs' = DirsIn(Disk(fs')) /\ Names' = Plain(EntsIn(Disk(fs')))
    BY DEF InView
  <2>6. Moves(Dirs, Names, Dirs', Names')
    BY <2>4, <2>5 DEF Leads
  <2> QED
    BY <2>6, MovesAre
<1>2. CASE UNCHANGED vars
  BY <1>2
<1> QED
  BY <1>1, <1>2

\* Every call does to the tree of names what Tree says, or nothing, until harm is done or
\* FS stops.
THEOREM TreeKept == Spec => ImplementsTree
<1>1. Init => T!Init
  BY TreeStarts
<1>2. IInv /\ Sound => InView
  BY GoodIsServed
<1>3. [Next]_vars /\ Sound' => Sound
  BY SoundBefore
<1>4. IInv /\ Sound /\ InView /\ InView' /\ Sound' /\ [Next]_vars
         => [Sound' => UNCHANGED T!vars \/ T!Next]_vars
  BY TreeMoves
<1>5. ~Sound' => [Sound' => UNCHANGED T!vars \/ T!Next]_vars
  OBVIOUS
<1> QED
  BY <1>1, <1>2, <1>3, <1>4, <1>5, NamesHold, PTL DEF Spec, ImplementsTree
=============================================================================
