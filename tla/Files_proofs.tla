---------------------------- MODULE Files_proofs -----------------------------
(***************************************************************************)
(* Theorems about Files, for any number of processes, descriptors, entries  *)
(* of file_table and of the inode table, any disk and any size of a block.  *)
(*                                                                         *)
(* First the descriptors alone, whatever happens to inodes and blocks; then *)
(* inodes and blocks, with what Inodes_proofs says of the calls on them.     *)
(***************************************************************************)
EXTENDS Files, Inodes_proofs, FiniteSetTheorems, SequenceTheorems, TLAPS

(* What the steps need of the types. *)
FilpOK == filp \in [Proc -> [Filp -> OpenFile \cup {None}]]
FileOK ==
    /\ DOMAIN files = OpenFile
    /\ \A i \in OpenFile : files[i].cnt \in {0, 1}
    /\ \A i \in OpenFile : DOMAIN files[i] = {"cnt", "append", "inode", "pos"}

IInv == FilpOK /\ FileOK /\ DescriptorsOwn

-----------------------------------------------------------------------------
(* No number of an entry is None. *)
LEMMA NoneIsNoEntry == None \notin OpenFile /\ \A i \in OpenFile : i \in Int
BY FilesAssumption DEF None, OpenFile

(* Descriptor d of p now leads to x. *)
Leads(p, d, x) ==
    /\ filp'[p][d] = x
    /\ \A q \in Proc : \A e \in Filp : (q # p \/ e # d) => filp'[q][e] = filp[q][e]

(* The count of entry i is now n. *)
Counts1(i, n) ==
    /\ files'[i].cnt = n
    /\ \A j \in OpenFile : j # i => files'[j].cnt = files[j].cnt

(* Assigning to one descriptor keeps the others. *)
LEMMA FilpSet ==
    ASSUME FilpOK, NEW p \in Proc, NEW d \in Filp, NEW x \in OpenFile \cup {None},
           filp' = [filp EXCEPT ![p][d] = x]
    PROVE  FilpOK' /\ Leads(p, d, x)
<1> DEFINE row == [filp[p] EXCEPT ![d] = x]
<1>1. /\ row \in [Filp -> OpenFile \cup {None}] /\ row[d] = x
      /\ \A e \in Filp : e # d => row[e] = filp[p][e]
  BY DEF FilpOK
<1>2. filp' = [filp EXCEPT ![p] = row]
  OBVIOUS
<1> HIDE DEF row
<1>3. /\ filp' \in [Proc -> [Filp -> OpenFile \cup {None}]] /\ filp'[p] = row
      /\ \A q \in Proc : q # p => filp'[q] = filp[q]
  BY <1>1, <1>2 DEF FilpOK
<1>4. Leads(p, d, x)
  BY <1>1, <1>3 DEF Leads
<1> QED
  BY <1>3, <1>4 DEF FilpOK

(* Assigning to one entry keeps the others. *)
LEMMA FileSet ==
    ASSUME FileOK, NEW i \in OpenFile, NEW x,
           DOMAIN x = {"cnt", "append", "inode", "pos"}, x.cnt \in {0, 1},
           files' = [files EXCEPT ![i] = x]
    PROVE  FileOK' /\ Counts1(i, x.cnt)
<1>1. DOMAIN files' = OpenFile /\ files'[i] = x /\ \A j \in OpenFile : j # i => files'[j] = files[j]
  BY DEF FileOK
<1>2. Counts1(i, x.cnt)
  BY <1>1 DEF Counts1
<1>3. \A j \in OpenFile : files'[j].cnt \in {0, 1}
  BY <1>1 DEF FileOK
<1>4. \A j \in OpenFile : DOMAIN files'[j] = {"cnt", "append", "inode", "pos"}
  BY <1>1 DEF FileOK
<1> QED
  BY <1>1, <1>2, <1>3, <1>4 DEF FileOK

(* Moving the position of an entry counts nothing. *)
LEMMA PosSet ==
    ASSUME IInv, NEW i \in OpenFile, NEW x,
           files' = [files EXCEPT ![i].pos = x], UNCHANGED filp
    PROVE  IInv'
<1> DEFINE r == [files[i] EXCEPT !.pos = x]
<1>1. DOMAIN r = {"cnt", "append", "inode", "pos"} /\ r.cnt = files[i].cnt /\ r.cnt \in {0, 1}
  BY DEF IInv, FileOK
<1>2. files' = [files EXCEPT ![i] = r]
  OBVIOUS
<1> HIDE DEF r
<1>3. FileOK' /\ Counts1(i, r.cnt)
  BY <1>1, <1>2, FileSet DEF IInv
<1>4. \A j \in OpenFile : files'[j].cnt = files[j].cnt
  BY <1>1, <1>3 DEF Counts1
<1>5. FilpOK'
  BY DEF IInv, FilpOK
<1>6. DescriptorsOwn'
  BY <1>4 DEF IInv, FilpOK, DescriptorsOwn
<1> QED
  BY <1>3, <1>5, <1>6 DEF IInv

-----------------------------------------------------------------------------
(* All descriptors and entries are free at first. *)
LEMMA InitIInv == Init => IInv
<1> SUFFICES ASSUME Init PROVE IInv
  OBVIOUS
<1>1. \A p \in Proc, d \in Filp : filp[p][d] = None
  BY DEF Init
<1>2. \A i \in OpenFile : files[i] = FreeFile
  BY DEF Init
<1>3. FilpOK
  BY <1>1 DEF Init, FilpOK
<1>4. FileOK
  BY <1>2 DEF Init, FileOK, FreeFile
<1>5. DescriptorsOwn
  BY <1>1, <1>2 DEF DescriptorsOwn, FreeFile
<1> QED
  BY <1>3, <1>4, <1>5 DEF IInv

(* do_open joins a free descriptor to a free entry. *)
LEMMA OpenIInv ==
    ASSUME IInv, NEW p \in Proc, NEW trunc, NEW append, Open(p, trunc, append)
    PROVE  IInv'
<1>1. PICK d \in Filp, i \in OpenFile :
        /\ FirstFilp(p, d) /\ FirstFile(i)
        /\ filp' = [filp EXCEPT ![p][d] = i]
        /\ files' = [files EXCEPT ![i] = [cnt |-> 1, append |-> append, pos |-> 0,
                                          inode |-> Entry(Opened(trunc), FileNr)]]
  BY DEF Open
<1> DEFINE x == [cnt |-> 1, append |-> append, pos |-> 0,
                 inode |-> Entry(Opened(trunc), FileNr)]
<1>2. filp[p][d] = None /\ files[i].cnt = 0
  BY <1>1 DEF FirstFilp, FirstFile
<1>3. FilpOK' /\ Leads(p, d, i)
  BY <1>1, FilpSet DEF IInv
<1>4. DOMAIN x = {"cnt", "append", "inode", "pos"} /\ x.cnt = 1 /\ files' = [files EXCEPT ![i] = x]
  BY <1>1
<1> HIDE DEF x
<1>5. FileOK' /\ Counts1(i, 1)
  BY <1>4, FileSet DEF IInv
<1>6. \A q \in Proc, e \in Filp : filp[q][e] # i
  BY <1>2, NoneIsNoEntry DEF IInv, DescriptorsOwn
<1>7. ASSUME NEW q \in Proc, NEW e \in Filp, filp'[q][e] # None
      PROVE  files'[filp'[q][e]].cnt = 1
  BY <1>3, <1>5, <1>7, <1>6 DEF IInv, DescriptorsOwn, Leads, Counts1, FilpOK
<1>8. ASSUME NEW j \in OpenFile, files'[j].cnt # 0
      PROVE  \E q \in Proc, e \in Filp : filp'[q][e] = j
  <2>1. CASE j = i
    BY <1>3, <2>1 DEF Leads
  <2>2. CASE j # i
    <3>1. PICK q \in Proc, e \in Filp : filp[q][e] = j
      BY <1>5, <1>8, <2>2 DEF IInv, DescriptorsOwn, Counts1
    <3>2. q # p \/ e # d
      BY <1>2, <3>1, NoneIsNoEntry
    <3> QED
      BY <1>3, <3>1, <3>2 DEF Leads
  <2> QED
    BY <2>1, <2>2
<1>9. ASSUME NEW q \in Proc, NEW r \in Proc, NEW e \in Filp, NEW c \in Filp,
             filp'[q][e] # None, filp'[q][e] = filp'[r][c]
      PROVE  q = r /\ e = c
  BY <1>3, <1>6, <1>9 DEF IInv, DescriptorsOwn, Leads
<1>10. DescriptorsOwn'
  BY <1>7, <1>8, <1>9 DEF DescriptorsOwn
<1> QED
  BY <1>3, <1>5, <1>10 DEF IInv

(* do_close frees the entry with its only descriptor. *)
LEMMA CloseIInv ==
    ASSUME IInv, NEW p \in Proc, NEW d \in Filp, Close(p, d)
    PROVE  IInv'
<1> DEFINE i == filp[p][d]
<1>1. i \in OpenFile /\ i # None /\ files[i].cnt = 1
  <2>1. i # None
    BY DEF Close
  <2> QED
    BY <2>1 DEF IInv, FilpOK, DescriptorsOwn
<1>2. filp' = [filp EXCEPT ![p][d] = None]
  BY DEF Close
<1>3. files' = [files EXCEPT ![i] = FreeFile]
  <2>1. files' = [files EXCEPT ![i] = IF files[i].cnt - 1 > 0
                                      THEN [files[i] EXCEPT !.cnt = files[i].cnt - 1]
                                      ELSE FreeFile]
    BY DEF Close
  <2> QED
    BY <1>1, <2>1
<1>4. FilpOK' /\ Leads(p, d, None)
  BY <1>2, FilpSet DEF IInv
<1> HIDE DEF i
<1>5. FileOK' /\ Counts1(i, 0)
  <2>1. DOMAIN FreeFile = {"cnt", "append", "inode", "pos"} /\ FreeFile.cnt = 0
    BY DEF FreeFile
  <2> QED
    BY <1>1, <1>3, <2>1, FileSet DEF IInv
<1>6. \A q \in Proc, e \in Filp : q # p \/ e # d => filp[q][e] # i
  BY <1>1 DEF i, IInv, DescriptorsOwn
<1>7. ASSUME NEW q \in Proc, NEW e \in Filp, filp'[q][e] # None
      PROVE  files'[filp'[q][e]].cnt = 1
  <2>1. (q # p \/ e # d) /\ filp'[q][e] = filp[q][e]
    BY <1>4, <1>7 DEF Leads
  <2>2. filp[q][e] \in OpenFile /\ filp[q][e] # i /\ files[filp[q][e]].cnt = 1
    BY <1>6, <1>7, <2>1 DEF IInv, FilpOK, DescriptorsOwn
  <2> QED
    BY <1>5, <2>1, <2>2 DEF Counts1
<1>8. ASSUME NEW j \in OpenFile, files'[j].cnt # 0
      PROVE  \E q \in Proc, e \in Filp : filp'[q][e] = j
  <2>1. j # i /\ files[j].cnt # 0
    BY <1>5, <1>8 DEF Counts1
  <2>2. PICK q \in Proc, e \in Filp : filp[q][e] = j
    BY <2>1 DEF IInv, DescriptorsOwn
  <2> QED
    BY <1>4, <2>1, <2>2 DEF i, Leads
<1>9. ASSUME NEW q \in Proc, NEW r \in Proc, NEW e \in Filp, NEW c \in Filp,
             filp'[q][e] # None, filp'[q][e] = filp'[r][c]
      PROVE  q = r /\ e = c
  BY <1>4, <1>9 DEF IInv, DescriptorsOwn, Leads
<1> QED
  BY <1>4, <1>5, <1>7, <1>8, <1>9 DEF IInv, DescriptorsOwn

(* The other calls move at most one position. *)
LEMMA NextIInv == IInv /\ [Next]_vars => IInv'
<1> SUFFICES ASSUME IInv, [Next]_vars PROVE IInv'
  OBVIOUS
<1>1. ASSUME UNCHANGED <<filp, files>> PROVE IInv'
  BY <1>1 DEF IInv, FilpOK, FileOK, DescriptorsOwn
<1>2. ASSUME NEW p \in Proc, NEW d \in Filp, filp[p][d] # None
      PROVE  filp[p][d] \in OpenFile
  BY <1>2 DEF IInv, FilpOK
<1>3. ASSUME NEW p \in Proc, NEW d \in Filp, NEW k \in Seeks, Seek(p, d, k[1], k[2])
      PROVE  IInv'
  BY <1>1, <1>2, <1>3, PosSet DEF Seek
<1>4. ASSUME NEW p \in Proc, NEW d \in Filp, NEW n \in Counts, Read(p, d, n)
      PROVE  IInv'
  <2>1. \/ UNCHANGED <<filp, files>>
        \/ UNCHANGED filp /\ \E x : files' = [files EXCEPT ![filp[p][d]].pos = x]
    BY <1>4 DEF Read
  <2> QED
    BY <1>1, <1>2, <1>4, <2>1, PosSet DEF Read
<1>5. ASSUME NEW p \in Proc, NEW d \in Filp, NEW n \in Counts, NEW c \in Byte,
             Write(p, d, n, c)
      PROVE  IInv'
  <2>1. \E x : files' = [files EXCEPT ![filp[p][d]].pos = x]
    BY <1>5 DEF Write
  <2> QED
    BY <1>2, <1>5, <2>1, PosSet DEF Write
<1>6. OpenFails \/ Elsewhere \/ Sync \/ UNCHANGED vars => IInv'
  BY <1>1 DEF OpenFails, Elsewhere, Sync, vars
<1> QED
  BY <1>3, <1>4, <1>5, <1>6, OpenIInv, CloseIInv DEF Next

(* do_open and do_close keep descriptors and the counts of file_table in     *)
(* step, for any number of processes (open.c:14-40, 61-74): no descriptor    *)
(* shares its position, and do_close never finds the count 0.                *)
THEOREM DescriptorsNeverShared == Spec => []DescriptorsOwn
<1>1. IInv => DescriptorsOwn
  BY DEF IInv
<1> QED
  BY <1>1, InitIInv, NextIInv, PTL DEF Spec
-----------------------------------------------------------------------------
(* The inode table while one file is used: the entry of the file is counted  *)
(* once for each entry of file_table, and when nobody uses it, it is clean.   *)
(* No other inode is used or dirty between two calls.                        *)

SlotOK(f, e) ==
    /\ e.num \in {0, FileNr, OtherNr}
    /\ e.num # FileNr => e.cnt = 0 /\ ~e.dirt
    /\ e.num # 0 => e.node.nlinks = 1
    /\ e.num = FileNr => e.node.mode = "reg"
    /\ e.num = FileNr /\ e.cnt = 0 => ~e.dirt

OneFileTable(f) ==
    /\ IsFs(f) /\ Unique(f) /\ f.pinned = {}
    /\ \A s \in Slot : SlotOK(f, f.table[s])
    /\ f.dev[FileNr].nlinks = 1 /\ f.dev[FileNr].mode = "reg"
    /\ f.dev[OtherNr].nlinks = 1

Cur(f) == Current(f, FileNr)

DataOK(f) ==
    /\ Owns(f, Cur(f).zone)
    /\ \A k \in FileBlk, o \in Nat : Data(f, Cur(f).zone, k, o) \in Byte \cup {0}

\* Nothing lies behind the end of the file, and the end lies in a block it can have.
SizeOK(f) ==
    /\ \A q \in Nat : q < Cur(f).size => q \div BlkSize \in FileBlk
    /\ \A q \in Nat : q >= Cur(f).size /\ q \div BlkSize \in FileBlk
                         => ByteAt(f, Cur(f).zone, q) = 0

\* The two files are inodes of the device.
LEMMA Numbers ==
    /\ FileNr \in Inr /\ OtherNr \in Inr /\ FileNr # OtherNr
    /\ FileNr # 0 /\ OtherNr # 0
BY FilesAssumption, InodesAssumption DEF Inr

\* The file is what its entry has, or the device.
LEMMA CurrentIs ==
    ASSUME NEW f, Unique(f)
    PROVE  /\ \A s \in Slot : f.table[s].num = FileNr => /\ Cur(f) = f.table[s].node
                                                         /\ Has(f, FileNr)
                                                         /\ Entry(f, FileNr) = s
           /\ (\A s \in Slot : f.table[s].num # FileNr)
                 => Cur(f) = f.dev[FileNr] /\ ~Has(f, FileNr)
<1>1. ASSUME NEW s \in Slot, f.table[s].num = FileNr
      PROVE  Cur(f) = f.table[s].node /\ Has(f, FileNr) /\ Entry(f, FileNr) = s
  BY <1>1, EntryIs, Numbers DEF Cur
<1>2. ASSUME \A s \in Slot : f.table[s].num # FileNr
      PROVE  Cur(f) = f.dev[FileNr] /\ ~Has(f, FileNr)
  BY <1>2, EntryIsNot DEF Cur
<1> QED
  BY <1>1, <1>2

\* Where the file is, it is an inode.
LEMMA CurIsNode ==
    ASSUME NEW f, OneFileTable(f)
    PROVE  Cur(f) \in Node
<1>1. CASE \E s \in Slot : f.table[s].num = FileNr
  <2>1. PICK s \in Slot : f.table[s].num = FileNr
    BY <1>1
  <2>2. Cur(f) = f.table[s].node
    BY <2>1, CurrentIs DEF OneFileTable
  <2> QED
    BY <2>2 DEF OneFileTable, IsFs, TabEntry
<1>2. CASE \A s \in Slot : f.table[s].num # FileNr
  <2>1. Cur(f) = f.dev[FileNr]
    BY <1>2, CurrentIs DEF OneFileTable
  <2> QED
    BY <2>1, Numbers DEF OneFileTable, IsFs
<1> QED
  BY <1>1, <1>2

\* Of two entries one is not the file's: an entry is always spare.
LEMMA SpareExists ==
    ASSUME NEW f, OneFileTable(f)
    PROVE  Spare(f) # {}
<1>1. 0 \in Slot /\ 1 \in Slot
  BY InodesAssumption DEF Slot
<1>2. f.table[0].num # FileNr \/ f.table[1].num # FileNr
  <2>1. SUFFICES ASSUME f.table[0].num = FileNr, f.table[1].num = FileNr PROVE FALSE
    OBVIOUS
  <2> QED
    BY <1>1, <2>1, Numbers DEF OneFileTable, Unique
<1>3. 0 \in Spare(f) \/ 1 \in Spare(f)
  BY <1>1, <1>2 DEF OneFileTable, SlotOK, Spare
<1> QED
  BY <1>3

\* The same file in the same blocks.
SameFile(f, g) == Cur(g) = Cur(f) /\ g.body = f.body /\ g.zmap = f.zmap

\* The same file has the same data.
LEMMA SameFileKeeps ==
    ASSUME NEW f, NEW g, SameFile(f, g)
    PROVE  /\ DataOK(f) => DataOK(g)
           /\ \A k, o : Data(g, Cur(g).zone, k, o) = Data(f, Cur(f).zone, k, o)
BY SameBlocks DEF SameFile, DataOK

\* An entry is changed.
LEMMA SlotSet ==
    ASSUME NEW f, OneFileTable(f), NEW s \in Slot, NEW e, SlotOK(f, e), NEW g, Sets(f, g, s, e),
           Unique(g)
    PROVE  OneFileTable(g)
<1>1. \A t \in Slot : SlotOK(f, g.table[t])
  BY DEF OneFileTable, Sets
<1>2. \A t \in Slot : SlotOK(g, g.table[t])
  BY <1>1 DEF SlotOK, Sets
<1> QED
  BY <1>2 DEF OneFileTable, Sets
-----------------------------------------------------------------------------
(* The calls on inodes, as this file makes them. *)

\* iget of the file counts its entry, or reads it from the device.
LEMMA GetsFile ==
    ASSUME NEW f, OneFileTable(f), f.status = "ok"
    PROVE  LET g == Iget(f, FileNr)
               s == Entry(g, FileNr)
           IN  /\ OneFileTable(g) /\ SameFile(f, g) /\ g.status = "ok"
               /\ s \in Slot /\ g.table[s].num = FileNr /\ g.table[s].cnt \in Nat \ {0}
               /\ f.table[s].num = FileNr => g.table[s].cnt = f.table[s].cnt + 1
               /\ f.table[s].num # FileNr => ~Has(f, FileNr) /\ g.table[s].cnt = 1
<1> DEFINE g == Iget(f, FileNr)
           s == Entry(g, FileNr)
           e == f.table[s]
<1>1. /\ IsFs(f) /\ Unique(f) /\ Spare(f) # {} /\ FileNr \in Inr /\ FileNr # 0
      /\ FileNr # OtherNr
  BY SpareExists, Numbers DEF OneFileTable
<1>2. /\ s \in Slot /\ g.table[s].num = FileNr /\ Unique(g)
      /\ Sets(f, g, s, g.table[s])
      /\ \/ /\ e.num = FileNr
            /\ g.table[s] = [num |-> FileNr, cnt |-> e.cnt + 1, dirt |-> e.dirt, node |-> e.node]
         \/ /\ ~Has(f, FileNr) /\ e.cnt = 0 /\ ~e.dirt
            /\ g.table[s] = [num |-> FileNr, cnt |-> 1, dirt |-> FALSE, node |-> f.dev[FileNr]]
  BY <1>1, IgetFinds
<1> HIDE DEF g, s
<1>3. e \in TabEntry /\ SlotOK(f, e)
  BY <1>2 DEF OneFileTable, IsFs
<1>4. e.cnt \in Nat
  BY <1>3 DEF TabEntry
<1>5. Has(f, FileNr) <=> e.num = FileNr
  BY <1>1, <1>2, EntryIsNot DEF Has
<1>6. Cur(g) = g.table[s].node
  BY <1>2, CurrentIs
<1>7. CASE e.num = FileNr
  <2>1. g.table[s] = [num |-> FileNr, cnt |-> e.cnt + 1, dirt |-> e.dirt, node |-> e.node]
    BY <1>2, <1>5, <1>7
  <2>2. SlotOK(f, g.table[s])
    BY <1>1, <1>3, <1>4, <1>7, <2>1 DEF SlotOK
  <2>3. Cur(f) = e.node
    BY <1>1, <1>2, <1>7, CurrentIs
  <2>4. OneFileTable(g)
    BY <1>2, <2>2, SlotSet
  <2>5. SameFile(f, g) /\ g.status = "ok"
    BY <1>2, <1>6, <2>1, <2>3 DEF SameFile, Sets
  <2>6. g.table[s].cnt = e.cnt + 1
    BY <2>1
  <2> QED
    BY <1>2, <1>4, <1>7, <2>4, <2>5, <2>6 DEF g, s
<1>8. CASE e.num # FileNr
  <2>1. g.table[s] = [num |-> FileNr, cnt |-> 1, dirt |-> FALSE, node |-> f.dev[FileNr]]
    BY <1>2, <1>8
  <2>2. SlotOK(f, g.table[s])
    BY <1>1, <2>1 DEF OneFileTable, SlotOK
  <2>3. Cur(f) = f.dev[FileNr] /\ ~Has(f, FileNr)
    <3>1. \A t \in Slot : f.table[t].num # FileNr
      BY <1>5, <1>8 DEF Has
    <3> QED
      BY <1>1, <3>1, CurrentIs
  <2>4. OneFileTable(g)
    BY <1>2, <2>2, SlotSet
  <2>5. SameFile(f, g) /\ g.status = "ok"
    BY <1>2, <1>6, <2>1, <2>3 DEF SameFile, Sets
  <2>6. g.table[s].cnt = 1
    BY <2>1
  <2> QED
    BY <1>2, <1>8, <2>3, <2>4, <2>5, <2>6 DEF g, s
<1> QED
  BY <1>7, <1>8

\* iput of the file, by one who has it open.
LEMMA PutsFile ==
    ASSUME NEW f, OneFileTable(f), NEW s \in Slot, f.table[s].num = FileNr, f.table[s].cnt > 0
    PROVE  LET g == Iput(f, s)
           IN  /\ OneFileTable(g) /\ SameFile(f, g) /\ g.status = f.status
               /\ \A t \in Slot : g.table[t].num = f.table[t].num
               /\ g.table[s].cnt = f.table[s].cnt - 1
<1> DEFINE g == Iput(f, s)
           e == f.table[s]
           e1 == [num |-> e.num, cnt |-> e.cnt - 1, dirt |-> FALSE, node |-> e.node]
<1>1. /\ IsFs(f) /\ Unique(f) /\ SlotOK(f, e) /\ e \in TabEntry /\ e.num = FileNr
      /\ FileNr \in Inr /\ OtherNr \in Inr /\ FileNr # OtherNr /\ FileNr # 0
  BY Numbers DEF OneFileTable, IsFs
<1>2. e.node.nlinks = 1 /\ e.node.mode = "reg"
  BY <1>1 DEF SlotOK
<1>3. /\ IsFs(g)
      /\ g.imap = f.imap /\ g.zmap = f.zmap /\ g.body = f.body
      /\ g.pinned = f.pinned /\ g.status = f.status
      /\ \A t \in Slot \ {s} : g.table[t] = f.table[t]
      /\ g.table[s] = e1
      /\ g.dev = IF e.dirt THEN [f.dev EXCEPT ![e.num] = e.node] ELSE f.dev
  BY <1>1, <1>2, IputKeeps
<1>4. /\ e1.num = FileNr /\ e1.cnt = e.cnt - 1 /\ ~e1.dirt /\ e1.node = e.node
  BY <1>1
<1> HIDE DEF g, e1
<1>5. g.dev[FileNr] \in {e.node, f.dev[FileNr]} /\ g.dev[OtherNr] = f.dev[OtherNr]
  BY <1>1, <1>3 DEF IsFs
<1>6. \A t \in Slot : g.table[t].num = f.table[t].num
  BY <1>1, <1>3, <1>4
<1>7. Unique(g)
  BY <1>1, <1>6 DEF Unique
<1>8. \A t \in Slot : SlotOK(g, g.table[t])
  <2> TAKE t \in Slot
  <2>1. CASE t = s
    BY <1>1, <1>2, <1>3, <1>4, <1>5, <2>1 DEF SlotOK
  <2>2. CASE t # s
    <3>1. g.table[t] = f.table[t] /\ f.table[t].num # FileNr
      BY <1>1, <1>3, <2>2 DEF Unique
    <3> QED
      BY <3>1 DEF OneFileTable, SlotOK
  <2> QED
    BY <2>1, <2>2
<1>9. OneFileTable(g)
  BY <1>2, <1>3, <1>5, <1>7, <1>8 DEF OneFileTable
<1>10. Cur(f) = e.node /\ Cur(g) = e.node
  BY <1>1, <1>3, <1>4, <1>6, <1>7, CurrentIs
<1> QED
  BY <1>3, <1>4, <1>6, <1>9, <1>10 DEF SameFile, g, e1

\* Another file is got and put, without taking the entry of an emptied inode.
LEMMA GetsOther ==
    ASSUME NEW f, OneFileTable(f), f.status = "ok",
           Emptied(f) => Has(Iget(f, OtherNr), FileNr)
    PROVE  LET g == Iget(f, OtherNr)
               h == Iput(g, Entry(g, OtherNr))
           IN  /\ g.status = "ok" /\ h.status = "ok"
               /\ OneFileTable(h) /\ SameFile(f, h)
               /\ \A t \in Slot : f.table[t].num = FileNr /\ f.table[t].cnt # 0
                                  => h.table[t].num = FileNr
               /\ \A t \in Slot : h.table[t].num = FileNr => h.table[t] = f.table[t]
<1> DEFINE g == Iget(f, OtherNr)
           s == Entry(g, OtherNr)
           h == Iput(g, s)
           e == f.table[s]
<1>1. /\ IsFs(f) /\ Unique(f) /\ Spare(f) # {} /\ OtherNr \in Inr /\ OtherNr # 0
      /\ FileNr # OtherNr /\ FileNr # 0 /\ FileNr \in Inr
  BY SpareExists, Numbers DEF OneFileTable
<1>2. /\ s \in Slot /\ g.table[s].num = OtherNr /\ Unique(g)
      /\ Sets(f, g, s, g.table[s])
      /\ \/ /\ e.num = OtherNr
            /\ g.table[s] = [num |-> OtherNr, cnt |-> e.cnt + 1, dirt |-> e.dirt, node |-> e.node]
         \/ /\ ~Has(f, OtherNr) /\ e.cnt = 0 /\ ~e.dirt
            /\ g.table[s] = [num |-> OtherNr, cnt |-> 1, dirt |-> FALSE, node |-> f.dev[OtherNr]]
  BY <1>1, IgetFinds
<1> HIDE DEF g, s
<1>3. e \in TabEntry /\ SlotOK(f, e) /\ e.cnt \in Nat
  BY <1>2 DEF OneFileTable, IsFs, TabEntry
<1>4. g.table[s].cnt = 1 /\ ~g.table[s].dirt /\ g.table[s].node.nlinks = 1 /\ e.cnt = 0 /\ ~e.dirt
  BY <1>1, <1>2, <1>3 DEF OneFileTable, SlotOK
<1> DEFINE e1 == [num |-> OtherNr, cnt |-> 0, dirt |-> FALSE, node |-> g.table[s].node]
<1>5. /\ IsFs(h)
      /\ h.imap = g.imap /\ h.zmap = g.zmap /\ h.body = g.body
      /\ h.pinned = g.pinned /\ h.status = g.status
      /\ \A t \in Slot \ {s} : h.table[t] = g.table[t]
      /\ h.table[s] = e1
      /\ h.dev = g.dev
  <2>1. IsFs(g) /\ g.table[s].num \in Inr /\ g.table[s].cnt > 0 /\ g.table[s].node.nlinks # 0
    BY <1>1, <1>2, <1>4 DEF Sets
  <2>2. /\ IsFs(h)
        /\ h.imap = g.imap /\ h.zmap = g.zmap /\ h.body = g.body
        /\ h.pinned = g.pinned /\ h.status = g.status
        /\ \A t \in Slot \ {s} : h.table[t] = g.table[t]
        /\ h.table[s] = [num |-> g.table[s].num, cnt |-> g.table[s].cnt - 1, dirt |-> FALSE,
                         node |-> g.table[s].node]
        /\ h.dev = IF g.table[s].dirt THEN [g.dev EXCEPT ![g.table[s].num] = g.table[s].node]
                   ELSE g.dev
    BY <1>2, <2>1, IputKeeps
  <2> HIDE DEF h
  <2>3. g.table[s].cnt - 1 = 0
    BY <1>4
  <2>4. h.table[s] = e1
    BY <1>2, <2>2, <2>3
  <2> QED
    BY <1>4, <2>2, <2>4
<1> HIDE DEF h
<1>6. e1.num = OtherNr /\ e1.cnt = 0 /\ ~e1.dirt /\ e1.node.nlinks = 1
  BY <1>4
<1> HIDE DEF e1
<1>7. /\ \A t \in Slot \ {s} : h.table[t] = f.table[t]
      /\ h.dev = f.dev /\ h.body = f.body /\ h.zmap = f.zmap /\ h.pinned = f.pinned
      /\ h.status = "ok" /\ g.status = "ok"
  BY <1>2, <1>5 DEF Sets
<1>8. Unique(h)
  <2>1. \A t \in Slot : h.table[t].num = g.table[t].num
    BY <1>2, <1>5, <1>6
  <2> QED
    BY <1>2, <2>1 DEF Unique
<1>9. \A t \in Slot : SlotOK(h, h.table[t])
  <2> TAKE t \in Slot
  <2>1. CASE t = s
    BY <1>1, <1>5, <1>6, <2>1 DEF SlotOK
  <2>2. CASE t # s
    BY <1>7, <2>2 DEF OneFileTable, SlotOK
  <2> QED
    BY <2>1, <2>2
<1>10. OneFileTable(h)
  BY <1>5, <1>7, <1>8, <1>9 DEF OneFileTable
<1>11. \A t \in Slot : h.table[t].num = FileNr => h.table[t] = f.table[t]
  BY <1>1, <1>5, <1>6, <1>7
<1>12. \A t \in Slot : f.table[t].num = FileNr /\ f.table[t].cnt # 0 => h.table[t].num = FileNr
  BY <1>4, <1>7
<1>13. Cur(h) = Cur(f)
  <2>1. CASE \E t \in Slot : h.table[t].num = FileNr
    <3>1. PICK t \in Slot : h.table[t].num = FileNr
      BY <2>1
    <3>2. h.table[t] = f.table[t]
      BY <1>11, <3>1
    <3>3. Cur(h) = h.table[t].node /\ Cur(f) = f.table[t].node
      BY <1>1, <1>8, <3>1, <3>2, CurrentIs
    <3> QED
      BY <3>2, <3>3
  <2>2. CASE \A t \in Slot : h.table[t].num # FileNr
    <3>1. Cur(h) = f.dev[FileNr]
      BY <1>7, <1>8, <2>2, CurrentIs
    <3>2. CASE e.num = FileNr
      <4>1. Cur(f) = e.node /\ Has(f, FileNr) /\ Entry(f, FileNr) = s
        BY <1>1, <1>2, <3>2, CurrentIs
      <4>2. ~Has(g, FileNr)
        <5>1. \A t \in Slot : h.table[t].num = g.table[t].num
          BY <1>2, <1>5, <1>6
        <5> QED
          BY <2>2, <5>1 DEF Has
      <4>3. ~Emptied(f)
        BY <4>2 DEF g
      <4>4. e.node = f.dev[FileNr]
        BY <1>4, <4>1, <4>3 DEF Emptied, Mem
      <4> QED
        BY <3>1, <4>1, <4>4
    <3>3. CASE e.num # FileNr
      <4>1. \A t \in Slot : f.table[t].num # FileNr
        BY <1>7, <2>2, <3>3
      <4> QED
        BY <1>1, <3>1, <4>1, CurrentIs
    <3> QED
      BY <3>2, <3>3
  <2> QED
    BY <2>1, <2>2
<1> QED
  BY <1>7, <1>10, <1>11, <1>12, <1>13 DEF SameFile, g, s, h

\* Every inode is written back.
LEMMA SyncsFile ==
    ASSUME NEW f, OneFileTable(f)
    PROVE  LET g == SyncInodes(f)
           IN  /\ OneFileTable(g) /\ SameFile(f, g) /\ g.status = f.status
               /\ \A t \in Slot : g.table[t].num = f.table[t].num /\ g.table[t].cnt = f.table[t].cnt
<1> DEFINE g == SyncInodes(f)
           e1(t) == [num |-> f.table[t].num, cnt |-> f.table[t].cnt, dirt |-> FALSE,
                     node |-> f.table[t].node]
<1>1. /\ IsFs(f) /\ Unique(f) /\ \A s \in Slot : SlotOK(f, f.table[s])
      /\ FileNr \in Inr /\ OtherNr \in Inr /\ FileNr # OtherNr /\ FileNr # 0
  BY Numbers DEF OneFileTable
<1>2. \A s \in Slot : f.table[s].dirt => f.table[s].num = FileNr
  BY <1>1 DEF SlotOK
<1>3. /\ IsFs(g) /\ Unique(g)
      /\ g.imap = f.imap /\ g.zmap = f.zmap /\ g.body = f.body
      /\ g.pinned = f.pinned /\ g.status = f.status
      /\ \A s \in Slot : LET e == f.table[s]
                         IN  /\ g.table[s] = [num |-> e.num, cnt |-> e.cnt, dirt |-> FALSE,
                                              node |-> e.node]
                             /\ e.dirt => g.dev[e.num] = e.node
      /\ \A n \in Inr : (\A s \in Slot : f.table[s].num = n => ~f.table[s].dirt)
                        => g.dev[n] = f.dev[n]
  <2>1. \A s \in Slot : f.table[s].dirt => f.table[s].num # 0
    BY <1>1, <1>2
  <2> QED
    BY <1>1, <2>1, SyncKeeps
<1> HIDE DEF g
<1>4. \A t \in Slot : /\ g.table[t].num = f.table[t].num /\ g.table[t].cnt = f.table[t].cnt
                      /\ ~g.table[t].dirt /\ g.table[t].node = f.table[t].node
  <2> TAKE t \in Slot
  <2>1. g.table[t] = e1(t)
    BY <1>3
  <2>2. e1(t).num = f.table[t].num /\ e1(t).cnt = f.table[t].cnt /\ e1(t).node = f.table[t].node
    OBVIOUS
  <2>3. ~e1(t).dirt
    OBVIOUS
  <2> HIDE DEF e1
  <2> QED
    BY <2>1, <2>2, <2>3
<1>5. /\ \A s \in Slot : f.table[s].dirt => g.dev[f.table[s].num] = f.table[s].node
      /\ \A n \in Inr : (\A s \in Slot : f.table[s].num = n => ~f.table[s].dirt)
                        => g.dev[n] = f.dev[n]
  BY <1>3
<1>6. g.dev[OtherNr] = f.dev[OtherNr]
  <2>1. \A s \in Slot : f.table[s].num = OtherNr => ~f.table[s].dirt
    BY <1>1, <1>2
  <2> QED
    BY <1>1, <1>5, <2>1
<1>7. \A s \in Slot : f.table[s].dirt => g.dev[FileNr] = f.table[s].node
  <2> TAKE s \in Slot
  <2> HAVE f.table[s].dirt
  <2>1. f.table[s].num = FileNr
    BY <1>2
  <2> QED
    BY <1>5, <2>1
<1>8. \A s \in Slot : f.table[s].num = FileNr /\ ~f.table[s].dirt => g.dev[FileNr] = f.dev[FileNr]
  <2> TAKE s \in Slot
  <2> HAVE f.table[s].num = FileNr /\ ~f.table[s].dirt
  <2>1. \A t \in Slot : f.table[t].num = FileNr => t = s
    BY <1>1 DEF Unique
  <2>2. \A t \in Slot : f.table[t].num = FileNr => ~f.table[t].dirt
    BY <2>1
  <2> QED
    BY <1>1, <1>5, <2>2
<1>9. \/ g.dev[FileNr] = f.dev[FileNr]
      \/ \E s \in Slot : f.table[s].num = FileNr /\ g.dev[FileNr] = f.table[s].node
  <2>1. CASE \E s \in Slot : f.table[s].dirt
    BY <1>2, <1>7, <2>1
  <2>2. CASE \A s \in Slot : ~f.table[s].dirt
    BY <1>1, <1>5, <2>2
  <2> QED
    BY <2>1, <2>2
<1>10. g.dev[FileNr].nlinks = 1 /\ g.dev[FileNr].mode = "reg"
  BY <1>1, <1>9 DEF OneFileTable, SlotOK
<1>11. \A t \in Slot : SlotOK(g, g.table[t])
  BY <1>1, <1>4, <1>7, <1>8 DEF SlotOK
<1>12. OneFileTable(g)
  BY <1>3, <1>6, <1>10, <1>11 DEF OneFileTable
<1>13. Cur(g) = Cur(f)
  <2>1. CASE \E t \in Slot : f.table[t].num = FileNr
    BY <1>1, <1>3, <1>4, <2>1, CurrentIs
  <2>2. CASE \A t \in Slot : f.table[t].num # FileNr
    <3>1. g.dev[FileNr] = f.dev[FileNr]
      BY <1>9, <2>2
    <3> QED
      BY <1>1, <1>3, <1>4, <2>2, <3>1, CurrentIs
  <2> QED
    BY <2>1, <2>2
<1> QED
  BY <1>3, <1>4, <1>12, <1>13 DEF SameFile, g
\* The file is emptied: it has no blocks, and no other file has any.
LEMMA EmptiesFile ==
    ASSUME NEW f, OneFileTable(f), DataOK(f), f.status = "ok",
           NEW s \in Slot, f.table[s].num = FileNr, f.table[s].cnt # 0
    PROVE  LET g == ClearBlocks(f, s)
           IN  /\ OneFileTable(g) /\ DataOK(g) /\ g.status = "ok"
               /\ Cur(g).size = 0 /\ Cur(g).zone = NoZones
               /\ \A t \in Slot : g.table[t].num = f.table[t].num /\ g.table[t].cnt = f.table[t].cnt
               /\ \A n : Has(g, n) <=> Has(f, n)
               /\ \A n : Entry(g, n) = Entry(f, n)
<1> DEFINE g == ClearBlocks(f, s)
           e == f.table[s]
<1>1. /\ IsFs(f) /\ Unique(f) /\ \A t \in Slot : SlotOK(f, f.table[t])
      /\ e \in TabEntry /\ f.pinned = {}
  BY DEF OneFileTable, IsFs
<1>2. Cur(f) = e.node /\ Has1(f, s)
  <2>1. Cur(f) = e.node
    BY <1>1, CurrentIs
  <2> QED
    BY <1>1, <2>1 DEF DataOK, Has1, Zones
<1>3. e.node.mode = "reg"
  BY <1>1 DEF SlotOK
<1> HIDE DEF e
<1>4. /\ Has1(g, s) /\ Zones(g, s) = NoZones
      /\ g.dev = f.dev /\ g.pinned = {} /\ g.status = "ok"
      /\ \A t \in Slot \ {s} : g.table[t] = f.table[t]
      /\ g.table[s] \in TabEntry /\ g.table[s].num = f.table[s].num
      /\ g.table[s].cnt = f.table[s].cnt /\ g.table[s].dirt = f.table[s].dirt
      /\ g.table[s].node.mode = "reg" /\ g.table[s].node.size = 0
      /\ g.table[s].node.nlinks = f.table[s].node.nlinks
  <2>1. Has1(f, s) /\ f.pinned = {} /\ f.status = "ok" /\ f.table[s].node.mode = "reg"
    BY <1>1, <1>2, <1>3 DEF e
  <2>2. /\ Has1(g, s) /\ Zones(g, s) = NoZones
        /\ \A n \in g.zmap : n + 1 \notin Blk
        /\ g.imap = f.imap /\ g.dev = f.dev /\ g.pinned = {} /\ g.status = "ok"
        /\ g.body = f.body
        /\ \A t \in Slot \ {s} : g.table[t] = f.table[t]
        /\ g.table[s] \in TabEntry /\ g.table[s].num = f.table[s].num
        /\ g.table[s].cnt = f.table[s].cnt /\ g.table[s].dirt = f.table[s].dirt
        /\ g.table[s].node.mode = "reg" /\ g.table[s].node.size = 0
        /\ g.table[s].node.nlinks = f.table[s].node.nlinks
    BY <2>1, ClearBlocksFrees
  <2> QED
    BY <2>2
<1> HIDE DEF g
<1>5. /\ g.table[s].node.mode = e.node.mode /\ g.table[s].node.nlinks = e.node.nlinks
      /\ g.table[s].node.size = 0
  BY <1>3, <1>4 DEF e
<1>6. \A t \in Slot : g.table[t].num = f.table[t].num /\ g.table[t].cnt = f.table[t].cnt
  BY <1>4
<1>7. Unique(g)
  BY <1>1, <1>6 DEF Unique
<1>8. \A t \in Slot : SlotOK(g, g.table[t])
  <2> TAKE t \in Slot
  <2>1. CASE t = s
    BY <1>1, <1>4, <1>5, <2>1 DEF SlotOK, e
  <2>2. CASE t # s
    BY <1>1, <1>4, <2>2 DEF SlotOK
  <2> QED
    BY <2>1, <2>2
<1>9. OneFileTable(g)
  BY <1>4, <1>7, <1>8 DEF OneFileTable, Has1
<1>10. Cur(g) = g.table[s].node
  BY <1>4, <1>7, CurrentIs
<1>11. Cur(g).zone = NoZones /\ Owns(g, NoZones)
  BY <1>4, <1>10 DEF Zones, Has1
<1>12. DataOK(g)
  BY <1>11, NoData DEF DataOK
<1>13. \A n : {t \in Slot : g.table[t].num = n} = {t \in Slot : f.table[t].num = n}
  BY <1>6
<1>14. \A n : (Has(g, n) <=> Has(f, n)) /\ Entry(g, n) = Entry(f, n)
  BY <1>6, <1>13 DEF Has, Entry
<1> QED
  BY <1>4, <1>5, <1>6, <1>9, <1>10, <1>11, <1>12, <1>14 DEF g

-----------------------------------------------------------------------------
(* do_write.  First one block. *)

\* In g the file in entry s has other bytes and another size.
Touches(f, g, s) ==
    /\ g.imap = f.imap /\ g.dev = f.dev /\ g.pinned = f.pinned
    /\ \A t \in Slot \ {s} : g.table[t] = f.table[t]
    /\ g.table[s].num = f.table[s].num /\ g.table[s].cnt = f.table[s].cnt
    /\ g.table[s].node.mode = f.table[s].node.mode
    /\ g.table[s].node.nlinks = f.table[s].node.nlinks

Size(f, s) == f.table[s].node.size

\* The bytes in places S of block b, and the size.
BytesIn(f, s, b, S, c, size, d) ==
    [f EXCEPT !.body[b] = Fill(f.body[b], S, c), !.table[s].node.size = size, !.table[s].dirt = d]

\* Writing bytes moves no block.
LEMMA BytesSet ==
    ASSUME NEW f, IsFs(f), NEW s \in Slot, NEW b \in Blk, NEW S \in SUBSET (0 .. BlkSize - 1),
           NEW c, NEW size \in Nat, NEW d \in BOOLEAN
    PROVE  LET g == BytesIn(f, s, b, S, c, size, d)
           IN  /\ IsFs(g) /\ Touches(f, g, s) /\ g.status = f.status /\ g.zmap = f.zmap
               /\ g.body = [f.body EXCEPT ![b] = Fill(f.body[b], S, c)]
               /\ Zones(g, s) = Zones(f, s) /\ Size(g, s) = size
<1> DEFINE g == BytesIn(f, s, b, S, c, size, d)
           e == f.table[s]
           body1 == [f.body EXCEPT ![b] = Fill(f.body[b], S, c)]
           node1 == [e.node EXCEPT !.size = size]
           e1 == [e EXCEPT !.node = node1]
           f0 == [f EXCEPT !.body = body1]
           f1 == [f0 EXCEPT !.table = [f0.table EXCEPT ![s] = [f0.table[s] EXCEPT !.node =
                                       [f0.table[s].node EXCEPT !.size = size]]]]
           e2 == [f1.table[s] EXCEPT !.dirt = d]
<1>1. e \in TabEntry /\ e.node \in Node
  BY DEF IsFs, TabEntry
<1>2. g = [f1 EXCEPT !.table = [f1.table EXCEPT ![s] = e2]]
  BY DEF BytesIn
<1>3. /\ DOMAIN f0 = Fields /\ f0.body = body1 /\ f0.table = f.table
      /\ f0.imap = f.imap /\ f0.zmap = f.zmap /\ f0.dev = f.dev
      /\ f0.pinned = f.pinned /\ f0.status = f.status
  BY DEF IsFs, Fields
<1>4. /\ node1 \in Node /\ node1.zone = e.node.zone /\ node1.mode = e.node.mode
      /\ node1.nlinks = e.node.nlinks /\ node1.size = size
  BY <1>1 DEF Node
<1> HIDE DEF g, f0, node1
<1>5. e1 \in TabEntry /\ e1.node = node1 /\ e1.num = e.num /\ e1.cnt = e.cnt
  BY <1>1, <1>4 DEF TabEntry
<1>6. DOMAIN body1 = Blk /\ \A a \in Blk : DOMAIN body1[a] \subseteq 0 .. BlkSize - 1
  <2>1. DOMAIN Fill(f.body[b], S, c) \subseteq 0 .. BlkSize - 1
    BY DEF Fill, IsFs
  <2> QED
    BY <2>1 DEF IsFs
<1> HIDE DEF body1
<1>7. IsFs(f0)
  BY <1>3, <1>6 DEF IsFs
<1>8. f1 = [f0 EXCEPT !.table = [f0.table EXCEPT ![s] = e1]]
  BY <1>3 DEF node1
<1> HIDE DEF e1, f1
<1>9. Sets(f0, f1, s, e1)
  BY <1>5, <1>7, <1>8, TableSet
<1>10. f1.table[s] = e1
  BY <1>9 DEF Sets
<1>11. e2 \in TabEntry /\ e2.node = node1 /\ e2.num = e.num /\ e2.cnt = e.cnt
  BY <1>5, <1>10 DEF TabEntry
<1> HIDE DEF e2
<1>12. Sets(f1, g, s, e2)
  <2>1. IsFs(f1)
    BY <1>9 DEF Sets
  <2> QED
    BY <1>2, <1>11, <2>1, TableSet
<1>13. /\ IsFs(g) /\ g.body = body1 /\ g.table[s] = e2 /\ g.status = f.status /\ g.zmap = f.zmap
       /\ g.imap = f.imap /\ g.dev = f.dev /\ g.pinned = f.pinned
       /\ \A t \in Slot \ {s} : g.table[t] = f.table[t]
  BY <1>3, <1>9, <1>12 DEF Sets
<1> QED
  BY <1>4, <1>11, <1>13 DEF Touches, Zones, Size, g, body1

\* The places of a block from that of position p on are the positions from p on.
LEMMA InBlock ==
    ASSUME NEW p \in Nat, NEW n \in Nat, n <= BlkSize - (p % BlkSize), NEW q \in Nat
    PROVE  q \div BlkSize = p \div BlkSize /\ q % BlkSize \in (p % BlkSize) .. (p % BlkSize) + n - 1
              <=> q \in p .. p + n - 1
<1> DEFINE k == p \div BlkSize
           o == p % BlkSize
           j == q \div BlkSize
           m == q % BlkSize
<1>1. BlkSize \in Nat \ {0}
  BY Sizes
<1>2. /\ k \in Nat /\ o \in 0 .. BlkSize - 1 /\ p = k * BlkSize + o
      /\ j \in Nat /\ m \in 0 .. BlkSize - 1 /\ q = j * BlkSize + m
  BY <1>1, Divided
<1>3. ASSUME q \in p .. p + n - 1
      PROVE  j = k /\ m \in o .. o + n - 1
  <2> DEFINE i == o + (q - p)
  <2>1. i \in 0 .. BlkSize - 1 /\ i \in o .. o + n - 1
    <3> HIDE DEF k, j, m
    <3> QED
      BY <1>1, <1>2, <1>3
  <2>2. q = k * BlkSize + i
    <3> HIDE DEF j, m, k, o
    <3>1. k * BlkSize \in Nat
      BY <1>1, <1>2
    <3> QED
      BY <1>2, <3>1
  <2> HIDE DEF i
  <2>3. j = k /\ m = i
    <3> HIDE DEF k
    <3>1. (k * BlkSize + i) \div BlkSize = k /\ (k * BlkSize + i) % BlkSize = i
      BY <1>1, <1>2, <2>1, Quotient
    <3> QED
      BY <2>2, <3>1
  <2> QED
    BY <2>1, <2>3
<1>4. ASSUME j = k, m \in o .. o + n - 1
      PROVE  q \in p .. p + n - 1
  <2> HIDE DEF k, j, o, m
  <2>1. k * BlkSize \in Nat
    BY <1>1, <1>2
  <2>2. q = k * BlkSize + m
    BY <1>2, <1>4
  <2> QED
    BY <1>2, <1>4, <2>1, <2>2
<1> QED
  BY <1>3, <1>4
\* What a write of count bytes c at position p promises, at each of its blocks.
Filled(f, w, s, p, c) ==
    /\ \A x \in p .. p + w.written - 1 : x \div BlkSize \in FileBlk
    /\ Size(w.f, s) = IF w.written = 0 \/ p + w.written <= Size(f, s) THEN Size(f, s)
                      ELSE p + w.written
    /\ \A x \in Nat : x \div BlkSize \in FileBlk =>
          ByteAt(w.f, Zones(w.f, s), x) = IF x \in p .. p + w.written - 1 THEN c
                                          ELSE ByteAt(f, Zones(f, s), x)

\* The machine has not stopped, or at a block no file can have.
Going(f) == f.status \in {"ok", "block too big"}

\* p is the position in the file, q that of the descriptor; O_APPEND sets them apart.
Wrote(f, w, s, p, q, count, c) ==
    /\ DOMAIN w = {"f", "pos", "fpos", "cnt", "written"}
    /\ Has1(w.f, s) /\ Touches(f, w.f, s)
    /\ w.written \in Nat /\ w.cnt \in Nat /\ w.written + w.cnt <= count
    /\ w.pos = p + w.written /\ w.fpos = q + w.written
    /\ Going(w.f)
    /\ \A k \in FileBlk, o \in Nat : Data(w.f, Zones(w.f, s), k, o) \in Byte \cup {0}
    /\ p = q => Filled(f, w, s, p, c)

\* A byte of a file is one of the data of its block.
LEMMA ByteIsData ==
    ASSUME NEW f, NEW zone, NEW x \in Nat
    PROVE  /\ ByteAt(f, zone, x) = Data(f, zone, x \div BlkSize, x % BlkSize)
           /\ x % BlkSize \in Nat
<1>1. x % BlkSize \in Nat
  BY Divided, Sizes
<1> QED
  BY <1>1 DEF ByteAt, Data

\* A write that fails or stops before its next block has written what it had.
LEMMA StopsThere ==
    ASSUME NEW f, NEW w, NEW s, NEW p, NEW q, NEW count \in Nat, NEW c,
           Wrote(f, w, s, p, q, count, c), NEW g, Grown(w.f, g, s),
           NEW w1, w1 = [w EXCEPT !.f = g, !.cnt = 0]
    PROVE  Wrote(f, w1, s, p, q, count, c)
<1>1. /\ DOMAIN w1 = {"f", "pos", "fpos", "cnt", "written"}
      /\ w1.f = g /\ w1.cnt = 0 /\ w1.pos = w.pos /\ w1.fpos = w.fpos /\ w1.written = w.written
  BY DEF Wrote
<1>2. Has1(g, s) /\ Touches(f, g, s) /\ g.status = w.f.status /\ Size(g, s) = Size(w.f, s)
  BY DEF Wrote, Grown, Others, Touches, Size
<1>3. \A k \in FileBlk, o \in Nat : Data(g, Zones(g, s), k, o) = Data(w.f, Zones(w.f, s), k, o)
  BY DEF Grown
<1>4. \A k \in FileBlk, o \in Nat : Data(g, Zones(g, s), k, o) \in Byte \cup {0}
  BY <1>3 DEF Wrote
<1>5. \A x \in Nat : x \div BlkSize \in FileBlk =>
         ByteAt(g, Zones(g, s), x) = ByteAt(w.f, Zones(w.f, s), x)
  BY <1>3, ByteIsData
<1>6. Filled(f, w, s, p, c) => Filled(f, w1, s, p, c)
  BY <1>1, <1>2, <1>5 DEF Filled
<1>7. w1.written + w1.cnt <= count /\ w1.cnt \in Nat
  BY <1>1 DEF Wrote
<1> QED
  BY <1>1, <1>2, <1>4, <1>6, <1>7 DEF Wrote, Going

\* The machine stops at a block no file can have.
LEMMA CrashesThere ==
    ASSUME NEW f, NEW w, NEW s, NEW p, NEW q \in Nat, NEW count \in Nat, NEW c,
           Wrote(f, w, s, p, q, count, c),
           NEW w1, w1 = [w EXCEPT !.f = Crash(w.f, "block too big"), !.cnt = 0]
    PROVE  Wrote(f, w1, s, p, q, count, c)
<1> DEFINE g == Crash(w.f, "block too big")
<1>1. /\ DOMAIN g = Fields /\ g.table = w.f.table /\ g.dev = w.f.dev /\ g.body = w.f.body
      /\ g.zmap = w.f.zmap /\ g.imap = w.f.imap /\ g.pinned = w.f.pinned
      /\ g.status = "block too big"
  BY DEF Wrote, Has1, IsFs, Crash, Fields
<1>2. /\ DOMAIN w1 = {"f", "pos", "fpos", "cnt", "written"}
      /\ w1.f = g /\ w1.cnt = 0 /\ w1.pos = w.pos /\ w1.fpos = w.fpos /\ w1.written = w.written
  BY DEF Wrote
<1> HIDE DEF g
<1>3. Zones(g, s) = Zones(w.f, s) /\ Size(g, s) = Size(w.f, s)
  BY <1>1 DEF Zones, Size
<1>4. \A zone, k, o : Data(g, zone, k, o) = Data(w.f, zone, k, o)
  BY <1>1, SameBlocks
<1>5. Has1(g, s)
  <2>1. Owns(g, Zones(g, s))
    BY <1>1, <1>3, SameBlocks DEF Wrote, Has1
  <2> QED
    BY <1>1, <2>1 DEF Wrote, Has1, IsFs
<1>6. Touches(f, g, s)
  BY <1>1 DEF Wrote, Touches
<1>7. \A x \in Nat : ByteAt(g, Zones(g, s), x) = ByteAt(w.f, Zones(w.f, s), x)
  BY <1>3, <1>4, ByteIsData
<1>8. Filled(f, w, s, p, c) => Filled(f, w1, s, p, c)
  BY <1>2, <1>3, <1>7 DEF Filled
<1>9. w1.written + w1.cnt <= count /\ w1.cnt \in Nat
  <2>1. w.written \in Nat /\ w.cnt \in Nat /\ w.written + w.cnt <= count /\ count \in Nat
    BY DEF Wrote
  <2>2. w1.written = w.written /\ w1.cnt = 0
    BY <1>2
  <2> QED
    BY ONLY <2>1, <2>2
<1>10. \A k \in FileBlk, o \in Nat : Data(g, Zones(g, s), k, o) \in Byte \cup {0}
  BY <1>3, <1>4 DEF Wrote
<1> QED
  BY <1>1, <1>2, <1>5, <1>6, <1>8, <1>9, <1>10 DEF Wrote, Going

\* What is written so far, and the next bytes.
LEMMA Longer ==
    ASSUME NEW p \in Nat, NEW n \in Nat, NEW m \in Nat, NEW x
    PROVE  /\ x \in p .. p + (n + m) - 1 <=> x \in p .. p + n - 1 \/ x \in p + n .. p + n + m - 1
           /\ x \in p .. p + (n + m) - 1 => x \in Nat
OBVIOUS

\* In h and w1 the next chars bytes are c, in places S of block k, which g has created.
Fills(w, g, h, w1, s, k, chars, S, c) ==
    /\ IsFs(h) /\ Touches(g, h, s) /\ h.status = g.status /\ h.zmap = g.zmap
    /\ Zones(h, s) = Zones(g, s)
    /\ BlockOf(g, Zones(g, s), k) # 0
    /\ h.body = [g.body EXCEPT ![BlockOf(g, Zones(g, s), k)] = Fill(@, S, c)]
    /\ Size(h, s) = IF w.pos + chars > Size(g, s) THEN w.pos + chars ELSE Size(g, s)
    /\ DOMAIN w1 = {"f", "pos", "fpos", "cnt", "written"}
    /\ w1.f = h /\ w1.pos = w.pos + chars /\ w1.fpos = w.fpos + chars
    /\ w1.cnt = w.cnt - chars /\ w1.written = w.written + chars

\* The bytes up to the end of the block, or all that are left.
LEMMA FillsBlock ==
    ASSUME NEW f, NEW w, NEW s, NEW p \in Nat, NEW q \in Nat, NEW count \in Nat, NEW c \in Byte,
           Wrote(f, w, s, p, q, count, c), Size(f, s) \in Nat,
           NEW g, Grown(w.f, g, s), NEW k \in FileBlk, k = w.fpos \div BlkSize,
           NEW chars \in Nat \ {0}, chars <= w.cnt, chars <= BlkSize - (w.pos % BlkSize),
           NEW S, S = (w.pos % BlkSize) .. (w.pos % BlkSize) + chars - 1,
           NEW h, NEW w1, Fills(w, g, h, w1, s, k, chars, S, c)
    PROVE  Wrote(f, w1, s, p, q, count, c)
<1> DEFINE zone == Zones(g, s)
           n == w.written
<1>1. /\ n \in Nat /\ w.cnt \in Nat /\ n + w.cnt <= count
      /\ w.pos = p + n /\ w.fpos = q + n
  BY DEF Wrote
<1>2. Has1(g, s) /\ Touches(f, g, s) /\ g.status = w.f.status /\ Size(g, s) = Size(w.f, s)
  BY DEF Wrote, Grown, Others, Touches, Size
<1>3. Owns(g, zone) /\ DOMAIN g.body = Blk /\ s \in Slot
  BY <1>2 DEF Has1, IsFs
<1>4. /\ IsFs(h) /\ Touches(g, h, s) /\ h.status = g.status /\ h.zmap = g.zmap
      /\ Zones(h, s) = zone
      /\ BlockOf(g, zone, k) # 0
      /\ h.body = [g.body EXCEPT ![BlockOf(g, zone, k)] = Fill(@, S, c)]
  BY DEF Fills
<1>5. Size(h, s) = IF w.pos + chars > Size(g, s) THEN w.pos + chars ELSE Size(g, s)
  BY DEF Fills
<1>6. /\ DOMAIN w1 = {"f", "pos", "fpos", "cnt", "written"}
      /\ w1.f = h /\ w1.pos = w.pos + chars /\ w1.fpos = w.fpos + chars
      /\ w1.cnt = w.cnt - chars /\ w1.written = n + chars
  BY DEF Fills
<1> HIDE DEF zone, n
<1>7. /\ Owns(h, zone)
      /\ \A j \in FileBlk, o \in Nat : Data(h, zone, j, o) = IF j = k /\ o \in S THEN c
                                                     ELSE Data(g, zone, j, o)
  <2>1. Refills(g, h, zone, k, S, c)
    BY <1>3, <1>4 DEF Refills
  <2>2. k \in FileBlk
    OBVIOUS
  <2> QED
    BY ONLY <1>3, <2>1, <2>2, DataFilled
<1>8. Has1(h, s) /\ Touches(f, h, s)
  BY <1>2, <1>3, <1>4, <1>7 DEF Has1, Touches
<1>9. \A j \in FileBlk, o \in Nat : Data(g, zone, j, o) = Data(w.f, Zones(w.f, s), j, o)
  BY DEF Grown, zone
<1>10. ASSUME NEW j \in FileBlk, NEW o \in Nat
       PROVE  /\ Data(h, zone, j, o) = IF j = k /\ o \in S THEN c
                                       ELSE Data(w.f, Zones(w.f, s), j, o)
              /\ Data(h, zone, j, o) \in Byte \cup {0}
  <2>1. Data(w.f, Zones(w.f, s), j, o) \in Byte \cup {0}
    BY DEF Wrote
  <2>2. Data(h, zone, j, o) = IF j = k /\ o \in S THEN c ELSE Data(w.f, Zones(w.f, s), j, o)
    BY <1>7, <1>9
  <2> QED
    BY <2>1, <2>2
<1>11. ASSUME p = q, Filled(f, w, s, p, c)
       PROVE  Filled(f, w1, s, p, c)
  <2>1. w.pos \in Nat /\ k = w.pos \div BlkSize
    BY <1>1, <1>11
  <2>2. \A x \in Nat : x \div BlkSize = k /\ x % BlkSize \in S <=> x \in w.pos .. w.pos + chars - 1
    BY <2>1, InBlock
  <2>3. \A x \in Nat : x \div BlkSize = k /\ x % BlkSize \in S <=> x \in p + n .. p + n + chars - 1
    BY <1>1, <2>2
  <2>4. Size(w.f, s) = IF n = 0 \/ p + n <= Size(f, s) THEN Size(f, s) ELSE p + n
    BY <1>11 DEF Filled, n
  <2>5. Size(h, s) = IF p + n + chars > Size(w.f, s) THEN p + n + chars ELSE Size(w.f, s)
    BY <1>1, <1>2, <1>5
  <2>6. /\ Size(h, s) = IF p + (n + chars) <= Size(f, s) THEN Size(f, s) ELSE p + (n + chars)
        /\ n + chars # 0
    BY <1>1, <2>4, <2>5
  <2>7. \A x \in p .. p + n - 1 : x \div BlkSize \in FileBlk
    BY <1>11 DEF Filled, n
  <2>8. \A x : /\ x \in p .. p + (n + chars) - 1 <=> \/ x \in p .. p + n - 1
                                                     \/ x \in p + n .. p + n + chars - 1
               /\ x \in p .. p + (n + chars) - 1 => x \in Nat
    BY <1>1, Longer
  <2>9. \A x \in p .. p + (n + chars) - 1 : x \div BlkSize \in FileBlk
    BY <2>3, <2>7, <2>8
  <2>10. ASSUME NEW x \in Nat, x \div BlkSize \in FileBlk
         PROVE  ByteAt(h, zone, x) = IF x \in p .. p + (n + chars) - 1 THEN c
                                     ELSE ByteAt(f, Zones(f, s), x)
    <3> DEFINE j == x \div BlkSize
               o == x % BlkSize
    <3>1. /\ ByteAt(h, zone, x) = Data(h, zone, j, o) /\ o \in Nat
          /\ ByteAt(w.f, Zones(w.f, s), x) = Data(w.f, Zones(w.f, s), j, o)
      BY ByteIsData
    <3>2. j = k /\ o \in S <=> x \in p + n .. p + n + chars - 1
      BY <2>3
    <3>3. ByteAt(w.f, Zones(w.f, s), x) = IF x \in p .. p + n - 1 THEN c
                                          ELSE ByteAt(f, Zones(f, s), x)
      BY <1>11, <2>10 DEF Filled, n
    <3>4. j \in FileBlk
      BY <2>10
    <3> HIDE DEF j, o
    <3>5. Data(h, zone, j, o) = IF j = k /\ o \in S THEN c ELSE Data(w.f, Zones(w.f, s), j, o)
      BY <1>10, <3>1, <3>4
    <3> QED
      BY <2>8, <3>1, <3>2, <3>3, <3>5
  <2> QED
    BY <1>4, <1>6, <2>6, <2>9, <2>10 DEF Filled
<1>12. /\ w1.written \in Nat /\ w1.cnt \in Nat /\ w1.written + w1.cnt <= count
       /\ w1.pos = p + w1.written /\ w1.fpos = q + w1.written
  <2>1. /\ n + chars \in Nat /\ w.cnt - chars \in Nat /\ n + chars + (w.cnt - chars) <= count
        /\ p + n + chars = p + (n + chars) /\ q + n + chars = q + (n + chars)
    BY <1>1
  <2> QED
    BY <1>1, <1>6, <2>1
<1>13. Going(w1.f)
  BY <1>2, <1>4, <1>6 DEF Wrote, Going
<1>14. p = q => Filled(f, w1, s, p, c)
  BY <1>11 DEF Wrote
<1> QED
  BY <1>4, <1>6, <1>8, <1>10, <1>12, <1>13, <1>14 DEF Wrote
\* Every block of a write keeps the promise.
LEMMA ChunkWrites ==
    ASSUME NEW f, NEW w, NEW s, NEW p \in Nat, NEW q \in Nat, NEW count \in Nat, NEW c \in Byte,
           Wrote(f, w, s, p, q, count, c), Size(f, s) \in Nat
    PROVE  Wrote(f, Chunk(w, s, c), s, p, q, count, c)
<1> DEFINE k == w.fpos \div BlkSize
           g == CreateBlock(w.f, s, k)
           b == Bmap(g, s, k)
           offset == w.pos % BlkSize
           chars == IF BlkSize - offset > w.cnt THEN w.cnt ELSE BlkSize - offset
           S == offset .. offset + chars - 1
           w1 == Chunk(w, s, c)
<1>1. Has1(w.f, s) /\ w.cnt \in Nat /\ w.pos \in Nat /\ BlkSize \in Nat \ {0}
  BY Sizes DEF Wrote
<1>2. CASE w.cnt = 0
  BY <1>2 DEF Chunk
<1>3. CASE w.cnt # 0 /\ k \notin FileBlk
  <2>1. w1 = [w EXCEPT !.f = Crash(w.f, "block too big"), !.cnt = 0]
    BY <1>3 DEF Chunk
  <2> HIDE DEF w1
  <2>2. Wrote(f, w1, s, p, q, count, c)
    BY <1>3, <2>1, CrashesThere
  <2> QED
    BY <2>2 DEF w1
<1>4. CASE w.cnt # 0 /\ k \in FileBlk /\ b = 0
  <2>1. Grown(w.f, g, s)
    BY <1>1, <1>4, CreateBlockGrows
  <2>2. w1 = [w EXCEPT !.f = g, !.cnt = 0]
    BY <1>4 DEF Chunk
  <2> HIDE DEF w1, g
  <2>3. Wrote(f, w1, s, p, q, count, c)
    BY <2>1, <2>2, StopsThere
  <2> QED
    BY <2>3 DEF w1
<1>5. CASE w.cnt # 0 /\ k \in FileBlk /\ b # 0
  <2>1. Grown(w.f, g, s)
    BY <1>1, <1>5, CreateBlockGrows
  <2>2. offset \in 0 .. BlkSize - 1
    BY <1>1, Divided
  <2> HIDE DEF offset
  <2>3. /\ chars \in Nat \ {0} /\ chars <= w.cnt /\ chars <= BlkSize - offset
        /\ S \in SUBSET (0 .. BlkSize - 1)
    BY <1>1, <1>5, <2>2
  <2> DEFINE size == IF w.pos + chars > Size(g, s) THEN w.pos + chars ELSE Size(g, s)
             d == g.table[s].dirt \/ w.pos + chars > Size(g, s)
             h == BytesIn(g, s, b, S, c, size, d)
  <2>4. w1 = [f |-> h, pos |-> w.pos + chars, fpos |-> w.fpos + chars,
              cnt |-> w.cnt - chars, written |-> w.written + chars]
    BY <1>5 DEF Chunk, Size, offset, BytesIn
  <2>5. /\ IsFs(g) /\ s \in Slot /\ Owns(g, Zones(g, s)) /\ b = BlockOf(g, Zones(g, s), k)
        /\ g.table[s] \in TabEntry
    BY <2>1 DEF Grown, Has1, Bmap, Zones, IsFs
  <2> HIDE DEF chars, g, S, w1
  <2>6. size \in Nat /\ d \in BOOLEAN
    BY <1>1, <2>3, <2>5 DEF Size, TabEntry, Node
  <2>7. b \in Blk
    BY <1>5, <2>5, DataPlaceIs, Sizes DEF Owns
  <2> HIDE DEF b, size, d
  <2>8. /\ IsFs(h) /\ Touches(g, h, s) /\ h.status = g.status /\ h.zmap = g.zmap
        /\ h.body = [g.body EXCEPT ![b] = Fill(g.body[b], S, c)]
        /\ Zones(h, s) = Zones(g, s) /\ Size(h, s) = size
    BY <2>3, <2>5, <2>6, <2>7, BytesSet
  <2> HIDE DEF h, k
  <2>9. /\ DOMAIN w1 = {"f", "pos", "fpos", "cnt", "written"}
        /\ w1.f = h /\ w1.pos = w.pos + chars /\ w1.fpos = w.fpos + chars
        /\ w1.cnt = w.cnt - chars /\ w1.written = w.written + chars
    BY <2>4
  <2>10. Fills(w, g, h, w1, s, k, chars, S, c)
    BY <1>5, <2>5, <2>8, <2>9 DEF Fills, size
  <2>11. k = w.fpos \div BlkSize /\ S = (w.pos % BlkSize) .. (w.pos % BlkSize) + chars - 1
         /\ chars <= BlkSize - (w.pos % BlkSize)
    BY <2>3 DEF k, S, offset
  <2>12. Wrote(f, w1, s, p, q, count, c)
    BY <1>5, <2>1, <2>3, <2>10, <2>11, FillsBlock
  <2> QED
    BY <2>12 DEF w1
<1> QED
  BY <1>2, <1>3, <1>4, <1>5

\* r is the write after every number of blocks up to m.
Writes(r, start, s, c, m) ==
    r = [n \in 0 .. m |-> IF n = 0 THEN start ELSE LET w == r[n - 1] IN Chunk(w, s, c)]

\* A write goes on from block to block.
LEMMA WritesStep ==
    ASSUME NEW r, NEW start, NEW s, NEW c, NEW m \in Nat, Writes(r, start, s, c, m)
    PROVE  r[0] = start /\ \A n \in 1 .. m : r[n] = Chunk(r[n - 1], s, c)
<1>1. r[0] = start
  <2>1. 0 \in 0 .. m
    OBVIOUS
  <2> QED
    BY <2>1 DEF Writes
<1>2. ASSUME NEW n \in 1 .. m PROVE r[n] = Chunk(r[n - 1], s, c)
  <2>1. n \in 0 .. m /\ n # 0
    OBVIOUS
  <2> QED
    BY <2>1 DEF Writes
<1> QED
  BY <1>1, <1>2

\* There is one: otherwise there would be a least number of blocks without.
LEMMA WritesExist ==
    ASSUME NEW start, NEW s, NEW c, NEW m \in Nat
    PROVE  \E r : Writes(r, start, s, c, m)
<1> DEFINE bad == {n \in Nat : ~\E r : Writes(r, start, s, c, n)}
<1>1. ASSUME bad # {} PROVE FALSE
  <2>1. PICK n \in bad : \A j \in bad : n <= j
    BY <1>1, LeastExists
  <2>2. CASE n = 0
    <3> DEFINE r == [i \in 0 .. 0 |-> start]
    <3>1. \A i \in 0 .. 0 : i = 0
      OBVIOUS
    <3>2. r = [i \in 0 .. 0 |-> IF i = 0 THEN start ELSE LET w == r[i - 1] IN Chunk(w, s, c)]
      BY <3>1, Zenon
    <3>3. Writes(r, start, s, c, 0)
      BY <3>2, Zenon DEF Writes
    <3> QED
      BY <2>1, <2>2, <3>3
  <2>3. CASE n # 0
    <3>1. n \in Nat /\ n - 1 \in Nat /\ n - 1 \notin bad
      BY <2>1, <2>3
    <3>2. PICK g : Writes(g, start, s, c, n - 1)
      BY <3>1
    <3> DEFINE z == Chunk(g[n - 1], s, c)
               r == [i \in 0 .. n |-> IF i = n THEN z ELSE g[i]]
    <3>3. g[0] = start /\ \A i \in 1 .. n - 1 : g[i] = Chunk(g[i - 1], s, c)
      BY <3>1, <3>2, WritesStep
    <3> HIDE DEF z
    <3>4. r[n] = z /\ \A i \in 0 .. n - 1 : r[i] = g[i]
      BY <3>1
    <3>5. r = [i \in 0 .. n |-> r[i]]
      OBVIOUS
    <3> HIDE DEF r
    <3>6. ASSUME NEW i \in 0 .. n
          PROVE  r[i] = IF i = 0 THEN start ELSE Chunk(r[i - 1], s, c)
      <4>1. CASE i = n
        <5>1. r[i - 1] = g[n - 1] /\ i # 0
          BY <2>3, <3>1, <3>4, <4>1
        <5> QED
          BY <3>4, <4>1, <5>1 DEF z
      <4>2. CASE i = 0
        BY <2>3, <3>1, <3>3, <3>4, <4>2
      <4>3. CASE i # n /\ i # 0
        <5>1. r[i] = g[i] /\ r[i - 1] = g[i - 1] /\ i \in 1 .. n - 1
          BY <3>1, <3>4, <4>3
        <5> QED
          BY <3>3, <4>3, <5>1
      <4> QED
        BY <4>1, <4>2, <4>3
    <3>7. Writes(r, start, s, c, n)
      BY <3>5, <3>6, Zenon DEF Writes
    <3> QED
      BY <2>1, <3>7
  <2> QED
    BY <2>2, <2>3
<1>2. m \notin bad
  BY <1>1
<1> QED
  BY <1>2

\* So a whole write keeps it.
LEMMA WritesAll ==
    ASSUME NEW f, NEW s, NEW p \in Nat, NEW q \in Nat, NEW count \in Nat, NEW c \in Byte,
           Size(f, s) \in Nat, NEW start, Wrote(f, start, s, p, q, count, c),
           NEW r, Writes(r, start, s, c, count)
    PROVE  Wrote(f, r[count], s, p, q, count, c)
<1>1. r[0] = start /\ \A n \in 1 .. count : r[n] = Chunk(r[n - 1], s, c)
  BY WritesStep
<1> DEFINE bad == {n \in Nat : n <= count /\ ~Wrote(f, r[n], s, p, q, count, c)}
<1>2. ASSUME bad # {} PROVE FALSE
  <2>1. PICK n \in bad : \A j \in bad : n <= j
    BY <1>2, LeastExists
  <2>2. n # 0
    BY <1>1, <2>1
  <2>3. n - 1 \in Nat /\ n - 1 \notin bad /\ n - 1 <= count /\ n \in 1 .. count
    BY <2>1, <2>2
  <2>4. Wrote(f, r[n - 1], s, p, q, count, c)
    BY <2>3
  <2>5. Wrote(f, Chunk(r[n - 1], s, c), s, p, q, count, c)
    BY <2>4, ChunkWrites
  <2> QED
    BY <1>1, <2>1, <2>3, <2>5
<1> QED
  BY <1>2
-----------------------------------------------------------------------------
(* The inodes and the entries of file_table together. *)

\* No write through an O_APPEND descriptor has gone aside.
Even == "appended" \notin spoilt

FileRec   == [cnt : {0, 1}, append : BOOLEAN, inode : Slot, pos : Nat]
Users(fl) == {i \in OpenFile : fl[i].cnt # 0}

Counted(f, fl) ==
    /\ \A i \in OpenFile : fl[i].cnt # 0 => f.table[fl[i].inode].num = FileNr
    /\ \A s \in Slot : f.table[s].num = FileNr => f.table[s].cnt = Cardinality(Users(fl))

FsOK(f, fl) ==
    /\ OneFileTable(f) /\ DataOK(f)
    /\ fl \in [OpenFile -> FileRec]
    /\ Counted(f, fl)
    /\ Going(f)

RetOK(r) == r.n \in Int /\ r.data \in Seq(Byte \cup {0})

JInv == FsOK(fs, files) /\ RetOK(ret) /\ (Even => SizeOK(fs))

\* Nothing is a result.
LEMMA NothingOK == RetOK(Nothing)
BY DEF RetOK, Nothing

\* The same file ends where it ended.
LEMMA SizeKept ==
    ASSUME NEW f, NEW g, SameFile(f, g), SizeOK(f)
    PROVE  SizeOK(g)
<1>1. \A q \in Nat : ByteAt(g, Cur(g).zone, q) = ByteAt(f, Cur(f).zone, q)
  BY SameFileKeeps, ByteIsData
<1> QED
  BY <1>1 DEF SizeOK, SameFile

\* The counts of entries of file_table.
LEMMA UsersFinite ==
    ASSUME NEW fl
    PROVE  /\ IsFiniteSet(Users(fl)) /\ Cardinality(Users(fl)) \in Nat
           /\ \A i \in Users(fl) : /\ Cardinality(Users(fl)) \in Nat \ {0}
                                   /\ Cardinality(Users(fl) \ {i}) = Cardinality(Users(fl)) - 1
           /\ \A i : i \notin Users(fl) =>
                 Cardinality(Users(fl) \cup {i}) = Cardinality(Users(fl)) + 1
           /\ Users(fl) = {} => Cardinality(Users(fl)) = 0
<1>1. IsFiniteSet(OpenFile)
  BY FilesAssumption, FS_Interval DEF OpenFile
<1>2. IsFiniteSet(Users(fl))
  BY <1>1, FS_Subset DEF Users
<1> DEFINE U == Users(fl)
<1> HIDE DEF U
<1>3. IsFiniteSet(U) /\ Cardinality(U) \in Nat
  BY <1>2, FS_CardinalityType DEF U
<1>4. ASSUME NEW i \in U
      PROVE  Cardinality(U) \in Nat \ {0} /\ Cardinality(U \ {i}) = Cardinality(U) - 1
  <2>1. IsFiniteSet(U \ {i}) /\ Cardinality(U \ {i}) = Cardinality(U) - 1
    BY <1>3, FS_RemoveElement
  <2>2. Cardinality(U \ {i}) \in Nat
    BY <2>1, FS_CardinalityType
  <2> QED
    BY <1>3, <2>1, <2>2
<1>5. ASSUME NEW i, i \notin U
      PROVE  Cardinality(U \cup {i}) = Cardinality(U) + 1
  BY <1>3, <1>5, FS_AddElement
<1>6. U = {} => Cardinality(U) = 0
  BY FS_EmptySet
<1> QED
  BY <1>3, <1>4, <1>5, <1>6 DEF U

\* The entry a descriptor leads to.
LEMMA Opens ==
    ASSUME IInv, JInv, NEW p \in Proc, NEW d \in Filp, filp[p][d] # None
    PROVE  LET i == filp[p][d]
               s == files[i].inode
           IN  /\ i \in OpenFile /\ files[i] \in FileRec /\ files[i].cnt = 1
               /\ s \in Slot /\ fs.table[s].num = FileNr
               /\ fs.table[s].cnt = Cardinality(Users(files))
               /\ fs.table[s].cnt \in Nat \ {0}
               /\ Cur(fs) = fs.table[s].node /\ Cur(fs) \in Node
               /\ i \in Users(files)
<1> DEFINE i == filp[p][d]
           s == files[i].inode
<1>1. i \in OpenFile /\ files[i].cnt = 1
  BY DEF IInv, FilpOK, DescriptorsOwn
<1> HIDE DEF i
<1>2. files[i] \in FileRec /\ Counted(fs, files) /\ OneFileTable(fs)
  BY <1>1 DEF JInv, FsOK
<1>3. s \in Slot /\ fs.table[s].num = FileNr
  BY <1>1, <1>2 DEF FileRec, Counted
<1>4. i \in Users(files)
  BY <1>1 DEF Users
<1>5. fs.table[s].cnt = Cardinality(Users(files)) /\ Cardinality(Users(files)) \in Nat \ {0}
  BY <1>2, <1>3, <1>4, UsersFinite DEF Counted
<1>6. Cur(fs) = fs.table[s].node /\ Cur(fs) \in Node
  BY <1>2, <1>3, CurrentIs, CurIsNode DEF OneFileTable
<1> QED
  BY <1>1, <1>2, <1>3, <1>4, <1>5, <1>6 DEF i

\* A call that moves no entry of the file and leaves it as it is.
LEMMA SameKeeps ==
    ASSUME NEW f, NEW fl, FsOK(f, fl), NEW g, OneFileTable(g), SameFile(f, g), g.status = f.status,
           \A t \in Slot : f.table[t].num = FileNr /\ f.table[t].cnt # 0 => g.table[t].num = FileNr,
           \A t \in Slot : g.table[t].num = FileNr => f.table[t].num = FileNr
                                                      /\ g.table[t].cnt = f.table[t].cnt
    PROVE  FsOK(g, fl)
<1>1. Counted(g, fl)
  <2>1. ASSUME NEW i \in OpenFile, fl[i].cnt # 0
        PROVE  g.table[fl[i].inode].num = FileNr
    <3>1. fl[i].inode \in Slot /\ f.table[fl[i].inode].num = FileNr
      BY <2>1 DEF FsOK, Counted, FileRec
    <3>2. i \in Users(fl)
      BY <2>1 DEF Users
    <3>3. f.table[fl[i].inode].cnt # 0
      BY <3>1, <3>2, UsersFinite DEF FsOK, Counted
    <3> QED
      BY <3>1, <3>3
  <2>2. ASSUME NEW s \in Slot, g.table[s].num = FileNr
        PROVE  g.table[s].cnt = Cardinality(Users(fl))
    BY <2>2 DEF FsOK, Counted
  <2> QED
    BY <2>1, <2>2 DEF Counted
<1>2. DataOK(g)
  BY SameFileKeeps DEF FsOK
<1> QED
  BY <1>1, <1>2 DEF FsOK, Going
-----------------------------------------------------------------------------
(* Every call keeps JInv. *)

\* At first the file is empty and nobody has it open.
LEMMA InitJInv == Init => JInv
<1> SUFFICES ASSUME Init PROVE JInv
  OBVIOUS
<1>1. /\ DOMAIN fs = Fields /\ fs.zmap = {} /\ fs.pinned = {} /\ fs.status = "ok"
      /\ fs.table = [s \in Slot |-> Empty]
      /\ fs.dev = [n \in Inr |-> IF n \in {FileNr, OtherNr} THEN FileNode ELSE NoNode]
      /\ fs.body = [b \in Blk |-> ZeroBlk]
      /\ files = [i \in OpenFile |-> FreeFile] /\ ret = Nothing
  BY DEF Init, Fields
<1>2. FileNr \in Inr /\ OtherNr \in Inr /\ FileNr # OtherNr /\ FileNr # 0 /\ OtherNr # 0
  BY Numbers
<1>3. NoZones \in [Zone -> Nr] /\ Nr = 0 .. NrZones - 1
  BY Sizes DEF NoZones, Nr
<1>4. NoNode \in Node
  BY <1>3, InodesAssumption DEF NoNode, Node
<1>5. /\ FileNode \in Node /\ FileNode.nlinks = 1 /\ FileNode.mode = "reg" /\ FileNode.size = 0
      /\ FileNode.zone = NoZones
  <2>1. 1 \in 0 .. NrLinks - 1
    BY InodesAssumption
  <2>2. NoNode.size = 0 /\ NoNode.zone = NoZones
    BY DEF NoNode
  <2>3. FileNode = [NoNode EXCEPT !.mode = "reg", !.nlinks = 1]
    BY DEF FileNode
  <2>4. /\ FileNode.nlinks = 1 /\ FileNode.mode = "reg" /\ FileNode.size = 0
        /\ FileNode.zone = NoZones
    BY DEF FileNode, NoNode
  <2>5. FileNode \in Node
    <3> HIDE DEF FileNode, NoNode
    <3> QED
      BY <2>1, <2>3, <1>4 DEF Node
  <2> QED
    BY <2>4, <2>5
<1>6. Empty \in TabEntry /\ Empty.num = 0 /\ Empty.cnt = 0 /\ ~Empty.dirt
  BY <1>4 DEF Empty, TabEntry
<1>7. FreeFile \in FileRec /\ FreeFile.cnt = 0 /\ ~FreeFile.append
  <2>1. 0 \in Slot
    BY Sizes DEF Slot
  <2> QED
    BY <2>1 DEF FreeFile, FileRec
<1>8. fs.table \in [Slot -> TabEntry] /\ \A s \in Slot : fs.table[s] = Empty
  BY <1>1, <1>6
<1>9. fs.dev \in [Inr -> Node] /\ fs.dev[FileNr] = FileNode /\ fs.dev[OtherNr] = FileNode
  <2> HIDE DEF FileNode, NoNode, Node
  <2> QED
    BY <1>1, <1>2, <1>4, <1>5
<1>10. IsFs(fs)
  <2>1. DOMAIN fs.body = Blk /\ \A b \in Blk : DOMAIN fs.body[b] \subseteq 0 .. BlkSize - 1
    BY <1>1 DEF ZeroBlk
  <2> QED
    BY <1>1, <1>8, <1>9, <2>1 DEF IsFs
<1>11. OneFileTable(fs)
  <2>1. \A s \in Slot : fs.table[s].num = 0 /\ fs.table[s].cnt = 0 /\ ~fs.table[s].dirt
    BY <1>6, <1>8
  <2>2. Unique(fs) /\ \A s \in Slot : SlotOK(fs, fs.table[s])
    BY <1>2, <2>1 DEF Unique, SlotOK
  <2> QED
    BY <1>1, <1>5, <1>9, <1>10, <2>2 DEF OneFileTable
<1>12. Cur(fs) = FileNode
  BY <1>2, <1>6, <1>8, <1>9, EntryIsNot DEF Cur
<1>13. Cur(fs).zone = NoZones /\ Cur(fs).size = 0
  BY <1>5, <1>12
<1>14. DataOK(fs)
  <2>1. Owns(fs, NoZones)
    <3>1. \A x \in Places : Part(fs, NoZones, x) = 0
      BY NoParts
    <3> QED
      BY <1>1, <1>3, <3>1, Sizes DEF Owns
  <2> QED
    BY <1>13, <2>1, NoData DEF DataOK
<1>15. SizeOK(fs)
  BY <1>13, NoData, ByteIsData DEF SizeOK
<1>16. files \in [OpenFile -> FileRec] /\ \A i \in OpenFile : files[i].cnt = 0 /\ ~files[i].append
  BY <1>1, <1>7
<1>17. Counted(fs, files)
  BY <1>2, <1>6, <1>8, <1>16 DEF Counted
<1>18. FsOK(fs, files)
  BY <1>1, <1>11, <1>14, <1>15, <1>16, <1>17 DEF FsOK, Going
<1> QED
  BY <1>1, <1>15, <1>18, NothingOK DEF JInv

\* A call that fails or is about another file does not touch this one.
LEMMA OtherJ ==
    ASSUME JInv, OpenFails \/ Elsewhere \/ Sync, Owned'
    PROVE  JInv' /\ SameFile(fs, fs') /\ UNCHANGED <<filp, files>> /\ ret' = Nothing
<1>1. FsOK(fs, files) /\ OneFileTable(fs) /\ fs.status = "ok"
  BY DEF JInv, FsOK, OpenFails, Elsewhere, Sync, Running
<1>2. UNCHANGED <<filp, files>> /\ ret' = Nothing /\ (Even' => Even)
  BY DEF OpenFails, Elsewhere, Sync, Even
<1>3. FsOK(fs', files) /\ SameFile(fs, fs')
  <2>1. CASE OpenFails
    BY <1>1, <2>1 DEF OpenFails, SameFile
  <2>2. CASE Elsewhere
    <3> DEFINE g == Iget(fs, OtherNr)
               h == Iput(g, Entry(g, OtherNr))
    <3>1. /\ g.status = "ok" /\ h.status = "ok"
          /\ OneFileTable(h) /\ SameFile(fs, h)
          /\ \A t \in Slot : fs.table[t].num = FileNr /\ fs.table[t].cnt # 0
                             => h.table[t].num = FileNr
          /\ \A t \in Slot : h.table[t].num = FileNr => h.table[t] = fs.table[t]
      <4>1. Emptied(fs) => Has(g, FileNr)
        BY <2>2 DEF Elsewhere, Owned
      <4> QED
        BY <1>1, <4>1, GetsOther
    <3>2. fs' = h
      BY <2>2, <3>1 DEF Elsewhere
    <3> HIDE DEF h
    <3>3. FsOK(h, files)
      BY <1>1, <3>1, SameKeeps
    <3> QED
      BY <3>1, <3>2, <3>3
  <2>3. CASE Sync
    <3> DEFINE h == SyncInodes(fs)
    <3>1. /\ OneFileTable(h) /\ SameFile(fs, h) /\ h.status = fs.status
          /\ \A t \in Slot : h.table[t].num = fs.table[t].num /\ h.table[t].cnt = fs.table[t].cnt
      BY <1>1, SyncsFile
    <3>2. fs' = h
      BY <2>3 DEF Sync
    <3> HIDE DEF h
    <3>3. FsOK(h, files)
      BY <1>1, <3>1, SameKeeps
    <3> QED
      BY <3>1, <3>2, <3>3
  <2> QED
    BY <2>1, <2>2, <2>3
<1>4. Even' => SizeOK(fs')
  BY <1>2, <1>3, SizeKept DEF JInv
<1> QED
  BY <1>2, <1>3, <1>4, NothingOK DEF JInv
\* An empty file ends before its first block.
LEMMA EmptySizeOK ==
    ASSUME NEW f, Cur(f).size = 0, Cur(f).zone = NoZones
    PROVE  SizeOK(f)
BY NoData, ByteIsData DEF SizeOK

\* open_namei gets the file, and empties it for O_TRUNC.
LEMMA OpenedIs ==
    ASSUME OneFileTable(fs), DataOK(fs), fs.status = "ok", Even => SizeOK(fs),
           NEW trunc \in BOOLEAN
    PROVE  LET h == Opened(trunc)
               s == Entry(h, FileNr)
           IN  /\ OneFileTable(h) /\ DataOK(h) /\ h.status = "ok" /\ (Even => SizeOK(h))
               /\ s \in Slot /\ h.table[s].num = FileNr
               /\ fs.table[s].num = FileNr => h.table[s].cnt = fs.table[s].cnt + 1
               /\ fs.table[s].num # FileNr => ~Has(fs, FileNr) /\ h.table[s].cnt = 1
               /\ IF trunc THEN Cur(h).size = 0 ELSE SameFile(fs, h)
<1> DEFINE g == Iget(fs, FileNr)
           s == Entry(g, FileNr)
           h == ClearBlocks(g, s)
<1>1. /\ OneFileTable(g) /\ SameFile(fs, g) /\ g.status = "ok"
      /\ s \in Slot /\ g.table[s].num = FileNr /\ g.table[s].cnt \in Nat \ {0}
      /\ fs.table[s].num = FileNr => g.table[s].cnt = fs.table[s].cnt + 1
      /\ fs.table[s].num # FileNr => ~Has(fs, FileNr) /\ g.table[s].cnt = 1
  BY GetsFile
<1>2. DataOK(g) /\ (Even => SizeOK(g))
  BY <1>1, SameFileKeeps, SizeKept
<1>3. CASE trunc
  <2>1. /\ OneFileTable(h) /\ DataOK(h) /\ h.status = "ok"
        /\ Cur(h).size = 0 /\ Cur(h).zone = NoZones
        /\ \A t \in Slot : h.table[t].num = g.table[t].num /\ h.table[t].cnt = g.table[t].cnt
        /\ \A n : Entry(h, n) = Entry(g, n)
    <3> HIDE DEF s, g
    <3>1. g.table[s].cnt # 0
      BY <1>1
    <3> QED
      BY <1>1, <1>2, <3>1, EmptiesFile
  <2>2. Opened(trunc) = h
    BY <1>3 DEF Opened
  <2> HIDE DEF h, s
  <2>3. SizeOK(h)
    BY <2>1, EmptySizeOK
  <2>4. Entry(h, FileNr) = s
    BY <2>1 DEF s
  <2> HIDE DEF g
  <2> QED
    BY <1>1, <1>3, <2>1, <2>2, <2>3, <2>4
<1>4. CASE ~trunc
  <2>1. Opened(trunc) = g
    BY <1>4 DEF Opened
  <2> HIDE DEF g
  <2> QED
    BY <1>1, <1>2, <1>4, <2>1
<1> QED
  BY <1>3, <1>4

\* A new user of the file.
LEMMA OpenJ ==
    ASSUME JInv, NEW p \in Proc, NEW trunc \in BOOLEAN, NEW append \in BOOLEAN,
           Open(p, trunc, append)
    PROVE  JInv' /\ (SameFile(fs, fs') \/ Cur(fs').size = 0)
<1> DEFINE h == Opened(trunc)
           s == Entry(h, FileNr)
           x == [cnt |-> 1, append |-> append, pos |-> 0, inode |-> s]
<1>1. /\ FsOK(fs, files) /\ OneFileTable(fs) /\ DataOK(fs) /\ fs.status = "ok"
      /\ Even => SizeOK(fs)
  BY DEF JInv, FsOK, Open, Running
<1>2. /\ OneFileTable(h) /\ DataOK(h) /\ h.status = "ok" /\ (Even => SizeOK(h))
      /\ s \in Slot /\ h.table[s].num = FileNr
      /\ fs.table[s].num = FileNr => h.table[s].cnt = fs.table[s].cnt + 1
      /\ fs.table[s].num # FileNr => ~Has(fs, FileNr) /\ h.table[s].cnt = 1
      /\ IF trunc THEN Cur(h).size = 0 ELSE SameFile(fs, h)
  BY <1>1, OpenedIs
<1>3. PICK i \in OpenFile : FirstFile(i) /\ files' = [files EXCEPT ![i] = x]
  BY DEF Open
<1>4. fs' = h /\ ret' = Nothing
  BY DEF Open
<1>5. Even' = Even
  BY DEF Open, Even
<1>6. /\ x \in FileRec /\ x.cnt = 1 /\ x.inode = s /\ x.append = append
  BY <1>2 DEF FileRec
<1> HIDE DEF h, s, x
<1>7. files \in [OpenFile -> FileRec] /\ Counted(fs, files) /\ files[i].cnt = 0
  BY <1>1, <1>3 DEF FsOK, FirstFile
<1>8. /\ files' \in [OpenFile -> FileRec] /\ files'[i] = x
      /\ \A j \in OpenFile : j # i => files'[j] = files[j]
  BY <1>3, <1>6, <1>7
<1>9. Users(files') = Users(files) \cup {i} /\ i \notin Users(files)
  BY <1>6, <1>7, <1>8 DEF Users
<1>10. Cardinality(Users(files')) = Cardinality(Users(files)) + 1
  BY <1>9, UsersFinite
<1>11. \A t \in Slot : fs.table[t].num = FileNr => t = s /\ fs.table[s].num = FileNr
  <2>1. Unique(fs) /\ FileNr # 0
    BY <1>1, Numbers DEF OneFileTable
  <2> QED
    BY <1>2, <2>1 DEF Has, Unique
<1>12. \A t \in Slot : h.table[t].num = FileNr => t = s
  <2>1. Unique(h) /\ FileNr # 0
    BY <1>2, Numbers DEF OneFileTable
  <2> QED
    BY <1>2, <2>1 DEF Unique
<1>13. h.table[s].cnt = Cardinality(Users(files'))
  <2>1. CASE fs.table[s].num = FileNr
    BY <1>2, <1>7, <1>10, <2>1 DEF Counted
  <2>2. CASE fs.table[s].num # FileNr
    <3>1. Users(files) = {}
      <4>1. ASSUME NEW j \in OpenFile, files[j].cnt # 0 PROVE FALSE
        <5>1. files[j].inode \in Slot
          BY <1>7 DEF FileRec
        <5>2. fs.table[files[j].inode].num = FileNr
          BY <1>7, <4>1 DEF Counted
        <5> QED
          BY <1>11, <2>2, <5>1, <5>2
      <4> QED
        BY <4>1 DEF Users
    <3>2. Cardinality(Users(files)) = 0
      BY <3>1, UsersFinite
    <3>3. Cardinality(Users(files')) = 1
      BY <1>10, <3>2
    <3> QED
      BY <1>2, <2>2, <3>3
  <2> QED
    BY <2>1, <2>2
<1>14. Counted(h, files')
  <2>1. ASSUME NEW j \in OpenFile, files'[j].cnt # 0
        PROVE  h.table[files'[j].inode].num = FileNr
    <3>1. CASE j = i
      BY <1>2, <1>6, <1>8, <3>1
    <3>2. CASE j # i
      <4>1. files[j].inode \in Slot
        BY <1>7 DEF FileRec
      <4>2. files[j].inode = s
        BY <1>7, <1>8, <1>11, <2>1, <3>2, <4>1 DEF Counted
      <4> QED
        BY <1>2, <1>8, <3>2, <4>2
    <3> QED
      BY <3>1, <3>2
  <2> QED
    BY <1>12, <1>13, <2>1 DEF Counted
<1>15. FsOK(h, files')
  BY <1>2, <1>8, <1>14 DEF FsOK, Going
<1> QED
  BY <1>2, <1>4, <1>5, <1>15, NothingOK DEF JInv
\* One user less.
LEMMA CloseJ ==
    ASSUME IInv, JInv, NEW p \in Proc, NEW d \in Filp, Close(p, d)
    PROVE  JInv' /\ SameFile(fs, fs')
<1> DEFINE i == filp[p][d]
           s == files[i].inode
           g == Iput(fs, s)
<1>1. filp[p][d] # None
  BY DEF Close
<1>2. /\ i \in OpenFile /\ files[i].cnt = 1
      /\ s \in Slot /\ fs.table[s].num = FileNr
      /\ fs.table[s].cnt = Cardinality(Users(files))
      /\ fs.table[s].cnt \in Nat \ {0}
      /\ i \in Users(files)
  BY <1>1, Opens
<1>3. ret' = Nothing /\ Even' = Even
  BY DEF Close, Even
<1>4. fs' = g /\ files' = [files EXCEPT ![i] = FreeFile]
  <2>1. /\ files' = [files EXCEPT ![i] = IF files[i].cnt - 1 > 0
                                         THEN [files[i] EXCEPT !.cnt = files[i].cnt - 1]
                                         ELSE FreeFile]
        /\ fs' = IF files[i].cnt = 0 THEN Crash(fs, "file not open")
                 ELSE IF files[i].cnt = 1 THEN Iput(fs, files[i].inode)
                 ELSE fs
    BY DEF Close
  <2> QED
    BY <1>2, <2>1
<1> HIDE DEF i, s
<1>5. FsOK(fs, files) /\ OneFileTable(fs) /\ files \in [OpenFile -> FileRec] /\ Counted(fs, files)
  BY DEF JInv, FsOK
<1>6. /\ OneFileTable(g) /\ SameFile(fs, g) /\ g.status = fs.status
      /\ \A t \in Slot : g.table[t].num = fs.table[t].num
      /\ g.table[s].cnt = fs.table[s].cnt - 1
  <2>1. fs.table[s].cnt > 0
    BY <1>2
  <2> QED
    BY <1>2, <1>5, <2>1, PutsFile
<1> HIDE DEF g
<1>7. FreeFile \in FileRec /\ FreeFile.cnt = 0 /\ ~FreeFile.append
  <2>1. 0 \in Slot
    BY Sizes DEF Slot
  <2> QED
    BY <2>1 DEF FreeFile, FileRec
<1>8. /\ files' \in [OpenFile -> FileRec] /\ files'[i] = FreeFile
      /\ \A j \in OpenFile : j # i => files'[j] = files[j]
  BY <1>2, <1>4, <1>5, <1>7
<1>9. Users(files') = Users(files) \ {i}
  BY <1>7, <1>8 DEF Users
<1>10. Cardinality(Users(files')) = Cardinality(Users(files)) - 1
  BY <1>2, <1>9, UsersFinite
<1>11. Counted(g, files')
  <2>1. ASSUME NEW j \in OpenFile, files'[j].cnt # 0
        PROVE  g.table[files'[j].inode].num = FileNr
    <3>1. j # i /\ files'[j] = files[j] /\ files[j].inode \in Slot
      BY <1>5, <1>7, <1>8, <2>1 DEF FileRec
    <3> QED
      BY <1>5, <1>6, <2>1, <3>1 DEF Counted
  <2>2. \A t \in Slot : g.table[t].num = FileNr => t = s
    BY <1>2, <1>6, Numbers DEF OneFileTable, Unique
  <2>3. g.table[s].cnt = Cardinality(Users(files'))
    BY <1>2, <1>6, <1>10
  <2> QED
    BY <2>1, <2>2, <2>3 DEF Counted
<1>12. DataOK(g)
  BY <1>5, <1>6, SameFileKeeps DEF FsOK
<1>13. Even => SizeOK(g)
  BY <1>6, SizeKept DEF JInv
<1>14. FsOK(g, files')
  BY <1>5, <1>6, <1>7, <1>8, <1>11, <1>12 DEF FsOK, Going
<1> QED
  BY <1>3, <1>4, <1>6, <1>13, <1>14, NothingOK DEF JInv

\* A position is moved.
LEMMA MovesJ ==
    ASSUME NEW f, NEW fl, FsOK(f, fl), NEW i \in OpenFile, NEW x \in Nat
    PROVE  FsOK(f, [fl EXCEPT ![i].pos = x])
<1> DEFINE e == [fl[i] EXCEPT !.pos = x]
           fl1 == [fl EXCEPT ![i] = e]
<1>1. fl \in [OpenFile -> FileRec] /\ fl[i] \in FileRec
  BY DEF FsOK
<1>2. /\ e \in FileRec /\ e.cnt = fl[i].cnt /\ e.inode = fl[i].inode
      /\ e.append = fl[i].append
  BY <1>1 DEF FileRec
<1>3. [fl EXCEPT ![i].pos = x] = fl1
  OBVIOUS
<1> HIDE DEF e
<1>4. /\ fl1 \in [OpenFile -> FileRec]
      /\ \A j \in OpenFile : /\ fl1[j].cnt = fl[j].cnt /\ fl1[j].inode = fl[j].inode
                             /\ fl1[j].append = fl[j].append
  BY <1>1, <1>2
<1> HIDE DEF fl1
<1>5. Users(fl1) = Users(fl)
  BY <1>4 DEF Users
<1>6. Counted(f, fl1)
  BY <1>4, <1>5 DEF FsOK, Counted
<1>7. FsOK(f, fl1)
  BY <1>4, <1>6 DEF FsOK
<1> QED
  BY <1>3, <1>7

\* The offset of lseek from the start or the position is unsigned.
LEMMA SeekJ ==
    ASSUME IInv, JInv, NEW p \in Proc, NEW d \in Filp, NEW k \in Seeks, Seek(p, d, k[1], k[2])
    PROVE  JInv'
<1> DEFINE i == filp[p][d]
           s == files[i].inode
           t == Target(i, k[1], k[2])
<1>1. /\ filp[p][d] # None /\ ret' = Nothing /\ fs' = fs /\ Even' = Even
      /\ files' = IF t < 0 THEN files ELSE [files EXCEPT ![i].pos = t]
  BY DEF Seek, Even
<1>2. /\ i \in OpenFile /\ files[i] \in FileRec
      /\ Cur(fs) = fs.table[s].node /\ Cur(fs) \in Node
  BY <1>1, Opens
<1> HIDE DEF i
<1>3. k[1] \in 0 .. 2 /\ k[2] \in Int
  BY FilesAssumption
<1>4. files[i].pos \in Nat /\ fs.table[s].node.size \in Nat
  BY <1>2 DEF FileRec, Node
<1>5. k[2] % Word \in Nat
  BY <1>3, FilesAssumption
<1>6. t \in Int
  BY <1>3, <1>4, <1>5 DEF Target
<1> HIDE DEF t
<1>7. FsOK(fs, files)
  BY DEF JInv
<1>8. CASE t < 0
  BY <1>1, <1>7, <1>8, NothingOK DEF JInv
<1>9. CASE t >= 0
  <2>1. FsOK(fs, [files EXCEPT ![i].pos = t])
    BY <1>2, <1>6, <1>7, <1>9, MovesJ
  <2> QED
    BY <1>1, <1>6, <1>9, <2>1, NothingOK DEF JInv
<1> QED
  BY <1>6, <1>8, <1>9
\* A file has every block before one it has.
LEMMA BlocksBelow ==
    ASSUME NEW a \in Nat, NEW b \in Nat, a <= b, b \div BlkSize \in FileBlk
    PROVE  a \div BlkSize \in FileBlk
<1> DEFINE k == a \div BlkSize
           j == b \div BlkSize
           top == Direct + PerInd + PerInd * PerInd - 1
<1>1. BlkSize \in Nat \ {0} /\ top \in Int
  BY Sizes
<1>2. /\ k \in Nat /\ a % BlkSize \in 0 .. BlkSize - 1 /\ a = k * BlkSize + (a % BlkSize)
      /\ j \in Nat /\ b % BlkSize \in 0 .. BlkSize - 1 /\ b = j * BlkSize + (b % BlkSize)
  BY <1>1, Divided
<1>3. j \in 0 .. top
  BY DEF FileBlk
<1> HIDE DEF k, j, top
<1>4. k <= j
  <2>1. SUFFICES ASSUME k >= j + 1 PROVE FALSE
    BY <1>2
  <2>2. k * BlkSize >= (j + 1) * BlkSize /\ (j + 1) * BlkSize = j * BlkSize + BlkSize
    BY <1>1, <1>2, <2>1
  <2>3. k * BlkSize \in Nat /\ j * BlkSize \in Nat
    BY <1>1, <1>2
  <2> QED
    BY <1>1, <1>2, <2>2, <2>3
<1>5. k \in 0 .. top
  BY <1>1, <1>2, <1>3, <1>4
<1> QED
  BY <1>5 DEF k, top, FileBlk

\* The end of the machine is no end of the file.
LEMMA CrashSame ==
    ASSUME NEW f, OneFileTable(f), NEW why
    PROVE  /\ OneFileTable(Crash(f, why)) /\ SameFile(f, Crash(f, why))
           /\ \A t \in Slot : Crash(f, why).table[t] = f.table[t]
<1> DEFINE g == Crash(f, why)
<1>1. /\ DOMAIN g = Fields /\ g.table = f.table /\ g.dev = f.dev /\ g.body = f.body
      /\ g.zmap = f.zmap /\ g.imap = f.imap /\ g.pinned = f.pinned
  BY DEF OneFileTable, IsFs, Crash, Fields
<1> HIDE DEF g
<1>2. IsFs(g) /\ Unique(g)
  BY <1>1 DEF OneFileTable, IsFs, Unique
<1>3. OneFileTable(g)
  BY <1>1, <1>2 DEF OneFileTable, SlotOK
<1>4. Cur(g) = Cur(f)
  BY <1>1 DEF Cur, Current
<1> QED
  BY <1>1, <1>3, <1>4 DEF SameFile, g

\* How many bytes a read of count gets.
Got(i, count) ==
    LET left == fs.table[files[i].inode].node.size - files[i].pos
    IN  IF left < 0 THEN 0 ELSE IF count > left THEN left ELSE count

\* What do_read returns, and where it leaves the position.
ReadIs(i, count) ==
    LET pos == files[i].pos
        n   == Got(i, count)
    IN  /\ n \in Nat /\ (n # 0 => pos + n <= Cur(fs).size)
        /\ \A j \in 1 .. n : (pos + j - 1) \div BlkSize \in FileBlk
        /\ fs' = fs /\ files' = [files EXCEPT ![i].pos = pos + n]
        /\ ret' = [n |-> n, data |-> [j \in 1 .. n |-> ByteAt(fs, Cur(fs).zone, pos + j - 1)]]

\* do_read stops the machine only where a write aside has set the size too high.
LEMMA ReadJ ==
    ASSUME IInv, JInv, NEW p \in Proc, NEW d \in Filp, NEW count \in Counts, Read(p, d, count)
    PROVE  /\ JInv' /\ SameFile(fs, fs')
           /\ Even => ReadIs(filp[p][d], count)
<1> DEFINE i == filp[p][d]
           pos == files[i].pos
           n == Got(i, count)
           tooBig == n > 0 /\ (pos + n - 1) \div BlkSize \notin FileBlk
<1>1. filp[p][d] # None /\ Even' = Even
  BY DEF Read, Even
<1>2. /\ i \in OpenFile /\ files[i] \in FileRec
      /\ Cur(fs) = fs.table[files[i].inode].node /\ Cur(fs) \in Node
  BY <1>1, Opens
<1>3. /\ fs' = IF tooBig THEN Crash(fs, "block too big") ELSE fs
      /\ ret' = IF tooBig THEN Nothing
                ELSE [n |-> n, data |-> [j \in 1 .. n |-> ByteAt(fs, Cur(fs).zone, pos + j - 1)]]
      /\ files' = IF tooBig THEN files ELSE [files EXCEPT ![i].pos = pos + n]
  BY <1>2 DEF Read, Got
<1> HIDE DEF i
<1>4. pos \in Nat /\ Cur(fs).size \in Nat /\ count \in Nat
  BY <1>2, FilesAssumption DEF FileRec, Node
<1>5. n \in Nat /\ (n # 0 => pos + n <= Cur(fs).size)
  BY <1>2, <1>4 DEF Got
<1> HIDE DEF n
<1>6. FsOK(fs, files) /\ OneFileTable(fs) /\ DataOK(fs)
  BY DEF JInv, FsOK
<1>7. CASE tooBig
  <2> DEFINE g == Crash(fs, "block too big")
  <2>1. ~Even
    <3>1. SUFFICES ASSUME Even PROVE FALSE
      OBVIOUS
    <3>2. pos + n - 1 \in Nat /\ pos + n - 1 < Cur(fs).size
      BY <1>4, <1>5, <1>7
    <3> QED
      BY <1>7, <3>1, <3>2 DEF JInv, SizeOK
  <2>2. /\ OneFileTable(g) /\ SameFile(fs, g) /\ \A t \in Slot : g.table[t] = fs.table[t]
    BY <1>6, CrashSame
  <2>3. fs' = g /\ files' = files /\ ret' = Nothing
    BY <1>3, <1>7
  <2> HIDE DEF g
  <2>4. DataOK(g)
    BY <1>6, <2>2, SameFileKeeps
  <2>5. Counted(g, files)
    <3>1. \A j \in OpenFile : files[j].inode \in Slot
      BY <1>6 DEF FsOK, FileRec
    <3> QED
      BY <1>6, <2>2, <3>1 DEF FsOK, Counted
  <2>6. FsOK(g, files)
    <3>1. g.status = "block too big"
      BY <1>6 DEF g, Crash, OneFileTable, IsFs, Fields
    <3> QED
      BY <1>6, <2>2, <2>4, <2>5, <3>1 DEF FsOK, Going
  <2> QED
    BY <1>1, <2>1, <2>2, <2>3, <2>6, NothingOK DEF JInv
<1>8. CASE ~tooBig
  <2>1. /\ fs' = fs /\ files' = [files EXCEPT ![i].pos = pos + n]
        /\ ret' = [n |-> n, data |-> [j \in 1 .. n |-> ByteAt(fs, Cur(fs).zone, pos + j - 1)]]
    BY <1>3, <1>8
  <2>2. \A j \in 1 .. n : pos + j - 1 \in Nat /\ (pos + j - 1) \div BlkSize \in FileBlk
    <3> TAKE j \in 1 .. n
    <3>1. /\ pos + j - 1 \in Nat /\ pos + n - 1 \in Nat /\ pos + j - 1 <= pos + n - 1 /\ n > 0
      BY <1>4, <1>5
    <3>2. (pos + n - 1) \div BlkSize \in FileBlk
      BY <1>8, <3>1
    <3> QED
      BY <3>1, <3>2, BlocksBelow
  <2>3. \A j \in 1 .. n : ByteAt(fs, Cur(fs).zone, pos + j - 1) \in Byte \cup {0}
    BY <1>6, <2>2, ByteIsData DEF DataOK
  <2>4. RetOK(ret')
    <3> DEFINE data == [j \in 1 .. n |-> ByteAt(fs, Cur(fs).zone, pos + j - 1)]
    <3>1. data \in [1 .. n -> Byte \cup {0}]
      BY <2>3
    <3>2. ret'.n = n /\ ret'.data = data
      BY <2>1
    <3> HIDE DEF data
    <3>3. data \in Seq(Byte \cup {0})
      <4>1. Seq(Byte \cup {0}) = UNION {[1 .. m -> Byte \cup {0}] : m \in Nat}
        BY SeqDef, Zenon
      <4> QED
        BY <1>5, <3>1, <4>1, Zenon
    <3> QED
      BY <1>5, <3>2, <3>3 DEF RetOK
  <2>5. FsOK(fs', files')
    <3> DEFINE x == pos + n
    <3>1. x \in Nat
      BY <1>4, <1>5
    <3>2. fs' = fs /\ files' = [files EXCEPT ![i].pos = x]
      BY <2>1
    <3> HIDE DEF x
    <3>3. FsOK(fs, [files EXCEPT ![i].pos = x])
      BY <1>2, <1>6, <3>1, MovesJ
    <3> QED
      BY <3>2, <3>3
  <2>6. ReadIs(i, count)
    BY <1>5, <2>1, <2>2 DEF ReadIs, n
  <2> QED
    BY <1>1, <2>1, <2>4, <2>5, <2>6 DEF JInv, SameFile, i
<1> QED
  BY <1>7, <1>8
\* A write promises nothing before its first block.
LEMMA StartsThere ==
    ASSUME JInv, fs.status = "ok", NEW s \in Slot, fs.table[s].num = FileNr,
           NEW p \in Nat, NEW q \in Nat, NEW count \in Nat, NEW c,
           NEW w, w = [f |-> fs, pos |-> p, fpos |-> q, cnt |-> count, written |-> 0]
    PROVE  Wrote(fs, w, s, p, q, count, c)
<1>1. OneFileTable(fs) /\ DataOK(fs) /\ IsFs(fs) /\ Unique(fs)
  BY DEF JInv, FsOK, OneFileTable
<1>2. Cur(fs).zone = Zones(fs, s)
  BY <1>1, CurrentIs DEF Zones
<1>3. /\ DOMAIN w = {"f", "pos", "fpos", "cnt", "written"}
      /\ w.f = fs /\ w.pos = p /\ w.fpos = q /\ w.cnt = count /\ w.written = 0
  OBVIOUS
<1>4. Has1(w.f, s) /\ Touches(fs, w.f, s)
  BY <1>1, <1>2, <1>3 DEF Has1, DataOK, Touches
<1>5. w.pos = p + w.written /\ w.fpos = q + w.written /\ w.written + w.cnt <= count
  BY <1>3
<1>6. \A k \in FileBlk, o \in Nat : Data(w.f, Zones(w.f, s), k, o) \in Byte \cup {0}
  BY <1>1, <1>2, <1>3 DEF DataOK
<1>7. Filled(fs, w, s, p, c)
  BY <1>3 DEF Filled
<1> QED
  BY <1>3, <1>4, <1>5, <1>6, <1>7 DEF Wrote, Going

\* What a call of do_write on entry i does to FS.
LEMMA WrittenWrote ==
    ASSUME JInv, fs.status = "ok", NEW i \in OpenFile, files[i].inode \in Slot,
           fs.table[files[i].inode].num = FileNr, NEW q \in Nat, q = files[i].pos,
           Size(fs, files[i].inode) \in Nat, NEW count \in Nat, NEW c \in Byte
    PROVE  Wrote(fs, Written(i, count, c), files[i].inode,
                 IF files[i].append THEN Size(fs, files[i].inode) ELSE q, q, count, c)
<1> DEFINE s == files[i].inode
           p == IF files[i].append THEN Size(fs, s) ELSE q
           start == [f |-> fs, pos |-> p, fpos |-> q, cnt |-> count, written |-> 0]
           r == CHOOSE x : Writes(x, start, s, c, count)
<1>1. Written(i, count, c) = r[count]
  BY DEF Written, Writes, Size
<1>2. p \in Nat
  OBVIOUS
<1> HIDE DEF p
<1>3. Wrote(fs, start, s, p, q, count, c)
  BY <1>2, StartsThere
<1> HIDE DEF start, s
<1>4. Writes(r, start, s, c, count)
  BY WritesExist
<1> HIDE DEF r
<1>5. Wrote(fs, r[count], s, p, q, count, c)
  BY <1>2, <1>3, <1>4, WritesAll DEF s
<1> QED
  BY <1>1, <1>5 DEF p, s
\* The inode of the file after a write.
LEMMA WroteKeeps ==
    ASSUME NEW f, NEW fl, FsOK(f, fl), f.status = "ok", NEW s \in Slot,
           f.table[s].num = FileNr, f.table[s].cnt # 0,
           NEW w, NEW p \in Nat, NEW q \in Nat, NEW count, NEW c,
           Wrote(f, w, s, p, q, count, c)
    PROVE  /\ FsOK(w.f, fl)
           /\ p = q /\ SizeOK(f) => SizeOK(w.f)
           /\ Cur(w.f).zone = Zones(w.f, s) /\ Cur(w.f).size = Size(w.f, s)
           /\ Cur(f).zone = Zones(f, s) /\ Cur(f).size = Size(f, s)
<1> DEFINE g == w.f
<1>1. /\ OneFileTable(f) /\ IsFs(f) /\ Unique(f) /\ f.pinned = {} /\ Counted(f, fl)
      /\ \A t \in Slot : SlotOK(f, f.table[t])
      /\ FileNr # 0
  BY Numbers DEF FsOK, OneFileTable
<1>2. /\ Has1(g, s) /\ Touches(f, g, s) /\ w.written \in Nat
      /\ \A k \in FileBlk, o \in Nat : Data(g, Zones(g, s), k, o) \in Byte \cup {0}
      /\ Going(g)
      /\ p = q => Filled(f, w, s, p, c)
  BY DEF Wrote
<1> HIDE DEF g
<1>3. /\ g.dev = f.dev /\ g.pinned = {}
      /\ \A t \in Slot : g.table[t].num = f.table[t].num /\ g.table[t].cnt = f.table[t].cnt
      /\ \A t \in Slot \ {s} : g.table[t] = f.table[t]
      /\ g.table[s].node.mode = f.table[s].node.mode
      /\ g.table[s].node.nlinks = f.table[s].node.nlinks
  BY <1>1, <1>2 DEF Touches
<1>4. IsFs(g) /\ Unique(g)
  BY <1>1, <1>2, <1>3 DEF Has1, Unique
<1>5. \A t \in Slot : SlotOK(g, g.table[t])
  <2> TAKE t \in Slot
  <2>1. CASE t = s
    BY <1>1, <1>3, <2>1 DEF SlotOK
  <2>2. CASE t # s
    BY <1>1, <1>3, <2>2 DEF SlotOK
  <2> QED
    BY <2>1, <2>2
<1>6. OneFileTable(g)
  BY <1>1, <1>3, <1>4, <1>5 DEF OneFileTable
<1>7. /\ Cur(g) = g.table[s].node /\ Cur(f) = f.table[s].node
  <2>1. g.table[s].num = FileNr
    BY <1>3
  <2> QED
    BY <1>1, <1>4, <2>1, CurrentIs
<1>8. /\ Cur(g).zone = Zones(g, s) /\ Cur(g).size = Size(g, s)
      /\ Cur(f).zone = Zones(f, s) /\ Cur(f).size = Size(f, s)
  BY <1>7 DEF Zones, Size
<1>9. DataOK(g)
  BY <1>2, <1>8 DEF DataOK, Has1
<1>10. Counted(g, fl)
  <2>1. \A i \in OpenFile : fl[i].inode \in Slot
    BY DEF FsOK, FileRec
  <2> QED
    BY <1>1, <1>3, <2>1 DEF Counted
<1>11. ASSUME p = q, SizeOK(f)
       PROVE  SizeOK(g)
  <2> DEFINE n == w.written
             old == Size(f, s)
             new == Size(g, s)
  <2>1. old \in Nat
    BY DEF FsOK, OneFileTable, IsFs, TabEntry, Node, Size
  <2>2. /\ \A x \in p .. p + n - 1 : x \div BlkSize \in FileBlk
        /\ new = IF n = 0 \/ p + n <= old THEN old ELSE p + n
        /\ \A x \in Nat : x \div BlkSize \in FileBlk =>
              ByteAt(g, Cur(g).zone, x) = IF x \in p .. p + n - 1 THEN c
                                          ELSE ByteAt(f, Cur(f).zone, x)
    BY <1>2, <1>8, <1>11 DEF Filled, g
  <2>3. /\ \A x \in Nat : x < old => x \div BlkSize \in FileBlk
        /\ \A x \in Nat : x >= old /\ x \div BlkSize \in FileBlk
                            => ByteAt(f, Cur(f).zone, x) = 0
    BY <1>8, <1>11 DEF SizeOK
  <2> HIDE DEF n, old, new
  <2>4. n \in Nat
    BY <1>2 DEF n
  <2>5. ASSUME NEW x \in Nat, x < new
        PROVE  x \div BlkSize \in FileBlk
    <3>1. CASE x < old
      BY <2>3, <3>1
    <3>2. CASE x >= old
      <4>1. n # 0 /\ x <= p + n - 1 /\ p + n - 1 \in p .. p + n - 1 /\ p + n - 1 \in Nat
        BY <2>1, <2>2, <2>4, <2>5, <3>2
      <4>2. (p + n - 1) \div BlkSize \in FileBlk
        BY <2>2, <4>1
      <4> QED
        BY <4>1, <4>2, BlocksBelow
    <3> QED
      BY <2>1, <3>1, <3>2
  <2>6. ASSUME NEW x \in Nat, x >= new, x \div BlkSize \in FileBlk
        PROVE  ByteAt(g, Cur(g).zone, x) = 0
    <3>1. x >= old /\ x \notin p .. p + n - 1
      BY <2>1, <2>2, <2>4, <2>6
    <3> QED
      BY <2>2, <2>3, <2>6, <3>1
  <2> QED
    BY <1>8, <2>5, <2>6 DEF SizeOK, new
<1>12. FsOK(g, fl)
  BY <1>2, <1>6, <1>9, <1>10 DEF FsOK
<1> QED
  BY <1>8, <1>11, <1>12 DEF g

\* What do_write returns, and what is in the file then.
WriteIs(i, c) ==
    LET pos == files[i].pos
        n   == ret'.n
    IN  /\ n \in Nat /\ ret'.data = <<>>
        /\ files' = [files EXCEPT ![i].pos = pos + n]
        /\ Cur(fs').size = IF n = 0 \/ pos + n <= Cur(fs).size THEN Cur(fs).size ELSE pos + n
        /\ \A x \in Nat : x \div BlkSize \in FileBlk =>
              ByteAt(fs', Cur(fs').zone, x) = IF x \in pos .. pos + n - 1 THEN c
                                              ELSE ByteAt(fs, Cur(fs).zone, x)

\* do_write keeps what it does not write.
LEMMA WriteJ ==
    ASSUME IInv, JInv, NEW p \in Proc, NEW d \in Filp, NEW count \in Counts, NEW c \in Byte,
           Write(p, d, count, c)
    PROVE  JInv' /\ (Even' => WriteIs(filp[p][d], c))
<1> DEFINE i == filp[p][d]
           s == files[i].inode
           q == files[i].pos
           a == IF files[i].append THEN Size(fs, s) ELSE q
           w == Written(i, count, c)
           x == IF files[i].append THEN w.fpos ELSE w.pos
<1>1. filp[p][d] # None /\ fs.status = "ok" /\ files[i].pos <= MaxPos
  BY DEF Write, Running
<1>2. /\ i \in OpenFile /\ files[i] \in FileRec /\ s \in Slot /\ fs.table[s].num = FileNr
      /\ fs.table[s].cnt \in Nat \ {0} /\ Cur(fs) = fs.table[s].node /\ Cur(fs) \in Node
  BY <1>1, Opens
<1>3. /\ fs' = w.f /\ files' = [files EXCEPT ![i].pos = x]
      /\ ret' = [n |-> w.written, data |-> <<>>]
  BY DEF Write
<1> HIDE DEF i
<1>4. q \in Nat /\ Size(fs, s) \in Nat /\ files[i].append \in BOOLEAN /\ count \in Nat
  BY <1>2, FilesAssumption DEF FileRec, Size, Node
<1>5. a \in Nat
  BY <1>4
<1>6. Wrote(fs, w, s, a, q, count, c)
  <2> HIDE DEF w
  <2> QED
    BY <1>1, <1>2, <1>4, WrittenWrote DEF w
<1>7. FsOK(fs, files) /\ (Even => SizeOK(fs))
  BY DEF JInv
<1>8. Even' => Even /\ ~Aside(i)
  BY DEF Write, Even, i
<1>9. Even' => a = q
  BY <1>8 DEF Aside, Size
<1> HIDE DEF w, a, s, q
<1>10. /\ FsOK(w.f, files)
       /\ Cur(w.f).zone = Zones(w.f, s) /\ Cur(w.f).size = Size(w.f, s)
       /\ Cur(fs).zone = Zones(fs, s) /\ Cur(fs).size = Size(fs, s)
       /\ a = q /\ SizeOK(fs) => SizeOK(w.f)
  <2>1. fs.table[s].cnt # 0
    BY <1>2
  <2>2. q \in Nat
    BY <1>4
  <2> QED
    BY <1>1, <1>2, <1>5, <1>6, <1>7, <2>1, <2>2, WroteKeeps
<1>11. /\ w.written \in Nat /\ w.pos = a + w.written /\ w.fpos = q + w.written
       /\ a = q => Filled(fs, w, s, a, c)
  BY <1>6 DEF Wrote
<1>12. x \in Nat
  BY <1>4, <1>5, <1>11
<1>13. FsOK(fs', files')
  <2> HIDE DEF x
  <2>1. FsOK(w.f, [files EXCEPT ![i].pos = x])
    BY <1>2, <1>10, <1>12, MovesJ
  <2> QED
    BY <1>3, <2>1
<1>14. ret'.n = w.written /\ ret'.data = <<>>
  BY <1>3
<1>15. RetOK(ret')
  BY <1>11, <1>14 DEF RetOK
<1>16. ASSUME Even'
       PROVE  WriteIs(i, c)
  <2>1. a = q /\ Filled(fs, w, s, q, c) /\ x = q + w.written
    BY <1>9, <1>11, <1>16
  <2>2. files' = [files EXCEPT ![i].pos = q + w.written]
    BY <1>3, <2>1
  <2> HIDE DEF x
  <2>3. Size(fs', s) = IF w.written = 0 \/ q + w.written <= Size(fs, s) THEN Size(fs, s)
                       ELSE q + w.written
    BY <1>3, <2>1 DEF Filled
  <2>4. \A y \in Nat : y \div BlkSize \in FileBlk =>
          ByteAt(fs', Zones(fs', s), y) = IF y \in q .. q + w.written - 1 THEN c
                                          ELSE ByteAt(fs, Zones(fs, s), y)
    BY <1>3, <2>1 DEF Filled
  <2>5. Cur(fs').zone = Zones(fs', s) /\ Cur(fs').size = Size(fs', s)
    BY <1>3, <1>10
  <2> QED
    BY <1>10, <1>11, <1>14, <2>2, <2>3, <2>4, <2>5 DEF WriteIs, q
<1>17. Even' => SizeOK(fs')
  BY <1>3, <1>7, <1>8, <1>9, <1>10
<1> QED
  BY <1>13, <1>15, <1>16, <1>17 DEF JInv, i
\* So every step does, but one that takes the entry of an emptied inode.
LEMMA NextJInv ==
    ASSUME IInv, JInv, [Next]_vars, Owned'
    PROVE  JInv'
<1>1. CASE UNCHANGED vars
  BY <1>1 DEF vars, JInv, Even
<1>2. ASSUME NEW p \in Proc, NEW trunc \in BOOLEAN, NEW append \in BOOLEAN,
             Open(p, trunc, append)
      PROVE  JInv'
  BY <1>2, OpenJ
<1>3. ASSUME NEW p \in Proc, NEW d \in Filp, Close(p, d)
      PROVE  JInv'
  BY <1>3, CloseJ
<1>4. ASSUME NEW p \in Proc, NEW d \in Filp, NEW k \in Seeks, Seek(p, d, k[1], k[2])
      PROVE  JInv'
  BY <1>4, SeekJ
<1>5. ASSUME NEW p \in Proc, NEW d \in Filp, NEW n \in Counts, Read(p, d, n)
      PROVE  JInv'
  BY <1>5, ReadJ
<1>6. ASSUME NEW p \in Proc, NEW d \in Filp, NEW n \in Counts, NEW c \in Byte,
             Write(p, d, n, c)
      PROVE  JInv'
  BY <1>6, WriteJ
<1>7. CASE OpenFails \/ Elsewhere \/ Sync
  BY <1>7, OtherJ
<1> QED
  BY <1>1, <1>2, <1>3, <1>4, <1>5, <1>6, <1>7 DEF Next

\* What the invariant says of the file's blocks.
LEMMA BlocksAreOwned == (Owned => JInv) => BlocksOwned
<1> SUFFICES ASSUME Owned => JInv, Owned PROVE BlocksOwned
  BY DEF BlocksOwned
<1> DEFINE zone == Current(fs, FileNr).zone
           parts == Parts
<1>1. Owns(fs, zone)
  BY DEF JInv, FsOK, DataOK, Cur
<1>2. parts = {<<i, Part(fs, zone, i)>> : i \in {j \in Places : Part(fs, zone, j) # 0}}
  BY DEF Parts, Places
<1> HIDE DEF zone, parts
<1>3. \A t \in parts : \E x \in Places : /\ Part(fs, zone, x) # 0 /\ t = <<x, Part(fs, zone, x)>>
                                         /\ t[1] = x /\ t[2] = Part(fs, zone, x)
  BY <1>2
<1>4. \A x \in Places : Part(fs, zone, x) # 0 => <<x, Part(fs, zone, x)>> \in parts
  BY <1>2
<1>5. \A x \in Places : Part(fs, zone, x) # 0 => Part(fs, zone, x) \in Blk
  BY <1>1, Sizes DEF Owns
<1>6. \A b \in Blk : b - 1 \in fs.zmap <=> \E x \in Places : Part(fs, zone, x) = b
  BY <1>1 DEF Owns
<1>7. \A x, y \in Places : Part(fs, zone, x) # 0 /\ Part(fs, zone, x) = Part(fs, zone, y) => x = y
  BY <1>1 DEF Owns
<1>8. {t[2] : t \in parts} = {b \in Blk : b - 1 \in fs.zmap}
  <2>1. ASSUME NEW t \in parts PROVE t[2] \in Blk /\ t[2] - 1 \in fs.zmap
    BY <1>3, <1>5, <1>6
  <2>2. ASSUME NEW b \in Blk, b - 1 \in fs.zmap PROVE \E t \in parts : t[2] = b
    <3>1. PICK x \in Places : Part(fs, zone, x) = b
      BY <1>6, <2>2
    <3>2. b # 0
      BY Sizes
    <3>3. <<x, Part(fs, zone, x)>> \in parts
      BY <1>4, <3>1, <3>2
    <3> QED
      BY <3>1, <3>3
  <2> QED
    BY <2>1, <2>2
<1>9. \A t, u \in parts : t[2] = u[2] => t = u
  BY <1>3, <1>7
<1> QED
  BY <1>8, <1>9 DEF BlocksOwned, parts

\* What it says of the types.
LEMMA TypesAreOK == IInv /\ (Owned => JInv) => TypeOK
<1> SUFFICES ASSUME IInv, Owned => JInv, Owned PROVE TypeOK
  BY DEF TypeOK
<1>1. /\ IsFs(fs) /\ files \in [OpenFile -> FileRec] /\ RetOK(ret)
  BY DEF JInv, FsOK, OneFileTable
<1>2. filp \in [Proc -> [Filp -> OpenFile \cup {None}]]
  BY DEF IInv, FilpOK
<1>3. /\ fs.zmap \subseteq 0 .. ZoneBits - 1
      /\ fs.table \in [Slot -> [num : {0} \cup Inr, cnt : Nat, dirt : BOOLEAN, node : Node]]
      /\ fs.dev \in [Inr -> Node]
      /\ \A b \in Blk : DOMAIN fs.body[b] \subseteq 0 .. BlkSize - 1
  BY <1>1 DEF IsFs, TabEntry
<1> QED
  BY <1>1, <1>2, <1>3, Zenon DEF TypeOK, FileRec, RetOK

\* What has happened to the file stays in the history.
LEMMA SpoiltGrows == ASSUME [Next]_vars PROVE spoilt \subseteq spoilt'
<1>1. ASSUME NEW p \in Proc, NEW d \in Filp, NEW n, NEW c, Write(p, d, n, c)
      PROVE  spoilt \subseteq spoilt'
  BY <1>1 DEF Write
<1>2. Elsewhere => spoilt \subseteq spoilt'
  BY DEF Elsewhere
<1>3. ASSUME NEW p \in Proc, NEW trunc, NEW append, Open(p, trunc, append)
      PROVE  spoilt \subseteq spoilt'
  BY <1>3 DEF Open
<1>4. ASSUME NEW p \in Proc, NEW d \in Filp, NEW o, NEW n,
             Close(p, d) \/ Seek(p, d, o, n) \/ Read(p, d, n)
      PROVE  spoilt \subseteq spoilt'
  BY <1>4 DEF Close, Seek, Read
<1>5. OpenFails \/ Sync \/ UNCHANGED vars => spoilt \subseteq spoilt'
  BY DEF OpenFails, Sync, vars
<1> QED
  BY <1>1, <1>2, <1>3, <1>4, <1>5 DEF Next

\* Both parts of the invariant hold, the second until an emptied inode is lost.
LEMMA StepInv == Spec => [](IInv /\ (Owned => JInv))
<1>1. IInv /\ (Owned => JInv) /\ [Next]_vars => IInv' /\ (Owned => JInv)'
  <2> SUFFICES ASSUME IInv, Owned => JInv, [Next]_vars PROVE IInv' /\ (Owned' => JInv')
    OBVIOUS
  <2>1. Owned' => Owned
    BY SpoiltGrows DEF Owned
  <2> QED
    BY <2>1, NextIInv, NextJInv
<1> QED
  BY <1>1, InitIInv, InitJInv, PTL DEF Spec

(* The calls of open.c, rw.c and file_rw.c keep the types of FS, of the       *)
(* descriptors and of file_table, and what they return is bytes written       *)
(* before or zeros (rw.c:37-65), with O_APPEND and O_TRUNC in any order,       *)
(* until an inode emptied by clear_iblks, which does not make it dirty        *)
(* (inode.c:339-351), loses its entry of inode_table.                         *)
THEOREM FilesStayTyped == Spec => []TypeOK
<1>1. IInv /\ (Owned => JInv) => TypeOK
  BY TypesAreOK
<1> QED
  BY <1>1, StepInv, PTL

(* However writes, O_TRUNC, closes and full disks follow each other, the      *)
(* marked blocks are those of the file, zone numbers included, and each is at *)
(* one place of it (inode.c:166-351): none is lost, none is freed twice.  It   *)
(* is so for a file that was emptied and closed, too, as long as its entry     *)
(* stays in inode_table; with the entry goes what the theorem promises.        *)
THEOREM FileOwnsItsBlocks == Spec => []BlocksOwned
<1>1. (Owned => JInv) => BlocksOwned
  BY BlocksAreOwned
<1> QED
  BY <1>1, StepInv, PTL

(* No call reaches a crash() of bitmap.c, inode.c or open.c, or searches      *)
(* inode_table for ever, but a write, or a read after a write aside, that     *)
(* goes past the last block a file can have (inode.c:188), until an emptied    *)
(* inode loses its entry.                                                     *)
THEOREM FilesNeverStuck == Spec => []NeverStuck
<1>1. (Owned => JInv) => NeverStuck
  BY DEF JInv, FsOK, NeverStuck, NoCrash, Going
<1> QED
  BY <1>1, StepInv, PTL
-----------------------------------------------------------------------------
(* The file is a flat sequence of bytes. *)

\* The position of each descriptor, as Flat sees it.
PosOf == [d \in Proc \X Filp |-> IF filp[d[1]][d[2]] = None THEN None
                                 ELSE files[filp[d[1]][d[2]]].pos]

\* A function on 1 .. n is a sequence of length n.
LEMMA ArrayIs ==
    ASSUME NEW n \in Nat, NEW S, NEW s \in [1 .. n -> S]
    PROVE  s \in Seq(S) /\ Len(s) = n
<1>1. Seq(S) = UNION {[1 .. m -> S] : m \in Nat}
  BY SeqDef, Zenon
<1>2. s \in Seq(S)
  BY <1>1, Zenon
<1>3. Len(s) \in Nat /\ DOMAIN s = 1 .. Len(s)
  BY <1>2, LenProperties
<1> DEFINE m == Len(s)
<1> HIDE DEF m
<1>4. m \in Nat /\ 1 .. m = 1 .. n
  BY <1>3 DEF m
<1>5. m = n
  <2>1. \A x \in Nat : x \in 1 .. m <=> x \in 1 .. n
    BY <1>4
  <2>2. ~(m < n) /\ ~(n < m)
    BY <1>4, <2>1
  <2> QED
    BY <1>4, <2>2
<1> QED
  BY <1>2, <1>5 DEF m

\* The bytes of the file.
LEMMA ContentIs ==
    ASSUME FsOK(fs, files), SizeOK(fs)
    PROVE  /\ Content \in Seq(Byte \cup {0}) /\ Len(Content) = Cur(fs).size
           /\ Cur(fs).size \in Nat
           /\ \A q \in 1 .. Cur(fs).size : /\ Content[q] = ByteAt(fs, Cur(fs).zone, q - 1)
                                           /\ (q - 1) \div BlkSize \in FileBlk
<1> DEFINE size == Cur(fs).size
           zone == Cur(fs).zone
<1>1. /\ OneFileTable(fs) /\ DataOK(fs) /\ SizeOK(fs)
  BY DEF FsOK
<1>2. size \in Nat
  BY <1>1, CurIsNode DEF Node
<1>3. Content = [q \in 1 .. size |-> ByteAt(fs, zone, q - 1)]
  BY DEF Content, Cur
<1>4. \A q \in 1 .. size : q - 1 \in Nat /\ q - 1 < size
  BY <1>2
<1>5. \A q \in 1 .. size : (q - 1) \div BlkSize \in FileBlk
  BY <1>1, <1>4 DEF SizeOK
<1>6. \A q \in 1 .. size : ByteAt(fs, zone, q - 1) \in Byte \cup {0}
  BY <1>1, <1>4, <1>5, ByteIsData DEF DataOK
<1>7. Content \in [1 .. size -> Byte \cup {0}]
  BY <1>3, <1>6
<1>8. \A q \in 1 .. size : Content[q] = ByteAt(fs, zone, q - 1)
  BY <1>3
<1> HIDE DEF size
<1>9. Content \in Seq(Byte \cup {0}) /\ Len(Content) = size
  BY <1>2, <1>7, ArrayIs
<1> QED
  BY <1>2, <1>5, <1>8, <1>9 DEF size

\* The same file has the same bytes, and an empty file has none.
LEMMA ContentSame ==
    ASSUME SameFile(fs, fs')
    PROVE  Content' = Content
<1>1. \A zone, x : ByteAt(fs', zone, x) = ByteAt(fs, zone, x)
  <2>1. fs'.body = fs.body
    BY DEF SameFile
  <2>2. \A zone, k : BlockOf(fs', zone, k) = BlockOf(fs, zone, k)
    BY <2>1 DEF BlockOf, Ptr
  <2> QED
    BY <2>1, <2>2 DEF ByteAt
<1>2. Current(fs', FileNr) = Current(fs, FileNr)
  BY DEF SameFile, Cur
<1> QED
  BY <1>1, <1>2 DEF Content

\* An empty file has no bytes.
LEMMA ContentEmpty ==
    ASSUME Cur(fs').size = 0
    PROVE  Content' = <<>>
<1>1. Content' = [q \in 1 .. Cur(fs').size |-> ByteAt(fs', Cur(fs').zone, q - 1)]
  BY DEF Content, Cur
<1>2. Content' = [q \in 1 .. 0 |-> ByteAt(fs', Cur(fs').zone, q - 1)]
  BY <1>1
<1>3. Content' \in [1 .. 0 -> {}]
  BY <1>2
<1> DEFINE s == Content'
<1> HIDE DEF s
<1>4. s \in Seq({}) /\ Len(s) = 0
  BY <1>3, ArrayIs DEF s
<1>5. s = <<>>
  BY <1>4, EmptySeq
<1> QED
  BY <1>5 DEF s

\* Flat sees the position of the entry a descriptor leads to.
LEMMA PosIs ==
    /\ DOMAIN PosOf = Proc \X Filp
    /\ \A p \in Proc, d \in Filp :
          PosOf[<<p, d>>] = IF filp[p][d] = None THEN None ELSE files[filp[p][d]].pos
BY DEF PosOf

\* Only the position of descriptor d of p moves.
LEMMA PosMoves ==
    ASSUME NEW p \in Proc, NEW d \in Filp, NEW x,
           x = IF filp'[p][d] = None THEN None ELSE files'[filp'[p][d]].pos,
           \A q \in Proc : \A e \in Filp : (q # p \/ e # d) =>
              /\ filp'[q][e] = filp[q][e]
              /\ filp[q][e] # None => files'[filp[q][e]].pos = files[filp[q][e]].pos
    PROVE  PosOf' = [PosOf EXCEPT ![<<p, d>>] = x]
<1> DEFINE f == [PosOf EXCEPT ![<<p, d>>] = x]
<1>1. PosOf' = [e \in Proc \X Filp |-> PosOf'[e]] /\ f = [e \in Proc \X Filp |-> f[e]]
  BY DEF PosOf
<1>2. ASSUME NEW q \in Proc, NEW e \in Filp
      PROVE  PosOf'[<<q, e>>] = f[<<q, e>>]
  <2>1. PosOf'[<<q, e>>] = IF filp'[q][e] = None THEN None ELSE files'[filp'[q][e]].pos
    BY DEF PosOf
  <2>2. CASE q = p /\ e = d
    BY <2>1, <2>2, PosIs
  <2>3. CASE q # p \/ e # d
    <3>1. f[<<q, e>>] = PosOf[<<q, e>>]
      BY <2>3, PosIs
    <3> QED
      BY <2>1, <2>3, <3>1, PosIs
  <2> QED
    BY <2>2, <2>3
<1>3. \A e \in Proc \X Filp : PosOf'[e] = f[e]
  BY <1>2
<1> HIDE DEF f
<1>4. PosOf' = f
  BY <1>1, <1>3
<1> QED
  BY <1>4 DEF f
\* An entry with one descriptor has one position.
LEMMA EntryMoves ==
    ASSUME IInv, JInv, NEW p \in Proc, NEW d \in Filp, filp[p][d] # None, UNCHANGED filp,
           NEW x, files' = [files EXCEPT ![filp[p][d]].pos = x]
    PROVE  PosOf' = [PosOf EXCEPT ![<<p, d>>] = x]
<1> DEFINE i == filp[p][d]
           r == [files[i] EXCEPT !.pos = x]
<1>1. i \in OpenFile /\ files[i] \in FileRec /\ files \in [OpenFile -> FileRec]
  BY Opens DEF JInv, FsOK
<1>2. r.pos = x
  BY <1>1 DEF FileRec
<1>3. files' = [files EXCEPT ![i] = r]
  OBVIOUS
<1> HIDE DEF r
<1>4. files'[i].pos = x /\ \A j \in OpenFile : j # i => files'[j] = files[j]
  BY <1>1, <1>2, <1>3
<1>5. \A q \in Proc : \A e \in Filp : (q # p \/ e # d) /\ filp[q][e] # None =>
         filp[q][e] # i /\ filp[q][e] \in OpenFile
  BY DEF IInv, FilpOK, DescriptorsOwn
<1>6. \A q \in Proc : \A e \in Filp : (q # p \/ e # d) =>
         /\ filp'[q][e] = filp[q][e]
         /\ filp[q][e] # None => files'[filp[q][e]].pos = files[filp[q][e]].pos
  BY <1>4, <1>5
<1>7. x = IF filp'[p][d] = None THEN None ELSE files'[filp'[p][d]].pos
  BY <1>4
<1> QED
  BY <1>6, <1>7, PosMoves

FlatStep == F!Next \/ UNCHANGED F!vars

\* do_open.
LEMMA OpenIsFlat ==
    ASSUME IInv, JInv, NEW p \in Proc, NEW trunc \in BOOLEAN, NEW append \in BOOLEAN,
           Open(p, trunc, append)
    PROVE  FlatStep
<1> DEFINE x == [cnt |-> 1, append |-> append, pos |-> 0,
                 inode |-> Entry(Opened(trunc), FileNr)]
<1>1. PICK d \in Filp, i \in OpenFile :
        /\ FirstFilp(p, d) /\ FirstFile(i)
        /\ filp' = [filp EXCEPT ![p][d] = i]
        /\ files' = [files EXCEPT ![i] = x]
  BY DEF Open
<1>2. x.pos = 0
  OBVIOUS
<1> HIDE DEF x
<1>3. Leads(p, d, i) /\ filp[p][d] = None /\ files[i].cnt = 0
  BY <1>1, FilpSet DEF IInv, FirstFilp, FirstFile
<1>4. files'[i].pos = 0 /\ \A j \in OpenFile : j # i => files'[j] = files[j]
  BY <1>1, <1>2 DEF IInv, FileOK
<1>5. \A q \in Proc : \A e \in Filp : filp[q][e] # None =>
         filp[q][e] # i /\ filp[q][e] \in OpenFile
  BY <1>3 DEF IInv, FilpOK, DescriptorsOwn
<1>6. \A q \in Proc : \A e \in Filp : (q # p \/ e # d) =>
         /\ filp'[q][e] = filp[q][e]
         /\ filp[q][e] # None => files'[filp[q][e]].pos = files[filp[q][e]].pos
  BY <1>3, <1>4, <1>5 DEF Leads
<1> DEFINE start == 0
<1>7. start = IF filp'[p][d] = None THEN None ELSE files'[filp'[p][d]].pos
  BY <1>3, <1>4, NoneIsNoEntry DEF Leads
<1>8. PosOf' = [PosOf EXCEPT ![<<p, d>>] = 0] /\ PosOf[<<p, d>>] = -1
  <2> HIDE DEF start
  <2>1. PosOf' = [PosOf EXCEPT ![<<p, d>>] = start]
    BY <1>6, <1>7, PosMoves
  <2>2. PosOf[<<p, d>>] = None
    BY <1>3, PosIs
  <2> QED
    BY <2>1, <2>2 DEF start, None
<1>9. Content' \in {Content, <<>>}
  BY OpenJ, ContentSame, ContentEmpty
<1>10. ret'.data = <<>>
  BY DEF Open, Nothing
<1>11. F!Open(<<p, d>>)
  BY <1>8, <1>9, <1>10, Zenon DEF F!Open, F!Closed, PosOf
<1> QED
  BY <1>11 DEF FlatStep, F!Next

\* do_close.
LEMMA CloseIsFlat ==
    ASSUME IInv, JInv, NEW p \in Proc, NEW d \in Filp, Close(p, d)
    PROVE  FlatStep
<1> DEFINE i == filp[p][d]
           x == IF files[i].cnt - 1 > 0 THEN [files[i] EXCEPT !.cnt = files[i].cnt - 1]
                                        ELSE FreeFile
<1>1. /\ filp[p][d] # None /\ filp' = [filp EXCEPT ![p][d] = None]
      /\ files' = [files EXCEPT ![i] = x] /\ ret' = Nothing
  BY DEF Close
<1> HIDE DEF x
<1>2. Leads(p, d, None)
  BY <1>1, FilpSet DEF IInv
<1>3. i \in OpenFile /\ files[i].pos \in Nat
  BY <1>1, Opens DEF FileRec
<1>4. \A j \in OpenFile : j # i => files'[j] = files[j]
  BY <1>1 DEF IInv, FileOK
<1>5. \A q \in Proc : \A e \in Filp : (q # p \/ e # d) /\ filp[q][e] # None =>
         filp[q][e] # i /\ filp[q][e] \in OpenFile
  BY DEF IInv, FilpOK, DescriptorsOwn
<1> HIDE DEF i
<1>6. \A q \in Proc : \A e \in Filp : (q # p \/ e # d) =>
         /\ filp'[q][e] = filp[q][e]
         /\ filp[q][e] # None => files'[filp[q][e]].pos = files[filp[q][e]].pos
  BY <1>2, <1>4, <1>5 DEF Leads
<1>7. None = IF filp'[p][d] = None THEN None ELSE files'[filp'[p][d]].pos
  BY <1>2 DEF Leads
<1>8. PosOf' = [PosOf EXCEPT ![<<p, d>>] = None]
  BY <1>6, <1>7, PosMoves
<1>9. PosOf[<<p, d>>] # -1
  BY <1>1, <1>3, PosIs DEF i
<1>10. Content' = Content
  BY CloseJ, ContentSame
<1>11. ret'.data = <<>>
  BY <1>1 DEF Nothing
<1>12. F!Close(<<p, d>>)
  BY <1>8, <1>9, <1>10, <1>11, Zenon DEF F!Close, F!Closed, PosOf, None
<1> QED
  BY <1>12 DEF FlatStep, F!Next

\* A call that moves nothing.
LEMMA OtherIsFlat ==
    ASSUME SameFile(fs, fs'), UNCHANGED <<filp, files>>, ret' = Nothing
    PROVE  FlatStep
<1>1. Content' = Content /\ PosOf' = PosOf /\ ret'.data = <<>>
  BY ContentSame DEF PosOf, Nothing
<1>2. F!Other
  BY <1>1, Zenon DEF F!Other, PosOf
<1> QED
  BY <1>2 DEF FlatStep, F!Next

\* do_lseek.
LEMMA SeekIsFlat ==
    ASSUME IInv, JInv, NEW p \in Proc, NEW d \in Filp, NEW k \in Seeks, Seek(p, d, k[1], k[2])
    PROVE  FlatStep
<1> DEFINE i == filp[p][d]
           t == Target(i, k[1], k[2])
<1>1. /\ filp[p][d] # None /\ ret' = Nothing /\ fs' = fs /\ filp' = filp
      /\ files' = IF t < 0 THEN files ELSE [files EXCEPT ![i].pos = t]
  BY DEF Seek
<1>2. /\ i \in OpenFile /\ files[i] \in FileRec /\ Cur(fs) = fs.table[files[i].inode].node
      /\ Cur(fs) \in Node
  BY <1>1, Opens
<1>3. SameFile(fs, fs')
  BY <1>1 DEF SameFile
<1>4. t \in Int
  <2>1. k[1] \in 0 .. 2 /\ k[2] \in Int
    BY FilesAssumption
  <2>2. files[i].pos \in Nat /\ fs.table[files[i].inode].node.size \in Nat
    BY <1>2 DEF FileRec, Node
  <2>3. k[2] % Word \in Nat
    BY <2>1, FilesAssumption
  <2> QED
    BY <2>1, <2>2, <2>3 DEF Target
<1> HIDE DEF t
<1>5. CASE t < 0
  BY <1>1, <1>3, <1>5, OtherIsFlat
<1>6. CASE t >= 0
  <2>1. files' = [files EXCEPT ![filp[p][d]].pos = t]
    BY <1>1, <1>4, <1>6
  <2>2. PosOf' = [PosOf EXCEPT ![<<p, d>>] = t]
    <3>1. UNCHANGED filp /\ filp[p][d] # None
      BY <1>1
    <3> QED
      BY <2>1, <3>1, EntryMoves, Zenon
  <2>3. PosOf'[<<p, d>>] = t
    BY <2>2, PosIs
  <2>4. PosOf[<<p, d>>] # -1
    BY <1>1, <1>2, PosIs DEF FileRec
  <2>5. Content' = Content /\ ret'.data = <<>>
    BY <1>1, <1>3, ContentSame DEF Nothing
  <2>6. /\ PosOf'[<<p, d>>] >= 0
        /\ PosOf' = [PosOf EXCEPT ![<<p, d>>] = PosOf'[<<p, d>>]]
    BY <1>6, <2>2, <2>3
  <2>7. F!Seek(<<p, d>>)
    BY <2>4, <2>5, <2>6, Zenon DEF F!Seek, F!Closed, PosOf
  <2> QED
    BY <2>7 DEF FlatStep, F!Next
<1> QED
  BY <1>4, <1>5, <1>6
\* Part of a sequence, byte by byte.
LEMMA PartIsSub ==
    ASSUME NEW S, NEW s \in Seq(S), NEW a \in Nat, NEW n \in Nat, n # 0 => a + n <= Len(s),
           NEW t \in [1 .. n -> S], \A j \in 1 .. n : t[j] = s[a + j]
    PROVE  t = SubSeq(s, a + 1, a + n)
<1> DEFINE u == SubSeq(s, a + 1, a + n)
<1>1. Len(s) \in Nat /\ \A j \in 1 .. Len(s) : s[j] \in S
  BY LenProperties, ElementOfSeq
<1>2. a + 1 \in Int /\ a + n \in Int /\ \A j \in a + 1 .. a + n : s[j] \in S
  BY <1>1
<1>3. /\ u \in Seq(S)
      /\ Len(u) = IF a + 1 <= a + n THEN a + n - (a + 1) + 1 ELSE 0
      /\ \A j \in 1 .. a + n - (a + 1) + 1 : u[j] = s[a + 1 + j - 1]
  BY <1>2, SubSeqProperties
<1> HIDE DEF u
<1>4. Len(u) = n /\ \A j \in 1 .. n : u[j] = s[a + j]
  <2>1. a + n - (a + 1) + 1 = n /\ \A j \in 1 .. n : a + 1 + j - 1 = a + j
    OBVIOUS
  <2>2. Len(u) = n
    BY <1>3, <2>1
  <2>3. \A j \in 1 .. n : u[j] = s[a + j]
    BY <1>3, <2>1
  <2> QED
    BY <2>2, <2>3
<1>5. t \in Seq(S) /\ Len(t) = n
  BY ArrayIs
<1>6. Len(t) = Len(u) /\ \A j \in 1 .. Len(t) : t[j] = u[j]
  BY <1>4, <1>5
<1>7. t = u
  BY <1>3, <1>5, <1>6, SeqEqual
<1> QED
  BY <1>7 DEF u

\* do_read.
LEMMA ReadIsFlat ==
    ASSUME IInv, JInv, Even, NEW p \in Proc, NEW d \in Filp, NEW count \in Counts,
           Read(p, d, count)
    PROVE  FlatStep
<1> DEFINE i == filp[p][d]
           pos == files[i].pos
           n == Got(i, count)
           zone == Cur(fs).zone
           data == [j \in 1 .. n |-> ByteAt(fs, zone, pos + j - 1)]
           x == pos + n
<1>1. filp[p][d] # None /\ UNCHANGED filp
  BY DEF Read
<1>2. SameFile(fs, fs') /\ ReadIs(i, count)
  BY ReadJ
<1>3. pos \in Nat
  BY <1>1, Opens DEF FileRec
<1>4. /\ Content \in Seq(Byte \cup {0}) /\ Len(Content) = Cur(fs).size /\ Cur(fs).size \in Nat
      /\ \A q \in 1 .. Cur(fs).size : Content[q] = ByteAt(fs, zone, q - 1)
  BY ContentIs DEF JInv
<1>5. /\ n \in Nat /\ (n # 0 => x <= Cur(fs).size)
      /\ files' = [files EXCEPT ![i].pos = x] /\ ret' = [n |-> n, data |-> data]
  BY <1>2 DEF ReadIs
<1>6. ret'.n = n /\ ret'.data = data
  BY <1>5
<1>7. PosOf' = [PosOf EXCEPT ![<<p, d>>] = x]
  <2> HIDE DEF x, n
  <2> QED
    BY <1>1, <1>5, EntryMoves
<1>8. PosOf[<<p, d>>] = pos /\ pos # -1
  BY <1>1, <1>3, PosIs
<1> HIDE DEF n
<1>9. \A j \in 1 .. n : data[j] = Content[pos + j] /\ data[j] \in Byte \cup {0}
  <2> TAKE j \in 1 .. n
  <2> DEFINE q == pos + j
  <2>1. q \in 1 .. Cur(fs).size
    BY <1>3, <1>4, <1>5
  <2>2. data[j] = ByteAt(fs, zone, q - 1)
    <3>1. data[j] = ByteAt(fs, zone, pos + j - 1) /\ pos + j - 1 = q - 1
      BY <1>3
    <3> HIDE DEF data, q
    <3> QED
      BY <3>1
  <2> HIDE DEF data, q
  <2>3. data[j] = Content[q]
    BY <1>4, <2>1, <2>2
  <2> QED
    BY <1>4, <2>1, <2>3, ElementOfSeq DEF q
<1>10. data = SubSeq(Content, pos + 1, pos + n)
  <2>1. data \in [1 .. n -> Byte \cup {0}]
    BY <1>9
  <2> DEFINE s == Content
  <2> HIDE DEF data, s, i
  <2>2. s \in Seq(Byte \cup {0}) /\ (n # 0 => pos + n <= Len(s))
    BY <1>4, <1>5 DEF s
  <2>3. \A j \in 1 .. n : data[j] = s[pos + j]
    BY <1>9 DEF s
  <2> QED
    BY <1>3, <1>5, <2>1, <2>2, <2>3, PartIsSub DEF s
<1>11. n = 0 \/ pos + n \in 1 .. Len(Content)
  BY <1>3, <1>4, <1>5
<1>12. Content' = Content
  BY <1>2, ContentSame
<1> HIDE DEF data
<1>13. /\ PosOf[<<p, d>>] # F!Closed
       /\ ret'.n = 0 \/ PosOf[<<p, d>>] + ret'.n \in 1 .. Len(Content)
       /\ ret'.data = SubSeq(Content, PosOf[<<p, d>>] + 1, PosOf[<<p, d>>] + ret'.n)
       /\ PosOf' = [PosOf EXCEPT ![<<p, d>>] = PosOf[<<p, d>>] + ret'.n]
  <2> HIDE DEF pos, i
  <2> QED
    BY <1>6, <1>7, <1>8, <1>10, <1>11 DEF F!Closed
<1>14. F!Read(<<p, d>>)
  BY <1>12, <1>13, Zenon DEF F!Read, PosOf
<1> QED
  BY <1>14 DEF FlatStep, F!Next
\* do_write: what is between the old end and the new bytes is zeros.
LEMMA WriteIsFlat ==
    ASSUME IInv, JInv, Even, NEW p \in Proc, NEW d \in Filp, NEW count \in Counts,
           NEW c \in Byte, Write(p, d, count, c), Even'
    PROVE  FlatStep
<1> DEFINE i == filp[p][d]
           pos == files[i].pos
           n == ret'.n
           x == pos + n
           old == Cur(fs).size
           new == Cur(fs').size
           after(q) == ByteAt(fs', Cur(fs').zone, q)
           before(q) == ByteAt(fs, Cur(fs).zone, q)
<1>1. filp[p][d] # None /\ UNCHANGED filp
  BY DEF Write
<1>2. JInv' /\ WriteIs(i, c)
  BY WriteJ
<1>3. /\ n \in Nat /\ ret'.data = <<>>
      /\ files' = [files EXCEPT ![i].pos = x]
      /\ new = IF n = 0 \/ x <= old THEN old ELSE x
      /\ \A q \in Nat : q \div BlkSize \in FileBlk =>
            after(q) = IF q \in pos .. pos + n - 1 THEN c ELSE before(q)
  BY <1>2 DEF WriteIs
<1>4. pos \in Nat
  BY <1>1, Opens DEF FileRec
<1>5. /\ Len(Content) = old /\ old \in Nat
      /\ \A q \in 1 .. old : Content[q] = before(q - 1)
  BY ContentIs DEF JInv
<1>6. \A q \in Nat : q >= old /\ q \div BlkSize \in FileBlk => before(q) = 0
  BY DEF JInv, SizeOK
<1>7. \A q \in Nat : q < new => q \div BlkSize \in FileBlk
  BY <1>2 DEF JInv, SizeOK
<1>8. Content' = [q \in 1 .. new |-> after(q - 1)]
  BY DEF Content, Cur
<1>9. PosOf' = [PosOf EXCEPT ![<<p, d>>] = x]
  <2> HIDE DEF x
  <2> QED
    BY <1>1, <1>3, EntryMoves
<1>10. PosOf[<<p, d>>] = pos /\ pos # -1
  BY <1>1, <1>4, PosIs
<1> HIDE DEF i, pos, n, old, new, after, before
<1> DEFINE end == IF n = 0 \/ x < old THEN old ELSE x
           is(q) == IF q \in pos + 1 .. x THEN c
                    ELSE IF q <= Len(Content) THEN Content[q] ELSE 0
<1>11. end = new
  BY <1>3, <1>4, <1>5
<1>12. ASSUME NEW q \in 1 .. end PROVE after(q - 1) = is(q)
  <2> DEFINE r == q - 1
  <2>1. /\ q \in 1 .. new /\ r \in Nat /\ r < new /\ q = r + 1
    BY <1>3, <1>4, <1>5, <1>11
  <2> HIDE DEF r
  <2>2. r \div BlkSize \in FileBlk
    BY <1>7, <2>1
  <2>3. after(r) = IF r \in pos .. pos + n - 1 THEN c ELSE before(r)
    BY <1>3, <2>1, <2>2
  <2>4. r \in pos .. pos + n - 1 <=> q \in pos + 1 .. x
    BY <1>3, <1>4, <2>1
  <2>5. before(r) = IF q <= Len(Content) THEN Content[q] ELSE 0
    <3>1. CASE q <= old
      <4>1. q \in 1 .. old
        BY <1>5, <2>1, <3>1
      <4>2. Content[q] = before(q - 1)
        BY <1>5, <4>1
      <4> QED
        BY <1>5, <3>1, <4>2 DEF r
    <3>2. CASE ~(q <= old)
      <4>1. r >= old
        BY <1>5, <2>1, <3>2
      <4> QED
        BY <1>5, <1>6, <2>1, <2>2, <3>2, <4>1
    <3> QED
      BY <3>1, <3>2
  <2> QED
    BY <2>3, <2>4, <2>5 DEF r
<1>13. Content' = [q \in 1 .. end |-> is(q)]
  <2>1. Content' = [q \in 1 .. end |-> after(q - 1)]
    BY <1>8, <1>11
  <2> HIDE DEF end, is
  <2> QED
    BY <1>12, <2>1
<1>14. F!Write(<<p, d>>, c)
  <2>1. /\ PosOf[<<p, d>>] # -1 /\ ret'.n >= 0 /\ ret'.data = <<>>
        /\ PosOf' = [PosOf EXCEPT ![<<p, d>>] = PosOf[<<p, d>>] + ret'.n]
    BY <1>3, <1>9, <1>10 DEF n
  <2>2. Content' =
          [q \in 1 .. (IF ret'.n = 0 \/ PosOf[<<p, d>>] + ret'.n < Len(Content)
                       THEN Len(Content) ELSE PosOf[<<p, d>>] + ret'.n) |->
              IF q \in PosOf[<<p, d>>] + 1 .. PosOf[<<p, d>>] + ret'.n THEN c
              ELSE IF q <= Len(Content) THEN Content[q] ELSE 0]
    BY <1>5, <1>10, <1>13, Zenon DEF n
  <2> QED
    BY <2>1, <2>2, Zenon DEF F!Write, F!Closed, PosOf
<1> QED
  BY <1>14 DEF FlatStep, F!Next

\* At first Flat has no bytes and every descriptor is closed.
LEMMA InitIsFlat == Init => F!Init
<1> SUFFICES ASSUME Init PROVE F!Init
  OBVIOUS
<1>1. Cur(fs).size = 0
  <2>1. FileNr \in Inr /\ FileNr # 0
    BY Numbers
  <2>2. \A s \in Slot : fs.table[s].num # FileNr
    BY <2>1 DEF Init, Empty
  <2>3. Cur(fs) = fs.dev[FileNr]
    BY <2>2, EntryIsNot DEF Cur
  <2>4. fs.dev[FileNr] = FileNode
    BY <2>1 DEF Init
  <2>5. FileNode.size = 0
    BY DEF FileNode, NoNode
  <2> QED
    BY <2>3, <2>4, <2>5
<1>2. Content = <<>>
  <2>1. Content = [q \in 1 .. 0 |-> ByteAt(fs, Cur(fs).zone, q - 1)]
    BY <1>1 DEF Content, Cur
  <2>2. Content \in [1 .. 0 -> {}]
    BY <2>1
  <2> DEFINE s == Content
  <2> HIDE DEF s
  <2>3. s \in Seq({}) /\ Len(s) = 0
    BY <2>2, ArrayIs DEF s
  <2>4. s = <<>>
    BY <2>3, EmptySeq
  <2> QED
    BY <2>4 DEF s
<1>3. PosOf = [d \in Proc \X Filp |-> -1]
  <2>1. \A p \in Proc, d \in Filp : filp[p][d] = None
    BY DEF Init
  <2> QED
    BY <2>1 DEF PosOf, None
<1>4. ret = [n |-> 0, data |-> <<>>]
  BY DEF Init, Nothing
<1> QED
  BY <1>2, <1>3, <1>4, Zenon DEF F!Init, F!Closed, PosOf

\* Every step is one of Flat, or none, as long as nothing has gone wrong.
LEMMA NextIsFlat ==
    ASSUME IInv, JInv, [Next]_vars, spoilt' = {}
    PROVE  FlatStep
<1> Even /\ Even' /\ Owned'
  BY SpoiltGrows DEF Even, Owned
<1>1. CASE UNCHANGED vars
  <2>1. Content' = Content /\ PosOf' = PosOf /\ ret' = ret
    BY <1>1 DEF vars, Content, PosOf, ByteAt, BlockOf, Ptr, Current
  <2> QED
    BY <2>1, Zenon DEF FlatStep, F!vars, PosOf
<1>2. ASSUME NEW p \in Proc, NEW trunc \in BOOLEAN, NEW append \in BOOLEAN,
             Open(p, trunc, append)
      PROVE  FlatStep
  BY <1>2, OpenIsFlat
<1>3. ASSUME NEW p \in Proc, NEW d \in Filp, Close(p, d)
      PROVE  FlatStep
  BY <1>3, CloseIsFlat
<1>4. ASSUME NEW p \in Proc, NEW d \in Filp, NEW k \in Seeks, Seek(p, d, k[1], k[2])
      PROVE  FlatStep
  BY <1>4, SeekIsFlat
<1>5. ASSUME NEW p \in Proc, NEW d \in Filp, NEW n \in Counts, Read(p, d, n)
      PROVE  FlatStep
  BY <1>5, ReadIsFlat
<1>6. ASSUME NEW p \in Proc, NEW d \in Filp, NEW n \in Counts, NEW c \in Byte,
             Write(p, d, n, c)
      PROVE  FlatStep
  BY <1>6, WriteIsFlat
<1>7. CASE OpenFails \/ Elsewhere \/ Sync
  BY <1>7, OtherJ, OtherIsFlat
<1> QED
  BY <1>1, <1>2, <1>3, <1>4, <1>5, <1>6, <1>7 DEF Next

(* To every process the file is a flat sequence of bytes with a position for   *)
(* each descriptor (do_read, do_write and do_lseek of rw.c, file_rw.c:12-110),  *)
(* whatever blocks the bytes are in and however the writes of several processes *)
(* and O_TRUNC mix: a read returns the bytes last written there or zeros, a      *)
(* short write returns what it wrote.  So every step, up to the first write      *)
(* through an O_APPEND descriptor that is not at the end (file_wr takes the      *)
(* block of f_pos and the place in it of the end) and the first loss of an        *)
(* emptied inode.                                                               *)
THEOREM FilesAreFlat == Spec => ImplementsFlat
<1>1. IInv /\ (Owned => JInv) /\ [Next]_vars => [spoilt' = {} => F!Next]_(F!vars)
  <2> SUFFICES ASSUME IInv, Owned => JInv, [Next]_vars, spoilt' = {}
               PROVE  F!Next \/ UNCHANGED F!vars
    OBVIOUS
  <2>1. Owned
    BY SpoiltGrows DEF Owned
  <2> QED
    BY <2>1, NextIsFlat DEF FlatStep
<1> QED
  BY <1>1, InitIsFlat, StepInv, PTL DEF Spec, ImplementsFlat
=============================================================================
