-------------------------------- MODULE Names --------------------------------
(***************************************************************************)
(* Directories and names, fs/namei.c, with the parts of fs/open.c, fmain.c  *)
(* and super.c that open, list and make them.  FS serves one call after     *)
(* the other, so a call is one step, with an action for each way it ends.    *)
(*                                                                         *)
(* A path is a sequence of names; only its last one may be missing, when it *)
(* ends with a slash.  Names are shorter than NAME_LEN.                      *)
(***************************************************************************)
EXTENDS Inodes, Sequences

CONSTANTS
    Name, NameLen,    \* names and their lengths
    Dot, DotDot,      \* "." and ".."
    Slash,            \* the only name in the inode above the root directory
    NoName,
    PerBlk,           \* ENTRIES_PER_BLK
    Paths,
    Handle,           \* descriptors of all processes
    Modes,            \* what callers give as the mode of a new file
    MaxCnt            \* bound on i_cnt

ASSUME NamesAssumption ==
    /\ {Dot, DotDot, Slash} \subseteq Name /\ NoName \notin Name
    /\ NameLen \in [Name -> Nat \ {0}] /\ NameLen[Dot] = 1 /\ NameLen[DotDot] = 2
    /\ Slash \notin {Dot, DotDot}
    /\ PerBlk \in Nat /\ PerBlk > 2 /\ PerBlk <= BlkSize
    /\ InodeBits > 2 /\ NrZones > 2               \* the file system has room for its roots,
    /\ NrZones <= Cardinality(FileBlk)            \* and sb_nzones has 16 bits
    /\ Paths \subseteq Seq((Name \ {Slash}) \cup {NoName}) \ {<<>>}
    /\ IsFiniteSet(Handle)
    /\ Modes \subseteq {"none", "reg", "dir"}
    /\ MaxCnt \in Nat

VARIABLES
    fs,       \* imap, zmap, table, dev, body, pinned, status
    handle,   \* the table entry an open descriptor points to, or Closed
    harm      \* history: what has happened that breaks the tree, see below

vars == <<fs, handle, harm>>

Root    == 1     \* ROOT_NR
RootDir == 2     \* ROOT_IND_NR
Closed  == -1
Place   == 0 .. PerBlk * Cardinality(FileBlk) - 1

-----------------------------------------------------------------------------
(* Directories.  Place PerBlk * k + i is entry i of block k.                *)

IsDir(f, n)  == Mem(f, n).node.mode = "dir"
PutBack(f, n) == Iput(f, Entry(f, n))

\* The blocks of an inode: as many as its size says, not counting holes.
Scanned(f, node) ==
    LET there == {k \in FileBlk : BlockOf(f, node.zone, k) # 0}
    IN  {k \in there : Cardinality({j \in there : j < k}) * BlkSize < node.size}

\* The entries of a directory: places, names and inode numbers.
Listing(f, n) ==
    LET node == Mem(f, n).node
    IN  UNION {LET b == f.body[BlockOf(f, node.zone, k)]
               IN  {<<PerBlk * k + i, b[i].name, b[i].nr>> : i \in DOMAIN b} :
                  k \in Scanned(f, node)}

(* The length compared grows to that of the longest name looked at, and in  *)
(* the middle of a path it then takes in the slash.                         *)
Matching(all, name, last) ==
    {e \in all : /\ e[2] = name
                 /\ last \/ \A u \in all : u[1] < e[1] => NameLen[u[2]] <= NameLen[name]}

FindEntry(f, n, name, last) == Matching(Listing(f, n), name, last)

Earliest(S) == CHOOSE e \in S : \A u \in S : e[1] <= u[1]
NrIn(hits)  == IF hits = {} THEN 0 ELSE Earliest(hits)[3]

Child(f, n, name, last) == NrIn(FindEntry(f, n, name, last))

\* The first block that is not full; create_block() makes it if need be.
Full(f, b) == b # 0 /\ DOMAIN f.body[b] = 0 .. PerBlk - 1
NotFull(f, s) == CHOOSE k \in FileBlk : /\ ~Full(f, Bmap(f, s, k))
                                        /\ \A j \in 0 .. k - 1 : Full(f, Bmap(f, s, j))
WithRoom(f, s) == CreateBlock(f, s, NotFull(f, s))

Room(f, n) == Bmap(WithRoom(f, Entry(f, n)), Entry(f, n), NotFull(f, Entry(f, n))) # 0

\* g is f with room for an entry in block b, if any, of the directory in slot s.
Enter(f, g, s, b, entry) ==
    IF b = 0 THEN g
    ELSE LET i == CHOOSE j \in 0 .. PerBlk - 1 : /\ j \notin DOMAIN g.body[b]
                                                 /\ 0 .. j - 1 \subseteq DOMAIN g.body[b]
             grown == IF Bmap(f, s, NotFull(f, s)) = 0 THEN BlkSize ELSE 0
         IN  [g EXCEPT !.body[b] = Put(@, i, entry),
                       !.table[s].node.size = @ + grown,
                       !.table[s].dirt = TRUE]

EnterIn(f, s, entry) ==
    Enter(f, WithRoom(f, s), s, Bmap(WithRoom(f, s), s, NotFull(f, s)), entry)
AddEntry(f, n, name, nr) == EnterIn(f, Entry(f, n), [name |-> name, nr |-> nr])

DropAt(f, b, i) == [f EXCEPT !.body[b] = [j \in DOMAIN @ \ {i} |-> @[j]]]
DropEntry(f, n, name) ==
    LET t == Earliest(FindEntry(f, n, name, TRUE))[1]
    IN  DropAt(f, Bmap(f, Entry(f, n), t \div PerBlk), t % PerBlk)

-----------------------------------------------------------------------------
(* Paths.  A directory that was reached stays counted; dir is 0 for NULL.    *)

Reached(f, n) == [f |-> f, dir |-> IF f.status = "ok" THEN n ELSE 0]

\* From directory d, kept in f, to inode n, or to NULL.
Step(f, d, n) == IF n = 0 THEN [f |-> PutBack(f, d), dir |-> 0]
                          ELSE Reached(Iget(PutBack(f, d), n), n)

Descend(g, name) ==
    IF g.dir = 0 THEN g
    ELSE Step(g.f, g.dir, IF IsDir(g.f, g.dir) THEN Child(g.f, g.dir, name, FALSE) ELSE 0)

OnlyDir(g) == IF g.dir = 0 \/ IsDir(g.f, g.dir) THEN g ELSE Step(g.f, g.dir, 0)

\* dir_namei: the directory of the last name.
Parent(f, p) ==
    LET got[k \in 0 .. Len(p) - 1] ==
            IF k = 0 THEN Reached(Iget(f, RootDir), RootDir)
            ELSE Descend(got[k - 1], p[k])
    IN  OnlyDir(got[Len(p) - 1])

Base(p) == p[Len(p)]

\* namei: when the last name is not found, its directory stays counted.
Touched(g) == IF g.dir = 0 THEN g ELSE [g EXCEPT !.f.table[Entry(g.f, g.dir)].dirt = TRUE]
Target(d, n) == IF n = 0 THEN [d EXCEPT !.dir = 0] ELSE Touched(Step(d.f, d.dir, n))
Last(d, name) == IF d.dir = 0 \/ name = NoName THEN d
                 ELSE Target(d, Child(d.f, d.dir, name, TRUE))

Namei(f, p) == Last(Parent(f, p), Base(p))

\* An inode field is changed and the inode is dirty.
Links(f, n, change) ==
    [f EXCEPT !.table[Entry(f, n)].node.nlinks = (@ + change) % NrLinks,
              !.table[Entry(f, n)].dirt = TRUE]

\* A new inode whose name could not be entered.
Abandon(f, n) == PutBack([f EXCEPT !.table[Entry(f, n)].node.nlinks = 0], n)

-----------------------------------------------------------------------------
(* The code refuses none of the calls below after which the directories are  *)
(* no tree any more.  harm takes down the first that is made:                *)
(*   zones    a directory gets an entry with zones of another inode          *)
(*   blocks   a file gives up blocks, all of which it has from another inode *)
(*   links    a link count gets to NrLinks, which is 0                       *)
(*   dots     "." or ".." is made, which only the inode above the root lacks *)
(*   mode     open makes an inode with the mode of a directory               *)

Reasons == {"zones", "blocks", "links", "dots", "mode"}

Harm(r, done) == IF done THEN {r} ELSE {}

DotName(p)     == Base(p) \in {Dot, DotDot}
LastLink(f, n) == Mem(f, n).node.nlinks = NrLinks - 1

\* clear_iblks finds anything to give up.
Loses(f, s) == ClearBlocks(f, s) # f

-----------------------------------------------------------------------------
(* Calls.  FS takes one while it runs. *)

Running == fs.status = "ok" /\ \A s \in Slot : fs.table[s].cnt < MaxCnt

\* Any call on a path p: its directory d is not found.
NoParent(d) ==
    /\ Running
    /\ d.dir = 0
    /\ fs' = d.f
    /\ UNCHANGED <<handle, harm>>

\* The directory is found, and what d is about there is there, or is not.
Within(d, p, found) ==
    /\ Running
    /\ d.dir # 0
    /\ Base(p) # NoName
    /\ found <=> Child(d.f, d.dir, Base(p), TRUE) # 0

(* No name is given, a name to be made exists, one to be used does not, or   *)
(* O_EXCL is given: the directory is put back.                              *)
Declined(d) ==
    /\ Running
    /\ d.dir # 0
    /\ fs' = PutBack(d.f, d.dir)
    /\ UNCHANGED <<handle, harm>>

-----------------------------------------------------------------------------
(* open_namei, do_open and do_close. *)

\* The entry for the directory or file nr below the directory of d.
Fetched(d, p) == Step(d.f, d.dir, Child(d.f, d.dir, Base(p), TRUE))

\* A path that ends with a slash opens the directory.
OpenDir(d, p, h) ==
    /\ Running
    /\ handle[h] = Closed
    /\ d.dir # 0 /\ Base(p) = NoName
    /\ fs' = d.f
    /\ handle' = [handle EXCEPT ![h] = Entry(d.f, d.dir)]
    /\ UNCHANGED harm

Open(d, p, h, trunc) ==
    /\ Within(d, p, TRUE)
    /\ handle[h] = Closed
    /\ \E g \in {Fetched(d, p)} :
          /\ fs' = IF g.dir # 0 /\ trunc THEN ClearBlocks(g.f, Entry(g.f, g.dir)) ELSE g.f
          /\ harm' = harm \cup Harm("blocks", fs' # g.f)
          /\ handle' = [handle EXCEPT ![h] = IF g.dir = 0 THEN Closed ELSE Entry(g.f, g.dir)]

\* A directory is not opened for writing.
OpenDenied(d, p) ==
    /\ Within(d, p, TRUE)
    /\ \E g \in {Fetched(d, p)} :
          /\ g.dir # 0 /\ IsDir(g.f, g.dir)
          /\ fs' = PutBack(g.f, g.dir)
    /\ UNCHANGED <<handle, harm>>

\* A call is to make a name and gets inode n for it.
Making(d, p, n) ==
    /\ Within(d, p, FALSE)
    /\ n = NewInodeNr(d.f) /\ n # 0

\* The mode is what the caller gives.
Moded(f, n, mode) == [f EXCEPT !.table[Entry(f, n)].node.mode = mode]

MadeBy(p, mode) == Harm("dots", DotName(p)) \cup Harm("mode", mode = "dir")

\* Mutant: the new inode is put back, and the directory is not.
CreateSwapped(d, p, h, mode) ==
    /\ handle[h] = Closed
    /\ \E n \in {NewInodeNr(d.f)}, new \in {NewInode(d.f)} :
          /\ Making(d, p, n) /\ new.status = "ok"
          /\ \E g \in {Moded(new, n, mode)} :
                /\ Room(g, d.dir)
                /\ fs' = PutBack(AddEntry(g, d.dir, Base(p), n), n)
                /\ handle' = [handle EXCEPT ![h] = Entry(g, n)]
    /\ harm' = harm \cup MadeBy(p, mode)

Create(d, p, h, mode) ==
    /\ handle[h] = Closed
    /\ \E n \in {NewInodeNr(d.f)}, new \in {NewInode(d.f)} :
          /\ Making(d, p, n) /\ new.status = "ok"
          /\ \E g \in {Moded(new, n, mode)} :
                /\ Room(g, d.dir)
                /\ fs' = PutBack(AddEntry(g, d.dir, Base(p), n), d.dir)
                /\ handle' = [handle EXCEPT ![h] = Entry(g, n)]
    /\ harm' = harm \cup MadeBy(p, mode)

\* There is no entry in the table for the inode, or none in the directory.
CreateFails(d, p, mode) ==
    /\ \E n \in {NewInodeNr(d.f)}, new \in {NewInode(d.f)} :
          /\ Making(d, p, n)
          /\ new.status = "ok" => ~Room(Moded(new, n, mode), d.dir)
          /\ fs' = IF new.status # "ok" THEN new
                   ELSE PutBack(Abandon(AddEntry(Moded(new, n, mode), d.dir, Base(p), n), n),
                                d.dir)
    /\ harm' = harm \cup MadeBy(p, mode)
    /\ UNCHANGED handle

\* The last descriptor of a file that has no name any more frees the inode.
Unused(f, s) == f.table[s].cnt = 1 /\ ~f.table[s].dirt /\ f.table[s].node.nlinks = 0

Close(h) ==
    /\ fs.status = "ok"
    /\ handle[h] # Closed
    /\ fs' = Iput(fs, handle[h])
    /\ handle' = [handle EXCEPT ![h] = Closed]
    /\ harm' = harm \cup Harm("blocks", /\ Unused(fs, handle[h])
                                        /\ Loses([fs EXCEPT !.table[handle[h]].cnt = 0], handle[h]))

-----------------------------------------------------------------------------
(* mkdir *)

\* Mutant: the entry in the new directory itself is not counted.
NewDirOneLink(f, n, parent, b) ==
    LET s == Entry(f, n)
    IN  [NewBlock(f) EXCEPT
            !.body[b] = [i \in {0, 1} |-> IF i = 0 THEN [name |-> Dot, nr |-> n]
                                                   ELSE [name |-> DotDot, nr |-> parent]],
            !.table[s].node = [@ EXCEPT !.mode = "dir", !.nlinks = 1, !.size = BlkSize,
                                        !.zone[0] = b],
            !.table[s].dirt = TRUE]

\* Mutant: ".." is the new directory itself.
NewDirOwnParent(f, n, parent, b) ==
    LET s == Entry(f, n)
    IN  [NewBlock(f) EXCEPT
            !.body[b] = [i \in {0, 1} |-> IF i = 0 THEN [name |-> Dot, nr |-> n]
                                                   ELSE [name |-> DotDot, nr |-> n]],
            !.table[s].node = [@ EXCEPT !.mode = "dir", !.nlinks = 2, !.size = BlkSize,
                                        !.zone[0] = b],
            !.table[s].dirt = TRUE]

\* The new directory with its block and its two entries.
NewDir(f, n, parent, b) ==
    LET s == Entry(f, n)
    IN  [NewBlock(f) EXCEPT
            !.body[b] = [i \in {0, 1} |-> IF i = 0 THEN [name |-> Dot, nr |-> n]
                                                   ELSE [name |-> DotDot, nr |-> parent]],
            !.table[s].node = [@ EXCEPT !.mode = "dir", !.nlinks = 2, !.size = BlkSize,
                                        !.zone[0] = b],
            !.table[s].dirt = TRUE]

\* There is no entry in the table for the inode, or no block.
MkdirNoBlock(d, p) ==
    /\ \E n \in {NewInodeNr(d.f)}, g \in {NewInode(d.f)} :
          /\ Making(d, p, n)
          /\ g.status = "ok" => NewBlockNr(g) = 0
          /\ fs' = IF g.status # "ok" THEN g
                   ELSE Abandon(PutBack([NewBlock(g) EXCEPT
                                            !.table[Entry(g, n)].node.zone[0] = 0], d.dir), n)
    /\ UNCHANGED <<handle, harm>>

(* mkdir sets the first zone of the new inode and leaves the others as the    *)
(* inode that had the table entry before has left them.                     *)
NoneInherited(f, n) == \A z \in Zone \ {0} : Mem(f, n).node.zone[z] = 0

Mkdir(d, p) ==
    /\ \E n \in {NewInodeNr(d.f)}, g \in {NewInode(d.f)} :
          /\ Making(d, p, n)
          /\ g.status = "ok" /\ NewBlockNr(g) # 0
          /\ \E m \in {NewDir(g, n, d.dir, NewBlockNr(g))} :
             /\ harm' = harm \cup Harm("dots", DotName(p)) \cup Harm("zones", ~NoneInherited(g, n))
                             \cup Harm("links", Room(m, d.dir) /\ LastLink(d.f, d.dir))
             /\ \/ /\ Room(m, d.dir)
                   /\ fs' = PutBack(PutBack(Links(AddEntry(m, d.dir, Base(p), n), d.dir, 1),
                                            d.dir), n)
                \/ /\ ~Room(m, d.dir)
                   /\ fs' = Abandon(FreeBlock(PutBack(AddEntry(m, d.dir, Base(p), n), d.dir),
                                              NewBlockNr(g)), n)
    /\ UNCHANGED handle

-----------------------------------------------------------------------------
(* rmdir and unlink *)

\* The inode n of the name is fetched while its directory is kept.
Victim(d, p, n, g) ==
    /\ Within(d, p, TRUE)
    /\ n = Child(d.f, d.dir, Base(p), TRUE)
    /\ g = Iget(d.f, n)

\* is_dir_empty looks at one block and trusts the size for the others.
TooBig(f, n)   == Mem(f, n).node.size > BlkSize
FirstBlk(f, n) == Bmap(f, Entry(f, n), 0)

\* Mutant: the first entry after ".." is not looked at.
EmptiedOff(f, n) == FirstBlk(f, n) # 0 /\ DOMAIN f.body[FirstBlk(f, n)] \subseteq {0, 1, 2}

Emptied(f, n) == FirstBlk(f, n) # 0 /\ DOMAIN f.body[FirstBlk(f, n)] \subseteq {0, 1}

\* It is used, it is its own parent, the root or not a directory, or it is too big.
NotRemovable(f, n, parent) ==
    \/ Mem(f, n).cnt > 1
    \/ n \in {parent, Root}
    \/ ~IsDir(f, n)
    \/ TooBig(f, n)

RmdirDenied(d, p) ==
    /\ \E n \in Inr : \E g \in {Iget(d.f, n)} :
          /\ Victim(d, p, n, g)
          /\ g.status = "ok" => NotRemovable(g, n, d.dir)
          /\ fs' = IF g.status = "ok" THEN PutBack(PutBack(g, d.dir), n) ELSE g
    /\ UNCHANGED <<handle, harm>>

(* The buffer of a directory that is not empty stays referenced.  One that   *)
(* has no first block, which mkdir does not make, ends FS.                   *)
RmdirNotEmpty(d, p) ==
    /\ \E n \in Inr : \E g \in {Iget(d.f, n)} :
          /\ Victim(d, p, n, g) /\ g.status = "ok"
          /\ ~NotRemovable(g, n, d.dir) /\ ~Emptied(g, n)
          /\ fs' = IF FirstBlk(g, n) = 0 THEN Crash(g, "dir is not correct")
                   ELSE [PutBack(PutBack(g, d.dir), n) EXCEPT !.pinned = @ \cup {FirstBlk(g, n)}]
    /\ UNCHANGED <<handle, harm>>

(* A wrong link count is reported and both inodes are put back, and then     *)
(* the removal goes on.                                                     *)
Rmdir(d, p) ==
    /\ \E n \in Inr : \E g \in {Iget(d.f, n)} :
          /\ Victim(d, p, n, g) /\ g.status = "ok"
          /\ ~NotRemovable(g, n, d.dir) /\ Emptied(g, n)
          /\ \E k \in {IF Mem(g, n).node.nlinks = 2 THEN g
                       ELSE PutBack(PutBack(g, d.dir), n)},
                s \in {Entry(g, n)} :
             fs' = Iput(PutBack(Links([DropEntry(k, d.dir, Base(p)) EXCEPT
                                          !.table[s].node.nlinks = 0,
                                          !.table[s].dirt = FALSE], d.dir, -1), d.dir), s)
    /\ UNCHANGED <<handle, harm>>

UnlinkDenied(d, p) ==
    /\ \E n \in Inr : \E g \in {Iget(d.f, n)} :
          /\ Victim(d, p, n, g)
          /\ g.status = "ok" => IsDir(g, n)
          /\ fs' = IF g.status = "ok" THEN PutBack(PutBack(g, n), d.dir) ELSE g
    /\ UNCHANGED <<handle, harm>>

(* The inode is dirty when it is put back: it is not freed here, whatever    *)
(* its count.  One without links is given one first.                        *)
Unlink(d, p) ==
    /\ \E n \in Inr : \E g \in {Iget(d.f, n)} :
          /\ Victim(d, p, n, g) /\ g.status = "ok"
          /\ ~IsDir(g, n)
          /\ fs' = PutBack(PutBack(
                       Links(DropEntry(g, d.dir, Base(p)), n,
                             IF Mem(g, n).node.nlinks = 0 THEN 0 ELSE -1), n), d.dir)
    /\ UNCHANGED <<handle, harm>>

-----------------------------------------------------------------------------
(* link, list, and writing everything back *)

\* The old name is not there or names a directory; else it is kept.
LinkDenied(old) ==
    /\ Running
    /\ old.dir # 0 => IsDir(old.f, old.dir)
    /\ fs' = IF old.dir = 0 THEN old.f ELSE PutBack(old.f, old.dir)
    /\ UNCHANGED <<handle, harm>>

NoNewName(old, d, q) ==
    /\ Running
    /\ old.dir # 0 /\ ~IsDir(old.f, old.dir)
    /\ \/ d.dir = 0 /\ fs' = IF d.f.status = "ok" THEN PutBack(d.f, old.dir) ELSE d.f
       \/ /\ d.dir # 0
          /\ Base(q) = NoName \/ Child(d.f, d.dir, Base(q), TRUE) # 0
          /\ fs' = PutBack(PutBack(d.f, old.dir), d.dir)
    /\ UNCHANGED <<handle, harm>>

Link(old, d, q) ==
    /\ old.dir # 0 /\ ~IsDir(old.f, old.dir)
    /\ Within(d, q, FALSE)
    /\ \E g \in {AddEntry(d.f, d.dir, Base(q), old.dir)} :
          fs' = IF Room(d.f, d.dir)
                THEN PutBack(Links(PutBack(g, d.dir), old.dir, 1), old.dir)
                ELSE PutBack(PutBack(g, old.dir), d.dir)
    /\ harm' = harm \cup Harm("dots", DotName(q))
                    \cup Harm("links", Room(d.f, d.dir) /\ LastLink(d.f, old.dir))
    /\ UNCHANGED handle

\* list() gets and puts back every inode that is named in a directory.
Visit(f, n) == LET g == Iget(f, n) IN IF g.status # "ok" THEN g ELSE PutBack(g, n)

List(m) ==
    /\ Running
    /\ \/ m.dir = 0 /\ fs' = m.f
       \/ /\ m.dir # 0 /\ ~IsDir(m.f, m.dir)
          /\ fs' = PutBack(m.f, m.dir)
       \/ /\ m.dir # 0 /\ IsDir(m.f, m.dir)
          /\ LET all == Listing(m.f, m.dir)
                 seen[t \in Place \cup {-1}] ==
                     IF t = -1 THEN m.f
                     ELSE LET f == seen[t - 1]
                          IN  IF f.status = "ok" /\ \E e \in all : e[1] = t
                              THEN Visit(f, (CHOOSE e \in all : e[1] = t)[3])
                              ELSE f
                 end == seen[PerBlk * Cardinality(FileBlk) - 1]
             IN  fs' = IF end.status = "ok" THEN PutBack(end, m.dir) ELSE end
    /\ UNCHANGED <<handle, harm>>

\* sync_all and the calls that wait for it to write the bitmaps and blocks.
Sync ==
    /\ fs.status = "ok"
    /\ fs' = SyncInodes(fs)
    /\ UNCHANGED <<handle, harm>>

-----------------------------------------------------------------------------
(* The file system at the start: load_root has just made its two inodes, both *)
(* of which stay counted, or it finds them on the disk.                      *)

Formatted ==
    [imap |-> {0}, zmap |-> {}, table |-> [s \in Slot |-> Empty],
     dev |-> [n \in Inr |-> NoNode], body |-> [b \in Blk |-> ZeroBlk],
     pinned |-> {}, status |-> "ok"]

RootNode(f, n, b) == [Mem(f, n).node EXCEPT !.mode = "dir", !.size = BlkSize, !.zone[0] = b]

\* f has the two inodes, b1 and b2 are their blocks.
WithRoots(f, b1, b2) ==
    [f EXCEPT !.table[Entry(f, Root)].node    = RootNode(f, Root, b1),
              !.table[Entry(f, RootDir)].node = RootNode(f, RootDir, b2),
              !.body[b1] = [i \in {0} |-> [name |-> Slash, nr |-> RootDir]],
              !.body[b2] = [i \in {0, 1} |-> IF i = 0 THEN [name |-> Dot, nr |-> RootDir]
                                                      ELSE [name |-> DotDot, nr |-> Root]]]

WithBlocks(f) == WithRoots(NewBlock(NewBlock(f)), NewBlockNr(f), NewBlockNr(NewBlock(f)))
Installed     == SyncInodes(WithBlocks(NewInode(NewInode(Formatted))))

Rebooted == [Installed EXCEPT !.table = [s \in Slot |-> Empty]]

Init ==
    /\ fs \in {Installed, Rebooted}
    /\ handle = [h \in Handle |-> Closed]
    /\ harm = {}

\* Calls that start with dir_namei, and those that start with namei.
Calls(d, p) ==
    \/ NoParent(d) \/ Declined(d)
    \/ OpenDenied(d, p)
    \/ MkdirNoBlock(d, p) \/ Mkdir(d, p)
    \/ RmdirDenied(d, p) \/ RmdirNotEmpty(d, p) \/ Rmdir(d, p)
    \/ UnlinkDenied(d, p) \/ Unlink(d, p)
    \/ \E mode \in Modes : CreateFails(d, p, mode)
    \/ \E h \in Handle : \/ OpenDir(d, p, h)
                         \/ \E mode \in Modes : Create(d, p, h, mode)
                         \/ \E trunc \in BOOLEAN : Open(d, p, h, trunc)

Next ==
    \/ \E p \in Paths : \E d \in {Parent(fs, p)} : Calls(d, p)
    \/ \E p \in Paths : \E m \in {Namei(fs, p)} :
          \/ List(m)
          \/ LinkDenied(m)
          \/ \E q \in Paths : \E d \in {Parent(m.f, q)} : NoNewName(m, d, q) \/ Link(m, d, q)
    \/ \E h \in Handle : Close(h)
    \/ Sync

Spec == Init /\ [][Next]_vars

-----------------------------------------------------------------------------
Searching == "no entry, searching for ever"

\* FS runs, or has ended in crash() or in the endless search of WithSpare.
Status == {"ok", "non-zoned zone", "block in use", "block already cleared", "inode in use",
           "inode has links", "inode already cleared", "inode not in use",
           "dir is not correct", Searching}

(* Type invariant. *)
TypeOK ==
    /\ harm \subseteq Reasons
    /\ harm = {} =>
        /\ fs.imap \subseteq 0 .. InodeBits - 1
        /\ fs.zmap \subseteq 0 .. ZoneBits - 1
        /\ fs.table \in [Slot -> [num : {0} \cup Inr, cnt : Nat, dirt : BOOLEAN, node : Node]]
        /\ fs.dev \in [Inr -> Node]
        /\ DOMAIN fs.body = Blk
        /\ fs.pinned \subseteq Blk
        /\ fs.status \in Status
        /\ handle \in [Handle -> Slot \cup {Closed}]

(* No call ends in crash(), which guards the counts and the bitmaps against    *)
(* putting back twice and freeing what is in use; FS stops only to search for *)
(* an entry for ever, and then all are counted (inode.c:17).                 *)
StopsOnlyFull ==
    harm = {} => \/ fs.status = "ok"
                 \/ fs.status = Searching /\ \A s \in Slot : fs.table[s].cnt > 0

\* The calls so far have left the tree as it should be, and FS goes on.
Sound == harm = {} /\ fs.status = "ok"

\* Directories with a name, or the two that load_root made.
Live == {n \in fs.imap \cap Inr : Current(fs, n).nlinks > 0}
Dirs == {n \in fs.imap \cap Inr : LET node == Current(fs, n)
                                IN  node.mode = "dir" /\ node.nlinks > 0}

(* The entries of live directories, whether or not they are in the table.    *)
BlocksOf(n) == LET node == Current(fs, n)
               IN  {BlockOf(fs, node.zone, k) : k \in Scanned(fs, node)}
Entries == UNION {LET e == fs.body[t[2]] IN {<<t[1], e[i].name, e[i].nr>> : i \in DOMAIN e} :
                  t \in UNION {{<<n, b>> : b \in BlocksOf(n)} : n \in Dirs}}
Names   == {e \in Entries : e[2] \notin {Dot, DotDot}}

\* An inode has as many links as names, a directory two and one per sub-directory.
CountsRight ==
    fs.status = "ok" =>
        LET all == Entries
            dirs == Dirs
        IN  \A n \in Live :
                LET to == {e \in all : e[3] = n}
                IN  Current(fs, n).nlinks =
                        IF n \notin dirs THEN Cardinality(to)
                        ELSE Cardinality({e \in to : e[2] = DotDot})
                               + CASE n = Root -> 0 [] n = RootDir -> 1 [] OTHER -> 2

(* Until a count gets to NrLinks, it is right: rmdir meets no directory whose *)
(* count is wrong (it reports one, and then removes the directory all the     *)
(* same), and iput frees no inode that has a name.                           *)
LinkCounts == harm = {} => CountsRight

(* add_entry says "add a entry to m_dir" (namei.c:57): the names that link     *)
(* and open make for a file, which it counts, are in the directories.        *)
NamesEntered ==
    fs.status = "ok" =>
        LET all == Entries
        IN  \A n \in Live \ Dirs : Current(fs, n).nlinks <= Cardinality({e \in all : e[3] = n})

\* ".." of a directory names the one directory that has a name for it.
ParentsRight ==
    fs.status = "ok" =>
        LET all == Entries
        IN  \A n \in Dirs \ {Root} :
                \E d \in Dirs :
                    /\ {e[3] : e \in {x \in all : x[1] = n /\ x[2] = DotDot}} = {d}
                    /\ {e[1] : e \in {x \in all : x[3] = n /\ x[2] \notin {Dot, DotDot}}} = {d}

(* Whatever mkdir and rmdir did and failed to do, ".." leads to the parent.   *)
DotDotIsParent == harm = {} => ParentsRight

(* A block that is given back is not used again: what a directory has is      *)
(* marked in the zone map.                                                  *)
FreedNotUsed == \A n \in Dirs : {b - 1 : b \in BlocksOf(n)} \subseteq fs.zmap

(* Every directory has blocks, marked in the zone map, and no other directory *)
(* has them.  Files may: see FilesApart.                                     *)
DirBlocksOwned ==
    Sound =>
        /\ FreedNotUsed
        /\ \A n \in Dirs :
              /\ BlocksOf(n) # {}
              /\ \A m \in Dirs \ {n} : BlocksOf(n) \cap BlocksOf(m) = {}

\* What the code does not keep: a file made in an entry that was a directory's has its blocks.
FilesApart == \A n \in Dirs : \A m \in Live \ Dirs : BlocksOf(n) \cap BlocksOf(m) = {}

(* An inode is in the table once, counted for each descriptor that is open:  *)
(* the entry of an open descriptor is not given to another inode.            *)
TableUnique ==
    harm = {} =>
        /\ \A s, t \in Slot : fs.table[s].num = fs.table[t].num /\ s # t => fs.table[s].num = 0
        /\ \A s \in Slot : fs.table[s].cnt >= Cardinality({h \in Handle : handle[h] = s})

T == INSTANCE Tree WITH
        dirs <- Dirs,
        names <- Names,
        Node <- Inr

(* Every call does to the tree of names what it says, or nothing.            *)
ImplementsTree == T!Init /\ [][Sound' => UNCHANGED T!vars \/ T!Next]_vars

=============================================================================
