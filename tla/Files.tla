-------------------------------- MODULE Files --------------------------------
(***************************************************************************)
(* The data of a file: descriptors of fs/open.c and calls of fs/rw.c and     *)
(* fs/file_rw.c on one regular file, whose name the directories give (see    *)
(* Names).  FS serves one call after the other, so a call is one step.       *)
(***************************************************************************)
EXTENDS Inodes, Sequences

CONSTANTS
    Proc,         \* processes
    MaxFilps,     \* MAX_FILPS: descriptors of a process
    MaxOpen,      \* MAX_OPEN_FILES: entries of file_table
    FileNr,       \* the inode of the file
    OtherNr,      \* the inode of some other file
    Byte,         \* what is written, never 0
    Counts,       \* bytes asked for by a call
    Seeks,        \* pairs of an origin and an offset of lseek
    Word,         \* 2^32
    MaxPos        \* bound on the position of a descriptor

ASSUME FilesAssumption ==
    /\ {MaxFilps, MaxOpen, Word} \subseteq Nat \ {0}
    /\ {FileNr, OtherNr} \subseteq Inr /\ FileNr # OtherNr
    /\ 0 \notin Byte
    /\ Counts \subseteq Nat \ {0}
    /\ Seeks \subseteq (0 .. 2) \X Int
    /\ MaxPos \in Nat

VARIABLES
    fs,       \* the inode table, the bitmaps and the blocks
    filp,     \* filp_ptr: the file_table entry of a descriptor, or None
    files,    \* file_table
    ret,      \* what the last call returned, if it was a read or a write
    spoilt    \* history: what has happened to the file that the code does not get right

vars == <<fs, filp, files, ret, spoilt>>

None     == -1
Filp     == 0 .. MaxFilps - 1
OpenFile == 0 .. MaxOpen - 1
FreeFile == [cnt |-> 0, append |-> FALSE, inode |-> 0, pos |-> 0]   \* set anew by open

Nothing == [n |-> 0, data |-> <<>>]
Running == fs.status = "ok"

-----------------------------------------------------------------------------
(* do_open and do_close *)

\* The first free descriptor of p, and the first entry nobody uses.
FirstFilp(p, d) == filp[p][d] = None /\ \A e \in 0 .. d - 1 : filp[p][e] # None
FirstFile(i)    == files[i].cnt = 0 /\ \A j \in 0 .. i - 1 : files[j].cnt # 0

\* No descriptor or no entry is free, or the path is no file.
OpenFails ==
    /\ Running
    /\ ret' = Nothing
    /\ UNCHANGED <<fs, filp, files, spoilt>>

Opened(trunc) == LET g == Iget(fs, FileNr)
                 IN  IF trunc THEN ClearBlocks(g, Entry(g, FileNr)) ELSE g

Open(p, trunc, append) ==
    /\ Running
    /\ fs' = Opened(trunc)
    /\ \E d \in Filp, i \in OpenFile :
          /\ FirstFilp(p, d) /\ FirstFile(i)
          /\ filp' = [filp EXCEPT ![p][d] = i]
          /\ files' = [files EXCEPT ![i] = [cnt |-> 1, append |-> append, pos |-> 0,
                                            inode |-> Entry(Opened(trunc), FileNr)]]
    /\ ret' = Nothing
    /\ UNCHANGED spoilt

\* Mutant: the descriptor still leads to the entry.
CloseKeepsFilp(p, d) ==
    /\ Running
    /\ filp[p][d] # None
    /\ LET i == filp[p][d]
           left == files[i].cnt - 1
       IN  /\ files' = [files EXCEPT ![i] = IF left > 0 THEN [files[i] EXCEPT !.cnt = left]
                                           ELSE FreeFile]
           /\ fs' = IF files[i].cnt = 0 THEN Crash(fs, "file not open")
                    ELSE IF files[i].cnt = 1 THEN Iput(fs, files[i].inode)
                    ELSE fs
    /\ ret' = Nothing
    /\ UNCHANGED <<filp, spoilt>>

Close(p, d) ==
    /\ Running
    /\ filp[p][d] # None
    /\ LET i == filp[p][d]
           left == files[i].cnt - 1
       IN  /\ filp' = [filp EXCEPT ![p][d] = None]
           /\ files' = [files EXCEPT ![i] = IF left > 0 THEN [files[i] EXCEPT !.cnt = left]
                                           ELSE FreeFile]
           /\ fs' = IF files[i].cnt = 0 THEN Crash(fs, "file not open")
                    ELSE IF files[i].cnt = 1 THEN Iput(fs, files[i].inode)
                    ELSE fs
    /\ ret' = Nothing
    /\ UNCHANGED spoilt

-----------------------------------------------------------------------------
(* do_lseek: the offset is unsigned; from the end only, the sum is signed.    *)

Target(i, origin, offset) ==
    CASE origin = 0 -> offset % Word
      [] origin = 1 -> files[i].pos + (offset % Word)
      [] origin = 2 -> fs.table[files[i].inode].node.size + offset

Seek(p, d, origin, offset) ==
    /\ Running
    /\ filp[p][d] # None
    /\ LET i == filp[p][d]
           t == Target(i, origin, offset)
       IN  /\ t <= MaxPos
           /\ files' = IF t < 0 THEN files ELSE [files EXCEPT ![i].pos = t]
    /\ ret' = Nothing
    /\ UNCHANGED <<fs, filp, spoilt>>

-----------------------------------------------------------------------------
(* do_read and file_rd *)

\* Mutant: the byte at the same place of the first block.
ByteAtFirst(f, zone, q) ==
    IF zone[0] = 0 THEN 0 ELSE At(f.body[zone[0]], q % BlkSize, 0)

\* The byte at position q; a hole reads as zeros.
ByteAt(f, zone, q) ==
    LET b == BlockOf(f, zone, q \div BlkSize) IN IF b = 0 THEN 0 ELSE At(f.body[b], q % BlkSize, 0)

Read(p, d, count) ==
    /\ Running
    /\ filp[p][d] # None
    /\ LET i == filp[p][d]
           pos == files[i].pos
           node == fs.table[files[i].inode].node
           left == node.size - pos
           n == IF left < 0 THEN 0 ELSE IF count > left THEN left ELSE count
           tooBig == n > 0 /\ (pos + n - 1) \div BlkSize \notin FileBlk
       IN  /\ fs' = IF tooBig THEN Crash(fs, "block too big") ELSE fs
           /\ ret' = IF tooBig THEN Nothing
                     ELSE [n |-> n, data |-> [j \in 1 .. n |-> ByteAt(fs, node.zone, pos + j - 1)]]
           /\ files' = IF tooBig THEN files ELSE [files EXCEPT ![i].pos = pos + n]
    /\ UNCHANGED <<filp, spoilt>>

-----------------------------------------------------------------------------
(* do_write and file_wr: block by block.  The block is that of f_pos, the     *)
(* place in it that of pos, which is the end of the file for O_APPEND.       *)

\* Mutant: a chunk does not end with its block.
ChunkWhole(w, s, c) ==
    LET k == w.fpos \div BlkSize
        g == CreateBlock(w.f, s, k)
        b == Bmap(g, s, k)
        offset == w.pos % BlkSize
        chars == w.cnt
    IN  IF w.cnt = 0 THEN w
        ELSE IF k \notin FileBlk THEN [w EXCEPT !.f = Crash(w.f, "block too big"), !.cnt = 0]
        ELSE IF b = 0 THEN [w EXCEPT !.f = g, !.cnt = 0]
        ELSE [f |-> [g EXCEPT
                  !.body[b] = Fill(@, offset .. offset + chars - 1, c),
                  !.table[s].node.size = IF w.pos + chars > @ THEN w.pos + chars ELSE @,
                  !.table[s].dirt = @ \/ w.pos + chars > g.table[s].node.size],
              pos |-> w.pos + chars, fpos |-> w.fpos + chars,
              cnt |-> w.cnt - chars, written |-> w.written + chars]

Chunk(w, s, c) ==
    LET k == w.fpos \div BlkSize
        g == CreateBlock(w.f, s, k)
        b == Bmap(g, s, k)
        offset == w.pos % BlkSize
        chars == IF BlkSize - offset > w.cnt THEN w.cnt ELSE BlkSize - offset
    IN  IF w.cnt = 0 THEN w
        ELSE IF k \notin FileBlk THEN [w EXCEPT !.f = Crash(w.f, "block too big"), !.cnt = 0]
        ELSE IF b = 0 THEN [w EXCEPT !.f = g, !.cnt = 0]
        ELSE [f |-> [g EXCEPT
                  !.body[b] = Fill(@, offset .. offset + chars - 1, c),
                  !.table[s].node.size = IF w.pos + chars > @ THEN w.pos + chars ELSE @,
                  !.table[s].dirt = @ \/ w.pos + chars > g.table[s].node.size],
              pos |-> w.pos + chars, fpos |-> w.fpos + chars,
              cnt |-> w.cnt - chars, written |-> w.written + chars]

Written(i, count, c) ==
    LET s == files[i].inode
        pos == IF files[i].append THEN fs.table[s].node.size ELSE files[i].pos
        done[n \in 0 .. count] ==
            IF n = 0 THEN [f |-> fs, pos |-> pos, fpos |-> files[i].pos,
                           cnt |-> count, written |-> 0]
            ELSE LET w == done[n - 1] IN Chunk(w, s, c)
    IN  done[count]

\* The block and the place in it are not of the same position.
Aside(i) == files[i].append /\ files[i].pos # fs.table[files[i].inode].node.size

Write(p, d, count, c) ==
    /\ Running
    /\ filp[p][d] # None
    /\ files[filp[p][d]].pos <= MaxPos
    /\ \E i \in {filp[p][d]} : \E w \in {Written(i, count, c)} :
          /\ fs' = w.f
          /\ files' = [files EXCEPT ![i].pos = IF files[i].append THEN w.fpos ELSE w.pos]
          /\ ret' = [n |-> w.written, data |-> <<>>]
          /\ spoilt' = spoilt \cup {e \in {"appended"} : Aside(i)}
    /\ UNCHANGED filp

-----------------------------------------------------------------------------
(* Other files use the inode table, and everything is written back. *)

\* Emptying a file does not make its inode dirty: the device still has its blocks.
Emptied(f) == Has(f, FileNr) /\ ~Mem(f, FileNr).dirt /\ Mem(f, FileNr).node # f.dev[FileNr]

Elsewhere ==
    /\ Running
    /\ \E g \in {Iget(fs, OtherNr)} :
          /\ fs' = IF g.status = "ok" THEN Iput(g, Entry(g, OtherNr)) ELSE g
          /\ spoilt' = spoilt \cup {e \in {"emptied"} : Emptied(fs) /\ ~Has(g, FileNr)}
    /\ ret' = Nothing
    /\ UNCHANGED <<filp, files>>

Sync ==
    /\ Running
    /\ fs' = SyncInodes(fs)
    /\ ret' = Nothing
    /\ UNCHANGED <<filp, files, spoilt>>

\* A file made in an entry of the table that left it no zones (see Names).
FileNode == [NoNode EXCEPT !.mode = "reg", !.nlinks = 1]

Init ==
    /\ fs = [imap |-> {0, FileNr, OtherNr}, zmap |-> {},
             table |-> [s \in Slot |-> Empty],
             dev |-> [n \in Inr |-> IF n \in {FileNr, OtherNr} THEN FileNode ELSE NoNode],
             body |-> [b \in Blk |-> ZeroBlk], pinned |-> {}, status |-> "ok"]
    /\ filp = [p \in Proc |-> [d \in Filp |-> None]]
    /\ files = [i \in OpenFile |-> FreeFile]
    /\ ret = Nothing
    /\ spoilt = {}

Next ==
    \/ \E p \in Proc :
          \/ \E trunc \in BOOLEAN, append \in BOOLEAN : Open(p, trunc, append)
          \/ \E d \in Filp :
                \/ Close(p, d)
                \/ \E k \in Seeks : Seek(p, d, k[1], k[2])
                \/ \E n \in Counts : \/ Read(p, d, n)
                                     \/ \E c \in Byte : Write(p, d, n, c)
    \/ OpenFails
    \/ Elsewhere
    \/ Sync

Spec == Init /\ [][Next]_vars

-----------------------------------------------------------------------------
(* Two things the code gets wrong by itself: a write through an O_APPEND      *)
(* descriptor that is not at the end (file_rw.c:67,72), and an emptied inode *)
(* whose entry is taken for another before it is written (inode.c:348).      *)
(* Until they happen, and only until then, the following is kept.            *)
Owned == "emptied" \notin spoilt

(* Type invariant. *)
TypeOK == Owned =>
    /\ fs.zmap \subseteq 0 .. ZoneBits - 1
    /\ fs.table \in [Slot -> [num : {0} \cup Inr, cnt : Nat, dirt : BOOLEAN, node : Node]]
    /\ fs.dev \in [Inr -> Node]
    /\ \A b \in Blk : DOMAIN fs.body[b] \subseteq 0 .. BlkSize - 1
    /\ filp \in [Proc -> [Filp -> OpenFile \cup {None}]]
    /\ files \in [OpenFile -> [cnt : {0, 1}, append : BOOLEAN, inode : Slot, pos : Nat]]
    /\ ret.n \in Int /\ ret.data \in Seq(Byte \cup {0})

(* Every open descriptor has an entry of file_table to itself, and an entry  *)
(* in use has a descriptor: no process moves the position of another, no     *)
(* close finds the count 0, and no entry is lost.                           *)
DescriptorsOwn ==
    /\ \A p \in Proc, d \in Filp : filp[p][d] # None => files[filp[p][d]].cnt = 1
    /\ \A i \in OpenFile : files[i].cnt # 0 => \E p \in Proc, d \in Filp : filp[p][d] = i
    /\ \A p, q \in Proc : \A d, e \in Filp :
          filp[p][d] # None /\ filp[p][d] = filp[q][e] => p = q /\ d = e

(* No call ends in crash() but one that goes past the largest size of a file: *)
(* until an emptied inode is taken from the table unwritten, no block is      *)
(* freed twice, no entry is searched for ever, no file is closed twice.      *)
NoCrash == fs.status \in {"ok", "block too big"}
NeverStuck == Owned => NoCrash

\* The blocks of the file, those of zone numbers included, in order.
Parts ==
    LET zone == Current(fs, FileNr).zone
    IN  {<<i, Part(fs, zone, i)>> : i \in {j \in 0 .. LastPart : Part(fs, zone, j) # 0}}

(* A block is marked if and only if it is one of the file, which has it once: *)
(* a write that finds the disk full loses no block, nor does a file that is   *)
(* emptied, closed and opened again while its entry stays in the table.       *)
BlocksOwned == Owned =>
    LET parts == Parts
    IN  /\ {t[2] : t \in parts} = {b \in Blk : b - 1 \in fs.zmap}
        /\ \A t, u \in parts : t[2] = u[2] => t = u

Content == LET node == Current(fs, FileNr)
           IN  [q \in 1 .. node.size |-> ByteAt(fs, node.zone, q - 1)]

F == INSTANCE Flat WITH
        Desc <- Proc \X Filp,
        bytes <- Content,
        pos <- [d \in Proc \X Filp |-> IF filp[d[1]][d[2]] = None THEN None
                                       ELSE files[filp[d[1]][d[2]]].pos]

(* Reads and writes are those of a flat array of bytes with a position for   *)
(* each descriptor, whatever blocks the bytes are in, up to the first write   *)
(* aside or loss of an emptied inode.                                       *)
ImplementsFlat == F!Init /\ [][spoilt' = {} => F!Next]_(F!vars)

\* What a file promises always, and the code does not (MCFilesAppend.cfg).
FlatAlways == F!Spec
=============================================================================
