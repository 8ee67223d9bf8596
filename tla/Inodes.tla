------------------------------- MODULE Inodes -------------------------------
(***************************************************************************)
(* What FS keeps about files below their names: the inode table of          *)
(* fs/inode.c, the bitmaps of fs/bitmap.c and the blocks of a file.  The     *)
(* operators take the state of FS as a record and give the state after a    *)
(* call; what the call returns is an operator of its own, like NewBlockNr.  *)
(*                                                                         *)
(* Blocks and the inode blocks of the device are read and written through    *)
(* the buffer cache, which Cache shows to give back what was written.        *)
(***************************************************************************)
EXTENDS Integers, FiniteSets

CONSTANTS
    NrInode,     \* NR_INODE: entries of inode_table
    InodeBits,   \* bits of the inode map, bit 0 is never given out
    NrZones,     \* sb_nzones, in a numbering where sb_first_datazone is 1
    ZoneBits,    \* bits of the zone map; the device may have fewer zones
    ByteBits,    \* 8: bits that find_first_zero looks at together
    Direct,      \* 7: zones an inode names itself
    PerInd,      \* 512: zones a block of zone numbers holds
    BlkSize,     \* BLK_SIZE
    NrLinks      \* 256: i_nlinks is one byte

ASSUME InodesAssumption ==
    /\ {NrInode, InodeBits, NrZones, ByteBits, Direct, PerInd, BlkSize} \subseteq Nat \ {0}
    /\ NrInode % 2 = 0
    /\ ZoneBits \in Nat /\ ZoneBits >= NrZones - 1
    /\ PerInd <= BlkSize
    /\ NrLinks \in Nat /\ NrLinks > 2

Slot  == 0 .. NrInode - 1
Inr   == 1 .. InodeBits - 1
Blk   == 1 .. NrZones - 1
Ind   == Direct          \* i_zone[7]
Dind  == Direct + 1      \* i_zone[8]
Zone  == 0 .. Dind
FileBlk == 0 .. Direct + PerInd + PerInd * PerInd - 1

NoZones == [z \in Zone |-> 0]
Node    == [mode : {"none", "reg", "dir"}, nlinks : 0 .. NrLinks - 1, size : Nat,
            zone : [Zone -> 0 .. NrZones - 1]]
NoNode  == [mode |-> "none", nlinks |-> 0, size |-> 0, zone |-> NoZones]
Empty   == [num |-> 0, cnt |-> 0, dirt |-> FALSE, node |-> NoNode]
ZeroBlk == <<>>

(* A block is a function from the places that are not zero to what is there.*)
At(b, i, zero) == IF i \in DOMAIN b THEN b[i] ELSE zero
Fill(b, S, x)  == [i \in S \cup DOMAIN b |-> IF i \in S THEN x ELSE b[i]]
Put(b, i, x)   == Fill(b, {i}, x)

-----------------------------------------------------------------------------
(* Bitmaps. *)

\* Mutant: the search goes on behind the last bit.
FirstZeroPast(used, bits) ==
    LET good == {n \in (0 .. bits) \ used : \A m \in 0 .. n - 1 : m \in used}
    IN  IF good = {} THEN -1 ELSE CHOOSE n \in good : \A k \in good : n <= k

(* find_first_zero: a byte is good only if its ones are the low bits, the    *)
(* table has no other patterns.  -1 if there is no good byte.               *)
FirstZero(used, bits) ==
    LET byte(n) == {m \in 0 .. bits - 1 : m \div ByteBits = n \div ByteBits}
        good == {n \in (0 .. bits - 1) \ used :
                    \A m \in byte(n) : m \in used <=> m < n}
    IN  IF good = {} THEN -1 ELSE CHOOSE n \in good : \A k \in good : n <= k

\* crash(): FS prints a message and stops the machine.
Crash(f, why) == [f EXCEPT !.status = why]

\* The bit of a block at or beyond the end is set, too.
NewBlockNr(f) ==
    LET z == FirstZero(f.zmap, ZoneBits)
    IN  IF z + 1 \in Blk THEN z + 1 ELSE 0

\* Mutant: the bit is not set.
MarkedNot(f, z) == [f EXCEPT !.body = IF z + 1 \in Blk THEN [@ EXCEPT ![z + 1] = ZeroBlk] ELSE @]

Marked(f, z) == [f EXCEPT !.zmap = @ \cup ({z} \ {-1}),
                          !.body = IF z + 1 \in Blk THEN [@ EXCEPT ![z + 1] = ZeroBlk] ELSE @]

NewBlock(f) == Marked(f, FirstZero(f.zmap, ZoneBits))

\* A block is given back by whoever has it; its buffer must have no user.
FreeBlock(f, b) ==
    IF b \notin Blk         THEN Crash(f, "non-zoned zone")
    ELSE IF b \in f.pinned  THEN Crash(f, "block in use")
    ELSE IF b - 1 \notin f.zmap THEN Crash(f, "block already cleared")
    ELSE [f EXCEPT !.zmap = @ \ {b - 1}]

-----------------------------------------------------------------------------
(* The inode table. *)

\* The table is searched from both ends: 0, 63, 1, 62 ...
Rank(s)  == IF 2 * s < NrInode THEN 2 * s ELSE 2 * (NrInode - 1 - s) + 1
First(S) == CHOOSE s \in S : \A t \in S : Rank(s) <= Rank(t)

\* The entry that has inode n, once it was got.
Entry(f, n) == First({s \in Slot : f.table[s].num = n})
Has(f, n)   == \E s \in Slot : f.table[s].num = n
Mem(f, n)   == f.table[Entry(f, n)]

\* i_dev is 0 exactly where i_num is.
WriteInode(f, s) ==
    IF f.table[s].num = 0 \/ ~f.table[s].dirt THEN f
    ELSE [f EXCEPT !.dev[f.table[s].num] = f.table[s].node, !.table[s].dirt = FALSE]

\* An entry that is dirty has been made valid before anything writes it.
SyncInodes(f) ==
    LET dirty == {s \in Slot : f.table[s].num # 0 /\ f.table[s].dirt}
    IN  [f EXCEPT !.dev = [n \in Inr |->
                              IF \E s \in dirty : f.table[s].num = n
                              THEN f.table[CHOOSE s \in dirty : f.table[s].num = n].node
                              ELSE f.dev[n]],
                  !.table = [s \in Slot |-> [f.table[s] EXCEPT !.dirt = FALSE]]]

Spare(f) == {s \in Slot : f.table[s].cnt = 0 /\ ~f.table[s].dirt}

(* get_empty_inode tries again after writing back, for ever if that has      *)
(* not made an entry spare.                                                 *)
WithSpare(f) ==
    IF Spare(f) # {} THEN f
    ELSE IF Spare(SyncInodes(f)) # {} THEN SyncInodes(f)
    ELSE Crash(f, "no entry, searching for ever")

Fetch(f, n) ==
    IF f.status # "ok" THEN f
    ELSE [f EXCEPT !.table[First(Spare(f))] =
             [num |-> n, cnt |-> 1, dirt |-> FALSE, node |-> f.dev[n]]]

\* Mutant: an inode that is in the table is not counted again.
IgetUncounted(f, n) == IF Has(f, n) THEN f ELSE Fetch(WithSpare(f), n)

Iget(f, n) == IF Has(f, n) THEN [f EXCEPT !.table[Entry(f, n)].cnt = @ + 1]
                           ELSE Fetch(WithSpare(f), n)

\* The entry keeps the mode, size and zones of the inode that had it before.
NewInodeNr(f) ==
    LET n == FirstZero(f.imap, InodeBits) IN IF n = -1 THEN 0 ELSE n

Occupy(f, n) ==
    IF f.status # "ok" THEN f
    ELSE [f EXCEPT !.table[First(Spare(f))] =
             [num |-> n, cnt |-> 1, dirt |-> TRUE, node |-> [@.node EXCEPT !.nlinks = 1]]]

InodeAs(f, n) == IF n = 0 THEN f ELSE Occupy(WithSpare([f EXCEPT !.imap = @ \cup {n}]), n)
NewInode(f)   == InodeAs(f, NewInodeNr(f))

FreeInode(f, s) ==
    LET n == f.table[s].num
    IN  IF f.table[s].cnt # 0        THEN Crash(f, "inode in use")
        ELSE IF f.table[s].node.nlinks # 0 THEN Crash(f, "inode has links")
        ELSE IF n \notin f.imap      THEN Crash(f, "inode already cleared")
        ELSE [f EXCEPT !.imap = @ \ {n}, !.table[s] = Empty]

-----------------------------------------------------------------------------
(* The blocks of a file. *)

\* Place i of block b of zone numbers; there is no block 0.
Ptr(f, b, i) == IF b = 0 THEN 0 ELSE At(f.body[b], i, 0)

\* __bmap that creates nothing, for the zones of an inode.
BlockOf(f, zone, k) ==
    LET i == k - Direct
        j == i - PerInd
    IN  CASE k < Direct -> zone[k]
          [] i \in 0 .. PerInd - 1 -> Ptr(f, zone[Ind], i)
          [] OTHER -> Ptr(f, Ptr(f, zone[Dind], j \div PerInd), j % PerInd)

Bmap(f, s, k) == BlockOf(f, f.table[s].node.zone, k)

\* A zone of the inode, or a place of block b, gets block new if it has none.
SetZone(f, s, z, new) == [f EXCEPT !.table[s].node.zone[z] = new,
                                   !.table[s].dirt = @ \/ new # 0]
SetPtr(f, b, i, new)  == IF new = 0 THEN f ELSE [f EXCEPT !.body[b] = Put(@, i, new)]

\* Mutant: a block is put in place of the one that is there.
NewPtrAnew(f, b, i) == IF b = 0 THEN f ELSE SetPtr(NewBlock(f), b, i, NewBlockNr(f))

NewZone(f, s, z) == IF f.table[s].node.zone[z] # 0 THEN f
                    ELSE SetZone(NewBlock(f), s, z, NewBlockNr(f))
NewPtr(f, b, i)  == IF b = 0 \/ Ptr(f, b, i) # 0 THEN f
                    ELSE SetPtr(NewBlock(f), b, i, NewBlockNr(f))

ZoneOf(f, s, z)    == f.table[s].node.zone[z]
InInd(f, s, i)     == NewPtr(f, ZoneOf(f, s, Ind), i)
InDind(f, s, j)    == NewPtr(f, ZoneOf(f, s, Dind), j \div PerInd)
BelowDind(f, s, j) == NewPtr(f, Ptr(f, ZoneOf(f, s, Dind), j \div PerInd), j % PerInd)

\* create_block: what it returns is Bmap afterwards, 0 if there was no room.
CreateBlock(f, s, k) ==
    CASE k < Direct          -> NewZone(f, s, k)
      [] k - Direct \in 0 .. PerInd - 1
                             -> InInd(NewZone(f, s, Ind), s, k - Direct)
      [] OTHER               -> BelowDind(InDind(NewZone(f, s, Dind), s, k - Direct - PerInd),
                                          s, k - Direct - PerInd)

\* The blocks clear_iblks gives up, in its order; 0 where there is none.
IndPart(f, b, i)  == IF i = PerInd THEN b ELSE Ptr(f, b, i)
DindPart(f, b, i) ==
    IF i = PerInd * (PerInd + 1) THEN b
    ELSE IndPart(f, Ptr(f, b, i \div (PerInd + 1)), i % (PerInd + 1))

LastPart == Direct + (PerInd + 1) + PerInd * (PerInd + 1)
Part(f, zone, i) ==
    CASE i < Direct -> zone[i]
      [] i - Direct \in 0 .. PerInd -> IndPart(f, zone[Ind], i - Direct)
      [] OTHER -> DindPart(f, zone[Dind], i - Direct - PerInd - 1)

\* Mutant: the inode keeps the numbers of its blocks.
ClearBlocksKeep(f, s) ==
    LET zone == f.table[s].node.zone
        freed[i \in -1 .. LastPart] ==
            IF i = -1 THEN f
            ELSE LET g == freed[i - 1] b == Part(f, zone, i)
                 IN  IF g.status # "ok" \/ b = 0 THEN g ELSE FreeBlock(g, b)
    IN  IF f.table[s].node.mode # "reg" THEN f
        ELSE [freed[LastPart] EXCEPT !.table[s].node.size = 0]

\* Directories keep their blocks.  The entry does not become dirty.
ClearBlocks(f, s) ==
    LET zone == f.table[s].node.zone
        freed[i \in -1 .. LastPart] ==
            IF i = -1 THEN f
            ELSE LET g == freed[i - 1] b == Part(f, zone, i)
                 IN  IF g.status # "ok" \/ b = 0 THEN g ELSE FreeBlock(g, b)
    IN  IF f.table[s].node.mode # "reg" THEN f
        ELSE [freed[LastPart] EXCEPT !.table[s].node.zone = NoZones,
                                     !.table[s].node.size = 0]

(* iput: an inode that is dirty is written back and nothing else; one that   *)
(* is clean, not used and has no name is freed.                             *)
Cleared(f, s) == IF f.status # "ok" THEN f ELSE FreeInode(f, s)
Lessened(f, s) ==
    IF f.table[s].dirt THEN WriteInode(f, s)
    ELSE IF f.table[s].cnt # 0 \/ f.table[s].node.nlinks # 0 THEN f
    ELSE Cleared(ClearBlocks(f, s), s)

Iput(f, s) == IF f.table[s].cnt = 0 THEN Crash(f, "inode not in use")
              ELSE Lessened([f EXCEPT !.table[s].cnt = @ - 1], s)

\* The inode as FS would find it: in the table, or else on the device.
Current(f, n) == LET S == {s \in Slot : f.table[s].num = n}
                 IN  IF S = {} THEN f.dev[n] ELSE f.table[First(S)].node
=============================================================================
