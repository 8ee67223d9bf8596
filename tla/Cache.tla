-------------------------------- MODULE Cache --------------------------------
(***************************************************************************)
(* The buffer cache of FS: hash rows and free list of fs/buffer.c, reading  *)
(* and releasing blocks in fs/blk_drv.c, and the calls that free_block and  *)
(* new_block of fs/bitmap.c make on it.                                     *)
(*                                                                         *)
(* FS is one thread and the cache its own, so a call is one step, but for   *)
(* the writing back of dirty buffers: power may fail between two writes.    *)
(* There is one device, the root device, and all bh_dev are either it or 0. *)
(***************************************************************************)
EXTENDS Integers, FiniteSets, Sequences

CONSTANTS
    NrBuffers,   \* NR_BUFFERS
    Block,       \* block numbers
    Row,         \* the hash row of every block
    Bitmaps,     \* the bitmap blocks, in the order load_root() reads them
    Data, Zero,  \* contents of a block; one of them is all zeroes
    MaxPins,     \* blocks FS holds at a time besides the bitmaps
    SyncNr,      \* 100: get_buffer asks sync_blks for so many blocks
    None

Buffer == 1 .. NrBuffers
Op     == {"read", "new", "free"}

ASSUME CacheAssumption ==
    /\ Row \in [Block -> Nat]
    /\ Bitmaps \in Seq(Block)
    /\ Zero \in Data
    /\ MaxPins \in Nat \ {0}
    /\ SyncNr \in Nat \ {0}
    /\ NrBuffers \in Nat /\ NrBuffers > Len(Bitmaps) + MaxPins
    /\ None \notin Block \cup Data \cup Buffer \cup (Op \X Block)

VARIABLES
    cache,   \* the cache as a record: hash, next, prev, free, bh
    disk,    \* what the disk has in every block
    call,    \* <<operation, block>> of the call FS is in, or None
    scan,    \* sync_blks: place in the scan, writes done and allowed, or None
    wrote,   \* history: what FS has last put into every block
    cut      \* history: a row was cleared that had other buffers

vars == <<cache, disk, call, scan, wrote>>

-----------------------------------------------------------------------------
(* Hash rows are circular lists; a row knows its head, the head its tail.   *)
Blank == [blk |-> None, valid |-> FALSE, dirt |-> FALSE, cnt |-> 0, data |-> None]

(* The buffers find_buffer looks at: from the head and from the tail at     *)
(* once, until the two meet (odd) or stand next to each other (even).       *)
Compared(c, r) ==
    LET h == c.hash[r]
        ends[n \in 0 .. NrBuffers] ==
            IF n = 0 THEN <<h, c.prev[h]>>
            ELSE LET e == ends[n - 1] IN <<c.next[e[1]], c.prev[e[2]]>>
        Met(e) == c.next[e[1]] = e[2] \/ e[1] = e[2]
        upto == {n \in 0 .. NrBuffers : \A k \in 0 .. n - 1 : ~Met(ends[k])}
    IN  IF h = None THEN {} ELSE UNION {{ends[n][1], ends[n][2]} : n \in upto}

\* find_buffer gives nothing or a buffer that has b.
Found(c, b) == {x \in Compared(c, Row[b]) : c.bh[x].blk = b}

AddHash(c, x) ==
    LET r == Row[c.bh[x].blk]
        h == c.hash[r]
    IN  IF h = None
        THEN [c EXCEPT !.hash[r] = x, !.next[x] = x, !.prev[x] = x]
        ELSE [c EXCEPT !.next = [@ EXCEPT ![c.prev[h]] = x, ![x] = h],
                       !.prev = [@ EXCEPT ![x] = c.prev[h], ![h] = x]]

\* get_buffer when a buffer is free.
GetBuffer(c, b) ==
    LET x == Head(c.free)
    IN  AddHash([c EXCEPT !.free = Tail(@), !.bh[x] = [Blank EXCEPT !.blk = b]], x)

\* Mutant: a buffer is freed without leaving its row.
FreeBufferKeep(c, x) ==
    LET r == Row[c.bh[x].blk]
    IN  IF c.hash[r] = None THEN c
        ELSE [c EXCEPT !.bh[x] = Blank, !.free = Append(@, x)]

\* A row is cleared when its head goes, whatever else is in it.
FreeBuffer(c, x) ==
    LET r == Row[c.bh[x].blk]
        unlinked ==
            IF c.hash[r] = x
            THEN [c EXCEPT !.hash[r] = None]
            ELSE [c EXCEPT !.next[c.prev[x]] = c.next[x], !.prev[c.next[x]] = c.prev[x]]
    IN  IF c.hash[r] = None THEN c
        ELSE [unlinked EXCEPT !.next[x] = None, !.prev[x] = None,
                              !.bh[x] = Blank, !.free = Append(@, x)]

\* Mutant: a clean buffer stays in the cache, off the free list.
BrelseNever(c, x) == [c EXCEPT !.bh[x].cnt = @ - 1]

\* brelse: the last user of a buffer frees it unless it must be written back.
Brelse(c, x) ==
    LET d == [c EXCEPT !.bh[x].cnt = @ - 1]
    IN  IF d.bh[x].cnt = 0 /\ ~(d.bh[x].dirt /\ d.bh[x].valid)
        THEN FreeBuffer(d, x)
        ELSE d

\* The buffer get_blk returns, and the cache it leaves.
Holder(c, b) == IF Found(c, b) # {} THEN CHOOSE x \in Found(c, b) : TRUE ELSE Head(c.free)

GetBlk(c, b) ==
    LET d == IF Found(c, b) # {} THEN c ELSE GetBuffer(c, b)
    IN  [d EXCEPT !.bh[Holder(c, b)].cnt = @ + 1]

\* Mutant: bread reads the block even if its buffer is valid.
BreadAgain(c, b) ==
    [GetBlk(c, b) EXCEPT !.bh[Holder(c, b)].valid = TRUE,
                         !.bh[Holder(c, b)].data = disk[b]]

Bread(c, b) ==
    LET x == Holder(c, b)
        d == GetBlk(c, b)
    IN  IF d.bh[x].valid THEN d
        ELSE [d EXCEPT !.bh[x].valid = TRUE, !.bh[x].data = disk[b]]

-----------------------------------------------------------------------------
(* Calls of the rest of FS. *)

Idle    == call = None /\ scan = None
Used(x) == cache.bh[x].cnt > 0
Bitmap(x) == \E i \in DOMAIN Bitmaps : Bitmaps[i] = cache.bh[x].blk
Pins ==
    LET sum[n \in 0 .. NrBuffers] == IF n = 0 THEN 0 ELSE sum[n - 1] + cache.bh[n].cnt
    IN  sum[NrBuffers] - Len(Bitmaps)

\* A block is created or given up by a caller that does not hold it.
Call(op, b) ==
    /\ Idle
    /\ Pins < MaxPins
    /\ op # "read" => \A x \in Buffer : Used(x) => cache.bh[x].blk # b
    /\ call' = <<op, b>>
    /\ UNCHANGED <<cache, disk, scan, wrote>>

\* A user changes a block it holds.
Modify(x, d) ==
    /\ Idle
    /\ Used(x)
    /\ cache' = [cache EXCEPT !.bh[x].data = d, !.bh[x].dirt = TRUE]
    /\ wrote' = [wrote EXCEPT ![cache.bh[x].blk] = d]
    /\ UNCHANGED <<disk, call, scan>>

\* Mutant: the user releases a block it does not hold.
ReleaseTwice(x) ==
    /\ Idle
    /\ cache' = Brelse(cache, x)
    /\ UNCHANGED <<disk, call, scan, wrote>>

Release(x) ==
    /\ Idle
    /\ cache.bh[x].cnt > (IF Bitmap(x) THEN 1 ELSE 0)
    /\ cache' = Brelse(cache, x)
    /\ UNCHANGED <<disk, call, scan, wrote>>

\* sync_bmaps writes the bitmaps one by one; another one is another step.
SyncBmap(x) ==
    /\ Idle
    /\ Bitmap(x) /\ cache.bh[x].dirt
    /\ disk' = [disk EXCEPT ![cache.bh[x].blk] = cache.bh[x].data]
    /\ cache' = [cache EXCEPT !.bh[x].dirt = FALSE]
    /\ UNCHANGED <<call, scan, wrote>>

\* sync_blks (dev, -1): there are fewer buffers than writes allowed.
Sync ==
    /\ Idle
    /\ scan' = [at |-> 1, done |-> 0, max |-> NrBuffers]
    /\ UNCHANGED <<cache, disk, call, wrote>>

-----------------------------------------------------------------------------
(* The calls themselves. *)

Ready(b) == Found(cache, b) # {} \/ cache.free # <<>>

Get(op, b) ==
    /\ call = <<op, b>> /\ scan = None
    /\ Ready(b)
    /\ call' = None
    /\ UNCHANGED <<disk, scan>>

ReadBlock(b) ==
    /\ Get("read", b)
    /\ cache' = Bread(cache, b)
    /\ UNCHANGED wrote

\* new_block: the block starts as zeroes that still have to be written.
NewBlock(b) ==
    /\ Get("new", b)
    /\ \E x \in {Holder(cache, b)}, c \in {GetBlk(cache, b)} :
          cache' = Brelse([c EXCEPT !.bh[x].data = Zero,
                                    !.bh[x].valid = TRUE, !.bh[x].dirt = TRUE], x)
    /\ wrote' = [wrote EXCEPT ![b] = Zero]

\* free_block: whatever the buffer holds is not written any more.
FreeBlock(b) ==
    /\ Get("free", b)
    /\ \E x \in {Holder(cache, b)}, c \in {GetBlk(cache, b)} :
          cache' = Brelse([c EXCEPT !.bh[x].valid = FALSE, !.bh[x].dirt = FALSE], x)
    /\ wrote' = [wrote EXCEPT ![b] = disk[b]]

\* get_buffer finds no free buffer and writes some back before it tries again.
MakeRoom ==
    /\ call # None /\ scan = None
    /\ ~Ready(call[2])
    /\ scan' = [at |-> 1, done |-> 0, max |-> SyncNr]
    /\ UNCHANGED <<cache, disk, call, wrote>>

-----------------------------------------------------------------------------
(* sync_blks looks at the buffers from both ends towards the middle.        *)
At(k)    == IF k % 2 = 1 THEN (k + 1) \div 2 ELSE NrBuffers + 1 - k \div 2
Dirty(k) == cache.bh[At(k)].dirt /\ cache.bh[At(k)].valid

\* Mutant: a buffer is marked clean without being written.
SyncWriteNot(k) ==
    /\ scan # None
    /\ k \in scan.at .. NrBuffers
    /\ Dirty(k)
    /\ \A j \in scan.at .. k - 1 : ~Dirty(j)
    /\ LET x == At(k)
           freed == IF cache.bh[x].cnt = 0 THEN FreeBuffer(cache, x) ELSE cache
       IN  /\ cache' = [freed EXCEPT !.bh[x].dirt = FALSE]
           /\ scan' = IF scan.done >= scan.max THEN None
                      ELSE [scan EXCEPT !.at = k + 1, !.done = @ + 1]
    /\ UNCHANGED <<disk, call, wrote>>

\* Mutant: a buffer that was written back is not freed.
SyncWriteKeep(k) ==
    /\ scan # None
    /\ k \in scan.at .. NrBuffers
    /\ Dirty(k)
    /\ \A j \in scan.at .. k - 1 : ~Dirty(j)
    /\ disk' = [disk EXCEPT ![cache.bh[At(k)].blk] = cache.bh[At(k)].data]
    /\ cache' = [cache EXCEPT !.bh[At(k)].dirt = FALSE]
    /\ scan' = IF scan.done >= scan.max THEN None
               ELSE [scan EXCEPT !.at = k + 1, !.done = @ + 1]
    /\ UNCHANGED <<call, wrote>>

(* Write a dirty buffer and free it if nobody uses it.  The write that      *)
(* exceeds the number allowed ends the scan, and leaves its buffer dirty if *)
(* it is used.                                                              *)
SyncWrite(k) ==
    /\ scan # None
    /\ k \in scan.at .. NrBuffers
    /\ Dirty(k)
    /\ \A j \in scan.at .. k - 1 : ~Dirty(j)
    /\ disk' = [disk EXCEPT ![cache.bh[At(k)].blk] = cache.bh[At(k)].data]
    /\ LET x == At(k)
           freed == IF cache.bh[x].cnt = 0 THEN FreeBuffer(cache, x) ELSE cache
       IN  IF scan.done >= scan.max
           THEN cache' = freed /\ scan' = None
           ELSE /\ cache' = [freed EXCEPT !.bh[x].dirt = FALSE]
                /\ scan' = [scan EXCEPT !.at = k + 1, !.done = @ + 1]
    /\ UNCHANGED <<call, wrote>>

SyncEnd ==
    /\ scan # None
    /\ \A k \in scan.at .. NrBuffers : ~Dirty(k)
    /\ scan' = None
    /\ UNCHANGED <<cache, disk, call, wrote>>

-----------------------------------------------------------------------------
\* init_buffer, and load_root reading the bitmaps it keeps.
Boot ==
    LET empty == [hash |-> [r \in {Row[b] : b \in Block} |-> None],
                  next |-> [x \in Buffer |-> None], prev |-> [x \in Buffer |-> None],
                  free |-> [x \in Buffer |-> x], bh |-> [x \in Buffer |-> Blank]]
        load[n \in 0 .. Len(Bitmaps)] ==
            IF n = 0 THEN empty ELSE Bread(load[n - 1], Bitmaps[n])
    IN  load[Len(Bitmaps)]

Init ==
    /\ disk \in [Block -> Data]
    /\ cache = Boot
    /\ wrote = disk
    /\ call = None /\ scan = None
    /\ cut = FALSE

\* Only the disk survives.
PowerLoss ==
    /\ cache' = Boot
    /\ wrote' = disk
    /\ call' = None /\ scan' = None
    /\ UNCHANGED disk

Step ==
    \/ MakeRoom
    \/ SyncEnd
    \/ \E k \in Buffer : SyncWrite(k)
    \/ \E b \in Block : ReadBlock(b) \/ NewBlock(b) \/ FreeBlock(b)

Next ==
    \/ PowerLoss
    \/ Sync
    \/ Step
    \/ \E op \in Op, b \in Block : Call(op, b)
    \/ \E x \in Buffer :
          \/ Release(x)
          \/ SyncBmap(x)
          \/ \E d \in Data : Modify(x, d)

(* buffer.c:117 takes a buffer that is the head of its row for the "last    *)
(* hash node in this row": a row that is cleared had no other buffer.       *)
RowClearedWhenLast ==
    \A r \in DOMAIN cache.hash :
        cache.hash[r] = None =>
            \A x \in Buffer : cache.bh[x].blk # None => Row[cache.bh[x].blk] # r

(* From the first cut on buffers are in no row: their links lead to buffers *)
(* of other rows, or nowhere, and what the code does then is not told here. *)
Watch == cut' = (cut \/ ~RowClearedWhenLast')

Spec == Init /\ [][Next /\ Watch]_<<vars, cut>>

\* FS goes on with what it has begun.
FairSpec == Spec /\ WF_vars(Step)

-----------------------------------------------------------------------------
(* As long as no row is cut: *)

(* Every variable keeps its type: no count goes below zero, and a scan does  *)
(* not write more buffers than there are.                                   *)
TypeOK ==
    ~cut =>
    /\ cache.bh \in [Buffer -> [blk : Block \cup {None}, valid : BOOLEAN, dirt : BOOLEAN,
                                cnt : Nat, data : Data \cup {None}]]
    /\ cache.free \in Seq(Buffer)
    /\ \A r \in DOMAIN cache.hash : cache.hash[r] \in Buffer \cup {None}
    /\ disk \in [Block -> Data]
    /\ call \in (Op \X Block) \cup {None}
    /\ scan # None => scan.at \in 1 .. NrBuffers + 1 /\ scan.done \in 0 .. NrBuffers

(* A buffer that is used or waits to be written back is found under its     *)
(* block, and no other buffer is: a block never has two buffers.            *)
InUseIsFound ==
    ~cut => \A x \in Buffer :
        (Used(x) \/ cache.bh[x].dirt) => Found(cache, cache.bh[x].blk) = {x}

(* What bread() would return for a block is what FS last put into it, also  *)
(* after buffers were written back, given up and taken for other blocks.    *)
ReadsWhatWasWritten ==
    ~cut => \A b \in Block :
        LET holders == {x \in Found(cache, b) : cache.bh[x].valid}
        IN  IF holders = {} THEN disk[b] = wrote[b]
            ELSE \A x \in holders : cache.bh[x].data = wrote[b]

(* Every buffer is on the free list once, or used, or waits to be written   *)
(* back: get_buffer can always make room and no buffer is lost.             *)
NoBufferLeaks ==
    ~cut => \A x \in Buffer :
        Cardinality({i \in DOMAIN cache.free : cache.free[i] = x}) =
            (IF Used(x) \/ (cache.bh[x].dirt /\ cache.bh[x].valid) THEN 0 ELSE 1)

(* The loop of get_buffer ends, though each round may write only SyncNr     *)
(* blocks and may spend them on buffers it cannot free.                     *)
CallReturns == (call # None) ~> (call = None \/ cut)

(* After a full sync the disk has everything FS has written.                *)
SyncReachesDisk ==
    [][(~cut /\ SyncEnd /\ call = None) =>
          \A x \in Buffer : cache.bh[x].valid => disk[cache.bh[x].blk] = cache.bh[x].data]_vars
=============================================================================
