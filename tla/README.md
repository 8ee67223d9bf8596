# Verification of caseyOS

caseyOS is a small 32-bit message-passing kernel for one CPU, with its services
(memory manager, file system, terminal, init) as tasks of the same image. This
directory holds TLA+ models of its parts, the TLC configurations that check
them, and proofs that the TLA+ proof system checks. File and line numbers refer
to `src/`.

## 1. Inventory

One CPU; the 8253 clock, the keyboard and the disk interrupt it. A system call
(`int 0x80`, `kernel/kernel.asm:98`) and an interrupt handler run with interrupts
off, so each is atomic with respect to all others. Tasks run with interrupts on,
and in ring 1 or 3 they may use `cli`/`sti` only where their I/O privilege allows
it (the terminal does). All services are threads of processes made at boot.

| Component | State | Operations | Interacts with | What is hard |
|---|---|---|---|---|
| Scheduler `kernel/sched.c` | `thread[].state`, `curtks`, `__curprocs`, `cur_tid` | `clock`, `schedule`/`choose_max`, `sleep_on`, `wake_up`, `pause` | everything that sleeps or wakes | no starvation, slices refilled at the right time, a sleeping thread never keeps the CPU |
| Thread calls `kernel/syscall.c` | `thread_nr`, `t_id`, `taken` | `add_thread`, `end_thread`, `block`, `unblock` | scheduler | `thread_nr` is a count and used as an index bound |
| Asynchronous mail `ipc/post.c`, `pick.c`, `msgcall.c` | mailbox slots, counts, wait queue | `postmail`, `pickmail`, `getm` | scheduler | lost wake-ups, full mailbox, several readers |
| Synchronous mail `ipc/send.c` | one send slot per thread, recorded sends, a counter | `sendmail` | pickmail, scheduler | deadlock between senders, stale records, an unbounded walk |
| Disk interrupt wait `kernel/hdsk.c`, `syscall.c:134-158`, `fs/blk_drv.c` | `intred`, `wait_tid`; the controller | `ll_rw_phys_sect`, `wait_hd_intr`, handler `hdisk` | disk, scheduler | interrupt before, during or long after the wait; controller timeout |
| Keyboard and line `kernel/keybd.c`, `term/decode.c`, `rw_con.c` | two rings | `kb_get`, `kb_put`, `ch_in`, `ch_del`, `getchs` | scheduler (wake-ups) | interrupt between test and sleep, unprotected read of a slot, full ring |
| Block buffer cache `fs/buffer.c`, `blk_drv.c` | hash rows, free list, buffer headers | `get_blk`, `bread`, `brelse`, `sync_blks`, `sync_bmaps` | disk | lists over long histories, dirty data, `get_buffer`'s loop, power loss |
| Bitmaps `fs/bitmap.c` | zone and inode bitmaps | `new_block`, `free_block`, `new_inode`, `free_inode` | cache, inode table | leaked and doubly used blocks |
| Inode table `fs/inode.c` | 64 in-memory inodes | `iget`, `iput`, `get_empty_inode`, `bmap`, `create_block`, `clear_iblks` | cache, bitmaps | reference counts, dirty inodes, full table |
| Directories `fs/namei.c` | directory blocks | `namei`, `open_namei`, `mkdir`, `rmdir`, `link`, `unlink` | inode table, cache | counts on error paths, a call that fails half way, what `..` and link counts say |
| Open files `fs/open.c`, `rw.c`, `file_rw.c` | `file_table`, `filp_ptr`, offsets | open, close, read, write, seek | inode table | two descriptors on one inode, a disk that fills up during a write |
| Superblock `fs/super.c` | `super_blk`, pinned bitmaps | `load_root`, format | cache | crash during installation |
| Context switch `kernel/kernel.asm`, `sched.c:61-98, 199-220` | saved registers | `save`, `restart`, `switch_to`, `ret_prc` | every system call | return value of a call that switched |
| Paging `kernel/page/` | page counts, tables | allocation, fault | — | full memory |
| Process creation and exit `kernel/creatp.c`, `exit.c`, `wait.c` | process table | boot, `exit`, `waitpid` | scheduler, paging | unfinished in the source |

Not listed in the table and not modelled: console drawing and `printf` (pure
output), descriptor tables and exception stubs (constant after boot, or print and
halt), the library and the loops of the user programs, and the boot loader. The
request loop of FS (`fs/fmain.c:131-166`) is commented out in the source; what
its `main` still does is to initialise FS and post mail.

## 2. Modules

```
Dispatch   <-- implemented by --  Sched            (Sched_proofs, MCSched)
   ^ instantiated as CPU by
   |-- Mail  -- implements --> Delivery            (Mail_proofs, MCMail)
   |     ^-- extended by SendMail                  (Mail_proofs, MCSendMail)
   |-- HdWait                                      (HdWait_proofs)
   `-- Keyboard  -- implements --> Terminal        (Keyboard_proofs)
Cache                                              (Cache_proofs, MCCache)
   its promise, a block reads as it was written, is assumed by
Inodes                                             (Inodes_proofs)
   ^ extended by
   |-- Names  -- implements --> Tree               (Names_proofs, MCNames)
   `-- Files  -- implements --> Flat               (Files_proofs, MCFiles)
```

**Dispatch** is what the scheduler promises: a step may change the state of a
thread, and the CPU then goes to some runnable thread, to the one just woken, or
to thread 0 of process 0, which idles. Everything that only needs this (mail,
disk wait, keyboard) instantiates it as `CPU`, so those modules hold for whatever
the time slices decide.

**Sched** is the real scheduler. `Enumerated`, `Wins`, `Reload` and `Schedule`
are the two passes of `choose_max`; `SleepOn`, `WakeUp` and `Tick` are
`sleep_on`, `wake_up` and `clock`; `Block`, `Unblock`, `AddThread`, `EndSelf`,
`EndOther` and `Pause` are the system calls. `live` is the set of threads whose
`t_id` is set and `nr` is `thread_nr`; the two drift apart when threads end. A
thread that was ended may go on running as long as its index is below
`thread_nr`, and the model lets it.

**Mail** has a mailbox per process with a row of slots per level. A slot's
`m_locked` and `m_validate` always change together, so a slot is a mail or `None`.
`FirstMail` is `find_mb_mail` with its early stop at the count; `PostMail` either
fills the first free slot and wakes the addressee from `TS_RECVING`, or links the
caller into the wait queue and puts it to sleep in `TS_FULL_WAIT`; `PickMail` takes a
mail or sleeps. `req` says what a thread inside `getm()` asks for, and `getm()`
repeats `pickmail` (`lib/syscalls.c:59`). Its words of payload are abstracted to
the message number. The history variable `served` takes down to whom the last step gave a mail,
and what that thread had asked for. **Delivery** is its promise: accepted mail stays pending until
`Pick` gives it, once, to the thread it is addressed to, if it answers what that thread has asked
for, and user-level mail only if no system-level mail to it does.

**SendMail** adds `sendmail`: `Walk`, `Visits` and `EndsFree` are `try_to_send`,
which follows recorded sends; `LoopDetected`, `DepositSend` and `SlotBusy` are the three
ways out of `sendmail`. The counter is incremented through a byte pointer, hence
`CountWrap`. A `pickmail` in a process that has synchronous mail panics.
`block`/`unblock` are left out of this module (they are in Mail).

**HdWait** has FS step by step through `ll_rw_phys_sect`, the kernel's `intred` and
`wait_tid`, and a disk that raises an interrupt when a sector has been fetched or
stored. The drive is external: it is modelled from how `blk_drv.c` uses it.

**Keyboard** has both rings of the terminal as the source indexes them. The handler
may come between any two steps of the decoder except between `cli` and `sti`;
`Advance` and `ReadSlot` are separate because `kb_put` reads the slot after `sti`.
A key stands for the scan codes that decode to it, with shift and prefixes folded in.
Backspace takes nothing out of the line while the cursor is at the start of the screen
(`rw_con.c:206`). Of the cursor the model keeps that alone, `atStart`: characters, lines and
whatever others print (`Output`) move it away from there, backspace and the arrow and console keys
may or may not take it there. **Terminal** is the promise: a bounded queue of keys and a bounded line, of
which backspace takes the last character unless the cursor is at the start.

**Cache** keeps the hash rows as the circular linked lists they are (`next`, `prev`,
row heads), the free list as a sequence, and the buffer headers. `Compared` is the
walk of `find_buffer` from both ends. Calls that find no free buffer go through
`MakeRoom` and the writes of `sync_blks` one at a time (`SyncWrite`), so that power
may fail between two of them; `PowerLoss` keeps the disk and starts FS again. The
history variable `wrote` is what FS last put into each block (what the disk has, after a loss of
power), and `cut` says that a row was cleared that had other buffers (finding 3). From then on the links of
those buffers lead nowhere or into other rows, and the properties say nothing of it.

**Inodes** is what FS keeps below names: the two bitmaps, the inode table, the inodes
on the device and the contents of blocks, as one record `fs`. Its operators take
such a record and give the one after a call: `NewBlock` and `FreeBlock`, `Iget`, `Iput`,
`NewInode` and `FreeInode`, `CreateBlock` and `Bmap` over direct, single and double indirect
zones, `ClearBlocks`. A call that the code ends with `crash()`, or that would search for
ever, sets `fs.status`, and nothing happens after that. `FirstZero` finds only those
clear bits that `find_first_zero` finds: the lowest of a byte whose ones are all below it.
Several bitmap blocks are one map. `i_nlinks` is one byte (`fs.h:35, 46`): counts are taken modulo
`NrLinks`, 256 in the code. `pinned` are blocks whose buffer some call has
forgotten to release. FS is one thread that answers one call after the other, so a
call is one step of the modules above it.

**Names** has the calls of `namei.c` on paths, with one action for each way a call ends:
`Parent` is `dir_namei`, `Namei` is `namei`, and `Declined`, `OpenDenied`, `CreateFails`,
`MkdirNoBlock`, `RmdirDenied`, `RmdirNotEmpty`, `UnlinkDenied`, `LinkDenied` and `NoNewName` are the
error returns, with the inodes each of them puts back or forgets. `List` and `Sync` are
`list()` and `sync_all()` of `fmain.c`. `Init` is a file system that `load_root` has just made
or found on the disk. Files are made with the mode the caller gives (`namei.c:267`), of the set `Modes`.
The code lets through calls after which the directories are no tree; the history variable `harm` takes down
which kinds have been made (see "What the runs assume of callers"), and the properties speak of
the runs up to the first. **Tree** is the promise: a directory gives a name to one node, has
one name itself, and is removed only when it is empty.

**Files** has descriptors, `file_table` and positions, and `do_open`, `do_close`, `do_lseek`,
`do_read` and `do_write` on one regular file, with `file_wr` chunk by chunk, while `Elsewhere` is
the use of the inode table for another file. `Close` closes whatever file it is given, emptied ones
too. The history variable `spoilt` takes down the two things the code gets wrong with a file, a write
aside of the end through `O_APPEND` and the loss of an emptied inode. A read or write of a block that no zone
can hold ends in the `crash()` of `bmap` (`inode.c:188`). **Flat** is the promise: a sequence of bytes
and a position for each descriptor, short writes that return what they wrote, and zeros in
gaps.

Names follow the source where TLA+ allows it. `PROJECT.json` maps every
definition to its lines. Operators with the comment "Mutant" are wrong variants of
the definition after them; with one in place of the other, the property it belongs to
fails, which shows that the property depends on that piece of code.

## 3. What the runs check

| Run | Instance | Properties | Shows |
|---|---|---|---|
| `sched` | 2 processes, up to 3 threads, slices 1 and 2 | `TypeOK`, `CpuRunsRunnable`, `NoEarlyReload`, `TickPicksLargest`, `ImplementsDispatch`, `NoStarvation` | the CPU never stays with a sleeper, slices are fair, every runnable enumerated thread gets the CPU once the set of threads is stable |
| `sched_lost` | same | `LiveThreadsEnumerated` (violated) | see finding 1 |
| `mail` | two threads of one process, 1 system and 2 user slots, 2 messages | `TypeOK`, `CountsMatchSlots`, `NoLostWakeup`, `WakesOnlyAddressee`, `ImplementsDelivery`, `WaiterGetsMail` | no lost wake-up, no mail lost or given to a thread it is not for or that asked for another, `getm` returns |
| `send_walk` | 3 added threads of one process, counter of 2 values | `SendTypeOK`, `WalkEnds` | recorded sends never form a cycle |
| `send_loop` | main threads of 3 processes | `NoSendLoop` (violated) | see finding 2 |
| `hdwait` | commands of 1 and 2 sectors | `TypeOK`, `NoLostWakeup`, `WaitEnds` | FS never sleeps without an interrupt to come |
| `keyboard` | ring of 3 (2 keys), line ring of 3 (2 characters), 1 kind of character, enter hands out 1, cursor at the start or not | `TypeOK`, `NoLostWakeup`, `SlotStableTillRead`, `ImplementsTerminal`, `KeysGetDecoded` | keys decoded once, in order; the late read of the slot is safe; rubbing out and handing out a line |
| `cache` | 3 buffers, 4 blocks, one in the row of the bitmap and two in a row that can be cut, 1 block held at a time | `TypeOK`, `InUseIsFound`, `NoBufferLeaks`, `ReadsWhatWasWritten`, `SyncReachesDisk`, `CallReturns` | until a row is cut, the cache is coherent, loses no buffer, and `get_buffer` ends |
| `cache_row` | three data blocks in one row, the bitmap in another | `RowClearedWhenLast` (violated) | see finding 3 |
| `names` | 4 inodes, 4 blocks, table of 2 entries, link counts of 2 bits, 5 paths, 1 descriptor | `TypeOK`, `StopsOnlyFull`, `LinkCounts`, `DotDotIsParent`, `DirBlocksOwned`, `TableUnique`, `ImplementsTree` | whatever fails on the way and until a call breaks the tree, names stay a tree, counts and `..` agree with it, directories keep their blocks and open inodes their entries, and FS stops only when all entries are counted |
| `names_free` | 4 inodes, 3 blocks, table of 4 entries, followed beyond a harm | `FreedNotUsed` (violated) | see finding 4 |
| `files` | 2 processes with a descriptor each, a file of up to 3 blocks behind all three kinds of zones, one block too few on the disk, table of 2 entries, with `O_TRUNC` and `O_APPEND` | `TypeOK`, `NeverStuck`, `BlocksOwned`, `DescriptorsOwn`, `ImplementsFlat` | until it is spoilt, the file is a flat sequence of bytes to both, no block is lost, shared or freed twice, no descriptor shares its position |

Six more configurations show what the passing runs stop at: each is violated, in seconds to a minute,
with `tlc -config X.cfg MCNames` (or `MCFiles`).

| Configuration | Violated | Shows |
|---|---|---|
| `MCNamesGrow` | `NamesEntered` | a directory that inherits a zone of another one; a name gets lost (finding 4) |
| `MCNamesApart` | `FilesApart` | a new file that has a directory's block |
| `MCNamesLinks` | `CountsRight` | a link count that is 0 after one name or sub-directory too many |
| `MCNamesDots` | `ParentsRight` | a second `..` above the root directory |
| `MCFilesAppend` | `FlatAlways` | a write through `O_APPEND` that overwrites other bytes |
| `MCFilesEmptied` | `NoCrash` | open with `O_TRUNC`, close, and the same again after the entry was needed for another file: a block is freed twice |

### Bounds

* `sched`: three threads give ties, ends of the middle thread and the reuse of its
  entry; a slice of 2 lets a thread be preempted with ticks left while another has
  none; slice 1 for thread 0 makes it differ from the others.
* `mail`: two threads of one process share a mailbox, so a reader can be passed over for
  its sibling; two user slots make the early stop at the count matter; one system slot
  makes the order of levels matter. More processes only add mailboxes that do
  not touch each other.
* `send_*`: a loop needs two threads, a walk that meets a stale record three.
* `hdwait`: a block is two sectors, so one command never moves more than 2.
* `keyboard`: rings of 3 are empty, half full, full, and wrap with head
  and tail at every offset. `Chunk` stands for the 100 characters `xputcmd` asks for;
  as 1 of 2 it leaves a rest in the line. What the characters are does not matter
  once the order of keys is right; the proof has any set of them.
* `cache`: four blocks on three buffers, one of which holds the bitmap, so every
  second access has to evict. A block that shares the bitmap's row is taken out behind a head that
  stays; the two of the other row come and go as head and as tail, alone and together, up to the
  release that cuts it. `SyncNr = 1` stands for 100 and lets the scan stop before its end. FS holds one
  block besides the bitmaps at a time; `CacheAssumption` states the relation
  between buffers and held blocks without which `get_buffer` would wait for ever (the
  code has some 980 buffers and holds fewer than 30).
* `names`: the paths `a`, `bb`, `bb/bb`, `bb/../a` and `bb/` make a directory or file at two
  places, one below the other, reach a name through `..` and through a file, and end with
  a slash; `bb` is longer than `a`, so the growing length of `find_entry` matters. A block
  holds one name besides `.` and `..`, so the second name needs a second block, and 4
  blocks run out. Bytes of 2 bits leave holes the search of the bitmap does not see. The
  table has two entries for four inodes: a directory and what is opened in it fill it, and so do
  inodes that a failed `namei` leaves counted, so the search for an entry comes to write back, and
  to go on for ever. `MaxCnt = 2` bounds those counts. Link counts reach 3, the largest below `NrLinks = 4`;
  `MCNamesLinks`, with `NrLinks = 3`, goes over it.
* `files`: one direct, one single and one double indirect zone, each for one block of two
  bytes, need six blocks with those of zone numbers, and the disk has five; calls of 4 bytes cross one
  border at least; `MaxPos = 3` still lets a write reach the last block and go past it. `Seeks` has one offset
  for each origin, one of them leads behind the end. The table of 2 entries has room for the file and
  another one; a close lets the other take the entry of the file. Processes are interchangeable.

### What the runs assume of callers

Nothing is refused that the code accepts. Some calls it accepts break the directories or the file, though, and what
follows them is neither a tree nor a flat file, nor does it always say what the machine does then. So a history variable
takes down the first such call, the properties speak of the states before it, and the runs stop there
(`CONSTRAINT`). The calls themselves and the step they do are in the model, and for all kinds but the last of
`harm` a violating run or configuration goes on behind them. `harm` of `Names` holds:

* `"zones"`: `mkdir` in a table entry that has zones of a directory of several blocks (finding 4). Run
  `names` has too few blocks for it, `MCNamesGrow` has enough.
* `"blocks"`: a file gives up the blocks it has, being truncated or being removed while it is open. As `Names`
  writes no data, they are blocks it inherited, those of a directory (finding 4).
* `"links"`: a link count gets to `NrLinks` and is 0 (`MCNamesLinks`): for the code, 256 names of a file
  or about 254 sub-directories. The inode is freed at the next `iput` of it clean.
* `"dots"`: `.` or `..` is made as a name. The inode above the root directory, where `..` of the root directory
  leads, has no dot entries of its own, so `mkdir` or `open` of `/../..` makes a name `..` there, which
  link counts do not expect (`MCNamesDots`; no path of run `names` ends so).
* `"mode"`: `open` with the mode of a directory makes an inode that is one without `.` and `..`
  (`namei.c:267`; the line that would force `I_REGULAR`, 231, is commented out).

Before any harm a file may already have the blocks of a directory (`FilesApart` is not kept,
`MCNamesApart`); `DirBlocksOwned` is about directories among themselves, and a write to such a file is outside of
both modules: `Names` writes no data, and the file of `Files` starts without zones and size, as one does that was made in a
table entry that had not been used (`bitmap.c:141-155`).

`spoilt` of `Files` holds:

* `"appended"`: a write through `O_APPEND` from a position that is not the end of the file. `file_wr`
  takes the block from `f_pos` and the place in it from the end (`file_rw.c:67, 72`), so it
  overwrites what is there (`MCFilesAppend`). `ImplementsFlat` ends there, blocks stay owned.
* `"emptied"`: an emptied inode leaves the table unwritten. `clear_iblks` does not make the inode dirty
  (`inode.c:348`), so the device keeps the numbers of freed blocks, and the next `O_TRUNC` frees them again
  (`MCFilesEmptied`). Closing an emptied file is harmless as long as its entry stays.

The bounds on calls are `MaxPos`, on positions a seek leads to or a write starts from, and `MaxCnt`. A relative seek backwards is not rejected but,
being unsigned, very far forward.

Names are shorter than `NAME_LEN`, and a reader is not asked to believe more than that FS
answers one call after the other: the loop that would take the calls from mails is
commented out in `fmain.c`.

Deadlock is checked in `sched`, `mail`, `keyboard` and `cache`. It is off where the program really
stops: `sendmail` runs end in `panic()`, in `hdwait` a `crash()` of FS ends in `badness()`, which halts the
machine, in `names` FS may search for a table entry for ever, which no call follows, and in `files` a write
past the largest size ends in `crash()` (`inode.c:188`).

### Fairness

* Clock: `Sched` assumes `Tick` weakly fair, and strongly fair for a tick that hits a thread
  with ticks left: the 8253 runs on its own and cannot always hit a thread whose
  slice is used up.
* Everything on top of `Dispatch` assumes `SF(Tick /\ cur' = t)`: a thread that can run gets the
  CPU again and again. This is `NoStarvation` of `Sched`, for the case that threads
  are no longer created or ended.
* With the CPU, a thread gets on with what it does (`PickMail` after a wake-up, the
  decoder's steps, FS's steps): a time slice is much longer than those steps.
* `Keyboard` asks less of the clock, a weakly fair tick to the decoder, and strong fairness of the
  decoder's steps together: at any time it can do only one of them.
* The disk finishes a command it has accepted and the CPU takes pending interrupts.
* `Cache` is sequential: its `FairSpec` says that FS goes on with a call it has begun.

## 4. Findings

1. `sched_lost`: `end_thread` decrements `thread_nr`, which `choose_max` uses as the bound
   of thread indices (`syscall.c:112`, `sched.c:113`). Of threads 0, 1 and 2, after
   thread 1 has ended, thread 2 is never scheduled again though it can run.
2. `send_loop`: `try_to_send` stops at threads whose `taken` flag is clear, which is every
   main thread but task 0's (`send.c:28`); two of them can wait for each other.
3. `cache_row`: freeing the head of a hash row clears the row (`buffer.c:117-118`); other
   buffers in it are not found again, and a dirty block gets a second buffer with
   old contents.
4. `names_free`: `new_inode` does not clear the table entry it takes (`bitmap.c:141`), so a new
   file has the zones of the inode that had the entry before, a directory for one. When the
   file is removed while it is open, the close frees those blocks, and the directory goes
   on using them.

   For the same reason `mkdir`, which sets the first zone only (`namei.c:354`), makes directories
   that have the second block of another one: after `mkdir bb`, a file `bb/bb` with a second link
   `bb/cc` that needs another block, and `mkdir cc`, the entry of `bb` and its second zone belong to `cc`.
   The links `cc/bb` and `cc/cc` follow, and the second is entered in the block of `bb`
   and found nowhere, because the size of `cc` does not reach it. `tlc -config MCNamesGrow.cfg
   MCNames` shows these steps in about a minute, as a violation of `NamesEntered`. It came to
   light when an invariant was sought that would prove `LinkCounts`. Two calls suffice for a file to have a
   directory's block (`MCNamesApart.cfg`).

Seen while modelling, without a run of their own: `end_thread(-1)` ends thread 0 although
`syscall.c:96` says it cannot be killed; `pickmail` wakes a thread in `TS_SENDING` when
any mail of it is picked, also one it had posted before (`pick.c:79`); a recorded
send is never erased, so a later `sendmail` may find a loop that is gone and its caller
sleeps in `TS_LOOP_WAIT` (`send.c:33-42`); `breada` loops because an unsigned
number is always `>= 0` (`blk_drv.c:246`), but nothing calls its callers. Nothing removes
a thread from a full mailbox's wait queue or wakes it, so `TS_FULL_WAIT` never ends
(`post.c:51-65`). `intred` survives an interrupt that woke FS, and the next `wait_hd_intr`
returns at once (`syscall.c:142`). An error return of `namei` leaves the directory counted
(`namei.c:202`), and `is_dir_empty` leaves a buffer referenced (`namei.c:449`). `rmdir` reports
a wrong link count, puts both inodes back and goes on (`namei.c:535`); `LinkCounts` shows
that counts do not get wrong before a harm (section 3). `iput` of a dirty inode only writes it
back, so the inode of a removed file is freed only if it is got and put back once more
while clean (`inode.c:148`). `find_empty_page` never returns when all pages are in use
(`page_map.c:21`), and a power loss while `load_root` makes a file system leaves one that
looks complete (`super.c:100`).

## 5. What is proved

`Sched_proofs` holds for every number of processes and threads and all slices, under
`SchedAssumption` only (positive counts; interrupts wake threads of the system).

* `TypeCorrect`: `Spec => []TypeOK`. `TypeOK` alone is not inductive: `thread_nr` stays
  within 0 .. `MAX_THREAD` only because it never exceeds one plus the number of added
  threads that exist (`Counted`), and `end_thread` does not underflow it because
  its caller's process always counts at least one thread (`CallerCounted`). The
  inductive invariant is `IInv == TypeOK /\ Counted /\ CallerCounted`; `NextIInv` has
  one lemma per action, with cardinalities of the sets of added threads where
  threads are added or ended.
* `SchedulerImplementsDispatch`: every step of `Sched` is a step of `Dispatch` or leaves
  its variables alone. `ScheduleIsChoice` is the core: both passes of `choose_max`
  end with a running thread or thread 0.
* `CpuNeverWithSleeper`: from the above, by an invariant of `Dispatch`.
* `ClockPicksLargest` and `NoSecondSliceEarly`: action properties, from `ScheduleSound`,
  which says what the two passes compute whatever the counts are.

`Mail_proofs` holds for any set of threads, mailbox sizes and messages under
`MailAssumption` (threads are pairs of numbers, process 0 has one thread, which
`CallerCounted` of `Sched_proofs` justifies).

* `CountsNeverDrift` and `MailNeverSleptOver` come from one inductive invariant: types,
  `CPU!CpuRunsRunnable`, `CountsMatchSlots` and `NoLostWakeup`. The last two need each
  other's company: a thread goes to sleep because `find_mb_mail` found nothing, and
  that means there is nothing only because the count it stops at is right
  (`ExaminesAll`). `CpuRunsRunnable` is needed because a picked mail ends a request: the
  picker has the CPU, so it is not asleep in `TS_RECVING`.
* `MailboxesTyped`: the types, in which a count is at most the number of slots, from
  `CountsMatchSlots` and the cardinality of a row, and the wait queue has at most two entries.
* `OnlyMailWakes`: an action property, case by case over the calls.
* `MailDelivers`: every step of `Mail` posts one mail, picks one or touches no mailbox
  (`MailboxStep`), which are the steps of `Delivery` or stuttering. System-level mail
  goes first because mails lie in their addressee's mailbox and in the row of their
  level (`Placed`), so a look at one row sees all of them.

The second part of `Mail_proofs` is about `SendMail`, for every finite set of threads and counters of
any width: `SendStaysTyped`, and `WalkAlwaysEnds`, that `try_to_send` goes through every thread at most
once. The walk goes from a thread whose `taken` flag is set to the one it has last recorded a send
to (`Succ`), and records are never erased. The invariant `NoCycle` says that every thread has a
set of threads a walk from it comes by, smaller with every step. `sendmail` keeps it: it
records a send from t to d only after a walk from d that did not come by t, so what was behind
t can give way to d and what is behind d (`RecordKeeps`). That the walk, a recursive function of the
number of steps, is defined at all follows from the least number for which it would not be.

`HdWait_proofs`, for commands of any number of sectors: `FSAlwaysWoken`. The invariant adds
to `NoLostWakeup` that a busy disk has no sector to move (`BusyOrReady`), that while
FS is on its way to `wait_hd_intr` an interrupt is to come or has come
(`InterruptAhead`), and that the handler knows whom to wake while FS waits
(`Registered`). It covers the case in which FS goes on after a controller timeout.
`SectorCountsTyped` is the type invariant: with `CountsAhead`, the disk has a sector left while
it works or waits for one to be moved, and FS has one left to move when it is about to,
so neither count goes below zero although FS may count sectors the disk does not.

`Keyboard_proofs`, for rings of any length and any keys: `DecoderNeverOversleeps`, whose
invariant adds only types, and `SlotNotOverwritten`: `kb_get` writes the slot after the
tail, and that is never the head because one slot of the ring stays unused.
`RingsStayTyped` and `KeyboardImplementsTerminal` follow: the abstract queues are the slots
after the head up to the tail, read around the ring; the lemmas on them say what writing the
slot after the tail (`PushContent`), moving the head on (`PopContent`, `DropContent`) and moving
the tail back do to that sequence. The invariant adds that the slots held are keys, which
rests on `SlotNotOverwritten`: the decoder's late read finds the key that was first in the queue.

`Cache_proofs`, for any numbers of buffers, blocks and rows:

* `FindsTheBuffer`: a row whose links make a ring is searched by `find_buffer` from both ends
  until the two meet, and nothing between them is missed. The ring is a numbering of
  the row's buffers that `next` and `prev` follow; the lemmas say what taking a
  buffer out or putting one at the head does to it.
* The invariant `IInv` says that rows are rings of the buffers whose block hashes to them, that
  free list and counts divide the buffers, that bitmap blocks stay pinned, and what valid,
  dirty and `wrote` mean for a buffer; all of it is needed at once, because an eviction is
  harmless only if the row can still be searched, and that the list never runs dry needs
  the count of pins.
* Finding 3 breaks it: `free_buffer` clears rows that have other buffers. So what is inductive is `cut \/ IInv`,
  and `CacheStaysTyped`, `BuffersStayFound`, `BuffersNeverLeak`, `CacheIsCoherent` and `FullSyncReachesDisk`, theorems of
  `Spec` without hypotheses, state properties that begin with `~cut`: until a row is cut,
  for tables in which any blocks share rows. What holds after a cut is not known: a buffer out of its row has
  links that `find_buffer` and `free_buffer` follow in other rows.

`Inodes_proofs`, for bitmaps, tables and zones of any size (a zone number block is no longer than a
data block), without a state of its own:

* `FirstZeroIsClear`, `NewBlockWasFree`, `FreeUndoesNew` and `NewInodeWasFree` say that what
  the bitmaps give out nobody had (the code stops the machine if `setb` finds the bit set; the
  models leave that out because of these theorems), and `TableSearchedOnce` and `FirstIsFound` that
  the search of the inode table from both ends is one over all entries. The model's
  `CHOOSE` of a least number is justified by `LeastExists`.
* `CreateBlockGrows` and `ClearBlocksFrees` are about `Owns`: each place of a file, a direct
  zone, an entry of the single or double indirect block, or those blocks themselves, has a
  marked block to itself, and no block is marked besides. `create_block` keeps this with up to
  three new blocks, also when the disk fills up in between; `clear_iblks` frees exactly these
  blocks, so `clearb` never finds a clear bit.
* `IgetFinds`, `IputKeeps` and `SyncKeeps`: an inode is in the table at most once, an entry that
  is given away had nothing to write back, and writing back changes nothing FS would find.

`Files_proofs`, for any number of processes, descriptors, entries and zones:

* `DescriptorsNeverShared`, whatever the operators of `Inodes` do: descriptors and the counts
  of `file_table` stay in step. `do_open` joins a free descriptor to an entry no descriptor
  leads to, because a descriptor leads to counted entries only; `do_close` finds the
  count 1 for the same reason.
* `FilesStayTyped` and `FileOwnsItsBlocks`, from an invariant that holds until an emptied inode
  leaves the table unwritten: the entry of the file in `inode_table` is counted once for every entry of
  `file_table`, is as the device has it when nobody uses it and it was not emptied, and the zones it has own the marked
  blocks. A file that is emptied, closed and opened again in its entry is covered, and so are `O_APPEND` and writes of any size.
* `FilesNeverStuck`: until then no call ends in `crash()`, but for one that goes behind the last
  block a file can have, where `bmap` stops the machine (`inode.c:188`).
* `FilesAreFlat`: while nothing is spoilt, every step is one of `Flat` or stutters. The size stays
  in a block the file can have and what lies behind it reads as zeros, so gaps do; a write
  changes the bytes it covers and no others because places do not share blocks. `Written`,
  which goes from chunk to chunk, and `ClearBlocks`, from zone to zone, are recursive functions
  on bounded arguments; that such a function exists, and what it keeps, goes by the least
  argument for which it would not.

`Names_proofs`, for any disk, table, link counts, descriptors, modes, names and paths. `NamesAssumption` asks for a disk
with room for its two roots and with no more zones than a file can have blocks, which
`sb_nzones`, of 16 bits, ensures. Nothing is assumed of callers: the theorems are theorems of `Spec`, and the properties
say up to which harm they hold (section 3).

* Nothing that the run checks can be proved by itself: `rmdir` puts inodes back once too often when a
  link count is wrong, so even types need `LinkCounts`, which needs the tree, which needs
  that directories own their blocks. So there is one invariant for all, `IInv`, proved by `NamesHold`. Its
  first part, `TableOK` (in `Inodes_proofs`, with the lemmas on it), is about the table during a call: an entry is counted for every descriptor and
  every inode the call keeps, a counted entry has links, and a clean one is what the device has. The
  second is about `Disk(fs)`, the file system as it would be if all of the table were written back: the blocks of a
  directory are its first ones, as many as its size says, marked, and no other's (`DirOK`); a name is in
  one place of a directory, and `.` and `..` in the first two; names, `..` and counts
  make a tree (`TreeOK`). The table and the disk are separate because most of what a call
  does, `iget`, `iput` and writing back, changes the table only; those lemmas leave `Disk(fs)` alone.
* The walk of `dir_namei` along a path, and `list` over the blocks, are recursive functions with
  bounded arguments. That they exist and keep the invariant goes by the least argument for which it
  would not be so. After an error the directory stays counted; `TableOK` allows counts to be
  too large, never too small.
* Each way a call ends has a lemma of its own, and `IInvKept` puts them together. What
  `mkdir`, `rmdir`, `link` and `unlink` do to entries is stated once for sets of triples (directory, name, inode), from which
  the new counts and the tree follow.
* A call that does harm need not keep anything, and calls after it are not looked at; so in the invariant all is
  under `harm = {}`. That a table is full is not a harm. The code's 64 entries may all be counted, by use or because of the
  leaks of failed calls, and then `get_empty_inode` searches for ever in the middle of a call. `NamesTyped` and `NamesUnique` hold then too;
  `OnlyFullStops` says that FS has stopped for nothing else and that all entries are counted; `LinksCounted`,
  `ParentsNamed` and `DirBlocksKept` are about the states in which it runs.
* `LinksCounted` is about counts that wrap at `NrLinks`: they are the numbers of names, and not those numbers
  modulo `NrLinks`, because the call that takes one there is a harm.
* `TreeKept`: every call that does no harm and comes to its end does to the tree what `Tree` says, or nothing.

Only model-checked is liveness (`NoStarvation`, `WaiterGetsMail`, `WaitEnds`, `KeysGetDecoded`,
`CallReturns`), which needs fairness and `ENABLED` and is beyond this prover. Every other property of a
passing run is stated by a theorem.

## 6. Not modelled

* Power loss below names and files: `Cache` loses power between any two writes, but the
  file system has no recovery, nor does it promise one, so `Names` and `Files` have no such step.
  The installation in `load_root` is not interrupted either.
* Context switch (`kernel.asm`, `sched.c:61-98, 199-220`): what registers hold, and in which
  thread's registers a system call that switched leaves its return value, is assembly;
  which thread runs is in `Sched`.
* Paging, process creation and exit: tables filled at boot, before threads run, and code
  that the source leaves unfinished (`creatp.c`) or that only sleeps (`wait.c`).
* Console output, descriptor tables and exception stubs, the library, user programs and
  the boot loader: output, constants or straight-line code without a protocol.
* Code that nothing calls or that does nothing: `breada` and `blk_rw.c`, `free_file_blk`,
  `put_sblk`, `do_dup`, `replymail`. The flag `i_valid` is left out because a dirty entry is always
  valid when something writes it.
