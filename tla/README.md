# A TLA+ model of the bwuhos kernel

bwuhos is a small x86_64 kernel in C. This directory holds TLA+ modules that model
its memory management, its block storage and file system, its printing, its clock
and its interrupt and system-call stubs, TLC configurations that check them on small
instances, and TLAPS proofs, for every instance, of the safety properties of all of
them. `PROJECT.json` maps every definition to the lines of code it stands for and lists
runs, hazards, findings and theorems.

To check a run: `tlc -config MCPmm.cfg MCPmm`. To check the proofs:
`tlapm PmmProofs.tla`, and so on for the other modules whose names end in `Proofs`.

## 1. The system

Paths below are under `src/kernel/kernel/src/` unless they say otherwise.

| Part | State | Operations | What makes it correct |
|---|---|---|---|
| Kernel mutex (`katomic.c`, `arch/.../aatomic.S`) | one byte per lock | lock, unlock by compare-and-exchange | at most one holder; every holder releases |
| Memory layout (`mem_layout.c`) | `ml_ents` | `meml_init`, `meml_get` | only usable, long enough entries; no more than the table holds |
| Page allocator (`pmm.c`) | bitmaps inside the regions they describe, `first_free` hints, `page_stk`, a lock | `pmm_init`, `pmm_alloc`, `pmm_free`, `pmm_avl` | no frame used twice, none leaked, failure only when nothing is left |
| Kernel heap (`kheap.c`) | list of entries, page count, a lock | `kheap_init`, `kheap_alloc` | blocks apart, aligned, in mapped pages |
| Paging (`vmm.c`, `arch/.../paging.c`) | four-level tables in page frames, cr3, TLB | `vmm_init`, `vmm_map_cur`, `vmm_unmap_cur`, `paging_map`, `paging_unmap` | the tables say what was asked for, at every intermediate store; the kernel can still reach its tables |
| ATA driver (`ata_pio.c`) | selection cache, a lock | identify, read, write (stub) | commands reach the device they are meant for; the sectors are the right ones |
| Block devices (`blkdev.c`) | table of devices, their partitions, a lock per device | register, find, partition, read, write | one request per driver at a time, inside its partition |
| MBR (`mbr.c`) | none of its own | `mbr_find`, `mbr_verify` | partitions match the table on the disk |
| Block cache (`blk_cache.c`) | one block, its number, a lock | `blk_cache_rd` | the bytes are the device's |
| FAT (`fat.c`) | boot sector, cache, open-file table | verify, open, close, seek, tell, read | the file named is the file opened; positions stay in the file, reads fetch its bytes |
| VFS (`vfs.c`) | table of drives | auto-mount, mount, open, close, seek, tell, read | a device is mounted once, handles stay apart |
| Boot (`main.c`) | - | calls the above in order, stops on failure | each part is up before it is used |
| Printing and serial port (`kutil.c`, `serial_port.c`, `arch/.../autil.c`) | a lock for messages, a lock for the port, the UART | `sp_init`, `sp_read_ch`, `ku_print`, `ku_println`, `au_println`, `ku_hang` | messages come out whole and say what the format says; everybody gets through |
| Real-time clock (`rtc.c`) | mode flags, boot time, a lock; the chip's registers | `rtc_init`, `rtc_get_time` | the six numbers belong to one instant |
| Interrupts and exceptions (`arch/.../idt.c`, `pic.c`, `isr_*`) | descriptor table, interrupt controller, the interrupted registers on the stack | the set-up, the entry stubs, the bodies | bodies get what they declare; what was interrupted goes on unchanged, a system call's caller with its result registers |
| System calls (`syscall.c`) | its descriptor | `syscall_init`, the stub, the dispatch | arguments by `docs/syscalls.md` |
| Port I/O, GDT bits, ELF, `os-prog` | - | - | not modelled, see section 8 |

**How they interact.** `main.c` initialises serial port, clock, memory layout, page
allocator, processor tables, paging, heap, block devices, partitions and file
systems in this order, and stops the processor when there is no usable memory, no
heap or no drive. The page allocator reads the layout; paging takes
its tables, and the heap its pages, from the page allocator; the heap maps them
through `vmm_map_cur`. Block devices, caches and FAT drivers live in the heap. A
read goes VFS, FAT, block cache, block device, ATA driver, each of the last three
with a lock of its own, taken in that order. All of them print, through a lock
for the message and inside it one for the port. Interrupts are enabled by
`idt_load` on the boot processor; the bodies of all exceptions and interrupts
are empty, so that an interrupt touches none of the other parts' state and
returns to where it came from (`Isr`). An exception with an error code does not
return, since the stub leaves the code on the stack; a fault without one executes
the faulting instruction again.

**What is hard.** Spinning locks without owner or timeout around all of it;
state used after the lock that protected it is released (`pmm_avl`,
`blkdev_mk_part`); caches and hints that must follow the truth (`first_free`,
the selection cache, `loaded_blk`, the TLB); driver errors that `blkdev_rd`
drops, so that a failed read looks like a successful one with an old buffer;
uninitialised memory (bitmaps, locals) that is read; unsigned arithmetic at
boundaries; fixed tables that fill up; buffers that are never freed and never
checked; stores to page tables the processor walks at the same time; registers
of a clock that counts while they are read; stubs that are interrupted between
any two instructions. `PROJECT.json` lists each under "hazards" at its line.

**Several processors.** `main.c:38` sends the other processors to
`init_other_cpu`, which prints a line and halts, so today only the boot processor
calls into these parts (and all of them into `ku_println`). The locks are
there for more than one, and the modules with locks have a set `Cpu` of callers:
what they check is what the locks promise. The VFS and FAT have no locks yet
(`vfs.h:9`, `fat.h:4` plan them) and their models have one caller at a time.

## 2. The modules

| Module | Models | Built on |
|---|---|---|
| `Katomic` | lock and unlock as compare-and-exchange steps | |
| `MemLayout` | `meml_init`, one action per map entry | |
| `Pmm` | `pmm.c` | extends `MemLayout`, `Katomic` |
| `HeapSpec` | the heap's promise (abstract) | |
| `Kheap` | `kheap.c` | extends `Katomic`, instantiates `HeapSpec` |
| `Vmm` | `vmm.c` and `arch/paging.c` | |
| `Ata` | `ata_pio.c`, with the buses and devices | extends `Katomic` |
| `Blkdev` | the operations of `blkdev.c` | extends `Katomic` |
| `Mbr` | boot-time probing, `mbr.c`, and callers of block devices | extends `Blkdev` |
| `BlkCache` | `blk_cache.c` | extends `Katomic` |
| `Fat` | recognising a FAT16 volume, the driver's geometry, the open-file table, seeks, bounds and places of reads | |
| `FatDir` | the directory search and path walk of `fat_vfs_open` | |
| `Vfs` | `vfs.c` over FAT drives | extends `Fat` |
| `LogSpec` | what printing promises (abstract) | |
| `Kutil` | `kutil.c`'s printing, `serial_port.c`, the messages of `main.c` | extends `Katomic`, instantiates `LogSpec` |
| `Rtc` | `rtc.c`, with the clock chip | extends `Katomic` |
| `Isr` | `arch_master.c`, `pic.c`, `idt.c`, `isr_*`, `syscall.*`, with the processor | |
| `PmmProofs`, `AtaProofs`, `MbrProofs`, `BlkCacheProofs`, `KutilProofs` | theorems | each extends the module it is named after |
| `MemProofs` | theorems | extends `Kheap` and `Vmm` |
| `FsProofs` | theorems | extends `Vfs` and `FatDir` |
| `ArchProofs` | theorems | extends `Rtc` and `Isr` |
| `MC...` | instances for TLC | |

Variables and operators have the names of the C variables, functions and structs
they stand for. Where two modules share a proof module, the second calls its initial
states, steps and specification by a name of its own (`VmmInit`, `OpenInit`,
`IsrInit` and so on). A variable marked `history` in its comment is not in the code;
it only records what happened, for the properties to speak about.

**Pmm.** Addresses are frame numbers. The bits of all bitmaps are one set
`data`. A call of `pmm_alloc` that finds the stack empty becomes the loop of
`bm_feed_stk`, one action per iteration, with its locals `i` and `j` per
processor and the lock held; the iteration that sets a bit and pushes a frame is
one step. `pmm_avl` reads its bit in a step after the one that releases the
lock, and no property is about its answer (section 3). `pmm_init` leaves the bitmaps as they are found, so `Init` lets any
set of bits be there (`junk`).

**Kheap.** The list is a sequence of entries in list order. One action tries
behind all entries (`alloc_find`), another maps a page, and `pmm_alloc` may refuse
one at any time (`alloc_refused`). Sums wrap at `WORD`.
Mapping a page is taken to succeed here; `Vmm` is about what it does.

**Vmm.** `mem[f]` is the table that frame `f` holds. A call (`stage` is where it has
got to) walks one level per
step; clearing a new table, linking it and the two stores of the last entry are
separate steps. `WalkerSafe` is about all of them, since the processor's walker may
look in between. Only the present and writable bits are kept, since these two decide
the properties. After the first failed `pmm_alloc` (`exhausted`) frame 0 is cleared
and used as a table, as in the code; the properties are about the time before.

**Ata.** The bus and its devices are external. A command makes the selected
device busy; busy ends in data or an error, at any time. A status read of a bus
with no device at all is all zeros, or all ones if the bus floats; `Init` chooses
which of the empty buses do.

**Blkdev and Mbr.** A disk is `<<k>>` and a partition `<<k, m>>`. A request holds
the disk's lock from the check to the driver's answer. The sums of an address and a
count wrap at `WORD`, so a request can pass the check that should not. Boot is a sequence of
probe and partition steps of one processor, after which every processor may
read and write. The local `mbr` of `mbr_find` starts with whatever the stack held,
a signature included (`StackTables`), and keeps its contents from one disk to the
next.

**BlkCache.** Bytes are named by their address. The driver behaves as `Ata`
shows it: every sector goes to the front of the buffer, and it may fail. The
heap is the number of bytes it has left (`room`): reads across blocks take from
it and nothing gives back, as `Kheap` and the empty `kheap_free` have it. A NULL
buffer is a page fault, which does not return. `addr + n - 1` wraps at `WORD`;
`BlkCacheAssumption` says that `n` bytes and a block fit in memory, so a read whose
last address wraps is taken for one across blocks.

**Fat, FatDir, Vfs.** `FatDir` has one directory entry per position and steps
through the search of one `fat_vfs_open` call entry by entry. The definition it is
compared with is a trail: the entry of every name of the path, each the first that
agrees in the directory of the one before it. `FatDirAssumption` says that the
volume ends with an end mark and that directory entries lead to a place on it, since
the code's scans have no bound of their own. (A `..` entry to the root has cluster 0
and leads before the data area, so volumes with one are outside the
assumption: the code goes wrong there, see section 3.) Two buffers of the walk have
no check: a name of the path that does not fit `path_buf`, or a long-name entry whose
characters go past `name`, takes it to the state `smashed`, where it stops and
nothing more is said of it. Directories are in one piece, as the code reads them
(`fat.c:6`).

`Fat` has what the driver keeps of a boot sector (`Geometry`) and the place a read
starts at (`rd_pos`). `Vfs` reads the boot sector as often as the code does, once to
probe and twice to mount, and each read may fail silently and leave what the stack
held (`StackBpbs`); a cluster size of 0 is a division fault, after which the kernel
does nothing (`stage = "fault"`). A file of `Vfs` has its clusters (`chain`), which
the code never looks at and `ReadsFileBytes` does. `Vfs` uses what
`FatDir` shows: an open finds one of the volume's files or none. `Vfs` has no lock
in the code, so one caller at a time acts, through several handles (`Tags`).

**Kutil.** A format is a sequence of items, one per round of `ku_print_v`'s loop,
and characters are numbers; fixed words are one character. A processor has a list
of operations (`Script`), those of `_start` or `init_other_cpu` with the calls in
between as a constant, and each character is a step that waits for the transmit
register. `KutilAssumption` says that arguments have the type of their conversion
(numbers 64 bits, `Shr(arg, 2, 64) = 0`) and that single characters are sent only
to end a line, as `ku_println` and `au_println` do. `LogSpec` writes messages word by
word and character by character; once begun, a message is written to its end before
another begins, and newlines may come anywhere. The mapping takes the characters on
the line and in the transmit register, what is left of the piece being sent, and
what is left of the one message being printed, converted by definitions of their own
(`Numeral`, `Fixed`), not by the code's loops.

**Rtc.** Each register read is a write of the index port and a read of the data
port. The chip announces an update with its flag, counts, and clears the flag.
The chip leaves 244 microseconds between the flag and the count. `rtc_get_time`
looks at the flag once and counts on having read all six registers by then; the
model takes over exactly this (`hurry`) and nothing more: a processor that looks
after the announcement, or does not look at all, may see the count in between.

**Isr.** One processor, one step per instruction of a stub. The stack is a
sequence of words, each of which knows what it is, so that a wrong pop or a
pointer to the wrong word shows. The body is a step that overwrites the
registers a C function may overwrite. Exceptions are raised outside stubs,
interrupts arrive wherever the flag lets them, in trap gates' stubs too, and
before `pic_init` on the vectors the firmware set.

## 3. The runs

Passing runs:

| Run | Instance | Shows |
|---|---|---|
| `pmm` | 2 processors, 3 memory maps with up to two regions of 2 and 3 frames, every initial bitmap content, stack of 2 | frames are conserved and never used twice, the hint never passes a free bit, `pmm_alloc` fails only when nothing is left, the lock is always given back |
| `kheap` | 2 processors, four pages of 64 bytes, sizes 0, 7, 32 and 90 | blocks never overlap and are given out in address order, a request that `pmm_alloc` did not fail is refused only when all four pages are mapped, `HeapSpec` is implemented, the lock is given back |
| `vmm` | 24 virtual pages, 17 frames, from plenty to too few of them | the tables map what was asked for and reach their own frames, no stale TLB entry, no walk ever meets an uncleared table or a half-written entry |
| `ata` | 2 processors, a bus with 2 devices that may fail and an empty one, room in the cache for whichever is used first, counts 0 to one above the largest | a cached selection is the real one, reads come from the device and sector asked for, a read below the largest size has taken all its data, the lock is given back unless a bus that floats is probed |
| `mbr` | 2 processors, 4 probed disks for 2 slots, tables with entries that do and do not fit, a stack with and without a table, words of 16 with requests whose sum wraps | one request per driver at a time, inside its device and partition unless its sum wraps, partitions are those of the table |
| `blk_cache` | 2 processors, 2 blocks of 3 bytes, every offset, lengths 0 to 4, an address near the end of a word of 16, a heap with no room, with room for the cache and one read, and with more | the buffer holds the block it claims, reads inside a block are right, the lock is given back until the reads across blocks have used the heap up |
| `fat_dir` | every root of 3 entries from 7, the first two also long-name entries inside and past their buffer, a subdirectory, 18 paths, one name too long for its buffer | an open that stays inside its buffers finds the file a direct definition finds, and every open ends |
| `vfs` | 5 devices for 2 slots, 3 handles for 2 descriptors per drive, files in two clusters in a row and apart, failed reads that leave an old boot sector or one that is refused and has a cluster size of 0 | no device mounted twice, FAT16 and only FAT16 mounted, handles apart, positions inside files, reads fetch the file's bytes as far as its clusters are in a row, seeks land where they should |
| `print` | 2 processors, 23 conversions, 7 other messages, one key that is or is not pressed | `LogSpec` is implemented: messages whole, one at a time, in the right words; all processors get through, unless one waits for a key that never comes |
| `rtc` | 2 processors, all 4 modes, six instants at which each register rolls over | the time returned was the time at one instant of the call |
| `isr` | 10 vectors of all kinds, 2 interrupt lines and stray interrupts, 3 system calls | bodies get the registers, frames and arguments they declare; everything interrupted goes on as it was, but for a system call's registers other than its results |

One run, `blk_cache_bytes`, is expected to fail: `blk_cache.h:12` calls the cache a
byte-level read interface for block devices, and a read across blocks returns
wrong bytes (too few blocks, all of them put at the front of the buffer).

**Seen on the way.** The models behave like the code here too, and the
properties say what holds in spite of it:

- `pmm_init` never clears the bitmaps (`pmm.c:42`). Whatever they hold, no frame is
  used twice, but frames whose bit was set are never handed out; `pmm.c:34` calls
  the loss negligible.
- `pmm_avl` reads its bit after it has unlocked (`pmm.c:71-72`), so the frame may
  have changed hands by then or before the caller looks at the answer; and it returns
  true for a set bit, a frame that is stacked or in use, where its name suggests
  the opposite. The kernel does not call it. That a frame it reports unused was so at
  the instant of the read is no more than `Conservation`, and nothing else is claimed.
- The sums of a block address and a count in `blkdev.c:142`, `:209` and `:233` wrap at
  64 bits. A request whose sum wraps passes the check and is given to the driver
  outside the device. `Contained` leaves such requests out (`Wraps`); no caller in
  the kernel makes one, and the 32-bit fields of a partition table cannot. The sum in
  `blk_cache.c:34` wraps too, which makes such a read one across blocks.
- The largest ATA read is wrapped to 0 sectors (`ata_pio.c:192`), reads nothing and
  returns 0. `TransferComplete` leaves it out; the reads that follow are
  right all the same.
- IDENTIFY selects with `0xa | dev_num` (`ata_pio.c:79`), which leaves the device bit
  clear: device 0 answers for device 1. `CacheHonest` and `ReadsReachDevice` hold
  across it. Its sector size comes from a word that holds something else, which
  the model leaves out.
- `loaded_blk` starts as the number of the block after the last
  (`blk_cache.c:12`), so a first read of that block succeeds with an uninitialised
  buffer. `BlockReadsRight` is about blocks the device has.
- `fat_find_dirent` compares up to the end of the shorter name, so a prefix matches;
  the definition in `OpensTheFile` says so too.
- A backward `VW_CUR` seek lands at the end of the file, since a negative offset is
  compared as unsigned; `SeekLands` leaves it out, `PosInFile` does not.
- A path without names opens what the stack held; `OpensTheFile` is about paths with
  a name.
- A bus that nothing drives reads as busy for ever, and `ata_pio_dev_get` polls it
  with the lock held (`ata_pio.c:105`), while `blkdev.c:39` expects no more than
  error messages from probing absent ports. `LockReleased` of `Ata` leaves such a
  probe out.
- The segments of a long name are stored from `name[13 * order]` on
  (`fat.c:229`). Orders start at 1, so the name found is always the 8.3 one, although
  `fat.h:16` says VFAT is supported; and the last segment's order has a flag set
  that takes the store past the end of `name`. `path_buf` (`fat.c:355`) is filled
  without a check as well. Both end in `smashed`, and `OpensTheFile` is about the
  other walks.
- `fat_vfs_rd` reads `n` bytes from the first cluster on in one piece (`fat.c:489`),
  and the TODO at `fat.c:6` says that reads do not work across clusters. They do when
  the clusters happen to lie one behind the other; `ReadsFileBytes` is about those,
  and `PosInFile` about offsets only.
- `fat_verify` divides by the cluster size before it looks at anything that would
  exclude 0 (`fat.c:79`), and `fat_driver_create` divides by both sizes of a second
  read. A boot sector with 0 there stops the kernel. The subtraction in `fat.c:78`
  wraps when a volume counts more sectors in front of its data than it has, and such
  a device is taken for FAT16: `AutoMountRight` is about the others (`Consistent`).
- `vfs_open` adds the digits of the path to an uninitialised variable
  (`vfs.c:147`), where the comment at line 124 says the drive is parsed out of the path.
  `HandlesApart` is about the drive that results.
- Every read across blocks leaks its buffer, and when the heap is spent the next
  one faults with the cache's lock held. `LockReleased` of `BlkCache` is about the time
  before.
- `ku_println` sends the newline after it has unlocked (`kutil.c:56`), and
  `au_println` prints two messages: another processor's message may come in
  between. `LogPromise` is about single messages without their newlines.
- A format that ends in `%`, or in `%` and a width, makes the loop step over the
  final zero; no format of the kernel does, and the model has none.
- In 12-hour mode noon is read as midnight and midnight as noon (`rtc.c:79`);
  `TimeIsOne` leaves them out. `rd_cmos_reg` leaves non-maskable interrupts disabled.
- The stubs do not take the error code off the stack (`isr_common.S:29`), so those
  exceptions never return, and their bodies are called with a misaligned stack.
  `ArgsRight` shows that the bodies get the right frame even so; `Transparent`
  is about the others. The default stub sends no end of interrupt, which does not
  matter as long as all lines are masked; floating-point registers are not saved,
  and the empty bodies use none.
- `docs/syscalls.md:6` says that results are returned in registers and that system
  calls preserve none. No call returns a result yet, and the stub restores every
  register, the result registers from their fields in the argument structure
  (`isr_common.S:33`). `Transparent` asks only for those of a system call's caller,
  and for all registers of everything else.
- A directory without an end mark is searched past its end; the volumes checked
  have one.
- `cluster_to_pos` (`fat.c:505`) has no case for cluster 0, by which a `..` entry
  names the root directory: the position it computes lies before the data area.
  `FatDirAssumption` leaves entries out that lead off the volume.

## 4. Bounds, and why they are enough

Named bounds: `MAX_DRIFT` (Pmm; `first_free` may run past a region's end, one per
refill that finds it full, and the properties do not depend on how far),
`KH_MAX_NPAGES`, `PAGE_SIZE` (Kheap), `WORD` (Kheap, Blkdev, BlkCache, Fat: the
code's 2^64, here just above the sums that must not wrap, so that others do),
`RADIX` (Vmm), `MAX_SECTORS` and `LBA_LIMIT` (Ata), `Rooms` (BlkCache), `PATH_BUF`
(FatDir: the longest name fits but for its final 0), `MAX_INPUT` (Kutil: keys pressed; one is
enough for the only reader, and none may come), `Times` (Rtc: the instants; one
carry for each register, since only the difference of two neighbours matters),
`STUB_SIZE` (Isr: room for a stub's instructions in an address), and the capacities
of tables, which are the code's own constants at smaller values. Each instance is
just large enough for the case at the limit and the one behind it: two processors,
because every lock protects pairwise; a stack of two, so that a refill can end full
or short; two regions, so that the feed loop crosses from one to the next; one
cached bus of two; one device, partition, drive and descriptor more than there is
room for; pages small enough that a block does not fit one; a page-table radix with
an index that is shared and one that is not at each level that matters. `NPART` is
the code's 4. Numbers printed are below 2^31, TLC's largest; they reach every branch
of the conversions, but not the upper half of a 64-bit word, which the proof covers
(`EveryConversionRight`). `TagSymmetry` is sound
since handles are never compared with anything but each other and no liveness is
checked in that run.

## 5. Fairness

Weak fairness of the steps *inside* a call, per processor: kernel code is not
preempted, and the interrupts that may arrive run empty bodies and return
(`Transparent`), so a processor in a call continues. Never of starting a call. In
`Ata` also of the devices: a device that accepted a command answers it, with data or
an error. In `FatDir`, of the one call that runs. In `BlkCache` the driver's answer
is part of the step. There, and in `Pmm`, `Kheap` and `Ata`, acquiring a lock is not
assumed fair: the spinning exchange gives no order, so nothing says that a waiter
ever gets in, and no property claims it. In `Kutil` every processor's next step is
weakly fair, lock acquisition included. Weak fairness only helps a waiter if the
lock stays free from some time on, which it does there: every processor prints
finitely often and then stops. The transmitter is fair as well: a UART sends what is
in its register. Nobody has to press a key.

## 6. What is proved

`PmmProofs`, from `MemLayoutAssumption` (the boot loader's entries do not overlap)
and `PmmAssumption` (the stack has room for a frame): type correctness with
`page_stk` never over its capacity, `NoDoubleUse`, `Conservation`, `HintSound`,
`NullOnlyWhenExhausted`, `GrantsUsable` and `BitmapFits`, for
every memory map, stack size and set of processors. The inductive invariant `IInv`
adds to the types: the layout table is a sequence of disjoint entries of the map
(`LayoutOK`); the bitmaps are the layout's, up to where `pmm_init` has got
(`BootOK`); the lock is held exactly by whoever is at a label inside a critical
section, and by one (`LockOK`); the loop locals of the feed point between the hints
and the regions' ends, and a processor between finding and using an index has a
clear bit there (`FeedOK`); bits belong to managed frames (`BitsManaged`); stack,
owned, in transit and junk are disjoint and together the set bits (`UseOK`); and
`HintSound`. The last two depend on each other: a frame may be pushed since its bit
is clear, and the hint may pass it since its bit is then set; `LockOK` is needed
since both are broken for a moment if two processors are in the loop. `BitmapFits`
is a fact of arithmetic about regions of every length; it is what excludes too few
pages for a bitmap, since `GrantsUsable` counts them as the code does. `MAX_DRIFT` bounds the state
space for TLC and plays no part in the argument.

`MemProofs` has heap and page tables. For the heap, from `KheapAssumption` and `RequestAssumption` (no address plus
request overflows a word; the callers' requests are small): type correctness,
`FilledInOrder`, `NoOverlap`, `FullMeansFull`, and that `Kheap` implements
`HeapSpec` under the mapping of its entries to blocks. `FullMeansFull` concludes that
all `KH_MAX_NPAGES` pages are mapped when a search ends without a block, unless
`pmm_alloc` refused a page. The argument: entries are in
address order and end before the end of the mapped pages, so the only place without
an overlap is behind the last; a place found is past all others, aligned, and inside
the pages.

For the page tables (invariant `VmmInv`): `MapHonest`, `TablesReachable`,
`TlbCoherent` and the action property `WalkerSafe`, for tables of any four sizes, any memory, any kernel image and any
order of calls. `VmmAssumption` says that usable memory is frames with an address
of their own, that what the allocator starts with is usable and not frame 0, and
that the stack's and the heap's virtual pages are no usable frame's address
(`K_STK_BASE` in `vmm.c:16` and `KH_START` in `kheap.c:13` lie in the upper half
of the address space). The heart of `VmmInv` is that the tables form a tree (`Tree`):
if the paths of two virtual pages meet in a table, they meet at the same level and
the two pages have the same indices above it. Without it a store for one page could
be an entry of another's path, and `MapHonest` alone does not exclude that. It holds
since a new table is a frame that was free, and nothing in use as a table is free
(`MemOK`); between clearing and linking it is on no path (`CallOK`). From the tree
follow three facts about a single store: into a last entry it changes one page's
translation, and that is where the four indices must determine the page
(`SameIndices`, by division with remainder); of a link in the place of a missing
table it changes none; clearing a frame on no path changes no path. `TablesReachable`
needs in addition what is still to be mapped (`BootOK`): a usable frame is mapped to
itself already, or will be, and whatever maps its address to something else comes
before. `TlbOK` says that only the page of the call in progress may be cached stale.
All of it is claimed only until `pmm_alloc` first fails.

`AtaProofs`: `CacheHonest`, `ReadsReachDevice`, `TransferComplete` and
`SectorIsRight`, for any buses, devices and cache size; `AtaAssumption` has
`MAX_SECTORS` above 1 (the code's are 256 and 65536). `IInv` adds that one processor
is in the driver and has the lock, and that driver and device count the same
sectors (`PollOK`): what the device has left is what the loop has yet to take, and
the last sector taken is at the front of the buffer. `ReadsReachDevice` is part of
it, since otherwise the device that counts is not the one that was asked.

`MbrProofs`: `DriverExclusive` and `Contained` from `BlkInv`, which says that calls
name devices that exist, that a disk and its partitions share one lock and one
processor is past it, and that partitions lie inside their disks; and
`PartsMatchTable` from `BootInv`, which follows `mbr_find` from disk to disk and from
entry to entry: disks behind it have their table's partitions, disks before it
none, and the one it is at those of the entries before `ent`. `MbrAssumption` types
disks and tables in 64-bit words, with entries whose sums do not wrap (their fields
have 32 bits), and says that a disk without blocks has no table. What callers
ask for after boot is any word; `Contained` has as its hypothesis that the sum does
not wrap, and `mbr_find`'s partitions always satisfy it. The reference
definition `Described` says which partitions belong to a table (those of the
entries that fit, in order, up to `BLKDEV_MAX_PARTS`) as a predicate: the `n`th
partition is the entry with `n` fitting entries up to and including it.

`BlkCacheProofs`: `CacheCoherent` and `BlockReadsRight`, for any block size, device
and requests in 64-bit arithmetic, with the assumption of section 2 (`NoWrap`: a read
taken for one within a block does not wrap). `IInv` adds the lock and that whoever copies has the block it asked for
in the buffer; that copying at the remainder gives the right bytes is arithmetic.

`FsProofs` has the VFS and the directory search. For the VFS: `NoDoubleMount`, `HandlesApart`, `PosInFile`, `ReadsFileBytes` and `SeekLands`, for any
devices, files, drives and handles, and `AutoMountRight` from the hypothesis
`VerifyExact` that `fat_verify` accepts the FAT16 volumes and, among consistent
ones, no others. That is a
fact about the volumes, not about `vfs.c`: `fat_verify` looks at a few fields, and
what else carries them is up to the disks; the instance of the `vfs` run satisfies
it. `VfsAssumption` says that sizes have 32 of the 64 bits of a word, that seek
offsets are `long long`s and that nobody reads half the address space; without it
sums in `fat_vfs_seek` and `fat_vfs_rd` would wrap. It also says that a file that is
not empty has clusters for its bytes (`Allocated`); how they lie is up to the volume.
`ReadsFileBytes` follows from what a mounted drive and an open descriptor know
(`ReadKnows`) and arithmetic: with the clusters in a row, the cluster of an offset
is the first one plus the quotient, and its place in the cluster the remainder
(`InOnePiece`). `IInv` adds to the properties that
handles and open descriptors correspond (`HandleOK`, `Apart`) and that only mounted
drives have them; `MountInv` follows the loop of `vfs_auto_mount` over the devices.

For the directory search: `OpensTheFile`, for volumes of any size and paths of any
length under `FatDirAssumption`: directories are in one piece, the volume ends in an
end mark, and no entry names the root by cluster 0. A walk in which a name overruns
its buffer is outside the theorem, since it never gets to `done`. `DirInv` says that the entries of the names before the `i`th are
a trail of them, the only one there is (`Followed`), and that no entry of the current
directory before `de` agrees with the name looked up (`Searched`). The second is
delicate: `fat_next_dirent` gives the position behind the entry it skipped to, where
the end mark or an unused entry may be, and the next scan must neither pass the end of
the directory nor miss its first hit. That an entry that agrees is the first one, and
so every trail's, gives the first for `i + 1`.

`ArchProofs` has the clock and the stubs. For the clock: `TimeIsOne`, for any sequence
of instants in the century the kernel assumes. `IInv` says what each local of
`rtc_get_time` holds after each register (`ReadingOK`), all from one instant as long as
the processor is ahead of the count (`HurryOK`); from there the conversion of each
register must undo the chip's.

For the stubs: `ArgsRight` and the action property `Transparent`, for any vectors,
lines and depth of nesting. (After a system call `Transparent` is about the result
registers only.) `IsrInv` says that no entry can be reached before the
controller is remapped and masked (`TablesFirst`, `IdtOK`); and that the processor, and
every interrupted stub, is at some line `l` of the stub that its context was entered
by (`Nested`, `GoesOn`). `AtLine` says what that means: on the stack are the words
of what was interrupted, its frame and the registers pushed and not yet popped
(`Stacked`, with `Depth` words), and in the registers what is not clobbered or
restored again (`RegsAt`). A push and a pop at the same depth name the same register,
and every register the body may change is among those popped: that is the fact about
the three lists of instructions that the proof of each line comes down to. An
interrupt inside a stub makes the stub a context; its `iretq` gives the stack back
word by word, so that the outer stub's words are still there.

`KutilProofs`: `LogPromise`, that printing implements `LogSpec`, for any number of
processors, any operations and any messages. `IInv` says that one processor is inside
`ku_print_v` at a time, which is the mutex (`OnePrinter`); that a processor at a label
inside an operation has that operation first in its list (`WhereOK`), and that what
is left in its list comes from its script (`Follows`); and that nothing is on the
line, and no other processor runs, until the port has passed its loop-back test
(`PortOK`): the test byte is in the transmit register at that time and must not count
as output. A step of the printing processor is then a step of `LogSpec`, a step
of another leaves the message alone, and a character outside a message is a newline.

The refinement rests on `ConversionsRight`, proved by itself
(`EveryConversionRight`): what `print_fmt_x`, `_b`, `_u`, `_s` and `_c` send for an item
is what it means. The code counts digits by shifting and then picks each by a shift
of its own; `Numeral` divides recursively from the other end. Both are recursive
functions, and the proof shows that a sequence has the digits of `n` (`Denotes`: its
`k`th digit from the right is the remainder of the `k`th shift, and the shifts are not
zero before its length and zero from there on) for both. The inductions are done by
the least counterexample (`Least`), including the one that shows that the
recursive functions exist and are unique (`ShiftsExist`, `ShiftsAgree`,
`NumeralsExist`). That a number of 64 bits has at most 16 hexadecimal and 20 decimal
digits, where the counting loops stop, is `HexDigits64` and `DecimalDigits64`.

The invariants were checked by TLC on the module's run before they were proved.

Only model-checked: liveness (`LockReleased` of four modules, `OpenEnds`,
`AllPrinted`), which the prover cannot do. All other properties that the passing runs
check are theorems.

## 7. Plan

The order was memory first, since everything else lives in it, then storage from
the driver upwards, then what all parts share: printing, the clock, interrupts
and system calls. Done: all modules of section 2, and the proofs of section 6. Next:

1. The order of the locks from the block cache to the ATA driver and the port, as a
   composition: whether they are nested in one order everywhere.
2. `Boot`: the order of `main.c` over abstract versions of the parts.

## 8. What is not modelled, and why

Port I/O and the memory primitives of `kutil.c`: no state of their own; their effect
is in the callers' models. `ku_spin_cycles`: a delay. The bits of descriptors
(`gdt.c`, `mk_idt_ent`) beyond the code segment and the gate's type: written once
and read by the processor only. `elf.c`: not called and unfinished. `os-prog`: a
placeholder. Functions whose bodies are empty (`kheap_free`, `kheap_realloc`,
`vfs_wr`, `vfs_unmount`, `blkdev_unregister` and others) change nothing and have no
action; `VF_NO_EXEC` and `VF_NO_CACHE` are set by nobody.
