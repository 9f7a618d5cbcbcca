# Verification of mb_boot_tv

`mb_boot_tv` boots Linux on the Apple TV: it looks on the internal IDE disk for a GUID partition
table, for an ext2 partition with a configuration file, and loads the kernel and ramdisk the file
names; or it gets an address by DHCP and fetches the same three files by TFTP.  It is one thread
of bare-metal C, put together from its own code and from parts of Etherboot and Linux.

This directory holds TLA+ models of it, the configurations that check them with TLC, and proofs
checked by TLAPS.  `PROJECT.json` lists for every definition the lines it models, for every
property the run that checks it, and a mutation of the code that breaks it.

## The system

| part | source | state it keeps | operations | correct means |
|---|---|---|---|---|
| boot flow | `main/main.c`, `diskboot.c`, `netboot.c`, `loader_init.c` | the calls in progress, `tried_network_boot`, what is open, the loaded buffers | `do_main`, `try_disk_boot`, `diskboot`, `try_network_boot`, `dhcp_callback`, `network_boot_failed`, `boot_kernel` | the first configuration is booted, devices are closed before the kernel starts, the loader gives up only if it must |
| disk and IDE | `main/disk.c`, `partition.c`, `eb-disk.c`, `eb-probe.c`, `eb/ide_disk.c` | one-sector cache, partition set, `controller`, `harddisk_info` | open, probe, read, close | the sector asked for, of the first drive; no command to a busy drive; every call returns |
| GUID partition table | `main/efi.c`, `crc.c` | static headers and entry arrays | `efi_find_partitions` | the partitions of the table whose checksums match |
| ext2 | `main/e2/ext2fs.c` | the mounted volume, inode table, descriptors, two cached indirect blocks | mount, open, seek, read, close | the file the path names, its bytes in order |
| DHCP / BOOTP | `main/eb/nic.c` | `arptable`, `dhcp_*`, `bootp_data`, `sport` | `bootp`, `await_bootp`, `decode_rfc1533` | an address that was granted, with the configuration that belongs to it |
| TFTP | `main/eb/nic.c` | statics of `tftp_block` | `tftp`, `tftp_block`, `await_tftp` | the whole file in order, or failure |
| IP, UDP, ARP | `main/eb/nic.c` | `arptable`, the queue of the card | `ip_transmit`, `await_reply`, `await_arp` | datagrams go to the right station, the answer waited for is not lost |
| LACP | `main/eb/proto_eth_slow.c` | actor and partner state, two timers | `send_eth_slow_reports`, `process_eth_slow` | what the switch said is trusted as long as it may be |
| RTL8139 | `main/eb/rtl8139.c` | `cur_rx`, `cur_tx`, receive ring | reset, transmit, poll | frames whole and in order; never deaf for good |
| PCI | `main/eb/pci.c`, `pci_probe.c` | the device found last | `find_pci`, `pci_probe` | every device is found once |
| allocator | `main/dl-malloc.h` | chunks with boundary tags, bins and trees, segments, direct mappings | `malloc`, `free`, `realloc`, `calloc`, `memalign`, `independent_*`, `malloc_trim` | blocks large enough, apart and kept; no free chunk forgotten; the footprint is true |
| console and printf | `BootVideoHelpers.c`, `vsprintf.c` | frame buffer, cursor | `printk`, `sprintf`, `simple_strtol` | the screen shows the end of what was printed; numbers read back |
| hand-over | `loader_init.c`, `system.c`, `sysdeps.h` | memory, `boot_params` | `boot_kernel`, `sysdeps_create_boot_params`, `start_kernel` | kernel, ramdisk, parameters and command line are whole and where the kernel looks |
| the rest | `eb/misc.c`, `time.c`, `string.c`, `sha1.c` | | timers, keyboard, strings, hashing | |

**How the parts interact.**  There is one thread and no interrupt.  `do_main` calls the disk boot;
the disk boot may call the network boot; a failed network boot calls the disk boot again.  All of
them share global state: one disk, one partition, one mounted file system, one network interface.
Every wait for the disk (`await_ide`) and for the network (`await_reply`) polls the keyboard; an
abort key calls `flail()`, which never returns and starts another `try_disk_boot(0)` in the middle
of whatever ran.  So each part must work from the state any unfinished call has left.

**What is hard.**  The order of nested calls; abort keys between any two steps; reads, commands
and packets that fail half-way; caches, static buffers and counters that outlive the call that
filled them; late, lost, repeated and reordered packets; retries and timeouts; 16-, 32- and 64-bit
limits.  `PROJECT.json` lists these hazards line by line.

**What is missing from the repository.**  `main/eb.c` (`network_init`, `network_load_file`,
`network_shutdown`, `loadkernel`, `flail`, `iskey`) is named by the Makefile but is not there.  It
is modelled from its uses and marked external, as are the TFTP and DHCP servers, the network, the IDE drives and
the network card.

## The modules

| module | models | extends / uses |
|---|---|---|
| `BootFlow` | the boot flow | `MCBootFlow` instantiates it |
| `FileTransfer` | abstract: what `tftp()` promises its caller | |
| `Tftp` | the TFTP client, against a server and a network | implements `FileTransfer`; `MCTftp` |
| `Dhcp` | `bootp()` against several servers | |
| `Disk` | disk, partition, probing and the IDE driver | `MCDisk` |
| `Gpt` | the GUID partition table | `MCGpt` |
| `Ext2File` | the block map of ext2: mount, seek, read | `MCExt2File` |
| `Ext2Names` | names and links of ext2: open, close | `MCExt2Names` |
| `Nic` | abstract: what the protocols rely on in `eth_poll()` and `eth_transmit()` | |
| `Rtl8139` | the RTL8139 driver and the card | implements `Nic` |
| `PciScan` | `probe()`, `pci_probe()` and the bus scan | `MCPciScan` |
| `BootVolume` | the way to a file: bus scan, partition table, file system | extends `PciScan`, `Gpt`, `Ext2File`; `MCBootVolume` |
| `Lacp` | the LACP client, as operators on its state | |
| `IpLayer` | `ip_transmit()`, ARP and the loop of `await_reply()` | extends `Lacp`; `MCIpLayer` |
| `MallocBins` | chunks, bins and trees of the allocator, as operators on its state | |
| `DlMalloc` | the calls of the allocator and the system layer under it | extends `MallocBins`; `MCDlMalloc` |
| `Printf` | `vsprintf()`, `number()`, `simple_strtol()` as functions | |
| `Console` | text on the frame buffer | extends `Printf` |
| `Loader` | `printk()`, `boot_kernel()` and the hand-over | extends `Console`; `MCLoader` |

`BootFlowProofs`, `TftpProofs`, `DhcpProofs`, `DiskProofs`, `Ext2FileProofs`, `Ext2NamesProofs`,
`Rtl8139Proofs` and `IpLayerProofs` hold the proofs.

`BootFlow` is the top: each of its actions is one call into the parts below, taken there by its
possible results (a disk that fails, a file that is missing or cut short).  The other modules
show what those results can be.

### BootFlow

`pc` names the call that runs next, `trynetwork` and `i` are the argument and the loop variable of
the innermost `try_disk_boot`, `netcaller` the caller of `try_network_boot`.  Only one frame of
each is kept: a call left through `flail()` is never returned to.  `vol` and `netfile` are what is
on the disk and on the server, chosen in `Init` with `returns`, whether `network_init()` (which is
not in the repository) ever comes back; a configuration file is what `parse_config` makes
of it.  One action per call, in the order of the source: `DiskOpen`, `FindPartitions`,
`MountPartition`, `ReadConfig`, `DiskbootTryNetwork`, `DiskbootKernel`, `DiskbootRamdisk`,
`TryNetworkBoot`, `NetworkInit`, `NetbootKernel`, `NetbootRamdisk`, `BootKernel`, and the returns;
`AbortKey` may come at each call that waits (`Polling`).  `ioerr` remembers that the disk failed.

### Tftp and FileTransfer

`FileTransfer` hands over a file piece by piece and then says "complete", or fails.  `Tftp` has
the statics of `tftp_block` under their own names, the packets in flight, and the sessions of a
server that follows RFC 1350 and 2347: a port of its own per request, options ignored or answered
with an OACK, repeated ACKs answered or not.  Files are fetched in sequence, so that late packets
of one meet the next.  `Init` chooses the files, the server's ways, and whether the network is
`healthy`: then packets are lost at worst, and nothing times out while an answer is under way, which
is what the promise not to fail needs.  `Tftp` is shown to implement `FileTransfer` (same variables, by name).

### Dhcp

The two nested loops of `bootp()` are the phases "send", "offers", "request", "acks".  Servers
have disjoint pools, so whatever comes from a server is named by the server; that makes mixed and
stale configurations visible.  Kinds of server: DHCP, one that never acknowledges, BOOTP, proxy.
`healthy` is as in `Tftp`.  The model ends when `bootp()` returns.

### Disk

Two channels of two drives.  `pc` is the operation, `io` where it waits ("wait": before the
command, "issued": after it).  `bsy` and `sel` are the hardware; `await_ide` looks at the drive
selected, as the code does.  `sector`, `bytes` and `buffer` are the cache, where `buffer` holds
what is really in it.  `Address` translates to CHS, LBA and LBA48 registers, `SectorAt` is the
drive's reading of them.  An `AbortKey` at any wait leaves the command running.

### Gpt

Reading the MBR, a header and an entry array are one step each, since each may fail and be
interrupted; the scan takes one step per entry.  The static buffers outlive a call.  A checksum
matches if what it is computed over is what it was made from; if the array is longer than the
buffer the result is left open, and so are entries read behind the buffer.

### Ext2File and Ext2Names

`Ext2File` has block pointers as functions (`Inode`, `Table`), the two caches with the block
number they are known by and what they really hold, and an offset of limited width.  One step
reads one block.  Which blocks are direct, single- and double-indirect is decided by the code's own
limits.  `Ext2Names` has the inode table with its slots; one step walks one component.
Directory blocks that cannot be read, links, circles of links and full tables are possible.

### Rtl8139 and Nic

The card is a second process: between any two register accesses of the driver it may store a frame
(`Receive`), run out of room (`Overflow`) or finish a transmission (`Transmitted`).  The ring is
modelled byte by byte, with a frame's header and bytes named, so that a frame that is torn, taken
from the wrong place or written over is seen.  `rtl_poll()` is four steps (read the status, copy,
move `RxBufPtr`, acknowledge), `rtl_transmit()` two.  What the card does is taken from the comments
of `rtl8139.c`: an overflow stops reception until it is acknowledged, and if that happens before
`RxBufPtr` has moved the next frame is overwritten.  The header of a frame counts as good or bad as
a whole; the EEPROM, the interrupt mask and debugging output are left out.

`Nic` is a queue: frames are handed over whole and in order, or all that wait are lost.

### PciScan

`config` is what the slots of all buses hold, chosen in `ScanInit`: nothing (which may read as ones or
zeros), a device with one function that may answer for all, or one with several.  `driver` and `at`
are `state->dev`, the result of one scan and the start of the next; a scan takes one step per
function.  A driver may take or refuse what it is offered, and one with several drives is asked
again (`advance`).  `find_pci()` is not in the repository and taken to be `scan_pci_bus()`; nothing
sets `use_specified` or probes with `PROBE_AWAKE`.

### BootVolume

`try_disk_boot()` runs three of the parts one after the other: `disk_open()` scans the buses for a
controller, `efi_find_partitions()` reads the table, and each partition of the list is mounted and
files are read from it.  `BootVolume` composes `PciScan`, `Gpt` and `Ext2File` that way: each keeps its
variables, the table is read only when the probe has found a disk (`DiskOpened`), and a volume is
mounted only from a list that was reported, and only if its partition is on it (`OnList`).

### IpLayer and Lacp

Above `IpLayer` is a protocol like TFTP that sends a request, waits, and sends it again; around it
are an Ethernet that loses, repeats and reorders frames, stations that answer ARP, a server and a
switch.  `ip_transmit()` is one step up to its first wait; the loop of `await_reply()` takes one step
per frame or empty poll (`PollFrame`, `PollEmpty`), with the LACP timers looked at in each, as in the
code.  Addresses are sequences of bytes and a netmask is the number of bytes it covers, so that
`default_netmask()` and the choice of the next hop are the code's.  Time is in ticks: a wait and an
LACP timer count down, `Off` is the code's 0 and `Passed` a time in the past.

The table of stations is written as the code writes it.  An attempt of `bootp()` drains the receive
queue (`Drain`) and kills the table once (`BeginAttempt`); any number of replies may follow
within it.  Each replaces the server, and a relay if it names one, and kills their stations
(`Addresses`), and has its options decoded if it lends an address (`Decode`): a gateway given there
gets its address but keeps its station.  If an option names an extension file, `await_bootp()` calls
`tftp()` for it in the middle of the attempt, so that requests are made and stations resolved, and the
options in the file are decoded at its end (`ExtensionEnds`).  `learnt` is the address for which the
gateway's station was resolved.

`Lacp` is compiled only with `PROTO_LACP`, which `eb.h` does not define; with it off, `IpLayer`
sends no reports and the rest is unchanged.  After its second expiry `periodic_timer` is 0, so the
client is silent until the switch asks.  `BACKOFF_LIMIT` is not defined either: the waits double
without limit.  In `ip_transmit()` the branch "not in my arp table" cannot be reached for the server
or a gateway.

### MallocBins and DlMalloc

The state is one record with the fields of `struct malloc_state`, counted in words, and with the
chunks' headers (`head`: size, `cinuse`, `pinuse`, `prev_foot`) as a function of the address.  The
operators of `MallocBins` are the macros of the code: they insert into and unlink from lists and
bitwise trees and keep the two bit maps.  `DlMalloc` has one action per public call; nothing can
interrupt one (no locks, one thread), so it is one step, the whole call with its consolidation and
trimming.  `mmap()`, `munmap()` and `sbrk()` (external) may fail or give less, and another user of
`sbrk()` may move the break.  `used` is what the program holds, with how much of what it wrote is
still there.

Two things the model shows but no property is about: a request of `MAX_REQUEST` or more wraps in
`granularity_align`, so that a request which must fail may still grow the heap (`dl-malloc.h:3514`,
`3594`); and the first segment sets `least_addr` although a direct mapping may lie below it
(`dl-malloc.h:3623`).

### Printf, Console and Loader

A format is a sequence of conversions with flags, width and precision; what `vsprintf()` does with
it is a function to texts, words having `WordBits` bits.  The frame buffer is a function from
addresses to the strokes on a pixel: drawing only adds ink, `scroll_memcpy()` copies and
`clean_line()` clears, so that what shines through is seen.  `paper` is what was printed, in
rows of an endless paper.  `Loader` has memory in large units, with the parts of the loaded
files named, `boot_kernel()` in the four steps between which it prints, and the copies made unit by
unit in the code's order, because source and target overlap.

Not shown by it: the result of `vsprintf()` is not limited to the 1024 bytes `printk()` has;
`%hhx` and `%lld` are printed as they stand and take no argument; addresses above 2 GB
appear negative in the `base:%d` of the command line; a wrap is looked for only after drawing,
so text wider than the screen spills into the next row (`neat`).  That the kernel ends below
15 MB and the ramdisk below the stack is assumed (`Fits`): the code does not look.  The heap
(`main/malloc.c`, not in the repository) is taken to lie above 15 MB.

## The runs

| run | checks | shows |
|---|---|---|
| `bootflow` | `TypeOK NetworkTriedOnce ReadsAreMounted CleanHandOff BootsFirstConfig NetBootsItsConfig SpinsOnlyIfUnbootable Settles` | the right kernel with the right ramdisk from the right partition, devices closed; the loader always ends, and in `spin()` only if the disk is not bootable |
| `tftp` | `PlainServerNeverFails ImplementsFileTransfer Terminates` | files arrive as `FileTransfer` says, over any network; retries make up for as many losses as there are retries; `tftp()` returns |
| `dhcp` | `SoundConfiguration FailsOnlyIfUnserved Returns` | no address that was not granted, no mixed or stale configuration, no request but for what was offered; `bootp()` fails only for want of a server, and returns |
| `disk` | `RightSector NoCommandWhileBusy ShortOnlyIfFaulty CallsReturn` | reads return what is on the first drive, and return |
| `boot_volume` | `HandsOverTheFile ReportsTheTable FailsOnlyForCause OffersEachOnce ProbeReturns` | every function with a driver is offered to it once, in bus order, and `probe()` returns; the partitions reported are those of a whole table, and no read goes past the buffers; block map and caches give the file |
| `ext2_ind2lim` | `DoubleIndirectMapped`, violated | the last blocks that the double-indirect block maps are handed over as zeros, with success |
| `ext2_names` | `InodeTableSound OpensTheNamedFile OpenReturns` | path walk, links, inode table |
| `rtl8139` | `NeverDeaf TxInStep ImplementsNic` | frames come out of the ring as `Nic` says while the card writes it; an overflow is always noticed again; card and driver agree on the transmit descriptor |
| `net` | `RightStation OwnAnswerKept PartnerFresh TransmitReturns` | datagrams go to the station of the next hop under every configuration, but for a gateway that an option has renamed after it was resolved; waiting for ARP loses only answers to earlier requests; LACP information expires when it should; `ip_transmit()` returns |
| `net_stale` | `NoStaleEntries`, violated | the exception of `RightStation` happens: datagrams for the new gateway go to the old one |
| `malloc` | `HeapSound FootprintTrue BlocksIntact FitIsFound` | what the debug build would check (`do_check_malloc_state`) holds after every sequence of calls; blocks are whole and apart; the footprint is true; every search finds the best fit |
| `loader` | `ScreenShowsTail NumbersReadBack HandsOver` | scrolling and wrapping; printing against reading, the numbers of the command line among it; the kernel starts with everything in place |

`SoundConfiguration`, `InodeTableSound`, `RightSector`, `OffersEachOnce` and `HeapSound` are
conjunctions; their parts are stated and explained one by one in the modules.

Two runs show what a comment promises to be violated; both are findings in `PROJECT.json`.
"Maximum double-indir blkno" (`ext2fs.c:73`): `ind2lim` (`ext2fs.c:840`) leaves the single-indirect
blocks out of the sum, so `ext2_blkno()` takes the last `ptrs_per_blk` blocks that the double-indirect
block maps for holes, and `ext2fs_read()` hands over zeros for them, with success.
`HandsOverTheFile` claims the right block up to `ind2lim`, `DoubleIndirectMapped` for all blocks.
"Kill arptable to avoid keeping stale entries" (`nic.c:1100`): the table is killed once per attempt,
but several replies and extension files are decoded within one, and `decode_rfc1533()` (`nic.c:1924`)
replaces the gateway's address without killing its station.  The trace: a reply names a gateway and an
extension file, the gateway is resolved to fetch it, the file (or a later reply) names another
gateway, and what is sent next over the new gateway goes to the old one.  `RightStation` excepts the
gateway while it is `Renamed`, `NoStaleEntries` does not.

Two more comments say more than the code does; the models follow the code, and the properties say
what is left.  "Resolve relative links" (`ext2fs.c:666`): the path has been cut at its first "/" by then
and `strrchr()` (`string.c:111`) never looks at the first character, so every relative link is
resolved from the root (`OpensTheNamedFile` leaves those below the root out).  "If the response is
incomplete spin up the drive" (`ide_disk.c:534`): `cmd.command` stays 0, which is NOP, so the drive
sleeps on (`Command`, `Obeys`; `ShortOnlyIfFaulty` leaves sleeping drives out).

More places where code and comment disagree are in the models.
After an unanswered request phase `bootp()` repeats the DHCPREQUEST from its outer loop, and a
DHCPACK that arrives there ends it as "just a BOOTP reply" (`nic.c:1129`); `AddressGranted`, a part of `SoundConfiguration`, covers
that path.  A drive that cannot be powered up is used although the comment says "give up"
(`ide_disk.c:612`; `PowerUp`).  With `force_gpt` 0 the last case of `find_valid_gpt()`, "using
alternate GPT" (`efi.c:379`), is never reached (`Verdict`).  The local
port of a TFTP transfer changes not only for a "new RRQ" (`nic.c:779`) but also under a repeated
ACK of an OACK (`Timeout`), which cuts the session off.  An indirect block that could not be read
is handed over as zeros, as 'a "hole"' (`ext2fs.c:365`; `ReadBlock`).  A PCI device with several I/O
addresses gets the last, not "the first one" (`pci.c:174`; `IoAddr`), one without any keeps that of
the device before, and function 7 of device 31 is not scanned although "all possible pci buses" are
(`pci.c:97`; `MoreDevfn`).  The target of a long symbolic link lies in the buffer that the walk along
it overwrites (`ext2fs.c:657`; `FollowLink` lets it read as anything), and a directory block of zeros
makes the search of a directory endless (`ext2fs.c:411`; `SearchHangs`).  A link is followed only at
the end of a path: in the middle, also if it leads to a directory, its own data are searched as
entries, and the file behind it is "not found" (`StepFails`; `OpensTheNamedFile` leaves it out).

### Bounds, and why they are enough

- `BootFlow`: two partitions (a first and a later one), configurations that take every branch of
  `diskboot` and `dhcp_callback`, `network_init()` that may and may not return, one abort key (two
  frames of `try_disk_boot`).  The theorems hold for any number of each.
- `Tftp`: block numbers modulo 3 and either two short files or one of four blocks, so that numbers
  wrap and a late packet meets another transfer; two sessions (on a healthy network any number);
  one fault, and no timeout more than the one that makes up for it.
- `Dhcp`: two servers of every pair of kinds, two tries, one fault.
- `Disk`: three drives on two channels, none, one, a slave alone on its channel, or all of them
  present; each with its own size and address format; a partition across the end of a drive; two
  reads (one fills the cache, one meets it), and one of no sectors; one abort key.  The third drive may be asleep.
- `Gpt`: six sectors, arrays of two entries of every kind, one flaw per header; buffers of three
  slots and lengths modulo 8, so that cap and wrap-around happen.
- `Ext2File`: one direct block, two pointers per block, two volumes with pointer blocks at the
  same numbers, so that stale caches would be seen; offsets modulo 32; a file that reaches past
  `ind2lim`.
- `Rtl8139`: a ring of 18 bytes in words of 2 has room for two frames of 2 or 3 bytes; after six
  frames the position has gone around the ring more than once, and `cur_rx` and `RxBufPtr`, both
  modulo 36, have wrapped too.
- `BootVolume`: every filling of the buses with a disk that has no table, and every disk behind a
  bus with one controller; the two volumes lie on the two partitions of one of these disks.
- `PciScan`: two buses of two slots of three functions; every filling from two empty slots, two
  single-function and two multi-function devices; the two drivers of the build.
- `IpLayer`: four scenarios, a server on our network and behind two gateways in turn, one attempt
  of several replies whose extension file changes the gateway it is fetched through, ARP requests and
  damaged frames while waiting, and a broadcasting client with a switch that speaks LACP; two
  ARP tries, one frame waiting in the card (more only wait longer: the loop takes one at a time).
- `DlMalloc`: sizes of 8 bits, four tree bins, granularity 32 words; four programs of five to eight
  calls with at most three blocks at a time, small, large, mapped, resized, aligned, grouped and
  overflowing.  Reached: every bin and both children of a tree node, the designated victim, merging
  with each neighbour, several segments, a foreign `sbrk()`, trimming, failing `mmap()` and
  `munmap()`.  Not reached: a new segment directly below the one of `top` or of the victim
  (`prepend_alloc` onto them), and the waste of a noncontiguous `sbrk()`.
- `Loader`: a screen of four by five pixels, two lines high, and three calls of `printk()`, so that
  it scrolls more than once; words of four bits and every flag, with and without width, precision
  and `h`, for the conversions d, u, o, x and X and every number (`%#X`, whose prefix
  `simple_strtoul()` does not know, is read behind the prefix); kernels and ramdisks of a few units at
  every place of the heap where they are disjoint.
- `Ext2Names`: a tree with absolute, relative, long and circular links and one to a directory; five
  slots, three opens.

### Fairness

Every liveness property but one assumes `WF_vars(Next)` only (`PciScan`: of the steps inside a call,
not of the calls): the single thread does not stop by itself.  `IpLayer` assumes that the clock runs
(`WF` of `Tick`), that the loop runs (`WF` of `Iterate`) and that it finds the card empty again
and again (`SF` of `PollEmpty`): `await_reply()` looks at the clock only then, and the comment there
(`nic.c:1627`) says why that is enough.
Each wait in the code has a time limit, and the model's waits can end by `TimesOut` or `Timeout`;
what the environment can do (faults, resends, abort keys) is bounded by constants, because a
network that repeats packets for ever, or a finger that stays on a key, can hold the loader up for
ever.  `Terminates` excludes one real endless exchange, block numbers that wrap against a server
that answers repeated ACKs, and `OpenReturns` one, a directory search over zeros; both are stated
at the property.

## The proofs

Each of the eight proof modules `XProofs` extends module `X`.  A theorem says that `X`'s
specification implies a property a run checks (or a refinement), for every value of the constants
that the assumptions of `X` allow.  `DiskProofs` extends `Gpt` and `PciScan` as well, the parts around
the disk, `Ext2FileProofs` extends `BootVolume`, and `BootFlowProofs` extends `Loader`, where the boot
ends; `Gpt`, `PciScan` and `Loader` have names of their own for what every specification has
(`GptInit`, `ScanSpec`, `LoaderNext`, ...), so that they can be extended together.  None of the
properties is inductive: each module has an invariant that is (`IInv`,
where it has no other name), and proves that the initial states satisfy it, that every action
preserves it (a lemma per action or per conjunct) and that it implies the properties; `PTL` puts
these together.  TLC checked each of them on the instance of the module's run (`ScreenInv` with one
message less, and rows compared on the lines of the screen instead of every `y`).

| module | theorem | property |
|---|---|---|
| `BootFlowProofs` | `TypeCorrect`, `NetworkOnce`, `MountedReads`, `HandOff`, `FirstConfigBooted`, `NetConfigBooted`, `GivesUpOnlyIfUnbootable`, `KernelHandedOver`, `ScreenTrue` | `TypeOK`, `NetworkTriedOnce`, `ReadsAreMounted`, `CleanHandOff`, `BootsFirstConfig`, `NetBootsItsConfig`, `SpinsOnlyIfUnbootable`, `HandsOver` and `ScreenShowsTail` of `Loader` |
| `TftpProofs` | `InStep`, `TransferImplemented`, `PlainServerServes` | the invariant, `ImplementsFileTransfer`, `PlainServerNeverFails` |
| `DhcpProofs` | `ConfigurationSound`, `ServedUnlessCommitted` | `SoundConfiguration`, `FailsOnlyIfUnserved` |
| `DiskProofs` | `SectorsRight`, `CommandsWait`, `ShortForCause`, `TableReported`, `TableFound`, `EachOfferedOnce` | `RightSector`, `NoCommandWhileBusy`, `ShortOnlyIfFaulty`, `ReportsTheTable` and `FailsOnlyForCause` of `Gpt`, `OffersEachOnce` of `PciScan` |
| `Ext2FileProofs` | `FileHandedOver`, `VolumeHandedOver`, `VolumeImplementsParts` | `HandsOverTheFile` of `Ext2File` and in `BootVolume`; `BootVolume` keeps to the specifications of its parts |
| `Ext2NamesProofs` | `TableSound`, `RightFileOpened` | `InodeTableSound`, `OpensTheNamedFile` |
| `Rtl8139Proofs` | `DescriptorsAgree`, `NotDeaf`, `NicImplemented` | `TxInStep`, `NeverDeaf`, `ImplementsNic` |
| `IpLayerProofs` | `DatagramsArrive`, `AnswersKept`, `SwitchTrustedInTime` | `RightStation`, `OwnAnswerKept`, `PartnerFresh` |

**Boot flow.**  Any number of partitions, any configurations, any number of abort keys.  What holds
in `boot_kernel()` was decided calls before, so `IInv` says at which call which devices are open
(`DevicesInv`; only below a `try_disk_boot(0)` started by `flail()` can a file system be mounted
already), which locals of `diskboot()` and `dhcp_callback()` are set (`LocalsInv`), that nobody has
asked for the network while the first disk boot still may (`TriedInv`), where `conf` comes from
(`DiskSourceInv`, `NetSourceInv`), and when the disk boot is left for good (`GiveUpInv`).

**TFTP implements FileTransfer.**  Any files, block size, width of the block number, number of sessions
and of faults.  A step of `Tftp` is a step of `FileTransfer` or none because a DATA packet with the
number that is awaited is the very block: `DataOK` says that a packet to the local port in use is of
the current file and at most one block ahead of the client, `SessionOK` and `AckOK` say why the server
cannot be further, and `Busy => blksize = BlkOf` that both mean the same block size.  `Stuck` is
the one exception: at `blockidx = IdxMod - 1` the client waits for a number that no packet has, and the
transfer cannot go on to a wrong block.

`PlainServerServes` adds to it `PlainInv`, for the server that ignores options and repeats a block when
an ACK is repeated, with files short enough that block numbers do not wrap.  A local port has one RRQ
in flight or one session, never two (`PlainSessions`, `PlainNet`), and that session is never behind the
client; so every packet that is `Live` (for the client, or one to which the server will answer) leads to
another.  `LossesCounted` is the argument: as long as one is in flight the client has timed out at most as
often as packets were lost or sent again, and when none is, less often than that; a fault is needed
for every retry, and `tftp_block()`, which compares before it counts, gives up only when
`MaxRetries + 1` retries are used up and one more packet is lost.

**DHCP.**  Any servers of any kinds, any number of tries and faults.  `NetInv` says what a packet in
flight proves (an ACK to us was granted, an OFFER offered), `HeardInv` that `arptable` holds only
what was heard since it was cleared, `AddressInv` which message type may be left from an earlier
phase, `OfferInv` what `dhcp_addr` and `dhcp_server`, which outlive `arptable`, still say.

`ServedUnlessCommitted` counts.  On a healthy network a DISCOVER that stays unanswered has cost a
fault (`TriesCounted`), and two of them where a BOOTP server would have answered as well
(`PairsCounted`), which makes up for the requests that its untimely replies can use up; without BOOTP
servers every DHCPREQUEST costs one (`RequestsCounted`).  So with fewer faults than tries one try
is left over if some server serves.  It holds from two tries on (`RetriesAssumption`; the code
has 4, `MAX_BOOTP_RETRIES`): with a single one TLC refutes it, because a BOOTP server that answers
the DHCPREQUEST first uses the try up and the ACK comes too late.

**Disk.**  Drives of any size and geometry in any of the three address formats, any partitions,
reads and abort keys, with or without faults.  The arithmetic of `ide_set_sector()` is a lemma on
division with remainder.  `ProbeInv` and `ExistsInv` say what the loop of `ide_pci_probe()` has found
out so far, `PassedInv` that it passes no working master, `BusyInv` that a drive that is busy is the
one selected from the end of the reset on, `ReadInv` that a read stays in its partition.
Doing the proof without a bound on requests showed a read of no sectors to be different from what the
model had; `Loop` now leaves the loop of `partition_read()` at once for `n = 0`, and the run
includes that call.

**Partition table and bus scan.**  `Gpt`: disks of any size, arrays of any length, any size of the
buffers, with failed reads and abort keys.  That the list reported is the table (`Lists`: the used
entries, each once and in order) is an invariant of the loop over the entries (`ListInv`), which
starts from a buffer that `VouchedInv` says is the array the header's CRC was computed over, and not
what an earlier call left there; `OrderInv` says which of the two copies has been judged when.
`PciScan`: any number of buses, slots, functions, drivers and calls of `probe()`, if no two drivers
know the same function (`OneMatch`).  Positions are compared in bus order by lemmas that make
it a strict order; `Scanning` says that between where the scan resumed and where it is there is
no function with a driver, and `NextFound` that the one it stops at is the next.

**ext2.**  `Ext2File`: any volumes, block size, pointers per block and files; `CacheInv` says that a
cache that has a number holds that block of the volume mounted now, `PositionInv` that a read stays
before the end of its file.  Blocks behind `ind2lim` are outside the claim, as in the run.
`BootVolume` takes no step that its parts do not allow (`VolumeImplementsParts`), so what is proved of
them is true of the composition that the run checks.

`Ext2Names`: any tree and any number of slots.  Which slots are lost is a matter of counting, so the proof uses the theorems on finite sets, and takes the first free slot from the
well-ordering of the numbers: `LeakInv` counts the slots that belong neither to a file nor to the
root nor to the walk.  What a path denotes is any function `Finds` that satisfies the equations of path
resolution (`ResolutionAssumption`); `NamesInv` says that the rest of the path, from the inode the walk
has reached, finds what the whole path finds from the root.  The attempt showed the model to be wrong
about a link in the middle of a path, and the property to claim too much there; both follow
the code now, and the run has such a link.

**Kernel hand-over.**  Any layout of memory and any files that `Fits` admits.  The heart is
a lemma about the copy loop: `MEMCPY` to a lower address leaves the source as it was in the
target, also if the two overlap, because no unit is read after it was overwritten (`OneMore`,
`Copies`).  It is an induction over the units copied; the prover has no induction rule for it, so the
proof takes the least unit at which the loop and the result disagree (`Least`).  `HandInv` then says
that from the copy of the kernel on the kernel is in place and nothing above 15 MB has changed, so
that the ramdisk, the stack and the header of the kernel are still what was loaded.

**Console.**  Any screen at least one line high, any font whose tab has no glyph, any messages (taken
to be sequences of characters, `TextsAssumption`).  Drawing, printing and the paper are three folds
along a text.  For each, `OverlayFold`, `PrintFold` and `PaperFold` show that the fold exists and goes on
character by character, by induction up to the length (`UpTo`, from `Least`).  `Looks` says that a row
is as wide and has the same ink on whatever line it is drawn; `MoreLooks` keeps it for one
character more.  `Shows` says that the lines down to the cursor show the last rows of the paper, that the
cursor stands at the end of the last row, and that nothing fell outside unless a row was too
wide.  `CharShows` keeps it when a character is drawn on the screen and written on the paper, because
a character draws nothing above the line it is on; `LineShows` when a line is begun, with and
without scrolling: what an overlong row has spilled below is cleaned before the cursor gets there.
Within a text, `Pending` says it of what the screen would show if the pending characters were drawn,
as `BootVideoChunkedPrint()` draws them only at a newline or the end.

**RTL8139 implements Nic.**  Any lengths of ring, registers and frames such that two of the largest
frames fit in the ring, as they do in 8 KB.  `Layout` is the map from the ring to the queue: there are
positions, counted without wrapping, at which the frames of the queue lie one behind the other from
the driver's position to the chip's, and the whole is shorter than the ring, so that what the chip
writes touches none of them.  Lemmas on remainders bring these positions back to ring and register
widths.  `OverflowInv` says that an overflow leaves at least one frame, and that `rtl_poll()` has either
seen it or still will; `TxInv` that the chip's descriptor is ahead of the driver's only while `TxOK` says so.

**IP layer.**  Any addresses, stations, retries, timeouts, LACP periods, and frames lost, repeated,
delayed and unasked; any sequence of attempts, with any number of replies in each and any extension
files.  Assumed is that no address lent is a server's or a gateway's (`ScenariosAssumption`): otherwise
`ip_transmit()` finds the client's own entry first.  `TableInv` says that the server's entry is empty or
holds the station of its address, and the gateway's the station of `learnt`, which is its address
unless it was renamed; `LoadInv` that the reply whose extension file is being fetched is known,
`WaitInv` that the entry ARP fills is the one the datagram will use, and stays filled while an answer
is waited for; that is why no request is resolved twice and no answer to it lost (`FrameOK`).
`Timing` ties the LACP timer to the time since the switch was heard, before and after the first expiry.

**Only model-checked.**

- Liveness (`Settles`, `Terminates`, `Returns`, `CallsReturn`, `OpenReturns`, `ProbeReturns`,
  `TransmitReturns`), which the prover does not reach.
- `NumbersReadBack` of `Loader`: it relates two recursions in opposite directions, the division that
  makes the digits and the multiplication that reads them, across padding, wrapping and the
  selection of characters.
- `DlMalloc`.  `HeapSound`, `BlocksIntact`, `FootprintTrue` and `FitIsFound` speak of walks along
  segments, rings and trees of any depth and of sums of sizes; all of these are recursive functions
  over the heap, and a step of the allocator changes several of them at once.

## Not modelled

- The words of a configuration line, CRC-32 as arithmetic, the layout of packets and registers.
- `sha1.c`: a pure function whose result decides nothing.  `fontx16.h`: pictures; double-size glyphs.
- Of the allocator: `mallopt`, `max_footprint`, `valloc`, `pvalloc`, `malloc_stats`, mspaces, `FOOTERS`
  and locks, which are not compiled or not called.
- IGMP (dead code), TCP (`DOWNLOAD_PROTO_HTTP`; `tcp_transmit()` has no caller) and PXE.
- `gen_header.c` and `check_header.c`, which run on the build machine; `eb/disk.c`, `eb/filo.c`, `efi/`
  and `glue_ext2fs.c`, which are not in the build.

Time is modelled only in `IpLayer`, in ticks; elsewhere a timeout may happen whenever the awaited
event has not.

## Open

Every part of the loader listed above is modelled, and every safety property of the runs is proved
except those named under "Only model-checked".  `BootVolume` composes the parts
below `try_disk_boot()` that are sequential; left to model is the composition of `BootFlow` with an
abstract disk that it and `Disk` implement.
