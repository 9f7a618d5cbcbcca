-------------------------------- MODULE Disk --------------------------------
(***************************************************************************)
(* The disk: main/disk.c (disk_open, do_disk_read with its one-sector      *)
(* cache, disk_close), main/partition.c, the probe loops of eb-disk.c,     *)
(* eb-probe.c and eb/pci_probe.c, and the IDE driver eb/ide_disk.c.        *)
(*                                                                         *)
(* There is one PCI IDE controller with two channels of two drives; drive  *)
(* 2 * c + k is the master (k = 0) or slave (k = 1) of channel c, numbered *)
(* as "index" in ide_pci_probe().  A drive that gets a command is busy for *)
(* as long as it likes.  await_ide() waits for the drive selected on the   *)
(* channel, gives up after IDE_TIMEOUT, and polls for the abort key.       *)
(*                                                                         *)
(* try_disk_boot() opens drive 0 only, so the loop of disk_open() is left  *)
(* after one probe.                                                        *)
(***************************************************************************)
EXTENDS Integers

CONSTANTS
  Equipment,      \* sets of drives that may be there
  Sectors,        \* Sectors[d]: number of sectors of drive d
  Mode,           \* Mode[d]: "chs", "lba" or "lba48"
  Heads, Spt,     \* geometry: heads, sectors per track
  LbaLimit,       \* 2^28
  Asleep,         \* drives that may ask to be spun up (word 2 is 0x37C8)
  Partitions,     \* what partition_set() is called with: [start, size]
  Reads,          \* what partition_read() is called with: [sector, n]
  Faulty,         \* may a drive that is there fail or time out?
  MaxAborts, MaxReads   \* bounds

Drives == 0..3
Channels == 0..1
Drive(c, k) == 2 * c + k

ASSUME GeometryAssumption ==
  /\ Sectors \in [Drives -> Nat] /\ Heads \in Nat \ {0} /\ Spt \in Nat \ {0}
  /\ Mode \in [Drives -> {"chs", "lba", "lba48"}]
  /\ LbaLimit \in Nat /\ \A d \in Drives : Mode[d] = "lba" => Sectors[d] < LbaLimit
ASSUME CallsAssumption ==
  /\ Equipment \subseteq SUBSET Drives /\ Asleep \subseteq Drives /\ Faulty \in BOOLEAN
  /\ \A p \in Partitions : p.start \in Nat /\ p.size \in Nat
  /\ \A r \in Reads : r.sector \in Nat /\ r.n \in Nat
  /\ MaxAborts \in Nat /\ MaxReads \in Nat

VARIABLES
  present,        \* the world: the drives that are there ...
  floats,         \* ... and the channels where BSY floats high without drives
  bsy, sel,       \* drives that are busy, the drive selected on each channel
  asleep,         \* drives that are not spun up
  controller,     \* the channel the global controller describes
  exists, slave_absent,         \* harddisk_info[0..1]
  disable,        \* disk.dev.disable is set
  index,          \* local of ide_pci_probe(); dev->index of an open disk
  sector, bytes, buffer,        \* the cache: disk.sector, disk.bytes # 0 and
                                \* what the buffer really holds
  start, size,    \* the partition set
  pc,             \* what runs: "idle" (nothing), "probe", "aborted" or one
                  \* of the operations that wait, see Waiting
  io,             \* where it waits
  unit,           \* 0 or 1: the drive init_drive() looks at
  req,            \* partition_read(): next sector, sectors left
  out,            \* history: the last sector handed over, and its contents
  clash,          \* history: a command was written to a busy drive
  unpowered,      \* history: drives that could not be powered up
  short,          \* history: partition_read() returned less than asked for
  fault,          \* history: a drive that is there failed
  aborts, reads   \* counters for the bounds

world == <<present, floats>>
hw    == <<bsy, sel, asleep>>
info  == <<exists, slave_absent>>
cache == <<sector, bytes, buffer>>
part  == <<start, size>>
past  == <<out, short, clash, unpowered>>
vars == <<world, hw, controller, info, disable, index, cache, part, pc, io, unit, req,
          past, fault, aborts, reads>>

Junk == <<-1, 0>>               \* neither sector of any drive
NoneOut == [want |-> Junk, got |-> Junk]

Empty(c) == present \cap {Drive(c, 0), Drive(c, 1)} = {}

Init ==
  /\ present \in Equipment /\ floats \in SUBSET { c \in Channels : Empty(c) }
  /\ bsy = {} /\ sel = [c \in Channels |-> 0] /\ asleep \in SUBSET (Asleep \cap present)
  /\ controller = 0 /\ exists = {} /\ slave_absent = FALSE
  /\ disable = FALSE /\ index = 0
  /\ sector = 0 /\ bytes = FALSE /\ buffer = Junk
  /\ start = 0 /\ size = 0
  /\ pc = "idle" /\ io = "none" /\ unit = 0 /\ req = [sector |-> 0, left |-> 0]
  /\ out = NoneOut /\ short = FALSE /\ clash = FALSE /\ unpowered = {}
  /\ fault = FALSE /\ aborts = 0 /\ reads = 0

Selected == Drive(controller, sel[controller])

(* The BSY bit the status register shows.                                  *)
Busy == IF Empty(controller) THEN controller \in floats ELSE Selected \in bsy

(* not_bsy() of await_ide().                                               *)
Ready == ~Busy

(* await_ide() fails: the bit stays set for IDE_TIMEOUT.                   *)
TimesOut ==
  /\ Busy
  /\ \/ Empty(controller) /\ UNCHANGED fault
     \/ ~Empty(controller) /\ Faulty /\ fault' = TRUE

(* A drive finishes what it does.                                          *)
DriveReady(d) ==
  /\ d \in bsy /\ bsy' = bsy \ {d}
  /\ UNCHANGED <<world, sel, asleep, controller, info, disable, index, cache, part,
                 pc, io, unit, req, past, fault, aborts, reads>>

-----------------------------------------------------------------------------
(* disk_open(): clears the disk structure, so disk_disable() finds nothing *)
(* to do, and probes from the first drive.                                 *)
DiskOpen ==
  /\ (pc = "idle" /\ ~disable) \/ pc = "aborted"
  /\ disable' = FALSE /\ sector' = 0 /\ bytes' = FALSE
  /\ index' = 0 /\ pc' = "probe" /\ io' = "none"
  /\ short' = FALSE /\ out' = NoneOut
  /\ UNCHANGED <<world, hw, controller, info, buffer, part, unit, req, clash,
                 unpowered, fault, aborts, reads>>

(* Mutant: "continue" without the increment.                               *)
NextIndex_Stuck == index' = index

NextIndex == index' = index + 1

Exists == index % 2 \in exists

(* The end of the loop body: a drive that exists is used.                  *)
Pick ==
  /\ pc = "probe" /\ io = "picked"
  /\ IF Exists
     THEN disable' = TRUE /\ pc' = "idle" /\ UNCHANGED index
     ELSE NextIndex /\ UNCHANGED <<disable, pc>>
  /\ io' = "none"
  /\ UNCHANGED <<world, hw, controller, info, cache, part, unit, req, past, fault,
                 aborts, reads>>

ChannelOf == index \div 2

(* ide_pci_probe(): the loop over the drives; masters bring up their       *)
(* channel first.                                                          *)
Probe ==
  /\ pc = "probe" /\ io = "none" /\ index < 4
  /\ controller' = ChannelOf
  /\ IF index % 2 = 0
     THEN exists' = {} /\ slave_absent' = FALSE /\ pc' = "reset" /\ io' = "wait"
     ELSE io' = "picked" /\ UNCHANGED <<info, pc>>
  /\ UNCHANGED <<world, hw, disable, index, cache, part, unit, req, past, fault,
                 aborts, reads>>

(* Past all of the drives: "Not that many drives".                         *)
ProbeFails ==
  /\ pc = "probe" /\ io = "none" /\ index = 4
  /\ pc' = "idle"
  /\ UNCHANGED <<world, hw, controller, info, disable, index, cache, part, io, unit,
                 req, past, fault, aborts, reads>>

-----------------------------------------------------------------------------
(* ide_software_reset(), from init_controller() ("reset") and from         *)
(* disk_close() ("close"): both drives are busy, the master is selected.   *)
Reset ==
  /\ pc \in {"reset", "close"} /\ io = "wait" /\ Ready
  /\ bsy' = bsy \cup (present \cap {Drive(controller, 0), Drive(controller, 1)})
  /\ sel' = [sel EXCEPT ![controller] = 0]
  /\ io' = "issued"
  /\ UNCHANGED <<world, asleep, controller, info, disable, index, cache, part, pc, unit,
                 req, past, fault, aborts, reads>>

(* Selecting a drive in init_drive(): the registers of a drive that is     *)
(* missing, or still busy, need not hold what is written to them.          *)
InitDrive(k) ==
  /\ sel' = [sel EXCEPT ![controller] = k] /\ unit' = k
  /\ \/ pc' = "identify" /\ io' = "wait"
     \/ /\ Drive(controller, k) \notin present \ bsy
        /\ pc' = "probe" /\ io' = "picked"

ResetDone ==
  /\ pc = "reset" /\ io = "issued" /\ Ready
  /\ InitDrive(0)
  /\ UNCHANGED <<world, bsy, asleep, controller, info, disable, index, cache, part, req,
                 past, fault, aborts, reads>>

(* "Nothing behind the controller": the loop goes on with the next drive.  *)
ResetFails ==
  /\ pc = "reset" /\ TimesOut
  /\ NextIndex /\ pc' = "probe" /\ io' = "none"
  /\ UNCHANGED <<world, hw, controller, info, disable, cache, part, unit, req, past,
                 aborts, reads>>

-----------------------------------------------------------------------------
(* pio_data_in() and pio_non_data(): wait for the selected drive, select   *)
(* the one addressed, write the command, wait again.                       *)
Waiting == {"identify", "spinup", "reidentify", "power", "read"}
Target == Drive(controller, IF pc = "read" THEN index % 2 ELSE unit)

(* Mutant: pio_data_in() does not wait before it writes the command.       *)
MayIssue_NoWait == TRUE

MayIssue == Ready

(* The command register.  The commands to spin up and to power up have a   *)
(* feature, but cmd.command stays 0, which is NOP and not SET FEATURES.    *)
Command ==
  CASE pc \in {"identify", "reidentify"} -> "IDENTIFY DEVICE"
    [] pc = "read" -> "READ SECTORS"
    [] OTHER -> "NOP"

(* A drive asleep spins up when it is told to.                             *)
Obeys ==
  asleep' = IF pc = "spinup" /\ Command = "SET FEATURES" THEN asleep \ {Target} ELSE asleep

Issue ==
  /\ pc \in Waiting /\ io = "wait" /\ MayIssue
  /\ sel' = [sel EXCEPT ![controller] = Target % 2]
  /\ clash' = (clash \/ Target \in bsy)
  /\ bsy' = bsy \cup (present \cap {Target}) /\ Obeys
  /\ io' = "issued"
  /\ UNCHANGED <<world, controller, info, disable, index, cache, part, pc, unit,
                 req, out, short, unpowered, fault, aborts, reads>>

Answered == io = "issued" /\ Ready

(* init_drive() has got a description; init_controller() then looks for a  *)
(* slave, unless the master knows that it has none.                        *)
Described ==
  /\ exists' = exists \cup {unit}
  /\ \/ /\ unit = 0 /\ slave_absent' = FALSE
        /\ InitDrive(1)
     \/ /\ unit = 0 => Drive(controller, 1) \notin present
        /\ slave_absent' = (slave_absent \/ unit = 0)
        /\ pc' = "probe" /\ io' = "picked" /\ UNCHANGED <<sel, unit>>

Then(p) == pc' = p /\ io' = "wait" /\ UNCHANGED <<sel, unit, info>>

(* IDENTIFY DEVICE, with the data in disk->buffer.  A drive asleep gets a  *)
(* command to spin up; an incomplete answer is asked for again; a drive    *)
(* with CFA power modes gets a command to power up.                        *)
Identified ==
  /\ pc \in {"identify", "reidentify"} /\ Answered /\ Target \in present
  /\ buffer' = Junk
  /\ \/ pc = "identify" /\ Target \in asleep /\ Then("spinup")
     \/ pc = "identify" /\ Target \notin asleep /\ Then("reidentify")
     \/ (pc = "identify" => Target \notin asleep) /\ (Described \/ Then("power"))
  /\ UNCHANGED <<world, bsy, asleep, controller, disable, index, sector, bytes, part, req,
                 past, fault, aborts, reads>>

(* No answer: no such drive.  After a failed master no slave is looked     *)
(* for.                                                                    *)
NotIdentified ==
  /\ \/ /\ pc \in {"identify", "reidentify"} /\ Answered
        /\ Target \in present => Faulty
        /\ fault' = (fault \/ Target \in present)
     \/ pc \in {"identify", "reidentify", "spinup"} /\ TimesOut
  /\ pc' = "probe" /\ io' = "picked"
  /\ buffer' \in {buffer, Junk}
  /\ UNCHANGED <<world, hw, controller, info, disable, index, sector, bytes, part, unit,
                 req, past, aborts, reads>>

(* After the command to spin up the drive is asked again.                  *)
SpinUp ==
  /\ pc = "spinup" /\ Answered
  /\ Then("reidentify")
  /\ UNCHANGED <<world, bsy, asleep, controller, disable, index, cache, part, req, past,
                 fault, aborts, reads>>

(* Whether the drive could be powered up is not looked at: drive_exists is *)
(* set, and the result of init_drive() is ignored.                         *)
PowerUp ==
  /\ pc = "power"
  /\ \/ TimesOut /\ unpowered' = unpowered \cup {Target}
     \/ Answered /\ UNCHANGED <<fault, unpowered>>
  /\ Described
  /\ UNCHANGED <<world, bsy, asleep, controller, disable, index, cache, part, req, out,
                 short, clash, aborts, reads>>

-----------------------------------------------------------------------------
PartitionSet(p) ==
  /\ pc = "idle" /\ disable
  /\ start' = p.start /\ size' = p.size
  /\ UNCHANGED <<world, hw, controller, info, disable, index, cache, pc, io, unit, req,
                 past, fault, aborts, reads>>

InPartition(r) == r.sector + r.n <= size

(* while (nsectors--) with n sectors left.                                 *)
Loop(n) == IF n = 0 THEN "idle" ELSE "partition_read"

(* partition_read().                                                       *)
PartitionRead(r) ==
  /\ pc = "idle" /\ disable /\ reads < MaxReads
  /\ reads' = reads + 1
  /\ IF InPartition(r)
     THEN /\ req' = [sector |-> r.sector + start, left |-> r.n]
          /\ pc' = Loop(r.n) /\ short' = FALSE /\ out' = NoneOut
     ELSE UNCHANGED <<req, pc, short, out>>
  /\ UNCHANGED <<world, hw, controller, info, disable, index, cache, part, io, unit,
                 clash, unpowered, fault, aborts>>

Cached == bytes /\ req.sector = sector

Delivers(b) ==
  /\ out' = [want |-> <<index, req.sector>>, got |-> b]
  /\ req' = [sector |-> req.sector + 1, left |-> req.left - 1]
  /\ pc' = Loop(req.left - 1)

(* disk_read() from the cache.                                             *)
ReadCached ==
  /\ pc = "partition_read" /\ Cached
  /\ Delivers(buffer)
  /\ UNCHANGED <<world, hw, controller, info, disable, index, cache, part, io, unit,
                 short, clash, unpowered, fault, aborts, reads>>

(* Mutant: the old contents stay in the cache while the drive is read.     *)
EmptyCache_Dropped == UNCHANGED <<sector, bytes>>

(* ide_read(): "Report the buffer is empty".                               *)
EmptyCache == sector' = 0 /\ bytes' = FALSE

(* Mutant: the last sector counts as past the end.                         *)
PastEnd_OffByOne(s, d) == s + 1 >= Sectors[d]

(* The sector behind the last one passes; the drive refuses it.            *)
PastEnd(s, d) == s > Sectors[d]

(* A drive that still sleeps gave an incomplete description: its number of *)
(* sectors may be anything.                                                *)
ReadSector ==
  /\ pc = "partition_read" /\ ~Cached
  /\ EmptyCache
  /\ \/ /\ PastEnd(req.sector, index) \/ index \in asleep
        /\ pc' = "idle" /\ short' = TRUE /\ UNCHANGED io
     \/ /\ ~PastEnd(req.sector, index) \/ index \in asleep
        /\ pc' = "read" /\ io' = "wait" /\ UNCHANGED short
  /\ UNCHANGED <<world, hw, controller, info, disable, index, buffer, part, unit, req,
                 out, clash, unpowered, fault, aborts, reads>>

(* The three address formats, and the sector a drive finds there.          *)
Address(d, s) ==
  CASE Mode[d] = "chs" ->
         [cyl |-> (s \div Spt) \div Heads, head |-> (s \div Spt) % Heads,
          sec |-> 1 + (s % Spt)]
    [] Mode[d] = "lba" -> [lba |-> s % LbaLimit]
    [] OTHER -> [lba |-> s]

SectorAt(d, a) ==
  IF Mode[d] = "chs" THEN (a.cyl * Heads + a.head) * Spt + a.sec - 1 ELSE a.lba

ReadDone ==
  /\ pc = "read" /\ Answered
  /\ LET s == SectorAt(Target, Address(Target, req.sector)) IN
       /\ Target \in present \ asleep /\ s < Sectors[Target]
       /\ buffer' = <<Target, s>> /\ Delivers(buffer')
  /\ sector' = req.sector /\ bytes' = TRUE /\ io' = "none"
  /\ UNCHANGED <<world, hw, controller, info, disable, index, part, unit, short, clash,
                 unpowered, fault, aborts, reads>>

(* No data, or more of it than a sector: the buffer may be overwritten.    *)
(* partition_read() returns what it has got so far.                        *)
ReadFails ==
  /\ pc = "read"
  /\ \/ /\ Answered
        /\ (req.sector < Sectors[Target] /\ Target \notin asleep) => Faulty
        /\ fault' = (fault \/ (req.sector < Sectors[Target] /\ Target \notin asleep))
     \/ TimesOut
  /\ buffer' \in {buffer, Junk}
  /\ pc' = "idle" /\ io' = "none" /\ short' = TRUE
  /\ UNCHANGED <<world, hw, controller, info, disable, index, sector, bytes, part, unit,
                 req, out, clash, unpowered, aborts, reads>>

-----------------------------------------------------------------------------
(* disk_close(): ide_disable() resets the channel, once.                   *)
DiskClose ==
  /\ pc = "idle" /\ disable
  /\ pc' = "close" /\ io' = "wait"
  /\ UNCHANGED <<world, hw, controller, info, disable, index, cache, part, unit, req,
                 past, fault, aborts, reads>>

Closed ==
  /\ pc = "close"
  /\ TimesOut \/ (Answered /\ UNCHANGED fault)
  /\ disable' = FALSE /\ pc' = "idle" /\ io' = "none"
  /\ UNCHANGED <<world, hw, controller, info, index, cache, part, unit, req, past,
                 aborts, reads>>

(* poll_interruptions() in await_ide() finds an abort key: flail() starts  *)
(* try_disk_boot() again.                                                  *)
AbortKey ==
  /\ io \in {"wait", "issued"} /\ Busy /\ aborts < MaxAborts
  /\ aborts' = aborts + 1 /\ pc' = "aborted" /\ io' = "none"
  /\ UNCHANGED <<world, hw, controller, info, disable, index, cache, part, unit, req,
                 past, fault, reads>>

Next ==
  \/ DiskOpen \/ Probe \/ Pick \/ ProbeFails \/ Reset \/ ResetDone \/ ResetFails
  \/ Issue \/ Identified \/ NotIdentified \/ SpinUp \/ PowerUp
  \/ \E p \in Partitions : PartitionSet(p)
  \/ \E r \in Reads : PartitionRead(r)
  \/ ReadCached \/ ReadSector \/ ReadDone \/ ReadFails
  \/ DiskClose \/ Closed \/ AbortKey
  \/ \E d \in Drives : DriveReady(d)

Spec == Init /\ [][Next]_vars

(* Code that waits goes on: the drive answers or the time is up.           *)
FairSpec == Spec /\ WF_vars(Next)

-----------------------------------------------------------------------------
(* What the cache says it holds is what the buffer holds: the sector it    *)
(* names, of the drive that is open, also after reads that failed half-way *)
(* or were left by an abort key.                                           *)
CacheTruthful == (disable /\ bytes) => buffer = <<index, sector>>

(* Commands are written only to drives that are not busy, although         *)
(* await_ide() looks at the drive selected before, and abort keys leave    *)
(* commands running.  The exception is a master that could not be powered  *)
(* up: the slave is selected next, and hides that the master is busy.      *)
NoCommandWhileBusy == clash => unpowered # {}

Masters == { d \in present : d % 2 = 0 }

(* disk_open() finds the first master in the order of the channels, past   *)
(* empty channels where BSY floats high, and fails only if there is none.  *)
(* (A slave is used only behind a master, so never as drive 0.)            *)
OpensFirstDrive ==
  ~fault =>
    /\ disable => index \in Masters /\ \A d \in Masters : index <= d
    /\ (pc = "idle" /\ index = 4) => Masters = {}

(* partition_read() hands over the sectors asked for, of the drive         *)
(* disk_open() chose and from inside the partition, in all three address   *)
(* formats and whether from the cache or from the drive; the drive is the  *)
(* first, and the cache says what it holds.                                *)
RightSector ==
  /\ out # NoneOut =>
       /\ out.got = out.want
       /\ pc = "partition_read" => out.want[2] \in start..(start + size - 1)
  /\ CacheTruthful /\ OpensFirstDrive

(* partition_read() falls short only if a drive failed, or sleeps, or the  *)
(* partition reaches behind the end of the drive.                          *)
ShortOnlyIfFaulty ==
  (short /\ disable /\ ~fault /\ index \notin asleep) => req.sector >= Sectors[index]

(* disk_open(), partition_read() and disk_close() return, or are left by   *)
(* an abort key: no wait is without a time limit.                          *)
CallsReturn == pc # "idle" ~> pc \in {"idle", "aborted"}

=============================================================================
