----------------------------- MODULE DiskProofs -----------------------------
(***************************************************************************)
(* Proofs about Disk, for drives of any size and address format, any       *)
(* geometry, any partitions and reads, any number of abort keys, and with  *)
(* or without faults; and about the parts before and behind it, the table  *)
(* of the partitions (Gpt) and the bus scan that finds the controller      *)
(* (PciScan), each with constants and variables of its own.                *)
(***************************************************************************)
EXTENDS Disk, Gpt, PciScan, TLAPS

Looking == {"identify", "spinup", "reidentify", "power"}
Probing == {"probe", "reset"} \cup Looking
Transfer == {"partition_read", "read"}

(* The loop of ide_pci_probe() has left init_controller().                 *)
Picked == pc = "probe" /\ io = "picked"

TypeInv ==
  /\ present \subseteq Drives /\ bsy \subseteq present
  /\ sel \in [Channels -> {0, 1}] /\ controller \in Channels /\ unit \in {0, 1}
  /\ index \in 0..4 /\ exists \subseteq {0, 1}
  /\ disable \in BOOLEAN /\ bytes \in BOOLEAN /\ short \in BOOLEAN /\ fault \in BOOLEAN
  /\ clash \in BOOLEAN
  /\ pc \in {"idle", "aborted", "close"} \cup Probing \cup Transfer
  /\ start \in Nat /\ size \in Nat /\ req \in [sector : Nat, left : Int]

(* Where the probe is: masters only are brought up, a slave is found only  *)
(* behind a master, and nothing is open, cached or short meanwhile.        *)
ProbeInv ==
  /\ pc \in Probing => ~disable /\ ~bytes /\ ~short
  /\ (pc \in {"reset"} \cup Looking \/ Picked) => index < 4 /\ controller = index \div 2
  /\ pc \in {"reset"} \cup Looking => index % 2 = 0
  /\ pc = "reset" => exists = {}
  /\ pc = "reset" /\ io = "issued" => sel[controller] = 0
  /\ pc \in Looking => sel[controller] = unit /\ (unit = 1 => 0 \in exists)
  /\ (pc \in Looking \/ Picked) => (1 \in exists => 0 \in exists)
  /\ pc = "probe" /\ index % 2 = 1 => exists = {}

(* An open disk is a master that is there, on the channel controller       *)
(* describes.                                                              *)
OpenInv ==
  /\ pc \in Transfer \cup {"close"} => disable
  /\ disable => index < 4 /\ index % 2 = 0 /\ controller = index \div 2 /\ index \in present

(* What drive_exists says is so, unless a drive failed.                    *)
ExistsInv ==
  /\ pc \in Looking \ {"identify"} => Drive(controller, unit) \in present
  /\ (pc \in Looking \/ Picked) /\ 0 \in exists => Drive(controller, 0) \in present
  /\ Picked /\ index % 2 = 0 /\ 0 \notin exists /\ ~fault => index \notin present

(* The probe never passes a master that works.                             *)
PassedInv == ~fault => \A d \in Masters : index <= d

(* From the end of the reset on a busy master is the drive selected.       *)
Settled ==
  \/ pc \in Waiting
  \/ Picked /\ 0 \in exists
  \/ disable /\ pc \in {"idle", "partition_read"}
BusyInv ==
  unpowered = {} => /\ ~clash
                    /\ Settled /\ Drive(controller, 0) \in bsy => sel[controller] = 0

(* A partition_read() under way stays inside the partition.                *)
ReadInv ==
  /\ pc \in Transfer => /\ ~short /\ req.left >= 1
                        /\ start <= req.sector /\ req.sector + req.left <= start + size
  /\ pc = "read" => ~bytes /\ (index \notin asleep => req.sector <= Sectors[index])

OutInv ==
  out # NoneOut => /\ out.got = out.want
                   /\ pc = "partition_read" => out.want[2] \in start..(start + size - 1)

Inv1 == TypeInv /\ ProbeInv /\ OpenInv
IInv == /\ Inv1 /\ ExistsInv /\ PassedInv /\ BusyInv
        /\ ReadInv /\ OutInv /\ CacheTruthful /\ ShortOnlyIfFaulty

-----------------------------------------------------------------------------
(* Division with remainder, for the cylinder, head and sector of a drive.  *)
LEMMA Division ==
  ASSUME NEW a \in Nat, NEW b \in Nat \ {0}
  PROVE  (a \div b) * b + (a % b) = a /\ a \div b \in Nat /\ a % b \in Nat
  OBVIOUS

(* ide_set_sector(): the drive finds the sector it is asked for, if the    *)
(* sector is at most one behind its end.                                   *)
LEMMA AddressFindsSector ==
  ASSUME NEW d \in Drives, NEW s \in Nat, s <= Sectors[d]
  PROVE  SectorAt(d, Address(d, s)) = s
<1> USE GeometryAssumption
<1>1. CASE Mode[d] = "chs"
  <2> DEFINE t == s \div Spt
  <2>1. t * Spt + (s % Spt) = s /\ t \in Nat /\ s % Spt \in Nat
    BY Division
  <2>2. (t \div Heads) * Heads + (t % Heads) = t
    BY <2>1, Division
  <2>3. SectorAt(d, Address(d, s)) = ((t \div Heads) * Heads + (t % Heads)) * Spt + (1 + (s % Spt)) - 1
    BY <1>1 DEF SectorAt, Address
  <2> QED BY <2>1, <2>2, <2>3
<1>2. CASE Mode[d] = "lba"
  <2>1. s % LbaLimit = s
    BY <1>2
  <2> QED BY <1>2, <2>1 DEF SectorAt, Address
<1>3. CASE Mode[d] = "lba48"
  BY <1>3 DEF SectorAt, Address
<1> QED BY <1>1, <1>2, <1>3
-----------------------------------------------------------------------------
(* Types.                                                                  *)
LEMMA TypeStep == Inv1 /\ [Next]_vars => TypeInv'
<1> SUFFICES ASSUME Inv1, [Next]_vars PROVE TypeInv'
  OBVIOUS
<1> USE DEF Inv1, TypeInv, Probing, Looking, Transfer, world, hw, info, cache, part, past
<1>1. CASE DiskOpen
  <2>1. bytes' \in BOOLEAN /\ short' \in BOOLEAN /\ disable' \in BOOLEAN
    BY <1>1 DEF DiskOpen
  <2> QED BY <1>1, <2>1 DEF DiskOpen
<1>2. CASE Probe
  <2>1. controller' \in Channels
    BY <1>2 DEF Probe, ChannelOf, Channels
  <2> QED BY <1>2, <2>1 DEF Probe
<1>3. CASE Pick
  <2>1. index < 4 /\ index' \in {index, index + 1}
    BY <1>3 DEF Pick, NextIndex, ProbeInv, Picked
  <2>2. index' \in 0..4
    BY <2>1
  <2>3. disable' \in BOOLEAN
    BY <1>3 DEF Pick
  <2> QED BY <1>3, <2>2, <2>3 DEF Pick
<1>4. CASE Reset \/ ResetDone \/ Issue
  <2>1. CASE Reset
    BY <2>1 DEF Reset
  <2>2. CASE ResetDone
    BY <2>2 DEF ResetDone, InitDrive
  <2>3. CASE Issue
    <3>1. Target % 2 \in {0, 1}
      BY DEF Target, Drive, Channels
    <3>2. clash' \in BOOLEAN
      BY <2>3 DEF Issue
    <3> QED BY <2>3, <3>1, <3>2 DEF Issue
  <2> QED BY <1>4, <2>1, <2>2, <2>3
<1>5. CASE ResetFails
  <2>1. index < 4 /\ index' = index + 1
    BY <1>5 DEF ResetFails, NextIndex, ProbeInv
  <2>2. index' \in 0..4
    BY <2>1
  <2>3. fault' \in BOOLEAN
    BY <1>5 DEF ResetFails, TimesOut
  <2> QED BY <1>5, <2>2, <2>3 DEF ResetFails
<1>6. CASE Identified \/ NotIdentified \/ SpinUp \/ PowerUp
  <2>1. CASE Identified
    BY <2>1 DEF Identified, Described, Then, InitDrive, TimesOut
  <2>2. CASE NotIdentified
    BY <2>2 DEF NotIdentified, Described, Then, InitDrive, TimesOut
  <2>3. CASE SpinUp
    BY <2>3 DEF SpinUp, Described, Then, InitDrive, TimesOut
  <2>4. CASE PowerUp
    BY <2>4 DEF PowerUp, Described, Then, InitDrive, TimesOut
  <2> QED BY <1>6, <2>1, <2>2, <2>3, <2>4
<1>7. ASSUME NEW p \in Partitions, PartitionSet(p) PROVE TypeInv'
  BY <1>7, CallsAssumption DEF PartitionSet
<1>8. ASSUME NEW r \in Reads, PartitionRead(r) PROVE TypeInv'
  <2>1. r.sector + start \in Nat /\ r.n \in Int
    BY CallsAssumption
  <2>2. req' \in [sector : Nat, left : Int]
    BY <1>8, <2>1 DEF PartitionRead
  <2>3. short' \in BOOLEAN
    BY <1>8 DEF PartitionRead
  <2> QED BY <1>8, <2>2, <2>3 DEF PartitionRead, Loop
<1>9. CASE ReadCached \/ ReadSector \/ ReadDone \/ ReadFails
  <2>1. req.sector + 1 \in Nat /\ req.left - 1 \in Int
    OBVIOUS
  <2>2. req' \in [sector : Nat, left : Int]
    BY <1>9, <2>1 DEF ReadCached, ReadSector, ReadDone, ReadFails, Delivers
  <2>3. bytes' \in BOOLEAN /\ short' \in BOOLEAN /\ fault' \in BOOLEAN
    BY <1>9 DEF ReadCached, ReadSector, ReadDone, ReadFails, EmptyCache, TimesOut
  <2> QED BY <1>9, <2>2, <2>3 DEF ReadCached, ReadSector, ReadDone, ReadFails, Delivers, Loop
<1>10. CASE ProbeFails \/ DiskClose \/ Closed \/ AbortKey
  BY <1>10 DEF ProbeFails, DiskClose, Closed, AbortKey, TimesOut
<1>11. ASSUME NEW d \in Drives, DriveReady(d) PROVE TypeInv'
  BY <1>11 DEF DriveReady
<1>12. CASE UNCHANGED vars
  BY <1>12 DEF vars
<1> QED BY <1>1, <1>2, <1>3, <1>4, <1>5, <1>6, <1>7, <1>8, <1>9, <1>10, <1>11, <1>12 DEF Next

(* The probe.                                                              *)
LEMMA ProbeStep == Inv1 /\ [Next]_vars => ProbeInv'
<1> SUFFICES ASSUME Inv1, [Next]_vars PROVE ProbeInv'
  OBVIOUS
<1> USE DEF Inv1, TypeInv, ProbeInv, Probing, Looking, Transfer, Picked,
            world, hw, info, cache, part, past
<1>1. CASE DiskOpen
  BY <1>1 DEF DiskOpen
<1>2. CASE Probe
  <2>1. CASE index % 2 = 0
    BY <1>2, <2>1 DEF Probe, ChannelOf
  <2>2. CASE index % 2 # 0
    <3>1. index % 2 = 1
      BY <2>2
    <3> QED BY <1>2, <3>1 DEF Probe, ChannelOf
  <2> QED BY <2>1, <2>2
<1>3. CASE Pick
  BY <1>3 DEF Pick, NextIndex, Exists
<1>4. CASE Reset \/ ResetDone
  <2>1. CASE Reset
    BY <2>1 DEF Reset
  <2>2. CASE ResetDone
    BY <2>2 DEF ResetDone, InitDrive
  <2> QED BY <1>4, <2>1, <2>2
<1>5. CASE ResetFails
  BY <1>5 DEF ResetFails, NextIndex
<1>6. CASE Issue
  <2>1. pc \in Looking => Target % 2 = unit
    BY DEF Target, Drive, Channels
  <2>2. pc \in Looking => sel'[controller] = unit
    BY <1>6, <2>1 DEF Issue, Target
  <2> QED BY <1>6, <2>2 DEF Issue, Waiting
<1>7. CASE Identified \/ NotIdentified \/ SpinUp \/ PowerUp
  BY <1>7 DEF Identified, NotIdentified, SpinUp, PowerUp, Described, Then, InitDrive
<1>8. CASE \/ \E p \in Partitions : PartitionSet(p)
           \/ \E r \in Reads : PartitionRead(r)
  BY <1>8 DEF PartitionSet, PartitionRead, Loop
<1>9. CASE ReadCached \/ ReadSector \/ ReadDone \/ ReadFails
  BY <1>9 DEF ReadCached, ReadSector, ReadDone, ReadFails, Delivers, Loop
<1>10. CASE ProbeFails \/ DiskClose \/ Closed \/ AbortKey
  BY <1>10 DEF ProbeFails, DiskClose, Closed, AbortKey
<1>11. ASSUME NEW d \in Drives, DriveReady(d) PROVE ProbeInv'
  BY <1>11 DEF DriveReady
<1>12. CASE UNCHANGED vars
  BY <1>12 DEF vars
<1> QED BY <1>1, <1>2, <1>3, <1>4, <1>5, <1>6, <1>7, <1>8, <1>9, <1>10, <1>11, <1>12 DEF Next

(* The disk that is open.                                                  *)
LEMMA OpenStep == IInv /\ [Next]_vars => OpenInv'
<1> SUFFICES ASSUME IInv, [Next]_vars PROVE OpenInv'
  OBVIOUS
<1> USE DEF IInv, Inv1, TypeInv, ProbeInv, OpenInv, Probing, Looking, Transfer, Picked,
            world, hw, info, cache, part, past
<1>1. CASE Pick
  <2>1. Exists => index % 2 = 0 /\ 0 \in exists
    BY <1>1 DEF Pick, Exists
  <2>2. Exists => Drive(controller, 0) = index
    BY <1>1, <2>1 DEF Pick, Drive
  <2> QED BY <1>1, <2>1, <2>2 DEF Pick, ExistsInv
<1>2. CASE DiskOpen \/ Probe \/ ProbeFails \/ Reset \/ ResetDone \/ ResetFails
  BY <1>2 DEF DiskOpen, Probe, ProbeFails, Reset, ResetDone, ResetFails, InitDrive
<1>3. CASE Issue \/ Identified \/ NotIdentified \/ SpinUp \/ PowerUp
  BY <1>3 DEF Issue, Identified, NotIdentified, SpinUp, PowerUp, Described, Then, InitDrive
<1>4. CASE \/ \E p \in Partitions : PartitionSet(p)
           \/ \E r \in Reads : PartitionRead(r)
  BY <1>4 DEF PartitionSet, PartitionRead, Loop
<1>5. CASE ReadCached \/ ReadSector \/ ReadDone \/ ReadFails
  BY <1>5 DEF ReadCached, ReadSector, ReadDone, ReadFails, Delivers, Loop
<1>6. CASE DiskClose \/ Closed \/ AbortKey
  BY <1>6 DEF DiskClose, Closed, AbortKey
<1>7. CASE UNCHANGED vars \/ \E d \in Drives : DriveReady(d)
  BY <1>7 DEF vars, DriveReady
<1> QED BY <1>1, <1>2, <1>3, <1>4, <1>5, <1>6, <1>7 DEF Next

(* What drive_exists says.                                                 *)
LEMMA ExistsStep == IInv /\ [Next]_vars => ExistsInv'
<1> SUFFICES ASSUME IInv, [Next]_vars PROVE ExistsInv'
  OBVIOUS
<1> USE DEF IInv, Inv1, TypeInv, ProbeInv, ExistsInv, Looking, Transfer, Picked,
            Drive, Channels, Drives, world, hw, info, cache, part, past
<1>1. CASE DiskOpen \/ Probe \/ Pick \/ ProbeFails
  BY <1>1 DEF DiskOpen, Probe, ChannelOf, Pick, NextIndex, ProbeFails
<1>2. CASE Reset \/ ResetFails
  BY <1>2 DEF Reset, ResetFails
<1>3. CASE ResetDone
  BY <1>3 DEF ResetDone, InitDrive, Ready, Busy, Empty, Selected
<1>4. CASE Issue \/ SpinUp
  BY <1>4 DEF Issue, SpinUp, Then
<1>5. CASE Identified
  BY <1>5 DEF Identified, Described, Then, InitDrive, Target
<1>6. CASE NotIdentified
  <2>1. pc \in Looking /\ pc' = "probe" /\ UNCHANGED <<present, controller, exists, unit, index>>
    BY <1>6 DEF NotIdentified
  <2>2. unit = 0 => Target = index /\ Drive(controller, 0) = index
    BY <2>1 DEF Target
  <2>3. ~fault' => Target \notin present \/ Empty(controller)
    BY <1>6 DEF NotIdentified, TimesOut
  <2>4. (unit = 0 /\ ~fault') => index \notin present
    BY <2>2, <2>3 DEF Empty
  <2> QED BY <2>1, <2>4
<1>7. CASE PowerUp
  BY <1>7 DEF PowerUp, Described, InitDrive, Target
<1>8. CASE \/ \E p \in Partitions : PartitionSet(p)
           \/ \E r \in Reads : PartitionRead(r)
  BY <1>8 DEF PartitionSet, PartitionRead, Loop
<1>9. CASE ReadCached \/ ReadSector \/ ReadDone \/ ReadFails
  BY <1>9 DEF ReadCached, ReadSector, ReadDone, ReadFails, Delivers, Loop
<1>10. CASE DiskClose \/ Closed \/ AbortKey
  BY <1>10 DEF DiskClose, Closed, AbortKey
<1>11. CASE UNCHANGED vars \/ \E d \in Drives : DriveReady(d)
  BY <1>11 DEF vars, DriveReady
<1> QED BY <1>1, <1>2, <1>3, <1>4, <1>5, <1>6, <1>7, <1>8, <1>9, <1>10, <1>11 DEF Next

(* Masters passed.                                                         *)
LEMMA PassedStep == IInv /\ [Next]_vars => PassedInv'
<1> SUFFICES ASSUME IInv, [Next]_vars PROVE PassedInv'
  OBVIOUS
<1> USE DEF IInv, Inv1, TypeInv, ProbeInv, PassedInv, Masters, Picked,
            Drives, world, hw, info, cache, part, past
<1>1. CASE DiskOpen
  BY <1>1 DEF DiskOpen
<1>2. CASE Pick
  <2>1. CASE Exists
    BY <1>2, <2>1 DEF Pick
  <2>2. CASE ~Exists
    <3>1. index' = index + 1 /\ UNCHANGED <<fault, present>>
      BY <1>2, <2>2 DEF Pick, NextIndex
    <3>2. ~fault => index \notin Masters
      BY <1>2, <2>2 DEF Pick, Exists, ExistsInv
    <3>3. \A d \in Masters : d \in Int
      OBVIOUS
    <3> QED BY <3>1, <3>2, <3>3
  <2> QED BY <2>1, <2>2
<1>3. CASE ResetFails
  <2>1. ~fault' => ~fault /\ Empty(controller)
    BY <1>3 DEF ResetFails, TimesOut
  <2>2. index' = index + 1 /\ present' = present
    BY <1>3 DEF ResetFails, NextIndex
  <2>3. Drive(controller, 0) = index
    BY <1>3 DEF ResetFails, Drive
  <2>4. ~fault' => index \notin present
    BY <2>1, <2>3 DEF Empty
  <2>5. \A d \in Masters : d \in Int
    OBVIOUS
  <2> QED BY <2>1, <2>2, <2>4, <2>5
<1>4. CASE Probe \/ ProbeFails \/ Reset \/ ResetDone
  BY <1>4 DEF Probe, ProbeFails, Reset, ResetDone
<1>5. CASE Issue \/ Identified \/ NotIdentified \/ SpinUp \/ PowerUp
  BY <1>5 DEF Issue, Identified, NotIdentified, SpinUp, PowerUp, TimesOut
<1>6. CASE \/ \E p \in Partitions : PartitionSet(p)
           \/ \E r \in Reads : PartitionRead(r)
  BY <1>6 DEF PartitionSet, PartitionRead
<1>7. CASE ReadCached \/ ReadSector \/ ReadDone \/ ReadFails
  BY <1>7 DEF ReadCached, ReadSector, ReadDone, ReadFails, TimesOut
<1>8. CASE DiskClose \/ Closed \/ AbortKey
  BY <1>8 DEF DiskClose, Closed, AbortKey, TimesOut
<1>9. CASE UNCHANGED vars \/ \E d \in Drives : DriveReady(d)
  BY <1>9 DEF vars, DriveReady
<1> QED BY <1>1, <1>2, <1>3, <1>4, <1>5, <1>6, <1>7, <1>8, <1>9 DEF Next

(* Commands and busy drives.                                               *)
LEMMA BusyStep == IInv /\ [Next]_vars => BusyInv'
<1> SUFFICES ASSUME IInv, [Next]_vars PROVE BusyInv'
  OBVIOUS
<1> USE DEF IInv, Inv1, TypeInv, ProbeInv, OpenInv, BusyInv, Settled, Waiting, Probing, Looking,
            Transfer, Picked, Drive, Channels, world, hw, info, cache, part, past
<1>1. CASE Issue
  <2>1. Selected \notin bsy
    BY <1>1 DEF Issue, MayIssue, Ready, Busy, Empty, Selected
  <2>2. (unpowered = {}) => Target \notin bsy
    <3>1. CASE pc \in Looking
      BY <2>1, <3>1 DEF Target, Selected
    <3>2. CASE pc = "read"
      BY <2>1, <3>2 DEF Target, Selected
    <3> QED BY <1>1, <3>1, <3>2 DEF Issue
  <2>3. unpowered = {} => ~clash'
    BY <1>1, <2>2 DEF Issue
  <2>4. unpowered = {} /\ Drive(controller, 0) \in bsy' => Target % 2 = 0
    BY <1>1, <2>1 DEF Issue, Target, Selected
  <2>5. /\ UNCHANGED <<controller, unpowered, pc, disable, exists>>
        /\ sel' = [sel EXCEPT ![controller] = Target % 2]
    BY <1>1 DEF Issue
  <2> QED BY <2>3, <2>4, <2>5
<1>2. CASE ResetDone
  BY <1>2 DEF ResetDone, InitDrive
<1>3. CASE Identified
  BY <1>3 DEF Identified, Described, Then, InitDrive, Answered, Ready, Busy, Empty, Selected
<1>4. CASE PowerUp
  <2>1. CASE unpowered' # {}
    BY <2>1
  <2>2. CASE Answered /\ unpowered' = unpowered
    BY <1>4, <2>2 DEF PowerUp, Described, InitDrive, Answered, Ready, Busy, Empty, Selected
  <2> QED BY <1>4, <2>1, <2>2 DEF PowerUp
<1>5. CASE NotIdentified \/ SpinUp
  BY <1>5 DEF NotIdentified, SpinUp, Then
<1>6. CASE DiskOpen \/ Probe \/ ProbeFails \/ ResetFails \/ Reset
  BY <1>6 DEF DiskOpen, Probe, ProbeFails, ResetFails, Reset, NextIndex
<1>7. CASE Pick
  BY <1>7 DEF Pick, NextIndex, Exists
<1>8. CASE \/ \E p \in Partitions : PartitionSet(p)
           \/ \E r \in Reads : PartitionRead(r)
  BY <1>8 DEF PartitionSet, PartitionRead, Loop
<1>9. CASE ReadCached \/ ReadSector \/ ReadDone \/ ReadFails
  BY <1>9 DEF ReadCached, ReadSector, ReadDone, ReadFails, Delivers, Loop
<1>10. CASE DiskClose \/ Closed \/ AbortKey
  BY <1>10 DEF DiskClose, Closed, AbortKey
<1>11. CASE UNCHANGED vars \/ \E d \in Drives : DriveReady(d)
  BY <1>11 DEF vars, DriveReady
<1> QED BY <1>1, <1>2, <1>3, <1>4, <1>5, <1>6, <1>7, <1>8, <1>9, <1>10, <1>11 DEF Next

(* partition_read() under way.                                             *)
LEMMA ReadStep == IInv /\ [Next]_vars => ReadInv'
<1> SUFFICES ASSUME IInv, [Next]_vars PROVE ReadInv'
  OBVIOUS
<1> USE DEF IInv, Inv1, TypeInv, ProbeInv, OpenInv, ReadInv, Looking, Transfer,
            world, hw, info, cache, part, past
<1>1. ASSUME NEW r \in Reads, PartitionRead(r) PROVE ReadInv'
  BY <1>1, CallsAssumption DEF PartitionRead, InPartition, Loop
<1>2. CASE ReadCached \/ ReadDone
  BY <1>2 DEF ReadCached, ReadDone, Delivers, Loop
<1>3. CASE ReadSector
  <2>1. index \in Drives /\ ~bytes'
    BY <1>3 DEF ReadSector, EmptyCache, Drives
  <2> QED BY <1>3, <2>1, GeometryAssumption DEF ReadSector, PastEnd
<1>4. CASE Issue
  <2>1. asleep' = asleep
    BY <1>4 DEF Issue, Obeys, Command
  <2> QED BY <1>4, <2>1 DEF Issue
<1>5. CASE DiskOpen \/ Probe \/ Pick \/ ProbeFails \/ Reset \/ ResetDone \/ ResetFails
  BY <1>5 DEF DiskOpen, Probe, Pick, ProbeFails, Reset, ResetDone, ResetFails, InitDrive
<1>6. CASE Identified \/ NotIdentified \/ SpinUp \/ PowerUp
  BY <1>6 DEF Identified, NotIdentified, SpinUp, PowerUp, Described, Then, InitDrive
<1>7. CASE \/ \E p \in Partitions : PartitionSet(p)
           \/ ReadFails \/ DiskClose \/ Closed \/ AbortKey
  BY <1>7 DEF PartitionSet, ReadFails, DiskClose, Closed, AbortKey
<1>8. CASE UNCHANGED vars \/ \E d \in Drives : DriveReady(d)
  BY <1>8 DEF vars, DriveReady
<1> QED BY <1>1, <1>2, <1>3, <1>4, <1>5, <1>6, <1>7, <1>8 DEF Next

(* The sector read, and where it is.                                       *)
LEMMA ReadDoneExact ==
  ASSUME IInv, ReadDone
  PROVE  /\ buffer' = <<index, req.sector>> /\ sector' = req.sector /\ index' = index
         /\ out' = [want |-> <<index, req.sector>>, got |-> <<index, req.sector>>]
<1> USE DEF IInv, Inv1, TypeInv, OpenInv, ReadInv, Transfer
<1>1. Target = index /\ index \in Drives
  BY DEF ReadDone, Target, Drive, Drives
<1>2. req.sector <= Sectors[index]
  BY <1>1 DEF ReadDone
<1>3. SectorAt(index, Address(index, req.sector)) = req.sector
  BY <1>1, <1>2, AddressFindsSector
<1> QED BY <1>1, <1>3 DEF ReadDone, Delivers

(* What is handed over.                                                    *)
LEMMA OutStep == IInv /\ [Next]_vars => OutInv'
<1> SUFFICES ASSUME IInv, [Next]_vars PROVE OutInv'
  OBVIOUS
<1> USE DEF IInv, OutInv, world, hw, info, cache, part, past
<1>1. (pc \in Transfer) => req.sector \in start..(start + size - 1)
  BY DEF Inv1, TypeInv, ReadInv
<1>2. CASE ReadDone
  BY <1>1, <1>2, ReadDoneExact DEF ReadDone, Transfer
<1>3. CASE ReadCached
  <2>1. buffer = <<index, req.sector>>
    BY <1>3 DEF ReadCached, Cached, CacheTruthful, Inv1, OpenInv, Transfer
  <2>2. out' = [want |-> <<index, req.sector>>, got |-> <<index, req.sector>>]
        /\ UNCHANGED part
    BY <1>3, <2>1 DEF ReadCached, Delivers
  <2> QED BY <1>1, <1>3, <2>2 DEF ReadCached, Transfer
<1>4. CASE DiskOpen \/ \E r \in Reads : PartitionRead(r)
  BY <1>4 DEF DiskOpen, PartitionRead, Loop
<1>5. CASE Probe \/ Pick \/ ProbeFails \/ Reset \/ ResetDone \/ ResetFails
  BY <1>5 DEF Probe, Pick, ProbeFails, Reset, ResetDone, ResetFails, InitDrive
<1>6. CASE Issue \/ Identified \/ NotIdentified \/ SpinUp \/ PowerUp
  BY <1>6 DEF Issue, Identified, NotIdentified, SpinUp, PowerUp, Described, Then, InitDrive
<1>7. CASE \/ \E p \in Partitions : PartitionSet(p)
           \/ ReadSector \/ ReadFails \/ DiskClose \/ Closed \/ AbortKey
  BY <1>7 DEF PartitionSet, ReadSector, ReadFails, DiskClose, Closed, AbortKey
<1>8. CASE UNCHANGED vars \/ \E d \in Drives : DriveReady(d)
  BY <1>8 DEF vars, DriveReady
<1> QED BY <1>2, <1>3, <1>4, <1>5, <1>6, <1>7, <1>8 DEF Next

(* The cache.                                                              *)
LEMMA CacheStep == IInv /\ [Next]_vars => CacheTruthful'
<1> SUFFICES ASSUME IInv, [Next]_vars PROVE CacheTruthful'
  OBVIOUS
<1> USE DEF IInv, Inv1, ProbeInv, OpenInv, CacheTruthful, Probing, Looking,
            world, hw, info, cache, part, past
<1>1. CASE ReadDone
  BY <1>1, ReadDoneExact
<1>2. CASE ReadSector \/ ReadFails
  BY <1>2 DEF ReadSector, EmptyCache, ReadFails, ReadInv
<1>3. CASE DiskOpen \/ Probe \/ Pick \/ ProbeFails \/ Reset \/ ResetDone \/ ResetFails
  BY <1>3 DEF DiskOpen, Probe, Pick, ProbeFails, Reset, ResetDone, ResetFails
<1>4. CASE Issue \/ Identified \/ NotIdentified \/ SpinUp \/ PowerUp
  BY <1>4 DEF Issue, Identified, NotIdentified, SpinUp, PowerUp
<1>5. CASE \/ \E p \in Partitions : PartitionSet(p)
           \/ \E r \in Reads : PartitionRead(r)
  BY <1>5 DEF PartitionSet, PartitionRead
<1>6. CASE ReadCached \/ DiskClose \/ Closed \/ AbortKey
  BY <1>6 DEF ReadCached, DiskClose, Closed, AbortKey
<1>7. CASE UNCHANGED vars \/ \E d \in Drives : DriveReady(d)
  BY <1>7 DEF vars, DriveReady
<1> QED BY <1>1, <1>2, <1>3, <1>4, <1>5, <1>6, <1>7 DEF Next

(* Short reads.                                                            *)
LEMMA ShortStep == IInv /\ [Next]_vars => ShortOnlyIfFaulty'
<1> SUFFICES ASSUME IInv, [Next]_vars PROVE ShortOnlyIfFaulty'
  OBVIOUS
<1> USE DEF IInv, Inv1, TypeInv, ProbeInv, OpenInv, ReadInv, ShortOnlyIfFaulty, Probing, Looking,
            Transfer, world, hw, info, cache, part, past
<1>1. CASE ReadSector
  <2>1. index \in Drives /\ Sectors[index] \in Nat
    BY <1>1, GeometryAssumption DEF ReadSector, Drives
  <2>2. UNCHANGED <<req, index, asleep, fault, disable>> /\ req.sector \in Nat
    BY <1>1 DEF ReadSector
  <2>3. CASE short' = short
    BY <1>1, <2>2, <2>3 DEF ReadSector
  <2>4. CASE PastEnd(req.sector, index) \/ index \in asleep
    BY <2>1, <2>2, <2>4 DEF PastEnd
  <2> QED BY <1>1, <2>3, <2>4 DEF ReadSector
<1>2. CASE ReadFails
  <2>1. Target = index /\ index \in Drives /\ ~Empty(controller)
    BY <1>2 DEF ReadFails, Target, Drive, Drives, Empty
  <2>2. Sectors[index] \in Nat /\ req.sector \in Nat
    BY <2>1, GeometryAssumption
  <2>3. fault' \/ index \in asleep \/ ~(req.sector < Sectors[index])
    BY <1>2, <2>1 DEF ReadFails, TimesOut
  <2> QED BY <1>2, <2>2, <2>3 DEF ReadFails
<1>3. ASSUME UNCHANGED <<short, disable, index, asleep, req>>, fault' = fault \/ fault' = TRUE
      PROVE  ShortOnlyIfFaulty'
  BY <1>3
<1>4. ASSUME NEW r \in Reads, PartitionRead(r) PROVE ShortOnlyIfFaulty'
  <2>1. CASE InPartition(r)
    BY <1>4, <2>1 DEF PartitionRead
  <2>2. CASE ~InPartition(r)
    BY <1>3, <1>4, <2>2 DEF PartitionRead
  <2> QED BY <2>1, <2>2
<1>5. CASE DiskOpen \/ Pick
  <2>1. ~short'
    BY <1>5 DEF DiskOpen, Pick
  <2> QED BY <2>1
<1>6. CASE Probe \/ ProbeFails \/ ResetDone \/ ResetFails \/ NotIdentified
  <2>1. ~short'
    BY <1>6 DEF Probe, ProbeFails, ResetDone, ResetFails, NotIdentified
  <2> QED BY <1>6, <2>1
<1>7. CASE Issue \/ Identified \/ SpinUp \/ PowerUp
  <2>1. UNCHANGED <<short, disable, index, asleep, req>>
    BY <1>7 DEF Issue, Obeys, Command, Identified, SpinUp, PowerUp
  <2>2. fault' = fault \/ fault' = TRUE
    BY <1>7 DEF Issue, Identified, SpinUp, PowerUp, TimesOut
  <2> QED BY <1>3, <2>1, <2>2
<1>8. CASE ReadCached \/ ReadDone
  <2>1. ~short'
    BY <1>8 DEF ReadCached, ReadDone
  <2> QED BY <2>1
<1>9. CASE Closed
  <2>1. ~disable'
    BY <1>9 DEF Closed
  <2> QED BY <2>1
<1>10. CASE \/ \E p \in Partitions : PartitionSet(p)
            \/ Reset \/ DiskClose \/ AbortKey \/ \E d \in Drives : DriveReady(d)
  BY <1>3, <1>10 DEF PartitionSet, Reset, DiskClose, AbortKey, DriveReady
<1>11. CASE UNCHANGED vars
  BY <1>3, <1>11 DEF vars
<1> QED BY <1>1, <1>2, <1>4, <1>5, <1>6, <1>7, <1>8, <1>9, <1>10, <1>11 DEF Next

-----------------------------------------------------------------------------
LEMMA InitEstablishes == Init => IInv
<1> SUFFICES ASSUME Init PROVE IInv
  OBVIOUS
<1>1. TypeInv
  <2>1. present \subseteq Drives /\ sel \in [Channels -> {0, 1}] /\ controller \in Channels
    BY CallsAssumption DEF Init, Channels
  <2>2. index \in 0..4 /\ req \in [sector : Nat, left : Int] /\ start \in Nat /\ size \in Nat
    BY DEF Init
  <2> QED BY <2>1, <2>2 DEF Init, TypeInv
<1>2. ProbeInv /\ OpenInv /\ ExistsInv
  BY DEF Init, ProbeInv, OpenInv, ExistsInv, Probing, Looking, Transfer, Picked
<1>3. PassedInv
  BY <1>1 DEF Init, PassedInv, Masters, TypeInv, Drives
<1>4. BusyInv /\ ReadInv /\ OutInv /\ CacheTruthful /\ ShortOnlyIfFaulty
  BY DEF Init, BusyInv, Settled, Waiting, Picked, ReadInv, Transfer, OutInv, CacheTruthful,
         ShortOnlyIfFaulty
<1> QED BY <1>1, <1>2, <1>3, <1>4 DEF IInv, Inv1

LEMMA NextPreserves == IInv /\ [Next]_vars => IInv'
  BY TypeStep, ProbeStep, OpenStep, ExistsStep, PassedStep, BusyStep, ReadStep, OutStep,
     CacheStep, ShortStep DEF IInv, Inv1

(* Where the calls of disk.c, partition.c and ide_disk.c stand says what   *)
(* the drives, the cache and drive_exists are: the invariant that          *)
(* everything here rests on.                                               *)
THEOREM Invariance == Spec => []IInv
  BY InitEstablishes, NextPreserves, PTL DEF Spec

(* partition_read() (partition.c) hands over the very sectors asked for,   *)
(* from inside the partition and of the first master there is, through the *)
(* one-sector cache of disk.c and all three address formats of             *)
(* ide_set_sector(); the cache never names what the buffer does not hold.  *)
THEOREM SectorsRight == Spec => []RightSector
<1>1. IInv => RightSector
  <2>1. IInv => OpensFirstDrive
    <3> SUFFICES ASSUME IInv, ~fault PROVE
                   /\ disable => index \in Masters /\ \A d \in Masters : index <= d
                   /\ index = 4 => Masters = {}
      BY DEF OpensFirstDrive
    <3>1. \A d \in Masters : index <= d /\ d \in 0..3
      BY DEF IInv, Inv1, TypeInv, PassedInv, Masters, Drives
    <3>2. disable => index \in Masters
      BY DEF IInv, Inv1, OpenInv, Masters
    <3>3. index = 4 => Masters = {}
      BY <3>1
    <3> QED BY <3>1, <3>2, <3>3
  <2> QED BY <2>1 DEF IInv, OutInv, RightSector
<1> QED BY <1>1, Invariance, PTL

(* ide_disk.c writes a command only to a drive that is not busy, unless a  *)
(* master could not be powered up.                                         *)
THEOREM CommandsWait == Spec => []NoCommandWhileBusy
<1>1. IInv => NoCommandWhileBusy
  BY DEF IInv, BusyInv, NoCommandWhileBusy
<1> QED BY <1>1, Invariance, PTL

(* partition_read() falls short only for a drive that fails or sleeps, or  *)
(* a sector behind the end of the drive.                                   *)
THEOREM ShortForCause == Spec => []ShortOnlyIfFaulty
<1>1. IInv => ShortOnlyIfFaulty
  BY DEF IInv
<1> QED BY <1>1, Invariance, PTL

-----------------------------------------------------------------------------
(* The partition table read from the disk (Gpt).                           *)

LEMMA ModOfLess ==
  ASSUME NEW a \in Nat, NEW b \in Nat, a < b
  PROVE  a % b = a
  OBVIOUS

LEMMA HeaderFields ==
  ASSUME Disks, image \in Images, NEW l \in 0..LastLba
  PROVE  /\ image.header[l].num \in Nat /\ image.header[l].size \in Nat
         /\ image.header[l].array \in Seq(GptEntry)
         /\ image.header[l] \in GptHeader
  BY DEF Disks, GptHeader

(* Of an ordinary table as many slots are read as it has entries.          *)
LEMMA CountOrdinary ==
  ASSUME TableSizes, NEW h, h.num \in Nat, Ordinary(h)
  PROVE  Count(h) = h.num /\ Capped(Count(h)) = h.num
<1>1. h.size = 1 /\ h.num <= MaxPtes /\ h.num < CountModulus /\ CountModulus \in Nat
  BY DEF TableSizes, Ordinary
<1>2. h.num * h.size = h.num
  BY <1>1
<1>3. Count(h) = h.num
  BY <1>1, <1>2, ModOfLess DEF Count
<1> QED BY <1>1, <1>3 DEF Capped, TableSizes

LEMMA CappedAtSlots ==
  ASSUME TableSizes, NEW n \in Int
  PROVE  Capped(n) \in Int /\ Capped(n) <= MaxPtes
  BY DEF Capped, TableSizes

(* read_gpt_entries() stays inside the array.                              *)
LEMMA FilledInside ==
  ASSUME TableSizes, NEW h, NEW n \in Int, n <= MaxPtes, NEW got
  PROVE  DOMAIN Filled(h, n, got) = PteSlots
<1>1. PteSlots \cup 1..n = PteSlots
  BY DEF PteSlots, TableSizes
<1> QED BY <1>1 DEF Filled

LEMMA PartitionListed ==
  ASSUME TableSizes, NEW e \in GptEntry
  PROVE  PartitionOf(e) \in Listed
<1>1. e.start \in Nat /\ e.end \in Nat /\ Modulus \in Nat /\ Modulus > 0
  BY DEF GptEntry, TableSizes
<1>2. (e.end - e.start + 1) % Modulus \in Int
  BY <1>1
<1> QED BY <1>1, <1>2 DEF PartitionOf, Listed

LEMMA NothingListed ==
  ASSUME NEW array
  PROVE  Lists(<<>>, array, 0)
<1>1. ValidEntries(array, 0) = {} /\ Len(<<>>) = 0
  BY DEF ValidEntries
<1>2. [k \in 1..Len(<<>>) |-> 0] \in [1..Len(<<>>) -> ValidEntries(array, 0)]
  BY <1>1
<1> QED BY <1>1, <1>2 DEF Lists

(* What the loop tests is what makes an entry valid.                       *)
LEMMA ValidIs ==
  ASSUME TableSizes, NEW array \in Seq(GptEntry), NEW n \in Nat, n + 1 <= Len(array)
  PROVE  /\ ValidEntries(array, n) \subseteq 1..n
         /\ is_pte_valid(array[n + 1]) =>
              ValidEntries(array, n + 1) = ValidEntries(array, n) \cup {n + 1}
         /\ ~is_pte_valid(array[n + 1]) =>
              ValidEntries(array, n + 1) = ValidEntries(array, n)
<1>1. array[n + 1] \in GptEntry
  OBVIOUS
<1>2. is_pte_valid(array[n + 1]) <=>
        array[n + 1].used /\ {array[n + 1].start, array[n + 1].end} \subseteq 0..LastLba
  BY <1>1 DEF is_pte_valid, GptEntry, TableSizes
<1>3. 1..(n + 1) = 1..n \cup {n + 1}
  OBVIOUS
<1> QED BY <1>2, <1>3 DEF ValidEntries

LEMMA ListsNext ==
  ASSUME TableSizes, NEW array \in Seq(GptEntry), NEW n \in Nat, n + 1 <= Len(array),
         NEW list \in Seq(Listed), Lists(list, array, n)
  PROVE  LET e == array[n + 1]
             longer == IF is_pte_valid(e) THEN Append(list, PartitionOf(e)) ELSE list
         IN  longer \in Seq(Listed) /\ Lists(longer, array, n + 1)
<1> DEFINE e == array[n + 1]
           one == PartitionOf(e)
<1>1. CASE ~is_pte_valid(e)
  <2>1. ValidEntries(array, n + 1) = ValidEntries(array, n)
    BY <1>1, ValidIs
  <2> QED BY <1>1, <2>1 DEF Lists
<1>2. CASE is_pte_valid(e)
  <2>1. one \in Listed
    BY PartitionListed
  <2> HIDE DEF one
  <2> DEFINE longer == Append(list, one)
             valid == ValidEntries(array, n)
             more == ValidEntries(array, n + 1)
  <2>2. more = valid \cup {n + 1} /\ valid \subseteq 1..n
    BY <1>2, ValidIs
  <2>3. /\ longer \in Seq(Listed) /\ Len(longer) = Len(list) + 1 /\ Len(list) \in Nat
        /\ \A k \in 1..Len(list) : longer[k] = list[k]
        /\ longer[Len(list) + 1] = one
    BY <2>1
  <2> HIDE DEF longer, valid, more
  <2>4. PICK f \in [1..Len(list) -> valid] :
          /\ \A k, l \in 1..Len(list) : k < l => f[k] < f[l]
          /\ \A v \in valid : \E k \in 1..Len(list) : f[k] = v
          /\ \A k \in 1..Len(list) : list[k] = PartitionOf(array[f[k]])
    BY DEF Lists, valid
  <2> DEFINE g == [k \in 1..Len(longer) |-> IF k = Len(longer) THEN n + 1 ELSE f[k]]
  <2>5. g \in [1..Len(longer) -> more]
    BY <2>2, <2>3, <2>4
  <2>6. ASSUME NEW k \in 1..Len(longer), NEW l \in 1..Len(longer), k < l
        PROVE  g[k] < g[l]
    <3>0. k \in 1..Len(list) /\ k # Len(longer)
      BY <2>3, <2>6
    <3>1. k \in 1..Len(list) /\ g[k] = f[k] /\ f[k] \in 1..n
      BY <2>2, <2>4, <3>0
    <3>2. CASE l = Len(longer)
      BY <3>1, <3>2
    <3>3. CASE l # Len(longer)
      <4>1. l \in 1..Len(list) /\ g[l] = f[l]
        BY <2>3, <3>3
      <4> QED BY <2>4, <2>6, <3>1, <4>1
    <3> QED BY <3>2, <3>3
  <2>7. ASSUME NEW v \in more
        PROVE  \E k \in 1..Len(longer) : g[k] = v
    <3>1. CASE v = n + 1
      BY <2>3, <3>1
    <3>2. CASE v \in valid
      <4>1. PICK k \in 1..Len(list) : f[k] = v
        BY <2>4, <3>2
      <4>2. k \in 1..Len(longer) /\ g[k] = v
        BY <2>3, <4>1
      <4> QED BY <4>2
    <3> QED BY <2>2, <3>1, <3>2
  <2>8. ASSUME NEW k \in 1..Len(longer)
        PROVE  longer[k] = PartitionOf(array[g[k]])
    <3>1. CASE k = Len(longer)
      BY <2>3, <3>1 DEF one
    <3>2. CASE k # Len(longer)
      <4>1. k \in 1..Len(list) /\ g[k] = f[k] /\ longer[k] = list[k]
        BY <2>3, <3>2
      <4> QED BY <2>4, <4>1
    <3> QED BY <3>1, <3>2
  <2> HIDE DEF g
  <2>9. Lists(longer, array, n + 1)
    BY <2>5, <2>6, <2>7, <2>8 DEF Lists, more
  <2> QED BY <1>2, <2>3, <2>9 DEF longer, one
<1> QED BY <1>1, <1>2

(* What decides about the outcome while the table is examined.             *)
TableSound == image.pmbr /\ WellFormed(1)

LEMMA TableInit ==
  ASSUME TableSizes, GptInit
  PROVE  GptInv
  BY DEF GptInit, NoTableYet, GptInv, GptTypes, OrderInv, VouchedInv, ListInv,
     FailsOnlyForCause, Copies, PteSlots, ZeroHeader, GptHeader

LEMMA TableFindPartitions ==
  ASSUME GptInv, FindPartitions
  PROVE  GptInv'
  BY DEF FindPartitions, GptInv, GptTypes, OrderInv, VouchedInv,
     ListInv, FailsOnlyForCause, Copies, tables

LEMMA TableReadMbr ==
  ASSUME GptInv, ReadMbr
  PROVE  GptInv'
<1>1. /\ table_pc = "mbr" /\ found = "none" /\ good = {} /\ entry = 0 /\ partitions = <<>>
      /\ UNCHANGED <<image, header, ptes, good, entry, partitions>>
      /\ \/ /\ table_pc' = "header" /\ copy' = "primary" /\ lba' = 1 /\ found' = "none"
         \/ /\ table_pc' = "idle" /\ found' = "fail" /\ UNCHANGED <<copy, lba>>
            /\ ioerr' \/ ~image.pmbr
  BY DEF ReadMbr, Examine, Return, tables, GptInv, GptTypes,
     OrderInv
<1>2. FailsOnlyForCause'
  BY <1>1 DEF FailsOnlyForCause
<1>3. GptTypes' /\ OrderInv' /\ VouchedInv' /\ ListInv'
  BY <1>1 DEF GptInv, GptTypes, OrderInv, VouchedInv, ListInv,
     Copies
<1> QED BY <1>2, <1>3 DEF GptInv

(* is_gpt_valid() returns.                                                 *)
LEMMA VerdictIs ==
  ASSUME NEW v \in BOOLEAN, GptInv, table_pc \in {"header", "entries"}, Verdict(v)
  PROVE  \/ /\ copy = "primary" /\ v /\ good' = good \cup {"primary"} /\ table_pc' = "header"
            /\ copy' = "alternate" /\ found' = found /\ lba' \in Nat
         \/ /\ copy = "alternate" /\ "primary" \in good /\ "primary" \in good' /\ good' \subseteq Copies
            /\ table_pc' = "scan" /\ copy' = "primary" /\ found' = found /\ lba' \in Nat
         \/ /\ copy = "primary" /\ ~v /\ good' = good /\ table_pc' = "idle" /\ found' = "fail"
            /\ copy' = copy /\ lba' \in Nat
<1>1. /\ copy \in {"primary", "alternate"} /\ good \subseteq {"primary", "alternate"} /\ lba \in Nat
      /\ header["primary"].alternate_lba \in Nat
  BY DEF GptInv, GptTypes, Copies, GptHeader
<1>2. copy = "alternate" => "primary" \in good
  BY <1>1 DEF GptInv, OrderInv
<1>3. CASE copy = "primary" /\ v
  BY <1>1, <1>3 DEF Verdict, Examine
<1>4. CASE copy = "alternate"
  BY <1>1, <1>2, <1>4 DEF Verdict, Use, Copies
<1>5. CASE copy = "primary" /\ ~v
  BY <1>1, <1>5 DEF Verdict, Return
<1> QED BY <1>1, <1>3, <1>4, <1>5

(* It keeps the invariant, if what it finds valid is what was vouched for, *)
(* and if it finds nothing amiss with a sound table.                       *)
LEMMA VerdictKeeps ==
  ASSUME NEW v \in BOOLEAN, TableSizes, Disks, GptInv, table_pc \in {"header", "entries"},
         Verdict(v),
         UNCHANGED <<image, entry, partitions>>,
         header' \in [Copies -> GptHeader], DOMAIN ptes' = Copies,
         \A c \in Copies : DOMAIN ptes'[c] = PteSlots,
         copy = "alternate" => UNCHANGED <<header["primary"], ptes["primary"]>>,
         copy = "primary" /\ v =>
           /\ 1 <= LastLba /\ header'["primary"] = image.header[1]
           /\ Ordinary(image.header[1]) =>
                [s \in 1..image.header[1].num |-> ptes'["primary"][s]] = image.header[1].array,
         copy = "primary" /\ ~v => (ioerr' \/ ~TableSound)
  PROVE  GptInv'
<1>1. found = "none" /\ entry = 0 /\ partitions = <<>>
  BY DEF GptInv, GptTypes
<1>2. WellFormed(1)' <=> WellFormed(1)
  BY DEF WellFormed, OnDisk
<1>3. CASE /\ copy = "primary" /\ v /\ good' = good \cup {"primary"} /\ table_pc' = "header"
           /\ copy' = "alternate" /\ found' = found /\ lba' \in Nat
  BY <1>1, <1>3 DEF GptInv, GptTypes, OrderInv, VouchedInv, ListInv,
     FailsOnlyForCause, Copies, Ordinary
<1>4. CASE /\ copy = "alternate" /\ "primary" \in good /\ "primary" \in good' /\ good' \subseteq Copies
           /\ table_pc' = "scan" /\ copy' = "primary" /\ found' = found /\ lba' \in Nat
  <2>1. GptTypes' /\ OrderInv' /\ FailsOnlyForCause'
    BY <1>1, <1>4 DEF GptInv, GptTypes, OrderInv, FailsOnlyForCause, Copies
  <2>2. VouchedInv'
    BY <1>4 DEF GptInv, VouchedInv, Ordinary
  <2>3. ListInv'
    <3>1. 1 <= LastLba /\ 1 \in 0..LastLba /\ image \in Images
      BY <1>4 DEF GptInv, GptTypes, VouchedInv, TableSizes
    <3>2. image'.header[1].num \in Nat
      BY <3>1, HeaderFields
    <3>3. partitions' = <<>> /\ entry' = 0 /\ found' = "none"
      BY <1>1, <1>4
    <3>4. Lists(partitions, image.header[1].array, entry)'
      BY <3>3, NothingListed
    <3>5. partitions' \in Seq(Listed)
      BY <3>3
    <3> QED BY <3>2, <3>3, <3>4, <3>5 DEF ListInv
  <2> QED BY <2>1, <2>2, <2>3 DEF GptInv
<1>5. CASE /\ copy = "primary" /\ ~v /\ good' = good /\ table_pc' = "idle" /\ found' = "fail"
           /\ copy' = copy /\ lba' \in Nat
  BY <1>1, <1>2, <1>5 DEF GptInv, GptTypes, OrderInv, VouchedInv, ListInv,
     FailsOnlyForCause, Copies, TableSound
<1> QED BY <1>3, <1>4, <1>5, VerdictIs

LEMMA TableReadHeader ==
  ASSUME TableSizes, Disks, GptInv, ReadHeader
  PROVE  GptInv'
<1>1. PICK ok \in BOOLEAN :
        LET h == IF ok /\ lba <= LastLba THEN image.header[lba] ELSE ZeroHeader IN
          /\ ioerr' = (ioerr \/ ~ok)
          /\ header' = [header EXCEPT ![copy] = h]
          /\ IF HeaderValid(h)
             THEN table_pc' = "entries" /\ UNCHANGED <<copy, lba, good, found>>
             ELSE Verdict(FALSE)
  BY DEF ReadHeader
<1> DEFINE h == IF ok /\ lba <= LastLba THEN image.header[lba] ELSE ZeroHeader
<1>2. table_pc = "header" /\ UNCHANGED <<image, ptes, entry, partitions>>
  BY DEF ReadHeader
<1>3. header' \in [Copies -> GptHeader] /\ DOMAIN ptes' = Copies
      /\ (\A c \in Copies : DOMAIN ptes'[c] = PteSlots)
  <2>1. ZeroHeader \in GptHeader
    BY DEF ZeroHeader, GptHeader, GptEntry
  <2>2. h \in GptHeader
    BY <2>1, HeaderFields DEF GptInv, GptTypes, TableSizes
  <2> HIDE DEF h
  <2> QED BY <1>1, <1>2, <2>2 DEF GptInv, GptTypes, h
<1>4. copy = "alternate" => UNCHANGED <<header["primary"], ptes["primary"]>>
  BY <1>1, <1>2 DEF GptInv, GptTypes, Copies
<1>5. copy = "primary" => lba = 1 /\ header'["primary"] = h
  BY <1>1, <1>2 DEF GptInv, GptTypes, OrderInv, Copies
<1>6. CASE HeaderValid(h)
  <2>1. h.sig /\ ok /\ lba <= LastLba
    BY <1>6 DEF HeaderValid, ZeroHeader
  <2>2. table_pc' = "entries" /\ UNCHANGED <<copy, lba, good, found>>
    BY <1>1, <1>6
  <2>3. copy = "primary" => 1 <= LastLba /\ header'["primary"] = image.header[1]
    BY <1>5, <2>1
  <2> HIDE DEF h
  <2>4. GptTypes' /\ OrderInv' /\ ListInv' /\ FailsOnlyForCause'
    BY <1>2, <1>3, <2>2 DEF GptInv, GptTypes, OrderInv, ListInv,
       FailsOnlyForCause, Copies, Ordinary
  <2>5. VouchedInv'
    BY <1>2, <1>4, <2>2, <2>3 DEF GptInv, GptTypes, OrderInv, VouchedInv,
       Copies, Ordinary
  <2> QED BY <2>4, <2>5 DEF GptInv
<1>7. CASE ~HeaderValid(h)
  <2>1. Verdict(FALSE)
    BY <1>1, <1>7
  <2>2. copy = "primary" => (ioerr' \/ ~TableSound)
    <3> SUFFICES ASSUME copy = "primary", ~ioerr', TableSound
                 PROVE  FALSE
      OBVIOUS
    <3>1. ok /\ lba = 1 /\ lba <= LastLba
      BY <1>1, <1>5 DEF TableSound, WellFormed
    <3>2. h = image.header[1]
      BY <3>1
    <3>3. HeaderValid(h)
      BY <3>1, <3>2 DEF TableSound, WellFormed, HeaderValid, InDisk, TableSizes
    <3> QED BY <1>7, <3>3
  <2> HIDE DEF h
  <2> QED BY <1>2, <1>3, <1>4, <2>1, <2>2, VerdictKeeps
<1> QED BY <1>6, <1>7

(* What read_gpt_entries() and the CRC make of the primary's array.        *)
LEMMA MatchVouches ==
  ASSUME TableSizes, NEW h, h.num \in Nat, Ordinary(h), NEW array,
         TRUE \in CrcMatches(h, array)
  PROVE  [s \in 1..h.num |-> array[s]] = h.array
<1>1. Count(h) = h.num /\ h.num <= MaxPtes
  BY CountOrdinary DEF Ordinary
<1> QED BY <1>1 DEF CrcMatches

LEMMA SoundMatches ==
  ASSUME TableSizes, NEW h, h.num \in Nat, Ordinary(h),
         [s \in 1..h.num |-> OnDisk(h.entry_lba, s)] = h.array
  PROVE  FALSE \notin CrcMatches(h, Filled(h, h.num, h.num))
<1>1. Count(h) = h.num /\ h.num <= MaxPtes
  BY CountOrdinary DEF Ordinary
<1> DEFINE array == Filled(h, h.num, h.num)
<1>2. \A s \in 1..h.num : array[s] = OnDisk(h.entry_lba, s)
  BY DEF Filled
<1> HIDE DEF array
<1>3. [s \in 1..h.num |-> array[s]] = h.array
  BY <1>2
<1> QED BY <1>1, <1>3 DEF CrcMatches, array

LEMMA TableReadEntries ==
  ASSUME TableSizes, Disks, GptInv, ReadEntries
  PROVE  GptInv'
<1> DEFINE h == header[copy]
           n == Capped(Count(h))
<1>1. /\ table_pc = "entries" /\ UNCHANGED <<image, entry, partitions>>
      /\ copy \in Copies /\ header \in [Copies -> GptHeader] /\ DOMAIN ptes = Copies
      /\ \A c \in Copies : DOMAIN ptes[c] = PteSlots
  BY DEF ReadEntries, GptInv, GptTypes
<1>2. copy = "primary" => h = image.header[1] /\ 1 <= LastLba /\ h.num \in Nat
  <2>1. copy = "primary" => h = image.header[1] /\ 1 <= LastLba /\ image \in Images /\ 1 \in 0..LastLba
    BY <1>1 DEF GptInv, GptTypes, VouchedInv, TableSizes
  <2> QED BY <2>1, HeaderFields
<1>3. copy = "primary" /\ TableSound =>
        /\ Ordinary(h) /\ n = h.num /\ n # 0 /\ Readable(h, n)
        /\ [s \in 1..h.num |-> OnDisk(h.entry_lba, s)] = h.array
  BY <1>2, CountOrdinary DEF TableSound, WellFormed
<1>4. header' = header /\
      \/ /\ n # 0
         /\ ptes' = [ptes EXCEPT ![copy] = Filled(h, n, n)]
         /\ \E match \in CrcMatches(h, ptes'[copy]) : Verdict(match)
      \/ n = 0 /\ Verdict(FALSE) /\ ptes' = ptes
      \/ /\ n # 0 /\ Verdict(FALSE) /\ (ioerr' \/ ~Readable(h, n))
         /\ \E got : ptes' = [ptes EXCEPT ![copy] = Filled(h, n, got)]
  BY DEF ReadEntries, tables
<1>5. n \in Int /\ n <= MaxPtes
  <2>1. h.num \in Nat /\ h.size \in Nat
    BY <1>1 DEF GptHeader
  <2>2. Count(h) \in Int
    BY <2>1 DEF Count, TableSizes
  <2> QED BY <2>2, CappedAtSlots
<1> HIDE DEF h, n
<1>6. CASE /\ n # 0
           /\ ptes' = [ptes EXCEPT ![copy] = Filled(h, n, n)]
           /\ \E match \in CrcMatches(h, ptes'[copy]) : Verdict(match)
  <2>1. PICK match \in CrcMatches(h, ptes'[copy]) : Verdict(match)
    BY <1>6
  <2>2. match \in BOOLEAN
    BY <2>1 DEF CrcMatches
  <2>3. ptes'[copy] = Filled(h, n, n) /\ DOMAIN Filled(h, n, n) = PteSlots
    BY <1>1, <1>5, <1>6, FilledInside
  <2>4. DOMAIN ptes' = Copies /\ \A c \in Copies : DOMAIN ptes'[c] = PteSlots
    BY <1>1, <1>6, <2>3
  <2>5. copy = "alternate" => UNCHANGED <<header["primary"], ptes["primary"]>>
    BY <1>1, <1>4, <1>6 DEF Copies
  <2>6. copy = "primary" /\ match =>
          /\ 1 <= LastLba /\ header'["primary"] = image.header[1]
          /\ Ordinary(image.header[1]) =>
               [s \in 1..image.header[1].num |-> ptes'["primary"][s]] = image.header[1].array
    BY <1>2, <1>4, <2>1, <2>2, MatchVouches, ZenonT(60) DEF h
  <2>7. copy = "primary" /\ ~match => ~TableSound
    <3> SUFFICES ASSUME copy = "primary", match = FALSE, TableSound
                 PROVE  FALSE
      BY <2>2
    <3>1. FALSE \in CrcMatches(h, Filled(h, h.num, h.num))
      BY <1>3, <2>1, <2>3
    <3> QED BY <1>2, <1>3, <3>1, SoundMatches
  <2> QED BY <1>1, <1>4, <2>1, <2>2, <2>4, <2>5, <2>6, <2>7, VerdictKeeps
<1>7. CASE n = 0 /\ Verdict(FALSE) /\ ptes' = ptes
  BY <1>1, <1>3, <1>4, <1>7, VerdictKeeps
<1>8. CASE /\ n # 0 /\ Verdict(FALSE) /\ (ioerr' \/ ~Readable(h, n))
           /\ \E got : ptes' = [ptes EXCEPT ![copy] = Filled(h, n, got)]
  <2>1. PICK got : ptes' = [ptes EXCEPT ![copy] = Filled(h, n, got)]
    BY <1>8
  <2>2. DOMAIN Filled(h, n, got) = PteSlots
    BY <1>5, <1>8, FilledInside
  <2>3. DOMAIN ptes' = Copies /\ \A c \in Copies : DOMAIN ptes'[c] = PteSlots
    BY <1>1, <2>1, <2>2
  <2>4. copy = "alternate" => UNCHANGED <<header["primary"], ptes["primary"]>>
    BY <1>1, <1>4, <2>1 DEF Copies
  <2>5. copy = "primary" => (ioerr' \/ ~TableSound)
    BY <1>3, <1>8
  <2> QED BY <1>1, <1>4, <1>8, <2>3, <2>4, <2>5, VerdictKeeps
<1> QED BY <1>4, <1>6, <1>7, <1>8

LEMMA TableScan ==
  ASSUME TableSizes, Disks, GptInv, Scan
  PROVE  GptInv'
<1> DEFINE h == image.header[1]
<1>1. /\ table_pc = "scan" /\ copy = "primary" /\ "primary" \in good /\ found = "none"
      /\ UNCHANGED <<image, table_pc, copy, lba, header, ptes, good, found, ioerr>>
      /\ entry < header["primary"].num /\ entry' = entry + 1
      /\ header["primary"] = h /\ 1 \in 0..LastLba /\ image \in Images
  BY DEF Scan, tables, GptInv, GptTypes, OrderInv, VouchedInv,
     TableSizes
<1>2. h.num \in Nat /\ h.array \in Seq(GptEntry)
  BY <1>1, HeaderFields
<1>3. GptTypes' /\ OrderInv' /\ VouchedInv' /\ FailsOnlyForCause'
  BY <1>1 DEF GptInv, GptTypes, OrderInv, VouchedInv,
     FailsOnlyForCause, Ordinary
<1>4. ListInv'
  <2> SUFFICES ASSUME Ordinary(h)
               PROVE  /\ entry' \in 0..h.num /\ partitions' \in Seq(Listed)
                      /\ Lists(partitions', h.array, entry')
    BY <1>1 DEF ListInv, Ordinary
  <2>1. /\ entry \in 0..h.num /\ partitions \in Seq(Listed) /\ Lists(partitions, h.array, entry)
        /\ [s \in 1..h.num |-> ptes["primary"][s]] = h.array
    BY <1>1 DEF GptInv, ListInv, VouchedInv
  <2>2. entry + 1 \in 1..h.num /\ h.num <= MaxPtes
    BY <1>1, <1>2, <2>1 DEF Ordinary
  <2>3. h.array[entry + 1] = ptes["primary"][entry + 1] /\ entry + 1 \in PteSlots
    BY <2>1, <2>2, <1>2 DEF PteSlots, TableSizes
  <2>4. DOMAIN h.array = 1..h.num
    BY <2>1
  <2>5. Len(h.array) = h.num
    BY <1>2, <2>4
  <2>6. partitions' = LET e == h.array[entry + 1] IN
          IF is_pte_valid(e) THEN Append(partitions, PartitionOf(e)) ELSE partitions
    BY <1>1, <2>3 DEF Scan
  <2>7. partitions' \in Seq(Listed) /\ Lists(partitions', h.array, entry + 1)
    <3> HIDE DEF h
    <3> QED BY <1>2, <2>1, <2>2, <2>5, <2>6, ListsNext
  <2> QED BY <1>1, <1>2, <2>2, <2>7
<1> QED BY <1>3, <1>4 DEF GptInv

LEMMA TableScanDone ==
  ASSUME TableSizes, Disks, GptInv, ScanDone
  PROVE  GptInv'
<1> DEFINE h == image.header[1]
<1>1. /\ table_pc = "scan" /\ copy = "primary" /\ "primary" \in good
      /\ UNCHANGED <<image, copy, lba, header, ptes, good, entry, partitions, ioerr>>
      /\ table_pc' = "idle" /\ found' = "ok" /\ entry = header["primary"].num
      /\ header["primary"] = h /\ 1 \in 0..LastLba /\ image \in Images
  BY DEF ScanDone, Return, tables, GptInv, GptTypes, OrderInv,
     VouchedInv, TableSizes
<1>2. h.num \in Nat /\ h.array \in Seq(GptEntry)
  BY <1>1, HeaderFields
<1>3. Ordinary(h) => Lists(partitions, h.array, h.num) /\ h.num = Len(h.array)
  <2> SUFFICES ASSUME Ordinary(h)
               PROVE  Lists(partitions, h.array, h.num) /\ h.num = Len(h.array)
    OBVIOUS
  <2>1. Lists(partitions, h.array, entry) /\ [s \in 1..h.num |-> ptes["primary"][s]] = h.array
    BY <1>1 DEF GptInv, ListInv, VouchedInv
  <2>2. DOMAIN h.array = 1..h.num
    BY <2>1
  <2> QED BY <1>1, <1>2, <2>1, <2>2
<1>4. ListInv'
  BY <1>1, <1>3 DEF ListInv, Ordinary
<1>5. GptTypes' /\ OrderInv' /\ VouchedInv' /\ FailsOnlyForCause'
  BY <1>1 DEF GptInv, GptTypes, OrderInv, VouchedInv, FailsOnlyForCause
<1> QED BY <1>4, <1>5 DEF GptInv

LEMMA TableRest ==
  ASSUME GptInv, AbortTable \/ UNCHANGED gpt_vars
  PROVE  GptInv'
<1>1. CASE AbortTable
  BY <1>1 DEF AbortTable, tables, GptInv, GptTypes, OrderInv, VouchedInv,
     ListInv, FailsOnlyForCause, Ordinary
<1>2. CASE UNCHANGED gpt_vars
  BY <1>2 DEF gpt_vars, tables, GptInv, GptTypes, OrderInv, VouchedInv,
     ListInv, FailsOnlyForCause, Ordinary, WellFormed, OnDisk
<1> QED BY <1>1, <1>2

LEMMA TableStep ==
  ASSUME TableSizes, Disks, GptInv, [GptNext]_(gpt_vars)
  PROVE  GptInv'
  BY TableFindPartitions, TableReadMbr, TableReadHeader, TableReadEntries, TableScan, TableScanDone,
     TableRest DEF GptNext, Finished

(* efi_find_partitions() (efi.c) reports the valid partitions of the array *)
(* the primary header vouches for, all of them and in order, and stays     *)
(* inside its buffers: for any disk, any failed reads and abort keys.      *)
THEOREM TableReported ==
  GptSpec => []ReportsTheTable
<1>1. GptInv => ReportsTheTable
  BY DEF GptInv, GptTypes, ListInv, ReportsTheTable
<1> QED BY <1>1, TableInit, TableStep, TableSizesAssumption, DisksAssumption, PTL DEF GptSpec

(* It fails only if a read failed, or the disk has no protective MBR, or   *)
(* its primary table is damaged.                                           *)
THEOREM TableFound ==
  GptSpec => []FailsOnlyForCause
<1>1. GptInv => FailsOnlyForCause
  BY DEF GptInv
<1> QED BY <1>1, TableInit, TableStep, TableSizesAssumption, DisksAssumption, PTL DEF GptSpec

-----------------------------------------------------------------------------
(* The bus scan that finds the controller (PciScan).                       *)

LEMMA PciSizes ==
  ASSUME BusSizes
  PROVE  /\ Buses \in Nat /\ Slots \in Nat /\ Funcs \in Nat /\ Len(Drivers) \in Nat
         /\ Buses > 0 /\ Slots > 0 /\ Funcs > 0 /\ LastDevfn \in Nat
         /\ LastDevfn + 1 = Slots * Funcs
<1>1. /\ Buses \in Nat /\ Slots \in Nat /\ Funcs \in Nat /\ Len(Drivers) \in Nat
      /\ Buses > 0 /\ Slots > 0 /\ Funcs > 0
  BY DEF BusSizes
<1>2. Slots * Funcs \in Nat /\ Slots * Funcs > 0
  BY <1>1
<1> QED BY <1>1, <1>2 DEF LastDevfn

LEMMA DivMod ==
  ASSUME NEW a \in Nat, NEW b \in Nat \ {0}
  PROVE  /\ a \div b \in Nat /\ a % b \in 0..(b - 1)
         /\ (a \div b) * b + (a % b) = a
<1>1. a % b < b
  OBVIOUS
<1> QED BY <1>1, Division

LEMMA DivUnique ==
  ASSUME NEW b \in Nat \ {0}, NEW q \in Nat, NEW p \in Nat, NEW r \in 0..(b - 1), NEW s \in 0..(b - 1),
         b * q + r = b * p + s
  PROVE  q = p
<1>1. ASSUME NEW x \in Nat, NEW y \in Nat, x < y
      PROVE  b * x + b <= b * y
  <2>1. b * (y - x - 1) >= 0
    BY <1>1
  <2> QED BY <2>1
<1>2. ~(q < p)
  BY <1>1
<1>3. ~(p < q)
  BY <1>1
<1> QED BY <1>2, <1>3

(* Within a device the slot number stays.                                  *)
LEMMA SameSlot ==
  ASSUME NEW a \in Nat, NEW b \in Nat \ {0}, (a + 1) % b # 0
  PROVE  (a + 1) \div b = a \div b
<1> DEFINE q == a \div b
           r == a % b
           p == (a + 1) \div b
           s == (a + 1) % b
<1>1. q \in Nat /\ r \in 0..(b - 1) /\ q * b + r = a
  BY DivMod
<1>2. p \in Nat /\ s \in 0..(b - 1) /\ s # 0 /\ p * b + s = a + 1
  <2>1. a + 1 \in Nat
    OBVIOUS
  <2> QED BY <2>1, DivMod
<1> HIDE DEF q, r, p, s
<1>3. b * q + r = b * p + (s - 1) /\ s - 1 \in 0..(b - 1)
  BY <1>1, <1>2
<1>4. q = p
  BY <1>1, <1>2, <1>3, DivUnique
<1> QED BY <1>4 DEF q, p

LEMMA DivBound ==
  ASSUME NEW a \in Nat, NEW b \in Nat \ {0}, NEW n \in Nat, a + 1 <= n * b
  PROVE  a \div b \in 0..(n - 1)
<1> DEFINE q == a \div b
<1>1. q \in Nat /\ q * b <= a
  BY DivMod
<1> HIDE DEF q
<1>2. ASSUME q >= n
      PROVE  FALSE
  <2>1. b * (q - n) >= 0
    BY <1>1, <1>2
  <2> QED BY <1>1, <2>1
<1>3. q \in 0..(n - 1)
  BY <1>1, <1>2
<1> QED BY <1>3 DEF q

(* A position is that of a function of a device.                           *)
LEMMA DeviceThere ==
  ASSUME BusSizes, ScanInv, NEW p \in Position
  PROVE  DeviceAt(p) \in Devices /\ p[2] % Funcs \in 0..(Funcs - 1)
<1>1. p[1] \in 0..(Buses - 1) /\ p[2] \in 0..LastDevfn
  BY DEF Position
<1>2. p[2] \in Nat /\ p[2] + 1 <= Slots * Funcs /\ Funcs \in Nat \ {0} /\ Slots \in Nat
  BY <1>1, PciSizes
<1>3. p[2] \div Funcs \in 0..(Slots - 1) /\ p[2] % Funcs \in 0..(Funcs - 1)
  BY <1>2, DivBound, DivMod
<1> QED BY <1>1, <1>3 DEF DeviceAt, ScanInv

LEMMA OneDriver ==
  ASSUME BusSizes, OneMatch, ScanInv, NEW p \in Position
  PROVE  /\ DriversAt(p) \subseteq Nat \ {0}
         /\ \A d, e \in DriversAt(p) : d = e
<1>1. DriversAt(p) \subseteq Nat \ {0}
  BY PciSizes DEF DriversAt, ById, ByClass, OfType
<1>2. type \in Types
  BY DEF ScanInv
<1> QED BY <1>1, <1>2, DeviceThere DEF OneMatch, DriversAt, FunctionAt

LEMMA MinOfOne ==
  ASSUME NEW S \in SUBSET Nat, S # {}, \A d, e \in S : d = e
  PROVE  Min(S) \in S
<1>0. PICK x \in S : TRUE
  OBVIOUS
<1>1. \A y \in S : x =< y
  BY <1>0
<1>2. (CHOOSE z \in S : \A y \in S : z =< y) \in S
  BY <1>1, Zenon
<1> QED BY <1>2 DEF Min

(* scan_drivers() finds the driver a function has, but not again.          *)
LEMMA ScanDriversIs ==
  ASSUME BusSizes, OneMatch, ScanInv, NEW p \in Position
  PROVE  LET k == FunctionAt(p) IN
         /\ DriversAt(p) = {} => ScanDrivers(k, 0) = 0
         /\ DriversAt(p) # {} => ScanDrivers(k, 0) \in DriversAt(p)
         /\ \A d \in DriversAt(p) : ScanDrivers(k, d) = 0
<1> DEFINE k == FunctionAt(p)
           I == ById(type, k)
           C == ByClass(type, k)
<1>1. DriversAt(p) = I \cup C /\ I \subseteq Nat \ {0} /\ C \subseteq Nat \ {0} /\ (\A d, e \in I \cup C : d = e)
  BY OneDriver DEF DriversAt
<1>2. \A last : ScanDrivers(k, last) =
        LET byId == { d \in I : d > last }
            byClass == C \ {last}
        IN  IF byId # {} THEN Min(byId) ELSE IF byClass # {} THEN Min(byClass) ELSE 0
  BY DEF ScanDrivers, NoDriver
<1> HIDE DEF I, C
<1>3. { d \in I : d > 0 } = I /\ C \ {0} = C
  <2>1. (\A d \in I : d > 0) /\ 0 \notin C
    BY <1>1
  <2> QED BY <2>1
<1>4. (I # {} => Min(I) \in I) /\ (C # {} => Min(C) \in C)
  BY <1>1, MinOfOne
<1>5. \A last \in I \cup C : { d \in I : d > last } = {} /\ C \ {last} = {}
  <2> SUFFICES ASSUME NEW last \in I \cup C
               PROVE  { d \in I : d > last } = {} /\ C \ {last} = {}
    OBVIOUS
  <2>1. (\A d \in I \cup C : d = last) /\ last \in Nat
    BY <1>1
  <2>2. ~(last > last)
    BY <2>1
  <2> QED BY <2>1, <2>2
<1>6. ScanDrivers(k, 0) = IF I # {} THEN Min(I) ELSE IF C # {} THEN Min(C) ELSE 0
  BY <1>2, <1>3
<1>7. \A last \in I \cup C : ScanDrivers(k, last) = 0
  BY <1>2, <1>5
<1> QED BY <1>1, <1>4, <1>6, <1>7

LEMMA BeforeLast ==
  ASSUME BusSizes, NEW p \in Position
  PROVE  /\ p[1] \in Nat /\ p[2] \in Nat /\ p[1] < Buses /\ p[2] <= LastDevfn
         /\ Before(Nowhere, p) /\ ~Before(p, <<0, 0>>) /\ Before(p, <<Buses, 0>>)
<1>1. p[1] \in 0..(Buses - 1) /\ p[2] \in 0..LastDevfn
  BY DEF Position
<1>2. p[1] \in Nat /\ p[2] \in Nat /\ p[1] < Buses /\ p[2] <= LastDevfn
  BY <1>1, PciSizes
<1> QED BY <1>2 DEF Before, Nowhere

LEMMA PositionPair ==
  ASSUME NEW p \in Position, NEW x, NEW y, p[1] = x, p[2] = y
  PROVE  p = <<x, y>>
  BY DEF Position

LEMMA WantedIs ==
  ASSUME NEW p \in Wanted
  PROVE  p \in Position /\ Real(p) /\ p[2] # LastDevfn /\ DriversAt(p) # {}
  BY DEF Wanted, DriversAt

(* What the scan finds at a position is what is there.                     *)
LEMMA FoundIs ==
  ASSUME BusSizes, OneMatch, ScanInv, Scanning, bus < Buses, devfn < LastDevfn
  PROVE  LET here == <<bus, devfn>> IN
         /\ here \in Position
         /\ Multi = DeviceAt(here).multi
         /\ first_driver # 0 => FoundDriver = 0
         /\ first_driver = 0 =>
              IF here \in Wanted THEN FoundDriver \in DriversAt(here)
              ELSE FoundDriver = 0
<1> DEFINE here == <<bus, devfn>>
<1>1. here \in Position /\ here[1] = bus /\ here[2] = devfn /\ devfn # LastDevfn
  BY PciSizes DEF Scanning, Position
<1>2. Multi = DeviceAt(here).multi
  BY DEF Multi, Scanning
<1>3. CASE first_driver # 0
  <2>1. first_driver \in DriversAt(here)
    BY <1>3 DEF Scanning, NoDriver
  <2>2. ScanDrivers(FunctionAt(here), first_driver) = 0
    BY <1>1, <2>1, ScanDriversIs
  <2>3. FoundDriver = 0
    BY <2>2 DEF FoundDriver, NoDriver
  <2> QED BY <1>1, <1>2, <1>3, <2>3
<1>4. CASE first_driver = 0
  <2> DEFINE k == FunctionAt(here)
  <2>1. /\ DriversAt(here) = {} => ScanDrivers(k, 0) = 0
        /\ DriversAt(here) # {} => ScanDrivers(k, 0) \in DriversAt(here)
    BY <1>1, ScanDriversIs
  <2>2. here \in Wanted <=> Real(here) /\ DriversAt(here) # {}
    BY <1>1 DEF Wanted, DriversAt
  <2>3. Real(here) <=> k # Nothing /\ (devfn % Funcs = 0 \/ DeviceAt(here).multi)
    BY <1>1 DEF Real
  <2>4. FoundDriver = IF ~Real(here) THEN 0 ELSE ScanDrivers(k, 0)
    BY <1>2, <1>4, <2>3 DEF FoundDriver, NoDriver
  <2> HIDE DEF k
  <2> QED BY <1>1, <1>2, <1>4, <2>1, <2>2, <2>4
<1> QED BY <1>3, <1>4

(* A step of the scan only goes on to the next position.                   *)
LEMMA NothingBetween ==
  ASSUME BusSizes, ScanInv, Scanning, NEW p \in Wanted, Before(from, p),
         p # <<bus, devfn>>
  PROVE  /\ bus < Buses => ~Before(p, <<bus, devfn + 1>>)
         /\ bus < Buses /\ devfn = LastDevfn => ~Before(p, <<bus + 1, 0>>)
         /\ bus < Buses
<1>1. ~Before(p, <<bus, devfn>>)
  BY DEF Scanning, Between
<1>2. p \in Position
  BY WantedIs
<1>3. /\ p[1] \in Nat /\ p[2] \in Nat /\ p[1] < Buses /\ p[2] <= LastDevfn
      /\ bus \in Nat /\ devfn \in Nat /\ bus <= Buses /\ (bus = Buses => devfn = 0)
      /\ LastDevfn \in Nat /\ Buses \in Nat
  BY <1>2, BeforeLast, PciSizes DEF Scanning
<1>4. ~(p[1] = bus /\ p[2] = devfn)
  BY <1>2, PositionPair
<1> QED BY <1>1, <1>3, <1>4 DEF Before

PciWorld == <<config, type>>

LEMMA WantedStays ==
  ASSUME UNCHANGED PciWorld
  PROVE  Wanted' = Wanted
  BY DEF PciWorld, Wanted, Real, FunctionAt, DeviceAt, ById, ByClass, OfType

LEMMA FoundStays ==
  ASSUME UNCHANGED PciWorld, UNCHANGED <<driver, at, ioaddr, from>>
  PROVE  /\ NextFound' <=> NextFound
         /\ UpTo(from)' = UpTo(from) /\ UpTo(at)' = UpTo(at)
<1>1. Wanted' = Wanted
  BY WantedStays
<1>2. /\ FunctionAt(at)' = FunctionAt(at)
      /\ DriversAt(at)' = DriversAt(at)
  BY DEF PciWorld, DriversAt, FunctionAt, DeviceAt, ById, ByClass, OfType
<1>3. Between(from, at)' = Between(from, at)
  BY <1>1 DEF Between, Before
<1>4. UpTo(from)' = UpTo(from) /\ UpTo(at)' = UpTo(at)
  BY <1>1 DEF UpTo, Before
<1>5. Before(from, at)' <=> Before(from, at)
  BY DEF Before
<1> QED BY <1>1, <1>2, <1>3, <1>4, <1>5 DEF NextFound

LEMMA UpToNowhere ==
  ASSUME BusSizes
  PROVE  UpTo(Nowhere) = {}
<1>1. \A p \in Wanted : Before(Nowhere, p)
  BY WantedIs, BeforeLast
<1> QED BY <1>1 DEF UpTo

LEMMA PciInit ==
  ASSUME ScanInit
  PROVE  ScanInv
  BY DEF ScanInit, NoProbeYet, ScanInv, Nowhere

LEMMA PciProbeFirst ==
  ASSUME ScanInv, ProbeFirst
  PROVE  ScanInv'
  BY DEF ProbeFirst, ClearState, ScanInv, NoDriver, Nowhere

LEMMA PciProbeNext ==
  ASSUME BusSizes, OneMatch, ScanInv, ProbeNext
  PROVE  ScanInv'
<1>1. /\ scan_pc = "idle" /\ how_probe = "next" /\ scan_pc' = "loop"
      /\ UNCHANGED PciWorld /\ UNCHANGED <<driver, at, ioaddr, from, offered>>
      /\ NextFound /\ offered = UpTo(at)
  BY DEF ProbeNext, ScanInv, state, PciWorld
<1>2. NextFound' /\ UpTo(at)' = UpTo(at)
  BY <1>1, FoundStays
<1>3. driver # 0
  BY <1>1, WantedIs, OneDriver DEF NextFound
<1> QED BY <1>1, <1>2, <1>3 DEF ScanInv, NoDriver, PciWorld

LEMMA PciSameDevice ==
  ASSUME ScanInv, SameDevice
  PROVE  ScanInv'
<1>1. /\ scan_pc = "loop" /\ ~advance /\ scan_pc' = "found"
      /\ UNCHANGED PciWorld /\ UNCHANGED <<driver, at, ioaddr, from, offered>>
  BY DEF SameDevice, state, PciWorld
<1>2. driver # 0 /\ NextFound /\ offered = UpTo(at)
  BY <1>1 DEF ScanInv, NoDriver
<1>3. NextFound' /\ UpTo(at)' = UpTo(at)
  BY <1>1, <1>2, FoundStays
<1> QED BY <1>1, <1>2, <1>3 DEF ScanInv, NoDriver, PciWorld

LEMMA PciFindPci ==
  ASSUME BusSizes, Answers, ScanInv, FindPci
  PROVE  ScanInv'
<1>1. /\ scan_pc = "loop" /\ scan_pc' = "scan" /\ first_driver' = driver /\ bus' = at[1] /\ devfn' = at[2]
      /\ multi' = (driver # 0 /\ DeviceAt(at).multi)
      /\ from' = (IF driver = 0 THEN Nowhere ELSE at)
      /\ driver' = 0 /\ at' = <<0, 0>> /\ UNCHANGED PciWorld /\ offered' = offered
  BY DEF FindPci, RestartMulti, NoDriver, PciWorld
<1>2. Wanted' = Wanted
  BY <1>1, WantedStays
<1>3. Scanning'
  <2>1. CASE driver = 0
    <3>1. /\ bus' = 0 /\ devfn' = 0 /\ from' = Nowhere /\ offered' = {} /\ first_driver' = 0
      BY <1>1, <2>1 DEF ScanInv, NoDriver
    <3>2. UpTo(from)' = {}
      BY <1>2, <3>1, UpToNowhere DEF UpTo
    <3>3. Between(from, <<bus, devfn>>)' = {}
      BY <1>2, <3>1, WantedIs, BeforeLast DEF Between
    <3>4. Before(from', <<bus', devfn'>>)
      BY <3>1 DEF Before, Nowhere
    <3>5. 0 % Funcs = 0
      BY PciSizes
    <3> QED BY <1>1, <3>1, <3>2, <3>3, <3>4, <3>5, PciSizes DEF Scanning, NoDriver
  <2>2. CASE driver # 0
    <3>1. /\ at \in Wanted /\ driver \in DriversAt(at) /\ offered = UpTo(at)
      BY <1>1, <2>2 DEF ScanInv, NextFound, NoDriver
    <3>2. /\ at \in Position /\ at[1] \in Nat /\ at[2] \in Nat /\ at[1] < Buses
          /\ at[2] <= LastDevfn /\ at = <<at[1], at[2]>>
      BY <3>1, WantedIs, BeforeLast, PositionPair
    <3>3. <<bus', devfn'>> = at /\ from' = at /\ multi' = DeviceAt(at).multi
      <4>1. <<bus', devfn'>> = <<at[1], at[2]>>
        BY <1>1
      <4>2. DeviceAt(at).multi \in BOOLEAN
        BY <3>2, DeviceThere DEF Answers
      <4>3. from' = at /\ multi' = DeviceAt(at).multi
        BY <1>1, <2>2, <4>2
      <4> QED BY <3>2, <4>1, <4>3, Zenon
    <3>4. Between(from, <<bus, devfn>>)' = {}
      <4>1. ASSUME NEW p \in Wanted, Before(at, p), Before(p, at)
            PROVE  FALSE
        BY <3>2, <4>1, WantedIs, BeforeLast DEF Before
      <4> QED BY <1>2, <3>3, <4>1 DEF Between
    <3>5. UpTo(from)' = UpTo(at)
      BY <1>2, <3>3 DEF UpTo
    <3>6. DriversAt(<<bus, devfn>>)' = DriversAt(at)
      BY <1>1, <3>3 DEF PciWorld, DriversAt, FunctionAt, DeviceAt, ById, ByClass, OfType
    <3>7. DeviceAt(<<bus, devfn>>)' = DeviceAt(at)
      BY <1>1, <3>3 DEF PciWorld, DeviceAt
    <3>8. bus' \in 0..Buses /\ devfn' \in 0..LastDevfn /\ bus' # Buses
      BY <1>1, <3>2, PciSizes
    <3> QED BY <1>1, <1>2, <2>2, <3>1, <3>3, <3>4, <3>5, <3>6, <3>7, <3>8 DEF Scanning, NoDriver
  <2> QED BY <2>1, <2>2
<1>4. from' \in Position \cup {Nowhere}
  BY <1>1, WantedIs DEF ScanInv, NextFound, NoDriver
<1> QED BY <1>1, <1>3, <1>4 DEF ScanInv, PciWorld

LEMMA PciScanOn ==
  ASSUME BusSizes, OneMatch, ScanInv, ScanOn
  PROVE  ScanInv'
<1>1. /\ scan_pc = "scan" /\ bus < Buses /\ devfn < LastDevfn /\ FoundDriver = 0
      /\ multi' = Multi /\ devfn' = devfn + 1 /\ first_driver' = 0
      /\ UNCHANGED PciWorld /\ UNCHANGED <<driver, at, bus, scan_pc, from, offered>>
      /\ Scanning
  BY DEF ScanOn, MoreDevfn, NoDriver, state, PciWorld, ScanInv
<1>2. Wanted' = Wanted
  BY <1>1, WantedStays
<1> DEFINE here == <<bus, devfn>>
           next == <<bus, devfn + 1>>
<1>3. here \in Position /\ Multi = DeviceAt(here).multi
  BY <1>1, FoundIs
<1>4. /\ bus \in Nat /\ devfn \in Nat /\ bus \in 0..Buses /\ devfn + 1 \in 0..LastDevfn
      /\ driver = 0 /\ at = <<0, 0>> /\ offered = UpTo(from)
  BY <1>1, PciSizes DEF Scanning, NoDriver
<1>5. Before(from, next)
  <2>1. CASE first_driver = 0
    <3>1. Before(from, here) /\ from \in Position \cup {Nowhere}
      BY <1>1, <2>1 DEF Scanning, ScanInv, NoDriver
    <3>2. from[1] \in Int /\ from[2] \in Int
      BY <3>1, BeforeLast DEF Nowhere
    <3> QED BY <1>4, <3>1, <3>2 DEF Before
  <2>2. CASE first_driver # 0
    <3>1. from = here
      BY <1>1, <2>2 DEF Scanning, NoDriver
    <3> QED BY <1>4, <3>1 DEF Before
  <2> QED BY <2>1, <2>2
<1>6. ASSUME NEW p \in Wanted, Before(from, p), Before(p, next)
      PROVE  FALSE
  <2>1. p = here
    BY <1>1, <1>6, NothingBetween
  <2>2. CASE first_driver = 0
    <3>1. FoundDriver \in DriversAt(here)
      BY <1>1, <1>6, <2>1, <2>2, FoundIs
    <3>2. 0 \notin DriversAt(here)
      BY <1>3, OneDriver
    <3> QED BY <1>1, <3>1, <3>2
  <2>3. CASE first_driver # 0
    <3>1. from = here
      BY <1>1, <2>3 DEF Scanning, NoDriver
    <3> QED BY <1>4, <1>6, <2>1, <3>1 DEF Before
  <2> QED BY <2>2, <2>3
<1>7. Between(from, <<bus, devfn>>)' = {}
  BY <1>1, <1>2, <1>6 DEF Between
<1>8. UpTo(from)' = UpTo(from)
  BY <1>1, <1>2 DEF UpTo
<1>9. devfn' % Funcs # 0 => multi' = DeviceAt(<<bus, devfn>>)'.multi
  <2> SUFFICES ASSUME (devfn + 1) % Funcs # 0
               PROVE  multi' = DeviceAt(<<bus, devfn>>)'.multi
    BY <1>1
  <2>1. (devfn + 1) \div Funcs = devfn \div Funcs
    BY <1>4, PciSizes, SameSlot
  <2>2. DeviceAt(<<bus, devfn>>)' = DeviceAt(here)
    BY <1>1, <2>1 DEF DeviceAt, PciWorld
  <2> QED BY <1>1, <1>3, <2>2
<1>10. Scanning'
  BY <1>1, <1>4, <1>5, <1>7, <1>8, <1>9 DEF Scanning, NoDriver
<1> QED BY <1>1, <1>10 DEF ScanInv, PciWorld

LEMMA PciScanFound ==
  ASSUME BusSizes, OneMatch, Answers, ScanInv, ScanFound
  PROVE  ScanInv'
<1> DEFINE here == <<bus, devfn>>
           k == FunctionAt(here)
<1>1. /\ scan_pc = "scan" /\ bus < Buses /\ devfn < LastDevfn /\ FoundDriver # 0
      /\ driver' = FoundDriver /\ at' = here /\ scan_pc' = "found"
      /\ UNCHANGED PciWorld /\ UNCHANGED <<from, offered>>
      /\ Scanning
  BY DEF ScanFound, MoreDevfn, NoDriver, PciWorld, ScanInv
<1>2. Wanted' = Wanted
  BY <1>1, WantedStays
<1>3. /\ here \in Position /\ first_driver = 0 /\ here \in Wanted
      /\ FoundDriver \in DriversAt(here)
  BY <1>1, FoundIs
<1>4. Before(from, here) /\ Between(from, here) = {} /\ offered = UpTo(from)
  BY <1>1, <1>3 DEF Scanning, NoDriver
<1>5. DriversAt(at)' = DriversAt(here) /\ FunctionAt(at)' = k
  BY <1>1 DEF PciWorld, DriversAt, FunctionAt, DeviceAt, ById, ByClass, OfType
<1>6. k.io # <<>> => \E i \in DOMAIN k.io : ioaddr' = k.io[i]
  <2>1. k.io \in Seq(Nat)
    BY <1>3, DeviceThere DEF Answers, FunctionAt
  <2>2. ioaddr' = (IF k.io = <<>> THEN ioaddr ELSE k.io[Len(k.io)])
    BY <1>1 DEF ScanFound, IoAddr
  <2> HIDE DEF k
  <2>3. k.io # <<>> => Len(k.io) \in DOMAIN k.io
    BY <2>1
  <2> QED BY <2>2, <2>3
<1>7. Between(from, at)' = {} /\ UpTo(from)' = UpTo(from)
  BY <1>1, <1>2, <1>4 DEF Between, UpTo
<1> HIDE DEF k
<1>8. NextFound'
  BY <1>1, <1>2, <1>3, <1>4, <1>5, <1>6, <1>7 DEF NextFound
<1> QED BY <1>1, <1>4, <1>7, <1>8 DEF ScanInv, NoDriver, PciWorld

LEMMA PciNextBus ==
  ASSUME BusSizes, ScanInv, NextBus
  PROVE  ScanInv'
<1>1. /\ scan_pc = "scan" /\ bus < Buses /\ ~(devfn < LastDevfn) /\ bus' = bus + 1 /\ devfn' = 0
      /\ UNCHANGED PciWorld /\ UNCHANGED <<driver, at, first_driver, multi, scan_pc, from, offered>>
      /\ Scanning
  BY DEF NextBus, MoreDevfn, state, PciWorld, ScanInv
<1>2. Wanted' = Wanted
  BY <1>1, WantedStays
<1>3. /\ devfn = LastDevfn /\ bus \in Nat /\ bus + 1 \in 0..Buses /\ 0 \in 0..LastDevfn
      /\ driver = 0 /\ at = <<0, 0>> /\ offered = UpTo(from) /\ 0 % Funcs = 0 /\ devfn \in Nat
  BY <1>1, PciSizes DEF Scanning, NoDriver
<1>4. <<bus, devfn>> \notin Wanted
  BY <1>3, WantedIs
<1>5. first_driver = 0 /\ Before(from, <<bus, devfn>>)
  BY <1>1, <1>4 DEF Scanning, NoDriver
<1>6. Before(from, <<bus + 1, 0>>)
  <2>1. from[1] \in Int /\ from[2] \in Int
    BY BeforeLast DEF ScanInv, Nowhere
  <2> QED BY <1>3, <1>5, <2>1 DEF Before
<1>7. Between(from, <<bus, devfn>>)' = {}
  BY <1>1, <1>2, <1>3, <1>4, NothingBetween DEF Between
<1>8. UpTo(from)' = UpTo(from)
  BY <1>1, <1>2 DEF UpTo
<1>9. Scanning'
  BY <1>1, <1>3, <1>5, <1>6, <1>7, <1>8 DEF Scanning, NoDriver
<1> QED BY <1>1, <1>9 DEF ScanInv, PciWorld

LEMMA PciScanEnd ==
  ASSUME BusSizes, ScanInv, ScanEnd
  PROVE  ScanInv'
<1>1. /\ scan_pc = "scan" /\ bus = Buses /\ scan_pc' = "found"
      /\ UNCHANGED PciWorld /\ UNCHANGED <<driver, at, ioaddr, from, offered>>
      /\ Scanning
  BY DEF ScanEnd, state, PciWorld, ScanInv
<1>2. Wanted' = Wanted /\ UpTo(from)' = UpTo(from)
  BY <1>1, WantedStays, FoundStays
<1>3. driver = 0 /\ offered = UpTo(from) /\ devfn = 0
  BY <1>1 DEF Scanning, NoDriver
<1>4. ASSUME NEW p \in Wanted
      PROVE  ~Before(from, p)
  <2>1. Before(p, <<bus, devfn>>)
    BY <1>1, <1>3, WantedIs, BeforeLast
  <2> QED BY <1>1, <2>1 DEF Scanning, Between
<1>5. UpTo(from) = Wanted
  BY <1>4 DEF UpTo
<1> QED BY <1>1, <1>2, <1>3, <1>5 DEF ScanInv, NoDriver, PciWorld

(* With the function found everything up to it has been offered.           *)
LEMMA OfferedUpTo ==
  ASSUME BusSizes, ScanInv, NextFound, offered \in {UpTo(from), UpTo(at)}
  PROVE  offered \cup {at} = UpTo(at)
<1>1. at \in Wanted /\ Before(from, at) /\ Between(from, at) = {}
  BY DEF NextFound
<1>2. /\ at \in Position /\ at[1] \in Int /\ at[2] \in Int /\ at = <<at[1], at[2]>>
      /\ from[1] \in Int /\ from[2] \in Int
  BY <1>1, WantedIs, BeforeLast, PositionPair DEF ScanInv, Nowhere
<1>3. ASSUME NEW p \in Wanted
      PROVE  ~Before(at, p) <=> (~Before(from, p) \/ p = at)
  <2>1. p \in Position /\ p[1] \in Int /\ p[2] \in Int
    BY WantedIs, BeforeLast
  <2>2. ~(Before(from, p) /\ Before(p, at))
    BY <1>1 DEF Between
  <2>3. p = at <=> p[1] = at[1] /\ p[2] = at[2]
    BY <1>2, <2>1, PositionPair
  <2> QED BY <1>1, <1>2, <2>1, <2>2, <2>3 DEF Before
<1>4. UpTo(at) = UpTo(from) \cup {at}
  BY <1>1, <1>3 DEF UpTo
<1> QED BY <1>4

LEMMA PciProbeFailed ==
  ASSUME ScanInv, ProbeFailed
  PROVE  ScanInv'
<1>1. /\ scan_pc = "found" /\ driver = 0 /\ how_probe' = "first" /\ scan_pc' = "idle"
      /\ UNCHANGED PciWorld /\ UNCHANGED <<from, offered>>
  BY DEF ProbeFailed, NoDriver, PciWorld
<1>2. offered = Wanted
  BY <1>1 DEF ScanInv, NoDriver
<1> QED BY <1>1, <1>2, WantedStays DEF ScanInv, PciWorld

LEMMA PciDriver ==
  ASSUME BusSizes, ScanInv, DriverAccepts \/ DriverRefuses
  PROVE  ScanInv'
<1>1. /\ scan_pc = "found" /\ driver # 0 /\ offered' = offered \cup {at}
      /\ \/ scan_pc' = "idle" /\ how_probe' = "next"
         \/ scan_pc' = "loop"
      /\ UNCHANGED PciWorld /\ UNCHANGED <<driver, at, ioaddr, from>>
  BY DEF DriverAccepts, DriverRefuses, NoDriver, state, PciWorld
<1>2. NextFound /\ offered \in {UpTo(from), UpTo(at)}
  BY <1>1 DEF ScanInv, NoDriver
<1>3. NextFound' /\ offered' = UpTo(at)'
  BY <1>1, <1>2, FoundStays, OfferedUpTo
<1> QED BY <1>1, <1>3 DEF ScanInv, NoDriver, PciWorld

LEMMA PciStutter ==
  ASSUME ScanInv, UNCHANGED scan_vars
  PROVE  ScanInv'
<1>1. /\ UNCHANGED PciWorld
      /\ UNCHANGED <<driver, at, ioaddr, from, offered, advance, scan_pc, how_probe, first_driver, bus,
                     devfn, multi>>
  BY DEF scan_vars, state, scan, PciWorld
<1>2. /\ NextFound' <=> NextFound
      /\ UpTo(from)' = UpTo(from) /\ UpTo(at)' = UpTo(at) /\ Wanted' = Wanted
  BY <1>1, WantedStays, FoundStays
<1>3. Scanning => Scanning'
  <2>1. Between(from, <<bus, devfn>>)' = Between(from, <<bus, devfn>>)
    BY <1>1, <1>2 DEF Between
  <2>2. /\ DeviceAt(<<bus, devfn>>)' = DeviceAt(<<bus, devfn>>)
        /\ DriversAt(<<bus, devfn>>)' = DriversAt(<<bus, devfn>>)
    BY <1>1 DEF PciWorld, DriversAt, FunctionAt, DeviceAt, ById, ByClass, OfType
  <2> QED BY <1>1, <1>2, <2>1, <2>2 DEF Scanning
<1> QED BY <1>1, <1>2, <1>3 DEF ScanInv, PciWorld

LEMMA PciStep ==
  ASSUME BusSizes, OneMatch, Answers, ScanInv, [ScanNext]_(scan_vars)
  PROVE  ScanInv'
  BY PciProbeFirst, PciProbeNext, PciFindPci, PciSameDevice, PciScanOn, PciScanFound, PciNextBus,
     PciScanEnd, PciProbeFailed, PciDriver, PciStutter DEF ScanNext, Calls, Steps

(* probe() with scan_pci_bus() (pci.c) offers each function that has a     *)
(* driver to it once and in bus order, whichever drivers refuse: for any   *)
(* number of buses, slots and functions, any devices, and any drivers of   *)
(* which at most one suits a function.                                     *)
THEOREM EachOfferedOnce ==
  ScanSpec => []OffersEachOnce
<1>1. ScanInv => OffersEachOnce
  <2> SUFFICES ASSUME ScanInv
               PROVE  FindsNextMatch /\ NoneLeftOut
    BY DEF OffersEachOnce
  <2>1. FindsNextMatch
    BY DEF ScanInv, NextFound, FindsNextMatch, UpTo, Between, NoDriver
  <2>2. NoneLeftOut
    BY DEF ScanInv, NoneLeftOut, UpTo
  <2> QED BY <2>1, <2>2
<1> QED BY <1>1, PciInit, PciStep, SizesAssumption, OneMatchAssumption, DevicesAssumption, PTL
  DEF ScanSpec
=============================================================================
