----------------------------- MODULE BootVolume -----------------------------
(***************************************************************************)
(* The way to a file in try_disk_boot() of main/diskboot.c: disk_open()    *)
(* has the bus scanned for a disk controller (PciScan), then               *)
(* efi_find_partitions() reads the table of the partitions (Gpt), and then *)
(* partition after partition is mounted and files are read (Ext2File).     *)
(* Each part keeps its own variables and starts where the one before it    *)
(* has succeeded.  Module Disk models how the sectors are read.            *)
(***************************************************************************)
EXTENDS Ext2File, Gpt, PciScan

CONSTANTS
  Machines,       \* records [type, config, image]: what is probed for, the
                  \* slots of the buses, the contents of the disk
  Home            \* Home[v]: the partition volume v lies on

ASSUME MachinesAssumption ==
  Machines \subseteq [type : Types, config : [0..(Buses - 1) -> [0..(Slots - 1) -> Devices]],
                      image : Images]

volume_vars == <<vars, gpt_vars, scan_vars>>

VolumeInit ==
  /\ \E m \in Machines : type = m.type /\ config = m.config /\ image = m.image
  /\ NoProbeYet /\ NoTableYet /\ Init

(* Probes of the bus for the disk or the network card, as often as anyone  *)
(* asks, but not while try_disk_boot() has a table.                        *)
ProbeStep == table_pc = "idle" /\ found = "none" /\ ScanNext /\ UNCHANGED <<vars, gpt_vars>>

(* disk_open() has returned 0; if it fails, nothing is read.               *)
DiskOpened == scan_pc = "idle" /\ how_probe = "next" /\ type = "DISK_DRIVER"

TableStep == DiskOpened /\ GptNext /\ UNCHANGED <<vars, scan_vars>>

(* partition_set(): what is mounted lies on a partition of the list.       *)
OnList(v) == \E k \in DOMAIN partitions : partitions[k] = Home[v]

FileStep ==
  /\ found = "ok" /\ Next
  /\ this' \notin {this, NoVolume} => OnList(this')
  /\ UNCHANGED <<gpt_vars, scan_vars>>

VolumeNext == ProbeStep \/ TableStep \/ FileStep

(* As in PciScan: a probe that has begun goes on.                          *)
VolumeSpec == VolumeInit /\ [][VolumeNext]_volume_vars /\ WF_volume_vars(ProbeStep /\ Steps)
=============================================================================
