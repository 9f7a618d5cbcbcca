------------------------------ MODULE BootFlow ------------------------------
(***************************************************************************)
(* The control flow of the boot loader: main/main.c (do_main,              *)
(* network_boot_failed, spin), main/diskboot.c (try_disk_boot, diskboot,   *)
(* disk_read_file), main/netboot.c (try_network_boot, dhcp_callback) and   *)
(* loader_init.c (boot_kernel).                                            *)
(*                                                                         *)
(* One thread runs; the hard part is the order of the calls.  A disk boot  *)
(* may call the network boot, a failed network boot calls the disk boot    *)
(* again, and an abort key noticed by poll_interruptions() while the IDE   *)
(* or network code waits calls flail() in the middle of either of them.    *)
(* The disk, the mounted file system and the set partition are globals     *)
(* shared by the nested calls.                                             *)
(*                                                                         *)
(* main/eb.c is not part of the repository: network_init(),                *)
(* network_load_file(), network_shutdown(), loadkernel() and flail() are   *)
(* modelled from their uses.  flail() replaces the longjmp() of Etherboot  *)
(* (eb/etherboot.patch), so it does not return to its caller.              *)
(***************************************************************************)
EXTENDS Naturals

CONSTANTS
  NParts,              \* partitions efi_find_partitions() reports, at most NP
  Volumes, NetConfs,   \* the partitions and configuration files considered
  NoConf,              \* no configuration file
  MaxKeys              \* bound on the abort keys pressed

KernelFiles  == {"unset", "missing", "notBzImage", "bzImage"}
RamdiskFiles == {"unset", "missing", "present"}

(***************************************************************************)
(* A configuration file as parse_config() leaves it (the last line of each *)
(* kind counts), each name joined with what loading that name yields.      *)
(***************************************************************************)
Conf == [kernel : KernelFiles, ramdisk : RamdiskFiles,
         trynetboot : BOOLEAN, forcediskboot : BOOLEAN]

ASSUME NPartsAssumption  == NParts \in Nat
ASSUME NoConfAssumption  == NoConf \notin Conf
ASSUME MaxKeysAssumption == MaxKeys \in Nat

(* A partition: is it ext2, and the files BOOTCONF and "/boot" BOOTCONF.   *)
Volume ==
  {[ext2 |-> FALSE, root |-> NoConf, boot |-> NoConf]} \cup
  [ext2 : {TRUE}, root : Conf \cup {NoConf}, boot : Conf \cup {NoConf}]

ASSUME ConfsAssumption == Volumes \subseteq Volume /\ NetConfs \subseteq Conf

VARIABLES
  gpt, vol, netfile,   \* the world: is the GPT valid, the partitions, and
                       \* the configuration file on the TFTP server
  returns,             \* may the external network_init() return?
  pc,                  \* the call that runs next
  trynetwork,          \* argument of the innermost try_disk_boot()
  i,                   \* its loop variable (from 1)
  netcaller,           \* who called try_network_boot()
  tried_network_boot,
  disk_open,           \* disk.dev.disable is set
  fs_open,             \* an ext2 file system is mounted ...
  fs_part,             \* ... from the partition last set
  nic,                 \* "down", "up", "shut" (after network_shutdown())
  conf,                \* the parsed configuration of the running attempt
  kernel_buf,          \* what is in it: "none", "whole", "short"
  initrd,              \* what boot_kernel() is given: "none", "whole",
                       \* "short", "garbage" (uninitialised pointer)
  source,              \* who called boot_kernel(): "none", "disk", "net"
  keys,                \* abort keys pressed so far
  ioerr                \* history: has a disk operation failed by itself?

world   == <<gpt, vol, netfile, returns>>
devices == <<disk_open, fs_open, fs_part, nic>>
buffers == <<kernel_buf, initrd, source>>
vars == <<world, pc, trynetwork, i, netcaller, tried_network_boot, devices,
          conf, buffers, keys, ioerr>>

ConfigOf(v) == IF v.root # NoConf THEN v.root ELSE v.boot
HasConfig(v) == v.ext2 /\ ConfigOf(v) # NoConf

Init ==
  /\ gpt \in BOOLEAN
  /\ vol \in [1..NParts -> Volumes]
  /\ netfile \in NetConfs \cup {NoConf}
  /\ returns \in BOOLEAN
  /\ pc = "do_main" /\ trynetwork = FALSE /\ i = 1 /\ netcaller = "do_main"
  /\ tried_network_boot = 0
  /\ disk_open = FALSE /\ fs_open = FALSE /\ fs_part = 0 /\ nic = "down"
  /\ conf = NoConf
  /\ kernel_buf = "none" /\ initrd = "none" /\ source = "none"
  /\ keys = 0 /\ ioerr = FALSE

(* A disk operation fails by itself (unreadable sector, IDE timeout).      *)
IOError == ioerr' = TRUE

(* Mutant: the disk is left open.                                          *)
CloseAll_DiskLeftOpen == fs_open' = FALSE /\ UNCHANGED <<disk_open, fs_part, nic>>

(* ext2fs_fs_close() then disk_close().                                    *)
CloseAll == disk_open' = FALSE /\ fs_open' = FALSE /\ UNCHANGED <<fs_part, nic>>

(* The locals of diskboot() and dhcp_callback() are dead once the call is  *)
(* left, by return or through flail(); the next call starts with its own.  *)
FreshLocals ==
  /\ i' = 1 /\ conf' = NoConf
  /\ kernel_buf' = "none" /\ initrd' = "none" /\ source' = "none"

-----------------------------------------------------------------------------
(* do_main(): the first attempt may be redirected to the network.          *)
DoMain ==
  /\ pc = "do_main"
  /\ pc' = "try_disk_boot" /\ trynetwork' = TRUE
  /\ UNCHANGED <<world, i, netcaller, tried_network_boot, devices, conf,
                 buffers, keys, ioerr>>

(* disk_open(): clears the disk structure, then probes.                    *)
DiskOpen ==
  /\ pc = "try_disk_boot"
  /\ \/ pc' = "find_partitions" /\ disk_open' = TRUE /\ UNCHANGED ioerr
     \/ pc' = "disk_return" /\ disk_open' = FALSE /\ IOError
  /\ UNCHANGED <<world, trynetwork, i, netcaller, tried_network_boot, fs_open,
                 fs_part, nic, conf, buffers, keys>>

(* Mutant: the loop skips the first partition.                             *)
FirstPartition_OffByOne == 2

FirstPartition == 1

FindPartitions ==
  /\ pc = "find_partitions"
  /\ \/ /\ gpt
        /\ pc' = "scan" /\ i' = FirstPartition
        /\ UNCHANGED <<disk_open, ioerr>>
     \/ /\ IF gpt THEN IOError ELSE UNCHANGED ioerr
        /\ pc' = "disk_return" /\ disk_open' = FALSE /\ UNCHANGED i
  /\ UNCHANGED <<world, trynetwork, netcaller, tried_network_boot, fs_open,
                 fs_part, nic, conf, buffers, keys>>

(* Mutant: partition_set (&p[i + 1]).                                      *)
PartitionSet_OffByOne == fs_part' = i + 1

(* Mutant: no partition_set().                                             *)
PartitionSet_Dropped == UNCHANGED fs_part

PartitionSet == fs_part' = i

(* Mutant: "continue" without the increment.                               *)
NextPartition_Stuck == UNCHANGED i

NextPartition == i' = i + 1

(* One turn of try_disk_boot()'s loop up to ext2fs_fs_open().              *)
MountPartition ==
  /\ pc = "scan" /\ i <= NParts
  /\ PartitionSet
  /\ \/ /\ vol[i].ext2
        /\ pc' = "read_config" /\ fs_open' = TRUE /\ UNCHANGED <<i, ioerr>>
     \/ /\ IF vol[i].ext2 THEN IOError ELSE UNCHANGED ioerr
        /\ NextPartition /\ fs_open' = FALSE /\ UNCHANGED pc
  /\ UNCHANGED <<world, trynetwork, netcaller, tried_network_boot, disk_open,
                 nic, conf, buffers, keys>>

LastPartition ==
  /\ pc = "scan" /\ i > NParts
  /\ pc' = "disk_return" /\ disk_open' = FALSE
  /\ UNCHANGED <<world, trynetwork, i, netcaller, tried_network_boot, fs_open,
                 fs_part, nic, conf, buffers, keys, ioerr>>

(***************************************************************************)
(* What parse_config() may make of a file cut short by a failed read:      *)
(* disk_read_file() ignores ext2fs_read()'s result and returns the bytes   *)
(* that arrived.  A line is there, missing, or cut inside a name.          *)
(***************************************************************************)
CutShort(c) ==
  { d \in Conf :
      /\ d.kernel \in {c.kernel, "unset", "missing"}
      /\ d.ramdisk \in {c.ramdisk, "unset", "missing"}
      /\ d.trynetboot => c.trynetboot
      /\ d.forcediskboot => c.forcediskboot }

(* disk_read_file (BOOTCONF), else disk_read_file ("/boot" BOOTCONF).      *)
ReadConfig ==
  /\ pc = "read_config"
  /\ \/ /\ ConfigOf(vol[i]) # NoConf
        /\ conf' = ConfigOf(vol[i])
        /\ pc' = "diskboot" /\ UNCHANGED <<i, fs_open, ioerr>>
     \/ /\ \E f \in {vol[i].root, vol[i].boot} \ {NoConf} : conf' \in CutShort(f) \cup {f}
        /\ IOError
        /\ pc' = "diskboot" /\ UNCHANGED <<i, fs_open>>
     \/ /\ IF ConfigOf(vol[i]) # NoConf THEN IOError ELSE UNCHANGED ioerr
        /\ fs_open' = FALSE
        /\ NextPartition /\ pc' = "scan" /\ UNCHANGED conf
  /\ UNCHANGED <<world, trynetwork, netcaller, tried_network_boot, disk_open,
                 fs_part, nic, buffers, keys>>

(* diskboot(): the configuration asks for a network boot first.            *)
DiskbootTryNetwork ==
  /\ pc = "diskboot" /\ trynetwork /\ conf.trynetboot
  /\ CloseAll
  /\ pc' = "try_network_boot" /\ netcaller' = "diskboot"
  /\ UNCHANGED <<world, trynetwork, i, tried_network_boot, conf, buffers, keys,
                 ioerr>>

(* diskboot(): load the kernel, or return.                                 *)
DiskbootKernel ==
  /\ pc = "diskboot" /\ ~(trynetwork /\ conf.trynetboot)
  /\ \/ /\ conf.kernel \in {"notBzImage", "bzImage"}
        /\ pc' = "load_ramdisk"
        /\ \/ kernel_buf' = "whole" /\ UNCHANGED ioerr
           \/ kernel_buf' = "short" /\ IOError
     \/ /\ IF conf.kernel \in {"notBzImage", "bzImage"}
           THEN IOError ELSE UNCHANGED ioerr
        /\ pc' = "diskboot_return" /\ UNCHANGED kernel_buf
  /\ UNCHANGED <<world, trynetwork, i, netcaller, tried_network_boot, devices,
                 conf, initrd, source, keys>>

(* diskboot(): load the ramdisk, then close everything and boot.           *)
DiskbootRamdisk ==
  /\ pc = "load_ramdisk"
  /\ \/ /\ \/ conf.ramdisk = "unset" /\ initrd' = "none" /\ UNCHANGED ioerr
           \/ conf.ramdisk = "present" /\ initrd' = "whole" /\ UNCHANGED ioerr
           \/ conf.ramdisk = "present" /\ initrd' = "short" /\ IOError
        /\ CloseAll
        /\ pc' = "boot_kernel" /\ source' = "disk"
     \/ /\ \/ conf.ramdisk = "missing" /\ UNCHANGED ioerr
           \/ conf.ramdisk = "present" /\ IOError
        /\ pc' = "diskboot_return" /\ UNCHANGED <<initrd, source, devices>>
  /\ UNCHANGED <<world, trynetwork, i, netcaller, tried_network_boot, conf,
                 kernel_buf, keys>>

(* try_disk_boot() after diskboot(): close again and leave the loop.       *)
DiskbootReturn ==
  /\ pc = "diskboot_return"
  /\ CloseAll
  /\ pc' = "disk_return"
  /\ UNCHANGED <<world, trynetwork, i, netcaller, tried_network_boot, conf,
                 buffers, keys, ioerr>>

(* try_disk_boot() returned to do_main(), or to network_boot_failed() and  *)
(* from there to flail().                                                  *)
DiskReturn ==
  /\ pc = "disk_return"
  /\ IF trynetwork
     THEN pc' = "try_network_boot" /\ netcaller' = "do_main"
     ELSE pc' = "spin" /\ UNCHANGED netcaller
  /\ FreshLocals
  /\ UNCHANGED <<world, trynetwork, tried_network_boot, devices, keys, ioerr>>

-----------------------------------------------------------------------------
(* Mutant: the static counter is not consulted.                            *)
AlreadyTried_Ignored == FALSE

AlreadyTried == tried_network_boot # 0

TryNetworkBoot ==
  /\ pc = "try_network_boot"
  /\ IF AlreadyTried
     THEN pc' = "spin" /\ UNCHANGED tried_network_boot
     ELSE /\ tried_network_boot' = tried_network_boot + 1
          /\ pc' = "network_init"
  /\ UNCHANGED <<world, trynetwork, i, netcaller, devices, conf, buffers, keys,
                 ioerr>>

(* network_init(): no DHCP server or no file name ends in flail(); else    *)
(* eth_load() calls loadkernel(), which calls dhcp_callback().             *)
NetworkInit ==
  /\ pc = "network_init"
  /\ \/ pc' = "dhcp_callback" /\ nic' = "up"
     \/ pc' = "flail" /\ nic' = "up"
     \/ /\ returns
        /\ pc' = IF netcaller = "diskboot" THEN "diskboot_return" ELSE "spin"
        /\ nic' \in {"down", "up"}
  /\ UNCHANGED <<world, trynetwork, i, netcaller, tried_network_boot, disk_open,
                 fs_open, fs_part, conf, buffers, keys, ioerr>>

(* Mutant: force-disk-boot is parsed but not obeyed.                       *)
DiskBootForced_Ignored(c) == FALSE

DiskBootForced(c) == c.forcediskboot

(* dhcp_callback() up to the kernel; any return ends in eth_load()'s       *)
(* flail().  A transfer may fail for reasons of the network.               *)
NetbootKernel ==
  /\ pc = "dhcp_callback"
  /\ \/ pc' = "flail" /\ UNCHANGED <<conf, kernel_buf>>
     \/ /\ netfile # NoConf
        /\ conf' = netfile
        /\ \/ pc' = "flail" /\ UNCHANGED kernel_buf
           \/ /\ ~DiskBootForced(netfile)
              /\ netfile.kernel \in {"notBzImage", "bzImage"}
              /\ kernel_buf' = "whole" /\ pc' = "net_ramdisk"
  /\ UNCHANGED <<world, trynetwork, i, netcaller, tried_network_boot, devices,
                 initrd, source, keys, ioerr>>

(* dhcp_callback(): without a ramdisk line ramdisk_buf and ramdisk_len are *)
(* never assigned, so sysdeps_create_boot_params() tests stack garbage.    *)
NetbootRamdisk ==
  /\ pc = "net_ramdisk"
  /\ \/ /\ \/ conf.ramdisk = "unset" /\ initrd' \in {"none", "garbage"}
           \/ conf.ramdisk = "present" /\ initrd' = "whole"
        /\ nic' = "shut" /\ pc' = "boot_kernel" /\ source' = "net"
     \/ /\ conf.ramdisk # "unset"
        /\ pc' = "flail" /\ UNCHANGED <<initrd, source, nic>>
  /\ UNCHANGED <<world, trynetwork, i, netcaller, tried_network_boot, disk_open,
                 fs_open, fs_part, conf, kernel_buf, keys, ioerr>>

(* Mutant: the disk boot after a failed network boot may ask for another.  *)
NetworkBootFailed_Retry == pc' = "try_disk_boot" /\ trynetwork' = TRUE

NetworkBootFailed == pc' = "try_disk_boot" /\ trynetwork' = FALSE

(* flail() calls network_boot_failed().                                    *)
Flail ==
  /\ pc = "flail"
  /\ NetworkBootFailed
  /\ FreshLocals
  /\ UNCHANGED <<world, netcaller, tried_network_boot, devices, keys, ioerr>>

(* The loops that wait call poll_interruptions(): await_ide() below every  *)
(* disk operation, await_reply() and interruptible_sleep() in the network. *)
Polling == {"try_disk_boot", "find_partitions", "scan", "read_config",
            "diskboot", "load_ramdisk", "network_init", "dhcp_callback",
            "net_ramdisk"}

AbortKey ==
  /\ pc \in Polling /\ keys < MaxKeys
  /\ keys' = keys + 1
  /\ pc' = "flail"
  /\ UNCHANGED <<world, trynetwork, i, netcaller, tried_network_boot, devices,
                 conf, buffers, ioerr>>

-----------------------------------------------------------------------------
(* boot_kernel(): returns only when the boot sector magic is wrong; the    *)
(* magic of a short buffer is whatever the heap holds.                     *)
BootKernel ==
  /\ pc = "boot_kernel"
  /\ \/ (kernel_buf = "whole" => conf.kernel = "bzImage") /\ pc' = "running"
     \/ /\ kernel_buf = "whole" => conf.kernel # "bzImage"
        /\ pc' = IF source = "disk" THEN "diskboot_return" ELSE "flail"
  /\ UNCHANGED <<world, trynetwork, i, netcaller, tried_network_boot, devices,
                 conf, buffers, keys, ioerr>>

(* The kernel runs, or spin() loops for ever.                              *)
Halted == pc \in {"running", "spin"} /\ UNCHANGED vars

Next ==
  \/ DoMain \/ DiskOpen \/ FindPartitions \/ MountPartition \/ LastPartition
  \/ ReadConfig \/ DiskbootTryNetwork \/ DiskbootKernel \/ DiskbootRamdisk
  \/ DiskbootReturn \/ DiskReturn \/ TryNetworkBoot \/ NetworkInit
  \/ NetbootKernel \/ NetbootRamdisk \/ Flail \/ AbortKey \/ BootKernel
  \/ Halted

(* The loader never stops by itself: some call is always running.          *)
Spec == Init /\ [][Next]_vars /\ WF_vars(Next)

-----------------------------------------------------------------------------
Locations ==
  {"do_main", "try_disk_boot", "find_partitions", "scan", "read_config",
   "diskboot", "load_ramdisk", "diskboot_return", "disk_return",
   "try_network_boot", "network_init", "dhcp_callback", "net_ramdisk",
   "flail", "boot_kernel", "running", "spin"}

WorldOK ==
  /\ gpt \in BOOLEAN /\ vol \in [1..NParts -> Volumes]
  /\ netfile \in NetConfs \cup {NoConf} /\ returns \in BOOLEAN
ControlOK ==
  /\ pc \in Locations /\ trynetwork \in BOOLEAN
  /\ netcaller \in {"do_main", "diskboot"} /\ ioerr \in BOOLEAN
CountersOK ==
  /\ i \in 1..(NParts + 1) /\ fs_part \in 0..NParts
  /\ tried_network_boot \in Nat /\ keys \in 0..MaxKeys
DevicesOK ==
  disk_open \in BOOLEAN /\ fs_open \in BOOLEAN /\ nic \in {"down", "up", "shut"}
BuffersOK ==
  /\ conf \in Conf \cup {NoConf}
  /\ kernel_buf \in {"none", "whole", "short"}
  /\ initrd \in {"none", "whole", "short", "garbage"}
  /\ source \in {"none", "disk", "net"}

(* Type correctness of the control, device and buffer state; in            *)
(* particular the loop variable of try_disk_boot() and the partition set   *)
(* by partition_set() stay within the table efi_find_partitions() filled.  *)
TypeOK == WorldOK /\ ControlOK /\ CountersOK /\ DevicesOK /\ BuffersOK

(* The static counter of try_network_boot() lets network_init() be called  *)
(* once in the life of the loader, although diskboot(), do_main() and the  *)
(* disk boot that follows a failed network boot can all ask for it.        *)
NetworkTriedOnce ==
  /\ tried_network_boot <= 1
  /\ pc \in {"network_init", "dhcp_callback", "net_ramdisk"} =>
       tried_network_boot = 1

(* ext2fs and partition reads happen only with the disk open, a file       *)
(* system mounted, and the partition set to the one being examined, even   *)
(* after flail() started a second try_disk_boot() inside the first.        *)
ReadsAreMounted ==
  pc \in {"read_config", "diskboot", "load_ramdisk"} =>
    disk_open /\ fs_open /\ fs_part = i

(* boot_kernel() is entered with the disk and the file system closed and,  *)
(* from the network, with the network shut down: nothing else can stop the *)
(* controllers once the kernel has been copied over low memory.            *)
CleanHandOff ==
  pc \in {"boot_kernel", "running"} =>
    /\ ~disk_open /\ ~fs_open
    /\ source = "net" => nic = "shut"

FirstConfig(p) == HasConfig(vol[p]) /\ \A q \in 1..(p - 1) : ~HasConfig(vol[q])

(* The kernel a disk boot starts is the one named by the first partition   *)
(* that holds a configuration (the root's before /boot's), with exactly    *)
(* the ramdisk it names, unless the disk failed on the way.                *)
BootsFirstConfig ==
  (pc = "running" /\ source = "disk" /\ ~ioerr) =>
    /\ \E p \in 1..NParts : FirstConfig(p) /\ conf = ConfigOf(vol[p])
    /\ conf.kernel = "bzImage" /\ kernel_buf = "whole"
    /\ initrd = IF conf.ramdisk = "present" THEN "whole" ELSE "none"

(* A kernel started from the network comes from a configuration without    *)
(* force-disk-boot, and its initrd is the configured one; only a           *)
(* configuration without a ramdisk line can pass garbage (ramdisk_buf is   *)
(* not initialised in dhcp_callback()).                                    *)
NetBootsItsConfig ==
  (pc = "running" /\ source = "net") =>
    /\ conf = netfile /\ ~conf.forcediskboot
    /\ conf.kernel = "bzImage" /\ kernel_buf = "whole"
    /\ conf.ramdisk = "present" => initrd = "whole"
    /\ initrd = "garbage" => conf.ramdisk = "unset"

Bootable(c) == c.kernel = "bzImage" /\ c.ramdisk # "missing"

DiskBootable ==
  gpt /\ \E p \in 1..NParts : FirstConfig(p) /\ Bootable(ConfigOf(vol[p]))

(* When network_init() does not return (the comment in diskboot() counts   *)
(* on it), the loader gives up only if the disk is not bootable: a network *)
(* boot that fails anywhere, or abort keys at any time, still end in a     *)
(* disk boot.                                                              *)
SpinsOnlyIfUnbootable ==
  (~returns /\ pc = "spin" /\ ~ioerr) => ~DiskBootable

(* Every run of the loader ends in a running kernel or in spin(): the      *)
(* calls between disk and network boot cannot chase each other for ever.   *)
Settles == <>(pc \in {"running", "spin"})
=============================================================================
