--------------------------- MODULE BootFlowProofs ---------------------------
(***************************************************************************)
(* Proofs about BootFlow, for any number of partitions, any sets of        *)
(* configurations and any number of abort keys.                            *)
(***************************************************************************)
EXTENDS BootFlow, Loader, SequenceTheorems, WellFoundedInduction, TLAPS

DiskPhase == {"do_main", "try_disk_boot", "find_partitions", "scan",
              "read_config", "diskboot", "load_ramdisk"}
NetPhase  == {"try_network_boot", "network_init", "dhcp_callback",
              "net_ramdisk"}
Loadable  == {"notBzImage", "bzImage"}
NoEarlierConfig == \A q \in 1..(i - 1) : ~HasConfig(vol[q])

(* Which devices may be open where.  A file system can stay mounted only   *)
(* below a try_disk_boot(0) that flail() started in the middle of another. *)
DevicesInv ==
  /\ pc \in {"find_partitions", "scan", "read_config", "diskboot",
             "load_ramdisk"} => disk_open
  /\ pc \in {"read_config", "diskboot", "load_ramdisk"} =>
       fs_open /\ fs_part = i /\ i <= NParts
  /\ pc \in NetPhase \cup {"boot_kernel", "running"} => ~disk_open /\ ~fs_open
  /\ pc \in {"do_main"} => ~fs_open
  /\ (trynetwork /\ pc \in {"try_disk_boot", "find_partitions", "scan"}) =>
       ~fs_open
  /\ (trynetwork /\ pc = "disk_return") => ~disk_open /\ ~fs_open

(* Which locals of diskboot() and dhcp_callback() are set where.           *)
LocalsInv ==
  /\ pc \in {"diskboot", "load_ramdisk", "net_ramdisk", "boot_kernel",
             "running"} => conf \in Conf
  /\ pc \in {"load_ramdisk", "net_ramdisk", "boot_kernel", "running"} =>
       kernel_buf # "none"
  /\ pc \in {"load_ramdisk", "net_ramdisk"} => conf.kernel \in Loadable
  /\ pc \in {"boot_kernel", "running"} => source \in {"disk", "net"}
  /\ pc = "running" => (kernel_buf = "whole" => conf.kernel = "bzImage")
  /\ kernel_buf = "short" => ioerr
  /\ initrd = "short" => ioerr

(* try_network_boot() has run exactly when the network code runs, and not  *)
(* yet while the first disk boot may still ask for it.                     *)
TriedInv ==
  /\ tried_network_boot <= 1
  /\ pc \in {"network_init", "dhcp_callback", "net_ramdisk"} =>
       tried_network_boot = 1
  /\ (pc \in DiskPhase /\ trynetwork) => tried_network_boot = 0
  /\ pc = "do_main" => tried_network_boot = 0
  /\ (pc = "try_network_boot" /\ netcaller = "diskboot") =>
       tried_network_boot = 0

(* The disk boot is at the first partition with a configuration.           *)
DiskSourceInv ==
  ~ioerr =>
    /\ pc \in {"scan", "read_config", "diskboot", "load_ramdisk"} =>
         NoEarlierConfig /\ gpt
    /\ pc = "read_config" => vol[i].ext2
    /\ (pc \in {"diskboot", "load_ramdisk"} \/
        (pc \in {"boot_kernel", "running"} /\ source = "disk")) =>
         /\ i <= NParts /\ NoEarlierConfig /\ gpt
         /\ HasConfig(vol[i]) /\ conf = ConfigOf(vol[i])
    /\ (pc \in {"boot_kernel", "running"} /\ source = "disk") =>
         /\ conf.ramdisk # "missing"
         /\ initrd = IF conf.ramdisk = "present" THEN "whole" ELSE "none"

(* The network boot works on the server's configuration file.              *)
NetSourceInv ==
  (pc = "net_ramdisk" \/ (pc \in {"boot_kernel", "running"} /\ source = "net")) =>
    /\ conf = netfile /\ ~conf.forcediskboot /\ kernel_buf = "whole"
    /\ pc # "net_ramdisk" =>
         /\ nic = "shut"
         /\ conf.ramdisk = "present" => initrd = "whole"
         /\ initrd = "garbage" => conf.ramdisk = "unset"

(* Once the loader returns from a disk boot for good, the disk was not     *)
(* bootable, if network_init() never returns and the disk did not fail.    *)
GiveUpInv ==
  (~returns /\ ~ioerr) =>
    /\ pc \in {"diskboot_return", "disk_return", "spin"} => ~DiskBootable
    /\ (pc = "try_network_boot" /\ netcaller = "do_main") => ~DiskBootable

IInv == TypeOK /\ DevicesInv /\ LocalsInv /\ TriedInv 
        /\ DiskSourceInv /\ NetSourceInv /\ GiveUpInv

-----------------------------------------------------------------------------
LEMMA VolumeConfs ==
  ASSUME NEW v \in Volume
  PROVE  /\ v.root \in Conf \cup {NoConf} /\ v.boot \in Conf \cup {NoConf}
         /\ ConfigOf(v) \in Conf \cup {NoConf}
  <1>1. CASE v = [ext2 |-> FALSE, root |-> NoConf, boot |-> NoConf]
    BY <1>1 DEF ConfigOf
  <1>2. CASE v \in [ext2 : {TRUE}, root : Conf \cup {NoConf},
                    boot : Conf \cup {NoConf}]
    BY <1>2 DEF ConfigOf
  <1> QED BY <1>1, <1>2 DEF Volume

LEMMA InitEstablishes == Init => IInv
<1> SUFFICES ASSUME Init PROVE IInv
  OBVIOUS
<1>1. WorldOK /\ ControlOK /\ DevicesOK /\ BuffersOK
  BY DEF Init, WorldOK, ControlOK, DevicesOK, BuffersOK, Locations
<1>2. CountersOK
  BY NPartsAssumption, MaxKeysAssumption DEF Init, CountersOK
<1>3. DevicesInv /\ LocalsInv /\ TriedInv /\ DiskSourceInv /\ NetSourceInv /\ GiveUpInv
  BY DEF Init, DevicesInv, LocalsInv, TriedInv, DiskSourceInv, NetSourceInv,
         GiveUpInv, NetPhase, DiskPhase
<1> QED BY <1>1, <1>2, <1>3 DEF IInv, TypeOK

LEMMA ReadConfigConf ==
  IInv /\ ReadConfig => /\ i \in 1..NParts
                        /\ conf' \in Conf \cup {NoConf}
                        /\ pc' = "diskboot" => conf' \in Conf
<1> SUFFICES ASSUME IInv, ReadConfig
             PROVE  /\ i \in 1..NParts
                    /\ conf' \in Conf \cup {NoConf}
                    /\ pc' = "diskboot" => conf' \in Conf
  OBVIOUS
<1>1. i \in 1..NParts
  BY NPartsAssumption DEF IInv, TypeOK, CountersOK, DevicesInv, ReadConfig
<1>2. vol[i] \in Volume
  BY <1>1, ConfsAssumption DEF IInv, TypeOK, WorldOK
<1>3. CutShort(vol[i].root) \subseteq Conf /\ CutShort(vol[i].boot) \subseteq Conf
  BY DEF CutShort
<1> QED
  BY <1>1, <1>2, <1>3, VolumeConfs DEF ReadConfig, IInv, TypeOK, BuffersOK

LEMMA NetfileConf ==
  WorldOK => netfile \in Conf \cup {NoConf}
  BY ConfsAssumption DEF WorldOK

(* The first configuration decides: if it is not bootable, or there is     *)
(* none, the disk is not bootable.                                         *)
LEMMA FirstDecides ==
  ASSUME i \in 1..NParts, NoEarlierConfig, HasConfig(vol[i]),
         ~Bootable(ConfigOf(vol[i]))
  PROVE  ~DiskBootable
<1> SUFFICES ASSUME NEW p \in 1..NParts, FirstConfig(p), Bootable(ConfigOf(vol[p]))
             PROVE  FALSE
  BY DEF DiskBootable
<1>1. ~(i < p)
  BY NPartsAssumption DEF FirstConfig
<1>2. ~(p < i)
  BY NPartsAssumption DEF FirstConfig, NoEarlierConfig
<1>3. p = i
  BY <1>1, <1>2, NPartsAssumption
<1> QED BY <1>3

LEMMA NoneDecides ==
  ASSUME i = NParts + 1, NoEarlierConfig
  PROVE  ~DiskBootable
  BY NPartsAssumption DEF DiskBootable, FirstConfig, NoEarlierConfig

(* No step changes the disk's or the server's contents.                    *)
LEMMA WorldConstant ==
  [Next]_vars => UNCHANGED world /\ DiskBootable' = DiskBootable
<1>1. [Next]_vars => UNCHANGED world
  BY DEF Next, vars, DoMain, DiskOpen, FindPartitions, MountPartition, LastPartition, ReadConfig, DiskbootTryNetwork, DiskbootKernel, DiskbootRamdisk, DiskbootReturn, DiskReturn, TryNetworkBoot, NetworkInit, NetbootKernel, NetbootRamdisk, Flail, AbortKey, BootKernel, Halted
<1>2. UNCHANGED world => DiskBootable' = DiskBootable
  BY DEF world, DiskBootable, FirstConfig, HasConfig, ConfigOf, Bootable
<1> QED BY <1>1, <1>2

LEMMA ControlStep == ControlOK /\ [Next]_vars => ControlOK'
<1> SUFFICES ASSUME ControlOK, [Next]_vars PROVE ControlOK'
  OBVIOUS
<1> USE DEF ControlOK, Locations, vars, world, devices, buffers
<1>1. CASE DoMain BY <1>1 DEF DoMain
<1>2. CASE DiskOpen BY <1>2 DEF DiskOpen, IOError
<1>3. CASE FindPartitions BY <1>3 DEF FindPartitions, FirstPartition, IOError
<1>4. CASE MountPartition
  BY <1>4 DEF MountPartition, PartitionSet, NextPartition, IOError
<1>5. CASE LastPartition BY <1>5 DEF LastPartition
<1>6. CASE ReadConfig BY <1>6 DEF ReadConfig, NextPartition, IOError
<1>7. CASE DiskbootTryNetwork BY <1>7 DEF DiskbootTryNetwork, CloseAll
<1>8. CASE DiskbootKernel BY <1>8 DEF DiskbootKernel, IOError
<1>9. CASE DiskbootRamdisk BY <1>9 DEF DiskbootRamdisk, IOError, CloseAll
<1>10. CASE DiskbootReturn BY <1>10 DEF DiskbootReturn, CloseAll
<1>11. CASE DiskReturn BY <1>11 DEF DiskReturn, FreshLocals
<1>12. CASE TryNetworkBoot BY <1>12 DEF TryNetworkBoot, AlreadyTried
<1>13. CASE NetworkInit BY <1>13 DEF NetworkInit
<1>14. CASE NetbootKernel BY <1>14 DEF NetbootKernel, DiskBootForced
<1>15. CASE NetbootRamdisk BY <1>15 DEF NetbootRamdisk
<1>16. CASE Flail BY <1>16 DEF Flail, FreshLocals, NetworkBootFailed
<1>17. CASE AbortKey BY <1>17 DEF AbortKey, Polling
<1>18. CASE BootKernel BY <1>18 DEF BootKernel
<1>19. CASE Halted BY <1>19 DEF Halted
<1>20. CASE UNCHANGED vars BY <1>20
<1> QED BY <1>1, <1>2, <1>3, <1>4, <1>5, <1>6, <1>7, <1>8, <1>9, <1>10, <1>11, <1>12, <1>13, <1>14, <1>15, <1>16, <1>17, <1>18, <1>19, <1>20 DEF Next

LEMMA CountersStep == IInv /\ [Next]_vars => CountersOK'
<1> SUFFICES ASSUME IInv, [Next]_vars PROVE CountersOK'
  OBVIOUS
<1> USE NPartsAssumption, MaxKeysAssumption DEF IInv, TypeOK, CountersOK, vars, world, devices, buffers
<1>1. CASE DoMain BY <1>1 DEF DoMain
<1>2. CASE DiskOpen BY <1>2 DEF DiskOpen, IOError
<1>3. CASE FindPartitions BY <1>3 DEF FindPartitions, FirstPartition, IOError
<1>4. CASE MountPartition
  BY <1>4 DEF MountPartition, PartitionSet, NextPartition, IOError
<1>5. CASE LastPartition BY <1>5 DEF LastPartition
<1>6. CASE ReadConfig BY <1>6, ReadConfigConf DEF ReadConfig, NextPartition
<1>7. CASE DiskbootTryNetwork BY <1>7 DEF DiskbootTryNetwork, CloseAll
<1>8. CASE DiskbootKernel BY <1>8 DEF DiskbootKernel, IOError
<1>9. CASE DiskbootRamdisk BY <1>9 DEF DiskbootRamdisk, IOError, CloseAll
<1>10. CASE DiskbootReturn BY <1>10 DEF DiskbootReturn, CloseAll
<1>11. CASE DiskReturn BY <1>11 DEF DiskReturn, FreshLocals
<1>12. CASE TryNetworkBoot BY <1>12 DEF TryNetworkBoot, AlreadyTried
<1>13. CASE NetworkInit BY <1>13 DEF NetworkInit
<1>14. CASE NetbootKernel BY <1>14 DEF NetbootKernel, DiskBootForced
<1>15. CASE NetbootRamdisk BY <1>15 DEF NetbootRamdisk
<1>16. CASE Flail BY <1>16 DEF Flail, FreshLocals, NetworkBootFailed
<1>17. CASE AbortKey BY <1>17 DEF AbortKey, Polling
<1>18. CASE BootKernel BY <1>18 DEF BootKernel
<1>19. CASE Halted BY <1>19 DEF Halted
<1>20. CASE UNCHANGED vars BY <1>20
<1> QED BY <1>1, <1>2, <1>3, <1>4, <1>5, <1>6, <1>7, <1>8, <1>9, <1>10, <1>11, <1>12, <1>13, <1>14, <1>15, <1>16, <1>17, <1>18, <1>19, <1>20 DEF Next

LEMMA DevicesStep == DevicesOK /\ [Next]_vars => DevicesOK'
<1> SUFFICES ASSUME DevicesOK, [Next]_vars PROVE DevicesOK'
  OBVIOUS
<1> USE DEF DevicesOK, vars, world, devices, buffers
<1>1. CASE DoMain BY <1>1 DEF DoMain
<1>2. CASE DiskOpen BY <1>2 DEF DiskOpen, IOError
<1>3. CASE FindPartitions BY <1>3 DEF FindPartitions, FirstPartition, IOError
<1>4. CASE MountPartition
  BY <1>4 DEF MountPartition, PartitionSet, NextPartition, IOError
<1>5. CASE LastPartition BY <1>5 DEF LastPartition
<1>6. CASE ReadConfig BY <1>6 DEF ReadConfig, NextPartition, IOError
<1>7. CASE DiskbootTryNetwork BY <1>7 DEF DiskbootTryNetwork, CloseAll
<1>8. CASE DiskbootKernel BY <1>8 DEF DiskbootKernel, IOError
<1>9. CASE DiskbootRamdisk BY <1>9 DEF DiskbootRamdisk, IOError, CloseAll
<1>10. CASE DiskbootReturn BY <1>10 DEF DiskbootReturn, CloseAll
<1>11. CASE DiskReturn BY <1>11 DEF DiskReturn, FreshLocals
<1>12. CASE TryNetworkBoot BY <1>12 DEF TryNetworkBoot, AlreadyTried
<1>13. CASE NetworkInit BY <1>13 DEF NetworkInit
<1>14. CASE NetbootKernel BY <1>14 DEF NetbootKernel, DiskBootForced
<1>15. CASE NetbootRamdisk BY <1>15 DEF NetbootRamdisk
<1>16. CASE Flail BY <1>16 DEF Flail, FreshLocals, NetworkBootFailed
<1>17. CASE AbortKey BY <1>17 DEF AbortKey, Polling
<1>18. CASE BootKernel BY <1>18 DEF BootKernel
<1>19. CASE Halted BY <1>19 DEF Halted
<1>20. CASE UNCHANGED vars BY <1>20
<1> QED BY <1>1, <1>2, <1>3, <1>4, <1>5, <1>6, <1>7, <1>8, <1>9, <1>10, <1>11, <1>12, <1>13, <1>14, <1>15, <1>16, <1>17, <1>18, <1>19, <1>20 DEF Next

LEMMA BuffersStep == IInv /\ [Next]_vars => BuffersOK'
<1> SUFFICES ASSUME IInv, [Next]_vars PROVE BuffersOK'
  OBVIOUS
<1> USE DEF IInv, TypeOK, BuffersOK, vars, world, devices, buffers
<1>1. CASE DoMain BY <1>1 DEF DoMain
<1>2. CASE DiskOpen BY <1>2 DEF DiskOpen, IOError
<1>3. CASE FindPartitions BY <1>3 DEF FindPartitions, FirstPartition, IOError
<1>4. CASE MountPartition
  BY <1>4 DEF MountPartition, PartitionSet, NextPartition, IOError
<1>5. CASE LastPartition BY <1>5 DEF LastPartition
<1>6. CASE ReadConfig BY <1>6, ReadConfigConf DEF ReadConfig
<1>7. CASE DiskbootTryNetwork BY <1>7 DEF DiskbootTryNetwork, CloseAll
<1>8. CASE DiskbootKernel BY <1>8 DEF DiskbootKernel, IOError
<1>9. CASE DiskbootRamdisk BY <1>9 DEF DiskbootRamdisk, IOError, CloseAll
<1>10. CASE DiskbootReturn BY <1>10 DEF DiskbootReturn, CloseAll
<1>11. CASE DiskReturn BY <1>11 DEF DiskReturn, FreshLocals
<1>12. CASE TryNetworkBoot BY <1>12 DEF TryNetworkBoot, AlreadyTried
<1>13. CASE NetworkInit BY <1>13 DEF NetworkInit
<1>14. CASE NetbootKernel BY <1>14, NetfileConf DEF NetbootKernel, DiskBootForced
<1>15. CASE NetbootRamdisk BY <1>15 DEF NetbootRamdisk
<1>16. CASE Flail BY <1>16 DEF Flail, FreshLocals, NetworkBootFailed
<1>17. CASE AbortKey BY <1>17 DEF AbortKey, Polling
<1>18. CASE BootKernel BY <1>18 DEF BootKernel
<1>19. CASE Halted BY <1>19 DEF Halted
<1>20. CASE UNCHANGED vars BY <1>20
<1> QED BY <1>1, <1>2, <1>3, <1>4, <1>5, <1>6, <1>7, <1>8, <1>9, <1>10, <1>11, <1>12, <1>13, <1>14, <1>15, <1>16, <1>17, <1>18, <1>19, <1>20 DEF Next

LEMMA DevicesInvStep == IInv /\ [Next]_vars => DevicesInv'
<1> SUFFICES ASSUME IInv, [Next]_vars PROVE DevicesInv'
  OBVIOUS
<1> USE DEF IInv, TypeOK, ControlOK, DevicesOK, DevicesInv, NetPhase, vars, world, devices, buffers
<1>1. CASE DoMain BY <1>1 DEF DoMain
<1>2. CASE DiskOpen BY <1>2 DEF DiskOpen, IOError
<1>3. CASE FindPartitions BY <1>3 DEF FindPartitions, FirstPartition, IOError
<1>4. CASE MountPartition
  BY <1>4 DEF MountPartition, PartitionSet, NextPartition, IOError
<1>5. CASE LastPartition BY <1>5 DEF LastPartition
<1>6. CASE ReadConfig BY <1>6 DEF ReadConfig, NextPartition, IOError
<1>7. CASE DiskbootTryNetwork BY <1>7 DEF DiskbootTryNetwork, CloseAll
<1>8. CASE DiskbootKernel BY <1>8 DEF DiskbootKernel, IOError
<1>9. CASE DiskbootRamdisk BY <1>9 DEF DiskbootRamdisk, IOError, CloseAll
<1>10. CASE DiskbootReturn BY <1>10 DEF DiskbootReturn, CloseAll
<1>11. CASE DiskReturn BY <1>11 DEF DiskReturn, FreshLocals
<1>12. CASE TryNetworkBoot BY <1>12 DEF TryNetworkBoot, AlreadyTried
<1>13. CASE NetworkInit BY <1>13 DEF NetworkInit
<1>14. CASE NetbootKernel BY <1>14 DEF NetbootKernel, DiskBootForced
<1>15. CASE NetbootRamdisk BY <1>15 DEF NetbootRamdisk
<1>16. CASE Flail BY <1>16 DEF Flail, FreshLocals, NetworkBootFailed
<1>17. CASE AbortKey BY <1>17 DEF AbortKey, Polling
<1>18. CASE BootKernel BY <1>18 DEF BootKernel
<1>19. CASE Halted BY <1>19 DEF Halted
<1>20. CASE UNCHANGED vars BY <1>20
<1> QED BY <1>1, <1>2, <1>3, <1>4, <1>5, <1>6, <1>7, <1>8, <1>9, <1>10, <1>11, <1>12, <1>13, <1>14, <1>15, <1>16, <1>17, <1>18, <1>19, <1>20 DEF Next

LEMMA LocalsInvStep == IInv /\ [Next]_vars => LocalsInv'
<1> SUFFICES ASSUME IInv, [Next]_vars PROVE LocalsInv'
  OBVIOUS
<1> USE DEF IInv, TypeOK, BuffersOK, LocalsInv, Loadable, vars, world, devices, buffers
<1>1. CASE DoMain BY <1>1 DEF DoMain
<1>2. CASE DiskOpen BY <1>2 DEF DiskOpen, IOError
<1>3. CASE FindPartitions BY <1>3 DEF FindPartitions, FirstPartition, IOError
<1>4. CASE MountPartition
  BY <1>4 DEF MountPartition, PartitionSet, NextPartition, IOError
<1>5. CASE LastPartition BY <1>5 DEF LastPartition
<1>6. CASE ReadConfig
  <2>1. conf' \in Conf \/ pc' = "scan"
    BY <1>6, ReadConfigConf DEF ReadConfig
  <2> QED BY <1>6, <2>1 DEF ReadConfig, NextPartition, IOError
<1>7. CASE DiskbootTryNetwork BY <1>7 DEF DiskbootTryNetwork, CloseAll
<1>8. CASE DiskbootKernel BY <1>8 DEF DiskbootKernel, IOError
<1>9. CASE DiskbootRamdisk BY <1>9 DEF DiskbootRamdisk, IOError, CloseAll
<1>10. CASE DiskbootReturn BY <1>10 DEF DiskbootReturn, CloseAll
<1>11. CASE DiskReturn BY <1>11 DEF DiskReturn, FreshLocals
<1>12. CASE TryNetworkBoot BY <1>12 DEF TryNetworkBoot, AlreadyTried
<1>13. CASE NetworkInit BY <1>13 DEF NetworkInit
<1>14. CASE NetbootKernel
  <2>1. pc' = "net_ramdisk" => conf' \in Conf
    BY <1>14, NetfileConf DEF NetbootKernel
  <2> QED BY <1>14, <2>1 DEF NetbootKernel
<1>15. CASE NetbootRamdisk BY <1>15 DEF NetbootRamdisk
<1>16. CASE Flail BY <1>16 DEF Flail, FreshLocals, NetworkBootFailed
<1>17. CASE AbortKey BY <1>17 DEF AbortKey, Polling
<1>18. CASE BootKernel BY <1>18 DEF BootKernel
<1>19. CASE Halted BY <1>19 DEF Halted
<1>20. CASE UNCHANGED vars BY <1>20
<1> QED BY <1>1, <1>2, <1>3, <1>4, <1>5, <1>6, <1>7, <1>8, <1>9, <1>10, <1>11, <1>12, <1>13, <1>14, <1>15, <1>16, <1>17, <1>18, <1>19, <1>20 DEF Next

LEMMA TriedInvStep == IInv /\ [Next]_vars => TriedInv'
<1> SUFFICES ASSUME IInv, [Next]_vars PROVE TriedInv'
  OBVIOUS
<1> USE DEF IInv, TypeOK, ControlOK, CountersOK, TriedInv, DiskPhase, vars, world, devices, buffers
<1>1. CASE DoMain BY <1>1 DEF DoMain
<1>2. CASE DiskOpen BY <1>2 DEF DiskOpen, IOError
<1>3. CASE FindPartitions BY <1>3 DEF FindPartitions, FirstPartition, IOError
<1>4. CASE MountPartition
  BY <1>4 DEF MountPartition, PartitionSet, NextPartition, IOError
<1>5. CASE LastPartition BY <1>5 DEF LastPartition
<1>6. CASE ReadConfig BY <1>6 DEF ReadConfig, NextPartition, IOError
<1>7. CASE DiskbootTryNetwork BY <1>7 DEF DiskbootTryNetwork, CloseAll
<1>8. CASE DiskbootKernel BY <1>8 DEF DiskbootKernel, IOError
<1>9. CASE DiskbootRamdisk BY <1>9 DEF DiskbootRamdisk, IOError, CloseAll
<1>10. CASE DiskbootReturn BY <1>10 DEF DiskbootReturn, CloseAll
<1>11. CASE DiskReturn BY <1>11 DEF DiskReturn, FreshLocals
<1>12. CASE TryNetworkBoot BY <1>12 DEF TryNetworkBoot, AlreadyTried
<1>13. CASE NetworkInit BY <1>13 DEF NetworkInit
<1>14. CASE NetbootKernel BY <1>14 DEF NetbootKernel, DiskBootForced
<1>15. CASE NetbootRamdisk BY <1>15 DEF NetbootRamdisk
<1>16. CASE Flail BY <1>16 DEF Flail, FreshLocals, NetworkBootFailed
<1>17. CASE AbortKey BY <1>17 DEF AbortKey, Polling
<1>18. CASE BootKernel BY <1>18 DEF BootKernel
<1>19. CASE Halted BY <1>19 DEF Halted
<1>20. CASE UNCHANGED vars BY <1>20
<1> QED BY <1>1, <1>2, <1>3, <1>4, <1>5, <1>6, <1>7, <1>8, <1>9, <1>10, <1>11, <1>12, <1>13, <1>14, <1>15, <1>16, <1>17, <1>18, <1>19, <1>20 DEF Next

LEMMA DiskSourceInvStep == IInv /\ [Next]_vars => DiskSourceInv'
<1> SUFFICES ASSUME IInv, [Next]_vars PROVE DiskSourceInv'
  OBVIOUS
<1> USE DEF IInv, TypeOK, ControlOK, CountersOK, DiskSourceInv, LocalsInv, NoEarlierConfig, HasConfig, ConfigOf, vars, world, devices, buffers
<1>1. CASE DoMain BY <1>1 DEF DoMain
<1>2. CASE DiskOpen BY <1>2 DEF DiskOpen, IOError
<1>3. CASE FindPartitions BY <1>3 DEF FindPartitions, FirstPartition, IOError
<1>4. CASE MountPartition
  BY <1>4 DEF MountPartition, PartitionSet, NextPartition, IOError
<1>5. CASE LastPartition BY <1>5 DEF LastPartition
<1>6. CASE ReadConfig
  <2>1. CASE pc' = "diskboot" /\ ~ioerr'
    <3>1. conf' = ConfigOf(vol[i]) /\ ConfigOf(vol[i]) # NoConf /\ i' = i /\ vol' = vol
      BY <1>6, <2>1 DEF ReadConfig, IOError
    <3> QED BY <1>6, <2>1, <3>1, ReadConfigConf DEF ReadConfig, IOError
  <2>2. CASE pc' = "scan" /\ ~ioerr'
    <3>1. ConfigOf(vol[i]) = NoConf /\ i' = i + 1 /\ vol' = vol
      BY <1>6, <2>2 DEF ReadConfig, NextPartition, IOError
    <3> QED BY <1>6, <2>2, <3>1, ReadConfigConf DEF ReadConfig, IOError
  <2> QED BY <1>6, <2>1, <2>2 DEF ReadConfig, IOError
<1>7. CASE DiskbootTryNetwork BY <1>7 DEF DiskbootTryNetwork, CloseAll
<1>8. CASE DiskbootKernel BY <1>8 DEF DiskbootKernel, IOError
<1>9. CASE DiskbootRamdisk BY <1>9 DEF DiskbootRamdisk, IOError, CloseAll
<1>10. CASE DiskbootReturn BY <1>10 DEF DiskbootReturn, CloseAll
<1>11. CASE DiskReturn BY <1>11 DEF DiskReturn, FreshLocals
<1>12. CASE TryNetworkBoot BY <1>12 DEF TryNetworkBoot, AlreadyTried
<1>13. CASE NetworkInit BY <1>13 DEF NetworkInit
<1>14. CASE NetbootKernel BY <1>14 DEF NetbootKernel, DiskBootForced
<1>15. CASE NetbootRamdisk BY <1>15 DEF NetbootRamdisk
<1>16. CASE Flail BY <1>16 DEF Flail, FreshLocals, NetworkBootFailed
<1>17. CASE AbortKey BY <1>17 DEF AbortKey, Polling
<1>18. CASE BootKernel BY <1>18 DEF BootKernel
<1>19. CASE Halted BY <1>19 DEF Halted
<1>20. CASE UNCHANGED vars BY <1>20
<1> QED BY <1>1, <1>2, <1>3, <1>4, <1>5, <1>6, <1>7, <1>8, <1>9, <1>10, <1>11, <1>12, <1>13, <1>14, <1>15, <1>16, <1>17, <1>18, <1>19, <1>20 DEF Next

LEMMA NetSourceInvStep == IInv /\ [Next]_vars => NetSourceInv'
<1> SUFFICES ASSUME IInv, [Next]_vars PROVE NetSourceInv'
  OBVIOUS
<1> USE DEF IInv, TypeOK, BuffersOK, NetSourceInv, vars, world, devices, buffers
<1>1. CASE DoMain BY <1>1 DEF DoMain
<1>2. CASE DiskOpen BY <1>2 DEF DiskOpen, IOError
<1>3. CASE FindPartitions BY <1>3 DEF FindPartitions, FirstPartition, IOError
<1>4. CASE MountPartition
  BY <1>4 DEF MountPartition, PartitionSet, NextPartition, IOError
<1>5. CASE LastPartition BY <1>5 DEF LastPartition
<1>6. CASE ReadConfig BY <1>6 DEF ReadConfig, NextPartition, IOError
<1>7. CASE DiskbootTryNetwork BY <1>7 DEF DiskbootTryNetwork, CloseAll
<1>8. CASE DiskbootKernel BY <1>8 DEF DiskbootKernel, IOError
<1>9. CASE DiskbootRamdisk BY <1>9 DEF DiskbootRamdisk, IOError, CloseAll
<1>10. CASE DiskbootReturn BY <1>10 DEF DiskbootReturn, CloseAll
<1>11. CASE DiskReturn BY <1>11 DEF DiskReturn, FreshLocals
<1>12. CASE TryNetworkBoot BY <1>12 DEF TryNetworkBoot, AlreadyTried
<1>13. CASE NetworkInit BY <1>13 DEF NetworkInit
<1>14. CASE NetbootKernel BY <1>14 DEF NetbootKernel, DiskBootForced
<1>15. CASE NetbootRamdisk BY <1>15 DEF NetbootRamdisk
<1>16. CASE Flail BY <1>16 DEF Flail, FreshLocals, NetworkBootFailed
<1>17. CASE AbortKey BY <1>17 DEF AbortKey, Polling
<1>18. CASE BootKernel BY <1>18 DEF BootKernel
<1>19. CASE Halted BY <1>19 DEF Halted
<1>20. CASE UNCHANGED vars BY <1>20
<1> QED BY <1>1, <1>2, <1>3, <1>4, <1>5, <1>6, <1>7, <1>8, <1>9, <1>10, <1>11, <1>12, <1>13, <1>14, <1>15, <1>16, <1>17, <1>18, <1>19, <1>20 DEF Next

LEMMA GiveUpInvStep == IInv /\ [Next]_vars => GiveUpInv'
<1> SUFFICES ASSUME IInv, [Next]_vars PROVE GiveUpInv'
  OBVIOUS
<1> USE WorldConstant DEF IInv, TypeOK, ControlOK, CountersOK, GiveUpInv, TriedInv, vars, world, devices, buffers
<1>1. CASE DoMain BY <1>1 DEF DoMain
<1>2. CASE DiskOpen BY <1>2 DEF DiskOpen, IOError
<1>3. CASE FindPartitions BY <1>3 DEF FindPartitions, IOError, DiskBootable
<1>4. CASE MountPartition
  BY <1>4 DEF MountPartition, PartitionSet, NextPartition, IOError
<1>5. CASE LastPartition
  <2>1. ~ioerr => i = NParts + 1 /\ NoEarlierConfig
    BY <1>5, NPartsAssumption DEF LastPartition, DiskSourceInv
  <2> QED BY <1>5, <2>1, NoneDecides DEF LastPartition
<1>6. CASE ReadConfig BY <1>6 DEF ReadConfig, NextPartition, IOError
<1>7. CASE DiskbootTryNetwork BY <1>7 DEF DiskbootTryNetwork, CloseAll
<1>8. CASE DiskbootKernel
  <2>1. (~ioerr' /\ pc' = "diskboot_return") =>
          /\ i \in 1..NParts /\ NoEarlierConfig /\ HasConfig(vol[i])
          /\ ~Bootable(ConfigOf(vol[i]))
    BY <1>8, NPartsAssumption DEF DiskbootKernel, IOError, DiskSourceInv, Bootable, LocalsInv
  <2> QED BY <1>8, <2>1, FirstDecides DEF DiskbootKernel
<1>9. CASE DiskbootRamdisk
  <2>1. (~ioerr' /\ pc' = "diskboot_return") =>
          /\ i \in 1..NParts /\ NoEarlierConfig /\ HasConfig(vol[i])
          /\ ~Bootable(ConfigOf(vol[i]))
    BY <1>9, NPartsAssumption DEF DiskbootRamdisk, IOError, DiskSourceInv, Bootable, LocalsInv
  <2> QED BY <1>9, <2>1, FirstDecides DEF DiskbootRamdisk
<1>10. CASE DiskbootReturn BY <1>10 DEF DiskbootReturn, CloseAll
<1>11. CASE DiskReturn BY <1>11 DEF DiskReturn, FreshLocals
<1>12. CASE TryNetworkBoot BY <1>12 DEF TryNetworkBoot, AlreadyTried
<1>13. CASE NetworkInit BY <1>13 DEF NetworkInit
<1>14. CASE NetbootKernel BY <1>14 DEF NetbootKernel, DiskBootForced
<1>15. CASE NetbootRamdisk BY <1>15 DEF NetbootRamdisk
<1>16. CASE Flail BY <1>16 DEF Flail, FreshLocals, NetworkBootFailed
<1>17. CASE AbortKey BY <1>17 DEF AbortKey, Polling
<1>18. CASE BootKernel
  <2>1. (~ioerr' /\ pc' = "diskboot_return") =>
          /\ i \in 1..NParts /\ NoEarlierConfig /\ HasConfig(vol[i])
          /\ ~Bootable(ConfigOf(vol[i]))
    BY <1>18, NPartsAssumption DEF BootKernel, IOError, DiskSourceInv, Bootable, LocalsInv,
        BuffersOK
  <2> QED BY <1>18, <2>1, FirstDecides DEF BootKernel
<1>19. CASE Halted BY <1>19 DEF Halted
<1>20. CASE UNCHANGED vars BY <1>20
<1> QED BY <1>1, <1>2, <1>3, <1>4, <1>5, <1>6, <1>7, <1>8, <1>9, <1>10, <1>11, <1>12, <1>13, <1>14, <1>15, <1>16, <1>17, <1>18, <1>19, <1>20 DEF Next

-----------------------------------------------------------------------------
LEMMA NextPreserves == IInv /\ [Next]_vars => IInv'
<1> SUFFICES ASSUME IInv, [Next]_vars PROVE IInv'
  OBVIOUS
<1>1. WorldOK'
  BY WorldConstant DEF IInv, TypeOK, WorldOK, world
<1>2. ControlOK' /\ CountersOK' /\ DevicesOK' /\ BuffersOK'
  BY ControlStep, CountersStep, DevicesStep, BuffersStep DEF IInv, TypeOK
<1>3. /\ DevicesInv' /\ LocalsInv' /\ TriedInv' /\ DiskSourceInv'
      /\ NetSourceInv' /\ GiveUpInv'
  BY DevicesInvStep, LocalsInvStep, TriedInvStep, DiskSourceInvStep,
     NetSourceInvStep, GiveUpInvStep
<1> QED BY <1>1, <1>2, <1>3 DEF IInv, TypeOK

LEMMA SpecIInv == Spec => []IInv
  BY InitEstablishes, NextPreserves, PTL DEF Spec

(* Every variable keeps its type; the loop variable and the partition set  *)
(* stay within the partition table.                                        *)
THEOREM TypeCorrect == Spec => []TypeOK
<1>1. IInv => TypeOK BY DEF IInv
<1> QED BY SpecIInv, <1>1, PTL

(* network_init() is called at most once.                                  *)
THEOREM NetworkOnce == Spec => []NetworkTriedOnce
<1>1. IInv => NetworkTriedOnce BY DEF IInv, TriedInv, NetworkTriedOnce
<1> QED BY SpecIInv, <1>1, PTL

(* Files are read only from an open disk and the file system of the        *)
(* partition under examination.                                            *)
THEOREM MountedReads == Spec => []ReadsAreMounted
<1>1. IInv => ReadsAreMounted BY DEF IInv, DevicesInv, ReadsAreMounted
<1> QED BY SpecIInv, <1>1, PTL

(* boot_kernel() runs with disk, file system and (from the network) the    *)
(* network closed.                                                         *)
THEOREM HandOff == Spec => []CleanHandOff
<1>1. IInv => CleanHandOff
  BY DEF IInv, DevicesInv, NetSourceInv, CleanHandOff, NetPhase
<1> QED BY SpecIInv, <1>1, PTL

(* A disk boot starts the kernel and ramdisk of the first configuration.   *)
THEOREM FirstConfigBooted == Spec => []BootsFirstConfig
<1>1. IInv => BootsFirstConfig
  <2> SUFFICES ASSUME IInv, pc = "running", source = "disk", ~ioerr
               PROVE  /\ \E p \in 1..NParts : FirstConfig(p) /\ conf = ConfigOf(vol[p])
                      /\ conf.kernel = "bzImage" /\ kernel_buf = "whole"
                      /\ initrd = IF conf.ramdisk = "present" THEN "whole" ELSE "none"
    BY DEF BootsFirstConfig
  <2>1. i \in 1..NParts /\ FirstConfig(i) /\ conf = ConfigOf(vol[i])
    BY NPartsAssumption
    DEF IInv, TypeOK, CountersOK, DiskSourceInv, NoEarlierConfig, FirstConfig
  <2>2. kernel_buf = "whole" /\ conf.kernel = "bzImage"
    BY DEF IInv, TypeOK, BuffersOK, LocalsInv
  <2>3. initrd = IF conf.ramdisk = "present" THEN "whole" ELSE "none"
    BY DEF IInv, DiskSourceInv
  <2> QED BY <2>1, <2>2, <2>3
<1> QED BY SpecIInv, <1>1, PTL

(* A network boot starts the kernel of the server's configuration, never   *)
(* one with force-disk-boot.                                               *)
THEOREM NetConfigBooted == Spec => []NetBootsItsConfig
<1>1. IInv => NetBootsItsConfig
  BY DEF IInv, NetSourceInv, LocalsInv, NetBootsItsConfig
<1> QED BY SpecIInv, <1>1, PTL

(* The loader gives up only on an unbootable disk.                         *)
THEOREM GivesUpOnlyIfUnbootable == Spec => []SpinsOnlyIfUnbootable
<1>1. IInv => SpinsOnlyIfUnbootable
  BY DEF IInv, GiveUpInv, SpinsOnlyIfUnbootable
<1> QED BY SpecIInv, <1>1, PTL

-----------------------------------------------------------------------------
(***************************************************************************)
(* The end of the boot: boot_kernel() and start_kernel() as Loader models  *)
(* them, for every layout of memory and all sizes of kernel and ramdisk.   *)
(***************************************************************************)

(* The natural numbers are well-ordered.                                   *)
LEMMA NatOrder ==
  \E R : IsWellFoundedOn(R, Nat) /\ \A x, y \in Nat : x < y => <<x, y>> \in R
<1> DEFINE R == OpToRel(<, Nat)
<1>1. IsWellFoundedOn(R, Nat)
  BY NatLessThanWellFounded, Zenon
<1>2. \A x, y \in Nat : x < y => <<x, y>> \in R
  BY Zenon DEF OpToRel
<1> HIDE DEF R
<1> QED BY <1>1, <1>2

LEMMA Least ==
  ASSUME NEW T, T \subseteq Nat, T # {}
  PROVE  \E m \in T : \A n \in T : ~(n < m)
<1>1. PICK R : IsWellFoundedOn(R, Nat) /\ \A x, y \in Nat : x < y => <<x, y>> \in R
  BY NatOrder, Zenon
<1>2. IsWellFoundedOn(R, Nat)
  BY <1>1
<1>3. PICK m \in T : \A n \in T : ~(<<n, m>> \in R)
  BY <1>2, WFMin, Zenon
<1>4. \A n \in T : ~(n < m)
  BY <1>1, <1>3
<1> QED BY <1>4

(* Memory m when the first n of the units at from have been copied to to.  *)
Copied(m, to, from, n) ==
  [a \in DOMAIN m |-> IF a \in to .. to + n - 1 THEN m[from + (a - to)] ELSE m[a]]

(* One more unit, with a destination below its source: what is read has    *)
(* not been overwritten yet.                                               *)
LEMMA OneMore ==
  ASSUME NEW m, DOMAIN m \subseteq Int, m = [a \in DOMAIN m |-> m[a]],
         NEW to \in Nat, NEW from \in Nat, to =< from,
         NEW n \in Nat, n > 0, from + n - 1 \in DOMAIN m
  PROVE  Copied(m, to, from, n) =
         [Copied(m, to, from, n - 1) EXCEPT ![to + n - 1] = Copied(m, to, from, n - 1)[from + n - 1]]
<1> DEFINE c == Copied(m, to, from, n - 1)
<1>1. /\ DOMAIN c = DOMAIN m
      /\ \A a \in DOMAIN m : c[a] = IF a \in to .. to + n - 2 THEN m[from + (a - to)] ELSE m[a]
  BY DEF Copied
<1>2. c[from + n - 1] = m[from + n - 1]
  BY <1>1
<1>3. \A a \in DOMAIN m : Copied(m, to, from, n)[a] =
           IF a = to + n - 1 THEN m[from + n - 1] ELSE c[a]
  <2> TAKE a \in DOMAIN m
  <2>1. a \in Int
    OBVIOUS
  <2>2. Copied(m, to, from, n)[a] = IF a \in to .. to + n - 1 THEN m[from + (a - to)] ELSE m[a]
    BY DEF Copied
  <2>3. CASE a = to + n - 1
    <3>1. a \in to .. to + n - 1 /\ from + (a - to) = from + n - 1
      BY <2>3
    <3> QED BY <2>2, <2>3, <3>1
  <2>4. CASE a # to + n - 1
    <3>1. (a \in to .. to + n - 1) <=> (a \in to .. to + n - 2)
      BY <2>1, <2>4
    <3> QED BY <1>1, <2>2, <2>4, <3>1
  <2> QED BY <2>3, <2>4
<1>4. Copied(m, to, from, n) = [a \in DOMAIN m |-> IF a = to + n - 1 THEN m[from + n - 1] ELSE c[a]]
  <2>1. Copied(m, to, from, n) = [a \in DOMAIN m |-> Copied(m, to, from, n)[a]]
    BY DEF Copied
  <2> QED BY <1>3, <2>1
<1>5. [c EXCEPT ![to + n - 1] = c[from + n - 1]] =
      [a \in DOMAIN m |-> IF a = to + n - 1 THEN c[from + n - 1] ELSE c[a]]
  BY <1>1
<1> QED BY <1>2, <1>4, <1>5

(* MEMCPY() of units that lie above their destination copies them all,     *)
(* also when the two ranges overlap.                                       *)
LEMMA Copies ==
  ASSUME NEW m, DOMAIN m \subseteq Int, m = [a \in DOMAIN m |-> m[a]],
         NEW to \in Nat \ {0}, NEW from \in Nat, to =< from,
         NEW cnt \in Nat, from .. from + cnt - 1 \subseteq DOMAIN m
  PROVE  MEMCPY(m, to, from, cnt) = Copied(m, to, from, cnt)
<1> DEFINE Step(f, n) == IF n = 0 THEN m
                         ELSE [f[n - 1] EXCEPT ![to + n - 1] = f[n - 1][from + n - 1]]
           F == CHOOSE f : f = [n \in 0 .. cnt |-> Step(f, n)]
           g == [n \in 0 .. cnt |-> Copied(m, to, from, n)]
<1>1. MEMCPY(m, to, from, cnt) = F[cnt]
  BY DEF MEMCPY
<1>2. \A n \in 0 .. cnt : Copied(m, to, from, n) = Step(g, n)
  <2> TAKE n \in 0 .. cnt
  <2>1. CASE n = 0
    <3>1. \A a \in DOMAIN m : a \notin to .. to + 0 - 1
      OBVIOUS
    <3>2. Copied(m, to, from, 0) = [a \in DOMAIN m |-> m[a]]
      BY <3>1 DEF Copied
    <3> QED BY <2>1, <3>2
  <2>2. CASE n # 0
    <3>1. n \in Nat /\ n > 0 /\ from + n - 1 \in DOMAIN m /\ n - 1 \in 0 .. cnt
      BY <2>2
    <3>2. Copied(m, to, from, n) =
          [Copied(m, to, from, n - 1) EXCEPT ![to + n - 1] = Copied(m, to, from, n - 1)[from + n - 1]]
      BY <3>1, OneMore
    <3>3. g[n - 1] = Copied(m, to, from, n - 1)
      BY <3>1
    <3> QED BY <2>2, <3>2, <3>3
  <2> QED BY <2>1, <2>2
<1>3. g = [n \in 0 .. cnt |-> Step(g, n)]
  BY <1>2
<1>4. F = [n \in 0 .. cnt |-> Step(F, n)]
  <2> HIDE DEF g, Step
  <2> QED BY <1>3
<1>5. \A n \in 0 .. cnt : F[n] = Step(F, n)
  <2> HIDE DEF F, Step
  <2> QED BY <1>4
<1>6. \A n \in 0 .. cnt : F[n] = g[n]
  <2> DEFINE T == {n \in 0 .. cnt : F[n] # g[n]}
  <2> SUFFICES ASSUME T # {} PROVE FALSE
    OBVIOUS
  <2>1. T \subseteq Nat
    OBVIOUS
  <2>2. PICK n \in T : \A j \in T : ~(j < n)
    <3> HIDE DEF T
    <3> QED BY <2>1, Least
  <2>3. n \in 0 .. cnt /\ F[n] # g[n]
    BY <2>2
  <2>4. n # 0
    <3>1. F[0] = m /\ g[0] = m
      <4>1. 0 \in 0 .. cnt
        OBVIOUS
      <4>2. g[0] = Step(g, 0)
        BY <1>2, <4>1
      <4> HIDE DEF F, g
      <4> QED BY <1>5, <4>1, <4>2
    <3> QED BY <2>3, <3>1
  <2>5. n - 1 \in 0 .. cnt /\ n - 1 < n
    BY <2>3, <2>4
  <2>6. F[n - 1] = g[n - 1]
    BY <2>2, <2>5
  <2>7. Step(F, n) = Step(g, n)
    <3> HIDE DEF F, g
    <3> QED BY <2>6, <2>4
  <2>8. g[n] = Step(g, n)
    BY <1>2, <2>3
  <2> HIDE DEF F, g, Step
  <2> QED BY <1>5, <2>3, <2>7, <2>8
<1>7. F[cnt] = g[cnt]
  <2>1. cnt \in 0 .. cnt
    OBVIOUS
  <2> HIDE DEF F, g
  <2> QED BY <1>6, <2>1
<1>8. g[cnt] = Copied(m, to, from, cnt)
  OBVIOUS
<1> QED BY <1>1, <1>7, <1>8

-----------------------------------------------------------------------------
(* What loading has put into memory.                                       *)
LEMMA LoadedHolds ==
  ASSUME Layout, NEW s \in Setups, AllPlaced
  PROVE  /\ Loaded(s) = [a \in 1 .. Top |-> Loaded(s)[a]]
         /\ s.k \in Nat /\ s.k_len \in Nat /\ s.r \in Nat /\ s.r_len \in Nat
         /\ s.stack \in InitrdStart + 1 .. Top /\ s.setup_sects \in Nat
         /\ s.k_len > 0
         /\ \A j \in 0 .. s.k_len - 1 : /\ s.k + j \in InitrdStart + 1 .. Top
                                        /\ Loaded(s)[s.k + j] = <<"kernel", j>>
         /\ s.r # 0 => \A j \in 0 .. s.r_len - 1 :
                           /\ s.r + j \in InitrdStart + 1 .. Top
                           /\ Loaded(s)[s.r + j] = <<"ramdisk", j>>
         /\ Loaded(s)[s.stack] = <<"stack", 0>>
<1>1. Placed(s)
  BY DEF AllPlaced
<1>2. /\ s.k \in Nat /\ s.k_len \in Nat /\ s.r \in Nat /\ s.r_len \in Nat
      /\ s.stack \in Nat /\ s.setup_sects \in Nat /\ s.k_len > 0
  BY <1>1 DEF Placed
<1>3. /\ InitrdStart \in Nat /\ Top \in Nat
  BY DEF Layout
<1>4. s.stack \in InitrdStart + 1 .. Top /\ s.stack \in 1 .. Top
  BY <1>1, <1>3 DEF Placed
<1> DEFINE K == s.k .. s.k + s.k_len - 1
           R == s.r .. s.r + s.r_len - 1
<1>5. K \subseteq (InitrdStart + 1 .. Top) \ {s.stack}
  BY <1>1 DEF Placed, Units
<1>6. s.r # 0 => R \subseteq (InitrdStart + 1 .. Top) \ ({s.stack} \cup K)
  BY <1>1 DEF Placed, Units
<1>7. Loaded(s) =
      [a \in 1 .. Top |->
         IF a \in K THEN <<"kernel", a - s.k>>
         ELSE IF s.r # 0 /\ a \in R THEN <<"ramdisk", a - s.r>>
         ELSE IF a = s.stack THEN <<"stack", 0>> ELSE <<"other", 0>>]
  BY DEF Loaded, Parts, Units
<1>8. \A j \in 0 .. s.k_len - 1 : /\ s.k + j \in InitrdStart + 1 .. Top
                                  /\ Loaded(s)[s.k + j] = <<"kernel", j>>
  <2> TAKE j \in 0 .. s.k_len - 1
  <2>1. s.k + j \in K
    BY <1>2
  <2>2. s.k + j \in InitrdStart + 1 .. Top /\ s.k + j \in 1 .. Top
    BY <1>3, <1>5, <2>1
  <2>3. (s.k + j) - s.k = j
    BY <1>2
  <2> HIDE DEF K, R
  <2> QED BY <1>7, <2>1, <2>2, <2>3
<1>9. ASSUME s.r # 0, NEW j \in 0 .. s.r_len - 1
      PROVE  s.r + j \in InitrdStart + 1 .. Top /\ Loaded(s)[s.r + j] = <<"ramdisk", j>>
  <2>1. s.r + j \in R
    BY <1>2
  <2>2. s.r + j \in InitrdStart + 1 .. Top /\ s.r + j \in 1 .. Top /\ s.r + j \notin K
    BY <1>3, <1>6, <1>9, <2>1
  <2>3. (s.r + j) - s.r = j
    BY <1>2
  <2> HIDE DEF K, R
  <2> QED BY <1>7, <1>9, <2>1, <2>2, <2>3
<1>10. s.stack \notin K /\ (s.r # 0 => s.stack \notin R)
  BY <1>5, <1>6
<1>11. Loaded(s)[s.stack] = <<"stack", 0>>
  <2> HIDE DEF K, R
  <2> QED BY <1>4, <1>7, <1>10
<1>12. Loaded(s) = [a \in 1 .. Top |-> Loaded(s)[a]]
  BY DEF Loaded
<1> QED BY <1>2, <1>4, <1>8, <1>9, <1>11, <1>12

(* boot_kernel() clears the place of the kernel and copies it there: above *)
(* the kernel nothing changes.                                             *)
LEMMA KernelArrives ==
  ASSUME Layout, AllPlaced, NEW s \in Setups, Fits(s)
  PROVE  KernelCopied(
           MEMCPY(MEMSET(Loaded(s), kernel_start, KERNEL_BUFFER),
                       kernel_start, s.k + (s.setup_sects + 1), s.k_len - (s.setup_sects + 1)), s)
<1> DEFINE L == Loaded(s)
           m == MEMSET(L, kernel_start, KERNEL_BUFFER)
           from == s.k + (s.setup_sects + 1)
           cnt == s.k_len - (s.setup_sects + 1)
<1>1. /\ kernel_start \in Nat \ {0} /\ KERNEL_BUFFER \in Nat /\ InitrdStart \in Nat /\ Top \in Nat
      /\ kernel_start + KERNEL_BUFFER =< InitrdStart /\ InitrdStart =< Top
  BY DEF Layout
<1>2. s.k \in Nat /\ s.k_len \in Nat /\ s.setup_sects \in Nat /\ s.k_len > 0
  BY LoadedHolds
<1>2a. \A j \in 0 .. s.k_len - 1 : /\ s.k + j \in InitrdStart + 1 .. Top
                                   /\ L[s.k + j] = <<"kernel", j>>
  BY LoadedHolds
<1>2b. L = [a \in 1 .. Top |-> L[a]]
  BY LoadedHolds
<1>3. s.setup_sects < s.k_len /\ kernel_start + s.k_len - s.setup_sects - 1 =< InitrdStart
  BY DEF Fits
<1> HIDE DEF L
<1>4. m = [a \in 1 .. Top |-> IF a \in kernel_start .. kernel_start + KERNEL_BUFFER - 1
                              THEN <<"zero", 0>> ELSE L[a]]
  BY <1>2b DEF MEMSET
<1>5. DOMAIN m = 1 .. Top /\ m = [a \in DOMAIN m |-> m[a]]
  BY <1>4
<1>6. \A a \in InitrdStart .. Top : a \in 1 .. Top /\ m[a] = L[a]
  BY <1>1, <1>4
<1> HIDE DEF m
<1>7. from \in Nat /\ cnt \in Nat /\ kernel_start + cnt =< InitrdStart
  BY <1>1, <1>2, <1>3
<1>8. ASSUME NEW j \in s.setup_sects + 1 .. s.k_len - 1 PROVE m[s.k + j] = <<"kernel", j>>
  <2>1. j \in 0 .. s.k_len - 1
    BY <1>2
  <2>2. s.k + j \in InitrdStart + 1 .. Top /\ L[s.k + j] = <<"kernel", j>>
    BY <1>2a, <2>1
  <2>3. s.k + j \in InitrdStart .. Top
    BY <1>1, <2>2
  <2> QED BY <1>6, <2>2, <2>3
<1>9. from .. from + cnt - 1 \subseteq DOMAIN m
  <2> SUFFICES ASSUME NEW a \in from .. from + cnt - 1 PROVE a \in 1 .. Top
    BY <1>5
  <2>1. a - s.k \in 0 .. s.k_len - 1
    BY <1>2, <1>7
  <2>2. s.k + (a - s.k) \in InitrdStart + 1 .. Top
    BY <1>2a, <2>1
  <2>3. s.k + (a - s.k) = a
    BY <1>2, <1>7
  <2> QED BY <1>1, <2>2, <2>3
<1>10. kernel_start =< from
  <2>1. 0 \in 0 .. s.k_len - 1
    BY <1>2
  <2>2. s.k + 0 \in InitrdStart + 1 .. Top
    BY <1>2a, <2>1
  <2> QED BY <1>1, <1>2, <2>2
<1>11. MEMCPY(m, kernel_start, from, cnt) = Copied(m, kernel_start, from, cnt)
  <2>1. DOMAIN m \subseteq Int
    BY <1>1, <1>5
  <2> HIDE DEF from, cnt
  <2> QED BY <1>1, <1>5, <1>7, <1>9, <1>10, <2>1, Copies
<1> DEFINE c == Copied(m, kernel_start, from, cnt)
<1>12. /\ c = [a \in 1 .. Top |-> c[a]]
       /\ \A a \in 1 .. Top : c[a] = IF a \in kernel_start .. kernel_start + cnt - 1
                                     THEN m[from + (a - kernel_start)] ELSE m[a]
  BY <1>5 DEF Copied
<1>13. \A a \in InitrdStart .. Top : c[a] = L[a]
  <2> HIDE DEF c, from, cnt
  <2> QED BY <1>1, <1>6, <1>7, <1>12
<1>14. ASSUME NEW j \in s.setup_sects + 1 .. s.k_len - 1
       PROVE  c[kernel_start + j - (s.setup_sects + 1)] = <<"kernel", j>>
  <2> DEFINE a == kernel_start + j - (s.setup_sects + 1)
  <2>1. a \in kernel_start .. kernel_start + cnt - 1 /\ a \in 1 .. Top
    BY <1>1, <1>2, <1>7
  <2>2. from + (a - kernel_start) = s.k + j
    BY <1>1, <1>2
  <2>3. c[a] = m[s.k + j]
    <3> HIDE DEF a, c, from, cnt
    <3> QED BY <1>12, <2>1, <2>2
  <2> QED BY <1>8, <2>3
<1> HIDE DEF c
<1>15. KernelCopied(c, s)
  BY <1>12, <1>13, <1>14 DEF KernelCopied, L
<1> QED BY <1>11, <1>15 DEF c, m, L

(* start_kernel() copies the ramdisk downwards: kernel and stack stay as   *)
(* they are.                                                               *)
HandedOn(m, s) ==
  /\ \A j \in s.setup_sects + 1 .. s.k_len - 1 :
         m[kernel_start + j - (s.setup_sects + 1)] = <<"kernel", j>>
  /\ s.r # 0 => \A j \in 0 .. s.r_len - 1 : m[InitrdStart + j] = <<"ramdisk", j>>
  /\ m[s.stack] = <<"stack", 0>>

LEMMA RamdiskArrives ==
  ASSUME Layout, AllPlaced, NEW s \in Setups, Fits(s), s.r # 0, s.r_len # 0,
         NEW m, KernelCopied(m, s)
  PROVE  HandedOn(MEMCPY(m, InitrdStart, s.r, s.r_len), s)
<1> DEFINE L == Loaded(s)
           c == Copied(m, InitrdStart, s.r, s.r_len)
<1>1. /\ kernel_start \in Nat \ {0} /\ KERNEL_BUFFER \in Nat /\ InitrdStart \in Nat \ {0} /\ Top \in Nat
      /\ kernel_start + KERNEL_BUFFER =< InitrdStart /\ InitrdStart =< Top
  BY DEF Layout
<1>2. /\ s.k \in Nat /\ s.k_len \in Nat /\ s.setup_sects \in Nat
      /\ s.r \in Nat /\ s.r_len \in Nat /\ s.stack \in InitrdStart + 1 .. Top
  BY LoadedHolds
<1>3. /\ s.setup_sects < s.k_len /\ kernel_start + s.k_len - s.setup_sects - 1 =< InitrdStart
      /\ InitrdStart + s.r_len =< s.stack
  BY DEF Fits
<1>4. /\ \A j \in 0 .. s.r_len - 1 : /\ s.r + j \in InitrdStart + 1 .. Top
                                     /\ L[s.r + j] = <<"ramdisk", j>>
      /\ L[s.stack] = <<"stack", 0>>
  BY LoadedHolds
<1>5. /\ m = [a \in 1 .. Top |-> m[a]] /\ DOMAIN m = 1 .. Top
      /\ \A a \in InitrdStart .. Top : m[a] = L[a]
  BY DEF KernelCopied
<1>6. \A j \in s.setup_sects + 1 .. s.k_len - 1 :
          m[kernel_start + j - (s.setup_sects + 1)] = <<"kernel", j>>
  BY DEF KernelCopied
<1> HIDE DEF L
<1>7. ASSUME NEW j \in 0 .. s.r_len - 1
      PROVE  s.r + j \in InitrdStart + 1 .. Top /\ s.r + j \in 1 .. Top /\ m[s.r + j] = <<"ramdisk", j>>
  <2>1. s.r + j \in InitrdStart + 1 .. Top /\ L[s.r + j] = <<"ramdisk", j>>
    BY <1>4
  <2>2. s.r + j \in InitrdStart .. Top /\ s.r + j \in 1 .. Top
    BY <1>1, <2>1
  <2> QED BY <1>5, <2>1, <2>2
<1>8. MEMCPY(m, InitrdStart, s.r, s.r_len) = c
  <2>1. 0 \in 0 .. s.r_len - 1
    BY <1>2
  <2>2. InitrdStart =< s.r
    BY <1>1, <1>2, <1>7, <2>1
  <2>3. s.r .. s.r + s.r_len - 1 \subseteq DOMAIN m
    <3> SUFFICES ASSUME NEW a \in s.r .. s.r + s.r_len - 1 PROVE a \in 1 .. Top
      BY <1>5
    <3>1. a - s.r \in 0 .. s.r_len - 1 /\ s.r + (a - s.r) = a
      BY <1>2
    <3> QED BY <1>7, <3>1
  <2>4. DOMAIN m \subseteq Int
    BY <1>1, <1>5
  <2>5. m = [a \in DOMAIN m |-> m[a]]
    BY <1>5
  <2> QED BY <1>1, <1>2, <2>2, <2>3, <2>4, <2>5, Copies
<1>9. /\ DOMAIN c = 1 .. Top
      /\ \A a \in 1 .. Top : c[a] = IF a \in InitrdStart .. InitrdStart + s.r_len - 1
                                    THEN m[s.r + (a - InitrdStart)] ELSE m[a]
  BY <1>5 DEF Copied
<1> HIDE DEF c
<1>10. ASSUME NEW j \in s.setup_sects + 1 .. s.k_len - 1
       PROVE  c[kernel_start + j - (s.setup_sects + 1)] = <<"kernel", j>>
  <2>1. /\ kernel_start + j - (s.setup_sects + 1) \in 1 .. Top
        /\ kernel_start + j - (s.setup_sects + 1) < InitrdStart
    BY <1>1, <1>2, <1>3
  <2>2. c[kernel_start + j - (s.setup_sects + 1)] = m[kernel_start + j - (s.setup_sects + 1)]
    BY <1>1, <1>2, <1>9, <2>1, SMTT(30)
  <2> QED BY <1>6, <2>2
<1>11. ASSUME NEW j \in 0 .. s.r_len - 1 PROVE c[InitrdStart + j] = <<"ramdisk", j>>
  <2>1. /\ InitrdStart + j \in InitrdStart .. InitrdStart + s.r_len - 1
        /\ InitrdStart + j \in 1 .. Top
        /\ s.r + ((InitrdStart + j) - InitrdStart) = s.r + j
    BY <1>1, <1>2, <1>3
  <2> QED BY <1>7, <1>9, <2>1
<1>12. c[s.stack] = <<"stack", 0>>
  <2>1. s.stack \in 1 .. Top /\ s.stack \in InitrdStart .. Top
        /\ s.stack \notin InitrdStart .. InitrdStart + s.r_len - 1
    BY <1>1, <1>2, <1>3
  <2> QED BY <1>4, <1>5, <1>9, <2>1
<1>13. HandedOn(c, s)
  BY <1>10, <1>11, <1>12 DEF HandedOn
<1> QED BY <1>8, <1>13

-----------------------------------------------------------------------------
LEMMA HandInit ==
  ASSUME LoaderInit PROVE HandInv
BY DEF LoaderInit, HandInv, HandsOver, high_base_mem, gdt_base

(* Whatever is printed or converted before boot_kernel().                  *)
LEMMA HandBefore ==
  ASSUME HandInv, DoMainPrints \/ Sprintf \/ UNCHANGED loader_vars
  PROVE  HandInv'
<1>1. CASE DoMainPrints \/ Sprintf
  <2>1. stage = "main" /\ stage' \in {"main", "sprintf"} /\ low' = low
    BY <1>1 DEF DoMainPrints, Sprintf
  <2> QED BY <2>1 DEF HandInv, HandsOver
<1>2. CASE UNCHANGED loader_vars
  BY <1>2 DEF loader_vars, HandInv, HandsOver, Fits, KernelCopied, SetupLen
<1> QED BY <1>1, <1>2

LEMMA HandBootKernel ==
  ASSUME HandInv, boot_kernel
  PROVE  HandInv'
<1>1. PICK s \in Setups : /\ setup' = s /\ mem' = Loaded(s)
                          /\ stage' = IF s.signature THEN "copy" ELSE "main"
  BY DEF boot_kernel
<1>2. low' = low /\ stage' \in {"copy", "main"}
  BY <1>1 DEF boot_kernel
<1> QED BY <1>1, <1>2 DEF HandInv, HandsOver

LEMMA HandCopyKernel ==
  ASSUME Layout, AllPlaced, HandInv, CopyKernel
  PROVE  HandInv'
<1>1. /\ stage = "copy" /\ stage' = "params" /\ setup' = setup /\ low' = low
      /\ mem' = MEMCPY(MEMSET(mem, kernel_start, KERNEL_BUFFER), kernel_start,
                            setup.k + (setup.setup_sects + 1), setup.k_len - (setup.setup_sects + 1))
  BY DEF CopyKernel, SetupLen
<1>2. setup \in Setups /\ mem = Loaded(setup)
  BY <1>1 DEF HandInv
<1>3. Fits(setup) => KernelCopied(mem', setup)
  BY <1>1, <1>2, KernelArrives
<1>4. (Fits(setup) => KernelCopied(mem, setup))'
  <2>1. Fits(setup') => KernelCopied(mem', setup')
    BY <1>1, <1>3
  <2> QED BY <2>1 DEF Fits, KernelCopied, Loaded
<1>5. DOMAIN low' = high_base_mem .. gdt_base
  BY <1>1 DEF HandInv
<1> QED BY <1>1, <1>2, <1>4, <1>5 DEF HandInv, HandsOver

LEMMA HandCreateParams ==
  ASSUME Layout, AllPlaced, HandInv, CreateParams
  PROVE  HandInv'
<1>1. /\ stage = "params" /\ stage' = "start" /\ setup' = setup /\ low' = low /\ mem' = mem
      /\ bp' = sysdeps_create_boot_params(mem[setup.k], setup)
  BY DEF CreateParams
<1>2. setup \in Setups /\ (Fits(setup) => KernelCopied(mem, setup))
  BY <1>1 DEF HandInv
<1>3. Fits(setup) => mem[setup.k] = <<"kernel", 0>>
  <2> SUFFICES ASSUME Fits(setup) PROVE mem[setup.k] = <<"kernel", 0>>
    OBVIOUS
  <2>1. \A a \in InitrdStart .. Top : mem[a] = Loaded(setup)[a]
    BY <1>2 DEF KernelCopied
  <2>2. setup.k \in Nat /\ setup.k_len \in Nat /\ setup.k_len > 0 /\ InitrdStart \in Nat /\ Top \in Nat
    BY <1>2, LoadedHolds DEF Layout
  <2>3. 0 \in 0 .. setup.k_len - 1
    BY <2>2
  <2>4. setup.k + 0 \in InitrdStart + 1 .. Top /\ Loaded(setup)[setup.k + 0] = <<"kernel", 0>>
    BY <1>2, <2>3, LoadedHolds
  <2>5. setup.k + 0 = setup.k /\ setup.k \in InitrdStart .. Top
    BY <2>2, <2>4
  <2> QED BY <2>1, <2>4, <2>5
<1>4. (Fits(setup) => KernelCopied(mem, setup))'
  BY <1>1, <1>2 DEF Fits, KernelCopied, Loaded
<1>5. DOMAIN low' = high_base_mem .. gdt_base
  BY <1>1 DEF HandInv
<1>6. Fits(setup) => bp' = sysdeps_create_boot_params(<<"kernel", 0>>, setup)
  BY <1>1, <1>3
<1>7. (Fits(setup) => bp = sysdeps_create_boot_params(<<"kernel", 0>>, setup))'
  BY <1>1, <1>6
<1> QED BY <1>1, <1>2, <1>4, <1>5, <1>7 DEF HandInv, HandsOver

(* The fields of the boot parameters that start_kernel() uses.             *)
LEMMA Params ==
  ASSUME NEW h, NEW s, NEW b, b = sysdeps_create_boot_params(h, s)
  PROVE  /\ b.header = h /\ b.kernel_start = kernel_start /\ b.cmdline_offset = 7
         /\ s.r # 0 /\ s.r_len # 0 => b.initrd_start = s.r /\ b.initrd_size = s.r_len
         /\ s.r = 0 \/ s.r_len = 0 => b.initrd_start = 0
         /\ LET t == [b EXCEPT !.initrd_start = InitrdStart]
            IN  /\ t.header = h /\ t.kernel_start = kernel_start /\ t.cmdline_offset = 7
                /\ t.initrd_start = InitrdStart /\ t.initrd_size = b.initrd_size
BY DEF sysdeps_create_boot_params

LEMMA HandStartKernel ==
  ASSUME Layout, AllPlaced, HandInv, StartKernel
  PROVE  HandInv'
<1> DEFINE there == bp.initrd_start # 0
           m == IF there THEN MEMCPY(mem, InitrdStart, bp.initrd_start, bp.initrd_size) ELSE mem
           b == IF there THEN [bp EXCEPT !.initrd_start = InitrdStart] ELSE bp
<1>1. /\ stage = "start" /\ stage' = "started" /\ setup' = setup
      /\ mem' = m /\ bp' = b
      /\ low' = [u \in DOMAIN low |->
                   IF u = gdt_base THEN <<"gdt", 0>>
                   ELSE IF u \in high_base_mem .. high_base_mem + BOOT_PARAM_UNITS - 1
                        THEN ParamUnit(m, b, u - high_base_mem) ELSE low[u]]
  BY DEF StartKernel
<1>2. /\ setup \in Setups /\ (Fits(setup) => KernelCopied(mem, setup))
      /\ Fits(setup) => bp = sysdeps_create_boot_params(<<"kernel", 0>>, setup)
      /\ DOMAIN low = 288 .. 296
  BY <1>1 DEF HandInv, high_base_mem, gdt_base
<1>3. DOMAIN low' = high_base_mem .. gdt_base
  BY <1>1, <1>2 DEF high_base_mem, gdt_base
<1>4. ASSUME Fits(setup) PROVE HandsOver'
  <2> DEFINE s == setup
             given == s.r # 0 /\ s.r_len # 0
  <2>1. /\ bp.header = <<"kernel", 0>> /\ bp.kernel_start = kernel_start /\ bp.cmdline_offset = 7
        /\ given => bp.initrd_start = s.r /\ bp.initrd_size = s.r_len
        /\ ~given => bp.initrd_start = 0
    BY <1>2, <1>4, Params
  <2>2. there <=> given
    BY <2>1
  <2>3. /\ b.header = <<"kernel", 0>> /\ b.kernel_start = kernel_start /\ b.cmdline_offset = 7
        /\ given => b.initrd_start = InitrdStart /\ b.initrd_size = s.r_len
        /\ ~given => b.initrd_start = 0
    BY <1>2, <1>4, <2>1, <2>2, Params
  <2>4. KernelCopied(mem, s)
    BY <1>2, <1>4
  <2>5. /\ \A j \in s.setup_sects + 1 .. s.k_len - 1 :
               m[kernel_start + j - (s.setup_sects + 1)] = <<"kernel", j>>
        /\ given => \A j \in 0 .. s.r_len - 1 : m[InitrdStart + j] = <<"ramdisk", j>>
        /\ m[s.stack] = <<"stack", 0>>
    <3>1. CASE given
      <4>1. m = MEMCPY(mem, InitrdStart, s.r, s.r_len)
        BY <2>1, <2>2, <3>1
      <4>2. HandedOn(MEMCPY(mem, InitrdStart, s.r, s.r_len), s)
        BY <1>2, <1>4, <2>4, <3>1, RamdiskArrives
      <4>3. HandedOn(m, s)
        BY <4>1, <4>2
      <4> HIDE DEF m
      <4> QED BY <3>1, <4>3 DEF HandedOn
    <3>2. CASE ~given
      <4>1. m = mem
        BY <2>2, <3>2
      <4>2. mem[s.stack] = <<"stack", 0>>
        <5>1. s.stack \in InitrdStart + 1 .. Top /\ Loaded(s)[s.stack] = <<"stack", 0>>
          BY <1>2, LoadedHolds
        <5>2. s.stack \in InitrdStart .. Top
          BY <5>1 DEF Layout
        <5> QED BY <2>4, <5>1, <5>2 DEF KernelCopied
      <4> HIDE DEF m
      <4> QED BY <2>4, <3>2, <4>1, <4>2 DEF KernelCopied
    <3> QED BY <3>1, <3>2
  <2> HIDE DEF m, b
  <2>6. low'[288] = <<"params", 0>> /\ low'[296] = <<"gdt", 0>> /\ low'[288 + 7] = <<"cmdline", 0>>
    <3>1. ParamUnit(m, b, 0) = <<"params", 0>> /\ ParamUnit(m, b, 7) = <<"cmdline", 0>>
      BY <2>3, <2>5 DEF ParamUnit
    <3>2. \A u \in 288 .. 296 :
             low'[u] = IF u = 296 THEN <<"gdt", 0>>
                       ELSE IF u \in 288 .. 288 + 8 - 1 THEN ParamUnit(m, b, u - 288) ELSE low[u]
      BY <1>1, <1>2 DEF high_base_mem, gdt_base, BOOT_PARAM_UNITS
    <3> QED BY <3>1, <3>2
  <2>7. HandsOver' =
        (stage' = "started" /\ Fits(setup') =>
           /\ \A j \in setup'.setup_sects + 1 .. setup'.k_len - 1 :
                    mem'[kernel_start + j - (setup'.setup_sects + 1)] = <<"kernel", j>>
           /\ IF setup'.r # 0 /\ setup'.r_len # 0
              THEN /\ bp'.initrd_start = InitrdStart /\ bp'.initrd_size = setup'.r_len
                   /\ \A j \in 0 .. setup'.r_len - 1 : mem'[bp'.initrd_start + j] = <<"ramdisk", j>>
              ELSE bp'.initrd_start = 0
           /\ bp'.header = <<"kernel", 0>> /\ bp'.kernel_start = kernel_start
           /\ low'[288] = <<"params", 0>> /\ low'[296] = <<"gdt", 0>>
           /\ low'[288 + bp'.cmdline_offset] = <<"cmdline", 0>>)
    BY DEF HandsOver, SetupLen, high_base_mem, gdt_base
  <2>8. stage' = "started" /\ setup' = setup /\ mem' = m /\ bp' = b
    BY <1>1 DEF m, b
  <2>9. CASE given
    BY <2>3, <2>5, <2>6, <2>7, <2>8, <2>9
  <2>10. CASE ~given
    BY <2>3, <2>5, <2>6, <2>7, <2>8, <2>10
  <2> QED BY <2>9, <2>10
<1>5. HandsOver'
  BY <1>1, <1>4 DEF HandsOver, Fits
<1> QED BY <1>1, <1>2, <1>3, <1>5 DEF HandInv

(* Whatever was printed before, and however kernel, ramdisk and stack lie  *)
(* in the heap, a kernel that start_kernel() (sysdeps.h:328-381) jumps to  *)
(* lies whole at kernel_start, its ramdisk whole at 15 MB although the     *)
(* copy may run into its own source, and its parameters, command line and  *)
(* descriptor table where it looks for them.                               *)
THEOREM KernelHandedOver ==
  LoaderSpec => []HandsOver
<1> USE LoaderAssumption, SetupsAssumption
<1>1. LoaderInit => HandInv
  BY HandInit
<1>2. HandInv /\ [LoaderNext]_loader_vars => HandInv'
  BY HandBefore, HandBootKernel, HandCopyKernel, HandCreateParams, HandStartKernel DEF LoaderNext
<1>3. HandInv => HandsOver
  BY DEF HandInv
<1> QED BY <1>1, <1>2, <1>3, PTL DEF LoaderSpec

-----------------------------------------------------------------------------
(***************************************************************************)
(* The console: what BootVideoHelpers.c leaves on the screen, for every    *)
(* size of screen, font and characters and every text.                     *)
(***************************************************************************)

(* Induction: a set of numbers that has 0 and the successor of each has all up to N. *)
LEMMA UpTo ==
  ASSUME NEW N \in Nat, NEW T, 0 \in T, \A n \in 1 .. N : n - 1 \in T => n \in T
  PROVE  0 .. N \subseteq T
<1> DEFINE U == {n \in 0 .. N : n \notin T}
<1> SUFFICES ASSUME U # {} PROVE FALSE
  OBVIOUS
<1>1. U \subseteq Nat
  OBVIOUS
<1>2. PICK n \in U : \A k \in U : ~(k < n)
  <2> HIDE DEF U
  <2> QED BY <1>1, Least
<1>3. n \in 1 .. N /\ n - 1 \in 0 .. N /\ n - 1 < n
  BY <1>2
<1>4. n - 1 \in T
  BY <1>2, <1>3
<1> QED BY <1>2, <1>3, <1>4

(* What drawing one more character makes of what is drawn so far.          *)
Put(start, o, ch) == [c |-> BootVideoOverlayCharacter(o.c, start + o.w, ch),
                      w |-> o.w + Advance(start + o.w, ch)]

(* BootVideoOverlayString() draws one character after the other.           *)
Overlays(at, c, text) ==
  /\ at[0] = [c |-> c, w |-> 0]
  /\ \A n \in 1 .. Len(text) : at[n] = Put(c.y * Width + c.x, at[n - 1], text[n])

LEMMA OverlayFold ==
  ASSUME NEW c, NEW text, Len(text) \in Nat
  PROVE  \E at : Overlays(at, c, text) /\ BootVideoOverlayString(c, text) = at[Len(text)]
<1> DEFINE N == Len(text)
           start == c.y * Width + c.x
           base == [c |-> c, w |-> 0]
           Op(a, n) == Put(start, a, text[n])
           Step(f, n) == IF n = 0 THEN base ELSE Op(f[n - 1], n)
           F == CHOOSE f : f = [n \in 0 .. N |-> Step(f, n)]
           T == {n \in Nat : \E f : f = [k \in 0 .. n |-> Step(f, k)]}
<1>1. BootVideoOverlayString(c, text) = F[N]
  BY DEF BootVideoOverlayString, Folded, Put
<1> HIDE DEF Op, base
<1>2. 0 \in T
  <2> DEFINE g == [k \in 0 .. 0 |-> base]
  <2>1. g = [k \in 0 .. 0 |-> Step(g, k)]
    OBVIOUS
  <2> HIDE DEF g
  <2> QED BY <2>1
<1>3. ASSUME NEW n \in 1 .. N, n - 1 \in T PROVE n \in T
  <2>1. PICK f : f = [k \in 0 .. n - 1 |-> Step(f, k)]
    BY <1>3
  <2> DEFINE g == [k \in 0 .. n |-> IF k = n THEN Op(f[n - 1], n) ELSE f[k]]
  <2>2. \A k \in 0 .. n : g[k] = Step(g, k)
    <3> TAKE k \in 0 .. n
    <3>1. CASE k = n
      BY <3>1
    <3>2. CASE k # n
      <4>1. k \in 0 .. n - 1 /\ (k # 0 => k - 1 \in 0 .. n /\ k - 1 # n)
        BY <3>2
      <4>2. g[k] = f[k] /\ (k # 0 => g[k - 1] = f[k - 1])
        BY <3>2, <4>1
      <4>3. f[k] = Step(f, k)
        BY <2>1, <4>1
      <4> HIDE DEF g
      <4> QED BY <4>2, <4>3
    <3> QED BY <3>1, <3>2
  <2>3. g = [k \in 0 .. n |-> Step(g, k)]
    BY <2>2
  <2> HIDE DEF g
  <2> QED BY <2>3
<1>4. N \in T
  <2> HIDE DEF T
  <2>1. 0 .. N \subseteq T
    BY <1>2, <1>3, UpTo
  <2> QED BY <2>1
<1>5. F = [n \in 0 .. N |-> Step(F, n)]
  <2> HIDE DEF Step
  <2> QED BY <1>4
<1>6. F[0] = base /\ \A n \in 1 .. N : F[n] = Op(F[n - 1], n)
  <2> HIDE DEF F
  <2> QED BY <1>5
<1> HIDE DEF F
<1>7. Overlays(F, c, text)
  BY <1>6 DEF Overlays, Op, base
<1> QED BY <1>1, <1>7

(* An empty string draws nothing.                                          *)
LEMMA OverlayNothing ==
  ASSUME NEW c PROVE BootVideoOverlayString(c, <<>>) = [c |-> c, w |-> 0]
<1>1. Len(<<>>) = 0
  OBVIOUS
<1>2. PICK at : Overlays(at, c, <<>>) /\ BootVideoOverlayString(c, <<>>) = at[Len(<<>>)]
  BY <1>1, OverlayFold
<1> QED BY <1>1, <1>2 DEF Overlays

(* One character more is drawn behind the string.                          *)
LEMMA OverlayMore ==
  ASSUME NEW c, NEW S, NEW t \in Seq(S), NEW ch \in S
  PROVE  BootVideoOverlayString(c, Append(t, ch)) =
             Put(c.y * Width + c.x, BootVideoOverlayString(c, t), ch)
<1> DEFINE start == c.y * Width + c.x
           N == Len(t)
           u == Append(t, ch)
<1>1. N \in Nat /\ Len(u) = N + 1 /\ u[N + 1] = ch /\ \A n \in 1 .. N : u[n] = t[n]
  OBVIOUS
<1>2. PICK f : Overlays(f, c, t) /\ BootVideoOverlayString(c, t) = f[Len(t)]
  BY <1>1, OverlayFold
<1> HIDE DEF u
<1>3. PICK g : Overlays(g, c, u) /\ BootVideoOverlayString(c, u) = g[Len(u)]
  <2>1. Len(u) \in Nat
    BY <1>1
  <2> QED BY <2>1, OverlayFold
<1>7. /\ f[0] = g[0] /\ \A n \in 1 .. N : f[n] = Put(start, f[n - 1], t[n])
      /\ \A n \in 1 .. Len(u) : g[n] = Put(start, g[n - 1], u[n])
  BY <1>2, <1>3 DEF Overlays
<1> HIDE DEF start
<1>4. 0 .. N \subseteq {n \in 0 .. N : f[n] = g[n]}
  <2> DEFINE T == {n \in 0 .. N : f[n] = g[n]}
  <2>1. 0 \in T
    BY <1>1, <1>7
  <2>2. ASSUME NEW n \in 1 .. N, n - 1 \in T PROVE n \in T
    <3>1. f[n - 1] = g[n - 1] /\ u[n] = t[n] /\ n \in 1 .. Len(u) /\ n \in 0 .. N
      BY <1>1, <2>2
    <3>2. f[n] = g[n]
      BY <1>7, <3>1
    <3> QED BY <3>1, <3>2
  <2>3. 0 .. N \subseteq T
    <3> HIDE DEF T
    <3> QED BY <1>1, <2>1, <2>2, UpTo
  <2> QED BY <2>3
<1>5. f[N] = g[N]
  BY <1>1, <1>4
<1>6. g[N + 1] = Put(start, g[N], ch)
  <2>1. N + 1 \in 1 .. Len(u) /\ N + 1 - 1 = N
    BY <1>1
  <2> QED BY <1>1, <1>7, <2>1
<1> QED BY <1>1, <1>2, <1>3, <1>5, <1>6 DEF u, start

(* The folds of BootVideoChunkedPrint() and OnPaper, likewise.              *)
PrintChar(acc, ch) ==
  IF ch = NL
  THEN [c |-> NewLine(BootVideoOverlayString(acc.c, acc.pending).c), pending |-> <<>>]
  ELSE [acc EXCEPT !.pending = Append(@, ch)]

PrintEnd(done) ==
  LET tail == BootVideoOverlayString(done.c, done.pending)
      after == [tail.c EXCEPT !.x = @ + tail.w]
  IN  IF done.pending = <<>> THEN done.c
      ELSE IF after.x > Width - xmargin THEN NewLine(after) ELSE after

PaperChar(acc, ch) ==
  IF ch = NL THEN Append(acc, <<>>) ELSE Append(Front(acc), Append(Last(acc), ch))

PaperEnd(after, text) ==
  IF text # <<>> /\ Last(text) # NL /\ RowWidth(Last(after)) > Width THEN Append(after, <<>>) ELSE after

Prints(at, c, text) ==
  /\ at[0] = [c |-> c, pending |-> <<>>]
  /\ \A n \in 1 .. Len(text) : at[n] = PrintChar(at[n - 1], text[n])

Writes(at, rows, text) ==
  /\ at[0] = rows
  /\ \A n \in 1 .. Len(text) : at[n] = PaperChar(at[n - 1], text[n])

LEMMA PrintFold ==
  ASSUME NEW c, NEW text, Len(text) \in Nat
  PROVE  \E at : Prints(at, c, text) /\ BootVideoChunkedPrint(c, text) = PrintEnd(at[Len(text)])
<1> DEFINE N == Len(text)
           base == [c |-> c, pending |-> <<>>]
           Op(a, n) == PrintChar(a, text[n])
           Step(f, n) == IF n = 0 THEN base ELSE Op(f[n - 1], n)
           F == CHOOSE f : f = [n \in 0 .. N |-> Step(f, n)]
           T == {n \in Nat : \E f : f = [k \in 0 .. n |-> Step(f, k)]}
<1>1. BootVideoChunkedPrint(c, text) = PrintEnd(F[N])
  BY DEF BootVideoChunkedPrint, Folded, PrintChar, PrintEnd
<1> HIDE DEF Op, base
<1>2. 0 \in T
  <2> DEFINE g == [k \in 0 .. 0 |-> base]
  <2>1. g = [k \in 0 .. 0 |-> Step(g, k)]
    OBVIOUS
  <2> HIDE DEF g
  <2> QED BY <2>1
<1>3. ASSUME NEW n \in 1 .. N, n - 1 \in T PROVE n \in T
  <2>1. PICK f : f = [k \in 0 .. n - 1 |-> Step(f, k)]
    BY <1>3
  <2> DEFINE g == [k \in 0 .. n |-> IF k = n THEN Op(f[n - 1], n) ELSE f[k]]
  <2>2. \A k \in 0 .. n : g[k] = Step(g, k)
    <3> TAKE k \in 0 .. n
    <3>1. CASE k = n
      BY <3>1
    <3>2. CASE k # n
      <4>1. k \in 0 .. n - 1 /\ (k # 0 => k - 1 \in 0 .. n /\ k - 1 # n)
        BY <3>2
      <4>2. g[k] = f[k] /\ (k # 0 => g[k - 1] = f[k - 1])
        BY <3>2, <4>1
      <4>3. f[k] = Step(f, k)
        BY <2>1, <4>1
      <4> HIDE DEF g
      <4> QED BY <4>2, <4>3
    <3> QED BY <3>1, <3>2
  <2>3. g = [k \in 0 .. n |-> Step(g, k)]
    BY <2>2
  <2> HIDE DEF g
  <2> QED BY <2>3
<1>4. N \in T
  <2> HIDE DEF T
  <2>1. 0 .. N \subseteq T
    BY <1>2, <1>3, UpTo
  <2> QED BY <2>1
<1>5. F = [n \in 0 .. N |-> Step(F, n)]
  <2> HIDE DEF Step
  <2> QED BY <1>4
<1>6. F[0] = base /\ \A n \in 1 .. N : F[n] = Op(F[n - 1], n)
  <2> HIDE DEF F
  <2> QED BY <1>5
<1> HIDE DEF F
<1>7. Prints(F, c, text)
  BY <1>6 DEF Prints, Op, base
<1> QED BY <1>1, <1>7

LEMMA PaperFold ==
  ASSUME NEW rows, NEW text, Len(text) \in Nat
  PROVE  \E at : Writes(at, rows, text) /\ OnPaper(rows, text) = PaperEnd(at[Len(text)], text)
<1> DEFINE N == Len(text)
           base == rows
           Op(a, n) == PaperChar(a, text[n])
           Step(f, n) == IF n = 0 THEN base ELSE Op(f[n - 1], n)
           F == CHOOSE f : f = [n \in 0 .. N |-> Step(f, n)]
           T == {n \in Nat : \E f : f = [k \in 0 .. n |-> Step(f, k)]}
<1>1. OnPaper(rows, text) = PaperEnd(F[N], text)
  BY DEF OnPaper, Folded, PaperChar, PaperEnd
<1> HIDE DEF Op, base
<1>2. 0 \in T
  <2> DEFINE g == [k \in 0 .. 0 |-> base]
  <2>1. g = [k \in 0 .. 0 |-> Step(g, k)]
    OBVIOUS
  <2> HIDE DEF g
  <2> QED BY <2>1
<1>3. ASSUME NEW n \in 1 .. N, n - 1 \in T PROVE n \in T
  <2>1. PICK f : f = [k \in 0 .. n - 1 |-> Step(f, k)]
    BY <1>3
  <2> DEFINE g == [k \in 0 .. n |-> IF k = n THEN Op(f[n - 1], n) ELSE f[k]]
  <2>2. \A k \in 0 .. n : g[k] = Step(g, k)
    <3> TAKE k \in 0 .. n
    <3>1. CASE k = n
      BY <3>1
    <3>2. CASE k # n
      <4>1. k \in 0 .. n - 1 /\ (k # 0 => k - 1 \in 0 .. n /\ k - 1 # n)
        BY <3>2
      <4>2. g[k] = f[k] /\ (k # 0 => g[k - 1] = f[k - 1])
        BY <3>2, <4>1
      <4>3. f[k] = Step(f, k)
        BY <2>1, <4>1
      <4> HIDE DEF g
      <4> QED BY <4>2, <4>3
    <3> QED BY <3>1, <3>2
  <2>3. g = [k \in 0 .. n |-> Step(g, k)]
    BY <2>2
  <2> HIDE DEF g
  <2> QED BY <2>3
<1>4. N \in T
  <2> HIDE DEF T
  <2>1. 0 .. N \subseteq T
    BY <1>2, <1>3, UpTo
  <2> QED BY <2>1
<1>5. F = [n \in 0 .. N |-> Step(F, n)]
  <2> HIDE DEF Step
  <2> QED BY <1>4
<1>6. F[0] = base /\ \A n \in 1 .. N : F[n] = Op(F[n - 1], n)
  <2> HIDE DEF F
  <2> QED BY <1>5
<1> HIDE DEF F
<1>7. Writes(F, rows, text)
  BY <1>6 DEF Writes, Op, base
<1> QED BY <1>1, <1>7


-----------------------------------------------------------------------------
(* Where the pixels are.                                                   *)

LEMMA Geometry ==
  /\ Width \in Nat \ {0} /\ LineHeight \in Nat \ {0} /\ Height \in Nat
  /\ FrameSize \in Nat /\ LineHeight * Width \in Nat \ {0} /\ FrameSize = Width * Height
<1>1. Width \in Nat \ {0} /\ LineHeight \in Nat \ {0} /\ Height \in Nat
  BY ConsoleAssumption
<1>2. FrameSize = Width * Height
  BY DEF FrameSize
<1>3. Width * Height \in Nat /\ LineHeight * Width \in Nat \ {0}
  BY <1>1
<1> QED BY <1>1, <1>2, <1>3

(* The quotient and the remainder are what they are.                       *)
LEMMA Quotient ==
  ASSUME NEW m \in Nat \ {0}, NEW q \in Int, NEW r \in 0 .. m - 1, NEW a \in Int, a = q * m + r
  PROVE  a % m = r /\ a \div m = q
<1> DEFINE p == a \div m
           s == a % m
<1>1. p \in Int /\ s \in 0 .. m - 1 /\ a = m * p + s
  OBVIOUS
<1>2. m * p + s = m * q + r
  BY <1>1
<1> HIDE DEF p, s
<1>3. p = q
  <2>1. CASE p < q
    <3>1. m * (p + 1) <= m * q /\ m * (p + 1) = m * p + m
      BY <1>1, <2>1
    <3> QED BY <1>1, <1>2, <3>1
  <2>2. CASE p > q
    <3>1. m * (q + 1) <= m * p /\ m * (q + 1) = m * q + m
      BY <1>1, <2>2
    <3> QED BY <1>1, <1>2, <3>1
  <2> QED BY <1>1, <2>1, <2>2
<1>4. s = r
  BY <1>1, <1>2, <1>3
<1> QED BY <1>3, <1>4 DEF p, s

(* An address has the same column on every scan line.                      *)
LEMMA SameColumn ==
  ASSUME NEW m \in Nat \ {0}, NEW y \in Nat, NEW w \in Nat
  PROVE  (y * m + w) % m = w % m
<1> DEFINE p == w \div m
           s == w % m
<1>1. p \in Int /\ s \in 0 .. m - 1 /\ w = m * p + s
  OBVIOUS
<1> HIDE DEF p, s
<1>2. y * m + w = (y + p) * m + s /\ y + p \in Int /\ y * m + w \in Int
  BY <1>1
<1>3. (y * m + w) % m = s
  BY <1>1, <1>2, Quotient
<1> QED BY <1>3 DEF s

(* A character takes as much room on every line, and at least its glyph.   *)
LEMMA AdvanceFacts ==
  ASSUME NEW y \in Nat, NEW w \in Nat, NEW ch
  PROVE  /\ Advance(w, ch) \in Nat /\ Advance(y * Width + w, ch) = Advance(w, ch)
         /\ ch \in DOMAIN GlyphWidth => Advance(w, ch) = GlyphWidth[ch]
<1>1. (y * Width + w) % Width = w % Width
  BY SameColumn, Geometry
<1>2. Advance(y * Width + w, ch) = Advance(w, ch)
  BY <1>1 DEF Advance
<1>3. ch = TAB => Advance(w, ch) \in Nat
  <2> SUFFICES ASSUME ch = TAB PROVE TabStop - 1 - ((w % Width) % TabStop) \in Nat
    BY DEF Advance
  <2>1. w % Width \in Nat
    BY Geometry
  <2>2. (w % Width) % TabStop \in 0 .. TabStop - 1
    BY <2>1, ConsoleAssumption
  <2> QED BY <2>2, ConsoleAssumption
<1>4. ch # TAB => Advance(w, ch) \in Nat
  BY ConsoleAssumption DEF Advance
<1>5. ch \in DOMAIN GlyphWidth => Advance(w, ch) = GlyphWidth[ch]
  BY ConsoleAssumption DEF Advance
<1> QED BY <1>2, <1>3, <1>4, <1>5

(* The strokes of a character at address e that fall on address b.         *)
Strokes(ch, e, b) == {<<ch, p>> : p \in {q \in Pixels(ch) : e + q[1] * Width + q[2] = b}}

(* Where the pixels of a glyph may be.                                     *)
LEMMA PixelFacts ==
  ASSUME NEW ch, NEW p \in Pixels(ch)
  PROVE  /\ ch \in DOMAIN GlyphWidth /\ p[1] \in Nat /\ p[2] \in Nat
         /\ p[1] < LineHeight /\ p[2] < GlyphWidth[ch] /\ p[1] * Width \in Nat
<1>1. ch \in DOMAIN GlyphWidth
  BY DEF Pixels
<1>2. GlyphWidth[ch] \in Nat /\ p \in (0 .. LineHeight - 1) \X (0 .. GlyphWidth[ch] - 1)
  BY <1>1, ConsoleAssumption DEF Pixels
<1>3. p[1] \in Nat /\ p[2] \in Nat /\ p[1] < LineHeight /\ p[2] < GlyphWidth[ch]
  BY <1>2, Geometry
<1>4. p[1] * Width \in Nat
  BY <1>3, Geometry
<1> QED BY <1>1, <1>3, <1>4

(* The strokes move with the glyph.                                        *)
LEMMA StrokesMove ==
  ASSUME NEW ch, NEW e \in Nat, NEW b \in Nat, NEW s \in Nat
  PROVE  Strokes(ch, s + e, s + b) = Strokes(ch, e, b)
<1>1. ASSUME NEW q \in Pixels(ch)
      PROVE  (s + e) + q[1] * Width + q[2] = s + b <=> e + q[1] * Width + q[2] = b
  <2>1. PICK z \in Nat : z = q[1] * Width
    BY PixelFacts
  <2>2. q[2] \in Nat
    BY PixelFacts
  <2> QED BY <2>1, <2>2
<1> QED BY <1>1 DEF Strokes

(* Nothing is drawn before the glyph.                                      *)
LEMMA NoStrokesBefore ==
  ASSUME NEW ch, NEW e \in Nat, NEW b \in Nat, b < e
  PROVE  Strokes(ch, e, b) = {}
<1>1. ASSUME NEW q \in Pixels(ch) PROVE e + q[1] * Width + q[2] # b
  <2>1. PICK z \in Nat : z = q[1] * Width
    BY PixelFacts
  <2>2. q[2] \in Nat
    BY PixelFacts
  <2> QED BY <2>1, <2>2
<1> QED BY <1>1 DEF Strokes

(* A console as a record.                                                  *)
Proper(c) ==
  /\ c = [frame |-> c.frame, x |-> c.x, y |-> c.y, outside |-> c.outside]
  /\ c.frame = [a \in 0 .. FrameSize - 1 |-> c.frame[a]]
  /\ c.x \in Nat /\ c.y \in Nat /\ c.outside \in BOOLEAN

(* What drawing a character changes.                                       *)
LEMMA Drawn ==
  ASSUME NEW c, Proper(c), NEW a \in Nat, NEW ch
  PROVE  LET d == BootVideoOverlayCharacter(c, a, ch)
         IN  /\ Proper(d) /\ d.x = c.x /\ d.y = c.y
             /\ \A b \in 0 .. FrameSize - 1 : d.frame[b] = c.frame[b] \cup Strokes(ch, a, b)
             /\ d.outside => c.outside \/ \E p \in Pixels(ch) : a + p[1] * Width + p[2] >= FrameSize
<1> DEFINE At(p) == a + p[1] * Width + p[2]
           drawn == {At(p) : p \in Pixels(ch)}
           frame == [b \in 0 .. FrameSize - 1 |->
                        IF b \in drawn THEN c.frame[b] \cup Strokes(ch, a, b) ELSE c.frame[b]]
           out == c.outside \/ \E b \in drawn : b >= FrameSize
           d == BootVideoOverlayCharacter(c, a, ch)
<1>1. DOMAIN c.frame = 0 .. FrameSize - 1
  BY DEF Proper
<1>2. d = [c EXCEPT !.frame = frame, !.outside = out]
  BY <1>1 DEF BootVideoOverlayCharacter, Strokes
<1>3. c = [frame |-> c.frame, x |-> c.x, y |-> c.y, outside |-> c.outside]
  BY DEF Proper
<1> HIDE DEF frame, out, d
<1>4. d = [frame |-> frame, x |-> c.x, y |-> c.y, outside |-> out]
  BY <1>2, <1>3
<1>5. d.frame = frame /\ d.x = c.x /\ d.y = c.y /\ d.outside = out
  BY <1>4
<1>6. \A b \in 0 .. FrameSize - 1 : d.frame[b] = c.frame[b] \cup Strokes(ch, a, b)
  <2> TAKE b \in 0 .. FrameSize - 1
  <2>1. b \notin drawn => Strokes(ch, a, b) = {}
    BY DEF Strokes
  <2>2. d.frame[b] = IF b \in drawn THEN c.frame[b] \cup Strokes(ch, a, b) ELSE c.frame[b]
    BY <1>5 DEF frame
  <2> HIDE DEF drawn
  <2> QED BY <2>1, <2>2
<1>7. out \in BOOLEAN
  BY DEF out, Proper
<1>8. frame = [b \in 0 .. FrameSize - 1 |-> frame[b]]
  BY DEF frame
<1>9. Proper(d)
  BY <1>4, <1>5, <1>7, <1>8 DEF Proper
<1>10. out => c.outside \/ \E p \in Pixels(ch) : a + p[1] * Width + p[2] >= FrameSize
  BY DEF out
<1> QED BY <1>5, <1>6, <1>9, <1>10 DEF d

-----------------------------------------------------------------------------
(* A row looks the same on every line.                                     *)

Line == 0 .. LineHeight * Width - 1
Ink(row) == BootVideoOverlayString(Blank, row).c.frame
BlankAt(y) == [Blank EXCEPT !.y = y]

LooksThere(row, y) ==
  LET o == BootVideoOverlayString(BlankAt(y), row)
  IN  /\ Proper(o.c) /\ o.w = RowWidth(row)
      /\ y + LineHeight <= Height => \A d \in Line : o.c.frame[y * Width + d] = Ink(row)[d]
Looks(row) == RowWidth(row) \in Nat /\ \A y \in Nat : LooksThere(row, y)

(* A line of the screen is inside the frame buffer.                        *)
LEMMA OnLine ==
  ASSUME NEW y \in Nat, y + LineHeight <= Height, NEW d \in Line
  PROVE  d \in Nat /\ y * Width \in Nat /\ y * Width + d \in 0 .. FrameSize - 1
<1>1. Width \in Nat \ {0} /\ LineHeight \in Nat \ {0} /\ Height \in Nat /\ FrameSize = Width * Height
  BY Geometry
<1>2. LineHeight * Width \in Nat /\ y * Width \in Nat
  BY <1>1
<1>3. d \in Nat /\ d < LineHeight * Width
  BY <1>2 DEF Line
<1>4. (y + LineHeight) * Width <= Height * Width /\ Height * Width = Width * Height
      /\ (y + LineHeight) * Width = y * Width + LineHeight * Width
  BY <1>1
<1>5. FrameSize \in Nat
  BY Geometry
<1> QED BY <1>1, <1>2, <1>3, <1>4, <1>5

LEMMA MovedTo ==
  ASSUME NEW c, NEW f, NEW x, NEW y, NEW o, NEW z, c = [frame |-> f, x |-> x, y |-> y, outside |-> o]
  PROVE  [c EXCEPT !.y = z] = [frame |-> f, x |-> x, y |-> z, outside |-> o]
OBVIOUS

(* The empty screen, its cursor on any line.                               *)
LEMMA BlankFacts ==
  ASSUME NEW y \in Nat
  PROVE  /\ Proper(BlankAt(y)) /\ BlankAt(y).x = 0 /\ BlankAt(y).y = y /\ ~BlankAt(y).outside
         /\ \A b \in 0 .. FrameSize - 1 : BlankAt(y).frame[b] = {}
         /\ BlankAt(0) = Blank
<1> DEFINE f == [a \in 0 .. FrameSize - 1 |-> {}]
<1>0. Blank = [frame |-> f, x |-> 0, y |-> 0, outside |-> FALSE]
  BY DEF Blank
<1>1. /\ f = [a \in 0 .. FrameSize - 1 |-> f[a]]
      /\ \A b \in 0 .. FrameSize - 1 : f[b] = {}
  OBVIOUS
<1> HIDE DEF f
<1>2. \A z : BlankAt(z) = [frame |-> f, x |-> 0, y |-> z, outside |-> FALSE]
  <2>1. \A z : BlankAt(z) = [Blank EXCEPT !.y = z]
    BY DEF BlankAt
  <2>2. ASSUME NEW z PROVE [Blank EXCEPT !.y = z] = [frame |-> f, x |-> 0, y |-> z, outside |-> FALSE]
    <3>1. PICK o : o = FALSE
      OBVIOUS
    <3>2. Blank = [frame |-> f, x |-> 0, y |-> 0, outside |-> o]
      BY <1>0, <3>1, Zenon
    <3>3. [Blank EXCEPT !.y = z] = [frame |-> f, x |-> 0, y |-> z, outside |-> o]
      BY <3>2, MovedTo
    <3> QED BY <3>1, <3>3, Zenon
  <2> QED BY <2>1, <2>2
<1>3. BlankAt(0) = Blank
  BY <1>0, <1>2
<1>4. /\ BlankAt(y).frame = f /\ BlankAt(y).x = 0 /\ BlankAt(y).y = y
      /\ BlankAt(y).outside = FALSE
  BY <1>2
<1> QED BY <1>1, <1>2, <1>3, <1>4 DEF Proper

(* An empty row shows nothing.                                             *)
LEMMA NothingLooks ==
  /\ Looks(<<>>) /\ RowWidth(<<>>) = 0 /\ \A d \in Line : Ink(<<>>)[d] = {}
<1>1. \A c : BootVideoOverlayString(c, <<>>) = [c |-> c, w |-> 0]
  BY OverlayNothing
<1>2. RowWidth(<<>>) = 0
  BY <1>1 DEF RowWidth
<1>3. Ink(<<>>) = Blank.frame
  BY <1>1 DEF Ink
<1>4. ASSUME NEW d \in Line PROVE Blank.frame[d] = {}
  <2>1. 0 \in Nat /\ 0 + LineHeight <= Height /\ 0 * Width = 0
    BY ConsoleAssumption
  <2>2. d \in 0 .. FrameSize - 1
    BY <2>1, OnLine, Geometry
  <2> QED BY <2>2 DEF Blank
<1>5. ASSUME NEW y \in Nat PROVE LooksThere(<<>>, y)
  <2>1. /\ Proper(BlankAt(y)) /\ \A b \in 0 .. FrameSize - 1 : BlankAt(y).frame[b] = {}
    BY BlankFacts
  <2>2. ASSUME y + LineHeight <= Height, NEW d \in Line
        PROVE  BlankAt(y).frame[y * Width + d] = Ink(<<>>)[d]
    BY <1>3, <1>4, <2>1, <2>2, OnLine
  <2> QED BY <1>1, <1>2, <2>1, <2>2 DEF LooksThere
<1> QED BY <1>2, <1>3, <1>4, <1>5 DEF Looks

(* One character more on a row adds its strokes, on whatever line.         *)
LEMMA MoreLooks ==
  ASSUME NEW row \in Seq(STRING), NEW ch \in STRING, Looks(row)
  PROVE  LET more == Append(row, ch)
         IN  /\ Looks(more) /\ RowWidth(more) = RowWidth(row) + Advance(RowWidth(row), ch)
             /\ \A d \in Line : Ink(more)[d] = Ink(row)[d] \cup Strokes(ch, RowWidth(row), d)
<1> DEFINE more == Append(row, ch)
           rw == RowWidth(row)
           O(y) == BootVideoOverlayString(BlankAt(y), row)
           N(y) == BootVideoOverlayString(BlankAt(y), more)
<1>1. rw \in Nat /\ Advance(rw, ch) \in Nat
  BY AdvanceFacts DEF Looks
<1>2. ASSUME NEW y \in Nat
      PROVE  /\ Proper(N(y).c) /\ N(y).w = rw + Advance(rw, ch)
             /\ y + LineHeight <= Height =>
                \A d \in Line : N(y).c.frame[y * Width + d] = Ink(row)[d] \cup Strokes(ch, rw, d)
  <2>1. Proper(O(y).c) /\ O(y).w = rw
        /\ (y + LineHeight <= Height => \A d \in Line : O(y).c.frame[y * Width + d] = Ink(row)[d])
    BY DEF Looks, LooksThere
  <2>2. BlankAt(y).y * Width + BlankAt(y).x = y * Width /\ y * Width \in Nat
    BY BlankFacts, Geometry
  <2>3. N(y) = Put(y * Width, O(y), ch)
    BY <2>2, OverlayMore
  <2>4. /\ N(y).c = BootVideoOverlayCharacter(O(y).c, y * Width + rw, ch)
        /\ N(y).w = rw + Advance(y * Width + rw, ch)
    BY <2>1, <2>3 DEF Put
  <2>5. N(y).w = rw + Advance(rw, ch)
    BY <1>1, <2>4, AdvanceFacts
  <2> HIDE DEF O, N, rw
  <2>6. y * Width + rw \in Nat
    BY <1>1, <2>2
  <2>7. /\ Proper(N(y).c)
        /\ \A b \in 0 .. FrameSize - 1 : N(y).c.frame[b] = O(y).c.frame[b] \cup Strokes(ch, y * Width + rw, b)
    BY <2>1, <2>4, <2>6, Drawn
  <2>8. ASSUME y + LineHeight <= Height, NEW d \in Line
        PROVE  N(y).c.frame[y * Width + d] = Ink(row)[d] \cup Strokes(ch, rw, d)
    <3>1. d \in Nat /\ y * Width + d \in 0 .. FrameSize - 1
      BY <2>8, OnLine
    <3>2. Strokes(ch, y * Width + rw, y * Width + d) = Strokes(ch, rw, d)
      <4>1. PICK z \in Nat : z = y * Width
        BY <2>2
      <4>2. \A e, b, s \in Nat : Strokes(ch, s + e, s + b) = Strokes(ch, e, b)
        BY StrokesMove
      <4>3. rw \in Nat /\ d \in Nat
        BY <1>1, <3>1
      <4>4. Strokes(ch, z + rw, z + d) = Strokes(ch, rw, d)
        BY <4>2, <4>3, Zenon
      <4> QED BY <4>1, <4>4
    <3> QED BY <2>1, <2>7, <2>8, <3>1, <3>2
  <2> QED BY <2>5, <2>7, <2>8
<1> HIDE DEF more, rw, O
<1>3. RowWidth(more) = rw + Advance(rw, ch) /\ Ink(more) = N(0).c.frame
  <2>1. RowWidth(more) = N(0).w /\ Ink(more) = N(0).c.frame
    BY BlankFacts DEF RowWidth, Ink
  <2> QED BY <1>2, <2>1
<1>4. \A d \in Line : Ink(more)[d] = Ink(row)[d] \cup Strokes(ch, rw, d)
  <2>1. 0 \in Nat /\ 0 + LineHeight <= Height /\ 0 * Width = 0
    BY ConsoleAssumption
  <2>2. ASSUME NEW d \in Line PROVE Ink(more)[d] = Ink(row)[d] \cup Strokes(ch, rw, d)
    <3>1. 0 * Width + d = d
      BY <2>1, OnLine
    <3>2. N(0).c.frame[0 * Width + d] = Ink(row)[d] \cup Strokes(ch, rw, d)
      BY <1>2, <2>1
    <3> HIDE DEF N
    <3> QED BY <1>3, <3>1, <3>2
  <2> QED BY <2>2
<1>5. Looks(more)
  <2>1. ASSUME NEW y \in Nat PROVE LooksThere(more, y)
    BY <1>2, <1>3, <1>4 DEF LooksThere
  <2>2. RowWidth(more) \in Nat
    BY <1>1, <1>3
  <2> QED BY <2>1, <2>2 DEF Looks
<1> QED BY <1>3, <1>4, <1>5 DEF more, rw

-----------------------------------------------------------------------------
(* What the screen shows of the rows; the last of them ends in column x.   *)

ShowsLines(frame, y, rows, lines) ==
  /\ y = (lines - 1) * LineHeight
  /\ \A j \in 1 .. lines : \A d \in Line :
         frame[(j - 1) * (LineHeight * Width) + d] = Ink(rows[Len(rows) - lines + j])[d]

TooWide(rows) == \E j \in 1 .. Len(rows) : RowWidth(rows[j]) > Width

Shows(c, x, rows, out) ==
  /\ Proper(c) /\ c.y + LineHeight <= Height
  /\ rows \in Seq(Seq(STRING)) /\ rows # <<>> /\ \A j \in 1 .. Len(rows) : Looks(rows[j])
  /\ \E lines \in 1 .. Len(rows) : ShowsLines(c.frame, c.y, rows, lines)
  /\ x = RowWidth(rows[Len(rows)])
  /\ c.outside => out \/ TooWide(rows)

(* The lines above the cursor and the line of the cursor.                  *)
LEMMA Above ==
  ASSUME NEW lines \in Nat \ {0}, NEW j \in 1 .. lines, NEW d \in Line
  PROVE  LET y == (lines - 1) * LineHeight
             a == (j - 1) * (LineHeight * Width) + d
         IN  /\ a \in Nat /\ y \in Nat /\ y * Width \in Nat
             /\ j = lines => a = y * Width + d
             /\ j # lines => a < y * Width
<1> DEFINE m == LineHeight * Width
<1>1. LineHeight \in Nat /\ Width \in Nat /\ m \in Nat /\ d \in Nat /\ d < m
  BY Geometry DEF Line
<1>2. ((lines - 1) * LineHeight) * Width = (lines - 1) * m /\ (lines - 1) * LineHeight \in Nat
  BY <1>1
<1> HIDE DEF m
<1>3. (j - 1) * m \in Nat /\ (lines - 1) * m \in Nat
  BY <1>1
<1>4. j # lines => j * m <= (lines - 1) * m /\ j * m = (j - 1) * m + m
  BY <1>1
<1> QED BY <1>1, <1>2, <1>3, <1>4 DEF m

(* A pixel is above a scan line if its address is smaller.                 *)
LEMMA ScanLine ==
  ASSUME NEW a \in Nat, NEW y \in Nat
  PROVE  a \div Width \in Nat /\ (a \div Width < y <=> a < y * Width)
<1> DEFINE p == a \div Width
           s == a % Width
<1>1. Width \in Nat \ {0}
  BY Geometry
<1>2. p \in Nat /\ s \in 0 .. Width - 1 /\ a = Width * p + s
  BY <1>1
<1> HIDE DEF p, s
<1>3. p < y => Width * (p + 1) <= Width * y /\ Width * (p + 1) = Width * p + Width
  BY <1>1, <1>2
<1>4. y <= p => Width * y <= Width * p
  BY <1>1, <1>2
<1>5. Width * y = y * Width /\ Width * y \in Nat /\ Width * p \in Nat
  BY <1>1, <1>2
<1>6. p < y <=> a < y * Width
  BY <1>1, <1>2, <1>3, <1>4, <1>5
<1> QED BY <1>2, <1>6 DEF p

(* A glyph that ends inside the line is drawn inside the frame buffer.     *)
LEMMA Inside ==
  ASSUME NEW y \in Nat, y + LineHeight <= Height, NEW x \in Nat, NEW ch, NEW p \in Pixels(ch),
         x + GlyphWidth[ch] <= Width
  PROVE  y * Width + x + p[1] * Width + p[2] < FrameSize
<1>1. Width \in Nat \ {0} /\ LineHeight \in Nat \ {0} /\ Height \in Nat /\ FrameSize = Width * Height
  BY Geometry
<1>2. /\ p[1] \in Nat /\ p[2] \in Nat /\ p[1] < LineHeight /\ p[2] < GlyphWidth[ch]
      /\ ch \in DOMAIN GlyphWidth
  BY PixelFacts
<1>3. GlyphWidth[ch] \in Nat
  BY <1>2, ConsoleAssumption
<1>4. x + p[2] < Width
  BY <1>1, <1>2, <1>3
<1>5. PICK q \in Nat : q = p[1]
  BY <1>2
<1>6. (y + q + 1) * Width <= Height * Width /\ (y + q + 1) * Width = y * Width + q * Width + Width
  BY <1>1, <1>2, <1>5
<1>7. y * Width \in Nat /\ q * Width \in Nat /\ Height * Width = Width * Height
  BY <1>1
<1> QED BY <1>1, <1>2, <1>4, <1>5, <1>6, <1>7

LEMMA OneMoreIn ==
  ASSUME NEW S, NEW row \in Seq(S), NEW ch \in S
  PROVE  Append(row, ch) \in Seq(S)
OBVIOUS

LEMMA LastReplaced ==
  ASSUME NEW S, NEW rows \in Seq(S), rows # <<>>, NEW r \in S
  PROVE  LET next == Append(Front(rows), r)
         IN  /\ next \in Seq(S) /\ Len(next) = Len(rows) /\ next[Len(rows)] = r
             /\ \A j \in 1 .. Len(rows) - 1 : next[j] = rows[j]
<1>1. Front(rows) = SubSeq(rows, 1, Len(rows) - 1) /\ Len(rows) \in Nat \ {0}
  BY DEF Front
<1>2. /\ Front(rows) \in Seq(S) /\ Len(Front(rows)) = Len(rows) - 1
      /\ \A j \in 1 .. Len(rows) - 1 : Front(rows)[j] = rows[j]
  <2> DEFINE n == Len(rows) - 1
  <2>1. n \in Int /\ 1 \in Int /\ \A j \in 1 .. n : rows[j] \in S
    BY <1>1
  <2> HIDE DEF n
  <2>2. /\ SubSeq(rows, 1, n) \in Seq(S)
        /\ Len(SubSeq(rows, 1, n)) = IF 1 <= n THEN n - 1 + 1 ELSE 0
        /\ \A j \in 1 .. n - 1 + 1 : SubSeq(rows, 1, n)[j] = rows[1 + j - 1]
    BY <2>1, SubSeqProperties
  <2>3. n \in Nat /\ n - 1 + 1 = n /\ \A j \in 1 .. n : 1 + j - 1 = j
    BY <1>1 DEF n
  <2>4. Front(rows) = SubSeq(rows, 1, n)
    BY DEF Front, n
  <2>5. n = Len(rows) - 1
    BY DEF n
  <2> HIDE DEF Front
  <2> QED BY <2>2, <2>3, <2>4, <2>5
<1> HIDE DEF Front
<1> QED BY <1>1, <1>2

(* One character more on the last row.                                     *)
LEMMA CharShows ==
  ASSUME NEW c, NEW x, NEW rows, NEW out, Shows(c, x, rows, out), NEW ch \in STRING
  PROVE  Shows(BootVideoOverlayCharacter(c, c.y * Width + x, ch), x + Advance(c.y * Width + x, ch),
               Append(Front(rows), Append(Last(rows), ch)), out)
<1> DEFINE n == Len(rows)
           row == rows[n]
           more == Append(row, ch)
           next == Append(Front(rows), Append(Last(rows), ch))
           e == c.y * Width + x
           d == BootVideoOverlayCharacter(c, e, ch)
<1>1. /\ n \in Nat \ {0} /\ row \in Seq(STRING) /\ Looks(row) /\ rows \in Seq(Seq(STRING))
      /\ \A j \in 1 .. n : Looks(rows[j])
  BY DEF Shows
<1>2. next \in Seq(Seq(STRING)) /\ Len(next) = n /\ next[n] = more /\ \A j \in 1 .. n - 1 : next[j] = rows[j]
  <2>1. Last(rows) = row /\ rows # <<>>
    BY <1>1 DEF Last
  <2>2. more \in Seq(STRING)
    <3> HIDE DEF row
    <3> QED BY <1>1, OneMoreIn
  <2> HIDE DEF more, row, n
  <2>3. next = Append(Front(rows), more)
    BY <2>1 DEF more
  <2>4. n = Len(rows)
    BY DEF n
  <2>5. rows \in Seq(Seq(STRING))
    BY <1>1
  <2> HIDE DEF next
  <2> QED BY <2>1, <2>2, <2>3, <2>4, <2>5, LastReplaced
<1>3. /\ Proper(c) /\ c.y \in Nat /\ c.y + LineHeight <= Height /\ x = RowWidth(row) /\ x \in Nat
      /\ c.outside => out \/ TooWide(rows)
  BY <1>1 DEF Shows, Looks, Proper
<1>4. PICK lines \in 1 .. n : ShowsLines(c.frame, c.y, rows, lines)
  BY DEF Shows
<1>5. /\ Looks(more) /\ RowWidth(more) = x + Advance(x, ch) /\ Advance(x, ch) \in Nat
      /\ Advance(e, ch) = Advance(x, ch)
      /\ \A k \in Line : Ink(more)[k] = Ink(row)[k] \cup Strokes(ch, x, k)
  BY <1>1, <1>3, MoreLooks, AdvanceFacts
<1>6. c.y * Width \in Nat /\ e \in Nat
  BY <1>3, Geometry, SMTT(30)
<1>7. /\ Proper(d) /\ d.y = c.y
      /\ \A b \in 0 .. FrameSize - 1 : d.frame[b] = c.frame[b] \cup Strokes(ch, e, b)
      /\ d.outside => c.outside \/ \E p \in Pixels(ch) : e + p[1] * Width + p[2] >= FrameSize
  <2> HIDE DEF e
  <2> QED BY <1>3, <1>6, Drawn
<1> HIDE DEF n, next, more, row, d
<1>8. \A j \in 1 .. n : Looks(next[j])
  <2> TAKE j \in 1 .. n
  <2>1. CASE j = n
    BY <1>2, <1>5, <2>1
  <2>2. CASE j # n
    <3>1. j \in 1 .. n - 1
      BY <1>1, <2>2
    <3> QED BY <1>1, <1>2, <3>1
  <2> QED BY <2>1, <2>2
<1>9. ASSUME NEW j \in 1 .. lines, NEW k \in Line
      PROVE  d.frame[(j - 1) * (LineHeight * Width) + k] = Ink(next[n - lines + j])[k]
  <2> DEFINE a == (j - 1) * (LineHeight * Width) + k
  <2>1. c.y = (lines - 1) * LineHeight /\ c.frame[a] = Ink(rows[n - lines + j])[k]
    BY <1>4, <1>9 DEF ShowsLines, n
  <2>0. lines \in Nat \ {0}
    BY <1>1
  <2>2. a \in Nat /\ (j = lines => a = ((lines - 1) * LineHeight) * Width + k)
    BY <2>0, Above
  <2>3. j # lines => a < ((lines - 1) * LineHeight) * Width
    BY <2>0, Above
  <2>4. k \in Nat /\ c.y * Width + k \in 0 .. FrameSize - 1
    BY <1>3, OnLine
  <2>5. FrameSize \in Nat
    BY Geometry
  <2> HIDE DEF a
  <2>8. (j = lines => a = c.y * Width + k) /\ (j # lines => a < c.y * Width)
    BY <2>1, <2>2, <2>3
  <2>6. CASE j = lines
    <3>1. a = c.y * Width + k /\ a \in 0 .. FrameSize - 1 /\ n - lines + j = n
      BY <1>1, <2>4, <2>6, <2>8
    <3>2. Strokes(ch, e, a) = Strokes(ch, x, k)
      <4>1. PICK z \in Nat : z = c.y * Width
        BY <1>6
      <4>2. \A q, b, s \in Nat : Strokes(ch, s + q, s + b) = Strokes(ch, q, b)
        BY StrokesMove
      <4>3. Strokes(ch, z + x, z + k) = Strokes(ch, x, k)
        BY <1>3, <2>4, <4>2, Zenon
      <4> QED BY <3>1, <4>1, <4>3
    <3>3. c.frame[a] = Ink(row)[k]
      BY <2>1, <3>1 DEF row
    <3> QED BY <1>2, <1>5, <1>7, <3>1, <3>2, <3>3 DEF a
  <2>7. CASE j # lines
    <3>1. a < e /\ a \in 0 .. FrameSize - 1
      BY <1>3, <1>6, <2>2, <2>4, <2>5, <2>7, <2>8
    <3>2. Strokes(ch, e, a) = {}
      BY <1>6, <2>2, <3>1, NoStrokesBefore
    <3>3. n - lines + j \in 1 .. n - 1
      BY <1>1, <2>7
    <3>4. d.frame[a] = c.frame[a]
      BY <1>7, <3>1, <3>2
    <3> QED BY <1>2, <2>1, <3>3, <3>4 DEF a
  <2> QED BY <2>6, <2>7
<1>10. ShowsLines(d.frame, d.y, next, lines)
  BY <1>2, <1>4, <1>7, <1>9 DEF ShowsLines
<1>11. d.outside => out \/ TooWide(next)
  <2>1. RowWidth(row) <= RowWidth(more)
    BY <1>3, <1>5
  <2>2. TooWide(rows) => TooWide(next)
    <3> SUFFICES ASSUME NEW j \in 1 .. n, RowWidth(rows[j]) > Width PROVE TooWide(next)
      BY DEF TooWide, n
    <3>1. CASE j = n
      <4>1. RowWidth(more) > Width
        BY <1>3, <1>5, <2>1, <3>1, Geometry DEF row
      <4> QED BY <1>1, <1>2, <4>1 DEF TooWide
    <3>2. CASE j # n
      <4>1. j \in 1 .. n - 1 /\ next[j] = rows[j]
        BY <1>1, <1>2, <3>2
      <4> QED BY <1>2, <4>1 DEF TooWide
    <3> QED BY <3>1, <3>2
  <2>3. ASSUME NEW p \in Pixels(ch), e + p[1] * Width + p[2] >= FrameSize PROVE TooWide(next)
    <3>1. /\ ch \in DOMAIN GlyphWidth /\ GlyphWidth[ch] \in Nat /\ RowWidth(more) = x + GlyphWidth[ch]
          /\ p[1] * Width \in Nat /\ p[2] \in Nat
      BY <1>3, <1>5, PixelFacts, AdvanceFacts, ConsoleAssumption
    <3>2. ~(x + GlyphWidth[ch] <= Width)
      <4> SUFFICES ASSUME x + GlyphWidth[ch] <= Width PROVE FALSE
        OBVIOUS
      <4>1. c.y * Width + x + p[1] * Width + p[2] < FrameSize
        BY <1>3, Inside
      <4>2. FrameSize \in Nat
        BY Geometry
      <4> QED BY <1>6, <2>3, <3>1, <4>1, <4>2
    <3>3. RowWidth(next[n]) > Width
      BY <1>2, <1>3, <3>1, <3>2, Geometry
    <3> QED BY <1>1, <1>2, <3>3 DEF TooWide
  <2> QED BY <1>3, <1>7, <2>2, <2>3
<1>12. x + Advance(e, ch) = RowWidth(next[n])
  BY <1>2, <1>5
<1>13. next # <<>>
  BY <1>1, <1>2
<1>14. Shows(d, x + Advance(e, ch), next, out)
  BY <1>2, <1>3, <1>7, <1>8, <1>10, <1>11, <1>12, <1>13 DEF Shows
<1> QED BY <1>14 DEF d, next

(* A new line: below the last one, or on it once the others have moved up. *)
LEMMA NewLineFacts ==
  ASSUME NEW c, Proper(c)
  PROVE  LET full == c.y + LineHeight > Height - LineHeight
             y == IF full THEN c.y ELSE c.y + LineHeight
             f == clean_line(IF full THEN scroll_memcpy(c.frame, y) ELSE c.frame, y)
         IN  NewLine(c) = [frame |-> f, x |-> 0, y |-> y, outside |-> c.outside]
<1> DEFINE full == c.y + LineHeight > Height - LineHeight
           y == IF full THEN c.y ELSE c.y + LineHeight
           f == clean_line(IF full THEN scroll_memcpy(c.frame, y) ELSE c.frame, y)
<1>1. NewLine(c) = [c EXCEPT !.x = 0, !.y = y, !.frame = f]
  BY DEF NewLine, xmargin
<1>2. c = [frame |-> c.frame, x |-> c.x, y |-> c.y, outside |-> c.outside]
  BY DEF Proper
<1> HIDE DEF y, f
<1>3. NewLine(c) = [frame |-> f, x |-> 0, y |-> y, outside |-> c.outside]
  BY <1>1, <1>2
<1> QED BY <1>3 DEF y, f

(* The line at y is clean, the pixels above it are as they were.           *)
LEMMA Cleaned ==
  ASSUME NEW frame, DOMAIN frame = 0 .. FrameSize - 1, NEW y \in Nat, y + LineHeight <= Height
  PROVE  /\ DOMAIN clean_line(frame, y) = 0 .. FrameSize - 1
         /\ clean_line(frame, y) = [a \in 0 .. FrameSize - 1 |-> clean_line(frame, y)[a]]
         /\ \A d \in Line : clean_line(frame, y)[y * Width + d] = {}
         /\ \A a \in Nat : a < y * Width => clean_line(frame, y)[a] = frame[a]
<1> DEFINE g == clean_line(frame, y)
<1>1. g = [a \in 0 .. FrameSize - 1 |->
              IF a \div Width \in y .. y + LineHeight - 1 THEN {} ELSE frame[a]]
  BY DEF clean_line
<1> HIDE DEF g
<1>2. ASSUME NEW d \in Line PROVE g[y * Width + d] = {}
  <2>1. PICK a : a = y * Width + d
    OBVIOUS
  <2>2. a \in 0 .. FrameSize - 1 /\ a \in Nat /\ d \in Nat /\ y * Width \in Nat
    <3>1. d \in Nat /\ y * Width \in Nat /\ y * Width + d \in 0 .. FrameSize - 1
      BY OnLine
    <3> QED BY <2>1, <3>1, Geometry
  <2>3. d < LineHeight * Width /\ LineHeight * Width \in Nat
    BY Geometry DEF Line
  <2>4. (y + LineHeight) * Width = y * Width + LineHeight * Width
    BY Geometry
  <2>5. a < (y + LineHeight) * Width /\ ~(a < y * Width)
    BY <2>1, <2>2, <2>3, <2>4
  <2>6. y + LineHeight \in Nat
    BY Geometry
  <2>7. a \div Width \in Nat /\ a \div Width < y + LineHeight /\ ~(a \div Width < y)
    BY <2>2, <2>5, <2>6, ScanLine
  <2>8. a \div Width \in y .. y + LineHeight - 1
    BY <2>6, <2>7, Geometry
  <2> QED BY <1>1, <2>1, <2>2, <2>8
<1>3. ASSUME NEW a \in Nat, a < y * Width PROVE g[a] = frame[a]
  <2>1. a \div Width \in Nat /\ a \div Width < y
    BY <1>3, ScanLine
  <2>2. 0 \in Line
    BY Geometry DEF Line
  <2>3. y * Width + 0 \in 0 .. FrameSize - 1 /\ y * Width \in Nat
    BY <2>2, OnLine
  <2>4. a \in 0 .. FrameSize - 1
    BY <1>3, <2>3, Geometry
  <2>5. ~(a \div Width \in y .. y + LineHeight - 1)
    BY <2>1
  <2> QED BY <1>1, <2>4, <2>5
<1>4. DOMAIN g = 0 .. FrameSize - 1 /\ g = [a \in 0 .. FrameSize - 1 |-> g[a]]
  BY <1>1
<1> QED BY <1>2, <1>3, <1>4 DEF g

(* A new row on the paper is a new line on the screen.                     *)
LEMMA LineShows ==
  ASSUME NEW c, NEW x, NEW rows, NEW out, Shows(c, x, rows, out)
  PROVE  Shows(NewLine(c), 0, Append(rows, <<>>), out) /\ NewLine(c).x = 0
<1> DEFINE n == Len(rows)
           next == Append(rows, <<>>)
           full == c.y + LineHeight > Height - LineHeight
           y == IF full THEN c.y ELSE c.y + LineHeight
           g == IF full THEN scroll_memcpy(c.frame, y) ELSE c.frame
           f == clean_line(g, y)
           d == NewLine(c)
           m == LineHeight * Width
<1>1. /\ n \in Nat \ {0} /\ rows \in Seq(Seq(STRING)) /\ \A j \in 1 .. n : Looks(rows[j])
      /\ Proper(c) /\ c.y \in Nat /\ c.y + LineHeight <= Height
      /\ c.outside \in BOOLEAN /\ (c.outside => out \/ TooWide(rows))
      /\ DOMAIN c.frame = 0 .. FrameSize - 1
  BY DEF Shows, Proper
<1>2. d = [frame |-> f, x |-> 0, y |-> y, outside |-> c.outside]
  BY <1>1, NewLineFacts
<1>3. d.frame = f /\ d.x = 0 /\ d.y = y /\ d.outside = c.outside
  <2> HIDE DEF d, f, y
  <2> QED BY <1>2
<1>4. <<>> \in Seq(STRING)
  OBVIOUS
<1>5. next \in Seq(Seq(STRING)) /\ Len(next) = n + 1 /\ next[n + 1] = <<>> /\ \A j \in 1 .. n : next[j] = rows[j]
  BY <1>1, <1>4
<1>6. PICK lines \in 1 .. n : ShowsLines(c.frame, c.y, rows, lines)
  BY DEF Shows
<1>7. y \in Nat /\ y + LineHeight <= Height
  BY <1>1, Geometry
<1>8. DOMAIN g = 0 .. FrameSize - 1
  BY <1>1 DEF scroll_memcpy
<1>9. /\ f = [a \in 0 .. FrameSize - 1 |-> f[a]]
      /\ \A k \in Line : f[y * Width + k] = {}
      /\ \A a \in Nat : a < y * Width => f[a] = g[a]
  <2> HIDE DEF g, y
  <2> QED BY <1>7, <1>8, Cleaned
<1> HIDE DEF n, next, d, f
<1>10. Proper(d)
  <2> HIDE DEF y
  <2> QED BY <1>1, <1>2, <1>3, <1>7, <1>9 DEF Proper
<1>11. \A j \in 1 .. n + 1 : Looks(next[j])
  <2> TAKE j \in 1 .. n + 1
  <2>1. CASE j = n + 1
    BY <1>5, <2>1, NothingLooks
  <2>2. CASE j # n + 1
    <3>1. j \in 1 .. n
      BY <1>1, <2>2
    <3> QED BY <1>1, <1>5, <3>1
  <2> QED BY <2>1, <2>2
<1>12. d.outside => out \/ TooWide(next)
  <2> SUFFICES ASSUME NEW j \in 1 .. n, RowWidth(rows[j]) > Width PROVE TooWide(next)
    BY <1>1, <1>3 DEF TooWide, n
  <2>1. j \in 1 .. n + 1 /\ next[j] = rows[j]
    BY <1>1, <1>5
  <2> QED BY <1>5, <2>1 DEF TooWide
<1>13. c.y = (lines - 1) * LineHeight /\ \A j \in 1 .. lines : \A k \in Line :
           c.frame[(j - 1) * m + k] = Ink(rows[n - lines + j])[k]
  BY <1>6 DEF ShowsLines, n
<1>14. lines \in Nat \ {0} /\ LineHeight \in Nat \ {0} /\ m \in Nat /\ Line \subseteq Nat
  BY <1>1, Geometry DEF Line
<1>15. \E l \in 1 .. n + 1 : ShowsLines(d.frame, d.y, next, l)
  <2>1. CASE ~full
    <3>1. y = ((lines + 1) - 1) * LineHeight /\ lines + 1 \in Nat \ {0} /\ lines + 1 \in 1 .. n + 1
      BY <1>1, <1>13, <1>14, <2>1
    <3>2. g = c.frame
      BY <2>1
    <3> HIDE DEF y, g
    <3>3. ASSUME NEW j \in 1 .. lines + 1, NEW k \in Line
          PROVE  f[(j - 1) * m + k] = Ink(next[(n + 1) - (lines + 1) + j])[k]
      <4> DEFINE a == (j - 1) * m + k
      <4>1. a \in Nat /\ (j = lines + 1 => a = y * Width + k)
        BY <3>1, Above
      <4>2. a \in Nat /\ (j # lines + 1 => a < y * Width)
        BY <3>1, Above
      <4> HIDE DEF a
      <4>3. CASE j = lines + 1
        <5>1. (n + 1) - (lines + 1) + j = n + 1
          BY <1>1, <1>14, <4>3
        <5>2. next[(n + 1) - (lines + 1) + j] = <<>>
          BY <1>5, <5>1
        <5>3. f[a] = {}
          BY <1>9, <4>1, <4>2, <4>3
        <5> QED BY <5>2, <5>3, NothingLooks DEF a
      <4>4. CASE j # lines + 1
        <5>1. j \in 1 .. lines /\ (n + 1) - (lines + 1) + j = n - lines + j /\ n - lines + j \in 1 .. n
          BY <1>1, <4>4, SMTT(30)
        <5>2. f[a] = c.frame[a]
          BY <1>9, <3>2, <4>2, <4>4
        <5> QED BY <1>5, <1>13, <5>1, <5>2 DEF a
      <4> QED BY <4>3, <4>4
    <3>4. ShowsLines(d.frame, d.y, next, lines + 1)
      BY <1>3, <1>5, <3>1, <3>3 DEF ShowsLines
    <3> QED BY <3>1, <3>4
  <2>2. CASE full
    <3>1. y = c.y /\ y = (lines - 1) * LineHeight /\ lines \in 1 .. n + 1
      BY <1>1, <1>13, <2>2
    <3>2. \A a \in 0 .. FrameSize - 1 : a < y * Width => g[a] = c.frame[a + m]
      BY <1>1, <2>2 DEF scroll_memcpy
    <3> HIDE DEF y, g
    <3>3. ASSUME NEW j \in 1 .. lines, NEW k \in Line
          PROVE  f[(j - 1) * m + k] = Ink(next[(n + 1) - lines + j])[k]
      <4> DEFINE a == (j - 1) * m + k
      <4>1. a \in Nat /\ (j = lines => a = y * Width + k)
        BY <1>14, <3>1, Above
      <4>2. j # lines => a < y * Width
        BY <1>14, <3>1, Above
      <4>3. CASE j = lines
        <5> HIDE DEF a
        <5>1. (n + 1) - lines + j = n + 1
          BY <1>1, <4>3
        <5>2. next[(n + 1) - lines + j] = <<>>
          BY <1>5, <5>1
        <5>3. f[a] = {}
          BY <1>9, <4>1, <4>3
        <5> QED BY <5>2, <5>3, NothingLooks DEF a
      <4>4. CASE j # lines
        <5>1. /\ j + 1 \in 1 .. lines /\ n - lines + (j + 1) = (n + 1) - lines + j
              /\ n - lines + (j + 1) \in 1 .. n
          BY <1>1, <4>4
        <5>2. a + m = ((j + 1) - 1) * m + k
          BY <1>14
        <5> HIDE DEF a
        <5>3. a \in 0 .. FrameSize - 1
          <6>1. 0 \in Line
            BY Geometry DEF Line
          <6>2. y * Width + 0 \in 0 .. FrameSize - 1 /\ y * Width \in Nat
            BY <1>7, <6>1, OnLine
          <6> QED BY <4>1, <4>2, <4>4, <6>2, Geometry
        <5>4. f[a] = c.frame[a + m]
          BY <1>9, <3>2, <4>1, <4>2, <4>4, <5>3
        <5>5. next[(n + 1) - lines + j] = rows[n - lines + (j + 1)]
          BY <1>5, <5>1
        <5>6. c.frame[a + m] = Ink(rows[n - lines + (j + 1)])[k]
          BY <1>13, <5>1, <5>2
        <5> QED BY <5>4, <5>5, <5>6 DEF a
      <4> QED BY <4>3, <4>4
    <3>4. ShowsLines(d.frame, d.y, next, lines)
      BY <1>3, <1>5, <3>1, <3>3 DEF ShowsLines
    <3> QED BY <3>1, <3>4
  <2> QED BY <2>1, <2>2
<1>16. next # <<>> /\ 0 = RowWidth(next[Len(next)])
  BY <1>1, <1>5, NothingLooks
<1>17. Shows(d, 0, next, out)
  <2> HIDE DEF y, g
  <2> QED BY <1>3, <1>5, <1>7, <1>10, <1>11, <1>12, <1>15, <1>16 DEF Shows
<1> QED BY <1>3, <1>17 DEF d, next

-----------------------------------------------------------------------------
(* Between two characters of a text: what is pending, drawn, would show    *)
(* the rows.                                                               *)

Pending(acc, rows, out) ==
  LET o == BootVideoOverlayString(acc.c, acc.pending)
  IN  /\ acc = [c |-> acc.c, pending |-> acc.pending] /\ acc.pending \in Seq(STRING)
      /\ acc.c.x \in Nat /\ acc.c.y \in Nat /\ o.w \in Nat /\ o.c.x = acc.c.x /\ o.c.y = acc.c.y
      /\ Shows(o.c, acc.c.x + o.w, rows, out)

(* Before the first character nothing is pending.                          *)
LEMMA NonePending ==
  ASSUME NEW c, NEW rows, NEW out, Shows(c, c.x, rows, out)
  PROVE  Pending([c |-> c, pending |-> <<>>], rows, out)
<1> DEFINE acc == [c |-> c, pending |-> <<>>]
           o == BootVideoOverlayString(acc.c, acc.pending)
<1>1. acc.c = c /\ acc.pending = <<>> /\ <<>> \in Seq(STRING)
  OBVIOUS
<1>2. o = [c |-> c, w |-> 0]
  BY <1>1, OverlayNothing
<1>3. o.c = c /\ o.w = 0
  <2> HIDE DEF o
  <2> QED BY <1>2
<1>4. c.x \in Nat /\ c.y \in Nat
  BY DEF Shows, Proper
<1>5. c.x + 0 = c.x
  BY <1>4
<1>6. Shows(o.c, acc.c.x + o.w, rows, out)
  <2> HIDE DEF o
  <2> QED BY <1>1, <1>3, <1>5
<1>7. acc = [c |-> acc.c, pending |-> acc.pending]
  OBVIOUS
<1> HIDE DEF acc
<1>8. Pending(acc, rows, out)
  BY <1>1, <1>3, <1>4, <1>6, <1>7 DEF Pending
<1> QED BY <1>8 DEF acc

(* Each character of a text moves screen and paper in step.                *)
LEMMA PendingStep ==
  ASSUME NEW acc, NEW rows, NEW out, Pending(acc, rows, out), NEW ch \in STRING
  PROVE  /\ Pending(PrintChar(acc, ch), PaperChar(rows, ch), out)
         /\ PrintChar(acc, ch).pending = <<>> <=> ch = NL
<1> DEFINE o == BootVideoOverlayString(acc.c, acc.pending)
<1>1. /\ acc = [c |-> acc.c, pending |-> acc.pending] /\ acc.pending \in Seq(STRING)
      /\ acc.c.x \in Nat /\ acc.c.y \in Nat /\ o.w \in Nat /\ o.c.x = acc.c.x /\ o.c.y = acc.c.y
      /\ Shows(o.c, acc.c.x + o.w, rows, out)
  BY DEF Pending
<1>2. CASE ch = NL
  <2>1. PrintChar(acc, ch) = [c |-> NewLine(o.c), pending |-> <<>>] /\ PaperChar(rows, ch) = Append(rows, <<>>)
    BY <1>2 DEF PrintChar, PaperChar
  <2> HIDE DEF o
  <2>2. Shows(NewLine(o.c), NewLine(o.c).x, Append(rows, <<>>), out)
    BY <1>1, LineShows
  <2>3. Pending(PrintChar(acc, ch), PaperChar(rows, ch), out)
    BY <2>1, <2>2, NonePending
  <2> QED BY <1>2, <2>1, <2>3
<1>3. CASE ch # NL
  <2> DEFINE p == Append(acc.pending, ch)
             more == [c |-> acc.c, pending |-> p]
             z == BootVideoOverlayString(acc.c, p)
             e == o.c.y * Width + (acc.c.x + o.w)
             next == Append(Front(rows), Append(Last(rows), ch))
  <2>1. PrintChar(acc, ch) = [acc EXCEPT !.pending = p] /\ PaperChar(rows, ch) = next
    BY <1>3 DEF PrintChar, PaperChar
  <2>2. [acc EXCEPT !.pending = p] = more
    <3> HIDE DEF p
    <3> QED BY <1>1
  <2>3. p \in Seq(STRING) /\ p # <<>>
    BY <1>1, OneMoreIn
  <2>4. z = Put(acc.c.y * Width + acc.c.x, o, ch)
    BY <1>1, OverlayMore
  <2> HIDE DEF o, z, p
  <2>5. acc.c.y * Width \in Nat /\ (acc.c.y * Width + acc.c.x) + o.w = e /\ e \in Nat /\ acc.c.x + o.w \in Nat
    <3>1. PICK r \in Nat : r = acc.c.y * Width
      BY <1>1, Geometry
    <3>2. o.c.y * Width = r
      BY <1>1, <3>1
    <3> QED BY <1>1, <3>1, <3>2
  <2>6. z.c = BootVideoOverlayCharacter(o.c, e, ch) /\ z.w = o.w + Advance(e, ch)
    <3> HIDE DEF e
    <3> QED BY <2>4, <2>5 DEF Put
  <2>7. Advance(e, ch) \in Nat
    BY <1>1, <2>5, AdvanceFacts
  <2>8. Shows(z.c, (acc.c.x + o.w) + Advance(e, ch), next, out)
    BY <1>1, <2>6, CharShows
  <2>9. z.c.x = acc.c.x /\ z.c.y = acc.c.y
    <3>1. Proper(o.c)
      BY <1>1 DEF Shows
    <3> HIDE DEF e
    <3> QED BY <1>1, <2>5, <2>6, <3>1, Drawn
  <2> HIDE DEF e, next
  <2>10. z.w \in Nat /\ (acc.c.x + o.w) + Advance(e, ch) = acc.c.x + z.w
    BY <1>1, <2>6, <2>7
  <2>11. more.c = acc.c /\ more.pending = p /\ more = [c |-> more.c, pending |-> more.pending]
    OBVIOUS
  <2> HIDE DEF more
  <2>12. z = BootVideoOverlayString(more.c, more.pending)
    BY <2>11 DEF z
  <2>13. Pending(more, next, out)
    BY <1>1, <2>3, <2>8, <2>9, <2>10, <2>11, <2>12 DEF Pending
  <2> QED BY <1>3, <2>1, <2>2, <2>3, <2>11, <2>13
<1> QED BY <1>2, <1>3

(* Printing a text.                                                        *)
LEMMA PrintShows ==
  ASSUME NEW c, NEW rows, NEW out, Shows(c, c.x, rows, out), NEW text \in Seq(STRING)
  PROVE  LET d == BootVideoChunkedPrint(c, text) IN Shows(d, d.x, OnPaper(rows, text), out)
<1> DEFINE N == Len(text)
<1>1. N \in Nat /\ \A n \in 1 .. N : text[n] \in STRING
  OBVIOUS
<1>2. PICK f : Prints(f, c, text) /\ BootVideoChunkedPrint(c, text) = PrintEnd(f[Len(text)])
  BY <1>1, PrintFold
<1>3. PICK g : Writes(g, rows, text) /\ OnPaper(rows, text) = PaperEnd(g[Len(text)], text)
  BY <1>1, PaperFold
<1>0. /\ f[0] = [c |-> c, pending |-> <<>>] /\ g[0] = rows
      /\ \A n \in 1 .. N : f[n] = PrintChar(f[n - 1], text[n]) /\ g[n] = PaperChar(g[n - 1], text[n])
  BY <1>2, <1>3 DEF Prints, Writes
<1> DEFINE T == {n \in 0 .. N : Pending(f[n], g[n], out)
                                /\ (f[n].pending = <<>> <=> n = 0 \/ text[n] = NL)}
<1>4. 0 \in T
  <2>1. Pending(f[0], g[0], out)
    BY <1>0, NonePending
  <2>2. f[0].pending = <<>>
    BY <1>0
  <2> QED BY <1>1, <2>1, <2>2
<1>5. ASSUME NEW n \in 1 .. N, n - 1 \in T PROVE n \in T
  <2>1. Pending(f[n - 1], g[n - 1], out) /\ text[n] \in STRING
    BY <1>1, <1>5
  <2>2. f[n] = PrintChar(f[n - 1], text[n]) /\ g[n] = PaperChar(g[n - 1], text[n])
    BY <1>0
  <2>3. Pending(f[n], g[n], out) /\ (f[n].pending = <<>> <=> text[n] = NL)
    <3>1. PICK ch \in STRING : ch = text[n]
      BY <2>1
    <3>2. /\ Pending(PrintChar(f[n - 1], ch), PaperChar(g[n - 1], ch), out)
          /\ PrintChar(f[n - 1], ch).pending = <<>> <=> ch = NL
      BY <2>1, PendingStep
    <3> QED BY <2>2, <3>1, <3>2
  <2>4. n \in 0 .. N /\ n # 0
    BY <1>1
  <2> QED BY <2>3, <2>4
<1>6. N \in T
  <2> HIDE DEF T, N
  <2>1. 0 .. N \subseteq T
    BY <1>1, <1>4, <1>5, UpTo
  <2> QED BY <1>1, <2>1
<1> DEFINE acc == f[N]
           last == g[N]
           o == BootVideoOverlayString(acc.c, acc.pending)
<1>7. Pending(acc, last, out) /\ (acc.pending = <<>> <=> N = 0 \/ text[N] = NL)
  BY <1>6
<1>8. /\ acc.c.x \in Nat /\ o.w \in Nat /\ o.c.x = acc.c.x /\ Shows(o.c, acc.c.x + o.w, last, out)
  BY <1>7 DEF Pending
<1>9. CASE acc.pending = <<>>
  <2>1. PrintEnd(acc) = acc.c
    BY <1>9 DEF PrintEnd
  <2>2. PaperEnd(last, text) = last
    <3>1. N = 0 \/ text[N] = NL
      BY <1>7, <1>9
    <3>2. text = <<>> \/ Last(text) = NL
      BY <3>1 DEF Last
    <3> QED BY <3>2 DEF PaperEnd
  <2>3. o = [c |-> acc.c, w |-> 0]
    BY <1>9, OverlayNothing
  <2> HIDE DEF o, acc, last
  <2>4. o.c = acc.c /\ acc.c.x + o.w = acc.c.x
    BY <1>8, <2>3
  <2>5. Shows(acc.c, acc.c.x, last, out)
    BY <1>8, <2>4
  <2> QED BY <1>2, <1>3, <2>1, <2>2, <2>5 DEF acc, last
<1>10. CASE acc.pending # <<>>
  <2> DEFINE after == [o.c EXCEPT !.x = @ + o.w]
  <2>1. PrintEnd(acc) = IF after.x > Width THEN NewLine(after) ELSE after
    <3>1. Width - xmargin = Width
      BY Geometry DEF xmargin
    <3> QED BY <1>10, <3>1 DEF PrintEnd
  <2>2. PaperEnd(last, text) = IF RowWidth(Last(last)) > Width THEN Append(last, <<>>) ELSE last
    <3>1. ~(N = 0 \/ text[N] = NL)
      BY <1>7, <1>10
    <3>2. text # <<>> /\ Last(text) # NL
      BY <3>1 DEF Last
    <3> QED BY <3>2 DEF PaperEnd
  <2> HIDE DEF o, acc, last
  <2>3. o.c = [frame |-> o.c.frame, x |-> o.c.x, y |-> o.c.y, outside |-> o.c.outside]
    BY <1>8 DEF Shows, Proper
  <2>4. after = [frame |-> o.c.frame, x |-> o.c.x + o.w, y |-> o.c.y, outside |-> o.c.outside]
    BY <2>3
  <2> HIDE DEF after
  <2>5. after.frame = o.c.frame /\ after.x = acc.c.x + o.w /\ after.y = o.c.y /\ after.outside = o.c.outside
    BY <1>8, <2>4
  <2>6. Proper(after)
    <3>1. Proper(o.c) /\ acc.c.x + o.w \in Nat
      BY <1>8, SMTT(30) DEF Shows
    <3>2. after = [frame |-> after.frame, x |-> after.x, y |-> after.y, outside |-> after.outside]
      BY <2>4
    <3> QED BY <2>5, <3>1, <3>2 DEF Proper
  <2>7. Shows(after, after.x, last, out)
    BY <1>8, <2>5, <2>6 DEF Shows
  <2>8. after.x = RowWidth(Last(last))
    BY <2>7 DEF Shows, Last
  <2>9. Shows(NewLine(after), NewLine(after).x, Append(last, <<>>), out)
    BY <2>7, LineShows
  <2> QED BY <1>2, <1>3, <2>1, <2>2, <2>7, <2>8, <2>9 DEF acc, last
<1> QED BY <1>9, <1>10

-----------------------------------------------------------------------------
(* The inductive invariant: the screen shows the paper, and a row wider    *)
(* than the screen is remembered.                                          *)
ScreenInv ==
  /\ Shows(console, console.x, paper, ~neat)
  /\ neat => \A j \in 1 .. Len(paper) : RowWidth(paper[j]) <= Width

(* loader_init() starts with an empty screen.                              *)
LEMMA ScreenInit ==
  ASSUME LoaderInit PROVE ScreenInv
<1>1. console = Blank /\ paper = << <<>> >>
  BY DEF LoaderInit
<1>2. Blank = BlankAt(0)
  BY BlankFacts
<1>3. /\ Proper(Blank) /\ Blank.x = 0 /\ Blank.y = 0 /\ ~Blank.outside
      /\ \A b \in 0 .. FrameSize - 1 : Blank.frame[b] = {}
  <2> HIDE DEF Blank
  <2> QED BY <1>2, BlankFacts
<1>4. paper \in Seq(Seq(STRING)) /\ Len(paper) = 1 /\ paper[1] = <<>>
  BY <1>1
<1>5. 0 + LineHeight <= Height /\ 0 = (1 - 1) * LineHeight /\ 0 * Width = 0 /\ (1 - 1) * (LineHeight * Width) = 0
  BY ConsoleAssumption, Geometry
<1>6. ShowsLines(Blank.frame, 0, paper, 1)
  <2>1. ASSUME NEW j \in 1 .. 1, NEW d \in Line
        PROVE  Blank.frame[(j - 1) * (LineHeight * Width) + d] = Ink(paper[Len(paper) - 1 + j])[d]
    <3>1. d \in Nat /\ 0 * Width + d \in 0 .. FrameSize - 1
      BY <1>5, OnLine
    <3>2. j = 1 /\ (j - 1) * (LineHeight * Width) + d = d /\ Len(paper) - 1 + j = 1 /\ d \in 0 .. FrameSize - 1
      BY <1>4, <1>5, <3>1
    <3> HIDE DEF Blank
    <3> QED BY <1>3, <1>4, <3>2, NothingLooks
  <2> HIDE DEF Blank
  <2> QED BY <1>5, <2>1 DEF ShowsLines
<1> HIDE DEF Blank
<1>7. Shows(Blank, 0, paper, ~neat)
  <2>1. paper # <<>> /\ \A j \in 1 .. Len(paper) : Looks(paper[j])
    BY <1>4, NothingLooks
  <2>2. Blank.y + LineHeight <= Height
    BY <1>3, <1>5
  <2>3. 0 = RowWidth(paper[Len(paper)])
    BY <1>4, NothingLooks
  <2>4. \E lines \in 1 .. Len(paper) : ShowsLines(Blank.frame, Blank.y, paper, lines)
    BY <1>3, <1>4, <1>6
  <2> QED BY <1>3, <1>4, <2>1, <2>2, <2>3, <2>4 DEF Shows
<1>8. \A j \in 1 .. Len(paper) : RowWidth(paper[j]) <= Width
  BY <1>4, NothingLooks, Geometry
<1> QED BY <1>1, <1>3, <1>7, <1>8 DEF ScreenInv

(* Every call of printk() keeps screen and paper in step.                  *)
LEMMA SaysShows ==
  ASSUME ScreenInv, NEW text \in Seq(STRING), Says(text)
  PROVE  ScreenInv'
<1>1. /\ console' = BootVideoChunkedPrint(console, text) /\ paper' = OnPaper(paper, text)
      /\ neat' = (neat /\ \A j \in DOMAIN paper' : RowWidth(paper'[j]) <= Width)
  BY DEF Says
<1>2. Shows(console', console'.x, paper', ~neat)
  BY <1>1, PrintShows DEF ScreenInv
<1>3. paper' \in Seq(Seq(STRING))
  BY <1>2 DEF Shows
<1>4. DOMAIN paper' = 1 .. Len(paper')
  BY <1>3
<1>5. Shows(console', console'.x, paper', ~neat')
  <2>1. ~neat => ~neat'
    BY <1>1
  <2> QED BY <1>2, <2>1 DEF Shows
<1>6. neat' => \A j \in 1 .. Len(paper') : RowWidth(paper'[j]) <= Width
  BY <1>1, <1>4
<1> QED BY <1>5, <1>6 DEF ScreenInv

(* So does every step of the loader.                                       *)
LEMMA ScreenNext ==
  ASSUME ScreenInv, [LoaderNext]_loader_vars
  PROVE  ScreenInv'
<1>1. ASSUME UNCHANGED display PROVE ScreenInv'
  BY <1>1 DEF display, ScreenInv
<1>2. CASE DoMainPrints
  <2>1. PICK j \in DOMAIN Messages : Says(vsprintf(Messages[j].fmt, Messages[j].args))
    BY <1>2 DEF DoMainPrints, printk
  <2>2. vsprintf(Messages[j].fmt, Messages[j].args) \in Seq(STRING)
    BY TextsAssumption
  <2> QED BY <2>1, <2>2, SaysShows
<1>3. CASE boot_kernel \/ CopyKernel \/ CreateParams
  <2>1. Says(Notice) /\ Notice \in Seq(STRING)
    BY <1>3, TextsAssumption DEF boot_kernel, CopyKernel, CreateParams
  <2> QED BY <2>1, SaysShows
<1>4. CASE Sprintf \/ StartKernel \/ UNCHANGED loader_vars
  <2>1. UNCHANGED display
    BY <1>4 DEF Sprintf, StartKernel, loader_vars, display
  <2> QED BY <1>1, <2>1
<1> QED BY <1>2, <1>3, <1>4 DEF LoaderNext

(* The invariant says what the screen shows.                               *)
LEMMA ScreenTail ==
  ASSUME ScreenInv PROVE ScreenShowsTail
<1> DEFINE n == Len(paper)
           c == console
<1>1. /\ Proper(c) /\ c.y + LineHeight <= Height /\ n \in Nat
      /\ \A j \in 1 .. n : Looks(paper[j])
      /\ c.outside => ~neat \/ TooWide(paper)
  BY DEF ScreenInv, Shows
<1>2. PICK lines \in 1 .. n : ShowsLines(c.frame, c.y, paper, lines)
  BY DEF ScreenInv, Shows
<1>3. LineHeight \in Nat \ {0} /\ Width \in Nat \ {0} /\ Height \in Nat /\ lines \in Nat \ {0}
  BY <1>1, Geometry
<1>4. c.y = (lines - 1) * LineHeight
  BY <1>2 DEF ShowsLines
<1>5. c.y \div LineHeight + 1 = lines
  <2>1. (lines - 1) \in Int /\ 0 \in 0 .. LineHeight - 1 /\ (lines - 1) * LineHeight \in Int
        /\ (lines - 1) * LineHeight = (lines - 1) * LineHeight + 0
    BY <1>3
  <2>2. ((lines - 1) * LineHeight) \div LineHeight = lines - 1
    BY <1>3, <2>1, Quotient
  <2> QED BY <1>3, <1>4, <2>2
<1>6. ASSUME NEW j \in 1 .. lines, NEW a \in (j - 1) * LineHeight * Width .. j * LineHeight * Width - 1
      PROVE  c.frame[a] =
             BootVideoOverlayString([Blank EXCEPT !.y = (j - 1) * LineHeight], paper[n - lines + j]).c.frame[a]
  <2> DEFINE m == LineHeight * Width
             y == (j - 1) * LineHeight
             row == paper[n - lines + j]
             d == a - (j - 1) * m
  <2>1. /\ m \in Nat \ {0} /\ (j - 1) * LineHeight * Width = (j - 1) * m /\ j * LineHeight * Width = j * m
        /\ (j - 1) * m \in Nat /\ j * m = (j - 1) * m + m /\ y * Width = (j - 1) * m /\ y \in Nat
    BY <1>3
  <2>2. d \in Line /\ (j - 1) * m + d = a /\ y * Width + d = a
    <3> HIDE DEF y, m
    <3>1. a \in (j - 1) * m .. (j - 1) * m + m - 1
      BY <2>1
    <3>2. PICK z \in Nat : z = (j - 1) * m
      BY <2>1
    <3>3. d \in 0 .. m - 1 /\ z + d = a
      BY <2>1, <3>1, <3>2
    <3> QED BY <2>1, <3>2, <3>3 DEF Line, m
  <2>3. y + LineHeight <= Height
    <3>1. y + LineHeight = j * LineHeight /\ j * LineHeight <= lines * LineHeight
          /\ (lines - 1) * LineHeight + LineHeight = lines * LineHeight
      BY <1>3
    <3>2. j * LineHeight \in Nat /\ lines * LineHeight \in Nat
      BY <1>3
    <3> HIDE DEF y
    <3> QED BY <1>1, <1>3, <1>4, <3>1, <3>2
  <2>4. n - lines + j \in 1 .. n
    BY <1>1
  <2>5. LooksThere(row, y)
    BY <1>1, <2>1, <2>4 DEF Looks
  <2>6. BootVideoOverlayString(BlankAt(y), row).c.frame[y * Width + d] = Ink(row)[d]
    <3> HIDE DEF y, row, d
    <3> QED BY <2>2, <2>3, <2>5 DEF LooksThere
  <2>7. c.frame[(j - 1) * m + d] = Ink(row)[d]
    <3> HIDE DEF d
    <3> QED BY <1>2, <2>2 DEF ShowsLines
  <2> HIDE DEF d
  <2> QED BY <2>2, <2>6, <2>7 DEF BlankAt
<1>7. console.outside => ~neat
  <2>1. neat => ~TooWide(paper)
    <3> SUFFICES ASSUME neat, NEW j \in 1 .. n, RowWidth(paper[j]) > Width PROVE FALSE
      BY DEF TooWide
    <3>1. RowWidth(paper[j]) <= Width /\ RowWidth(paper[j]) \in Nat
      BY <1>1 DEF ScreenInv, Looks
    <3> QED BY <1>3, <3>1
  <2> QED BY <1>1, <2>1
<1>8. lines <= n
  BY <1>1
<1> HIDE DEF n
<1>9. \A j \in 1 .. lines :
          [a \in (j - 1) * LineHeight * Width .. j * LineHeight * Width - 1 |-> console.frame[a]] =
          [a \in (j - 1) * LineHeight * Width .. j * LineHeight * Width - 1 |->
             BootVideoOverlayString([Blank EXCEPT !.y = (j - 1) * LineHeight],
                                    paper[n - lines + j]).c.frame[a]]
  BY <1>6
<1> QED BY <1>5, <1>7, <1>8, <1>9 DEF ScreenShowsTail, n

(* Whatever do_main() and boot_kernel() print, each line of the screen     *)
(* down to the cursor shows exactly its row of what was printed, however   *)
(* often BootVideoChunkedPrint() has scrolled and cleaned                  *)
(* (BootVideoHelpers.c:198-246), and nothing was drawn outside the frame   *)
(* buffer unless a row was wider than the screen.                          *)
THEOREM ScreenTrue == LoaderSpec => []ScreenShowsTail
<1>1. LoaderInit => ScreenInv
  BY ScreenInit
<1>2. ScreenInv /\ [LoaderNext]_loader_vars => ScreenInv'
  BY ScreenNext
<1>3. ScreenInv => ScreenShowsTail
  BY ScreenTail
<1> QED BY <1>1, <1>2, <1>3, PTL DEF LoaderSpec
=============================================================================
