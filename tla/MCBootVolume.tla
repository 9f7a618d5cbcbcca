---------------------------- MODULE MCBootVolume ----------------------------
(* Every bus with an ordinary disk, and every disk behind an ordinary bus.   *)
EXTENDS BootVolume, MCExt2File, MCGpt, MCPciScan

EverySlot(dev) == [b \in 0..(Buses - 1) |-> [s \in 0..(Slots - 1) |-> dev]]
AllBuses == [0..(Buses - 1) -> [0..(Slots - 1) -> MCDevices]]
OneController ==
  [EverySlot(Of(FALSE, 0 :> Nothing)) EXCEPT ![0] = [@ EXCEPT ![1] = Of(FALSE, 0 :> Ide(<<3, 4>>))]]
DiskOf(m, array) ==
  [ pmbr |-> m,
    header |-> [l \in 0..MCLastLba |->
                  CASE l = 1 -> Header(1, MCLastLba, 2, array)
                    [] l = MCLastLba -> Header(MCLastLba, 1, 4, array) [] OTHER -> NoHeader],
    entries |-> [l \in 0..(MCLastLba + 1) |-> IF l \in {2, 4} THEN array ELSE <<>>] ]

(* The two volumes lie on the two partitions of one disk.                    *)
MCHome == <<[start |-> 3, size |-> 2], [start |-> 5, size |-> 1]>>
TwoVolumes == DiskOf(TRUE, <<Pte(3, 4), Pte(5, 5)>>)
NoTable == DiskOf(FALSE, <<Unused, Unused>>)

MCDisks == MCImages \cup {TwoVolumes}
MCMachines ==
       [type : MCTypes, config : AllBuses, image : {NoTable}]
  \cup [type : {"DISK_DRIVER"}, config : {OneController}, image : MCDisks]
=============================================================================
