------------------------------- MODULE MCDisk -------------------------------
(* Instances of Disk: each drive has its own size and address format, and  *)
(* the partitions lie inside, across and behind the end of the drives.     *)
EXTENDS Disk, TLC

MCEquipment == { {}, {0}, {1}, {2}, {1, 2}, {0, 1, 2} }
MCSectors == (0 :> 3) @@ (1 :> 2) @@ (2 :> 4) @@ (3 :> 2)
MCMode == (0 :> "chs") @@ (1 :> "lba") @@ (2 :> "lba") @@ (3 :> "lba48")
MCPartitions == { [start |-> 1, size |-> 3] }
MCReads == { [sector |-> 0, n |-> 2], [sector |-> 1, n |-> 1], [sector |-> 2, n |-> 2],
             [sector |-> 3, n |-> 0] }
=============================================================================
