----------------------------- MODULE MCExt2File -----------------------------
(* Instances of Ext2File: two volumes that use the same block numbers for  *)
(* different things.  One direct block and two pointers per block give     *)
(* direct block 0, indirect blocks 1..2 and double-indirect blocks 3..6,   *)
(* of which ind2lim admits 3..4.                                           *)
EXTENDS Ext2File, TLC

MkInode(s, d, i, di) == [size |-> s, direct |-> [n \in {0} |-> d], ind |-> i, dind |-> di]
MkTable(a, b) == (0 :> a) @@ (1 :> b)

(* Of volume 1, file 1 reaches into the double-indirect blocks and has a   *)
(* hole, file 2 shares no block with it.  Volume 2 has the pointer blocks  *)
(* in the same places.                                                     *)
MCInode ==
  <<  << MkInode(11, 1, 2, 3), MkInode(6, 12, 13, 0) >>,
      << MkInode(9, 9, 2, 3), MkInode(3, 12, 0, 0) >> >>

MCTable ==
  << [b \in Block |-> CASE b = 2 -> MkTable(5, 6) [] b = 3 -> MkTable(4, 7)
       [] b = 4 -> MkTable(8, 0) [] b = 7 -> MkTable(10, 11)
       [] b = 13 -> MkTable(14, 15) [] OTHER -> Zeros],
     [b \in Block |-> CASE b = 2 -> MkTable(6, 5) [] b = 3 -> MkTable(2, 0)
       [] OTHER -> Zeros] >>

=============================================================================
