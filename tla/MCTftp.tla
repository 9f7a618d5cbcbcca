------------------------------- MODULE MCTftp -------------------------------
(* Instances of Tftp: two files, the second of them ending on a block      *)
(* boundary, and one file whose block numbers wrap around.                 *)
EXTENDS Tftp

MCSizes == {<<0, 1>>, <<3>>}    \* 1 and 2 blocks of one unit; 4 blocks, or
                                \* 2 blocks of two units
=============================================================================
