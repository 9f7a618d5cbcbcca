---------------------------- MODULE MCExt2Names -----------------------------
(* Instances of Ext2Names.  The tree, with inode numbers in brackets:      *)
(*   / [2]   boot [3]   k [5] file      vm [6] -> "k"    (relative)        *)
(*                      abs [7] -> "/boot/k"                               *)
(*           a [8] -> "b"    b [9] -> "a"     (a circle)                   *)
(*           top [10] -> "boot/k"    far [11] -> "/boot/k", a long link    *)
(*           in [12] -> "/boot"                                            *)
EXTENDS Ext2Names, TLC

MCRoot == 2
MCInodes == {2, 3, 5, 6, 7, 8, 9, 10, 11, 12}
MCNames == {"boot", "k", "vm", "abs", "a", "b", "top", "far", "in"}
MCDir ==
  (2 :> [boot |-> 3, a |-> 8, b |-> 9, top |-> 10, far |-> 11, in |-> 12]) @@
  (3 :> [k |-> 5, vm |-> 6, abs |-> 7])

MkLink(a, l, p) == [abs |-> a, long |-> l, path |-> p]
MCLink ==
  (6 :> MkLink(FALSE, FALSE, <<"k">>)) @@ (7 :> MkLink(TRUE, FALSE, <<"boot", "k">>)) @@
  (8 :> MkLink(FALSE, FALSE, <<"b">>)) @@ (9 :> MkLink(FALSE, FALSE, <<"a">>)) @@
  (10 :> MkLink(FALSE, FALSE, <<"boot", "k">>)) @@
  (11 :> MkLink(TRUE, TRUE, <<"boot", "k">>)) @@ (12 :> MkLink(TRUE, FALSE, <<"boot">>))

MCPaths == { <<"boot", "k">>, <<"k">>, <<"boot", "vm">>, <<"boot", "abs">>, <<"a">>,
             <<"top">>, <<"far">>, <<"in", "k">> }

(* POSIX path resolution from directory d, of at most n steps.             *)
RECURSIVE Resolve(_, _, _)
Resolve(d, p, n) ==
  IF n = 0 \/ d \notin DOMAIN MCDir THEN 0
  ELSE IF Head(p) \notin DOMAIN MCDir[d] THEN 0
  ELSE LET i == MCDir[d][Head(p)]
           t == IF i \in DOMAIN MCLink
                THEN Resolve(IF MCLink[i].abs THEN MCRoot ELSE d, MCLink[i].path, n - 1)
                ELSE i
       IN IF Tail(p) = <<>> THEN t ELSE Resolve(t, Tail(p), n - 1)

MCFinds == [e \in (MCInodes \cup {0}) \X Trails |-> Resolve(e[1], e[2], 6)]

=============================================================================
