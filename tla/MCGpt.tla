------------------------------- MODULE MCGpt -------------------------------
(* Disks of six sectors: MBR, primary header, its entries, a partition,    *)
(* the alternate's entries and the alternate header.  One thing may be     *)
(* wrong with each header; the entries are inside, across the end of the   *)
(* disk, upside down, or unused.                                           *)
EXTENDS Gpt

MCLastLba == 5

Pte(s, e) == [used |-> TRUE, start |-> s, end |-> e]
MCJunk == {Unused, Pte(3, 3)}
Entries == {Unused, Pte(3, 5), Pte(3, 6), Pte(4, 3), Pte(5, 3)}
Arrays == {<<a, b>> : a, b \in Entries}

Header(l, other, at, array) ==
  [sig |-> TRUE, crc |-> TRUE, my_lba |-> l, alternate_lba |-> other, first |-> 3,
   last |-> MCLastLba, entry_lba |-> at, num |-> Len(array), size |-> 1, array |-> array]

(* What may be wrong with a header.                                        *)
Flaws(h) ==
  { h, [h EXCEPT !.sig = FALSE], [h EXCEPT !.crc = FALSE], [h EXCEPT !.my_lba = 3],
    [h EXCEPT !.first = MCLastLba + 1], [h EXCEPT !.last = MCLastLba + 1],
    [h EXCEPT !.alternate_lba = MCLastLba + 1], [h EXCEPT !.entry_lba = MCLastLba + 1],
    [h EXCEPT !.num = 0], [h EXCEPT !.num = 1, !.size = 2], [h EXCEPT !.num = 5],
    [h EXCEPT !.num = 9, !.array = <<h.array[1]>>],
    [h EXCEPT !.array = <<h.array[2], h.array[1]>>] }

NoHeader == ZeroHeader

MCImages ==
  UNION { { [ pmbr |-> m,
              header |-> [l \in 0..MCLastLba |-> CASE l = 1 -> p [] l = MCLastLba -> a
                                                   [] OTHER -> NoHeader],
              entries |-> [l \in 0..(MCLastLba + 1) |-> IF l \in {2, 4} THEN array ELSE <<>>] ] :
            m \in BOOLEAN, p \in Flaws(Header(1, MCLastLba, 2, array)),
            a \in {Header(MCLastLba, 1, 4, array),
                   [Header(MCLastLba, 1, 4, array) EXCEPT !.crc = FALSE],
                   [Header(MCLastLba, 1, 4, array) EXCEPT !.array = <<Unused>>]} } :
          array \in Arrays }
=============================================================================
