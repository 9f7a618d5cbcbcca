----------------------------- MODULE MCDlMalloc -----------------------------
(* Four programs for TLC: one that breaks the heap up with small and large  *)
(* blocks, one whose blocks are mapped, resized and disturbed by another     *)
(* user of MORECORE, one that uses the remaining interfaces, and one whose   *)
(* heap is spread over several segments.  A call of calloc() for 16 times 17 *)
(* words overflows an 8-bit size.                                            *)
EXTENDS DlMalloc

Fragmenting == [requests |-> {3, 5, 9, 17}, resizes |-> {}, aligned |-> {}, arrays |-> {},
                groups |-> {}, calls |-> 8, foreign |-> 0]
Mapping == [requests |-> {9, 17}, resizes |-> {9, 33}, aligned |-> {<<8, 3>>},
            arrays |-> {}, groups |-> {}, calls |-> 5, foreign |-> 1]
Grouping == [requests |-> {17}, resizes |-> {}, aligned |-> {<<8, 3>>, <<6, 13>>},
             arrays |-> {<<2, 5>>, <<16, 17>>}, groups |-> {<<1, 7>>}, calls |-> 6, foreign |-> 0]
Spreading == [requests |-> {3, 13}, resizes |-> {}, aligned |-> {}, arrays |-> {},
              groups |-> {}, calls |-> 7, foreign |-> 3]
MCPrograms == {Fragmenting, Mapping, Grouping, Spreading}
=============================================================================
