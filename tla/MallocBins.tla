----------------------------- MODULE MallocBins -----------------------------
(***************************************************************************)
(* Chunks, small bins and tree bins of the allocator main/dl-malloc.h.     *)
(*                                                                         *)
(* Sizes and addresses are counted in words (a size_t, 4 bytes): a chunk   *)
(* header is one word, MALLOC_ALIGNMENT two, the smallest chunk four.      *)
(* Address 0 is the null pointer.  The allocator's state is one record m,  *)
(* as it is one struct malloc_state in the code:                           *)
(*   head       chunk address -> size, cinuse bit, pinuse bit, prev_foot;  *)
(*              only addresses at which a chunk starts now are kept (what  *)
(*              is left of old headers inside a chunk is never read)       *)
(*   smallbins  bin index -> the chunks of the list, first one first       *)
(*   treebins   bin index -> root; node: the tree links of a free chunk    *)
(*   smallmap, treemap, dv, dvsize, top, topsize: as in the code           *)
(* and further fields (segments, limits) that module DlMalloc uses.        *)
(***************************************************************************)
EXTENDS Integers, Sequences, FiniteSets, SequencesExt, FiniteSetsExt

CONSTANTS SIZE_T_BITSIZE,  \* sizes are computed modulo 2^SIZE_T_BITSIZE words
          TREEBIN_SHIFT,   \* chunks of 2^TREEBIN_SHIFT words and more are large
          NTREEBINS        \* number of tree bins, two for each power of two

ASSUME BinsAssumption ==
    /\ SIZE_T_BITSIZE \in Nat /\ TREEBIN_SHIFT \in Nat /\ NTREEBINS \in Nat
    /\ TREEBIN_SHIFT >= 3       \* a tree node needs eight words
    /\ NTREEBINS % 2 = 0 /\ NTREEBINS > 0
    /\ NTREEBINS \div 2 + TREEBIN_SHIFT <= SIZE_T_BITSIZE

MIN_CHUNK_SIZE == 4
MIN_LARGE_SIZE == 2 ^ TREEBIN_SHIFT
NSMALLBINS == MIN_LARGE_SIZE \div 2
MAX_SIZE_T == 2 ^ SIZE_T_BITSIZE - 1
HALF_MAX_SIZE_T == MAX_SIZE_T \div 2
MAX_REQUEST == ((0 - MIN_CHUNK_SIZE) * 4) % 2 ^ SIZE_T_BITSIZE

\* Unsigned arithmetic.
Plus(a, b) == (a + b) % 2 ^ SIZE_T_BITSIZE
Minus(a, b) == (a - b) % 2 ^ SIZE_T_BITSIZE

\* One word of overhead, rounded up to the alignment.
pad_request(req) == 2 * (Plus(req, 2) \div 2)
request2size(req) == IF req <= 2 THEN MIN_CHUNK_SIZE ELSE pad_request(req)
MAX_SMALL_REQUEST == MIN_LARGE_SIZE - 3

chunk2mem(p) == p + 2
mem2chunk(mem) == mem - 2

-----------------------------------------------------------------------------
(* Head and foot fields.                                                    *)

size(m, p) == m.head[p].size
cinuse(m, p) == m.head[p].c
pinuse(m, p) == m.head[p].p
next_chunk(m, p) == p + size(m, p)

\* prev_foot of a directly mapped chunk: its offset in the mapping, or'ed with
\* IS_MMAPPED_BIT; offsets are even.
is_mmapped(m, p) == ~pinuse(m, p) /\ m.head[p].foot % 2 = 1
overhead_for(m, p) == IF is_mmapped(m, p) THEN 2 ELSE 1

\* A header is written: the chunk now reaches to p + s and what was inside it
\* is no longer a chunk.  The prev_foot field before the header stays.
SetHead(m, p, s, c, pin) ==
    LET foot == IF p \in DOMAIN m.head THEN m.head[p].foot ELSE 0
        keep == DOMAIN m.head \ (p .. (p + s - 1))
    IN  [m EXCEPT !.head = [a \in keep \cup {p} |->
            IF a = p THEN [size |-> s, c |-> c, p |-> pin, foot |-> foot]
                     ELSE m.head[a]]]

\* The next chunk learns that its predecessor is in use; the word that was its
\* prev_foot then belongs to that predecessor's user.
SetPinuse(m, q) ==
    [m EXCEPT !.head = [a \in DOMAIN m.head \cup {q} |->
        IF a # q THEN m.head[a]
        ELSE IF q \in DOMAIN m.head THEN [m.head[q] EXCEPT !.p = TRUE, !.foot = 0]
        ELSE [size |-> 0, c |-> FALSE, p |-> TRUE, foot |-> 0]]]

set_foot(m, p, s) == [m EXCEPT !.head[p + s].foot = s]
clear_pinuse(m, q) == [m EXCEPT !.head[q].p = FALSE]

set_inuse(m, p, s) == SetPinuse(SetHead(m, p, s, TRUE, m.head[p].p), p + s)
set_inuse_and_pinuse(m, p, s) == SetPinuse(SetHead(m, p, s, TRUE, TRUE), p + s)
set_size_and_pinuse_of_inuse_chunk(m, p, s) == SetHead(m, p, s, TRUE, TRUE)
set_size_and_pinuse_of_free_chunk(m, p, s) ==
    set_foot(SetHead(m, p, s, FALSE, TRUE), p, s)
set_free_with_pinuse(m, p, s, n) ==
    set_size_and_pinuse_of_free_chunk(clear_pinuse(m, n), p, s)

-----------------------------------------------------------------------------
(* Small bins: one list per size.                                           *)

is_small(s) == s \div 2 < NSMALLBINS
small_index(s) == s \div 2
small_index2size(i) == i * 2

\* A freed chunk becomes the first of its list.
insert_small_chunk(m, p, s) ==
    LET i == small_index(s)
    IN  [m EXCEPT !.smallmap = @ \cup {i}, !.smallbins[i] = <<p>> \o @]

\* A mutant: the bit of an emptied bin stays.
unlink_small_chunk_BitKept(m, p, s) ==
    [m EXCEPT !.smallbins[small_index(s)] = SelectSeq(@, LAMBDA q : q # p)]

\* The bit of the bin is cleared when the chunk was alone (F == B).
unlink_small_chunk(m, p, s) ==
    LET i == small_index(s)
        rest == SelectSeq(m.smallbins[i], LAMBDA q : q # p)
    IN  [m EXCEPT !.smallbins[i] = rest,
                  !.smallmap = IF rest = <<>> THEN @ \ {i} ELSE @]

unlink_first_small_chunk(m, i) == unlink_small_chunk(m, m.smallbins[i][1], small_index2size(i))

replace_dv(m, p, s) ==
    LET m1 == IF m.dvsize = 0 THEN m ELSE insert_small_chunk(m, m.dv, m.dvsize)
    IN  [m1 EXCEPT !.dv = p, !.dvsize = s]

-----------------------------------------------------------------------------
(* Tree bins: bitwise tries keyed on the chunk size.  A node of the tree is  *)
(* the head of a ring (fd, bk) of chunks of the same size; the parent of a  *)
(* root is its bin, written as a negative number, and the parent of a chunk *)
(* that only hangs on a ring is 0.                                          *)

FloorLog2(n) == CHOOSE k \in 0 .. SIZE_T_BITSIZE : 2 ^ k <= n /\ n < 2 ^ (k + 1)

compute_tree_index(s) ==
    LET x == s \div MIN_LARGE_SIZE
        index(k) == 2 * k + ((s \div 2 ^ (k + TREEBIN_SHIFT - 1)) % 2)
    IN  IF x = 0 THEN 0
        ELSE IF x >= 2 ^ (NTREEBINS \div 2) THEN NTREEBINS - 1
        ELSE index(FloorLog2(x))

leftshift_for_tree_index(i) ==
    IF i = NTREEBINS - 1 THEN 0
    ELSE SIZE_T_BITSIZE - 1 - (i \div 2 + TREEBIN_SHIFT - 2)

minsize_for_tree_index(i) ==
    2 ^ (i \div 2 + TREEBIN_SHIFT) + (i % 2) * 2 ^ (i \div 2 + TREEBIN_SHIFT - 1)

\* The bit of size s that chooses the child at depth n of the tree in bin i:
\* the top bit after the left shift and n further shifts.
Branch(s, i, n) ==
    ((s * 2 ^ (leftshift_for_tree_index(i) + n)) \div 2 ^ (SIZE_T_BITSIZE - 1)) % 2

Child(m, t, b) == IF b = 0 THEN m.node[t].left ELSE m.node[t].right
SetChild(m, t, b, x) ==
    IF b = 0 THEN [m EXCEPT !.node[t].left = x] ELSE [m EXCEPT !.node[t].right = x]
BinAddress(i) == 0 - (i + 1)

\* Depth -> node met there by a search for size s, 0 below the tree's edge.
Descend(m, s, i) ==
    LET at[n \in 0 .. SIZE_T_BITSIZE] ==
            IF n = 0 THEN m.treebins[i]
            ELSE LET t == at[n-1]
                 IN  IF t = 0 THEN 0 ELSE IF size(m, t) = s THEN 0
                     ELSE Child(m, t, Branch(s, i, n - 1))
    IN  at

\* The last node of that search and its depth.
LastDepth(path) == Max({n \in DOMAIN path : path[n] # 0})

WithNode(m, x, i, parent, fd, bk) ==
    [m EXCEPT !.node = [a \in DOMAIN m.node \cup {x} |->
        IF a = x THEN [left |-> 0, right |-> 0, parent |-> parent, index |-> i,
                       fd |-> fd, bk |-> bk]
        ELSE m.node[a]]]

\* x becomes a child of t, the node at depth n where its search ended, or
\* joins the ring of t.
InsertBelow(m, x, s, i, t, n) ==
    LET f == m.node[t].fd
        ringed == [m EXCEPT !.node[t].fd = x]
    IN  IF size(m, t) # s
        THEN WithNode(SetChild(m, t, Branch(s, i, n), x), x, i, t, x, x)
        ELSE WithNode([ringed EXCEPT !.node[f].bk = x], x, i, 0, f, t)

insert_large_chunk(m, x, s) ==
    LET below(i, path) == InsertBelow(m, x, s, i, path[LastDepth(path)], LastDepth(path))
        insert(i) ==
            IF i \notin m.treemap
            THEN WithNode([m EXCEPT !.treemap = @ \cup {i}, !.treebins[i] = x],
                          x, i, BinAddress(i), x, x)
            ELSE below(i, Descend(m, s, i))
    IN  insert(compute_tree_index(s))

\* leftmost_child(), and the chain of such children from t downwards.
leftmost_child(m, t) ==
    IF m.node[t].left # 0 THEN m.node[t].left ELSE m.node[t].right
LeftmostChain(m, t) ==
    LET at[n \in 0 .. SIZE_T_BITSIZE] ==
            IF n = 0 THEN t
            ELSE LET u == at[n-1] IN IF u = 0 THEN 0 ELSE leftmost_child(m, u)
    IN  {at[n] : n \in DOMAIN at} \ {0}

\* The leaf that replaces x: right child preferred at every level.
RightmostLeaf(m, x) ==
    LET down(t) == IF m.node[t].right # 0 THEN m.node[t].right ELSE m.node[t].left
        at[n \in 0 .. SIZE_T_BITSIZE] ==
            IF n = 0 THEN down(x)
            ELSE LET t == at[n-1] IN IF down(t) = 0 THEN t ELSE down(t)
    IN  IF down(x) = 0 THEN 0 ELSE at[SIZE_T_BITSIZE]

\* Steps 1 and 2 of the comment above unlink_large_chunk(): the replacement r
\* and the state with it detached from where it was.
Replacement(m, x) ==
    LET f == m.node[x].fd
        b == m.node[x].bk
        detach(leaf, up) ==
            SetChild(m, up, IF m.node[up].right = leaf THEN 1 ELSE 0, 0)
        replaceBy(leaf) ==
            IF leaf = 0 THEN [r |-> 0, m |-> m]
            ELSE [r |-> leaf, m |-> detach(leaf, m.node[leaf].parent)]
    IN  IF b # x THEN [r |-> b, m |-> [m EXCEPT !.node[f].bk = b, !.node[b].fd = f]]
        ELSE replaceBy(RightmostLeaf(m, x))

\* Step 3: r takes the place of x under x's parent and above x's children.
Adopt(m, r, x, b) ==
    LET c == Child(m, x, b)
    IN  IF c = 0 THEN m ELSE SetChild([m EXCEPT !.node[c].parent = r], r, b, c)
Relink(m, x, r) ==
    LET xp == m.node[x].parent
        i == m.node[x].index
        adopted(g) == IF r = 0 THEN g
                      ELSE Adopt(Adopt([g EXCEPT !.node[r].parent = xp], r, x, 0), r, x, 1)
    IN  adopted(IF m.treebins[i] = x
                THEN [m EXCEPT !.treebins[i] = r,
                               !.treemap = IF r = 0 THEN @ \ {i} ELSE @]
                ELSE SetChild(m, xp, IF m.node[xp].left = x THEN 0 ELSE 1, r))

unlink_large_chunk(m, x) ==
    LET relink(rep) == IF m.node[x].parent = 0 THEN rep.m ELSE Relink(rep.m, x, rep.r)
        drop(n) == [a \in DOMAIN n \ {x} |-> n[a]]
    IN  [relink(Replacement(m, x)) EXCEPT !.node = drop(@)]

insert_chunk(m, p, s) ==
    IF is_small(s) THEN insert_small_chunk(m, p, s) ELSE insert_large_chunk(m, p, s)
unlink_chunk(m, p, s) ==
    IF is_small(s) THEN unlink_small_chunk(m, p, s) ELSE unlink_large_chunk(m, p)

-----------------------------------------------------------------------------
(* Choosing a chunk.                                                        *)

\* The smallest remainder of size nb among cand below the bound 2^w - nb the
\* search starts with (unsigned subtraction: a chunk smaller than nb leaves a
\* huge remainder); 0 if there is none.
Trem(m, t, nb) == Minus(size(m, t), nb)
BestOf(m, cand, nb) ==
    LET ok == {t \in cand : Trem(m, t, nb) < Minus(0, nb)}
    IN  IF ok = {} THEN 0
        ELSE CHOOSE t \in ok : \A u \in ok : Trem(m, t, nb) <= Trem(m, u, nb)

\* A mutant: the search ends with the path in its own bin.
TreeFit_PathOnly(m, nb) ==
    LET path == Descend(m, nb, compute_tree_index(nb))
    IN  BestOf(m, {path[n] : n \in DOMAIN path} \ {0}, nb)

\* The search of tmalloc_large(): the path for nb in its own bin, then the
\* deepest right subtree not taken, or the next non-empty bin.
TreeFit(m, nb) ==
    LET untaken(path) ==
            {n \in DOMAIN path : /\ path[n] # 0 /\ m.node[path[n]].right # 0
                                 /\ \/ n = SIZE_T_BITSIZE
                                    \/ m.node[path[n]].right # path[n+1]}
        rst(path, onPath) ==
            IF untaken(path) = {} \/ \E t \in onPath : size(m, t) = nb THEN 0
            ELSE m.node[path[Max(untaken(path))]].right
        start(onPath, later, t) ==
            IF t = 0 /\ BestOf(m, onPath, nb) = 0 /\ later # {}
            THEN m.treebins[Min(later)] ELSE t
        chain(t) == IF t = 0 THEN {} ELSE LeftmostChain(m, t)
        fit(path, onPath, later) ==
            BestOf(m, onPath \cup chain(start(onPath, later, rst(path, onPath))), nb)
        search(i, path) ==
            fit(path, {path[n] : n \in DOMAIN path} \ {0}, {j \in m.treemap : j > i})
    IN  search(compute_tree_index(nb), Descend(m, nb, compute_tree_index(nb)))

\* The search of tmalloc_small(): every large chunk fits, so the leftmost chain
\* of the first non-empty bin holds the smallest.
SmallTreeFit(m, nb) == BestOf(m, LeftmostChain(m, m.treebins[Min(m.treemap)]), nb)
=============================================================================
