------------------------------ MODULE DlMalloc ------------------------------
(***************************************************************************)
(* The allocator main/dl-malloc.h: dlmalloc(), dlfree(), dlrealloc(),      *)
(* dlcalloc(), dlmemalign(), dlindependent_*(), dlmalloc_trim() and the    *)
(* system layer under them.  Nothing interrupts a call (USE_LOCKS is 0 and *)
(* the loader has one thread), so a call is one step; its result is an     *)
(* operator on the record m of module MallocBins, which has the further    *)
(* fields                                                                  *)
(*   seg          the segments, m->seg first; rec is where the segment's   *)
(*                record is kept (0: in malloc_state itself)               *)
(*   least_addr, footprint, trim_check, contiguous, use_mmap               *)
(*   brk, mapped  the system's side: the break and the mapped units        *)
(* used maps the pointers the program holds to the words it asked for and  *)
(* the leading words that still have what the program wrote.               *)
(***************************************************************************)
EXTENDS MallocBins

CONSTANTS
    GRANULARITY,      \* mparams.granularity
    PAGE_SIZE,        \* mparams.page_size
    MMAP_THRESHOLD,   \* chunks of this size are mapped directly
    TRIM_THRESHOLD,   \* top is given back above this size
    BrkBase, BrkLimit,   \* the break starts here and cannot pass the limit
    MapUnits,         \* addresses of the granularity units mmap() may use
    Programs,         \* the programs, each the calls it makes:
                      \*   requests sizes for malloc(), resizes for realloc(),
                      \*   aligned  <<alignment, size>> for memalign(),
                      \*   arrays   <<n_elements, elem_size>> for calloc(),
                      \*   groups   element sizes for independent_comalloc(),
                      \*   calls    bound on the number of calls,
                      \*   foreign  bound on calls of MORECORE by others
    MaxLive           \* bound: blocks the program holds at once

ASSUME MallocAssumption ==
    /\ GRANULARITY % PAGE_SIZE = 0 /\ PAGE_SIZE % 4 = 0
    /\ BrkBase % 2 = 0 /\ BrkBase > 0
    /\ \A u \in MapUnits : u % GRANULARITY = 0 /\ u >= BrkLimit
    /\ MaxLive \in Nat

VARIABLES m, used, foreign, calls, prog
vars == <<m, used, foreign, calls, prog>>

SegmentChunk == request2size(4)          \* struct malloc_segment: four words
TOP_FOOT_SIZE == SegmentChunk + MIN_CHUNK_SIZE
MMAP_FOOT_PAD == 4
granularity_align(s) == GRANULARITY * (Plus(s, GRANULARITY) \div GRANULARITY)
page_align(s) == PAGE_SIZE * (Plus(s, PAGE_SIZE) \div PAGE_SIZE)

Fence(pin) == [size |-> 1, c |-> TRUE, p |-> pin, foot |-> 0]
DropHeads(h, a, n) == [x \in DOMAIN h \ (a .. (a + n - 1)) |-> h[x]]

-----------------------------------------------------------------------------
(* The system: MORECORE and mmap().  w is what it answers during one call:  *)
(* the unit mmap() would use (0: it fails) and whether munmap() works.      *)

Refusal == [map |-> 0, unmap |-> FALSE]
Answers == [map : MapUnits \cup {0}, unmap : BOOLEAN]
Units(base, n) == {u \in base .. (base + n - 1) : u % GRANULARITY = 0}
CanMap(h, w, n) == w.map # 0 /\ Units(w.map, n) \subseteq MapUnits \ h.mapped
CanMorecore(h, n) == h.brk + n <= BrkLimit

-----------------------------------------------------------------------------
(* System allocation.                                                       *)

init_top(h, p, psize) ==
    LET h1 == SetHead(h, p, psize, FALSE, TRUE)
        h2 == SetHead(h1, p + psize, TOP_FOOT_SIZE, FALSE, FALSE)
    IN  [h2 EXCEPT !.top = p, !.topsize = psize, !.trim_check = TRIM_THRESHOLD]

\* A chunk in a mapping of its own, fenced at its end.  The alignment mask adds
\* less than two words to SIX_SIZE_T_SIZES.
MmapSize(nb) == granularity_align(Plus(nb, 7))
MmappedChunk(h, p, psize, foot) ==
    LET old == h.head
        ends == {p + psize}
    IN  [h EXCEPT !.head = [a \in DOMAIN old \cup {p} \cup ends |->
            IF a = p THEN [size |-> psize, c |-> TRUE, p |-> FALSE, foot |-> foot]
            ELSE IF a \in ends THEN Fence(TRUE) ELSE old[a]]]

mmap_alloc(h, nb, w) ==
    LET mmsize == MmapSize(nb)
        h1 == MmappedChunk(h, w.map, mmsize - MMAP_FOOT_PAD, 1)
    IN  IF ~(mmsize > nb /\ CanMap(h, w, mmsize)) THEN [m |-> h, mem |-> 0]
        ELSE [m |-> [h1 EXCEPT !.mapped = @ \cup Units(w.map, mmsize),
                               !.least_addr = IF w.map < @ THEN w.map ELSE @,
                               !.footprint = @ + mmsize],
              mem |-> chunk2mem(w.map)]

prepend_alloc(h, newbase, oldbase, nb) ==
    LET p == newbase
        q == p + nb
        qsize == oldbase - p - nb
        h1 == set_size_and_pinuse_of_inuse_chunk(h, p, nb)
        nsize == size(h, oldbase)
        h2 == IF cinuse(h, oldbase) THEN h1 ELSE unlink_chunk(h1, oldbase, nsize)
        last == IF cinuse(h, oldbase) THEN oldbase ELSE oldbase + nsize
        h3 == CASE oldbase = h.top ->
                   [SetHead(h1, q, h.topsize + qsize, FALSE, TRUE) EXCEPT
                        !.top = q, !.topsize = @ + qsize]
                [] oldbase = h.dv /\ oldbase # h.top ->
                   [set_size_and_pinuse_of_free_chunk(h1, q, h.dvsize + qsize) EXCEPT
                        !.dv = q, !.dvsize = @ + qsize]
                [] OTHER ->
                   insert_chunk(set_free_with_pinuse(h2, q, last - q, last), q, last - q)
    IN  [m |-> h3, mem |-> chunk2mem(p)]

SegmentHolding(h, a) ==
    CHOOSE i \in DOMAIN h.seg : h.seg[i].base <= a /\ a < h.seg[i].base + h.seg[i].size

\* The old top segment keeps its record in a chunk at its end, closed by
\* fenceposts; what is left of the old top becomes a free chunk.
add_segment(h, tbase, tsize, mmapped) ==
    LET s == h.seg[SegmentHolding(h, h.top)]
        end == s.base + s.size
        asp == end - TOP_FOOT_SIZE
        csp == IF asp < h.top + MIN_CHUNK_SIZE THEN h.top ELSE asp
        tnext == csp + SegmentChunk
        h1 == init_top(h, tbase, tsize - TOP_FOOT_SIZE)
        h2 == set_size_and_pinuse_of_inuse_chunk(h1, csp, SegmentChunk)
        clean == DropHeads(h2.head, tnext, end - tnext)
        h3 == [h2 EXCEPT
                 !.head = [a \in DOMAIN clean \cup (tnext .. (end - 2)) |->
                              IF a \in DOMAIN clean THEN clean[a] ELSE Fence(TRUE)],
                 !.seg = <<[base |-> tbase, size |-> tsize, mm |-> mmapped, rec |-> 0]>>
                         \o [h.seg EXCEPT ![1].rec = csp]]
        psize == csp - h.top
    IN  IF csp = h.top THEN h3
        ELSE insert_chunk(set_free_with_pinuse(h3, h.top, psize, csp), h.top, psize)

TakeTop(h, nb) ==
    LET p == h.top
        h1 == SetHead(h, p + nb, h.topsize - nb, FALSE, TRUE)
        h2 == set_size_and_pinuse_of_inuse_chunk(h1, p, nb)
    IN  [m |-> [h2 EXCEPT !.top = p + nb, !.topsize = @ - nb], mem |-> chunk2mem(p)]

\* 1. MORECORE extends the heap contiguously.  Space that is not adjacent
\* (someone else moved the break) is enlarged until it can stand alone, or
\* returned; a failure turns this way off for good.
Got(h, base, n, mmapped) == [m |-> h, base |-> base, size |-> n, mm |-> mmapped]
NoSpace(h) == Got(h, 0, 0, FALSE)
MorecoreContiguous(h, nb) ==
    LET need == Plus(nb, TOP_FOOT_SIZE)
        skew == IF h.brk % PAGE_SIZE = 0 THEN 0 ELSE page_align(h.brk) - h.brk
        asize == IF h.top = 0 THEN Plus(granularity_align(need), skew)
                 ELSE granularity_align(Minus(need, h.topsize))
        grown == [h EXCEPT !.brk = @ + asize]
        s == h.seg[SegmentHolding(h, h.top)]
        adjacent == h.top = 0 \/ h.brk = s.base + s.size
        esize == granularity_align(Minus(need, asize))
        off == NoSpace([h EXCEPT !.contiguous = FALSE])
    IN  IF ~h.contiguous THEN NoSpace(h)
        ELSE IF ~(asize < HALF_MAX_SIZE_T /\ CanMorecore(h, asize)) THEN off
        ELSE IF adjacent \/ asize > need \/ esize >= HALF_MAX_SIZE_T
             THEN Got(grown, h.brk, asize, FALSE)
        ELSE IF CanMorecore(grown, esize)
             THEN Got([grown EXCEPT !.brk = @ + esize], h.brk, asize + esize, FALSE)
        ELSE off

\* 2. a new mapping, 3. MORECORE without contiguity.
MapSegment(h, nb, w) ==
    LET rsize == granularity_align(Plus(nb, TOP_FOOT_SIZE))
    IN  IF rsize > nb /\ CanMap(h, w, rsize)
        THEN Got([h EXCEPT !.mapped = @ \cup Units(w.map, rsize)], w.map, rsize, TRUE)
        ELSE NoSpace(h)
MorecoreNoncontiguous(h, nb) ==
    LET asize == granularity_align(Plus(nb, TOP_FOOT_SIZE))
        grown == [h EXCEPT !.brk = @ + asize]
    IN  IF ~(asize < HALF_MAX_SIZE_T /\ CanMorecore(h, asize)) THEN NoSpace(h)
        ELSE IF asize > Plus(nb, TOP_FOOT_SIZE) THEN Got(grown, h.brk, asize, FALSE)
        ELSE NoSpace(grown)

SystemSpace(h, nb, w) ==
    LET second(g) == IF g.base # 0 THEN g ELSE MapSegment(g.m, nb, w)
        third(g) == IF g.base # 0 THEN g ELSE MorecoreNoncontiguous(g.m, nb)
    IN  third(second(MorecoreContiguous(h, nb)))

\* The new space joins the segment it is adjacent to, or becomes one.
JoinSpace(g, nb) ==
    LET h == [g.m EXCEPT !.footprint = @ + g.size]
        appended == {i \in DOMAIN h.seg : /\ h.seg[i].base + h.seg[i].size = g.base
                                          /\ h.seg[i].mm = g.mm
                                          /\ SegmentHolding(h, h.top) = i}
        low == [h EXCEPT !.least_addr = IF g.base < @ THEN g.base ELSE @]
        prepended == {i \in DOMAIN h.seg : /\ h.seg[i].base = g.base + g.size
                                           /\ h.seg[i].mm = g.mm}
    IN  CASE h.top = 0 ->
             [m |-> init_top([h EXCEPT !.least_addr = g.base,
                                 !.seg = <<[base |-> g.base, size |-> g.size,
                                            mm |-> g.mm, rec |-> 0]>>],
                             g.base, g.size - TOP_FOOT_SIZE), mem |-> 0]
          [] h.top # 0 /\ appended # {} ->
             LET i == CHOOSE i \in appended : TRUE
             IN  [m |-> init_top([h EXCEPT !.seg[i].size = @ + g.size],
                                 h.top, h.topsize + g.size), mem |-> 0]
          [] h.top # 0 /\ appended = {} /\ prepended # {} ->
             LET i == CHOOSE i \in prepended : TRUE
                 old == h.seg[i].base
             IN  prepend_alloc([low EXCEPT !.seg[i].base = g.base,
                                           !.seg[i].size = @ + g.size], g.base, old, nb)
          [] OTHER -> [m |-> add_segment(low, g.base, g.size, g.mm), mem |-> 0]

sys_alloc(h, nb, w) ==
    LET served(r) == IF r.mem = 0 /\ nb < r.m.topsize THEN TakeTop(r.m, nb) ELSE r
        joined(g) == IF g.base = 0 THEN [m |-> g.m, mem |-> 0]
                     ELSE served(JoinSpace(g, nb))
        direct(r) == IF r.mem # 0 THEN r ELSE joined(SystemSpace(h, nb, w))
    IN  direct(IF h.use_mmap /\ nb >= MMAP_THRESHOLD THEN mmap_alloc(h, nb, w)
               ELSE [m |-> h, mem |-> 0])

-----------------------------------------------------------------------------
(* System deallocation.                                                     *)

\* A mapped segment that is one free chunk goes back, unless munmap() fails.
ReleaseSegment(h, s, w) ==
    LET p == s.base
        psize == size(h, p)
        h1 == IF p = h.dv THEN [h EXCEPT !.dv = 0, !.dvsize = 0]
              ELSE unlink_large_chunk(h, p)
    IN  IF ~(s.mm /\ ~cinuse(h, p) /\ p + psize >= s.base + s.size - TOP_FOOT_SIZE)
        THEN h
        ELSE IF w.unmap
        THEN [h1 EXCEPT !.seg = SelectSeq(@, LAMBDA t : t.base # s.base),
                        !.mapped = @ \ Units(s.base, s.size),
                        !.footprint = @ - s.size,
                        !.head = DropHeads(@, s.base, s.size)]
        ELSE insert_large_chunk(h1, p, psize)

release_unused_segments(h, w) ==
    FoldLeft(LAMBDA g, s : ReleaseSegment(g, s, w), h, Tail(h.seg))

\* The end of the top segment goes back in whole units.
TrimTop(h, pad, w) ==
    LET unit == GRANULARITY
        extra == ((h.topsize - pad + unit - 1) \div unit - 1) * unit
        i == SegmentHolding(h, h.top)
        s == h.seg[i]
        end == s.base + s.size
        pinned == \E j \in DOMAIN h.seg : s.base <= h.seg[j].rec /\ h.seg[j].rec < end
        can == IF s.mm THEN s.size >= extra /\ ~pinned /\ w.unmap ELSE h.brk = end
        h1 == [h EXCEPT !.seg[i].size = @ - extra, !.footprint = @ - extra,
                        !.brk = IF s.mm THEN @ ELSE @ - extra,
                        !.mapped = IF s.mm THEN @ \ Units(end - extra, extra) ELSE @,
                        !.head = DropHeads(@, end - extra, extra)]
    IN  IF h.topsize > pad /\ can /\ extra > 0 THEN init_top(h1, h.top, h.topsize - extra)
        ELSE h

sys_trim(h, pad, w) ==
    LET checked(g) == IF g.footprint # h.footprint THEN g
                      ELSE [g EXCEPT !.trim_check = MAX_SIZE_T]
    IN  IF ~(pad < MAX_REQUEST /\ h.top # 0) THEN h
        ELSE checked(release_unused_segments(TrimTop(h, pad + TOP_FOOT_SIZE, w), w))

-----------------------------------------------------------------------------
(* malloc and free.                                                         *)

\* The chunk v found in a tree is split; the remainder is binned or becomes dv.
SplitLarge(h, v, nb, rsize) ==
    LET h1 == unlink_large_chunk(h, v)
        h2 == set_size_and_pinuse_of_inuse_chunk(h1, v, nb)
    IN  IF rsize < MIN_CHUNK_SIZE THEN set_inuse_and_pinuse(h1, v, rsize + nb)
        ELSE set_size_and_pinuse_of_free_chunk(h2, v + nb, rsize)

tmalloc_large(h, nb) ==
    LET binned(g, v, rsize) ==
            [m |-> IF rsize < MIN_CHUNK_SIZE THEN g ELSE insert_chunk(g, v + nb, rsize),
             mem |-> chunk2mem(v)]
        take(v, rsize) == IF v = 0 \/ rsize >= Minus(h.dvsize, nb) THEN [m |-> h, mem |-> 0]
                          ELSE binned(SplitLarge(h, v, nb, rsize), v, rsize)
        found(v) == take(v, size(h, v) - nb)
    IN  found(TreeFit(h, nb))

tmalloc_small(h, nb) ==
    LET kept(g, v, rsize) ==
            [m |-> IF rsize < MIN_CHUNK_SIZE THEN g ELSE replace_dv(g, v + nb, rsize),
             mem |-> chunk2mem(v)]
        take(v, rsize) == kept(SplitLarge(h, v, nb, rsize), v, rsize)
        found(v) == take(v, size(h, v) - nb)
    IN  found(SmallTreeFit(h, nb))

\* A small request: an exactly fitting small bin or the next one, else (if dv is
\* too small) the next non-empty small bin, split, else a tree.
SmallBinFit(h, nb) ==
    LET idx == small_index(nb)
        exact == h.smallmap \cap {idx, idx + 1}
        later == {i \in h.smallmap : i > idx}
        i == IF exact # {} THEN Min(exact) ELSE Min(later)
        p == h.smallbins[i][1]
        h1 == unlink_first_small_chunk(h, i)
        rsize == small_index2size(i) - nb
        h2 == set_size_and_pinuse_of_inuse_chunk(h1, p, nb)
    IN  IF exact # {}
        THEN [m |-> set_inuse_and_pinuse(h1, p, small_index2size(i)), mem |-> chunk2mem(p)]
        ELSE IF nb <= h.dvsize THEN [m |-> h, mem |-> 0]
        ELSE IF later # {}
        THEN [m |-> replace_dv(set_size_and_pinuse_of_free_chunk(h2, p + nb, rsize),
                               p + nb, rsize), mem |-> chunk2mem(p)]
        ELSE IF h.treemap # {} THEN tmalloc_small(h, nb)
        ELSE [m |-> h, mem |-> 0]

TakeDv(h, nb) ==
    LET p == h.dv
        rsize == h.dvsize - nb
        h1 == set_size_and_pinuse_of_free_chunk(h, p + nb, rsize)
        h2 == set_size_and_pinuse_of_inuse_chunk(h1, p, nb)
    IN  [m |-> IF rsize >= MIN_CHUNK_SIZE
               THEN [h2 EXCEPT !.dv = p + nb, !.dvsize = rsize]
               ELSE [set_inuse_and_pinuse(h, p, h.dvsize) EXCEPT !.dv = 0, !.dvsize = 0],
         mem |-> chunk2mem(p)]

\* What a request can be served with before the system is asked: mem is 0 if
\* nothing.
ChunkFor(bytes) == IF bytes >= MAX_REQUEST THEN MAX_SIZE_T ELSE request2size(bytes)
FromHeap(h, bytes) ==
    LET nb == ChunkFor(bytes)
        orElse(r) == IF r.mem # 0 THEN r
                     ELSE IF nb <= h.dvsize THEN TakeDv(h, nb)
                     ELSE IF nb < h.topsize THEN TakeTop(h, nb)
                     ELSE r
    IN  orElse(IF bytes <= MAX_SMALL_REQUEST THEN SmallBinFit(h, nb)
               ELSE IF bytes < MAX_REQUEST /\ h.treemap # {} THEN tmalloc_large(h, nb)
               ELSE [m |-> h, mem |-> 0])

dlmalloc(h, bytes, w) ==
    LET orSystem(r) == IF r.mem # 0 THEN r ELSE sys_alloc(h, ChunkFor(bytes), w)
    IN  orSystem(FromHeap(h, bytes))

\* A mutant: the footprint shrinks whether munmap() works or not.
FreeMmapped_Unasked(h, p, w) ==
    LET offset == h.head[p].foot - 1
        psize == size(h, p) + offset + MMAP_FOOT_PAD
    IN  [h EXCEPT !.footprint = @ - psize, !.head = DropHeads(@, p - offset, psize),
                  !.mapped = IF w.unmap THEN @ \ Units(p - offset, psize) ELSE @]

\* A directly mapped chunk goes back to the system.
FreeMmapped(h, p, w) ==
    LET offset == h.head[p].foot - 1
        psize == size(h, p) + offset + MMAP_FOOT_PAD
        h1 == [h EXCEPT !.head = DropHeads(@, p - offset, psize)]
    IN  IF w.unmap THEN [h1 EXCEPT !.footprint = @ - psize,
                                   !.mapped = @ \ Units(p - offset, psize)]
        ELSE h1

\* What is freed is joined with top, with dv or with a free successor.
FreeForward(h, p, psize, next, w) ==
    LET nsize == size(h, next)
        tsize == h.topsize + psize
        h1 == SetHead(h, p, tsize, FALSE, TRUE)
        h2 == [h1 EXCEPT !.top = p, !.topsize = tsize,
                         !.dv = IF @ = p THEN 0 ELSE @,
                         !.dvsize = IF h.dv = p THEN 0 ELSE @]
        merged(g) == IF p = h.dv THEN [g EXCEPT !.dvsize = psize + nsize]
                     ELSE insert_chunk(g, p, psize + nsize)
    IN  CASE cinuse(h, next) ->
             insert_chunk(set_free_with_pinuse(h, p, psize, next), p, psize)
          [] ~cinuse(h, next) /\ next = h.top ->
             IF tsize > h.trim_check THEN sys_trim(h2, 0, w) ELSE h2
          [] ~cinuse(h, next) /\ next # h.top /\ next = h.dv ->
             [set_size_and_pinuse_of_free_chunk(h, p, h.dvsize + psize) EXCEPT
                 !.dv = p, !.dvsize = @ + psize]
          [] OTHER ->
             merged(set_size_and_pinuse_of_free_chunk(unlink_chunk(h, next, nsize),
                                                      p, psize + nsize))

dlfree(h, mem, w) ==
    LET p == mem2chunk(mem)
        next == next_chunk(h, p)
        back == IF pinuse(h, p) THEN 0 ELSE h.head[p].foot
        prev == p - back
        psize == next - prev
        intoDv == back # 0 /\ prev = h.dv
    IN  IF is_mmapped(h, p) THEN FreeMmapped(h, p, w)
        ELSE IF intoDv /\ cinuse(h, next) /\ pinuse(h, next)
        THEN [set_free_with_pinuse(h, prev, psize, next) EXCEPT !.dvsize = psize]
        ELSE FreeForward(IF back = 0 \/ intoDv THEN h ELSE unlink_chunk(h, prev, back),
                         prev, psize, next, w)

-----------------------------------------------------------------------------
(* realloc, calloc, memalign and the independent allocations.               *)

\* A directly mapped chunk is kept when it fits, else moved by mremap().
mmap_resize(h, p, nb, w) ==
    LET oldsize == size(h, p)
        offset == h.head[p].foot - 1
        oldmmsize == oldsize + offset + MMAP_FOOT_PAD
        newmmsize == MmapSize(nb)
        gone == [h EXCEPT !.mapped = @ \ Units(p - offset, oldmmsize),
                          !.head = DropHeads(@, p - offset, oldmmsize)]
        h1 == MmappedChunk(gone, w.map + offset, newmmsize - offset - MMAP_FOOT_PAD,
                           h.head[p].foot)
    IN  IF is_small(nb) THEN [m |-> h, p |-> 0]
        ELSE IF oldsize >= nb + 1 /\ oldsize - nb <= 2 * GRANULARITY THEN [m |-> h, p |-> p]
        ELSE IF ~CanMap(gone, w, newmmsize) THEN [m |-> h, p |-> 0]
        ELSE [m |-> [h1 EXCEPT !.mapped = @ \cup Units(w.map, newmmsize),
                               !.least_addr = IF w.map < @ THEN w.map ELSE @,
                               !.footprint = @ + newmmsize - oldmmsize],
              p |-> w.map + offset]

\* kept: how many leading words of the old block the result holds.
CopyOut(h, mem, bytes, w) ==
    LET p == mem2chunk(mem)
        oc == size(h, p) - overhead_for(h, p)
        moved(r) == IF r.mem = 0 THEN [m |-> r.m, mem |-> 0, kept |-> 0]
                    ELSE [m |-> dlfree(r.m, mem, w), mem |-> r.mem,
                          kept |-> IF oc < bytes THEN oc ELSE bytes]
    IN  moved(dlmalloc(h, bytes, w))

InPlace(h, p) == [m |-> h, mem |-> chunk2mem(p), kept |-> size(h, p) - overhead_for(h, p)]

internal_realloc(h, mem, bytes, w) ==
    LET p == mem2chunk(mem)
        oldsize == size(h, p)
        next == p + oldsize
        nb == request2size(bytes)
        resized(r) == IF r.p = 0 THEN CopyOut(h, mem, bytes, w)
                      ELSE [m |-> r.m, mem |-> chunk2mem(r.p),
                            kept |-> Min({oldsize, size(r.m, r.p)}) - 2]
        shrunk == set_inuse(set_inuse(h, p, nb), p + nb, oldsize - nb)
        newtop == SetHead(set_inuse(h, p, nb), p + nb, oldsize + h.topsize - nb, FALSE, TRUE)
    IN  CASE bytes >= MAX_REQUEST -> [m |-> h, mem |-> 0, kept |-> 0]
          [] bytes < MAX_REQUEST /\ is_mmapped(h, p) -> resized(mmap_resize(h, p, nb, w))
          [] bytes < MAX_REQUEST /\ ~is_mmapped(h, p) /\ oldsize >= nb ->
             IF oldsize - nb >= MIN_CHUNK_SIZE
             THEN InPlace(dlfree(shrunk, chunk2mem(p + nb), w), p)
             ELSE InPlace(h, p)
          [] OTHER ->
             IF next = h.top /\ oldsize + h.topsize > nb
             THEN [InPlace([newtop EXCEPT !.top = p + nb,
                               !.topsize = oldsize + h.topsize - nb], p)
                     EXCEPT !.kept = oldsize - 1]
             ELSE CopyOut(h, mem, bytes, w)

\* A mutant: the product is not checked for overflow.
dlcalloc_req_Unchecked(n, elem) == (n * elem) % 2 ^ SIZE_T_BITSIZE

\* calloc(): the size to ask for; one that overflows can never be served.
dlcalloc_req(n, elem) ==
    LET req == (n * elem) % 2 ^ SIZE_T_BITSIZE
        half == 2 ^ (SIZE_T_BITSIZE \div 2)
    IN  IF n = 0 THEN 0
        ELSE IF (n >= half \/ elem >= half) /\ req \div n # elem THEN MAX_SIZE_T
        ELSE req

\* The aligned spot in the block obtained, then the leader and the trailer freed.
RoundAlignment(a) ==
    IF a <= MIN_CHUNK_SIZE THEN MIN_CHUNK_SIZE
    ELSE 2 ^ (CHOOSE k \in 1 .. SIZE_T_BITSIZE : 2 ^ k >= a /\ 2 ^ (k - 1) < a)
AlignedSpot(p, al) ==
    LET br == mem2chunk(al * ((chunk2mem(p) + al - 1) \div al))
    IN  IF chunk2mem(p) % al = 0 THEN p
        ELSE IF br - p >= MIN_CHUNK_SIZE THEN br ELSE br + al

\* The chunk q inside the block at p gets its own header.
MoveTo(h, p, q) ==
    LET lead == q - p
    IN  IF lead = 0 THEN h
        ELSE IF is_mmapped(h, p)
        THEN [MmappedChunk(h, q, size(h, p) - lead, h.head[p].foot + lead)
                EXCEPT !.head = DropHeads(@, p, lead)]
        ELSE set_inuse(SetHead(h, q, size(h, p) - lead, TRUE, FALSE), p, lead)

\* What q has beyond nb words becomes a chunk, if it can be one.
Spare(h, q, nb) == IF is_mmapped(h, q) THEN 0 ELSE size(h, q) - nb
CutTrailer(h, q, nb) ==
    IF Spare(h, q, nb) <= MIN_CHUNK_SIZE THEN h
    ELSE set_inuse(set_inuse(h, q, nb), q + nb, Spare(h, q, nb))

internal_memalign(h, alignment, bytes, w) ==
    LET al == RoundAlignment(alignment)
        nb == request2size(bytes)
        freed(g, p, yes) == IF yes THEN dlfree(g, chunk2mem(p), w) ELSE g
        \* old: after dlmalloc(), g: after MoveTo()
        trimmed(old, g, p, q) ==
            freed(freed(CutTrailer(g, q, nb), p, p # q /\ ~is_mmapped(old, p)),
                  q + nb, Spare(g, q, nb) > MIN_CHUNK_SIZE)
        aligned(g, p, q) == [m |-> trimmed(g, MoveTo(g, p, q), p, q), mem |-> chunk2mem(q)]
        got(r) == IF r.mem = 0 THEN r
                  ELSE aligned(r.m, mem2chunk(r.mem), AlignedSpot(mem2chunk(r.mem), al))
    IN  IF alignment <= 2 THEN dlmalloc(h, bytes, w)
        ELSE IF bytes >= MAX_REQUEST - al THEN [m |-> h, mem |-> 0]
        ELSE got(dlmalloc(h, nb + al + MIN_CHUNK_SIZE - 1, w))

\* One chunk for all elements and the array of pointers, cut up; mem is the
\* sequence of the elements' pointers followed by the array's, if asked for.
ialloc(h, sizes, withArray, w) ==
    LET n == Len(sizes)
        chunk == [i \in 1 .. n |-> request2size(sizes[i])]
        offset[i \in 1 .. n + 1] == IF i = 1 THEN 0 ELSE offset[i-1] + chunk[i-1]
        contents == offset[n + 1]
        array == IF withArray THEN request2size(n) ELSE 0
        cuts == IF withArray THEN n + 1 ELSE n
        Size(i, total) == IF i = cuts THEN total - offset[i] ELSE chunk[i]
        cutUp(h1, p, total) ==
            FoldLeft(LAMBDA g, i :
                   set_size_and_pinuse_of_inuse_chunk(g, p + offset[i], Size(i, total)),
                   h1, [i \in 1 .. cuts |-> cuts + 1 - i])
        back(g) == [g EXCEPT !.use_mmap = h.use_mmap]
        got(r, p) ==
            IF r.mem = 0 THEN [m |-> back(r.m), mems |-> <<>>]
            ELSE [m |-> back(cutUp(r.m, p, size(r.m, p))),
                  mems |-> [i \in 1 .. cuts |-> chunk2mem(p + offset[i])]]
        served(r) == got(r, mem2chunk(r.mem))
    IN  served(dlmalloc([h EXCEPT !.use_mmap = FALSE], contents + array - 1, w))

-----------------------------------------------------------------------------
(* The program: any sequence of calls, with at most MaxLive blocks.         *)

Init ==
    /\ m = [head |-> <<>>, node |-> <<>>, smallmap |-> {}, treemap |-> {},
            smallbins |-> [i \in 0 .. NSMALLBINS - 1 |-> <<>>],
            treebins |-> [i \in 0 .. NTREEBINS - 1 |-> 0],
            dv |-> 0, dvsize |-> 0, top |-> 0, topsize |-> 0, seg |-> <<>>,
            least_addr |-> 0, footprint |-> 0, trim_check |-> 0,
            contiguous |-> TRUE, use_mmap |-> TRUE,
            brk |-> BrkBase, mapped |-> {}]
    /\ used = <<>>
    /\ foreign = 0
    /\ calls = 0
    /\ prog \in Programs

Block(req, al) == [req |-> req, init |-> req, al |-> al]
Without(u, mem) == [x \in DOMAIN u \ {mem} |-> u[x]]
With(u, mem, b) == [x \in DOMAIN u \cup {mem} |-> IF x = mem THEN b ELSE u[x]]
Called == calls' = calls + 1 /\ UNCHANGED <<foreign, prog>>
Room(n) == Cardinality(DOMAIN used) + n <= MaxLive

\* A call has one result: \E r \in {...} names it.
\* The caller keeps a pointer it got and fills the block.
Keep(r, req, al) ==
    /\ m' = r.m
    /\ used' = IF r.mem = 0 THEN used ELSE With(used, r.mem, Block(req, al))
    /\ Called

Malloc(bytes, w) == Room(1) /\ \E r \in {dlmalloc(m, bytes, w)} : Keep(r, bytes, 2)
Calloc(n, elem, w) ==
    Room(1) /\ \E r \in {dlmalloc(m, dlcalloc_req(n, elem), w)} : Keep(r, n * elem, 2)
Memalign(al, bytes, w) ==
    Room(1) /\ \E r \in {internal_memalign(m, al, bytes, w)} : Keep(r, bytes, RoundAlignment(al))

Free(mem, w) ==
    /\ m' = dlfree(m, mem, w)
    /\ used' = Without(used, mem)
    /\ Called

Realloc(mem, bytes, w) ==
    \E r \in {internal_realloc(m, mem, bytes, w)} :
        LET old == used[mem]
            kept == Min({r.kept, old.init, bytes})
            init == IF kept >= Min({old.req, bytes}) THEN bytes ELSE kept
        IN  /\ m' = r.m
            /\ used' = IF r.mem = 0 THEN used
                       ELSE With(Without(used, mem), r.mem,
                                 [req |-> bytes, init |-> init, al |-> 2])
            /\ Called

Independent(sizes, withArray, w) ==
    LET asked == IF withArray THEN Append(sizes, Len(sizes)) ELSE sizes
    IN  /\ Room(Len(asked))
        /\ \E r \in {ialloc(m, sizes, withArray, w)} :
            /\ m' = r.m
            /\ used' = [x \in DOMAIN used \cup Range(r.mems) |->
                          IF x \in DOMAIN used THEN used[x]
                          ELSE Block(asked[CHOOSE i \in DOMAIN r.mems : r.mems[i] = x], 2)]
        /\ Called

Trim(w) == m.top # 0 /\ m' = sys_trim(m, 0, w) /\ Called /\ UNCHANGED used

\* Someone else takes memory from MORECORE.
ForeignMorecore ==
    /\ foreign < prog.foreign
    /\ CanMorecore(m, GRANULARITY)
    /\ m' = [m EXCEPT !.brk = @ + GRANULARITY]
    /\ foreign' = foreign + 1
    /\ UNCHANGED <<used, calls, prog>>

\* The answers that can make a difference: munmap() is called only on mapped
\* memory and mmap() only when the heap cannot serve the request.
UnmapAnswers(h) == {w \in Answers : w.map = 0 /\ (h.mapped = {} => ~w.unmap)}
MapAnswers(h, bytes) ==
    IF FromHeap(h, bytes).mem # 0 THEN {Refusal}
    ELSE {w \in Answers : ~w.unmap /\ w.map \notin h.mapped}

Call ==
    \/ \E b \in prog.requests : \E w \in MapAnswers(m, b) : Malloc(b, w)
    \/ \E a \in prog.arrays :
          \E w \in MapAnswers(m, dlcalloc_req(a[1], a[2])) : Calloc(a[1], a[2], w)
    \/ \E a \in prog.aligned, w \in Answers : Memalign(a[1], a[2], w)
    \/ \E mem \in DOMAIN used : \E w \in UnmapAnswers(m) : Free(mem, w)
    \/ \E mem \in DOMAIN used, b \in prog.resizes, w \in Answers : Realloc(mem, b, w)
    \/ \E s \in prog.groups, arr \in BOOLEAN, w \in Answers : Independent(s, arr, w)
    \/ \E w \in UnmapAnswers(m) : Trim(w)

Next == (calls < prog.calls /\ Call) \/ ForeignMorecore

Spec == Init /\ [][Next]_vars

-----------------------------------------------------------------------------
(* Debugging support and statistics (DEBUG, mallinfo): what the allocator    *)
(* itself can check, here on every state.                                   *)

\* The chunks of a segment as the loops over segments meet them: from its base
\* by next_chunk() to top, to a fencepost or out of the segment.
segment_holds(s, a) == s.base <= a /\ a < s.base + s.size
IsFence(h, a) == h.head[a].size = 1
Walk(h, s) ==
    LET stop(q) == q \notin DOMAIN h.head \/ ~segment_holds(s, q) \/ q = h.top \/ IsFence(h, q)
        at[n \in 0 .. Cardinality(DOMAIN h.head)] ==
            IF n = 0 THEN s.base
            ELSE LET q == at[n-1] IN IF stop(q) THEN q ELSE next_chunk(h, q)
    IN  {at[n] : n \in {k \in DOMAIN at : ~stop(at[k])}}
Walks(h) == UNION {Walk(h, h.seg[i]) : i \in DOMAIN h.seg}
SizeSum(h, ps) == MapThenSumSet(LAMBDA p : size(h, p), ps)

next_pinuse(h, p) == next_chunk(h, p) \in DOMAIN h.head /\ pinuse(h, next_chunk(h, p))
do_check_any_chunk(h, p) == p % 2 = 0 /\ p >= h.least_addr
do_check_top_chunk(h, p) ==
    LET s == h.seg[SegmentHolding(h, p)]
    IN  /\ do_check_any_chunk(h, p)
        /\ size(h, p) = h.topsize /\ h.topsize > 0
        /\ h.topsize = s.base + s.size - p - TOP_FOOT_SIZE
        /\ pinuse(h, p) /\ ~next_pinuse(h, p)
\* ok_address() is left out, see the README on least_addr.
do_check_mmapped_chunk(h, p) ==
    /\ h.use_mmap /\ p % 2 = 0 /\ ~is_small(size(h, p))
    /\ (size(h, p) + h.head[p].foot - 1 + MMAP_FOOT_PAD) % PAGE_SIZE = 0
    /\ IsFence(h, next_chunk(h, p))
do_check_inuse_chunk(h, p) ==
    /\ cinuse(h, p) /\ next_pinuse(h, p)
    /\ IF is_mmapped(h, p) THEN do_check_mmapped_chunk(h, p)
       ELSE /\ do_check_any_chunk(h, p)
            /\ pinuse(h, p) \/ next_chunk(h, p - h.head[p].foot) = p
do_check_free_chunk(h, p) ==
    LET next == next_chunk(h, p)
    IN  /\ do_check_any_chunk(h, p)
        /\ ~cinuse(h, p) /\ next \in DOMAIN h.head /\ ~pinuse(h, next) /\ ~is_mmapped(h, p)
        /\ p # h.dv => /\ size(h, p) >= MIN_CHUNK_SIZE /\ size(h, p) % 2 = 0
                       /\ h.head[next].foot = size(h, p)
                       /\ pinuse(h, p)
                       /\ next = h.top \/ cinuse(h, next)

\* The chunks of the ring t is on.
Ring(h, t) ==
    LET at[n \in 0 .. Cardinality(DOMAIN h.node)] == IF n = 0 THEN t ELSE h.node[at[n-1]].fd
    IN  {at[n] : n \in DOMAIN at}
bin_find(h, x) ==
    LET s == size(h, x)
        i == compute_tree_index(s)
        path == Descend(h, s, i)
    IN  IF is_small(s)
        THEN small_index(s) \in h.smallmap /\ x \in Range(h.smallbins[small_index(s)])
        ELSE /\ i \in h.treemap
             /\ \E n \in DOMAIN path : /\ path[n] # 0 /\ size(h, path[n]) = s
                                       /\ x \in Ring(h, path[n])

do_check_smallbin(h, i) ==
    LET b == h.smallbins[i]
    IN  /\ b = <<>> <=> i \notin h.smallmap
        /\ Cardinality(Range(b)) = Len(b)
        /\ \A p \in Range(b) : /\ do_check_free_chunk(h, p)
                               /\ small_index(size(h, p)) = i
                               /\ cinuse(h, next_chunk(h, p))

\* One node of a tree, for every node instead of by descent.
do_check_tree(h, u) ==
    LET n == h.node[u]
        s == size(h, u)
    IN  /\ n.index = compute_tree_index(s)
        /\ s >= MIN_LARGE_SIZE /\ s >= minsize_for_tree_index(n.index)
        /\ n.index # NTREEBINS - 1 => s < minsize_for_tree_index(n.index + 1)
        /\ do_check_free_chunk(h, u)
        /\ h.node[n.fd].bk = u /\ h.node[n.bk].fd = u /\ size(h, n.fd) = s
        /\ IF n.parent = 0 THEN n.left = 0 /\ n.right = 0
           ELSE /\ \A v \in Ring(h, u) \ {u} : h.node[v].parent = 0
                /\ IF n.parent < 0 THEN h.treebins[n.index] = u
                   ELSE u \in {h.node[n.parent].left, h.node[n.parent].right}
        /\ \A c \in {n.left, n.right} \ {0} : h.node[c].parent = u /\ c # u
        /\ n.left # 0 /\ n.right # 0 => size(h, n.left) < size(h, n.right)
do_check_treebin(h, i) ==
    /\ h.treebins[i] = 0 <=> i \notin h.treemap
    /\ \A u \in DOMAIN h.node : h.node[u].index = i => do_check_tree(h, u)

internal_mallinfo(h) ==
    LET free == {p \in Walks(h) : ~cinuse(h, p)}
        mfree == h.topsize + TOP_FOOT_SIZE + SizeSum(h, free)
        sum == h.topsize + TOP_FOOT_SIZE + SizeSum(h, Walks(h))
    IN  [arena |-> sum, ordblks |-> 1 + Cardinality(free), hblkhd |-> h.footprint - sum,
         uordblks |-> h.footprint - mfree, fordblks |-> mfree, keepcost |-> h.topsize]

-----------------------------------------------------------------------------
(* Properties.                                                              *)

InSegments == {a \in DOMAIN m.head : \E i \in DOMAIN m.seg : segment_holds(m.seg[i], a)}
SegmentChunks == {a \in InSegments : ~IsFence(m, a) /\ a \notin {m.top, m.top + m.topsize}}
FreeChunks == {a \in SegmentChunks : ~cinuse(m, a)}
DirectChunks == {a \in DOMAIN m.head \ InSegments : ~IsFence(m, a)}
Records == {m.seg[i].rec : i \in 2 .. Len(m.seg)}

\* traverse_and_check (dl-malloc.h:2815), which only a debug build runs: after every
\* sequence of calls, failed ones included, the walk over each segment meets every
\* chunk in it and ends at top or at fenceposts, each chunk's pinuse bit and
\* prev_foot tell the truth about the chunk before it, no two neighbours are free,
\* top ends TOP_FOOT_SIZE before the end of its segment, and every direct mapping is
\* fenced.
HeapTiled ==
    /\ m.top # 0 =>
        /\ do_check_top_chunk(m, m.top)
        /\ \A i \in DOMAIN m.seg : pinuse(m, m.seg[i].base)
        /\ Walks(m) = SegmentChunks
        /\ \A p \in Walks(m) : IF cinuse(m, p) THEN do_check_inuse_chunk(m, p)
                               ELSE do_check_free_chunk(m, p)
    /\ \A p \in DirectChunks : is_mmapped(m, p) /\ do_check_inuse_chunk(m, p)

\* What the system gave and did not yet get back is what footprint says
\* (dlmalloc_footprint), through trims, released segments and failing munmap()
\* calls; mallinfo() never reports more free or less in use than there is.
FootprintTrue ==
    LET core == {i \in DOMAIN m.seg : ~m.seg[i].mm}
        info == internal_mallinfo(m)
    IN  /\ m.footprint = GRANULARITY * Cardinality(m.mapped)
                         + MapThenSumSet(LAMBDA i : m.seg[i].size, core)
        /\ m.top # 0 =>
             /\ info.hblkhd >= SizeSum(m, DirectChunks)
             /\ info.uordblks >= SizeSum(m, {mem2chunk(a) : a \in DOMAIN used})

\* do_check_smallbin and do_check_treebin (dl-malloc.h:2726): every free chunk but dv and top is in
\* the bin of its size, where a search finds it, and nothing else is in a bin; the
\* bit maps agree with the bins, rings and trees are linked both ways.
BinsHoldTheFree ==
    /\ \A i \in DOMAIN m.smallbins : do_check_smallbin(m, i)
    /\ \A i \in DOMAIN m.treebins : do_check_treebin(m, i)
    /\ \A x \in FreeChunks : bin_find(m, x) <=> x # m.dv
    /\ DOMAIN m.node = {x \in FreeChunks \ {m.dv} : ~is_small(size(m, x))}
    /\ IF m.dvsize = 0 THEN m.dv \notin FreeChunks
       ELSE m.dv \in FreeChunks /\ size(m, m.dv) = m.dvsize /\ m.dvsize >= MIN_CHUNK_SIZE

\* do_check_malloc_state (dl-malloc.h:2853), which only a debug build runs: chunks,
\* bins and bit maps agree after every sequence of calls.  See the two parts.
HeapSound == HeapTiled /\ BinsHoldTheFree

\* What the callers rely on: a block is as large and as aligned as was asked, also
\* when calloc's product overflows; no two blocks, and no block and segment record,
\* share a word; what the program wrote survives every other call and realloc()
\* moves it; and nothing in use is forgotten: each chunk in use is a block the
\* program holds or a segment record.
Words(mem) == mem .. (mem + size(m, mem2chunk(mem)) - overhead_for(m, mem2chunk(mem)) - 1)
BlocksIntact ==
    /\ \A a \in DOMAIN used :
        /\ mem2chunk(a) \in DOMAIN m.head /\ cinuse(m, mem2chunk(a))
        /\ used[a].req <= Cardinality(Words(a)) /\ used[a].init = used[a].req
        /\ a % used[a].al = 0
    /\ \A a, b \in DOMAIN used : a # b => Words(a) \cap Words(b) = {}
    /\ {p \in SegmentChunks : cinuse(m, p)} \cup DirectChunks
        = {mem2chunk(a) : a \in DOMAIN used} \cup Records
    /\ Records \cap {mem2chunk(a) : a \in DOMAIN used} = {}

\* No search misses: a request that some free chunk or top can hold is served from
\* the heap, and the tree search (tmalloc_large, tmalloc_small) returns a smallest
\* chunk that fits.
FitIsFound ==
    \A b \in prog.requests \cup prog.resizes : LET nb == request2size(b)
                             fits == {x \in FreeChunks : size(m, x) >= nb}
                             large == {size(m, x) : x \in fits \cap DOMAIN m.node}
                             v == IF is_small(nb) THEN SmallTreeFit(m, nb) ELSE TreeFit(m, nb)
        IN  b < MAX_REQUEST =>
            /\ fits # {} \/ m.topsize > nb => FromHeap(m, b).mem # 0
            /\ m.treemap # {} =>
                 IF large = {} THEN v = 0 ELSE v # 0 /\ size(m, v) = Min(large)
=============================================================================
