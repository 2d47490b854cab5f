------------------------------- MODULE VMMap -------------------------------
(***************************************************************************)
(* The address space of a process (vm/vmmap.c): a list of areas, changed   *)
(* by do_mmap and do_munmap (vm/mmap.c), do_brk (vm/brk.c) and copied by   *)
(* do_fork (proc/fork.c).  None of these blocks, so each is one step.      *)
(*                                                                         *)
(* st is a record: map, the areas in the order of vmm_list; panic, whether *)
(* an assertion has failed; misplaced, whether vmmap_find_range has chosen *)
(* a range that is in use (history).  An area covers the pages from start  *)
(* to end, end excluded, and shows obj from the offset off on.  Nothing is *)
(* claimed, and no step is taken, after a panic or a misplaced area.       *)
(***************************************************************************)
EXTENDS Integers, SequencesExt

CONSTANTS
    LOW, HIGH, \* the pages of user memory: LOW .. HIGH - 1
    PAGE_SIZE, \* bytes of a page
    Objs,      \* what files map to
    Offs,      \* offsets given to do_mmap
    Lens,      \* lengths in bytes given to do_mmap and do_munmap
    Data,      \* the object of the data segment
    p_brk,     \* the break, in bytes, which do_brk never changes
    MaxAreas,  \* bound: no step is taken in a longer map
    Nothing

ASSUME VMMapAssumption ==
    /\ {LOW, HIGH, p_brk, MaxAreas} \subseteq Nat /\ PAGE_SIZE \in Nat \ {0}
    /\ 0 < LOW /\ LOW < HIGH
    /\ p_brk \div PAGE_SIZE \in LOW .. HIGH - 1
    /\ Lens \subseteq Nat /\ Offs \subseteq Nat
    /\ Nothing \notin [obj : Objs \union {Data}, off : Nat]

VARIABLE st

vars == <<st>>

Area(start, end, off, obj) == [start |-> start, end |-> end, off |-> off, obj |-> obj]
PageNo(addr) == addr \div PAGE_SIZE
Least(S)    == CHOOSE x \in S : \A y \in S : x <= y
Greatest(S) == CHOOSE x \in S : \A y \in S : x >= y
Panic(s) == [s EXCEPT !.panic = TRUE]

-----------------------------------------------------------------------------
(* After the first area that starts below the new one, or at the head.     *)
Inserted(map, a) ==
    LET below == {i \in 1 .. Len(map) : a.start > map[i].start}
    IN  IF below = {} THEN <<a>> \o map ELSE InsertAt(map, Least(below) + 1, a)

vmmap_insert(s, a) ==
    IF a.start < a.end /\ LOW <= a.start /\ HIGH >= a.end
    THEN [s EXCEPT !.map = Inserted(@, a)]
    ELSE Panic(s)

(* pages >= npages for the unsigned difference pages: a negative one is    *)
(* huge.                                                                   *)
Fits(pages, npages) == pages < 0 \/ pages >= npages

GapAbove(map, i) == (IF i = Len(map) THEN HIGH ELSE map[i + 1].start) - map[i].end
GapBelow(map, i) == map[i].start - (IF i = 1 THEN LOW ELSE map[i - 1].end)

(* When no gap between areas fits, the list head is read as if it were an  *)
(* area.  What lies there is no page number of user memory: the answer is  *)
(* -1 or a useless one, for which 0 stands.                                *)
HeadMisread == {-1, 0}

(* Mutant: a gap of exactly npages is not enough.                          *)
FindHigh_Strict(map, npages) ==
    LET fit == {i \in 1 .. Len(map) : Fits(GapAbove(map, i), npages + 1)}
    IN  IF fit = {} THEN HeadMisread ELSE {map[Greatest(fit)].end}

(* VMMAP_DIR_HILO: from the last area down.                                *)
FindHigh(map, npages) ==
    LET fit == {i \in 1 .. Len(map) : Fits(GapAbove(map, i), npages)}
    IN  IF fit = {} THEN HeadMisread ELSE {map[Greatest(fit)].end}

(* VMMAP_DIR_LOHI: from the first area up.                                 *)
FindLow(map, npages) ==
    LET fit == {i \in 1 .. Len(map) : Fits(GapBelow(map, i), npages)}
    IN  IF fit = {} THEN HeadMisread
        ELSE {map[Least(fit)].start - GapBelow(map, Least(fit))}

(* The possible answers; -1 for an empty address space.                    *)
vmmap_find_range(map, npages, dir) ==
    IF map = <<>> THEN {-1}
    ELSE IF dir = "HILO" THEN FindHigh(map, npages) ELSE FindLow(map, npages)

Covers(a, vfn) == a.start <= vfn /\ vfn < a.end

(* The index of the first area that covers vfn, or 0.                      *)
vmmap_lookup(map, vfn) ==
    LET found == {i \in 1 .. Len(map) : Covers(map[i], vfn)}
    IN  IF found = {} THEN 0 ELSE Least(found)

(* Mutant: an area inside the range is not noticed.                        *)
vmmap_is_range_empty_NotInside(map, lo, n) ==
    \A i \in 1 .. Len(map) :
        /\ ~Covers(map[i], lo)
        /\ ~(map[i].start < lo + n /\ map[i].end >= lo + n)

vmmap_is_range_empty(map, lo, n) ==
    \A i \in 1 .. Len(map) :
        /\ ~Covers(map[i], lo)
        /\ ~(map[i].start < lo + n /\ map[i].end >= lo + n)
        /\ ~(map[i].start >= lo /\ map[i].end <= lo + n)

-----------------------------------------------------------------------------
(* vmmap_remove                                                            *)
Unlinked(s, a) == [s EXCEPT !.map = RemoveFirst(@, a)]
Replaced(s, a, b) == [s EXCEPT !.map = ReplaceAt(@, SelectInSeq(@, LAMBDA x : x = a), b)]

(* Mutant: the offset is not moved with the start.                         *)
Shortened_StaleOff(a, start) == [a EXCEPT !.start = start]

Shortened(a, start) == [a EXCEPT !.start = start, !.off = @ + start - a.start]

(* The range lies inside the area: two new ones take its place.            *)
Splits(a, lo, n) == lo > a.start /\ lo < a.end /\ lo + n <= a.end

(* The four cases for one area: the range inside it, over its end, over    *)
(* its beginning, all around it.  In the first case with lo + n = end, the *)
(* second half is empty and vmmap_insert asserts.                          *)
RemoveFrom(s, a, lo, n) ==
    IF s.panic THEN s
    ELSE CASE Splits(a, lo, n) ->
                vmmap_insert(vmmap_insert(Unlinked(s, a), [a EXCEPT !.end = lo]),
                             Shortened(a, lo + n))
           [] lo > a.start /\ lo < a.end /\ lo + n > a.end ->
                Replaced(s, a, [a EXCEPT !.end = lo])
           [] ~(lo > a.start /\ lo < a.end) /\ lo + n > a.start /\ lo + n <= a.end ->
                Replaced(s, a, Shortened(a, lo + n))
           [] a.start >= lo /\ a.end <= lo + n /\ ~(lo + n > a.start /\ lo + n <= a.end) ->
                Unlinked(s, a)
           [] OTHER -> s

(* The loop over the areas that were in the list before: what s is after   *)
(* the first k of them.                                                    *)
Removing(s, lo, n) ==
    LET removed[k \in 0 .. Len(s.map)] ==
            IF k = 0 THEN s ELSE RemoveFrom(removed[k - 1], s.map[k], lo, n)
    IN  removed

vmmap_remove(s, lo, n) == Removing(s, lo, n)[Len(s.map)]

(* There is no memory for the two halves: -1 is returned in mid-loop.      *)
OutOfMemory(s, lo, n) ==
    {Removing(s, lo, n)[k - 1] : k \in {i \in 1 .. Len(s.map) : Splits(s.map[i], lo, n)}}

-----------------------------------------------------------------------------
InUse(map, lo, n) == \E i \in 1 .. Len(map), p \in lo .. lo + n - 1 : Covers(map[i], p)

(* lopage = 0: where vmmap_find_range says, if anywhere.                   *)
MapAnywhere(s, n, obj, off, at) ==
    IF at = -1 THEN s
    ELSE [vmmap_insert(s, Area(at, at + n, off, obj))
             EXCEPT !.misplaced = at > 0 /\ InUse(s.map, at, n)]

(* Mutant: one page too many is cleared.                                   *)
MapAt_ClearsMore(s, lo, n, obj, off) ==
    LET cleared == IF vmmap_is_range_empty(s.map, lo, n) THEN s ELSE vmmap_remove(s, lo, n + 1)
    IN  OutOfMemory(s, lo, n) \union
            IF cleared.panic THEN {cleared}
            ELSE {cleared, Panic(cleared), vmmap_insert(cleared, Area(lo, lo + n, off, obj))}

(* At the given place, after what was there is unmapped.  Memory may run   *)
(* out while it is, or for the new area, where it is not tested and NULL   *)
(* is written to; or the file's mmap operation fails.                      *)
MapAt(s, lo, n, obj, off) ==
    LET cleared == IF vmmap_is_range_empty(s.map, lo, n) THEN s ELSE vmmap_remove(s, lo, n)
    IN  OutOfMemory(s, lo, n) \union
            IF cleared.panic THEN {cleared}
            ELSE {cleared, Panic(cleared), vmmap_insert(cleared, Area(lo, lo + n, off, obj))}

(* The assertions on flags, range and offset, then the new area, unless    *)
(* there is no memory for it or the file's mmap operation fails.           *)
MapArgsOK(lo, n, flags, off) ==
    /\ flags \in {"MAP_SHARED", "MAP_PRIVATE"}
    /\ lo # 0 => LOW <= lo /\ HIGH >= lo + n
    /\ off % PAGE_SIZE = 0

vmmap_map(s, lo, n, flags, obj, off) ==
    IF ~MapArgsOK(lo, n, flags, off) THEN {Panic(s)}
    ELSE IF lo # 0 THEN MapAt(s, lo, n, obj, off)
    ELSE {s} \union {MapAnywhere(s, n, obj, off, at) : at \in vmmap_find_range(s.map, n, "HILO")}

(* len / PAGE_SIZE + 1 pages, so one more than needed for whole pages.     *)
NPages(len) == len \div PAGE_SIZE + 1

Running == ~st.panic /\ ~st.misplaced /\ Len(st.map) <= MaxAreas

(* For a page aligned address and an open file; what vmmap_map returns is  *)
(* dropped.  MAP_FIXED and MAP_ANON alone pass the check of the flags, but *)
(* not vmmap_map's; MAP_ANON is treated as MAP_FIXED is, and MAP_PRIVATE   *)
(* as MAP_SHARED is but for the object's shadow.                           *)
do_mmap == \E lo \in 0 .. HIGH, len \in Lens, obj \in Objs, off \in Offs,
              flags \in {"MAP_SHARED", "MAP_FIXED"} :
    Running /\ st' \in vmmap_map(st, lo, NPages(len), flags, obj, off)

(* What vmmap_remove returns is dropped.                                   *)
do_munmap == \E lo \in 0 .. HIGH, len \in Lens :
    /\ Running
    /\ st' \in {vmmap_remove(st, lo, NPages(len))} \union OutOfMemory(st, lo, NPages(len))

(* The area that holds the break ends at the page of addr.                 *)
GrowTo(s, i, addr) ==
    LET from == PageNo(p_brk) + 1
    IN  IF vmmap_is_range_empty(s.map, from, PageNo(addr) - from + 1)
        THEN [s EXCEPT !.map[i].end = PageNo(addr)]
        ELSE s

(* To a lower address: the range tested holds the break's own page, so     *)
(* this never succeeds.                                                    *)
ShrinkTo(s, i, addr) ==
    IF vmmap_is_range_empty(s.map, PageNo(addr), PageNo(p_brk) - PageNo(addr) + 1)
    THEN [s EXCEPT !.map[i].end = PageNo(addr)]
    ELSE s

(* p_brk stays as it is, which is also the lower limit p_start_brk.        *)
do_brk == \E addr \in p_brk .. HIGH * PAGE_SIZE :
    /\ Running
    /\ vmmap_lookup(st.map, PageNo(p_brk)) # 0
    /\ st' = IF addr > p_brk THEN GrowTo(st, vmmap_lookup(st.map, PageNo(p_brk)), addr)
             ELSE ShrinkTo(st, vmmap_lookup(st.map, PageNo(p_brk)), addr)

(* Every area of the parent is inserted into the empty map of the child,  *)
(* unless there is no memory for one of them.                              *)
vmmap_clone(map) ==
    FoldLeft(LAMBDA acc, a : IF acc.panic THEN acc ELSE vmmap_insert(acc, a),
             [map |-> <<>>, panic |-> FALSE], map)

(* The child never runs.  The parent goes on if the copy could be made;    *)
(* without memory the copy is NULL, which is used all the same.            *)
do_fork ==
    /\ Running
    /\ st' \in {Panic(st)} \union (IF vmmap_clone(st.map).panic THEN {} ELSE {st})

(* A program whose data segment ends with the page of the break.           *)
Init == st = [map       |-> <<Area(PageNo(p_brk), PageNo(p_brk) + 1, 0, Data)>>,
              panic     |-> FALSE,
              misplaced |-> FALSE]

Next == do_mmap \/ do_munmap \/ do_brk \/ do_fork

Spec == Init /\ [][Next]_vars

-----------------------------------------------------------------------------
(* No page belongs to two areas, whatever is mapped over and unmapped from *)
(* whatever: only vmmap_find_range can make areas overlap.                 *)
AreasDisjoint ==
    ~st.misplaced => \A i, j \in 1 .. Len(st.map), p \in LOW .. HIGH :
        Covers(st.map[i], p) /\ Covers(st.map[j], p) => i = j

(* Areas lie in user memory; one may have become empty.                    *)
Areas == {a \in [start : Nat, end : Nat, off : Nat, obj : Objs \union {Data}] :
             LOW <= a.start /\ a.start <= a.end /\ a.end <= HIGH}

(* The type invariant.                                                     *)
VMTypeOK == st \in [map : Seq(Areas), panic : BOOLEAN, misplaced : BOOLEAN]

(* The inductive invariant: nothing but the types and AreasDisjoint.       *)
VMIInv == VMTypeOK /\ AreasDisjoint

(* What page p shows: the object and the offset in it.                     *)
Shows(map, p) ==
    LET i == vmmap_lookup(map, p)
    IN  IF i = 0 THEN Nothing
        ELSE [obj |-> map[i].obj, off |-> map[i].off + p - map[i].start]

(* Whatever the areas and their order, vmmap_remove unmaps the pages asked *)
(* for and no other, and the pieces of the areas it cuts still show the    *)
(* right pages of their object, unless it runs into an assertion.          *)
RemoveExact ==
    Running => \A lo \in LOW .. HIGH, len \in Lens :
        LET after == vmmap_remove(st, lo, NPages(len))
        IN  after.panic \/ \A p \in LOW .. HIGH - 1 :
                Shows(after.map, p) = IF p \in lo .. lo + NPages(len) - 1 THEN Nothing
                                      ELSE Shows(st.map, p)

Abstract == INSTANCE PageMap WITH
    Pages  <- LOW .. HIGH - 1,
    Objs   <- Objs \union {Data},
    page   <- [p \in LOW .. HIGH - 1 |-> Shows(st.map, p)],
    broken <- st.panic \/ st.misplaced

(* The address space does what PageMap promises, whatever is mapped over,  *)
(* unmapped, grown or forked in whatever order: pages only change by a     *)
(* range being mapped, unmapped, or joined to the area below it.           *)
ImplementsPageMap == Abstract!Spec

InOrder(map) == \A i, j \in 1 .. Len(map) : i < j => map[i].end <= map[j].start

(* No area, empty ones included, reaches into the n pages from lo on.      *)
Free(map, lo, n) == \A i \in 1 .. Len(map) : map[i].end <= lo \/ map[i].start >= lo + n

(* As long as the areas lie one above the other, a range returned by       *)
(* vmmap_find_range (high to low) is free, in user memory, and in the      *)
(* highest gap that is large enough: one that fits higher up is joined to  *)
(* it.  A range is found whenever there is one above the first area.  No   *)
(* more is claimed: a gap below the first area is missed, which            *)
(* vmmap.c:184-190 does not say.                                           *)
FindRangeRight ==
    Running /\ st.map # <<>> /\ InOrder(st.map) => \A n \in 1 .. HIGH - LOW :
        \A at \in vmmap_find_range(st.map, n, "HILO") :
            /\ at > 0 =>
                  /\ LOW <= at /\ at + n <= HIGH /\ Free(st.map, at, n)
                  /\ \A lo \in at .. HIGH - n :
                        Free(st.map, lo, n) => Free(st.map, at, lo + n - at)
            /\ (\E lo \in st.map[1].end .. HIGH - n : Free(st.map, lo, n)) => at > 0
=============================================================================
