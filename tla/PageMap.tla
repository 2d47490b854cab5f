------------------------------ MODULE PageMap ------------------------------
(***************************************************************************)
(* What an address space promises: each page shows one page of an object,  *)
(* or nothing.  Mapping a range replaces what was there, unmapping removes *)
(* exactly the pages of the range, growing continues the object of the     *)
(* page below, and nothing else ever changes.  Once the kernel has broken  *)
(* the address space or itself, nothing is promised.  An offset is the     *)
(* number in vma_off, to which the code adds pages: vmmap_map stores bytes *)
(* there, though vmmap.h counts pages, and only at 0 are the two the same. *)
(***************************************************************************)
EXTENDS Integers

CONSTANTS Pages,   \* page numbers of user memory
          Objs,    \* memory objects
          Offs,    \* offsets at which objects are mapped
          Nothing  \* what an unmapped page shows

VARIABLES page, broken

Contents == [obj : Objs, off : Nat] \union {Nothing}
Show(obj, off) == [obj |-> obj, off |-> off]

Map(lo, hi, obj, off) ==
    page' = [p \in Pages |-> IF p \in lo .. hi THEN Show(obj, off + p - lo) ELSE page[p]]

MapRange == \E lo, hi \in Pages, obj \in Objs, off \in Offs :
    lo <= hi /\ page'[lo] = Show(obj, off) /\ Map(lo, hi, obj, off)

UnmapRange == \E lo, hi \in Pages :
    page' = [p \in Pages |-> IF p \in lo .. hi THEN Nothing ELSE page[p]]

(* The free pages lo..hi become the next pages of the object below them.   *)
Grow == \E lo, hi \in Pages :
    /\ lo - 1 \in Pages /\ page[lo - 1] # Nothing
    /\ \A p \in lo .. hi : page[p] = Nothing
    /\ Map(lo, hi, page[lo - 1].obj, page[lo - 1].off + 1)

Break == broken' /\ page' \in [Pages -> Contents]

Init == page \in [Pages -> Contents] /\ ~broken
Next == ~broken /\ (Break \/ (~broken' /\ (MapRange \/ UnmapRange \/ Grow)))
Spec == Init /\ [][Next]_<<page, broken>>
=============================================================================
