------------------------------- MODULE Ramfs -------------------------------
(***************************************************************************)
(* The in-memory file system (fs/ramfs/ramfs.c) together with the vnode    *)
(* cache it lives under (vget and vput of fs/vnode.c), as operators on a   *)
(* record s with the fields                                                *)
(*    inode  rfs_inodes: type, size, link count and directory entries      *)
(*    vnode  the reference count and the cached length of each vnode;      *)
(*           a vnode with no reference is not cached                       *)
(*    panic  why the kernel stopped, or "no"                               *)
(* ramfs never blocks, so each operator is one step.  A directory's size   *)
(* is counted in entries, a file's in bytes.  An operator that reports a   *)
(* result returns a record with the new state and the error.               *)
(***************************************************************************)
EXTENDS Integers, FiniteSets

CONSTANTS RAMFS_MAX_FILES,  \* number of inodes
          RAMFS_MAX_DIRENT, \* entries of a directory, "." and ".." included
          PAGE_SIZE         \* bytes of a file at most

ASSUME RamfsAssumption ==
    /\ RAMFS_MAX_FILES \in Nat \ {0}
    /\ RAMFS_MAX_DIRENT \in Nat \ {0, 1}
    /\ PAGE_SIZE \in Nat

Inos  == 0 .. RAMFS_MAX_FILES - 1
Slots == 1 .. RAMFS_MAX_DIRENT
Root  == 0

NoName   == ""
NoEntry  == [rd_name |-> NoName, rd_ino |-> 0]
NoInode  == [rf_mode |-> "FREE", rf_size |-> 0, rf_linkcount |-> 0,
             rf_mem |-> [i \in Slots |-> NoEntry]]
NotCached == [vn_refcount |-> 0, vn_len |-> 0]

Entry(name, ino) == [rd_name |-> name, rd_ino |-> ino]
Least(S) == CHOOSE x \in S : \A y \in S : x <= y
Lesser(a, b)  == IF a < b THEN a ELSE b
Greater(a, b) == IF a > b THEN a ELSE b

Result(s, err)    == [s |-> s, err |-> err, ino |-> Root]
Found(s, ino)     == [s |-> s, err |-> "0", ino |-> ino]
Panic(s, why)     == [s EXCEPT !.panic = why]

(* What follows a call: in every case, or only when it succeeds.           *)
With(r, F(_)) == F(r)
Then(r, F(_)) == IF r.err = "0" THEN F(r) ELSE r

IsDir(s, ino)     == s.inode[ino].rf_mode = "DIR"
SlotsOf(s, dir, name) == {i \in Slots : s.inode[dir].rf_mem[i].rd_name = name}
SlotOf(s, dir, name)  == Least(SlotsOf(s, dir, name))

-----------------------------------------------------------------------------
(* KASSERT(inode && inode->rf_ino == vn->vn_vno)                           *)
ramfs_read_vnode(s, ino) ==
    IF s.inode[ino].rf_mode = "FREE"
    THEN Panic(s, "read_vnode")
    ELSE [s EXCEPT !.inode[ino].rf_linkcount = @ + 1,
                   !.vnode[ino].vn_len = s.inode[ino].rf_size]

(* A vnode in use is referenced once more; any other one is read in.       *)
vget(s, ino) ==
    IF s.vnode[ino].vn_refcount > 0
    THEN [s EXCEPT !.vnode[ino].vn_refcount = @ + 1]
    ELSE [ramfs_read_vnode(s, ino) EXCEPT !.vnode[ino].vn_refcount = 1]

ramfs_delete_vnode(s, ino) ==
    IF s.inode[ino].rf_linkcount = 1
    THEN [s EXCEPT !.inode[ino] = NoInode]
    ELSE [s EXCEPT !.inode[ino].rf_linkcount = @ - 1]

(* KASSERT(vn->vn_nrespages < vn->vn_refcount), with no page resident.     *)
vput(s, ino) ==
    CASE s.vnode[ino].vn_refcount = 0 -> Panic(s, "vput")
      [] s.vnode[ino].vn_refcount > 1 -> [s EXCEPT !.vnode[ino].vn_refcount = @ - 1]
      [] OTHER -> ramfs_delete_vnode([s EXCEPT !.vnode[ino] = NotCached], ino)

(* "found active vnodes": a vnode in use other than one use of the root.   *)
vfs_is_in_use(s) ==
    \/ s.vnode[Root].vn_refcount > 1
    \/ \E ino \in Inos \ {Root} : s.vnode[ino].vn_refcount > 0

-----------------------------------------------------------------------------
FreeInos(s) == {ino \in Inos : s.inode[ino].rf_mode = "FREE"}

(* The first free inode, with one link: the entry its caller will make.    *)
ramfs_alloc_inode(s, type) ==
    IF FreeInos(s) = {}
    THEN Result(s, "-ENOSPC")
    ELSE With(Least(FreeInos(s)), LAMBDA ino :
             Found([s EXCEPT !.inode[ino] = [NoInode EXCEPT !.rf_mode = type,
                                                            !.rf_linkcount = 1]], ino))

HasRoom(s, dir) == SlotsOf(s, dir, NoName) # {}

SetEntry(s, dir, name, ino) ==
    [s EXCEPT !.inode[dir].rf_mem[SlotOf(s, dir, NoName)] = Entry(name, ino),
              !.inode[dir].rf_size = @ + 1]

ClearEntry(s, dir, name) ==
    [s EXCEPT !.inode[dir].rf_mem[SlotOf(s, dir, name)] = NoEntry,
              !.inode[dir].rf_size = @ - 1]

(* A new inode under a name, for ramfs_create, ramfs_mknod, ramfs_mkdir.   *)
NewEntry(s, dir, name, type) ==
    IF ~HasRoom(s, dir)
    THEN Result(s, "-ENOSPC")
    ELSE Then(ramfs_alloc_inode(s, type), LAMBDA a :
             Found(SetEntry(a.s, dir, name, a.ino), a.ino))

ramfs_create(s, dir, name) ==
    Then(NewEntry(s, dir, name, "DATA"), LAMBDA n : Found(vget(n.s, n.ino), n.ino))

ramfs_mknod(s, dir, name, mode) == NewEntry(s, dir, name, mode)

(* "." and ".." are not counted as links.                                  *)
ramfs_mkdir(s, dir, name) ==
    Then(NewEntry(s, dir, name, "DIR"), LAMBDA n :
        Found([n.s EXCEPT !.inode[n.ino].rf_mem[1] = Entry(".", n.ino),
                          !.inode[n.ino].rf_mem[2] = Entry("..", dir),
                          !.inode[n.ino].rf_size = 2], n.ino))

ramfs_lookup(s, dir, name) ==
    IF SlotsOf(s, dir, name) = {}
    THEN Result(s, "-ENOENT")
    ELSE With(s.inode[dir].rf_mem[SlotOf(s, dir, name)].rd_ino, LAMBDA ino :
             Found(vget(s, ino), ino))

(* Mutant: the second name is not counted.                                 *)
ramfs_link_NotCounted(s, old, dir, name) ==
    IF ~HasRoom(s, dir) THEN Result(s, "-ENOSPC")
    ELSE Result(SetEntry(s, dir, name, old), "0")

ramfs_link(s, old, dir, name) ==
    IF ~HasRoom(s, dir)
    THEN Result(s, "-ENOSPC")
    ELSE Result([SetEntry(s, dir, name, old) EXCEPT !.inode[old].rf_linkcount = @ + 1], "0")

(* The entry goes at once, the inode when its last vnode reference does.   *)
Unlink(s, dir, name, ino) ==
    vput([ClearEntry(s, dir, name) EXCEPT !.inode[ino].rf_linkcount = @ - 1], ino)

ramfs_unlink(s, dir, name) ==
    With(ramfs_lookup(s, dir, name), LAMBDA l : Unlink(l.s, dir, name, l.ino))

IsEmptyDir(s, ino) == \A i \in Slots : s.inode[ino].rf_mem[i].rd_name \in {NoName, ".", ".."}

ramfs_rmdir(s, dir, name) ==
    Then(ramfs_lookup(s, dir, name), LAMBDA l :
        IF ~IsDir(l.s, l.ino) THEN Result(vput(l.s, l.ino), "-ENOTDIR")
        ELSE IF ~IsEmptyDir(l.s, l.ino) THEN Result(vput(l.s, l.ino), "-ENOTEMPTY")
        ELSE Result(Unlink(l.s, dir, name, l.ino), "0"))

(* The number of bytes read; the contents are not modelled.                *)
ramfs_read(s, ino, offset, count) ==
    Greater(0, Lesser(count, s.inode[ino].rf_size - offset))

(* Mutant: the inode's size is left to the vnode.                          *)
WriteTo_LenOnly(s, ino, end) == [s EXCEPT !.vnode[ino].vn_len = Greater(@, end)]

(* KASSERT(file->vn_len == inode->rf_size), then the new length.           *)
WriteTo(s, ino, end) ==
    IF s.vnode[ino].vn_len # s.inode[ino].rf_size
    THEN Panic(s, "vn_len")
    ELSE [s EXCEPT !.vnode[ino].vn_len = Greater(@, end),
                   !.inode[ino].rf_size = Greater(@, end)]

(* The number of bytes written; past the page it is negative, and so is    *)
(* the length handed to memcpy.                                            *)
Written(offset, count) == Lesser(count, PAGE_SIZE - offset)

ramfs_write(s, ino, offset, count) ==
    IF Written(offset, count) < 0
    THEN Panic(s, "memcpy")
    ELSE WriteTo(s, ino, offset + Written(offset, count))

(* How far the next entry at or after offset lies ahead; 0 at the end.     *)
ramfs_readdir(s, ino, offset) ==
    LET used == {i \in Slots : i > offset /\ s.inode[ino].rf_mem[i] # NoEntry}
    IN  IF used = {} THEN 0 ELSE Least(used) - offset
=============================================================================
