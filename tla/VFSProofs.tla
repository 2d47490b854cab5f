----------------------------- MODULE VFSProofs -----------------------------
(***************************************************************************)
(* Proofs about Ramfs and VFS, for every number of inodes, directory       *)
(* entries, descriptors and processes, and every set of paths, flags and   *)
(* offsets.                                                                *)
(***************************************************************************)
EXTENDS VFS, FiniteSetTheorems, SequenceTheorems, WellFoundedInduction, TLAPS

(* The kernel states.                                                      *)
Modes    == {"FREE", "DATA", "DIR", "CHR", "BLK"}
Entries  == [rd_name : STRING \union {NoName, ".", ".."}, rd_ino : Inos]
Inodes   == [rf_mode : Modes, rf_size : Int, rf_linkcount : Int, rf_mem : [Slots -> Entries]]
VnodeSet == [vn_refcount : Nat, vn_len : Int]
FileSet  == [f_refcount : Nat, f_mode : SUBSET {"READ", "WRITE", "APPEND"}, f_pos : Int,
             f_vnode : Inos \union {NoIno}]
Reasons  == {"no", "fput", "res_vnode", "read_vnode", "vput", "vn_len", "memcpy", "in use", "halted"}
State    == [inode : [Inos -> Inodes], vnode : [Inos -> VnodeSet], file : [Files -> FileSet],
             p_files : [Procs -> [Fds -> Files \union {NULL}]],
             p_cwd : [Procs -> Inos \union {NoIno}], lost : [Inos -> Nat], panic : Reasons]

LEMMA Basics ==
    /\ Root \in Inos /\ Inos \subseteq Int /\ NoIno \notin Inos /\ NULL \notin Files
    /\ NoEntry \in Entries /\ NoInode \in Inodes /\ NotCached \in VnodeSet
    /\ NoFile \in FileSet /\ Slots \subseteq Nat /\ Files \subseteq Nat /\ Inos \subseteq Nat
  <1>1. Root \in Inos /\ NoIno \notin Inos /\ NULL \notin Files /\ Inos \subseteq Nat
    <2>1. NULL \notin Files
      BY DEF NULL, Files
    <2>2. Root \in Inos
      BY RamfsAssumption DEF Root, Inos
    <2>3. NoIno \notin Inos /\ Inos \subseteq Nat
      BY DEF NoIno, Inos
    <2> QED BY <2>1, <2>2, <2>3
  <1>2. NoEntry \in Entries
    BY <1>1 DEF Entries, NoEntry, Root
  <1>3. NoInode \in Inodes
    BY <1>2 DEF Inodes, NoInode, Modes
  <1>4. NotCached \in VnodeSet /\ NoFile \in FileSet
    BY DEF NotCached, VnodeSet, NoFile, FileSet
  <1>5. Slots \subseteq Nat /\ Files \subseteq Nat
    BY DEF Slots, Files
  <1> QED BY <1>1, <1>2, <1>3, <1>4, <1>5

(* One inode, one vnode, or the reason of a panic is replaced.             *)
LEMMA SetInode ==
    ASSUME NEW s \in State, NEW ino \in Inos, NEW x \in Inodes
    PROVE  LET r == [s EXCEPT !.inode[ino] = x]
           IN  /\ r \in State /\ r.inode = [s.inode EXCEPT ![ino] = x] /\ r.vnode = s.vnode
               /\ r.file = s.file /\ r.p_files = s.p_files /\ r.p_cwd = s.p_cwd
               /\ r.lost = s.lost /\ r.panic = s.panic
  BY DEF State

LEMMA SetVnode ==
    ASSUME NEW s \in State, NEW ino \in Inos, NEW x \in VnodeSet
    PROVE  LET r == [s EXCEPT !.vnode[ino] = x]
           IN  /\ r \in State /\ r.vnode = [s.vnode EXCEPT ![ino] = x] /\ r.inode = s.inode
               /\ r.file = s.file /\ r.p_files = s.p_files /\ r.p_cwd = s.p_cwd
               /\ r.lost = s.lost /\ r.panic = s.panic
  BY DEF State

LEMMA SetPanic ==
    ASSUME NEW s \in State, NEW why \in Reasons
    PROVE  /\ Panic(s, why) \in State /\ Panic(s, why).panic = why
           /\ Panic(s, why).inode = s.inode /\ Panic(s, why).vnode = s.vnode
           /\ Panic(s, why).file = s.file /\ Panic(s, why).p_files = s.p_files
           /\ Panic(s, why).p_cwd = s.p_cwd /\ Panic(s, why).lost = s.lost
  BY DEF State, Panic

(* The least of a set of natural numbers.                                  *)
LEMMA LeastOne ==
    ASSUME NEW T \in SUBSET Nat, T # {}
    PROVE  Least(T) \in T /\ \A k \in T : Least(T) <= k
  <1>1. PICK m \in T : \A k \in T : ~(<<k, m>> \in OpToRel(<, Nat))
    BY NatLessThanWellFounded, WFMin
  <1>2. \A k \in T : ~(k < m)
    BY <1>1 DEF OpToRel
  <1>3. \E x \in T : \A y \in T : x <= y
    BY <1>2
  <1> QED BY <1>3, Zenon DEF Least

LEMMA IfRange == \A b \in BOOLEAN : If(b) \in {0, 1} /\ (b => If(b) = 1) /\ (~b => If(b) = 0)
  BY DEF If

-----------------------------------------------------------------------------
(* What every operator of Ramfs keeps                                      *)

Rc(s, i) == s.vnode[i].vn_refcount

FreeEmpty(s) == \A i \in Inos : s.inode[i].rf_mode = "FREE" => s.inode[i] = NoInode

InUse(s) == \A i \in Inos : Rc(s, i) > 0 => s.inode[i].rf_mode # "FREE"

LengthsMatch(s) == \A i \in Inos :
    Rc(s, i) > 0 /\ s.inode[i].rf_mode # "DIR" => s.vnode[i].vn_len = s.inode[i].rf_size

LinksOf(s, i) == Cardinality(Names(s, i)) + If(Cached(s, i)) + If(i = Root)

LinksEnough(s) == \A i \in Inos : s.inode[i].rf_linkcount >= LinksOf(s, i)

Good(s) == /\ FreeEmpty(s) /\ InUse(s) /\ LengthsMatch(s)
           /\ NoDotPaths => LinksEnough(s)

Tables(s, r) ==
    r.file = s.file /\ r.p_files = s.p_files /\ r.p_cwd = s.p_cwd /\ r.lost = s.lost

(* r follows from s, and unless the kernel stopped, is as good as s; the   *)
(* references are those of s, or one more or one less to d.                *)
Follows(s, r) ==
    /\ r \in State /\ Tables(s, r)
    /\ r.panic = "no" => s.panic = "no" /\ (Good(s) => Good(r))

Even(s, r) ==
    Follows(s, r) /\ (r.panic = "no" => \A i \in Inos : Rc(r, i) = Rc(s, i))

Up(s, r, d) ==
    Follows(s, r) /\ (r.panic = "no" => \A i \in Inos : Rc(r, i) = Rc(s, i) + If(i = d))

Down(s, r, d) ==
    Follows(s, r) /\ (r.panic = "no" => \A i \in Inos : Rc(s, i) = Rc(r, i) + If(i = d))

LEMMA RcType == ASSUME NEW s \in State, NEW i \in Inos PROVE Rc(s, i) \in Nat
  BY DEF State, VnodeSet, Rc

LEMMA FollowsAgain ==
    ASSUME NEW s, NEW t, NEW r, Follows(s, t), Follows(t, r)
    PROVE  Follows(s, r)
  BY DEF Follows, Tables

LEMMA EvenFirst ==
    ASSUME NEW s, NEW t, NEW r, Even(s, t)
    PROVE  /\ Even(t, r) => Even(s, r)
           /\ \A d : Up(t, r, d) => Up(s, r, d)
           /\ \A d : Down(t, r, d) => Down(s, r, d)
  <1>1. ASSUME Follows(t, r), r.panic = "no"
        PROVE  Follows(s, r) /\ t.panic = "no"
    BY <1>1, FollowsAgain DEF Follows, Even
  <1>2. ASSUME Follows(t, r) PROVE Follows(s, r)
    BY <1>2, FollowsAgain DEF Even
  <1> QED BY <1>1, <1>2 DEF Even, Up, Down

LEMMA EvenLast ==
    ASSUME NEW s, NEW t, NEW r, NEW d, Up(s, t, d), Even(t, r)
    PROVE  Up(s, r, d)
  <1>1. Follows(s, r)
    BY FollowsAgain DEF Up, Even
  <1>2. r.panic = "no" => t.panic = "no"
    BY DEF Even, Follows
  <1> QED BY <1>1, <1>2 DEF Up, Even

(* A reference taken and given back, with others in between.               *)
LEMMA UpDown ==
    ASSUME NEW s \in State, NEW t, NEW r, NEW d, Up(s, t, d), Down(t, r, d)
    PROVE  Even(s, r)
  <1>1. Follows(s, r)
    BY FollowsAgain DEF Up, Down
  <1>2. r.panic = "no" => t.panic = "no"
    BY DEF Down, Follows
  <1>3. ASSUME NEW i \in Inos, r.panic = "no" PROVE Rc(r, i) = Rc(s, i)
    <2>1. Rc(t, i) = Rc(s, i) + If(i = d) /\ Rc(t, i) = Rc(r, i) + If(i = d)
      BY <1>2, <1>3 DEF Up, Down
    <2>2. Rc(s, i) \in Nat /\ Rc(r, i) \in Nat
      BY RcType DEF Down, Follows
    <2>3. If(i = d) \in Nat
      BY DEF If
    <2> QED BY <2>1, <2>2, <2>3
  <1> QED BY <1>1, <1>3 DEF Even

LEMMA UpUpDown ==
    ASSUME NEW s \in State, NEW t, NEW u, NEW r, NEW d, NEW l,
           Up(s, t, d), Up(t, u, l), Down(u, r, d)
    PROVE  Up(s, r, l)
  <1>1. Follows(s, r)
    BY FollowsAgain DEF Up, Down
  <1>2. r.panic = "no" => u.panic = "no" /\ t.panic = "no"
    BY DEF Up, Down, Follows
  <1>3. ASSUME NEW i \in Inos, r.panic = "no" PROVE Rc(r, i) = Rc(s, i) + If(i = l)
    <2>1. /\ Rc(t, i) = Rc(s, i) + If(i = d) /\ Rc(u, i) = Rc(t, i) + If(i = l)
          /\ Rc(u, i) = Rc(r, i) + If(i = d)
      BY <1>2, <1>3 DEF Up, Down
    <2>2. Rc(s, i) \in Nat /\ Rc(r, i) \in Nat
      BY RcType DEF Down, Follows
    <2>3. If(i = d) \in Nat /\ If(i = l) \in Nat
      BY DEF If
    <2> QED BY <2>1, <2>2, <2>3
  <1> QED BY <1>1, <1>3 DEF Up
-----------------------------------------------------------------------------
(* The names of an inode: at most one more or one less with each entry.    *)
SameNames(s, r) == \A i \in Inos :
    r.inode[i].rf_mode = s.inode[i].rf_mode /\ r.inode[i].rf_mem = s.inode[i].rf_mem

LEMMA NamesFinite ==
    ASSUME NEW s, NEW i
    PROVE  IsFiniteSet(Names(s, i)) /\ Cardinality(Names(s, i)) \in Nat
  <1>1. IsFiniteSet(Inos) /\ IsFiniteSet(Slots)
    <2>1. 0 \in Int /\ RAMFS_MAX_FILES - 1 \in Int /\ 1 \in Int /\ RAMFS_MAX_DIRENT \in Int
      BY RamfsAssumption
    <2> QED BY <2>1, FS_Interval DEF Inos, Slots
  <1>2. IsFiniteSet(Inos \X Slots)
    BY <1>1, FS_Product
  <1>3. Names(s, i) \subseteq Inos \X Slots
    BY DEF Names
  <1>4. IsFiniteSet(Names(s, i))
    BY <1>2, <1>3, FS_Subset
  <1> QED BY <1>4, FS_CardinalityType

LEMMA NamesFewer ==
    ASSUME NEW s, NEW r, NEW i, Names(r, i) \subseteq Names(s, i)
    PROVE  Cardinality(Names(r, i)) <= Cardinality(Names(s, i))
  BY NamesFinite, FS_Subset

LEMMA NamesOneMore ==
    ASSUME NEW s, NEW r, NEW i, NEW e, Names(r, i) \subseteq Names(s, i) \union {e}
    PROVE  Cardinality(Names(r, i)) <= Cardinality(Names(s, i)) + 1
  <1>1. IsFiniteSet(Names(s, i)) /\ Cardinality(Names(s, i)) \in Nat
    BY NamesFinite
  <1>2. /\ IsFiniteSet(Names(s, i) \union {e})
        /\ Cardinality(Names(s, i) \union {e}) <= Cardinality(Names(s, i)) + 1
    <2>1. /\ IsFiniteSet(Names(s, i) \union {e})
          /\ Cardinality(Names(s, i) \union {e}) = IF e \in Names(s, i) THEN Cardinality(Names(s, i))
                                                   ELSE Cardinality(Names(s, i)) + 1
      BY <1>1, FS_AddElement
    <2> QED BY <1>1, <2>1
  <1>3. /\ Cardinality(Names(r, i)) <= Cardinality(Names(s, i) \union {e})
        /\ Cardinality(Names(r, i)) \in Nat /\ Cardinality(Names(s, i) \union {e}) \in Nat
    BY <1>2, NamesFinite, FS_Subset, FS_CardinalityType
  <1> QED BY <1>1, <1>2, <1>3

LEMMA NamesOneLess ==
    ASSUME NEW s, NEW r, NEW i, NEW e \in Names(s, i), Names(r, i) \subseteq Names(s, i) \ {e}
    PROVE  Cardinality(Names(r, i)) + 1 <= Cardinality(Names(s, i))
  <1>1. IsFiniteSet(Names(s, i)) /\ Cardinality(Names(s, i)) \in Nat
    BY NamesFinite
  <1>2. /\ IsFiniteSet(Names(s, i) \ {e})
        /\ Cardinality(Names(s, i) \ {e}) = Cardinality(Names(s, i)) - 1
    BY <1>1, FS_RemoveElement
  <1>3. /\ Cardinality(Names(r, i)) <= Cardinality(Names(s, i) \ {e})
        /\ Cardinality(Names(r, i)) \in Nat
    BY <1>2, NamesFinite, FS_Subset
  <1> QED BY <1>1, <1>2, <1>3

LEMMA NamesSame ==
    ASSUME NEW s, NEW r, NEW i, SameNames(s, r)
    PROVE  Names(r, i) = Names(s, i)
  BY DEF SameNames, Names, IsName, IsDir

LEMMA LinksType ==
    ASSUME NEW s \in State, NEW i \in Inos
    PROVE  /\ Cardinality(Names(s, i)) \in Nat /\ If(Cached(s, i)) \in {0, 1} /\ If(i = Root) \in {0, 1}
           /\ LinksOf(s, i) \in Nat /\ LinksOf(s, i) >= Cardinality(Names(s, i))
           /\ s.inode[i].rf_linkcount \in Int
  <1>1. Cardinality(Names(s, i)) \in Nat
    BY NamesFinite
  <1>2. If(Cached(s, i)) \in {0, 1} /\ If(i = Root) \in {0, 1}
    BY DEF If
  <1>3. s.inode[i].rf_linkcount \in Int
    BY DEF State, Inodes
  <1> QED BY <1>1, <1>2, <1>3 DEF LinksOf
-----------------------------------------------------------------------------
(* vget and vput                                                           *)
LEMMA VgetCached ==
    ASSUME NEW s \in State, NEW i \in Inos, Rc(s, i) > 0
    PROVE  LET r == vget(s, i)
           IN  /\ r \in State /\ Tables(s, r) /\ r.panic = s.panic /\ r.inode = s.inode
               /\ \A j \in Inos : /\ r.vnode[j].vn_len = s.vnode[j].vn_len
                                  /\ Rc(r, j) = Rc(s, j) + If(j = i)
  <1> DEFINE x == [s.vnode[i] EXCEPT !.vn_refcount = @ + 1]
             r == [s EXCEPT !.vnode[i] = x]
  <1>1. vget(s, i) = r
    BY DEF vget, Rc, State
  <1>2. x \in VnodeSet /\ x.vn_refcount = Rc(s, i) + 1 /\ x.vn_len = s.vnode[i].vn_len
    BY DEF State, VnodeSet, Rc
  <1> HIDE DEF x
  <1>3. /\ r \in State /\ r.vnode = [s.vnode EXCEPT ![i] = x] /\ r.inode = s.inode
        /\ Tables(s, r) /\ r.panic = s.panic
    BY <1>2, SetVnode DEF Tables
  <1> HIDE DEF r
  <1>4. ASSUME NEW j \in Inos
        PROVE  r.vnode[j].vn_len = s.vnode[j].vn_len /\ Rc(r, j) = Rc(s, j) + If(j = i)
    <2>1. Rc(s, j) \in Nat /\ s.vnode \in [Inos -> VnodeSet]
      BY RcType DEF State
    <2>2. CASE j = i
      BY <2>1, <2>2, <1>2, <1>3 DEF Rc, If
    <2>3. CASE j # i
      BY <2>1, <2>3, <1>3 DEF Rc, If
    <2> QED BY <2>2, <2>3
  <1> QED BY <1>1, <1>3, <1>4

LEMMA VgetFree ==
    ASSUME NEW s \in State, NEW i \in Inos, ~(Rc(s, i) > 0), s.inode[i].rf_mode = "FREE"
    PROVE  LET r == vget(s, i)
           IN  r \in State /\ Tables(s, r) /\ r.panic # "no" /\ r.inode = s.inode
  <1> DEFINE q == Panic(s, "read_vnode")
             x == [q.vnode[i] EXCEPT !.vn_refcount = 1]
             r == [q EXCEPT !.vnode[i] = x]
  <1>1. q \in State /\ Tables(s, q) /\ q.panic = "read_vnode" /\ q.inode = s.inode
    <2>1. "read_vnode" \in Reasons
      BY DEF Reasons
    <2>2. /\ q \in State /\ q.panic = "read_vnode" /\ q.inode = s.inode
          /\ q.file = s.file /\ q.p_files = s.p_files /\ q.p_cwd = s.p_cwd /\ q.lost = s.lost
      BY <2>1, SetPanic
    <2> QED BY <2>2 DEF Tables
  <1>2. vget(s, i) = r
    <2>1. vget(s, i) = [q EXCEPT !.vnode[i].vn_refcount = 1]
      BY DEF vget, Rc, ramfs_read_vnode
    <2> HIDE DEF q
    <2> QED BY <1>1, <2>1 DEF State
  <1> HIDE DEF q
  <1>3. x \in VnodeSet
    <2>1. q.vnode[i] \in VnodeSet
      BY <1>1 DEF State
    <2> QED BY <2>1 DEF VnodeSet
  <1> HIDE DEF x
  <1>4. r \in State /\ Tables(q, r) /\ r.panic = q.panic /\ r.inode = q.inode
    BY <1>1, <1>3, SetVnode DEF Tables
  <1> QED BY <1>1, <1>2, <1>4 DEF Tables

LEMMA VgetReads ==
    ASSUME NEW s \in State, NEW i \in Inos, ~(Rc(s, i) > 0), s.inode[i].rf_mode # "FREE"
    PROVE  LET r == vget(s, i)
           IN  /\ r \in State /\ Tables(s, r) /\ r.panic = s.panic /\ SameNames(s, r)
               /\ \A j \in Inos : Rc(r, j) = Rc(s, j) + If(j = i)
               /\ \A j \in Inos : j # i => r.inode[j] = s.inode[j] /\ r.vnode[j] = s.vnode[j]
               /\ r.inode[i].rf_linkcount = s.inode[i].rf_linkcount + 1
               /\ r.vnode[i].vn_len = r.inode[i].rf_size
  <1> DEFINE y == [s.inode[i] EXCEPT !.rf_linkcount = @ + 1]
             q == [s EXCEPT !.inode[i] = y]
             z == [s.vnode[i] EXCEPT !.vn_len = s.inode[i].rf_size]
             t == [q EXCEPT !.vnode[i] = z]
             x == [t.vnode[i] EXCEPT !.vn_refcount = 1]
             r == [t EXCEPT !.vnode[i] = x]
  <1>1. t = ramfs_read_vnode(s, i)
    <2>1. ramfs_read_vnode(s, i) = [s EXCEPT !.inode[i].rf_linkcount = @ + 1,
                                             !.vnode[i].vn_len = s.inode[i].rf_size]
      BY DEF ramfs_read_vnode
    <2>2. q = [s EXCEPT !.inode[i].rf_linkcount = @ + 1]
      BY DEF State
    <2>3. t = [q EXCEPT !.vnode[i].vn_len = s.inode[i].rf_size]
      <3>1. q.vnode[i] = s.vnode[i]
        BY DEF State
      <3> HIDE DEF q
      <3> QED BY <3>1
    <2>4. ramfs_read_vnode(s, i) = [[s EXCEPT !.inode[i].rf_linkcount = @ + 1]
                                       EXCEPT !.vnode[i].vn_len = s.inode[i].rf_size]
      BY <2>1
    <2> DEFINE q0 == [s EXCEPT !.inode[i].rf_linkcount = @ + 1]
               t0 == [q0 EXCEPT !.vnode[i].vn_len = s.inode[i].rf_size]
    <2>5. q0 = q
      BY <2>2
    <2>6. t0 = [q EXCEPT !.vnode[i].vn_len = s.inode[i].rf_size]
      <3> HIDE DEF q0, q
      <3> QED BY <2>5
    <2>7. ramfs_read_vnode(s, i) = t0
      BY <2>4
    <2> HIDE DEF q, t, t0
    <2> QED BY <2>3, <2>6, <2>7
  <1>2. /\ y \in Inodes /\ y.rf_linkcount = s.inode[i].rf_linkcount + 1 /\ y.rf_mode = s.inode[i].rf_mode
        /\ y.rf_mem = s.inode[i].rf_mem /\ y.rf_size = s.inode[i].rf_size
    <2>1. s.inode[i] \in Inodes
      BY DEF State
    <2> HIDE DEF q, z, t, x, r
    <2> QED BY <2>1 DEF Inodes
  <1>3. z \in VnodeSet /\ z.vn_len = s.inode[i].rf_size
    <2>1. s.inode[i] \in Inodes /\ s.vnode[i] \in VnodeSet
      BY DEF State
    <2> HIDE DEF q, y, t, x, r
    <2> QED BY <2>1 DEF Inodes, VnodeSet
  <1> HIDE DEF y, z
  <1>4. /\ q \in State /\ q.inode = [s.inode EXCEPT ![i] = y] /\ q.vnode = s.vnode
        /\ Tables(s, q) /\ q.panic = s.panic
    BY <1>2, SetInode DEF Tables
  <1> HIDE DEF q
  <1>5. /\ t \in State /\ t.vnode = [q.vnode EXCEPT ![i] = z] /\ t.inode = q.inode
        /\ Tables(q, t) /\ t.panic = q.panic
    BY <1>3, <1>4, SetVnode DEF Tables
  <1> HIDE DEF t
  <1>13. vget(s, i) = r
    <2>1. vget(s, i) = [t EXCEPT !.vnode[i].vn_refcount = 1]
      BY <1>1 DEF vget, Rc
    <2> QED BY <1>5, <2>1 DEF State
  <1>14. x \in VnodeSet /\ x.vn_refcount = 1 /\ x.vn_len = s.inode[i].rf_size
    <2>1. t.vnode[i] = z
      BY <1>4, <1>5 DEF State
    <2> QED BY <1>3, <2>1 DEF VnodeSet
  <1> HIDE DEF x
  <1>15. /\ r \in State /\ r.vnode = [t.vnode EXCEPT ![i] = x] /\ r.inode = t.inode
         /\ Tables(t, r) /\ r.panic = t.panic
    BY <1>5, <1>14, SetVnode DEF Tables
  <1> HIDE DEF r
  <1>6. s.inode \in [Inos -> Inodes] /\ s.vnode \in [Inos -> VnodeSet]
    BY DEF State
  <1>7. r.inode[i] = y /\ r.vnode[i] = x
    BY <1>4, <1>5, <1>6, <1>15
  <1>8. \A j \in Inos : j # i => r.inode[j] = s.inode[j] /\ r.vnode[j] = s.vnode[j]
    BY <1>4, <1>5, <1>6, <1>15
  <1>9. Tables(s, r)
    BY <1>4, <1>5, <1>15 DEF Tables
  <1>10. SameNames(s, r)
    BY <1>2, <1>7, <1>8 DEF SameNames
  <1>11. ASSUME NEW j \in Inos PROVE Rc(r, j) = Rc(s, j) + If(j = i)
    <2>1. Rc(s, j) \in Nat
      BY RcType
    <2>2. CASE j = i
      <3>1. Rc(s, j) = 0 /\ Rc(r, j) = 1 /\ If(j = i) = 1
        BY <2>1, <2>2, <1>14, <1>7 DEF Rc, If
      <3> QED BY <3>1
    <2>3. CASE j # i
      BY <2>1, <2>3, <1>8 DEF Rc, If
    <2> QED BY <2>2, <2>3
  <1>12. r.inode[i].rf_linkcount = s.inode[i].rf_linkcount + 1 /\ r.vnode[i].vn_len = r.inode[i].rf_size
    BY <1>2, <1>14, <1>7
  <1> QED BY <1>4, <1>5, <1>8, <1>9, <1>10, <1>11, <1>12, <1>13, <1>15
LEMMA VputMany ==
    ASSUME NEW s \in State, NEW i \in Inos, Rc(s, i) > 1
    PROVE  LET r == vput(s, i)
           IN  /\ r \in State /\ Tables(s, r) /\ r.panic = s.panic /\ r.inode = s.inode
               /\ \A j \in Inos : /\ r.vnode[j].vn_len = s.vnode[j].vn_len
                                  /\ Rc(s, j) = Rc(r, j) + If(j = i)
               /\ Rc(r, i) > 0
  <1> DEFINE x == [s.vnode[i] EXCEPT !.vn_refcount = @ - 1]
             r == [s EXCEPT !.vnode[i] = x]
  <1>0. Rc(s, i) \in Nat
    BY RcType
  <1>1. vput(s, i) = r
    <2>1. Rc(s, i) # 0
      BY <1>0
    <2> QED BY <2>1 DEF vput, Rc, State
  <1>2. x \in VnodeSet /\ x.vn_refcount = Rc(s, i) - 1 /\ x.vn_len = s.vnode[i].vn_len
    BY <1>0 DEF State, VnodeSet, Rc
  <1> HIDE DEF x
  <1>3. /\ r \in State /\ r.vnode = [s.vnode EXCEPT ![i] = x] /\ r.inode = s.inode
        /\ Tables(s, r) /\ r.panic = s.panic
    BY <1>2, SetVnode DEF Tables
  <1> HIDE DEF r
  <1>4. ASSUME NEW j \in Inos
        PROVE  r.vnode[j].vn_len = s.vnode[j].vn_len /\ Rc(s, j) = Rc(r, j) + If(j = i)
    <2>1. Rc(s, j) \in Nat /\ s.vnode \in [Inos -> VnodeSet]
      BY RcType DEF State
    <2>2. CASE j = i
      BY <2>1, <2>2, <1>2, <1>3 DEF Rc, If
    <2>3. CASE j # i
      BY <2>1, <2>3, <1>3 DEF Rc, If
    <2> QED BY <2>2, <2>3
  <1>5. Rc(r, i) > 0
    BY <1>0, <1>2, <1>3 DEF Rc, State
  <1> QED BY <1>1, <1>3, <1>4, <1>5

LEMMA VputNone ==
    ASSUME NEW s \in State, NEW i \in Inos, Rc(s, i) = 0
    PROVE  LET r == vput(s, i)
           IN  r \in State /\ Tables(s, r) /\ r.panic # "no"
  <1> DEFINE q == Panic(s, "vput")
  <1>1. vput(s, i) = q
    BY DEF vput, Rc
  <1>2. "vput" \in Reasons
    BY DEF Reasons
  <1>3. /\ q \in State /\ q.panic = "vput"
        /\ q.file = s.file /\ q.p_files = s.p_files /\ q.p_cwd = s.p_cwd /\ q.lost = s.lost
    BY <1>2, SetPanic
  <1> QED BY <1>1, <1>3 DEF Tables

(* The last reference goes: the inode loses the link of its vnode, and is  *)
(* freed when that was its last one.                                       *)
LEMMA VputLast ==
    ASSUME NEW s \in State, NEW i \in Inos, Rc(s, i) = 1
    PROVE  LET r == vput(s, i)
           IN  /\ r \in State /\ Tables(s, r) /\ r.panic = s.panic
               /\ \A j \in Inos : Rc(s, j) = Rc(r, j) + If(j = i)
               /\ \A j \in Inos : j # i => r.inode[j] = s.inode[j] /\ r.vnode[j] = s.vnode[j]
               /\ IF s.inode[i].rf_linkcount = 1 THEN r.inode[i] = NoInode
                  ELSE /\ r.inode[i].rf_linkcount = s.inode[i].rf_linkcount - 1
                       /\ r.inode[i].rf_mode = s.inode[i].rf_mode
                       /\ r.inode[i].rf_mem = s.inode[i].rf_mem
                       /\ r.inode[i].rf_size = s.inode[i].rf_size
  <1> DEFINE q == [s EXCEPT !.vnode[i] = NotCached]
             y == IF s.inode[i].rf_linkcount = 1 THEN NoInode
                  ELSE [s.inode[i] EXCEPT !.rf_linkcount = @ - 1]
             r == [q EXCEPT !.inode[i] = y]
  <1>1. /\ q \in State /\ q.vnode = [s.vnode EXCEPT ![i] = NotCached] /\ q.inode = s.inode
        /\ Tables(s, q) /\ q.panic = s.panic
    BY SetVnode, Basics DEF Tables
  <1>2. vput(s, i) = ramfs_delete_vnode(q, i)
    BY DEF vput, Rc
  <1> HIDE DEF q
  <1>3. vput(s, i) = r
    BY <1>1, <1>2 DEF ramfs_delete_vnode, State
  <1>4. y \in Inodes /\ s.inode[i] \in Inodes
    <2>1. s.inode[i] \in Inodes
      BY DEF State
    <2>2. s.inode[i].rf_linkcount # 1 => y \in Inodes
      BY <2>1 DEF Inodes
    <2> QED BY <2>1, <2>2, Basics
  <1>5. IF s.inode[i].rf_linkcount = 1 THEN y = NoInode
        ELSE /\ y.rf_linkcount = s.inode[i].rf_linkcount - 1 /\ y.rf_mode = s.inode[i].rf_mode
             /\ y.rf_mem = s.inode[i].rf_mem /\ y.rf_size = s.inode[i].rf_size
    BY <1>4 DEF Inodes
  <1> HIDE DEF y
  <1>6. /\ r \in State /\ r.inode = [q.inode EXCEPT ![i] = y] /\ r.vnode = q.vnode
        /\ Tables(q, r) /\ r.panic = q.panic
    BY <1>1, <1>4, SetInode DEF Tables
  <1> HIDE DEF r
  <1>7. s.inode \in [Inos -> Inodes] /\ s.vnode \in [Inos -> VnodeSet]
    BY DEF State
  <1>8. r.inode[i] = y /\ r.vnode[i] = NotCached
    BY <1>1, <1>6, <1>7
  <1>9. \A j \in Inos : j # i => r.inode[j] = s.inode[j] /\ r.vnode[j] = s.vnode[j]
    BY <1>1, <1>6, <1>7
  <1>10. Tables(s, r)
    BY <1>1, <1>6 DEF Tables
  <1>11. ASSUME NEW j \in Inos PROVE Rc(s, j) = Rc(r, j) + If(j = i)
    <2>1. Rc(s, j) \in Nat
      BY RcType
    <2>2. CASE j = i
      <3>1. Rc(s, j) = 1 /\ Rc(r, j) = 0 /\ If(j = i) = 1
        BY <2>1, <2>2, <1>8 DEF Rc, If, NotCached
      <3> QED BY <3>1
    <2>3. CASE j # i
      BY <2>1, <2>3, <1>9 DEF Rc, If
    <2> QED BY <2>2, <2>3
  <1>12. IF s.inode[i].rf_linkcount = 1 THEN r.inode[i] = NoInode
         ELSE /\ r.inode[i].rf_linkcount = s.inode[i].rf_linkcount - 1
              /\ r.inode[i].rf_mode = s.inode[i].rf_mode
              /\ r.inode[i].rf_mem = s.inode[i].rf_mem
              /\ r.inode[i].rf_size = s.inode[i].rf_size
    BY <1>4, <1>5, <1>8
  <1> QED BY <1>1, <1>3, <1>6, <1>9, <1>10, <1>11, <1>12
LEMMA LinksSame ==
    ASSUME NEW s \in State, NEW r \in State, NEW j \in Inos, Names(r, j) \subseteq Names(s, j),
           s.inode[j].rf_linkcount >= LinksOf(s, j),
           r.inode[j].rf_linkcount + If(Cached(s, j)) >= s.inode[j].rf_linkcount + If(Cached(r, j))
    PROVE  r.inode[j].rf_linkcount >= LinksOf(r, j)
  <1>1. Cardinality(Names(r, j)) <= Cardinality(Names(s, j))
    BY NamesFewer
  <1>2. /\ Cardinality(Names(s, j)) \in Nat /\ If(Cached(s, j)) \in {0, 1} /\ If(j = Root) \in {0, 1}
        /\ Cardinality(Names(r, j)) \in Nat /\ If(Cached(r, j)) \in {0, 1}
        /\ s.inode[j].rf_linkcount \in Int /\ r.inode[j].rf_linkcount \in Int
    BY LinksType
  <1> QED BY <1>1, <1>2 DEF LinksOf

LEMMA VgetUp ==
    ASSUME NEW s \in State, NEW i \in Inos
    PROVE  Up(s, vget(s, i), i) /\ SameNames(s, vget(s, i))
  <1> DEFINE r == vget(s, i)
  <1>1. CASE Rc(s, i) > 0
    <2>1. /\ r \in State /\ Tables(s, r) /\ r.panic = s.panic /\ r.inode = s.inode
          /\ \A j \in Inos : /\ r.vnode[j].vn_len = s.vnode[j].vn_len
                             /\ Rc(r, j) = Rc(s, j) + If(j = i)
      BY <1>1, VgetCached
    <2> HIDE DEF r
    <2>2. SameNames(s, r)
      BY <2>1 DEF SameNames
    <2>3. ASSUME NEW j \in Inos PROVE Rc(r, j) > 0 <=> Rc(s, j) > 0
      <3>1. Rc(s, j) \in Nat /\ If(j = i) \in {0, 1} /\ (If(j = i) = 1 => j = i)
        BY RcType DEF If
      <3>2. Rc(r, j) = Rc(s, j) + If(j = i)
        BY <2>1
      <3> QED BY <1>1, <3>1, <3>2
    <2>4. ASSUME Good(s) PROVE Good(r)
      <3>1. FreeEmpty(r) /\ InUse(r) /\ LengthsMatch(r)
        BY <2>1, <2>3, <2>4 DEF Good, FreeEmpty, InUse, LengthsMatch
      <3>2. ASSUME NEW j \in Inos PROVE LinksOf(r, j) = LinksOf(s, j)
        <4>1. Cached(r, j) <=> Cached(s, j)
          BY <2>3 DEF Cached, Rc
        <4> QED BY <2>2, <4>1, NamesSame DEF LinksOf, If
      <3>3. NoDotPaths => LinksEnough(r)
        BY <2>1, <2>4, <3>2 DEF Good, LinksEnough
      <3> QED BY <3>1, <3>3 DEF Good
    <2> QED BY <2>1, <2>2, <2>4 DEF Up, Follows, r
  <1>2. CASE ~(Rc(s, i) > 0) /\ s.inode[i].rf_mode = "FREE"
    <2>1. r \in State /\ Tables(s, r) /\ r.panic # "no" /\ r.inode = s.inode
      BY <1>2, VgetFree
    <2> QED BY <2>1 DEF Up, Follows, SameNames
  <1>3. CASE ~(Rc(s, i) > 0) /\ s.inode[i].rf_mode # "FREE"
    <2>1. /\ r \in State /\ Tables(s, r) /\ r.panic = s.panic /\ SameNames(s, r)
          /\ \A j \in Inos : Rc(r, j) = Rc(s, j) + If(j = i)
          /\ \A j \in Inos : j # i => r.inode[j] = s.inode[j] /\ r.vnode[j] = s.vnode[j]
          /\ r.inode[i].rf_linkcount = s.inode[i].rf_linkcount + 1
          /\ r.vnode[i].vn_len = r.inode[i].rf_size
      BY <1>3, VgetReads
    <2> HIDE DEF r
    <2>2. ASSUME Good(s) PROVE FreeEmpty(r) /\ InUse(r) /\ LengthsMatch(r)
      <3>1. ASSUME NEW j \in Inos, j # i PROVE Rc(r, j) = Rc(s, j)
        BY <2>1, <3>1 DEF Rc
      <3>2. r.inode[i].rf_mode # "FREE"
        BY <1>3, <2>1 DEF SameNames
      <3> QED BY <2>1, <2>2, <3>1, <3>2 DEF Good, FreeEmpty, InUse, LengthsMatch
    <2>3. ASSUME LinksEnough(s), NEW j \in Inos PROVE r.inode[j].rf_linkcount >= LinksOf(r, j)
      <3>1. /\ s.inode[j].rf_linkcount >= LinksOf(s, j) /\ Names(r, j) \subseteq Names(s, j)
            /\ s.inode[j].rf_linkcount \in Int
        BY <2>1, <2>3, NamesSame, LinksType DEF LinksEnough
      <3>2. r.inode[j].rf_linkcount + If(Cached(s, j)) >= s.inode[j].rf_linkcount + If(Cached(r, j))
        <4>1. CASE j = i
          <5>1. If(Cached(s, j)) = 0 /\ If(Cached(r, j)) \in {0, 1}
            BY <1>3, <4>1 DEF Cached, Rc, If
          <5> QED BY <2>1, <3>1, <4>1, <5>1
        <4>2. CASE j # i
          <5>1. Cached(s, j) <=> Cached(r, j)
            BY <2>1, <4>2 DEF Cached
          <5>2. If(Cached(s, j)) = If(Cached(r, j)) /\ If(Cached(s, j)) \in {0, 1}
            BY <5>1 DEF If
          <5> QED BY <2>1, <3>1, <4>2, <5>2
        <4> QED BY <4>1, <4>2
      <3> QED BY <2>1, <3>1, <3>2, LinksSame
    <2>4. Good(s) => Good(r)
      BY <2>2, <2>3 DEF Good, LinksEnough
    <2> QED BY <2>1, <2>4 DEF Up, Follows, r
  <1> QED BY <1>1, <1>2, <1>3

LEMMA VputDown ==
    ASSUME NEW s \in State, NEW i \in Inos
    PROVE  Down(s, vput(s, i), i)
  <1> DEFINE r == vput(s, i)
  <1>0. Rc(s, i) \in Nat
    BY RcType
  <1>1. CASE Rc(s, i) > 1
    <2>1. /\ r \in State /\ Tables(s, r) /\ r.panic = s.panic /\ r.inode = s.inode
          /\ \A j \in Inos : /\ r.vnode[j].vn_len = s.vnode[j].vn_len
                             /\ Rc(s, j) = Rc(r, j) + If(j = i)
          /\ Rc(r, i) > 0
      BY <1>1, VputMany
    <2> HIDE DEF r
    <2>2. SameNames(s, r)
      BY <2>1 DEF SameNames
    <2>3. ASSUME NEW j \in Inos PROVE Rc(r, j) > 0 <=> Rc(s, j) > 0
      <3>1. Rc(r, j) \in Nat /\ If(j = i) \in {0, 1} /\ (If(j = i) = 1 => j = i)
        BY <2>1, RcType DEF If
      <3>2. Rc(s, j) = Rc(r, j) + If(j = i)
        BY <2>1
      <3> QED BY <2>1, <3>1, <3>2
    <2>4. ASSUME Good(s) PROVE Good(r)
      <3>1. FreeEmpty(r) /\ InUse(r) /\ LengthsMatch(r)
        BY <2>1, <2>3, <2>4 DEF Good, FreeEmpty, InUse, LengthsMatch
      <3>2. ASSUME NEW j \in Inos PROVE LinksOf(r, j) = LinksOf(s, j)
        <4>1. Cached(r, j) <=> Cached(s, j)
          BY <2>3 DEF Cached, Rc
        <4> QED BY <2>2, <4>1, NamesSame DEF LinksOf, If
      <3>3. NoDotPaths => LinksEnough(r)
        BY <2>1, <2>4, <3>2 DEF Good, LinksEnough
      <3> QED BY <3>1, <3>3 DEF Good
    <2> QED BY <2>1, <2>4 DEF Down, Follows, r
  <1>2. CASE Rc(s, i) = 0
    <2>1. r \in State /\ Tables(s, r) /\ r.panic # "no"
      BY <1>2, VputNone
    <2> QED BY <2>1 DEF Down, Follows
  <1>3. CASE Rc(s, i) = 1
    <2>1. /\ r \in State /\ Tables(s, r) /\ r.panic = s.panic
          /\ \A j \in Inos : Rc(s, j) = Rc(r, j) + If(j = i)
          /\ \A j \in Inos : j # i => r.inode[j] = s.inode[j] /\ r.vnode[j] = s.vnode[j]
          /\ IF s.inode[i].rf_linkcount = 1 THEN r.inode[i] = NoInode
             ELSE /\ r.inode[i].rf_linkcount = s.inode[i].rf_linkcount - 1
                  /\ r.inode[i].rf_mode = s.inode[i].rf_mode
                  /\ r.inode[i].rf_mem = s.inode[i].rf_mem
                  /\ r.inode[i].rf_size = s.inode[i].rf_size
      BY <1>3, VputLast
    <2> HIDE DEF r
    <2>2. Rc(r, i) = 0
      <3>1. Rc(s, i) = Rc(r, i) + If(i = i) /\ If(i = i) = 1 /\ Rc(r, i) \in Nat
        BY <2>1, RcType DEF If
      <3> QED BY <1>3, <3>1
    <2>3. ASSUME Good(s) PROVE FreeEmpty(r) /\ InUse(r) /\ LengthsMatch(r)
      <3>1. ASSUME NEW j \in Inos, j # i PROVE Rc(r, j) = Rc(s, j)
        BY <2>1, <3>1 DEF Rc
      <3>2. s.inode[i].rf_mode # "FREE"
        BY <1>3, <2>3 DEF Good, InUse
      <3>3. r.inode[i].rf_mode = "FREE" => r.inode[i] = NoInode
        BY <2>1, <3>2
      <3>4. FreeEmpty(r)
        BY <2>1, <2>3, <3>3 DEF Good, FreeEmpty
      <3>5. InUse(r)
        BY <2>1, <2>2, <2>3, <3>1 DEF Good, InUse
      <3>6. LengthsMatch(r)
        BY <2>1, <2>2, <2>3, <3>1 DEF Good, LengthsMatch
      <3> QED BY <3>4, <3>5, <3>6
    <2>4. ASSUME NEW j \in Inos PROVE Names(r, j) \subseteq Names(s, j)
      <3>1. \A d \in Inos : IsDir(r, d) => IsDir(s, d) /\ r.inode[d].rf_mem = s.inode[d].rf_mem
        BY <2>1 DEF IsDir, NoInode
      <3> QED BY <3>1 DEF Names, IsName
    <2>5. ASSUME LinksEnough(s), NEW j \in Inos PROVE r.inode[j].rf_linkcount >= LinksOf(r, j)
      <3>1. /\ s.inode[j].rf_linkcount >= LinksOf(s, j) /\ Names(r, j) \subseteq Names(s, j)
            /\ s.inode[j].rf_linkcount \in Int
        BY <2>4, <2>5, LinksType DEF LinksEnough
      <3>2. r.inode[j].rf_linkcount + If(Cached(s, j)) >= s.inode[j].rf_linkcount + If(Cached(r, j))
        <4>1. CASE j = i
          <5>1. If(Cached(s, j)) = 1 /\ If(Cached(r, j)) = 0
            BY <1>3, <2>2, <4>1 DEF Cached, Rc, If
          <5>2. r.inode[j].rf_linkcount = s.inode[j].rf_linkcount - 1
            BY <2>1, <4>1 DEF NoInode
          <5> QED BY <3>1, <5>1, <5>2
        <4>2. CASE j # i
          <5>1. Cached(s, j) <=> Cached(r, j)
            BY <2>1, <4>2 DEF Cached
          <5>2. If(Cached(s, j)) = If(Cached(r, j)) /\ If(Cached(s, j)) \in {0, 1}
            BY <5>1 DEF If
          <5> QED BY <2>1, <3>1, <4>2, <5>2
        <4> QED BY <4>1, <4>2
      <3> QED BY <2>1, <3>1, <3>2, LinksSame
    <2>6. Good(s) => Good(r)
      BY <2>3, <2>5 DEF Good, LinksEnough
    <2> QED BY <2>1, <2>6 DEF Down, Follows, r
  <1> QED BY <1>0, <1>1, <1>2, <1>3
-----------------------------------------------------------------------------
(* Directory entries and paths                                             *)
LEMMA SlotIs ==
    ASSUME NEW s, NEW dir, NEW name, SlotsOf(s, dir, name) # {}
    PROVE  /\ SlotOf(s, dir, name) \in Slots
           /\ s.inode[dir].rf_mem[SlotOf(s, dir, name)].rd_name = name
  <1>1. SlotsOf(s, dir, name) \in SUBSET Nat
    BY Basics DEF SlotsOf
  <1>2. SlotOf(s, dir, name) \in SlotsOf(s, dir, name)
    BY <1>1, LeastOne DEF SlotOf
  <1> QED BY <1>2 DEF SlotsOf

LEMMA SlotSame ==
    ASSUME NEW s, NEW r, NEW dir \in Inos, NEW name, SameNames(s, r)
    PROVE  /\ SlotsOf(r, dir, name) = SlotsOf(s, dir, name) /\ SlotOf(r, dir, name) = SlotOf(s, dir, name)
           /\ IsDir(r, dir) <=> IsDir(s, dir)
           /\ r.inode[dir].rf_mem = s.inode[dir].rf_mem
  BY DEF SameNames, SlotsOf, SlotOf, IsDir

LEMMA EntryType ==
    ASSUME NEW s \in State, NEW dir \in Inos, NEW i \in Slots
    PROVE  s.inode[dir].rf_mem[i].rd_ino \in Inos /\ s.inode[dir] \in Inodes
  <1>1. s.inode[dir] \in Inodes
    BY DEF State
  <1>2. s.inode[dir].rf_mem[i] \in Entries
    BY <1>1 DEF Inodes
  <1> QED BY <1>1, <1>2 DEF Entries

LEMMA EvenSelf == ASSUME NEW s \in State PROVE Even(s, s)
  BY DEF Even, Follows, Tables

(* What a lookup l of a name gives.                                        *)
EntryOf(s, dir, name) == s.inode[dir].rf_mem[SlotOf(s, dir, name)].rd_ino

LookedUp(s, dir, name, l) ==
    /\ l.err = "0" => /\ Up(s, l.s, l.ino) /\ SameNames(s, l.s) /\ l.ino \in Inos
                      /\ IsDir(s, dir) /\ SlotsOf(s, dir, name) # {} /\ l.ino = EntryOf(s, dir, name)
    /\ l.err # "0" => l.s = s
    /\ l.err = "-ENOENT" => IsDir(s, dir)

LEMMA RamfsLookup ==
    ASSUME NEW s \in State, NEW dir \in Inos, NEW name, IsDir(s, dir)
    PROVE  LookedUp(s, dir, name, ramfs_lookup(s, dir, name))
  <1> DEFINE l == ramfs_lookup(s, dir, name)
             ino == EntryOf(s, dir, name)
  <1>1. CASE SlotsOf(s, dir, name) = {}
    <2>1. l.err = "-ENOENT" /\ l.s = s
      BY <1>1 DEF ramfs_lookup, Result
    <2> QED BY <2>1 DEF LookedUp
  <1>2. CASE SlotsOf(s, dir, name) # {}
    <2>1. l.err = "0" /\ l.s = vget(s, ino) /\ l.ino = ino
      BY <1>2 DEF ramfs_lookup, Found, With, EntryOf
    <2>2. ino \in Inos
      BY <1>2, SlotIs, EntryType DEF EntryOf
    <2> HIDE DEF l, ino
    <2>3. Up(s, l.s, l.ino) /\ SameNames(s, l.s)
      BY <2>1, <2>2, VgetUp
    <2>4. l.ino \in Inos /\ l.ino = EntryOf(s, dir, name)
      BY <2>1, <2>2 DEF ino
    <2>5. LookedUp(s, dir, name, l)
      BY <1>2, <2>1, <2>3, <2>4 DEF LookedUp
    <2> QED BY <2>5 DEF l
  <1> QED BY <1>1, <1>2

LEMMA LookupIs ==
    ASSUME NEW s \in State, NEW dir \in Inos, NEW name
    PROVE  LookedUp(s, dir, name, lookup(s, dir, name))
  <1>1. CASE IsDir(s, dir)
    BY <1>1, RamfsLookup DEF lookup
  <1>2. CASE ~IsDir(s, dir)
    BY <1>2 DEF lookup, Result, LookedUp
  <1> QED BY <1>1, <1>2

-----------------------------------------------------------------------------
(* The walk to the directory of a path's last name, and what it gives.     *)
Walked(s, w) == Even(s, w.s) /\ (w.err = "0" => w.ino \in Inos)

WalkStart(s, p, path) == Found(s, IF path.abs THEN Root ELSE s.p_cwd[p])

WalkStep(r, name) == Then(r, LAMBDA x : Then(lookup(x.s, x.ino, name), LAMBDA l :
                         Found(vput(l.s, l.ino), l.ino)))

LEMMA WalkNext ==
    ASSUME NEW s \in State, NEW r, NEW name, Walked(s, r)
    PROVE  Walked(s, WalkStep(r, name))
  <1>1. CASE r.err # "0"
    BY <1>1 DEF WalkStep, Then
  <1>2. CASE r.err = "0"
    <2> DEFINE l == lookup(r.s, r.ino, name)
    <2>1. r.ino \in Inos /\ Even(s, r.s) /\ r.s \in State
      BY <1>2 DEF Walked, Even, Follows
    <2>2. LookedUp(r.s, r.ino, name, l)
      BY <2>1, LookupIs
    <2>3. WalkStep(r, name) = IF l.err = "0" THEN Found(vput(l.s, l.ino), l.ino) ELSE l
      BY <1>2 DEF WalkStep, Then
    <2> HIDE DEF l
    <2>4. CASE l.err = "0"
      <3>1. Up(r.s, l.s, l.ino) /\ l.ino \in Inos /\ l.s \in State
        BY <2>2, <2>4 DEF LookedUp, Up, Follows
      <3>2. Even(r.s, vput(l.s, l.ino))
        BY <2>1, <3>1, VputDown, UpDown
      <3>3. Even(s, vput(l.s, l.ino))
        BY <2>1, <3>2, EvenFirst
      <3> QED BY <2>3, <2>4, <3>1, <3>3 DEF Walked, Found
    <2>5. CASE l.err # "0"
      <3>1. l.s = r.s
        BY <2>2, <2>5 DEF LookedUp
      <3> QED BY <2>1, <2>3, <2>5, <3>1 DEF Walked
    <2> QED BY <2>4, <2>5
  <1> QED BY <1>1, <1>2

WalkSteps(f, s, p, path, N) ==
    /\ f = [n \in 0 .. N |-> f[n]] /\ f[0] = WalkStart(s, p, path)
    /\ \A n \in 1 .. N : f[n] = WalkStep(f[n - 1], path.names[n])

LEMMA WalkExists ==
    ASSUME NEW s, NEW p, NEW path, NEW N \in Nat
    PROVE  \E f : WalkSteps(f, s, p, path, N)
  <1> DEFINE T == {k \in 0 .. N : ~ \E f : WalkSteps(f, s, p, path, k)}
  <1> SUFFICES ASSUME T # {} PROVE FALSE
    OBVIOUS
  <1>1. PICK m \in T : \A k \in T : m <= k
    <2>1. T \in SUBSET Nat
      OBVIOUS
    <2> HIDE DEF T
    <2> QED BY <2>1, LeastOne
  <1>2. m \in 0 .. N /\ ~ \E f : WalkSteps(f, s, p, path, m)
    OBVIOUS
  <1>3. CASE m = 0
    <2> DEFINE g == [j \in 0 .. 0 |-> WalkStart(s, p, path)]
    <2>1. WalkSteps(g, s, p, path, 0)
      BY DEF WalkSteps
    <2> QED BY <1>2, <1>3, <2>1
  <1>4. CASE m > 0
    <2>1. m - 1 \in 0 .. N /\ m - 1 \notin T
      BY <1>1, <1>2, <1>4
    <2>2. PICK f : WalkSteps(f, s, p, path, m - 1)
      BY <2>1
    <2> DEFINE v == WalkStep(f[m - 1], path.names[m])
               g == [j \in 0 .. m |-> IF j = m THEN v ELSE f[j]]
    <2> HIDE DEF v
    <2>3. g = [j \in 0 .. m |-> g[j]] /\ g[0] = WalkStart(s, p, path)
      BY <1>2, <1>4, <2>2 DEF WalkSteps
    <2>4. ASSUME NEW k \in 1 .. m PROVE g[k] = WalkStep(g[k - 1], path.names[k])
      <3>1. g[k - 1] = f[k - 1] /\ k \in 0 .. m
        BY <1>2
      <3>2. CASE k = m
        BY <3>1, <3>2 DEF v
      <3>3. CASE k # m
        <4>1. k \in 1 .. m - 1
          BY <1>2, <3>3
        <4>2. f[k] = WalkStep(f[k - 1], path.names[k])
          BY <2>2, <4>1 DEF WalkSteps
        <4> QED BY <3>1, <3>3, <4>2
      <3> QED BY <3>2, <3>3
    <2> HIDE DEF g
    <2>5. WalkSteps(g, s, p, path, m)
      BY <2>3, <2>4 DEF WalkSteps
    <2> QED BY <1>2, <2>5
  <1> QED BY <1>2, <1>3, <1>4

LEMMA WalkIsLoop ==
    ASSUME NEW s, NEW p, NEW path, Len(path.names) \in Nat \ {0}
    PROVE  \E f : /\ WalkSteps(f, s, p, path, Len(path.names))
                  /\ Walk(s, p, path) = f[Len(path.names) - 1]
  <1> DEFINE N == Len(path.names)
             Eq(f) == f = [n \in 0 .. N |-> IF n = 0 THEN WalkStart(s, p, path)
                                            ELSE WalkStep(f[n - 1], path.names[n])]
             b == CHOOSE f : Eq(f)
  <1>1. PICK f : WalkSteps(f, s, p, path, N)
    BY WalkExists
  <1>2. Eq(f)
    <2>1. \A k \in 0 .. N : f[k] = IF k = 0 THEN WalkStart(s, p, path)
                                   ELSE WalkStep(f[k - 1], path.names[k])
      <3> HIDE DEF N
      <3>1. f[0] = WalkStart(s, p, path) /\ \A k \in 1 .. N : f[k] = WalkStep(f[k - 1], path.names[k])
        BY <1>1 DEF WalkSteps
      <3>2. \A k \in 0 .. N : k # 0 => k \in 1 .. N
        OBVIOUS
      <3> QED BY <3>1, <3>2, Zenon
    <2> QED BY <1>1, <2>1 DEF WalkSteps
  <1>3. Eq(b)
    BY <1>2
  <1>4. Walk(s, p, path) = b[N - 1]
    BY DEF Walk, WalkStart, WalkStep
  <1> HIDE DEF b
  <1>5. WalkSteps(b, s, p, path, N)
    <2>1. \A k \in 0 .. N : b[k] = IF k = 0 THEN WalkStart(s, p, path)
                                   ELSE WalkStep(b[k - 1], path.names[k])
      BY <1>3
    <2>2. b = [k \in 0 .. N |-> b[k]]
      BY <1>3
    <2>3. b[0] = WalkStart(s, p, path)
      BY <2>1
    <2>4. \A k \in 1 .. N : b[k] = WalkStep(b[k - 1], path.names[k])
      BY <2>1
    <2> QED BY <2>2, <2>3, <2>4 DEF WalkSteps
  <1> QED BY <1>4, <1>5
LEMMA WalkIs ==
    ASSUME NEW s \in State, NEW p \in Procs, NEW path, Len(path.names) \in Nat \ {0},
           s.p_cwd[p] \in Inos
    PROVE  Walked(s, Walk(s, p, path))
  <1> DEFINE N == Len(path.names)
  <1>1. PICK f : WalkSteps(f, s, p, path, N) /\ Walk(s, p, path) = f[N - 1]
    BY WalkIsLoop
  <1>2. Walked(s, f[0])
    <2>1. f[0] = WalkStart(s, p, path)
      BY <1>1 DEF WalkSteps
    <2>2. (IF path.abs THEN Root ELSE s.p_cwd[p]) \in Inos
      BY Basics
    <2> QED BY <2>1, <2>2, EvenSelf DEF Walked, WalkStart, Found
  <1> DEFINE T == {k \in 0 .. N : ~Walked(s, f[k])}
  <1>3. ASSUME T # {} PROVE FALSE
    <2>1. PICK m \in T : \A k \in T : m <= k
      <3>1. T \in SUBSET Nat
        OBVIOUS
      <3> HIDE DEF T
      <3> QED BY <1>3, <3>1, LeastOne
    <2>2. m \in 1 .. N /\ m - 1 \in 0 .. N /\ m - 1 \notin T /\ ~Walked(s, f[m])
      BY <1>2, <2>1
    <2>3. Walked(s, f[m - 1])
      BY <2>2
    <2>4. f[m] = WalkStep(f[m - 1], path.names[m])
      BY <1>1, <2>2 DEF WalkSteps
    <2> QED BY <2>2, <2>3, <2>4, WalkNext
  <1>4. N - 1 \in 0 .. N
    OBVIOUS
  <1> QED BY <1>1, <1>3, <1>4

(* A call that looks up an inode and keeps it: what its result o gives.    *)
Gets(s, o) ==
    /\ o.s \in State
    /\ o.err = "0" => Up(s, o.s, o.ino) /\ o.ino \in Inos
    /\ o.err # "0" => Even(s, o.s)

LEMMA PathNames ==
    ASSUME NEW path \in Paths
    PROVE  /\ path.names # <<>> => Len(path.names) \in Nat \ {0}
           /\ path.names # <<>> => Last1(path) \in STRING \ {NoName}
  <1>1. path.names \in Seq(STRING \ {NoName})
    BY VFSAssumption
  <1>2. path.names # <<>> => Len(path.names) \in Nat \ {0}
    BY <1>1, EmptySeq, LenProperties
  <1>3. path.names # <<>> => Len(path.names) \in 1 .. Len(path.names)
    BY <1>2
  <1>4. path.names # <<>> => Last1(path) \in STRING \ {NoName}
    BY <1>1, <1>3, ElementOfSeq DEF Last1
  <1> QED BY <1>2, <1>4

LEMMA DirNamev ==
    ASSUME NEW s \in State, NEW p \in Procs, NEW path \in Paths, s.p_cwd[p] \in Inos
    PROVE  /\ Gets(s, dir_namev(s, p, path))
           /\ dir_namev(s, p, path).err = "0" => path.names # <<>>
  <1> DEFINE d == dir_namev(s, p, path)
             w == Walk(s, p, path)
  <1>1. CASE path.names = <<>>
    <2>1. d.s = s /\ d.err = "-EINVAL"
      BY <1>1 DEF dir_namev, Result
    <2> QED BY <2>1, EvenSelf DEF Gets
  <1>2. CASE path.names # <<>>
    <2>1. Walked(s, w)
      BY <1>2, PathNames, WalkIs
    <2>2. d = IF w.err = "0" THEN Found(vget(w.s, w.ino), w.ino) ELSE w
      BY <1>2 DEF dir_namev, Then
    <2> HIDE DEF w
    <2>3. w.s \in State
      BY <2>1 DEF Walked, Even, Follows
    <2>4. CASE w.err = "0"
      <3>1. Up(w.s, vget(w.s, w.ino), w.ino) /\ w.ino \in Inos
        BY <2>1, <2>3, <2>4, VgetUp DEF Walked
      <3>2. Up(s, vget(w.s, w.ino), w.ino)
        BY <2>1, <3>1, EvenFirst DEF Walked
      <3>3. vget(w.s, w.ino) \in State
        BY <3>1 DEF Up, Follows
      <3>4. d.s = vget(w.s, w.ino) /\ d.ino = w.ino /\ d.err = "0"
        BY <2>2, <2>4 DEF Found
      <3> QED BY <1>2, <3>1, <3>2, <3>3, <3>4 DEF Gets
    <2>5. CASE w.err # "0"
      BY <1>2, <2>1, <2>2, <2>3, <2>5 DEF Gets, Walked
    <2> QED BY <2>4, <2>5
  <1> QED BY <1>1, <1>2
-----------------------------------------------------------------------------
(* Changes of directories                                                  *)
NameSet == STRING \union {NoName, ".", ".."}

(* In r, the entry k of dir is e, and the inode ino has n links more.      *)
Changed(s, r, dir, k, e, ino, n) ==
    /\ r \in State /\ Tables(s, r) /\ r.panic = s.panic /\ r.vnode = s.vnode
    /\ \A j \in Inos :
           /\ r.inode[j].rf_mode = s.inode[j].rf_mode
           /\ r.inode[j].rf_linkcount = s.inode[j].rf_linkcount + (IF j = ino THEN n ELSE 0)
           /\ j # dir => r.inode[j].rf_mem = s.inode[j].rf_mem /\ r.inode[j].rf_size = s.inode[j].rf_size
           /\ j # dir /\ j # ino => r.inode[j] = s.inode[j]
    /\ r.inode[dir].rf_mem = [s.inode[dir].rf_mem EXCEPT ![k] = e]

LEMMA PutEntry ==
    ASSUME NEW s \in State, NEW dir \in Inos, NEW k \in Slots, NEW e \in Entries, NEW z \in Int,
           NEW ino \in Inos
    PROVE  LET r == [s EXCEPT !.inode[dir].rf_mem[k] = e, !.inode[dir].rf_size = z]
           IN  Changed(s, r, dir, k, e, ino, 0)
  <1> DEFINE y == [s.inode[dir] EXCEPT !.rf_mem[k] = e, !.rf_size = z]
             r == [s EXCEPT !.inode[dir] = y]
  <1>1. s.inode[dir] \in Inodes
    BY DEF State
  <1>2. /\ y \in Inodes /\ y.rf_mode = s.inode[dir].rf_mode
        /\ y.rf_linkcount = s.inode[dir].rf_linkcount
        /\ y.rf_mem = [s.inode[dir].rf_mem EXCEPT ![k] = e]
    BY <1>1 DEF Inodes
  <1>3. r = [s EXCEPT !.inode[dir].rf_mem[k] = e, !.inode[dir].rf_size = z]
    BY <1>1 DEF State
  <1> HIDE DEF y
  <1>4. /\ r \in State /\ Tables(s, r) /\ r.panic = s.panic /\ r.vnode = s.vnode
        /\ r.inode = [s.inode EXCEPT ![dir] = y]
    BY <1>2, SetInode DEF Tables
  <1>5. s.inode \in [Inos -> Inodes]
    BY DEF State
  <1> HIDE DEF r
  <1>6. r.inode[dir] = y /\ \A j \in Inos : j # dir => r.inode[j] = s.inode[j]
    BY <1>4, <1>5
  <1>7. ASSUME NEW j \in Inos
        PROVE  /\ r.inode[j].rf_mode = s.inode[j].rf_mode
               /\ r.inode[j].rf_linkcount = s.inode[j].rf_linkcount + (IF j = ino THEN 0 ELSE 0)
               /\ j # dir => r.inode[j].rf_mem = s.inode[j].rf_mem /\ r.inode[j].rf_size = s.inode[j].rf_size
               /\ j # dir /\ j # ino => r.inode[j] = s.inode[j]
    <2>1. s.inode[j].rf_linkcount \in Int
      BY <1>5 DEF Inodes
    <2> QED BY <1>2, <1>6, <2>1
  <1>8. Changed(s, r, dir, k, e, ino, 0)
    BY <1>2, <1>4, <1>6, <1>7 DEF Changed
  <1> QED BY <1>3, <1>8

(* n links more to an inode.                                               *)
LEMMA PutLinks ==
    ASSUME NEW s \in State, NEW ino \in Inos, NEW n \in Int
    PROVE  LET r == [s EXCEPT !.inode[ino].rf_linkcount = s.inode[ino].rf_linkcount + n]
           IN  /\ r \in State /\ Tables(s, r) /\ r.panic = s.panic /\ r.vnode = s.vnode
               /\ \A j \in Inos :
                      /\ r.inode[j].rf_mode = s.inode[j].rf_mode
                      /\ r.inode[j].rf_linkcount = s.inode[j].rf_linkcount + (IF j = ino THEN n ELSE 0)
                      /\ r.inode[j].rf_mem = s.inode[j].rf_mem /\ r.inode[j].rf_size = s.inode[j].rf_size
                      /\ j # ino => r.inode[j] = s.inode[j]
  <1> DEFINE y == [s.inode[ino] EXCEPT !.rf_linkcount = s.inode[ino].rf_linkcount + n]
             r == [s EXCEPT !.inode[ino] = y]
  <1>1. s.inode[ino] \in Inodes
    BY DEF State
  <1>2. /\ y \in Inodes /\ y.rf_mode = s.inode[ino].rf_mode /\ y.rf_size = s.inode[ino].rf_size
        /\ y.rf_linkcount = s.inode[ino].rf_linkcount + n
        /\ y.rf_mem = s.inode[ino].rf_mem
    BY <1>1 DEF Inodes
  <1>3. r = [s EXCEPT !.inode[ino].rf_linkcount = s.inode[ino].rf_linkcount + n]
    BY <1>1 DEF State
  <1> HIDE DEF y
  <1>4. /\ r \in State /\ Tables(s, r) /\ r.panic = s.panic /\ r.vnode = s.vnode
        /\ r.inode = [s.inode EXCEPT ![ino] = y]
    BY <1>2, SetInode DEF Tables
  <1>5. s.inode \in [Inos -> Inodes]
    BY DEF State
  <1> HIDE DEF r
  <1>6. r.inode[ino] = y /\ \A j \in Inos : j # ino => r.inode[j] = s.inode[j]
    BY <1>4, <1>5
  <1>7. ASSUME NEW j \in Inos
        PROVE  /\ r.inode[j].rf_mode = s.inode[j].rf_mode
               /\ r.inode[j].rf_linkcount = s.inode[j].rf_linkcount + (IF j = ino THEN n ELSE 0)
               /\ r.inode[j].rf_mem = s.inode[j].rf_mem /\ r.inode[j].rf_size = s.inode[j].rf_size
               /\ j # ino => r.inode[j] = s.inode[j]
    <2>1. s.inode[j].rf_linkcount \in Int
      BY <1>5 DEF Inodes
    <2> QED BY <1>2, <1>6, <2>1
  <1> QED BY <1>3, <1>4, <1>7

LEMMA ChangedAgain ==
    ASSUME NEW s \in State, NEW t, NEW dir \in Inos, NEW k, NEW e, NEW ino \in Inos, NEW n \in Int,
           Changed(s, t, dir, k, e, ino, 0)
    PROVE  Changed(s, [t EXCEPT !.inode[ino].rf_linkcount = t.inode[ino].rf_linkcount + n],
                   dir, k, e, ino, n)
  <1> DEFINE r == [t EXCEPT !.inode[ino].rf_linkcount = t.inode[ino].rf_linkcount + n]
  <1>1. t \in State /\ Tables(s, t) /\ t.panic = s.panic /\ t.vnode = s.vnode
    BY DEF Changed
  <1>2. /\ r \in State /\ Tables(t, r) /\ r.panic = t.panic /\ r.vnode = t.vnode
        /\ \A j \in Inos :
               /\ r.inode[j].rf_mode = t.inode[j].rf_mode
               /\ r.inode[j].rf_linkcount = t.inode[j].rf_linkcount + (IF j = ino THEN n ELSE 0)
               /\ r.inode[j].rf_mem = t.inode[j].rf_mem /\ r.inode[j].rf_size = t.inode[j].rf_size
               /\ j # ino => r.inode[j] = t.inode[j]
    BY <1>1, PutLinks
  <1> HIDE DEF r
  <1>3. ASSUME NEW j \in Inos
        PROVE  r.inode[j].rf_linkcount = s.inode[j].rf_linkcount + (IF j = ino THEN n ELSE 0)
    <2>1. t.inode[j].rf_linkcount = s.inode[j].rf_linkcount + (IF j = ino THEN 0 ELSE 0)
      BY DEF Changed
    <2>2. s.inode[j].rf_linkcount \in Int
      BY DEF State, Inodes
    <2> QED BY <1>2, <2>1, <2>2
  <1>4. Tables(s, r)
    BY <1>1, <1>2 DEF Tables
  <1>5. Changed(s, r, dir, k, e, ino, n)
    BY <1>1, <1>2, <1>3, <1>4 DEF Changed
  <1> QED BY <1>5 DEF r
LEMMA EntryIn == ASSUME NEW name \in NameSet, NEW ino \in Inos PROVE Entry(name, ino) \in Entries
  BY DEF Entry, Entries, NameSet

LEMMA SetEntryIs ==
    ASSUME NEW s \in State, NEW dir \in Inos, NEW name \in NameSet, NEW ino \in Inos, HasRoom(s, dir)
    PROVE  /\ Changed(s, SetEntry(s, dir, name, ino), dir, SlotOf(s, dir, NoName), Entry(name, ino), ino, 0)
           /\ SlotOf(s, dir, NoName) \in Slots
           /\ s.inode[dir].rf_mem[SlotOf(s, dir, NoName)].rd_name = NoName
  <1> DEFINE k == SlotOf(s, dir, NoName)
             e == Entry(name, ino)
             z == s.inode[dir].rf_size + 1
  <1>1. k \in Slots /\ s.inode[dir].rf_mem[k].rd_name = NoName
    BY SlotIs DEF HasRoom
  <1>2. e \in Entries
    BY EntryIn
  <1>3. s.inode[dir] \in Inodes
    BY DEF State
  <1>4. z \in Int
    BY <1>3 DEF Inodes
  <1>5. SetEntry(s, dir, name, ino) = [s EXCEPT !.inode[dir].rf_mem[k] = e, !.inode[dir].rf_size = z]
    <2> HIDE DEF k, e
    <2>1. SetEntry(s, dir, name, ino) = [s EXCEPT !.inode[dir].rf_mem[k] = e, !.inode[dir].rf_size = @ + 1]
      BY DEF SetEntry, k, e
    <2> QED BY <1>3, <2>1 DEF State, Inodes
  <1> HIDE DEF k, e, z
  <1>6. Changed(s, SetEntry(s, dir, name, ino), dir, k, e, ino, 0)
    <2>1. Changed(s, [s EXCEPT !.inode[dir].rf_mem[k] = e, !.inode[dir].rf_size = z],
                  dir, k, e, ino, 0)
      BY <1>1, <1>2, <1>4, PutEntry
    <2> QED BY <1>5, <2>1, Zenon
  <1> QED BY <1>1, <1>6 DEF k, e

LEMMA ClearEntryIs ==
    ASSUME NEW s \in State, NEW dir \in Inos, NEW name, NEW ino \in Inos, SlotsOf(s, dir, name) # {}
    PROVE  /\ Changed(s, ClearEntry(s, dir, name), dir, SlotOf(s, dir, name), NoEntry, ino, 0)
           /\ SlotOf(s, dir, name) \in Slots
           /\ s.inode[dir].rf_mem[SlotOf(s, dir, name)].rd_name = name
  <1> DEFINE k == SlotOf(s, dir, name)
             z == s.inode[dir].rf_size - 1
  <1>1. k \in Slots /\ s.inode[dir].rf_mem[k].rd_name = name
    BY SlotIs
  <1>2. NoEntry \in Entries
    BY Basics
  <1>3. s.inode[dir] \in Inodes
    BY DEF State
  <1>4. z \in Int
    BY <1>3 DEF Inodes
  <1>5. ClearEntry(s, dir, name) = [s EXCEPT !.inode[dir].rf_mem[k] = NoEntry, !.inode[dir].rf_size = z]
    <2> HIDE DEF k
    <2>1. ClearEntry(s, dir, name) =
              [s EXCEPT !.inode[dir].rf_mem[k] = NoEntry, !.inode[dir].rf_size = @ - 1]
      BY DEF ClearEntry, k
    <2> QED BY <1>3, <2>1 DEF State, Inodes
  <1> HIDE DEF k, z
  <1>6. Changed(s, ClearEntry(s, dir, name), dir, k, NoEntry, ino, 0)
    <2>1. Changed(s, [s EXCEPT !.inode[dir].rf_mem[k] = NoEntry, !.inode[dir].rf_size = z],
                  dir, k, NoEntry, ino, 0)
      BY <1>1, <1>2, <1>4, PutEntry
    <2> QED BY <1>5, <2>1, Zenon
  <1> QED BY <1>1, <1>6 DEF k

(* A new name that is counted, in an entry that was empty.                 *)
LEMMA NamesAdded ==
    ASSUME NEW s \in State, NEW r, NEW dir \in Inos, NEW k \in Slots, NEW name, NEW ino \in Inos, NEW n,
           Changed(s, r, dir, k, Entry(name, ino), ino, n), NEW j \in Inos
    PROVE  /\ j # ino => Names(r, j) \subseteq Names(s, j)
           /\ j = ino => Names(r, j) \subseteq Names(s, j) \union {<<dir, k>>}
  <1>1. \A d \in Inos, i \in Slots : <<d, i>> # <<dir, k>> =>
            /\ IsName(r, d, i) => IsName(s, d, i)
            /\ r.inode[d].rf_mem[i] = s.inode[d].rf_mem[i]
    <2> SUFFICES ASSUME NEW d \in Inos, NEW i \in Slots, <<d, i>> # <<dir, k>>
                 PROVE  /\ r.inode[d].rf_mode = s.inode[d].rf_mode
                        /\ r.inode[d].rf_mem[i] = s.inode[d].rf_mem[i]
      BY DEF IsName, IsDir
    <2>1. s.inode[dir] \in Inodes
      BY DEF State
    <2>2. r.inode[dir].rf_mem = [s.inode[dir].rf_mem EXCEPT ![k] = Entry(name, ino)]
      BY DEF Changed
    <2>3. s.inode[dir].rf_mem \in [Slots -> Entries]
      BY <2>1 DEF Inodes
    <2>4. i # k => r.inode[dir].rf_mem[i] = s.inode[dir].rf_mem[i]
      BY <2>2, <2>3
    <2>5. d # dir => r.inode[d].rf_mem = s.inode[d].rf_mem
      BY DEF Changed
    <2>6. r.inode[d].rf_mode = s.inode[d].rf_mode
      BY DEF Changed
    <2> QED BY <2>4, <2>5, <2>6
  <1>2. r.inode[dir].rf_mem[k] = Entry(name, ino)
    <2>1. s.inode[dir].rf_mem \in [Slots -> Entries]
      BY DEF State, Inodes
    <2> QED BY <2>1 DEF Changed
  <1>3. r.inode[dir].rf_mem[k].rd_ino = ino
    BY <1>2 DEF Entry
  <1>4. ASSUME NEW x \in Names(r, j), ~(x = <<dir, k>> /\ j = ino) PROVE x \in Names(s, j)
    <2>1. x \in Inos \X Slots /\ IsName(r, x[1], x[2]) /\ r.inode[x[1]].rf_mem[x[2]].rd_ino = j
      BY DEF Names
    <2>2. x = <<x[1], x[2]>> /\ x[1] \in Inos /\ x[2] \in Slots
      BY <2>1
    <2>3. x # <<dir, k>>
      <3>1. CASE x = <<dir, k>>
        BY <1>3, <1>4, <2>1, <3>1
      <3> QED BY <3>1
    <2>4. IsName(s, x[1], x[2]) /\ s.inode[x[1]].rf_mem[x[2]].rd_ino = j
      BY <1>1, <2>1, <2>2, <2>3
    <2> QED BY <2>1, <2>4 DEF Names
  <1> QED BY <1>4

LEMMA EnoughAfterAdd ==
    ASSUME NEW s \in State, NEW r \in State, NEW ino \in Inos, NEW x, NEW j \in Inos, LinksEnough(s),
           Cached(r, j) = Cached(s, j),
           j # ino => Names(r, j) \subseteq Names(s, j),
           j = ino => Names(r, j) \subseteq Names(s, j) \union {x},
           r.inode[j].rf_linkcount = s.inode[j].rf_linkcount + (IF j = ino THEN 1 ELSE 0)
    PROVE  r.inode[j].rf_linkcount >= LinksOf(r, j)
  <1>1. s.inode[j].rf_linkcount >= LinksOf(s, j)
    BY DEF LinksEnough
  <1>2. /\ Cardinality(Names(s, j)) \in Nat /\ If(Cached(s, j)) \in {0, 1} /\ If(j = Root) \in {0, 1}
        /\ Cardinality(Names(r, j)) \in Nat /\ s.inode[j].rf_linkcount \in Int
        /\ r.inode[j].rf_linkcount \in Int
    BY LinksType
  <1>3. If(Cached(r, j)) = If(Cached(s, j))
    OBVIOUS
  <1>4. CASE j = ino
    <2>1. Cardinality(Names(r, j)) <= Cardinality(Names(s, j)) + 1
      BY <1>4, NamesOneMore
    <2>2. r.inode[j].rf_linkcount = s.inode[j].rf_linkcount + 1
      BY <1>4
    <2> QED BY <1>1, <1>2, <1>3, <2>1, <2>2 DEF LinksOf
  <1>5. CASE j # ino
    <2>1. Cardinality(Names(r, j)) <= Cardinality(Names(s, j))
      BY <1>5, NamesFewer
    <2>2. r.inode[j].rf_linkcount = s.inode[j].rf_linkcount
      BY <1>2, <1>5
    <2> QED BY <1>1, <1>2, <1>3, <2>1, <2>2 DEF LinksOf
  <1> QED BY <1>4, <1>5

LEMMA AddName ==
    ASSUME NEW s \in State, NEW r, NEW dir \in Inos, NEW k \in Slots, NEW name, NEW ino \in Inos,
           Changed(s, r, dir, k, Entry(name, ino), ino, 1), IsDir(s, dir),
           s.panic = "no" => Rc(s, ino) > 0
    PROVE  Even(s, r)
  <1>1. /\ r \in State /\ Tables(s, r) /\ r.panic = s.panic /\ r.vnode = s.vnode
        /\ \A j \in Inos :
               /\ r.inode[j].rf_mode = s.inode[j].rf_mode
               /\ j # dir => r.inode[j].rf_size = s.inode[j].rf_size
               /\ j # dir /\ j # ino => r.inode[j] = s.inode[j]
    BY DEF Changed
  <1>2. ASSUME r.panic = "no", Good(s) PROVE Good(r)
    <2>1. s.inode[ino].rf_mode # "FREE" /\ s.inode[dir].rf_mode = "DIR"
      BY <1>1, <1>2 DEF Good, InUse, IsDir
    <2>2. FreeEmpty(r)
      BY <1>1, <1>2, <2>1 DEF Good, FreeEmpty
    <2>3. InUse(r) /\ LengthsMatch(r)
      BY <1>1, <1>2, <2>1 DEF Good, InUse, LengthsMatch, Rc
    <2>4. ASSUME NoDotPaths, NEW j \in Inos PROVE r.inode[j].rf_linkcount >= LinksOf(r, j)
      <3>1. LinksEnough(s)
        BY <1>2, <2>4 DEF Good
      <3>2. Cached(r, j) = Cached(s, j)
        BY <1>1 DEF Cached
      <3>3. r.inode[j].rf_linkcount = s.inode[j].rf_linkcount + (IF j = ino THEN 1 ELSE 0)
        BY DEF Changed
      <3>4. /\ j # ino => Names(r, j) \subseteq Names(s, j)
            /\ j = ino => Names(r, j) \subseteq Names(s, j) \union {<<dir, k>>}
        BY NamesAdded
      <3> QED BY <1>1, <3>1, <3>2, <3>3, <3>4, EnoughAfterAdd
    <2> QED BY <2>2, <2>3, <2>4 DEF Good, LinksEnough
  <1> QED BY <1>1, <1>2 DEF Even, Follows, Rc
(* A name of an inode is removed, and with it one of the inode's links.    *)
LEMMA NamesRemoved ==
    ASSUME NEW s \in State, NEW r, NEW dir \in Inos, NEW k \in Slots, NEW ino, NEW n,
           Changed(s, r, dir, k, NoEntry, ino, n), NEW j
    PROVE  Names(r, j) \subseteq Names(s, j) \ {<<dir, k>>}
  <1>1. s.inode[dir].rf_mem \in [Slots -> Entries]
    BY DEF State, Inodes
  <1>2. r.inode[dir].rf_mem = [s.inode[dir].rf_mem EXCEPT ![k] = NoEntry]
    BY DEF Changed
  <1>3. r.inode[dir].rf_mem[k].rd_name = NoName
    BY <1>1, <1>2 DEF NoEntry
  <1>4. \A i \in Slots : i # k => r.inode[dir].rf_mem[i] = s.inode[dir].rf_mem[i]
    BY <1>1, <1>2
  <1>5. \A d \in Inos : /\ d # dir => r.inode[d].rf_mem = s.inode[d].rf_mem
                        /\ r.inode[d].rf_mode = s.inode[d].rf_mode
    BY DEF Changed
  <1> SUFFICES ASSUME NEW x \in Names(r, j) PROVE x \in Names(s, j) /\ x # <<dir, k>>
    OBVIOUS
  <1>6. x \in Inos \X Slots /\ IsName(r, x[1], x[2]) /\ r.inode[x[1]].rf_mem[x[2]].rd_ino = j
    BY DEF Names
  <1>7. x = <<x[1], x[2]>> /\ x[1] \in Inos /\ x[2] \in Slots
    BY <1>6
  <1>8. ~(x[1] = dir /\ x[2] = k)
    BY <1>3, <1>6 DEF IsName
  <1>9. x # <<dir, k>>
    BY <1>8
  <1>10. r.inode[x[1]].rf_mem[x[2]] = s.inode[x[1]].rf_mem[x[2]] /\ r.inode[x[1]].rf_mode = s.inode[x[1]].rf_mode
    BY <1>4, <1>5, <1>7, <1>8
  <1>11. IsName(s, x[1], x[2]) /\ s.inode[x[1]].rf_mem[x[2]].rd_ino = j
    BY <1>6, <1>10 DEF IsName, IsDir
  <1> QED BY <1>6, <1>9, <1>11 DEF Names

LEMMA RemoveName ==
    ASSUME NEW s \in State, NEW r, NEW dir \in Inos, NEW k \in Slots, NEW ino \in Inos,
           Changed(s, r, dir, k, NoEntry, ino, -1), IsDir(s, dir),
           NoDotPaths => IsName(s, dir, k), s.inode[dir].rf_mem[k].rd_ino = ino,
           s.panic = "no" => Rc(s, ino) > 0
    PROVE  Even(s, r)
  <1>1. /\ r \in State /\ Tables(s, r) /\ r.panic = s.panic /\ r.vnode = s.vnode
        /\ \A j \in Inos :
               /\ r.inode[j].rf_mode = s.inode[j].rf_mode
               /\ j # dir => r.inode[j].rf_size = s.inode[j].rf_size
               /\ j # dir /\ j # ino => r.inode[j] = s.inode[j]
    BY DEF Changed
  <1>2. ASSUME r.panic = "no", Good(s) PROVE Good(r)
    <2>1. s.inode[ino].rf_mode # "FREE" /\ s.inode[dir].rf_mode = "DIR"
      BY <1>1, <1>2 DEF Good, InUse, IsDir
    <2>2. FreeEmpty(r)
      BY <1>1, <1>2, <2>1 DEF Good, FreeEmpty
    <2>3. InUse(r) /\ LengthsMatch(r)
      BY <1>1, <1>2, <2>1 DEF Good, InUse, LengthsMatch, Rc
    <2>4. ASSUME NoDotPaths, NEW j \in Inos PROVE r.inode[j].rf_linkcount >= LinksOf(r, j)
      <3>1. s.inode[j].rf_linkcount >= LinksOf(s, j)
        BY <1>2, <2>4 DEF Good, LinksEnough
      <3>2. If(Cached(r, j)) = If(Cached(s, j))
        BY <1>1 DEF Cached
      <3>3. r.inode[j].rf_linkcount = s.inode[j].rf_linkcount + (IF j = ino THEN -1 ELSE 0)
        BY DEF Changed
      <3>4. Names(r, j) \subseteq Names(s, j) \ {<<dir, k>>}
        BY NamesRemoved
      <3>5. /\ Cardinality(Names(s, j)) \in Nat /\ If(Cached(s, j)) \in {0, 1} /\ If(j = Root) \in {0, 1}
            /\ Cardinality(Names(r, j)) \in Nat /\ s.inode[j].rf_linkcount \in Int
        BY <1>1, LinksType
      <3>6. CASE j = ino
        <4>1. <<dir, k>> \in Names(s, j)
          BY <2>4, <3>6 DEF Names
        <4>2. Cardinality(Names(r, j)) + 1 <= Cardinality(Names(s, j))
          BY <3>4, <4>1, NamesOneLess
        <4>3. r.inode[j].rf_linkcount = s.inode[j].rf_linkcount - 1
          BY <3>3, <3>5, <3>6
        <4> QED BY <3>1, <3>2, <3>5, <4>2, <4>3 DEF LinksOf
      <3>7. CASE j # ino
        <4>1. Cardinality(Names(r, j)) <= Cardinality(Names(s, j))
          BY <3>4, NamesFewer
        <4>2. r.inode[j].rf_linkcount = s.inode[j].rf_linkcount
          BY <3>3, <3>5, <3>7
        <4> QED BY <3>1, <3>2, <3>5, <4>1, <4>2 DEF LinksOf
      <3> QED BY <3>6, <3>7
    <2> QED BY <2>2, <2>3, <2>4 DEF Good, LinksEnough
  <1> QED BY <1>1, <1>2 DEF Even, Follows, Rc

LEMMA RamfsLink ==
    ASSUME NEW s \in State, NEW old \in Inos, NEW dir \in Inos, NEW name \in NameSet, IsDir(s, dir),
           s.panic = "no" => Rc(s, old) > 0
    PROVE  Even(s, ramfs_link(s, old, dir, name).s)
  <1>1. CASE ~HasRoom(s, dir)
    <2>1. ramfs_link(s, old, dir, name).s = s
      BY <1>1 DEF ramfs_link, Result
    <2> QED BY <2>1, EvenSelf
  <1>2. CASE HasRoom(s, dir)
    <2> DEFINE t == SetEntry(s, dir, name, old)
               r == [t EXCEPT !.inode[old].rf_linkcount = t.inode[old].rf_linkcount + 1]
               k == SlotOf(s, dir, NoName)
    <2>1. ramfs_link(s, old, dir, name).s = r
      BY <1>2 DEF ramfs_link, Result
    <2>2. Changed(s, t, dir, k, Entry(name, old), old, 0) /\ k \in Slots
      BY <1>2, SetEntryIs
    <2> HIDE DEF t, k
    <2>3. Changed(s, r, dir, k, Entry(name, old), old, 1)
      BY <2>2, ChangedAgain
    <2> HIDE DEF r
    <2>4. Even(s, r)
      BY <2>2, <2>3, AddName
    <2> QED BY <2>1, <2>4
  <1> QED BY <1>1, <1>2

(* The entry of name goes, then the vnode reference taken by the lookup.   *)
LEMMA UnlinkDown ==
    ASSUME NEW s \in State, NEW dir \in Inos, NEW name \in STRING \ {NoName}, NEW ino \in Inos,
           IsDir(s, dir), SlotsOf(s, dir, name) # {}, ino = EntryOf(s, dir, name),
           NoDotPaths => name \notin {".", ".."}, s.panic = "no" => Rc(s, ino) > 0
    PROVE  Down(s, Unlink(s, dir, name, ino), ino)
  <1> DEFINE t == ClearEntry(s, dir, name)
             r == [t EXCEPT !.inode[ino].rf_linkcount = t.inode[ino].rf_linkcount + (-1)]
             k == SlotOf(s, dir, name)
  <1>1. /\ Changed(s, t, dir, k, NoEntry, ino, 0) /\ k \in Slots
        /\ s.inode[dir].rf_mem[k].rd_name = name
    BY ClearEntryIs
  <1>2. t.inode[ino].rf_linkcount - 1 = t.inode[ino].rf_linkcount + (-1)
    <2>1. t \in State
      BY <1>1 DEF Changed
    <2> HIDE DEF t
    <2>2. t.inode[ino].rf_linkcount \in Int
      BY <2>1 DEF State, Inodes
    <2> QED BY <2>2
  <1>3. Unlink(s, dir, name, ino) = vput(r, ino)
    <2>1. Unlink(s, dir, name, ino) = vput([t EXCEPT !.inode[ino].rf_linkcount = @ - 1], ino)
      BY DEF Unlink
    <2> HIDE DEF t
    <2>2. [t EXCEPT !.inode[ino].rf_linkcount = @ - 1] = r
      BY <1>2, Zenon
    <2> HIDE DEF r
    <2> QED BY <2>1, <2>2, Zenon
  <1>4. NoDotPaths => IsName(s, dir, k)
    BY <1>1 DEF IsName
  <1>5. s.inode[dir].rf_mem[k].rd_ino = ino
    BY DEF EntryOf
  <1> HIDE DEF t, k
  <1>6. Changed(s, r, dir, k, NoEntry, ino, -1)
    BY <1>1, ChangedAgain
  <1> HIDE DEF r
  <1>7. Even(s, r)
    BY <1>1, <1>4, <1>5, <1>6, RemoveName
  <1>8. Down(r, vput(r, ino), ino)
    BY <1>7, VputDown DEF Even, Follows
  <1>9. Down(s, vput(r, ino), ino)
    BY <1>7, <1>8, EvenFirst
  <1> QED BY <1>3, <1>9
-----------------------------------------------------------------------------
(* New inodes                                                              *)
LEMMA AllocInode ==
    ASSUME NEW s \in State, NEW type \in Modes
    PROVE  LET a == ramfs_alloc_inode(s, type)
           IN  /\ a.err # "0" => a.s = s
               /\ a.err = "0" =>
                    /\ a.ino \in Inos /\ s.inode[a.ino].rf_mode = "FREE"
                    /\ a.s \in State /\ Tables(s, a.s) /\ a.s.panic = s.panic /\ a.s.vnode = s.vnode
                    /\ \A j \in Inos : j # a.ino => a.s.inode[j] = s.inode[j]
                    /\ a.s.inode[a.ino].rf_mode = type /\ a.s.inode[a.ino].rf_linkcount = 1
                    /\ a.s.inode[a.ino].rf_mem = [i \in Slots |-> NoEntry]
  <1> DEFINE a == ramfs_alloc_inode(s, type)
             ino == Least(FreeInos(s))
             x == [NoInode EXCEPT !.rf_mode = type, !.rf_linkcount = 1]
             r == [s EXCEPT !.inode[ino] = x]
  <1>1. CASE FreeInos(s) = {}
    BY <1>1 DEF ramfs_alloc_inode, Result
  <1>2. CASE FreeInos(s) # {}
    <2>1. a.err = "0" /\ a.ino = ino /\ a.s = r
      BY <1>2 DEF ramfs_alloc_inode, Found, With
    <2>2. ino \in Inos /\ s.inode[ino].rf_mode = "FREE"
      <3>1. FreeInos(s) \in SUBSET Nat
        BY Basics DEF FreeInos
      <3>2. ino \in FreeInos(s)
        BY <1>2, <3>1, LeastOne
      <3> QED BY <3>2 DEF FreeInos
    <2> HIDE DEF ino
    <2>3. /\ x \in Inodes /\ x.rf_mode = type /\ x.rf_linkcount = 1
          /\ x.rf_mem = [i \in Slots |-> NoEntry]
      <3>1. x.rf_mode = type /\ x.rf_linkcount = 1 /\ x.rf_mem = [i \in Slots |-> NoEntry]
        BY DEF NoInode
      <3>2. x \in Inodes
        <4> DEFINE w == [NoInode EXCEPT !.rf_mode = type]
        <4>1. NoInode \in Inodes
          BY Basics
        <4>2. w \in Inodes
          BY <4>1 DEF Inodes
        <4>3. x = [w EXCEPT !.rf_linkcount = 1]
          OBVIOUS
        <4> HIDE DEF w, x
        <4> QED BY <4>2, <4>3 DEF Inodes
      <3> QED BY <3>1, <3>2
    <2> HIDE DEF x
    <2>4. /\ r \in State /\ Tables(s, r) /\ r.panic = s.panic /\ r.vnode = s.vnode
          /\ r.inode = [s.inode EXCEPT ![ino] = x]
      BY <2>2, <2>3, SetInode DEF Tables
    <2> HIDE DEF r
    <2>5. r.inode[ino] = x /\ \A j \in Inos : j # ino => r.inode[j] = s.inode[j]
      BY <2>2, <2>4 DEF State
    <2> HIDE DEF a
    <2>6. a.s = r /\ a.ino = ino /\ a.err = "0"
      BY <2>1
    <2>7. /\ ino \in Inos /\ s.inode[ino].rf_mode = "FREE"
          /\ r \in State /\ Tables(s, r) /\ r.panic = s.panic /\ r.vnode = s.vnode
          /\ \A j \in Inos : j # ino => r.inode[j] = s.inode[j]
          /\ r.inode[ino].rf_mode = type /\ r.inode[ino].rf_linkcount = 1
          /\ r.inode[ino].rf_mem = [i \in Slots |-> NoEntry]
      BY <2>2, <2>3, <2>4, <2>5
    <2> QED BY <2>6, <2>7 DEF a
  <1> QED BY <1>1, <1>2

LEMMA NewEntryIs ==
    ASSUME NEW s \in State, NEW dir \in Inos, NEW name \in NameSet, NEW type \in Modes \ {"FREE"},
           IsDir(s, dir)
    PROVE  LET n == NewEntry(s, dir, name, type)
           IN  /\ n.err = "0" => /\ Even(s, n.s) /\ n.ino \in Inos
                                 /\ n.s.inode[n.ino].rf_mode = type
               /\ n.err # "0" => n.s = s
  <1> DEFINE a == ramfs_alloc_inode(s, type)
             n == NewEntry(s, dir, name, type)
             k == SlotOf(a.s, dir, NoName)
             r == SetEntry(a.s, dir, name, a.ino)
  <1>1. CASE ~HasRoom(s, dir)
    BY <1>1 DEF NewEntry, Result
  <1>2. CASE HasRoom(s, dir) /\ a.err # "0"
    <2>1. n = a
      BY <1>2 DEF NewEntry, Then
    <2> HIDE DEF a, n
    <2>2. a.s = s
      BY <1>2, AllocInode DEF a
    <2> QED BY <1>2, <2>1, <2>2 DEF n
  <1>3. CASE HasRoom(s, dir) /\ a.err = "0"
    <2>1. n.err = "0" /\ n.ino = a.ino /\ n.s = r
      BY <1>3 DEF NewEntry, Then, Found
    <2>2. /\ a.ino \in Inos /\ s.inode[a.ino].rf_mode = "FREE"
          /\ a.s \in State /\ Tables(s, a.s) /\ a.s.panic = s.panic /\ a.s.vnode = s.vnode
          /\ \A j \in Inos : j # a.ino => a.s.inode[j] = s.inode[j]
          /\ a.s.inode[a.ino].rf_mode = type /\ a.s.inode[a.ino].rf_linkcount = 1
          /\ a.s.inode[a.ino].rf_mem = [i \in Slots |-> NoEntry]
      BY <1>3, AllocInode
    <2> HIDE DEF a
    <2>3. dir # a.ino /\ a.s.inode[dir] = s.inode[dir]
      BY <2>2 DEF IsDir
    <2>4. HasRoom(a.s, dir)
      BY <1>3, <2>3 DEF HasRoom, SlotsOf
    <2>5. Changed(a.s, r, dir, k, Entry(name, a.ino), a.ino, 0) /\ k \in Slots
      BY <2>2, <2>4, SetEntryIs
    <2> HIDE DEF r, k
    <2>6. /\ r \in State /\ Tables(s, r) /\ r.panic = s.panic /\ r.vnode = s.vnode
      BY <2>2, <2>5 DEF Changed, Tables
    <2>7. /\ r.inode[a.ino].rf_mode = type
          /\ \A j \in Inos : j # a.ino => r.inode[j].rf_mode = s.inode[j].rf_mode
          /\ \A j \in Inos : j # a.ino /\ j # dir => r.inode[j] = s.inode[j]
      BY <2>2, <2>5 DEF Changed
    <2>8. ASSUME Good(s) PROVE Good(r)
      <3>1. r.inode[dir].rf_mode = "DIR"
        BY <2>3, <2>7 DEF IsDir
      <3>2. Rc(s, a.ino) = 0
        <4>1. ~(Rc(s, a.ino) > 0)
          BY <2>2, <2>8 DEF Good, InUse
        <4> QED BY <2>2, <4>1, RcType
      <3>3. FreeEmpty(r)
        BY <2>7, <2>8, <3>1 DEF Good, FreeEmpty
      <3>4. InUse(r)
        BY <2>6, <2>7, <2>8 DEF Good, InUse, Rc
      <3>5. LengthsMatch(r)
        BY <2>6, <2>7, <2>8, <3>1, <3>2 DEF Good, LengthsMatch, Rc
      <3>6. ASSUME NoDotPaths, NEW j \in Inos PROVE r.inode[j].rf_linkcount >= LinksOf(r, j)
        <4>1. LinksEnough(s)
          BY <2>8, <3>6 DEF Good
        <4>2. Cached(r, j) = Cached(s, j)
          BY <2>6 DEF Cached
        <4>3. Names(a.s, j) \subseteq Names(s, j)
          <5>1. \A d \in Inos, i \in Slots : IsName(a.s, d, i) =>
                    IsName(s, d, i) /\ a.s.inode[d].rf_mem[i] = s.inode[d].rf_mem[i]
            BY <2>2 DEF IsName, IsDir, NoEntry
          <5> QED BY <5>1 DEF Names
        <4>4. /\ j # a.ino => Names(r, j) \subseteq Names(a.s, j)
              /\ j = a.ino => Names(r, j) \subseteq Names(a.s, j) \union {<<dir, k>>}
          BY <2>2, <2>5, NamesAdded
        <4>5. /\ j # a.ino => Names(r, j) \subseteq Names(s, j)
              /\ j = a.ino => Names(r, j) \subseteq Names(s, j) \union {<<dir, k>>}
          BY <4>3, <4>4
        <4>6. r.inode[j].rf_linkcount = s.inode[j].rf_linkcount + (IF j = a.ino THEN 1 ELSE 0)
          <5>1. r.inode[j].rf_linkcount = a.s.inode[j].rf_linkcount
            <6>1. r.inode[j].rf_linkcount = a.s.inode[j].rf_linkcount + (IF j = a.ino THEN 0 ELSE 0)
              BY <2>5 DEF Changed
            <6>2. a.s.inode[j].rf_linkcount \in Int
              BY <2>2, LinksType
            <6> QED BY <6>1, <6>2
          <5>2. CASE j = a.ino
            <6>1. s.inode[j].rf_linkcount = 0
              BY <2>2, <2>8, <5>2 DEF Good, FreeEmpty, NoInode
            <6> QED BY <2>2, <5>1, <5>2, <6>1
          <5>3. CASE j # a.ino
            <6>1. s.inode[j].rf_linkcount \in Int
              BY LinksType
            <6> QED BY <2>2, <5>1, <5>3, <6>1
          <5> QED BY <5>2, <5>3
        <4> QED BY <2>2, <2>6, <4>1, <4>2, <4>5, <4>6, EnoughAfterAdd
      <3> QED BY <3>3, <3>4, <3>5, <3>6 DEF Good, LinksEnough
    <2>9. Even(s, r)
      BY <2>6, <2>8 DEF Even, Follows, Rc
    <2> QED BY <2>1, <2>2, <2>7, <2>9
  <1> QED BY <1>1, <1>2, <1>3
LEMMA RamfsCreate ==
    ASSUME NEW s \in State, NEW dir \in Inos, NEW name \in NameSet, IsDir(s, dir)
    PROVE  LET c == ramfs_create(s, dir, name)
           IN  /\ c.err = "0" => Up(s, c.s, c.ino) /\ c.ino \in Inos
               /\ c.err # "0" => c.s = s
  <1> DEFINE n == NewEntry(s, dir, name, "DATA")
             c == ramfs_create(s, dir, name)
  <1>1. "DATA" \in Modes \ {"FREE"}
    BY DEF Modes
  <1>2. /\ n.err = "0" => Even(s, n.s) /\ n.ino \in Inos
        /\ n.err # "0" => n.s = s
    BY <1>1, NewEntryIs
  <1>3. c = IF n.err = "0" THEN Found(vget(n.s, n.ino), n.ino) ELSE n
    BY DEF ramfs_create, Then
  <1> HIDE DEF n
  <1>4. CASE n.err = "0"
    <2>1. Up(n.s, vget(n.s, n.ino), n.ino)
      BY <1>2, <1>4, VgetUp DEF Even, Follows
    <2>2. Up(s, vget(n.s, n.ino), n.ino)
      BY <1>2, <1>4, <2>1, EvenFirst
    <2> QED BY <1>2, <1>3, <1>4, <2>2 DEF Found
  <1>5. CASE n.err # "0"
    BY <1>2, <1>3, <1>5
  <1> QED BY <1>4, <1>5

LEMMA RamfsMknod ==
    ASSUME NEW s \in State, NEW dir \in Inos, NEW name \in NameSet, NEW mode \in Modes \ {"FREE"},
           IsDir(s, dir)
    PROVE  Even(s, ramfs_mknod(s, dir, name, mode).s)
  <1> DEFINE n == NewEntry(s, dir, name, mode)
  <1>1. (n.err = "0" => Even(s, n.s)) /\ (n.err # "0" => n.s = s)
    BY NewEntryIs
  <1>2. Even(s, n.s)
    BY <1>1, EvenSelf
  <1> QED BY <1>2 DEF ramfs_mknod

(* The entries "." and ".." of a new directory are no names.               *)
LEMMA MkdirEntries ==
    ASSUME NEW s \in State, NEW ino \in Inos, NEW dir \in Inos, IsDir(s, ino)
    PROVE  Even(s, [s EXCEPT !.inode[ino].rf_mem[1] = Entry(".", ino),
                             !.inode[ino].rf_mem[2] = Entry("..", dir),
                             !.inode[ino].rf_size = 2])
  <1> DEFINE m1 == [s.inode[ino].rf_mem EXCEPT ![1] = Entry(".", ino)]
             m == [m1 EXCEPT ![2] = Entry("..", dir)]
             y1 == [s.inode[ino] EXCEPT !.rf_mem = m]
             y == [y1 EXCEPT !.rf_size = 2]
             r == [s EXCEPT !.inode[ino] = y]
  <1>1. s.inode \in [Inos -> Inodes] /\ s.inode[ino] \in Inodes
    BY DEF State
  <1>2. s.inode[ino].rf_mem \in [Slots -> Entries]
    BY <1>1 DEF Inodes
  <1>3. Entry(".", ino) \in Entries /\ Entry("..", dir) \in Entries
    BY EntryIn DEF NameSet
  <1>4. m1 \in [Slots -> Entries]
    BY <1>2, <1>3
  <1>5. m \in [Slots -> Entries]
    <2> HIDE DEF m1
    <2> QED BY <1>3, <1>4
  <1>6. \A i \in Slots : m[i] = s.inode[ino].rf_mem[i] \/ m[i].rd_name \in {".", ".."}
    BY <1>2 DEF Entry
  <1>7. r = [s EXCEPT !.inode[ino].rf_mem[1] = Entry(".", ino),
                      !.inode[ino].rf_mem[2] = Entry("..", dir),
                      !.inode[ino].rf_size = 2]
    <2> DEFINE x1 == [s.inode[ino] EXCEPT !.rf_mem = m1]
               x2 == [x1 EXCEPT !.rf_mem = m]
               r1 == [s EXCEPT !.inode[ino] = x1]
               r2 == [r1 EXCEPT !.inode[ino] = x2]
    <2>1. [s EXCEPT !.inode[ino].rf_mem[1] = Entry(".", ino)] = r1
      BY <1>1 DEF State
    <2>2. r1.inode[ino] = x1 /\ x1.rf_mem = m1
      BY <1>1 DEF State, Inodes
    <2>3. [r1 EXCEPT !.inode[ino].rf_mem[2] = Entry("..", dir)] = r2
      <3> HIDE DEF r1, x1, m1
      <3> QED BY <2>2
    <2>4. r2 = [s EXCEPT !.inode[ino] = y1] /\ x2 = y1
      <3>1. x2 = y1
        <4> HIDE DEF m1, m
        <4> QED BY <1>1 DEF Inodes
      <3> HIDE DEF x1, x2, y1
      <3> QED BY <1>1, <3>1 DEF State
    <2>5. r2.inode[ino] = y1
      <3> HIDE DEF r1, x1, x2, y1, r2
      <3> QED BY <1>1, <2>4 DEF State
    <2>6. [r2 EXCEPT !.inode[ino].rf_size = 2] = r
      <3>1. [r2 EXCEPT !.inode[ino].rf_size = 2] = [r2 EXCEPT !.inode[ino] = y]
        <4> HIDE DEF r2, y1
        <4> QED BY <2>5
      <3>2. [r2 EXCEPT !.inode[ino] = y] = r
        <4> HIDE DEF r2, y1, y
        <4> QED BY <1>1, <2>4 DEF State
      <3> QED BY <3>1, <3>2
    <2> HIDE DEF r, r1, r2
    <2> QED BY <2>1, <2>3, <2>6
  <1> HIDE DEF m
  <1>8. y1 \in Inodes /\ y1.rf_mem = m /\ y1.rf_mode = s.inode[ino].rf_mode
        /\ y1.rf_linkcount = s.inode[ino].rf_linkcount
    BY <1>1, <1>5 DEF Inodes
  <1> HIDE DEF y1
  <1>9. /\ y \in Inodes /\ y.rf_mem = m /\ y.rf_mode = s.inode[ino].rf_mode
        /\ y.rf_linkcount = s.inode[ino].rf_linkcount
    BY <1>8 DEF Inodes
  <1> HIDE DEF y
  <1>10. /\ r \in State /\ Tables(s, r) /\ r.panic = s.panic /\ r.vnode = s.vnode
         /\ r.inode = [s.inode EXCEPT ![ino] = y]
    BY <1>9, SetInode DEF Tables
  <1> HIDE DEF r
  <1>11. /\ r.inode[ino] = y /\ \A j \in Inos : j # ino => r.inode[j] = s.inode[j]
         /\ r.inode[ino].rf_mode = "DIR"
    BY <1>1, <1>9, <1>10 DEF IsDir
  <1>12. ASSUME Good(s) PROVE Good(r)
    <2>1. FreeEmpty(r) /\ InUse(r) /\ LengthsMatch(r)
      BY <1>10, <1>11, <1>12 DEF Good, FreeEmpty, InUse, LengthsMatch, Rc, IsDir
    <2>2. \A d \in Inos, i \in Slots : IsName(r, d, i) =>
              IsName(s, d, i) /\ r.inode[d].rf_mem[i] = s.inode[d].rf_mem[i]
      BY <1>6, <1>9, <1>11 DEF IsName, IsDir
    <2>3. \A j \in Inos : Names(r, j) \subseteq Names(s, j)
      BY <2>2 DEF Names
    <2>4. ASSUME LinksEnough(s), NEW j \in Inos PROVE r.inode[j].rf_linkcount >= LinksOf(r, j)
      <3>1. s.inode[j].rf_linkcount >= LinksOf(s, j) /\ s.inode[j].rf_linkcount \in Int
        BY <2>4, LinksType DEF LinksEnough
      <3>2. If(Cached(r, j)) = If(Cached(s, j)) /\ If(Cached(s, j)) \in {0, 1}
        BY <1>10 DEF Cached, If
      <3>3. r.inode[j].rf_linkcount = s.inode[j].rf_linkcount
        BY <1>9, <1>11
      <3>4. r.inode[j].rf_linkcount + If(Cached(s, j)) >= s.inode[j].rf_linkcount + If(Cached(r, j))
        BY <3>1, <3>2, <3>3
      <3> QED BY <1>10, <2>3, <3>1, <3>4, LinksSame
    <2> QED BY <1>12, <2>1, <2>4 DEF Good, LinksEnough
  <1>13. Even(s, r)
    BY <1>10, <1>12 DEF Even, Follows, Rc
  <1> QED BY <1>7, <1>13

LEMMA RamfsMkdir ==
    ASSUME NEW s \in State, NEW dir \in Inos, NEW name \in NameSet, IsDir(s, dir)
    PROVE  Even(s, ramfs_mkdir(s, dir, name).s)
  <1> DEFINE n == NewEntry(s, dir, name, "DIR")
             r == [n.s EXCEPT !.inode[n.ino].rf_mem[1] = Entry(".", n.ino),
                              !.inode[n.ino].rf_mem[2] = Entry("..", dir),
                              !.inode[n.ino].rf_size = 2]
  <1>1. "DIR" \in Modes \ {"FREE"}
    BY DEF Modes
  <1>2. /\ n.err = "0" => Even(s, n.s) /\ n.ino \in Inos /\ n.s.inode[n.ino].rf_mode = "DIR"
        /\ n.err # "0" => n.s = s
    BY <1>1, NewEntryIs
  <1>3. ramfs_mkdir(s, dir, name).s = IF n.err = "0" THEN r ELSE n.s
    BY DEF ramfs_mkdir, Then, Found
  <1>4. CASE n.err = "0"
    <2> HIDE DEF n
    <2>1. n.s \in State /\ IsDir(n.s, n.ino) /\ n.ino \in Inos
      BY <1>2, <1>4 DEF Even, Follows, IsDir
    <2>2. Even(n.s, r)
      BY <2>1, MkdirEntries
    <2> HIDE DEF r
    <2>3. Even(s, r)
      BY <1>2, <1>4, <2>2, EvenFirst
    <2> QED BY <1>3, <1>4, <2>3
  <1>5. CASE n.err # "0"
    BY <1>2, <1>3, <1>5, EvenSelf
  <1> QED BY <1>4, <1>5
LEMMA UpHolds ==
    ASSUME NEW s \in State, NEW r, NEW d \in Inos, Up(s, r, d)
    PROVE  r.panic = "no" => Rc(r, d) > 0
  <1> SUFFICES ASSUME r.panic = "no" PROVE Rc(r, d) > 0
    OBVIOUS
  <1>1. Rc(s, d) \in Nat /\ Rc(r, d) = Rc(s, d) + If(d = d) /\ If(d = d) = 1
    BY RcType DEF Up, If
  <1> QED BY <1>1

(* What the two calls that remove a name do once it has been looked up.    *)
LEMMA UnlinkFound ==
    ASSUME NEW s \in State, NEW dir \in Inos, NEW name \in STRING \ {NoName}, NEW l,
           LookedUp(s, dir, name, l), l.err = "0", NoDotPaths => name \notin {".", ".."}
    PROVE  Even(s, Unlink(l.s, dir, name, l.ino))
  <1>1. /\ Up(s, l.s, l.ino) /\ SameNames(s, l.s) /\ l.ino \in Inos
        /\ IsDir(s, dir) /\ SlotsOf(s, dir, name) # {} /\ l.ino = EntryOf(s, dir, name)
        /\ l.s \in State
    BY DEF LookedUp, Up, Follows
  <1>2. IsDir(l.s, dir) /\ SlotsOf(l.s, dir, name) # {} /\ l.ino = EntryOf(l.s, dir, name)
    BY <1>1, SlotSame DEF EntryOf
  <1>3. l.s.panic = "no" => Rc(l.s, l.ino) > 0
    BY <1>1, UpHolds
  <1>4. Down(l.s, Unlink(l.s, dir, name, l.ino), l.ino)
    BY <1>1, <1>2, <1>3, UnlinkDown
  <1> QED BY <1>1, <1>4, UpDown

LEMMA RamfsUnlink ==
    ASSUME NEW s \in State, NEW dir \in Inos, NEW name \in STRING \ {NoName}, IsDir(s, dir),
           SlotsOf(s, dir, name) # {}, NoDotPaths => name \notin {".", ".."}
    PROVE  Even(s, ramfs_unlink(s, dir, name))
  <1> DEFINE l == ramfs_lookup(s, dir, name)
  <1>1. LookedUp(s, dir, name, l)
    BY RamfsLookup
  <1>2. l.err = "0"
    BY DEF ramfs_lookup, Found, With
  <1>3. ramfs_unlink(s, dir, name) = Unlink(l.s, dir, name, l.ino)
    BY DEF ramfs_unlink, With
  <1> HIDE DEF l
  <1> QED BY <1>1, <1>2, <1>3, UnlinkFound

LEMMA RamfsRmdir ==
    ASSUME NEW s \in State, NEW dir \in Inos, NEW name \in STRING \ {NoName}, IsDir(s, dir),
           NoDotPaths => name \notin {".", ".."}
    PROVE  Even(s, ramfs_rmdir(s, dir, name).s)
  <1> DEFINE l == ramfs_lookup(s, dir, name)
             r == ramfs_rmdir(s, dir, name)
  <1>1. LookedUp(s, dir, name, l)
    BY RamfsLookup
  <1>2. l.err # "0" => r.s = l.s
    BY DEF ramfs_rmdir, Then
  <1>3. l.err = "0" => r.s = vput(l.s, l.ino) \/ r.s = Unlink(l.s, dir, name, l.ino)
    BY DEF ramfs_rmdir, Then, Result
  <1> HIDE DEF l, r
  <1>4. CASE l.err # "0"
    BY <1>1, <1>2, <1>4, EvenSelf DEF LookedUp, r
  <1>5. CASE l.err = "0"
    <2>1. Up(s, l.s, l.ino) /\ l.ino \in Inos /\ l.s \in State
      BY <1>1, <1>5 DEF LookedUp, Up, Follows
    <2>2. Even(s, vput(l.s, l.ino))
      BY <2>1, VputDown, UpDown
    <2>3. Even(s, Unlink(l.s, dir, name, l.ino))
      BY <1>1, <1>5, UnlinkFound
    <2> QED BY <1>3, <1>5, <2>2, <2>3 DEF r
  <1> QED BY <1>4, <1>5

-----------------------------------------------------------------------------
(* The calls on paths                                                      *)
LEMMA FromCwd ==
    ASSUME NEW s \in State, NEW r, NEW p \in Procs, s.p_cwd[p] \in Inos, Follows(s, r)
    PROVE  r \in State /\ r.p_cwd[p] \in Inos
  BY DEF Follows, Tables

(* A vnode taken, and put back after a call that changes no reference.     *)
LEMMA PutBack ==
    ASSUME NEW s \in State, NEW d, Gets(s, d), d.err = "0", NEW r, Even(d.s, r)
    PROVE  Even(s, vput(r, d.ino))
  <1>1. Up(s, d.s, d.ino) /\ d.ino \in Inos
    BY DEF Gets
  <1>2. Up(s, r, d.ino) /\ r \in State
    BY <1>1, EvenLast DEF Even, Follows
  <1>3. Down(r, vput(r, d.ino), d.ino)
    BY <1>1, <1>2, VputDown
  <1> QED BY <1>2, <1>3, UpDown

(* Two vnodes taken, and put back in either order.                         *)
LEMMA PutBackBoth ==
    ASSUME NEW s \in State, NEW d, Gets(s, d), d.err = "0", NEW name, NEW l,
           LookedUp(d.s, d.ino, name, l), l.err = "0"
    PROVE  /\ Even(s, vput(vput(l.s, d.ino), l.ino))
           /\ Up(s, vput(l.s, d.ino), l.ino) /\ l.ino \in Inos
           /\ \A r : Even(l.s, r) => Even(s, vput(vput(r, l.ino), d.ino))
  <1>1. Up(s, d.s, d.ino) /\ d.ino \in Inos /\ d.s \in State
    BY DEF Gets
  <1>2. Up(d.s, l.s, l.ino) /\ l.ino \in Inos /\ l.s \in State
    BY DEF LookedUp, Up, Follows
  <1>3. Down(l.s, vput(l.s, d.ino), d.ino)
    BY <1>1, <1>2, VputDown
  <1>4. Up(s, vput(l.s, d.ino), l.ino) /\ vput(l.s, d.ino) \in State
    BY <1>1, <1>2, <1>3, UpUpDown DEF Down, Follows
  <1>5. Even(s, vput(vput(l.s, d.ino), l.ino))
    BY <1>2, <1>4, VputDown, UpDown
  <1>6. ASSUME NEW r, Even(l.s, r) PROVE Even(s, vput(vput(r, l.ino), d.ino))
    <2>1. Up(d.s, r, l.ino) /\ r \in State
      BY <1>2, <1>6, EvenLast DEF Even, Follows
    <2>2. Even(d.s, vput(r, l.ino))
      BY <1>1, <1>2, <2>1, VputDown, UpDown
    <2> QED BY <2>2, PutBack
  <1> QED BY <1>2, <1>4, <1>5, <1>6

LEMMA LastName ==
    ASSUME NEW path \in Paths, path.names # <<>>
    PROVE  /\ Last1(path) \in STRING \ {NoName} /\ Last1(path) \in NameSet
           /\ NoDotPaths \/ ~IsDot(path) => Last1(path) \notin {".", ".."}
  <1>1. Last1(path) \in STRING \ {NoName}
    BY PathNames
  <1>2. Last1(path) \in NameSet
    BY <1>1 DEF NameSet
  <1>3. NoDotPaths \/ ~IsDot(path) => Last1(path) \notin {".", ".."}
    BY DEF NoDotPaths, IsDot
  <1> QED BY <1>1, <1>2, <1>3

LEMMA CreateInGets ==
    ASSUME NEW s \in State, NEW d, Gets(s, d), d.err = "0", NEW name \in NameSet,
           IsDir(d.s, d.ino)
    PROVE  Gets(s, CreateIn(d.s, d.ino, name))
  <1> DEFINE c == ramfs_create(d.s, d.ino, name)
             o == CreateIn(d.s, d.ino, name)
  <1>0. Up(s, d.s, d.ino) /\ d.ino \in Inos /\ d.s \in State
    BY DEF Gets
  <1>1. /\ c.err = "0" => Up(d.s, c.s, c.ino) /\ c.ino \in Inos
        /\ c.err # "0" => c.s = d.s
    BY <1>0, RamfsCreate
  <1>2. o = IF c.err = "0" THEN Found(vput(c.s, d.ino), c.ino)
            ELSE Result(Panic(c.s, "res_vnode"), "undefined")
    BY DEF CreateIn, With
  <1> HIDE DEF c, o
  <1>3. CASE c.err = "0"
    <2>1. c.s \in State /\ Up(d.s, c.s, c.ino) /\ c.ino \in Inos
      BY <1>1, <1>3 DEF Up, Follows
    <2>2. Down(c.s, vput(c.s, d.ino), d.ino)
      BY <1>0, <2>1, VputDown
    <2>3. Up(s, vput(c.s, d.ino), c.ino) /\ vput(c.s, d.ino) \in State
      BY <1>0, <2>1, <2>2, UpUpDown DEF Down, Follows
    <2>4. o.s = vput(c.s, d.ino) /\ o.ino = c.ino /\ o.err = "0"
      BY <1>2, <1>3 DEF Found
    <2> QED BY <2>1, <2>3, <2>4 DEF Gets, o
  <1>4. CASE c.err # "0"
    <2>1. "res_vnode" \in Reasons /\ "res_vnode" # "no"
      BY DEF Reasons
    <2> DEFINE q == Panic(d.s, "res_vnode")
    <2>2. /\ q \in State /\ q.panic = "res_vnode"
          /\ q.file = d.s.file /\ q.p_files = d.s.p_files /\ q.p_cwd = d.s.p_cwd /\ q.lost = d.s.lost
      BY <1>0, <2>1, SetPanic
    <2>3. o.s = q /\ o.err = "undefined"
      BY <1>1, <1>2, <1>4 DEF Result
    <2> HIDE DEF q
    <2>4. Tables(s, d.s)
      BY <1>0 DEF Up, Follows
    <2>5. Even(s, q)
      BY <2>1, <2>2, <2>4 DEF Even, Follows, Tables
    <2> QED BY <2>2, <2>3, <2>5 DEF Gets, o
  <1> QED BY <1>3, <1>4

LEMMA OpenNamev ==
    ASSUME NEW s \in State, NEW p \in Procs, NEW path \in Paths, s.p_cwd[p] \in Inos, NEW creat
    PROVE  Gets(s, open_namev(s, p, path, creat))
  <1> DEFINE d == dir_namev(s, p, path)
             o == open_namev(s, p, path, creat)
             l == lookup(d.s, d.ino, Last1(path))
  <1>1. Gets(s, d) /\ (d.err = "0" => path.names # <<>>)
    BY DirNamev
  <1>2. CASE d.err # "0"
    BY <1>1, <1>2 DEF open_namev, Then
  <1>3. CASE d.err = "0"
    <2>1. o = IF l.err = "0" THEN Found(vput(l.s, d.ino), l.ino)
              ELSE IF l.err = "-ENOENT" /\ creat THEN CreateIn(l.s, d.ino, Last1(path))
              ELSE Result(vput(l.s, d.ino), l.err)
      BY <1>3 DEF open_namev, Then, With
    <2> HIDE DEF d
    <2>2. d.s \in State /\ d.ino \in Inos
      BY <1>1, <1>3 DEF Gets
    <2>3. LookedUp(d.s, d.ino, Last1(path), l)
      BY <2>2, LookupIs
    <2> HIDE DEF l, o
    <2>4. CASE l.err = "0"
      <3>1. Up(s, vput(l.s, d.ino), l.ino) /\ l.ino \in Inos
        BY <1>1, <1>3, <2>3, <2>4, PutBackBoth
      <3>2. o.s = vput(l.s, d.ino) /\ o.ino = l.ino /\ o.err = "0"
        BY <2>1, <2>4 DEF Found
      <3> QED BY <3>1, <3>2 DEF Gets, o, Up, Follows
    <2>5. CASE l.err = "-ENOENT" /\ creat
      <3>1. l.s = d.s /\ IsDir(d.s, d.ino) /\ Last1(path) \in NameSet
        BY <1>1, <1>3, <2>3, <2>5, LastName DEF LookedUp
      <3>2. Gets(s, CreateIn(d.s, d.ino, Last1(path)))
        BY <1>1, <1>3, <3>1, CreateInGets
      <3> QED BY <2>1, <2>5, <3>1, <3>2 DEF o
    <2>6. CASE l.err # "0" /\ ~(l.err = "-ENOENT" /\ creat)
      <3>1. l.s = d.s
        BY <2>3, <2>6 DEF LookedUp
      <3>2. Even(s, vput(l.s, d.ino))
        BY <1>1, <1>3, <2>2, <3>1, EvenSelf, PutBack
      <3>3. o.s = vput(l.s, d.ino) /\ o.err # "0"
        BY <2>1, <2>6 DEF Result
      <3> QED BY <3>2, <3>3 DEF Gets, Even, Follows, o
    <2> QED BY <2>4, <2>5, <2>6
  <1> QED BY <1>2, <1>3
LEMMA Stat ==
    ASSUME NEW s \in State, NEW p \in Procs, NEW path \in Paths, s.p_cwd[p] \in Inos
    PROVE  Even(s, do_stat(s, p, path).s)
  <1> DEFINE d == dir_namev(s, p, path)
             l == lookup(d.s, d.ino, Last1(path))
             o == do_stat(s, p, path)
  <1>1. Gets(s, d) /\ (d.err = "0" => path.names # <<>>)
    BY DirNamev
  <1>2. CASE d.err # "0"
    <2>1. o = d
      BY <1>2 DEF do_stat, Lookup, Then
    <2> HIDE DEF d, o
    <2> QED BY <1>1, <1>2, <2>1 DEF Gets, o
  <1>3. CASE d.err = "0"
    <2>1. o.s = IF l.err # "0" THEN vput(l.s, d.ino) ELSE vput(vput(l.s, d.ino), l.ino)
      BY <1>3 DEF do_stat, Lookup, Then, With, Result
    <2> HIDE DEF d
    <2>2. d.s \in State /\ d.ino \in Inos /\ path.names # <<>>
      BY <1>1, <1>3 DEF Gets
    <2>3. LookedUp(d.s, d.ino, Last1(path), l)
      BY <2>2, LookupIs
    <2>4. Last1(path) \in STRING \ {NoName} /\ Last1(path) \in NameSet
      BY <2>2, LastName
    <2> HIDE DEF l, o
    <2>5. ASSUME l.err # "0" PROVE l.s = d.s /\ Even(s, vput(l.s, d.ino))
      <3>1. l.s = d.s
        BY <2>3, <2>5 DEF LookedUp
      <3> QED BY <1>1, <1>3, <2>2, <3>1, EvenSelf, PutBack
    <2>6. l.err = "0" => /\ Even(s, vput(vput(l.s, d.ino), l.ino))
                         /\ \A r : Even(l.s, r) => Even(s, vput(vput(r, l.ino), d.ino))
      BY <1>1, <1>3, <2>3, PutBackBoth
    <2> QED BY <2>1, <2>5, <2>6 DEF o
  <1> QED BY <1>2, <1>3

LEMMA Mkdir ==
    ASSUME NEW s \in State, NEW p \in Procs, NEW path \in Paths, s.p_cwd[p] \in Inos
    PROVE  Even(s, do_mkdir(s, p, path).s)
  <1> DEFINE d == dir_namev(s, p, path)
             l == lookup(d.s, d.ino, Last1(path))
             o == do_mkdir(s, p, path)
  <1>1. Gets(s, d) /\ (d.err = "0" => path.names # <<>>)
    BY DirNamev
  <1>2. CASE d.err # "0"
    <2>1. o = d
      BY <1>2 DEF do_mkdir, Lookup, Then
    <2> HIDE DEF d, o
    <2> QED BY <1>1, <1>2, <2>1 DEF Gets, o
  <1>3. CASE d.err = "0"
    <2>1. o.s = IF l.err = "0" THEN vput(vput(l.s, d.ino), l.ino)
               ELSE IF ~IsDir(l.s, d.ino) THEN vput(l.s, d.ino)
               ELSE vput(ramfs_mkdir(l.s, d.ino, Last1(path)).s, d.ino)
      BY <1>3 DEF do_mkdir, Lookup, Then, With, Result
    <2> HIDE DEF d
    <2>2. d.s \in State /\ d.ino \in Inos /\ path.names # <<>>
      BY <1>1, <1>3 DEF Gets
    <2>3. LookedUp(d.s, d.ino, Last1(path), l)
      BY <2>2, LookupIs
    <2>4. Last1(path) \in STRING \ {NoName} /\ Last1(path) \in NameSet
      BY <2>2, LastName
    <2> HIDE DEF l, o
    <2>5. ASSUME l.err # "0" PROVE l.s = d.s /\ Even(s, vput(l.s, d.ino))
      <3>1. l.s = d.s
        BY <2>3, <2>5 DEF LookedUp
      <3> QED BY <1>1, <1>3, <2>2, <3>1, EvenSelf, PutBack
    <2>6. l.err = "0" => /\ Even(s, vput(vput(l.s, d.ino), l.ino))
                         /\ \A r : Even(l.s, r) => Even(s, vput(vput(r, l.ino), d.ino))
      BY <1>1, <1>3, <2>3, PutBackBoth
    <2>7. CASE l.err # "0" /\ IsDir(l.s, d.ino)
      <3>1. l.s = d.s
        BY <2>5, <2>7
      <3>2. Even(d.s, ramfs_mkdir(d.s, d.ino, Last1(path)).s)
        BY <2>2, <2>4, <2>7, <3>1, RamfsMkdir
      <3>3. Even(s, vput(ramfs_mkdir(d.s, d.ino, Last1(path)).s, d.ino))
        BY <1>1, <1>3, <3>2, PutBack
      <3> QED BY <2>1, <2>7, <3>1, <3>3 DEF o
    <2> QED BY <2>1, <2>5, <2>6, <2>7 DEF o
  <1> QED BY <1>2, <1>3

LEMMA LinkToIs ==
    ASSUME NEW s \in State, NEW p \in Procs, NEW path \in Paths, s.p_cwd[p] \in Inos, NEW old \in Inos,
           s.panic = "no" => Rc(s, old) > 0
    PROVE  Even(s, LinkTo(s, old, p, path).s)
  <1> DEFINE d == dir_namev(s, p, path)
             l == lookup(d.s, d.ino, Last1(path))
             o == LinkTo(s, old, p, path)
  <1>1. Gets(s, d) /\ (d.err = "0" => path.names # <<>>)
    BY DirNamev
  <1>2. CASE d.err # "0"
    <2>1. o = d
      BY <1>2 DEF LinkTo, Lookup, Then
    <2> HIDE DEF d, o
    <2> QED BY <1>1, <1>2, <2>1 DEF Gets, o
  <1>3. CASE d.err = "0"
    <2>1. o.s = IF l.err = "0" THEN vput(vput(l.s, d.ino), l.ino)
               ELSE IF ~IsDir(l.s, d.ino) THEN vput(l.s, d.ino)
               ELSE vput(ramfs_link(l.s, old, d.ino, Last1(path)).s, d.ino)
      BY <1>3 DEF LinkTo, Lookup, Then, With, Result
    <2> HIDE DEF d
    <2>2. d.s \in State /\ d.ino \in Inos /\ path.names # <<>>
      BY <1>1, <1>3 DEF Gets
    <2>3. LookedUp(d.s, d.ino, Last1(path), l)
      BY <2>2, LookupIs
    <2>4. Last1(path) \in STRING \ {NoName} /\ Last1(path) \in NameSet
      BY <2>2, LastName
    <2> HIDE DEF l, o
    <2>5. ASSUME l.err # "0" PROVE l.s = d.s /\ Even(s, vput(l.s, d.ino))
      <3>1. l.s = d.s
        BY <2>3, <2>5 DEF LookedUp
      <3> QED BY <1>1, <1>3, <2>2, <3>1, EvenSelf, PutBack
    <2>6. l.err = "0" => /\ Even(s, vput(vput(l.s, d.ino), l.ino))
                         /\ \A r : Even(l.s, r) => Even(s, vput(vput(r, l.ino), d.ino))
      BY <1>1, <1>3, <2>3, PutBackBoth
    <2>7. CASE l.err # "0" /\ IsDir(l.s, d.ino)
      <3>1. l.s = d.s
        BY <2>5, <2>7
      <3>2. d.s.panic = "no" => Rc(d.s, old) > 0
        <4>1. Up(s, d.s, d.ino)
          BY <1>1, <1>3 DEF Gets
        <4>2. d.s.panic = "no" => s.panic = "no" /\ Rc(d.s, old) = Rc(s, old) + If(old = d.ino)
          BY <4>1 DEF Up, Follows
        <4>3. If(old = d.ino) \in {0, 1} /\ Rc(s, old) \in Nat
          BY RcType DEF If
        <4> QED BY <4>2, <4>3
      <3>3. Even(d.s, ramfs_link(d.s, old, d.ino, Last1(path)).s)
        BY <2>2, <2>4, <2>7, <3>1, <3>2, RamfsLink
      <3>4. Even(s, vput(ramfs_link(d.s, old, d.ino, Last1(path)).s, d.ino))
        BY <1>1, <1>3, <3>3, PutBack
      <3> QED BY <2>1, <2>7, <3>1, <3>4 DEF o
    <2> QED BY <2>1, <2>5, <2>6, <2>7 DEF o
  <1> QED BY <1>2, <1>3

LEMMA UnlinkCall ==
    ASSUME NEW s \in State, NEW p \in Procs, NEW path \in Paths, s.p_cwd[p] \in Inos
    PROVE  Even(s, do_unlink(s, p, path).s)
  <1> DEFINE d == dir_namev(s, p, path)
             l == lookup(d.s, d.ino, Last1(path))
             o == do_unlink(s, p, path)
  <1>1. Gets(s, d) /\ (d.err = "0" => path.names # <<>>)
    BY DirNamev
  <1>2. CASE d.err # "0"
    <2>1. o = d
      BY <1>2 DEF do_unlink, Lookup, Then
    <2> HIDE DEF d, o
    <2> QED BY <1>1, <1>2, <2>1 DEF Gets, o
  <1>3. CASE d.err = "0"
    <2>1. o.s = IF l.err # "0" THEN vput(l.s, d.ino)
               ELSE IF IsDir(l.s, l.ino) THEN vput(vput(l.s, d.ino), l.ino)
               ELSE vput(vput(ramfs_unlink(l.s, d.ino, Last1(path)), l.ino), d.ino)
      BY <1>3 DEF do_unlink, Lookup, Then, With, Result
    <2> HIDE DEF d
    <2>2. d.s \in State /\ d.ino \in Inos /\ path.names # <<>>
      BY <1>1, <1>3 DEF Gets
    <2>3. LookedUp(d.s, d.ino, Last1(path), l)
      BY <2>2, LookupIs
    <2>4. Last1(path) \in STRING \ {NoName} /\ Last1(path) \in NameSet
      BY <2>2, LastName
    <2> HIDE DEF l, o
    <2>5. ASSUME l.err # "0" PROVE l.s = d.s /\ Even(s, vput(l.s, d.ino))
      <3>1. l.s = d.s
        BY <2>3, <2>5 DEF LookedUp
      <3> QED BY <1>1, <1>3, <2>2, <3>1, EvenSelf, PutBack
    <2>6. l.err = "0" => /\ Even(s, vput(vput(l.s, d.ino), l.ino))
                         /\ \A r : Even(l.s, r) => Even(s, vput(vput(r, l.ino), d.ino))
      BY <1>1, <1>3, <2>3, PutBackBoth
    <2>7. CASE l.err = "0"
      <3>1. /\ SameNames(d.s, l.s) /\ IsDir(d.s, d.ino) /\ SlotsOf(d.s, d.ino, Last1(path)) # {}
            /\ l.s \in State
        BY <2>3, <2>7 DEF LookedUp, Up, Follows
      <3>2. IsDir(l.s, d.ino) /\ SlotsOf(l.s, d.ino, Last1(path)) # {}
        BY <2>2, <3>1, SlotSame
      <3>3. NoDotPaths => Last1(path) \notin {".", ".."}
        BY <2>2, LastName
      <3>4. Even(l.s, ramfs_unlink(l.s, d.ino, Last1(path)))
        BY <2>2, <2>4, <3>1, <3>2, <3>3, RamfsUnlink
      <3>5. Even(s, vput(vput(ramfs_unlink(l.s, d.ino, Last1(path)), l.ino), d.ino))
        BY <2>6, <2>7, <3>4
      <3> QED BY <2>1, <2>6, <2>7, <3>5 DEF o
    <2> QED BY <2>1, <2>5, <2>7 DEF o
  <1> QED BY <1>2, <1>3

LEMMA Rmdir ==
    ASSUME NEW s \in State, NEW p \in Procs, NEW path \in Paths, s.p_cwd[p] \in Inos, ~IsDot(path)
    PROVE  Even(s, do_rmdir(s, p, path).s)
  <1> DEFINE d == dir_namev(s, p, path)
             o == do_rmdir(s, p, path)
  <1>1. Gets(s, d) /\ (d.err = "0" => path.names # <<>>)
    BY DirNamev
  <1>2. CASE d.err # "0"
    <2>1. o = d
      BY <1>2 DEF do_rmdir, Then
    <2> HIDE DEF d, o
    <2> QED BY <1>1, <1>2, <2>1 DEF Gets, o
  <1>3. CASE d.err = "0"
    <2>1. o.s = IF ~IsDir(d.s, d.ino) THEN vput(d.s, d.ino)
                ELSE vput(ramfs_rmdir(d.s, d.ino, Last1(path)).s, d.ino)
      BY <1>3 DEF do_rmdir, Then, With, Result
    <2> HIDE DEF d, o
    <2>2. d.s \in State /\ d.ino \in Inos /\ path.names # <<>>
      BY <1>1, <1>3 DEF Gets
    <2>3. Even(s, vput(d.s, d.ino))
      BY <1>1, <1>3, <2>2, EvenSelf, PutBack
    <2>4. CASE IsDir(d.s, d.ino)
      <3>1. Last1(path) \in STRING \ {NoName} /\ Last1(path) \notin {".", ".."}
        BY <2>2, LastName
      <3>2. Even(d.s, ramfs_rmdir(d.s, d.ino, Last1(path)).s)
        BY <2>2, <2>4, <3>1, RamfsRmdir
      <3>3. Even(s, vput(ramfs_rmdir(d.s, d.ino, Last1(path)).s, d.ino))
        BY <1>1, <1>3, <3>2, PutBack
      <3> QED BY <2>1, <2>4, <3>3 DEF o
    <2> QED BY <2>1, <2>3, <2>4 DEF o
  <1> QED BY <1>2, <1>3

LEMMA LinkCall ==
    ASSUME NEW s \in State, NEW p \in Procs, NEW from \in Paths, NEW to \in Paths, s.p_cwd[p] \in Inos
    PROVE  Even(s, do_link(s, p, from, to).s)
  <1> DEFINE o == open_namev(s, p, from, FALSE)
             k == LinkTo(o.s, o.ino, p, to)
             r == do_link(s, p, from, to)
  <1>1. Gets(s, o)
    BY OpenNamev
  <1>2. CASE o.err # "0"
    <2>1. r = o
      BY <1>2 DEF do_link, Then
    <2> HIDE DEF o, r
    <2> QED BY <1>1, <1>2, <2>1 DEF Gets, r
  <1>3. CASE o.err = "0"
    <2>1. r.s = vput(k.s, o.ino)
      BY <1>3 DEF do_link, Then, With, Result
    <2> HIDE DEF o, r
    <2>2. Up(s, o.s, o.ino) /\ o.ino \in Inos /\ o.s \in State
      BY <1>1, <1>3 DEF Gets
    <2>3. o.s.p_cwd[p] \in Inos
      BY <2>2, FromCwd DEF Up
    <2>4. o.s.panic = "no" => Rc(o.s, o.ino) > 0
      BY <2>2, UpHolds
    <2>5. Even(o.s, k.s)
      BY <2>2, <2>3, <2>4, LinkToIs
    <2> HIDE DEF k
    <2>6. Even(s, vput(k.s, o.ino))
      BY <1>1, <1>3, <2>5, PutBack
    <2> QED BY <2>1, <2>6 DEF r
  <1> QED BY <1>2, <1>3

LEMMA Rename ==
    ASSUME NEW s \in State, NEW p \in Procs, NEW old \in Paths, NEW new \in Paths, s.p_cwd[p] \in Inos
    PROVE  Even(s, do_rename(s, p, old, new).s)
  <1> DEFINE k == do_link(s, p, old, new)
  <1>1. Even(s, k.s)
    BY LinkCall
  <1>2. do_rename(s, p, old, new) = IF k.err = "0" THEN do_unlink(k.s, p, old) ELSE k
    BY DEF do_rename, Then
  <1> HIDE DEF k
  <1>3. k.s \in State /\ k.s.p_cwd[p] \in Inos
    BY <1>1, FromCwd DEF Even
  <1>4. Even(k.s, do_unlink(k.s, p, old).s)
    BY <1>3, UnlinkCall
  <1>5. Even(s, do_unlink(k.s, p, old).s)
    BY <1>1, <1>4, EvenFirst
  <1> QED BY <1>1, <1>2, <1>5
-----------------------------------------------------------------------------
(* Counting: when one value of a function changes, the new value is taken  *)
(* once more and the old one once less.                                    *)
Count(A, f, v) == Cardinality({x \in A : f[x] = v})
One(f, a, v)   == If(f[a] = v)
Is(x, y)       == If(x = y)

LEMMA CountMoves ==
    ASSUME NEW A, IsFiniteSet(A), NEW f, NEW g, NEW a \in A, \A x \in A : x # a => g[x] = f[x],
           NEW v
    PROVE  Count(A, g, v) + One(f, a, v) = Count(A, f, v) + One(g, a, v)
  <1> DEFINE F == {x \in A : f[x] = v}
             G == {x \in A : g[x] = v}
             R == {x \in A : x # a /\ f[x] = v}
  <1>1. IsFiniteSet(R) /\ Cardinality(R) \in Nat /\ a \notin R
    <2>1. R \subseteq A
      OBVIOUS
    <2> QED BY <2>1, FS_Subset, FS_CardinalityType
  <1>2. IsFiniteSet(R \union {a}) /\ Cardinality(R \union {a}) = Cardinality(R) + 1
    BY <1>1, FS_AddElement
  <1>3. F = IF f[a] = v THEN R \union {a} ELSE R
    OBVIOUS
  <1>4. G = IF g[a] = v THEN R \union {a} ELSE R
    OBVIOUS
  <1> HIDE DEF F, G, R
  <1>5. Cardinality(F) = Cardinality(R) + If(f[a] = v)
    BY <1>1, <1>2, <1>3 DEF If
  <1>6. Cardinality(G) = Cardinality(R) + If(g[a] = v)
    BY <1>1, <1>2, <1>4 DEF If
  <1>7. If(f[a] = v) \in {0, 1} /\ If(g[a] = v) \in {0, 1}
    BY DEF If
  <1>8. Cardinality(G) + If(f[a] = v) = Cardinality(F) + If(g[a] = v)
    BY <1>1, <1>5, <1>6, <1>7
  <1> QED BY <1>8 DEF F, G, Count, One

LEMMA FinitePools ==
    /\ IsFiniteSet(Files) /\ IsFiniteSet(Procs \X Fds) /\ IsFiniteSet(Procs)
    /\ Cardinality(Files) = NFILES * Cardinality(Procs)
    /\ Cardinality(Procs \X Fds) = Cardinality(Procs) * NFILES
    /\ Cardinality(Procs) \in Nat /\ NFILES \in Nat \ {0}
  <1>1. NFILES \in Nat \ {0} /\ IsFiniteSet(Procs)
    BY VFSAssumption
  <1>2. Cardinality(Procs) \in Nat
    BY <1>1, FS_CardinalityType
  <1>3. NFILES * Cardinality(Procs) \in Nat
    BY <1>1, <1>2
  <1>4. IsFiniteSet(Files) /\ Cardinality(Files) = NFILES * Cardinality(Procs)
    <2> DEFINE n == NFILES * Cardinality(Procs)
    <2> HIDE DEF n
    <2>1. n \in Nat
      BY <1>3 DEF n
    <2>2. IsFiniteSet(1 .. n) /\ Cardinality(1 .. n) = n
      <3>1. 1 \in Int /\ n \in Int
        BY <2>1
      <3>2. IsFiniteSet(1 .. n) /\ Cardinality(1 .. n) = IF 1 > n THEN 0 ELSE n - 1 + 1
        BY <3>1, FS_Interval
      <3> QED BY <2>1, <3>2
    <2> QED BY <2>2 DEF n, Files
  <1>5. IsFiniteSet(Fds) /\ Cardinality(Fds) = NFILES
    <2>1. 0 \in Int /\ NFILES - 1 \in Int
      BY <1>1
    <2>2. IsFiniteSet(0 .. NFILES - 1)
          /\ Cardinality(0 .. NFILES - 1) = IF 0 > NFILES - 1 THEN 0 ELSE NFILES - 1 - 0 + 1
      BY <2>1, FS_Interval
    <2> QED BY <1>1, <2>2 DEF Fds
  <1>6. IsFiniteSet(Procs \X Fds) /\ Cardinality(Procs \X Fds) = Cardinality(Procs) * NFILES
    BY <1>1, <1>5, FS_Product
  <1> QED BY <1>1, <1>2, <1>4, <1>6

LEMMA Counts1 ==
    ASSUME NEW s, NEW v
    PROVE  /\ Cardinality(FdsOf(s, v)) \in Nat /\ Cardinality(FilesOn(s, v)) \in Nat
           /\ Cardinality(ProcsIn(s, v)) \in Nat
           /\ IsFiniteSet(FdsOf(s, v)) /\ IsFiniteSet(FilesOn(s, v)) /\ IsFiniteSet(ProcsIn(s, v))
  <1>1. FdsOf(s, v) \subseteq Procs \X Fds /\ FilesOn(s, v) \subseteq Files /\ ProcsIn(s, v) \subseteq Procs
    BY DEF FdsOf, FilesOn, ProcsIn
  <1> QED BY <1>1, FinitePools, FS_Subset, FS_CardinalityType

LEMMA CwdMoves ==
    ASSUME NEW s, NEW r, NEW p \in Procs, \A q \in Procs : q # p => r.p_cwd[q] = s.p_cwd[q], NEW i
    PROVE  Cardinality(ProcsIn(r, i)) + Is(s.p_cwd[p], i) = Cardinality(ProcsIn(s, i)) + Is(r.p_cwd[p], i)
  <1>0. IsFiniteSet(Procs)
    BY FinitePools
  <1>1. Count(Procs, r.p_cwd, i) + One(s.p_cwd, p, i) = Count(Procs, s.p_cwd, i) + One(r.p_cwd, p, i)
    BY <1>0, CountMoves
  <1> QED BY <1>1 DEF ProcsIn, Count, One, Is

OthersSame(s, r, f) == \A g \in Files : g # f => r.file[g].f_vnode = s.file[g].f_vnode

LEMMA FileMoves ==
    ASSUME NEW s, NEW r, NEW f \in Files, OthersSame(s, r, f), NEW i
    PROVE  Cardinality(FilesOn(r, i)) + Is(s.file[f].f_vnode, i)
               = Cardinality(FilesOn(s, i)) + Is(r.file[f].f_vnode, i)
  <1> DEFINE u == [g \in Files |-> s.file[g].f_vnode]
             w == [g \in Files |-> r.file[g].f_vnode]
  <1>1. \A g \in Files : g # f => w[g] = u[g]
    BY DEF OthersSame
  <1>2. /\ u[f] = s.file[f].f_vnode /\ w[f] = r.file[f].f_vnode
        /\ FilesOn(s, i) = {g \in Files : u[g] = i} /\ FilesOn(r, i) = {g \in Files : w[g] = i}
    BY DEF FilesOn
  <1>4. Cardinality(FilesOn(s, i)) = Count(Files, u, i) /\ Cardinality(FilesOn(r, i)) = Count(Files, w, i)
    BY <1>2 DEF Count
  <1> HIDE DEF u, w
  <1>0. IsFiniteSet(Files)
    BY FinitePools
  <1>3. Count(Files, w, i) + One(u, f, i) = Count(Files, u, i) + One(w, f, i)
    BY <1>0, <1>1, CountMoves
  <1> QED BY <1>2, <1>3, <1>4 DEF One, Is

LEMMA FdMoves ==
    ASSUME NEW s \in State, NEW r, NEW p \in Procs, NEW fd \in Fds, NEW h,
           r.p_files = [s.p_files EXCEPT ![p][fd] = h], NEW f
    PROVE  Cardinality(FdsOf(r, f)) + Is(s.p_files[p][fd], f) = Cardinality(FdsOf(s, f)) + Is(h, f)
  <1> DEFINE u == [e \in Procs \X Fds |-> s.p_files[e[1]][e[2]]]
             w == [e \in Procs \X Fds |-> r.p_files[e[1]][e[2]]]
             a == <<p, fd>>
  <1>1. /\ r.p_files[p][fd] = h
        /\ \A q \in Procs, k \in Fds : ~(q = p /\ k = fd) => r.p_files[q][k] = s.p_files[q][k]
    BY DEF State
  <1>2. a \in Procs \X Fds /\ u[a] = s.p_files[p][fd] /\ w[a] = h
    BY <1>1
  <1>3. ASSUME NEW e \in Procs \X Fds, e # a PROVE w[e] = u[e]
    <2>1. e[1] \in Procs /\ e[2] \in Fds /\ e = <<e[1], e[2]>>
      OBVIOUS
    <2>2. ~(e[1] = p /\ e[2] = fd)
      BY <1>3, <2>1
    <2>3. r.p_files[e[1]][e[2]] = s.p_files[e[1]][e[2]]
      BY <1>1, <2>1, <2>2
    <2> QED BY <2>3
  <1>4. FdsOf(s, f) = {e \in Procs \X Fds : u[e] = f} /\ FdsOf(r, f) = {e \in Procs \X Fds : w[e] = f}
    BY DEF FdsOf
  <1>6. /\ Cardinality(FdsOf(s, f)) = Count(Procs \X Fds, u, f)
        /\ Cardinality(FdsOf(r, f)) = Count(Procs \X Fds, w, f)
    BY <1>4 DEF Count
  <1> HIDE DEF u, w, a
  <1>0. IsFiniteSet(Procs \X Fds)
    BY FinitePools
  <1>5. Count(Procs \X Fds, w, f) + One(u, a, f) = Count(Procs \X Fds, u, f) + One(w, a, f)
    BY <1>0, <1>2, <1>3, CountMoves
  <1> QED BY <1>2, <1>5, <1>6 DEF One, Is
-----------------------------------------------------------------------------
(* The invariant.  Within a call, one file y may not have its vnode yet,   *)
(* one inode d may have a reference that nothing holds yet, and the count  *)
(* of a file may differ from the number of its descriptors.                *)
Owed(s, i) == Cardinality(FilesOn(s, i)) + Cardinality(ProcsIn(s, i))
              + (IF i = Root THEN 2 ELSE 0) + s.lost[i]

FilesOK(s, y) == \A f \in Files :
    /\ s.file[f].f_refcount = 0 => s.file[f].f_vnode = NoIno
    /\ s.file[f].f_refcount > 0 /\ f # y => s.file[f].f_vnode \in Inos

VnodesOK(s, d) == \A i \in Inos : Rc(s, i) = Owed(s, i) + If(i = d)

Midway(s, y, d) == s \in State /\ (s.panic = "no" => Good(s) /\ FilesOK(s, y) /\ VnodesOK(s, d))

(* By how much a file's count exceeds its descriptors.                     *)
Off(s, f) == s.file[f].f_refcount - Cardinality(FdsOf(s, f))

Settled(s) == Midway(s, NULL, NoIno) /\ (s.panic = "no" => \A f \in Files : Off(s, f) = 0)

LEMMA OwedType == ASSUME NEW s \in State, NEW i \in Inos PROVE Owed(s, i) \in Nat
  <1>1. s.lost[i] \in Nat /\ (IF i = Root THEN 2 ELSE 0) \in Nat
    BY DEF State
  <1> QED BY <1>1, Counts1 DEF Owed

LEMMA NoOne == \A i \in Inos : If(i = NoIno) = 0
  BY Basics DEF If

LEMMA OffSame ==
    ASSUME NEW s, NEW r, Tables(s, r), NEW f
    PROVE  Off(r, f) = Off(s, f)
  BY DEF Tables, Off, FdsOf

LEMMA OwedSame ==
    ASSUME NEW s, NEW r, Tables(s, r), NEW i
    PROVE  Owed(r, i) = Owed(s, i)
  BY DEF Tables, Owed, FilesOn, ProcsIn

LEMMA EvenMidway ==
    ASSUME NEW s, NEW r, NEW y, NEW d, Midway(s, y, d), Even(s, r)
    PROVE  Midway(r, y, d)
  <1> SUFFICES ASSUME r.panic = "no" PROVE Good(r) /\ FilesOK(r, y) /\ VnodesOK(r, d)
    BY DEF Midway, Even, Follows
  <1>1. s.panic = "no" /\ Good(r) /\ Tables(s, r)
    BY DEF Midway, Even, Follows
  <1>2. FilesOK(r, y)
    BY <1>1 DEF Midway, FilesOK, Tables
  <1>3. VnodesOK(r, d)
    BY <1>1, OwedSame DEF Midway, VnodesOK, Even
  <1> QED BY <1>1, <1>2, <1>3

LEMMA UpMidway ==
    ASSUME NEW s, NEW r, NEW y, NEW d \in Inos, Midway(s, y, NoIno), Up(s, r, d)
    PROVE  Midway(r, y, d)
  <1> SUFFICES ASSUME r.panic = "no" PROVE Good(r) /\ FilesOK(r, y) /\ VnodesOK(r, d)
    BY DEF Midway, Up, Follows
  <1>1. s.panic = "no" /\ Good(r) /\ Tables(s, r) /\ s \in State
    BY DEF Midway, Up, Follows
  <1>2. FilesOK(r, y)
    BY <1>1 DEF Midway, FilesOK, Tables
  <1>3. ASSUME NEW i \in Inos PROVE Rc(r, i) = Owed(r, i) + If(i = d)
    <2>1. Rc(s, i) = Owed(s, i) + If(i = NoIno) /\ Rc(r, i) = Rc(s, i) + If(i = d)
      BY <1>1 DEF Midway, VnodesOK, Up
    <2>2. If(i = NoIno) = 0 /\ Owed(r, i) = Owed(s, i) /\ Owed(s, i) \in Nat
      BY <1>1, NoOne, OwedSame, OwedType
    <2> QED BY <2>1, <2>2
  <1> QED BY <1>1, <1>2, <1>3 DEF VnodesOK

LEMMA DownMidway ==
    ASSUME NEW s, NEW r, NEW y, NEW d \in Inos, Midway(s, y, d), Down(s, r, d)
    PROVE  Midway(r, y, NoIno)
  <1> SUFFICES ASSUME r.panic = "no" PROVE Good(r) /\ FilesOK(r, y) /\ VnodesOK(r, NoIno)
    BY DEF Midway, Down, Follows
  <1>1. s.panic = "no" /\ Good(r) /\ Tables(s, r) /\ s \in State /\ r \in State
    BY DEF Midway, Down, Follows
  <1>2. FilesOK(r, y)
    BY <1>1 DEF Midway, FilesOK, Tables
  <1>3. ASSUME NEW i \in Inos PROVE Rc(r, i) = Owed(r, i) + If(i = NoIno)
    <2>1. Rc(s, i) = Owed(s, i) + If(i = d) /\ Rc(s, i) = Rc(r, i) + If(i = d)
      BY <1>1 DEF Midway, VnodesOK, Down
    <2>2. If(i = NoIno) = 0 /\ Owed(r, i) = Owed(s, i) /\ Owed(s, i) \in Nat /\ Rc(r, i) \in Nat
      BY <1>1, NoOne, OwedSame, OwedType, RcType
    <2>3. If(i = d) \in {0, 1}
      BY DEF If
    <2> QED BY <2>1, <2>2, <2>3
  <1> QED BY <1>1, <1>2, <1>3 DEF VnodesOK

LEMMA EvenSettled ==
    ASSUME NEW s, NEW r, Settled(s), Even(s, r)
    PROVE  Settled(r)
  <1>1. Midway(r, NULL, NoIno)
    BY EvenMidway DEF Settled
  <1>2. r.panic = "no" => s.panic = "no"
    BY DEF Even, Follows
  <1>3. \A f \in Files : Off(r, f) = Off(s, f)
    BY OffSame DEF Even, Follows
  <1> QED BY <1>1, <1>2, <1>3 DEF Settled

(* A vnode's count exceeds what is owed by nothing else.                   *)
LEMMA FileHolds ==
    ASSUME NEW s, NEW y, NEW d, Midway(s, y, d), s.panic = "no", NEW f \in Files,
           s.file[f].f_vnode \in Inos
    PROVE  Rc(s, s.file[f].f_vnode) > 0
  <1> DEFINE i == s.file[f].f_vnode
  <1>1. f \in FilesOn(s, i)
    BY DEF FilesOn
  <1> HIDE DEF i
  <1>2. Cardinality(FilesOn(s, i)) # 0
    <2>1. FilesOn(s, i) # {} /\ IsFiniteSet(FilesOn(s, i))
      BY <1>1, Counts1
    <2> QED BY <2>1, FS_EmptySet
  <1>3. i \in Inos /\ s \in State
    BY DEF i, Midway
  <1>4. /\ Cardinality(FilesOn(s, i)) \in Nat /\ Cardinality(ProcsIn(s, i)) \in Nat
        /\ s.lost[i] \in Nat /\ (IF i = Root THEN 2 ELSE 0) \in Nat /\ If(i = d) \in Nat
    BY <1>3, Counts1 DEF State, If
  <1>5. Rc(s, i) = Owed(s, i) + If(i = d)
    BY <1>3 DEF Midway, VnodesOK
  <1>6. Rc(s, i) > 0
    BY <1>2, <1>4, <1>5 DEF Owed
  <1> QED BY <1>6 DEF i
-----------------------------------------------------------------------------
(* File references and descriptors                                         *)
LEMMA SetFile ==
    ASSUME NEW s \in State, NEW f \in Files, NEW x \in FileSet
    PROVE  LET r == [s EXCEPT !.file[f] = x]
           IN  /\ r \in State /\ r.inode = s.inode /\ r.vnode = s.vnode /\ r.p_files = s.p_files
               /\ r.p_cwd = s.p_cwd /\ r.lost = s.lost /\ r.panic = s.panic
               /\ r.file[f] = x /\ \A g \in Files : g # f => r.file[g] = s.file[g]
  BY DEF State

LEMMA SetFdIs ==
    ASSUME NEW s \in State, NEW p \in Procs, NEW fd \in Fds, NEW f \in Files \union {NULL}
    PROVE  LET r == SetFd(s, p, fd, f)
           IN  /\ r \in State /\ r.inode = s.inode /\ r.vnode = s.vnode /\ r.file = s.file
               /\ r.p_cwd = s.p_cwd /\ r.lost = s.lost /\ r.panic = s.panic
               /\ r.p_files = [s.p_files EXCEPT ![p][fd] = f]
               /\ r.p_files[p][fd] = f
               /\ \A k \in Fds : k # fd => r.p_files[p][k] = s.p_files[p][k]
  BY DEF State, SetFd

LEMMA GoodSame ==
    ASSUME NEW s, NEW r, r.inode = s.inode, r.vnode = s.vnode
    PROVE  Good(s) => Good(r)
  <1>1. FreeEmpty(s) => FreeEmpty(r)
    BY DEF FreeEmpty
  <1>2. InUse(s) => InUse(r)
    BY DEF InUse, Rc
  <1>3. LengthsMatch(s) => LengthsMatch(r)
    BY DEF LengthsMatch, Rc
  <1>4. \A i \in Inos : LinksOf(r, i) = LinksOf(s, i)
    BY DEF LinksOf, Names, IsName, IsDir, Cached
  <1>5. LinksEnough(s) => LinksEnough(r)
    BY <1>4 DEF LinksEnough
  <1> QED BY <1>1, <1>2, <1>3, <1>5 DEF Good

LEMMA FileType ==
    ASSUME NEW s \in State, NEW f \in Files
    PROVE  /\ s.file[f] \in FileSet /\ s.file[f].f_refcount \in Nat
           /\ s.file[f].f_vnode \in Inos \union {NoIno} /\ s.file[f].f_pos \in Int
  BY DEF State, FileSet

LEMMA Recount ==
    ASSUME NEW s, NEW y, NEW d, Midway(s, y, d), NEW f \in Files, NEW n \in Nat,
           s.panic = "no" => s.file[f].f_refcount > 0 /\ n > 0
    PROVE  LET r == [s EXCEPT !.file[f].f_refcount = n]
           IN  /\ Midway(r, y, d) /\ r.panic = s.panic /\ r.p_files = s.p_files /\ r.p_cwd = s.p_cwd
               /\ r.file[f].f_refcount = n /\ r.file[f].f_vnode = s.file[f].f_vnode
               /\ \A g \in Files : g # f => r.file[g] = s.file[g]
  <1> DEFINE x == [s.file[f] EXCEPT !.f_refcount = n]
             r == [s EXCEPT !.file[f] = x]
  <1>1. s \in State /\ s.file[f] \in FileSet
    BY FileType DEF Midway
  <1>2. r = [s EXCEPT !.file[f].f_refcount = n]
    BY <1>1 DEF State
  <1>3. x \in FileSet /\ x.f_refcount = n /\ x.f_vnode = s.file[f].f_vnode
    BY <1>1 DEF FileSet
  <1> HIDE DEF x
  <1>4. /\ r \in State /\ r.inode = s.inode /\ r.vnode = s.vnode /\ r.p_files = s.p_files
        /\ r.p_cwd = s.p_cwd /\ r.lost = s.lost /\ r.panic = s.panic
        /\ r.file[f] = x /\ \A g \in Files : g # f => r.file[g] = s.file[g]
    BY <1>1, <1>3, SetFile
  <1> HIDE DEF r
  <1>5. ASSUME r.panic = "no" PROVE Good(r) /\ FilesOK(r, y) /\ VnodesOK(r, d)
    <2>1. Good(s) /\ FilesOK(s, y) /\ VnodesOK(s, d) /\ s.file[f].f_refcount > 0 /\ n > 0
      BY <1>4, <1>5 DEF Midway
    <2>2. Good(r)
      BY <1>4, <2>1, GoodSame
    <2>3. FilesOK(r, y)
      BY <1>3, <1>4, <2>1 DEF FilesOK
    <2>4. \A g \in Files : r.file[g].f_vnode = s.file[g].f_vnode
      BY <1>3, <1>4
    <2>5. \A i \in Inos : Owed(r, i) = Owed(s, i) /\ Rc(r, i) = Rc(s, i)
      BY <1>4, <2>4 DEF Owed, FilesOn, ProcsIn, Rc
    <2>6. VnodesOK(r, d)
      BY <2>1, <2>5 DEF VnodesOK
    <2> QED BY <2>2, <2>3, <2>6
  <1>6. Midway(r, y, d)
    BY <1>4, <1>5 DEF Midway
  <1> QED BY <1>2, <1>3, <1>4, <1>6

LEMMA FRef ==
    ASSUME NEW s, NEW y, NEW d, Midway(s, y, d), NEW f \in Files,
           s.panic = "no" => s.file[f].f_refcount > 0
    PROVE  LET r == fref(s, f)
           IN  /\ Midway(r, y, d) /\ r.panic = s.panic /\ r.p_files = s.p_files /\ r.p_cwd = s.p_cwd
               /\ r.file[f].f_refcount = s.file[f].f_refcount + 1
               /\ r.file[f].f_vnode = s.file[f].f_vnode
               /\ \A g \in Files : g # f => r.file[g] = s.file[g]
               /\ \A g \in Files : Off(r, g) = Off(s, g) + If(g = f)
  <1> DEFINE n == s.file[f].f_refcount + 1
             r == fref(s, f)
  <1>1. s \in State /\ s.file[f].f_refcount \in Nat
    BY FileType DEF Midway
  <1>2. n \in Nat /\ n > 0 /\ n = s.file[f].f_refcount + 1
    BY <1>1
  <1>3. r = [s EXCEPT !.file[f].f_refcount = n]
    BY DEF fref
  <1> HIDE DEF r, n
  <1>4. /\ Midway(r, y, d) /\ r.panic = s.panic /\ r.p_files = s.p_files /\ r.p_cwd = s.p_cwd
        /\ r.file[f].f_refcount = n /\ r.file[f].f_vnode = s.file[f].f_vnode
        /\ \A g \in Files : g # f => r.file[g] = s.file[g]
    <2> DEFINE t == [s EXCEPT !.file[f].f_refcount = n]
    <2>1. /\ Midway(t, y, d) /\ t.panic = s.panic /\ t.p_files = s.p_files /\ t.p_cwd = s.p_cwd
          /\ t.file[f].f_refcount = n /\ t.file[f].f_vnode = s.file[f].f_vnode
          /\ \A g \in Files : g # f => t.file[g] = s.file[g]
      BY <1>2, Recount
    <2>2. r = t
      BY <1>3
    <2> HIDE DEF t
    <2> QED BY <2>1, <2>2
  <1>5. ASSUME NEW g \in Files PROVE Off(r, g) = Off(s, g) + If(g = f)
    <2>0. Cardinality(FdsOf(s, g)) \in Nat
      BY Counts1
    <2>1. FdsOf(r, g) = FdsOf(s, g)
      BY <1>4 DEF FdsOf
    <2>2. s.file[g].f_refcount \in Nat
      BY <1>1, FileType
    <2>3. CASE g = f
      BY <1>1, <1>2, <1>4, <2>0, <2>1, <2>3 DEF Off, If
    <2>4. CASE g # f
      BY <1>4, <2>0, <2>1, <2>2, <2>4 DEF Off, If
    <2> QED BY <2>3, <2>4
  <1> QED BY <1>2, <1>4, <1>5 DEF r

(* The last reference of a file goes, and with it that of its vnode.       *)
LEMMA FPutLast ==
    ASSUME NEW s, NEW y, NEW d, Midway(s, y, d), NEW f \in Files, ~(s.file[f].f_refcount > 1),
           s.panic = "no" => s.file[f].f_refcount > 0, s.file[f].f_vnode = NoIno \/ d = NoIno
    PROVE  LET r == fput(s, f)
           IN  /\ Midway(r, y, d) /\ (r.panic = "no" => s.panic = "no")
               /\ r.p_files = s.p_files /\ r.p_cwd = s.p_cwd
               /\ r.file[f].f_refcount = 0 /\ \A g \in Files : g # f => r.file[g] = s.file[g]
  <1> DEFINE v == s.file[f].f_vnode
             t == [s EXCEPT !.file[f] = NoFile]
             r == fput(s, f)
  <1>1. s \in State /\ s.file[f] \in FileSet /\ v \in Inos \union {NoIno}
    BY FileType DEF Midway
  <1>2. r = IF v = NoIno THEN t ELSE vput(t, v)
    BY Basics DEF fput
  <1>3. /\ t \in State /\ t.inode = s.inode /\ t.vnode = s.vnode /\ t.p_files = s.p_files
        /\ t.p_cwd = s.p_cwd /\ t.lost = s.lost /\ t.panic = s.panic
        /\ t.file[f] = NoFile /\ \A g \in Files : g # f => t.file[g] = s.file[g]
    BY <1>1, Basics, SetFile
  <1> HIDE DEF t, r, v
  <1>4. t.file[f].f_refcount = 0 /\ t.file[f].f_vnode = NoIno
    BY <1>3 DEF NoFile
  <1>5. ASSUME NEW i \in Inos
        PROVE  Owed(t, i) + If(v = i) = Owed(s, i) /\ Owed(t, i) \in Nat /\ Rc(t, i) = Rc(s, i)
    <2>1. Cardinality(FilesOn(t, i)) + If(v = i) = Cardinality(FilesOn(s, i)) + If(NoIno = i)
      <3>1. OthersSame(s, t, f)
        BY <1>3 DEF OthersSame
      <3>2. Cardinality(FilesOn(t, i)) + Is(s.file[f].f_vnode, i)
                = Cardinality(FilesOn(s, i)) + Is(t.file[f].f_vnode, i)
        BY <3>1, FileMoves
      <3> QED BY <1>4, <3>2 DEF v, Is
    <2>2. If(NoIno = i) = 0 /\ If(v = i) \in {0, 1}
      BY Basics DEF If
    <2>3. /\ ProcsIn(t, i) = ProcsIn(s, i) /\ t.lost[i] = s.lost[i]
      BY <1>3 DEF ProcsIn
    <2>4. /\ Cardinality(FilesOn(t, i)) \in Nat /\ Cardinality(FilesOn(s, i)) \in Nat
          /\ Cardinality(ProcsIn(s, i)) \in Nat
          /\ s.lost[i] \in Nat /\ (IF i = Root THEN 2 ELSE 0) \in Nat
      BY <1>1, Counts1 DEF State
    <2>5. Owed(t, i) + If(v = i) = Owed(s, i)
      BY <2>1, <2>2, <2>3, <2>4 DEF Owed
    <2>6. Owed(t, i) \in Nat
      BY <1>3, OwedType
    <2> QED BY <1>3, <2>5, <2>6 DEF Rc
  <1>6. s.panic = "no" => Good(t) /\ FilesOK(t, y)
    <2>1. ASSUME s.panic = "no" PROVE FilesOK(t, y)
      BY <1>3, <1>4, <2>1 DEF Midway, FilesOK
    <2> QED BY <1>3, <2>1, GoodSame DEF Midway
  <1>7. CASE v = NoIno
    <2>1. ASSUME s.panic = "no" PROVE VnodesOK(t, d)
      <3>1. ASSUME NEW i \in Inos PROVE Rc(t, i) = Owed(t, i) + If(i = d)
        <4>1. If(v = i) = 0
          BY <1>7, Basics DEF If
        <4>2. Owed(t, i) = Owed(s, i) /\ Rc(t, i) = Rc(s, i)
          BY <1>5, <4>1
        <4>3. Rc(s, i) = Owed(s, i) + If(i = d)
          BY <2>1 DEF Midway, VnodesOK
        <4> QED BY <4>2, <4>3
      <3> QED BY <3>1 DEF VnodesOK
    <2>2. Midway(t, y, d)
      BY <1>3, <1>6, <2>1 DEF Midway
    <2> QED BY <1>2, <1>3, <1>4, <1>7, <2>2 DEF r
  <1>8. CASE v # NoIno
    <2>1. v \in Inos /\ d = NoIno
      BY <1>1, <1>8 DEF v
    <2>2. ASSUME s.panic = "no" PROVE VnodesOK(t, v)
      <3>1. ASSUME NEW i \in Inos PROVE Rc(t, i) = Owed(t, i) + If(i = v)
        <4>1. If(i = v) = If(v = i)
          BY DEF If
        <4>2. Rc(s, i) = Owed(s, i) + If(i = NoIno) /\ If(i = NoIno) = 0 /\ Owed(s, i) \in Nat
          BY <1>1, <2>1, <2>2, NoOne, OwedType DEF Midway, VnodesOK
        <4> QED BY <1>5, <4>1, <4>2
      <3> QED BY <3>1 DEF VnodesOK
    <2>3. Midway(t, y, v)
      BY <1>3, <1>6, <2>2 DEF Midway
    <2>4. Down(t, vput(t, v), v) /\ r = vput(t, v)
      BY <1>2, <1>3, <1>8, <2>1, VputDown
    <2>5. Midway(r, y, NoIno)
      BY <2>1, <2>3, <2>4, DownMidway
    <2>6. Tables(t, r) /\ (r.panic = "no" => t.panic = "no")
      BY <2>4 DEF Down, Follows
    <2> QED BY <1>3, <1>4, <2>1, <2>5, <2>6 DEF r, Tables
  <1> QED BY <1>7, <1>8

LEMMA FPut ==
    ASSUME NEW s, NEW y, NEW d, Midway(s, y, d), NEW f \in Files,
           s.panic = "no" => s.file[f].f_refcount > 0, s.file[f].f_vnode = NoIno \/ d = NoIno
    PROVE  LET r == fput(s, f)
           IN  /\ Midway(r, y, d) /\ (r.panic = "no" => s.panic = "no")
               /\ r.p_files = s.p_files /\ r.p_cwd = s.p_cwd
               /\ s.panic = "no" => r.file[f].f_refcount = s.file[f].f_refcount - 1
               /\ \A g \in Files : g # f => r.file[g] = s.file[g]
               /\ s.panic = "no" => \A g \in Files : Off(r, g) = Off(s, g) - If(g = f)
  <1> DEFINE n == s.file[f].f_refcount - 1
             r == fput(s, f)
  <1>1. s \in State /\ s.file[f].f_refcount \in Nat
    BY FileType DEF Midway
  <1>2. /\ Midway(r, y, d) /\ (r.panic = "no" => s.panic = "no")
        /\ r.p_files = s.p_files /\ r.p_cwd = s.p_cwd
        /\ \A g \in Files : g # f => r.file[g] = s.file[g]
        /\ s.panic = "no" => r.file[f].f_refcount = s.file[f].f_refcount - 1
    <2>1. CASE s.file[f].f_refcount > 1
      <3> DEFINE t == [s EXCEPT !.file[f].f_refcount = n]
      <3>1. n \in Nat /\ n > 0 /\ n = s.file[f].f_refcount - 1
        BY <1>1, <2>1
      <3>2. r = t
        BY <2>1, Basics DEF fput
      <3> HIDE DEF n, r
      <3>3. /\ Midway(t, y, d) /\ t.panic = s.panic /\ t.p_files = s.p_files /\ t.p_cwd = s.p_cwd
            /\ t.file[f].f_refcount = n /\ t.file[f].f_vnode = s.file[f].f_vnode
            /\ \A g \in Files : g # f => t.file[g] = s.file[g]
        BY <3>1, Recount
      <3> HIDE DEF t
      <3> QED BY <3>1, <3>2, <3>3 DEF r
    <2>2. CASE ~(s.file[f].f_refcount > 1)
      <3>1. /\ Midway(r, y, d) /\ (r.panic = "no" => s.panic = "no")
            /\ r.p_files = s.p_files /\ r.p_cwd = s.p_cwd
            /\ r.file[f].f_refcount = 0 /\ \A g \in Files : g # f => r.file[g] = s.file[g]
        BY <2>2, FPutLast
      <3> HIDE DEF r
      <3>2. s.panic = "no" => s.file[f].f_refcount = 1
        BY <1>1, <2>2
      <3> QED BY <3>1, <3>2 DEF r
    <2> QED BY <2>1, <2>2
  <1> HIDE DEF r, n
  <1>3. ASSUME s.panic = "no", NEW g \in Files PROVE Off(r, g) = Off(s, g) - If(g = f)
    <2>0. Cardinality(FdsOf(s, g)) \in Nat
      BY Counts1
    <2>1. FdsOf(r, g) = FdsOf(s, g)
      BY <1>2 DEF FdsOf
    <2>2. s.file[g].f_refcount \in Nat
      BY <1>1, FileType
    <2>3. CASE g = f
      BY <1>1, <1>2, <1>3, <2>0, <2>1, <2>3 DEF Off, If
    <2>4. CASE g # f
      BY <1>2, <2>0, <2>1, <2>2, <2>4 DEF Off, If
    <2> QED BY <2>3, <2>4
  <1> QED BY <1>2, <1>3 DEF r

LEMMA SetFdMidway ==
    ASSUME NEW s, NEW y, NEW d, Midway(s, y, d), NEW p \in Procs, NEW fd \in Fds,
           NEW f \in Files \union {NULL}
    PROVE  LET r == SetFd(s, p, fd, f)
           IN  /\ Midway(r, y, d) /\ r.panic = s.panic /\ r.file = s.file /\ r.p_cwd = s.p_cwd
               /\ r.p_files[p][fd] = f
               /\ \A k \in Fds : k # fd => r.p_files[p][k] = s.p_files[p][k]
               /\ \A g \in Files : Off(r, g) + If(g = f) = Off(s, g) + If(g = s.p_files[p][fd])
  <1> DEFINE r == SetFd(s, p, fd, f)
  <1>1. s \in State
    BY DEF Midway
  <1>2. /\ r \in State /\ r.inode = s.inode /\ r.vnode = s.vnode /\ r.file = s.file
        /\ r.p_cwd = s.p_cwd /\ r.lost = s.lost /\ r.panic = s.panic
        /\ r.p_files = [s.p_files EXCEPT ![p][fd] = f]
        /\ r.p_files[p][fd] = f
        /\ \A k \in Fds : k # fd => r.p_files[p][k] = s.p_files[p][k]
    BY <1>1, SetFdIs
  <1> HIDE DEF r
  <1>3. \A i \in Inos : Owed(r, i) = Owed(s, i) /\ Rc(r, i) = Rc(s, i)
    BY <1>2 DEF Owed, FilesOn, ProcsIn, Rc
  <1>4. Midway(r, y, d)
    <2>1. ASSUME r.panic = "no" PROVE Good(r) /\ FilesOK(r, y) /\ VnodesOK(r, d)
      <3>1. Good(r)
        BY <1>2, <2>1, GoodSame DEF Midway
      <3>2. FilesOK(r, y)
        BY <1>2, <2>1 DEF Midway, FilesOK
      <3>3. VnodesOK(r, d)
        BY <1>2, <1>3, <2>1 DEF Midway, VnodesOK
      <3> QED BY <3>1, <3>2, <3>3
    <2> QED BY <1>2, <2>1 DEF Midway
  <1>5. ASSUME NEW g \in Files
        PROVE  Off(r, g) + If(g = f) = Off(s, g) + If(g = s.p_files[p][fd])
    <2>1. Cardinality(FdsOf(r, g)) + If(s.p_files[p][fd] = g) = Cardinality(FdsOf(s, g)) + If(f = g)
      <3>1. Cardinality(FdsOf(r, g)) + Is(s.p_files[p][fd], g) = Cardinality(FdsOf(s, g)) + Is(f, g)
        BY <1>1, <1>2, FdMoves
      <3> QED BY <3>1 DEF Is
    <2>2. /\ If(s.p_files[p][fd] = g) = If(g = s.p_files[p][fd]) /\ If(f = g) = If(g = f)
          /\ If(g = s.p_files[p][fd]) \in {0, 1} /\ If(g = f) \in {0, 1}
      BY DEF If
    <2>3. /\ Cardinality(FdsOf(r, g)) \in Nat /\ Cardinality(FdsOf(s, g)) \in Nat
          /\ s.file[g].f_refcount \in Nat /\ r.file[g].f_refcount = s.file[g].f_refcount
      BY <1>1, <1>2, Counts1, FileType
    <2> HIDE DEF r
    <2> QED BY <2>1, <2>2, <2>3 DEF Off
  <1> QED BY <1>2, <1>4, <1>5 DEF r-----------------------------------------------------------------------------
(* The calls on open descriptors                                           *)
LEMMA OffType == ASSUME NEW s \in State, NEW f \in Files PROVE Off(s, f) \in Int
  BY FileType, Counts1 DEF Off

(* A file that a descriptor names is in use, and so is its vnode.          *)
LEMMA NamedFile ==
    ASSUME NEW s, Midway(s, NULL, NoIno), s.panic = "no", NEW p \in Procs, NEW fd \in Fds,
           s.p_files[p][fd] # NULL, Off(s, s.p_files[p][fd]) >= 0
    PROVE  LET f == s.p_files[p][fd]
           IN  /\ f \in Files /\ s.file[f].f_refcount > 0
               /\ s.file[f].f_vnode \in Inos /\ Rc(s, s.file[f].f_vnode) > 0
  <1> DEFINE f == s.p_files[p][fd]
  <1>1. s \in State /\ f \in Files
    BY DEF Midway, State
  <1>2. <<p, fd>> \in FdsOf(s, f)
    BY DEF FdsOf
  <1>0. Off(s, f) >= 0
    OBVIOUS
  <1> HIDE DEF f
  <1>3. Cardinality(FdsOf(s, f)) # 0 /\ Cardinality(FdsOf(s, f)) \in Nat
    BY <1>2, Counts1, FS_EmptySet
  <1>4. s.file[f].f_refcount > 0
    BY <1>0, <1>1, <1>3, FileType DEF Off
  <1>5. s.file[f].f_vnode \in Inos
    BY <1>1, <1>4, Basics DEF Midway, FilesOK
  <1>6. Rc(s, s.file[f].f_vnode) > 0
    BY <1>1, <1>5, FileHolds
  <1> QED BY <1>1, <1>4, <1>5, <1>6 DEF f

LEMMA Close ==
    ASSUME NEW s, Midway(s, NULL, NoIno), NEW p \in Procs, NEW fd \in Fds,
           s.p_files[p][fd] # NULL, s.panic = "no" => Off(s, s.p_files[p][fd]) >= 0
    PROVE  LET r == do_close(s, p, fd)
           IN  /\ Midway(r, NULL, NoIno) /\ (r.panic = "no" => s.panic = "no")
               /\ r.p_cwd = s.p_cwd /\ r.p_files[p][fd] = NULL
               /\ \A k \in Fds : k # fd => r.p_files[p][k] = s.p_files[p][k]
               /\ r.panic = "no" => \A g \in Files : Off(r, g) = Off(s, g)
  <1> DEFINE f == s.p_files[p][fd]
             a == fref(s, f)
             b == fput(a, f)
             c == fput(b, f)
             r == SetFd(c, p, fd, NULL)
  <1>1. s \in State /\ f \in Files /\ (s.panic = "no" => s.file[f].f_refcount > 0)
    <2>1. s \in State /\ f \in Files
      BY DEF Midway, State
    <2>2. s.panic = "no" => s.file[f].f_refcount > 0
      BY NamedFile
    <2> QED BY <2>1, <2>2
  <1>2. do_close(s, p, fd) = r
    BY DEF do_close, With, FileOf
  <1>3. f = s.p_files[p][fd]
    OBVIOUS
  <1> HIDE DEF f, r
  <1>4. s.file[f].f_refcount \in Nat
    BY <1>1, FileType
  <1>5. /\ Midway(a, NULL, NoIno) /\ a.panic = s.panic /\ a.p_files = s.p_files /\ a.p_cwd = s.p_cwd
        /\ a.file[f].f_refcount = s.file[f].f_refcount + 1
        /\ \A g \in Files : Off(a, g) = Off(s, g) + If(g = f)
    BY <1>1, FRef
  <1> HIDE DEF a
  <1>6. a.panic = "no" => a.file[f].f_refcount > 0
    BY <1>4, <1>5
  <1>7. /\ Midway(b, NULL, NoIno) /\ (b.panic = "no" => a.panic = "no")
        /\ b.p_files = a.p_files /\ b.p_cwd = a.p_cwd
        /\ a.panic = "no" => b.file[f].f_refcount = a.file[f].f_refcount - 1
        /\ a.panic = "no" => \A g \in Files : Off(b, g) = Off(a, g) - If(g = f)
    BY <1>1, <1>5, <1>6, FPut
  <1> HIDE DEF b
  <1>8. b.panic = "no" => b.file[f].f_refcount > 0
    BY <1>1, <1>4, <1>5, <1>7
  <1>9. /\ Midway(c, NULL, NoIno) /\ (c.panic = "no" => b.panic = "no")
        /\ c.p_files = b.p_files /\ c.p_cwd = b.p_cwd
        /\ b.panic = "no" => \A g \in Files : Off(c, g) = Off(b, g) - If(g = f)
    BY <1>1, <1>7, <1>8, FPut
  <1> HIDE DEF c
  <1>10. /\ Midway(r, NULL, NoIno) /\ r.panic = c.panic /\ r.p_cwd = c.p_cwd
         /\ r.p_files[p][fd] = NULL
         /\ \A k \in Fds : k # fd => r.p_files[p][k] = c.p_files[p][k]
         /\ \A g \in Files : Off(r, g) + If(g = NULL) = Off(c, g) + If(g = c.p_files[p][fd])
    BY <1>9, SetFdMidway DEF r
  <1>11. ASSUME r.panic = "no", NEW g \in Files PROVE Off(r, g) = Off(s, g)
    <2>1. c.panic = "no" /\ b.panic = "no" /\ a.panic = "no"
      BY <1>7, <1>9, <1>10, <1>11
    <2>2. If(g = NULL) = 0 /\ If(g = f) \in {0, 1}
      BY Basics DEF If
    <2>3. c.p_files[p][fd] = f
      BY <1>3, <1>5, <1>7, <1>9
    <2>4. Off(r, g) \in Int /\ Off(s, g) \in Int
      BY <1>1, <1>10, OffType DEF Midway
    <2>5. /\ Off(a, g) = Off(s, g) + If(g = f) /\ Off(b, g) = Off(a, g) - If(g = f)
          /\ Off(c, g) = Off(b, g) - If(g = f) /\ Off(r, g) + If(g = NULL) = Off(c, g) + If(g = f)
      BY <1>5, <1>7, <1>9, <1>10, <2>1, <2>3
    <2> QED BY <2>2, <2>4, <2>5
  <1> QED BY <1>2, <1>5, <1>7, <1>9, <1>10, <1>11

LEMMA CloseCall ==
    ASSUME NEW s, Settled(s), s.panic = "no", NEW p \in Procs, NEW fd \in Fds, s.p_files[p][fd] # NULL
    PROVE  Settled(do_close(s, p, fd))
  <1>1. Midway(s, NULL, NoIno) /\ Off(s, s.p_files[p][fd]) >= 0
    <2>1. s.p_files[p][fd] \in Files
      BY DEF Settled, Midway, State
    <2> QED BY <2>1 DEF Settled
  <1> DEFINE r == do_close(s, p, fd)
  <1>2. /\ Midway(r, NULL, NoIno)
        /\ r.panic = "no" => \A g \in Files : Off(r, g) = Off(s, g)
    BY <1>1, Close
  <1> HIDE DEF r
  <1>3. Settled(r)
    BY <1>2 DEF Settled
  <1> QED BY <1>3 DEF r

LEMMA EmptyFd ==
    ASSUME NEW s \in State, NEW p \in Procs, get_empty_fd(s, p) # -1
    PROVE  get_empty_fd(s, p) \in Fds /\ s.p_files[p][get_empty_fd(s, p)] = NULL
  <1> DEFINE free == {fd \in Fds : s.p_files[p][fd] = NULL}
  <1>1. free # {} /\ get_empty_fd(s, p) = Least(free)
    BY DEF get_empty_fd
  <1>2. free \in SUBSET Nat
    BY DEF Fds
  <1>3. Least(free) \in free
    BY <1>1, <1>2, LeastOne
  <1> QED BY <1>1, <1>3

(* A reference and a descriptor more.                                      *)
LEMMA Duplicate ==
    ASSUME NEW s, Midway(s, NULL, NoIno), s.panic = "no", NEW f \in Files, s.file[f].f_refcount > 0,
           NEW p \in Procs, NEW fd \in Fds, s.p_files[p][fd] = NULL, \A g \in Files : Off(s, g) = 0
    PROVE  Settled(SetFd(fref(s, f), p, fd, f))
  <1> DEFINE a == fref(s, f)
             r == SetFd(a, p, fd, f)
  <1>1. /\ Midway(a, NULL, NoIno) /\ a.panic = s.panic /\ a.p_files = s.p_files
        /\ \A g \in Files : Off(a, g) = Off(s, g) + If(g = f)
    BY FRef
  <1> HIDE DEF a
  <1>2. /\ Midway(r, NULL, NoIno)
        /\ \A g \in Files : Off(r, g) + If(g = f) = Off(a, g) + If(g = a.p_files[p][fd])
    BY <1>1, SetFdMidway
  <1> HIDE DEF r
  <1>3. ASSUME NEW g \in Files PROVE Off(r, g) = 0
    <2>1. If(g = NULL) = 0 /\ If(g = f) \in {0, 1}
      BY Basics DEF If
    <2>2. Off(r, g) + If(g = f) = Off(a, g) + If(g = NULL) /\ Off(a, g) = 0 + If(g = f)
      BY <1>1, <1>2
    <2>3. Off(r, g) \in Int
      BY <1>2, OffType DEF Midway
    <2> QED BY <2>1, <2>2, <2>3
  <1>4. Settled(r)
    BY <1>2, <1>3 DEF Settled
  <1> QED BY <1>4 DEF r, a

LEMMA DupCall ==
    ASSUME NEW s, Settled(s), s.panic = "no", NEW p \in Procs, NEW fd \in Fds, s.p_files[p][fd] # NULL,
           get_empty_fd(s, p) # -1
    PROVE  Settled(do_dup(s, p, fd))
  <1> DEFINE f == s.p_files[p][fd]
             e == get_empty_fd(s, p)
  <1>1. Midway(s, NULL, NoIno) /\ f \in Files /\ \A g \in Files : Off(s, g) = 0
    BY DEF Settled, Midway, State
  <1>2. do_dup(s, p, fd) = SetFd(fref(s, f), p, e, f)
    BY DEF do_dup, With, FileOf
  <1>3. e \in Fds /\ s.p_files[p][e] = NULL
    BY <1>1, EmptyFd DEF Midway
  <1>4. s.file[f].f_refcount > 0
    BY <1>1, NamedFile
  <1> HIDE DEF f, e
  <1> QED BY <1>1, <1>2, <1>3, <1>4, Duplicate
(* The reference that dup2 has taken is put back.                          *)
LEMMA PutAgain ==
    ASSUME NEW s, Settled(s), s.panic = "no", NEW f \in Files, s.file[f].f_refcount > 0
    PROVE  Settled(fput(fref(s, f), f))
  <1> DEFINE a == fref(s, f)
             b == fput(a, f)
  <1>0. Midway(s, NULL, NoIno) /\ s.file[f].f_refcount \in Nat /\ \A g \in Files : Off(s, g) = 0
    BY FileType DEF Settled, Midway
  <1>1. /\ Midway(a, NULL, NoIno) /\ a.panic = s.panic
        /\ a.file[f].f_refcount = s.file[f].f_refcount + 1
        /\ \A g \in Files : Off(a, g) = Off(s, g) + If(g = f)
    BY <1>0, FRef
  <1> HIDE DEF a
  <1>2. a.file[f].f_refcount > 0
    BY <1>0, <1>1
  <1>3. /\ Midway(b, NULL, NoIno)
        /\ a.panic = "no" => \A g \in Files : Off(b, g) = Off(a, g) - If(g = f)
    BY <1>1, <1>2, FPut
  <1> HIDE DEF b
  <1>4. ASSUME NEW g \in Files PROVE Off(b, g) = 0
    <2>1. If(g = f) \in {0, 1}
      BY DEF If
    <2>2. Off(b, g) = Off(a, g) - If(g = f) /\ Off(a, g) = 0 + If(g = f)
      BY <1>0, <1>1, <1>3
    <2> QED BY <2>1, <2>2
  <1>5. Settled(b)
    BY <1>3, <1>4 DEF Settled
  <1> QED BY <1>5 DEF a, b

LEMMA PanicSettled ==
    ASSUME NEW s \in State, NEW why \in Reasons \ {"no"}
    PROVE  Settled(Panic(s, why))
  BY SetPanic DEF Settled, Midway

(* The descriptor that dup2 replaces is closed, with its reference to the  *)
(* file already taken.                                                     *)
LEMMA Replace ==
    ASSUME NEW s, Settled(s), s.panic = "no", NEW p \in Procs, NEW f \in Files, s.file[f].f_refcount > 0,
           NEW fd \in Fds, s.p_files[p][fd] # NULL
    PROVE  Settled(SetFd(do_close(fref(s, f), p, fd), p, fd, f))
  <1> DEFINE a == fref(s, f)
             b == do_close(a, p, fd)
             r == SetFd(b, p, fd, f)
  <1>0. Midway(s, NULL, NoIno) /\ \A g \in Files : Off(s, g) = 0
    BY DEF Settled
  <1>1. /\ Midway(a, NULL, NoIno) /\ a.panic = s.panic /\ a.p_files = s.p_files
        /\ \A g \in Files : Off(a, g) = Off(s, g) + If(g = f)
    BY <1>0, FRef
  <1> HIDE DEF a
  <1>2. \A g \in Files : Off(a, g) = If(g = f) /\ Off(a, g) >= 0
    <2> SUFFICES ASSUME NEW g \in Files PROVE Off(a, g) = If(g = f) /\ Off(a, g) >= 0
      OBVIOUS
    <2>1. If(g = f) \in {0, 1} /\ Off(a, g) = 0 + If(g = f)
      BY <1>0, <1>1 DEF If
    <2> QED BY <2>1
  <1>3. a.p_files[p][fd] # NULL /\ a.p_files[p][fd] \in Files
    BY <1>1 DEF Midway, State
  <1>4. /\ Midway(b, NULL, NoIno) /\ (b.panic = "no" => a.panic = "no")
        /\ b.p_files[p][fd] = NULL
        /\ b.panic = "no" => \A g \in Files : Off(b, g) = Off(a, g)
    BY <1>1, <1>2, <1>3, Close
  <1> HIDE DEF b
  <1>5. /\ Midway(r, NULL, NoIno) /\ r.panic = b.panic
        /\ \A g \in Files : Off(r, g) + If(g = f) = Off(b, g) + If(g = b.p_files[p][fd])
    BY <1>4, SetFdMidway
  <1> HIDE DEF r
  <1>6. ASSUME r.panic = "no", NEW g \in Files PROVE Off(r, g) = 0
    <2>1. If(g = NULL) = 0 /\ If(g = f) \in {0, 1}
      BY Basics DEF If
    <2>2. Off(r, g) + If(g = f) = Off(b, g) + If(g = NULL) /\ Off(b, g) = Off(a, g) /\ Off(a, g) = If(g = f)
      BY <1>2, <1>4, <1>5, <1>6
    <2>3. Off(r, g) \in Int
      BY <1>5, OffType DEF Midway
    <2> QED BY <2>1, <2>2, <2>3
  <1>7. Settled(r)
    BY <1>5, <1>6 DEF Settled
  <1> QED BY <1>7 DEF r, b, a

LEMMA Dup2Call ==
    ASSUME NEW s, Settled(s), s.panic = "no", NEW p \in Procs, NEW fd \in Fds, s.p_files[p][fd] # NULL,
           NEW nfd \in 0 .. NFILES + 1
    PROVE  Settled(do_dup2(s, p, fd, nfd))
  <1> DEFINE f == s.p_files[p][fd]
             a == fref(s, f)
             r == do_dup2(s, p, fd, nfd)
  <1>1. Midway(s, NULL, NoIno) /\ f \in Files /\ \A g \in Files : Off(s, g) = 0
    BY DEF Settled, Midway, State
  <1>2. s.file[f].f_refcount > 0
    BY <1>1, NamedFile
  <1>3. r = IF nfd = fd \/ nfd > NFILES THEN fput(a, f)
            ELSE IF nfd = NFILES THEN fput(a, NULL)
            ELSE IF FileOf(a, p, nfd) # NULL THEN SetFd(do_close(a, p, nfd), p, nfd, f)
            ELSE SetFd(a, p, nfd, f)
    BY DEF do_dup2, With, FileOf
  <1>4. a.p_files = s.p_files /\ a \in State
    <2>1. a.p_files = s.p_files /\ Midway(a, NULL, NoIno)
      BY <1>1, <1>2, FRef
    <2> QED BY <2>1 DEF Midway
  <1> HIDE DEF r, f
  <1>5. CASE nfd = fd \/ nfd > NFILES
    <2>1. Settled(fput(a, f))
      BY <1>1, <1>2, PutAgain
    <2> QED BY <1>3, <1>5, <2>1 DEF r
  <1>6. CASE ~(nfd = fd \/ nfd > NFILES) /\ nfd = NFILES
    <2>1. Settled(Panic(a, "fput"))
      BY <1>4, PanicSettled DEF Reasons
    <2> QED BY <1>3, <1>6, <2>1 DEF r, fput
  <1>7. CASE ~(nfd = fd \/ nfd > NFILES) /\ nfd # NFILES
    <2>1. nfd \in Fds
      BY <1>7, VFSAssumption DEF Fds
    <2>2. CASE s.p_files[p][nfd] # NULL
      <3>1. r = SetFd(do_close(a, p, nfd), p, nfd, f)
        BY <1>3, <1>4, <1>7, <2>1, <2>2 DEF FileOf
      <3>2. Settled(SetFd(do_close(a, p, nfd), p, nfd, f))
        BY <1>1, <1>2, <2>1, <2>2, Replace
      <3> QED BY <3>1, <3>2 DEF r
    <2>3. CASE s.p_files[p][nfd] = NULL
      <3>1. r = SetFd(a, p, nfd, f)
        BY <1>3, <1>4, <1>7, <2>1, <2>3 DEF FileOf
      <3>2. Settled(SetFd(a, p, nfd, f))
        BY <1>1, <1>2, <2>1, <2>3, Duplicate
      <3> QED BY <3>1, <3>2 DEF r
    <2> QED BY <2>2, <2>3
  <1> QED BY <1>5, <1>6, <1>7-----------------------------------------------------------------------------
(* do_mknod, do_chdir and the processes                                    *)
LEMMA LoseOne ==
    ASSUME NEW s \in State, NEW i \in Inos
    PROVE  LET q == [s EXCEPT !.lost[i] = @ + 1]
           IN  /\ q \in State /\ q.inode = s.inode /\ q.vnode = s.vnode /\ q.file = s.file
               /\ q.p_files = s.p_files /\ q.p_cwd = s.p_cwd /\ q.panic = s.panic
               /\ \A j \in Inos : q.lost[j] = s.lost[j] + If(j = i)
  <1> DEFINE n == s.lost[i] + 1
             q == [s EXCEPT !.lost[i] = n]
  <1>1. s.lost \in [Inos -> Nat] /\ n \in Nat
    BY DEF State
  <1>2. q = [s EXCEPT !.lost[i] = @ + 1]
    BY DEF State
  <1>3. n = s.lost[i] + 1
    OBVIOUS
  <1> HIDE DEF n
  <1>4. /\ q \in State /\ q.inode = s.inode /\ q.vnode = s.vnode /\ q.file = s.file
        /\ q.p_files = s.p_files /\ q.p_cwd = s.p_cwd /\ q.panic = s.panic
        /\ q.lost = [s.lost EXCEPT ![i] = n]
    BY <1>1 DEF State
  <1> HIDE DEF q
  <1>5. ASSUME NEW j \in Inos PROVE q.lost[j] = s.lost[j] + If(j = i)
    BY <1>1, <1>3, <1>4 DEF If
  <1> QED BY <1>2, <1>4, <1>5

(* The reference to a node that exists is never put back, and counted as   *)
(* lost.                                                                   *)
LEMMA MknodExists ==
    ASSUME NEW s, Settled(s), NEW t, NEW d \in Inos, NEW i \in Inos,
           Follows(s, t), t.panic = "no" =>
               \A j \in Inos : Rc(t, j) = Rc(s, j) + If(j = d) + If(j = i)
    PROVE  Settled(vput([t EXCEPT !.lost[i] = @ + 1], d))
  <1> DEFINE q == [t EXCEPT !.lost[i] = @ + 1]
             v == vput(q, d)
  <1>0. t \in State /\ s \in State
    BY DEF Follows, Settled, Midway
  <1>1. /\ q \in State /\ q.inode = t.inode /\ q.vnode = t.vnode /\ q.file = t.file
        /\ q.p_files = t.p_files /\ q.p_cwd = t.p_cwd /\ q.panic = t.panic
        /\ \A j \in Inos : q.lost[j] = t.lost[j] + If(j = i)
    BY <1>0, LoseOne
  <1> HIDE DEF q
  <1>2. Down(q, v, d)
    BY <1>1, VputDown
  <1> HIDE DEF v
  <1>3. v \in State /\ Tables(q, v) /\ (v.panic = "no" => q.panic = "no" /\ (Good(q) => Good(v)))
    BY <1>2 DEF Down, Follows
  <1>4. Tables(s, t) /\ (t.panic = "no" => s.panic = "no" /\ (Good(s) => Good(t)))
    BY DEF Follows
  <1>5. v.file = s.file /\ v.p_files = s.p_files /\ v.p_cwd = s.p_cwd
        /\ \A j \in Inos : v.lost[j] = s.lost[j] + If(j = i)
    BY <1>1, <1>3, <1>4 DEF Tables
  <1>6. ASSUME v.panic = "no"
        PROVE  /\ Good(v) /\ FilesOK(v, NULL) /\ VnodesOK(v, NoIno)
               /\ \A f \in Files : Off(v, f) = 0
    <2>0. s.panic = "no" /\ t.panic = "no" /\ q.panic = "no" /\ Good(s) /\ FilesOK(s, NULL) /\ VnodesOK(s, NoIno)
      BY <1>1, <1>3, <1>4, <1>6 DEF Settled, Midway
    <2>1. Good(v)
      BY <1>1, <1>3, <1>4, <1>6, <2>0, GoodSame
    <2>2. FilesOK(v, NULL)
      BY <1>5, <2>0 DEF FilesOK
    <2>3. ASSUME NEW j \in Inos PROVE Rc(v, j) = Owed(v, j) + If(j = NoIno)
      <3>1. Rc(t, j) = Rc(s, j) + If(j = d) + If(j = i)
        BY <2>0
      <3>2. Rc(q, j) = Rc(v, j) + If(j = d) /\ Rc(q, j) = Rc(t, j)
        BY <1>1, <1>2, <1>6 DEF Down, Rc
      <3>3. Rc(s, j) = Owed(s, j) + If(j = NoIno) /\ If(j = NoIno) = 0
        BY <2>0, NoOne DEF VnodesOK
      <3>4. ProcsIn(v, j) = ProcsIn(s, j) /\ FilesOn(v, j) = FilesOn(s, j)
        BY <1>5 DEF ProcsIn, FilesOn
      <3>5. /\ Cardinality(FilesOn(s, j)) \in Nat /\ Cardinality(ProcsIn(s, j)) \in Nat
            /\ (IF j = Root THEN 2 ELSE 0) \in Nat /\ s.lost[j] \in Nat
            /\ If(j = d) \in {0, 1} /\ If(j = i) \in {0, 1}
        BY <1>0, Counts1 DEF State, If
      <3>6. Owed(v, j) = Owed(s, j) + If(j = i) /\ Owed(s, j) \in Nat
        BY <1>5, <3>4, <3>5 DEF Owed
      <3>7. Rc(s, j) \in Nat /\ Rc(v, j) \in Nat
        BY <1>0, <1>3, RcType
      <3> QED BY <3>1, <3>2, <3>3, <3>5, <3>6, <3>7
    <2>4. \A f \in Files : Off(v, f) = 0
      BY <1>5, <2>0 DEF Settled, Off, FdsOf
    <2> QED BY <2>1, <2>2, <2>3, <2>4 DEF VnodesOK
  <1>7. Settled(v)
    BY <1>3, <1>6 DEF Settled, Midway
  <1> QED BY <1>7 DEF v, q

LEMMA MknodCall ==
    ASSUME NEW s, Settled(s), NEW p \in Procs, NEW path \in Paths, s.p_cwd[p] \in Inos,
           NEW mode \in SpecialModes
    PROVE  Settled(do_mknod(s, p, path, mode).s)
  <1> DEFINE d == dir_namev(s, p, path)
             l == lookup(d.s, d.ino, Last1(path))
             o == do_mknod(s, p, path, mode)
  <1>0. s \in State
    BY DEF Settled, Midway
  <1>1. Gets(s, d) /\ (d.err = "0" => path.names # <<>>)
    BY <1>0, DirNamev
  <1>2. CASE d.err # "0"
    <2>1. o = d
      BY <1>2 DEF do_mknod, Lookup, Then
    <2> HIDE DEF d, o
    <2>2. Settled(d.s)
      BY <1>1, <1>2, EvenSettled DEF Gets
    <2> QED BY <2>1, <2>2 DEF o
  <1>3. CASE d.err = "0"
    <2>1. o.s = IF l.err = "0" THEN vput([l.s EXCEPT !.lost[l.ino] = @ + 1], d.ino)
               ELSE IF l.err # "-ENOENT" THEN vput(l.s, d.ino)
               ELSE vput(ramfs_mknod(l.s, d.ino, Last1(path), mode).s, d.ino)
      BY <1>3 DEF do_mknod, Lookup, Then, With, Result
    <2> HIDE DEF d
    <2>2. d.s \in State /\ d.ino \in Inos /\ path.names # <<>> /\ Up(s, d.s, d.ino)
      BY <1>1, <1>3 DEF Gets
    <2>3. LookedUp(d.s, d.ino, Last1(path), l)
      BY <2>2, LookupIs
    <2>4. Last1(path) \in NameSet
      BY <2>2, LastName
    <2> HIDE DEF l, o
    <2>5. CASE l.err = "0"
      <3>1. Up(d.s, l.s, l.ino) /\ l.ino \in Inos
        BY <2>3, <2>5 DEF LookedUp
      <3>2. Follows(s, l.s)
        BY <2>2, <3>1, FollowsAgain DEF Up
      <3>3. ASSUME l.s.panic = "no", NEW j \in Inos
            PROVE  Rc(l.s, j) = Rc(s, j) + If(j = d.ino) + If(j = l.ino)
        <4>1. d.s.panic = "no"
          BY <3>1, <3>3 DEF Up, Follows
        <4>2. Rc(l.s, j) = Rc(d.s, j) + If(j = l.ino)
          BY <3>1, <3>3 DEF Up
        <4>3. Rc(d.s, j) = Rc(s, j) + If(j = d.ino)
          BY <2>2, <4>1 DEF Up
        <4> QED BY <4>2, <4>3
      <3>4. Settled(vput([l.s EXCEPT !.lost[l.ino] = @ + 1], d.ino))
        BY <2>2, <3>1, <3>2, <3>3, MknodExists
      <3> QED BY <2>1, <2>5, <3>4 DEF o
    <2>6. CASE l.err # "0"
      <3>1. l.s = d.s
        BY <2>3, <2>6 DEF LookedUp
      <3>2. Settled(vput(d.s, d.ino))
        <4>1. Even(s, vput(d.s, d.ino))
          BY <1>0, <1>1, <1>3, <2>2, EvenSelf, PutBack
        <4> QED BY <4>1, EvenSettled
      <3>3. CASE l.err = "-ENOENT"
        <4>1. mode \in Modes \ {"FREE"}
          BY VFSAssumption DEF Modes
        <4>2. IsDir(d.s, d.ino)
          BY <2>3, <3>3 DEF LookedUp
        <4>3. Even(d.s, ramfs_mknod(d.s, d.ino, Last1(path), mode).s)
          BY <2>2, <2>4, <4>1, <4>2, RamfsMknod
        <4>4. Settled(vput(ramfs_mknod(d.s, d.ino, Last1(path), mode).s, d.ino))
          <5>1. Even(s, vput(ramfs_mknod(d.s, d.ino, Last1(path), mode).s, d.ino))
            BY <1>0, <1>1, <1>3, <4>3, PutBack
          <5> QED BY <5>1, EvenSettled
        <4> QED BY <2>1, <2>6, <3>1, <3>3, <4>4 DEF o
      <3> QED BY <2>1, <2>6, <3>1, <3>2, <3>3 DEF o
    <2> QED BY <2>5, <2>6
  <1> QED BY <1>2, <1>3

(* The reference d is the new working directory's, or there is none.       *)
LEMMA ChangeDirIs ==
    ASSUME NEW s, NEW d \in Inos \union {NoIno}, Midway(s, NULL, d), NEW p \in Procs, s.p_cwd[p] \in Inos
    PROVE  LET r == ChangeDir(s, p, d)
           IN  /\ Midway(r, NULL, NoIno) /\ (r.panic = "no" => s.panic = "no")
               /\ \A f \in Files : Off(r, f) = Off(s, f)
  <1> DEFINE c == s.p_cwd[p]
             v == vput(s, c)
             r == [v EXCEPT !.p_cwd[p] = d]
  <1>0. s \in State /\ c \in Inos
    BY DEF Midway
  <1>1. ChangeDir(s, p, d) = r
    BY DEF ChangeDir
  <1>2. Down(s, v, c)
    BY <1>0, VputDown
  <1> HIDE DEF v
  <1>3. v \in State /\ Tables(s, v) /\ (v.panic = "no" => s.panic = "no" /\ (Good(s) => Good(v)))
    BY <1>2 DEF Down, Follows
  <1>4. /\ r \in State /\ r.inode = v.inode /\ r.vnode = v.vnode /\ r.file = v.file
        /\ r.p_files = v.p_files /\ r.lost = v.lost /\ r.panic = v.panic
        /\ r.p_cwd = [v.p_cwd EXCEPT ![p] = d] /\ v.p_cwd \in [Procs -> Inos \union {NoIno}]
    BY <1>3 DEF State
  <1> HIDE DEF r
  <1>5. /\ r.file = s.file /\ r.p_files = s.p_files /\ r.lost = s.lost /\ r.p_cwd[p] = d
        /\ \A q \in Procs : q # p => r.p_cwd[q] = s.p_cwd[q]
    BY <1>3, <1>4 DEF Tables
  <1>6. c = s.p_cwd[p]
    OBVIOUS
  <1> HIDE DEF c
  <1>7. ASSUME r.panic = "no" PROVE Good(r) /\ FilesOK(r, NULL) /\ VnodesOK(r, NoIno)
    <2>0. s.panic = "no" /\ v.panic = "no" /\ Good(s) /\ FilesOK(s, NULL) /\ VnodesOK(s, d)
      BY <1>3, <1>4, <1>7 DEF Midway
    <2>1. Good(r)
      BY <1>3, <1>4, <1>7, <2>0, GoodSame
    <2>2. FilesOK(r, NULL)
      BY <1>5, <2>0 DEF FilesOK
    <2>3. ASSUME NEW j \in Inos PROVE Rc(r, j) = Owed(r, j) + If(j = NoIno)
      <3>1. Rc(s, j) = Owed(s, j) + If(j = d) /\ If(j = NoIno) = 0
        BY <2>0, NoOne DEF VnodesOK
      <3>2. Rc(s, j) = Rc(v, j) + If(j = c) /\ Rc(r, j) = Rc(v, j)
        BY <1>2, <1>4, <2>0 DEF Down, Rc
      <3>3. Cardinality(ProcsIn(r, j)) + If(j = c) = Cardinality(ProcsIn(s, j)) + If(j = d)
        <4>1. Cardinality(ProcsIn(r, j)) + Is(s.p_cwd[p], j) = Cardinality(ProcsIn(s, j)) + Is(r.p_cwd[p], j)
          <5>1. \A q \in Procs : q # p => r.p_cwd[q] = s.p_cwd[q]
            BY <1>5
          <5> QED BY <5>1, CwdMoves
        <4>2. Is(s.p_cwd[p], j) = If(j = c) /\ Is(r.p_cwd[p], j) = If(j = d)
          BY <1>5, <1>6 DEF Is, If
        <4> QED BY <4>1, <4>2
      <3>4. FilesOn(r, j) = FilesOn(s, j)
        BY <1>5 DEF FilesOn
      <3>5. /\ Cardinality(FilesOn(s, j)) \in Nat /\ Cardinality(ProcsIn(s, j)) \in Nat
            /\ Cardinality(ProcsIn(r, j)) \in Nat
            /\ (IF j = Root THEN 2 ELSE 0) \in Nat /\ s.lost[j] \in Nat
            /\ If(j = d) \in {0, 1} /\ If(j = c) \in {0, 1}
        BY <1>0, Counts1 DEF State, If
      <3>6. Owed(r, j) + If(j = c) = Owed(s, j) + If(j = d) /\ Owed(s, j) \in Nat /\ Owed(r, j) \in Nat
        BY <1>5, <3>3, <3>4, <3>5 DEF Owed
      <3>7. Rc(v, j) \in Nat
        BY <1>3, RcType
      <3> QED BY <3>1, <3>2, <3>5, <3>6, <3>7
    <2> QED BY <2>1, <2>2, <2>3 DEF VnodesOK
  <1>8. \A f \in Files : Off(r, f) = Off(s, f)
    BY <1>5 DEF Off, FdsOf
  <1>9. Midway(r, NULL, NoIno) /\ (r.panic = "no" => s.panic = "no")
    BY <1>3, <1>4, <1>7 DEF Midway
  <1> QED BY <1>1, <1>8, <1>9 DEF r

LEMMA ChdirCall ==
    ASSUME NEW s, Settled(s), NEW p \in Procs, NEW path \in Paths, s.p_cwd[p] \in Inos
    PROVE  Settled(do_chdir(s, p, path).s)
  <1> DEFINE o == open_namev(s, p, path, FALSE)
             k == do_chdir(s, p, path)
             r == ChangeDir(o.s, p, o.ino)
  <1>0. s \in State /\ Midway(s, NULL, NoIno)
    BY DEF Settled, Midway
  <1>1. Gets(s, o)
    BY <1>0, OpenNamev
  <1>2. CASE o.err # "0"
    <2>1. k = o
      BY <1>2 DEF do_chdir, Then
    <2> HIDE DEF o, k
    <2>2. Settled(o.s)
      BY <1>1, <1>2, EvenSettled DEF Gets
    <2> QED BY <2>1, <2>2 DEF k
  <1>3. CASE o.err = "0"
    <2>1. k.s = IF ~IsDir(o.s, o.ino) THEN vput(o.s, o.ino) ELSE r
      BY <1>3 DEF do_chdir, Then, Result
    <2> HIDE DEF o, k
    <2>2. o.s \in State /\ o.ino \in Inos /\ Up(s, o.s, o.ino)
      BY <1>1, <1>3 DEF Gets
    <2>3. Settled(vput(o.s, o.ino))
      <3>1. Even(s, vput(o.s, o.ino))
        BY <1>0, <1>1, <1>3, <2>2, EvenSelf, PutBack
      <3> QED BY <3>1, EvenSettled
    <2>4. Settled(r)
      <3>1. Midway(o.s, NULL, o.ino)
        BY <1>0, <2>2, UpMidway
      <3>2. o.s.p_cwd[p] \in Inos
        BY <1>0, <2>2, FromCwd DEF Up
      <3>3. /\ Midway(r, NULL, NoIno) /\ (r.panic = "no" => o.s.panic = "no")
            /\ \A f \in Files : Off(r, f) = Off(o.s, f)
        BY <2>2, <3>1, <3>2, ChangeDirIs
      <3> HIDE DEF r
      <3>4. (o.s.panic = "no" => s.panic = "no") /\ \A f \in Files : Off(o.s, f) = Off(s, f)
        BY <2>2, OffSame DEF Up, Follows
      <3> QED BY <3>3, <3>4 DEF Settled
    <2> QED BY <2>1, <2>3, <2>4 DEF k
  <1> QED BY <1>2, <1>3-----------------------------------------------------------------------------
(* do_open                                                                 *)

(* There is a file for every descriptor, so an empty one leaves a file     *)
(* free.                                                                   *)
LEMMA FreeFile ==
    ASSUME NEW s, Settled(s), s.panic = "no", NEW p \in Procs, NEW fd \in Fds, s.p_files[p][fd] = NULL
    PROVE  FreshFile(s) \in Files /\ s.file[FreshFile(s)].f_refcount = 0
  <1> DEFINE E == (Procs \X Fds) \ {<<p, fd>>}
             free == {f \in Files : s.file[f].f_refcount = 0}
  <1>0. s \in State /\ \A f \in Files : Off(s, f) = 0
    BY DEF Settled, Midway
  <1>1. IsFiniteSet(Procs \X Fds) /\ IsFiniteSet(Files)
    BY FinitePools
  <1>2. Cardinality(Procs \X Fds) = Cardinality(Files) /\ Cardinality(Files) \in Nat
    <2>1. Cardinality(Procs) \in Nat /\ NFILES \in Nat
      BY FinitePools
    <2>2. Cardinality(Procs \X Fds) = Cardinality(Procs) * NFILES
      BY FinitePools
    <2>3. Cardinality(Files) = NFILES * Cardinality(Procs)
      BY FinitePools
    <2>4. Cardinality(Procs) * NFILES = NFILES * Cardinality(Procs)
      BY <2>1
    <2>5. Cardinality(Files) \in Nat
      BY <1>1, FS_CardinalityType
    <2> QED BY <2>2, <2>3, <2>4, <2>5
  <1>3. IsFiniteSet(E) /\ Cardinality(E) < Cardinality(Files)
    <2>1. <<p, fd>> \in Procs \X Fds
      OBVIOUS
    <2>2. IsFiniteSet(E) /\ Cardinality(E) = Cardinality(Procs \X Fds) - 1
      BY <1>1, <2>1, FS_RemoveElement
    <2> HIDE DEF E
    <2> QED BY <1>2, <2>2
  <1>4. ASSUME free = {} PROVE FALSE
    <2> DEFINE g == [f \in Files |-> CHOOSE e \in E : s.p_files[e[1]][e[2]] = f]
    <2>1. ASSUME NEW f \in Files PROVE \E e \in E : s.p_files[e[1]][e[2]] = f
      <3>1. s.file[f].f_refcount # 0 /\ s.file[f].f_refcount \in Nat
        BY <1>0, <1>4, FileType
      <3>2. Cardinality(FdsOf(s, f)) # 0
        BY <1>0, <3>1, Counts1 DEF Off
      <3>3. FdsOf(s, f) # {}
        BY <3>2, FS_EmptySet
      <3>4. PICK e \in Procs \X Fds : s.p_files[e[1]][e[2]] = f
        BY <3>3 DEF FdsOf
      <3>5. e # <<p, fd>>
        BY <3>4, Basics
      <3> QED BY <3>4, <3>5
    <2> HIDE DEF E
    <2>2. \A f \in Files : g[f] \in E /\ s.p_files[g[f][1]][g[f][2]] = f
      BY <2>1
    <2>3. g \in [Files -> E]
      BY <2>2
    <2> HIDE DEF g
    <2>4. PICK x \in Files, y \in Files : x # y /\ g[x] = g[y]
      BY <1>1, <1>3, <2>3, FS_PigeonHole
    <2> QED BY <2>2, <2>4
  <1>5. free \in SUBSET Nat
    BY Basics
  <1>6. Least(free) \in free
    BY <1>4, <1>5, LeastOne
  <1> QED BY <1>6 DEF FreshFile

LEMMA ModeType ==
    ASSUME NEW flags \in OpenFlags, flags.access # "3"
    PROVE  Mode(flags) \in SUBSET {"READ", "WRITE", "APPEND"}
  <1>1. flags.access \in {"O_RDONLY", "O_WRONLY", "O_RDWR"}
    BY VFSAssumption
  <1>2. CASE flags.access = "O_RDONLY"
    BY <1>2 DEF Mode
  <1>3. CASE flags.access = "O_WRONLY"
    BY <1>3 DEF Mode
  <1>4. CASE flags.access = "O_RDWR"
    BY <1>4 DEF Mode
  <1> QED BY <1>1, <1>2, <1>3, <1>4

LEMMA NewFileIs ==
    ASSUME NEW s, Settled(s), s.panic = "no", NEW p \in Procs, NEW fd \in Fds, s.p_files[p][fd] = NULL,
           NEW f \in Files, s.file[f].f_refcount = 0, NEW flags \in OpenFlags, flags.access # "3"
    PROVE  LET n == NewFile(s, p, fd, f, flags)
           IN  /\ Midway(n, f, NoIno) /\ n.panic = "no" /\ n.p_cwd = s.p_cwd /\ n.p_files[p][fd] = f
               /\ n.file[f].f_refcount = 1 /\ n.file[f].f_vnode = NoIno
               /\ \A g \in Files : Off(n, g) = 0
  <1> DEFINE a == SetFd(s, p, fd, f)
             x1 == [NoFile EXCEPT !.f_refcount = 1]
             x == [x1 EXCEPT !.f_mode = Mode(flags)]
             n == [a EXCEPT !.file[f] = x]
  <1>0. /\ s \in State /\ Good(s) /\ FilesOK(s, NULL) /\ VnodesOK(s, NoIno)
        /\ \A g \in Files : Off(s, g) = 0
    BY DEF Settled, Midway
  <1>1. x \in FileSet /\ x.f_refcount = 1 /\ x.f_vnode = NoIno
    <2>1. Mode(flags) \in SUBSET {"READ", "WRITE", "APPEND"}
      BY ModeType
    <2>2. x1 \in FileSet /\ x1.f_refcount = 1 /\ x1.f_vnode = NoIno
      BY DEF FileSet, NoFile
    <2> HIDE DEF x1
    <2> QED BY <2>1, <2>2 DEF FileSet
  <1>2. NewFile(s, p, fd, f, flags) = n
    <2>1. x = [NoFile EXCEPT !.f_refcount = 1, !.f_mode = Mode(flags)]
      BY DEF NoFile
    <2> HIDE DEF x, a
    <2> QED BY <2>1 DEF NewFile, a
  <1> HIDE DEF x
  <1>3. /\ Midway(a, NULL, NoIno) /\ a.panic = s.panic /\ a.file = s.file /\ a.p_cwd = s.p_cwd
        /\ a.p_files[p][fd] = f
        /\ \A g \in Files : Off(a, g) + If(g = f) = Off(s, g) + If(g = s.p_files[p][fd])
    BY <1>0, SetFdMidway DEF Settled
  <1> HIDE DEF a
  <1>4. /\ n \in State /\ n.inode = a.inode /\ n.vnode = a.vnode /\ n.p_files = a.p_files
        /\ n.p_cwd = a.p_cwd /\ n.lost = a.lost /\ n.panic = a.panic
        /\ n.file[f] = x /\ \A g \in Files : g # f => n.file[g] = a.file[g]
    <2>1. a \in State
      BY <1>3 DEF Midway
    <2> QED BY <1>1, <2>1, SetFile
  <1> HIDE DEF n
  <1>5. a \in State /\ Good(a) /\ FilesOK(a, NULL) /\ VnodesOK(a, NoIno)
    BY <1>3 DEF Midway
  <1>6. Good(n)
    BY <1>4, <1>5, GoodSame
  <1>7. FilesOK(n, f)
    <2>1. \A g \in Files : g # NULL
      BY Basics
    <2> QED BY <1>1, <1>4, <1>5, <2>1 DEF FilesOK
  <1>8. VnodesOK(n, NoIno)
    <2>1. a.file[f].f_vnode = NoIno
      BY <1>0, <1>3 DEF FilesOK
    <2>2. \A g \in Files : n.file[g].f_vnode = a.file[g].f_vnode
      BY <1>1, <1>4, <2>1
    <2>3. \A i \in Inos : Owed(n, i) = Owed(a, i) /\ Rc(n, i) = Rc(a, i)
      BY <1>4, <2>2 DEF Owed, FilesOn, ProcsIn, Rc
    <2> QED BY <1>5, <2>3 DEF VnodesOK
  <1>9. ASSUME NEW g \in Files PROVE Off(n, g) = 0
    <2>1. Off(a, g) + If(g = f) = 0 + If(g = NULL) /\ If(g = NULL) = 0 /\ If(g = f) \in {0, 1}
      BY <1>0, <1>3, Basics DEF If
    <2>2. FdsOf(n, g) = FdsOf(a, g)
      BY <1>4 DEF FdsOf
    <2>3. Cardinality(FdsOf(a, g)) \in Nat /\ a.file[g].f_refcount \in Nat
      BY <1>5, Counts1, FileType
    <2>4. CASE g = f
      <3>1. n.file[g].f_refcount = 1 /\ a.file[g].f_refcount = 0 /\ If(g = f) = 1
        BY <1>1, <1>3, <1>4, <2>4 DEF If
      <3> QED BY <2>1, <2>2, <2>3, <3>1 DEF Off
    <2>5. CASE g # f
      <3>1. n.file[g].f_refcount = a.file[g].f_refcount /\ If(g = f) = 0
        BY <1>4, <2>5 DEF If
      <3> QED BY <2>1, <2>2, <2>3, <3>1 DEF Off
    <2> QED BY <2>4, <2>5
  <1>10. Midway(n, f, NoIno) /\ n.panic = "no" /\ n.p_cwd = s.p_cwd /\ n.p_files[p][fd] = f
    BY <1>3, <1>4, <1>6, <1>7, <1>8 DEF Midway
  <1>11. n.file[f].f_refcount = 1 /\ n.file[f].f_vnode = NoIno
    BY <1>1, <1>4
  <1> QED BY <1>2, <1>9, <1>10, <1>11

(* The new file goes with its only descriptor.                             *)
LEMMA RejectIs ==
    ASSUME NEW s, NEW d, NEW p \in Procs, NEW fd \in Fds, NEW f \in Files, Midway(s, f, d),
           s.p_files[p][fd] = f, s.file[f].f_refcount = 1, s.file[f].f_vnode = NoIno,
           \A g \in Files : Off(s, g) = 0
    PROVE  LET r == Reject(s, p, fd, f)
           IN  /\ Midway(r, NULL, d) /\ (r.panic = "no" => \A g \in Files : Off(r, g) = 0)
  <1> DEFINE a == SetFd(s, p, fd, NULL)
             r == fput(a, f)
  <1>1. /\ Midway(a, f, d) /\ a.panic = s.panic /\ a.file = s.file
        /\ \A g \in Files : Off(a, g) + If(g = NULL) = Off(s, g) + If(g = s.p_files[p][fd])
    BY SetFdMidway
  <1>2. Reject(s, p, fd, f) = r
    BY DEF Reject
  <1> HIDE DEF a
  <1>3. a.file[f].f_refcount = 1 /\ a.file[f].f_vnode = NoIno
    BY <1>1
  <1>4. /\ Midway(r, f, d) /\ (r.panic = "no" => a.panic = "no")
        /\ a.panic = "no" => r.file[f].f_refcount = a.file[f].f_refcount - 1
        /\ a.panic = "no" => \A g \in Files : Off(r, g) = Off(a, g) - If(g = f)
    BY <1>1, <1>3, FPut
  <1> HIDE DEF r
  <1>5. r.panic = "no" => FilesOK(r, NULL)
    <2>1. ASSUME r.panic = "no" PROVE FilesOK(r, NULL)
      <3>1. FilesOK(r, f) /\ r.file[f].f_refcount = 0
        BY <1>3, <1>4, <2>1 DEF Midway
      <3> QED BY <3>1 DEF FilesOK
    <2> QED BY <2>1
  <1>6. ASSUME r.panic = "no", NEW g \in Files PROVE Off(r, g) = 0
    <2>1. If(g = NULL) = 0 /\ If(g = f) \in {0, 1}
      BY Basics DEF If
    <2>2. Off(a, g) + If(g = NULL) = 0 + If(g = f)
      BY <1>1
    <2>3. Off(r, g) = Off(a, g) - If(g = f)
      BY <1>4, <1>6
    <2>4. Off(a, g) \in Int
      BY <1>1, OffType DEF Midway
    <2> QED BY <2>1, <2>2, <2>3, <2>4
  <1>7. Midway(r, NULL, d)
    BY <1>4, <1>5 DEF Midway
  <1> QED BY <1>2, <1>6, <1>7
(* The vnode that open_namev returned becomes the new file's.              *)
LEMMA OpenedIs ==
    ASSUME NEW s, NEW d \in Inos, NEW f \in Files, Midway(s, f, d),
           s.file[f].f_refcount = 1, s.file[f].f_vnode = NoIno, \A g \in Files : Off(s, g) = 0
    PROVE  Settled([s EXCEPT !.file[f].f_vnode = d])
  <1> DEFINE x == [s.file[f] EXCEPT !.f_vnode = d]
             r == [s EXCEPT !.file[f] = x]
  <1>1. s \in State /\ s.file[f] \in FileSet
    BY FileType DEF Midway
  <1>2. r = [s EXCEPT !.file[f].f_vnode = d]
    BY <1>1 DEF State
  <1>3. x \in FileSet /\ x.f_vnode = d /\ x.f_refcount = 1
    BY <1>1 DEF FileSet
  <1> HIDE DEF x
  <1>4. /\ r \in State /\ r.inode = s.inode /\ r.vnode = s.vnode /\ r.p_files = s.p_files
        /\ r.p_cwd = s.p_cwd /\ r.lost = s.lost /\ r.panic = s.panic
        /\ r.file[f] = x /\ \A g \in Files : g # f => r.file[g] = s.file[g]
    BY <1>1, <1>3, SetFile
  <1> HIDE DEF r
  <1>5. ASSUME r.panic = "no" PROVE Good(r) /\ FilesOK(r, NULL) /\ VnodesOK(r, NoIno)
    <2>0. Good(s) /\ FilesOK(s, f) /\ VnodesOK(s, d)
      BY <1>4, <1>5 DEF Midway
    <2>1. Good(r)
      BY <1>4, <2>0, GoodSame
    <2>2. FilesOK(r, NULL)
      BY <1>3, <1>4, <2>0 DEF FilesOK
    <2>3. ASSUME NEW j \in Inos PROVE Rc(r, j) = Owed(r, j) + If(j = NoIno)
      <3>1. Rc(s, j) = Owed(s, j) + If(j = d) /\ If(j = NoIno) = 0 /\ Rc(r, j) = Rc(s, j)
        BY <1>4, <2>0, NoOne DEF VnodesOK, Rc
      <3>2. Cardinality(FilesOn(r, j)) = Cardinality(FilesOn(s, j)) + If(j = d)
        <4>1. OthersSame(s, r, f)
          BY <1>4 DEF OthersSame
        <4>2. Cardinality(FilesOn(r, j)) + Is(s.file[f].f_vnode, j)
                  = Cardinality(FilesOn(s, j)) + Is(r.file[f].f_vnode, j)
          BY <4>1, FileMoves
        <4>3. Is(s.file[f].f_vnode, j) = 0 /\ Is(r.file[f].f_vnode, j) = If(j = d)
          BY <1>3, <1>4, Basics DEF Is, If
        <4>4. Cardinality(FilesOn(r, j)) \in Nat
          BY Counts1
        <4> QED BY <4>2, <4>3, <4>4
      <3>3. ProcsIn(r, j) = ProcsIn(s, j) /\ r.lost[j] = s.lost[j]
        BY <1>4 DEF ProcsIn
      <3>4. /\ Cardinality(FilesOn(s, j)) \in Nat /\ Cardinality(ProcsIn(s, j)) \in Nat
            /\ (IF j = Root THEN 2 ELSE 0) \in Nat /\ s.lost[j] \in Nat /\ If(j = d) \in {0, 1}
        BY <1>1, Counts1 DEF State, If
      <3>5. Owed(r, j) = Owed(s, j) + If(j = d) /\ Owed(r, j) \in Nat
        BY <3>2, <3>3, <3>4 DEF Owed
      <3> QED BY <3>1, <3>5
    <2> QED BY <2>1, <2>2, <2>3 DEF VnodesOK
  <1>6. ASSUME NEW g \in Files PROVE Off(r, g) = 0
    <2>1. FdsOf(r, g) = FdsOf(s, g) /\ r.file[g].f_refcount = s.file[g].f_refcount
      BY <1>3, <1>4 DEF FdsOf
    <2> QED BY <2>1 DEF Off
  <1>7. Settled(r)
    BY <1>4, <1>5, <1>6 DEF Settled, Midway
  <1> QED BY <1>2, <1>7

LEMMA OpenFileIs ==
    ASSUME NEW n, NEW p \in Procs, NEW fd \in Fds, NEW f \in Files, Midway(n, f, NoIno),
           n.p_files[p][fd] = f, n.file[f].f_refcount = 1, n.file[f].f_vnode = NoIno,
           \A g \in Files : Off(n, g) = 0, NEW o, Gets(n, o), NEW flags
    PROVE  Settled(OpenFile(o, p, fd, f, flags))
  <1> DEFINE r == Reject(o.s, p, fd, f)
             k == OpenFile(o, p, fd, f, flags)
  <1>0. n \in State
    BY DEF Midway
  <1>1. Follows(n, o.s)
    BY DEF Gets, Up, Even
  <1>2. /\ o.s.p_files[p][fd] = f /\ o.s.file[f].f_refcount = 1 /\ o.s.file[f].f_vnode = NoIno
    BY <1>1 DEF Follows, Tables
  <1>3. \A g \in Files : Off(o.s, g) = 0
    BY <1>1, OffSame DEF Follows
  <1>4. CASE o.err # "0"
    <2>1. k = r
      BY <1>4 DEF OpenFile
    <2> HIDE DEF k
    <2>2. Midway(o.s, f, NoIno)
      BY <1>4, EvenMidway DEF Gets
    <2>3. Midway(r, NULL, NoIno) /\ (r.panic = "no" => \A g \in Files : Off(r, g) = 0)
      BY <1>2, <1>3, <2>2, RejectIs
    <2> HIDE DEF r
    <2> QED BY <2>1, <2>3 DEF Settled, k
  <1>5. CASE o.err = "0"
    <2>1. k = IF Refused(o.s, o.ino, flags) THEN vput(r, o.ino)
              ELSE [o.s EXCEPT !.file[f].f_vnode = o.ino]
      BY <1>5 DEF OpenFile
    <2> HIDE DEF k
    <2>2. o.ino \in Inos /\ Up(n, o.s, o.ino)
      BY <1>5 DEF Gets
    <2>3. Midway(o.s, f, o.ino)
      BY <2>2, UpMidway
    <2>4. Settled(vput(r, o.ino))
      <3>1. Midway(r, NULL, o.ino) /\ (r.panic = "no" => \A g \in Files : Off(r, g) = 0)
        BY <1>2, <1>3, <2>3, RejectIs
      <3> HIDE DEF r
      <3>2. r \in State
        BY <3>1 DEF Midway
      <3> DEFINE v == vput(r, o.ino)
      <3>3. Down(r, v, o.ino)
        BY <2>2, <3>2, VputDown
      <3> HIDE DEF v
      <3>4. Midway(v, NULL, NoIno)
        BY <2>2, <3>1, <3>3, DownMidway
      <3>5. Tables(r, v) /\ (v.panic = "no" => r.panic = "no")
        BY <3>3 DEF Down, Follows
      <3>6. Settled(v)
        BY <3>1, <3>4, <3>5, OffSame DEF Settled
      <3> QED BY <3>6 DEF v
    <2>5. Settled([o.s EXCEPT !.file[f].f_vnode = o.ino])
      BY <1>2, <1>3, <2>2, <2>3, OpenedIs
    <2> QED BY <2>1, <2>4, <2>5 DEF k
  <1> QED BY <1>4, <1>5

LEMMA OpenCall ==
    ASSUME NEW s, Settled(s), s.panic = "no", NEW p \in Procs, s.p_cwd[p] \in Inos, get_empty_fd(s, p) # -1,
           NEW path \in Paths, NEW flags \in OpenFlags, flags.access # "3"
    PROVE  Settled(do_open(s, p, path, flags))
  <1> DEFINE fd == get_empty_fd(s, p)
             f == FreshFile(s)
             n == NewFile(s, p, fd, f, flags)
             o == open_namev(n, p, path, flags.creat)
  <1>1. do_open(s, p, path, flags) = OpenFile(o, p, fd, f, flags)
    BY DEF do_open, With
  <1>2. fd \in Fds /\ s.p_files[p][fd] = NULL
    BY EmptyFd DEF Settled, Midway
  <1> HIDE DEF fd
  <1>3. f \in Files /\ s.file[f].f_refcount = 0
    BY <1>2, FreeFile
  <1> HIDE DEF f
  <1>4. /\ Midway(n, f, NoIno) /\ n.p_cwd = s.p_cwd /\ n.p_files[p][fd] = f
        /\ n.file[f].f_refcount = 1 /\ n.file[f].f_vnode = NoIno
        /\ \A g \in Files : Off(n, g) = 0
    BY <1>2, <1>3, NewFileIs
  <1> HIDE DEF n
  <1>5. Gets(n, o)
    <2>1. n \in State /\ n.p_cwd[p] \in Inos
      BY <1>4 DEF Midway
    <2> QED BY <2>1, OpenNamev
  <1> HIDE DEF o
  <1>6. Settled(OpenFile(o, p, fd, f, flags))
    BY <1>2, <1>3, <1>4, <1>5, OpenFileIs
  <1> QED BY <1>1, <1>6-----------------------------------------------------------------------------
(* do_lseek, do_read, do_write and do_getdent                              *)

(* All that a seek changes is the position of the file.                    *)
Sought(s, r, f) ==
    /\ r \in State /\ (Settled(s) => Settled(r)) /\ r.panic = s.panic
    /\ r.inode = s.inode /\ r.vnode = s.vnode
    /\ r.file[f].f_vnode = s.file[f].f_vnode

LEMMA SetPos ==
    ASSUME NEW s \in State, NEW f \in Files, NEW pos \in Int
    PROVE  Sought(s, [s EXCEPT !.file[f].f_pos = pos], f)
  <1> DEFINE x == [s.file[f] EXCEPT !.f_pos = pos]
             r == [s EXCEPT !.file[f] = x]
  <1>1. s.file[f] \in FileSet
    BY FileType
  <1>2. r = [s EXCEPT !.file[f].f_pos = pos]
    BY DEF State
  <1>3. x \in FileSet /\ x.f_vnode = s.file[f].f_vnode /\ x.f_refcount = s.file[f].f_refcount
    BY <1>1 DEF FileSet
  <1> HIDE DEF x
  <1>4. /\ r \in State /\ r.inode = s.inode /\ r.vnode = s.vnode /\ r.p_files = s.p_files
        /\ r.p_cwd = s.p_cwd /\ r.lost = s.lost /\ r.panic = s.panic
        /\ r.file[f] = x /\ \A g \in Files : g # f => r.file[g] = s.file[g]
    BY <1>3, SetFile
  <1> HIDE DEF r
  <1>5. \A g \in Files : /\ r.file[g].f_vnode = s.file[g].f_vnode
                         /\ r.file[g].f_refcount = s.file[g].f_refcount
    BY <1>3, <1>4
  <1>6. ASSUME Settled(s) PROVE Settled(r)
    <2>1. ASSUME r.panic = "no" PROVE Good(r) /\ FilesOK(r, NULL) /\ VnodesOK(r, NoIno)
      <3>0. Good(s) /\ FilesOK(s, NULL) /\ VnodesOK(s, NoIno)
        BY <1>4, <1>6, <2>1 DEF Settled, Midway
      <3>1. Good(r)
        BY <1>4, <3>0, GoodSame
      <3>2. FilesOK(r, NULL)
        BY <1>5, <3>0 DEF FilesOK
      <3>3. \A i \in Inos : Owed(r, i) = Owed(s, i) /\ Rc(r, i) = Rc(s, i)
        BY <1>4, <1>5 DEF Owed, FilesOn, ProcsIn, Rc
      <3>4. VnodesOK(r, NoIno)
        BY <3>0, <3>3 DEF VnodesOK
      <3> QED BY <3>1, <3>2, <3>4
    <2>2. \A g \in Files : Off(r, g) = Off(s, g)
      BY <1>4, <1>5 DEF Off, FdsOf
    <2> QED BY <1>4, <1>6, <2>1, <2>2 DEF Settled, Midway
  <1> QED BY <1>2, <1>4, <1>5, <1>6 DEF Sought

LEMMA SeekToIs ==
    ASSUME NEW s \in State, NEW f \in Files, NEW pos \in Int
    PROVE  Sought(s, SeekTo(s, f, pos), f)
  <1>1. CASE pos < 0
    BY <1>1 DEF SeekTo, Sought
  <1>2. CASE ~(pos < 0)
    <2>1. SeekTo(s, f, pos) = [s EXCEPT !.file[f].f_pos = pos]
      BY <1>2 DEF SeekTo
    <2> QED BY <2>1, SetPos
  <1> QED BY <1>1, <1>2

LEMMA SeekIs ==
    ASSUME NEW s \in State, NEW f \in Files, s.file[f].f_vnode \in Inos, NEW offset \in Int,
           NEW whence \in {"SEEK_SET", "SEEK_CUR", "SEEK_END"}
    PROVE  Sought(s, lseek(s, f, offset, whence), f)
  <1>1. s.file[f].f_pos \in Int /\ s.vnode[s.file[f].f_vnode].vn_len \in Int
    <2>1. s.file[f].f_pos \in Int
      BY FileType
    <2>2. s.vnode[s.file[f].f_vnode] \in VnodeSet
      BY DEF State
    <2> QED BY <2>1, <2>2 DEF VnodeSet
  <1>2. Base(s, f, whence) \in Int
    <2>1. CASE whence = "SEEK_SET"
      BY <2>1 DEF Base
    <2>2. CASE whence = "SEEK_CUR"
      BY <1>1, <2>2 DEF Base
    <2>3. CASE whence = "SEEK_END"
      BY <1>1, <2>3 DEF Base
    <2> QED BY <2>1, <2>2, <2>3
  <1>3. Base(s, f, whence) + offset \in Int
    BY <1>2
  <1> QED BY <1>3, SeekToIs DEF lseek

LEMMA WriteToIs ==
    ASSUME NEW s \in State, NEW ino \in Inos, NEW end \in Int, s.panic = "no" => Rc(s, ino) > 0
    PROVE  Even(s, WriteTo(s, ino, end))
  <1> DEFINE r == WriteTo(s, ino, end)
  <1>1. CASE s.vnode[ino].vn_len # s.inode[ino].rf_size
    <2>1. r = Panic(s, "vn_len")
      BY <1>1 DEF WriteTo
    <2>2. "vn_len" \in Reasons
      BY DEF Reasons
    <2>3. r \in State /\ Tables(s, r) /\ r.panic = "vn_len"
      BY <2>1, <2>2, SetPanic DEF Tables
    <2> QED BY <2>3 DEF Even, Follows
  <1>2. CASE s.vnode[ino].vn_len = s.inode[ino].rf_size
    <2> DEFINE n == Greater(s.inode[ino].rf_size, end)
               z == [s.vnode[ino] EXCEPT !.vn_len = n]
               y == [s.inode[ino] EXCEPT !.rf_size = n]
               a == [s EXCEPT !.vnode[ino] = z]
               b == [a EXCEPT !.inode[ino] = y]
    <2>1. s.inode[ino] \in Inodes /\ s.vnode[ino] \in VnodeSet
      BY DEF State
    <2>2. n \in Int
      BY <2>1 DEF Inodes, Greater
    <2>3. r = b
      <3>1. r = [s EXCEPT !.vnode[ino].vn_len = n, !.inode[ino].rf_size = n]
        BY <1>2 DEF WriteTo, State
      <3> HIDE DEF n
      <3> QED BY <3>1 DEF State
    <2> HIDE DEF n, r
    <2>4. z \in VnodeSet /\ z.vn_len = n /\ z.vn_refcount = Rc(s, ino)
      BY <2>1, <2>2 DEF VnodeSet, Rc
    <2>5. /\ y \in Inodes /\ y.rf_size = n /\ y.rf_mode = s.inode[ino].rf_mode
          /\ y.rf_mem = s.inode[ino].rf_mem /\ y.rf_linkcount = s.inode[ino].rf_linkcount
      BY <2>1, <2>2 DEF Inodes
    <2> HIDE DEF y, z
    <2>6. /\ a \in State /\ a.vnode = [s.vnode EXCEPT ![ino] = z] /\ a.inode = s.inode
          /\ Tables(s, a) /\ a.panic = s.panic
      BY <2>4, SetVnode DEF Tables
    <2> HIDE DEF a
    <2>7. /\ b \in State /\ b.inode = [a.inode EXCEPT ![ino] = y] /\ b.vnode = a.vnode
          /\ Tables(a, b) /\ b.panic = a.panic
      BY <2>5, <2>6, SetInode DEF Tables
    <2> HIDE DEF b
    <2>8. s.inode \in [Inos -> Inodes] /\ s.vnode \in [Inos -> VnodeSet]
      BY DEF State
    <2>9. b.inode[ino] = y /\ b.vnode[ino] = z
      BY <2>6, <2>7, <2>8
    <2>10. \A j \in Inos : j # ino => b.inode[j] = s.inode[j] /\ b.vnode[j] = s.vnode[j]
      BY <2>6, <2>7, <2>8
    <2>11. \A j \in Inos : Rc(b, j) = Rc(s, j)
      BY <2>4, <2>9, <2>10 DEF Rc
    <2>12. SameNames(s, b)
      BY <2>5, <2>9, <2>10 DEF SameNames
    <2>13. ASSUME s.panic = "no", Good(s) PROVE Good(b)
      <3>0. FreeEmpty(s) /\ InUse(s) /\ LengthsMatch(s) /\ (NoDotPaths => LinksEnough(s))
        BY <2>13 DEF Good
      <3>1. s.inode[ino].rf_mode # "FREE"
        BY <2>13, <3>0 DEF InUse
      <3>2. FreeEmpty(b)
        BY <2>5, <2>9, <2>10, <3>0, <3>1 DEF FreeEmpty
      <3>3. InUse(b)
        BY <2>11, <2>12, <3>0 DEF InUse, SameNames
      <3>4. LengthsMatch(b)
        BY <2>4, <2>5, <2>9, <2>10, <2>11, <3>0 DEF LengthsMatch
      <3>5. ASSUME NoDotPaths PROVE LinksEnough(b)
        <4>1. \A j \in Inos : b.inode[j].rf_linkcount = s.inode[j].rf_linkcount
          BY <2>5, <2>9, <2>10
        <4>2. \A j \in Inos : Names(b, j) = Names(s, j)
          BY <2>12, NamesSame
        <4>3. \A j \in Inos : Cached(b, j) = Cached(s, j)
          BY <2>11 DEF Cached, Rc
        <4>4. \A j \in Inos : LinksOf(b, j) = LinksOf(s, j)
          BY <4>2, <4>3 DEF LinksOf
        <4> QED BY <3>0, <3>5, <4>1, <4>4 DEF LinksEnough
      <3> QED BY <3>2, <3>3, <3>4, <3>5 DEF Good
    <2>14. Even(s, b)
      BY <2>6, <2>7, <2>11, <2>13 DEF Even, Follows, Tables
    <2> QED BY <2>3, <2>14 DEF r
  <1> QED BY <1>1, <1>2

LEMMA RamfsWrite ==
    ASSUME NEW s \in State, NEW ino \in Inos, NEW offset \in Int, NEW count \in Int,
           s.panic = "no" => Rc(s, ino) > 0
    PROVE  Even(s, ramfs_write(s, ino, offset, count))
  <1>1. Written(offset, count) \in Int
    BY RamfsAssumption DEF Written, Lesser
  <1>2. CASE Written(offset, count) < 0
    <2>1. ramfs_write(s, ino, offset, count) = Panic(s, "memcpy")
      BY <1>2 DEF ramfs_write
    <2>2. "memcpy" \in Reasons
      BY DEF Reasons
    <2> DEFINE r == Panic(s, "memcpy")
    <2>3. r \in State /\ Tables(s, r) /\ r.panic = "memcpy"
      BY <2>2, SetPanic DEF Tables
    <2> HIDE DEF r
    <2>4. Even(s, r)
      BY <2>3 DEF Even, Follows
    <2> QED BY <2>1, <2>4 DEF r
  <1>3. CASE ~(Written(offset, count) < 0)
    <2>1. ramfs_write(s, ino, offset, count) = WriteTo(s, ino, offset + Written(offset, count))
      BY <1>3 DEF ramfs_write
    <2>2. offset + Written(offset, count) \in Int
      BY <1>1
    <2> QED BY <2>1, <2>2, WriteToIs
  <1> QED BY <1>2, <1>3
(* A write, between two seeks or before one.                               *)
LEMMA WriteThenSeek ==
    ASSUME NEW s, Settled(s), s.panic = "no", NEW f \in Files, s.file[f].f_vnode \in Inos,
           Rc(s, s.file[f].f_vnode) > 0, NEW n \in Int, NEW k \in Int,
           NEW whence \in {"SEEK_SET", "SEEK_CUR", "SEEK_END"}
    PROVE  Settled(lseek(ramfs_write(s, s.file[f].f_vnode, s.file[f].f_pos, n), f, k, whence))
  <1> DEFINE w == ramfs_write(s, s.file[f].f_vnode, s.file[f].f_pos, n)
             r == lseek(w, f, k, whence)
  <1>1. s \in State /\ s.file[f].f_pos \in Int
    BY FileType DEF Settled, Midway
  <1>2. Even(s, w)
    BY <1>1, RamfsWrite
  <1> HIDE DEF w
  <1>3. w \in State /\ w.file = s.file
    BY <1>2 DEF Even, Follows, Tables
  <1>4. Settled(w)
    BY <1>2, EvenSettled
  <1>5. w.file[f].f_vnode \in Inos
    BY <1>3
  <1>6. Sought(w, r, f)
    BY <1>3, <1>5, SeekIs
  <1> HIDE DEF r
  <1>7. Settled(r)
    BY <1>4, <1>6 DEF Sought
  <1> QED BY <1>7 DEF r, w

(* What an open descriptor names.                                          *)
LEMMA OpenFd ==
    ASSUME NEW s, Settled(s), s.panic = "no", NEW p \in Procs, NEW fd \in Fds, s.p_files[p][fd] # NULL
    PROVE  LET f == FileOf(s, p, fd)
           IN  /\ f \in Files /\ s \in State /\ s.file[f].f_vnode \in Inos
               /\ Rc(s, s.file[f].f_vnode) > 0 /\ s.file[f].f_pos \in Int
  <1> DEFINE f == s.p_files[p][fd]
  <1>1. Midway(s, NULL, NoIno) /\ s \in State /\ f \in Files /\ \A g \in Files : Off(s, g) = 0
    BY DEF Settled, Midway, State
  <1>2. Off(s, f) >= 0
    BY <1>1
  <1>3. s.file[f].f_vnode \in Inos /\ Rc(s, s.file[f].f_vnode) > 0
    BY <1>1, <1>2, NamedFile
  <1>4. s.file[f].f_pos \in Int
    BY <1>1, FileType
  <1>5. FileOf(s, p, fd) = f
    BY DEF FileOf
  <1> QED BY <1>1, <1>3, <1>4, <1>5

LEMMA LseekCall ==
    ASSUME NEW s, Settled(s), s.panic = "no", NEW p \in Procs, NEW fd \in Fds, s.p_files[p][fd] # NULL,
           NEW n \in Int, NEW whence \in {"SEEK_SET", "SEEK_END"}
    PROVE  Settled(do_lseek(s, p, fd, n, whence))
  <1> DEFINE f == FileOf(s, p, fd)
             r == lseek(s, f, n, whence)
  <1>1. f \in Files /\ s \in State /\ s.file[f].f_vnode \in Inos
    BY OpenFd
  <1>2. do_lseek(s, p, fd, n, whence) = r
    BY DEF do_lseek
  <1> HIDE DEF f
  <1>3. Sought(s, r, f)
    BY <1>1, SeekIs
  <1> HIDE DEF r
  <1> QED BY <1>2, <1>3 DEF Sought

LEMMA ReadCall ==
    ASSUME NEW s, Settled(s), s.panic = "no", NEW p \in Procs, NEW fd \in Fds, s.p_files[p][fd] # NULL,
           NEW n \in Int
    PROVE  Settled(do_read(s, p, fd, n))
  <1> DEFINE f == FileOf(s, p, fd)
             b == ramfs_read(s, s.file[f].f_vnode, s.file[f].f_pos, n)
             r1 == lseek(s, f, b, "SEEK_CUR")
             r2 == lseek(s, f, 0, "SEEK_END")
  <1>1. f \in Files /\ s \in State /\ s.file[f].f_vnode \in Inos /\ s.file[f].f_pos \in Int
    BY OpenFd
  <1>2. do_read(s, p, fd, n) \in {s, r1, r2}
    <2> HIDE DEF f
    <2>1. ReadFile(s, f, n) = IF b = n THEN r1 ELSE r2
      BY DEF ReadFile, With
    <2> HIDE DEF b, r1, r2
    <2>2. do_read(s, p, fd, n) = s \/ do_read(s, p, fd, n) = ReadFile(s, f, n)
      BY DEF do_read, With, f
    <2> QED BY <2>1, <2>2
  <1> HIDE DEF f
  <1>3. b \in Int
    <2>1. s.inode[s.file[f].f_vnode] \in Inodes
      BY <1>1 DEF State
    <2>2. s.inode[s.file[f].f_vnode].rf_size \in Int
      BY <2>1 DEF Inodes
    <2> QED BY <1>1, <2>2 DEF ramfs_read, Greater, Lesser
  <1> HIDE DEF b
  <1>4. Sought(s, r1, f) /\ Sought(s, r2, f)
    BY <1>1, <1>3, SeekIs
  <1> HIDE DEF r1, r2
  <1> QED BY <1>2, <1>4 DEF Sought

LEMMA WriteCall ==
    ASSUME NEW s, Settled(s), s.panic = "no", NEW p \in Procs, NEW fd \in Fds, s.p_files[p][fd] # NULL,
           NEW n \in Int
    PROVE  Settled(do_write(s, p, fd, n))
  <1> DEFINE f == FileOf(s, p, fd)
             e == lseek(s, f, 0, "SEEK_END")
             r1 == lseek(ramfs_write(e, e.file[f].f_vnode, e.file[f].f_pos, n), f, 0, "SEEK_END")
             r2 == lseek(ramfs_write(s, s.file[f].f_vnode, s.file[f].f_pos, n), f,
                         Written(s.file[f].f_pos, n), "SEEK_CUR")
  <1>1. /\ f \in Files /\ s \in State /\ s.file[f].f_vnode \in Inos /\ s.file[f].f_pos \in Int
        /\ Rc(s, s.file[f].f_vnode) > 0
    BY OpenFd
  <1>2. do_write(s, p, fd, n) \in {s, r1, r2}
    <2> HIDE DEF f
    <2>1. AppendFile(s, f, n) = r1
      BY DEF AppendFile, With
    <2>2. WriteFile(s, f, n) = r2
      BY DEF WriteFile
    <2> HIDE DEF r1, r2
    <2>3. \/ do_write(s, p, fd, n) = s
          \/ do_write(s, p, fd, n) = AppendFile(s, f, n)
          \/ do_write(s, p, fd, n) = WriteFile(s, f, n)
      BY DEF do_write, With, f
    <2> QED BY <2>1, <2>2, <2>3
  <1> HIDE DEF f
  <1>3. Settled(r2)
    <2>1. Written(s.file[f].f_pos, n) \in Int
      BY <1>1, RamfsAssumption DEF Written, Lesser
    <2> QED BY <1>1, <2>1, WriteThenSeek
  <1>4. Settled(r1)
    <2>1. Sought(s, e, f)
      BY <1>1, SeekIs
    <2> HIDE DEF e
    <2>2. Settled(e) /\ e.panic = "no" /\ e.file[f].f_vnode \in Inos /\ Rc(e, e.file[f].f_vnode) > 0
      BY <1>1, <2>1 DEF Sought, Rc
    <2> QED BY <1>1, <2>2, WriteThenSeek
  <1> HIDE DEF r1, r2
  <1> QED BY <1>2, <1>3, <1>4

LEMMA GetdentCall ==
    ASSUME NEW s, Settled(s), s.panic = "no", NEW p \in Procs, NEW fd \in Fds, s.p_files[p][fd] # NULL
    PROVE  Settled(do_getdent(s, p, fd))
  <1> DEFINE f == FileOf(s, p, fd)
             b == ramfs_readdir(s, s.file[f].f_vnode, s.file[f].f_pos)
             w == IF b = 0 THEN "SEEK_END" ELSE "SEEK_CUR"
             r == lseek(s, f, b, w)
  <1>1. f \in Files /\ s \in State /\ s.file[f].f_vnode \in Inos /\ s.file[f].f_pos \in Int
    BY OpenFd
  <1>2. do_getdent(s, p, fd) = s \/ do_getdent(s, p, fd) = r
    BY DEF do_getdent, With
  <1> HIDE DEF f
  <1>3. b \in Int
    <2> DEFINE used == {i \in Slots : i > s.file[f].f_pos
                                       /\ s.inode[s.file[f].f_vnode].rf_mem[i] # NoEntry}
    <2>1. b = IF used = {} THEN 0 ELSE Least(used) - s.file[f].f_pos
      BY DEF ramfs_readdir
    <2>2. used \in SUBSET Nat
      BY Basics
    <2> HIDE DEF used, b
    <2>3. used # {} => Least(used) \in Nat
      BY <2>2, LeastOne
    <2> QED BY <1>1, <2>1, <2>3
  <1>4. w \in {"SEEK_SET", "SEEK_CUR", "SEEK_END"}
    OBVIOUS
  <1> HIDE DEF b, w
  <1>5. Sought(s, r, f)
    BY <1>1, <1>3, <1>4, SeekIs
  <1> HIDE DEF r
  <1> QED BY <1>2, <1>5 DEF Sought-----------------------------------------------------------------------------
(* Processes                                                               *)

(* A vnode in use is referenced once more.                                 *)
LEMMA VrefIs ==
    ASSUME NEW s \in State, NEW i \in Inos, Rc(s, i) > 0
    PROVE  Up(s, vref(s, i), i)
  <1>1. vref(s, i) = vget(s, i)
    BY DEF vref, vget, Rc
  <1> QED BY <1>1, VgetUp

LEMMA CreateCall ==
    ASSUME NEW s, Settled(s), s.panic = "no", NEW p \in Procs, s.p_cwd[p] = NoIno
    PROVE  Settled(proc_create(s, p))
  <1> DEFINE v == vref(s, Root)
             r == [v EXCEPT !.p_cwd[p] = Root]
  <1>0. /\ s \in State /\ Root \in Inos /\ Good(s) /\ FilesOK(s, NULL) /\ VnodesOK(s, NoIno)
        /\ \A f \in Files : Off(s, f) = 0
    BY Basics DEF Settled, Midway
  <1>1. proc_create(s, p) = r
    BY DEF proc_create
  <1>2. Rc(s, Root) > 0
    <2>1. Rc(s, Root) = Owed(s, Root) + If(Root = NoIno) /\ If(Root = NoIno) = 0
      BY <1>0, NoOne DEF VnodesOK
    <2>2. /\ Cardinality(FilesOn(s, Root)) \in Nat /\ Cardinality(ProcsIn(s, Root)) \in Nat
          /\ s.lost[Root] \in Nat
      BY <1>0, Counts1 DEF State
    <2>3. Owed(s, Root) >= 2
      BY <2>2 DEF Owed
    <2>4. Owed(s, Root) \in Nat
      BY <1>0, OwedType
    <2> QED BY <2>1, <2>3, <2>4
  <1>3. Up(s, v, Root)
    BY <1>0, <1>2, VrefIs
  <1> HIDE DEF v
  <1>4. v \in State /\ Tables(s, v) /\ (v.panic = "no" => Good(v))
    BY <1>0, <1>3 DEF Up, Follows
  <1>5. /\ r \in State /\ r.inode = v.inode /\ r.vnode = v.vnode /\ r.file = v.file
        /\ r.p_files = v.p_files /\ r.lost = v.lost /\ r.panic = v.panic
        /\ r.p_cwd = [v.p_cwd EXCEPT ![p] = Root] /\ v.p_cwd \in [Procs -> Inos \union {NoIno}]
    BY <1>0, <1>4 DEF State
  <1> HIDE DEF r
  <1>6. /\ r.file = s.file /\ r.p_files = s.p_files /\ r.lost = s.lost /\ r.p_cwd[p] = Root
        /\ \A q \in Procs : q # p => r.p_cwd[q] = s.p_cwd[q]
    BY <1>4, <1>5 DEF Tables
  <1>7. ASSUME r.panic = "no" PROVE Good(r) /\ FilesOK(r, NULL) /\ VnodesOK(r, NoIno)
    <2>1. Good(r)
      BY <1>4, <1>5, <1>7, GoodSame
    <2>2. FilesOK(r, NULL)
      BY <1>0, <1>6 DEF FilesOK
    <2>3. ASSUME NEW j \in Inos PROVE Rc(r, j) = Owed(r, j) + If(j = NoIno)
      <3>1. Rc(s, j) = Owed(s, j) + If(j = NoIno) /\ If(j = NoIno) = 0
        BY <1>0, NoOne DEF VnodesOK
      <3>2. Rc(v, j) = Rc(s, j) + If(j = Root) /\ Rc(r, j) = Rc(v, j)
        BY <1>3, <1>5, <1>7 DEF Up, Rc
      <3>3. Cardinality(ProcsIn(r, j)) = Cardinality(ProcsIn(s, j)) + If(j = Root)
        <4>0. \A q \in Procs : q # p => r.p_cwd[q] = s.p_cwd[q]
          BY <1>6
        <4>1. Cardinality(ProcsIn(r, j)) + Is(s.p_cwd[p], j) = Cardinality(ProcsIn(s, j)) + Is(r.p_cwd[p], j)
          BY <4>0, CwdMoves
        <4>2. Is(s.p_cwd[p], j) = 0 /\ Is(r.p_cwd[p], j) = If(j = Root)
          BY <1>6, Basics DEF Is, If
        <4>3. Cardinality(ProcsIn(r, j)) \in Nat
          BY Counts1
        <4> QED BY <4>1, <4>2, <4>3
      <3>4. FilesOn(r, j) = FilesOn(s, j)
        BY <1>6 DEF FilesOn
      <3>5. /\ Cardinality(FilesOn(s, j)) \in Nat /\ Cardinality(ProcsIn(s, j)) \in Nat
            /\ (IF j = Root THEN 2 ELSE 0) \in Nat /\ s.lost[j] \in Nat /\ If(j = Root) \in {0, 1}
        BY <1>0, Counts1 DEF State, If
      <3>6. Owed(r, j) = Owed(s, j) + If(j = Root) /\ Owed(s, j) \in Nat
        BY <1>6, <3>3, <3>4, <3>5 DEF Owed
      <3> QED BY <3>1, <3>2, <3>5, <3>6
    <2> QED BY <2>1, <2>2, <2>3 DEF VnodesOK
  <1>8. \A f \in Files : Off(r, f) = 0
    BY <1>0, <1>6 DEF Off, FdsOf
  <1>9. Settled(r)
    BY <1>5, <1>7, <1>8 DEF Settled, Midway
  <1> QED BY <1>1, <1>9

(* The descriptors that proc_cleanup closes, one after the other.          *)
CloseStep(s, p, fd) == IF FileOf(s, p, fd) = NULL THEN s ELSE do_close(s, p, fd)

CloseSteps(f, s, p, N) ==
    /\ f = [n \in 0 .. N |-> f[n]] /\ f[0] = s
    /\ \A n \in 1 .. N : f[n] = CloseStep(f[n - 1], p, n - 1)

Closed(s, r) == Settled(r) /\ r.p_cwd = s.p_cwd

LEMMA CloseNext ==
    ASSUME NEW s, NEW r, Closed(s, r), NEW p \in Procs, NEW fd \in Fds
    PROVE  Closed(s, CloseStep(r, p, fd))
  <1>1. CASE FileOf(r, p, fd) = NULL
    BY <1>1 DEF CloseStep
  <1>2. CASE FileOf(r, p, fd) # NULL
    <2> DEFINE k == do_close(r, p, fd)
    <2>1. CloseStep(r, p, fd) = k /\ r.p_files[p][fd] # NULL
      BY <1>2 DEF CloseStep, FileOf
    <2>2. Midway(r, NULL, NoIno) /\ r.p_files[p][fd] \in Files
      BY <2>1 DEF Closed, Settled, Midway, State
    <2>3. r.panic = "no" => Off(r, r.p_files[p][fd]) >= 0 /\ \A g \in Files : Off(r, g) = 0
      BY <2>2 DEF Closed, Settled
    <2>4. /\ Midway(k, NULL, NoIno) /\ (k.panic = "no" => r.panic = "no") /\ k.p_cwd = r.p_cwd
          /\ k.panic = "no" => \A g \in Files : Off(k, g) = Off(r, g)
      BY <2>1, <2>2, <2>3, Close
    <2> HIDE DEF k
    <2>5. Settled(k)
      BY <2>3, <2>4 DEF Settled
    <2> QED BY <2>1, <2>4, <2>5 DEF Closed
  <1> QED BY <1>1, <1>2

LEMMA CloseExists ==
    ASSUME NEW s, NEW p, NEW N \in Nat
    PROVE  \E f : CloseSteps(f, s, p, N)
  <1> DEFINE T == {k \in 0 .. N : ~ \E f : CloseSteps(f, s, p, k)}
  <1> SUFFICES ASSUME T # {} PROVE FALSE
    OBVIOUS
  <1>1. PICK m \in T : \A k \in T : m <= k
    <2>1. T \in SUBSET Nat
      OBVIOUS
    <2> HIDE DEF T
    <2> QED BY <2>1, LeastOne
  <1>2. m \in 0 .. N /\ ~ \E f : CloseSteps(f, s, p, m)
    OBVIOUS
  <1>3. CASE m = 0
    <2> DEFINE g == [j \in 0 .. 0 |-> s]
    <2>1. CloseSteps(g, s, p, 0)
      BY DEF CloseSteps
    <2> QED BY <1>2, <1>3, <2>1
  <1>4. CASE m > 0
    <2>1. m - 1 \in 0 .. N /\ m - 1 \notin T
      BY <1>1, <1>2, <1>4
    <2>2. PICK f : CloseSteps(f, s, p, m - 1)
      BY <2>1
    <2> DEFINE v == CloseStep(f[m - 1], p, m - 1)
               g == [j \in 0 .. m |-> IF j = m THEN v ELSE f[j]]
    <2> HIDE DEF v
    <2>3. g = [j \in 0 .. m |-> g[j]] /\ g[0] = s
      BY <1>2, <1>4, <2>2 DEF CloseSteps
    <2>4. ASSUME NEW k \in 1 .. m PROVE g[k] = CloseStep(g[k - 1], p, k - 1)
      <3>1. g[k - 1] = f[k - 1] /\ k \in 0 .. m
        BY <1>2
      <3>2. CASE k = m
        BY <3>1, <3>2 DEF v
      <3>3. CASE k # m
        <4>1. k \in 1 .. m - 1
          BY <1>2, <3>3
        <4>2. f[k] = CloseStep(f[k - 1], p, k - 1)
          BY <2>2, <4>1 DEF CloseSteps
        <4> QED BY <3>1, <3>3, <4>2
      <3> QED BY <3>2, <3>3
    <2> HIDE DEF g
    <2>5. CloseSteps(g, s, p, m)
      BY <2>3, <2>4 DEF CloseSteps
    <2> QED BY <1>2, <2>5
  <1> QED BY <1>2, <1>3, <1>4

LEMMA CleanupIsLoop ==
    ASSUME NEW s, NEW p
    PROVE  \E f : CloseSteps(f, s, p, NFILES) /\ proc_cleanup(s, p) = ChangeDir(f[NFILES], p, NoIno)
  <1> DEFINE N == NFILES
             Eq(f) == f = [n \in 0 .. N |-> IF n = 0 THEN s
                                            ELSE IF FileOf(f[n - 1], p, n - 1) = NULL THEN f[n - 1]
                                            ELSE do_close(f[n - 1], p, n - 1)]
             b == CHOOSE f : Eq(f)
  <1>0. N \in Nat
    BY VFSAssumption
  <1>1. PICK f : CloseSteps(f, s, p, N)
    BY <1>0, CloseExists
  <1>2. Eq(f)
    <2>1. \A k \in 0 .. N : f[k] = IF k = 0 THEN s
                                   ELSE IF FileOf(f[k - 1], p, k - 1) = NULL THEN f[k - 1]
                                   ELSE do_close(f[k - 1], p, k - 1)
      <3> HIDE DEF N
      <3>1. f[0] = s /\ \A k \in 1 .. N : f[k] = CloseStep(f[k - 1], p, k - 1)
        BY <1>1 DEF CloseSteps
      <3>2. \A k \in 0 .. N : k # 0 => k \in 1 .. N
        OBVIOUS
      <3> QED BY <3>1, <3>2, Zenon DEF CloseStep
    <2> QED BY <1>1, <2>1 DEF CloseSteps
  <1>3. Eq(b)
    BY <1>2
  <1>4. proc_cleanup(s, p) = ChangeDir(b[N], p, NoIno)
    BY DEF proc_cleanup
  <1> HIDE DEF b
  <1>5. CloseSteps(b, s, p, N)
    <2>1. \A k \in 0 .. N : b[k] = IF k = 0 THEN s
                                   ELSE IF FileOf(b[k - 1], p, k - 1) = NULL THEN b[k - 1]
                                   ELSE do_close(b[k - 1], p, k - 1)
      BY <1>3
    <2>2. b = [k \in 0 .. N |-> b[k]]
      BY <1>3
    <2>3. b[0] = s
      BY <1>0, <2>1
    <2>4. \A k \in 1 .. N : b[k] = CloseStep(b[k - 1], p, k - 1)
      BY <2>1 DEF CloseStep
    <2> QED BY <2>2, <2>3, <2>4 DEF CloseSteps
  <1> QED BY <1>4, <1>5

LEMMA CleanupCall ==
    ASSUME NEW s, Settled(s), NEW p \in Procs, s.p_cwd[p] \in Inos
    PROVE  Settled(proc_cleanup(s, p))
  <1> DEFINE N == NFILES
  <1>0. N \in Nat
    BY VFSAssumption
  <1>1. PICK f : CloseSteps(f, s, p, N) /\ proc_cleanup(s, p) = ChangeDir(f[N], p, NoIno)
    BY CleanupIsLoop
  <1>2. Closed(s, f[0])
    BY <1>1 DEF CloseSteps, Closed
  <1> DEFINE T == {k \in 0 .. N : ~Closed(s, f[k])}
  <1>3. ASSUME T # {} PROVE FALSE
    <2>1. PICK m \in T : \A k \in T : m <= k
      <3>1. T \in SUBSET Nat
        OBVIOUS
      <3> HIDE DEF T
      <3> QED BY <1>3, <3>1, LeastOne
    <2>2. m \in 1 .. N /\ m - 1 \in 0 .. N /\ m - 1 \notin T /\ ~Closed(s, f[m])
      BY <1>0, <1>2, <2>1
    <2>3. Closed(s, f[m - 1]) /\ m - 1 \in Fds
      BY <1>0, <2>2 DEF Fds
    <2>4. f[m] = CloseStep(f[m - 1], p, m - 1)
      BY <1>1, <2>2 DEF CloseSteps
    <2> QED BY <2>2, <2>3, <2>4, CloseNext
  <1>4. Closed(s, f[N])
    BY <1>0, <1>3
  <1> HIDE DEF N
  <1> DEFINE t == f[N]
             r == ChangeDir(t, p, NoIno)
  <1>5. Midway(t, NULL, NoIno) /\ t.p_cwd[p] \in Inos /\ (t.panic = "no" => \A g \in Files : Off(t, g) = 0)
    BY <1>4 DEF Closed, Settled
  <1> HIDE DEF t
  <1>6. /\ Midway(r, NULL, NoIno) /\ (r.panic = "no" => t.panic = "no")
        /\ \A g \in Files : Off(r, g) = Off(t, g)
    BY <1>5, ChangeDirIs
  <1>7. proc_cleanup(s, p) = r
    BY <1>1 DEF t
  <1> HIDE DEF r
  <1> QED BY <1>5, <1>6, <1>7 DEF Settled

LEMMA HaltCall ==
    ASSUME NEW s \in State
    PROVE  Settled(halt(s))
  <1> DEFINE i == vput(vput(s, Root), Root)
             v == vput(i, Root)
             h == halt(s)
  <1>1. h = IF vfs_is_in_use(i) THEN Panic(i, "in use")
            ELSE IF i.vnode[Root].vn_refcount = 0 THEN v ELSE Panic(v, "halted")
    BY DEF halt, With, vfs_shutdown
  <1>2. i \in State
    <2>1. vput(s, Root) \in State
      BY Basics, VputDown DEF Down, Follows
    <2> QED BY <2>1, Basics, VputDown DEF Down, Follows
  <1> HIDE DEF i, h
  <1>3. v \in State
    BY <1>2, Basics, VputDown DEF Down, Follows
  <1>4. i.vnode[Root].vn_refcount = 0 => v.panic # "no"
    BY <1>2, Basics, VputNone DEF Rc
  <1> HIDE DEF v
  <1>5. h \in State /\ h.panic # "no"
    <2>1. /\ Panic(i, "in use") \in State /\ Panic(i, "in use").panic = "in use"
          /\ Panic(v, "halted") \in State /\ Panic(v, "halted").panic = "halted"
      <3>1. "in use" \in Reasons /\ "halted" \in Reasons
        BY DEF Reasons
      <3> QED BY <1>2, <1>3, <3>1, SetPanic
    <2> QED BY <1>1, <1>3, <1>4, <2>1
  <1>6. Settled(h)
    BY <1>5 DEF Settled, Midway
  <1> QED BY <1>6 DEF h-----------------------------------------------------------------------------
(* The initial state                                                       *)
RootEntries == [i \in Slots |-> CASE i = 1 -> Entry(".", Root)
                                  [] i = 2 -> Entry("..", Root)
                                  [] OTHER -> NoEntry]
RootInode   == [rf_mode |-> "DIR", rf_size |-> 2, rf_linkcount |-> 1, rf_mem |-> RootEntries]
Empty       == [inode   |-> [ino \in Inos |-> IF ino # Root THEN NoInode ELSE RootInode],
                vnode   |-> [ino \in Inos |-> NotCached],
                file    |-> [f \in Files |-> NoFile],
                p_files |-> [p \in Procs |-> [fd \in Fds |-> NULL]],
                p_cwd   |-> [p \in Procs |-> NoIno],
                lost    |-> [ino \in Inos |-> 0],
                panic   |-> "no"]

LEMMA RootType ==
    /\ RootEntries \in [Slots -> Entries] /\ RootInode \in Inodes
    /\ \A i \in Slots : RootEntries[i].rd_name \in {NoName, ".", ".."}
  <1>1. ASSUME NEW i \in Slots
        PROVE  RootEntries[i] \in Entries /\ RootEntries[i].rd_name \in {NoName, ".", ".."}
    <2>1. Root \in Inos /\ NoEntry \in Entries /\ i \in Nat
      BY Basics
    <2>2. CASE i = 1
      <3>1. RootEntries[i] = Entry(".", Root)
        BY <2>2 DEF RootEntries
      <3> QED BY <2>1, <3>1 DEF Entry, Entries
    <2>3. CASE i = 2
      <3>1. RootEntries[i] = Entry("..", Root)
        BY <2>3 DEF RootEntries
      <3> QED BY <2>1, <3>1 DEF Entry, Entries
    <2>4. CASE i # 1 /\ i # 2
      <3>1. RootEntries[i] = NoEntry
        BY <2>4 DEF RootEntries
      <3> QED BY <2>1, <3>1 DEF NoEntry
    <2> QED BY <2>2, <2>3, <2>4
  <1>2. RootEntries \in [Slots -> Entries]
    <2>1. RootEntries = [i \in Slots |-> RootEntries[i]]
      BY DEF RootEntries
    <2> QED BY <1>1, <2>1
  <1>3. RootInode \in Inodes
    BY <1>2 DEF RootInode, Inodes, Modes
  <1> QED BY <1>1, <1>2, <1>3

LEMMA EmptyIs ==
    /\ Empty \in State /\ Empty.panic = "no" /\ \A i \in Inos : Rc(Empty, i) = 0
    /\ \A i \in Inos : Empty.inode[i] = IF i # Root THEN NoInode ELSE RootInode
    /\ \A f \in Files : Empty.file[f] = NoFile
    /\ \A p \in Procs : Empty.p_cwd[p] = NoIno /\ \A fd \in Fds : Empty.p_files[p][fd] = NULL
    /\ \A i \in Inos : Empty.lost[i] = 0
  <1>1. /\ Empty.inode \in [Inos -> Inodes] /\ Empty.vnode \in [Inos -> VnodeSet]
        /\ Empty.file \in [Files -> FileSet]
    BY Basics, RootType DEF Empty
  <1>2. /\ Empty.p_files \in [Procs -> [Fds -> Files \union {NULL}]]
        /\ Empty.p_cwd \in [Procs -> Inos \union {NoIno}] /\ Empty.lost \in [Inos -> Nat]
        /\ Empty.panic = "no"
    BY DEF Empty
  <1>3. Empty \in State
    <2>1. Empty.panic \in Reasons
      BY <1>2 DEF Reasons
    <2>2. Empty = [inode |-> Empty.inode, vnode |-> Empty.vnode, file |-> Empty.file,
                   p_files |-> Empty.p_files, p_cwd |-> Empty.p_cwd, lost |-> Empty.lost,
                   panic |-> Empty.panic]
      BY DEF Empty
    <2> QED BY <1>1, <1>2, <2>1, <2>2 DEF State
  <1>4. \A i \in Inos : Rc(Empty, i) = 0
    BY DEF Empty, Rc, NotCached
  <1>5. /\ \A i \in Inos : Empty.inode[i] = IF i # Root THEN NoInode ELSE RootInode
        /\ \A f \in Files : Empty.file[f] = NoFile
    BY DEF Empty
  <1>6. /\ \A p \in Procs : Empty.p_cwd[p] = NoIno /\ \A fd \in Fds : Empty.p_files[p][fd] = NULL
        /\ \A i \in Inos : Empty.lost[i] = 0
    BY DEF Empty
  <1> QED BY <1>2, <1>3, <1>4, <1>5, <1>6

LEMMA EmptyGood == Good(Empty)
  <1>1. FreeEmpty(Empty)
    BY EmptyIs DEF FreeEmpty, RootInode
  <1>2. InUse(Empty) /\ LengthsMatch(Empty)
    BY EmptyIs DEF InUse, LengthsMatch
  <1>3. ASSUME NEW i \in Inos PROVE Empty.inode[i].rf_linkcount >= LinksOf(Empty, i)
    <2>1. Names(Empty, i) = {}
      <3> SUFFICES ASSUME NEW e \in Names(Empty, i) PROVE FALSE
        OBVIOUS
      <3>1. e[1] \in Inos /\ e[2] \in Slots /\ IsName(Empty, e[1], e[2])
        BY DEF Names
      <3>2. CASE e[1] = Root
        <4>1. Empty.inode[e[1]].rf_mem = RootEntries
          BY <3>1, <3>2, EmptyIs DEF RootInode
        <4> QED BY <3>1, <4>1, RootType DEF IsName
      <3>3. CASE e[1] # Root
        <4>1. Empty.inode[e[1]] = NoInode
          BY <3>1, <3>3, EmptyIs
        <4> QED BY <3>1, <4>1 DEF IsName, IsDir, NoInode
      <3> QED BY <3>2, <3>3
    <2>2. Cardinality(Names(Empty, i)) = 0
      BY <2>1, FS_EmptySet
    <2>3. If(Cached(Empty, i)) = 0
      <3>1. ~Cached(Empty, i)
        BY EmptyIs DEF Cached, Rc
      <3> QED BY <3>1 DEF If
    <2>4. CASE i = Root
      <3>1. Empty.inode[i].rf_linkcount = 1 /\ If(i = Root) = 1
        BY <2>4, EmptyIs DEF RootInode, If
      <3> QED BY <2>2, <2>3, <3>1 DEF LinksOf
    <2>5. CASE i # Root
      <3>1. Empty.inode[i].rf_linkcount = 0 /\ If(i = Root) = 0
        BY <2>5, EmptyIs DEF NoInode, If
      <3> QED BY <2>2, <2>3, <3>1 DEF LinksOf
    <2> QED BY <2>4, <2>5
  <1> QED BY <1>1, <1>2, <1>3 DEF Good, LinksEnough

LEMMA InitSettled == Init => Settled(st)
  <1> SUFFICES ASSUME Init PROVE Settled(st)
    OBVIOUS
  <1> DEFINE m == vget(Empty, Root)
             r == vref(m, Root)
  <1>1. st = r
    BY DEF Init, Empty, RootInode, RootEntries
  <1>0. Root \in Inos /\ Empty \in State
    BY Basics, EmptyIs
  <1>2. Up(Empty, m, Root) /\ m.panic = "no" /\ Rc(m, Root) > 0
    <2>1. ~(Rc(Empty, Root) > 0) /\ Empty.inode[Root].rf_mode # "FREE"
      BY <1>0, EmptyIs DEF RootInode
    <2>2. m.panic = Empty.panic /\ \A j \in Inos : Rc(m, j) = Rc(Empty, j) + If(j = Root)
      BY <1>0, <2>1, VgetReads
    <2>3. Rc(m, Root) = 0 + If(Root = Root) /\ If(Root = Root) = 1
      BY <1>0, <2>2, EmptyIs DEF If
    <2> QED BY <1>0, <2>2, <2>3, EmptyIs, VgetUp
  <1> HIDE DEF m
  <1>3. Up(m, r, Root)
    <2>1. m \in State
      BY <1>2 DEF Up, Follows
    <2> QED BY <1>0, <1>2, <2>1, VrefIs
  <1> HIDE DEF r
  <1>4. r \in State /\ Tables(Empty, r) /\ (r.panic = "no" => Good(r))
    BY <1>2, <1>3, EmptyGood DEF Up, Follows, Tables
  <1>5. /\ \A f \in Files : r.file[f] = NoFile
        /\ \A p \in Procs : r.p_cwd[p] = NoIno /\ \A fd \in Fds : r.p_files[p][fd] = NULL
        /\ \A i \in Inos : r.lost[i] = 0
    BY <1>4, EmptyIs DEF Tables
  <1>6. FilesOK(r, NULL)
    BY <1>5 DEF FilesOK, NoFile
  <1>7. ASSUME r.panic = "no", NEW i \in Inos PROVE Rc(r, i) = Owed(r, i) + If(i = NoIno)
    <2>1. Rc(r, i) = Rc(m, i) + If(i = Root) /\ Rc(m, i) = 0 + If(i = Root)
      BY <1>2, <1>3, <1>7, EmptyIs DEF Up
    <2>2. FilesOn(r, i) = {} /\ ProcsIn(r, i) = {}
      <3>1. i # NoIno
        BY Basics
      <3> QED BY <1>5, <3>1 DEF FilesOn, ProcsIn, NoFile
    <2>3. Owed(r, i) = IF i = Root THEN 2 ELSE 0
      <3>1. Cardinality(FilesOn(r, i)) = 0 /\ Cardinality(ProcsIn(r, i)) = 0 /\ r.lost[i] = 0
        BY <1>5, <2>2, FS_EmptySet
      <3> QED BY <3>1 DEF Owed
    <2>4. If(i = NoIno) = 0 /\ If(i = Root) = IF i = Root THEN 1 ELSE 0
      BY NoOne DEF If
    <2> QED BY <2>1, <2>3, <2>4
  <1>8. ASSUME NEW f \in Files PROVE Off(r, f) = 0
    <2>1. FdsOf(r, f) = {}
      <3> SUFFICES ASSUME NEW e \in FdsOf(r, f) PROVE FALSE
        OBVIOUS
      <3>1. e[1] \in Procs /\ e[2] \in Fds /\ r.p_files[e[1]][e[2]] = f
        BY DEF FdsOf
      <3> QED BY <1>5, <3>1, Basics
    <2>2. Cardinality(FdsOf(r, f)) = 0
      BY <2>1, FS_EmptySet
    <2> QED BY <1>5, <2>2 DEF Off, NoFile
  <1>9. Settled(r)
    BY <1>4, <1>6, <1>7, <1>8 DEF Settled, Midway, VnodesOK
  <1> QED BY <1>1, <1>9
-----------------------------------------------------------------------------
(* Every step                                                              *)
LEMMA AliveIn == \A p \in Procs : Settled(st) /\ Alive(p) => st.panic = "no" /\ st.p_cwd[p] \in Inos
  BY DEF Alive, Running, Settled, Midway, State

LEMMA NextSettled == Settled(st) /\ [Next]_vars => Settled(st')
  <1> SUFFICES ASSUME Settled(st), [Next]_vars PROVE Settled(st')
    OBVIOUS
  <1>0. st \in State
    BY DEF Settled, Midway
  <1>1. ASSUME NEW p \in Procs, NEW fd \in Open(p)
        PROVE  fd \in Fds /\ st.panic = "no" /\ st.p_files[p][fd] # NULL
    BY <1>1 DEF Open, Alive, Running
  <1>2. CASE sys_open
    <2>1. PICK p \in Procs, path \in Paths, flags \in OpenFlags :
               HasFd(p) /\ flags.access # "3" /\ st' = do_open(st, p, path, flags)
      BY <1>2 DEF sys_open
    <2>2. Alive(p) /\ get_empty_fd(st, p) # -1
      BY <2>1 DEF HasFd
    <2>3. st.panic = "no" /\ st.p_cwd[p] \in Inos
      BY <2>2, AliveIn
    <2>4. Settled(do_open(st, p, path, flags))
      BY <2>1, <2>2, <2>3, OpenCall
    <2> QED BY <2>1, <2>4
  <1>3. CASE sys_close
    <2>1. PICK p \in Procs : \E fd \in Open(p) : st' = do_close(st, p, fd)
      BY <1>3 DEF sys_close
    <2>2. PICK fd \in Open(p) : st' = do_close(st, p, fd)
      BY <2>1
    <2> QED BY <1>1, <2>2, CloseCall
  <1>4. CASE sys_read
    <2>1. PICK p \in Procs, n \in Counts : \E fd \in Open(p) : st' = do_read(st, p, fd, n)
      BY <1>4 DEF sys_read
    <2>2. PICK fd \in Open(p) : st' = do_read(st, p, fd, n)
      BY <2>1
    <2>3. n \in Int
      BY VFSAssumption
    <2> QED BY <1>1, <2>2, <2>3, ReadCall
  <1>5. CASE sys_write
    <2>1. PICK p \in Procs, n \in Counts : \E fd \in Open(p) : st' = do_write(st, p, fd, n)
      BY <1>5 DEF sys_write
    <2>2. PICK fd \in Open(p) : st' = do_write(st, p, fd, n)
      BY <2>1
    <2>3. n \in Int
      BY VFSAssumption
    <2> QED BY <1>1, <2>2, <2>3, WriteCall
  <1>6. CASE sys_lseek
    <2>1. PICK p \in Procs, n \in Offsets, whence \in {"SEEK_SET", "SEEK_END"} :
               \E fd \in Open(p) : st' = do_lseek(st, p, fd, n, whence)
      BY <1>6 DEF sys_lseek
    <2>2. PICK fd \in Open(p) : st' = do_lseek(st, p, fd, n, whence)
      BY <2>1
    <2>3. n \in Int
      BY VFSAssumption
    <2> QED BY <1>1, <2>2, <2>3, LseekCall
  <1>7. CASE sys_dup
    <2>1. PICK p \in Procs : HasFd(p) /\ \E fd \in Open(p) : st' = do_dup(st, p, fd)
      BY <1>7 DEF sys_dup
    <2>2. PICK fd \in Open(p) : st' = do_dup(st, p, fd)
      BY <2>1
    <2>3. get_empty_fd(st, p) # -1
      BY <2>1 DEF HasFd
    <2> QED BY <1>1, <2>2, <2>3, DupCall
  <1>8. CASE sys_dup2
    <2>1. PICK p \in Procs, nfd \in 0 .. NFILES + 1 : \E fd \in Open(p) : st' = do_dup2(st, p, fd, nfd)
      BY <1>8 DEF sys_dup2
    <2>2. PICK fd \in Open(p) : st' = do_dup2(st, p, fd, nfd)
      BY <2>1
    <2> QED BY <1>1, <2>2, Dup2Call
  <1>9. CASE sys_getdents
    <2>1. PICK p \in Procs : \E fd \in Open(p) : st' = do_getdent(st, p, fd)
      BY <1>9 DEF sys_getdents
    <2>2. PICK fd \in Open(p) : st' = do_getdent(st, p, fd)
      BY <2>1
    <2> QED BY <1>1, <2>2, GetdentCall
  <1>10. CASE sys_mknod
    <2>1. PICK p \in Procs, path \in Paths, mode \in SpecialModes :
               Alive(p) /\ st' = do_mknod(st, p, path, mode).s
      BY <1>10 DEF sys_mknod
    <2> QED BY <2>1, AliveIn, MknodCall
  <1>11. CASE sys_mkdir
    <2>1. PICK p \in Procs, path \in Paths : Alive(p) /\ st' = do_mkdir(st, p, path).s
      BY <1>11 DEF sys_mkdir
    <2>2. Even(st, do_mkdir(st, p, path).s)
      BY <1>0, <2>1, AliveIn, Mkdir
    <2> QED BY <2>1, <2>2, EvenSettled
  <1>12. CASE sys_rmdir
    <2>1. PICK p \in Procs, path \in Paths :
               Alive(p) /\ ~IsDot(path) /\ st' = do_rmdir(st, p, path).s
      BY <1>12 DEF sys_rmdir
    <2>2. Even(st, do_rmdir(st, p, path).s)
      BY <1>0, <2>1, AliveIn, Rmdir
    <2> QED BY <2>1, <2>2, EvenSettled
  <1>13. CASE sys_unlink
    <2>1. PICK p \in Procs, path \in Paths : Alive(p) /\ st' = do_unlink(st, p, path).s
      BY <1>13 DEF sys_unlink
    <2>2. Even(st, do_unlink(st, p, path).s)
      BY <1>0, <2>1, AliveIn, UnlinkCall
    <2> QED BY <2>1, <2>2, EvenSettled
  <1>14. CASE sys_link
    <2>1. PICK p \in Procs, from \in Paths, to \in Paths : Alive(p) /\ st' = do_link(st, p, from, to).s
      BY <1>14 DEF sys_link
    <2>2. Even(st, do_link(st, p, from, to).s)
      BY <1>0, <2>1, AliveIn, LinkCall
    <2> QED BY <2>1, <2>2, EvenSettled
  <1>15. CASE sys_rename
    <2>1. PICK p \in Procs, old \in Paths, new \in Paths : Alive(p) /\ st' = do_rename(st, p, old, new).s
      BY <1>15 DEF sys_rename
    <2>2. Even(st, do_rename(st, p, old, new).s)
      BY <1>0, <2>1, AliveIn, Rename
    <2> QED BY <2>1, <2>2, EvenSettled
  <1>16. CASE sys_chdir
    <2>1. PICK p \in Procs, path \in Paths : Alive(p) /\ st' = do_chdir(st, p, path).s
      BY <1>16 DEF sys_chdir
    <2> QED BY <2>1, AliveIn, ChdirCall
  <1>17. CASE sys_stat
    <2>1. PICK p \in Procs, path \in Paths : Alive(p) /\ st' = do_stat(st, p, path).s
      BY <1>17 DEF sys_stat
    <2>2. Even(st, do_stat(st, p, path).s)
      BY <1>0, <2>1, AliveIn, Stat
    <2> QED BY <2>1, <2>2, EvenSettled
  <1>18. CASE NewProc
    <2>1. PICK p \in Procs : Running /\ ~Alive(p) /\ st' = proc_create(st, p)
      BY <1>18 DEF NewProc
    <2>2. st.panic = "no" /\ st.p_cwd[p] = NoIno
      BY <2>1 DEF Running, Alive
    <2> QED BY <2>1, <2>2, CreateCall
  <1>19. CASE ExitProc
    <2>1. PICK p \in Procs : Alive(p) /\ st' = proc_cleanup(st, p)
      BY <1>19 DEF ExitProc
    <2> QED BY <2>1, AliveIn, CleanupCall
  <1>20. CASE Halt
    BY <1>0, <1>20, HaltCall DEF Halt
  <1>21. CASE UNCHANGED vars
    BY <1>21 DEF vars
  <1> QED BY <1>2, <1>3, <1>4, <1>5, <1>6, <1>7, <1>8, <1>9, <1>10, <1>11, <1>12, <1>13, <1>14,
             <1>15, <1>16, <1>17, <1>18, <1>19, <1>20, <1>21 DEF Next
-----------------------------------------------------------------------------
IInv == Settled(st)

(* The state is of its type, its links, lengths and reference counts are   *)
(* right, and after every call no count is off by the file or the vnode    *)
(* the call worked with.                                                   *)
THEOREM SettledAlways == Spec => []IInv
  <1>1. Init => IInv
    BY InitSettled DEF IInv
  <1>2. IInv /\ [Next]_vars => IInv'
    BY NextSettled DEF IInv
  <1> QED BY <1>1, <1>2, PTL DEF Spec

(* Every field of the kernel state stays within its type: descriptors name *)
(* files or nothing, entries and working directories name inodes.          *)
THEOREM TypeCorrect == Spec => [](st \in State)
  <1>1. IInv => st \in State
    BY DEF IInv, Settled, Midway
  <1> QED BY <1>1, SettledAlways, PTL

(* A file's count is the number of descriptors that name it, over every    *)
(* sequence of open, close, dup and dup2 and their error paths, and across *)
(* the loop of closes of an exiting process.                               *)
THEOREM FileRefsExactThm == Spec => []FileRefsExact
  <1>1. IInv => FileRefsExact
    <2> SUFFICES ASSUME IInv, Running, NEW f \in Files
                 PROVE  st.file[f].f_refcount = Cardinality(FdsOf(st, f))
      BY DEF FileRefsExact
    <2>1. st \in State /\ Off(st, f) = 0
      BY DEF IInv, Settled, Midway, Running
    <2>2. st.file[f].f_refcount \in Nat /\ Cardinality(FdsOf(st, f)) \in Nat
      BY <2>1, FileType, Counts1
    <2> QED BY <2>1, <2>2 DEF Off
  <1> QED BY <1>1, SettledAlways, PTL

(* A vnode's count is the number of files, working directories and mounts  *)
(* that point to it and of the references that do_mknod lost: on no path   *)
(* of a call that takes a vnode, successful or not, is a vput missing or   *)
(* done twice, the one of do_mknod aside.                                  *)
THEOREM VnodeRefsExactThm == Spec => []VnodeRefsExact
  <1>1. IInv => VnodeRefsExact
    <2> SUFFICES ASSUME IInv, Running, NEW i \in Inos
                 PROVE  st.vnode[i].vn_refcount = Cardinality(FilesOn(st, i)) + Cardinality(ProcsIn(st, i))
                                                  + (IF i = Root THEN 2 ELSE 0) + st.lost[i]
      BY DEF VnodeRefsExact
    <2>1. Rc(st, i) = Owed(st, i) + If(i = NoIno) /\ If(i = NoIno) = 0 /\ st \in State
      BY NoOne DEF IInv, Settled, Midway, VnodesOK, Running
    <2>2. Owed(st, i) \in Nat
      BY <2>1, OwedType
    <2> QED BY <2>1, <2>2 DEF Rc, Owed
  <1> QED BY <1>1, SettledAlways, PTL

(* An inode has at least a link for each name that leads to it, for its    *)
(* cached vnode and for the mount, so it is never freed while a name or an *)
(* open file refers to it, provided that no path ends in "." or "..".      *)
THEOREM LinksKeepInodesThm == Spec => []LinksKeepInodes
  <1>1. IInv => LinksKeepInodes
    <2> SUFFICES ASSUME IInv, Running, NoDotPaths, NEW i \in Inos
                 PROVE  st.inode[i].rf_linkcount >=
                            Cardinality(Names(st, i)) + If(Cached(st, i)) + If(i = Root)
      BY DEF LinksKeepInodes
    <2>1. LinksEnough(st)
      BY DEF IInv, Settled, Midway, Good, Running
    <2> QED BY <2>1 DEF LinksEnough, LinksOf
  <1> QED BY <1>1, SettledAlways, PTL

(* KASSERT(file->vn_len == inode->rf_size) of ramfs_write: the two lengths *)
(* of a file in use agree, whatever was written through which descriptor,  *)
(* and also after its vnode was dropped and read in again.                 *)
THEOREM LengthsAgreeThm == Spec => []LengthsAgree
  <1>1. IInv => LengthsAgree
    <2> SUFFICES ASSUME IInv, Running, NEW i \in Inos, Cached(st, i), ~IsDir(st, i)
                 PROVE  st.vnode[i].vn_len = st.inode[i].rf_size
      BY DEF LengthsAgree
    <2>1. LengthsMatch(st)
      BY DEF IInv, Settled, Midway, Good, Running
    <2> QED BY <2>1 DEF LengthsMatch, Rc, Cached, IsDir
  <1> QED BY <1>1, SettledAlways, PTL

DescriptorsLive == Running =>
    \A p \in Procs, fd \in Fds : st.p_files[p][fd] # NULL =>
        LET i == st.file[st.p_files[p][fd]].f_vnode
        IN  i \in Inos /\ Cached(st, i) /\ st.inode[i].rf_mode # "FREE"

(* A descriptor in use names a file that has a vnode, and that vnode is in *)
(* the cache and its inode was not freed: with any paths, the inode of an  *)
(* open file lives until the file's last close, whatever was unlinked.     *)
THEOREM DescriptorsLiveThm == Spec => []DescriptorsLive
  <1>1. IInv => DescriptorsLive
    <2> SUFFICES ASSUME IInv, Running, NEW p \in Procs, NEW fd \in Fds, st.p_files[p][fd] # NULL
                 PROVE  LET i == st.file[st.p_files[p][fd]].f_vnode
                        IN  i \in Inos /\ Cached(st, i) /\ st.inode[i].rf_mode # "FREE"
      BY DEF DescriptorsLive
    <2> DEFINE i == st.file[st.p_files[p][fd]].f_vnode
    <2>1. i \in Inos /\ Rc(st, i) > 0
      BY OpenFd DEF IInv, Running, FileOf
    <2> HIDE DEF i
    <2>2. st.inode[i].rf_mode # "FREE"
      BY <2>1 DEF IInv, Settled, Midway, Good, InUse, Running
    <2> QED BY <2>1, <2>2 DEF i, Cached, Rc
  <1> QED BY <1>1, SettledAlways, PTL
=============================================================================
