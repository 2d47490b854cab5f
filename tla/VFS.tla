-------------------------------- MODULE VFS --------------------------------
(***************************************************************************)
(* Open files and the file system calls (fs/file.c, fs/open.c, fs/namev.c, *)
(* fs/vfs_syscall.c) on top of Ramfs.  The kernel state st adds to the     *)
(* fields of Ramfs                                                         *)
(*    file     the open files; one with no reference is free               *)
(*    p_files  the descriptors of each process                             *)
(*    p_cwd    the working directory of each process, NoIno when it is not *)
(*             alive                                                       *)
(*    lost     vnode references that no pointer of the kernel holds        *)
(* A call runs to its end without blocking, so it is one step; calls of    *)
(* different processes come in any order.  A path is a record of names     *)
(* that convert_path leaves as they are, and abs for a leading slash.      *)
(* dir_namev puts every directory on the way back as soon as it has        *)
(* looked it up, so only its result keeps a reference.                     *)
(***************************************************************************)
EXTENDS Ramfs, Sequences

CONSTANTS Procs,     \* processes other than the idle and the init process
          NFILES,    \* descriptors of a process
          Paths,     \* the paths given to the calls
          OpenFlags, \* the flags given to do_open
          SpecialModes, \* the modes given to do_mknod, of "CHR" and "BLK"
          Offsets,   \* the offsets given to do_lseek
          Counts,    \* the byte counts given to do_read and do_write
          MaxLost,   \* bound on the references lost by any two vnodes
          MaxLinks   \* bound on rf_linkcount, which an entry that goes with its
                     \* directory never gives back

ASSUME VFSAssumption ==
    /\ IsFiniteSet(Procs) /\ NFILES \in Nat \ {0} /\ {MaxLost, MaxLinks} \subseteq Nat
    /\ \A path \in Paths : path.names \in Seq(STRING \ {NoName}) /\ path.abs \in BOOLEAN
    /\ \A flags \in OpenFlags : /\ flags.access \in {"O_RDONLY", "O_WRONLY", "O_RDWR", "3"}
                                /\ flags.append \in BOOLEAN /\ flags.creat \in BOOLEAN
    /\ SpecialModes \subseteq {"CHR", "BLK"} /\ Offsets \subseteq Int /\ Counts \subseteq Nat

VARIABLE st

vars   == <<st>>
NULL   == 0
NoIno  == -1
Fds    == 0 .. NFILES - 1
Files  == 1 .. NFILES * Cardinality(Procs)
NoFile == [f_refcount |-> 0, f_mode |-> {}, f_pos |-> 0, f_vnode |-> NoIno]

-----------------------------------------------------------------------------
(* fs/file.c                                                               *)
FreshFile(s) == Least({f \in Files : s.file[f].f_refcount = 0})

fref(s, f) == [s EXCEPT !.file[f].f_refcount = @ + 1]

(* The file of a descriptor, or NULL for one that is closed or no slot.    *)
FileOf(s, p, fd) == IF fd \in Fds THEN s.p_files[p][fd] ELSE NULL

(* KASSERT(f); the vnode reference goes with the last file reference.      *)
fput(s, f) ==
    IF f = NULL THEN Panic(s, "fput")
    ELSE IF s.file[f].f_refcount > 1 THEN [s EXCEPT !.file[f].f_refcount = @ - 1]
    ELSE IF s.file[f].f_vnode = NoIno THEN [s EXCEPT !.file[f] = NoFile]
    ELSE vput([s EXCEPT !.file[f] = NoFile], s.file[f].f_vnode)

SetFd(s, p, fd, f) == [s EXCEPT !.p_files[p][fd] = f]

get_empty_fd(s, p) ==
    LET free == {fd \in Fds : s.p_files[p][fd] = NULL}
    IN  IF free = {} THEN -1 ELSE Least(free)

-----------------------------------------------------------------------------
(* fs/namev.c                                                              *)
lookup(s, dir, name) ==
    IF IsDir(s, dir) THEN ramfs_lookup(s, dir, name) ELSE Result(s, "-ENOTDIR")

(* The directory of the last name, from the root or from p_cwd.  The code  *)
(* puts a directory on the way before it looks at its mode and searches    *)
(* it, although vput may have freed the vnode.  That is harmless: a freed  *)
(* object of the slab allocator keeps its contents, and nothing is         *)
(* allocated in between.  A name is never too long here.                   *)
Walk(s, p, path) ==
    LET walk[n \in 0 .. Len(path.names)] ==
            IF n = 0 THEN Found(s, IF path.abs THEN Root ELSE s.p_cwd[p])
            ELSE Then(walk[n - 1], LAMBDA r :
                     Then(lookup(r.s, r.ino, path.names[n]), LAMBDA l :
                         Found(vput(l.s, l.ino), l.ino)))
    IN  walk[Len(path.names) - 1]

dir_namev(s, p, path) ==
    IF path.names = <<>> THEN Result(s, "-EINVAL")
    ELSE Then(Walk(s, p, path), LAMBDA w : Found(vget(w.s, w.ino), w.ino))

Last1(path) == path.names[Len(path.names)]

(* The result of create is not looked at: when it fails, the caller gets   *)
(* an uninitialised vnode pointer, and nothing is known from there on.     *)
CreateIn(s, dir, name) ==
    With(ramfs_create(s, dir, name), LAMBDA c :
        IF c.err = "0" THEN Found(vput(c.s, dir), c.ino)
        ELSE Result(Panic(c.s, "res_vnode"), "undefined"))

open_namev(s, p, path, creat) ==
    Then(dir_namev(s, p, path), LAMBDA d :
        With(lookup(d.s, d.ino, Last1(path)), LAMBDA l :
            IF l.err = "0" THEN Found(vput(l.s, d.ino), l.ino)
            ELSE IF l.err = "-ENOENT" /\ creat THEN CreateIn(l.s, d.ino, Last1(path))
            ELSE Result(vput(l.s, d.ino), l.err)))

-----------------------------------------------------------------------------
(* fs/open.c                                                               *)
Mode(flags) ==
    (CASE flags.access = "O_RDONLY" -> {"READ"}
       [] flags.access = "O_WRONLY" -> {"WRITE"}
       [] flags.access = "O_RDWR"   -> {"READ", "WRITE"})
    \union (IF flags.append THEN {"APPEND"} ELSE {})

(* Undo of an open that fails after its descriptor has been set.           *)
Reject(s, p, fd, f) == fput(SetFd(s, p, fd, NULL), f)

(* A new file with one reference in an empty slot.                         *)
NewFile(s, p, fd, f, flags) ==
    [SetFd(s, p, fd, f) EXCEPT
        !.file[f] = [NoFile EXCEPT !.f_refcount = 1, !.f_mode = Mode(flags)]]

(* -EISDIR for a directory to be written.  The drivers of this kernel are  *)
(* not implemented, so that no device can be registered and a special file *)
(* is always -ENXIO.                                                       *)
Refused(s, ino, flags) ==
    \/ s.inode[ino].rf_mode \in {"CHR", "BLK"}
    \/ IsDir(s, ino) /\ flags.access # "O_RDONLY"

(* Mutant: the vnode that is refused is not put back.                      *)
OpenFile_LeaksVnode(o, p, fd, f, flags) ==
    IF o.err # "0" \/ Refused(o.s, o.ino, flags) THEN Reject(o.s, p, fd, f)
    ELSE [o.s EXCEPT !.file[f].f_vnode = o.ino]

(* The rest of do_open with what open_namev returned.                      *)
OpenFile(o, p, fd, f, flags) ==
    IF o.err # "0" THEN Reject(o.s, p, fd, f)
    ELSE IF Refused(o.s, o.ino, flags) THEN vput(Reject(o.s, p, fd, f), o.ino)
    ELSE [o.s EXCEPT !.file[f].f_vnode = o.ino]

(* Once the flags are valid and a descriptor is free.                      *)
do_open(s, p, path, flags) ==
    With(get_empty_fd(s, p), LAMBDA fd :
        With(FreshFile(s), LAMBDA f :
            OpenFile(open_namev(NewFile(s, p, fd, f, flags), p, path, flags.creat),
                     p, fd, f, flags)))

-----------------------------------------------------------------------------
(* fs/vfs_syscall.c: the calls on an open descriptor.  On any other one    *)
(* they return -EBADF and change nothing.                                  *)
Base(s, f, whence) ==
    CASE whence = "SEEK_SET" -> 0
      [] whence = "SEEK_CUR" -> s.file[f].f_pos
      [] whence = "SEEK_END" -> s.vnode[s.file[f].f_vnode].vn_len

SeekTo(s, f, pos) == IF pos < 0 THEN s ELSE [s EXCEPT !.file[f].f_pos = pos]

lseek(s, f, offset, whence) == SeekTo(s, f, Base(s, f, whence) + offset)

do_lseek(s, p, fd, offset, whence) == lseek(s, FileOf(s, p, fd), offset, whence)

ReadFile(s, f, nbytes) ==
    With(ramfs_read(s, s.file[f].f_vnode, s.file[f].f_pos, nbytes), LAMBDA bytes :
        IF bytes = nbytes THEN lseek(s, f, bytes, "SEEK_CUR")
                          ELSE lseek(s, f, 0, "SEEK_END"))

do_read(s, p, fd, nbytes) ==
    With(FileOf(s, p, fd), LAMBDA f :
        IF \/ "READ" \notin s.file[f].f_mode
           \/ IsDir(s, s.file[f].f_vnode)
           \/ nbytes = 0
        THEN s
        ELSE ReadFile(s, f, nbytes))

(* KASSERT(f_pos <= vn_len) holds at the end of both.                      *)
AppendFile(s, f, nbytes) ==
    With(lseek(s, f, 0, "SEEK_END"), LAMBDA e :
        lseek(ramfs_write(e, e.file[f].f_vnode, e.file[f].f_pos, nbytes), f, 0, "SEEK_END"))

WriteFile(s, f, nbytes) ==
    lseek(ramfs_write(s, s.file[f].f_vnode, s.file[f].f_pos, nbytes),
          f, Written(s.file[f].f_pos, nbytes), "SEEK_CUR")

do_write(s, p, fd, nbytes) ==
    With(FileOf(s, p, fd), LAMBDA f :
        IF \/ s.file[f].f_mode \intersect {"WRITE", "APPEND"} = {}
           \/ IsDir(s, s.file[f].f_vnode)
        THEN s
        ELSE IF "APPEND" \in s.file[f].f_mode THEN AppendFile(s, f, nbytes)
        ELSE WriteFile(s, f, nbytes))

do_close(s, p, fd) ==
    With(FileOf(s, p, fd), LAMBDA f : SetFd(fput(fput(fref(s, f), f), f), p, fd, NULL))

(* Mutant: the file is put back although the new descriptor holds it.      *)
do_dup_PutBack(s, p, fd) ==
    With(FileOf(s, p, fd), LAMBDA f :
        fput(SetFd(fref(s, f), p, get_empty_fd(s, p), f), f))

(* Once a descriptor is free.                                              *)
do_dup(s, p, fd) ==
    With(FileOf(s, p, fd), LAMBDA f : SetFd(fref(s, f), p, get_empty_fd(s, p), f))

(* nfd = NFILES passes the check: the file overwrites p_cwd, the field     *)
(* after p_files, and fput is called with the NULL that fget returns.      *)
do_dup2(s, p, ofd, nfd) ==
    With(FileOf(s, p, ofd), LAMBDA f :
        With(fref(s, f), LAMBDA g :
            IF nfd = ofd \/ nfd > NFILES THEN fput(g, f)
            ELSE IF nfd = NFILES THEN fput(g, NULL)
            ELSE IF FileOf(g, p, nfd) # NULL THEN SetFd(do_close(g, p, nfd), p, nfd, f)
            ELSE SetFd(g, p, nfd, f)))

do_getdent(s, p, fd) ==
    With(FileOf(s, p, fd), LAMBDA f :
        IF ~IsDir(s, s.file[f].f_vnode) THEN s
        ELSE With(ramfs_readdir(s, s.file[f].f_vnode, s.file[f].f_pos), LAMBDA bytes :
                 lseek(s, f, bytes, IF bytes = 0 THEN "SEEK_END" ELSE "SEEK_CUR")))

-----------------------------------------------------------------------------
(* fs/vfs_syscall.c: the calls on paths.                                   *)
IsDot(path) == path.names # <<>> /\ Last1(path) \in {".", ".."}

(* The state after the calls that end in a lookup of the path's last name. *)
Lookup(s, p, path, F(_, _)) ==
    Then(dir_namev(s, p, path), LAMBDA d : F(d, lookup(d.s, d.ino, Last1(path))))

(* The reference to a node that exists is lost: its vput is a comment.     *)
do_mknod(s, p, path, mode) ==
    Lookup(s, p, path, LAMBDA d, l :
        IF l.err = "0" THEN Result(vput([l.s EXCEPT !.lost[l.ino] = @ + 1], d.ino), "-EEXIST")
        ELSE IF l.err # "-ENOENT" THEN Result(vput(l.s, d.ino), l.err)
        ELSE With(ramfs_mknod(l.s, d.ino, Last1(path), mode), LAMBDA n :
                 Result(vput(n.s, d.ino), n.err)))

do_mkdir(s, p, path) ==
    Lookup(s, p, path, LAMBDA d, l :
        IF l.err = "0" THEN Result(vput(vput(l.s, d.ino), l.ino), "-EEXIST")
        ELSE IF ~IsDir(l.s, d.ino) THEN Result(vput(l.s, d.ino), "-ENOTDIR")
        ELSE With(ramfs_mkdir(l.s, d.ino, Last1(path)), LAMBDA n :
                 Result(vput(n.s, d.ino), n.err)))

(* For a path that does not end in "." or "..".                            *)
do_rmdir(s, p, path) ==
    Then(dir_namev(s, p, path), LAMBDA d :
        IF ~IsDir(d.s, d.ino) THEN Result(vput(d.s, d.ino), "-ENOTDIR")
        ELSE With(ramfs_rmdir(d.s, d.ino, Last1(path)), LAMBDA r :
                 Result(vput(r.s, d.ino), r.err)))

do_unlink(s, p, path) ==
    Lookup(s, p, path, LAMBDA d, l :
        IF l.err # "0" THEN Result(vput(l.s, d.ino), l.err)
        ELSE IF IsDir(l.s, l.ino) THEN Result(vput(vput(l.s, d.ino), l.ino), "-EISDIR")
        ELSE Result(vput(vput(ramfs_unlink(l.s, d.ino, Last1(path)), l.ino), d.ino), "0"))

(* The old name may be that of a directory.                                *)
LinkTo(s, old, p, to) ==
    Lookup(s, p, to, LAMBDA d, l :
        IF l.err = "0" THEN Result(vput(vput(l.s, d.ino), l.ino), "-EEXIST")
        ELSE IF ~IsDir(l.s, d.ino) THEN Result(vput(l.s, d.ino), "-ENOTDIR")
        ELSE With(ramfs_link(l.s, old, d.ino, Last1(to)), LAMBDA k :
                 Result(vput(k.s, d.ino), k.err)))

do_link(s, p, from, to) ==
    Then(open_namev(s, p, from, FALSE), LAMBDA o :
        With(LinkTo(o.s, o.ino, p, to), LAMBDA k : Result(vput(k.s, o.ino), k.err)))

do_rename(s, p, old, new) ==
    Then(do_link(s, p, old, new), LAMBDA k : do_unlink(k.s, p, old))

ChangeDir(s, p, ino) == [vput(s, s.p_cwd[p]) EXCEPT !.p_cwd[p] = ino]

do_chdir(s, p, path) ==
    Then(open_namev(s, p, path, FALSE), LAMBDA o :
        IF ~IsDir(o.s, o.ino) THEN Result(vput(o.s, o.ino), "-ENOTDIR")
        ELSE Result(ChangeDir(o.s, p, o.ino), "0"))

do_stat(s, p, path) ==
    Lookup(s, p, path, LAMBDA d, l :
        IF l.err # "0" THEN Result(vput(l.s, d.ino), l.err)
        ELSE Result(vput(vput(l.s, d.ino), l.ino), "0"))

-----------------------------------------------------------------------------
(* Processes.  A new one starts in the root.  The idle process and init    *)
(* stay there, with one reference for the two of them (kmain.c).           *)
vref(s, ino) == [s EXCEPT !.vnode[ino].vn_refcount = @ + 1]

proc_create(s, p) == [vref(s, Root) EXCEPT !.p_cwd[p] = Root]

(* proc_cleanup closes every descriptor, then puts the working directory.  *)
proc_cleanup(s, p) ==
    LET closed[n \in 0 .. NFILES] ==
            IF n = 0 THEN s
            ELSE IF FileOf(closed[n - 1], p, n - 1) = NULL THEN closed[n - 1]
            ELSE do_close(closed[n - 1], p, n - 1)
    IN  ChangeDir(closed[NFILES], p, NoIno)

(* vfs_shutdown looks for vnodes in use, and ramfs_umount puts the root.   *)
vfs_shutdown(s) ==
    IF vfs_is_in_use(s) THEN Panic(s, "in use")
    ELSE IF s.vnode[Root].vn_refcount = 0 THEN vput(s, Root)
    ELSE Panic(vput(s, Root), "halted")

(* Once init has exited, the idle process puts its own working directory.  *)
halt(s) == With(vput(vput(s, Root), Root), LAMBDA i : vfs_shutdown(i))

Init ==
    LET mounted == vget([inode |-> [ino \in Inos |-> IF ino # Root THEN NoInode ELSE
                                      [rf_mode |-> "DIR", rf_size |-> 2, rf_linkcount |-> 1,
                                       rf_mem |-> [i \in Slots |->
                                           CASE i = 1 -> Entry(".", Root)
                                             [] i = 2 -> Entry("..", Root)
                                             [] OTHER -> NoEntry]]],
                         vnode   |-> [ino \in Inos |-> NotCached],
                         file    |-> [f \in Files |-> NoFile],
                         p_files |-> [p \in Procs |-> [fd \in Fds |-> NULL]],
                         p_cwd   |-> [p \in Procs |-> NoIno],
                         lost    |-> [ino \in Inos |-> 0],
                         panic   |-> "no"], Root)
    IN  st = vref(mounted, Root)

Running   == st.panic = "no"
Alive(p)  == Running /\ st.p_cwd[p] # NoIno
Open(p)   == {fd \in Fds : Alive(p) /\ st.p_files[p][fd] # NULL}
HasFd(p)  == Alive(p) /\ get_empty_fd(st, p) # -1
FewLost(s) == \A i, j \in Inos : s.lost[i] + (IF i = j THEN 0 ELSE s.lost[j]) <= MaxLost
FewLinks  == \A ino \in Inos : st.inode[ino].rf_linkcount < MaxLinks

sys_open == \E p \in Procs, path \in Paths, flags \in OpenFlags :
    HasFd(p) /\ flags.access # "3" /\ st' = do_open(st, p, path, flags)
sys_close == \E p \in Procs : \E fd \in Open(p) : st' = do_close(st, p, fd)
sys_read == \E p \in Procs, n \in Counts : \E fd \in Open(p) : st' = do_read(st, p, fd, n)
sys_write == \E p \in Procs, n \in Counts : \E fd \in Open(p) : st' = do_write(st, p, fd, n)
sys_lseek == \E p \in Procs, n \in Offsets, whence \in {"SEEK_SET", "SEEK_END"} :
    \E fd \in Open(p) : st' = do_lseek(st, p, fd, n, whence)
sys_dup == \E p \in Procs : HasFd(p) /\ \E fd \in Open(p) : st' = do_dup(st, p, fd)
sys_dup2 == \E p \in Procs, nfd \in 0 .. NFILES + 1 : \E fd \in Open(p) :
    st' = do_dup2(st, p, fd, nfd)
sys_getdents == \E p \in Procs : \E fd \in Open(p) : st' = do_getdent(st, p, fd)
sys_mknod == \E p \in Procs, path \in Paths, mode \in SpecialModes :
    /\ Alive(p)
    /\ st' = do_mknod(st, p, path, mode).s
    /\ FewLost(st')
sys_mkdir == \E p \in Procs, path \in Paths : Alive(p) /\ st' = do_mkdir(st, p, path).s
sys_rmdir == \E p \in Procs, path \in Paths :
    Alive(p) /\ ~IsDot(path) /\ st' = do_rmdir(st, p, path).s
sys_unlink == \E p \in Procs, path \in Paths : Alive(p) /\ st' = do_unlink(st, p, path).s
sys_link == \E p \in Procs, from, to \in Paths :
    Alive(p) /\ FewLinks /\ st' = do_link(st, p, from, to).s
sys_rename == \E p \in Procs, old, new \in Paths :
    Alive(p) /\ FewLinks /\ st' = do_rename(st, p, old, new).s
sys_chdir == \E p \in Procs, path \in Paths : Alive(p) /\ st' = do_chdir(st, p, path).s
sys_stat == \E p \in Procs, path \in Paths : Alive(p) /\ st' = do_stat(st, p, path).s
NewProc == \E p \in Procs : Running /\ ~Alive(p) /\ st' = proc_create(st, p)
ExitProc == \E p \in Procs : Alive(p) /\ st' = proc_cleanup(st, p)
Halt == Running /\ (\A p \in Procs : ~Alive(p)) /\ st' = halt(st)

Next ==
    \/ sys_open \/ sys_close \/ sys_read \/ sys_write \/ sys_lseek
    \/ sys_dup \/ sys_dup2 \/ sys_getdents \/ sys_mknod \/ sys_mkdir
    \/ sys_rmdir \/ sys_unlink \/ sys_link \/ sys_rename \/ sys_chdir
    \/ sys_stat \/ NewProc \/ ExitProc \/ Halt

Spec == Init /\ [][Next]_vars

-----------------------------------------------------------------------------
Cached(s, ino) == s.vnode[ino].vn_refcount > 0
If(b) == IF b THEN 1 ELSE 0

(* The descriptors that name a file, and the files, working directories    *)
(* and directory entries that name an inode.                               *)
FdsOf(s, f)      == {e \in Procs \X Fds : s.p_files[e[1]][e[2]] = f}
FilesOn(s, ino)  == {f \in Files : s.file[f].f_vnode = ino}
ProcsIn(s, ino)  == {p \in Procs : s.p_cwd[p] = ino}
IsName(s, d, i)  == IsDir(s, d) /\ s.inode[d].rf_mem[i].rd_name \notin {NoName, ".", ".."}
Names(s, ino)    == {e \in Inos \X Slots : /\ IsName(s, e[1], e[2])
                                          /\ s.inode[e[1]].rf_mem[e[2]].rd_ino = ino}

(* A file's count is the number of descriptors that name it, over every    *)
(* sequence of open, close, dup and dup2 and their error paths, so it is   *)
(* freed with the last one and never before.                               *)
FileRefsExact == Running =>
    \A f \in Files : st.file[f].f_refcount = Cardinality(FdsOf(st, f))

(* A vnode's count is the number of files, working directories and mounts  *)
(* that point to it, one for init and the idle process together, and the   *)
(* references that do_mknod lost.                                          *)
VnodeRefsExact == Running => \A ino \in Inos :
    st.vnode[ino].vn_refcount = Cardinality(FilesOn(st, ino)) + Cardinality(ProcsIn(st, ino))
                                + (IF ino = Root THEN 2 ELSE 0) + st.lost[ino]

(* do_unlink, unlike do_rmdir, takes a path that ends in "..": in a        *)
(* directory that was removed, that entry names an inode that may have     *)
(* been given to another file, whose link it then takes away.              *)
NoDotPaths == \A path \in Paths : ~IsDot(path)

(* Unless a path ends in "." or "..", an inode's link count is at least    *)
(* the number of names that lead to it and its cached vnode, so neither a  *)
(* name nor an open file ever refers to an inode that was freed (or freed  *)
(* and given to another file).                                             *)
LinksKeepInodes == Running /\ NoDotPaths => \A ino \in Inos :
    st.inode[ino].rf_linkcount >=
        Cardinality(Names(st, ino)) + If(Cached(st, ino)) + If(ino = Root)

(* KASSERT(file->vn_len == inode->rf_size) of ramfs_write: the length in   *)
(* the vnode and the size in the inode agree for every file in use, also   *)
(* after its last vnode was dropped and read in again.                     *)
LengthsAgree == Running => \A ino \in Inos :
    Cached(st, ino) /\ ~IsDir(st, ino) => st.vnode[ino].vn_len = st.inode[ino].rf_size
=============================================================================
