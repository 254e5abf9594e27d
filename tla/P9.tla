---------------------------------- MODULE P9 ----------------------------------
(***************************************************************************)
(* The 9P2000.L server of src/src/devices/virtio_9p.c: the fid table, the  *)
(* containment of paths and a handler per request.                         *)
(*                                                                         *)
(* v = [fids, k, ro]: fids is fid -> [path, fd, dir] or NoFid, k the host  *)
(* (P9Host).  A handler maps v and a request m to [v, err, out]: err is    *)
(* the errno of an Rlerror, "" for the matching R-message, whose contents  *)
(* are out.  m.short says that the message ends before its last field.     *)
(***************************************************************************)
EXTENDS P9Host

CONSTANTS
    Fids,           \* the fids the client uses
    Root,           \* the path of the shared directory
    PATH_MAX        \* the longest path, in names

NoFid == [path |-> <<"none">>, fd |-> NoFd, dir |-> NoFd]
Unopened(path) == [path |-> path, fd |-> NoFd, dir |-> NoFd]

mk_lerror(v, e) == [v |-> v, err |-> e, out |-> <<>>]
resp_finish(v, out) == [v |-> v, err |-> "", out |-> out]
\* The reply of a handler that ends with one system call.
Replies(v, r) == IF r.err # "" THEN mk_lerror(v, r.err) ELSE resp_finish([v EXCEPT !.k = r.k], <<>>)

-----------------------------------------------------------------------------
(* Paths.  A name is bad when it is empty or holds a slash.                *)

BadName == "../b"

path_child(base, name) ==
    IF name = BadName THEN [path |-> <<>>, err |-> "EINVAL"]
    ELSE IF name = "." THEN [path |-> base, err |-> ""]
    ELSE IF name = ".."
    THEN [path |-> IF base = Root \/ Len(Front(base)) < Len(Root) THEN Root ELSE Front(base),
          err |-> ""]
    ELSE IF Len(base) = PATH_MAX THEN [path |-> <<>>, err |-> "ENAMETOOLONG"]
    ELSE IF ~IsPrefix(Root, Append(base, name)) THEN [path |-> <<>>, err |-> "EACCES"]
    ELSE [path |-> Append(base, name), err |-> ""]

-----------------------------------------------------------------------------
(* The fid table.                                                          *)

fid_find(v, fid) == v.fids[fid] # NoFid

CloseHandles(v, fid) == [v EXCEPT !.k = close(close(@, v.fids[fid].fd), v.fids[fid].dir)]

\* Mutant: a fid that is assigned again keeps its handles open.
fid_new_Leak(v, fid, path) == [v EXCEPT !.fids[fid] = Unopened(path)]

fid_new(v, fid, path) == [CloseHandles(v, fid) EXCEPT !.fids[fid] = Unopened(path)]
fid_del(v, fid) == [CloseHandles(v, fid) EXCEPT !.fids[fid] = NoFid]
fids_clear(v) == FoldSet(LAMBDA fid, w : fid_del(w, fid), v, Fids)

-----------------------------------------------------------------------------
(* Open flags: the access mode 0..3 and what else matters here.            *)

dotl_to_host(fl) == [r |-> fl.acc # 1, w |-> fl.acc # 0,
                     creat |-> fl.creat, excl |-> fl.excl, trunc |-> fl.trunc]
dotl_wants_write(fl) == fl.acc \in {1, 2} \/ fl.creat \/ fl.trunc

-----------------------------------------------------------------------------
(* Handlers.                                                               *)

h_version(v, m) == resp_finish(fids_clear(v), <<>>)

h_attach(v, m) ==
    IF m.short THEN mk_lerror(v, "EINVAL")
    ELSE IF lstat(v.k, Root) = NoIno THEN mk_lerror(v, "ENOENT")
    ELSE resp_finish(fid_new(v, m.fid, Root), <<>>)

walked(nqid, names) == nqid = Len(names)

(* The names are walked until one cannot be; an error is reported only for *)
(* the first.  at is the path so far, n the names walked, err why it ended.*)
h_walk(v, m) ==
    LET step(w, name) ==
            LET c == path_child(w.at, name)
            IN  IF w.err # "" THEN w
                ELSE IF c.err # "" THEN [w EXCEPT !.err = c.err]
                ELSE IF lstat(v.k, c.path) = NoIno THEN [w EXCEPT !.err = "ENOENT"]
                ELSE [at |-> c.path, n |-> w.n + 1, err |-> ""]
        w == FoldLeft(step, [at |-> v.fids[m.fid].path, n |-> 0, err |-> ""], m.names)
    IN  IF m.short THEN mk_lerror(v, "EINVAL")
        ELSE IF ~fid_find(v, m.fid) THEN mk_lerror(v, "EBADF")
        ELSE IF w.err # "" /\ w.n = 0 THEN mk_lerror(v, w.err)
        ELSE resp_finish(IF walked(w.n, m.names) THEN fid_new(v, m.newfid, w.at) ELSE v, <<w.n>>)

h_getattr(v, m) ==
    IF m.short THEN mk_lerror(v, "EINVAL")
    ELSE IF ~fid_find(v, m.fid) THEN mk_lerror(v, "EBADF")
    ELSE IF lstat(v.k, v.fids[m.fid].path) = NoIno THEN mk_lerror(v, "ENOENT")
    ELSE resp_finish(v, <<lstat(v.k, v.fids[m.fid].path)>>)

(* The attributes are set one after the other; a failure ends the request  *)
(* and leaves the ones set before it.                                      *)
SetTimes(v, m, path, r) ==
    IF r.err # "" THEN mk_lerror(v, r.err)
    ELSE IF "mtime" \in m.valid /\ lstat(r.k, path) = NoIno
    THEN mk_lerror([v EXCEPT !.k = r.k], "ENOENT")
    ELSE resp_finish([v EXCEPT !.k = r.k], <<>>)
SetSize(v, m, path) ==
    SetTimes(v, m, path, IF "size" \in m.valid THEN truncate(v.k, path) ELSE [k |-> v.k, err |-> ""])
SetOwner(v, m, path, r) ==
    IF r.err # "" THEN mk_lerror(v, r.err)
    ELSE IF "uid" \in m.valid /\ lstat(r.k, path) = NoIno
    THEN mk_lerror([v EXCEPT !.k = r.k], "ENOENT")
    ELSE SetSize([v EXCEPT !.k = r.k], m, path)
h_setattr(v, m) ==
    IF m.short THEN mk_lerror(v, "EINVAL")
    ELSE IF v.ro THEN mk_lerror(v, "EROFS")
    ELSE IF ~fid_find(v, m.fid) THEN mk_lerror(v, "EBADF")
    ELSE SetOwner(v, m, v.fids[m.fid].path,
                  IF "mode" \in m.valid THEN chmod(v.k, v.fids[m.fid].path)
                  ELSE [k |-> v.k, err |-> ""])

\* Mutant: the offset of an entry leads back to the entry.
resume_Before(e) == e.next - 1

resume(e) == e.next             \* telldir after the entry was read

(* Entries from position m.off on, as many as the count m.count and the    *)
(* reply m.cap hold (in entries).  A count that holds not even one is an   *)
(* error, for an empty reply would mean the end.                           *)
Entries(v, m, rest) ==
    IF rest # <<>> /\ m.count = 0 THEN mk_lerror(v, "EINVAL")
    ELSE resp_finish(v, [i \in 1..Min({Len(rest), m.count, m.cap}) |->
                            [name |-> rest[i].name, next |-> resume(rest[i])]])
Streamed(v, m, dir) ==
    Entries(v, m, SelectSeq(Listing(v.k, v.k.open[dir].ino), LAMBDA e : e.next > m.off))
h_readdir(v, m) ==
    IF m.short THEN mk_lerror(v, "EINVAL")
    ELSE IF ~fid_find(v, m.fid) THEN mk_lerror(v, "EBADF")
    ELSE IF v.fids[m.fid].dir = NoFd
    THEN LET o == opendir(v.k, v.fids[m.fid].path)
             fd == Min(FreeFds(v.k))
         IN  IF o.err # "" THEN mk_lerror(v, o.err)
             ELSE Streamed([v EXCEPT !.k = o.k, !.fids[m.fid].dir = fd], m, fd)
    ELSE Streamed(v, m, v.fids[m.fid].dir)

\* A fid gets the directory or the file that was opened for it.
StreamOpened(v, fid, shut, d) ==
    IF d.err # "" THEN mk_lerror([v EXCEPT !.k = shut, !.fids[fid].dir = NoFd], d.err)
    ELSE resp_finish([v EXCEPT !.k = d.k, !.fids[fid].dir = Min(FreeFds(shut))], <<>>)
FileOpened(v, fid, o) ==
    IF o.err # "" THEN mk_lerror(v, o.err)
    ELSE resp_finish([v EXCEPT !.k = close(o.k, v.fids[fid].fd),
                               !.fids[fid].fd = Min(FreeFds(v.k))], <<>>)
FileCreated(v, fid, path, o) ==
    IF o.err # "" THEN mk_lerror(v, o.err)
    ELSE resp_finish([v EXCEPT !.k = close(close(o.k, v.fids[fid].fd), v.fids[fid].dir),
                               !.fids[fid] = [path |-> path, fd |-> Min(FreeFds(v.k)),
                                              dir |-> NoFd]], <<>>)

h_lopen(v, m) ==
    LET f == v.fids[m.fid]
        ino == lstat(v.k, f.path)
        shut == close(v.k, f.dir)       \* the stream of an earlier Tlopen
    IN  IF m.short THEN mk_lerror(v, "EINVAL")
        ELSE IF ~fid_find(v, m.fid) THEN mk_lerror(v, "EBADF")
        ELSE IF ino = NoIno THEN mk_lerror(v, "ENOENT")
        ELSE IF v.ro /\ dotl_wants_write(m.fl) THEN mk_lerror(v, "EROFS")
        ELSE IF IsDir(v.k, ino) THEN StreamOpened(v, m.fid, shut, opendir(shut, f.path))
        ELSE FileOpened(v, m.fid, open(v.k, f.path, dotl_to_host(m.fl)))

h_lcreate(v, m) ==
    LET c == path_child(v.fids[m.fid].path, m.name)
    IN  IF m.short THEN mk_lerror(v, "EINVAL")
        ELSE IF v.ro THEN mk_lerror(v, "EROFS")
        ELSE IF ~fid_find(v, m.fid) THEN mk_lerror(v, "EBADF")
        ELSE IF c.err # "" THEN mk_lerror(v, c.err)
        ELSE FileCreated(v, m.fid, c.path,
                         open(v.k, c.path, [dotl_to_host(m.fl) EXCEPT !.creat = TRUE]))

h_read(v, m) ==
    LET fd == v.fids[m.fid].fd
    IN  IF m.short THEN mk_lerror(v, "EINVAL")
        ELSE IF ~fid_find(v, m.fid) \/ fd = NoFd THEN mk_lerror(v, "EBADF")
        ELSE IF ~v.k.open[fd].r THEN mk_lerror(v, "EBADF")
        ELSE resp_finish(v, <<v.k.node[v.k.open[fd].ino].data>>)

\* Mutant: a read-only share trusts the mode of the open.
h_write_Trusting(v, m) ==
    LET fd == v.fids[m.fid].fd
    IN  IF m.short THEN mk_lerror(v, "EINVAL")
        ELSE IF ~fid_find(v, m.fid) \/ fd = NoFd THEN mk_lerror(v, "EBADF")
        ELSE Replies(v, pwrite(v.k, fd))

h_write(v, m) ==
    LET fd == v.fids[m.fid].fd
    IN  IF m.short THEN mk_lerror(v, "EINVAL")
        ELSE IF v.ro THEN mk_lerror(v, "EROFS")
        ELSE IF ~fid_find(v, m.fid) \/ fd = NoFd THEN mk_lerror(v, "EBADF")
        ELSE Replies(v, pwrite(v.k, fd))

(* The requests that name a child of a directory fid and end in one call:  *)
(* mkdir, mknod, symlink and unlinkat differ in the call alone.            *)
child_call(v, m, call(_, _)) ==
    LET c == path_child(v.fids[m.fid].path, m.name)
    IN  IF m.short THEN mk_lerror(v, "EINVAL")
        ELSE IF v.ro THEN mk_lerror(v, "EROFS")
        ELSE IF ~fid_find(v, m.fid) THEN mk_lerror(v, "EBADF")
        ELSE IF c.err # "" THEN mk_lerror(v, c.err)
        ELSE Replies(v, call(v.k, c.path))

h_mkdir(v, m) == child_call(v, m, LAMBDA k, path : create(k, path, Node("dir")))
h_mknod(v, m) == child_call(v, m, LAMBDA k, path : create(k, path, Node("file")))
h_symlink(v, m) ==
    child_call(v, m, LAMBDA k, path : create(k, path, [Node("link") EXCEPT !.target = m.target]))
h_unlinkat(v, m) ==
    child_call(v, m, LAMBDA k, path : IF m.rmdir THEN rmdir(k, path) ELSE unlink(k, path))

h_readlink(v, m) ==
    LET ino == lstat(v.k, v.fids[m.fid].path)
    IN  IF m.short THEN mk_lerror(v, "EINVAL")
        ELSE IF ~fid_find(v, m.fid) THEN mk_lerror(v, "EBADF")
        ELSE IF ino = NoIno THEN mk_lerror(v, "ENOENT")
        ELSE IF v.k.node[ino].type # "link" THEN mk_lerror(v, "EINVAL")
        ELSE resp_finish(v, <<v.k.node[ino].target>>)

h_link(v, m) ==
    LET c == path_child(v.fids[m.fid].path, m.name)
    IN  IF m.short THEN mk_lerror(v, "EINVAL")
        ELSE IF v.ro THEN mk_lerror(v, "EROFS")
        ELSE IF ~fid_find(v, m.fid) \/ ~fid_find(v, m.newfid) THEN mk_lerror(v, "EBADF")
        ELSE IF c.err # "" THEN mk_lerror(v, c.err)
        ELSE Replies(v, link(v.k, v.fids[m.newfid].path, c.path))

renamed(v, fid, path) == [v EXCEPT !.fids[fid].path = path]

\* The fid that is renamed gets the new path; no other fid does.
Renamed(v, fid, path, r) ==
    IF r.err # "" THEN mk_lerror(v, r.err)
    ELSE resp_finish(renamed([v EXCEPT !.k = r.k], fid, path), <<>>)
h_rename(v, m) ==
    LET c == path_child(v.fids[m.newfid].path, m.name)
    IN  IF m.short THEN mk_lerror(v, "EINVAL")
        ELSE IF v.ro THEN mk_lerror(v, "EROFS")
        ELSE IF ~fid_find(v, m.fid) \/ ~fid_find(v, m.newfid) THEN mk_lerror(v, "EBADF")
        ELSE IF c.err # "" THEN mk_lerror(v, c.err)
        ELSE Renamed(v, m.fid, c.path, rename(v.k, v.fids[m.fid].path, c.path))

\* Mutant: what is in the way is removed before the rename is tried.
h_renameat_Clears(v, m) ==
    LET old == path_child(v.fids[m.fid].path, m.name)
        new == path_child(v.fids[m.newfid].path, m.newname)
        k == remove(v.k, new.path).k
        r == rename(k, old.path, new.path)
    IN  IF v.ro \/ ~fid_find(v, m.fid) \/ ~fid_find(v, m.newfid) THEN mk_lerror(v, "EBADF")
        ELSE IF old.err # "" \/ new.err # "" THEN mk_lerror(v, "EINVAL")
        ELSE [v |-> [v EXCEPT !.k = IF r.err # "" THEN k ELSE r.k], err |-> r.err, out |-> <<>>]

h_renameat(v, m) ==
    LET old == path_child(v.fids[m.fid].path, m.name)
        new == path_child(v.fids[m.newfid].path, m.newname)
    IN  IF m.short THEN mk_lerror(v, "EINVAL")
        ELSE IF v.ro THEN mk_lerror(v, "EROFS")
        ELSE IF ~fid_find(v, m.fid) \/ ~fid_find(v, m.newfid) THEN mk_lerror(v, "EBADF")
        ELSE IF old.err # "" THEN mk_lerror(v, old.err)
        ELSE IF new.err # "" THEN mk_lerror(v, new.err)
        ELSE Replies(v, rename(v.k, old.path, new.path))

\* The fid goes whatever becomes of the file.
Removed(v, fid, r) ==
    IF r.err # "" THEN mk_lerror(fid_del(v, fid), r.err)
    ELSE resp_finish(fid_del([v EXCEPT !.k = r.k], fid), <<>>)
h_remove(v, m) ==
    IF m.short THEN mk_lerror(v, "EINVAL")
    ELSE IF ~fid_find(v, m.fid) THEN mk_lerror(v, "EBADF")
    ELSE IF v.ro THEN mk_lerror(fid_del(v, m.fid), "EROFS")
    ELSE Removed(v, m.fid, remove(v.k, v.fids[m.fid].path))

h_clunk(v, m) ==
    IF m.short THEN mk_lerror(v, "EINVAL") ELSE resp_finish(fid_del(v, m.fid), <<>>)

\* fsync and statfs: nothing here changes.
h_fsync(v, m) ==
    IF m.short THEN mk_lerror(v, "EINVAL")
    ELSE IF ~fid_find(v, m.fid) THEN mk_lerror(v, "EBADF")
    ELSE resp_finish(v, <<>>)
h_statfs(v, m) ==
    IF m.short THEN mk_lerror(v, "EINVAL")
    ELSE IF ~fid_find(v, m.fid) THEN mk_lerror(v, "EBADF")
    ELSE IF stat(v.k, v.fids[m.fid].path) = NoIno THEN mk_lerror(v, "ENOENT")
    ELSE resp_finish(v, <<>>)

\* Tflush, Tlock and Tgetlock are granted unread.
granted(v, m) == resp_finish(v, <<>>)

p9_dispatch(v, m) ==
    CASE m.type = "Tversion" -> h_version(v, m)
      [] m.type = "Tattach" -> h_attach(v, m)
      [] m.type = "Twalk" -> h_walk(v, m)
      [] m.type = "Tgetattr" -> h_getattr(v, m)
      [] m.type = "Tsetattr" -> h_setattr(v, m)
      [] m.type = "Treaddir" -> h_readdir(v, m)
      [] m.type = "Tlopen" -> h_lopen(v, m)
      [] m.type = "Tlcreate" -> h_lcreate(v, m)
      [] m.type = "Tread" -> h_read(v, m)
      [] m.type = "Twrite" -> h_write(v, m)
      [] m.type = "Tmkdir" -> h_mkdir(v, m)
      [] m.type = "Tmknod" -> h_mknod(v, m)
      [] m.type = "Tsymlink" -> h_symlink(v, m)
      [] m.type = "Treadlink" -> h_readlink(v, m)
      [] m.type = "Tlink" -> h_link(v, m)
      [] m.type = "Trename" -> h_rename(v, m)
      [] m.type = "Trenameat" -> h_renameat(v, m)
      [] m.type = "Tunlinkat" -> h_unlinkat(v, m)
      [] m.type = "Tremove" -> h_remove(v, m)
      [] m.type = "Tclunk" -> h_clunk(v, m)
      [] m.type = "Tfsync" -> h_fsync(v, m)
      [] m.type = "Tstatfs" -> h_statfs(v, m)
      [] m.type \in {"Tflush", "Tlock", "Tgetlock"} -> granted(v, m)
      [] OTHER -> mk_lerror(v, "EOPNOTSUPP")

\* fs_reset: the device's own reset drops every fid too.
fs_reset(v) == fids_clear(v)
=============================================================================
