-------------------------------- MODULE P9Host --------------------------------
(***************************************************************************)
(* The host file system under a virtio-9p share, as far as the system      *)
(* calls of src/src/devices/virtio_9p.c can tell (external: the kernel).   *)
(*                                                                         *)
(* k = [node, open]: node is inode -> [type, ents, data, target],          *)
(* open is descriptor -> [ino, kind, r, w], a file opened with open() or a *)
(* stream of opendir().  A path is the sequence of its names from "/".     *)
(* A call yields [k, err]; err is "" on success.                           *)
(***************************************************************************)
EXTENDS Integers, Sequences, FiniteSets, SequencesExt, FiniteSetsExt

CONSTANTS
    Names,          \* the names files may have: a sequence, the order of listings
    MaxIno,         \* inodes of the host
    MaxDepth,       \* the deepest a file can lie below "/"
    MaxFd           \* descriptors of the emulator's process

SlashIno == 1                   \* "/"
NoIno == 0
Inodes == 1..MaxIno
Fds == 1..MaxFd
NoFd == 0

NoEnts == [n \in Range(Names) |-> NoIno]
NoNode == [type |-> "none", ents |-> NoEnts, data |-> 0, target |-> <<>>]
Node(type) == [NoNode EXCEPT !.type = type]
NotOpen == [ino |-> NoIno, kind |-> "none", r |-> FALSE, w |-> FALSE]

-----------------------------------------------------------------------------
(* Path resolution: links are followed, one deep, except a last one.       *)

Lookup(k, dir, name) ==
    IF dir # NoIno /\ k.node[dir].type = "dir" THEN k.node[dir].ents[name] ELSE NoIno
Plain(k, path) == FoldLeft(LAMBDA dir, name : Lookup(k, dir, name), SlashIno, path)
Through(k, ino) ==
    IF ino # NoIno /\ k.node[ino].type = "link"
    THEN LET to == Plain(k, k.node[ino].target)
         IN  IF to # NoIno /\ k.node[to].type = "link" THEN NoIno ELSE to
    ELSE ino
lstat(k, path) ==
    FoldLeft(LAMBDA dir, name : Lookup(k, Through(k, dir), name), SlashIno, path)
stat(k, path) == Through(k, lstat(k, path))
IsDir(k, ino) == ino # NoIno /\ k.node[ino].type = "dir"
Parent(k, path) == IF path = <<>> THEN NoIno ELSE stat(k, Front(path))

Below(k, top) ==
    LET step(seen) == seen \cup ({k.node[i].ents[n] : i \in seen, n \in Range(Names)} \ {NoIno})
    IN  FoldLeft(LAMBDA seen, i : step(seen), {top}, [i \in 1..MaxDepth |-> i])
Reached(k) == Below(k, SlashIno)

\* An inode that no name leads to and nobody has open is given back.
Reap(k) ==
    LET kept == Reached(k) \cup {k.open[fd].ino : fd \in Fds}
    IN  [k EXCEPT !.node = [i \in Inodes |-> IF i \in kept THEN k.node[i] ELSE NoNode]]

FreeInos(k) == {i \in Inodes : k.node[i] = NoNode}
FreeFds(k) == {fd \in Fds : k.open[fd] = NotOpen}

Fails(k, e) == [k |-> k, err |-> e]
Does(k) == [k |-> Reap(k), err |-> ""]

-----------------------------------------------------------------------------
(* System calls.                                                           *)

Entry(k, path, ino) == [k EXCEPT !.node[Parent(k, path)].ents[Last(path)] = ino]

\* mkdir, mknod, symlink: a new node under a name that is not taken.
create(k, path, node) ==
    IF ~IsDir(k, Parent(k, path)) THEN Fails(k, "ENOENT")
    ELSE IF lstat(k, path) # NoIno THEN Fails(k, "EEXIST")
    ELSE IF FreeInos(k) = {} THEN Fails(k, "ENOSPC")
    ELSE Does([Entry(k, path, Min(FreeInos(k))) EXCEPT !.node[Min(FreeInos(k))] = node])

link(k, old, new) ==
    IF lstat(k, old) = NoIno \/ ~IsDir(k, Parent(k, new)) THEN Fails(k, "ENOENT")
    ELSE IF IsDir(k, lstat(k, old)) THEN Fails(k, "EPERM")
    ELSE IF lstat(k, new) # NoIno THEN Fails(k, "EEXIST")
    ELSE Does(Entry(k, new, lstat(k, old)))

Empty(k, dir) == k.node[dir].ents = NoEnts
unlink(k, path) ==
    IF lstat(k, path) = NoIno THEN Fails(k, "ENOENT")
    ELSE IF IsDir(k, lstat(k, path)) THEN Fails(k, "EISDIR")
    ELSE Does(Entry(k, path, NoIno))
rmdir(k, path) ==
    IF lstat(k, path) = NoIno THEN Fails(k, "ENOENT")
    ELSE IF ~IsDir(k, lstat(k, path)) THEN Fails(k, "ENOTDIR")
    ELSE IF ~Empty(k, lstat(k, path)) THEN Fails(k, "ENOTEMPTY")
    ELSE Does(Entry(k, path, NoIno))
remove(k, path) == IF IsDir(k, lstat(k, path)) THEN rmdir(k, path) ELSE unlink(k, path)

rename(k, old, new) ==
    LET from == lstat(k, old)
        to == lstat(k, new)
    IN  IF from = NoIno \/ ~IsDir(k, Parent(k, new)) THEN Fails(k, "ENOENT")
        ELSE IF IsDir(k, from) /\ Parent(k, new) \in Below(k, from) THEN Fails(k, "EINVAL")
        ELSE IF from = to THEN Does(k)
        ELSE IF to # NoIno /\ IsDir(k, from) # IsDir(k, to) THEN Fails(k, "EISDIR")
        ELSE IF IsDir(k, to) /\ ~Empty(k, to) THEN Fails(k, "ENOTEMPTY")
        ELSE Does(Entry(Entry(k, new, from), old, NoIno))

\* The mode, the owner and the times of a file are not kept.
chmod(k, path) == IF stat(k, path) = NoIno THEN Fails(k, "ENOENT") ELSE Does(k)
truncate(k, path) ==
    IF stat(k, path) = NoIno THEN Fails(k, "ENOENT")
    ELSE IF IsDir(k, stat(k, path)) THEN Fails(k, "EISDIR")
    ELSE Does([k EXCEPT !.node[stat(k, path)].data = 0])

\* open: the descriptor is the least that is free.
Grant(k, ino, kind, r, w) ==
    [k EXCEPT !.open[Min(FreeFds(k))] = [ino |-> ino, kind |-> kind, r |-> r, w |-> w]]
opendir(k, path) ==
    IF ~IsDir(k, stat(k, path)) THEN Fails(k, "ENOTDIR")
    ELSE IF FreeFds(k) = {} THEN Fails(k, "EMFILE")
    ELSE Does(Grant(k, stat(k, path), "dir", TRUE, FALSE))
OpenAt(k, ino, fl) ==
    IF ino = NoIno THEN Fails(k, "ENOENT")
    ELSE IF fl.creat /\ fl.excl THEN Fails(k, "EEXIST")
    ELSE IF IsDir(k, ino) /\ (fl.w \/ fl.creat) THEN Fails(k, "EISDIR")
    ELSE Does(Grant([k EXCEPT !.node[ino].data = IF fl.trunc THEN 0 ELSE @], ino, "file", fl.r, fl.w))
OpenMade(made, path, fl) ==
    IF made.err # "" THEN made
    ELSE Does(Grant(made.k, lstat(made.k, path), "file", fl.r, fl.w))
open(k, path, fl) ==
    IF FreeFds(k) = {} THEN Fails(k, "EMFILE")
    ELSE IF fl.creat /\ stat(k, path) = NoIno THEN OpenMade(create(k, path, Node("file")), path, fl)
    ELSE OpenAt(k, stat(k, path), fl)
close(k, fd) == IF fd = NoFd THEN k ELSE Reap([k EXCEPT !.open[fd] = NotOpen])
pwrite(k, fd) ==
    IF ~k.open[fd].w THEN Fails(k, "EBADF")
    ELSE Does([k EXCEPT !.node[k.open[fd].ino].data = 1])

\* What readdir lists: the directory itself, its parent, then its entries,
\* each with the position after it; a position is stable under changes.
Listing(k, dir) ==
    SelectSeq(<<[name |-> ".", next |-> 1], [name |-> "..", next |-> 2]>>
                  \o [i \in DOMAIN Names |-> [name |-> Names[i], next |-> i + 2]],
              LAMBDA e : e.next <= 2 \/ k.node[dir].ents[e.name] # NoIno)
=============================================================================
