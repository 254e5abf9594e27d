------------------------------- MODULE P9Share --------------------------------
(***************************************************************************)
(* A virtio-9p share in use: a client sends any of Requests at any time,   *)
(* whoever works on the host removes files under it, and the guest resets  *)
(* the device.  Requests are served one at a time inside the notify write, *)
(* so each is one step.                                                    *)
(***************************************************************************)
EXTENDS P9

CONSTANTS
    Requests,       \* the T-messages the client sends
    Shares          \* [tree, ro, types]: the host's files at the start, the ,ro
                    \* option and the types of message this client uses

VARIABLES v, types

vars == <<v, types>>

Init == \E share \in Shares :
    /\ v = [fids |-> [f \in Fids |-> NoFid], ro |-> share.ro,
            k |-> [node |-> share.tree, open |-> [fd \in Fds |-> NotOpen]]]
    /\ types = share.types

Client == {m \in Requests : m.type \in types}

Serve(served) ==
    /\ \E m \in Client : m.type \in served /\ v' = p9_dispatch(v, m).v
    /\ UNCHANGED types

Session == Serve({"Tversion", "Tattach", "Twalk", "Tclunk"})
Files == Serve({"Tlopen", "Tlcreate", "Twrite", "Tread", "Tsetattr", "Tgetattr", "Tremove"})
Tree == Serve({"Tmkdir", "Tmknod", "Tsymlink", "Tlink", "Tunlinkat", "Trename", "Trenameat"})
Queries == Serve({"Treaddir", "Treadlink", "Tfsync", "Tstatfs", "Tlock", "Txattrwalk"})

Reset == v' = fs_reset(v) /\ UNCHANGED types

\* Someone on the host removes a file or an empty directory of the share.
HostRemoves == \E path \in {Append(Root, Names[i]) : i \in DOMAIN Names} :
    /\ remove(v.k, path).err = ""
    /\ v' = [v EXCEPT !.k = remove(v.k, path).k]
    /\ UNCHANGED types

Next == Session \/ Files \/ Tree \/ Queries \/ Reset \/ HostRemoves

Spec == Init /\ [][Next]_vars

-----------------------------------------------------------------------------
(* Properties.                                                             *)

Used == {f \in Fids : v.fids[f] # NoFid}
TreeOf(k) == [i \in Reached(k) |-> k.node[i]]
SameTree(k1, k2) == k1.node = k2.node \/ TreeOf(k1) = TreeOf(k2)
Handles(f) == {v.fids[f].fd, v.fids[f].dir} \ {NoFd}

(* Type correctness; the handles of a fid are open descriptors.            *)
TypeOK ==
    /\ \A f \in Fids : Handles(f) \subseteq {fd \in Fds : v.k.open[fd] # NotOpen}
    /\ \A i \in Inodes : v.k.node[i].type \in {"none", "dir", "file", "link"}
                         /\ \A n \in Range(Names) : v.k.node[i].ents[n] \in Inodes \cup {NoIno}
    /\ \A fd \in Fds : v.k.open[fd] # NotOpen => v.k.node[v.k.open[fd].ino] # NoNode

(* No fid's path leads out of the share, whatever sequence of walks,       *)
(* creations and renames made it: path_child clamps ".." at the root also  *)
(* when a fid was renamed or walked onto itself.                           *)
Contained == \A f \in Used : IsPrefix(Root, v.fids[f].path)

(* Host descriptors: every open one belongs to exactly one fid, in its     *)
(* file or its directory handle as it was opened.  Reassigned, reopened,   *)
(* removed and clunked fids, Tversion and the reset leave nothing behind,  *)
(* also when an open fails.                                                *)
HandlesOwned ==
    /\ \A fd \in Fds : v.k.open[fd] # NotOpen =>
          Cardinality({f \in Fids : fd \in Handles(f)}) = 1
    /\ \A f \in Fids :
          /\ v.fids[f].fd # NoFd => v.k.open[v.fids[f].fd].kind = "file"
          /\ v.fids[f].dir # NoFd => v.k.open[v.fids[f].dir].kind = "dir"

(* A share given with ,ro is not changed by any request, although a fid    *)
(* may be opened with the access mode 3, which dotl_wants_write does not   *)
(* count as writing and dotl_to_host opens for writing.                    *)
ReadOnlyKept == v.ro => (SameTree(v'.k, v.k) \/ HostRemoves)

(* Nothing outside the share is touched: the directory that holds it keeps *)
(* its other entries, and they their contents.                             *)
OutsideKept ==
    LET out == {n \in Range(Names) : v.k.node[SlashIno].ents[n] # NoIno} \ {Last(Root)}
    IN  \A n \in out :
          /\ v'.k.node[SlashIno].ents[n] = v.k.node[SlashIno].ents[n]
          /\ v'.k.node[v.k.node[SlashIno].ents[n]] = v.k.node[v.k.node[SlashIno].ents[n]]

(* A walk that does not reach its end changes no fid: newfid is assigned   *)
(* only when every name was walked.                                        *)
WalkedWhole(m, h) == (h.err # "" \/ h.out[1] < Len(m.names)) => h.v = v
WalkAtomic == \A m \in Client : m.type = "Twalk" => WalkedWhole(m, h_walk(v, m))

(* A request answered with Rlerror has changed no file; Tsetattr, which    *)
(* sets one attribute after the other, is the exception.                   *)
CleanIfFailed(h) == h.err # "" => SameTree(h.v.k, v.k)
FailsClean == \A m \in Client : m.type # "Tsetattr" => CleanIfFailed(p9_dispatch(v, m))

(* The fid given to Trename denotes the same file afterwards ("fid follows *)
(* the file"), the directory fid being one walked to without links.        *)
Followed(m, h) ==
    (h.err = "" /\ IsDir(v.k, Plain(v.k, v.fids[m.newfid].path))) =>
        lstat(h.v.k, h.v.fids[m.fid].path) = lstat(v.k, v.fids[m.fid].path)
FollowsRename == \A m \in Client : m.type = "Trename" => Followed(m, h_rename(v, m))

(* A client that reads a directory with Treaddir, each time from the       *)
(* offset of the last entry it got and with any count, gets every entry    *)
(* once, and the empty reply only after the last.                          *)
Got(l, h) ==
    IF l.done \/ h.err # "" THEN [l EXCEPT !.done = TRUE]
    ELSE IF h.out = <<>> THEN [l EXCEPT !.done = TRUE, !.complete = TRUE]
    ELSE [l EXCEPT !.got = @ \o h.out, !.off = Last(h.out).next]
ListedFrom(m) ==
    FoldLeft(LAMBDA l, i : Got(l, h_readdir(v, [m EXCEPT !.off = l.off])),
             [got |-> <<>>, off |-> 0, done |-> FALSE, complete |-> FALSE],
             [i \in 1..(Len(Names) + 3) |-> i])
ListsAll(l, dir) == l.complete /\ l.got = Listing(v.k, v.k.open[dir].ino)
ReaddirComplete == \A m \in Client :
    m.type = "Treaddir" /\ m.count > 0 /\ ~m.short /\ v.fids[m.fid].dir # NoFd =>
        ListsAll(ListedFrom(m), v.fids[m.fid].dir)

(* The fid table: paths inside the share, handles owned.                   *)
FidsSound == TypeOK /\ Contained /\ HandlesOwned

(* What a client cannot do: write to a read-only share, touch the outside. *)
ShareKept == [][ReadOnlyKept /\ OutsideKept]_vars

(* A request takes effect whole or not at all (h_walk, h_rename, the error *)
(* paths of every handler).                                                *)
RequestsAtomic == WalkAtomic /\ FailsClean /\ FollowsRename

=============================================================================
