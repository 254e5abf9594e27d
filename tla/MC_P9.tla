-------------------------------- MODULE MC_P9 ---------------------------------
(* A share /s with a directory a and a file a/b, beside a file /b of the   *)
(* host's own.                                                             *)
EXTENDS P9Share

Ents(a, b, s) == [n \in Range(Names) |-> CASE n = "a" -> a [] n = "b" -> b [] OTHER -> s]
MCTree == [i \in Inodes |->
    CASE i = 1 -> [Node("dir") EXCEPT !.ents = Ents(0, 3, 2)]
      [] i = 2 -> [Node("dir") EXCEPT !.ents = Ents(4, 0, 0)]
      [] i = 3 -> [Node("file") EXCEPT !.data = 1]
      [] i = 4 -> [Node("dir") EXCEPT !.ents = Ents(0, 5, 0)]
      [] i = 5 -> [Node("file") EXCEPT !.data = 2]
      [] OTHER -> NoNode]
MCNames == <<"a", "b", "s">>
MCRoot == <<"s">>

M(type, fid) ==
    [type |-> type, fid |-> fid, newfid |-> fid, name |-> "a", newname |-> "b", names |-> <<>>,
     fl |-> [acc |-> 3, creat |-> FALSE, excl |-> FALSE, trunc |-> FALSE],
     valid |-> {}, off |-> 0, count |-> 2, cap |-> 3, target |-> <<"s", "a">>,
     rmdir |-> FALSE, short |-> FALSE]

Simple == {M(t, f) : t \in {"Tattach", "Tclunk", "Twrite", "Tremove"}, f \in Fids}
            \cup {M(t, 1) : t \in {"Tversion", "Tgetattr", "Tread", "Treadlink", "Tfsync", "Tstatfs",
                                   "Tlock", "Txattrwalk"}}
Walks == {[M("Twalk", f) EXCEPT !.newfid = g, !.names = n] : f \in Fids, g \in Fids,
             n \in {<<>>, <<"a">>, <<"b">>, <<"a", "b">>, <<"..">>, <<"a", BadName>>}}
Opens == {[M("Tlopen", f) EXCEPT !.fl.trunc = t] : f \in Fids, t \in BOOLEAN}
Made == {[M(t, 1) EXCEPT !.name = n] : t \in {"Tlcreate", "Tmkdir", "Tmknod", "Tsymlink", "Tunlinkat"},
             n \in {"b", ".."}} \cup {[M("Tunlinkat", 1) EXCEPT !.name = BadName]}
Moved == {[M(t, f) EXCEPT !.newfid = g, !.name = n] : t \in {"Trename", "Tlink"}, f \in Fids,
             g \in Fids, n \in {"b", ".."}}
          \cup {[M("Trenameat", 1) EXCEPT !.newfid = g] : g \in Fids}
Listed == {[M("Treaddir", f) EXCEPT !.count = n] : f \in Fids, n \in {0, 2}}
Set == {[M("Tsetattr", f) EXCEPT !.valid = a] : f \in Fids, a \in {{"mode", "size"}, {"uid", "mtime"}}}
Short == {[M(t, 1) EXCEPT !.short = TRUE] : t \in {"Twalk", "Tremove", "Tclunk"}}

MCRequests == Simple \cup Walks \cup Opens \cup Made \cup Moved \cup Listed \cup Set \cup Short
                \cup {[M("Tunlinkat", 1) EXCEPT !.rmdir = TRUE, !.name = n] : n \in {"a", ".."}}

\* Clients: one that works on files, one that rebuilds the tree, one that
\* lists it, and one of a read-only share that tries everything.
Always == {"Tversion", "Tattach", "Twalk", "Tclunk"}
Working == Always \cup {"Tlopen", "Tlcreate", "Tread", "Twrite", "Tsetattr", "Tremove", "Trename"}
Building == Always \cup {"Tmkdir", "Tmknod", "Tsymlink", "Tlink", "Tunlinkat", "Trename",
                         "Trenameat", "Tgetattr", "Treadlink"}
Browsing == Always \cup {"Tlopen", "Treaddir", "Tmkdir", "Tunlinkat", "Tfsync", "Tstatfs", "Tlock",
                         "Txattrwalk"}
MCShares == {[tree |-> MCTree, ro |-> FALSE, types |-> t] : t \in {Working, Building, Browsing}}
              \cup {[tree |-> MCTree, ro |-> TRUE, types |-> {m.type : m \in MCRequests}]}
=============================================================================
