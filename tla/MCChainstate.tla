---------------------------- MODULE MCChainstate ----------------------------
(***************************************************************************)
(* Small trees of headers for TLC, given by the parent and the proof of    *)
(* each header; the paths and the chain work follow.                       *)
(***************************************************************************)
EXTENDS Chainstate, TLC

PathsOf(parent) ==
  LET path[h \in {0} \cup DOMAIN parent] ==
        IF h = 0 THEN <<0>> ELSE Append(path[parent[h]], h)
  IN  path

WorkOf(parent, proof) ==
  LET work[h \in {0} \cup DOMAIN parent] ==
        IF h = 0 THEN 1 ELSE proof[h] + work[parent[h]]
  IN  work

(***************************************************************************)
(*   0 -- 1 -- 2 -- 3      2 and 4 have the same work: the first to        *)
(*        \ -- 4 -- 5      arrive stays active; 5 has more than 3          *)
(***************************************************************************)
ForkHeaders == 0..5
ForkParent == <<0, 1, 2, 1, 4>>
ForkPaths == PathsOf(ForkParent)
ForkWork == WorkOf(ForkParent, <<1, 1, 1, 1, 2>>)

(***************************************************************************)
(*   0 -- 1 -- 2           a reorg from 2 to 3 disconnects two blocks;     *)
(*   \ -- 3 (heavy) -- 4   4 is refused: the network has expired           *)
(***************************************************************************)
DeepHeaders == 0..4
DeepParent == <<0, 1, 0, 3>>
DeepPaths == PathsOf(DeepParent)
DeepWork == WorkOf(DeepParent, <<1, 1, 3, 1>>)

\* The peers of fork.cfg are interchangeable.
PeerSymmetry == Permutations(Peers)

=============================================================================
