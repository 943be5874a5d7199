------------------------------ MODULE BlockTree ------------------------------
(***************************************************************************)
(* The tree of block headers and the pure functions of the chain layer    *)
(* over it (src/chain/block_index.cpp, src/chain/chain.cpp, the           *)
(* comparator of src/chain/chain_selector.cpp).                           *)
(*                                                                         *)
(* A header's hash commits to hashPrevBlock and so to its whole ancestry:  *)
(* the walk over pprev, the height and the accumulated work that           *)
(* BlockManager::AddToBlockIndex stores with a header are functions of the *)
(* header alone.  The tree is therefore constant data; which of its        *)
(* headers a node knows is state (module Chainstate).                      *)
(***************************************************************************)
EXTENDS Integers, Sequences, FiniteSets

CONSTANTS
  Headers,     \* every header that exists; numbers, ordered like uint256 hashes
  Genesis,     \* params.GenesisBlock()
  PathTo,      \* PathTo[h]: the headers from Genesis to h along pprev
  nChainWork   \* nChainWork[h]: the work accumulated along PathTo[h]

\* AddToBlockIndex: nHeight = pprev->nHeight + 1 and nChainWork =
\* pprev->nChainWork + GetBlockProof(*pindex); a header that passes the
\* contextual check has the expected nBits, so its proof is at least 1.
ASSUME TreeAssumption ==
  /\ Headers \subseteq Nat
  /\ Genesis \in Headers
  /\ PathTo \in [Headers -> Seq(Headers)]
  /\ nChainWork \in [Headers -> Nat]
  /\ PathTo[Genesis] = <<Genesis>>
  /\ \A h \in Headers :
       /\ Len(PathTo[h]) > 0
       /\ PathTo[h][1] = Genesis
       /\ PathTo[h][Len(PathTo[h])] = h
       /\ \A i \in 1..Len(PathTo[h]) :
            /\ Len(PathTo[PathTo[h][i]]) = i
            /\ \A j \in 1..i : PathTo[PathTo[h][i]][j] = PathTo[h][j]
       /\ \A i \in 2..Len(PathTo[h]) :
            nChainWork[PathTo[h][i - 1]] < nChainWork[PathTo[h][i]]

-----------------------------------------------------------------------------
nHeight(h) == Len(PathTo[h]) - 1

pprev(h) == PathTo[h][Len(PathTo[h]) - 1]

\* CBlockIndex::GetAncestor, for 0 <= n <= nHeight(h).
GetAncestor(h, n) == PathTo[h][n + 1]

\* block.GetAncestor(pindex->nHeight) == pindex
DescendsFrom(d, h) == nHeight(h) <= nHeight(d) /\ GetAncestor(d, nHeight(h)) = h

\* LastCommonAncestor: level the two walks, then step back until they meet.
LastCommonAncestor(a, b) ==
  LET common == {i \in 1..Len(PathTo[a]) : i <= Len(PathTo[b]) /\ PathTo[a][i] = PathTo[b][i]}
  IN  PathTo[a][CHOOSE i \in common : \A j \in common : j <= i]

\* CBlockIndexWorkComparator: more work, then taller, then smaller hash.
ComesBefore(a, b) ==
  \/ nChainWork[a] > nChainWork[b]
  \/ nChainWork[a] = nChainWork[b] /\ nHeight(a) > nHeight(b)
  \/ nChainWork[a] = nChainWork[b] /\ nHeight(a) = nHeight(b) /\ a < b

\* Seeded fault of Contains: off by one at the tip.
ContainsBelowTip(chain, h) == nHeight(h) + 1 < Len(chain) /\ chain[nHeight(h) + 1] = h

\* CChain::Contains, for the vector vChain indexed by height.
Contains(chain, h) == nHeight(h) < Len(chain) /\ chain[nHeight(h) + 1] = h

\* CChain::SetTip: resize, then write entries from the tip down until one is
\* already in place; the entries below it are kept as they are.
SetTip(chain, h) ==
  LET kept == {i \in 1..Len(PathTo[h]) : i <= Len(chain) /\ chain[i] = PathTo[h][i]}
  IN  [i \in 1..Len(PathTo[h]) |->
         IF \E k \in kept : i <= k THEN chain[i] ELSE PathTo[h][i]]

==============================================================================
