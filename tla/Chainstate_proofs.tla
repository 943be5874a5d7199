-------------------------- MODULE Chainstate_proofs --------------------------
(***************************************************************************)
(* First the orphan pool on its own: its counts are exact and its limits   *)
(* hold, for any number of headers and peers and any limits.               *)
(*                                                                         *)
(* Then the chain state manager: the active chain is always a valid branch *)
(* of the block tree, for every tree, every reorg policy and any number of *)
(* invalidations and restarts, and its pool is the one just proved.        *)
(*                                                                         *)
(* On this invariant rests what it promises beyond a valid active chain:   *)
(* its types, the abstract promise BestChain, the work a clean restart     *)
(* keeps, the depth of a reorg, the orphans, the candidates and the        *)
(* notifications.  The parts follow each other in that order.              *)
(***************************************************************************)
EXTENDS Chainstate, FiniteSetTheorems, SequenceTheorems, WellFoundedInduction, TLAPS

-----------------------------------------------------------------------------
(* The orphan pool *)

\* HeldFor, for any value of the pool.
HeldIn(pool, p) == {o \in DOMAIN pool : pool[o].peer_id = p}

\* Pool and counts fit together and respect the per-peer limit.
Consistent(pool, counts) ==
  /\ DOMAIN pool \subseteq Headers
  /\ pool \in [DOMAIN pool -> OrphanHeader]
  /\ DOMAIN counts \subseteq Peers
  /\ counts \in [DOMAIN counts -> Int]
  /\ \A p \in Peers :
       /\ PeerCount(counts, p) = Cardinality(HeldIn(pool, p))
       /\ p \in DOMAIN counts <=> HeldIn(pool, p) # {}
       /\ Cardinality(HeldIn(pool, p)) <= MAX_ORPHAN_HEADERS_PER_PEER

\* The inductive invariant.
PoolInv ==
  /\ Consistent(m_orphan_headers, m_peer_orphan_count)
  /\ Cardinality(Orphans) <= MAX_ORPHAN_HEADERS
  /\ now \in Nat

-----------------------------------------------------------------------------
\* The orphans of a peer are a finite set.
LEMMA HeldFinite ==
  ASSUME NEW pool, DOMAIN pool \subseteq Headers, NEW p
  PROVE  IsFiniteSet(HeldIn(pool, p)) /\ Cardinality(HeldIn(pool, p)) \in Nat
<1>1. HeldIn(pool, p) \in SUBSET Headers
  BY DEF HeldIn
<1>2. IsFiniteSet(HeldIn(pool, p))
  BY <1>1, FS_Subset, PoolAssumption
<1> QED
  BY <1>2, FS_CardinalityType

\* A nonempty set of numbers has a least element.
LEMMA Least ==
  ASSUME NEW T \in SUBSET Nat, T # {}
  PROVE  \E x \in T : \A y \in T : x <= y
<1>1. PICK x \in T : \A y \in T : ~(<<y, x>> \in OpToRel(<, Nat))
  BY WFMin, NatLessThanWellFounded
<1>2. \A y \in T : x <= y
  <2> TAKE y \in T
  <2>1. ~(<<y, x>> \in OpToRel(<, Nat))
    BY <1>1
  <2>2. x \in Nat /\ y \in Nat
    OBVIOUS
  <2>3. ~(y < x)
    BY <2>1, <2>2 DEF OpToRel
  <2> QED
    BY <2>2, <2>3
<1> QED
  BY <1>2

\* EvictOrphanHeaders makes room: called on a pool at its limit it returns a
\* nonzero count, so TryAddOrphanHeader's "pool stuck at max size" branch is
\* never taken.
LEMMA EvictionMakesRoom ==
  ASSUME PoolInv, Cardinality(Orphans) >= MAX_ORPHAN_HEADERS
  PROVE  /\ EvictOrphanHeaders \in SUBSET Orphans
         /\ EvictOrphanHeaders # {}
<1> DEFINE time(o) == m_orphan_headers[o].nTimeReceived
           oldest  == {o \in Orphans : \A q \in Orphans :
                         time(o) < time(q) \/ (time(o) = time(q) /\ o <= q)}
<1>1. EvictOrphanHeaders \in SUBSET Orphans
  BY DEF EvictOrphanHeaders
<1>2. oldest # {}
  <2>1. Orphans # {}
    BY FS_EmptySet, PoolAssumption
  <2>2. Orphans \subseteq Nat /\ \A o \in Orphans : time(o) \in Nat
    BY TreeAssumption DEF PoolInv, Consistent, Orphans, OrphanHeader
  <2> DEFINE times == {time(o) : o \in Orphans}
  <2>3. PICK t \in times : \A u \in times : t <= u
    BY <2>1, <2>2, Least
  <2> DEFINE first == {o \in Orphans : time(o) = t}
  <2>4. PICK o \in first : \A q \in first : o <= q
    <3>1. first # {}
      BY <2>3
    <3>2. first \in SUBSET Nat
      BY <2>2
    <3> HIDE DEF first
    <3> QED
      BY <3>1, <3>2, Least
  <2>5. \A q \in Orphans : time(o) < time(q) \/ (time(o) = time(q) /\ o <= q)
    <3> TAKE q \in Orphans
    <3>1. time(o) = t /\ time(q) \in times
      BY <2>4
    <3>2. time(o) <= time(q) /\ time(o) \in Nat /\ time(q) \in Nat
      BY <2>2, <2>3, <2>4, <3>1
    <3>3. CASE time(q) = t
      BY <2>4, <3>1, <3>3
    <3>4. CASE time(q) # t
      BY <3>1, <3>2, <3>4
    <3> QED
      BY <3>3, <3>4
  <2> QED
    BY <2>4, <2>5
<1> QED
  BY <1>1, <1>2 DEF EvictOrphanHeaders

-----------------------------------------------------------------------------
\* Erasing orphans keeps pool and counts consistent.
LEMMA ErasingKeepsConsistent ==
  ASSUME Consistent(m_orphan_headers, m_peer_orphan_count), NEW S \in SUBSET Orphans
  PROVE  /\ Consistent(HeadersWithout(S), CountsWithout(S))
         /\ \A p \in Peers : PeerCount(CountsWithout(S), p) <= PeerCount(m_peer_orphan_count, p)
<1> DEFINE pool   == HeadersWithout(S)
           counts == CountsWithout(S)
           old    == m_peer_orphan_count
           left(p) == old[p] - Cardinality(S \cap HeldFor(p))
<1>1. /\ DOMAIN pool = Orphans \ S
      /\ \A o \in Orphans \ S : pool[o] = m_orphan_headers[o]
      /\ pool \in [DOMAIN pool -> OrphanHeader]
  BY DEF HeadersWithout, Consistent, Orphans
<1>2. \A p \in Peers : HeldIn(pool, p) = HeldFor(p) \ S /\ HeldIn(m_orphan_headers, p) = HeldFor(p)
  BY <1>1 DEF HeldIn, HeldFor, Orphans
<1>3. ASSUME NEW p \in Peers
      PROVE  /\ Cardinality(HeldFor(p)) \in Nat
             /\ Cardinality(S \cap HeldFor(p)) \in Nat
             /\ Cardinality(HeldIn(pool, p)) \in Nat
             /\ Cardinality(HeldIn(pool, p)) = Cardinality(HeldFor(p)) - Cardinality(S \cap HeldFor(p))
             /\ Cardinality(HeldIn(pool, p)) = 0 <=> HeldIn(pool, p) = {}
             /\ S \cap HeldFor(p) = {} => Cardinality(S \cap HeldFor(p)) = 0
  <2>1. IsFiniteSet(HeldFor(p)) /\ Cardinality(HeldFor(p)) \in Nat
    BY <1>2, HeldFinite DEF Consistent
  <2>2. IsFiniteSet(S \cap HeldFor(p)) /\ Cardinality(S \cap HeldFor(p)) \in Nat
    BY <2>1, FS_Intersection, FS_CardinalityType
  <2>3. /\ IsFiniteSet(HeldFor(p) \ S)
        /\ Cardinality(HeldFor(p) \ S) = Cardinality(HeldFor(p)) - Cardinality(HeldFor(p) \cap S)
    BY <2>1, FS_Difference
  <2>4. HeldFor(p) \cap S = S \cap HeldFor(p)
    OBVIOUS
  <2>5. Cardinality(HeldFor(p) \ S) \in Nat /\ (Cardinality(HeldFor(p) \ S) = 0 <=> HeldFor(p) \ S = {})
    BY <2>3, FS_CardinalityType, FS_EmptySet
  <2> QED
    BY <1>2, <2>1, <2>2, <2>3, <2>4, <2>5, FS_EmptySet
<1>4. /\ DOMAIN counts = {q \in DOMAIN old : S \cap HeldFor(q) = {} \/ left(q) # 0}
      /\ \A q \in DOMAIN counts : counts[q] = left(q)
      /\ counts = [q \in DOMAIN counts |-> left(q)]
  BY DEF CountsWithout
<1>5. ASSUME NEW p \in Peers
      PROVE  /\ PeerCount(counts, p) = Cardinality(HeldIn(pool, p))
             /\ p \in DOMAIN counts <=> HeldIn(pool, p) # {}
             /\ Cardinality(HeldIn(pool, p)) <= MAX_ORPHAN_HEADERS_PER_PEER
             /\ PeerCount(counts, p) <= PeerCount(old, p)
  <2>1. /\ PeerCount(old, p) = Cardinality(HeldFor(p))
        /\ p \in DOMAIN old <=> HeldFor(p) # {}
        /\ Cardinality(HeldFor(p)) <= MAX_ORPHAN_HEADERS_PER_PEER
    BY <1>2 DEF Consistent
  <2>2. CASE p \in DOMAIN old
    <3>1. left(p) = Cardinality(HeldIn(pool, p))
      BY <1>3, <2>1, <2>2 DEF PeerCount
    <3>2. p \in DOMAIN counts <=> HeldIn(pool, p) # {}
      <4>1. CASE S \cap HeldFor(p) = {}
        BY <1>2, <1>4, <2>1, <2>2, <4>1
      <4>2. CASE S \cap HeldFor(p) # {}
        BY <1>3, <1>4, <2>2, <3>1, <4>2
      <4> QED
        BY <4>1, <4>2
    <3>3. PeerCount(counts, p) = Cardinality(HeldIn(pool, p))
      BY <1>3, <1>4, <3>1, <3>2 DEF PeerCount
    <3>4. /\ Cardinality(HeldIn(pool, p)) <= Cardinality(HeldFor(p))
          /\ Cardinality(HeldIn(pool, p)) <= MAX_ORPHAN_HEADERS_PER_PEER
      <4> DEFINE m == Cardinality(HeldIn(pool, p))
                 n == Cardinality(HeldFor(p))
                 k == Cardinality(S \cap HeldFor(p))
      <4>1. m \in Nat /\ n \in Nat /\ k \in Nat /\ m = n - k
        BY <1>3
      <4>2. n <= MAX_ORPHAN_HEADERS_PER_PEER
        BY <2>1
      <4> HIDE DEF m, n, k
      <4>3. m <= n /\ m <= MAX_ORPHAN_HEADERS_PER_PEER
        BY <4>1, <4>2, PoolAssumption
      <4> QED
        BY <4>3 DEF m, n
    <3>6. PeerCount(counts, p) <= PeerCount(old, p)
      BY <2>1, <3>3, <3>4
    <3> QED
      BY <3>2, <3>3, <3>4, <3>6
  <2>3. CASE p \notin DOMAIN old
    <3>1. HeldFor(p) = {} /\ HeldIn(pool, p) = {}
      BY <1>2, <2>1, <2>3
    <3>2. p \notin DOMAIN counts
      BY <1>4, <2>3
    <3> QED
      BY <1>3, <2>1, <2>3, <3>1, <3>2, PoolAssumption DEF PeerCount
  <2> QED
    BY <2>2, <2>3
<1>6. DOMAIN counts \subseteq Peers /\ counts \in [DOMAIN counts -> Int]
  <2>1. \A q \in DOMAIN counts : q \in Peers /\ left(q) \in Int
    BY <1>3, <1>4 DEF Consistent
  <2> QED
    BY <1>4, <2>1
<1>7. DOMAIN pool \subseteq Headers
  BY <1>1 DEF Consistent, Orphans
<1> HIDE DEF pool, counts
<1> QED
  BY <1>1, <1>5, <1>6, <1>7 DEF Consistent, pool, counts

\* Adding one orphan of a peer below its limit keeps pool and counts
\* consistent.
LEMMA AddingKeepsConsistent ==
  ASSUME NEW pool, NEW counts, Consistent(pool, counts),
         NEW h \in Headers, h \notin DOMAIN pool,
         NEW p \in Peers, PeerCount(counts, p) < MAX_ORPHAN_HEADERS_PER_PEER,
         NEW t \in Nat
  PROVE  Consistent([o \in DOMAIN pool \cup {h} |->
                       IF o = h THEN [nTimeReceived |-> t, peer_id |-> p] ELSE pool[o]],
                    [q \in DOMAIN counts \cup {p} |->
                       PeerCount(counts, q) + (IF q = p THEN 1 ELSE 0)])
<1> DEFINE newPool == [o \in DOMAIN pool \cup {h} |->
                         IF o = h THEN [nTimeReceived |-> t, peer_id |-> p] ELSE pool[o]]
           newCounts == [q \in DOMAIN counts \cup {p} |->
                           PeerCount(counts, q) + (IF q = p THEN 1 ELSE 0)]
<1>1. DOMAIN newPool \subseteq Headers /\ newPool \in [DOMAIN newPool -> OrphanHeader]
  BY DEF Consistent, OrphanHeader
<1>2. \A q \in Peers : HeldIn(newPool, q) = HeldIn(pool, q) \cup (IF q = p THEN {h} ELSE {})
  BY DEF HeldIn
<1>3. \A q \in Peers : PeerCount(counts, q) \in Nat
  BY HeldFinite DEF Consistent
<1>4. DOMAIN newCounts \subseteq Peers /\ newCounts \in [DOMAIN newCounts -> Int]
  <2>1. \A q \in DOMAIN newCounts : q \in Peers
    BY DEF Consistent
  <2> QED
    BY <1>3, <2>1
<1>5. ASSUME NEW q \in Peers
      PROVE  /\ PeerCount(newCounts, q) = Cardinality(HeldIn(newPool, q))
             /\ q \in DOMAIN newCounts <=> HeldIn(newPool, q) # {}
             /\ Cardinality(HeldIn(newPool, q)) <= MAX_ORPHAN_HEADERS_PER_PEER
  <2>1. /\ PeerCount(counts, q) = Cardinality(HeldIn(pool, q))
        /\ q \in DOMAIN counts <=> HeldIn(pool, q) # {}
        /\ Cardinality(HeldIn(pool, q)) <= MAX_ORPHAN_HEADERS_PER_PEER
    BY DEF Consistent
  <2>2. CASE q = p
    <3>1. HeldIn(newPool, q) = HeldIn(pool, q) \cup {h} /\ h \notin HeldIn(pool, q)
      BY <1>2, <2>2 DEF HeldIn
    <3>2. IsFiniteSet(HeldIn(pool, q))
      BY HeldFinite DEF Consistent
    <3>3. Cardinality(HeldIn(newPool, q)) = Cardinality(HeldIn(pool, q)) + 1
      BY <3>1, <3>2, FS_AddElement
    <3>4. PeerCount(newCounts, q) = PeerCount(counts, q) + 1
      BY <2>2 DEF PeerCount
    <3>5. q \in DOMAIN newCounts /\ HeldIn(newPool, q) # {}
      BY <2>2, <3>1
    <3>6. Cardinality(HeldIn(pool, q)) < MAX_ORPHAN_HEADERS_PER_PEER
      BY <2>1, <2>2
    <3>7. Cardinality(HeldIn(newPool, q)) <= MAX_ORPHAN_HEADERS_PER_PEER
      BY <1>3, <2>1, <3>3, <3>6, PoolAssumption
    <3>8. PeerCount(newCounts, q) = Cardinality(HeldIn(newPool, q))
      BY <2>1, <3>3, <3>4
    <3> QED
      BY <3>5, <3>7, <3>8
  <2>3. CASE q # p
    <3>1. HeldIn(newPool, q) = HeldIn(pool, q)
      BY <1>2, <2>3
    <3>2. PeerCount(newCounts, q) = PeerCount(counts, q)
      BY <1>3, <2>3 DEF PeerCount
    <3>3. q \in DOMAIN newCounts <=> q \in DOMAIN counts
      BY <2>3
    <3> QED
      BY <2>1, <3>1, <3>2, <3>3
  <2> QED
    BY <2>2, <2>3
<1> HIDE DEF newPool, newCounts
<1>6. Consistent(newPool, newCounts)
  BY <1>1, <1>4, <1>5 DEF Consistent
<1> QED
  BY <1>6 DEF newPool, newCounts

-----------------------------------------------------------------------------
\* Adding an orphan, after the eviction a full pool calls for.
LEMMA AddPreservesInv ==
  ASSUME PoolInv, NEW h \in Headers, NEW p \in Peers, TryAddOrphanHeader(h, p), UNCHANGED now
  PROVE  PoolInv'
<1>1. CASE h \in Orphans \/ ~OrphanAccepted(h, p)
  BY <1>1 DEF TryAddOrphanHeader, PoolInv, Orphans
<1>2. CASE h \notin Orphans /\ OrphanAccepted(h, p)
  <2> DEFINE full    == Cardinality(Orphans) >= MAX_ORPHAN_HEADERS
             evicted == IF full THEN EvictOrphanHeaders ELSE {}
             kept    == HeadersWithout(evicted)
             counts  == CountsWithout(evicted)
             newPool == [o \in DOMAIN kept \cup {h} |->
                           IF o = h THEN [nTimeReceived |-> now, peer_id |-> p] ELSE kept[o]]
             newCounts == [q \in DOMAIN counts \cup {p} |->
                             PeerCount(counts, q) + (IF q = p THEN 1 ELSE 0)]
  <2>1. m_orphan_headers' = newPool /\ m_peer_orphan_count' = newCounts
    BY <1>2 DEF TryAddOrphanHeader
  <2>2. evicted \in SUBSET Orphans /\ (full => evicted # {})
    BY EvictionMakesRoom
  <2>3. Consistent(m_orphan_headers, m_peer_orphan_count) /\ now \in Nat
    BY DEF PoolInv
  <2> HIDE DEF evicted
  <2>4. Consistent(kept, counts) /\ PeerCount(counts, p) <= PeerCount(m_peer_orphan_count, p)
    BY <2>2, <2>3, ErasingKeepsConsistent
  <2>5. DOMAIN kept = Orphans \ evicted
    BY DEF HeadersWithout
  <2>6. PeerCount(counts, p) < MAX_ORPHAN_HEADERS_PER_PEER
    <3>1. PeerCount(m_peer_orphan_count, p) < MAX_ORPHAN_HEADERS_PER_PEER
      BY <1>2 DEF OrphanAccepted
    <3>2. PeerCount(counts, p) \in Nat /\ PeerCount(m_peer_orphan_count, p) \in Nat
      BY <2>3, <2>4, HeldFinite DEF Consistent
    <3> QED
      BY <2>4, <3>1, <3>2, PoolAssumption
  <2>7. Consistent(newPool, newCounts)
    <3> HIDE DEF kept, counts
    <3>1. h \notin DOMAIN kept
      BY <1>2, <2>5
    <3> QED
      BY <2>3, <2>4, <2>6, <3>1, AddingKeepsConsistent
  <2>8. Cardinality(DOMAIN newPool) <= MAX_ORPHAN_HEADERS
    <3>1. IsFiniteSet(Orphans) /\ Cardinality(Orphans) \in Nat
      BY <2>3, PoolAssumption, FS_Subset, FS_CardinalityType DEF Consistent, Orphans
    <3>2. IsFiniteSet(Orphans \ evicted) /\ Cardinality(Orphans \ evicted) < MAX_ORPHAN_HEADERS
      <4>1. IsFiniteSet(Orphans \ evicted)
        BY <3>1, FS_Difference
      <4>2. CASE full
        <5>1. Orphans \ evicted \in SUBSET Orphans /\ Orphans \ evicted # Orphans
          BY <2>2, <4>2
        <5>2. Cardinality(Orphans \ evicted) <= Cardinality(Orphans)
          BY <3>1, <5>1, FS_Subset
        <5>3. Cardinality(Orphans) # Cardinality(Orphans \ evicted)
          BY <3>1, <5>1, FS_Subset
        <5>4. Cardinality(Orphans \ evicted) \in Nat
          BY <4>1, FS_CardinalityType
        <5>5. Cardinality(Orphans) <= MAX_ORPHAN_HEADERS
          BY DEF PoolInv
        <5> QED
          BY <3>1, <4>1, <5>2, <5>3, <5>4, <5>5, PoolAssumption
      <4>3. CASE ~full
        <5>1. Orphans \ evicted = Orphans
          BY <4>3 DEF evicted
        <5> QED
          BY <3>1, <4>3, <5>1, PoolAssumption
      <4> QED
        BY <4>2, <4>3
    <3>3. DOMAIN newPool = (Orphans \ evicted) \cup {h}
      BY <2>5
    <3>4. /\ Cardinality((Orphans \ evicted) \cup {h}) <= Cardinality(Orphans \ evicted) + 1
          /\ Cardinality(Orphans \ evicted) \in Nat
      <4> DEFINE rest == Orphans \ evicted
      <4>1. IsFiniteSet(rest)
        BY <3>2
      <4>2. Cardinality(rest) \in Nat
        BY <4>1, FS_CardinalityType
      <4> HIDE DEF rest
      <4>3. Cardinality(rest \cup {h}) = IF h \in rest THEN Cardinality(rest) ELSE Cardinality(rest) + 1
        BY <4>1, FS_AddElement
      <4>4. Cardinality(rest \cup {h}) <= Cardinality(rest) + 1
        BY <4>2, <4>3
      <4> QED
        BY <4>2, <4>4 DEF rest
    <3>5. IsFiniteSet(DOMAIN newPool) /\ Cardinality(DOMAIN newPool) \in Nat
      BY <3>2, <3>3, FS_AddElement, FS_CardinalityType
    <3> HIDE DEF newPool
    <3> QED
      BY <3>2, <3>3, <3>4, <3>5, PoolAssumption
  <2> HIDE DEF newPool, newCounts
  <2> QED
    BY <2>1, <2>3, <2>7, <2>8 DEF PoolInv, Orphans
<1> QED
  BY <1>1, <1>2

\* ProcessOrphanHeaders takes out any set of orphans.
LEMMA TakePreservesInv ==
  ASSUME PoolInv, NEW S \in SUBSET Orphans, TakeOrphans(S), UNCHANGED now
  PROVE  PoolInv'
<1>1. Consistent(m_orphan_headers, m_peer_orphan_count)'
  BY ErasingKeepsConsistent DEF TakeOrphans, PoolInv
<1>2. Orphans' = Orphans \ S
  BY DEF TakeOrphans, HeadersWithout, Orphans
<1>3. IsFiniteSet(Orphans)
  BY PoolAssumption, FS_Subset DEF PoolInv, Consistent, Orphans
<1>4. Orphans \ S \in SUBSET Orphans
  OBVIOUS
<1>5. /\ Cardinality(Orphans \ S) <= Cardinality(Orphans)
      /\ Cardinality(Orphans \ S) \in Nat /\ Cardinality(Orphans) \in Nat
  BY <1>3, <1>4, FS_Subset, FS_CardinalityType
<1>6. Cardinality(Orphans \ S) <= MAX_ORPHAN_HEADERS
  BY <1>5, PoolAssumption DEF PoolInv
<1> QED
  BY <1>1, <1>2, <1>6 DEF PoolInv

\* An empty pool satisfies the invariant.
LEMMA EmptyPool ==
  /\ Consistent(<<>>, <<>>)
  /\ Cardinality(DOMAIN <<>>) <= MAX_ORPHAN_HEADERS
<1>1. DOMAIN <<>> = {}
  OBVIOUS
<1>2. \A p \in Peers : HeldIn(<<>>, p) = {}
  BY <1>1 DEF HeldIn
<1>3. \A p \in Peers : PeerCount(<<>>, p) = 0
  BY <1>1 DEF PeerCount
<1>4. <<>> \in [DOMAIN <<>> -> OrphanHeader] /\ <<>> \in [DOMAIN <<>> -> Int]
  BY <1>1
<1>5. Cardinality({}) = 0
  BY FS_EmptySet
<1>6. \A p \in Peers : p \notin DOMAIN <<>>
  BY <1>1
<1>7. 0 <= MAX_ORPHAN_HEADERS /\ 0 <= MAX_ORPHAN_HEADERS_PER_PEER
  BY PoolAssumption
<1>8. Cardinality(DOMAIN <<>>) <= MAX_ORPHAN_HEADERS
  BY <1>1, <1>5, <1>7
<1>9. DOMAIN <<>> \subseteq Headers /\ DOMAIN <<>> \subseteq Peers
  BY <1>1
<1>10. \A p \in Peers :
         /\ PeerCount(<<>>, p) = Cardinality(HeldIn(<<>>, p))
         /\ p \in DOMAIN <<>> <=> HeldIn(<<>>, p) # {}
         /\ Cardinality(HeldIn(<<>>, p)) <= MAX_ORPHAN_HEADERS_PER_PEER
  BY <1>2, <1>3, <1>5, <1>6, <1>7
<1> QED
  BY <1>4, <1>8, <1>9, <1>10 DEF Consistent

\* PoolInv is inductive.
THEOREM PoolInvariant == PoolSpec => []PoolInv
<1>1. PoolInit => PoolInv
  BY EmptyPool DEF PoolInit, PoolInv, Orphans
<1>2. PoolInv /\ [PoolNext]_poolVars => PoolInv'
  <2> SUFFICES ASSUME PoolInv, [PoolNext]_poolVars
               PROVE  PoolInv'
    OBVIOUS
  <2>1. CASE AddOrphan
    BY <2>1, AddPreservesInv DEF AddOrphan
  <2>2. CASE ResolveOrphans
    BY <2>2, TakePreservesInv DEF ResolveOrphans
  <2>3. CASE Tick
    BY <2>3 DEF Tick, PoolInv, Orphans
  <2>4. CASE ForgetOrphans
    BY <2>4, EmptyPool DEF ForgetOrphans, PoolInv, Orphans
  <2>5. CASE UNCHANGED poolVars
    BY <2>5 DEF poolVars, PoolInv, Orphans
  <2> QED
    BY <2>1, <2>2, <2>3, <2>4, <2>5 DEF PoolNext
<1> QED
  BY <1>1, <1>2, PTL DEF PoolSpec

\* m_peer_orphan_count is exact in every reachable state (the counters
\* TryAddOrphanHeader compares with the limit can be trusted).
THEOREM CountsExact == PoolSpec => []PeerCountsExact
<1>1. PoolInv => PeerCountsExact
  <2> SUFFICES ASSUME PoolInv, NEW p \in Peers
               PROVE  /\ PeerCount(m_peer_orphan_count, p) = Cardinality(HeldFor(p))
                      /\ p \in DOMAIN m_peer_orphan_count <=> HeldFor(p) # {}
    BY DEF PeerCountsExact
  <2>1. HeldFor(p) = HeldIn(m_orphan_headers, p)
    BY DEF HeldFor, HeldIn, Orphans
  <2> QED
    BY <2>1 DEF PoolInv, Consistent
<1> QED
  BY <1>1, PoolInvariant, PTL

\* The pool never exceeds MAX_ORPHAN_HEADERS, nor a peer's share
\* MAX_ORPHAN_HEADERS_PER_PEER.
THEOREM LimitsHold == PoolSpec => []PoolBounded
<1>1. PoolInv => PoolBounded
  <2> SUFFICES ASSUME PoolInv
               PROVE  PoolBounded
    OBVIOUS
  <2>1. \A p \in Peers : HeldFor(p) = HeldIn(m_orphan_headers, p)
    BY DEF HeldFor, HeldIn, Orphans
  <2> QED
    BY <2>1 DEF PoolBounded, PoolInv, Consistent
<1> QED
  BY <1>1, PoolInvariant, PTL

\* The step condition of EvictionOnlyUnderPressure.
EvictsUnderPressure ==
  \A o \in Orphans \ DOMAIN m_orphan_headers' :
    (DOMAIN m_orphan_headers' \ Orphans) # {} =>
      /\ Cardinality(Orphans) >= MAX_ORPHAN_HEADERS
      /\ \/ now - m_orphan_headers[o].nTimeReceived > nOrphanHeaderExpireTime
         \/ /\ Orphans \ DOMAIN m_orphan_headers' = {o}
            /\ \A q \in Orphans :
                 m_orphan_headers[o].nTimeReceived <= m_orphan_headers[q].nTimeReceived

LEMMA AddEvictsUnderPressure ==
  ASSUME PoolInv, NEW h \in Headers, NEW p \in Peers, TryAddOrphanHeader(h, p)
  PROVE  EvictsUnderPressure
<1> DEFINE full    == Cardinality(Orphans) >= MAX_ORPHAN_HEADERS
           evicted == IF full THEN EvictOrphanHeaders ELSE {}
           time(o) == m_orphan_headers[o].nTimeReceived
           expired == {o \in Orphans : now - time(o) > nOrphanHeaderExpireTime}
           oldest  == {o \in Orphans : \A q \in Orphans :
                         time(o) < time(q) \/ (time(o) = time(q) /\ o <= q)}
<1>1. CASE h \in Orphans \/ ~OrphanAccepted(h, p)
  BY <1>1 DEF TryAddOrphanHeader, EvictsUnderPressure, Orphans
<1>2. CASE h \notin Orphans /\ OrphanAccepted(h, p)
  <2>1. DOMAIN m_orphan_headers' = (Orphans \ evicted) \cup {h}
    BY <1>2 DEF TryAddOrphanHeader, HeadersWithout
  <2>2. evicted \subseteq Orphans
    BY DEF EvictOrphanHeaders
  <2>3. Orphans \ DOMAIN m_orphan_headers' = evicted
    BY <1>2, <2>1, <2>2
  <2>4. Orphans \subseteq Nat /\ \A o \in Orphans : time(o) \in Nat
    BY TreeAssumption DEF PoolInv, Consistent, Orphans, OrphanHeader
  <2>5. ASSUME NEW o \in evicted
        PROVE  /\ full
               /\ \/ now - time(o) > nOrphanHeaderExpireTime
                  \/ evicted = {o} /\ \A q \in Orphans : time(o) <= time(q)
    <3>1. full /\ evicted = EvictOrphanHeaders
      OBVIOUS
    <3>2. CASE expired # {}
      <4>1. evicted = expired
        BY <3>1, <3>2 DEF EvictOrphanHeaders
      <4> QED
        BY <3>1, <4>1
    <3>3. CASE expired = {}
      <4>1. evicted = oldest
        BY <3>1, <3>3 DEF EvictOrphanHeaders
      <4>2. \A q \in Orphans : time(o) <= time(q)
        BY <2>4, <4>1
      <4>3. ASSUME NEW q \in oldest PROVE q = o
        <5>1. /\ time(o) < time(q) \/ (time(o) = time(q) /\ o <= q)
              /\ time(q) < time(o) \/ (time(q) = time(o) /\ q <= o)
          BY <4>1
        <5>2. time(o) \in Nat /\ time(q) \in Nat /\ o \in Nat /\ q \in Nat
          BY <2>4, <4>1
        <5> HIDE DEF time
        <5> QED
          BY <5>1, <5>2
      <4>4. evicted = {o}
        BY <4>1, <4>3
      <4> QED
        BY <3>1, <4>2, <4>4
    <3> QED
      BY <3>2, <3>3
  <2> QED
    BY <2>3, <2>5 DEF EvictsUnderPressure
<1> QED
  BY <1>1, <1>2

\* An orphan that makes way for another is past its expiry time, or is the one
\* oldest orphan of a full pool (EvictOrphanHeaders, TryAddOrphanHeader).
THEOREM NeverEvictedEarly == PoolSpec => EvictionOnlyUnderPressure
<1>1. PoolInv /\ [PoolNext]_poolVars => [EvictsUnderPressure]_poolVars
  <2> SUFFICES ASSUME PoolInv, PoolNext PROVE EvictsUnderPressure
    OBVIOUS
  <2>1. CASE AddOrphan
    BY <2>1, AddEvictsUnderPressure DEF AddOrphan
  <2>2. CASE ResolveOrphans
    BY <2>2 DEF ResolveOrphans, TakeOrphans, HeadersWithout, EvictsUnderPressure
  <2>3. CASE Tick
    BY <2>3 DEF Tick, EvictsUnderPressure, Orphans
  <2>4. CASE ForgetOrphans
    BY <2>4 DEF ForgetOrphans, EvictsUnderPressure
  <2> QED
    BY <2>1, <2>2, <2>3, <2>4 DEF PoolNext
<1>2. EvictionOnlyUnderPressure <=> [][EvictsUnderPressure]_poolVars
  BY DEF EvictionOnlyUnderPressure, EvictsUnderPressure
<1> QED
  BY <1>1, <1>2, PoolInvariant, PTL DEF PoolSpec

-----------------------------------------------------------------------------
(* The block index and the active chain *)

\* An index that is a tree under which failure is inherited, along whole
\* paths: the step from a parent to a child would need an induction over the
\* path wherever it is used.
TreeOK(index, status) ==
  /\ index \subseteq Headers
  /\ status \in [Headers -> SUBSET FailedFlags]
  /\ Genesis \in index /\ status[Genesis] = {}
  /\ \A h \in Headers \ index : status[h] = {}
  /\ \A h \in index : \A i \in 1..Len(PathTo[h]) :
       /\ PathTo[h][i] \in index
       /\ status[PathTo[h][i]] # {} => status[h] # {}

\* The active chain is the path to an indexed header that has not failed.
ChainOK == \E h \in m_block_index : vChain = PathTo[h] /\ nStatus[h] = {}

\* What the threads hold between two calls is still meaningful.
ThreadsOK ==
  /\ pc \in [Threads -> {"idle", "orphan", "accepted", "added", "dispatch"}]
  /\ cur \in [Threads -> Headers]
  /\ \A t \in Threads : pc[t] = "accepted" => cur[t] \in m_block_index
  /\ pc["net"] = "orphan" => cur["net"] # Genesis
  /\ netPeer \in Peers
  /\ ~running => \A t \in Threads : pc[t] = "idle"

\* The inductive invariant.
ChainInv ==
  /\ TreeOK(m_block_index, nStatus)
  /\ ChainOK
  /\ m_candidates \subseteq m_block_index
  /\ Orphans \subseteq Headers
  /\ ThreadsOK
  /\ disk.state = "saved" => TreeOK(disk.index, disk.status)

-----------------------------------------------------------------------------
(* The tree of headers *)

LEMMA PathFacts ==
  ASSUME NEW h \in Headers
  PROVE  /\ PathTo[h] \in Seq(Headers)
         /\ Len(PathTo[h]) \in Nat /\ Len(PathTo[h]) > 0
         /\ nHeight(h) \in Nat /\ nHeight(h) = Len(PathTo[h]) - 1
         /\ PathTo[h][Len(PathTo[h])] = h
         /\ \A i \in 1..Len(PathTo[h]) : PathTo[h][i] \in Headers
<1>1. PathTo[h] \in Seq(Headers) /\ Len(PathTo[h]) > 0 /\ PathTo[h][Len(PathTo[h])] = h
  BY TreeAssumption
<1> QED
  BY <1>1 DEF nHeight

\* The entries of a path have the path's beginnings as their own paths.
LEMMA PathPrefix ==
  ASSUME NEW h \in Headers, NEW i \in 1..Len(PathTo[h])
  PROVE  /\ Len(PathTo[PathTo[h][i]]) = i
         /\ \A j \in 1..i : PathTo[PathTo[h][i]][j] = PathTo[h][j]
BY TreeAssumption

LEMMA ParentFacts ==
  ASSUME NEW h \in Headers, h # Genesis
  PROVE  /\ Len(PathTo[h]) > 1
         /\ pprev(h) \in Headers
         /\ pprev(h) = PathTo[h][Len(PathTo[h]) - 1]
         /\ Len(PathTo[pprev(h)]) = Len(PathTo[h]) - 1
         /\ \A j \in 1..Len(PathTo[h]) - 1 : PathTo[pprev(h)][j] = PathTo[h][j]
<1>1. Len(PathTo[h]) # 1
  BY TreeAssumption, PathFacts
<1> DEFINE k == Len(PathTo[h]) - 1
<1>2. Len(PathTo[h]) > 1 /\ k \in 1..Len(PathTo[h])
  <2> DEFINE n == Len(PathTo[h])
  <2>1. n \in Nat /\ n > 0 /\ n # 1
    BY <1>1, PathFacts
  <2> HIDE DEF n
  <2>2. n > 1 /\ n - 1 \in 1..n
    BY <2>1
  <2> QED
    BY <2>2 DEF n
<1>3. pprev(h) = PathTo[h][k]
  BY DEF pprev
<1> HIDE DEF k
<1>4. PathTo[h][k] \in Headers
  BY <1>2, PathFacts
<1>5. Len(PathTo[PathTo[h][k]]) = k /\ \A j \in 1..k : PathTo[PathTo[h][k]][j] = PathTo[h][j]
  BY <1>2, PathPrefix
<1> QED
  BY <1>2, <1>3, <1>4, <1>5 DEF k

\* A descendant's path begins with the ancestor's.
LEMMA DescendantPath ==
  ASSUME NEW d \in Headers, NEW h \in Headers, DescendsFrom(d, h)
  PROVE  /\ Len(PathTo[h]) <= Len(PathTo[d])
         /\ PathTo[d][Len(PathTo[h])] = h
         /\ \A i \in 1..Len(PathTo[h]) : PathTo[d][i] = PathTo[h][i]
<1>1. /\ Len(PathTo[h]) - 1 <= Len(PathTo[d]) - 1
      /\ PathTo[d][(Len(PathTo[h]) - 1) + 1] = h
  BY DEF DescendsFrom, GetAncestor, nHeight
<1> DEFINE k == Len(PathTo[h])
<1>2. k \in 1..Len(PathTo[d]) /\ PathTo[d][k] = h
  BY <1>1, PathFacts
<1> HIDE DEF k
<1>3. \A j \in 1..k : PathTo[PathTo[d][k]][j] = PathTo[d][j]
  BY <1>2, PathPrefix
<1>4. k <= Len(PathTo[d])
  BY <1>2
<1>5. \A i \in 1..k : PathTo[d][i] = PathTo[h][i]
  BY <1>2, <1>3
<1> QED
  BY <1>2, <1>4, <1>5 DEF k

LEMMA OnPathDescends ==
  ASSUME NEW d \in Headers, NEW i \in 1..Len(PathTo[d])
  PROVE  DescendsFrom(d, PathTo[d][i])
<1>1. PathTo[d][i] \in Headers /\ Len(PathTo[PathTo[d][i]]) = i
  BY PathFacts, PathPrefix
<1>2. i - 1 <= Len(PathTo[d]) - 1 /\ (i - 1) + 1 = i
  BY PathFacts
<1> QED
  BY <1>1, <1>2 DEF DescendsFrom, GetAncestor, nHeight

\* Descent is transitive along a path.
LEMMA DescendsTransitive ==
  ASSUME NEW d \in Headers, NEW i \in 1..Len(PathTo[d]), NEW h \in Headers,
         DescendsFrom(PathTo[d][i], h)
  PROVE  DescendsFrom(d, h)
<1> DEFINE a == PathTo[d][i]
<1>1. a \in Headers /\ Len(PathTo[a]) = i /\ \A j \in 1..i : PathTo[a][j] = PathTo[d][j]
  BY PathFacts, PathPrefix
<1>2. Len(PathTo[h]) <= i /\ PathTo[a][Len(PathTo[h])] = h
  BY <1>1, DescendantPath
<1>3. Len(PathTo[h]) \in 1..i
  <2>1. Len(PathTo[h]) \in Nat /\ Len(PathTo[h]) > 0
    BY PathFacts
  <2> QED
    BY <1>2, <2>1
<1>4. PathTo[d][Len(PathTo[h])] = h
  BY <1>1, <1>2, <1>3
<1>5. Len(PathTo[h]) \in 1..Len(PathTo[d])
  BY <1>3, PathFacts
<1> QED
  BY <1>4, <1>5, OnPathDescends

\* SetTip, whatever it keeps of the old vector, yields the path to the new
\* tip: the early exit is correct.
LEMMA SetTipIsPath ==
  ASSUME NEW a \in Headers, NEW b \in Headers
  PROVE  SetTip(PathTo[a], b) = PathTo[b]
<1> DEFINE kept == {i \in 1..Len(PathTo[b]) : i <= Len(PathTo[a]) /\ PathTo[a][i] = PathTo[b][i]}
<1>1. ASSUME NEW i \in 1..Len(PathTo[b]), NEW k \in kept, i <= k
      PROVE  PathTo[a][i] = PathTo[b][i]
  <2>1. k \in 1..Len(PathTo[a]) /\ k \in 1..Len(PathTo[b]) /\ PathTo[a][k] = PathTo[b][k]
    BY PathFacts
  <2>2. i \in 1..k
    BY <1>1, <2>1
  <2>3. PathTo[PathTo[a][k]][i] = PathTo[a][i]
    BY <2>1, <2>2, PathPrefix
  <2>4. PathTo[PathTo[b][k]][i] = PathTo[b][i]
    BY <2>1, <2>2, PathPrefix
  <2> QED
    BY <2>1, <2>3, <2>4
<1>2. SetTip(PathTo[a], b) = [i \in 1..Len(PathTo[b]) |->
                               IF \E k \in kept : i <= k THEN PathTo[a][i] ELSE PathTo[b][i]]
  BY DEF SetTip
<1>3. SetTip(PathTo[a], b) = [i \in 1..Len(PathTo[b]) |-> PathTo[b][i]]
  BY <1>1, <1>2
<1>4. PathTo[b] = [i \in 1..Len(PathTo[b]) |-> PathTo[b][i]]
  BY PathFacts
<1> QED
  BY <1>3, <1>4

LEMMA SetTipFromEmpty ==
  ASSUME NEW b \in Headers
  PROVE  SetTip(<<>>, b) = PathTo[b]
<1>1. \A i \in 1..Len(PathTo[b]) : ~(i <= Len(<<>>))
  BY PathFacts
<1>2. SetTip(<<>>, b) = [i \in 1..Len(PathTo[b]) |-> PathTo[b][i]]
  BY <1>1 DEF SetTip
<1>3. PathTo[b] = [i \in 1..Len(PathTo[b]) |-> PathTo[b][i]]
  BY PathFacts
<1> QED
  BY <1>2, <1>3

\* On the path to a, CChain::Contains says whether a descends from h.
LEMMA ContainsIsDescent ==
  ASSUME NEW a \in Headers, NEW h \in Headers
  PROVE  Contains(PathTo[a], h) <=> DescendsFrom(a, h)
<1>1. nHeight(h) \in Nat /\ Len(PathTo[a]) \in Nat /\ nHeight(a) = Len(PathTo[a]) - 1
  BY PathFacts
<1>2. nHeight(h) < Len(PathTo[a]) <=> nHeight(h) <= nHeight(a)
  BY <1>1
<1> QED
  BY <1>2 DEF Contains, DescendsFrom, GetAncestor

\* CBlockIndexWorkComparator never puts two headers before each other.
LEMMA ComesBeforeAsymmetric ==
  ASSUME NEW a \in Headers, NEW b \in Headers, ComesBefore(a, b)
  PROVE  a # b /\ ~ComesBefore(b, a)
<1>1. /\ a \in Nat /\ b \in Nat /\ nChainWork[a] \in Nat /\ nChainWork[b] \in Nat
      /\ nHeight(a) \in Nat /\ nHeight(b) \in Nat
  BY TreeAssumption, PathFacts
<1> QED
  BY <1>1 DEF ComesBefore

-----------------------------------------------------------------------------
(* The block index *)

\* What an index that is a tree says of one header and one of its ancestors.
LEMMA AncestorFacts ==
  ASSUME NEW index, NEW status, TreeOK(index, status),
         NEW d \in index, NEW a \in Headers, DescendsFrom(d, a)
  PROVE  a \in index /\ (status[a] # {} => status[d] # {})
<1>1. d \in Headers
  BY DEF TreeOK
<1> DEFINE k == Len(PathTo[a])
<1>2. k \in 1..Len(PathTo[d]) /\ PathTo[d][k] = a
  BY <1>1, DescendantPath, PathFacts
<1> HIDE DEF k
<1> QED
  BY <1>2 DEF TreeOK

\* Nothing below a header that is not indexed is indexed or marked.
LEMMA FreshDescendants ==
  ASSUME NEW index, NEW status, TreeOK(index, status),
         NEW h \in Headers \ index, NEW d \in Headers, DescendsFrom(d, h)
  PROVE  d \notin index /\ status[d] = {}
<1>1. d \notin index
  BY AncestorFacts
<1> QED
  BY <1>1 DEF TreeOK

\* The orphans of one resolution form whole branches above the new header.
LEMMA ResolvedBranch ==
  ASSUME NEW h \in Headers, NEW bad, NEW g \in ResolvedBy(h, bad) \ bad,
         Orphans \subseteq Headers,
         NEW i \in 1..Len(PathTo[g]), i > Len(PathTo[h])
  PROVE  PathTo[g][i] \in ResolvedBy(h, bad) \ bad
<1> DEFINE a == PathTo[g][i]
           n == Len(PathTo[h])
<1>1. g \in Headers /\ g \in Orphans \ bad /\ DescendsFrom(g, h)
  BY DEF ResolvedBy
<1>2. n \in Nat /\ n > 0 /\ nHeight(h) = n - 1 /\ nHeight(g) = Len(PathTo[g]) - 1
      /\ Len(PathTo[g]) \in Nat
  BY <1>1, PathFacts
<1>3. PathTo[g][n] = h
  BY <1>1, DescendantPath
<1>4. a \in Headers /\ Len(PathTo[a]) = i /\ \A j \in 1..i : PathTo[a][j] = PathTo[g][j]
  BY <1>1, PathFacts, PathPrefix
<1>5. nHeight(a) = i - 1
  BY <1>4 DEF nHeight
<1>6. \A m \in nHeight(h) + 1 .. nHeight(g) - 1 : GetAncestor(g, m) \in Orphans \ bad
  BY DEF ResolvedBy
<1> HIDE DEF a, n
<1>7. a # h
  BY <1>2, <1>4 DEF n
<1>8. DescendsFrom(a, h)
  <2>1. n \in 1..i
    BY <1>2 DEF n
  <2>2. n \in 1..Len(PathTo[a]) /\ PathTo[a][n] = h
    BY <2>1, <1>3, <1>4
  <2> QED
    BY <2>2, <1>4, OnPathDescends
<1>9. \A m \in nHeight(h) + 1 .. nHeight(a) - 1 : GetAncestor(a, m) \in Orphans \ bad
  <2> SUFFICES ASSUME NEW m \in nHeight(h) + 1 .. nHeight(a) - 1
               PROVE  GetAncestor(a, m) \in Orphans \ bad
    OBVIOUS
  <2>1. m \in nHeight(h) + 1 .. nHeight(g) - 1 /\ m + 1 \in 1..i
    BY <1>2, <1>5
  <2>2. PathTo[a][m + 1] = PathTo[g][m + 1]
    BY <2>1, <1>4
  <2> QED
    BY <2>1, <2>2, <1>6 DEF GetAncestor
<1>10. a \in Orphans \ bad
  <2>1. CASE i = Len(PathTo[g])
    BY <2>1, <1>1, PathFacts DEF a
  <2>2. CASE i # Len(PathTo[g])
    <3>1. i - 1 \in nHeight(h) + 1 .. nHeight(g) - 1 /\ (i - 1) + 1 = i
      BY <2>2, <1>2 DEF n
    <3>2. GetAncestor(g, i - 1) = a
      BY <3>1 DEF GetAncestor, a
    <3> QED
      BY <3>1, <3>2, <1>6
  <2> QED
    BY <2>1, <2>2
<1>11. a \in ResolvedBy(h, bad) \ bad
  BY <1>7, <1>8, <1>9, <1>10 DEF ResolvedBy
<1> QED
  BY <1>11 DEF a

\* AcceptBlockHeader, with the orphans it resolves, keeps the index a tree
\* without an unmarked descendant of a failed header.
LEMMA AcceptKeepsTree ==
  ASSUME TreeOK(m_block_index, nStatus), Orphans \subseteq Headers,
         NEW h \in Headers, NEW bad, AcceptBlockHeader(h, bad)
  PROVE  /\ TreeOK(m_block_index', nStatus')
         /\ m_block_index \subseteq m_block_index'
         /\ AcceptResult(h, bad) \in {"new", "known"} => h \in m_block_index'
         /\ \A g \in m_block_index' \ m_block_index : \A i \in 1..Len(PathTo[g]) :
              PathTo[g][i] \in m_block_index' /\ nStatus[PathTo[g][i]] = {}
<1>1. CASE AcceptResult(h, bad) # "new"
  <2>1. m_block_index' = m_block_index /\ nStatus' = nStatus
    BY <1>1 DEF AcceptBlockHeader
  <2>2. AcceptResult(h, bad) = "known" => h \in m_block_index
    BY DEF AcceptResult
  <2> QED
    BY <1>1, <2>1, <2>2
<1>2. CASE AcceptResult(h, bad) = "new"
  <2> DEFINE accepted == ResolvedBy(h, bad) \ bad
             p == pprev(h)
  <2>1. /\ m_block_index' = m_block_index \cup {h} \cup accepted
        /\ nStatus' = nStatus
    BY <1>2 DEF AcceptBlockHeader, Indexed
  <2>2. h \notin m_block_index /\ p \in m_block_index /\ nStatus[p] = {}
    BY <1>2 DEF AcceptResult, Failed
  <2>3. h # Genesis
    BY <2>2 DEF TreeOK
  <2>4. accepted \subseteq Headers /\ \A g \in accepted : DescendsFrom(g, h)
    BY DEF ResolvedBy
  <2>5. ASSUME NEW i \in 1..Len(PathTo[h])
        PROVE  PathTo[h][i] \in m_block_index' /\ nStatus[PathTo[h][i]] = {}
    <3>1. CASE i = Len(PathTo[h])
      <4>1. PathTo[h][i] = h
        BY <3>1, PathFacts
      <4>2. nStatus[h] = {}
        BY <2>2 DEF TreeOK
      <4> QED
        BY <4>1, <4>2, <2>1
    <3>2. CASE i # Len(PathTo[h])
      <4>1. Len(PathTo[p]) = Len(PathTo[h]) - 1
        BY <2>3, ParentFacts
      <4>2. i \in 1..Len(PathTo[h]) - 1 /\ i \in 1..Len(PathTo[p])
        BY <3>2, <4>1, PathFacts
      <4>3. PathTo[p][i] = PathTo[h][i]
        BY <4>2, <2>3, ParentFacts
      <4>4. PathTo[p][i] \in m_block_index /\ nStatus[PathTo[p][i]] = {}
        BY <4>2, <2>2 DEF TreeOK
      <4> QED
        BY <4>3, <4>4, <2>1
    <3> QED
      BY <3>1, <3>2
  <2>6. ASSUME NEW g \in accepted, NEW i \in 1..Len(PathTo[g])
        PROVE  PathTo[g][i] \in m_block_index' /\ nStatus[PathTo[g][i]] = {}
    <3>1. CASE i <= Len(PathTo[h])
      <4>1. i \in 1..Len(PathTo[h])
        BY <3>1, PathFacts
      <4>2. PathTo[g][i] = PathTo[h][i]
        BY <4>1, <2>4, DescendantPath
      <4> QED
        BY <4>1, <4>2, <2>5
    <3>2. CASE i > Len(PathTo[h])
      <4>1. PathTo[g][i] \in accepted
        BY <3>2, ResolvedBranch
      <4>2. nStatus[PathTo[g][i]] = {}
        BY <4>1, <2>2, <2>4, FreshDescendants
      <4> QED
        BY <4>1, <4>2, <2>1
    <3> QED
      BY <3>1, <3>2, <2>4, PathFacts
  <2> HIDE DEF accepted
  <2>7. \A g \in m_block_index' : \A i \in 1..Len(PathTo[g]) :
          /\ PathTo[g][i] \in m_block_index'
          /\ nStatus[PathTo[g][i]] # {} => nStatus[g] # {}
    BY <2>1, <2>5, <2>6 DEF TreeOK
  <2>8. m_block_index' \subseteq Headers
    BY <2>1, <2>4 DEF TreeOK
  <2>9. TreeOK(m_block_index', nStatus)
    BY <2>1, <2>7, <2>8 DEF TreeOK
  <2>10. \A g \in m_block_index' \ m_block_index : \A i \in 1..Len(PathTo[g]) :
           PathTo[g][i] \in m_block_index' /\ nStatus[PathTo[g][i]] = {}
    BY <2>1, <2>5, <2>6
  <2> QED
    BY <2>1, <2>9, <2>10
<1> QED
  BY <1>1, <1>2

-----------------------------------------------------------------------------
(* The active chain *)

LEMMA TipFacts ==
  ASSUME TreeOK(m_block_index, nStatus), ChainOK
  PROVE  /\ Tip \in m_block_index /\ Tip \in Headers
         /\ vChain = PathTo[Tip] /\ nStatus[Tip] = {}
<1>1. PICK h \in m_block_index : vChain = PathTo[h] /\ nStatus[h] = {}
  BY DEF ChainOK
<1>2. h \in Headers
  BY DEF TreeOK
<1>3. Tip = h
  BY <1>1, <1>2, PathFacts DEF Tip
<1> QED
  BY <1>1, <1>2, <1>3

\* Discarding from the front until a candidate is neither failed nor refused
\* cannot leave ActivateBestChainStep with a failed one.
LEMMA NewTipsValid ==
  ASSUME m_candidates \subseteq Headers, NEW c \in NewTips
  PROVE  c \in m_candidates /\ nStatus[c] = {}
<1>1. c \in m_candidates \ Discarded
  BY DEF NewTips, MostWork
<1>2. PICK d \in m_candidates : /\ d = c \/ ComesBefore(d, c)
                                /\ ~Failed(d) /\ ~PolicyRefused(d)
  BY <1>1 DEF Discarded
<1>3. d \in m_candidates \ Discarded
  BY <1>2 DEF Discarded
<1>4. d = c \/ ComesBefore(c, d)
  BY <1>3 DEF NewTips, MostWork
<1>5. d = c
  BY <1>1, <1>2, <1>4, ComesBeforeAsymmetric
<1> QED
  BY <1>1, <1>2, <1>5 DEF Failed

\* InvalidateBlock's new tip survives its own marking.
LEMMA InvalidateTip ==
  ASSUME TreeOK(m_block_index, nStatus), ChainOK,
         NEW h \in m_block_index \ {Genesis}, NEW newTip,
         newTip = IF Contains(vChain, h) THEN pprev(h) ELSE Tip
  PROVE  newTip \in m_block_index /\ nStatus[newTip] = {} /\ ~DescendsFrom(newTip, h)
<1>1. h \in Headers /\ h # Genesis
  BY DEF TreeOK
<1>2. Contains(vChain, h) <=> DescendsFrom(Tip, h)
  BY <1>1, TipFacts, ContainsIsDescent
<1>3. CASE Contains(vChain, h)
  <2>1. pprev(h) \in Headers /\ Len(PathTo[pprev(h)]) = Len(PathTo[h]) - 1
    BY <1>1, ParentFacts
  <2>2. pprev(h) \in m_block_index
    <3> DEFINE k == Len(PathTo[h]) - 1
    <3>1. k \in 1..Len(PathTo[h]) /\ pprev(h) = PathTo[h][k]
      BY <1>1, <2>1, PathFacts DEF pprev
    <3> HIDE DEF k
    <3> QED
      BY <3>1 DEF TreeOK
  <2>3. DescendsFrom(Tip, pprev(h))
    <3> DEFINE k == Len(PathTo[h]) - 1
               n == Len(PathTo[Tip])
    <3>1. Len(PathTo[h]) <= n /\ \A i \in 1..Len(PathTo[h]) : PathTo[Tip][i] = PathTo[h][i]
      BY <1>1, <1>2, <1>3, TipFacts, DescendantPath
    <3>2. k \in 1..Len(PathTo[h]) /\ pprev(h) = PathTo[h][k]
      BY <1>1, <2>1, PathFacts DEF pprev
    <3>3. n \in Nat /\ Len(PathTo[h]) \in Nat
      BY <1>1, TipFacts, PathFacts
    <3> HIDE DEF k, n
    <3>4. k \in 1..n
      BY <3>1, <3>2, <3>3
    <3>5. PathTo[Tip][k] = pprev(h)
      BY <3>1, <3>2
    <3> QED
      BY <3>4, <3>5, TipFacts, OnPathDescends DEF n
  <2>4. nStatus[pprev(h)] = {}
    BY <2>1, <2>3, TipFacts, AncestorFacts
  <2>5. ~DescendsFrom(pprev(h), h)
    BY <1>1, <2>1, DescendantPath, PathFacts
  <2> QED
    BY <1>3, <2>2, <2>4, <2>5
<1>4. CASE ~Contains(vChain, h)
  BY <1>2, <1>4, TipFacts
<1> QED
  BY <1>3, <1>4

LEMMA InvalidateKeepsTree ==
  ASSUME TreeOK(m_block_index, nStatus), NEW h \in m_block_index \ {Genesis}
  PROVE  TreeOK(m_block_index, StatusAfterInvalidate(h))
<1> DEFINE status == StatusAfterInvalidate(h)
<1>1. h \in Headers /\ h # Genesis /\ m_block_index \subseteq Headers
  BY DEF TreeOK
<1>2. status \in [Headers -> SUBSET FailedFlags]
  BY <1>1 DEF StatusAfterInvalidate, TreeOK, FailedFlags
<1>3. ~DescendsFrom(Genesis, h)
  <2>1. Len(PathTo[Genesis]) = 1
    BY TreeAssumption
  <2>2. Len(PathTo[h]) > 1
    BY <1>1, ParentFacts
  <2> QED
    BY <1>1, <2>1, <2>2, DescendantPath, TreeAssumption
<1>4. status[Genesis] = {}
  BY <1>1, <1>3, TreeAssumption DEF StatusAfterInvalidate, TreeOK
<1>5. \A g \in Headers \ m_block_index : status[g] = {}
  BY DEF StatusAfterInvalidate, TreeOK
<1>6. ASSUME NEW g \in m_block_index, DescendsFrom(g, h)
      PROVE  status[g] # {}
  BY <1>1, <1>6 DEF StatusAfterInvalidate
<1>7. ASSUME NEW g \in m_block_index, nStatus[g] # {}
      PROVE  status[g] # {}
  BY <1>1, <1>7 DEF StatusAfterInvalidate
<1>8. ASSUME NEW a \in Headers, status[a] # {}
      PROVE  a = h \/ DescendsFrom(a, h) \/ nStatus[a] # {}
  BY <1>1, <1>8 DEF StatusAfterInvalidate
<1> HIDE DEF status
<1>9. ASSUME NEW g \in m_block_index, NEW i \in 1..Len(PathTo[g]), status[PathTo[g][i]] # {}
      PROVE  status[g] # {}
  <2> DEFINE a == PathTo[g][i]
  <2>1. g \in Headers /\ a \in Headers
    BY <1>1, PathFacts
  <2>2. CASE a = h
    BY <2>1, <2>2, <1>6, OnPathDescends
  <2>3. CASE DescendsFrom(a, h)
    BY <1>1, <2>1, <2>3, <1>6, DescendsTransitive
  <2>4. CASE nStatus[a] # {}
    BY <2>4, <1>7 DEF TreeOK
  <2> QED
    BY <1>8, <1>9, <2>1, <2>2, <2>3, <2>4
<1>10. TreeOK(m_block_index, status)
  BY <1>2, <1>4, <1>5, <1>9 DEF TreeOK
<1> QED
  BY <1>10 DEF status

LEMMA GenesisTree ==
  TreeOK({Genesis}, [h \in Headers |-> {}])
<1>1. \A i \in 1..Len(PathTo[Genesis]) : PathTo[Genesis][i] = Genesis
  BY TreeAssumption
<1> QED
  BY <1>1, TreeAssumption DEF TreeOK

-----------------------------------------------------------------------------
(* The inductive invariant *)

LEMMA InitChain == Init => ChainInv
<1> SUFFICES ASSUME Init PROVE ChainInv
  OBVIOUS
<1>1. TreeOK(m_block_index, nStatus)
  BY GenesisTree DEF Init
<1>2. ChainOK
  BY TreeAssumption DEF Init, ChainOK
<1>3. ThreadsOK
  BY TreeAssumption DEF Init, ThreadsOK, Threads
<1>4. Orphans \subseteq Headers
  BY DEF Init, PoolInit, Orphans
<1>5. m_candidates \subseteq m_block_index /\ disk.state = "absent"
  BY DEF Init, NoFile
<1> QED
  BY <1>1, <1>2, <1>3, <1>4, <1>5 DEF ChainInv

\* What every AcceptBlockHeader call leaves of the invariant, whoever calls it.
LEMMA AcceptStep ==
  ASSUME ChainInv, NEW h \in Headers, NEW bad, AcceptBlockHeader(h, bad)
  PROVE  /\ TreeOK(m_block_index', nStatus') /\ ChainOK'
         /\ m_candidates' \subseteq m_block_index'
         /\ Orphans' \subseteq Headers
         /\ m_block_index \subseteq m_block_index'
         /\ AcceptResult(h, bad) \in {"new", "known"} => h \in m_block_index'
<1>1. /\ TreeOK(m_block_index', nStatus')
      /\ m_block_index \subseteq m_block_index'
      /\ AcceptResult(h, bad) \in {"new", "known"} => h \in m_block_index'
  BY AcceptKeepsTree DEF ChainInv
<1>2. nStatus' = nStatus /\ vChain' = vChain /\ m_candidates' = m_candidates
  BY DEF AcceptBlockHeader
<1>3. ChainOK'
  BY <1>1, <1>2 DEF ChainInv, ChainOK
<1>4. m_candidates' \subseteq m_block_index'
  BY <1>1, <1>2 DEF ChainInv
<1>5. \E S : m_orphan_headers' = HeadersWithout(S)
  BY DEF AcceptBlockHeader, ProcessOrphanHeaders, TakeOrphans
<1>6. Orphans' \subseteq Headers
  BY <1>5 DEF ChainInv, Orphans, HeadersWithout
<1> QED
  BY <1>1, <1>3, <1>4, <1>6

LEMMA HandleHeaderStep ==
  ASSUME ChainInv, NEW h \in Headers, NEW p \in Peers, HandleHeader(h, p)
  PROVE  ChainInv'
<1>1. PICK early \in SUBSET EarlyHeaders :
        /\ AcceptBlockHeader(h, Bad(early))
        /\ \E next \in AfterAccept(h, AcceptResult(h, Bad(early))) :
             /\ pc' = [pc EXCEPT !["net"] = next]
             /\ cur' = [cur EXCEPT !["net"] = IF next = "idle" THEN Genesis ELSE h]
  BY DEF HandleHeader
<1> DEFINE result == AcceptResult(h, Bad(early))
<1>2. PICK next \in AfterAccept(h, result) :
        /\ pc' = [pc EXCEPT !["net"] = next]
        /\ cur' = [cur EXCEPT !["net"] = IF next = "idle" THEN Genesis ELSE h]
  BY <1>1
<1>3. /\ TreeOK(m_block_index', nStatus') /\ ChainOK'
      /\ m_candidates' \subseteq m_block_index'
      /\ Orphans' \subseteq Headers
      /\ m_block_index \subseteq m_block_index'
      /\ result \in {"new", "known"} => h \in m_block_index'
  BY <1>1, AcceptStep
<1> HIDE DEF result
<1>4. /\ next \in {"idle", "orphan", "accepted", "added"}
      /\ next = "accepted" => result \in {"new", "known"}
      /\ next = "orphan" => result = "prev-blk-not-found"
  BY <1>2 DEF AfterAccept
<1>5. running /\ running' = running /\ disk' = disk /\ netPeer' \in Peers
  BY DEF HandleHeader, Unlocked, hostVars
<1>7. result = "prev-blk-not-found" => h # Genesis
  BY DEF result, AcceptResult, ChainInv, TreeOK
<1>6. ThreadsOK'
  BY <1>2, <1>3, <1>4, <1>5, <1>7, TreeAssumption DEF ChainInv, ThreadsOK, Threads
<1> QED
  BY <1>3, <1>5, <1>6 DEF ChainInv

LEMMA MineBlockStep ==
  ASSUME ChainInv, NEW h \in MinedHeaders, MineBlock(h)
  PROVE  ChainInv'
<1>1. h \in Headers /\ AcceptBlockHeader(h, BadHeaders)
  BY ChainstateAssumption DEF MineBlock
<1>2. /\ TreeOK(m_block_index', nStatus') /\ ChainOK'
      /\ m_candidates' \subseteq m_block_index'
      /\ Orphans' \subseteq Headers
      /\ m_block_index \subseteq m_block_index'
      /\ AcceptResult(h, BadHeaders) \in {"new", "known"} => h \in m_block_index'
  BY <1>1, AcceptStep
<1>3. running /\ running' = running /\ disk' = disk /\ netPeer' = netPeer
  BY DEF MineBlock, Unlocked, hostVars
<1>4. ThreadsOK'
  <2>1. CASE AcceptResult(h, BadHeaders) = "new"
    <3>1. /\ pc' = [pc EXCEPT !["miner"] = "accepted"]
          /\ cur' = [cur EXCEPT !["miner"] = h]
      BY <2>1 DEF MineBlock
    <3> QED
      BY <1>1, <1>2, <1>3, <2>1, <3>1 DEF ChainInv, ThreadsOK, Threads
  <2>2. CASE AcceptResult(h, BadHeaders) # "new"
    <3>1. pc' = pc /\ cur' = cur
      BY <2>2 DEF MineBlock
    <3> QED
      BY <1>2, <1>3, <3>1 DEF ChainInv, ThreadsOK
  <2> QED
    BY <2>1, <2>2
<1> QED
  BY <1>2, <1>3, <1>4 DEF ChainInv

LEMMA AddOrphanHeaderStep ==
  ASSUME ChainInv, AddOrphanHeader
  PROVE  ChainInv'
<1>1. /\ m_block_index' = m_block_index /\ nStatus' = nStatus
      /\ m_candidates' = m_candidates /\ vChain' = vChain
      /\ running /\ running' = running /\ disk' = disk /\ netPeer' = netPeer
  BY DEF AddOrphanHeader, Unlocked, chainVars, hostVars
<1>2. cur["net"] \in Headers
  BY DEF ChainInv, ThreadsOK, Threads
<1>3. Orphans' \subseteq Headers
  <2>1. TryAddOrphanHeader(cur["net"], netPeer)
    BY DEF AddOrphanHeader
  <2>2. Orphans' \subseteq Orphans \cup {cur["net"]}
    BY <2>1 DEF TryAddOrphanHeader, Orphans, HeadersWithout
  <2> QED
    BY <1>2, <2>2 DEF ChainInv
<1>4. ThreadsOK'
  <2>1. \/ pc' = [pc EXCEPT !["net"] = "added"] /\ cur' = cur
        \/ pc' = [pc EXCEPT !["net"] = "idle"] /\ cur' = [cur EXCEPT !["net"] = Genesis]
    BY DEF AddOrphanHeader
  <2> QED
    BY <1>1, <2>1, TreeAssumption DEF ChainInv, ThreadsOK, Threads
<1>5. ChainOK'
  BY <1>1 DEF ChainInv, ChainOK
<1> QED
  BY <1>1, <1>3, <1>4, <1>5 DEF ChainInv

LEMMA TryAddCandidateStep ==
  ASSUME ChainInv, NEW t \in Threads, TryAddBlockIndexCandidate(t)
  PROVE  ChainInv'
<1>1. /\ m_block_index' = m_block_index /\ nStatus' = nStatus /\ vChain' = vChain
      /\ m_orphan_headers' = m_orphan_headers /\ cur' = cur
      /\ running /\ running' = running /\ disk' = disk /\ netPeer' = netPeer
      /\ pc' = [pc EXCEPT ![t] = "added"]
      /\ m_candidates' = WithCandidate(cur[t]) /\ pc[t] = "accepted"
  BY DEF TryAddBlockIndexCandidate, Unlocked, poolVars, hostVars
<1>2. m_candidates' \subseteq m_block_index'
  BY <1>1 DEF ChainInv, ThreadsOK, WithCandidate
<1>3. ThreadsOK'
  BY <1>1 DEF ChainInv, ThreadsOK
<1>4. ChainOK' /\ Orphans' = Orphans
  BY <1>1 DEF ChainInv, ChainOK, Orphans
<1> QED
  BY <1>1, <1>2, <1>3, <1>4 DEF ChainInv

LEMMA ActivateStep ==
  ASSUME ChainInv, NEW t \in Threads, ActivateBestChain(t)
  PROVE  ChainInv'
<1>1. /\ m_block_index' = m_block_index /\ nStatus' = nStatus
      /\ m_orphan_headers' = m_orphan_headers
      /\ running /\ running' = running /\ disk' = disk /\ netPeer' = netPeer
      /\ cur' = [cur EXCEPT ![t] = Genesis]
  BY DEF ActivateBestChain, Unlocked, poolVars, hostVars
<1>2. Orphans' \subseteq Headers
  BY <1>1 DEF ChainInv, Orphans
<1>3. \E s \in {"idle", "dispatch"} : pc' = [pc EXCEPT ![t] = s]
  BY DEF ActivateBestChain
<1>4. ThreadsOK'
  BY <1>1, <1>3, TreeAssumption DEF ChainInv, ThreadsOK
<1>5. ChainOK' /\ m_candidates' \subseteq m_block_index'
  <2>1. CASE NewTips = {}
    <3>1. vChain' = vChain /\ m_candidates' \subseteq m_candidates
      BY <2>1 DEF ActivateBestChain
    <3> QED
      BY <1>1, <3>1 DEF ChainInv, ChainOK
  <2>2. CASE NewTips # {}
    <3>1. PICK h \in NewTips :
            /\ vChain' = ChainTo(h)
            /\ m_candidates' = PruneBlockIndexCandidates(m_candidates \ Discarded, ChainTo(h))
      BY <2>2 DEF ActivateBestChain
    <3>2. m_candidates \subseteq Headers
      BY DEF ChainInv, TreeOK
    <3>3. h \in m_candidates /\ nStatus[h] = {}
      BY <3>2, NewTipsValid
    <3>4. h \in m_block_index /\ h \in Headers
      BY <3>2, <3>3 DEF ChainInv
    <3>5. vChain' = PathTo[h]
      BY <3>1, <3>4, TipFacts, SetTipIsPath DEF ChainInv, ChainTo
    <3>6. m_candidates' \subseteq m_candidates
      BY <3>1 DEF PruneBlockIndexCandidates
    <3> QED
      BY <1>1, <3>3, <3>4, <3>5, <3>6 DEF ChainInv, ChainOK
  <2> QED
    BY <2>1, <2>2
<1> QED
  BY <1>1, <1>2, <1>4, <1>5 DEF ChainInv

LEMMA InvalidateStep ==
  ASSUME ChainInv, NEW h \in Headers, InvalidateBlock(h)
  PROVE  ChainInv'
<1> DEFINE newTip == IF Contains(vChain, h) THEN pprev(h) ELSE Tip
<1>1. h \in m_block_index \ {Genesis} /\ running
  BY DEF InvalidateBlock, Unlocked
<1>2. /\ m_block_index' = m_block_index
      /\ vChain' = ChainTo(newTip) /\ nStatus' = StatusAfterInvalidate(h)
      /\ m_orphan_headers' = m_orphan_headers /\ cur' = cur
      /\ running' = running /\ disk' = disk /\ netPeer' = netPeer
      /\ \E s \in {"idle", "dispatch"} : pc' = [pc EXCEPT !["rpc"] = s]
  BY DEF InvalidateBlock, poolVars, hostVars
<1>3. m_candidates' \subseteq m_candidates \cup FallbackCandidates(newTip) \cup m_block_index
  BY DEF InvalidateBlock
<1> HIDE DEF newTip
<1>4. newTip \in m_block_index /\ nStatus[newTip] = {} /\ ~DescendsFrom(newTip, h)
  BY <1>1, InvalidateTip DEF ChainInv, newTip
<1>5. TreeOK(m_block_index', nStatus')
  BY <1>1, <1>2, InvalidateKeepsTree DEF ChainInv
<1>6. newTip \in Headers /\ h \in m_block_index /\ newTip # h
  <2>1. newTip \in Headers
    BY <1>4 DEF ChainInv, TreeOK
  <2>2. DescendsFrom(h, h)
    BY PathFacts DEF DescendsFrom, GetAncestor
  <2> QED
    BY <1>1, <1>4, <2>1, <2>2
<1>7. nStatus'[newTip] = {}
  BY <1>2, <1>4, <1>6 DEF StatusAfterInvalidate
<1>8. vChain' = PathTo[newTip]
  BY <1>2, <1>6, TipFacts, SetTipIsPath DEF ChainInv, ChainTo
<1>9. ChainOK'
  BY <1>2, <1>4, <1>7, <1>8 DEF ChainOK
<1>10. m_candidates' \subseteq m_block_index'
  BY <1>2, <1>3, <1>4 DEF ChainInv, FallbackCandidates
<1>11. ThreadsOK'
  BY <1>1, <1>2 DEF ChainInv, ThreadsOK, Threads
<1>12. Orphans' = Orphans
  BY <1>2 DEF Orphans
<1> QED
  BY <1>2, <1>5, <1>9, <1>10, <1>11, <1>12 DEF ChainInv

LEMMA StartStep ==
  ASSUME ChainInv, Start
  PROVE  ChainInv'
<1>1. /\ pc' = pc /\ cur' = cur /\ disk' = disk /\ netPeer' = netPeer
      /\ ~running /\ running' /\ m_orphan_headers' = <<>>
  BY DEF Start, threadVars
<1>2. Orphans' \subseteq Headers
  BY <1>1 DEF Orphans
<1>3. ThreadsOK'
  BY <1>1 DEF ChainInv, ThreadsOK
<1>4. TreeOK(m_block_index', nStatus') /\ ChainOK' /\ m_candidates' \subseteq m_block_index'
  <2>1. CASE Loadable(disk)
    <3>1. /\ m_block_index' = disk.index /\ nStatus' = disk.status
          /\ m_candidates' = LoadedCandidates(disk)
      BY <2>1 DEF Start
    <3>2. PICK h \in BestLoaded(disk) : vChain' = SetTip(<<>>, h)
      BY <2>1 DEF Start
    <3>3. TreeOK(disk.index, disk.status)
      BY <2>1 DEF ChainInv, Loadable
    <3>4. h \in disk.index /\ disk.status[h] = {} /\ h \in Headers
      BY <3>3 DEF BestLoaded, TreeOK
    <3>5. vChain' = PathTo[h]
      BY <3>2, <3>4, SetTipFromEmpty
    <3> QED
      BY <3>1, <3>3, <3>4, <3>5 DEF ChainOK, LoadedCandidates
  <2>2. CASE ~Loadable(disk)
    <3>1. /\ m_block_index' = {Genesis} /\ nStatus' = [h \in Headers |-> {}]
          /\ m_candidates' = {Genesis} /\ vChain' = <<Genesis>>
      BY <2>2 DEF Start
    <3> QED
      BY <3>1, GenesisTree, TreeAssumption DEF ChainOK
  <2> QED
    BY <2>1, <2>2
<1> QED
  BY <1>1, <1>2, <1>3, <1>4 DEF ChainInv

\* The steps that leave the chain, the candidates and the pool alone.
LEMMA QuietStep ==
  ASSUME ChainInv,
         \/ CreateBlockTemplate
         \/ \E t \in Threads : Dispatch(t)
         \/ SaveBegin \/ SaveEnd \/ Crash \/ RequestShutdown \/ Shutdown \/ ClockTick
         \/ UNCHANGED vars
  PROVE  ChainInv'
<1> DEFINE Same == /\ m_block_index' = m_block_index /\ nStatus' = nStatus
                   /\ m_candidates' = m_candidates /\ vChain' = vChain
                   /\ m_orphan_headers' = m_orphan_headers /\ netPeer' = netPeer
<1>1. Same /\ ThreadsOK' /\ (disk'.state = "saved" => TreeOK(disk'.index, disk'.status))
  <2>1. CASE CreateBlockTemplate
    <3>1. Same /\ pc' = pc /\ cur' = cur /\ running' = running /\ disk' = disk
      BY <2>1 DEF CreateBlockTemplate, poolVars, chainVars, hostVars
    <3> QED
      BY <3>1 DEF ChainInv, ThreadsOK
  <2>2. CASE \E t \in Threads : Dispatch(t)
    <3>1. PICK t \in Threads : Dispatch(t)
      BY <2>2
    <3>2. /\ Same /\ cur' = cur /\ running /\ running' = running /\ disk' = disk
          /\ \E s \in {"idle", "dispatch"} : pc' = [pc EXCEPT ![t] = s]
      BY <3>1 DEF Dispatch, poolVars, chainVars, hostVars
    <3> QED
      BY <3>2 DEF ChainInv, ThreadsOK
  <2>3. CASE SaveBegin
    <3>1. Same /\ pc' = pc /\ cur' = cur /\ running' = running /\ disk'.state = "torn"
      BY <2>3 DEF SaveBegin, poolVars, chainVars, threadVars, NoFile
    <3> QED
      BY <3>1 DEF ChainInv, ThreadsOK
  <2>4. CASE SaveEnd
    <3>1. Same /\ pc' = pc /\ cur' = cur /\ running' = running /\ disk' = SavedFile
      BY <2>4 DEF SaveEnd, poolVars, chainVars, threadVars
    <3> QED
      BY <3>1 DEF ChainInv, ThreadsOK, SavedFile
  <2>5. ASSUME Stopped PROVE Same /\ ThreadsOK'
    <3>1. /\ Same /\ pc' = [t \in Threads |-> "idle"] /\ cur' = [t \in Threads |-> Genesis]
      BY <2>5 DEF Stopped, poolVars, chainVars
    <3> QED
      BY <3>1, TreeAssumption DEF ChainInv, ThreadsOK, Threads
  <2>6. CASE Crash
    BY <2>5, <2>6 DEF Crash, ChainInv
  <2>7. CASE RequestShutdown
    <3>1. Same /\ pc' = pc /\ cur' = cur /\ running' = running /\ disk' = disk
      BY <2>7 DEF RequestShutdown, poolVars, chainVars, threadVars, hostVars
    <3> QED
      BY <3>1 DEF ChainInv, ThreadsOK
  <2>8. CASE Shutdown
    BY <2>5, <2>8 DEF Shutdown, SavedFile, ChainInv
  <2>9. CASE ClockTick
    <3>1. Same /\ pc' = pc /\ cur' = cur /\ running' = running /\ disk' = disk
      BY <2>9 DEF ClockTick, Tick, chainVars, threadVars, hostVars
    <3> QED
      BY <3>1 DEF ChainInv, ThreadsOK
  <2>10. CASE UNCHANGED vars
    <3>1. Same /\ pc' = pc /\ cur' = cur /\ running' = running /\ disk' = disk
      BY <2>10 DEF vars, poolVars, chainVars, threadVars, hostVars
    <3> QED
      BY <3>1 DEF ChainInv, ThreadsOK
  <2> QED
    BY <2>1, <2>2, <2>3, <2>4, <2>6, <2>7, <2>8, <2>9, <2>10
<1>2. ChainOK' /\ Orphans' = Orphans
  BY <1>1 DEF ChainInv, ChainOK, Orphans
<1> QED
  BY <1>1, <1>2 DEF ChainInv

LEMMA ChainStep == ChainInv /\ [Next]_vars => ChainInv'
<1> SUFFICES ASSUME ChainInv, [Next]_vars PROVE ChainInv'
  OBVIOUS
<1>1. CASE \E h \in Headers, p \in Peers : HandleHeader(h, p)
  BY <1>1, HandleHeaderStep
<1>2. CASE AddOrphanHeader
  BY <1>2, AddOrphanHeaderStep
<1>3. CASE \E h \in MinedHeaders : MineBlock(h)
  BY <1>3, MineBlockStep
<1>4. CASE \E t \in Threads : ThreadStep(t)
  <2>1. PICK t \in Threads : ThreadStep(t)
    BY <1>4
  <2>2. CASE TryAddBlockIndexCandidate(t)
    BY <2>2, TryAddCandidateStep
  <2>3. CASE ActivateBestChain(t)
    BY <2>3, ActivateStep
  <2>4. CASE Dispatch(t)
    BY <2>4, QuietStep
  <2> QED
    BY <2>1, <2>2, <2>3, <2>4 DEF ThreadStep
<1>5. CASE \E h \in Headers : InvalidateBlock(h)
  BY <1>5, InvalidateStep
<1>6. CASE Start
  BY <1>6, StartStep
<1>7. CASE \/ CreateBlockTemplate \/ SaveBegin \/ SaveEnd \/ Crash \/ RequestShutdown
           \/ Shutdown \/ ClockTick \/ UNCHANGED vars
  BY <1>7, QuietStep
<1> QED
  BY <1>1, <1>2, <1>3, <1>4, <1>5, <1>6, <1>7 DEF Next

\* In every reachable state the index is a tree under which failure is
\* inherited, the active chain is the path to a valid indexed header, the
\* candidates and what the threads hold are indexed, and the file Load would
\* accept describes such a tree again.
THEOREM ChainInvariant == Spec => []ChainInv
BY InitChain, ChainStep, PTL DEF Spec

\* CChain's vector is always the pprev walk of its tip and holds no header
\* that is missing from the index or marked failed (SetTip, ActivateBestChain,
\* InvalidateBlock and Load in any order).
THEOREM ChainAlwaysValid == Spec => []ActiveChainValid
<1>1. ChainInv => ActiveChainValid
  <2> SUFFICES ASSUME ChainInv PROVE ActiveChainValid
    OBVIOUS
  <2>1. /\ Tip \in m_block_index /\ Tip \in Headers
        /\ vChain = PathTo[Tip] /\ nStatus[Tip] = {}
    BY TipFacts DEF ChainInv
  <2>2. \A i \in 1..Len(PathTo[Tip]) : /\ PathTo[Tip][i] \in m_block_index
                                       /\ nStatus[PathTo[Tip][i]] = {}
    BY <2>1 DEF ChainInv, TreeOK
  <2> QED
    BY <2>1, <2>2 DEF ActiveChainValid, Failed
<1> QED
  BY <1>1, ChainInvariant, PTL

\* A child is only indexed after its parent, and no descendant of a block that
\* InvalidateBlock marked is left, or later accepted, as valid
\* (AcceptBlockHeader, ProcessOrphanHeaders, InvalidateBlock, Load).
THEOREM FailureAlwaysInherited == Spec => []FailureInherited
<1>1. ChainInv => FailureInherited
  <2> SUFFICES ASSUME ChainInv, NEW h \in m_block_index \ {Genesis}
               PROVE  pprev(h) \in m_block_index /\ (Failed(pprev(h)) => Failed(h))
    BY DEF FailureInherited
  <2>1. h \in Headers /\ h # Genesis
    BY DEF ChainInv, TreeOK
  <2> DEFINE k == Len(PathTo[h]) - 1
  <2>2. Len(PathTo[h]) > 1 /\ Len(PathTo[h]) \in Nat /\ pprev(h) = PathTo[h][k]
    BY <2>1, ParentFacts, PathFacts
  <2>3. k \in 1..Len(PathTo[h])
    BY <2>2
  <2> HIDE DEF k
  <2> QED
    BY <2>2, <2>3 DEF ChainInv, TreeOK, Failed
<1> QED
  BY <1>1, ChainInvariant, PTL

-----------------------------------------------------------------------------
(* The orphan pool inside the chain state manager *)

\* AcceptBlockHeader is a resolution of the pool module.
LEMMA AcceptIsPoolStep ==
  ASSUME NEW h, NEW bad, AcceptBlockHeader(h, bad)
  PROVE  PoolNext
<1> DEFINE resolved == IF AcceptResult(h, bad) = "new" THEN ResolvedBy(h, bad) ELSE {}
<1>1. resolved \in SUBSET Orphans
  BY DEF ResolvedBy
<1>2. TakeOrphans(resolved) /\ UNCHANGED now
  BY DEF AcceptBlockHeader, ProcessOrphanHeaders
<1> QED
  BY <1>1, <1>2 DEF PoolNext, ResolveOrphans

LEMMA PoolStep == ChainInv /\ [Next]_vars => [PoolNext]_poolVars
<1> SUFFICES ASSUME ChainInv, [Next]_vars PROVE [PoolNext]_poolVars
  OBVIOUS
<1>1. CASE \E h \in Headers, p \in Peers : HandleHeader(h, p)
  BY <1>1, AcceptIsPoolStep DEF HandleHeader
<1>2. CASE AddOrphanHeader
  <2>1. TryAddOrphanHeader(cur["net"], netPeer) /\ UNCHANGED now
    BY <1>2 DEF AddOrphanHeader
  <2>2. cur["net"] \in Headers \ {Genesis} /\ netPeer \in Peers
    BY <1>2 DEF AddOrphanHeader, ChainInv, ThreadsOK, Threads
  <2> QED
    BY <2>1, <2>2 DEF PoolNext, AddOrphan
<1>3. CASE \E h \in MinedHeaders : MineBlock(h)
  BY <1>3, AcceptIsPoolStep DEF MineBlock
<1>4. CASE Start
  BY <1>4 DEF Start, PoolNext, ForgetOrphans
<1>5. CASE ClockTick
  BY <1>5 DEF ClockTick, PoolNext
<1>6. CASE \E t \in Threads : ThreadStep(t)
  BY <1>6 DEF ThreadStep, TryAddBlockIndexCandidate, ActivateBestChain, Dispatch
<1>7. CASE \E h \in Headers : InvalidateBlock(h)
  BY <1>7 DEF InvalidateBlock
<1>8. CASE Crash \/ Shutdown
  BY <1>8 DEF Crash, Shutdown, Stopped
<1>9. CASE \/ CreateBlockTemplate \/ SaveBegin \/ SaveEnd \/ RequestShutdown \/ UNCHANGED vars
  BY <1>9 DEF CreateBlockTemplate, SaveBegin, SaveEnd, RequestShutdown, vars
<1> QED
  BY <1>1, <1>2, <1>3, <1>4, <1>5, <1>6, <1>7, <1>8, <1>9 DEF Next

\* The pool as the network, miner and RPC threads use it behaves as module
\* OrphanPool specifies (AcceptBlockHeader, AddOrphanHeader, restart).
THEOREM PoolRefined == Spec => ImplementsOrphanPool
<1>1. Init => PoolInit
  BY DEF Init
<1> QED
  BY <1>1, PoolStep, ChainInvariant, PTL DEF Spec, ImplementsOrphanPool, PoolSpec

\* So the limits of protocol.hpp and the exactness of m_peer_orphan_count hold
\* for the whole system, under every interleaving of its threads.
THEOREM SystemPoolSafe == Spec => [](PeerCountsExact /\ PoolBounded)
BY PoolRefined, CountsExact, LimitsHold, PTL DEF ImplementsOrphanPool



-----------------------------------------------------------------------------
(* Types: the heights an activation or an invalidation runs over are those *)
(* of headers on the two branches.                                         *)

EventSet == [type : EventTypes, header : Headers]

\* What TypeOK adds to ChainInv and PoolInv.
EventsOK ==
  /\ events \in [Threads -> Seq(EventSet)]
  /\ \A t \in Threads : events[t] # <<>> <=> pc[t] = "dispatch"

HostOK ==
  /\ template \in Headers \cup {NoTemplate}
  /\ published \subseteq MinedHeaders
  /\ delivered \in [Headers -> Int]
  /\ cascaded \subseteq m_block_index
  /\ shutdown_requested_ \in BOOLEAN /\ running \in BOOLEAN /\ saving \in BOOLEAN
  /\ disk \in [state : {"absent", "torn", "saved"}, index : SUBSET Headers,
               status : [Headers -> SUBSET FailedFlags]]
  /\ invalidations \in Nat /\ restarts \in Nat

-----------------------------------------------------------------------------
\* A nonempty set of numbers with an upper bound has a greatest element.
LEMMA Greatest ==
  ASSUME NEW n \in Nat, NEW T \in SUBSET (1..n), T # {}
  PROVE  \E x \in T : \A y \in T : y <= x
<1> DEFINE U == {n - x : x \in T}
<1>1. U \in SUBSET Nat /\ U # {}
  <2>1. \A x \in T : x \in 1..n
    OBVIOUS
  <2>2. \A x \in 1..n : n - x \in Nat
    OBVIOUS
  <2>3. \A x \in T : n - x \in Nat
    BY <2>1, <2>2
  <2> QED
    BY <2>3
<1> HIDE DEF U
<1>2. PICK u \in U : \A v \in U : u <= v
  BY <1>1, Least
<1>3. PICK x \in T : u = n - x
  BY <1>2 DEF U
<1>4. \A y \in T : n - x <= n - y
  BY <1>2, <1>3 DEF U
<1>5. \A y \in T : y <= x
  BY <1>4
<1> QED
  BY <1>5

\* LastCommonAncestor returns a header on both paths.
LEMMA ForkFacts ==
  ASSUME NEW a \in Headers, NEW b \in Headers
  PROVE  LET f == LastCommonAncestor(a, b)
         IN  f \in Headers /\ nHeight(f) \in Nat /\ nHeight(f) <= nHeight(a) /\ nHeight(f) <= nHeight(b)
<1> DEFINE common == {i \in 1..Len(PathTo[a]) :
                        i <= Len(PathTo[b]) /\ PathTo[a][i] = PathTo[b][i]}
           k == CHOOSE i \in common : \A j \in common : j <= i
<1>1. Len(PathTo[a]) \in Nat /\ Len(PathTo[b]) \in Nat /\ 1 \in common
  <2>1. Len(PathTo[a]) \in Nat /\ Len(PathTo[a]) > 0
    BY PathFacts
  <2>2. Len(PathTo[b]) \in Nat /\ Len(PathTo[b]) > 0
    BY PathFacts
  <2>3. PathTo[a][1] = Genesis /\ PathTo[b][1] = Genesis
    BY TreeAssumption
  <2> QED
    BY <2>1, <2>2, <2>3
<1>2. common \in SUBSET (1..Len(PathTo[a]))
  OBVIOUS
<1>3. \E i \in common : \A j \in common : j <= i
  <2> HIDE DEF common
  <2> QED
    BY <1>1, <1>2, Greatest
<1>4. k \in common
  BY <1>3
<1>5. LastCommonAncestor(a, b) = PathTo[a][k]
  BY DEF LastCommonAncestor
<1>6. k \in 1..Len(PathTo[a]) /\ k <= Len(PathTo[b])
  BY <1>4
<1> HIDE DEF k
<1>7. PathTo[a][k] \in Headers /\ Len(PathTo[PathTo[a][k]]) = k
  BY <1>6, PathFacts, PathPrefix
<1> QED
  BY <1>1, <1>5, <1>6, <1>7, PathFacts DEF nHeight


\* The events of a disconnection down to an ancestor of the tip.
LEMMA DisconnectEventsType ==
  ASSUME ChainInv, NEW f \in Headers, nHeight(f) <= nHeight(Tip)
  PROVE  /\ DisconnectEvents(f) \in Seq(EventSet)
         /\ Len(DisconnectEvents(f)) = nHeight(Tip) - nHeight(f)
<1> DEFINE n == Len(vChain) - 1 - nHeight(f)
           ev(i) == Event("BlockDisconnected", vChain[Len(vChain) + 1 - i])
<1>1. /\ Tip \in Headers /\ vChain = PathTo[Tip]
      /\ Len(vChain) \in Nat /\ nHeight(Tip) = Len(vChain) - 1
      /\ \A i \in 1..Len(vChain) : vChain[i] \in Headers
  BY TipFacts, PathFacts DEF ChainInv
<1>2. nHeight(f) \in Nat
  BY PathFacts
<1>3. n \in Nat /\ n = nHeight(Tip) - nHeight(f)
  BY <1>1, <1>2
<1>4. \A i \in 1..n : Len(vChain) + 1 - i \in 1..Len(vChain)
  BY <1>1, <1>2
<1>5. \A i \in 1..n : ev(i) \in EventSet
  BY <1>1, <1>4 DEF Event, EventSet, EventTypes
<1>6. DisconnectEvents(f) = [i \in 1..n |-> ev(i)]
  BY DEF DisconnectEvents
<1> HIDE DEF n, ev
<1>7. [i \in 1..n |-> ev(i)] \in Seq(EventSet) /\ Len([i \in 1..n |-> ev(i)]) = n
  BY <1>3, <1>5
<1> QED
  BY <1>3, <1>6, <1>7

LEMMA ConnectEventsType ==
  ASSUME NEW f \in Headers, NEW h \in Headers, nHeight(f) <= nHeight(h)
  PROVE  ConnectEvents(f, h) \in Seq(EventSet)
<1> DEFINE n == nHeight(h) - nHeight(f)
           ev(i) == Event("BlockConnected", GetAncestor(h, nHeight(f) + i))
<1>1. /\ nHeight(f) \in Nat /\ nHeight(h) \in Nat /\ nHeight(h) = Len(PathTo[h]) - 1
      /\ Len(PathTo[h]) \in Nat /\ \A i \in 1..Len(PathTo[h]) : PathTo[h][i] \in Headers
  BY PathFacts
<1>2. n \in Nat
  BY <1>1
<1>3. \A i \in 1..n : nHeight(f) + i + 1 \in 1..Len(PathTo[h])
  BY <1>1
<1>4. \A i \in 1..n : ev(i) \in EventSet
  BY <1>1, <1>3 DEF Event, EventSet, EventTypes, GetAncestor
<1>5. ConnectEvents(f, h) = [i \in 1..n |-> ev(i)]
  BY DEF ConnectEvents
<1> HIDE DEF n, ev
<1> QED
  BY <1>2, <1>4, <1>5

-----------------------------------------------------------------------------
(* Event queues *)

\* A step of one thread that neither starts nor ends a delivery.
LEMMA QueuesUntouched ==
  ASSUME EventsOK, NEW t \in Threads, NEW s, s # "dispatch", pc[t] # "dispatch",
         pc \in [Threads -> {"idle", "orphan", "accepted", "added", "dispatch"}],
         pc' = [pc EXCEPT ![t] = s], events' = events
  PROVE  EventsOK'
BY DEF EventsOK

LEMMA ActivateEvents ==
  ASSUME ChainInv, EventsOK, NEW t \in Threads, ActivateBestChain(t)
  PROVE  EventsOK'
<1>1. pc[t] = "added" /\ pc \in [Threads -> {"idle", "orphan", "accepted", "added", "dispatch"}]
  BY DEF ActivateBestChain, ChainInv, ThreadsOK
<1>2. CASE NewTips = {}
  <2>1. pc' = [pc EXCEPT ![t] = "idle"] /\ events' = events
    BY <1>2 DEF ActivateBestChain
  <2> QED
    BY <1>1, <2>1, QueuesUntouched
<1>3. CASE NewTips # {}
  <2>1. PICK h \in NewTips :
          LET fork == LastCommonAncestor(Tip, h)
          IN  /\ events' = [events EXCEPT ![t] =
                              DisconnectEvents(fork) \o ConnectEvents(fork, h)
                                \o <<Event("ChainTip", h)>>]
              /\ pc' = [pc EXCEPT ![t] = "dispatch"]
    BY <1>3 DEF ActivateBestChain
  <2> DEFINE fork == LastCommonAncestor(Tip, h)
             d == DisconnectEvents(fork)
             c == ConnectEvents(fork, h)
             e == <<Event("ChainTip", h)>>
  <2>2. m_candidates \subseteq Headers
    BY DEF ChainInv, TreeOK
  <2>3. h \in Headers /\ Tip \in Headers
    BY <2>2, NewTipsValid, TipFacts DEF ChainInv
  <2>4. fork \in Headers /\ nHeight(fork) <= nHeight(Tip) /\ nHeight(fork) <= nHeight(h)
    BY <2>3, ForkFacts
  <2>5. e \in Seq(EventSet) /\ Len(e) = 1
    BY <2>3 DEF Event, EventSet, EventTypes
  <2>6. events' = [events EXCEPT ![t] = d \o c \o e] /\ pc' = [pc EXCEPT ![t] = "dispatch"]
    BY <2>1
  <2> HIDE DEF fork, e
  <2>7. d \in Seq(EventSet) /\ c \in Seq(EventSet)
    BY <2>3, <2>4, DisconnectEventsType, ConnectEventsType
  <2> HIDE DEF d, c
  <2>8. d \o c \o e \in Seq(EventSet) /\ d \o c \o e # <<>>
    <3>1. d \o c \in Seq(EventSet)
      BY <2>7
    <3>2. (d \o c) \o e \in Seq(EventSet) /\ Len((d \o c) \o e) = Len(d \o c) + Len(e)
      BY <3>1, <2>5, ConcatProperties
    <3>3. Len(d \o c) \in Nat
      BY <3>1
    <3>4. Len((d \o c) \o e) > 0
      BY <3>2, <3>3, <2>5
    <3> QED
      BY <3>2, <3>4
  <2> QED
    BY <1>1, <2>6, <2>8 DEF EventsOK
<1> QED
  BY <1>2, <1>3

LEMMA InvalidateEvents ==
  ASSUME ChainInv, EventsOK, NEW h \in Headers, InvalidateBlock(h)
  PROVE  EventsOK'
<1> DEFINE newTip == IF Contains(vChain, h) THEN pprev(h) ELSE Tip
           d == DisconnectEvents(newTip)
<1>1. pc["rpc"] = "idle" /\ pc \in [Threads -> {"idle", "orphan", "accepted", "added", "dispatch"}]
  BY DEF InvalidateBlock, ChainInv, ThreadsOK
<1>2. /\ events' = [events EXCEPT !["rpc"] = d]
      /\ pc' = [pc EXCEPT !["rpc"] = IF Contains(vChain, h) THEN "dispatch" ELSE "idle"]
      /\ h # Genesis
  BY DEF InvalidateBlock
<1>3. Tip \in Headers /\ vChain = PathTo[Tip] /\ nHeight(Tip) \in Nat
  BY TipFacts, PathFacts DEF ChainInv
<1>4. d \in Seq(EventSet) /\ (d # <<>> <=> Contains(vChain, h))
  <2>1. CASE Contains(vChain, h)
    <3>1. nHeight(h) <= nHeight(Tip) /\ nHeight(h) \in Nat
      BY <1>3, <2>1, ContainsIsDescent, PathFacts DEF DescendsFrom
    <3>2. pprev(h) \in Headers /\ nHeight(pprev(h)) = nHeight(h) - 1
      <4>1. Len(PathTo[pprev(h)]) = Len(PathTo[h]) - 1 /\ pprev(h) \in Headers
        BY <1>2, ParentFacts
      <4> QED
        BY <4>1, PathFacts DEF nHeight
    <3>3. nHeight(pprev(h)) \in Nat
      BY <3>2, PathFacts
    <3>4. nHeight(pprev(h)) <= nHeight(Tip) /\ nHeight(Tip) - nHeight(pprev(h)) > 0
      BY <1>3, <3>1, <3>2, <3>3
    <3>5. /\ DisconnectEvents(pprev(h)) \in Seq(EventSet)
          /\ Len(DisconnectEvents(pprev(h))) = nHeight(Tip) - nHeight(pprev(h))
      BY <3>2, <3>4, DisconnectEventsType
    <3>6. d = DisconnectEvents(pprev(h))
      BY <2>1
    <3> HIDE DEF d
    <3>7. d \in Seq(EventSet) /\ Len(d) > 0
      BY <3>4, <3>5, <3>6
    <3> QED
      BY <2>1, <3>7
  <2>2. CASE ~Contains(vChain, h)
    <3>1. d = DisconnectEvents(Tip)
      BY <2>2
    <3>2. /\ DisconnectEvents(Tip) \in Seq(EventSet)
          /\ Len(DisconnectEvents(Tip)) = nHeight(Tip) - nHeight(Tip)
      BY <1>3, DisconnectEventsType
    <3> HIDE DEF d
    <3>3. d \in Seq(EventSet) /\ Len(d) = 0
      BY <1>3, <3>1, <3>2
    <3> QED
      BY <2>2, <3>3
  <2> QED
    BY <2>1, <2>2
<1> HIDE DEF d
<1> QED
  BY <1>1, <1>2, <1>4 DEF EventsOK, Threads

LEMMA DispatchEvents ==
  ASSUME ChainInv, EventsOK, NEW t \in Threads, Dispatch(t)
  PROVE  /\ EventsOK'
         /\ Head(events[t]) \in EventSet
<1> DEFINE q == events[t]
<1>1. q \in Seq(EventSet) /\ q # <<>>
  BY DEF EventsOK, Dispatch
<1>2. /\ events' = [events EXCEPT ![t] = Tail(q)]
      /\ pc' = [pc EXCEPT ![t] = IF Len(q) = 1 THEN "idle" ELSE "dispatch"]
      /\ pc \in [Threads -> {"idle", "orphan", "accepted", "added", "dispatch"}]
  BY DEF EventsOK, Dispatch, ChainInv, ThreadsOK
<1> HIDE DEF q
<1>3. Head(q) \in EventSet /\ Tail(q) \in Seq(EventSet) /\ (Tail(q) = <<>> <=> Len(q) = 1)
  <2>1. Head(q) \in EventSet /\ Tail(q) \in Seq(EventSet) /\ Len(Tail(q)) = Len(q) - 1
    BY <1>1, HeadTailProperties
  <2>2. Len(q) \in Nat
    BY <1>1, LenProperties
  <2>3. Tail(q) = <<>> <=> Len(Tail(q)) = 0
    BY <2>1, EmptySeq
  <2> QED
    BY <2>1, <2>2, <2>3
<1>4. EventsOK'
  BY <1>2, <1>3 DEF EventsOK
<1> QED
  BY <1>3, <1>4 DEF q

LEMMA EventsStep == ChainInv /\ EventsOK /\ [Next]_vars => EventsOK'
<1> SUFFICES ASSUME ChainInv, EventsOK, [Next]_vars PROVE EventsOK'
  OBVIOUS
<1>1. pc \in [Threads -> {"idle", "orphan", "accepted", "added", "dispatch"}]
  BY DEF ChainInv, ThreadsOK
<1>2. CASE \E h \in Headers, p \in Peers : HandleHeader(h, p)
  <2>1. PICK h \in Headers, p \in Peers : HandleHeader(h, p)
    BY <1>2
  <2>2. events' = events /\ pc["net"] # "dispatch"
    BY <2>1 DEF HandleHeader, NextInMessage
  <2>3. \E s \in {"idle", "orphan", "accepted", "added"} : pc' = [pc EXCEPT !["net"] = s]
    BY <2>1 DEF HandleHeader, AfterAccept
  <2> QED
    BY <1>1, <2>2, <2>3, QueuesUntouched DEF Threads
<1>3. CASE AddOrphanHeader
  <2>1. /\ events' = events /\ pc["net"] # "dispatch"
        /\ \E s \in {"idle", "added"} : pc' = [pc EXCEPT !["net"] = s]
    BY <1>3 DEF AddOrphanHeader
  <2> QED
    BY <1>1, <2>1, QueuesUntouched DEF Threads
<1>4. CASE \E h \in MinedHeaders : MineBlock(h)
  <2>1. /\ events' = events /\ pc["miner"] # "dispatch"
        /\ pc' = [pc EXCEPT !["miner"] = "accepted"] \/ pc' = pc
    BY <1>4 DEF MineBlock
  <2>2. CASE pc' = pc
    BY <2>1, <2>2 DEF EventsOK
  <2>3. CASE pc' = [pc EXCEPT !["miner"] = "accepted"]
    BY <1>1, <2>1, <2>3, QueuesUntouched DEF Threads
  <2> QED
    BY <2>1, <2>2, <2>3
<1>5. CASE \E t \in Threads : ThreadStep(t)
  <2>1. PICK t \in Threads : ThreadStep(t)
    BY <1>5
  <2>2. CASE TryAddBlockIndexCandidate(t)
    <3>1. events' = events /\ pc[t] # "dispatch" /\ pc' = [pc EXCEPT ![t] = "added"]
      BY <2>2 DEF TryAddBlockIndexCandidate
    <3> QED
      BY <1>1, <3>1, QueuesUntouched
  <2> QED
    BY <2>1, <2>2, ActivateEvents, DispatchEvents DEF ThreadStep
<1>6. CASE \E h \in Headers : InvalidateBlock(h)
  BY <1>6, InvalidateEvents
<1>7. CASE Crash \/ Shutdown
  <2>1. pc' = [t \in Threads |-> "idle"] /\ events' = [t \in Threads |-> <<>>]
    BY <1>7 DEF Crash, Shutdown, Stopped
  <2>2. <<>> \in Seq(EventSet)
    BY EmptySeq
  <2> QED
    BY <2>1, <2>2 DEF EventsOK
<1>8. CASE \/ CreateBlockTemplate \/ SaveBegin \/ SaveEnd \/ RequestShutdown \/ Start
           \/ ClockTick \/ UNCHANGED vars
  <2>1. pc' = pc /\ events' = events
    BY <1>8 DEF CreateBlockTemplate, SaveBegin, SaveEnd, RequestShutdown, Start, ClockTick,
                threadVars, vars
  <2> QED
    BY <2>1 DEF EventsOK
<1> QED
  BY <1>2, <1>3, <1>4, <1>5, <1>6, <1>7, <1>8 DEF Next

-----------------------------------------------------------------------------
(* The rest of the state *)

LEMMA HostStep == ChainInv /\ EventsOK /\ HostOK /\ [Next]_vars => HostOK'
<1> SUFFICES ASSUME ChainInv, EventsOK, HostOK, [Next]_vars PROVE HostOK'
  OBVIOUS
<1> DEFINE Accepts(h, bad) ==
             /\ AcceptBlockHeader(h, bad)
             /\ UNCHANGED <<template, published, delivered, hostVars, invalidations>>
<1>1. ASSUME NEW h, NEW bad, Accepts(h, bad) PROVE HostOK'
  <2>1. cascaded' \subseteq m_block_index'
    BY <1>1 DEF AcceptBlockHeader, Indexed, HostOK
  <2>2. shutdown_requested_' \in BOOLEAN
    BY <1>1 DEF AcceptBlockHeader, HostOK
  <2> QED
    BY <1>1, <2>1, <2>2 DEF HostOK, hostVars
<1>2. CASE \E h \in Headers, p \in Peers : HandleHeader(h, p)
  BY <1>1, <1>2 DEF HandleHeader
<1>3. CASE \E h \in MinedHeaders : MineBlock(h)
  BY <1>1, <1>3 DEF MineBlock
<1>4. CASE AddOrphanHeader
  BY <1>4 DEF AddOrphanHeader, HostOK, hostVars, chainVars
<1>5. CASE CreateBlockTemplate
  <2>1. Tip \in Headers
    BY TipFacts DEF ChainInv
  <2> QED
    BY <1>5, <2>1 DEF CreateBlockTemplate, HostOK, hostVars, chainVars
<1>6. CASE \E t \in Threads : ThreadStep(t)
  <2>1. PICK t \in Threads : ThreadStep(t)
    BY <1>6
  <2>2. CASE TryAddBlockIndexCandidate(t)
    BY <2>2 DEF TryAddBlockIndexCandidate, HostOK, hostVars
  <2>3. CASE ActivateBestChain(t)
    <3>1. shutdown_requested_' \in BOOLEAN
      BY <2>3 DEF ActivateBestChain, HostOK
    <3>2. published' \subseteq MinedHeaders
      BY <2>3 DEF ActivateBestChain, HostOK
    <3> QED
      BY <2>3, <3>1, <3>2 DEF ActivateBestChain, HostOK, hostVars
  <2>4. CASE Dispatch(t)
    <3> DEFINE ev == Head(events[t])
    <3>1. ev.header \in Headers
      BY <2>4, DispatchEvents DEF EventSet
    <3>2. \E n \in Int : delivered' = [delivered EXCEPT ![ev.header] = n]
      <4>1. delivered[ev.header] \in Int
        BY <3>1 DEF HostOK
      <4>2. delivered' = [delivered EXCEPT ![ev.header] =
                         CASE ev.type = "BlockConnected"    -> delivered[ev.header] + 1
                           [] ev.type = "BlockDisconnected" -> delivered[ev.header] - 1
                           [] OTHER                         -> delivered[ev.header]]
        BY <2>4 DEF Dispatch
      <4> DEFINE n == CASE ev.type = "BlockConnected"    -> delivered[ev.header] + 1
                        [] ev.type = "BlockDisconnected" -> delivered[ev.header] - 1
                        [] OTHER                         -> delivered[ev.header]
      <4> HIDE DEF ev
      <4>3. n \in Int
        <5>1. CASE ev.type = "BlockConnected"
          <6>1. n = delivered[ev.header] + 1
            BY <5>1
          <6> QED
            BY <4>1, <6>1
        <5>2. CASE ev.type = "BlockDisconnected"
          <6>1. n = delivered[ev.header] - 1
            BY <5>2
          <6> QED
            BY <4>1, <6>1
        <5>3. CASE ev.type # "BlockConnected" /\ ev.type # "BlockDisconnected"
          <6>1. n = delivered[ev.header]
            BY <5>3
          <6> QED
            BY <4>1, <6>1
        <5> QED
          BY <5>1, <5>2, <5>3
      <4> QED
        BY <4>2, <4>3
    <3> HIDE DEF ev
    <3>3. delivered' \in [Headers -> Int]
      BY <3>1, <3>2 DEF HostOK
    <3> QED
      BY <2>4, <3>3 DEF Dispatch, HostOK, hostVars, chainVars
  <2> QED
    BY <2>1, <2>2, <2>3, <2>4 DEF ThreadStep
<1>7. CASE \E h \in Headers : InvalidateBlock(h)
  BY <1>7 DEF InvalidateBlock, HostOK, hostVars
<1>8. SavedFile \in [state : {"absent", "torn", "saved"}, index : SUBSET Headers,
                     status : [Headers -> SUBSET FailedFlags]]
  BY DEF SavedFile, ChainInv, TreeOK
<1>9. CASE SaveBegin
  <2>1. disk' \in [state : {"absent", "torn", "saved"}, index : SUBSET Headers,
                   status : [Headers -> SUBSET FailedFlags]]
    BY <1>9 DEF SaveBegin, NoFile
  <2> QED
    BY <1>9, <2>1 DEF SaveBegin, HostOK, chainVars, threadVars
<1>10. CASE SaveEnd
  BY <1>8, <1>10 DEF SaveEnd, HostOK, chainVars, threadVars
<1>11. ASSUME Stopped, disk' \in [state : {"absent", "torn", "saved"}, index : SUBSET Headers,
                                 status : [Headers -> SUBSET FailedFlags]]
       PROVE  HostOK'
  <2>1. /\ template' = NoTemplate /\ published' = published /\ delivered' = delivered
        /\ cascaded' = cascaded /\ m_block_index' = m_block_index
        /\ shutdown_requested_' = shutdown_requested_
        /\ running' = FALSE /\ saving' = FALSE
        /\ invalidations' = invalidations /\ restarts' = restarts + 1
    BY <1>11 DEF Stopped, chainVars
  <2>2. restarts' \in Nat
    BY <2>1 DEF HostOK
  <2>3. shutdown_requested_' \in BOOLEAN /\ running' \in BOOLEAN /\ saving' \in BOOLEAN
    BY <2>1 DEF HostOK
  <2> QED
    BY <1>11, <2>1, <2>2, <2>3 DEF HostOK
<1>12. CASE Crash \/ Shutdown
  BY <1>8, <1>11, <1>12 DEF Crash, Shutdown, HostOK
<1>13. CASE RequestShutdown
  BY <1>13 DEF RequestShutdown, HostOK, chainVars, threadVars, hostVars
<1>14. CASE Start
  <2>1. /\ running' = TRUE /\ shutdown_requested_' = FALSE /\ saving' = saving
        /\ template' = template /\ published' = published /\ cascaded' = {}
        /\ disk' = disk /\ restarts' = restarts /\ invalidations' = invalidations
        /\ delivered' = [h \in Headers |-> IF Contains(vChain', h) THEN 1 ELSE 0]
    BY <1>14 DEF Start, threadVars
  <2>2. delivered' \in [Headers -> Int]
    BY <2>1
  <2>3. shutdown_requested_' \in BOOLEAN /\ running' \in BOOLEAN /\ saving' \in BOOLEAN
    BY <2>1 DEF HostOK
  <2> QED
    BY <2>1, <2>2, <2>3 DEF HostOK
<1>15. CASE ClockTick
  BY <1>15 DEF ClockTick, HostOK, chainVars, threadVars, hostVars
<1>16. CASE UNCHANGED vars
  BY <1>16 DEF vars, HostOK, chainVars, threadVars, hostVars
<1> QED
  BY <1>2, <1>3, <1>4, <1>5, <1>6, <1>7, <1>9, <1>10, <1>12, <1>13, <1>14, <1>15, <1>16
     DEF Next

LEMMA InitTypes == Init => EventsOK /\ HostOK
<1> SUFFICES ASSUME Init PROVE EventsOK /\ HostOK
  OBVIOUS
<1>1. EventsOK
  BY EmptySeq DEF Init, EventsOK
<1>2. NoFile \in [state : {"absent", "torn", "saved"}, index : SUBSET Headers,
                  status : [Headers -> SUBSET FailedFlags]]
  BY DEF NoFile
<1>3. HostOK
  <2>1. /\ template = NoTemplate /\ published = {} /\ cascaded = {} /\ disk = NoFile
        /\ shutdown_requested_ = FALSE /\ running = TRUE /\ saving = FALSE
        /\ invalidations = 0 /\ restarts = 0
        /\ delivered = [h \in Headers |-> IF h = Genesis THEN 1 ELSE 0]
    BY DEF Init
  <2>2. delivered \in [Headers -> Int]
    BY <2>1
  <2>3. shutdown_requested_ \in BOOLEAN /\ running \in BOOLEAN /\ saving \in BOOLEAN
    BY <2>1
  <2> QED
    BY <1>2, <2>1, <2>2, <2>3 DEF HostOK
<1> QED
  BY <1>1, <1>3

\* Every variable of Chainstate keeps its type, the candidates and the headers
\* taken from the orphan pool are indexed, and a thread has events to deliver
\* exactly while it is delivering them.
THEOREM TypeCorrect == Spec => []TypeOK
<1>1. ChainInv /\ EventsOK /\ HostOK /\ PoolInv => TypeOK
  <2> SUFFICES ASSUME ChainInv, EventsOK, HostOK, PoolInv PROVE TypeOK
    OBVIOUS
  <2>1. PoolTypeOK
    BY DEF PoolInv, Consistent, PoolTypeOK, Orphans
  <2>2. vChain \in Seq(Headers) /\ vChain # <<>>
    BY TipFacts, PathFacts, EmptySeq DEF ChainInv
  <2>3. EventSet = [type : EventTypes, header : Headers]
    BY DEF EventSet
  <2> QED
    BY <2>1, <2>2, <2>3 DEF TypeOK, ChainInv, TreeOK, ThreadsOK, EventsOK, HostOK
<1>2. Spec => []PoolInv
  BY PoolRefined, PoolInvariant, PTL DEF ImplementsOrphanPool
<1>3. Spec => [](EventsOK /\ HostOK)
  BY InitTypes, EventsStep, HostStep, ChainInvariant, PTL DEF Spec
<1> QED
  BY <1>1, <1>2, <1>3, ChainInvariant, PTL

-----------------------------------------------------------------------------
(* BestChain *)

\* The file was written by this process or by one it was loaded from: it
\* never says more than the index does.
DiskBehind ==
  disk.state = "saved" =>
    /\ disk.index \subseteq m_block_index
    /\ \A h \in disk.index : disk.status[h] # {} => nStatus[h] # {}

-----------------------------------------------------------------------------
\* Load refuses no file that Save wrote.
LEMMA SavedIsLoadable ==
  ASSUME ChainInv, disk.state = "saved"
  PROVE  Loadable(disk)
<1>1. TreeOK(disk.index, disk.status)
  BY DEF ChainInv
<1>2. ASSUME NEW h \in disk.index \ {Genesis} PROVE pprev(h) \in disk.index
  <2>1. h \in Headers /\ h # Genesis
    BY <1>1 DEF TreeOK
  <2>2. Len(PathTo[h]) \in Nat /\ Len(PathTo[h]) > 1
        /\ pprev(h) = PathTo[h][Len(PathTo[h]) - 1]
    BY <2>1, ParentFacts, PathFacts
  <2>3. Len(PathTo[h]) - 1 \in 1..Len(PathTo[h])
    BY <2>2
  <2> QED
    BY <1>1, <2>2, <2>3 DEF TreeOK
<1> QED
  BY <1>1, <1>2 DEF Loadable, ParentsFound, TreeOK

LEMMA DiskBehindStep == ChainInv /\ DiskBehind /\ [Next]_vars => DiskBehind'
<1> SUFFICES ASSUME ChainInv, DiskBehind, [Next]_vars PROVE DiskBehind'
  OBVIOUS
<1>1. ASSUME m_block_index \subseteq m_block_index', disk' = disk,
             \A h \in m_block_index : nStatus[h] # {} => nStatus'[h] # {}
      PROVE  DiskBehind'
  BY <1>1 DEF DiskBehind
<1>2. ASSUME disk' = SavedFile, UNCHANGED <<m_block_index, nStatus>>
      PROVE  DiskBehind'
  BY <1>2 DEF DiskBehind, SavedFile
<1>3. CASE \E h \in Headers, p \in Peers : HandleHeader(h, p)
  <2>1. PICK h \in Headers, p \in Peers : HandleHeader(h, p)
    BY <1>3
  <2>2. PICK bad : AcceptBlockHeader(h, bad)
    BY <2>1 DEF HandleHeader
  <2>3. m_block_index \subseteq m_block_index' /\ nStatus' = nStatus
    BY <2>2, AcceptStep DEF AcceptBlockHeader
  <2> QED
    BY <1>1, <2>1, <2>3 DEF HandleHeader, hostVars
<1>4. CASE \E h \in MinedHeaders : MineBlock(h)
  <2>1. PICK h \in MinedHeaders : MineBlock(h)
    BY <1>4
  <2>2. AcceptBlockHeader(h, BadHeaders) /\ h \in Headers
    BY <2>1, ChainstateAssumption DEF MineBlock
  <2>3. m_block_index \subseteq m_block_index' /\ nStatus' = nStatus
    BY <2>2, AcceptStep DEF AcceptBlockHeader
  <2> QED
    BY <1>1, <2>1, <2>3 DEF MineBlock, hostVars
<1>5. CASE \E h \in Headers : InvalidateBlock(h)
  <2>1. PICK h \in Headers : InvalidateBlock(h)
    BY <1>5
  <2>2. /\ m_block_index' = m_block_index /\ disk' = disk
        /\ nStatus' = StatusAfterInvalidate(h)
    BY <2>1 DEF InvalidateBlock, hostVars
  <2>3. \A b \in m_block_index : b \in Headers
    BY DEF ChainInv, TreeOK
  <2>4. \A b \in m_block_index : nStatus[b] # {} => StatusAfterInvalidate(h)[b] # {}
    BY <2>3 DEF StatusAfterInvalidate
  <2> QED
    BY <1>1, <2>2, <2>4
<1>6. CASE SaveBegin
  BY <1>6 DEF SaveBegin, DiskBehind, NoFile
<1>7. CASE SaveEnd
  BY <1>2, <1>7 DEF SaveEnd, chainVars
<1>8. CASE Shutdown
  BY <1>2, <1>8 DEF Shutdown, Stopped, chainVars
<1>9. CASE Start
  BY <1>9, SavedIsLoadable DEF Start, DiskBehind
<1>10. CASE \/ AddOrphanHeader \/ CreateBlockTemplate \/ RequestShutdown \/ ClockTick
            \/ Crash \/ UNCHANGED vars
  BY <1>1, <1>10 DEF AddOrphanHeader, CreateBlockTemplate, RequestShutdown, ClockTick, Crash,
       Stopped, vars, chainVars, hostVars
<1>11. CASE \E t \in Threads : ThreadStep(t)
  BY <1>1, <1>11 DEF ThreadStep, TryAddBlockIndexCandidate, ActivateBestChain, Dispatch,
       chainVars, hostVars
<1> QED
  BY <1>3, <1>4, <1>5, <1>6, <1>7, <1>8, <1>9, <1>10, <1>11 DEF Next

-----------------------------------------------------------------------------
(* The steps of BestChain *)

\* Both modules read the same tree.
LEMMA SameTree ==
  ASSUME NEW a, NEW b
  PROVE  /\ Promise!pprev(a) = pprev(a)
         /\ Promise!DescendsFrom(a, b) <=> DescendsFrom(a, b)
BY DEF Promise!pprev, pprev, Promise!DescendsFrom, DescendsFrom, Promise!nHeight, nHeight,
       Promise!GetAncestor, GetAncestor

\* AcceptBlockHeader learns headers.
LEMMA AcceptLearns ==
  ASSUME ChainInv, running, running' = running,
         NEW h \in Headers, NEW bad, AcceptBlockHeader(h, bad)
  PROVE  Promise!Learn
<1>1. /\ TreeOK(m_block_index', nStatus') /\ m_block_index \subseteq m_block_index'
      /\ \A g \in m_block_index' \ m_block_index : \A i \in 1..Len(PathTo[g]) :
           PathTo[g][i] \in m_block_index' /\ nStatus[PathTo[g][i]] = {}
  BY AcceptKeepsTree DEF ChainInv
<1>2. nStatus' = nStatus /\ vChain' = vChain
  BY DEF AcceptBlockHeader
<1>3. Tip' = Tip
  BY <1>2 DEF Tip
<1>4. m_block_index' \subseteq Headers
  BY <1>1 DEF TreeOK
<1>5. ASSUME NEW g \in m_block_index' \ m_block_index
      PROVE  /\ nStatus[g] = {}
             /\ pprev(g) \in m_block_index' /\ nStatus[pprev(g)] = {}
  <2>1. g \in Headers /\ g # Genesis
    BY <1>4 DEF ChainInv, TreeOK
  <2> DEFINE k == Len(PathTo[g]) - 1
             n == Len(PathTo[g])
  <2>2. n \in Nat /\ n > 1 /\ PathTo[g][n] = g /\ pprev(g) = PathTo[g][k] /\ k = n - 1
    BY <2>1, PathFacts, ParentFacts
  <2> HIDE DEF n, k
  <2>3. n \in 1..n /\ k \in 1..n
    BY <2>2
  <2> QED
    BY <1>1, <2>2, <2>3 DEF n
<1>6. {b \in m_block_index' : nStatus'[b] # {}} = {b \in m_block_index : nStatus[b] # {}}
  BY <1>1, <1>2, <1>5
<1> QED
  BY <1>1, <1>3, <1>4, <1>5, <1>6, SameTree DEF Promise!Learn, Failed

LEMMA ActivateSwitches ==
  ASSUME ChainInv, NEW t \in Threads, ActivateBestChain(t)
  PROVE  [Promise!Next]_(Promise!vars)
<1>1. /\ m_block_index' = m_block_index /\ nStatus' = nStatus
      /\ running /\ running' = running
  BY DEF ActivateBestChain, Unlocked, hostVars
<1>2. {b \in m_block_index' : nStatus'[b] # {}} = {b \in m_block_index : nStatus[b] # {}}
  BY <1>1
<1>3. CASE NewTips = {}
  <2>1. Tip' = Tip
    BY <1>3 DEF ActivateBestChain, Tip
  <2> QED
    BY <1>1, <1>2, <2>1 DEF Promise!vars, Failed
<1>4. CASE NewTips # {}
  <2>1. PICK h \in NewTips : vChain' = ChainTo(h)
    BY <1>4 DEF ActivateBestChain
  <2>2. m_candidates \subseteq Headers
    BY DEF ChainInv, TreeOK
  <2>3. h \in m_block_index /\ h \in Headers /\ nStatus[h] = {}
    BY <2>2, NewTipsValid DEF ChainInv
  <2>4. vChain' = PathTo[h]
    BY <2>1, <2>3, TipFacts, SetTipIsPath DEF ChainInv, ChainTo
  <2>5. Tip' = h
    BY <2>3, <2>4, PathFacts DEF Tip
  <2>6. nChainWork[h] > nChainWork[Tip]
    BY DEF NewTips
  <2>7. Promise!Switch
    BY <1>1, <1>2, <2>3, <2>5, <2>6 DEF Promise!Switch, Failed
  <2> QED
    BY <2>7 DEF Promise!Next
<1> QED
  BY <1>3, <1>4

LEMMA InvalidateCondemns ==
  ASSUME ChainInv, NEW h \in Headers, InvalidateBlock(h)
  PROVE  Promise!Condemn(h)
<1> DEFINE newTip == IF Contains(vChain, h) THEN pprev(h) ELSE Tip
<1>1. h \in m_block_index \ {Genesis} /\ running
  BY DEF InvalidateBlock, Unlocked
<1>2. /\ m_block_index' = m_block_index /\ running' = running
      /\ vChain' = ChainTo(newTip) /\ nStatus' = StatusAfterInvalidate(h)
  BY DEF InvalidateBlock, hostVars
<1>3. Tip \in Headers /\ vChain = PathTo[Tip]
  BY TipFacts DEF ChainInv
<1>4. newTip \in Headers
  BY <1>1, InvalidateTip DEF ChainInv, TreeOK
<1>5. newTip = IF DescendsFrom(Tip, h) THEN pprev(h) ELSE Tip
  BY <1>3, ContainsIsDescent
<1> HIDE DEF newTip
<1>6. vChain' = PathTo[newTip]
  BY <1>2, <1>3, <1>4, SetTipIsPath DEF ChainTo
<1>7. Tip' = newTip
  BY <1>4, <1>6, PathFacts DEF Tip
<1>8. DescendsFrom(h, h)
  BY PathFacts DEF DescendsFrom, GetAncestor
<1>9. \A b \in m_block_index : b \in Headers
  BY DEF ChainInv, TreeOK
<1>10. \A b \in m_block_index :
         StatusAfterInvalidate(h)[b] # {} <=> nStatus[b] # {} \/ DescendsFrom(b, h)
  BY <1>8, <1>9 DEF StatusAfterInvalidate
<1>11. {b \in m_block_index' : nStatus'[b] # {}}
         = {b \in m_block_index : nStatus[b] # {}} \cup {b \in m_block_index : DescendsFrom(b, h)}
  BY <1>2, <1>10
<1> QED
  BY <1>1, <1>2, <1>5, <1>7, <1>11, SameTree DEF Promise!Condemn, Failed

LEMMA StartRecovers ==
  ASSUME ChainInv, DiskBehind, Start
  PROVE  Promise!Recover
<1>1. ~running /\ running' = TRUE
  BY DEF Start
<1>2. CASE Loadable(disk)
  <2>1. m_block_index' = disk.index /\ nStatus' = disk.status
    BY <1>2 DEF Start
  <2>2. PICK h \in BestLoaded(disk) : vChain' = SetTip(<<>>, h)
    BY <1>2 DEF Start
  <2>3. TreeOK(disk.index, disk.status)
    BY <1>2 DEF ChainInv, Loadable
  <2>4. h \in disk.index /\ disk.status[h] = {} /\ h \in Headers
    BY <2>3 DEF BestLoaded, TreeOK
  <2>5. Tip' = h
    BY <2>2, <2>4, SetTipFromEmpty, PathFacts DEF Tip
  <2>6. \A g \in disk.index : disk.status[g] = {} => nChainWork[g] <= nChainWork[h]
    <3> SUFFICES ASSUME NEW g \in disk.index, disk.status[g] = {}
                 PROVE  nChainWork[g] <= nChainWork[h]
      OBVIOUS
    <3>1. nChainWork[g] < nChainWork[h] \/ nChainWork[g] = nChainWork[h]
      BY DEF BestLoaded
    <3>2. nChainWork[g] \in Nat /\ nChainWork[h] \in Nat
      BY <2>3, <2>4, TreeAssumption DEF TreeOK
    <3> QED
      BY <3>1, <3>2
  <2>7. disk.index \subseteq m_block_index
        /\ \A g \in disk.index : disk.status[g] # {} => nStatus[g] # {}
    BY <1>2 DEF DiskBehind, Loadable
  <2> QED
    BY <1>1, <2>1, <2>4, <2>5, <2>6, <2>7 DEF Promise!Recover, Failed
<1>3. CASE ~Loadable(disk)
  <2>1. /\ m_block_index' = {Genesis} /\ nStatus' = [h \in Headers |-> {}]
        /\ vChain' = <<Genesis>>
    BY <1>3 DEF Start
  <2>2. Tip' = Genesis
    BY <2>1 DEF Tip
  <2>3. Genesis \in m_block_index /\ nStatus'[Genesis] = {} /\ nChainWork[Genesis] \in Nat
    BY <2>1, TreeAssumption DEF ChainInv, TreeOK
  <2>4. {h \in m_block_index : Failed(h)}' = {}
    BY <2>1, <2>3 DEF Failed
  <2>5. m_block_index' \in SUBSET m_block_index
    BY <2>1, <2>3
  <2>6. \A h \in m_block_index' : nChainWork[h] <= nChainWork[Tip']
    BY <2>1, <2>2, <2>3
  <2> QED
    BY <1>1, <2>1, <2>2, <2>4, <2>5, <2>6 DEF Promise!Recover
<1> QED
  BY <1>2, <1>3

LEMMA ImplementsStep ==
  ChainInv /\ DiskBehind /\ [Next]_vars => [Promise!Next]_(Promise!vars)
<1> SUFFICES ASSUME ChainInv, DiskBehind, [Next]_vars PROVE [Promise!Next]_(Promise!vars)
  OBVIOUS
<1>1. ASSUME UNCHANGED <<m_block_index, nStatus, vChain, running>>
      PROVE  UNCHANGED Promise!vars
  <2>1. Tip' = Tip
    BY <1>1 DEF Tip
  <2>2. {b \in m_block_index' : nStatus'[b] # {}} = {b \in m_block_index : nStatus[b] # {}}
    BY <1>1
  <2> QED
    BY <1>1, <2>1, <2>2 DEF Promise!vars, Failed
<1>2. CASE \E h \in Headers, p \in Peers : HandleHeader(h, p)
  <2>1. PICK h \in Headers, p \in Peers : HandleHeader(h, p)
    BY <1>2
  <2>2. PICK bad : AcceptBlockHeader(h, bad)
    BY <2>1 DEF HandleHeader
  <2>3. running /\ running' = running
    BY <2>1 DEF HandleHeader, Unlocked, hostVars
  <2> QED
    BY <2>2, <2>3, AcceptLearns DEF Promise!Next
<1>3. CASE \E h \in MinedHeaders : MineBlock(h)
  <2>1. PICK h \in MinedHeaders : MineBlock(h)
    BY <1>3
  <2>2. AcceptBlockHeader(h, BadHeaders) /\ h \in Headers /\ running /\ running' = running
    BY <2>1, ChainstateAssumption DEF MineBlock, Unlocked, hostVars
  <2> QED
    BY <2>2, AcceptLearns DEF Promise!Next
<1>4. CASE \E t \in Threads : ThreadStep(t)
  <2>1. PICK t \in Threads : ThreadStep(t)
    BY <1>4
  <2>2. CASE ActivateBestChain(t)
    BY <2>2, ActivateSwitches
  <2>3. CASE TryAddBlockIndexCandidate(t) \/ Dispatch(t)
    BY <1>1, <2>3 DEF TryAddBlockIndexCandidate, Dispatch, chainVars, hostVars
  <2> QED
    BY <2>1, <2>2, <2>3 DEF ThreadStep
<1>5. CASE \E h \in Headers : InvalidateBlock(h)
  BY <1>5, InvalidateCondemns DEF Promise!Next
<1>6. CASE Crash \/ Shutdown
  <2>1. Stopped /\ running
    BY <1>6 DEF Crash, Shutdown, Unlocked
  <2>2. UNCHANGED <<m_block_index, nStatus, vChain>> /\ running' = FALSE
    BY <2>1 DEF Stopped, chainVars
  <2>3. Tip' = Tip
    BY <2>2 DEF Tip
  <2>4. {b \in m_block_index' : nStatus'[b] # {}} = {b \in m_block_index : nStatus[b] # {}}
    BY <2>2
  <2>5. Promise!Stop
    BY <2>1, <2>2, <2>3, <2>4 DEF Promise!Stop, Failed
  <2> QED
    BY <2>5 DEF Promise!Next
<1>7. CASE Start
  BY <1>7, StartRecovers DEF Promise!Next
<1>8. CASE \/ AddOrphanHeader \/ CreateBlockTemplate \/ SaveBegin \/ SaveEnd
           \/ RequestShutdown \/ ClockTick \/ UNCHANGED vars
  BY <1>1, <1>8 DEF AddOrphanHeader, CreateBlockTemplate, SaveBegin, SaveEnd,
       RequestShutdown, ClockTick, vars, chainVars, hostVars
<1> QED
  BY <1>2, <1>3, <1>4, <1>5, <1>6, <1>7, <1>8 DEF Next

\* Every behaviour of the chain state manager and the threads that drive it is
\* a behaviour of BestChain: known headers attach to valid ones, the tip moves
\* only to a valid header with more work or falls back below an invalidated
\* block, and a restart comes up at the heaviest valid header of the file.
THEOREM BestChainImplemented == Spec => ImplementsBestChain
<1>1. Init => Promise!Init
  <2> SUFFICES ASSUME Init PROVE Promise!Init
    OBVIOUS
  <2>1. /\ m_block_index = {Genesis} /\ running = TRUE /\ vChain = <<Genesis>>
        /\ nStatus = [h \in Headers |-> {}]
    BY DEF Init
  <2>2. Tip = Genesis
    BY <2>1 DEF Tip
  <2>3. {b \in m_block_index : nStatus[b] # {}} = {}
    BY <2>1, TreeAssumption
  <2> QED
    BY <2>1, <2>2, <2>3 DEF Promise!Init, Failed
<1>2. Init => DiskBehind
  BY DEF Init, DiskBehind, NoFile
<1>3. Spec => []DiskBehind
  BY <1>2, DiskBehindStep, ChainInvariant, PTL DEF Spec
<1> QED
  BY <1>1, <1>3, ImplementsStep, ChainInvariant, PTL DEF Spec, ImplementsBestChain, Promise!Spec

-----------------------------------------------------------------------------
(* Restart and reorg *)

\* Starting from the file the last process wrote as it shut down (Load's tip
\* selection) gives a chain of at least the old tip's work.
THEOREM RestartKeepsWork == Spec => CleanRestartKeepsWork
<1> DEFINE Keeps == Start /\ disk = SavedFile => nChainWork[Tip'] >= nChainWork[Tip]
<1>1. ASSUME ChainInv, Start, disk = SavedFile PROVE nChainWork[Tip'] >= nChainWork[Tip]
  <2>1. disk.state = "saved" /\ disk.index = m_block_index /\ disk.status = nStatus
    BY <1>1 DEF SavedFile
  <2>2. Loadable(disk) /\ TreeOK(disk.index, disk.status)
    BY <1>1, <2>1, SavedIsLoadable DEF ChainInv
  <2>3. PICK h \in BestLoaded(disk) : vChain' = SetTip(<<>>, h)
    BY <1>1, <2>2 DEF Start
  <2>4. h \in Headers
    BY <2>2 DEF BestLoaded, TreeOK
  <2>5. Tip' = h
    BY <2>3, <2>4, SetTipFromEmpty, PathFacts DEF Tip
  <2>6. Tip \in disk.index /\ disk.status[Tip] = {} /\ Tip \in Headers
    BY <1>1, <2>1, TipFacts DEF ChainInv
  <2>7. nChainWork[Tip] < nChainWork[h] \/ nChainWork[Tip] = nChainWork[h]
    BY <2>6 DEF BestLoaded
  <2>8. nChainWork[Tip] \in Nat /\ nChainWork[h] \in Nat
    BY <2>4, <2>6, TreeAssumption
  <2> QED
    BY <2>5, <2>7, <2>8
<1>2. ChainInv /\ [Next]_vars => [Keeps]_vars
  BY <1>1
<1> QED
  BY <1>2, ChainInvariant, PTL DEF Spec, CleanRestartKeepsWork

\* The path up to the fork belongs to both branches.
LEMMA ForkShared ==
  ASSUME NEW a \in Headers, NEW b \in Headers
  PROVE  LET f == LastCommonAncestor(a, b)
         IN  \A i \in 1..Len(PathTo[f]) :
               i \in 1..Len(PathTo[a]) /\ i \in 1..Len(PathTo[b]) /\ PathTo[a][i] = PathTo[b][i]
<1> DEFINE common == {i \in 1..Len(PathTo[a]) :
                        i <= Len(PathTo[b]) /\ PathTo[a][i] = PathTo[b][i]}
           k == CHOOSE i \in common : \A j \in common : j <= i
<1>1. Len(PathTo[a]) \in Nat /\ Len(PathTo[b]) \in Nat /\ 1 \in common
  <2>1. Len(PathTo[a]) \in Nat /\ Len(PathTo[a]) > 0
    BY PathFacts
  <2>2. Len(PathTo[b]) \in Nat /\ Len(PathTo[b]) > 0
    BY PathFacts
  <2>3. PathTo[a][1] = Genesis /\ PathTo[b][1] = Genesis
    BY TreeAssumption
  <2> QED
    BY <2>1, <2>2, <2>3
<1>2. \E i \in common : \A j \in common : j <= i
  <2>1. common \in SUBSET (1..Len(PathTo[a]))
    OBVIOUS
  <2> HIDE DEF common
  <2> QED
    BY <1>1, <2>1, Greatest
<1>3. k \in common
  BY <1>2
<1>5. LastCommonAncestor(a, b) = PathTo[a][k]
  BY DEF LastCommonAncestor
<1> HIDE DEF k
<1>4. k \in 1..Len(PathTo[a]) /\ k \in 1..Len(PathTo[b]) /\ PathTo[a][k] = PathTo[b][k]
  BY <1>1, <1>3
<1> HIDE DEF common
<1>6. /\ Len(PathTo[PathTo[a][k]]) = k
      /\ \A j \in 1..k : PathTo[PathTo[a][k]][j] = PathTo[a][j]
      /\ \A j \in 1..k : PathTo[PathTo[b][k]][j] = PathTo[b][j]
  BY <1>4, PathPrefix
<1>7. \A i \in 1..k : PathTo[a][i] = PathTo[b][i]
  BY <1>4, <1>6
<1>8. \A i \in 1..k : i \in 1..Len(PathTo[a]) /\ i \in 1..Len(PathTo[b])
  BY <1>1, <1>4
<1> QED
  BY <1>5, <1>6, <1>7, <1>8

\* The candidate ActivateBestChain stops at passed the policy guard, and no
\* other candidate that passed it has more work.
LEMMA NewTipsPass ==
  ASSUME m_candidates \subseteq Headers, NEW c \in NewTips
  PROVE  /\ ~PolicyRefused(c) /\ nChainWork[c] > nChainWork[Tip]
         /\ \A d \in m_candidates \ Discarded : nChainWork[d] <= nChainWork[c]
<1>1. c \in m_candidates \ Discarded
  BY DEF NewTips, MostWork
<1>2. PICK d \in m_candidates : /\ d = c \/ ComesBefore(d, c)
                                /\ ~Failed(d) /\ ~PolicyRefused(d)
  BY <1>1 DEF Discarded
<1>3. d \in m_candidates \ Discarded
  BY <1>2 DEF Discarded
<1>4. d = c \/ ComesBefore(c, d)
  BY <1>3 DEF NewTips, MostWork
<1>5. d = c
  BY <1>1, <1>2, <1>4, ComesBeforeAsymmetric
<1>6. nChainWork[c] > nChainWork[Tip]
  BY DEF NewTips
<1>7. ASSUME NEW e \in m_candidates \ Discarded PROVE nChainWork[e] <= nChainWork[c]
  <2>1. e = c \/ ComesBefore(c, e)
    BY DEF NewTips, MostWork
  <2>2. nChainWork[e] \in Nat /\ nChainWork[c] \in Nat
    BY <1>1, TreeAssumption
  <2> QED
    BY <2>1, <2>2 DEF ComesBefore
<1> QED
  BY <1>2, <1>5, <1>6, <1>7

\* A step that leaves the chain alone disconnects nothing.
LEMMA NothingDisconnected ==
  ASSUME ChainInv, vChain' = vChain
  PROVE  {i \in 1..Len(vChain) : ~Contains(vChain', vChain[i])} = {}
<1>1. Tip \in Headers /\ vChain = PathTo[Tip]
  BY TipFacts DEF ChainInv
<1>2. ASSUME NEW i \in 1..Len(vChain) PROVE Contains(vChain, vChain[i])
  BY <1>1, <1>2, OnPathDescends, PathFacts, ContainsIsDescent
<1> QED
  BY <1>2

\* ActivateBestChainStep disconnects exactly down to the fork, at most.
LEMMA ActivateDepth ==
  ASSUME ChainInv, NEW t \in Threads, ActivateBestChain(t), suspicious_reorg_depth_ > 0
  PROVE  Cardinality({i \in 1..Len(vChain) : ~Contains(vChain', vChain[i])})
           < suspicious_reorg_depth_
<1> DEFINE Gone == {i \in 1..Len(vChain) : ~Contains(vChain', vChain[i])}
<1>1. CASE NewTips = {}
  <2>1. vChain' = vChain
    BY <1>1 DEF ActivateBestChain
  <2> QED
    BY <2>1, NothingDisconnected, FS_EmptySet, ChainstateAssumption
<1>2. CASE NewTips # {}
  <2>1. PICK h \in NewTips : vChain' = ChainTo(h)
    BY <1>2 DEF ActivateBestChain
  <2>2. m_candidates \subseteq Headers /\ Tip \in Headers /\ vChain = PathTo[Tip]
    BY TipFacts DEF ChainInv, TreeOK
  <2>3. h \in Headers /\ ~PolicyRefused(h) /\ nChainWork[h] > nChainWork[Tip]
    BY <2>2, NewTipsValid, NewTipsPass
  <2>4. vChain' = PathTo[h]
    BY <2>1, <2>2, <2>3, SetTipIsPath DEF ChainTo
  <2> DEFINE f == LastCommonAncestor(Tip, h)
             m == Len(PathTo[f])
             n == Len(PathTo[Tip])
  <2>5. /\ f \in Headers
        /\ \A i \in 1..m : i \in 1..Len(PathTo[h]) /\ PathTo[Tip][i] = PathTo[h][i]
    BY <2>2, <2>3, ForkFacts, ForkShared
  <2>6. ~(nHeight(Tip) - nHeight(f) >= suspicious_reorg_depth_)
    BY <2>3 DEF PolicyRefused
  <2> HIDE DEF f
  <2>7. m \in Nat /\ n \in Nat /\ nHeight(Tip) = n - 1 /\ nHeight(f) = m - 1
    BY <2>2, <2>5, PathFacts
  <2>8. n - m < suspicious_reorg_depth_
    <3> HIDE DEF m, n
    <3>1. suspicious_reorg_depth_ \in Nat
      BY ChainstateAssumption
    <3>2. (n - 1) - (m - 1) = n - m
      BY <2>7
    <3> QED
      BY <2>6, <2>7, <3>1, <3>2
  <2>9. ASSUME NEW i \in 1..m PROVE Contains(PathTo[h], PathTo[Tip][i])
    <3>1. i \in 1..Len(PathTo[h]) /\ PathTo[Tip][i] = PathTo[h][i]
      BY <2>5
    <3> QED
      BY <2>3, <3>1, OnPathDescends, PathFacts, ContainsIsDescent
  <2> HIDE DEF m, n
  <2>10. Gone \subseteq (m + 1)..n
    <3>1. \A i \in 1..n : i \notin 1..m => i \in (m + 1)..n
      BY <2>7
    <3>2. \A i \in Gone : i \in 1..n /\ i \notin 1..m
      BY <2>2, <2>4, <2>9 DEF n
    <3> QED
      BY <3>1, <3>2
  <2>11. /\ IsFiniteSet((m + 1)..n)
         /\ Cardinality((m + 1)..n) = IF m + 1 > n THEN 0 ELSE n - (m + 1) + 1
    BY <2>7, FS_Interval
  <2>12. Cardinality(Gone) <= Cardinality((m + 1)..n) /\ Cardinality(Gone) \in Nat
    <3> HIDE DEF Gone
    <3> QED
      BY <2>10, <2>11, FS_Subset, FS_CardinalityType
  <2> HIDE DEF Gone
  <2>13. Cardinality(Gone) < suspicious_reorg_depth_
    BY <2>7, <2>8, <2>11, <2>12, ChainstateAssumption
  <2> QED
    BY <2>13 DEF Gone
<1> QED
  BY <1>1, <1>2

\* No step but invalidateblock and a start disconnects suspicious_reorg_depth_
\* blocks or more, whatever the candidates are (ActivateBestChainStep's guard
\* compares the depth of the fork of the very candidate it switches to).
THEOREM ReorgDepthAlwaysBounded == Spec => ReorgDepthBounded
<1> DEFINE Depth == Cardinality({i \in 1..Len(vChain) : ~Contains(vChain', vChain[i])})
           Bounded == invalidations' = invalidations /\ running /\ suspicious_reorg_depth_ > 0
                        => Depth < suspicious_reorg_depth_
<1>1. ASSUME ChainInv, TypeOK, [Next]_vars PROVE [Bounded]_vars
  <2>1. ASSUME vChain' = vChain PROVE Bounded
    BY <1>1, <2>1, NothingDisconnected, FS_EmptySet, ChainstateAssumption
  <2>2. CASE \E t \in Threads : ThreadStep(t)
    <3>1. PICK t \in Threads : ThreadStep(t)
      BY <2>2
    <3>2. CASE ActivateBestChain(t)
      BY <1>1, <3>2, ActivateDepth
    <3>3. CASE TryAddBlockIndexCandidate(t) \/ Dispatch(t)
      <4>1. vChain' = vChain
        BY <3>3 DEF TryAddBlockIndexCandidate, Dispatch, chainVars
      <4> QED
        BY <2>1, <4>1
    <3> QED
      BY <3>1, <3>2, <3>3 DEF ThreadStep
  <2>3. CASE \E h \in Headers : InvalidateBlock(h)
    <3>1. invalidations' = invalidations + 1 /\ invalidations \in Nat
      BY <1>1, <2>3 DEF InvalidateBlock, TypeOK
    <3> QED
      BY <3>1
  <2>4. CASE Start
    BY <2>4 DEF Start
  <2>5. CASE \/ \E h \in Headers, p \in Peers : HandleHeader(h, p)
             \/ \E h \in MinedHeaders : MineBlock(h)
    <3>1. vChain' = vChain
      BY <2>5 DEF HandleHeader, MineBlock, AcceptBlockHeader
    <3> QED
      BY <2>1, <3>1
  <2>6. CASE \/ AddOrphanHeader \/ CreateBlockTemplate \/ SaveBegin \/ SaveEnd \/ Crash
             \/ RequestShutdown \/ Shutdown \/ ClockTick \/ UNCHANGED vars
    <3>1. vChain' = vChain
      BY <2>6 DEF AddOrphanHeader, CreateBlockTemplate, SaveBegin, SaveEnd, Crash,
                  RequestShutdown, Shutdown, Stopped, ClockTick, vars, chainVars
    <3> QED
      BY <2>1, <3>1
  <2> QED
    BY <1>1, <2>2, <2>3, <2>4, <2>5, <2>6 DEF Next
<1> QED
  BY <1>1, ChainInvariant, TypeCorrect, PTL DEF Spec, ReorgDepthBounded

-----------------------------------------------------------------------------
(* The orphans wait *)

\* The headers in the pool and the one the network thread is about to add.
Waiting == Orphans \cup (IF pc["net"] = "orphan" THEN {cur["net"]} ELSE {})

\* A peer cannot have built on a header this node has mined and not announced.
Announced(h) ==
  \A i \in 1..Len(PathTo[h]) : PathTo[h][i] \in MinedHeaders => PathTo[h][i] \in published

\* OrphansWait also for the header between AcceptBlockHeader's lookup and
\* AddOrphanHeader; the miner, the only thread that can extend the index in
\* between, extends it by a header no waiting one descends from.
WaitInv ==
  \A o \in Waiting : o # Genesis /\ pprev(o) \notin m_block_index /\ Announced(o)

LEMMA AnnouncedKept ==
  ASSUME NEW h, Announced(h), published \subseteq published'
  PROVE  Announced(h)'
BY DEF Announced

\* Steps that add neither orphans nor index entries.
LEMMA WaitKept ==
  ASSUME WaitInv, Waiting' \subseteq Waiting, m_block_index' = m_block_index,
         published \subseteq published'
  PROVE  WaitInv'
BY AnnouncedKept DEF WaitInv

\* The child of a header that has just been resolved is resolved with it.
LEMMA ChildResolved ==
  ASSUME Orphans \subseteq Headers, NEW h \in Headers, NEW bad,
         NEW o \in Orphans, o # Genesis,
         pprev(o) = h \/ pprev(o) \in ResolvedBy(h, bad) \ bad
  PROVE  o \in ResolvedBy(h, bad)
<1> DEFINE p == pprev(o)
           n == Len(PathTo[o])
<1>1. /\ o \in Headers /\ p \in Headers /\ n \in Nat /\ n > 1 /\ p = PathTo[o][n - 1]
      /\ Len(PathTo[p]) = n - 1 /\ \A j \in 1..n - 1 : PathTo[p][j] = PathTo[o][j]
  <2>1. o \in Headers
    OBVIOUS
  <2> QED
    BY <2>1, ParentFacts, PathFacts
<1>2. nHeight(o) = n - 1 /\ nHeight(p) = n - 2 /\ n - 1 \in 1..n
  <2>1. nHeight(p) = (n - 1) - 1
    BY <1>1 DEF nHeight
  <2>2. nHeight(o) = n - 1
    BY DEF nHeight
  <2> HIDE DEF n
  <2> QED
    BY <1>1, <2>1, <2>2
<1>3. DescendsFrom(p, h)
  <2>1. DescendsFrom(h, h)
    BY PathFacts DEF DescendsFrom, GetAncestor
  <2> QED
    BY <2>1 DEF ResolvedBy
<1>4. DescendsFrom(o, h)
  <2>1. PathTo[o][n - 1] = p
    BY <1>1
  <2> QED
    BY <1>1, <1>2, <1>3, <2>1, DescendsTransitive
<1>5. nHeight(h) <= nHeight(p) /\ nHeight(h) \in Nat
  BY <1>3, PathFacts DEF DescendsFrom
<1>6. o # h
  BY <1>1, <1>2, <1>5
<1>7. ASSUME NEW k \in nHeight(h) + 1 .. nHeight(o) - 1
      PROVE  GetAncestor(o, k) \in Orphans \ bad
  <2>1. p # h
    BY <1>1, <1>2, <1>5, <1>7
  <2>2. p \in Orphans \ bad /\ p \in ResolvedBy(h, bad)
    BY <2>1 DEF ResolvedBy
  <2>3. CASE k = n - 2
    <3>1. k + 1 = n - 1
      BY <1>1, <2>3
    <3> QED
      BY <1>1, <2>2, <3>1 DEF GetAncestor
  <2>4. CASE k # n - 2
    <3>1. k \in nHeight(h) + 1 .. nHeight(p) - 1 /\ k + 1 \in 1..n - 1
      BY <1>1, <1>2, <1>5, <2>4
    <3>2. GetAncestor(p, k) \in Orphans \ bad
      BY <2>2, <3>1 DEF ResolvedBy
    <3> QED
      BY <1>1, <3>1, <3>2 DEF GetAncestor
  <2> QED
    BY <2>3, <2>4
<1> QED
  BY <1>4, <1>6, <1>7 DEF ResolvedBy

\* After AcceptBlockHeader no orphan that is left has an indexed parent.
LEMMA AcceptLeavesWaiting ==
  ASSUME ChainInv, WaitInv, NEW h \in Headers, NEW bad, AcceptBlockHeader(h, bad)
  PROVE  Orphans' \subseteq Orphans /\ \A o \in Orphans' : pprev(o) \notin m_block_index'
<1> DEFINE resolved == IF AcceptResult(h, bad) = "new" THEN ResolvedBy(h, bad) ELSE {}
<1>1. Orphans' = Orphans \ resolved
  BY DEF AcceptBlockHeader, ProcessOrphanHeaders, TakeOrphans, HeadersWithout, Orphans
<1>2. \A o \in Orphans : o # Genesis /\ pprev(o) \notin m_block_index
  BY DEF WaitInv, Waiting
<1>3. CASE AcceptResult(h, bad) # "new"
  <2>1. m_block_index' = m_block_index
    BY <1>3 DEF AcceptBlockHeader
  <2> QED
    BY <1>1, <1>2, <2>1
<1>4. CASE AcceptResult(h, bad) = "new"
  <2>1. m_block_index' = m_block_index \cup {h} \cup (ResolvedBy(h, bad) \ bad)
    BY <1>4 DEF AcceptBlockHeader, Indexed
  <2>2. Orphans \subseteq Headers
    BY DEF ChainInv
  <2>3. ASSUME NEW o \in Orphans, o \notin ResolvedBy(h, bad)
        PROVE  pprev(o) \notin m_block_index'
    BY <1>2, <2>1, <2>2, <2>3, ChildResolved
  <2> QED
    BY <1>1, <1>4, <2>3
<1> QED
  BY <1>3, <1>4

LEMMA HandleHeaderWaits ==
  ASSUME ChainInv, WaitInv, NEW h \in Headers, NEW p \in Peers, HandleHeader(h, p)
  PROVE  WaitInv'
<1>1. PICK early \in SUBSET EarlyHeaders :
        /\ AcceptBlockHeader(h, Bad(early))
        /\ \E next \in AfterAccept(h, AcceptResult(h, Bad(early))) :
             /\ pc' = [pc EXCEPT !["net"] = next]
             /\ cur' = [cur EXCEPT !["net"] = IF next = "idle" THEN Genesis ELSE h]
  BY DEF HandleHeader
<1>2. PICK next \in AfterAccept(h, AcceptResult(h, Bad(early))) :
        /\ pc' = [pc EXCEPT !["net"] = next]
        /\ cur' = [cur EXCEPT !["net"] = IF next = "idle" THEN Genesis ELSE h]
  BY <1>1
<1>3. next = "orphan" => AcceptResult(h, Bad(early)) = "prev-blk-not-found"
  BY <1>2 DEF AfterAccept
<1>4. Orphans' \subseteq Orphans /\ \A o \in Orphans' : pprev(o) \notin m_block_index'
  BY <1>1, AcceptLeavesWaiting
<1>5. published' = published /\ Announced(h)
  BY DEF HandleHeader, NextInMessage, Announced
<1>6. pc'["net"] = next /\ (next = "orphan" => cur'["net"] = h)
  BY <1>2 DEF ChainInv, ThreadsOK, Threads
<1>7. ASSUME next = "orphan" PROVE h # Genesis /\ pprev(h) \notin m_block_index'
  <2>1. AcceptResult(h, Bad(early)) = "prev-blk-not-found"
    BY <1>3, <1>7
  <2>2. m_block_index' = m_block_index
    BY <1>1, <2>1 DEF AcceptBlockHeader
  <2>3. h \notin m_block_index /\ pprev(h) \notin m_block_index
    BY <2>1 DEF AcceptResult
  <2> QED
    BY <2>2, <2>3 DEF ChainInv, TreeOK
<1>8. ASSUME NEW o \in Waiting'
      PROVE  o # Genesis /\ pprev(o) \notin m_block_index' /\ Announced(o)
  <2>1. o \in Orphans' \/ (next = "orphan" /\ o = h)
    BY <1>6, <1>8 DEF Waiting
  <2>2. CASE o \in Orphans'
    BY <1>4, <2>2 DEF WaitInv, Waiting
  <2>3. CASE next = "orphan" /\ o = h
    BY <1>5, <1>7, <2>3
  <2> QED
    BY <2>1, <2>2, <2>3
<1> QED
  BY <1>5, <1>8, AnnouncedKept DEF WaitInv

\* What the miner finds is above no waiting header: it is not announced yet.
LEMMA MineBlockWaits ==
  ASSUME ChainInv, WaitInv, NEW h \in MinedHeaders, MineBlock(h)
  PROVE  WaitInv'
<1>1. h \in Headers /\ AcceptBlockHeader(h, BadHeaders) /\ h \notin published
      /\ published' = published
  BY ChainstateAssumption DEF MineBlock
<1>2. Orphans' \subseteq Orphans
  BY <1>1, AcceptLeavesWaiting
<1>3. pc'["net"] = pc["net"] /\ cur'["net"] = cur["net"]
  BY DEF MineBlock, ChainInv, ThreadsOK, Threads
<1>4. Waiting' \subseteq Waiting
  BY <1>2, <1>3 DEF Waiting
<1>5. Waiting \subseteq Headers
  BY DEF Waiting, ChainInv, ThreadsOK, Threads
<1>6. ASSUME NEW o \in Waiting PROVE ~DescendsFrom(o, h)
  <2> SUFFICES ASSUME DescendsFrom(o, h) PROVE FALSE
    OBVIOUS
  <2> DEFINE k == Len(PathTo[h])
  <2>1. k <= Len(PathTo[o]) /\ PathTo[o][k] = h
    BY <1>1, <1>5, DescendantPath
  <2>2. k \in Nat /\ k > 0 /\ Len(PathTo[o]) \in Nat
    BY <1>1, <1>5, PathFacts
  <2> HIDE DEF k
  <2>3. k \in 1..Len(PathTo[o])
    BY <2>1, <2>2
  <2> QED
    BY <1>1, <2>1, <2>3 DEF WaitInv, Announced
<1>7. m_block_index' \subseteq m_block_index \cup {h}
  <2>1. ResolvedBy(h, BadHeaders) = {}
    BY <1>6 DEF ResolvedBy, Waiting
  <2> QED
    BY <1>1, <2>1 DEF AcceptBlockHeader, Indexed
<1>8. ASSUME NEW o \in Waiting, o # Genesis PROVE pprev(o) # h
  <2> DEFINE k == Len(PathTo[o]) - 1
  <2>1. o \in Headers
    BY <1>5
  <2>2. Len(PathTo[o]) \in Nat /\ Len(PathTo[o]) > 1 /\ pprev(o) = PathTo[o][k]
    BY <1>8, <2>1, ParentFacts, PathFacts
  <2>3. k \in 1..Len(PathTo[o])
    BY <2>2
  <2> HIDE DEF k
  <2> QED
    BY <1>6, <2>1, <2>2, <2>3, OnPathDescends
<1> QED
  BY <1>1, <1>4, <1>7, <1>8, AnnouncedKept DEF WaitInv

LEMMA WaitStep == ChainInv /\ WaitInv /\ [Next]_vars => WaitInv'
<1> SUFFICES ASSUME ChainInv, WaitInv, [Next]_vars PROVE WaitInv'
  OBVIOUS
<1>1. CASE \E h \in Headers, p \in Peers : HandleHeader(h, p)
  BY <1>1, HandleHeaderWaits
<1>2. CASE \E h \in MinedHeaders : MineBlock(h)
  BY <1>2, MineBlockWaits
<1>3. CASE AddOrphanHeader
  <2>1. TryAddOrphanHeader(cur["net"], netPeer) /\ pc["net"] = "orphan"
    BY <1>3 DEF AddOrphanHeader
  <2>2. Orphans' \subseteq Orphans \cup {cur["net"]}
    BY <2>1 DEF TryAddOrphanHeader, Orphans, HeadersWithout
  <2>3. pc'["net"] # "orphan"
    BY <1>3 DEF AddOrphanHeader, ChainInv, ThreadsOK, Threads
  <2>4. Waiting' \subseteq Waiting
    BY <2>1, <2>2, <2>3 DEF Waiting
  <2> QED
    BY <1>3, <2>4, WaitKept DEF AddOrphanHeader, chainVars
<1>4. CASE \E t \in Threads : ThreadStep(t)
  <2>1. PICK t \in Threads : ThreadStep(t)
    BY <1>4
  <2>2. /\ m_orphan_headers' = m_orphan_headers /\ m_block_index' = m_block_index
        /\ published \subseteq published'
        /\ pc[t] \in {"accepted", "added", "dispatch"}
        /\ \E s \in {"added", "idle", "dispatch"} : pc' = [pc EXCEPT ![t] = s]
        /\ cur' = cur \/ cur' = [cur EXCEPT ![t] = Genesis]
    BY <2>1 DEF ThreadStep, TryAddBlockIndexCandidate, ActivateBestChain, Dispatch,
                poolVars, chainVars
  <2>3. pc'["net"] = "orphan" => pc["net"] = "orphan" /\ cur'["net"] = cur["net"]
    BY <2>2 DEF ChainInv, ThreadsOK, Threads
  <2>4. Waiting' \subseteq Waiting
    BY <2>2, <2>3 DEF Waiting, Orphans
  <2> QED
    BY <2>2, <2>4, WaitKept
<1>5. CASE \E h \in Headers : InvalidateBlock(h)
  <2>1. /\ m_orphan_headers' = m_orphan_headers /\ m_block_index' = m_block_index
        /\ published' = published /\ cur' = cur
        /\ \E s \in {"idle", "dispatch"} : pc' = [pc EXCEPT !["rpc"] = s]
    BY <1>5 DEF InvalidateBlock, poolVars
  <2>2. pc'["net"] = pc["net"]
    BY <2>1 DEF ChainInv, ThreadsOK, Threads
  <2>3. Waiting' = Waiting
    BY <2>1, <2>2 DEF Waiting, Orphans
  <2> QED
    BY <2>1, <2>3, WaitKept
<1>6. CASE Crash \/ Shutdown
  <2>1. /\ m_orphan_headers' = m_orphan_headers /\ m_block_index' = m_block_index
        /\ published' = published /\ pc' = [t \in Threads |-> "idle"]
    BY <1>6 DEF Crash, Shutdown, Stopped, poolVars, chainVars
  <2>2. Waiting' \subseteq Waiting
    BY <2>1 DEF Waiting, Orphans, Threads
  <2> QED
    BY <2>1, <2>2, WaitKept
<1>7. CASE Start
  <2>1. m_orphan_headers' = <<>> /\ pc' = pc /\ pc["net"] = "idle"
    BY <1>7 DEF Start, threadVars, ChainInv, ThreadsOK, Threads
  <2>2. Waiting' = {}
    BY <2>1 DEF Waiting, Orphans
  <2> QED
    BY <2>2 DEF WaitInv
<1>8. CASE \/ CreateBlockTemplate \/ SaveBegin \/ SaveEnd \/ RequestShutdown \/ ClockTick
           \/ UNCHANGED vars
  <2>1. /\ m_orphan_headers' = m_orphan_headers /\ m_block_index' = m_block_index
        /\ published' = published /\ pc' = pc /\ cur' = cur
    BY <1>8 DEF CreateBlockTemplate, SaveBegin, SaveEnd, RequestShutdown, ClockTick, Tick,
                vars, poolVars, chainVars, threadVars
  <2>2. Waiting' = Waiting
    BY <2>1 DEF Waiting, Orphans
  <2> QED
    BY <2>1, <2>2, WaitKept
<1> QED
  BY <1>1, <1>2, <1>3, <1>4, <1>5, <1>6, <1>7, <1>8 DEF Next

\* No orphan sits in the pool whose parent is indexed, whichever thread
\* extended the index between AcceptBlockHeader's lookup and AddOrphanHeader:
\* ProcessOrphanHeaders reaches everything that a new header makes acceptable.
THEOREM OrphansAlwaysWait == Spec => []OrphansWait
<1>1. Init => WaitInv
  <2> SUFFICES ASSUME Init PROVE Waiting = {}
    BY DEF WaitInv
  <2> QED
    BY DEF Init, PoolInit, Waiting, Orphans, Threads
<1>2. WaitInv => OrphansWait
  BY DEF WaitInv, Waiting, OrphansWait
<1> QED
  BY <1>1, <1>2, WaitStep, ChainInvariant, PTL DEF Spec

-----------------------------------------------------------------------------
(* No heavier leaf is forgotten *)

\* Why a header of the index needs no attention.
Settled(h) ==
  \/ Failed(h) \/ HasChildren(m_block_index, h)
  \/ nChainWork[h] <= nChainWork[Tip]
  \/ h \in m_candidates
  \/ \E t \in Threads : pc[t] = "accepted" /\ cur[t] = h
  \/ shutdown_requested_
  \/ h \in cascaded

\* A step in which the tip, the flags and the candidates stay and no thread
\* gives up a header it accepted leaves every known header settled.
LEMMA SettledKept ==
  ASSUME NEW h, Settled(h), m_block_index \subseteq m_block_index',
         UNCHANGED <<nStatus, vChain, m_candidates>>,
         shutdown_requested_ => shutdown_requested_', cascaded \subseteq cascaded',
         \A t \in Threads : pc[t] = "accepted" => pc'[t] = "accepted" /\ cur'[t] = cur[t]
  PROVE  Settled(h)'
BY DEF Settled, Failed, HasChildren, Tip

\* AcceptBlockHeader: what is new is in the caller's hands or came out of the
\* orphan pool.
LEMMA AcceptSettles ==
  ASSUME ChainInv, \A g \in m_block_index : Settled(g),
         NEW h \in Headers, NEW bad, AcceptBlockHeader(h, bad), NEW t \in Threads,
         pc[t] # "accepted", NEW s, pc' = [pc EXCEPT ![t] = s],
         AcceptResult(h, bad) = "new" => s = "accepted" /\ cur' = [cur EXCEPT ![t] = h],
         \A u \in Threads \ {t} : cur'[u] = cur[u]
  PROVE  \A g \in m_block_index' : Settled(g)'
<1>1. /\ UNCHANGED <<nStatus, vChain, m_candidates>>
      /\ shutdown_requested_ => shutdown_requested_'
      /\ cascaded \subseteq cascaded'
  BY DEF AcceptBlockHeader
<1>2. m_block_index \subseteq m_block_index'
  BY AcceptStep
<1>3. \A u \in Threads : pc[u] = "accepted" => pc'[u] = "accepted" /\ cur'[u] = cur[u]
  BY DEF ChainInv, ThreadsOK
<1>4. ASSUME NEW g \in m_block_index PROVE Settled(g)'
  BY <1>1, <1>2, <1>3, SettledKept
<1>5. ASSUME NEW g \in m_block_index' \ m_block_index PROVE Settled(g)'
  <2>1. AcceptResult(h, bad) = "new"
    BY DEF AcceptBlockHeader
  <2>2. g = h \/ g \in ResolvedBy(h, bad) \ bad
    BY <1>5, <2>1 DEF AcceptBlockHeader, Indexed
  <2>3. CASE g = h
    <3>1. pc'[t] = "accepted" /\ cur'[t] = g
      BY <2>1, <2>3 DEF ChainInv, ThreadsOK
    <3> QED
      BY <3>1 DEF Settled
  <2>4. CASE g \in ResolvedBy(h, bad) \ bad
    <3>1. g \in cascaded'
      BY <2>1, <2>4 DEF AcceptBlockHeader
    <3> QED
      BY <3>1 DEF Settled
  <2> QED
    BY <2>2, <2>3, <2>4
<1> QED
  BY <1>4, <1>5

LEMMA TryAddSettles ==
  ASSUME ChainInv, \A g \in m_block_index : Settled(g),
         NEW t \in Threads, TryAddBlockIndexCandidate(t), NEW g \in m_block_index
  PROVE  Settled(g)'
<1>1. /\ UNCHANGED <<m_block_index, nStatus, vChain, cur, shutdown_requested_, cascaded>>
      /\ pc[t] = "accepted" /\ pc' = [pc EXCEPT ![t] = "added"]
      /\ m_candidates' = WithCandidate(cur[t])
  BY DEF TryAddBlockIndexCandidate
<1>2. /\ Failed(g)' <=> Failed(g)
      /\ HasChildren(m_block_index, g)' <=> HasChildren(m_block_index, g)
      /\ Tip' = Tip
  BY <1>1 DEF Failed, HasChildren, Tip
<1>3. CASE g \in m_candidates
  <2>1. g \in m_candidates' \/ IsParent(g, cur[t])
    BY <1>1, <1>3 DEF WithCandidate
  <2>2. cur[t] \in m_block_index
    BY <1>1 DEF ChainInv, ThreadsOK
  <2>3. IsParent(g, cur[t]) => HasChildren(m_block_index, g)
    BY <2>2 DEF HasChildren
  <2> QED
    BY <1>2, <2>1, <2>3 DEF Settled
<1>4. CASE \E u \in Threads : pc[u] = "accepted" /\ cur[u] = g
  <2>1. PICK u \in Threads : pc[u] = "accepted" /\ cur[u] = g
    BY <1>4
  <2>2. CASE u = t
    <3>1. Failed(g) \/ HasChildren(m_block_index, g) \/ g \in m_candidates'
      BY <1>1, <2>1, <2>2 DEF WithCandidate
    <3> QED
      BY <1>2, <3>1 DEF Settled
  <2>3. CASE u # t
    <3>1. pc'[u] = "accepted" /\ cur'[u] = g
      BY <1>1, <2>1, <2>3 DEF ChainInv, ThreadsOK
    <3> QED
      BY <3>1 DEF Settled
  <2> QED
    BY <2>2, <2>3
<1>5. CASE \/ Failed(g) \/ HasChildren(m_block_index, g) \/ nChainWork[g] <= nChainWork[Tip]
           \/ shutdown_requested_ \/ g \in cascaded
  BY <1>1, <1>2, <1>5 DEF Settled
<1>6. Settled(g)
  OBVIOUS
<1> QED
  BY <1>3, <1>4, <1>5, <1>6 DEF Settled

\* A candidate leaves the set because it failed, was refused (and the node
\* shuts down), or has at most the work of the chain that is now active.
LEMMA ActivateSettles ==
  ASSUME ChainInv, \A g \in m_block_index : Settled(g),
         NEW t \in Threads, ActivateBestChain(t), NEW g \in m_block_index
  PROVE  Settled(g)'
<1>1. /\ UNCHANGED <<m_block_index, nStatus, cascaded>> /\ pc[t] = "added"
      /\ cur' = [cur EXCEPT ![t] = Genesis]
      /\ \E s \in {"idle", "dispatch"} : pc' = [pc EXCEPT ![t] = s]
      /\ shutdown_requested_' = (shutdown_requested_ \/ \E c \in Discarded : ~Failed(c))
  BY DEF ActivateBestChain
<1>2. /\ Failed(g)' <=> Failed(g)
      /\ HasChildren(m_block_index, g)' <=> HasChildren(m_block_index, g)
  BY <1>1 DEF Failed, HasChildren
<1>3. \A u \in Threads : pc[u] = "accepted" => pc'[u] = "accepted" /\ cur'[u] = cur[u]
  BY <1>1 DEF ChainInv, ThreadsOK
<1>4. g \in Headers /\ Tip \in Headers /\ m_candidates \subseteq Headers
  BY TipFacts DEF ChainInv, TreeOK
<1>5. nChainWork[g] \in Nat /\ nChainWork[Tip] \in Nat
  BY <1>4, TreeAssumption
<1>6. CASE g \in Discarded
  BY <1>1, <1>2, <1>6 DEF Settled
<1>7. CASE NewTips = {} /\ g \notin Discarded
  <2>1. Tip' = Tip /\ m_candidates' = m_candidates \ Discarded
    BY <1>7 DEF ActivateBestChain, Tip
  <2> QED
    BY <1>1, <1>2, <1>3, <1>7, <2>1 DEF Settled
<1>8. CASE NewTips # {} /\ g \notin Discarded
  <2>1. PICK h \in NewTips : vChain' = ChainTo(h)
    BY <1>8 DEF ActivateBestChain
  <2>2. h \in m_candidates /\ nChainWork[h] > nChainWork[Tip]
        /\ \A d \in m_candidates \ Discarded : nChainWork[d] <= nChainWork[h]
    BY <1>4, NewTipsValid, NewTipsPass
  <2>3. h \in Headers /\ nChainWork[h] \in Nat
    BY <1>4, <2>2, TreeAssumption
  <2>4. vChain' = PathTo[h]
    BY <1>4, <2>1, <2>3, TipFacts, SetTipIsPath DEF ChainTo, ChainInv
  <2>5. Tip' = h
    BY <2>3, <2>4, PathFacts DEF Tip
  <2>6. nChainWork[g] <= nChainWork[Tip] => nChainWork[g] <= nChainWork[h]
    BY <1>5, <2>2, <2>3
  <2>7. g \in m_candidates => nChainWork[g] <= nChainWork[h]
    BY <1>8, <2>2
  <2> QED
    BY <1>1, <1>2, <1>3, <2>5, <2>6, <2>7 DEF Settled
<1> QED
  BY <1>6, <1>7, <1>8

\* InvalidateBlock makes every valid leaf that outweighs the new tip a
\* candidate again.
LEMMA InvalidateSettles ==
  ASSUME ChainInv, NEW h \in Headers, InvalidateBlock(h), NEW g \in m_block_index
  PROVE  Settled(g)'
<1> DEFINE newTip == IF Contains(vChain, h) THEN pprev(h) ELSE Tip
           status == StatusAfterInvalidate(h)
<1>1. /\ m_block_index' = m_block_index /\ vChain' = ChainTo(newTip) /\ nStatus' = status
      /\ {b \in m_block_index : /\ status[b] = {}
                                /\ nChainWork[b] >= nChainWork[newTip]
                                /\ ~HasChildren(m_block_index, b)} \subseteq m_candidates'
      /\ h \in m_block_index \ {Genesis}
  BY DEF InvalidateBlock
<1>2. newTip \in m_block_index
  BY <1>1, InvalidateTip DEF ChainInv
<1> HIDE DEF newTip, status
<1>3. newTip \in Headers /\ g \in Headers /\ Tip \in Headers /\ vChain = PathTo[Tip]
  BY <1>2, TipFacts DEF ChainInv, TreeOK
<1>4. nChainWork[g] \in Nat /\ nChainWork[newTip] \in Nat
  BY <1>3, TreeAssumption
<1>5. vChain' = PathTo[newTip]
  BY <1>1, <1>3, SetTipIsPath DEF ChainTo
<1>6. Tip' = newTip
  BY <1>3, <1>5, PathFacts DEF Tip
<1>7. nChainWork[g] >= nChainWork[newTip] \/ nChainWork[g] <= nChainWork[newTip]
  BY <1>4
<1> QED
  BY <1>1, <1>6, <1>7 DEF Settled, Failed, HasChildren

LEMMA StartSettles ==
  ASSUME Start, NEW g \in m_block_index'
  PROVE  Settled(g)'
<1>1. CASE Loadable(disk)
  <2>1. /\ m_block_index' = disk.index /\ nStatus' = disk.status
        /\ m_candidates' = LoadedCandidates(disk)
    BY <1>1 DEF Start
  <2> QED
    BY <2>1 DEF Settled, Failed, HasChildren, LoadedCandidates
<1>2. CASE ~Loadable(disk)
  <2>1. m_block_index' = {Genesis} /\ m_candidates' = {Genesis}
    BY <1>2 DEF Start
  <2> QED
    BY <2>1 DEF Settled
<1> QED
  BY <1>1, <1>2

LEMMA SettledStep ==
  ChainInv /\ HeavierLeavesAreCandidates /\ [Next]_vars => HeavierLeavesAreCandidates'
<1> SUFFICES ASSUME ChainInv, HeavierLeavesAreCandidates, [Next]_vars, running'
             PROVE  \A g \in m_block_index' : Settled(g)'
  BY DEF HeavierLeavesAreCandidates, Settled
<1>1. running => \A g \in m_block_index : Settled(g)
  BY DEF HeavierLeavesAreCandidates, Settled
<1>2. CASE \E h \in Headers, p \in Peers : HandleHeader(h, p)
  <2>1. PICK h \in Headers, p \in Peers : HandleHeader(h, p)
    BY <1>2
  <2>2. PICK early \in SUBSET EarlyHeaders :
          /\ AcceptBlockHeader(h, Bad(early))
          /\ \E next \in AfterAccept(h, AcceptResult(h, Bad(early))) :
               /\ pc' = [pc EXCEPT !["net"] = next]
               /\ cur' = [cur EXCEPT !["net"] = IF next = "idle" THEN Genesis ELSE h]
    BY <2>1 DEF HandleHeader
  <2>3. PICK next \in AfterAccept(h, AcceptResult(h, Bad(early))) :
          /\ pc' = [pc EXCEPT !["net"] = next]
          /\ cur' = [cur EXCEPT !["net"] = IF next = "idle" THEN Genesis ELSE h]
    BY <2>2
  <2>4. pc["net"] # "accepted" /\ running /\ "net" \in Threads
    BY <2>1 DEF HandleHeader, NextInMessage, Unlocked, Threads
  <2>5. AcceptResult(h, Bad(early)) = "new"
          => next = "accepted" /\ cur' = [cur EXCEPT !["net"] = h]
    BY <2>3 DEF AfterAccept
  <2>6. \A u \in Threads \ {"net"} : cur'[u] = cur[u]
    BY <2>3 DEF ChainInv, ThreadsOK
  <2> QED
    BY <1>1, <2>2, <2>3, <2>4, <2>5, <2>6, AcceptSettles
<1>3. CASE \E h \in MinedHeaders : MineBlock(h)
  <2>1. PICK h \in MinedHeaders : MineBlock(h)
    BY <1>3
  <2>2. /\ AcceptBlockHeader(h, BadHeaders) /\ h \in Headers /\ running
        /\ pc["miner"] = "idle" /\ "miner" \in Threads
    BY <2>1, ChainstateAssumption DEF MineBlock, Unlocked, Threads
  <2>3. CASE AcceptResult(h, BadHeaders) = "new"
    <3>1. pc' = [pc EXCEPT !["miner"] = "accepted"] /\ cur' = [cur EXCEPT !["miner"] = h]
      BY <2>1, <2>3 DEF MineBlock
    <3>2. \A u \in Threads \ {"miner"} : cur'[u] = cur[u]
      BY <3>1 DEF ChainInv, ThreadsOK
    <3> QED
      BY <1>1, <2>2, <3>1, <3>2, AcceptSettles
  <2>4. CASE AcceptResult(h, BadHeaders) # "new"
    <3>1. pc' = pc /\ cur' = cur
      BY <2>1, <2>4 DEF MineBlock
    <3>2. pc' = [pc EXCEPT !["miner"] = "idle"]
      BY <2>2, <3>1 DEF ChainInv, ThreadsOK
    <3> QED
      BY <1>1, <2>2, <2>4, <3>1, <3>2, AcceptSettles
  <2> QED
    BY <2>3, <2>4
<1>4. CASE \E t \in Threads : ThreadStep(t)
  <2>1. PICK t \in Threads : ThreadStep(t)
    BY <1>4
  <2>2. m_block_index' = m_block_index /\ running
    BY <2>1 DEF ThreadStep, TryAddBlockIndexCandidate, ActivateBestChain, Dispatch,
                chainVars, Unlocked
  <2>3. CASE Dispatch(t)
    <3>1. /\ UNCHANGED <<nStatus, vChain, m_candidates, shutdown_requested_, cascaded, cur>>
          /\ pc[t] = "dispatch" /\ \E s \in {"idle", "dispatch"} : pc' = [pc EXCEPT ![t] = s]
      BY <2>3 DEF Dispatch, chainVars
    <3>2. \A u \in Threads : pc[u] = "accepted" => pc'[u] = "accepted" /\ cur'[u] = cur[u]
      BY <3>1 DEF ChainInv, ThreadsOK
    <3> QED
      BY <1>1, <2>2, <3>1, <3>2, SettledKept
  <2> QED
    BY <1>1, <2>1, <2>2, <2>3, TryAddSettles, ActivateSettles DEF ThreadStep
<1>5. CASE \E h \in Headers : InvalidateBlock(h)
  BY <1>5, InvalidateSettles DEF InvalidateBlock
<1>6. CASE Start
  BY <1>6, StartSettles
<1>7. CASE Crash \/ Shutdown
  BY <1>7 DEF Crash, Shutdown, Stopped
<1>8. CASE \/ AddOrphanHeader \/ CreateBlockTemplate \/ SaveBegin \/ SaveEnd
           \/ RequestShutdown \/ ClockTick \/ UNCHANGED vars
  <2>1. /\ UNCHANGED <<m_block_index, nStatus, vChain, m_candidates, cascaded, running>>
        /\ shutdown_requested_' = shutdown_requested_ \/ shutdown_requested_' = TRUE
    BY <1>8 DEF AddOrphanHeader, CreateBlockTemplate, SaveBegin, SaveEnd, RequestShutdown,
                ClockTick, vars, chainVars, hostVars
  <2>2. \A u \in Threads : pc[u] = "accepted" => pc'[u] = "accepted" /\ cur'[u] = cur[u]
    <3>1. CASE AddOrphanHeader
      <4>1. \/ pc' = [pc EXCEPT !["net"] = "added"] /\ cur' = cur
            \/ pc' = [pc EXCEPT !["net"] = "idle"] /\ cur' = [cur EXCEPT !["net"] = Genesis]
        BY <3>1 DEF AddOrphanHeader
      <4>2. pc["net"] = "orphan"
        BY <3>1 DEF AddOrphanHeader
      <4> QED
        BY <4>1, <4>2 DEF ChainInv, ThreadsOK, Threads
    <3>2. CASE ~AddOrphanHeader
      BY <1>8, <3>2 DEF CreateBlockTemplate, SaveBegin, SaveEnd, RequestShutdown, ClockTick,
                        vars, threadVars
    <3> QED
      BY <3>1, <3>2
  <2> QED
    BY <1>1, <2>1, <2>2, SettledKept
<1> QED
  BY <1>2, <1>3, <1>4, <1>5, <1>6, <1>7, <1>8 DEF Next

\* A valid leaf that outweighs the tip is a candidate, in the hands of the
\* thread that accepted it, refused by the reorg policy, or came out of the
\* orphan pool: no interleaving of TryAddBlockIndexCandidate,
\* ActivateBestChain with its pruning, InvalidateBlock and Load forgets it.
THEOREM NoHeavierLeafForgotten == Spec => []HeavierLeavesAreCandidates
<1>1. Init => HeavierLeavesAreCandidates
  BY DEF Init, HeavierLeavesAreCandidates
<1> QED
  BY <1>1, SettledStep, ChainInvariant, PTL DEF Spec

-----------------------------------------------------------------------------
(* Counting events in a queue *)

Places(queue, event) == {i \in 1..Len(queue) : queue[i] = event}

LEMMA QueuedType ==
  ASSUME NEW S, NEW q \in Seq(S), NEW e
  PROVE  /\ IsFiniteSet(Places(q, e)) /\ Queued(q, e) = Cardinality(Places(q, e))
         /\ Queued(q, e) \in Nat
<1>1. IsFiniteSet(1..Len(q))
  BY FS_Interval
<1>2. Places(q, e) \subseteq 1..Len(q)
  BY DEF Places
<1>3. IsFiniteSet(Places(q, e))
  BY <1>1, <1>2, FS_Subset
<1>4. Queued(q, e) = Cardinality(Places(q, e))
  BY DEF Queued, Places
<1> QED
  BY <1>3, <1>4, FS_CardinalityType

LEMMA QueuedNever ==
  ASSUME NEW S, NEW q \in Seq(S), NEW e, \A i \in 1..Len(q) : q[i] # e
  PROVE  Queued(q, e) = 0
<1>1. Places(q, e) = {}
  BY DEF Places
<1> QED
  BY <1>1, QueuedType, FS_EmptySet

LEMMA QueuedOnce ==
  ASSUME NEW S, NEW q \in Seq(S), NEW e, NEW k \in 1..Len(q), q[k] = e,
         \A i \in 1..Len(q) : q[i] = e => i = k
  PROVE  Queued(q, e) = 1
<1>1. Places(q, e) = {k}
  BY DEF Places
<1>2. Queued(q, e) = Cardinality({k})
  BY <1>1, QueuedType
<1> QED
  BY <1>2, FS_Singleton

\* Moving a set of places does not change their number.
LEMMA Shifted ==
  ASSUME NEW n \in Int, NEW A \in SUBSET Int, NEW B \in SUBSET Int, IsFiniteSet(A),
         \A i \in Int : i \in A <=> i + n \in B
  PROVE  IsFiniteSet(B) /\ Cardinality(B) = Cardinality(A)
<1> DEFINE f == [i \in A |-> i + n]
<1>1. \A j \in B : j - n \in A /\ (j - n) + n = j
  <2>1. \A j \in Int : (j - n) + n = j /\ j - n \in Int
    OBVIOUS
  <2> QED
    BY <2>1
<1>2. \A i \in A : i + n \in B
  OBVIOUS
<1>3. \A i, j \in A : i + n = j + n => i = j
  OBVIOUS
<1>4. f \in Bijection(A, B)
  <2>1. f \in [A -> B] /\ \A i \in A : f[i] = i + n
    BY <1>2
  <2> HIDE DEF f
  <2>2. f \in Injection(A, B)
    BY <1>3, <2>1 DEF Injection, IsInjective
  <2>3. f \in Surjection(A, B)
    BY <1>1, <2>1 DEF Surjection
  <2> QED
    BY <2>2, <2>3 DEF Bijection
<1>5. ExistsBijection(A, B)
  BY <1>4 DEF ExistsBijection
<1> QED
  BY <1>5, FS_Bijection

LEMMA QueuedConcat ==
  ASSUME NEW S, NEW p \in Seq(S), NEW q \in Seq(S), NEW e
  PROVE  Queued(p \o q, e) = Queued(p, e) + Queued(q, e)
<1> DEFINE r == p \o q
           n == Len(p)
           A == Places(p, e)
           B == {i \in Places(r, e) : i > n}
<1>1. /\ r \in Seq(S) /\ Len(r) = n + Len(q) /\ n \in Nat /\ Len(q) \in Nat
      /\ \A i \in 1..n : r[i] = p[i]
      /\ \A i \in 1..Len(q) : r[i + n] = q[i]
  <2>1. n \in Nat /\ Len(q) \in Nat
    OBVIOUS
  <2>2. /\ r \in Seq(S) /\ Len(r) = n + Len(q)
        /\ \A i \in 1..n + Len(q) : r[i] = IF i <= n THEN p[i] ELSE q[i - n]
    BY ConcatProperties
  <2>3. ASSUME NEW i \in 1..Len(q)
        PROVE  i + n \in 1..n + Len(q) /\ ~(i + n <= n) /\ (i + n) - n = i
    BY <2>1
  <2>4. \A i \in 1..n : i \in 1..n + Len(q) /\ i <= n
    BY <2>1
  <2> HIDE DEF r, n
  <2> QED
    BY <2>1, <2>2, <2>3, <2>4
<1> HIDE DEF r, n
<1>2. IsFiniteSet(A) /\ IsFiniteSet(Places(q, e)) /\ IsFiniteSet(Places(r, e))
  BY <1>1, QueuedType
<1>3. Places(r, e) = A \cup B /\ A \cap B = {}
  <2>1. ASSUME NEW i \in 1..n PROVE i \in Places(r, e) <=> i \in A
    BY <1>1 DEF Places, n
  <2>2. \A i \in A : i \in 1..n
    BY DEF Places, n
  <2>3. \A i \in Places(r, e) : i \in 1..n \/ i > n
    BY <1>1 DEF Places
  <2>4. \A i \in 1..n : ~(i > n)
    BY <1>1
  <2> HIDE DEF A
  <2> QED
    BY <2>1, <2>2, <2>3, <2>4
<1>4. \A i \in Int : i \in Places(q, e) <=> i + n \in B
  <2> SUFFICES ASSUME NEW i \in Int PROVE i \in Places(q, e) <=> i + n \in B
    OBVIOUS
  <2>1. i \in 1..Len(q) <=> i + n \in 1..Len(r) /\ i + n > n
    BY <1>1
  <2> QED
    BY <1>1, <2>1 DEF Places
<1>5. Places(q, e) \in SUBSET Int /\ B \in SUBSET Int
  BY DEF Places
<1> HIDE DEF A, B
<1>6. IsFiniteSet(B) /\ Cardinality(B) = Cardinality(Places(q, e))
  <2>1. n \in Int
    BY <1>1
  <2> QED
    BY <1>2, <1>4, <1>5, <2>1, Shifted
<1>7. Cardinality(A \cup B) = Cardinality(A) + Cardinality(B) - Cardinality({})
  BY <1>2, <1>3, <1>6, FS_Union
<1>8. Cardinality({}) = 0 /\ Cardinality(A) \in Nat /\ Cardinality(B) \in Nat
  BY <1>2, <1>6, FS_EmptySet, FS_CardinalityType
<1>9. Queued(r, e) = Cardinality(A \cup B) /\ Queued(p, e) = Cardinality(A)
      /\ Queued(q, e) = Cardinality(B)
  BY <1>1, <1>3, <1>6, QueuedType DEF A
<1>10. Queued(r, e) = Queued(p, e) + Queued(q, e)
  BY <1>7, <1>8, <1>9
<1> QED
  BY <1>10 DEF r

LEMMA QueuedTail ==
  ASSUME NEW S, NEW q \in Seq(S), q # <<>>, NEW e
  PROVE  Queued(q, e) = (IF Head(q) = e THEN 1 ELSE 0) + Queued(Tail(q), e)
<1> DEFINE a == <<Head(q)>>
<1>1. Head(q) \in S /\ Tail(q) \in Seq(S) /\ q = a \o Tail(q) /\ a \in Seq(S)
  OBVIOUS
<1>2. Queued(q, e) = Queued(a, e) + Queued(Tail(q), e)
  BY <1>1, QueuedConcat
<1>3. Len(a) = 1 /\ a[1] = Head(q)
  OBVIOUS
<1> HIDE DEF a
<1>4. CASE Head(q) = e
  <2>1. Queued(a, e) = 1
    BY <1>1, <1>3, <1>4, QueuedOnce
  <2> QED
    BY <1>2, <1>4, <2>1
<1>5. CASE Head(q) # e
  <2>1. Queued(a, e) = 0
    BY <1>1, <1>3, <1>5, QueuedNever
  <2> QED
    BY <1>2, <1>5, <2>1
<1> QED
  BY <1>4, <1>5

-----------------------------------------------------------------------------
(* The notifications match the chain *)

LEMMA EventsDiffer ==
  /\ \A a, b : Event("BlockConnected", a) # Event("BlockDisconnected", b)
  /\ \A a, b : Event("ChainTip", a) # Event("BlockConnected", b)
  /\ \A a, b : Event("ChainTip", a) # Event("BlockDisconnected", b)
  /\ \A a, b : Event("BlockConnected", a) = Event("BlockConnected", b) <=> a = b
  /\ \A a, b : Event("BlockDisconnected", a) = Event("BlockDisconnected", b) <=> a = b
BY DEF Event

\* A header has one place on the paths it is on.
LEMMA PlaceOnPath ==
  ASSUME NEW a \in Headers, NEW h \in Headers
  PROVE  /\ \A i \in 1..Len(PathTo[a]) : PathTo[a][i] = h => i = nHeight(h) + 1
         /\ Contains(PathTo[a], h) <=> \E i \in 1..Len(PathTo[a]) : PathTo[a][i] = h
<1>1. ASSUME NEW i \in 1..Len(PathTo[a]), PathTo[a][i] = h PROVE i = nHeight(h) + 1
  <2>1. Len(PathTo[h]) = i
    BY <1>1, PathPrefix
  <2> QED
    BY <2>1 DEF nHeight
<1>2. nHeight(h) \in Nat /\ Len(PathTo[a]) \in Nat
  BY PathFacts
<1>3. nHeight(h) < Len(PathTo[a]) <=> nHeight(h) + 1 \in 1..Len(PathTo[a])
  BY <1>2
<1>4. Contains(PathTo[a], h) <=> nHeight(h) + 1 \in 1..Len(PathTo[a])
                                  /\ PathTo[a][nHeight(h) + 1] = h
  BY <1>3 DEF Contains
<1> QED
  BY <1>1, <1>4

LEMMA DisconnectCounts ==
  ASSUME ChainInv, NEW f \in Headers, nHeight(f) <= nHeight(Tip), NEW h \in Headers
  PROVE  Balance(DisconnectEvents(f), h)
           = IF Contains(vChain, h) /\ nHeight(h) > nHeight(f) THEN -1 ELSE 0
<1> DEFINE q == DisconnectEvents(f)
           n == Len(vChain)
           m == n - 1 - nHeight(f)
           e == Event("BlockDisconnected", h)
<1>1. /\ Tip \in Headers /\ vChain = PathTo[Tip] /\ n \in Nat /\ nHeight(f) \in Nat
      /\ nHeight(h) \in Nat /\ nHeight(Tip) = n - 1
  BY TipFacts, PathFacts DEF ChainInv
<1>2. /\ q \in Seq(EventSet) /\ Len(q) = m /\ m \in Nat
      /\ \A i \in 1..m : q[i] = Event("BlockDisconnected", vChain[n + 1 - i])
  <2>1. q \in Seq(EventSet) /\ Len(q) = nHeight(Tip) - nHeight(f)
    BY DisconnectEventsType
  <2>2. m \in Nat /\ m = nHeight(Tip) - nHeight(f)
    BY <1>1
  <2>3. \A i \in 1..m : q[i] = Event("BlockDisconnected", vChain[n + 1 - i])
    BY DEF DisconnectEvents
  <2> QED
    BY <2>1, <2>2, <2>3
<1>3. Queued(q, Event("BlockConnected", h)) = 0
  <2> HIDE DEF q, m
  <2>1. \A i \in 1..Len(q) : q[i] # Event("BlockConnected", h)
    BY <1>2, EventsDiffer
  <2> QED
    BY <1>2, <2>1, QueuedNever
<1>4. \A i \in 1..m : q[i] = e <=> vChain[n + 1 - i] = h
  <2> HIDE DEF q, m, n
  <2> QED
    BY <1>2, EventsDiffer
<1>5. \A i \in 1..m : n + 1 - i \in 1..n
  BY <1>1
<1>6. \A i \in 1..m : vChain[n + 1 - i] = h => n + 1 - i = nHeight(h) + 1
  BY <1>1, <1>5, PlaceOnPath
<1> HIDE DEF q, n
<1>7. CASE Contains(vChain, h) /\ nHeight(h) > nHeight(f)
  <2> DEFINE k == n - nHeight(h)
  <2>1. nHeight(h) < n /\ vChain[nHeight(h) + 1] = h
    BY <1>7 DEF Contains, n
  <2>2. k \in 1..m /\ n + 1 - k = nHeight(h) + 1
    BY <1>1, <1>7, <2>1
  <2>3. \A i \in 1..m : n + 1 - i = nHeight(h) + 1 => i = k
    BY <1>1
  <2> HIDE DEF k, m
  <2>4. q[k] = e /\ \A i \in 1..Len(q) : q[i] = e => i = k
    BY <1>2, <1>4, <1>6, <2>1, <2>2, <2>3
  <2>5. Queued(q, e) = 1
    BY <1>2, <2>2, <2>4, QueuedOnce
  <2> QED
    BY <1>3, <1>7, <2>5 DEF Balance, q
<1>8. CASE ~(Contains(vChain, h) /\ nHeight(h) > nHeight(f))
  <2>1. ASSUME NEW i \in 1..m, vChain[n + 1 - i] = h PROVE FALSE
    <3>1. n + 1 - i = nHeight(h) + 1
      BY <1>6, <2>1
    <3>2. nHeight(h) > nHeight(f)
      BY <1>1, <3>1
    <3>3. Contains(vChain, h)
      <4>1. n + 1 - i \in 1..Len(PathTo[Tip]) /\ PathTo[Tip][n + 1 - i] = h
        BY <1>1, <1>5, <2>1 DEF n
      <4> QED
        BY <1>1, <4>1, PlaceOnPath
    <3> QED
      BY <1>8, <3>2, <3>3
  <2> HIDE DEF m
  <2>2. Queued(q, e) = 0
    BY <1>2, <1>4, <2>1, QueuedNever
  <2> QED
    BY <1>3, <1>8, <2>2 DEF Balance, q
<1> QED
  BY <1>7, <1>8

LEMMA ConnectCounts ==
  ASSUME NEW f \in Headers, NEW b \in Headers, nHeight(f) <= nHeight(b), NEW h \in Headers
  PROVE  Balance(ConnectEvents(f, b), h)
           = IF Contains(PathTo[b], h) /\ nHeight(h) > nHeight(f) THEN 1 ELSE 0
<1> DEFINE q == ConnectEvents(f, b)
           m == nHeight(b) - nHeight(f)
           e == Event("BlockConnected", h)
<1>1. /\ nHeight(f) \in Nat /\ nHeight(h) \in Nat /\ nHeight(b) \in Nat
      /\ Len(PathTo[b]) = nHeight(b) + 1 /\ m \in Nat
  <2>1. /\ nHeight(f) \in Nat /\ nHeight(h) \in Nat /\ nHeight(b) \in Nat
        /\ nHeight(b) = Len(PathTo[b]) - 1 /\ Len(PathTo[b]) \in Nat
    BY PathFacts
  <2> QED
    BY <2>1
<1>2. /\ q \in Seq(EventSet) /\ Len(q) = m
      /\ \A i \in 1..m : q[i] = Event("BlockConnected", PathTo[b][nHeight(f) + i + 1])
  <2>1. q \in Seq(EventSet)
    BY ConnectEventsType
  <2>2. q = [i \in 1..m |-> Event("BlockConnected", PathTo[b][nHeight(f) + i + 1])]
    BY DEF ConnectEvents, GetAncestor
  <2> HIDE DEF q, m
  <2> QED
    BY <1>1, <2>1, <2>2
<1>3. Queued(q, Event("BlockDisconnected", h)) = 0
  <2> HIDE DEF q, m
  <2>1. \A i \in 1..Len(q) : q[i] # Event("BlockDisconnected", h)
    BY <1>2, EventsDiffer
  <2> QED
    BY <1>2, <2>1, QueuedNever
<1>4. \A i \in 1..m : q[i] = e <=> PathTo[b][nHeight(f) + i + 1] = h
  <2> HIDE DEF q, m
  <2> QED
    BY <1>2, EventsDiffer
<1>5. \A i \in 1..m : nHeight(f) + i + 1 \in 1..Len(PathTo[b])
  BY <1>1
<1>6. \A i \in 1..m : PathTo[b][nHeight(f) + i + 1] = h => nHeight(f) + i + 1 = nHeight(h) + 1
  BY <1>5, PlaceOnPath
<1> HIDE DEF q
<1>7. CASE Contains(PathTo[b], h) /\ nHeight(h) > nHeight(f)
  <2> DEFINE k == nHeight(h) - nHeight(f)
  <2>1. nHeight(h) < Len(PathTo[b]) /\ PathTo[b][nHeight(h) + 1] = h
    BY <1>7 DEF Contains
  <2>2. k \in 1..m /\ nHeight(f) + k + 1 = nHeight(h) + 1
    BY <1>1, <1>7, <2>1
  <2>3. \A i \in 1..m : nHeight(f) + i + 1 = nHeight(h) + 1 => i = k
    BY <1>1
  <2> HIDE DEF k, m
  <2>4. q[k] = e /\ \A i \in 1..Len(q) : q[i] = e => i = k
    BY <1>2, <1>4, <1>6, <2>1, <2>2, <2>3
  <2>5. Queued(q, e) = 1
    BY <1>2, <2>2, <2>4, QueuedOnce
  <2> QED
    BY <1>3, <1>7, <2>5 DEF Balance, q
<1>8. CASE ~(Contains(PathTo[b], h) /\ nHeight(h) > nHeight(f))
  <2>1. ASSUME NEW i \in 1..m, PathTo[b][nHeight(f) + i + 1] = h PROVE FALSE
    <3>1. nHeight(f) + i + 1 = nHeight(h) + 1
      BY <1>6, <2>1
    <3>2. nHeight(h) > nHeight(f)
      BY <1>1, <3>1
    <3>3. Contains(PathTo[b], h)
      BY <1>5, <2>1, PlaceOnPath
    <3> QED
      BY <1>8, <3>2, <3>3
  <2> HIDE DEF m
  <2>2. Queued(q, e) = 0
    BY <1>2, <1>4, <2>1, QueuedNever
  <2> QED
    BY <1>3, <1>8, <2>2 DEF Balance, q
<1> QED
  BY <1>7, <1>8

\* Balances are integers, none for an empty queue, and add up.
LEMMA BalanceFacts ==
  ASSUME NEW p \in Seq(EventSet), NEW q \in Seq(EventSet), NEW h
  PROVE  /\ Balance(p, h) \in Int
         /\ Balance(<<>>, h) = 0
         /\ Balance(p \o q, h) = Balance(p, h) + Balance(q, h)
<1> DEFINE e == Event("BlockConnected", h)
           d == Event("BlockDisconnected", h)
<1>1. /\ Queued(p, e) \in Nat /\ Queued(p, d) \in Nat
      /\ Queued(q, e) \in Nat /\ Queued(q, d) \in Nat
  BY QueuedType
<1>2. <<>> \in Seq(EventSet) /\ \A i \in 1..Len(<<>>) : FALSE
  OBVIOUS
<1>3. Queued(<<>>, e) = 0 /\ Queued(<<>>, d) = 0
  BY <1>2, QueuedNever
<1>4. /\ Queued(p \o q, e) = Queued(p, e) + Queued(q, e)
      /\ Queued(p \o q, d) = Queued(p, d) + Queued(q, d)
  BY QueuedConcat
<1> HIDE DEF e, d
<1>5. /\ Queued(p, e) - Queued(p, d) \in Int
      /\ Queued(<<>>, e) - Queued(<<>>, d) = 0
      /\ Queued(p \o q, e) - Queued(p \o q, d)
           = (Queued(p, e) - Queued(p, d)) + (Queued(q, e) - Queued(q, d))
  BY <1>1, <1>3, <1>4
<1> QED
  BY <1>5 DEF Balance, e, d

\* One thread's queue, what was delivered and the chain change together.
LEMMA MatchKept ==
  ASSUME ChainInv, EventsOK, EventsMatchChain, running,
         NEW t \in Threads, NEW q \in Seq(EventSet), events' = [events EXCEPT ![t] = q],
         NEW h \in Headers, delivered[h] \in Int, delivered'[h] \in Int,
         delivered'[h] + Balance(q, h) + (IF Contains(vChain, h) THEN 1 ELSE 0)
           = delivered[h] + Balance(events[t], h) + (IF Contains(vChain', h) THEN 1 ELSE 0)
  PROVE  delivered'[h] + Balance(events'["net"], h) + Balance(events'["miner"], h)
           + Balance(events'["rpc"], h) = IF Contains(vChain', h) THEN 1 ELSE 0
<1>1. delivered[h] + Balance(events["net"], h) + Balance(events["miner"], h)
        + Balance(events["rpc"], h) = IF Contains(vChain, h) THEN 1 ELSE 0
  BY DEF EventsMatchChain
<1>2. delivered[h] \in Int /\ delivered'[h] \in Int
  OBVIOUS
<1>3. \A u \in Threads : Balance(events[u], h) \in Int
  BY BalanceFacts DEF EventsOK
<1>4. Balance(q, h) \in Int
  BY BalanceFacts
<1>5. /\ events'[t] = q
      /\ \A u \in Threads \ {t} : events'[u] = events[u]
  BY DEF EventsOK
<1>6. delivered'[h] + Balance(q, h) + (IF Contains(vChain, h) THEN 1 ELSE 0)
        = delivered[h] + Balance(events[t], h) + (IF Contains(vChain', h) THEN 1 ELSE 0)
  OBVIOUS
<1> DEFINE w == IF Contains(vChain, h) THEN 1 ELSE 0
           w1 == IF Contains(vChain', h) THEN 1 ELSE 0
           d == delivered[h]
           d1 == delivered'[h]
           x == Balance(events["net"], h)
           y == Balance(events["miner"], h)
           z == Balance(events["rpc"], h)
           x1 == Balance(events'["net"], h)
           y1 == Balance(events'["miner"], h)
           z1 == Balance(events'["rpc"], h)
<1>7. /\ x \in Int /\ y \in Int /\ z \in Int
      /\ \/ x1 = x /\ y1 = y /\ z1 = Balance(q, h) /\ z = Balance(events[t], h)
         \/ x1 = x /\ z1 = z /\ y1 = Balance(q, h) /\ y = Balance(events[t], h)
         \/ y1 = y /\ z1 = z /\ x1 = Balance(q, h) /\ x = Balance(events[t], h)
  BY <1>3, <1>5 DEF Threads
<1>8. x1 \in Int /\ y1 \in Int /\ z1 \in Int
  BY <1>4, <1>7
<1>9. /\ w \in Int /\ w1 \in Int /\ d \in Int /\ d1 \in Int /\ d + x + y + z = w
      /\ d1 + Balance(q, h) + w = d + Balance(events[t], h) + w1
  BY <1>1, <1>2, <1>6
<1> HIDE DEF w, w1, d, d1, x, y, z, x1, y1, z1
<1>10. \/ x1 = x /\ y1 = y /\ d1 + z1 + w = d + z + w1
       \/ x1 = x /\ z1 = z /\ d1 + y1 + w = d + y + w1
       \/ y1 = y /\ z1 = z /\ d1 + x1 + w = d + x + w1
  BY <1>7, <1>9
<1>11. d1 + x1 + y1 + z1 = w1
  BY <1>7, <1>8, <1>9, <1>10
<1> QED
  BY <1>11 DEF w1, d1, x1, y1, z1

LEMMA MatchStep ==
  ASSUME ChainInv, EventsOK, EventsMatchChain, running,
         delivered \in [Headers -> Int], delivered' \in [Headers -> Int],
         NEW t \in Threads, NEW q \in Seq(EventSet), events' = [events EXCEPT ![t] = q],
         \A h \in Headers :
           delivered'[h] + Balance(q, h) + (IF Contains(vChain, h) THEN 1 ELSE 0)
             = delivered[h] + Balance(events[t], h) + (IF Contains(vChain', h) THEN 1 ELSE 0)
  PROVE  EventsMatchChain'
<1>1. ASSUME NEW h \in Headers
      PROVE  delivered'[h] + Balance(events'["net"], h) + Balance(events'["miner"], h)
               + Balance(events'["rpc"], h) = IF Contains(vChain', h) THEN 1 ELSE 0
  <2>1. delivered[h] \in Int /\ delivered'[h] \in Int
    OBVIOUS
  <2>2. delivered'[h] + Balance(q, h) + (IF Contains(vChain, h) THEN 1 ELSE 0)
          = delivered[h] + Balance(events[t], h) + (IF Contains(vChain', h) THEN 1 ELSE 0)
    OBVIOUS
  <2> QED
    BY <2>1, <2>2, MatchKept
<1> QED
  BY <1>1 DEF EventsMatchChain, Balance, Queued, Event

\* Below the fork both branches hold the same headers.
LEMMA BelowFork ==
  ASSUME NEW a \in Headers, NEW b \in Headers, NEW f \in Headers, NEW h \in Headers,
         \A i \in 1..Len(PathTo[f]) :
           i \in 1..Len(PathTo[a]) /\ i \in 1..Len(PathTo[b]) /\ PathTo[a][i] = PathTo[b][i],
         ~(nHeight(h) > nHeight(f))
  PROVE  Contains(PathTo[a], h) <=> Contains(PathTo[b], h)
<1>1. nHeight(h) \in Nat /\ nHeight(f) \in Nat /\ Len(PathTo[f]) = nHeight(f) + 1
  <2>1. nHeight(h) \in Nat /\ nHeight(f) \in Nat /\ nHeight(f) = Len(PathTo[f]) - 1
        /\ Len(PathTo[f]) \in Nat
    BY PathFacts
  <2> QED
    BY <2>1
<1>2. nHeight(h) + 1 \in 1..Len(PathTo[f])
  BY <1>1
<1>3. /\ nHeight(h) + 1 \in 1..Len(PathTo[a]) /\ nHeight(h) + 1 \in 1..Len(PathTo[b])
      /\ PathTo[a][nHeight(h) + 1] = PathTo[b][nHeight(h) + 1]
  BY <1>2
<1>4. Len(PathTo[a]) \in Nat /\ Len(PathTo[b]) \in Nat
  BY PathFacts
<1>5. nHeight(h) < Len(PathTo[a]) /\ nHeight(h) < Len(PathTo[b])
  BY <1>1, <1>3, <1>4
<1> QED
  BY <1>3, <1>5 DEF Contains

LEMMA ActivateMatches ==
  ASSUME ChainInv, EventsOK, EventsMatchChain, delivered \in [Headers -> Int],
         NEW t \in Threads, ActivateBestChain(t)
  PROVE  EventsMatchChain'
<1>1. /\ running /\ running' = running /\ delivered' = delivered /\ pc[t] = "added"
  BY DEF ActivateBestChain, Unlocked, hostVars
<1>2. events[t] = <<>>
  BY <1>1 DEF EventsOK
<1>3. CASE NewTips = {}
  <2>1. vChain' = vChain /\ events' = events
    BY <1>3 DEF ActivateBestChain
  <2> QED
    BY <1>1, <2>1 DEF EventsMatchChain
<1>4. CASE NewTips # {}
  <2>1. PICK b \in NewTips :
          LET fork == LastCommonAncestor(Tip, b)
          IN  /\ vChain' = ChainTo(b)
              /\ events' = [events EXCEPT ![t] =
                              DisconnectEvents(fork) \o ConnectEvents(fork, b)
                                \o <<Event("ChainTip", b)>>]
    BY <1>4 DEF ActivateBestChain
  <2> DEFINE f == LastCommonAncestor(Tip, b)
             d == DisconnectEvents(f)
             c == ConnectEvents(f, b)
             e == <<Event("ChainTip", b)>>
             q == d \o c \o e
  <2>2. m_candidates \subseteq Headers /\ Tip \in Headers /\ vChain = PathTo[Tip]
    BY TipFacts DEF ChainInv, TreeOK
  <2>3. b \in Headers
    BY <2>2, NewTipsValid
  <2>4. vChain' = PathTo[b] /\ events' = [events EXCEPT ![t] = q]
    BY <2>1, <2>2, <2>3, SetTipIsPath DEF ChainTo
  <2>5. f \in Headers /\ nHeight(f) <= nHeight(Tip) /\ nHeight(f) <= nHeight(b)
    BY <2>2, <2>3, ForkFacts
  <2>6. \A i \in 1..Len(PathTo[f]) :
          /\ i \in 1..Len(PathTo[Tip]) /\ i \in 1..Len(PathTo[b])
          /\ PathTo[Tip][i] = PathTo[b][i]
    BY <2>2, <2>3, ForkShared
  <2> HIDE DEF f
  <2>7. d \in Seq(EventSet) /\ c \in Seq(EventSet)
    BY <2>3, <2>5, DisconnectEventsType, ConnectEventsType
  <2>8. e \in Seq(EventSet) /\ Len(e) = 1 /\ e[1] = Event("ChainTip", b)
    BY <2>3 DEF Event, EventSet, EventTypes
  <2> HIDE DEF e
  <2>9. ASSUME NEW h \in Headers
        PROVE  Balance(q, h) + (IF Contains(vChain, h) THEN 1 ELSE 0)
                 = IF Contains(vChain', h) THEN 1 ELSE 0
    <3>1. Balance(d, h) = IF Contains(vChain, h) /\ nHeight(h) > nHeight(f) THEN -1 ELSE 0
      BY <2>5, DisconnectCounts
    <3>2. Balance(c, h) = IF Contains(PathTo[b], h) /\ nHeight(h) > nHeight(f) THEN 1 ELSE 0
      BY <2>3, <2>5, ConnectCounts
    <3> HIDE DEF d, c
    <3>3. Balance(e, h) = 0
      <4>1. /\ \A i \in 1..Len(e) : e[i] # Event("BlockConnected", h)
            /\ \A i \in 1..Len(e) : e[i] # Event("BlockDisconnected", h)
        BY <2>8, EventsDiffer
      <4>2. Queued(e, Event("BlockConnected", h)) = 0 /\ Queued(e, Event("BlockDisconnected", h)) = 0
        BY <2>8, <4>1, QueuedNever
      <4> QED
        BY <4>2 DEF Balance
    <3>4. Balance(q, h) = Balance(d, h) + Balance(c, h)
      <4>1. d \o c \in Seq(EventSet)
        BY <2>7
      <4>2. Balance((d \o c) \o e, h) = Balance(d \o c, h) + Balance(e, h)
        BY <2>8, <4>1, BalanceFacts
      <4>3. Balance(d \o c, h) = Balance(d, h) + Balance(c, h) /\ Balance(d \o c, h) \in Int
        BY <2>7, <4>1, BalanceFacts
      <4> QED
        BY <3>3, <4>2, <4>3
    <3>5. ~(nHeight(h) > nHeight(f)) => (Contains(PathTo[Tip], h) <=> Contains(PathTo[b], h))
      BY <2>2, <2>3, <2>5, <2>6, BelowFork
    <3> HIDE DEF q
    <3> QED
      BY <2>2, <2>4, <3>1, <3>2, <3>4, <3>5
  <2>10. q \in Seq(EventSet)
    <3> HIDE DEF d, c
    <3>1. d \o c \in Seq(EventSet)
      BY <2>7
    <3> QED
      BY <2>8, <3>1
  <2> HIDE DEF q
  <2>11. ASSUME NEW h \in Headers
         PROVE  delivered'[h] + Balance(q, h) + (IF Contains(vChain, h) THEN 1 ELSE 0)
                  = delivered[h] + Balance(events[t], h) + (IF Contains(vChain', h) THEN 1 ELSE 0)
    <3>1. Balance(events[t], h) = 0 /\ Balance(q, h) \in Int
      BY <1>2, <2>10, BalanceFacts
    <3>2. delivered'[h] = delivered[h] /\ delivered[h] \in Int
      BY <1>1
    <3> QED
      BY <2>9, <3>1, <3>2
  <2> QED
    BY <1>1, <2>4, <2>10, <2>11, MatchStep
<1> QED
  BY <1>3, <1>4

LEMMA InvalidateMatches ==
  ASSUME ChainInv, EventsOK, EventsMatchChain, delivered \in [Headers -> Int],
         NEW g \in Headers, InvalidateBlock(g)
  PROVE  EventsMatchChain'
<1> DEFINE f == IF Contains(vChain, g) THEN pprev(g) ELSE Tip
           q == DisconnectEvents(f)
<1>1. /\ running /\ running' = running /\ delivered' = delivered
      /\ pc["rpc"] = "idle" /\ "rpc" \in Threads /\ g \in m_block_index \ {Genesis}
      /\ vChain' = ChainTo(f) /\ events' = [events EXCEPT !["rpc"] = q]
  BY DEF InvalidateBlock, Unlocked, hostVars, Threads
<1>2. events["rpc"] = <<>>
  BY <1>1 DEF EventsOK
<1>3. Tip \in Headers /\ vChain = PathTo[Tip] /\ g \in Headers /\ g # Genesis
  BY <1>1, TipFacts DEF ChainInv
<1>4. f \in Headers /\ DescendsFrom(Tip, f)
  <2>1. CASE Contains(vChain, g)
    <3> DEFINE k == Len(PathTo[g]) - 1
    <3>1. /\ Len(PathTo[g]) <= Len(PathTo[Tip])
          /\ \A i \in 1..Len(PathTo[g]) : PathTo[Tip][i] = PathTo[g][i]
      BY <1>3, <2>1, ContainsIsDescent, DescendantPath
    <3>2. /\ Len(PathTo[g]) \in Nat /\ Len(PathTo[g]) > 1 /\ pprev(g) = PathTo[g][k]
          /\ pprev(g) \in Headers /\ Len(PathTo[Tip]) \in Nat
      BY <1>3, ParentFacts, PathFacts
    <3>3. k \in 1..Len(PathTo[g]) /\ k \in 1..Len(PathTo[Tip])
      BY <3>1, <3>2
    <3> HIDE DEF k
    <3>4. PathTo[Tip][k] = pprev(g)
      BY <3>1, <3>2, <3>3
    <3> QED
      BY <1>3, <2>1, <3>2, <3>3, <3>4, OnPathDescends
  <2>2. CASE ~Contains(vChain, g)
    <3>1. DescendsFrom(Tip, Tip)
      BY <1>3, PathFacts DEF DescendsFrom, GetAncestor
    <3> QED
      BY <1>3, <2>2, <3>1
  <2> QED
    BY <2>1, <2>2
<1> HIDE DEF f
<1>5. vChain' = PathTo[f]
  BY <1>1, <1>3, <1>4, SetTipIsPath DEF ChainTo
<1>6. nHeight(f) <= nHeight(Tip) /\ nHeight(f) \in Nat
  BY <1>4, PathFacts DEF DescendsFrom
<1>7. q \in Seq(EventSet)
  BY <1>4, <1>6, DisconnectEventsType
<1>8. \A i \in 1..Len(PathTo[f]) :
        /\ i \in 1..Len(PathTo[Tip]) /\ i \in 1..Len(PathTo[f]) /\ PathTo[Tip][i] = PathTo[f][i]
  <2>1. /\ Len(PathTo[f]) <= Len(PathTo[Tip])
        /\ \A i \in 1..Len(PathTo[f]) : PathTo[Tip][i] = PathTo[f][i]
    BY <1>3, <1>4, DescendantPath
  <2>2. Len(PathTo[f]) \in Nat /\ Len(PathTo[Tip]) \in Nat
    BY <1>3, <1>4, PathFacts
  <2> QED
    BY <2>1, <2>2
<1>9. ASSUME NEW h \in Headers
      PROVE  delivered'[h] + Balance(q, h) + (IF Contains(vChain, h) THEN 1 ELSE 0)
               = delivered[h] + Balance(events["rpc"], h) + (IF Contains(vChain', h) THEN 1 ELSE 0)
  <2>1. Balance(q, h) = IF Contains(vChain, h) /\ nHeight(h) > nHeight(f) THEN -1 ELSE 0
    BY <1>4, <1>6, DisconnectCounts
  <2>2. Balance(events["rpc"], h) = 0
    BY <1>2, <1>7, BalanceFacts
  <2>3. ~(nHeight(h) > nHeight(f)) => (Contains(PathTo[Tip], h) <=> Contains(PathTo[f], h))
    BY <1>3, <1>4, <1>8, BelowFork
  <2>4. nHeight(h) > nHeight(f) => ~Contains(PathTo[f], h)
    <3>1. nHeight(h) \in Nat /\ Len(PathTo[f]) \in Nat /\ nHeight(f) = Len(PathTo[f]) - 1
      BY <1>4, PathFacts
    <3>2. nHeight(h) > nHeight(f) => ~(nHeight(h) < Len(PathTo[f]))
      BY <1>6, <3>1
    <3> QED
      BY <3>2 DEF Contains
  <2>5. delivered'[h] = delivered[h] /\ delivered[h] \in Int
    BY <1>1
  <2> HIDE DEF q
  <2> QED
    BY <1>3, <1>5, <2>1, <2>2, <2>3, <2>4, <2>5
<1> HIDE DEF q
<1> QED
  BY <1>1, <1>7, <1>9, MatchStep

\* Delivering an event moves its share from the queue to the subscribers.
LEMMA DispatchMatches ==
  ASSUME ChainInv, EventsOK, EventsMatchChain,
         delivered \in [Headers -> Int], delivered' \in [Headers -> Int],
         NEW t \in Threads, Dispatch(t)
  PROVE  EventsMatchChain'
<1> DEFINE q == events[t]
           ev == Head(q)
<1>1. q \in Seq(EventSet) /\ q # <<>>
  BY DEF EventsOK, Dispatch
<1>2. /\ running /\ vChain' = vChain /\ events' = [events EXCEPT ![t] = Tail(q)]
      /\ delivered' = [delivered EXCEPT ![ev.header] =
                         CASE ev.type = "BlockConnected"    -> @ + 1
                           [] ev.type = "BlockDisconnected" -> @ - 1
                           [] OTHER                         -> @]
  BY DEF Dispatch, chainVars
<1> HIDE DEF q
<1>3. ev \in EventSet /\ Tail(q) \in Seq(EventSet)
  BY <1>1, HeadTailProperties
<1>4. /\ ev.header \in Headers /\ ev.type \in EventTypes
      /\ \A h : ev = Event("BlockConnected", h) <=> ev.type = "BlockConnected" /\ ev.header = h
      /\ \A h : ev = Event("BlockDisconnected", h) <=> ev.type = "BlockDisconnected" /\ ev.header = h
  <2> HIDE DEF ev
  <2> QED
    BY <1>3 DEF EventSet, Event
<1>5. ASSUME NEW h \in Headers
      PROVE  delivered'[h] + Balance(Tail(q), h) + (IF Contains(vChain, h) THEN 1 ELSE 0)
               = delivered[h] + Balance(q, h) + (IF Contains(vChain', h) THEN 1 ELSE 0)
  <2> DEFINE e == Event("BlockConnected", h)
             d == Event("BlockDisconnected", h)
  <2>1. /\ Queued(q, e) = (IF ev = e THEN 1 ELSE 0) + Queued(Tail(q), e)
        /\ Queued(q, d) = (IF ev = d THEN 1 ELSE 0) + Queued(Tail(q), d)
        /\ Queued(Tail(q), e) \in Nat /\ Queued(Tail(q), d) \in Nat
    BY <1>1, <1>3, QueuedTail, QueuedType
  <2>2. delivered[h] \in Int
    OBVIOUS
  <2>3. delivered'[h] = IF ev = e THEN delivered[h] + 1
                        ELSE IF ev = d THEN delivered[h] - 1 ELSE delivered[h]
    <3> HIDE DEF ev
    <3>1. CASE ev.header # h
      BY <1>2, <1>4, <3>1
    <3>2. CASE ev.header = h
      <4>1. delivered'[h] = CASE ev.type = "BlockConnected"    -> delivered[h] + 1
                              [] ev.type = "BlockDisconnected" -> delivered[h] - 1
                              [] OTHER                         -> delivered[h]
        BY <1>2, <3>2
      <4> QED
        BY <1>4, <3>2, <4>1
    <3> QED
      BY <3>1, <3>2
  <2>4. ev = e => ev # d
    BY EventsDiffer
  <2>5. /\ Balance(q, h) = Queued(q, e) - Queued(q, d)
        /\ Balance(Tail(q), h) = Queued(Tail(q), e) - Queued(Tail(q), d)
    BY DEF Balance
  <2>6. delivered'[h] + (Queued(Tail(q), e) - Queued(Tail(q), d))
          = delivered[h] + (Queued(q, e) - Queued(q, d))
    <3> HIDE DEF e, d, ev
    <3>1. CASE ev = e
      BY <2>1, <2>2, <2>3, <2>4, <3>1
    <3>2. CASE ev = d
      BY <2>1, <2>2, <2>3, <2>4, <3>2
    <3>3. CASE ev # e /\ ev # d
      BY <2>1, <2>2, <2>3, <3>3
    <3> QED
      BY <3>1, <3>2, <3>3
  <2> HIDE DEF e, d, ev
  <2> QED
    BY <1>2, <2>5, <2>6
<1> QED
  BY <1>1, <1>2, <1>3, <1>5, MatchStep DEF q

LEMMA StartMatches ==
  ASSUME ChainInv, EventsOK, Start
  PROVE  EventsMatchChain'
<1>1. /\ events' = events /\ \A t \in Threads : pc[t] = "idle"
      /\ delivered' = [h \in Headers |-> IF Contains(vChain', h) THEN 1 ELSE 0]
  BY DEF Start, threadVars, ChainInv, ThreadsOK
<1>2. events["net"] = <<>> /\ events["miner"] = <<>> /\ events["rpc"] = <<>>
  BY <1>1 DEF EventsOK, Threads
<1>3. ASSUME NEW h \in Headers
      PROVE  delivered'[h] + Balance(events'["net"], h) + Balance(events'["miner"], h)
               + Balance(events'["rpc"], h) = IF Contains(vChain', h) THEN 1 ELSE 0
  <2>1. Balance(<<>>, h) = 0
    <3>1. <<>> \in Seq(EventSet)
      OBVIOUS
    <3> QED
      BY <3>1, BalanceFacts
  <2>2. delivered'[h] = IF Contains(vChain', h) THEN 1 ELSE 0
    BY <1>1
  <2> QED
    BY <1>1, <1>2, <2>1, <2>2
<1> QED
  BY <1>3 DEF EventsMatchChain, Balance, Queued, Event

LEMMA EventsMatchStep ==
  ChainInv /\ EventsOK /\ HostOK /\ HostOK' /\ EventsMatchChain /\ [Next]_vars
    => EventsMatchChain'
<1> SUFFICES ASSUME ChainInv, EventsOK, HostOK, HostOK', EventsMatchChain, [Next]_vars
             PROVE  EventsMatchChain'
  OBVIOUS
<1>1. delivered \in [Headers -> Int] /\ delivered' \in [Headers -> Int]
  BY DEF HostOK
<1>2. ASSUME UNCHANGED <<events, delivered, vChain, running>> PROVE EventsMatchChain'
  BY <1>2 DEF EventsMatchChain
<1>3. CASE \/ \E h \in Headers, p \in Peers : HandleHeader(h, p)
           \/ \E h \in MinedHeaders : MineBlock(h)
  BY <1>2, <1>3 DEF HandleHeader, MineBlock, AcceptBlockHeader, hostVars
<1>4. CASE \E t \in Threads : ThreadStep(t)
  <2>1. PICK t \in Threads : ThreadStep(t)
    BY <1>4
  <2>2. CASE TryAddBlockIndexCandidate(t)
    BY <1>2, <2>2 DEF TryAddBlockIndexCandidate, hostVars
  <2> QED
    BY <1>1, <2>1, <2>2, ActivateMatches, DispatchMatches DEF ThreadStep
<1>5. CASE \E h \in Headers : InvalidateBlock(h)
  BY <1>1, <1>5, InvalidateMatches
<1>6. CASE Start
  BY <1>6, StartMatches
<1>7. CASE Crash \/ Shutdown
  BY <1>7 DEF Crash, Shutdown, Stopped, EventsMatchChain
<1>8. CASE \/ AddOrphanHeader \/ CreateBlockTemplate \/ SaveBegin \/ SaveEnd
           \/ RequestShutdown \/ ClockTick \/ UNCHANGED vars
  <2>1. UNCHANGED <<events, delivered, vChain, running>>
    BY <1>8 DEF AddOrphanHeader, CreateBlockTemplate, SaveBegin, SaveEnd, RequestShutdown,
                ClockTick, vars, chainVars, threadVars, hostVars
  <2> QED
    BY <1>2, <2>1
<1> QED
  BY <1>3, <1>4, <1>5, <1>6, <1>7, <1>8 DEF Next

\* The connects and disconnects that the threads have delivered and still have
\* queued add up to the active chain, header by header (ActivateBestChain,
\* InvalidateBlock, and the delivery after the lock was released).
THEOREM EventsAlwaysMatch == Spec => []EventsMatchChain
<1>1. Init => EventsMatchChain
  <2> SUFFICES ASSUME Init PROVE EventsMatchChain
    OBVIOUS
  <2>1. /\ events["net"] = <<>> /\ events["miner"] = <<>> /\ events["rpc"] = <<>>
        /\ delivered = [h \in Headers |-> IF h = Genesis THEN 1 ELSE 0]
        /\ vChain = <<Genesis>>
    BY DEF Init, Threads
  <2>2. ASSUME NEW h \in Headers
        PROVE  /\ Balance(<<>>, h) = 0
               /\ Contains(<<Genesis>>, h) <=> h = Genesis
    <3>1. <<>> \in Seq(EventSet)
      OBVIOUS
    <3>2. Balance(<<>>, h) = 0
      BY <3>1, BalanceFacts
    <3>3. Genesis \in Headers /\ PathTo[Genesis] = <<Genesis>> /\ Len(<<Genesis>>) = 1
          /\ <<Genesis>>[1] = Genesis
      BY TreeAssumption
    <3>4. Contains(PathTo[Genesis], h) <=> \E i \in 1..Len(PathTo[Genesis]) : PathTo[Genesis][i] = h
      BY <3>3, PlaceOnPath
    <3> QED
      BY <3>2, <3>3, <3>4
  <2> QED
    BY <2>1, <2>2 DEF EventsMatchChain
<1>2. Spec => [](EventsOK /\ HostOK)
  BY InitTypes, EventsStep, HostStep, ChainInvariant, PTL DEF Spec
<1> QED
  BY <1>1, <1>2, EventsMatchStep, ChainInvariant, PTL DEF Spec

=============================================================================
