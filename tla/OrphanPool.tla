----------------------------- MODULE OrphanPool -----------------------------
(***************************************************************************)
(* The pool of headers whose parent is not in the block index              *)
(* (ChainstateManager::m_orphan_headers and m_peer_orphan_count): what     *)
(* TryAddOrphanHeader, EvictOrphanHeaders and ProcessOrphanHeaders do to   *)
(* it.  Every operation runs under validation_mutex_, so each is one step. *)
(*                                                                         *)
(* PoolSpec says what the pool promises whoever calls it: a resolution may *)
(* take out any set of orphans.  Module Chainstate takes out exactly the   *)
(* orphans whose ancestors have arrived and is checked to implement        *)
(* PoolSpec.                                                               *)
(***************************************************************************)
EXTENDS BlockTree

CONSTANTS
  Peers,                         \* peer ids
  MAX_ORPHAN_HEADERS,            \* protocol.hpp: limit on the whole pool
  MAX_ORPHAN_HEADERS_PER_PEER,   \* protocol.hpp: limit per peer
  nOrphanHeaderExpireTime,       \* chainparams: age at which an orphan may go
  MaxTime                        \* bound on the clock (model checking only)

ASSUME PoolAssumption ==
  /\ IsFiniteSet(Headers)
  /\ MAX_ORPHAN_HEADERS \in Nat \ {0}
  /\ MAX_ORPHAN_HEADERS_PER_PEER \in Nat \ {0}
  /\ nOrphanHeaderExpireTime \in Nat
  /\ MaxTime \in Nat

VARIABLES
  m_orphan_headers,      \* hash |-> the peer it came from and when
  m_peer_orphan_count,   \* peer |-> int; operator[] creates missing entries
  now                    \* util::GetTime()

poolVars == <<m_orphan_headers, m_peer_orphan_count, now>>

OrphanHeader == [nTimeReceived : Nat, peer_id : Peers]

Orphans == DOMAIN m_orphan_headers

HeldFor(p) == {o \in Orphans : m_orphan_headers[o].peer_id = p}

-----------------------------------------------------------------------------
\* Erasing the orphans in S, and for each one decrementing its peer's count
\* and dropping the entry that reaches zero (the same eight lines in
\* ProcessOrphanHeaders and, twice, in EvictOrphanHeaders).
HeadersWithout(S) == [o \in Orphans \ S |-> m_orphan_headers[o]]

\* Seeded fault of CountsWithout: the entry that reaches zero is kept.
CountsWithoutErase(S) ==
  [p \in DOMAIN m_peer_orphan_count |->
     m_peer_orphan_count[p] - Cardinality(S \cap HeldFor(p))]

CountsWithout(S) ==
  LET left(p) == m_peer_orphan_count[p] - Cardinality(S \cap HeldFor(p))
  IN  [p \in {q \in DOMAIN m_peer_orphan_count : S \cap HeldFor(q) = {} \/ left(q) # 0}
         |-> left(p)]

\* Seeded fault of EvictOrphanHeaders: an orphan expires one second early.
EvictOneSecondEarly ==
  LET time(o) == m_orphan_headers[o].nTimeReceived
      expired == {o \in Orphans : now - time(o) >= nOrphanHeaderExpireTime}
      oldest  == {o \in Orphans : \A q \in Orphans :
                    time(o) < time(q) \/ (time(o) = time(q) /\ o <= q)}
  IN  IF expired # {} THEN expired
      ELSE IF Cardinality(Orphans) >= MAX_ORPHAN_HEADERS THEN oldest
      ELSE {}

\* Seeded fault of EvictOrphanHeaders: only expired orphans make way.
EvictExpiredOnly ==
  {o \in Orphans : now - m_orphan_headers[o].nTimeReceived > nOrphanHeaderExpireTime}

\* The orphans EvictOrphanHeaders erases: all expired ones, else (when the
\* pool is full) the one received first, the first in hash order among equals.
EvictOrphanHeaders ==
  LET time(o) == m_orphan_headers[o].nTimeReceived
      expired == {o \in Orphans : now - time(o) > nOrphanHeaderExpireTime}
      oldest  == {o \in Orphans : \A q \in Orphans :
                    time(o) < time(q) \/ (time(o) = time(q) /\ o <= q)}
  IN  IF expired # {} THEN expired
      ELSE IF Cardinality(Orphans) >= MAX_ORPHAN_HEADERS THEN oldest
      ELSE {}

\* m_peer_orphan_count[p]: a missing entry reads as zero.
PeerCount(counts, p) == IF p \in DOMAIN counts THEN counts[p] ELSE 0

\* The return value of TryAddOrphanHeader.  The pool limit is never a reason
\* to refuse: a full pool is not empty, so EvictOrphanHeaders evicts.
OrphanAccepted(h, p) ==
  h \in Orphans \/ PeerCount(m_peer_orphan_count, p) < MAX_ORPHAN_HEADERS_PER_PEER

TryAddOrphanHeader(h, p) ==
  LET evicted == IF Cardinality(Orphans) >= MAX_ORPHAN_HEADERS
                 THEN EvictOrphanHeaders ELSE {}
      kept    == HeadersWithout(evicted)
      counts  == CountsWithout(evicted)
  IN  IF h \notin Orphans /\ OrphanAccepted(h, p)
      THEN /\ m_orphan_headers' =
                [o \in DOMAIN kept \cup {h} |->
                   IF o = h THEN [nTimeReceived |-> now, peer_id |-> p] ELSE kept[o]]
           /\ m_peer_orphan_count' =
                [q \in DOMAIN counts \cup {p} |->
                   PeerCount(counts, q) + (IF q = p THEN 1 ELSE 0)]
      ELSE UNCHANGED <<m_orphan_headers, m_peer_orphan_count>>

\* ProcessOrphanHeaders erases the orphans it hands to AcceptBlockHeader.
TakeOrphans(S) ==
  /\ m_orphan_headers' = HeadersWithout(S)
  /\ m_peer_orphan_count' = CountsWithout(S)

-----------------------------------------------------------------------------
PoolInit ==
  /\ m_orphan_headers = <<>>
  /\ m_peer_orphan_count = <<>>
  /\ now = 0

AddOrphan == \E h \in Headers \ {Genesis}, p \in Peers : TryAddOrphanHeader(h, p) /\ UNCHANGED now

ResolveOrphans == \E S \in SUBSET Orphans : TakeOrphans(S) /\ UNCHANGED now

Tick == now < MaxTime /\ now' = now + 1 /\ UNCHANGED <<m_orphan_headers, m_peer_orphan_count>>

\* A new process has an empty pool.
ForgetOrphans == m_orphan_headers' = <<>> /\ m_peer_orphan_count' = <<>> /\ UNCHANGED now

PoolNext == AddOrphan \/ ResolveOrphans \/ Tick \/ ForgetOrphans

PoolSpec == PoolInit /\ [][PoolNext]_poolVars

-----------------------------------------------------------------------------
PoolTypeOK ==
  /\ Orphans \subseteq Headers
  /\ m_orphan_headers \in [Orphans -> OrphanHeader]
  /\ DOMAIN m_peer_orphan_count \subseteq Peers
  /\ m_peer_orphan_count \in [DOMAIN m_peer_orphan_count -> Int]
  /\ now \in Nat

\* A peer has an entry in m_peer_orphan_count exactly when the pool holds
\* orphans of it, and the entry is their number: no sequence of additions,
\* evictions and resolutions leaks a count (which would lock a peer out) or
\* an entry.
PeerCountsExact ==
  \A p \in Peers :
    /\ PeerCount(m_peer_orphan_count, p) = Cardinality(HeldFor(p))
    /\ p \in DOMAIN m_peer_orphan_count <=> HeldFor(p) # {}

\* The denial-of-service limits of protocol.hpp hold for the pool itself, not
\* only for the counters the code compares with them.
PoolBounded ==
  /\ Cardinality(Orphans) <= MAX_ORPHAN_HEADERS
  /\ \A p \in Peers : Cardinality(HeldFor(p)) <= MAX_ORPHAN_HEADERS_PER_PEER

\* Eviction is never premature: a step that is not a resolution and puts an
\* orphan out either puts out only orphans past nOrphanHeaderExpireTime, or
\* puts out one orphan of a pool at its limit that none of the others is
\* older than.
EvictionOnlyUnderPressure ==
  [][\A o \in Orphans \ DOMAIN m_orphan_headers' :
       (DOMAIN m_orphan_headers' \ Orphans) # {} =>
         /\ Cardinality(Orphans) >= MAX_ORPHAN_HEADERS
         /\ \/ now - m_orphan_headers[o].nTimeReceived > nOrphanHeaderExpireTime
            \/ /\ Orphans \ DOMAIN m_orphan_headers' = {o}
               /\ \A q \in Orphans :
                    m_orphan_headers[o].nTimeReceived <= m_orphan_headers[q].nTimeReceived]_poolVars

=============================================================================
