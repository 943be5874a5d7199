----------------------------- MODULE Chainstate -----------------------------
(***************************************************************************)
(* ChainstateManager with its BlockManager, ChainSelector and CChain       *)
(* (src/chain/), and the threads that drive it: the network reactor        *)
(* (HeaderSyncManager::HandleHeadersMessage), the miner                    *)
(* (CPUMiner::MiningWorker), the RPC server (invalidateblock), the         *)
(* periodic save thread and the application's start and shutdown.          *)
(*                                                                         *)
(* Every public method of ChainstateManager locks validation_mutex_ for    *)
(* its own duration only, so a step of this specification is one method    *)
(* call.  The callers make several calls in a row (accept, add candidate,  *)
(* activate, then run callbacks) without holding the lock in between:      *)
(* pc[t] is how far thread t has come.                                     *)
(***************************************************************************)
EXTENDS OrphanPool

CONSTANTS
  BadHeaders,            \* fail the contextual check or full proof of work
  EarlyHeaders,          \* near the two-hour limit: the clock decides
  ExpiredHeaders,        \* fail as "network-expired"
  MinedHeaders,          \* found by this node's miner
  suspicious_reorg_depth_,
  MaxInvalidations,      \* bound on invalidateblock calls
  MaxRestarts,           \* bound on crashes and shutdowns
  NoTemplate

ASSUME ChainstateAssumption ==
  /\ BadHeaders \subseteq Headers \ {Genesis}
  /\ EarlyHeaders \subseteq Headers \ {Genesis}
  /\ ExpiredHeaders \subseteq BadHeaders
  /\ MinedHeaders \subseteq Headers \ {Genesis}
  /\ suspicious_reorg_depth_ \in Nat
  /\ MaxInvalidations \in Nat
  /\ MaxRestarts \in Nat
  /\ NoTemplate \notin Headers

VARIABLES
  m_block_index,        \* BlockManager: the headers indexed (all BLOCK_VALID_TREE)
  nStatus,              \* their failure flags
  m_candidates,         \* ChainSelector
  vChain,               \* CChain: height |-> header
  pc,                   \* thread |-> how far its sequence of calls has come
  cur,                  \* thread |-> the header in hand, Genesis when none
  events,               \* thread |-> PendingNotifications not yet dispatched
  netPeer,              \* the peer whose HEADERS message is being handled
  template,             \* hashPrevBlock of the miner's template
  published,            \* mined headers the rest of the network has seen
  delivered,            \* per header: connects minus disconnects delivered
  cascaded,             \* headers accepted by ProcessOrphanHeaders
  shutdown_requested_,  \* Application
  running,              \* the process is up
  saving,               \* Save has truncated headers.json and holds the lock
  disk,                 \* headers.json
  invalidations, restarts

chainVars   == <<m_block_index, nStatus, m_candidates, vChain>>
threadVars  == <<pc, cur, events, netPeer, template>>
hostVars    == <<running, saving, disk, restarts>>
vars == <<poolVars, chainVars, threadVars, published, delivered, cascaded,
          shutdown_requested_, hostVars, invalidations>>

Threads == {"net", "miner", "rpc"}
FailedFlags == {"FAILED_VALID", "FAILED_CHILD"}
NoFile == [state |-> "absent", index |-> {}, status |-> [h \in Headers |-> {}]]

Tip == vChain[Len(vChain)]

Failed(h) == nStatus[h] # {}

IsParent(g, h) == h # Genesis /\ g = pprev(h)

HasChildren(index, h) == \E c \in index : IsParent(h, c)

\* The method can take validation_mutex_.
Unlocked == running /\ ~saving

-----------------------------------------------------------------------------
(* AcceptBlockHeader *)

\* Seeded fault of AcceptResult: the parent's failure flags are not looked at.
AcceptResultIgnoringParent(h, bad) ==
  IF h \in m_block_index THEN IF Failed(h) THEN "duplicate" ELSE "known"
  ELSE IF pprev(h) \notin m_block_index THEN "prev-blk-not-found"
  ELSE IF h \in bad THEN "invalid"
  ELSE "new"

\* The reject reason, or "known" / "new" when an index entry is returned;
\* bad is the set of headers that fail steps 7 and 8.
AcceptResult(h, bad) ==
  IF h \in m_block_index THEN IF Failed(h) THEN "duplicate" ELSE "known"
  ELSE IF pprev(h) \notin m_block_index THEN "prev-blk-not-found"
  ELSE IF Failed(pprev(h)) THEN "bad-prevblk"
  ELSE IF h \in bad THEN "invalid"
  ELSE "new"

\* Seeded fault of ResolvedBy: no recursion to the children of an orphan.
ResolvedOneLevel(h, bad) == {o \in Orphans : IsParent(h, o)}

\* The orphans ProcessOrphanHeaders reaches from a header h just added: it
\* recurses through every orphan that is accepted in turn.
ResolvedBy(h, bad) ==
  {o \in Orphans :
     /\ o # h /\ DescendsFrom(o, h)
     /\ \A n \in nHeight(h) + 1 .. nHeight(o) - 1 : GetAncestor(o, n) \in Orphans \ bad}

ProcessOrphanHeaders(S) == TakeOrphans(S)

\* Seeded fault of Indexed: the resolved orphans enter the index, the header
\* that resolved them does not.
IndexedWithoutHeader(h, accepted) == m_block_index \cup accepted

\* AddToBlockIndex for h and for the orphans accepted after it.
Indexed(h, accepted) == m_block_index \cup {h} \cup accepted

\* The effect on the index, the pool and the shutdown flag
\* (NotifyNetworkExpired is raised inside the contextual check).
AcceptBlockHeader(h, bad) ==
  LET result   == AcceptResult(h, bad)
      resolved == IF result = "new" THEN ResolvedBy(h, bad) ELSE {}
      checked  == resolved \cup (IF result \in {"new", "invalid"} THEN {h} ELSE {})
  IN  /\ m_block_index' = IF result = "new"
                          THEN Indexed(h, resolved \ bad)
                          ELSE m_block_index
      /\ ProcessOrphanHeaders(resolved)
      /\ cascaded' = cascaded \cup (resolved \ bad)
      /\ shutdown_requested_' = (shutdown_requested_ \/ checked \cap ExpiredHeaders # {})
      /\ UNCHANGED <<nStatus, m_candidates, vChain, now>>

\* Headers rejected for their contents at this moment.
Bad(early) == BadHeaders \cup early

-----------------------------------------------------------------------------
(* The network thread: HandleHeadersMessage *)

\* The message's next header: the headers are continuous (the check at line
\* 295), and a peer cannot have a header built on one this node has mined
\* and not yet announced.
NextInMessage(h, p) ==
  /\ \A i \in 1..Len(PathTo[h]) : PathTo[h][i] \in MinedHeaders => PathTo[h][i] \in published
  /\ \/ pc["net"] = "idle"
     \/ pc["net"] = "added" /\ p = netPeer /\ IsParent(cur["net"], h)

\* After a rejection the loop goes on when the peer was already penalised for
\* this header (or DoS checks are off), and leaves the handler otherwise;
\* "network-expired" always leaves it.  Leaving skips ActivateBestChain.
AfterAccept(h, result) ==
  CASE result \in {"new", "known"}       -> {"accepted"}
    [] result = "prev-blk-not-found"     -> {"orphan"}
    [] result = "invalid" /\ h \in ExpiredHeaders -> {"idle"}
    [] OTHER                             -> {"added", "idle"}

HandleHeader(h, p) ==
  /\ Unlocked
  /\ NextInMessage(h, p)
  /\ \E early \in SUBSET EarlyHeaders :
       /\ AcceptBlockHeader(h, Bad(early))
       /\ \E next \in AfterAccept(h, AcceptResult(h, Bad(early))) :
            /\ pc' = [pc EXCEPT !["net"] = next]
            /\ cur' = [cur EXCEPT !["net"] = IF next = "idle" THEN Genesis ELSE h]
  /\ netPeer' = p
  /\ UNCHANGED <<events, template, published, delivered, hostVars, invalidations>>

\* Seeded fault of AddOrphanHeader: an orphan that is sent again counts as
\* received now.
AddOrphanHeaderAgain ==
  /\ Unlocked
  /\ pc["net"] = "orphan"
  /\ IF cur["net"] \in Orphans
     THEN /\ m_orphan_headers' = [m_orphan_headers EXCEPT ![cur["net"]].nTimeReceived = now]
          /\ UNCHANGED m_peer_orphan_count
     ELSE TryAddOrphanHeader(cur["net"], netPeer)
  /\ IF OrphanAccepted(cur["net"], netPeer)
     THEN pc' = [pc EXCEPT !["net"] = "added"] /\ UNCHANGED cur
     ELSE pc' = [pc EXCEPT !["net"] = "idle"] /\ cur' = [cur EXCEPT !["net"] = Genesis]
  /\ UNCHANGED <<now, chainVars, events, netPeer, template, published, delivered,
                 cascaded, shutdown_requested_, hostVars, invalidations>>

AddOrphanHeader ==
  /\ Unlocked
  /\ pc["net"] = "orphan"
  /\ TryAddOrphanHeader(cur["net"], netPeer)
  /\ IF OrphanAccepted(cur["net"], netPeer)
     THEN pc' = [pc EXCEPT !["net"] = "added"] /\ UNCHANGED cur
     ELSE pc' = [pc EXCEPT !["net"] = "idle"] /\ cur' = [cur EXCEPT !["net"] = Genesis]
  /\ UNCHANGED <<now, chainVars, events, netPeer, template, published, delivered,
                 cascaded, shutdown_requested_, hostVars, invalidations>>

-----------------------------------------------------------------------------
(* The miner thread: MiningWorker and ProcessNewBlockHeader *)

CreateBlockTemplate ==
  /\ Unlocked
  /\ pc["miner"] = "idle"
  /\ template # Tip
  /\ template' = Tip
  /\ UNCHANGED <<poolVars, chainVars, pc, cur, events, netPeer, published, delivered,
                 cascaded, shutdown_requested_, hostVars, invalidations>>

\* A nonce is found on the template, which may be stale by now.
MineBlock(h) ==
  /\ Unlocked
  /\ pc["miner"] = "idle"
  /\ h \in MinedHeaders \ (published \cup m_block_index)
  /\ template = pprev(h)
  /\ AcceptBlockHeader(h, BadHeaders)
  /\ IF AcceptResult(h, BadHeaders) = "new"
     THEN /\ pc' = [pc EXCEPT !["miner"] = "accepted"]
          /\ cur' = [cur EXCEPT !["miner"] = h]
     ELSE UNCHANGED <<pc, cur>>
  /\ UNCHANGED <<events, netPeer, template, published, delivered, hostVars, invalidations>>

-----------------------------------------------------------------------------
(* Candidates *)

\* Seeded fault of WithCandidate: only a header that extends a candidate is
\* inserted.
WithExtendingCandidate(h) ==
  IF Failed(h) \/ HasChildren(m_block_index, h) \/ ~\E c \in m_candidates : IsParent(c, h)
  THEN m_candidates
  ELSE {c \in m_candidates : ~IsParent(c, h)} \cup {h}

\* ChainSelector::TryAddBlockIndexCandidate: a valid leaf replaces its parent.
WithCandidate(h) ==
  IF Failed(h) \/ HasChildren(m_block_index, h)
  THEN m_candidates
  ELSE {c \in m_candidates : ~IsParent(c, h)} \cup {h}

TryAddBlockIndexCandidate(t) ==
  /\ Unlocked
  /\ pc[t] = "accepted"
  /\ m_candidates' = WithCandidate(cur[t])
  /\ pc' = [pc EXCEPT ![t] = "added"]
  /\ UNCHANGED <<poolVars, m_block_index, nStatus, vChain, cur, events, netPeer, template,
                 published, delivered, cascaded, shutdown_requested_, hostVars, invalidations>>

\* ChainSelector::PruneBlockIndexCandidates once newChain is active: only
\* leaves off the chain with at least the tip's work stay.
PruneBlockIndexCandidates(cands, newChain) ==
  {c \in cands :
     /\ nChainWork[c] >= nChainWork[newChain[Len(newChain)]]
     /\ ~Contains(newChain, c)
     /\ ~HasChildren(m_block_index, c)
     /\ ~Failed(c)}

-----------------------------------------------------------------------------
(* ActivateBestChain *)

Event(type, h) == [type |-> type, header |-> h]

\* Seeded fault of ConnectEvents: the first block after the fork is missed.
ConnectEventsAfterFirst(fork, h) ==
  [i \in 1..(nHeight(h) - nHeight(fork) - 1) |->
     Event("BlockConnected", GetAncestor(h, nHeight(fork) + i + 1))]

\* DisconnectTip from the tip down to fork, and ConnectTip from fork up to h.
DisconnectEvents(fork) ==
  [i \in 1..(Len(vChain) - 1 - nHeight(fork)) |->
     Event("BlockDisconnected", vChain[Len(vChain) + 1 - i])]

ConnectEvents(fork, h) ==
  [i \in 1..(nHeight(h) - nHeight(fork)) |->
     Event("BlockConnected", GetAncestor(h, nHeight(fork) + i))]

\* Seeded fault of PolicyRefused: off by one in the depth.
PolicyRefusedBeyondDepth(c) ==
  /\ nChainWork[c] > nChainWork[Tip]
  /\ suspicious_reorg_depth_ > 0
  /\ nHeight(Tip) - nHeight(LastCommonAncestor(Tip, c)) > suspicious_reorg_depth_

\* ActivateBestChainStep's policy guard, for a candidate with more work.
PolicyRefused(c) ==
  /\ nChainWork[c] > nChainWork[Tip]
  /\ suspicious_reorg_depth_ > 0
  /\ nHeight(Tip) - nHeight(LastCommonAncestor(Tip, c)) >= suspicious_reorg_depth_

\* The candidates the loop discards from the front of the set, in the order
\* of CBlockIndexWorkComparator: failed ones (FindMostWorkChain) and refused
\* ones (RemoveCandidate).
Discarded ==
  {c \in m_candidates : \A d \in m_candidates :
     d = c \/ ComesBefore(d, c) => Failed(d) \/ PolicyRefused(d)}

\* The candidate the loop stops at, as a set of at most one header.
MostWork ==
  {c \in m_candidates \ Discarded : \A d \in m_candidates \ Discarded :
     d = c \/ ComesBefore(c, d)}

\* Seeded fault of NewTips: equal work is enough to switch.
NewTipsOnTies == {c \in MostWork : nChainWork[c] >= nChainWork[Tip]}

\* The candidate ActivateBestChainStep switches to, if any.
NewTips == {c \in MostWork : nChainWork[c] > nChainWork[Tip]}

\* CChain after DisconnectTip back to the fork and ConnectTip up to h.
ChainTo(h) == SetTip(vChain, h)

ActivateBestChain(t) ==
  /\ Unlocked
  /\ pc[t] = "added"
  /\ shutdown_requested_' = (shutdown_requested_ \/ \E c \in Discarded : ~Failed(c))
  /\ IF NewTips = {}
     THEN /\ m_candidates' = m_candidates \ Discarded
          /\ pc' = [pc EXCEPT ![t] = "idle"]
          /\ UNCHANGED <<vChain, events, published>>
     ELSE \E h \in NewTips :
          LET fork == LastCommonAncestor(Tip, h)
          IN  /\ vChain' = ChainTo(h)
              /\ m_candidates' = PruneBlockIndexCandidates(m_candidates \ Discarded, ChainTo(h))
              /\ events' = [events EXCEPT ![t] =
                              DisconnectEvents(fork) \o ConnectEvents(fork, h)
                                \o <<Event("ChainTip", h)>>]
              /\ published' = published \cup {m \in MinedHeaders : DescendsFrom(h, m)}
              /\ pc' = [pc EXCEPT ![t] = "dispatch"]
  /\ cur' = [cur EXCEPT ![t] = Genesis]
  /\ UNCHANGED <<poolVars, m_block_index, nStatus, netPeer, template, delivered,
                 cascaded, hostVars, invalidations>>

\* Delivery of one queued event, after the lock was released.
Dispatch(t) ==
  LET ev == Head(events[t])
  IN  /\ running
      /\ pc[t] = "dispatch"
      /\ delivered' = [delivered EXCEPT ![ev.header] =
                         CASE ev.type = "BlockConnected"    -> @ + 1
                           [] ev.type = "BlockDisconnected" -> @ - 1
                           [] OTHER                         -> @]
      /\ events' = [events EXCEPT ![t] = Tail(@)]
      /\ pc' = [pc EXCEPT ![t] = IF Len(events[t]) = 1 THEN "idle" ELSE "dispatch"]
      /\ UNCHANGED <<poolVars, chainVars, cur, netPeer, template, published, cascaded,
                     shutdown_requested_, hostVars, invalidations>>

-----------------------------------------------------------------------------
(* InvalidateBlock, called by the RPC thread *)

StatusAfterInvalidate(h) ==
  [b \in Headers |->
     IF b = h THEN nStatus[b] \cup {"FAILED_VALID"}
     ELSE IF b \in m_block_index /\ DescendsFrom(b, h)
          THEN (nStatus[b] \ {"FAILED_VALID"}) \cup {"FAILED_CHILD"}
     ELSE nStatus[b]]

\* Off-chain valid blocks the disconnect loop makes candidates on its way
\* down to newTip, and newTip itself.
FallbackCandidates(newTip) ==
  {newTip} \cup {b \in m_block_index :
     ~Contains(vChain, b) /\ nChainWork[b] >= nChainWork[newTip] /\ ~Failed(b)}

InvalidateBlock(h) ==
  LET onChain == Contains(vChain, h)
      newTip  == IF onChain THEN pprev(h) ELSE Tip
      status  == StatusAfterInvalidate(h)
      added   == IF onChain THEN FallbackCandidates(newTip) ELSE {}
      leaves  == {b \in m_block_index : /\ status[b] = {}
                                        /\ nChainWork[b] >= nChainWork[newTip]
                                        /\ ~HasChildren(m_block_index, b)}
  IN  /\ Unlocked
      /\ pc["rpc"] = "idle"
      /\ invalidations < MaxInvalidations
      /\ h \in m_block_index \ {Genesis}
      /\ vChain' = ChainTo(newTip)
      /\ nStatus' = status
      /\ m_candidates' = {c \in m_candidates \cup added : ~DescendsFrom(c, h)} \cup leaves
      /\ events' = [events EXCEPT !["rpc"] = DisconnectEvents(newTip)]
      /\ pc' = [pc EXCEPT !["rpc"] = IF onChain THEN "dispatch" ELSE "idle"]
      /\ invalidations' = invalidations + 1
      /\ UNCHANGED <<poolVars, m_block_index, cur, netPeer, template, published, delivered,
                     cascaded, shutdown_requested_, hostVars>>

-----------------------------------------------------------------------------
(* headers.json, start and stop *)

\* BlockManager::Save opens (truncates) the file and writes it, under
\* validation_mutex_; a crash between the two leaves a file Load rejects.
\* (A save no restart can follow changes nothing anyone reads.)
SaveBegin ==
  /\ Unlocked
  /\ restarts < MaxRestarts
  /\ saving' = TRUE
  /\ disk' = [NoFile EXCEPT !.state = "torn"]
  /\ UNCHANGED <<poolVars, chainVars, threadVars, published, delivered, cascaded,
                 shutdown_requested_, running, restarts, invalidations>>

SavedFile == [state |-> "saved", index |-> m_block_index, status |-> nStatus]

SaveEnd ==
  /\ running /\ saving
  /\ saving' = FALSE
  /\ disk' = SavedFile
  /\ UNCHANGED <<poolVars, chainVars, threadVars, published, delivered, cascaded,
                 shutdown_requested_, running, restarts, invalidations>>

\* The process is gone, and with it every thread.
Stopped ==
  /\ restarts < MaxRestarts
  /\ restarts' = restarts + 1
  /\ running' = FALSE
  /\ saving' = FALSE
  /\ pc' = [t \in Threads |-> "idle"]
  /\ cur' = [t \in Threads |-> Genesis]
  /\ events' = [t \in Threads |-> <<>>]
  /\ template' = NoTemplate
  /\ UNCHANGED <<poolVars, chainVars, netPeer, published, delivered, cascaded,
                 shutdown_requested_, invalidations>>

Crash == running /\ Stopped /\ UNCHANGED disk

\* signal_handler, or the RPC command "stop"
RequestShutdown ==
  /\ running
  /\ ~shutdown_requested_
  /\ restarts < MaxRestarts
  /\ shutdown_requested_' = TRUE
  /\ UNCHANGED <<poolVars, chainVars, threadVars, published, delivered, cascaded, hostVars,
                 invalidations>>

\* Application::shutdown joins the save thread, stops RPC, miner and
\* network, then saves.
Shutdown ==
  /\ Unlocked
  /\ shutdown_requested_
  /\ \A t \in Threads : pc[t] = "idle"
  /\ disk' = SavedFile
  /\ Stopped

\* Seeded fault of BestLoaded: the tallest header instead of the heaviest.
TallestLoaded(file) ==
  {h \in file.index :
     /\ file.status[h] = {}
     /\ \A g \in file.index : file.status[g] = {} =>
          \/ nHeight(g) < nHeight(h)
          \/ nHeight(g) = nHeight(h) /\ h <= g}

\* BlockManager::Load: the non-failed header with most work, the first in
\* hash order among equals.
BestLoaded(file) ==
  {h \in file.index :
     /\ file.status[h] = {}
     /\ \A g \in file.index : file.status[g] = {} =>
          \/ nChainWork[g] < nChainWork[h]
          \/ nChainWork[g] = nChainWork[h] /\ h <= g}

LoadedCandidates(file) ==
  {h \in file.index : file.status[h] = {} /\ ~HasChildren(file.index, h)}

\* The second pass of Load: one genesis, and the parent of every other entry.
ParentsFound(file) ==
  /\ Genesis \in file.index
  /\ \A h \in file.index \ {Genesis} : pprev(h) \in file.index

\* Load takes the file: it is there, it is whole, and its entries are a tree.
\* What Save wrote passes the checks of versions, fields and hashes.
Loadable(file) == file.state = "saved" /\ ParentsFound(file)

\* Application::init_chain: Load, or Initialize with genesis.
Start ==
  /\ ~running
  /\ running' = TRUE
  /\ shutdown_requested_' = FALSE
  /\ IF Loadable(disk)
     THEN /\ m_block_index' = disk.index
          /\ nStatus' = disk.status
          /\ m_candidates' = LoadedCandidates(disk)
          /\ \E h \in BestLoaded(disk) : vChain' = SetTip(<<>>, h)
     ELSE /\ m_block_index' = {Genesis}
          /\ nStatus' = [h \in Headers |-> {}]
          /\ m_candidates' = {Genesis}
          /\ vChain' = <<Genesis>>
  /\ m_orphan_headers' = <<>>
  /\ m_peer_orphan_count' = <<>>
  /\ cascaded' = {}
  /\ delivered' = [h \in Headers |-> IF Contains(vChain', h) THEN 1 ELSE 0]
  /\ UNCHANGED <<now, threadVars, published, saving, disk, restarts, invalidations>>

-----------------------------------------------------------------------------
Init ==
  /\ PoolInit
  /\ m_block_index = {Genesis}
  /\ nStatus = [h \in Headers |-> {}]
  /\ m_candidates = {Genesis}
  /\ vChain = <<Genesis>>
  /\ pc = [t \in Threads |-> "idle"]
  /\ cur = [t \in Threads |-> Genesis]
  /\ events = [t \in Threads |-> <<>>]
  /\ netPeer \in Peers
  /\ template = NoTemplate
  /\ published = {}
  /\ delivered = [h \in Headers |-> IF h = Genesis THEN 1 ELSE 0]
  /\ cascaded = {}
  /\ shutdown_requested_ = FALSE
  /\ running = TRUE
  /\ saving = FALSE
  /\ disk = NoFile
  /\ invalidations = 0
  /\ restarts = 0

ClockTick ==
  /\ running
  /\ Tick
  /\ UNCHANGED <<chainVars, threadVars, published, delivered, cascaded, shutdown_requested_,
                 hostVars, invalidations>>

ThreadStep(t) ==
  TryAddBlockIndexCandidate(t) \/ ActivateBestChain(t) \/ Dispatch(t)

Next ==
  \/ \E h \in Headers, p \in Peers : HandleHeader(h, p)
  \/ AddOrphanHeader
  \/ CreateBlockTemplate
  \/ \E h \in MinedHeaders : MineBlock(h)
  \/ \E t \in Threads : ThreadStep(t)
  \/ \E h \in Headers : InvalidateBlock(h)
  \/ SaveBegin
  \/ SaveEnd
  \/ Crash
  \/ RequestShutdown
  \/ Shutdown
  \/ Start
  \/ ClockTick

Spec == Init /\ [][Next]_vars

\* A thread inside a method call sequence goes on: the reactor, the miner and
\* the RPC worker are runnable, and validation_mutex_ comes free again and
\* again, saves being minutes apart.
Fairness ==
  /\ \A t \in Threads : SF_vars(ThreadStep(t))
  /\ SF_vars(AddOrphanHeader)
  /\ WF_vars(SaveEnd)

FairSpec == Spec /\ Fairness

-----------------------------------------------------------------------------
EventTypes == {"BlockConnected", "BlockDisconnected", "ChainTip"}

TypeOK ==
  /\ PoolTypeOK
  /\ m_block_index \subseteq Headers
  /\ nStatus \in [Headers -> SUBSET FailedFlags]
  /\ m_candidates \subseteq m_block_index
  /\ vChain \in Seq(Headers) /\ vChain # <<>>
  /\ pc \in [Threads -> {"idle", "orphan", "accepted", "added", "dispatch"}]
  /\ cur \in [Threads -> Headers]
  /\ events \in [Threads -> Seq([type : EventTypes, header : Headers])]
  /\ \A t \in Threads : events[t] # <<>> <=> pc[t] = "dispatch"
  /\ netPeer \in Peers
  /\ template \in Headers \cup {NoTemplate}
  /\ published \subseteq MinedHeaders
  /\ delivered \in [Headers -> Int]
  /\ cascaded \subseteq m_block_index
  /\ shutdown_requested_ \in BOOLEAN /\ running \in BOOLEAN /\ saving \in BOOLEAN
  /\ disk \in [state : {"absent", "torn", "saved"}, index : SUBSET Headers,
               status : [Headers -> SUBSET FailedFlags]]
  /\ invalidations \in Nat /\ restarts \in Nat

\* The vector CChain keeps is the pprev walk of its last entry (SetTip's early
\* exit never leaves a block of an abandoned branch in it), every block of it
\* is indexed, and none is marked failed: no interleaving of activation,
\* invalidateblock and restart leaves an invalid block active.
ActiveChainValid ==
  /\ vChain = PathTo[Tip]
  /\ \A i \in 1..Len(vChain) : vChain[i] \in m_block_index /\ ~Failed(vChain[i])

\* The index is a tree (a parent is indexed before its child, also when a
\* chain of orphans is resolved) and failure is inherited: no descendant of a
\* block that InvalidateBlock marked is ever left, or later added, as valid.
FailureInherited ==
  \A h \in m_block_index \ {Genesis} :
    /\ pprev(h) \in m_block_index
    /\ Failed(pprev(h)) => Failed(h)

\* No heavier leaf is forgotten: a valid header without children that has
\* more work than the tip is a candidate, or about to be made one by the
\* thread that accepted it, or was refused as a suspicious reorg (and the
\* node is shutting down).  Headers that entered through the orphan pool are
\* the exception, see OrphanLeavesAreCandidates.
HeavierLeavesAreCandidates ==
  running => \A h \in m_block_index :
    \/ Failed(h) \/ HasChildren(m_block_index, h)
    \/ nChainWork[h] <= nChainWork[Tip]
    \/ h \in m_candidates
    \/ \E t \in Threads : pc[t] = "accepted" /\ cur[t] = h
    \/ shutdown_requested_
    \/ h \in cascaded

\* chain_selector.hpp:31 says of m_candidates "Maintains set of leaf nodes
\* (validated to BLOCK_VALID_TREE) that could be chain tips", and
\* chain_selector.cpp:91 that a header passed to TryAddBlockIndexCandidate is
\* "guaranteed to be a leaf": so no valid leaf with more work than the tip is
\* missing once the handler that accepted it has returned.
OrphanLeavesAreCandidates ==
  (\A t \in Threads : pc[t] = "idle") =>
    \A h \in m_block_index :
      \/ Failed(h) \/ HasChildren(m_block_index, h)
      \/ nChainWork[h] <= nChainWork[Tip]
      \/ h \in m_candidates
      \/ shutdown_requested_

\* Every orphan really waits: its parent is not in the index, whatever other
\* thread extended the index between the lookup in AcceptBlockHeader and
\* AddOrphanHeader; nothing is stuck in the pool that could be accepted.
OrphansWait == \A o \in Orphans : pprev(o) \notin m_block_index

\* How often an event is queued, and the connects minus the disconnects of h.
Queued(queue, event) == Cardinality({i \in 1..Len(queue) : queue[i] = event})

Balance(queue, h) ==
  Queued(queue, Event("BlockConnected", h)) - Queued(queue, Event("BlockDisconnected", h))

\* Subscribers can rebuild the active chain from the events they get: for each
\* header, the connects minus the disconnects delivered to them and still
\* queued in some thread are 1 on the active chain and 0 off it, although the
\* events of different threads are delivered in any order.
EventsMatchChain ==
  running => \A h \in Headers :
    delivered[h] + Balance(events["net"], h) + Balance(events["miner"], h)
      + Balance(events["rpc"], h) = IF Contains(vChain, h) THEN 1 ELSE 0

\* Whatever the candidate set holds, a step that is neither invalidateblock
\* nor a start disconnects fewer than suspicious_reorg_depth_ blocks.
ReorgDepthBounded ==
  [][invalidations' = invalidations /\ running /\ suspicious_reorg_depth_ > 0 =>
       Cardinality({i \in 1..Len(vChain) : ~Contains(vChain', vChain[i])})
         < suspicious_reorg_depth_]_vars

\* Starting from the file the previous process wrote as it shut down gives a
\* chain of at least the old tip's work: what Save leaves out (the active
\* chain, the candidates) is recomputed without loss.
CleanRestartKeepsWork ==
  [][Start /\ disk = SavedFile => nChainWork[Tip'] >= nChainWork[Tip]]_vars

\* A block found by the miner does not get lost between the three calls of
\* ProcessNewBlockHeader: the tip comes to have at least its work, unless it
\* is invalidated, the node stops, or a reorg was refused as suspicious.
MinedBlockActivated ==
  \A h \in MinedHeaders :
    (pc["miner"] = "accepted" /\ cur["miner"] = h) ~>
      (nChainWork[Tip] >= nChainWork[h] \/ Failed(h) \/ shutdown_requested_ \/ ~running)

\* Chainstate implements the abstract promise: known headers only attach to
\* valid ones, the tip only moves to a valid header with more work, falls back
\* only to the parent of an invalidated block, and comes up after a restart at
\* the heaviest valid header that was saved.
Promise == INSTANCE BestChain
  WITH known <- m_block_index, condemned <- {h \in m_block_index : Failed(h)},
       tip <- Tip, up <- running

ImplementsBestChain == Promise!Spec

\* The pool as AcceptBlockHeader, AddOrphanHeader and a restart use it is the
\* pool module OrphanPool specifies, so what is proved there holds here.
ImplementsOrphanPool == PoolSpec

=============================================================================
