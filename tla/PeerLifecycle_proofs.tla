------------------------ MODULE PeerLifecycle_proofs ------------------------
(***************************************************************************)
(* The slots and the follow-up of dials, for any addresses, limits and     *)
(* number of peers.                                                        *)
(***************************************************************************)
EXTENDS PeerLifecycle, FiniteSetTheorems, TLAPS

\* What a thread has on the way into the table is a peer it created itself;
\* only the transport thread creates inbound peers, and it inserts in one step.
OwnOK(held) ==
    /\ held \in [Threads -> Allocated \cup {NoPeer}]
    /\ \A t \in Threads : held[t] # NoPeer =>
          /\ info[held[t]].by = t
          /\ info[held[t]].kind = "inbound" <=> t = "transport"

TypesOK ==
    /\ info \in Seq(PeerInfo)
    /\ peers \subseteq Allocated /\ dialing \subseteq Allocated
    /\ started \subseteq peers
    /\ posted \subseteq Allocated \X BOOLEAN
    /\ OwnOK(checked) /\ OwnOK(adding)
    /\ adding["transport"] = NoPeer

\* The result of the dial is still to come, or to be handled.
Pending(id) == id \in dialing \/ \E ok \in BOOLEAN : <<id, ok>> \in posted

\* A callback cannot overtake the reactor's own insertion, which is what makes
\* DialsFollowedUp inductive.
DialsInv ==
    /\ TypesOK
    /\ checked["reactor"] # NoPeer => Pending(checked["reactor"])
    /\ adding["reactor"] # NoPeer => Pending(adding["reactor"])
    /\ DialsFollowedUp

-----------------------------------------------------------------------------
LEMMA AllocateFacts ==
    ASSUME TypesOK, NEW t \in Threads, NEW a \in Addresses,
           NEW kind \in {"inbound", "outbound", "feeler"},
           kind = "inbound" <=> t = "transport",
           Allocate(t, a, kind)
    PROVE  /\ Len(info) \in Nat /\ Len(info') = Len(info) + 1
           /\ info' \in Seq(PeerInfo)
           /\ Allocated \subseteq Allocated'
           /\ Len(info') \in Allocated' /\ Len(info') \notin Allocated
           /\ \A id \in Allocated : info'[id] = info[id]
           /\ info'[Len(info')] = [addr |-> a, kind |-> kind, by |-> t]
           /\ OwnOK(checked)' /\ OwnOK(adding)'
           /\ checked' = [checked EXCEPT ![t] = Len(info')]
           /\ checked[t] = NoPeer /\ adding[t] = NoPeer
<1> DEFINE p == [addr |-> a, kind |-> kind, by |-> t]
<1>1. /\ p \in PeerInfo /\ info \in Seq(PeerInfo) /\ info' = Append(info, p)
      /\ checked' = [checked EXCEPT ![t] = Len(info')] /\ adding' = adding
      /\ checked[t] = NoPeer /\ adding[t] = NoPeer
  BY DEF TypesOK, Allocate, Idle, PeerInfo
<1>2. /\ Len(info) \in Nat /\ Len(info') = Len(info) + 1 /\ info' \in Seq(PeerInfo)
      /\ \A id \in 1..Len(info) : info'[id] = info[id]
      /\ info'[Len(info')] = p
  BY <1>1
<1>3. /\ Allocated \subseteq Allocated'
      /\ Len(info') \in Allocated' /\ Len(info') \notin Allocated
  BY <1>2 DEF Allocated
<1>4. OwnOK(checked)'
  <2>1. checked' \in [Threads -> Allocated' \cup {NoPeer}]
    BY <1>1, <1>3 DEF TypesOK, OwnOK
  <2>2. ASSUME NEW u \in Threads, checked'[u] # NoPeer
        PROVE  /\ info'[checked'[u]].by = u
               /\ info'[checked'[u]].kind = "inbound" <=> u = "transport"
    <3>1. CASE u = t
      <4>1. checked'[u] = Len(info')
        BY <1>1, <3>1 DEF TypesOK, OwnOK
      <4> QED
        BY <1>2, <3>1, <4>1
    <3>2. CASE u # t
      <4>1. checked'[u] = checked[u] /\ checked[u] \in Allocated
        BY <1>1, <2>2, <3>2 DEF TypesOK, OwnOK
      <4> QED
        BY <1>2, <2>2, <4>1 DEF TypesOK, OwnOK, Allocated
    <3> QED
      BY <3>1, <3>2
  <2> QED
    BY <2>1, <2>2 DEF OwnOK
<1>5. OwnOK(adding)'
  BY <1>1, <1>2, <1>3 DEF TypesOK, OwnOK, Allocated
<1> QED
  BY <1>1, <1>2, <1>3, <1>4, <1>5 DEF Allocated

\* The steps that create a peer.
LEMMA AllocateStep ==
    ASSUME DialsInv, NEW t \in Threads, NEW a \in Addresses,
           NEW kind \in {"inbound", "outbound", "feeler"},
           kind = "inbound" <=> t = "transport",
           Allocate(t, a, kind),
           dialing' = dialing \cup (IF kind = "inbound" THEN {} ELSE {Len(info')})
    PROVE  DialsInv'
<1>1. TypesOK
  BY DEF DialsInv
<1>2. UNCHANGED <<peers, started, posted, adding>>
  BY DEF Allocate
<1>3. TypesOK'
  BY <1>1, <1>2, AllocateFacts DEF TypesOK
<1>4. \A id : Pending(id) => Pending(id)'
  BY <1>2 DEF Pending
<1>5. checked'["reactor"] # NoPeer => Pending(checked["reactor"])'
  <2>1. /\ checked \in [Threads -> Allocated \cup {NoPeer}]
        /\ checked' = [checked EXCEPT ![t] = Len(info')]
    BY <1>1 DEF TypesOK, OwnOK, Allocate
  <2>2. "reactor" \in Threads
    BY DEF Threads, Connectors
  <2>3. CASE t = "reactor"
    <3>1. checked'["reactor"] = Len(info') /\ Len(info') \in dialing'
      BY <2>1, <2>2, <2>3
    <3> QED
      BY <3>1 DEF Pending
  <2>4. CASE t # "reactor"
    <3>1. checked'["reactor"] = checked["reactor"]
      BY <2>1, <2>2, <2>4
    <3> QED
      BY <1>4, <3>1 DEF DialsInv, Pending
  <2> QED
    BY <2>3, <2>4
<1>6. adding'["reactor"] # NoPeer => Pending(adding["reactor"])'
  BY <1>2, <1>4 DEF DialsInv, Pending
<1>7. DialsFollowedUp'
  <2> SUFFICES ASSUME NEW id \in peers', info'[id].by = "reactor"
               PROVE  id \in started' \/ Pending(id)'
    BY DEF DialsFollowedUp, Pending
  <2>1. id \in peers /\ id \in Allocated /\ info[id].by = "reactor"
    BY <1>1, <1>2, AllocateFacts DEF TypesOK
  <2>2. id \in started \/ Pending(id)
    BY <2>1 DEF DialsInv, DialsFollowedUp, Pending
  <2> QED
    BY <1>2, <1>4, <2>2
<1> QED
  BY <1>3, <1>5, <1>6, <1>7 DEF DialsInv

LEMMA AddStep ==
    ASSUME DialsInv, NEW t \in Threads, AddPeerWithId(t) \/ InsertPeer(t)
    PROVE  DialsInv'
<1>1. /\ TypesOK
      /\ checked \in [Threads -> Allocated \cup {NoPeer}]
      /\ adding \in [Threads -> Allocated \cup {NoPeer}]
  BY DEF DialsInv, TypesOK, OwnOK
<1>2. {"reactor", "transport"} \subseteq Threads /\ "reactor" # "transport"
  BY DEF Threads, Connectors
<1>3. UNCHANGED <<info, started, dialing, posted>> /\ Allocated' = Allocated
  BY DEF AddPeerWithId, InsertPeer, Allocated
<1>4. CASE AddPeerWithId(t)
  <2>1. /\ checked[t] # NoPeer /\ peers' = peers
        /\ checked' = [checked EXCEPT ![t] = NoPeer]
        /\ adding' = adding \/ adding' = [adding EXCEPT ![t] = checked[t]]
        /\ t # "transport"
    BY <1>4 DEF AddPeerWithId, Connectors
  <2>2. /\ \A u \in Threads : checked'[u] \in {checked[u], NoPeer}
        /\ \A u \in Threads : adding'[u] = adding[u] \/ adding'[u] = checked[u]
        /\ adding'["transport"] = adding["transport"]
    BY <1>1, <1>2, <2>1
  <2>3. /\ checked' \in [Threads -> Allocated \cup {NoPeer}]
        /\ adding' \in [Threads -> Allocated \cup {NoPeer}]
    BY <1>1, <2>1
  <2>4. OwnOK(checked)' /\ OwnOK(adding)'
    BY <1>1, <1>3, <2>2, <2>3 DEF TypesOK, OwnOK
  <2>5. TypesOK'
    BY <1>1, <1>3, <2>1, <2>2, <2>4 DEF TypesOK
  <2> QED
    BY <1>2, <1>3, <2>1, <2>2, <2>5 DEF DialsInv, Pending, DialsFollowedUp
<1>5. CASE InsertPeer(t)
  <2>1. /\ adding[t] # NoPeer /\ checked' = checked
        /\ peers' = peers \cup {adding[t]}
        /\ adding' = [adding EXCEPT ![t] = NoPeer]
    BY <1>5 DEF InsertPeer
  <2>2. /\ \A u \in Threads : adding'[u] \in {adding[u], NoPeer}
        /\ adding' \in [Threads -> Allocated \cup {NoPeer}]
        /\ adding[t] \in Allocated
    BY <1>1, <2>1
  <2>3. OwnOK(checked)' /\ OwnOK(adding)'
    BY <1>1, <1>3, <2>1, <2>2 DEF TypesOK, OwnOK
  <2>4. TypesOK'
    BY <1>1, <1>2, <1>3, <2>1, <2>2, <2>3 DEF TypesOK
  <2>5. info[adding[t]].by = t
    BY <1>1, <2>1 DEF TypesOK, OwnOK
  <2>6. DialsFollowedUp'
    BY <1>3, <2>1, <2>5 DEF DialsInv, Pending, DialsFollowedUp
  <2> QED
    BY <1>2, <1>3, <2>1, <2>2, <2>4, <2>6 DEF DialsInv, Pending
<1> QED
  BY <1>4, <1>5

LEMMA ResultStep ==
    ASSUME DialsInv, NEW id \in Allocated, NEW ok \in BOOLEAN,
           DialResult(id, ok) \/ ConnectCallback(id, ok)
    PROVE  DialsInv'
<1>1. TypesOK
  BY DEF DialsInv
<1>2. UNCHANGED <<info, checked, adding>> /\ Allocated' = Allocated
  BY DEF DialResult, ConnectCallback, Allocated
<1>3. CASE DialResult(id, ok)
  <2>1. /\ dialing' = dialing \ {id} /\ posted' = posted \cup {<<id, ok>>}
        /\ UNCHANGED <<peers, started>>
    BY <1>3 DEF DialResult
  <2>2. TypesOK'
    BY <1>1, <1>2, <2>1 DEF TypesOK, OwnOK
  <2>3. \A i : Pending(i) => Pending(i)'
    BY <2>1 DEF Pending
  <2>4. DialsFollowedUp'
    BY <1>2, <2>1, <2>3 DEF DialsInv, DialsFollowedUp, Pending
  <2>5. /\ checked'["reactor"] # NoPeer => Pending(checked["reactor"])'
        /\ adding'["reactor"] # NoPeer => Pending(adding["reactor"])'
    BY <1>2, <2>3 DEF DialsInv, Pending
  <2> QED
    BY <2>2, <2>4, <2>5 DEF DialsInv
<1>4. CASE ConnectCallback(id, ok)
  <2>1. /\ checked["reactor"] = NoPeer /\ adding["reactor"] = NoPeer
        /\ posted' = posted \ {<<id, ok>>}
        /\ started' = IF id \in peers /\ ok THEN started \cup {id} ELSE started \ {id}
        /\ peers' = IF ok THEN peers ELSE peers \ {id}
        /\ dialing' = dialing
    BY <1>4 DEF ConnectCallback, Idle
  <2>2. TypesOK'
    BY <1>1, <1>2, <2>1 DEF TypesOK, OwnOK
  <2>3. \A i : i # id /\ Pending(i) => Pending(i)'
    BY <2>1 DEF Pending
  <2>4. DialsFollowedUp'
    <3> SUFFICES ASSUME NEW i \in peers', info'[i].by = "reactor"
                 PROVE  i \in started' \/ Pending(i)'
      BY DEF DialsFollowedUp, Pending
    <3>1. i \in peers /\ (i \in started \/ Pending(i))
      BY <1>2, <2>1 DEF DialsInv, DialsFollowedUp, Pending
    <3> QED
      BY <2>1, <2>3, <3>1
  <2> QED
    BY <1>2, <2>1, <2>2, <2>4 DEF DialsInv
<1> QED
  BY <1>3, <1>4

LEMMA InboundAndRemoval ==
    ASSUME DialsInv, AddPeer \/ \E t \in Threads, id \in Allocated : RemovePeer(t, id)
    PROVE  DialsInv'
<1>1. /\ TypesOK
      /\ checked \in [Threads -> Allocated \cup {NoPeer}]
  BY DEF DialsInv, TypesOK, OwnOK
<1>2. UNCHANGED <<info, dialing, posted, adding>> /\ Allocated' = Allocated
  BY DEF AddPeer, RemovePeer, Allocated
<1>3. CASE AddPeer
  <2>1. "transport" \in Threads /\ "reactor" \in Threads
    BY DEF Threads, Connectors
  <2>2. /\ checked["transport"] # NoPeer
        /\ \/ peers' = peers \cup {checked["transport"]}
              /\ started' = started \cup {checked["transport"]}
           \/ UNCHANGED <<peers, started>>
        /\ checked' = [checked EXCEPT !["transport"] = NoPeer]
    BY <1>3 DEF AddPeer
  <2>3. /\ checked["transport"] \in Allocated
        /\ checked' \in [Threads -> Allocated \cup {NoPeer}]
        /\ \A u \in Threads : checked'[u] \in {checked[u], NoPeer}
    BY <1>1, <2>1, <2>2
  <2>4. OwnOK(checked)' /\ OwnOK(adding)'
    BY <1>1, <1>2, <2>3 DEF TypesOK, OwnOK
  <2>5. TypesOK'
    BY <1>1, <1>2, <2>2, <2>3, <2>4 DEF TypesOK
  <2> QED
    BY <1>2, <2>1, <2>2, <2>3, <2>5 DEF DialsInv, DialsFollowedUp, Pending
<1>4. CASE \E t \in Threads, id \in Allocated : RemovePeer(t, id)
  <2>1. PICK id \in Allocated : peers' = peers \ {id} /\ started' = started \ {id}
    BY <1>4 DEF RemovePeer
  <2>2. checked' = checked
    BY <1>4 DEF RemovePeer
  <2>3. TypesOK'
    BY <1>1, <1>2, <2>1, <2>2 DEF TypesOK, OwnOK
  <2> QED
    BY <1>2, <2>1, <2>2, <2>3 DEF DialsInv, DialsFollowedUp, Pending
<1> QED
  BY <1>3, <1>4

LEMMA DialsInit == Init => DialsInv
<1> SUFFICES ASSUME Init PROVE DialsInv
  OBVIOUS
<1>1. info = <<>> /\ info \in Seq(PeerInfo) /\ {"reactor", "transport"} \subseteq Threads
  BY DEF Init, Threads, Connectors
<1>2. TypesOK
  BY <1>1 DEF Init, TypesOK, OwnOK
<1> QED
  BY <1>1, <1>2 DEF Init, DialsInv, DialsFollowedUp

LEMMA DialsStep == DialsInv /\ [Next]_vars => DialsInv'
<1> SUFFICES ASSUME DialsInv, [Next]_vars PROVE DialsInv'
  OBVIOUS
<1>1. CASE \E a \in Addresses : \E t \in Connectors : ConnectTo(t, a)
  <2>1. PICK a \in Addresses, t \in Connectors : ConnectTo(t, a)
    BY <1>1
  <2>2. t \in Threads /\ t # "transport"
    BY DEF Threads, Connectors
  <2> QED
    BY <2>1, <2>2, AllocateStep DEF ConnectTo
<1>2. CASE \E a \in Addresses : AttemptFeelerConnection(a)
  <2>1. "reactor" \in Threads
    BY DEF Threads, Connectors
  <2> QED
    BY <1>2, <2>1, AllocateStep DEF AttemptFeelerConnection
<1>3. CASE \E a \in Addresses : HandleInboundConnection(a)
  <2>1. "transport" \in Threads
    BY DEF Threads
  <2> QED
    BY <1>3, <2>1, AllocateStep DEF HandleInboundConnection
<1>4. CASE \E t \in Threads : AddPeerWithId(t) \/ InsertPeer(t)
  BY <1>4, AddStep
<1>5. CASE AddPeer
  BY <1>5, InboundAndRemoval
<1>6. CASE \E id \in Allocated : \E ok \in BOOLEAN :
             DialResult(id, ok) \/ ConnectCallback(id, ok)
  BY <1>6, ResultStep
<1>7. CASE \E id \in Allocated : \E t \in Threads : RemovePeer(t, id)
  BY <1>7, InboundAndRemoval
<1>8. CASE UNCHANGED vars
  BY <1>8 DEF vars, DialsInv, TypesOK, OwnOK, DialsFollowedUp, Pending, Allocated
<1> QED
  BY <1>1, <1>2, <1>3, <1>4, <1>5, <1>6, <1>7, <1>8 DEF Next
\* DialsFollowedUp: no peer of the reactor is stranded by a connect callback
\* that ran before the peer was in the table, for any number of peers.
THEOREM DialsAlwaysFollowedUp == Spec => []DialsFollowedUp
<1>1. DialsInv => DialsFollowedUp
  BY DEF DialsInv
<1> QED
  BY <1>1, DialsInit, DialsStep, PTL DEF Spec

\* The types hold in every step, for the proofs about slots.
LEMMA TypesAlways == Spec => []TypesOK
<1>1. DialsInv => TypesOK
  BY DEF DialsInv
<1> QED
  BY <1>1, DialsInit, DialsStep, PTL DEF Spec

-----------------------------------------------------------------------------
(* The slots.                                                              *)

\* Between the count and the insertion the transport thread still has room:
\* the other threads can only remove inbound peers.
InboundInv ==
    /\ InboundBounded
    /\ checked["transport"] # NoPeer =>
          /\ Cardinality(Inbound) < max_inbound_peers
          /\ Cardinality(InboundFrom(info[checked["transport"]].addr)) < MAX_INBOUND_PER_IP

LEMMA FinitePeers ==
    ASSUME TypesOK
    PROVE  /\ IsFiniteSet(peers) /\ IsFiniteSet(Inbound) /\ IsFiniteSet(Outbound)
           /\ \A a : IsFiniteSet(InboundFrom(a))
<1>1. Len(info) \in Nat /\ peers \subseteq 1..Len(info)
  BY DEF TypesOK, Allocated
<1>2. IsFiniteSet(peers)
  <2>1. IsFiniteSet(1..Len(info))
    BY <1>1, FS_Interval
  <2> QED
    BY <1>1, <2>1, FS_Subset
<1>3. Inbound \subseteq peers /\ Outbound \subseteq peers /\ \A a : InboundFrom(a) \subseteq peers
  BY DEF Inbound, Outbound, InboundFrom
<1> QED
  BY <1>2, <1>3, FS_Subset

\* Fewer inbound peers, and nothing new on the way in.
LEMMA InboundShrinks ==
    ASSUME TypesOK, InboundInv,
           Inbound' \subseteq Inbound, \A a : InboundFrom(a)' \subseteq InboundFrom(a),
           \/ checked'["transport"] = NoPeer
           \/ /\ checked'["transport"] = checked["transport"]
              /\ info'[checked'["transport"]].addr = info[checked["transport"]].addr
    PROVE  InboundInv'
<1>1. /\ Cardinality(Inbound) \in Nat /\ Cardinality(Inbound') \in Nat
      /\ Cardinality(Inbound') <= Cardinality(Inbound)
  BY FinitePeers, FS_Subset, FS_CardinalityType
<1>2. \A a : /\ Cardinality(InboundFrom(a)) \in Nat /\ Cardinality(InboundFrom(a)') \in Nat
            /\ Cardinality(InboundFrom(a)') <= Cardinality(InboundFrom(a))
  BY FinitePeers, FS_Subset, FS_CardinalityType
<1>3. max_inbound_peers \in Nat /\ MAX_INBOUND_PER_IP \in Nat
  BY SlotsAssumption
<1>4. InboundBounded'
  BY <1>1, <1>2, <1>3 DEF InboundInv, InboundBounded
<1>5. ASSUME checked'["transport"] # NoPeer
      PROVE  /\ Cardinality(Inbound') < max_inbound_peers
             /\ Cardinality(InboundFrom(info[checked["transport"]].addr)') < MAX_INBOUND_PER_IP
             /\ info'[checked'["transport"]].addr = info[checked["transport"]].addr
  BY <1>1, <1>2, <1>3, <1>5 DEF InboundInv
<1> QED
  BY <1>4, <1>5 DEF InboundInv
LEMMA InboundInit == Init => InboundInv
<1> SUFFICES ASSUME Init PROVE InboundInv
  OBVIOUS
<1>1. Inbound = {} /\ \A a : InboundFrom(a) = {}
  BY DEF Init, Inbound, InboundFrom
<1>2. checked["transport"] = NoPeer
  BY DEF Init, Threads
<1> QED
  BY <1>1, <1>2, FS_EmptySet, SlotsAssumption DEF InboundInv, InboundBounded

\* A new peer is in no table yet; an inbound one was found room for.
LEMMA InboundAllocate ==
    ASSUME TypesOK, InboundInv, NEW t \in Threads, NEW a \in Addresses,
           NEW kind \in {"inbound", "outbound", "feeler"},
           kind = "inbound" <=> t = "transport",
           kind = "inbound" => CanAcceptInboundFrom(a),
           Allocate(t, a, kind)
    PROVE  InboundInv'
<1>1. peers' = peers /\ \A id \in peers : info'[id] = info[id]
  BY AllocateFacts DEF Allocate, TypesOK
<1>2. Inbound' = Inbound /\ \A b : InboundFrom(b)' = InboundFrom(b)
  BY <1>1 DEF Inbound, InboundFrom
<1>3. CASE t = "transport"
  <2>1. checked'["transport"] = Len(info') /\ info'[Len(info')].addr = a
    <3>1. checked \in [Threads -> Allocated \cup {NoPeer}]
      BY DEF TypesOK, OwnOK
    <3>2. checked' = [checked EXCEPT ![t] = Len(info')]
      BY DEF Allocate
    <3>3. info'[Len(info')].addr = a
      <4>1. /\ info \in Seq(PeerInfo) /\ [addr |-> a, kind |-> kind, by |-> t] \in PeerInfo
            /\ info' = Append(info, [addr |-> a, kind |-> kind, by |-> t])
        BY DEF Allocate, TypesOK, PeerInfo
      <4> QED
        BY <4>1
    <3> QED
      BY <1>3, <3>1, <3>2, <3>3
  <2>2. /\ Cardinality(Inbound') < max_inbound_peers
        /\ Cardinality(InboundFrom(a)') < MAX_INBOUND_PER_IP
    BY <1>2, <1>3 DEF CanAcceptInboundFrom
  <2>3. InboundBounded'
    BY <1>2 DEF InboundInv, InboundBounded
  <2>4. Cardinality(InboundFrom(info[checked["transport"]].addr))' < MAX_INBOUND_PER_IP
    <3>1. InboundFrom(info[checked["transport"]].addr)' = InboundFrom(a)'
      BY <2>1 DEF InboundFrom
    <3> QED
      BY <2>2, <3>1
  <2> QED
    BY <2>2, <2>3, <2>4 DEF InboundInv
<1>4. CASE t # "transport"
  <2>1. "transport" \in Threads
    BY DEF Threads
  <2>2. checked'["transport"] = checked["transport"]
    <3>1. checked \in [Threads -> Allocated \cup {NoPeer}]
      BY DEF TypesOK, OwnOK
    <3>2. checked' = [checked EXCEPT ![t] = Len(info')]
      BY DEF Allocate
    <3> QED
      BY <1>4, <2>1, <3>1, <3>2
  <2>3. CASE checked["transport"] = NoPeer
    BY <1>2, <2>2, <2>3, InboundShrinks
  <2>4. CASE checked["transport"] # NoPeer
    <3>1. checked["transport"] \in Allocated
      BY <2>1, <2>4 DEF TypesOK, OwnOK
    <3>2. info'[checked["transport"]] = info[checked["transport"]]
      BY <3>1, AllocateFacts
    <3> QED
      BY <1>2, <2>2, <3>2, InboundShrinks
  <2> QED
    BY <2>3, <2>4
<1> QED
  BY <1>3, <1>4

LEMMA InboundAddPeer ==
    ASSUME TypesOK, InboundInv, AddPeer
    PROVE  InboundInv'
<1> DEFINE p == checked["transport"]
<1>1. "transport" \in Threads /\ p # NoPeer /\ info' = info
  BY DEF AddPeer, Threads
<1>2. checked'["transport"] = NoPeer
  BY <1>1 DEF AddPeer, TypesOK, OwnOK
<1>3. CASE peers' = peers
  <2>1. Inbound' \subseteq Inbound /\ \A a : InboundFrom(a)' \subseteq InboundFrom(a)
    BY <1>1, <1>3 DEF Inbound, InboundFrom
  <2> QED
    BY <1>2, <2>1, InboundShrinks
<1>4. CASE peers' = peers \cup {p}
  <2>1. Inbound' \subseteq Inbound \cup {p} /\ \A a : InboundFrom(a)' \subseteq InboundFrom(a) \cup {p}
    BY <1>1, <1>4 DEF Inbound, InboundFrom
  <2>2. \A a : a # info[p].addr => InboundFrom(a)' \subseteq InboundFrom(a)
    BY <1>1, <1>4 DEF Inbound, InboundFrom
  <2>3. ASSUME NEW S, NEW T, IsFiniteSet(S), T \subseteq S \cup {p}
        PROVE  /\ Cardinality(S) \in Nat /\ Cardinality(T) \in Nat
               /\ Cardinality(T) <= Cardinality(S) + 1
    <3>0. Cardinality(S) \in Nat
      BY <2>3, FS_CardinalityType
    <3>1. /\ IsFiniteSet(S \cup {p})
          /\ Cardinality(S \cup {p}) <= Cardinality(S) + 1
      <4>1. Cardinality(S \cup {p}) = IF p \in S THEN Cardinality(S) ELSE Cardinality(S) + 1
        BY <2>3, FS_AddElement
      <4>2. IsFiniteSet(S \cup {p})
        BY <2>3, FS_AddElement
      <4> QED
        BY <3>0, <4>1, <4>2
    <3>2. /\ Cardinality(T) \in Nat /\ Cardinality(S \cup {p}) \in Nat
          /\ Cardinality(T) <= Cardinality(S \cup {p})
      BY <2>3, <3>1, FS_Subset, FS_CardinalityType
    <3> QED
      BY <3>0, <3>1, <3>2
  <2>4. Cardinality(Inbound') <= max_inbound_peers
    <3>1. /\ Cardinality(Inbound) \in Nat /\ Cardinality(Inbound') \in Nat
          /\ Cardinality(Inbound') <= Cardinality(Inbound) + 1
      BY <2>1, <2>3, FinitePeers
    <3> QED
      BY <1>1, <3>1, SlotsAssumption DEF InboundInv
  <2>5. ASSUME NEW a \in Addresses
        PROVE  Cardinality(InboundFrom(a)') <= MAX_INBOUND_PER_IP
    <3>1. IsFiniteSet(InboundFrom(a))
      BY FinitePeers
    <3>2. CASE a = info[p].addr
      <4>1. /\ Cardinality(InboundFrom(a)) \in Nat /\ Cardinality(InboundFrom(a)') \in Nat
            /\ Cardinality(InboundFrom(a)') <= Cardinality(InboundFrom(a)) + 1
        BY <2>1, <2>3, <3>1
      <4>2. Cardinality(InboundFrom(a)) < MAX_INBOUND_PER_IP
        BY <1>1, <3>2 DEF InboundInv
      <4> QED
        BY <4>1, <4>2, SlotsAssumption
    <3>3. CASE a # info[p].addr
      <4>1. /\ Cardinality(InboundFrom(a)) \in Nat /\ Cardinality(InboundFrom(a)') \in Nat
            /\ Cardinality(InboundFrom(a)') <= Cardinality(InboundFrom(a))
        BY <2>2, <3>1, <3>3, FS_Subset, FS_CardinalityType
      <4> QED
        BY <4>1, SlotsAssumption DEF InboundInv, InboundBounded
    <3> QED
      BY <3>2, <3>3
  <2> QED
    BY <1>2, <2>4, <2>5 DEF InboundInv, InboundBounded
<1> QED
  BY <1>3, <1>4 DEF AddPeer

\* The other steps add no inbound peer.
LEMMA InboundOther ==
    ASSUME TypesOK, InboundInv,
           \/ \E t \in Threads : AddPeerWithId(t) \/ InsertPeer(t)
           \/ \E id \in Allocated : \E ok \in BOOLEAN :
                 DialResult(id, ok) \/ ConnectCallback(id, ok)
           \/ \E id \in Allocated : \E t \in Threads : RemovePeer(t, id)
           \/ UNCHANGED vars
    PROVE  InboundInv'
<1>1. info' = info
  BY DEF AddPeerWithId, InsertPeer, DialResult, ConnectCallback, RemovePeer, vars
<1>2. checked'["transport"] = checked["transport"]
  <2>1. CASE \E t \in Threads : AddPeerWithId(t)
    BY <2>1 DEF AddPeerWithId, TypesOK, OwnOK, Connectors, Threads
  <2>2. CASE checked' = checked
    BY <2>2
  <2> QED
    BY <2>1, <2>2 DEF InsertPeer, DialResult, ConnectCallback, RemovePeer, vars
<1>3. \A id \in peers' \ peers : info[id].kind # "inbound"
  <2>1. CASE \E t \in Threads : InsertPeer(t)
    <3>1. PICK t \in Threads : InsertPeer(t)
      BY <2>1
    <3>2. /\ t # "transport" /\ adding[t] # NoPeer
          /\ peers' = peers \cup {adding[t]}
      BY <3>1 DEF InsertPeer, TypesOK
    <3>3. info[adding[t]].kind # "inbound"
      BY <3>2 DEF TypesOK, OwnOK
    <3> QED
      BY <3>2, <3>3
  <2>2. CASE peers' \subseteq peers
    BY <2>2
  <2> QED
    BY <2>1, <2>2 DEF AddPeerWithId, DialResult, ConnectCallback, RemovePeer, vars
<1>4. Inbound' \subseteq Inbound /\ \A a : InboundFrom(a)' \subseteq InboundFrom(a)
  BY <1>1, <1>3 DEF Inbound, InboundFrom
<1> QED
  BY <1>1, <1>2, <1>4, InboundShrinks

LEMMA InboundStep == TypesOK /\ InboundInv /\ [Next]_vars => InboundInv'
<1> SUFFICES ASSUME TypesOK, InboundInv, [Next]_vars PROVE InboundInv'
  OBVIOUS
<1>1. CASE \E a \in Addresses : \E t \in Connectors : ConnectTo(t, a)
  <2>1. PICK a \in Addresses, t \in Connectors : ConnectTo(t, a)
    BY <1>1
  <2>2. t \in Threads /\ t # "transport" /\ Allocate(t, a, "outbound")
    BY <2>1 DEF Threads, Connectors, ConnectTo
  <2> QED
    BY <2>2, InboundAllocate
<1>2. CASE \E a \in Addresses : AttemptFeelerConnection(a)
  <2>1. PICK a \in Addresses : Allocate("reactor", a, "feeler")
    BY <1>2 DEF AttemptFeelerConnection
  <2>2. "reactor" \in Threads /\ "reactor" # "transport"
    BY DEF Threads, Connectors
  <2> QED
    BY <2>1, <2>2, InboundAllocate
<1>3. CASE \E a \in Addresses : HandleInboundConnection(a)
  <2>1. PICK a \in Addresses :
           CanAcceptInboundFrom(a) /\ Allocate("transport", a, "inbound")
    BY <1>3 DEF HandleInboundConnection
  <2>2. "transport" \in Threads
    BY DEF Threads
  <2> QED
    BY <2>1, <2>2, InboundAllocate
<1>4. CASE AddPeer
  BY <1>4, InboundAddPeer
<1>5. CASE \/ \E t \in Threads : AddPeerWithId(t) \/ InsertPeer(t)
           \/ \E id \in Allocated : \E ok \in BOOLEAN :
                 DialResult(id, ok) \/ ConnectCallback(id, ok)
           \/ \E id \in Allocated : \E t \in Threads : RemovePeer(t, id)
           \/ UNCHANGED vars
  BY <1>5, InboundOther
<1> QED
  BY <1>1, <1>2, <1>3, <1>4, <1>5 DEF Next

\* InboundBounded: both limits on inbound peers hold for any number of
\* connections, although no lock is kept from the count to the insertion.
THEOREM InboundAlwaysBounded == Spec => []InboundBounded
<1>1. InboundInv => InboundBounded
  BY DEF InboundInv
<1> QED
  BY <1>1, TypesAlways, InboundInit, InboundStep, PTL DEF Spec
-----------------------------------------------------------------------------
\* A thread that has passed the check of the slots and not inserted yet.
InFlight(t) == IF adding[t] # NoPeer /\ info[adding[t]].kind = "outbound" THEN 1 ELSE 0

\* The slots taken and about to be taken: the check of add_peer_with_id leaves
\* one free for the thread itself, and one other thread may be past it.
OutboundInv ==
    Cardinality(Outbound) + InFlight("reactor") + InFlight("rpc") <= max_outbound_peers + 1

LEMMA OutboundInit == Init => OutboundInv
<1> SUFFICES ASSUME Init PROVE OutboundInv
  OBVIOUS
<1>1. Outbound = {} /\ InFlight("reactor") = 0 /\ InFlight("rpc") = 0
  BY DEF Init, Outbound, InFlight, Threads, Connectors
<1> QED
  BY <1>1, FS_EmptySet, SlotsAssumption DEF OutboundInv

\* Neither more outbound peers nor more on the way.
LEMMA OutboundShrinks ==
    ASSUME TypesOK, OutboundInv, Outbound' \subseteq Outbound,
           \A t \in Connectors : InFlight(t)' <= InFlight(t)
    PROVE  OutboundInv'
<1>1. /\ Cardinality(Outbound) \in Nat /\ Cardinality(Outbound') \in Nat
      /\ Cardinality(Outbound') <= Cardinality(Outbound)
  BY FinitePeers, FS_Subset, FS_CardinalityType
<1>2. \A t : InFlight(t) \in {0, 1} /\ InFlight(t)' \in {0, 1}
  BY DEF InFlight
<1>3. InFlight("reactor")' <= InFlight("reactor") /\ InFlight("rpc")' <= InFlight("rpc")
  BY DEF Connectors
<1> QED
  BY <1>1, <1>2, <1>3, SlotsAssumption DEF OutboundInv

LEMMA OutboundAllocate ==
    ASSUME TypesOK, OutboundInv, NEW t \in Threads, NEW a \in Addresses,
           NEW kind \in {"inbound", "outbound", "feeler"},
           kind = "inbound" <=> t = "transport",
           Allocate(t, a, kind)
    PROVE  OutboundInv'
<1>1. /\ peers' = peers /\ adding' = adding
      /\ \A id \in Allocated : info'[id] = info[id]
  BY AllocateFacts DEF Allocate
<1>2. peers \subseteq Allocated /\ adding \in [Threads -> Allocated \cup {NoPeer}]
  BY DEF TypesOK, OwnOK
<1>3. Outbound' \subseteq Outbound
  BY <1>1, <1>2 DEF Outbound
<1>4. \A u \in Connectors : InFlight(u)' = InFlight(u) /\ InFlight(u) \in {0, 1}
  BY <1>1, <1>2 DEF InFlight, Threads
<1> QED
  BY <1>3, <1>4, OutboundShrinks

LEMMA OutboundCheck ==
    ASSUME TypesOK, OutboundInv, NEW t \in Threads, AddPeerWithId(t)
    PROVE  OutboundInv'
<1>1. Outbound' = Outbound /\ info' = info /\ Cardinality(Outbound) \in Nat
  BY FinitePeers, FS_CardinalityType DEF AddPeerWithId, Outbound
<1>2. \A u : InFlight(u) \in {0, 1} /\ InFlight(u)' \in {0, 1}
  BY DEF InFlight
<1>3. CASE adding' = adding
  BY <1>1, <1>3 DEF OutboundInv, InFlight
<1>4. CASE adding' = [adding EXCEPT ![t] = checked[t]] /\ info[checked[t]].kind # "outbound"
  <2>1. \A u \in Connectors : InFlight(u)' = 0 \/ InFlight(u)' = InFlight(u)
    BY <1>1, <1>4 DEF InFlight, TypesOK, OwnOK, Threads
  <2> QED
    BY <1>1, <1>2, <2>1, OutboundShrinks
<1>5. CASE adding' = [adding EXCEPT ![t] = checked[t]] /\ NeedsMoreOutbound
  <2>1. Cardinality(Outbound') < max_outbound_peers
    BY <1>1, <1>5 DEF NeedsMoreOutbound
  <2> QED
    BY <1>1, <1>2, <2>1, SlotsAssumption DEF OutboundInv
<1> QED
  BY <1>3, <1>4, <1>5 DEF AddPeerWithId

LEMMA OutboundInsert ==
    ASSUME TypesOK, OutboundInv, NEW t \in Threads, InsertPeer(t)
    PROVE  OutboundInv'
<1>1. /\ adding[t] # NoPeer /\ info' = info /\ peers' = peers \cup {adding[t]}
      /\ adding' = [adding EXCEPT ![t] = NoPeer]
      /\ adding \in [Threads -> Allocated \cup {NoPeer}]
  BY DEF InsertPeer, TypesOK, OwnOK
<1>2. t \in Connectors /\ Connectors \subseteq Threads
  BY <1>1 DEF Threads, TypesOK
<1>3. \A u : InFlight(u) \in {0, 1}
  BY DEF InFlight
<1>4. InFlight(t)' = 0 /\ \A u \in Connectors : u # t => InFlight(u)' = InFlight(u)
  BY <1>1, <1>2 DEF InFlight
<1>5. CASE info[adding[t]].kind # "outbound"
  <2>1. Outbound' \subseteq Outbound
    BY <1>1, <1>5 DEF Outbound
  <2>2. \A u \in Connectors : InFlight(u)' <= InFlight(u)
    BY <1>3, <1>4
  <2> QED
    BY <2>1, <2>2, OutboundShrinks
<1>6. CASE info[adding[t]].kind = "outbound"
  <2>1. Outbound' = Outbound \cup {adding[t]}
    BY <1>1, <1>6 DEF Outbound
  <2>2. Cardinality(Outbound) \in Nat
    BY FinitePeers, FS_CardinalityType
  <2>3. Cardinality(Outbound') =
           IF adding[t] \in Outbound THEN Cardinality(Outbound) ELSE Cardinality(Outbound) + 1
    BY <2>1, FinitePeers, FS_AddElement
  <2>4. InFlight(t) = 1
    BY <1>1, <1>6 DEF InFlight
  <2>5. CASE t = "reactor"
    <3>1. InFlight("reactor") = 1 /\ InFlight("reactor")' = 0 /\ InFlight("rpc")' = InFlight("rpc")
      BY <1>4, <2>4, <2>5 DEF Connectors
    <3> QED
      BY <1>3, <2>2, <2>3, <3>1, SlotsAssumption DEF OutboundInv
  <2>6. CASE t = "rpc"
    <3>1. InFlight("rpc") = 1 /\ InFlight("rpc")' = 0 /\ InFlight("reactor")' = InFlight("reactor")
      BY <1>4, <2>4, <2>6 DEF Connectors
    <3> QED
      BY <1>3, <2>2, <2>3, <3>1, SlotsAssumption DEF OutboundInv
  <2> QED
    BY <1>2, <2>5, <2>6 DEF Connectors
<1> QED
  BY <1>5, <1>6

\* The other steps add no outbound peer.
LEMMA OutboundOther ==
    ASSUME TypesOK, OutboundInv,
           \/ AddPeer
           \/ \E id \in Allocated : \E ok \in BOOLEAN :
                 DialResult(id, ok) \/ ConnectCallback(id, ok)
           \/ \E id \in Allocated : \E t \in Threads : RemovePeer(t, id)
           \/ UNCHANGED vars
    PROVE  OutboundInv'
<1>1. info' = info /\ adding' = adding
  BY DEF AddPeer, DialResult, ConnectCallback, RemovePeer, vars
<1>2. \A id \in peers' \ peers : info[id].kind # "outbound"
  <2>1. CASE AddPeer
    <3>1. "transport" \in Threads /\ checked["transport"] # NoPeer
      BY <2>1 DEF AddPeer, Threads
    <3>2. info[checked["transport"]].kind = "inbound"
      BY <3>1 DEF TypesOK, OwnOK
    <3>3. peers' \subseteq peers \cup {checked["transport"]}
      BY <2>1 DEF AddPeer
    <3> QED
      BY <3>2, <3>3
  <2>2. CASE peers' \subseteq peers
    BY <2>2
  <2> QED
    BY <2>1, <2>2 DEF DialResult, ConnectCallback, RemovePeer, vars
<1>3. Outbound' \subseteq Outbound
  BY <1>1, <1>2 DEF Outbound
<1>4. \A t : InFlight(t)' = InFlight(t) /\ InFlight(t) \in {0, 1}
  BY <1>1 DEF InFlight
<1> QED
  BY <1>3, <1>4, OutboundShrinks

LEMMA OutboundStep == TypesOK /\ OutboundInv /\ [Next]_vars => OutboundInv'
<1> SUFFICES ASSUME TypesOK, OutboundInv, [Next]_vars PROVE OutboundInv'
  OBVIOUS
<1>1. CASE \E a \in Addresses : \E t \in Connectors : ConnectTo(t, a)
  <2>1. PICK a \in Addresses, t \in Connectors : ConnectTo(t, a)
    BY <1>1
  <2>2. t \in Threads /\ t # "transport" /\ Allocate(t, a, "outbound")
    BY <2>1 DEF Threads, Connectors, ConnectTo
  <2> QED
    BY <2>2, OutboundAllocate
<1>2. CASE \E a \in Addresses : AttemptFeelerConnection(a)
  <2>1. PICK a \in Addresses : Allocate("reactor", a, "feeler")
    BY <1>2 DEF AttemptFeelerConnection
  <2>2. "reactor" \in Threads /\ "reactor" # "transport"
    BY DEF Threads, Connectors
  <2> QED
    BY <2>1, <2>2, OutboundAllocate
<1>3. CASE \E a \in Addresses : HandleInboundConnection(a)
  <2>1. PICK a \in Addresses : Allocate("transport", a, "inbound")
    BY <1>3 DEF HandleInboundConnection
  <2>2. "transport" \in Threads
    BY DEF Threads
  <2> QED
    BY <2>1, <2>2, OutboundAllocate
<1>4. CASE \E t \in Threads : AddPeerWithId(t) \/ InsertPeer(t)
  BY <1>4, OutboundCheck, OutboundInsert
<1>5. CASE \/ AddPeer
           \/ \E id \in Allocated : \E ok \in BOOLEAN :
                 DialResult(id, ok) \/ ConnectCallback(id, ok)
           \/ \E id \in Allocated : \E t \in Threads : RemovePeer(t, id)
           \/ UNCHANGED vars
  BY <1>5, OutboundOther
<1> QED
  BY <1>1, <1>2, <1>3, <1>4, <1>5 DEF Next

\* OutboundBounded: the two threads that connect exceed the outbound limit by
\* at most one peer, for any limit and any number of connections.
THEOREM OutboundAlwaysBounded == Spec => []OutboundBounded
<1>1. TypesOK /\ OutboundInv => OutboundBounded
  <2> SUFFICES ASSUME TypesOK, OutboundInv PROVE OutboundBounded
    OBVIOUS
  <2>1. Cardinality(Outbound) \in Nat
    BY FinitePeers, FS_CardinalityType
  <2>2. \A t : InFlight(t) \in {0, 1}
    BY DEF InFlight
  <2>3. Cardinality(Connectors) = 2
    <3>1. Connectors = {"reactor"} \cup {"rpc"} /\ "rpc" \notin {"reactor"}
      BY DEF Connectors
    <3>2. IsFiniteSet({"reactor"}) /\ Cardinality({"reactor"}) = 1
      BY FS_Singleton
    <3>3. Cardinality({"reactor"} \cup {"rpc"}) = Cardinality({"reactor"}) + 1
      BY <3>1, <3>2, FS_AddElement
    <3> QED
      BY <3>1, <3>2, <3>3
  <2> QED
    BY <2>1, <2>2, <2>3, SlotsAssumption DEF OutboundInv, OutboundBounded
<1> QED
  BY <1>1, TypesAlways, OutboundInit, OutboundStep, PTL DEF Spec
=============================================================================
