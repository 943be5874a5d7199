-------------------------- MODULE BanManager_proofs --------------------------
(***************************************************************************)
(* Bans in memory and on disk, for any addresses and ban times.            *)
(***************************************************************************)
EXTENDS BanManager, FiniteSetTheorems, TLAPS

BansInv ==
    /\ now \in Nat
    /\ banned \in [Addresses -> BanEntry]
    /\ banlist \in [Addresses -> BanEntry]
    /\ unsaved \in BOOLEAN
    /\ BansSurviveRestart

\* A sweep keeps the type, and a second one at the same time does nothing.
LEMMA SweepFacts ==
    ASSUME NEW list \in [Addresses -> BanEntry]
    PROVE  /\ SweepExpired(list) \in [Addresses -> BanEntry]
           /\ SweepExpired(SweepExpired(list)) = SweepExpired(list)
<1>1. Absent \in BanEntry /\ ~Live(Absent)
  BY DEF BanEntry, Live
<1> QED
  BY <1>1 DEF SweepExpired

\* Every operation that ends in a save, whether the save succeeds or not.
LEMMA SaveKeeps ==
    ASSUME BansInv, NEW list \in [Addresses -> BanEntry], SaveBansInternal(list)
    PROVE  BansInv'
<1>1. /\ now' = now /\ banned' = SweepExpired(list)
      /\ \/ banlist' = banned' /\ unsaved' = FALSE
         \/ banlist' = banlist /\ unsaved' = TRUE
  BY DEF SaveBansInternal
<1>2. banned' \in [Addresses -> BanEntry] /\ banlist' \in [Addresses -> BanEntry]
  BY <1>1, SweepFacts DEF BansInv
<1>3. BansSurviveRestart'
  BY <1>1 DEF BansSurviveRestart, SweepExpired, Live, IsExpired
<1> QED
  BY <1>1, <1>2, <1>3 DEF BansInv

\* What is in force later was in force before.
LEMMA TickKeeps ==
    ASSUME BansInv, Tick
    PROVE  BansInv'
<1>1. /\ now \in Nat /\ now' = now + 1 /\ UNCHANGED <<banned, banlist, unsaved>>
      /\ banned \in [Addresses -> BanEntry] /\ banlist \in [Addresses -> BanEntry]
  BY DEF BansInv, Tick
<1>2. ASSUME NEW until \in BanEntry, Live(until)'
      PROVE  Live(until)
  BY <1>1, <1>2 DEF Live, IsExpired, BanEntry, Absent, PERMANENT
<1>3. ASSUME ~unsaved, NEW a \in Addresses
      PROVE  SweepExpired(banned)'[a] = SweepExpired(banlist)'[a]
  <2>1. SweepExpired(banned)[a] = SweepExpired(banlist)[a]
    BY <1>3 DEF BansInv, BansSurviveRestart
  <2>2. /\ banned[a] \in BanEntry /\ banlist[a] \in BanEntry /\ ~Live(Absent)
        /\ (IF Live(banned[a]) THEN banned[a] ELSE Absent)
              = (IF Live(banlist[a]) THEN banlist[a] ELSE Absent)
    BY <1>1, <2>1 DEF SweepExpired, Live
  <2>3. (IF Live(banned[a])' THEN banned[a] ELSE Absent)
           = (IF Live(banlist[a])' THEN banlist[a] ELSE Absent)
    <3>1. Live(banned[a]) /\ Live(banlist[a]) => banned[a] = banlist[a]
      BY <2>2
    <3>2. Live(banned[a]) <=> Live(banlist[a])
      BY <2>2 DEF Live
    <3>3. /\ Live(banned[a])' => Live(banned[a])
          /\ Live(banlist[a])' => Live(banlist[a])
      BY <1>1, <1>2, <2>2 DEF Live, IsExpired
    <3>4. banned[a] = banlist[a] => (Live(banned[a])' <=> Live(banlist[a])')
      BY <1>1 DEF Live, IsExpired
    <3> QED
      BY <3>1, <3>2, <3>3, <3>4
  <2> QED
    BY <1>1, <2>3 DEF SweepExpired
<1>4. BansSurviveRestart'
  BY <1>1, <1>3 DEF BansSurviveRestart, SweepExpired
<1> QED
  BY <1>1, <1>4 DEF BansInv

LEMMA LoadKeeps ==
    ASSUME BansInv, LoadBans
    PROVE  BansInv'
<1>1. /\ now' = now /\ banned' = SweepExpired(banlist) /\ unsaved' = FALSE
      /\ banlist' \in {banlist, SweepExpired(banlist)}
      /\ banlist \in [Addresses -> BanEntry]
  BY DEF BansInv, LoadBans
<1>2. SweepExpired(banned') = SweepExpired(banlist')
  BY <1>1, SweepFacts
<1>3. BansSurviveRestart'
  BY <1>1, <1>2 DEF BansSurviveRestart, SweepExpired, Live, IsExpired
<1> QED
  BY <1>1, <1>3, SweepFacts DEF BansInv

LEMMA BansInit == Init => BansInv
<1> SUFFICES ASSUME Init PROVE BansInv
  OBVIOUS
<1>1. now = 1 /\ banned = banlist /\ unsaved = FALSE
  BY DEF Init
<1>2. banned \in [Addresses -> BanEntry]
  BY DEF Init, NoBans, BanEntry
<1>3. BansSurviveRestart
  BY <1>1 DEF BansSurviveRestart
<1> QED
  BY <1>1, <1>2, <1>3 DEF BansInv

LEMMA BansStep == BansInv /\ [Next]_vars => BansInv'
<1> SUFFICES ASSUME BansInv, [Next]_vars PROVE BansInv'
  OBVIOUS
<1>1. now \in Nat /\ banned \in [Addresses -> BanEntry]
  BY DEF BansInv
<1>2. ASSUME NEW a \in Addresses, NEW offset \in Nat, Ban(a, offset)
      PROVE  BansInv'
  <2> DEFINE list == [banned EXCEPT ![a] = IF offset > 0 THEN now + offset ELSE PERMANENT]
  <2>1. list \in [Addresses -> BanEntry]
    BY <1>1 DEF BanEntry, PERMANENT
  <2>2. SaveBansInternal(list)
    BY <1>2 DEF Ban
  <2> QED
    BY <2>1, <2>2, SaveKeeps
<1>3. CASE \E a \in Addresses, mode \in {"permanent", "absolute", "relative"},
              bantime \in BanTimes : SetBan(a, mode, bantime)
  <2>1. PICK a \in Addresses, mode \in {"permanent", "absolute", "relative"},
             bantime \in BanTimes : SetBan(a, mode, bantime)
    BY <1>3
  <2>2. bantime \in Nat /\ DEFAULT_BANTIME_SEC \in Nat
    BY BanAssumption
  <2>3. CASE Ban(a, 0)
    BY <1>2, <2>3
  <2>4. CASE bantime > now /\ Ban(a, bantime - now)
    BY <1>1, <1>2, <2>2, <2>4
  <2>5. CASE Ban(a, IF bantime = 0 THEN DEFAULT_BANTIME_SEC ELSE bantime)
    BY <1>2, <2>2, <2>5
  <2> QED
    BY <2>1, <2>3, <2>4, <2>5 DEF SetBan
<1>4. CASE \E a \in Addresses : Unban(a)
  <2>1. PICK a \in Addresses : SaveBansInternal([banned EXCEPT ![a] = Absent])
    BY <1>4 DEF Unban
  <2>2. [banned EXCEPT ![a] = Absent] \in [Addresses -> BanEntry]
    BY <1>1 DEF BanEntry
  <2> QED
    BY <2>1, <2>2, SaveKeeps
<1>5. CASE SweepBanned
  BY <1>1, <1>5, SaveKeeps DEF SweepBanned
<1>6. CASE UNCHANGED <<now, banned, banlist, unsaved>>
  BY <1>6 DEF BansInv, BansSurviveRestart, SweepExpired, Live, IsExpired
<1>7. CASE (\E a \in Addresses : Discourage(a)) \/ SweepDiscouraged
  BY <1>6, <1>7 DEF Discourage, SweepDiscouraged
<1>8. CASE UNCHANGED vars
  BY <1>6, <1>8 DEF vars
<1> QED
  BY <1>3, <1>4, <1>5, <1>7, <1>8, LoadKeeps, TickKeeps DEF Next

\* BansSurviveRestart: unless the last save failed, banlist.json restores the
\* bans in force, for any addresses, ban times and sequence of operations.
THEOREM BansAlwaysSurvive == Spec => []BansSurviveRestart
<1>1. BansInv => BansSurviveRestart
  BY DEF BansInv
<1> QED
  BY <1>1, BansInit, BansStep, PTL DEF Spec

-----------------------------------------------------------------------------
(* Discouragement.  The map never grows past its limit, so an insertion    *)
(* puts it one entry over at most, and no entry lasts longer than one that *)
(* is made now.                                                            *)

DiscouragedInv ==
    /\ now \in Nat
    /\ discouraged \in [Addresses -> BanEntry]
    /\ \A a \in Addresses : discouraged[a] <= now + DISCOURAGE_DURATION_SEC
    /\ IsFiniteSet(Held(discouraged))
    /\ Cardinality(Held(discouraged)) <= MAX_DISCOURAGED

\* What DiscouragementKept says of one step.
Kept ==
    \A a \in Addresses :
        discouraged[a] > now' /\ discouraged'[a] = Absent =>
            \/ LoadBans
            \/ /\ Cardinality(Held(discouraged')) = MAX_DISCOURAGED
               /\ \A b \in Held(discouraged') : discouraged[a] <= discouraged'[b]

\* A map with fewer entries, none of them later.
LEMMA FewerHeld ==
    ASSUME DiscouragedInv, now' = now, discouraged' \in [Addresses -> BanEntry],
           \A a \in Addresses : discouraged'[a] \in {discouraged[a], Absent}
    PROVE  DiscouragedInv'
<1>1. Held(discouraged') \subseteq Held(discouraged)
  BY DEF Held
<1>2. /\ IsFiniteSet(Held(discouraged'))
      /\ Cardinality(Held(discouraged')) <= Cardinality(Held(discouraged))
  BY <1>1, FS_Subset DEF DiscouragedInv
<1>3. Cardinality(Held(discouraged')) <= MAX_DISCOURAGED
  BY <1>2, FS_CardinalityType, BanAssumption DEF DiscouragedInv
<1>4. \A a \in Addresses : discouraged'[a] <= now + DISCOURAGE_DURATION_SEC
  BY BanAssumption DEF DiscouragedInv, Absent
<1> QED
  BY <1>2, <1>3, <1>4 DEF DiscouragedInv

LEMMA DiscourageKeeps ==
    ASSUME DiscouragedInv, NEW x \in Addresses, Discourage(x)
    PROVE  DiscouragedInv' /\ Kept
<1> DEFINE added == [discouraged EXCEPT ![x] = now + DISCOURAGE_DURATION_SEC]
           swept == [b \in Addresses |-> IF now < added[b] THEN added[b] ELSE Absent]
<1>1. /\ now \in Nat /\ DISCOURAGE_DURATION_SEC \in Nat \ {0} /\ MAX_DISCOURAGED \in Nat
      /\ discouraged \in [Addresses -> BanEntry] /\ now' = now
      /\ \A a \in Addresses : discouraged[a] <= now + DISCOURAGE_DURATION_SEC
      /\ IsFiniteSet(Held(discouraged)) /\ Cardinality(Held(discouraged)) <= MAX_DISCOURAGED
  BY BanAssumption DEF DiscouragedInv, Discourage
<1>2. /\ added \in [Addresses -> BanEntry] /\ added[x] = now + DISCOURAGE_DURATION_SEC
      /\ \A a \in Addresses : a # x => added[a] = discouraged[a]
  BY <1>1 DEF BanEntry
<1>3. ASSUME NEW a \in Addresses
      PROVE  discouraged[a] <= added[a] /\ added[a] <= now + DISCOURAGE_DURATION_SEC
  <2> HIDE DEF added
  <2>1. discouraged[a] \in Int /\ added[a] \in Int /\ added[x] \in Int
    BY <1>1, <1>2 DEF BanEntry, Absent
  <2> QED
    BY <1>1, <1>2, <2>1
<1>4. /\ swept \in [Addresses -> BanEntry]
      /\ \A a \in Addresses : swept[a] = (IF now < added[a] THEN added[a] ELSE Absent)
  BY <1>2 DEF BanEntry
<1> HIDE DEF added, swept
<1>5. Held(added) = Held(discouraged) \cup {x}
  <2>1. added[x] # Absent
    BY <1>1, <1>2 DEF Absent
  <2> QED
    BY <1>2, <2>1 DEF Held
<1>6. /\ IsFiniteSet(Held(added))
      /\ Cardinality(Held(added)) <= Cardinality(Held(discouraged)) + 1
  <2> DEFINE H == Held(discouraged)
  <2>1. IsFiniteSet(H) /\ Cardinality(H) \in Nat
    BY <1>1, FS_CardinalityType
  <2> HIDE DEF H
  <2>2. /\ IsFiniteSet(H \cup {x})
        /\ Cardinality(H \cup {x}) = IF x \in H THEN Cardinality(H) ELSE Cardinality(H) + 1
    BY <2>1, FS_AddElement
  <2>3. Cardinality(H \cup {x}) <= Cardinality(H) + 1
    BY <2>1, <2>2
  <2> QED
    BY <1>5, <2>2, <2>3 DEF H
<1>7. Held(swept) \subseteq Held(added)
  BY <1>4 DEF Held
<1>8. /\ IsFiniteSet(Held(swept)) /\ Cardinality(Held(swept)) \in Nat
      /\ Cardinality(Held(swept)) <= MAX_DISCOURAGED + 1
  <2>1. IsFiniteSet(Held(swept)) /\ Cardinality(Held(swept)) <= Cardinality(Held(added))
    BY <1>6, <1>7, FS_Subset
  <2>2. /\ Cardinality(Held(swept)) \in Nat /\ Cardinality(Held(added)) \in Nat
        /\ Cardinality(Held(discouraged)) \in Nat
    BY <1>1, <1>6, <2>1, FS_CardinalityType
  <2> QED
    BY <1>1, <1>6, <2>1, <2>2
<1>9. \A a \in Addresses : swept[a] <= now + DISCOURAGE_DURATION_SEC
  BY <1>1, <1>3, <1>4 DEF Absent
<1>10. CASE Cardinality(Held(added)) <= MAX_DISCOURAGED /\ discouraged' = added
  <2>1. DiscouragedInv'
    BY <1>1, <1>2, <1>3, <1>6, <1>10 DEF DiscouragedInv
  <2>2. ASSUME NEW a \in Addresses, discouraged[a] > now PROVE added[a] # Absent
    BY <1>1, <1>2, <2>2 DEF BanEntry, Absent
  <2> QED
    BY <1>1, <1>10, <2>1, <2>2 DEF Kept
<1>11. ASSUME NEW a \in Addresses, discouraged[a] > now
       PROVE  discouraged[a] <= swept[a] /\ swept[a] # Absent
  BY <1>1, <1>2, <1>3, <1>4, <1>11 DEF BanEntry, Absent
<1>12. CASE Cardinality(Held(swept)) <= MAX_DISCOURAGED /\ discouraged' = swept
  <2>1. DiscouragedInv'
    BY <1>1, <1>4, <1>8, <1>9, <1>12 DEF DiscouragedInv
  <2> QED
    BY <1>1, <1>11, <1>12, <2>1 DEF Kept
<1>13. CASE /\ Cardinality(Held(swept)) > MAX_DISCOURAGED
            /\ \E victim \in Held(swept) :
                  /\ \A b \in Held(swept) : swept[victim] <= swept[b]
                  /\ discouraged' = [swept EXCEPT ![victim] = Absent]
  <2>1. PICK victim \in Held(swept) :
            /\ \A b \in Held(swept) : swept[victim] <= swept[b]
            /\ discouraged' = [swept EXCEPT ![victim] = Absent]
    BY <1>13
  <2>2. victim \in Addresses /\ swept[victim] # Absent
    BY DEF Held
  <2>3. /\ discouraged' \in [Addresses -> BanEntry] /\ discouraged'[victim] = Absent
        /\ \A a \in Addresses : a # victim => discouraged'[a] = swept[a]
    BY <1>4, <2>1, <2>2 DEF BanEntry
  <2>4. Held(discouraged') = Held(swept) \ {victim}
    BY <2>2, <2>3 DEF Held
  <2>5. IsFiniteSet(Held(discouraged')) /\ Cardinality(Held(discouraged')) = MAX_DISCOURAGED
    <3>1. /\ IsFiniteSet(Held(discouraged'))
          /\ Cardinality(Held(discouraged')) = Cardinality(Held(swept)) - 1
      BY <1>8, <2>4, FS_RemoveElement
    <3> QED
      BY <1>1, <1>8, <1>13, <3>1
  <2>6. \A a \in Addresses : discouraged'[a] <= now + DISCOURAGE_DURATION_SEC
    BY <1>1, <1>9, <2>3 DEF Absent
  <2>7. DiscouragedInv'
    BY <1>1, <2>3, <2>5, <2>6 DEF DiscouragedInv
  <2>8. ASSUME NEW a \in Addresses, discouraged[a] > now, discouraged'[a] = Absent,
               NEW b \in Held(discouraged')
        PROVE  discouraged[a] <= discouraged'[b]
    <3>1. a = victim
      BY <1>11, <2>3, <2>8
    <3>2. b \in Held(swept) /\ b # victim /\ b \in Addresses
      BY <2>4 DEF Held
    <3>3. swept[a] <= swept[b] /\ discouraged'[b] = swept[b]
      BY <2>1, <2>3, <3>1, <3>2
    <3>4. discouraged[a] <= swept[a]
      BY <1>11, <2>8
    <3>5. discouraged[a] \in Int /\ swept[a] \in Int /\ swept[b] \in Int
      BY <1>1, <1>4, <3>2 DEF BanEntry, Absent
    <3> QED
      BY <3>3, <3>4, <3>5
  <2> QED
    BY <1>1, <2>5, <2>7, <2>8 DEF Kept
<1> QED
  BY <1>10, <1>12, <1>13 DEF Discourage, added, swept

LEMMA DiscouragedInit == Init => DiscouragedInv
<1> SUFFICES ASSUME Init PROVE DiscouragedInv
  OBVIOUS
<1>1. now = 1 /\ discouraged = [a \in Addresses |-> Absent]
  BY DEF Init, NoBans
<1>2. Held(discouraged) = {}
  BY <1>1 DEF Held
<1> QED
  BY <1>1, <1>2, FS_EmptySet, BanAssumption DEF DiscouragedInv, BanEntry, Absent

LEMMA DiscouragedStep == DiscouragedInv /\ [Next]_vars => DiscouragedInv' /\ [Kept]_vars
<1> SUFFICES ASSUME DiscouragedInv, [Next]_vars PROVE DiscouragedInv' /\ [Kept]_vars
  OBVIOUS
<1>1. now \in Nat /\ discouraged \in [Addresses -> BanEntry]
  BY DEF DiscouragedInv
<1>2. CASE discouraged' = discouraged /\ now' \in {now, now + 1}
  <2>1. DiscouragedInv'
    <3>1. \A a \in Addresses : discouraged'[a] <= now' + DISCOURAGE_DURATION_SEC
      BY <1>1, <1>2, BanAssumption DEF DiscouragedInv, BanEntry, Absent
    <3>2. now' \in Nat
      BY <1>1, <1>2
    <3> QED
      BY <1>2, <3>1, <3>2 DEF DiscouragedInv, Held
  <2>2. Kept
    BY <1>1, <1>2 DEF Kept, BanEntry, Absent
  <2> QED
    BY <2>1, <2>2
<1>3. ASSUME NEW list, SaveBansInternal(list) PROVE DiscouragedInv' /\ [Kept]_vars
  BY <1>2, <1>3 DEF SaveBansInternal
<1>4. ASSUME NEW a \in Addresses, NEW mode, NEW bantime, SetBan(a, mode, bantime)
      PROVE  DiscouragedInv' /\ [Kept]_vars
  BY <1>3, <1>4 DEF SetBan, Ban
<1>5. ASSUME NEW a \in Addresses, Unban(a) PROVE DiscouragedInv' /\ [Kept]_vars
  BY <1>3, <1>5 DEF Unban
<1>6. CASE SweepBanned
  BY <1>3, <1>6 DEF SweepBanned
<1>7. CASE SweepDiscouraged
  <2>1. /\ now' = now
        /\ discouraged' = [a \in Addresses |->
                             IF now < discouraged[a] THEN discouraged[a] ELSE Absent]
    BY <1>7 DEF SweepDiscouraged
  <2>2. discouraged' \in [Addresses -> BanEntry]
    BY <1>1, <2>1 DEF BanEntry
  <2>3. \A a \in Addresses : discouraged'[a] \in {discouraged[a], Absent}
    BY <2>1
  <2>4. DiscouragedInv'
    BY <2>1, <2>2, <2>3, FewerHeld
  <2>5. Kept
    BY <1>1, <2>1 DEF Kept, BanEntry, Absent
  <2> QED
    BY <2>4, <2>5
<1>8. CASE LoadBans
  <2>1. now' = now /\ discouraged' = [a \in Addresses |-> Absent]
    BY <1>8 DEF LoadBans, NoBans
  <2>2. discouraged' \in [Addresses -> BanEntry]
    BY <2>1 DEF BanEntry
  <2>3. \A a \in Addresses : discouraged'[a] \in {discouraged[a], Absent}
    BY <2>1
  <2>4. DiscouragedInv'
    BY <2>1, <2>2, <2>3, FewerHeld
  <2> QED
    BY <1>8, <2>4 DEF Kept
<1>9. CASE Tick
  BY <1>2, <1>9 DEF Tick
<1>10. CASE UNCHANGED vars
  BY <1>2, <1>10 DEF vars
<1> QED
  BY <1>4, <1>5, <1>6, <1>7, <1>8, <1>9, <1>10, DiscourageKeeps DEF Next

\* DiscouragementKept: for any addresses, limit and duration, a discouraged
\* address is let in early only by a restart, or when the map is full of
\* entries that last at least as long.
THEOREM DiscouragementAlwaysKept == Spec => DiscouragementKept
<1>1. DiscouragedInv /\ [Next]_vars => DiscouragedInv'
  BY DiscouragedStep
<1>2. DiscouragedInv /\ [Next]_vars => [Kept]_vars
  BY DiscouragedStep
<1> QED
  BY <1>1, <1>2, DiscouragedInit, PTL DEF Spec, DiscouragementKept, Kept
=============================================================================
