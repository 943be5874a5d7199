----------------------------- MODULE BanManager -----------------------------
(***************************************************************************)
(* BanManager: the list of bans, kept in memory and in banlist.json, and   *)
(* the discouraged addresses, kept in memory only.  Every operation holds  *)
(* its mutex from its first read to the end of the save, so each is one    *)
(* step.                                                                   *)
(***************************************************************************)
EXTENDS Integers, FiniteSets

CONSTANTS
    Addresses,
    BanTimes,                 \* bantime parameters given to setban
    DEFAULT_BANTIME_SEC,
    DISCOURAGE_DURATION_SEC,
    MAX_DISCOURAGED,
    MaxTime                   \* bound on the clock

ASSUME BanAssumption ==
    /\ BanTimes \subseteq Nat
    /\ DEFAULT_BANTIME_SEC \in Nat \ {0}
    /\ DISCOURAGE_DURATION_SEC \in Nat \ {0}
    /\ MAX_DISCOURAGED \in Nat \ {0}
    /\ MaxTime \in Nat \ {0}

VARIABLES
    now,         \* util::GetTime()
    banned,      \* banned_: nBanUntil of each address
    banlist,     \* banlist.json, the same
    unsaved,     \* the last save failed; the code only logs it
    discouraged  \* discouraged_: the expiry of each address

vars == <<now, banned, banlist, unsaved, discouraged>>

Absent == -1
PERMANENT == 0

BanEntry == {Absent} \cup Nat

TypeOK ==
    /\ now \in 1..MaxTime
    /\ banned \in [Addresses -> BanEntry]
    /\ banlist \in [Addresses -> BanEntry]
    /\ unsaved \in BOOLEAN
    /\ discouraged \in [Addresses -> BanEntry]

NoBans == [a \in Addresses |-> Absent]

Init ==
    /\ now = 1
    /\ banned = NoBans /\ banlist = NoBans /\ unsaved = FALSE
    /\ discouraged = NoBans

-----------------------------------------------------------------------------
\* CBanEntry::IsExpired.
IsExpired(until) == until # PERMANENT /\ until < now

Live(until) == until # Absent /\ ~IsExpired(until)

IsBanned(a) == Live(banned[a])

\* IsDiscouraged; the map keeps entries past their expiry until it is swept.
IsDiscouraged(a) == discouraged[a] # Absent /\ now < discouraged[a]

SweepExpired(list) == [a \in Addresses |-> IF Live(list[a]) THEN list[a] ELSE Absent]

\* SaveBansInternal: sweep, then write a temporary file and rename it.  When a
\* step fails the old file stays.
SaveBansInternal(list) ==
    /\ banned' = SweepExpired(list)
    /\ \E ok \in BOOLEAN :
          /\ banlist' = IF ok THEN SweepExpired(list) ELSE banlist
          /\ unsaved' = ~ok
    /\ UNCHANGED <<now, discouraged>>

Ban(a, offset) ==
    SaveBansInternal([banned EXCEPT ![a] =
                         IF offset > 0 THEN now + offset ELSE PERMANENT])

\* HandleSetBan "add": a missing or zero bantime is the default, permanent only
\* when asked for, and an absolute one has to be in the future.
SetBan(a, mode, bantime) ==
    \/ mode = "permanent" /\ Ban(a, 0)
    \/ mode = "absolute" /\ bantime > now /\ Ban(a, bantime - now)
    \/ /\ mode = "relative"
       /\ Ban(a, IF bantime = 0 THEN DEFAULT_BANTIME_SEC ELSE bantime)

\* Mutant: Unban forgets to save.
UnbanInMemory(a) ==
    /\ banned[a] # Absent
    /\ banned' = [banned EXCEPT ![a] = Absent]
    /\ UNCHANGED <<now, banlist, unsaved, discouraged>>

Unban(a) ==
    /\ banned[a] # Absent
    /\ SaveBansInternal([banned EXCEPT ![a] = Absent])

\* SweepBanned of the maintenance timer: it saves when it removed something.
SweepBanned ==
    /\ \E a \in Addresses : banned[a] # Absent /\ IsExpired(banned[a])
    /\ SaveBansInternal(banned)

Held(list) == {a \in Addresses : list[a] # Absent}

\* Mutant: past the limit the entry with the latest expiry goes.
DiscourageEvictingLatest(a) ==
    LET added == [discouraged EXCEPT ![a] = now + DISCOURAGE_DURATION_SEC]
        swept == [b \in Addresses |-> IF now < added[b] THEN added[b] ELSE Absent]
    IN  /\ \/ /\ Cardinality(Held(added)) <= MAX_DISCOURAGED
              /\ discouraged' = added
           \/ /\ Cardinality(Held(added)) > MAX_DISCOURAGED
              /\ Cardinality(Held(swept)) <= MAX_DISCOURAGED
              /\ discouraged' = swept
           \/ /\ Cardinality(Held(swept)) > MAX_DISCOURAGED
              /\ \E victim \in Held(swept) :
                    /\ \A b \in Held(swept) : swept[victim] >= swept[b]
                    /\ discouraged' = [swept EXCEPT ![victim] = Absent]
        /\ UNCHANGED <<now, banned, banlist, unsaved>>

\* Discourage: past the limit the expired entries go, then the entry with the
\* earliest expiry, the first that the map's iteration meets.
Discourage(a) ==
    LET added == [discouraged EXCEPT ![a] = now + DISCOURAGE_DURATION_SEC]
        swept == [b \in Addresses |-> IF now < added[b] THEN added[b] ELSE Absent]
    IN  /\ \/ /\ Cardinality(Held(added)) <= MAX_DISCOURAGED
              /\ discouraged' = added
           \/ /\ Cardinality(Held(added)) > MAX_DISCOURAGED
              /\ Cardinality(Held(swept)) <= MAX_DISCOURAGED
              /\ discouraged' = swept
           \/ /\ Cardinality(Held(swept)) > MAX_DISCOURAGED
              /\ \E victim \in Held(swept) :
                    /\ \A b \in Held(swept) : swept[victim] <= swept[b]
                    /\ discouraged' = [swept EXCEPT ![victim] = Absent]
        /\ UNCHANGED <<now, banned, banlist, unsaved>>

SweepDiscouraged ==
    /\ discouraged' = [a \in Addresses |->
                          IF now < discouraged[a] THEN discouraged[a] ELSE Absent]
    /\ UNCHANGED <<now, banned, banlist, unsaved>>

\* A crash or a shutdown, and LoadBans of the next start; LoadBans saves when
\* it skipped an expired entry.
LoadBans ==
    /\ banned' = SweepExpired(banlist)
    /\ banlist' \in {banlist, SweepExpired(banlist)}
    /\ unsaved' = FALSE
    /\ discouraged' = NoBans
    /\ UNCHANGED now

Tick ==
    /\ now < MaxTime
    /\ now' = now + 1
    /\ UNCHANGED <<banned, banlist, unsaved, discouraged>>

Next ==
    \/ \E a \in Addresses :
          \/ Unban(a) \/ Discourage(a)
          \/ \E mode \in {"permanent", "absolute", "relative"},
                bantime \in BanTimes : SetBan(a, mode, bantime)
    \/ SweepBanned \/ SweepDiscouraged
    \/ LoadBans \/ Tick

Spec == Init /\ [][Next]_vars

-----------------------------------------------------------------------------
\* Unless the last save failed, a restart changes no ban: the bans in force
\* are the ones that banlist.json would restore, with the same end, however
\* bans, expiry, sweeps, unbans and restarts follow each other.
BansSurviveRestart ==
    ~unsaved => SweepExpired(banned) = SweepExpired(banlist)

\* A discouraged address is let in early only when the map is full of entries
\* that last at least as long, or when the process starts again.
DiscouragementKept ==
    [][\A a \in Addresses :
          discouraged[a] > now' /\ discouraged'[a] = Absent =>
             \/ LoadBans
             \/ /\ Cardinality(Held(discouraged')) = MAX_DISCOURAGED
                /\ \A b \in Held(discouraged') : discouraged[a] <= discouraged'[b]]_vars
=============================================================================
