----------------------------- MODULE AddrManager -----------------------------
(***************************************************************************)
(* AddressManager: the NEW and TRIED tables of addresses and peers.json.   *)
(*                                                                         *)
(* Every method locks mutex_, so an operation is an operator from book to  *)
(* book and callers compose the ones they call.  What depends on the clock *)
(* is a parameter: an address may have become stale (30 days without news) *)
(* or be in its cooldown at any time, so select() may return any address.  *)
(* A count of attempts only matters up to MAX_FAILURES and stays there.    *)
(***************************************************************************)
EXTENDS Integers, FiniteSets

CONSTANTS Addresses, MAX_FAILURES, NoFile, Torn

ASSUME AddrAssumption ==
    /\ MAX_FAILURES \in Nat \ {0}
    /\ NoFile # Torn

Book == [new : SUBSET Addresses, tried : SUBSET Addresses,
         attempts : [Addresses -> 0..MAX_FAILURES]]

ASSUME FileAssumption == {NoFile, Torn} \cap Book = {}

VARIABLES
    book,      \* new_ and tried_
    saving,    \* how far Save is; it keeps mutex_ meanwhile
    tmp, file  \* peers.json.tmp and peers.json

bookVars == <<book, saving, tmp, file>>

Empty == [new |-> {}, tried |-> {}, attempts |-> [a \in Addresses |-> 0]]
Known(b) == b.new \cup b.tried
Terrible(b, a) == b.attempts[a] >= MAX_FAILURES

OneMore(n) == IF n < MAX_FAILURES THEN n + 1 ELSE n

\* add_internal of an address that is not stale; of one that is known it only
\* moves the timestamp.  Addresses without IP or port are left out.
Add(b, a) ==
    IF a \in Known(b) THEN b
    ELSE [b EXCEPT !.new = @ \cup {a}, !.attempts[a] = 0]

\* add_multiple, of the addresses in S that are not stale.
AddMultiple(b, S) ==
    [b EXCEPT !.new = @ \cup (S \ Known(b)),
              !.attempts = [a \in Addresses |->
                              IF a \in S \ Known(b) THEN 0 ELSE @[a]]]

\* attempt: TRIED entries only get a new cooldown.
Attempt(b, a) ==
    IF a \in b.new THEN [b EXCEPT !.attempts[a] = OneMore(@)] ELSE b

\* Mutant: the entry stays in NEW.
GoodKeepingNew(b, a) ==
    IF a \in Known(b)
    THEN [b EXCEPT !.tried = @ \cup {a}, !.attempts[a] = 0]
    ELSE b

Good(b, a) ==
    IF a \in Known(b)
    THEN [b EXCEPT !.new = @ \ {a}, !.tried = @ \cup {a}, !.attempts[a] = 0]
    ELSE b

\* failed: NEW entries are erased when terrible, TRIED ones go back to NEW.
Failed(b, a, stale) ==
    LET c == [b EXCEPT !.attempts[a] = OneMore(@)] IN
    CASE a \in b.new /\ (stale \/ Terrible(c, a)) ->
            [c EXCEPT !.new = @ \ {a}, !.attempts[a] = 0]
      [] a \in b.tried /\ Terrible(c, a) ->
            [c EXCEPT !.new = @ \cup {a}, !.tried = @ \ {a}]
      [] a \in Known(b) -> c
      [] OTHER -> b

\* cleanup_stale: TRIED entries stay even if they are old.
CleanupStale(b, stale) ==
    LET gone == {a \in b.new : a \in stale \/ Terrible(b, a)} IN
    [b EXCEPT !.new = @ \ gone,
              !.attempts = [a \in Addresses |-> IF a \in gone THEN 0 ELSE @[a]]]

\* Subsets of S with n members, or S when it has fewer.
Some(S, n) ==
    IF Cardinality(S) <= n THEN {S} ELSE {T \in SUBSET S : Cardinality(T) = n}

\* get_addresses(n): the samples it may return.  TRIED entries come first, and
\* stale NEW ones are left out.
GetAddresses(b, stale, n) ==
    LET tried == {a \in b.tried : ~Terrible(b, a)}
        new == {a \in b.new \ stale : ~Terrible(b, a)}
    IN  UNION {{S \cup T : T \in Some(new, n - Cardinality(S))} :
                  S \in Some(tried, n)}

-----------------------------------------------------------------------------
(* Save: the lock is taken and peers.json.tmp written, then fsynced, then  *)
(* renamed.  Each part can fail, and the process can stop after each.      *)

Unlocked == saving = "idle"

SaveWrites ==
    /\ Unlocked
    /\ tmp' = Torn /\ saving' = "written"
    /\ UNCHANGED <<book, file>>

\* A failed write or fsync removes the temporary file.
SaveSyncs ==
    /\ saving = "written"
    /\ \/ tmp' = book /\ saving' = "synced"
       \/ tmp' = NoFile /\ saving' = "idle"
    /\ UNCHANGED <<book, file>>

\* Mutant: the rename does not wait for the fsync.
SaveRenamesUnsynced ==
    /\ saving \in {"written", "synced"}
    /\ file' = tmp /\ tmp' = NoFile /\ saving' = "idle"
    /\ UNCHANGED book

SaveRenames ==
    /\ saving = "synced"
    /\ \/ file' = tmp /\ tmp' = NoFile /\ saving' = "idle"
       \/ file' = NoFile /\ saving' = "removed" /\ UNCHANGED tmp
    /\ UNCHANGED book

\* The second rename, once the destination was removed.
SaveRenamesAgain ==
    /\ saving = "removed"
    /\ \/ file' = tmp
       \/ UNCHANGED file
    /\ tmp' = NoFile /\ saving' = "idle"
    /\ UNCHANGED book

\* Load: a file that cannot be parsed, or none, leaves the tables empty.
Load == IF file \in {NoFile, Torn} THEN Empty ELSE file
=============================================================================
