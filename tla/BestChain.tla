------------------------------ MODULE BestChain ------------------------------
(***************************************************************************)
(* What the chain layer promises its users (miner, relay, RPC), without    *)
(* candidates, threads or files: a set of known headers, the ones among    *)
(* them condemned as invalid, and a tip.  The tip only moves to a known    *)
(* header that is not condemned and has strictly more work; it falls back  *)
(* only to the parent of a condemned header of its own chain.  A restart   *)
(* may forget headers, but then takes the heaviest of those it kept.       *)
(* Module Chainstate is checked to implement Spec.                         *)
(***************************************************************************)
EXTENDS BlockTree

VARIABLES known, condemned, tip, up

vars == <<known, condemned, tip, up>>

Init == known = {Genesis} /\ condemned = {} /\ tip = Genesis /\ up = TRUE

\* New headers attach to known, uncondemned ones.
Learn ==
  /\ up
  /\ known' \in SUBSET Headers
  /\ known \subseteq known'
  /\ \A h \in known' \ known : pprev(h) \in known' \ condemned
  /\ UNCHANGED <<condemned, tip, up>>

Switch ==
  /\ up
  /\ tip' \in known \ condemned
  /\ nChainWork[tip'] > nChainWork[tip]
  /\ UNCHANGED <<known, condemned, up>>

Condemn(h) ==
  /\ up
  /\ h \in known \ {Genesis}
  /\ condemned' = condemned \cup {b \in known : DescendsFrom(b, h)}
  /\ tip' = IF DescendsFrom(tip, h) THEN pprev(h) ELSE tip
  /\ UNCHANGED <<known, up>>

Stop == up /\ up' = FALSE /\ UNCHANGED <<known, condemned, tip>>

Recover ==
  /\ ~up
  /\ up' = TRUE
  /\ known' \in SUBSET known
  /\ condemned' \in SUBSET (condemned \cap known')
  /\ tip' \in known' \ condemned'
  /\ \A h \in known' \ condemned' : nChainWork[h] <= nChainWork[tip']

Next == Learn \/ Switch \/ (\E h \in Headers : Condemn(h)) \/ Stop \/ Recover

Spec == Init /\ [][Next]_vars

==============================================================================
