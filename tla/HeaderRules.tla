----------------------------- MODULE HeaderRules -----------------------------
(***************************************************************************)
(* The rules a header must satisfy on top of its parent: timestamps        *)
(* against the median of the past and the adjusted clock, the difficulty   *)
(* that ASERT asks for, proof of work; and the miner's templates, which    *)
(* have to satisfy them.                                                   *)
(*                                                                         *)
(* The state is one branch: every rule looks at the ancestors of a header  *)
(* only, so forks are different behaviours.  Of the branch the rules see   *)
(* the last MEDIAN_TIME_SPAN timestamps and the anchor.  Sizes (the 2^32   *)
(* of a timestamp, the 2^16 of the fixed point, the widths of targets) are *)
(* parameters.  A target stands for its nBits, Compact being the loss.     *)
(***************************************************************************)
EXTENDS Integers, Sequences, FiniteSets, FiniteSetsExt, Functions

CONSTANTS
    MEDIAN_TIME_SPAN,
    MAX_FUTURE_BLOCK_TIME,
    DEFAULT_MAX_TIME_ADJUSTMENT,
    nNetworkExpirationInterval,  \* height at which the network expires
    nASERTAnchorHeight,          \* 1, where the difficulty is adjusted at all
    nPowTargetSpacing,
    nASERTHalfLife,
    powLimit,
    Fraction,      \* 65536: the fixed point of the exponent
    Factor,        \* 2^x in that fixed point, for x in [0,1): the cubic
    Width,         \* 2^512: the modulus of arith_uint512
    Mantissa,      \* 2^23: bound on the mantissa of nBits
    Byte,          \* 2^8: the base of the exponent of nBits
    MaxSize,       \* 32: bound on that exponent
    TimeModulus,   \* 2^32: the modulus of nTime
    MaxTime        \* bound: the clock

\* The powers of b.
Powers(b) == LET p[k \in Nat] == IF k = 0 THEN 1 ELSE b * p[k-1] IN p

ASSUME RulesAssumption ==
    /\ MEDIAN_TIME_SPAN \in Nat /\ MEDIAN_TIME_SPAN % 2 = 1
    /\ MAX_FUTURE_BLOCK_TIME \in Nat /\ DEFAULT_MAX_TIME_ADJUSTMENT \in Nat
    /\ nNetworkExpirationInterval \in Nat /\ nASERTAnchorHeight \in {0, 1}
    /\ nPowTargetSpacing \in Nat \ {0} /\ nASERTHalfLife \in Nat \ {0}
    /\ powLimit \in Nat \ {0} /\ Fraction \in Nat \ {0}
    /\ Factor \in [0..Fraction-1 -> Fraction..2*Fraction-1]
    /\ \A f, g \in 0..Fraction-1 : f <= g => Factor[f] <= Factor[g]
    /\ \E k \in 0..16 : Powers(2)[k] = Fraction
    /\ {Width, Mantissa, TimeModulus, MaxTime, MaxSize} \subseteq Nat \ {0}
    /\ 2 * Fraction * powLimit <= Width
    /\ Byte \in Nat \ {0, 1} /\ powLimit < Powers(Byte)[MaxSize]
    /\ Mantissa % Byte = 0

NoTime == -1

VARIABLES
    times,     \* the last MEDIAN_TIME_SPAN timestamps, oldest first
    height,    \* of the tip
    anchor,    \* timestamp of the ASERT anchor, once there is one
    clock,     \* util::GetTime()
    offset,    \* nTimeOffset
    template   \* the miner's template for the tip: its nTime, or NoTime

vars == <<times, height, anchor, clock, offset, template>>

TypeOK ==
    /\ times \in Seq(Nat) /\ Len(times) \in 1..MEDIAN_TIME_SPAN
    /\ height \in Nat /\ anchor \in Nat \cup {NoTime}
    /\ clock \in 0..MaxTime
    /\ offset \in -DEFAULT_MAX_TIME_ADJUSTMENT..DEFAULT_MAX_TIME_ADJUSTMENT
    /\ template \in Nat \cup {NoTime}

-----------------------------------------------------------------------------
(* Timestamps.                                                             *)

\* The positions that come before the end of the timestamps t in sorted order.
UpTo(s, t) == {i \in DOMAIN s : s[i] <= t}

\* Mutant: the index of the median is rounded down.
LowerMedian(s) ==
    Min({t \in Range(s) : Cardinality(UpTo(s, t)) > (Len(s) - 1) \div 2})

\* GetMedianTimePast: what sorting has at index Len \div 2, counted from 0, the
\* upper median when the number is even.
GetMedianTimePast(s) ==
    Min({t \in Range(s) : Cardinality(UpTo(s, t)) > Len(s) \div 2})

GetAdjustedTime == clock + offset

-----------------------------------------------------------------------------
(* Difficulty.                                                             *)

\* What nBits counts n in: the least power of a byte whose multiple fits the
\* mantissa.
Unit(n) ==
    Min({u \in {Powers(Byte)[k] : k \in 0..MaxSize} : n \div u < Mantissa})

\* GetCompact and SetCompact: the mantissa has no room for the low bits.
Compact(n) == n - (n % Unit(n))

\* Division of C, towards zero.
Quotient(n, d) == IF n >= 0 THEN n \div d ELSE -((-n) \div d)

\* >> and << of arith_uint512; a negative shift is a shift to the right.
\* Bits that a shift to the left loses count as more than powLimit.
Shifted(n, shift) ==
    IF shift <= 0 THEN n \div Powers(2)[-shift]
    ELSE LET m == (n * Powers(2)[shift]) % Width
         IN  IF m \div Powers(2)[shift] = n THEN m ELSE powLimit

FractionBits == CHOOSE k \in 0..16 : Powers(2)[k] = Fraction

\* Mutant: the integer part of the exponent is rounded towards zero.
IntegerPartOfQuotient(exponent) == Quotient(exponent, Fraction)

\* exponent >> 16, an arithmetic shift: rounded down.
IntegerPart(exponent) == exponent \div Fraction

\* CalculateASERT.  The product with 2^shifts comes after the one with the
\* factor, so the fixed point is taken off by the same shift.
CalculateASERT(refTarget, timeDiff, heightDiff) ==
    LET base == timeDiff - nPowTargetSpacing * (heightDiff + 1)
        exponent == Quotient(base * Fraction, nASERTHalfLife)
        shifts == IntegerPart(exponent)
        frac == exponent % Fraction
        next == Shifted(refTarget * Factor[frac], shifts - FractionBits)
    IN  IF next = 0 THEN 1 ELSE Min({next, powLimit})

\* GetNextWorkRequired for the child of a header at height h with timestamp t.
\* The anchor itself has the limit as its target.  The difference of two
\* timestamps is taken before it is widened.
GetNextWorkRequired(h, t) ==
    IF h < nASERTAnchorHeight THEN Compact(powLimit)
    ELSE Compact(CalculateASERT(Compact(powLimit), (t - anchor) % TimeModulus,
                                h - nASERTAnchorHeight))

NextBits == GetNextWorkRequired(height, times[Len(times)])

-----------------------------------------------------------------------------
(* Validation.                                                             *)

\* What is wrong with the header, for ContextualCheckBlockHeader.
ContextualCheckBlockHeader(t, bits, nVersion) ==
    CASE bits # NextBits -> "bad-diffbits"
      [] t <= GetMedianTimePast(times) -> "time-too-old"
      [] t > GetAdjustedTime + MAX_FUTURE_BLOCK_TIME -> "time-too-new"
      [] nVersion < 1 -> "bad-version"
      [] nNetworkExpirationInterval > 0
           /\ height + 1 >= nNetworkExpirationInterval -> "network-expired"
      [] OTHER -> "valid"

\* The tip moves to the header.  The miner notices before its next hash.
Extend(t) ==
    /\ times' = IF Len(times) < MEDIAN_TIME_SPAN THEN Append(times, t)
                ELSE Append(Tail(times), t)
    /\ height' = height + 1
    /\ anchor' = IF height + 1 = nASERTAnchorHeight THEN t ELSE anchor
    /\ template' = NoTime
    /\ UNCHANGED <<clock, offset>>

\* A header from the network, with any timestamp.
AcceptBlockHeader(t, bits, nVersion) ==
    /\ ContextualCheckBlockHeader(t, bits, nVersion) = "valid"
    /\ Extend(t)

-----------------------------------------------------------------------------
(* The miner.                                                              *)

\* Mutant: nTime is only moved when it is before the median.
TemplateTimeAtMedian ==
    LET past == GetMedianTimePast(times)
    IN  IF clock < past THEN past ELSE clock

TemplateTime ==
    LET past == GetMedianTimePast(times)
    IN  IF clock <= past THEN past + 1 ELSE clock

CreateBlockTemplate ==
    /\ template = NoTime
    /\ template' = TemplateTime
    /\ UNCHANGED <<times, height, anchor, clock, offset>>

\* The nonces are used up: a second later, or a new template at the limit.
NextNonceSpace ==
    /\ template # NoTime
    /\ template' = IF template < clock + MAX_FUTURE_BLOCK_TIME
                   THEN template + 1 ELSE TemplateTime
    /\ UNCHANGED <<times, height, anchor, clock, offset>>

\* A block that the rules refuse changes nothing.
BlockFound ==
    /\ template # NoTime
    /\ ContextualCheckBlockHeader(template, NextBits, 1) = "valid"
    /\ Extend(template)

-----------------------------------------------------------------------------
\* AddTimeData, for a sample that makes their number odd and at least five (the
\* others change nothing): the median of the samples, or 0 when it is too far
\* off.
AddTimeData(median) ==
    /\ offset' = IF median \in -DEFAULT_MAX_TIME_ADJUSTMENT..
                                DEFAULT_MAX_TIME_ADJUSTMENT
                 THEN median ELSE 0
    /\ UNCHANGED <<times, height, anchor, clock, template>>

Tick ==
    /\ clock < MaxTime
    /\ clock' = clock + 1
    /\ UNCHANGED <<times, height, anchor, offset, template>>

Latest == MaxTime + DEFAULT_MAX_TIME_ADJUSTMENT + MAX_FUTURE_BLOCK_TIME

Init ==
    /\ times = <<0>> /\ height = 0 /\ clock \in 0..MaxTime
    /\ anchor = IF nASERTAnchorHeight = 0 THEN 0 ELSE NoTime
    /\ offset = 0 /\ template = NoTime

Next ==
    \/ \E t \in 0..Latest, bits \in {NextBits, Compact(powLimit)}, v \in {0, 1} :
          AcceptBlockHeader(t, bits, v)
    \/ CreateBlockTemplate \/ NextNonceSpace \/ BlockFound
    \/ \E m \in -(DEFAULT_MAX_TIME_ADJUSTMENT+1)..DEFAULT_MAX_TIME_ADJUSTMENT+1 :
          AddTimeData(m)
    \/ Tick

Spec == Init /\ [][Next]_vars

-----------------------------------------------------------------------------
(* Properties.                                                             *)

\* No header after the anchor is older than the anchor, although a header may
\* be older than its parent: the unsigned difference in GetNextWorkRequired
\* never wraps.
TimeDiffExact ==
    anchor # NoTime => \A i \in DOMAIN times :
        Len(times) - i <= height - nASERTAnchorHeight => times[i] >= anchor

\* A later parent never makes the next block harder, one more block at the same
\* time never makes it easier, and there is no drift: blocks that follow the
\* anchor nPowTargetSpacing apart have the same target to meet at every height,
\* the one the anchor's child had.  It is not the anchor's own target: the time
\* is counted from the anchor and the height from the block before it.
DifficultyTracksSchedule ==
    anchor # NoTime =>
        LET onTime == anchor + nPowTargetSpacing * (height - nASERTAnchorHeight)
        IN
        /\ \A t \in anchor..TimeModulus-2 :
              /\ GetNextWorkRequired(height, t) <= GetNextWorkRequired(height, t + 1)
              /\ GetNextWorkRequired(height + 1, t) <= GetNextWorkRequired(height, t)
        /\ onTime < TimeModulus =>
              GetNextWorkRequired(height, onTime)
                = GetNextWorkRequired(nASERTAnchorHeight, anchor)

\* What the miner finds on the tip is never refused as too old, however clock
\* and offset moved since the template was made and however often its time was
\* moved on when the nonces were used up.
TemplatesNeverTooOld ==
    template # NoTime =>
        ContextualCheckBlockHeader(template, NextBits, 1) # "time-too-old"
=============================================================================
