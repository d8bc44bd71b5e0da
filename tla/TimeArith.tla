------------------------------ MODULE TimeArith ------------------------------
(***************************************************************************)
(* Differences of ticks (base/base.cpp).  A tick is a word of 2 * H values *)
(* that wraps around; H is HALF, 2^31 in the code.                         *)
(***************************************************************************)
EXTENDS Integers, TLAPS

Ticks(H)    == 0..2 * H - 1
Differences(H) == -H..H - 1

\* x as an unsigned and as a signed word; x is off by at most one turn.
Word(H, x) == IF x < 0 THEN x + 2 * H ELSE IF x >= 2 * H THEN x - 2 * H ELSE x
Long(H, x) == IF x < -H THEN x + 2 * H ELSE IF x >= H THEN x - 2 * H ELSE x

TimeIsBetween(later, middle, earlier) ==
    IF earlier <= later
    THEN earlier <= middle /\ middle <= later
    ELSE ~(later < middle /\ middle < earlier)

TimeDiff(H, later, earlier) ==
    LET LAST == 2 * H - 1 IN
    IF TimeIsBetween(Word(H, earlier + H), later, earlier)
    THEN IF earlier <= later
         THEN Long(H, later - earlier)
         ELSE Long(H, Word(H, later + (LAST - earlier) + 1))
    ELSE IF later <= earlier
         THEN Long(H, -Long(H, earlier - later))
         ELSE Long(H, -Long(H, Word(H, earlier + (LAST - later) + 1)))

------------------------------------------------------------------------------
\* TimeDiff recovers any difference of less than half a turn, across the wrap-around
\* too; a tick exactly half a turn away counts as earlier (base.cpp:27).
THEOREM TimeDiffRecovers ==
    ASSUME NEW H \in Nat \ {0}, NEW earlier \in Ticks(H), NEW d \in Differences(H)
    PROVE  TimeDiff(H, Word(H, earlier + d), earlier) = d
<1>1. H \in Int /\ H > 0 /\ earlier \in Int /\ d \in Int /\ 0 <= earlier /\ earlier < 2 * H /\ -H <= d /\ d < H
  BY DEF Ticks, Differences
<1>2. CASE d >= 0 /\ earlier + d < 2 * H
  BY <1>1, <1>2 DEF TimeDiff, TimeIsBetween, Word, Long
<1>3. CASE d >= 0 /\ earlier + d >= 2 * H
  BY <1>1, <1>3 DEF TimeDiff, TimeIsBetween, Word, Long
<1>4. CASE d < 0 /\ earlier + d >= 0
  BY <1>1, <1>4 DEF TimeDiff, TimeIsBetween, Word, Long
<1>5. CASE d < 0 /\ earlier + d < 0
  BY <1>1, <1>5 DEF TimeDiff, TimeIsBetween, Word, Long
<1>6. QED
  BY <1>1, <1>2, <1>3, <1>4, <1>5

\* The comparison is antisymmetric, but for ticks half a turn apart, where both
\* orders answer that the first is the earlier one.
THEOREM TimeDiffAntisymmetric ==
    ASSUME NEW H \in Nat \ {0}, NEW a \in Ticks(H), NEW b \in Ticks(H)
    PROVE  \/ TimeDiff(H, a, b) = -TimeDiff(H, b, a)
           \/ TimeDiff(H, a, b) = -H /\ TimeDiff(H, b, a) = -H
<1>1. H \in Int /\ H > 0 /\ a \in Int /\ b \in Int /\ 0 <= a /\ a < 2 * H /\ 0 <= b /\ b < 2 * H
  BY DEF Ticks
<1>2. CASE a <= b
  BY <1>1, <1>2 DEF TimeDiff, TimeIsBetween, Word, Long
<1>3. CASE b < a
  BY <1>1, <1>3 DEF TimeDiff, TimeIsBetween, Word, Long
<1>4. QED
  BY <1>1, <1>2, <1>3
==============================================================================
