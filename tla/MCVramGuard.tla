----------------------------- MODULE MCVramGuard -----------------------------
(***************************************************************************)
(* Small instances of VramGuard.tla for TLC, with a short significand in   *)
(* the place of float64's 53 bits.                                         *)
(***************************************************************************)
EXTENDS VramGuardProperties

CONSTANT Bits   \* of the significand

\* Numbers are multiples of 1 / MCPoint, which is finer than any of the
\* roundings below.
MCPoint == 1024

\* n / d to the nearest number with a significand of Bits bits, ties to even.
MCRound(n, d) ==
    LET e    == CHOOSE k \in 0..20 :
                    /\ n \div d < 2^(Bits + k)
                    /\ k > 0 => n \div d >= 2^(Bits + k - 1)
        step == d * 2^e
        q    == n \div step
        rest == 2 * (n % step)
    IN  (IF rest > step - (q % 2) THEN q + 1 ELSE q) * 2^e

\* In tables, so that TLC rounds once.
Sizes     == 0..20
Quotients == [u \in Sizes |-> [t \in Sizes \ {0} |-> MCRound(u * MCPoint, t)]]
Percents  == [s \in 0..MCPoint |-> MCRound(100 * s, 1)]

MCQuotient(u, t) == Quotients[u][t]
MCPercent(s) == Percents[s]

\* Two GPUs of different sizes.  With 8 bits 3/5 comes out above 60 percent, so
\* that a close line of 60 lies just below it, as 55 does below 45056/81920 in
\* float64.
MCTotal  == <<4, 5>>
MCLevels == <<{0, 2, 3}, {0, 3, 4}>>
MCOomPct == 75 * MCPoint
MCClosePct == 60 * MCPoint

\* A third GPU reports no VRAM at all.  With 7 bits 11/20 comes out below 55
\* percent, so that it is not at an open line of 55, as 58/100 is not at one of
\* 58 in float64.  The default close line is then 50 percent, which 10/20 meets.
MCTotalBroken  == <<4, 20, 0>>
MCLevelsBroken == <<{0, 3}, {0, 10, 11}, {0}>>
MCOomPctBroken == 55 * MCPoint
=============================================================================
