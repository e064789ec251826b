------------------------------- MODULE TextTime -------------------------------
(***************************************************************************)
(* Times as the store keeps them.  formatTime writes RFC3339Nano text, which*)
(* drops trailing zeros of the fraction, and SQLite compares the texts: in  *)
(* the same second "05.5Z" sorts before "05Z".  Times are counted in ticks, *)
(* TicksPerSecond to a second; a tick that is no whole second has a         *)
(* fraction in its text.                                                    *)
(***************************************************************************)
EXTENDS Naturals

CONSTANT TicksPerSecond

ASSUME TicksAssumption == TicksPerSecond \in Nat \ {0}

\* The position of formatTime(t) in the order of the texts: within a second the
\* fractions ascend and the text without a fraction comes last.
TextRank(t) ==
    IF t % TicksPerSecond = 0 THEN t + TicksPerSecond - 1 ELSE t - 1

\* "a<=?" between two formatted times.
NotAfterAsText(t, u) == TextRank(t) <= TextRank(u)
=============================================================================
