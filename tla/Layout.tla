------------------------------ MODULE Layout ------------------------------
(***************************************************************************)
(* The width tiers and width helpers of internal/tui/layout/layout.go.    *)
(* A string is its sequence of runes.  int(float64(avail) * 0.4) is       *)
(* (2 * avail) \div 5: the double nearest 0.4 is slightly above it, so    *)
(* the product is never rounded below the exact multiple of 0.4 and the   *)
(* conversion truncates it to the same integer.                           *)
(***************************************************************************)
EXTENDS Integers, Sequences

SplitViewThreshold     == 120
WideViewThreshold      == 200
UltraWideViewThreshold == 240

\* Tier values, in increasing order of width.
TierNarrow == 0
TierSplit  == 1
TierWide   == 2
TierUltra  == 3

\* TierForWidth: the first threshold the width reaches, from the widest.
TierForWidth(width) ==
    CASE width >= UltraWideViewThreshold -> TierUltra
      [] width >= WideViewThreshold      -> TierWide
      [] width >= SplitViewThreshold     -> TierSplit
      [] OTHER                           -> TierNarrow

\* The first n runes of s: runes[:n].
Prefix(s, n) == SubSeq(s, 1, n)

\* Mutant: the short-max guard also takes max equal to the suffix length.
TruncateRunesShortGuardInclusive(s, max, suffix) ==
    CASE max <= 0                -> <<>>
      [] Len(s) <= max           -> s
      [] max <= Len(suffix)      -> Prefix(s, max)
      [] OTHER                   -> Prefix(s, max - Len(suffix)) \o suffix

\* TruncateRunes: nothing for a non-positive max, s itself when it fits,
\* a bare cut when the suffix alone is longer than max, and otherwise a
\* cut that leaves room for the suffix.
TruncateRunes(s, max, suffix) ==
    CASE max <= 0                -> <<>>
      [] Len(s) <= max           -> s
      [] max < Len(suffix)       -> Prefix(s, max)
      [] OTHER                   -> Prefix(s, max - Len(suffix)) \o suffix

\* Mutant: the split threshold is exclusive.
SplitProportionsExclusive(total) ==
    IF total <= SplitViewThreshold THEN <<total, 0>>
    ELSE LET avail == IF total - 8 < 10 THEN total ELSE total - 8
             left  == (2 * avail) \div 5
         IN <<left, avail - left>>

\* SplitProportions: below the split threshold everything goes left;
\* otherwise 8 columns of padding are taken off (unless fewer than 10
\* would remain) and the rest split 40/60.
SplitProportions(total) ==
    IF total < SplitViewThreshold THEN <<total, 0>>
    ELSE LET avail == IF total - 8 < 10 THEN total ELSE total - 8
             left  == (2 * avail) \div 5
         IN <<left, avail - left>>

=============================================================================
