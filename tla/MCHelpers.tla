----------------------------- MODULE MCHelpers -----------------------------
(***************************************************************************)
(* Checks the two families of pure helpers in one run: the conflict       *)
(* detection of MCConflicts and the layout helpers of MCLayout.  They     *)
(* share no state, so a behaviour exercises one of them, chosen at the    *)
(* start (part), and their state spaces add rather than multiply.         *)
(***************************************************************************)
EXTENDS Integers

CONSTANTS
    FileModified, MaxChanges, Paths, Types, Attributions, Sessions, Times,
    MaxWidth, MaxRunes, Glyphs, Maxes, Suffixes

VARIABLES changes, query, width, text, max, suffix, part

ConflictsMC == INSTANCE MCConflicts
LayoutMC    == INSTANCE MCLayout

vars == <<changes, query, width, text, max, suffix, part>>

\* The half that does not move keeps one state, its first.
Init ==
    /\ ConflictsMC!Init
    /\ LayoutMC!Init
    /\ \/ part = "layout"
       \/ part = "conflicts" /\ max = 0 /\ suffix = <<>>

Next ==
    \/ part = "conflicts" /\ ConflictsMC!Next /\ UNCHANGED <<width, text, max, suffix, part>>
    \/ part = "layout" /\ LayoutMC!Next /\ UNCHANGED <<changes, query, part>>

Spec == Init /\ [][Next]_vars

\* The max and suffix arguments of MCLayout, written out: a constant
\* overridden by a definition taken through LayoutMC would refer to itself.
MCMaxes == -1..4

MCSuffixes == {<<>>, <<"ellipsis">>, <<".", ".", ".">>}

-----------------------------------------------------------------------------
\* ConflictsSince matches its reference: the paths two or more agents
\* changed, with their changes in order, agents and latest time
\* (MCConflicts!ConflictsMatchReference).
ConflictsMatchReference == ConflictsMC!ConflictsMatchReference

\* conflictSeverity is critical with three or more agents or a spread of at
\* most 2 minutes, as its doc comment says
\* (MCConflicts!CriticalWhereDocSaysCritical).
CriticalWhereDocSaysCritical == ConflictsMC!CriticalWhereDocSaysCritical

\* TruncateRunes never exceeds max runes and keeps what fits
\* (MCLayout!TruncateWithinMax).
TruncateWithinMax == LayoutMC!TruncateWithinMax

\* SplitProportions follows TierForWidth and adds up to the width
\* (MCLayout!SplitMatchesTier).
SplitMatchesTier == LayoutMC!SplitMatchesTier

=============================================================================
