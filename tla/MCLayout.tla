----------------------------- MODULE MCLayout -----------------------------
(***************************************************************************)
(* Checks the layout helpers for every terminal width up to MaxWidth and  *)
(* every string of up to MaxRunes runes over a narrow and a wide glyph,   *)
(* against max values around the suffix lengths.  A resize moves the     *)
(* width by one column, so every width is reached.                        *)
(***************************************************************************)
EXTENDS Layout

CONSTANTS
    MaxWidth,    \* widest terminal considered
    MaxRunes,    \* longest string truncated
    Glyphs,      \* runes a string is made of
    Maxes,       \* max arguments of TruncateRunes
    Suffixes     \* suffix arguments, as rune sequences

VARIABLES width, text, max, suffix

vars == <<width, text, max, suffix>>

Init ==
    /\ width = 0
    /\ text = <<>>
    /\ max \in Maxes
    /\ suffix \in Suffixes

Widen ==
    /\ width < MaxWidth
    /\ width' = width + 1
    /\ UNCHANGED <<text, max, suffix>>

Shrink ==
    /\ width = MaxWidth
    /\ width' = 0
    /\ UNCHANGED <<text, max, suffix>>

Type ==
    /\ Len(text) < MaxRunes
    /\ \E g \in Glyphs : text' = Append(text, g)
    /\ UNCHANGED <<width, max, suffix>>

Clear ==
    /\ text # <<>>
    /\ text' = <<>>
    /\ UNCHANGED <<width, max, suffix>>

Reconfigure ==
    /\ \E m \in Maxes, x \in Suffixes : max' = m /\ suffix' = x /\ <<m, x>> # <<max, suffix>>
    /\ UNCHANGED <<width, text>>

Next == Widen \/ Shrink \/ Type \/ Clear \/ Reconfigure

Spec == Init /\ [][Next]_vars

\* max arguments: negative, zero, around the suffix lengths and the text.
MCMaxes == -1..4

\* suffixes: none, one rune (an ellipsis), three runes ("...").
MCSuffixes == {<<>>, <<"ellipsis">>, <<".", ".", ".">>}

-----------------------------------------------------------------------------
\* TruncateRunes never returns more than max runes (nothing for max <= 0),
\* returns the text untouched when it fits, and otherwise returns a prefix
\* of the text followed by the whole suffix, filling exactly max runes,
\* whenever the suffix fits in max; only a suffix longer than max is dropped.
TruncateWithinMax ==
    LET r == TruncateRunes(text, max, suffix)
    IN /\ max <= 0 => r = <<>>
       /\ max > 0 /\ Len(text) <= max => r = text
       /\ max > 0 /\ Len(text) > max =>
             /\ Len(r) = max
             /\ IF Len(suffix) <= max
                THEN /\ Prefix(r, max - Len(suffix)) = Prefix(text, max - Len(suffix))
                     /\ SubSeq(r, max - Len(suffix) + 1, max) = suffix
                ELSE r = Prefix(text, max)

\* The split panes and their 8 columns of padding use the whole width
\* exactly, the left pane never exceeds the right, and a right pane exists
\* exactly when TierForWidth puts the width in the split tier or above.
SplitMatchesTier ==
    LET lr == SplitProportions(width)
    IN /\ (lr[2] > 0) = (TierForWidth(width) >= TierSplit)
       /\ lr[1] + lr[2] + (IF lr[2] > 0 THEN 8 ELSE 0) = width
       /\ lr[2] > 0 => lr[1] <= lr[2]

=============================================================================
