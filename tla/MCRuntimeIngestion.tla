-------------------------- MODULE MCRuntimeIngestion --------------------------
\* Turns for RuntimeIngestion: what a provider may say of one or two messages.
EXTENDS RuntimeIngestion

CONSTANTS m1, m2

Delta(m) == [type |-> "delta", item |-> m, ends |-> FALSE]
LastOfLine(m) == [type |-> "delta", item |-> m, ends |-> TRUE]
Item(m, detail) == [type |-> "item", item |-> m, text |-> detail]
Turn(end) == [type |-> end]

\* A line and a rest, with the item's text at the end; two messages that alternate;
\* a turn without item events; a message without text; one that is said at once; an
\* item event with text that was never streamed; a turn that is aborted.
Lines == <<Delta(m1), LastOfLine(m1), Item(m1, "same"), Turn("completed")>>
Alternating == <<Delta(m1), Delta(m2), Item(m1, "same"), Turn("completed")>>
NoItems == <<Delta(m1), Delta(m1), Turn("completed")>>
NoText == <<Delta(m1), Delta(m1), Item(m1, "none"), Turn("completed")>>
AtOnce == <<Item(m1, "more"), Turn("completed")>>
Suffix == <<Delta(m1), Item(m1, "more"), Delta(m2), Turn("completed")>>
Aborted == <<Delta(m1), Delta(m1), Turn("aborted")>>

AllScripts == {Lines, Alternating, NoItems, NoText, AtOnce, Suffix, Aborted}
LongMessage == {<<Delta(m1), Delta(m1), Delta(m1), Item(m1, "same"), Turn("completed")>>}
Short == {NoItems, NoText}

\* The turns of an installation that streams assistant text.
StreamedSpec == Init /\ streaming = TRUE /\ [][Next]_vars

Symmetry == Permutations(Backends)
=============================================================================
