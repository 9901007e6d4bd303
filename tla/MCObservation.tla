--------------------------- MODULE MCObservation ---------------------------
(* Values of the constants of Observation for TLC. *)
EXTENDS Observation

\* The cursor on a character, past its line's end and below the text.
Empty == [text |-> <<>>, row |-> 1, col |-> 1]
Prompt == [text |-> <<<<"a", "b">>>>, row |-> 0, col |-> 1]
PromptEnd == [text |-> <<<<"a", "b">>>>, row |-> 0, col |-> 3]

FewScreens == {Empty, Prompt, PromptEnd}
PromptMatches == {Prompt.text}
PromptOrNone == {NoBaseline, Empty.text}
============================================================================
