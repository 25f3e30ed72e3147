---------------------------- MODULE MCEditedFile ----------------------------
(* A file of two lines, as it is opened, edited and read by a program.       *)
EXTENDS EditedFile

CONSTANTS A, B, Cut, Blank

(* Cut begins like A and goes on behind two spaces.                          *)
MCContents   == {A, B, Cut, Blank}
MCCleaned    == [c \in MCContents |-> IF c = Cut THEN A ELSE c]
MCFirstText  == <<A, B>>
MCPastes     == {<<B>>, <<A, Blank>>}
MCTyped      == {Cut}
MCOtherTexts == {<<B>>}

=============================================================================
