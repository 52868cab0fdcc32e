---------------------------- MODULE MCLineEditor ----------------------------
(* A field of two characters, edited after a field of more of them whose     *)
(* third position was a literal.                                             *)
EXTENDS LineEditor

CONSTANT FormatChars  \* the format string's characters

MCFormats == {[i \in 1..2 |-> [literal |-> FALSE, char |-> c]] : c \in FormatChars}
MCBeyond == {[literal |-> TRUE, char |-> "-"]}
MCFlagSets == {{"EDIT_STRING"}, {"STRICT_INPUT"}}
=============================================================================
