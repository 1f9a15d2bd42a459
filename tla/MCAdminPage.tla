---------------------------- MODULE MCAdminPage ------------------------------
(* Instances of AdminPage for TLC: the search box and the select beside it   *)
(* have one use each, which keeps one row.                                   *)
EXTENDS AdminPage

TextHitsDef == [t \in Texts |-> IF t = "" THEN Ids ELSE {1}]
ChoiceHitsDef == [c \in Choices |-> IF c = "" THEN Ids ELSE {MaxId}]
StartDef == {{1}, {1, 2}}
==============================================================================
