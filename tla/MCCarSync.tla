------------------------------ MODULE MCCarSync ------------------------------
(* Small instances of the synchronization of a car for TLC: a name and notes,  *)
(* one new value for each, and a car the server refuses to create.              *)
EXTENDS CarSync

AField == {"name", "notes"}
Rename == [f \in {"name"} |-> "new"]
Note == [f \in {"notes"} |-> "new"]
OneEdit == {Rename}
TwoEdits == {Rename, Note}
NoCars == {}
SomeCars == {[f \in AField |-> "blank"], [f \in AField |-> "bad"]}
=============================================================================
