--------------------------- MODULE ProfileRegister ---------------------------
(***************************************************************************)
(* What the profile file of the controller promises: it is a table from names *)
(* to configurations which changes by one whole save or deletion at a time,   *)
(* each applied to what the one before has left.                            *)
(***************************************************************************)
CONSTANTS Name, Version

VARIABLE table

Absent == 0

Tables == [Name -> Version \cup {Absent}]

Saves == [kind : {"save"}, name : Name, version : Version, replace : Name]
Deletions == [kind : {"delete"}, name : Name]
Edits == Saves \cup Deletions

\* upsertConfig drops the entries of both names and appends the new one;
\* deleteConfig drops the entry.
Edited(edit, t) ==
  IF edit.kind = "delete"
  THEN [t EXCEPT ![edit.name] = Absent]
  ELSE [[t EXCEPT ![edit.replace] = Absent] EXCEPT ![edit.name] = edit.version]

RegisterInit == table = [n \in Name |-> Absent]
RegisterNext == \E edit \in Edits : table' = Edited(edit, table)
RegisterSpec == RegisterInit /\ [][RegisterNext]_table
=============================================================================
