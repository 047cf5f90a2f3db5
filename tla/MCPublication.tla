---- MODULE MCPublication ----
(* Small instances of Publication for TLC. *)
EXTENDS Publication, TLC

\* Two documents, one rewritten and one deleted by the mission.
ModifyDelete == <<"modify", "delete">>
\* Two documents, one created and one rewritten.
CreateModify == <<"create", "modify">>
\* One document of each kind of entry, where one entry is enough.
OneModify == <<"modify">>
OneDelete == <<"delete">>

OneOfEach == <<"modify", "create", "delete">>
OneCreate == <<"create">>
Symmetry == Permutations(Inodes)
====
