---------------------------- MODULE MCSharedPlay ----------------------------
(* Small instances of SharedPlay.                                          *)
EXTENDS SharedPlay, TLC

(* Bound: of files, notes and the editor only one is in play at a time;     *)
(* they meet in nothing but the entity's row, which each of them has.      *)
FilesInPlay ==
  \/ \E f \in Files : file[f] # None \/ attach[f] # None
  \/ \E r \in Requests : req[r].op = "upload"
NotesInPlay ==
  \/ \E n \in Notes : note[n] # NoNote
  \/ \E r \in Requests : req[r].op \in {"write", "edit", "erase"}
EditorInPlay ==
  \/ \E e \in Entities : page[e].fields # NoFields
  \/ \E r \in Requests : req[r].op \in {"save", "patch"}

(* Bound: of players that only read, who do not affect one another, one is  *)
(* served at a time, and of those that write likewise.                     *)
OneReader ==
  \A ops \in {{"look", "notes", "file"}, {"write", "edit", "erase"}} :
    Cardinality({r \in Requests : req[r].op \in ops}) <= 1

(* Bound: one player at a time is revoked or gone, and none while a file or *)
(* the editor is in play; only a note needs two players at the table; of two *)
(* writers that race no player is asking meanwhile; an entity is revealed   *)
(* before its file is there, not after; no field is shown while a note is  *)
(* in play; and what a stale copy did is followed in the editor only.      *)
OneTopic ==
  /\ Cardinality({i \in 1..3 : <<FilesInPlay, NotesInPlay, EditorInPlay>>[i]}) <= 1
  /\ Cardinality({p \in Players : player[p] # "active"}) <=
       IF FilesInPlay \/ EditorInPlay THEN 0 ELSE 1
  /\ NotesInPlay \/ Cardinality(cookie) <= 1
  /\ Cardinality({r \in Requests : req[r].op \in {"save", "patch", "view"}}) <= 1 \/ cookie = {}
  /\ FilesInPlay => \A r \in Requests : req[r].op \notin {"view", "look", "notes"}
  /\ NotesInPlay => \A e \in Entities : chosen[e] = {}
  /\ muddled # {} => EditorInPlay

Interchangeable == Permutations(Requests) \cup Permutations(Players)
=============================================================================
