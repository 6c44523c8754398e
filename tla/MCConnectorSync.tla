-------------------------- MODULE MCConnectorSync ---------------------------
(***************************************************************************)
(* Small instances of ConnectorSync: two entities and the ids of others     *)
(* that imports may create.                                                *)
(***************************************************************************)
EXTENDS ConnectorSync, TLC

CONSTANTS e1, e2, e3, t1, t2, t3, f1, f2

TwoEntities == e1 :> t1 @@ e2 :> t2 @@ e3 :> None
OneEntity == e1 :> t1 @@ e2 :> None @@ e3 :> Gone
FewEntities == "obsidian" :> TwoEntities @@ "foundry" :> OneEntity @@ "mcp" :> OneEntity

(* The third title loses a character a file name may not have.             *)
SanitizedAlike == t1 :> f1 @@ t2 :> f2 @@ t3 :> f2
AllDifferent == t1 :> f1 @@ t2 :> f2

Interchangeable == Permutations(Requests)

(* Bounds of each kind's own: the hazards of clients are left to mcp, where  *)
(* nothing else happens; elsewhere two requests do different things, but    *)
(* that notes may be exported twice at once, and a push or an import has    *)
(* no export of notes beside it; nothing is followed that goes wrong beside *)
(* two exports; in Foundry, where titles do not matter, there is one,       *)
(* nothing is edited under two requests, and one of two actors may be there *)
(* that no export made.                                                    *)
Ops == {req[r].op : r \in Active}
InBounds ==
  /\ kind # "mcp" =>
       /\ edits + mishaps <= 1
       /\ "tool" \notin Ops
       /\ \A r, s \in Active : req[r].op = req[s].op => r = s \/ Ops = {"export"}
  /\ kind = "obsidian" /\ Cardinality(Ops) = 2 => Exports \intersect Ops = {} \/ "edit" \in Ops
  /\ kind = "obsidian" /\ Cardinality(Active) = 2 /\ Ops = {"export"} => mishaps = 0
  /\ kind = "foundry" /\ Cardinality(Active) = 2 => edits = 0
  /\ kind = "foundry" => actor[CHOOSE a \in Actors : TRUE] # "foreign"
  /\ kind = "foundry" => "export" \notin Ops /\ \A e \in Entities : entity[e] # t2
=============================================================================
