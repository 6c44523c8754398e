---------------------------- MODULE MCIndexStack ----------------------------
(* Small instances of IndexStack: the changes a settings page sends.       *)
EXTENDS IndexStack, TLC

Patch(provider, key) == [provider |-> provider, key |-> key]
MCPatches == {
  Patch("remote", Keep),  \* the remote provider, with whatever key there is
  Patch("remote", "sk"),  \* the provider and its key in one save
  Patch(Keep, ""),        \* the key is emptied
  Patch(Unset, Keep),     \* the provider is reset to the environment's
  Patch("disabled", Keep)}

(* The first version of an entity is long, what follows it is short.       *)
MCCut(e, v) == IF v = 1 THEN {1} ELSE {}

(* Bound: a run takes its second event before there is anything to index,   *)
(* where two settings changes race, or is not followed further; nor is one *)
(* whose change of settings leaves the model as it was.                    *)
SecondEventEarly ==
  events = 2 \/ overrides["key"] = "" =>
    entity = [e \in Entities |-> 0] /\ source = [s \in Sources |-> NoRow]

(* Bound: workers that race do so over entities or over documents; one that *)
(* is alone may find both.                                                 *)
OneKind ==
  \/ entity = [e \in Entities |-> 0]
  \/ source = [s \in Sources |-> NoRow]
  \/ Cardinality(Active) <= 1

(* Bound: two documents are followed while nothing fails or changes.       *)
TwoDocumentsAtPeace == events = 0 \/ \E s \in Sources : source[s] = NoRow

Interchangeable == Permutations(Requests) \cup Permutations(Sources)
=============================================================================
