---------------------------- MODULE MCCommitBatch ----------------------------
(***************************************************************************)
(* Instances of CommitBatch for TLC: a world of two related entities, and  *)
(* proposals that create, patch and relate in every combination the        *)
(* properties tell apart.                                                  *)
(***************************************************************************)
EXTENDS CommitBatch, TLC

CONSTANTS a, b,          \* entity ids standing in the world
          x, y, z,       \* relationship ids: two standing, one to be drawn
          old, new, other,  \* titles
          e1, e2         \* refs

(* Ids still to be drawn are only compared: enough of them for the largest  *)
(* proposal and every edit.                                                 *)
Symmetry == Permutations(Ids \ {a, b})

MCStanding == (a :> old) @@ (b :> other)
MCStandings == (x :> [source |-> a, target |-> b])
                 @@ (y :> [source |-> b, target |-> a])

Link(s, t) == [op |-> "create", source |-> s, target |-> t]
Update(e) == [op |-> "update", edge |-> e, reverse |-> TRUE]
Delete(e) == [op |-> "delete", edge |-> e]

Making == {<<>>,
           <<[ref |-> e1, title |-> new]>>,
           <<[ref |-> e1, title |-> new], [ref |-> e2, title |-> new]>>,
           <<[ref |-> e1, title |-> new], [ref |-> e1, title |-> new]>>,
           <<[ref |-> e1, title |-> old]>>}
Patching == {<<>>, <<a>>, <<a, b>>}
Relating == {<<>>,
             <<Link(a, b)>>,
             <<Link(e1, a)>>,
             <<Delete(x), Link(b, e1), Update(y)>>,
             <<Delete(x), Delete(x), Delete(y)>>}

(* The generator is asked for refs that differ; one proposal repeats one,    *)
(* and one deletes a relationship twice.                                    *)
MCProposals ==
  {[entities |-> m, patches |-> p, relationships |-> r] :
     m \in Making, p \in Patching, r \in Relating}
=============================================================================
