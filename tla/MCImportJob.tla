---------------------------- MODULE MCImportJob ----------------------------
(***************************************************************************)
(* An instance of ImportJob for TLC: a document of two windows and three    *)
(* entities, which make two pages of review.  An alias of the first         *)
(* resembles the title of the second, which the other window names too, so  *)
(* that the order of their answers shows in the registry; that window also  *)
(* repeats an entity and a relationship.  Of the relationships one crosses  *)
(* the pages, one stays on its page, and one leads nowhere.                *)
(***************************************************************************)
EXTENDS ImportJob

E(window, ref, title) == [window |-> window, ref |-> ref, title |-> title]
R(window, source, target) ==
  [window |-> window, source |-> source, target |-> target]
Entry(canonical, aliases) == [canonical |-> canonical, aliases |-> aliases]

MCSimilar == {<<"bell", "bel">>}

TwoWindows ==
  [windows |->
     <<[registry |-> <<Entry("ash", {"bel"})>>,
        entities |-> <<E(1, "e1", "ash"), E(1, "e2", "bell"),
                       E(1, "e3", "crow")>>,
        relationships |-> <<R(1, "e3", "e1"), R(1, "e2", "e1"),
                            R(1, "e2", "nobody")>>],
       [registry |-> <<Entry("bell", {})>>,
        entities |-> <<E(2, "e1", "ash")>>,
        relationships |-> <<R(2, "crow", "e1")>>]>>]

MCDocuments == {TwoWindows}
=============================================================================
