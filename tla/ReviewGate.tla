----------------------------- MODULE ReviewGate -----------------------------
(***************************************************************************)
(* What Loregraph promises about its agent: lore reaches canon only        *)
(* through a human decision.  The game master approves the content of a    *)
(* proposal; an agent turn may then write that content, and nothing else.  *)
(* Neither an approval nor a write is ever taken back.                     *)
(***************************************************************************)

CONSTANTS
  Requests,  \* the client requests; one that approves is its own approval
  Drafts,    \* the contents a proposal can have
  Entities   \* the entities a write can touch

VARIABLES
  approved,  \* the approvals given so far, at most one per request
  writes     \* the writes made to the world, at most one per request

vars == <<approved, writes>>

Init ==
  /\ approved = {}
  /\ writes = {}

(* The game master approves the content d in request r. *)
Approve(r, d) ==
  /\ \A a \in approved : a.by # r
  /\ approved' = approved \cup {[by |-> r, draft |-> d]}
  /\ UNCHANGED writes

(* The turn of request r writes content that an approval grants. *)
Write(r, touched) ==
  /\ \A w \in writes : w.by # r
  /\ \E a \in approved :
       writes' = writes \cup {[by |-> r, grant |-> a.by, draft |-> a.draft,
                               touched |-> touched]}
  /\ UNCHANGED approved

Next ==
  \E r \in Requests :
    \/ \E d \in Drafts : Approve(r, d)
    \/ \E touched \in SUBSET Entities : Write(r, touched)

Spec == Init /\ [][Next]_vars
=============================================================================
