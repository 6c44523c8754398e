--------------------------- MODULE ConnectorSync ----------------------------
(***************************************************************************)
(* A project with one connection, to Obsidian, to Foundry or to another MCP *)
(* server: the connection and its clients, the entities, and what exports   *)
(* and imports do to them and to the world outside.                        *)
(***************************************************************************)
EXTENDS FoundrySync, ObsidianVault

CONSTANTS Kinds,   \* the connector types the project may have connected
          First    \* the titles of the entities it begins with, for each type

ASSUME FirstAssumption ==
  \A k \in Kinds : First[k] \in [Entities -> Titles \cup {None, Gone}]

SyncVars == <<rows, clients, req, mishaps, world, vault, kept>>

SyncInit ==
  /\ kind \in Kinds
  /\ row = TRUE
  /\ entity = First[kind]
  /\ link = [e \in Entities |-> NoLinks] /\ older = [e \in Entities |-> NoOlder]
  /\ cache = None /\ lock = None /\ proc = [c \in Clients |-> None]
  /\ req = [r \in Requests |-> Idle]
  /\ edits = 0 /\ mishaps = 0
  /\ FoundryInit /\ VaultInit

SyncNext ==
  \/ ConnectionsNext /\ UNCHANGED <<world, vault, kept>>
  \/ FoundryNext /\ UNCHANGED <<vault, kept>>
  \/ VaultNext /\ UNCHANGED world

SyncSpec == SyncInit /\ [][SyncNext]_SyncVars
=============================================================================
