--------------------------- MODULE MCPiFeedAndAuth ---------------------------
(* The feed of a session; and, beside it, operations on the credentials with the   *)
(* inputs they fence, and the catalog of providers that a start looks at.          *)
EXTENDS MCPiFeed, PiAuth, PiAuthCatalog, TLC

CONSTANTS login, catalog, directory, m1, m2, v1, s1, s2

\* An operation that changes a credential, one that does not, and a refresh.
MCCalls == {login, catalog, directory}
MCActionOf == login :> "login" @@ catalog :> "catalog" @@ directory :> "directory"

\* Two inputs: one is on its way, the other waits behind it.
MCInputs == {m1, m2}

\* Two starts, so that one invalidates what the other reads, and a view that reads too.
MCViews == {v1}
MCStarts == {s1, s2}

\* The three share no state: one of them moves, while the others have not begun, so
\* that their states add up instead of multiplying.
MCInit == Init /\ AuthInit /\ CatalogInit
MCNext ==
  \/ AuthInit /\ CatalogInit /\ Next /\ UNCHANGED <<authVars, catalogVars>>
  \/ Init /\ CatalogInit /\ AuthNext /\ UNCHANGED <<vars, catalogVars>>
  \/ Init /\ AuthInit /\ CatalogNext /\ UNCHANGED <<vars, authVars>>
MCSpec == MCInit /\ [][MCNext]_<<vars, authVars, catalogVars>> /\ Fairness /\ AuthFairness

=============================================================================
