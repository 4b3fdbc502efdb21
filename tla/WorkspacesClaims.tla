--------------------------- MODULE WorkspacesClaims ---------------------------
(* What a comment of apps/system/api/workspace.py says, and the code does  *)
(* not do.                                                                 *)
EXTENDS Workspaces

\* workspace.py:254, "reset user default oid", where a workspace is deleted: from
\* then on nobody works in it.
DefaultIsReset ==
    \A u \in Members : Exists(u) /\ current[u] # None => current[u] \in spaces
===============================================================================
