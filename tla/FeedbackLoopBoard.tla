--------------------------- MODULE FeedbackLoopBoard ---------------------------
(***************************************************************************)
(* The refinement: the patch table of FeedbackLoop implements              *)
(* OverrideBoard.  A slot shows the active patch of its key, and the       *)
(* latest number of a key is its largest patch id in the table.            *)
(***************************************************************************)
EXTENDS FeedbackLoop

OnRecord(k) == {p \in PatchIds : patches[p] # NoRow /\ Key(patches[p]) = k}
Shown(k) == {p \in OnRecord(k) : IsActive(p)}

Largest(S) == IF S = {} THEN 0 ELSE CHOOSE p \in S : \A o \in S : o <= p

Board == INSTANCE OverrideBoard WITH
            Resources <- ResourceIds, Types <- PatchTypes, Texts <- Texts,
            Statements <- Sqls, Numbers <- PatchIds,
            board <- [k \in ResourceIds \X PatchTypes \X Texts \X Sqls |->
                        Largest(Shown(k))],
            latest <- [k \in ResourceIds \X PatchTypes \X Texts \X Sqls |->
                        Largest(OnRecord(k))]

\* Every commit changes the board as one request of the abstract board would,
\* and no other step changes it: at most one correction per key is ever shown,
\* newer ones replace older ones, and a correction taken down never gives way
\* to an older one with the same key.
BoardSpec == Board!Spec
==============================================================================
