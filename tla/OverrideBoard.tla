---------------------------- MODULE OverrideBoard ----------------------------
(***************************************************************************)
(* What the patch table promises to its readers, without transactions,     *)
(* locks or row statuses: a board with one slot per correction key         *)
(* (resource, patch type, question, matched SQL).  A slot is empty or      *)
(* shows one correction, and a key only ever moves on to corrections with  *)
(* larger numbers.  Each request changes the board in one step or not at   *)
(* all.  FeedbackLoop implements it, for any number of server processes.   *)
(***************************************************************************)
EXTENDS Integers

CONSTANTS Resources, Types, Texts, Statements, Numbers

Keys == Resources \X Types \X Texts \X Statements

VARIABLES
    board,   \* the correction each key shows, or 0
    latest   \* the largest number each key still has on record, or 0

vars == <<board, latest>>

BoardTypeOK ==
    /\ board \in [Keys -> Numbers \union {0}]
    /\ latest \in [Keys -> Numbers \union {0}]

Init ==
    /\ board = [k \in Keys |-> 0]
    /\ latest = [k \in Keys |-> 0]

\* The keys a request changes.
Changed == {k \in Keys : board'[k] # board[k] \/ latest'[k] # latest[k]}

\* An accepted correction, of one question asked of one resource when one
\* statement was shown, puts a number the key has not seen in the slot of each
\* of its types.
Publish(K) ==
    /\ \A k, l \in K : k[1] = l[1] /\ k[3] = l[3] /\ k[4] = l[4]
    /\ \A k \in K : /\ board'[k] \in Numbers
                   /\ board'[k] > latest[k]
                   /\ latest'[k] = board'[k]

\* Taking a correction down empties its slot: nothing older comes back there.
Withdraw(K) ==
    /\ \A k, l \in K : k = l
    /\ \A k \in K : board'[k] = 0 /\ latest'[k] = latest[k]

\* Deleting a resource forgets what its keys had when the request looked at
\* them; a key that got a correction since keeps it.
Purge(K) ==
    /\ \A k, l \in K : k[1] = l[1]
    /\ \A k \in K : board'[k] = 0 /\ latest'[k] = 0

Next ==
    /\ BoardTypeOK'
    /\ LET K == Changed IN Publish(K) \/ Withdraw(K) \/ Purge(K)

Spec == Init /\ [][Next]_vars
==============================================================================
