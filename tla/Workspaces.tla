------------------------------ MODULE Workspaces ------------------------------
(***************************************************************************)
(* Users of SQLBot, the workspaces they belong to and the cached record of *)
(* a user (apps/system/api/user.py, api/workspace.py, crud/user.py,        *)
(* crud/workspace.py, common/core/sqlbot_cache.py).  Every request begins  *)
(* with the record of its user, from the cache when it is there; a handler *)
(* that changes a user drops the record, and its transaction is committed  *)
(* by common/core/db.py only after the handler has returned.               *)
(*                                                                         *)
(* One process with its in-memory cache, the default.  All handlers run on *)
(* one event loop.  Nothing in them gives the loop away, so a handler      *)
(* holds it from its first line to its last, but its statements go to the  *)
(* database one by one, and the commits of other requests, made in         *)
(* threads, fall between them.  The loop hands a commit to a thread after  *)
(* the handler, when it is free again.  A statement that must wait for the *)
(* lock of another transaction waits with the loop in its hand.            *)
(*                                                                         *)
(* Of a user the current workspace and the status are kept, of a           *)
(* membership the weight.  New users and new workspaces are left out:      *)
(* nothing refers to them before they are committed.                       *)
(***************************************************************************)
EXTENDS Integers, FiniteSets

CONSTANTS
    Users,        \* the users there are at the start
    Admin,        \* the built-in user with id 1, a member of nothing
    Spaces,       \* the workspaces there are at the start
    Home,         \* the default workspace, which cannot be deleted
    Rows,         \* the ids of memberships (sys_user_ws): a bound on their number
    Requests,     \* the requests that may be under way at once
    None,         \* no workspace, no row, nothing cached
    Same,         \* what a transaction leaves as it is
    MaxRequests   \* bound on the requests that are made

ASSUME UserAssumption == Admin \in Users /\ None \notin Users
ASSUME SpaceAssumption == Home \in Spaces /\ None \notin Spaces /\ Same \notin Spaces
ASSUME RequestAssumption == None \notin Requests
ASSUME BoundAssumption == MaxRequests \in Nat

Members == Users \ {Admin}
Status == {"on", "off", "gone"}
Weights == {0, 1}
Row == [user : Members, space : Spaces, weight : Weights]

ASSUME MarkAssumption == /\ None # Same
                         /\ None \notin Row /\ Same \notin Row
                         /\ Same \notin Status

VARIABLES
    current,   \* sys_user.oid: the workspace each user works in
    status,    \* sys_user.status, "gone" for a user who has been deleted
    row,       \* sys_user_ws: each membership
    spaces,    \* sys_workspace
    cache,     \* the cached record of each user
    req,       \* each request
    loop,      \* the request that holds the event loop
    made       \* how many requests have been made

vars == <<current, status, row, spaces, cache, req, loop, made>>
tables == <<current, status, row, spaces>>

\* What a transaction writes: the new value of all it changes.
Writes == [current : [Users -> Spaces \union {None, Same}],
           status : [Users -> Status \union {Same}],
           row : [Rows -> Row \union {None, Same}],
           closed : SUBSET Spaces]

NoWrites == [current |-> [u \in Users |-> Same], status |-> [u \in Users |-> Same],
             row |-> [i \in Rows |-> Same], closed |-> {}]

Upon(old, new) == [x \in DOMAIN old |-> IF new[x] = Same THEN old[x] ELSE new[x]]

Then(w, v) == [current |-> Upon(w.current, v.current),
               status |-> Upon(w.status, v.status),
               row |-> Upon(w.row, v.row),
               closed |-> w.closed \union v.closed]

\* The record of a user; weight -1 for one who is no member of the current
\* workspace.
Info == [current : Spaces \union {None}, status : Status, weight : Weights \union {-1}]

\* "raced" marks a record that was read while a request that changes the user
\* was between its handler and its commit.
Entry == [info : Info \union {None}, raced : BOOLEAN]

ASSUME InfoAssumption == None \notin Info

\* "done" has been sent to the database and holds its locks, "pending" waits in
\* the session for the next flush.  "todo" are the users a loop has yet to
\* visit, "list" those it is about, "wanted" the workspaces of an edited user
\* and then those to be taken away, "plan" the new workspaces of the members
\* of a deleted one, "edited" the membership whose weight is changed.
Request == [at : {"idle", "fill", "in", "option", "edit", "add", "remove", "other",
                  "erase", "drop", "own", "members", "plan", "reset",
                  "gone", "handled", "committing"},
            user : Users \union {None},
            info : Info \union {None},
            raced : BOOLEAN,
            list : SUBSET Members,
            todo : SUBSET Members,
            space : Spaces,
            edited : Rows \union {None},
            wanted : SUBSET Spaces,
            weight : Weights,
            plan : [Users -> Spaces \union {None, Same}],
            done : Writes,
            pending : Writes]

Idle == [at |-> "idle", user |-> None, info |-> None, raced |-> FALSE,
         list |-> {}, todo |-> {}, space |-> Home, edited |-> None,
         wanted |-> {}, weight |-> 0,
         plan |-> [u \in Users |-> Same], done |-> NoWrites, pending |-> NoWrites]

RowsOf(u) == {i \in Rows : row[i] # None /\ row[i].user = u}
RowsIn(s) == {i \in Rows : row[i] # None /\ row[i].space = s}
MembersOf(s) == {row[i].user : i \in RowsIn(s)}
SpacesOf(u) == {row[i].space : i \in RowsOf(u)}
Exists(u) == status[u] # "gone"

\* Mutant: The weight of a missing membership is taken for one.
WeightOrNothing(u, s) ==
    LET weights == {row[i].weight : i \in RowsOf(u) \intersect RowsIn(s)}
    IN IF u = Admin THEN {0} ELSE IF weights = {} THEN {None} ELSE weights

\* The weight of a membership: one of them, if it is there more than once.
WeightOf(u, s) ==
    LET weights == {row[i].weight : i \in RowsOf(u) \intersect RowsIn(s)}
    IN IF u = Admin THEN {0} ELSE IF weights = {} THEN {-1} ELSE weights

\* The right records of a user.
Infos(u) ==
    IF Exists(u)
    THEN {[current |-> current[u], status |-> status[u], weight |-> w] :
            w \in WeightOf(u, current[u])}
    ELSE {None}

\* The users whose records a transaction changes.
TouchedBy(w) ==
    {u \in Users : w.current[u] # Same \/ w.status[u] # Same}
    \union {row[i].user : i \in {j \in Rows : row[j] # None /\ w.row[j] # Same}}
    \union {w.row[i].user : i \in {j \in Rows : w.row[j] \notin {None, Same}}}

Touched(r) == TouchedBy(req[r].done) \union TouchedBy(req[r].pending)

\* The locks of the rows a transaction has written.
Locks(w) == {<<"user", u>> : u \in {v \in Users : w.current[v] # Same \/ w.status[v] # Same}}
            \union {<<"row", i>> : i \in {j \in Rows : w.row[j] # Same}}

CanWrite(r, w) ==
    \A q \in Requests \ {r} : Locks(req[q].done) \intersect Locks(w) = {}

\* An update of a row that is gone fails; a deletion does not.  Only a commit can
\* meet one: users are deleted with the loop in hand, so that those a handler has
\* read are there until it returns.
Sound(r) ==
    /\ \A u \in Users : (req[r].pending.current[u] # Same \/ req[r].pending.status[u] # Same)
                          => Exists(u)
    /\ req[r].edited # None => row[req[r].edited] # None

Unused == {i \in Rows :
    /\ row[i] = None
    /\ \A q \in Requests : req[q].done.row[i] = Same /\ req[q].pending.row[i] = Same}

\* Bound: a request that adds n memberships begins only if as many ids are left.
Room(n) == Cardinality(Unused) >= n

Init ==
    /\ current \in [Users -> Spaces \union {None}]
    /\ status = [u \in Users |-> "on"]
    /\ row \in [Rows -> Row \union {None}]
    /\ spaces = Spaces
    /\ current[Admin] = Home
    /\ \A u \in Members : current[u] = None \/ current[u] \in SpacesOf(u)
    /\ cache = [u \in Users |-> None]
    /\ req = [r \in Requests |-> Idle]
    /\ loop = None
    /\ made = 0

Become(r, new) == req' = [req EXCEPT ![r] = new]
End(r) == Become(r, Idle)
Drop(U) == cache' = [u \in Users |-> IF u \in U THEN None ELSE cache[u]]

\* A handler of r that starts, or that goes on after a statement.
Starts(r) == loop = None /\ req[r].at = "in" /\ UNCHANGED <<tables, made>>
GoesOn(r, at) == loop = r /\ req[r].at = at /\ UNCHANGED <<tables, made>>
Holds(r) == loop' = r
Frees == loop' = None

IsAdmin(r) == req[r].user = Admin
Changed(old, new) == IF new = old THEN Same ELSE new

SetCurrent(u, s) == [NoWrites EXCEPT !.current[u] = s]
Delete(I) == [NoWrites EXCEPT !.row = [i \in Rows |-> IF i \in I THEN None ELSE Same]]

\* New memberships: "of" says which ids become which.
Insert(of) == [NoWrites EXCEPT !.row = [i \in Rows |-> IF i \in DOMAIN of THEN of[i] ELSE Same]]

(* The record of the user of a request (validateToken, get_user_info)      *)

Accepted(info) == info # None /\ info.status = "on" /\ info.current # None

Cached(r, u) ==
    /\ loop = None /\ req[r].at = "idle" /\ made < MaxRequests
    /\ cache[u] # None
    /\ Accepted(cache[u].info)
    /\ Become(r, [Idle EXCEPT !.at = "in", !.user = u, !.info = cache[u].info])
    /\ made' = made + 1
    /\ UNCHANGED <<tables, cache, loop>>

\* Not in the cache: the user is read,
LookUp(r, u) ==
    /\ loop = None /\ req[r].at = "idle" /\ made < MaxRequests
    /\ cache[u] = None
    /\ Become(r, [Idle EXCEPT
            !.at = "fill", !.user = u,
            !.info = IF Exists(u)
                     THEN [current |-> current[u], status |-> status[u], weight |-> 0]
                     ELSE None,
            !.raced = \E q \in Requests : u \in Touched(q)])
    /\ made' = made + 1
    /\ Holds(r)
    /\ UNCHANGED <<tables, cache>>

\* then the membership, and the record is put into the cache.
Fill(r) ==
    /\ GoesOn(r, "fill")
    /\ LET u == req[r].user
           seen == req[r].info
       IN \E info \in IF seen = None THEN {None}
                       ELSE {[seen EXCEPT !.weight = w] : w \in WeightOf(u, seen.current)} :
            /\ cache' = [cache EXCEPT ![u] = [info |-> info, raced |-> req[r].raced]]
            /\ IF Accepted(info)
               THEN Become(r, [Idle EXCEPT !.at = "in", !.user = u, !.info = info])
               ELSE End(r)
    /\ Frees

\* A request to anything else.
Leave(r) ==
    /\ Starts(r)
    /\ End(r)
    /\ UNCHANGED <<cache, loop>>

(* Users (api/user.py)                                                     *)

Options(u) == IF u = Admin THEN spaces ELSE SpacesOf(u) \intersect spaces

\* A user chooses the workspace to work in.
ChangeSpace(r, s) ==
    LET u == req[r].user IN
    /\ Starts(r)
    /\ Drop({u})
    /\ IF s \in Options(u)
       THEN /\ Become(r, [req[r] EXCEPT !.at = "option", !.space = s])
            /\ Holds(r)
       ELSE End(r) /\ UNCHANGED loop

Choose(r) ==
    LET u == req[r].user IN
    /\ GoesOn(r, "option")
    /\ IF Exists(u)
       THEN Become(r, [req[r] EXCEPT !.at = "handled",
                        !.pending = SetCurrent(u, Changed(current[u], req[r].space))])
       ELSE End(r)
    /\ Frees
    /\ UNCHANGED cache

\* Mutant: The current workspace is kept whether it is in the list or not.
EditUserKeeps(r, u, L, s, st) ==
    /\ Starts(r) /\ IsAdmin(r)
    /\ Room(Cardinality(L \ SpacesOf(u)))
    /\ Drop({u})
    /\ IF Exists(u)
       THEN LET first == IF current[u] # None THEN current[u] ELSE s IN
            /\ Become(r, [req[r] EXCEPT
                    !.at = "edit", !.list = {u}, !.wanted = L,
                    !.pending = [SetCurrent(u, Changed(current[u], first)) EXCEPT
                                    !.status[u] = Changed(status[u], st)]])
            /\ Holds(r)
       ELSE End(r) /\ UNCHANGED loop

\* An administrator edits a user: the list L of workspaces, with s in front, and
\* the status.
EditUser(r, u, L, s, st) ==
    /\ Starts(r) /\ IsAdmin(r)
    /\ Room(Cardinality(L \ SpacesOf(u)))
    /\ Drop({u})
    /\ IF Exists(u)
       THEN LET first == IF current[u] \in L THEN current[u] ELSE s IN
            /\ Become(r, [req[r] EXCEPT
                    !.at = "edit", !.list = {u}, !.wanted = L,
                    !.pending = [SetCurrent(u, Changed(current[u], first)) EXCEPT
                                    !.status[u] = Changed(status[u], st)]])
            /\ Holds(r)
       ELSE End(r) /\ UNCHANGED loop

\* The memberships are read: what is not in the list is to go, what is missing is
\* to be added.
EditMemberships(r, u) ==
    /\ GoesOn(r, "edit") /\ u \in req[r].list
    /\ LET extra == SpacesOf(u) \ req[r].wanted
           missing == req[r].wanted \ SpacesOf(u)
       IN \E I \in SUBSET Unused :
          \E of \in [I -> [user : {u}, space : missing, weight : {0}]] :
            /\ Cardinality(I) = Cardinality(missing)
            /\ missing = {of[i].space : i \in I}
            /\ Become(r, [req[r] EXCEPT
                    !.at = IF extra = {} THEN "handled" ELSE "erase",
                    !.wanted = extra,
                    !.pending = Then(@, Insert(of))])
            /\ IF extra = {} THEN Frees ELSE UNCHANGED loop
    /\ UNCHANGED cache

Erase(r, u) ==
    LET gone == Delete({i \in RowsOf(u) : row[i].space \in req[r].wanted}) IN
    /\ GoesOn(r, "erase") /\ u \in req[r].list
    /\ CanWrite(r, gone)
    /\ Become(r, [req[r] EXCEPT !.at = "handled", !.done = Then(@, gone)])
    /\ Frees
    /\ UNCHANGED cache

ChangeStatus(r, u, st) ==
    /\ Starts(r) /\ IsAdmin(r)
    /\ Drop({u})
    /\ IF Exists(u)
       THEN Become(r, [req[r] EXCEPT !.at = "handled",
                        !.pending.status[u] = Changed(status[u], st)])
       ELSE End(r)
    /\ UNCHANGED loop

\* The rows of a transaction that is committed.
Save(w) ==
    /\ current' = Upon(current, w.current)
    /\ status' = Upon(status, w.status)
    /\ row' = Upon(row, w.row)
    /\ spaces' = spaces \ w.closed

\* Users are deleted one by one, each deletion committed in the handler.
DeleteUsers(r, U) ==
    /\ Starts(r) /\ IsAdmin(r)
    /\ Become(r, [req[r] EXCEPT !.at = "drop", !.todo = U])
    /\ Holds(r)
    /\ UNCHANGED cache

\* The first who is gone already ends the request.
DropMemberships(r, u) ==
    /\ GoesOn(r, "drop") /\ u \in req[r].todo
    /\ CanWrite(r, Delete(RowsOf(u)))
    /\ Drop({u})
    /\ IF Exists(u)
       THEN /\ Become(r, [req[r] EXCEPT !.at = "gone", !.list = {u}, !.done = Delete(RowsOf(u))])
            /\ UNCHANGED loop
       ELSE End(r) /\ Frees

DropUser(r, u) ==
    LET gone == [NoWrites EXCEPT !.status[u] = "gone"] IN
    /\ loop = r /\ req[r].at = "gone" /\ u \in req[r].list
    /\ CanWrite(r, gone)
    /\ Save(Then(req[r].done, gone))
    /\ IF req[r].todo = {u}
       THEN End(r) /\ Frees
       ELSE /\ Become(r, [req[r] EXCEPT !.at = "drop", !.todo = @ \ {u}, !.list = {},
                                        !.done = NoWrites])
            /\ UNCHANGED loop
    /\ UNCHANGED <<cache, made>>

(* Memberships (api/workspace.py)                                          *)

\* An administrator names the workspace and the weight, any other user acts on
\* the workspace of the user's own record.
MayManage(r, s) ==
    IF IsAdmin(r) THEN s \in Spaces
    ELSE req[r].info.weight # 0 /\ s = req[r].info.current

AddMembers(r, U, s, w) ==
    /\ Starts(r) /\ MayManage(r, s)
    /\ ~IsAdmin(r) => w = 0
    /\ Room(Cardinality(U))
    /\ Become(r, [req[r] EXCEPT !.at = "add", !.list = U, !.todo = U,
                                !.space = s, !.weight = w])
    /\ Holds(r)
    /\ UNCHANGED cache

\* One turn of the loop: reading the next user flushes what is changed of the
\* last one; a user without a workspace gets this one.  After the last turn the
\* memberships are added.
AddOne(r, u) ==
    LET s == req[r].space
        moved == IF Exists(u) /\ current[u] = None THEN SetCurrent(u, s) ELSE NoWrites
        last == req[r].todo = {u}
    IN
    /\ GoesOn(r, "add") /\ u \in req[r].todo
    /\ CanWrite(r, req[r].pending)
    /\ Drop({u})
    /\ IF last
       THEN \E I \in SUBSET Unused :
            \E of \in [I -> [user : req[r].list, space : {s}, weight : {req[r].weight}]] :
              /\ Cardinality(I) = Cardinality(req[r].list)
              /\ req[r].list = {of[i].user : i \in I}
              /\ Become(r, [req[r] EXCEPT !.at = "handled", !.todo = {},
                              !.done = Then(@, req[r].pending),
                              !.pending = Then(moved, Insert(of))])
              /\ Frees
       ELSE /\ Become(r, [req[r] EXCEPT !.todo = @ \ {u},
                              !.done = Then(@, req[r].pending),
                              !.pending = moved])
            /\ UNCHANGED loop

\* Mutant: The record of the user is not dropped.
EditMemberQuietly(r, u, s, w) ==
    /\ Starts(r) /\ IsAdmin(r)
    /\ \/ /\ RowsOf(u) \intersect RowsIn(s) = {}
          /\ End(r)
       \/ \E i \in RowsOf(u) \intersect RowsIn(s) :
            IF row[i].weight = w
            THEN End(r)
            ELSE Become(r, [req[r] EXCEPT !.at = "handled", !.edited = i,
                               !.pending.row[i] = [row[i] EXCEPT !.weight = w]])
    /\ UNCHANGED <<cache, loop>>

\* The weight of a membership is changed.
EditMember(r, u, s, w) ==
    /\ Starts(r) /\ IsAdmin(r)
    /\ \/ /\ RowsOf(u) \intersect RowsIn(s) = {}
          /\ End(r)
          /\ UNCHANGED cache
       \/ \E i \in RowsOf(u) \intersect RowsIn(s) :
            IF row[i].weight = w
            THEN End(r) /\ UNCHANGED cache
            ELSE /\ Become(r, [req[r] EXCEPT !.at = "handled", !.edited = i,
                                 !.pending.row[i] = [row[i] EXCEPT !.weight = w]])
                 /\ Drop({u})
    /\ UNCHANGED loop

RemoveMembers(r, U, s) ==
    LET I == {i \in RowsIn(s) : row[i].user \in U} IN
    /\ Starts(r) /\ MayManage(r, s)
    /\ IF I = {}
       THEN End(r) /\ UNCHANGED loop
       ELSE /\ Become(r, [req[r] EXCEPT !.at = "remove", !.list = {}, !.todo = U,
                                        !.space = s, !.pending = Delete(I)])
            /\ Holds(r)
    /\ UNCHANGED cache

\* The end of a turn of the loop over the users.
Turn(r, u, new) ==
    /\ Drop({u})
    /\ IF req[r].todo = {u}
       THEN Become(r, [new EXCEPT !.at = "handled", !.todo = {}]) /\ Frees
       ELSE Become(r, [new EXCEPT !.at = "remove", !.todo = @ \ {u}]) /\ UNCHANGED loop

\* Reading the next user flushes the deletions, or what is changed of the last
\* one; one who works in this workspace must leave it.
RemoveOne(r, u) ==
    LET flushed == [req[r] EXCEPT !.done = Then(@, req[r].pending), !.pending = NoWrites] IN
    /\ GoesOn(r, "remove") /\ u \in req[r].todo
    /\ CanWrite(r, req[r].pending)
    /\ IF Exists(u) /\ current[u] = req[r].space
       THEN /\ Become(r, [flushed EXCEPT !.at = "other", !.list = {u},
                                         !.pending = SetCurrent(u, None)])
            /\ UNCHANGED <<cache, loop>>
       ELSE Turn(r, u, flushed)

\* The user's other memberships are read, after a flush, and one of them gives
\* the new workspace.
OtherSpace(r, u) ==
    LET others == SpacesOf(u) \ {req[r].space} IN
    /\ GoesOn(r, "other") /\ u \in req[r].list
    /\ CanWrite(r, req[r].pending)
    /\ \E s \in IF others = {} THEN {Same} ELSE others :
        Turn(r, u, [req[r] EXCEPT !.done = Then(@, req[r].pending),
                                  !.pending = SetCurrent(u, s)])

(* The deletion of a workspace                                             *)

DeleteSpace(r, s) ==
    /\ Starts(r) /\ IsAdmin(r)
    /\ IF s # Home /\ s \in spaces
       THEN /\ Become(r, [req[r] EXCEPT !.space = s,
                        !.at = IF req[r].info.current = s THEN "own" ELSE "members"])
            /\ Holds(r)
       ELSE End(r) /\ UNCHANGED loop
    /\ UNCHANGED cache

\* The administrator, if the record says so, moves to the default workspace.
OwnSpace(r) ==
    /\ GoesOn(r, "own")
    /\ CanWrite(r, SetCurrent(Admin, Home))
    /\ Drop({Admin})
    /\ Become(r, [req[r] EXCEPT !.at = "members", !.done = SetCurrent(Admin, Home)])
    /\ UNCHANGED loop

DropRecords(r) ==
    LET M == MembersOf(req[r].space) IN
    /\ GoesOn(r, "members")
    /\ Drop(M)
    /\ IF M = {}
       THEN /\ Become(r, [req[r] EXCEPT !.at = "handled", !.pending.closed = {req[r].space}])
            /\ Frees
       ELSE Become(r, [req[r] EXCEPT !.at = "plan"]) /\ UNCHANGED loop

\* What the current workspace of a member of s becomes.  Meant to be left out of
\* the other workspaces is s; the name stands, when it is read, for the current
\* workspace x of the user who was read last.
Moves(u, s, x) ==
    LET others == SpacesOf(u) \ {x} IN
    IF ~Exists(u) \/ u \notin MembersOf(s) \/ current[u] \in others
    THEN {Same}
    ELSE {Changed(current[u], t) : t \in IF others = {} THEN {None} ELSE others}

\* The rows come in no order: anybody's may be the last.
LastRead(s) ==
    LET read == {current[u] : u \in {v \in MembersOf(s) : Exists(v)}}
    IN IF read = {} THEN {None} ELSE read

PlanMoves(r) ==
    /\ GoesOn(r, "plan")
    /\ \E plan \in [Users -> Spaces \union {None, Same}], x \in LastRead(req[r].space) :
        /\ \A u \in Users : plan[u] \in Moves(u, req[r].space, x)
        /\ Become(r, [req[r] EXCEPT !.at = "reset", !.plan = plan])
    /\ UNCHANGED <<cache, loop>>

MoveOne(r, u) ==
    LET w == SetCurrent(u, req[r].plan[u]) IN
    /\ GoesOn(r, "reset")
    /\ req[r].plan[u] # Same
    /\ CanWrite(r, w)
    /\ Become(r, [req[r] EXCEPT !.plan[u] = Same, !.done = Then(@, w)])
    /\ UNCHANGED <<cache, loop>>

CutMemberships(r) ==
    LET w == Delete(RowsIn(req[r].space)) IN
    /\ GoesOn(r, "reset")
    /\ \A u \in Users : req[r].plan[u] = Same
    /\ CanWrite(r, w)
    /\ Become(r, [req[r] EXCEPT !.at = "handled", !.done = Then(@, w),
                                !.pending.closed = {req[r].space}])
    /\ Frees
    /\ UNCHANGED cache

(* The end of a request (get_session)                                      *)

HandOver(r) ==
    /\ loop = None /\ req[r].at = "handled"
    /\ Become(r, [req[r] EXCEPT !.at = "committing"])
    /\ UNCHANGED <<tables, cache, loop, made>>

\* Mutant: A commit that fails is not rolled back.
CommitOrHang(r) ==
    /\ req[r].at = "committing"
    /\ CanWrite(r, req[r].pending)
    /\ Sound(r)
    /\ Save(Then(req[r].done, req[r].pending))
    /\ End(r)
    /\ UNCHANGED <<cache, loop, made>>

\* The transaction is committed in a thread, or rolled back.
Commit(r) ==
    /\ req[r].at = "committing"
    /\ CanWrite(r, req[r].pending)
    /\ IF Sound(r) THEN Save(Then(req[r].done, req[r].pending)) ELSE UNCHANGED tables
    /\ End(r)
    /\ UNCHANGED <<cache, loop, made>>

\* A commit that holds locks and waits for another transaction: if that one waits
\* for it too, the database ends one of them.
Victim(r) ==
    /\ req[r].at = "committing"
    /\ Locks(req[r].done) # {} /\ ~CanWrite(r, req[r].pending)
    /\ End(r)
    /\ UNCHANGED <<tables, cache, loop, made>>

\* The database, or the client, gives a request up.
Abort(r) ==
    /\ req[r].at # "idle"
    /\ End(r)
    /\ loop' = IF loop = r THEN None ELSE loop
    /\ UNCHANGED <<tables, cache, made>>

Expire(u) ==
    /\ cache[u] # None
    /\ Drop({u})
    /\ UNCHANGED <<tables, req, loop, made>>

Restart ==
    /\ req' = [r \in Requests |-> Idle]
    /\ cache' = [u \in Users |-> None]
    /\ loop' = None
    /\ UNCHANGED <<tables, made>>

Authenticate(r) == \E u \in Users : Cached(r, u) \/ LookUp(r, u)

UserHandler(r) ==
    \/ \E s \in Spaces : ChangeSpace(r, s)
    \/ Choose(r)
    \/ \E u \in Members, L \in SUBSET Spaces, st \in {"on", "off"} :
        \E s \in IF L = {} THEN {None} ELSE L : EditUser(r, u, L, s, st)
    \/ \E U \in SUBSET Members \ {{}} : DeleteUsers(r, U)
    \/ \E u \in Members :
        \/ EditMemberships(r, u) \/ Erase(r, u)
        \/ \E st \in {"on", "off"} : ChangeStatus(r, u, st)
        \/ DropMemberships(r, u) \/ DropUser(r, u)

MemberHandler(r) ==
    \/ \E U \in SUBSET Members \ {{}}, s \in Spaces :
        \/ \E w \in Weights : AddMembers(r, U, s, w)
        \/ RemoveMembers(r, U, s)
    \/ \E u \in Members :
        \/ AddOne(r, u) \/ RemoveOne(r, u) \/ OtherSpace(r, u)
        \/ \E s \in Spaces, w \in Weights : EditMember(r, u, s, w)

SpaceHandler(r) ==
    \/ \E s \in Spaces : DeleteSpace(r, s)
    \/ OwnSpace(r) \/ DropRecords(r) \/ PlanMoves(r)
    \/ \E u \in Users : MoveOne(r, u)
    \/ CutMemberships(r)

Finish(r) == HandOver(r) \/ Commit(r)

Handle(r) == Fill(r) \/ Leave(r) \/ UserHandler(r) \/ MemberHandler(r) \/ SpaceHandler(r) \/ Finish(r)

Next ==
    \/ \E r \in Requests : Authenticate(r) \/ Handle(r) \/ Victim(r) \/ Abort(r)
    \/ \E u \in Users : Expire(u)
    \/ Restart

Spec == Init /\ [][Next]_vars

\* A request that has begun is carried on with; nothing has to be asked for, to
\* fail, to expire or to be restarted.
FairSpec == Spec /\ \A r \in Requests : WF_vars(Handle(r)) /\ WF_vars(Victim(r))

(* Properties                                                              *)

TypeOK ==
    /\ current \in [Users -> Spaces \union {None}]
    /\ status \in [Users -> Status]
    /\ row \in [Rows -> Row \union {None}]
    /\ spaces \in SUBSET Spaces
    /\ cache \in [Users -> Entry \union {None}]
    /\ req \in [Requests -> Request]
    /\ loop \in Requests \union {None}
    /\ made \in Nat

\* A cached record that differs from the tables was read while a request that
\* changes the user was between its handler and its commit: a handler drops the
\* record of every user it changes, and drops it early.
StaleIsExplained ==
    \A u \in Users :
        cache[u] # None => cache[u].raced \/ cache[u].info \in Infos(u)

\* Everybody works in a workspace of their own memberships, in none, or in one
\* that has been deleted; the administrator in one that exists.
WorksWhereMember ==
    /\ current[Admin] \in spaces
    /\ \A u \in Members :
        Exists(u) /\ current[u] \in spaces => current[u] \in SpacesOf(u)

\* The event loop is held by a statement that waits for a request whose commit
\* the loop has not handed over yet.
Stuck ==
    /\ loop # None
    /\ \E r \in Requests : req[r].at = "handled" /\ Locks(req[r].done) # {}

\* Every request ends, unless the loop comes to wait for itself.
RequestsEnd ==
    \A r \in Requests : req[r].at # "idle" ~> (req[r].at = "idle" \/ []Stuck)
===============================================================================
