---------------------------- MODULE WorkspacesProofs ----------------------------
(***************************************************************************)
(* Proofs about Workspaces for any users, workspaces, memberships and      *)
(* requests.  TypeOK is inductive as it stands.  StaleIsExplained is not:  *)
(* a transaction must not change anybody whose record is in the cache and  *)
(* not marked.  That needs to know, of every request at every statement,   *)
(* that the record of whomever its writes touch has been dropped and not   *)
(* read again unmarked, or is still to be dropped by the loop that visits  *)
(* them (Fine); that the middle of a handler is reached with the loop in   *)
(* hand only (LoopFine); and that a record under way into the cache is     *)
(* what the tables say, if nobody was changing the user (FillFine).        *)
(*                                                                         *)
(* WorksWhereMember holds of one request at a time (Alone).  It is about   *)
(* whole handlers: what one has written half-way (Ready) leads to writes   *)
(* after which everybody works where they should (Fits).                   *)
(***************************************************************************)
EXTENDS Workspaces, TLAPS

-------------------------------------------------------------------------------
(* What transactions write                                                 *)

\* The parts of Writes, one by one.
LEMMA WritesParts ==
    \A w : w \in Writes => /\ w.current \in [Users -> Spaces \union {None, Same}]
                           /\ w.status \in [Users -> Status \union {Same}]
                           /\ w.row \in [Rows -> Row \union {None, Same}]
                           /\ w.closed \in SUBSET Spaces
  BY DEF Writes

LEMMA ThenType ==
    ASSUME NEW w \in Writes, NEW v \in Writes
    PROVE  Then(w, v) \in Writes
<1>1. Upon(w.current, v.current) \in [Users -> Spaces \union {None, Same}]
  BY WritesParts DEF Upon
<1>2. Upon(w.status, v.status) \in [Users -> Status \union {Same}]
  BY WritesParts DEF Upon
<1>3. Upon(w.row, v.row) \in [Rows -> Row \union {None, Same}]
  BY WritesParts DEF Upon
<1>4. w.closed \union v.closed \in SUBSET Spaces
  BY WritesParts
<1> QED
  BY <1>1, <1>2, <1>3, <1>4 DEF Then, Writes

LEMMA NoWritesType == NoWrites \in Writes
  BY DEF NoWrites, Writes

LEMMA SetCurrentType ==
    ASSUME NEW u \in Users, NEW s \in Spaces \union {None, Same}
    PROVE  SetCurrent(u, s) \in Writes
  BY DEF SetCurrent, NoWrites, Writes

LEMMA DeleteType ==
    ASSUME NEW I
    PROVE  Delete(I) \in Writes
  BY DEF Delete, NoWrites, Writes

LEMMA InsertType ==
    ASSUME NEW I \in SUBSET Rows, NEW of \in [I -> Row]
    PROVE  Insert(of) \in Writes
<1>1. [i \in Rows |-> IF i \in DOMAIN of THEN of[i] ELSE Same] \in [Rows -> Row \union {None, Same}]
  OBVIOUS
<1> QED
  BY <1>1 DEF Insert, NoWrites, Writes

LEMMA IdleType == Idle \in Request
<1>1. NoWrites \in Writes /\ 0 \in Weights
  BY NoWritesType DEF Weights
<1> QED
  BY <1>1, SpaceAssumption DEF Idle, Request

-------------------------------------------------------------------------------
(* Types                                                                   *)

\* A step of one request that leaves the tables alone keeps the types if the
\* request, the loop and the cache keep theirs.
LEMMA RequestStepType ==
    ASSUME TypeOK, NEW r \in Requests, NEW new \in Request, Become(r, new),
           loop' \in Requests \union {None}, cache' \in [Users -> Entry \union {None}],
           UNCHANGED tables, made' \in Nat
    PROVE  TypeOK'
<1>1. req' \in [Requests -> Request]
  BY DEF TypeOK, Become
<1> QED
  BY <1>1 DEF TypeOK, tables

LEMMA DropType ==
    ASSUME TypeOK, NEW U, Drop(U)
    PROVE  cache' \in [Users -> Entry \union {None}]
  BY DEF TypeOK, Drop

\* A transaction that is saved has the type of the tables.
LEMMA SaveType ==
    ASSUME TypeOK, NEW w \in Writes, Save(w)
    PROVE  /\ current' \in [Users -> Spaces \union {None}]
           /\ status' \in [Users -> Status]
           /\ row' \in [Rows -> Row \union {None}]
           /\ spaces' \in SUBSET Spaces
<1>1. current' \in [Users -> Spaces \union {None}]
  BY WritesParts, SpaceAssumption, MarkAssumption DEF TypeOK, Save, Upon
<1>2. status' \in [Users -> Status]
  BY WritesParts DEF TypeOK, Save, Upon
<1>3. row' \in [Rows -> Row \union {None}]
  BY WritesParts, MarkAssumption DEF TypeOK, Save, Upon
<1> QED
  BY <1>1, <1>2, <1>3 DEF TypeOK, Save

\* What is read of the tables.
LEMMA ReadTypes ==
    ASSUME TypeOK
    PROVE  /\ \A u \in Users : current[u] \in Spaces \union {None} /\ status[u] \in Status
           /\ \A i \in Rows : row[i] # None => row[i] \in Row
           /\ \A u : SpacesOf(u) \in SUBSET Spaces
           /\ \A s : MembersOf(s) \in SUBSET Members
           /\ \A u, s : WeightOf(u, s) \in SUBSET (Weights \union {-1})
<1>1. \A i \in Rows : row[i] # None => row[i] \in Row
  BY DEF TypeOK
<1>2. \A i \in Rows : row[i] # None =>
          row[i].user \in Members /\ row[i].space \in Spaces /\ row[i].weight \in Weights
  BY <1>1 DEF Row
<1>3. \A u : SpacesOf(u) \in SUBSET Spaces
  BY <1>2 DEF SpacesOf, RowsOf
<1>4. \A s : MembersOf(s) \in SUBSET Members
  BY <1>2 DEF MembersOf, RowsIn
<1>5. \A u, s : WeightOf(u, s) \in SUBSET (Weights \union {-1})
  BY <1>2 DEF WeightOf, RowsOf, RowsIn, Weights
<1> QED
  BY <1>1, <1>3, <1>4, <1>5 DEF TypeOK

LEMMA TypeInit == Init => TypeOK
<1> SUFFICES ASSUME Init PROVE TypeOK
  OBVIOUS
<1>1. status \in [Users -> Status]
  BY DEF Init, Status
<1>2. req \in [Requests -> Request]
  BY IdleType DEF Init
<1> QED
  BY <1>1, <1>2 DEF Init, TypeOK

\* The requests that only begin, wait or end.
LEMMA TypeRest ==
    ASSUME TypeOK, NEW r \in Requests,
           \/ \E u \in Users : Cached(r, u) \/ LookUp(r, u)
           \/ Leave(r) \/ HandOver(r) \/ Victim(r) \/ Abort(r)
    PROVE  TypeOK'
<1>0. req[r] \in Request /\ made + 1 \in Nat /\ made \in Nat /\ cache \in [Users -> Entry \union {None}]
      /\ loop \in Requests \union {None}
  BY DEF TypeOK
<1>1. ASSUME NEW u \in Users, Cached(r, u) PROVE TypeOK'
  <2>1. cache[u].info \in Info \union {None}
    BY <1>0, <1>1 DEF Cached, Entry
  <2>2. [Idle EXCEPT !.at = "in", !.user = u, !.info = cache[u].info] \in Request
    BY <2>1, IdleType DEF Request
  <2> QED
    BY <1>0, <1>1, <2>2, RequestStepType DEF Cached
<1>2. ASSUME NEW u \in Users, LookUp(r, u) PROVE TypeOK'
  <2> DEFINE info == IF Exists(u)
                     THEN [current |-> current[u], status |-> status[u], weight |-> 0]
                     ELSE None
             raced == \E q \in Requests : u \in Touched(q)
  <2>1. info \in Info \union {None}
    BY ReadTypes DEF Info, Weights
  <2>2. raced \in BOOLEAN
    OBVIOUS
  <2> HIDE DEF info, raced
  <2>3. [Idle EXCEPT !.at = "fill", !.user = u, !.info = info, !.raced = raced] \in Request
    BY <2>1, <2>2, IdleType DEF Request
  <2> QED
    BY <1>0, <1>2, <2>3, RequestStepType DEF LookUp, Holds, info, raced
<1>3. CASE Leave(r)
  BY <1>0, <1>3, IdleType, RequestStepType DEF Leave, Starts, End
<1>4. CASE HandOver(r)
  <2>1. [req[r] EXCEPT !.at = "committing"] \in Request
    BY <1>0 DEF Request
  <2> QED
    BY <1>0, <1>4, <2>1, RequestStepType DEF HandOver
<1>5. CASE Victim(r)
  BY <1>0, <1>5, IdleType, RequestStepType DEF Victim, End
<1>6. CASE Abort(r)
  BY <1>0, <1>6, IdleType, RequestStepType DEF Abort, End
<1> QED
  BY <1>1, <1>2, <1>3, <1>4, <1>5, <1>6

LEMMA TypeFill ==
    ASSUME TypeOK, NEW r \in Requests, Fill(r)
    PROVE  TypeOK'
<1>1. req[r] \in Request /\ made \in Nat
  BY DEF TypeOK
<1> DEFINE u == req[r].user
           seen == req[r].info
<1>2. PICK info \in IF seen = None THEN {None}
                    ELSE {[seen EXCEPT !.weight = w] : w \in WeightOf(u, seen.current)} :
          /\ cache' = [cache EXCEPT ![u] = [info |-> info, raced |-> req[r].raced]]
          /\ IF Accepted(info)
             THEN Become(r, [Idle EXCEPT !.at = "in", !.user = u, !.info = info])
             ELSE End(r)
  BY DEF Fill
<1>3. seen \in Info \union {None} /\ u \in Users \union {None} /\ req[r].raced \in BOOLEAN
  BY <1>1 DEF Request
<1>4. info \in Info \union {None}
  <2>1. CASE seen = None
    BY <1>2, <2>1
  <2>2. CASE seen # None
    <3>1. PICK w \in WeightOf(u, seen.current) : info = [seen EXCEPT !.weight = w]
      BY <1>2, <2>2
    <3>2. w \in Weights \union {-1}
      BY ReadTypes
    <3> QED
      BY <1>3, <2>2, <3>1, <3>2 DEF Info
  <2> QED
    BY <2>1, <2>2
<1>5. [info |-> info, raced |-> req[r].raced] \in Entry
  BY <1>3, <1>4 DEF Entry
<1>6. cache' \in [Users -> Entry \union {None}]
  BY <1>2, <1>5 DEF TypeOK
<1>7. [Idle EXCEPT !.at = "in", !.user = u, !.info = info] \in Request
  BY <1>3, <1>4, IdleType DEF Request
<1>8. UNCHANGED <<tables, made>> /\ loop' = None
  BY DEF Fill, GoesOn, Frees
<1> QED
  BY <1>1, <1>2, <1>6, <1>7, <1>8, IdleType, RequestStepType DEF End

\* The handlers of api/user.py.
LEMMA TypeUser ==
    ASSUME TypeOK, NEW r \in Requests, UserHandler(r)
    PROVE  TypeOK'
<1>0. /\ req[r] \in Request /\ made \in Nat /\ loop \in Requests \union {None}
      /\ cache \in [Users -> Entry \union {None}]
  BY DEF TypeOK
<1>a. req[r].user \in Users \union {None} /\ req[r].done \in Writes /\ req[r].pending \in Writes
      /\ req[r].list \in SUBSET Members /\ req[r].todo \in SUBSET Members
      /\ req[r].wanted \in SUBSET Spaces /\ req[r].space \in Spaces
  BY <1>0 DEF Request
<1>b. Members \subseteq Users
  BY DEF Members
<1>1. ASSUME NEW s \in Spaces, ChangeSpace(r, s) PROVE TypeOK'
  <2>1. [req[r] EXCEPT !.at = "option", !.space = s] \in Request
    BY <1>0 DEF Request
  <2>2. cache' \in [Users -> Entry \union {None}] /\ UNCHANGED <<tables, made>>
        /\ loop' \in Requests \union {None}
    BY <1>0, <1>1, DropType DEF ChangeSpace, Starts, Holds
  <2> QED
    BY <1>0, <1>1, <2>1, <2>2, IdleType, RequestStepType DEF ChangeSpace, End
<1>2. CASE Choose(r)
  <2> DEFINE u == req[r].user
             w == SetCurrent(u, Changed(current[u], req[r].space))
  <2>1. ASSUME Exists(u) PROVE [req[r] EXCEPT !.at = "handled", !.pending = w] \in Request
    <3>1. w \in Writes
      BY <1>a DEF SetCurrent, Changed, Writes, NoWrites
    <3> HIDE DEF w
    <3> QED
      BY <1>0, <3>1 DEF Request
  <2> HIDE DEF w
  <2>2. UNCHANGED <<tables, made, cache>> /\ loop' = None
    BY <1>2 DEF Choose, GoesOn, Frees
  <2> QED
    BY <1>0, <1>2, <2>1, <2>2, IdleType, RequestStepType DEF Choose, End, w
<1>3. ASSUME NEW u \in Members, NEW L \in SUBSET Spaces, NEW st \in {"on", "off"},
             NEW s \in IF L = {} THEN {None} ELSE L, EditUser(r, u, L, s, st)
      PROVE  TypeOK'
  <2> DEFINE first == IF current[u] \in L THEN current[u] ELSE s
             w == [SetCurrent(u, Changed(current[u], first)) EXCEPT
                      !.status[u] = Changed(status[u], st)]
  <2>1. w \in Writes
    <3>1. first \in Spaces \union {None}
      OBVIOUS
    <3>2. Changed(current[u], first) \in Spaces \union {None, Same}
      BY <3>1 DEF Changed
    <3>3. Changed(status[u], st) \in Status \union {Same}
      BY DEF Changed, Status
    <3> QED
      BY <3>2, <3>3 DEF SetCurrent, Writes, NoWrites
  <2> HIDE DEF w
  <2>2. [req[r] EXCEPT !.at = "edit", !.list = {u}, !.wanted = L, !.pending = w] \in Request
    BY <1>0, <1>b, <2>1 DEF Request
  <2>3. cache' \in [Users -> Entry \union {None}] /\ UNCHANGED <<tables, made>>
        /\ loop' \in Requests \union {None}
    BY <1>0, <1>3, DropType DEF EditUser, Starts, Holds
  <2>4. Become(r, [req[r] EXCEPT !.at = "edit", !.list = {u}, !.wanted = L, !.pending = w])
        \/ Become(r, Idle)
    BY <1>3 DEF EditUser, End, w
  <2> QED
    BY <1>0, <2>2, <2>3, <2>4, IdleType, RequestStepType
<1>4. ASSUME NEW U \in SUBSET Members, DeleteUsers(r, U) PROVE TypeOK'
  <2>1. [req[r] EXCEPT !.at = "drop", !.todo = U] \in Request
    BY <1>0, <1>b DEF Request
  <2> QED
    BY <1>0, <1>4, <2>1, RequestStepType DEF DeleteUsers, Starts, Holds
<1>5. ASSUME NEW u \in Members, EditMemberships(r, u) PROVE TypeOK'
  <2> DEFINE extra == SpacesOf(u) \ req[r].wanted
             missing == req[r].wanted \ SpacesOf(u)
  <2>0. PICK I \in SUBSET Unused :
            \E of \in [I -> [user : {u}, space : missing, weight : {0}]] :
                Become(r, [req[r] EXCEPT
                    !.at = IF extra = {} THEN "handled" ELSE "erase",
                    !.wanted = extra,
                    !.pending = Then(@, Insert(of))])
    BY <1>5 DEF EditMemberships
  <2>1. PICK of \in [I -> [user : {u}, space : missing, weight : {0}]] :
            Become(r, [req[r] EXCEPT
                    !.at = IF extra = {} THEN "handled" ELSE "erase",
                    !.wanted = extra,
                    !.pending = Then(@, Insert(of))])
    BY <2>0
  <2>2. I \in SUBSET Rows
    BY DEF Unused
  <2>3. [user : {u}, space : missing, weight : {0}] \subseteq Row
    BY <1>a DEF Row, Weights
  <2>4. of \in [I -> Row]
    BY <2>3
  <2>5. Then(req[r].pending, Insert(of)) \in Writes
    BY <1>a, <2>2, <2>4, InsertType, ThenType
  <2>6. extra \in SUBSET Spaces
    BY ReadTypes
  <2> DEFINE w == Then(req[r].pending, Insert(of))
  <2> HIDE DEF extra, w
  <2>7. [req[r] EXCEPT !.at = IF extra = {} THEN "handled" ELSE "erase",
                       !.wanted = extra, !.pending = w] \in Request
    BY <1>0, <2>5, <2>6 DEF Request, w
  <2>8. UNCHANGED <<tables, made, cache>> /\ loop' \in Requests \union {None}
    BY <1>0, <1>5 DEF EditMemberships, GoesOn, Frees
  <2> QED
    BY <1>0, <2>1, <2>7, <2>8, RequestStepType DEF w
<1>6. ASSUME NEW u \in Members, Erase(r, u) PROVE TypeOK'
  <2> DEFINE gone == Delete({i \in RowsOf(u) : row[i].space \in req[r].wanted})
             w == Then(req[r].done, gone)
  <2>1. w \in Writes
    BY <1>a, DeleteType, ThenType
  <2>2. [req[r] EXCEPT !.at = "handled", !.done = w] \in Request
    BY <1>0, <2>1 DEF Request
  <2> QED
    BY <1>0, <1>6, <2>2, RequestStepType DEF Erase, GoesOn, Frees
<1>7. ASSUME NEW u \in Members, NEW st \in {"on", "off"}, ChangeStatus(r, u, st) PROVE TypeOK'
  <2> DEFINE x == Changed(status[u], st)
  <2>1. x \in Status \union {Same}
    BY DEF Changed, Status
  <2> HIDE DEF x
  <2>2. [req[r].pending EXCEPT !.status[u] = x] \in Writes
    BY <1>a, <2>1 DEF Writes
  <2>3. [req[r] EXCEPT !.at = "handled", !.pending.status[u] = x] \in Request
    BY <1>0, <2>2 DEF Request
  <2>4. cache' \in [Users -> Entry \union {None}] /\ UNCHANGED <<tables, made, loop>>
    BY <1>7, DropType DEF ChangeStatus, Starts
  <2> QED
    BY <1>0, <1>7, <2>3, <2>4, IdleType, RequestStepType DEF ChangeStatus, End, x
<1>8. ASSUME NEW u \in Members, DropMemberships(r, u) PROVE TypeOK'
  <2>1. Delete(RowsOf(u)) \in Writes
    BY DeleteType
  <2>2. [req[r] EXCEPT !.at = "gone", !.list = {u}, !.done = Delete(RowsOf(u))] \in Request
    BY <1>0, <1>b, <2>1 DEF Request
  <2>3. cache' \in [Users -> Entry \union {None}] /\ UNCHANGED <<tables, made>>
        /\ loop' \in Requests \union {None}
    BY <1>0, <1>8, DropType DEF DropMemberships, GoesOn, Frees
  <2> QED
    BY <1>0, <1>8, <2>2, <2>3, IdleType, RequestStepType DEF DropMemberships, End
<1>9. ASSUME NEW u \in Members, DropUser(r, u) PROVE TypeOK'
  <2> DEFINE gone == [NoWrites EXCEPT !.status[u] = "gone"]
             new == IF req[r].todo = {u} THEN Idle
                    ELSE [req[r] EXCEPT !.at = "drop", !.todo = @ \ {u}, !.list = {},
                                        !.done = NoWrites]
  <2>1. gone \in Writes
    BY NoWritesType DEF NoWrites, Writes, Status
  <2>2. Then(req[r].done, gone) \in Writes
    BY <1>a, <2>1, ThenType
  <2>3. /\ current' \in [Users -> Spaces \union {None}]
        /\ status' \in [Users -> Status]
        /\ row' \in [Rows -> Row \union {None}]
        /\ spaces' \in SUBSET Spaces
    BY <1>9, <2>2, SaveType DEF DropUser
  <2>4. new \in Request
    <3>1. req[r].todo \ {u} \in SUBSET Members /\ {} \in SUBSET Members
      BY <1>a
    <3>2. [req[r] EXCEPT !.at = "drop", !.todo = @ \ {u}, !.list = {}, !.done = NoWrites] \in Request
      BY <1>0, <3>1, NoWritesType DEF Request
    <3> QED
      BY <3>2, IdleType
  <2>5. Become(r, new) /\ loop' \in Requests \union {None} /\ UNCHANGED <<cache, made>>
    BY <1>0, <1>9 DEF DropUser, End, Frees
  <2> HIDE DEF new
  <2>6. req' \in [Requests -> Request]
    BY <2>4, <2>5 DEF TypeOK, Become
  <2> QED
    BY <1>0, <2>3, <2>5, <2>6 DEF TypeOK
<1> QED
  BY <1>1, <1>2, <1>3, <1>4, <1>5, <1>6, <1>7, <1>8, <1>9 DEF UserHandler

\* The handlers of api/workspace.py that add, change and remove memberships.
LEMMA TypeMembers ==
    ASSUME TypeOK, NEW r \in Requests, MemberHandler(r)
    PROVE  TypeOK'
<1>0. /\ req[r] \in Request /\ made \in Nat /\ loop \in Requests \union {None}
      /\ cache \in [Users -> Entry \union {None}]
  BY DEF TypeOK
<1>a. req[r].user \in Users \union {None} /\ req[r].done \in Writes /\ req[r].pending \in Writes
      /\ req[r].list \in SUBSET Members /\ req[r].todo \in SUBSET Members
      /\ req[r].weight \in Weights /\ req[r].space \in Spaces
  BY <1>0 DEF Request
<1>b. Members \subseteq Users
  BY DEF Members
<1>1. ASSUME NEW U \in SUBSET Members, NEW s \in Spaces, NEW w \in Weights, AddMembers(r, U, s, w)
      PROVE  TypeOK'
  <2>1. [req[r] EXCEPT !.at = "add", !.list = U, !.todo = U, !.space = s, !.weight = w] \in Request
    BY <1>0, <1>b DEF Request
  <2> QED
    BY <1>0, <1>1, <2>1, RequestStepType DEF AddMembers, Starts, Holds
<1>2. ASSUME NEW U \in SUBSET Members, NEW s \in Spaces, RemoveMembers(r, U, s)
      PROVE  TypeOK'
  <2> DEFINE d == Delete({i \in RowsIn(s) : row[i].user \in U})
  <2>1. d \in Writes
    BY DeleteType
  <2> HIDE DEF d
  <2>2. [req[r] EXCEPT !.at = "remove", !.list = {}, !.todo = U, !.space = s, !.pending = d] \in Request
    BY <1>0, <1>b, <2>1 DEF Request
  <2>3. UNCHANGED <<tables, made, cache>> /\ loop' \in Requests \union {None}
    BY <1>0, <1>2 DEF RemoveMembers, Starts, Holds
  <2> QED
    BY <1>0, <1>2, <2>2, <2>3, IdleType, RequestStepType DEF RemoveMembers, End, d
<1>3. ASSUME NEW u \in Members, AddOne(r, u) PROVE TypeOK'
  <2> DEFINE s == req[r].space
             moved == IF Exists(u) /\ current[u] = None THEN SetCurrent(u, s) ELSE NoWrites
             sent == Then(req[r].done, req[r].pending)
  <2>1. moved \in Writes /\ sent \in Writes
    BY <1>a, <1>b, NoWritesType, SetCurrentType, ThenType
  <2> HIDE DEF moved, sent
  <2>2. cache' \in [Users -> Entry \union {None}] /\ UNCHANGED <<tables, made>>
        /\ loop' \in Requests \union {None}
    BY <1>0, <1>3, DropType DEF AddOne, GoesOn, Frees
  <2>3. CASE req[r].todo = {u}
    <3>1. PICK I \in SUBSET Unused :
            \E of \in [I -> [user : req[r].list, space : {s}, weight : {req[r].weight}]] :
                Become(r, [req[r] EXCEPT !.at = "handled", !.todo = {}, !.done = Then(@, req[r].pending),
                              !.pending = Then(moved, Insert(of))])
      BY <1>3, <2>3 DEF AddOne, moved
    <3>2. PICK of \in [I -> [user : req[r].list, space : {s}, weight : {req[r].weight}]] :
                Become(r, [req[r] EXCEPT !.at = "handled", !.todo = {}, !.done = Then(@, req[r].pending),
                              !.pending = Then(moved, Insert(of))])
      BY <3>1
    <3>3. I \in SUBSET Rows
      BY DEF Unused
    <3>4. [user : req[r].list, space : {s}, weight : {req[r].weight}] \subseteq Row
      BY <1>a, <1>3 DEF Row
    <3>5. of \in [I -> Row]
      BY <3>4
    <3> DEFINE w == Then(moved, Insert(of))
    <3>6. w \in Writes
      BY <2>1, <3>3, <3>5, InsertType, ThenType
    <3> HIDE DEF w
    <3>7. [req[r] EXCEPT !.at = "handled", !.todo = {}, !.done = sent, !.pending = w] \in Request
      BY <1>0, <2>1, <3>6 DEF Request
    <3> QED
      BY <1>0, <2>2, <3>2, <3>7, RequestStepType DEF w, sent
  <2>4. CASE req[r].todo # {u}
    <3>1. Become(r, [req[r] EXCEPT !.todo = @ \ {u}, !.done = sent, !.pending = moved])
      BY <1>3, <2>4 DEF AddOne, moved, sent
    <3>2. req[r].todo \ {u} \in SUBSET Members
      BY <1>a
    <3>3. [req[r] EXCEPT !.todo = @ \ {u}, !.done = sent, !.pending = moved] \in Request
      BY <1>0, <2>1, <3>2 DEF Request
    <3> QED
      BY <1>0, <2>2, <3>1, <3>3, RequestStepType
  <2> QED
    BY <2>3, <2>4
<1>4. ASSUME NEW u \in Members, NEW new \in Request, Turn(r, u, new), UNCHANGED <<tables, made>>,
             new.todo = req[r].todo
      PROVE  TypeOK'
  <2>1. [new EXCEPT !.at = "handled", !.todo = {}] \in Request
    BY <1>4 DEF Request
  <2>2. [new EXCEPT !.at = "remove", !.todo = @ \ {u}] \in Request
    BY <1>4 DEF Request
  <2>3. cache' \in [Users -> Entry \union {None}] /\ loop' \in Requests \union {None}
    BY <1>0, <1>4, DropType DEF Turn, Frees
  <2> QED
    BY <1>0, <1>4, <2>1, <2>2, <2>3, RequestStepType DEF Turn
<1>5. ASSUME NEW u \in Members, RemoveOne(r, u) PROVE TypeOK'
  <2> DEFINE sent == Then(req[r].done, req[r].pending)
             flushed == [req[r] EXCEPT !.done = sent, !.pending = NoWrites]
             out == SetCurrent(u, None)
  <2>1. sent \in Writes /\ out \in Writes
    BY <1>a, <1>b, SetCurrentType, ThenType
  <2> HIDE DEF sent, out
  <2>2. flushed \in Request /\ flushed.todo = req[r].todo
    BY <1>0, <2>1, NoWritesType DEF Request
  <2>3. [flushed EXCEPT !.at = "other", !.list = {u}, !.pending = out] \in Request
    BY <1>b, <2>1, <2>2 DEF Request
  <2>4. UNCHANGED <<tables, made>>
    BY <1>5 DEF RemoveOne, GoesOn
  <2>5. \/ Become(r, [flushed EXCEPT !.at = "other", !.list = {u}, !.pending = out])
           /\ UNCHANGED <<cache, loop>>
        \/ Turn(r, u, flushed)
    BY <1>5 DEF RemoveOne, sent, out
  <2> QED
    BY <1>0, <1>4, <2>2, <2>3, <2>4, <2>5, RequestStepType
<1>6. ASSUME NEW u \in Members, OtherSpace(r, u) PROVE TypeOK'
  <2> DEFINE others == SpacesOf(u) \ {req[r].space}
             sent == Then(req[r].done, req[r].pending)
  <2>1. PICK s \in IF others = {} THEN {Same} ELSE others :
            Turn(r, u, [req[r] EXCEPT !.done = sent, !.pending = SetCurrent(u, s)])
    BY <1>6 DEF OtherSpace
  <2>2. s \in Spaces \union {None, Same}
    BY ReadTypes
  <2> DEFINE out == SetCurrent(u, s)
  <2>3. sent \in Writes /\ out \in Writes
    BY <1>a, <1>b, <2>2, SetCurrentType, ThenType
  <2> HIDE DEF sent, out
  <2>4. [req[r] EXCEPT !.done = sent, !.pending = out] \in Request
    BY <1>0, <2>3 DEF Request
  <2>5. UNCHANGED <<tables, made>>
    BY <1>6 DEF OtherSpace, GoesOn
  <2> QED
    BY <1>0, <1>4, <2>1, <2>4, <2>5 DEF out, Request
<1>7. ASSUME NEW u \in Members, NEW s \in Spaces, NEW w \in Weights, EditMember(r, u, s, w)
      PROVE  TypeOK'
  <2>1. UNCHANGED <<tables, made, loop>> /\ cache' \in [Users -> Entry \union {None}]
    BY <1>0, <1>7, DropType DEF EditMember, Starts
  <2>2. CASE End(r)
    BY <1>0, <2>1, <2>2, IdleType, RequestStepType DEF End
  <2>3. CASE ~End(r)
    <3>1. PICK i \in RowsOf(u) \intersect RowsIn(s) :
              Become(r, [req[r] EXCEPT !.at = "handled", !.edited = i,
                                 !.pending.row[i] = [row[i] EXCEPT !.weight = w]])
      BY <1>7, <2>3 DEF EditMember
    <3>2. i \in Rows /\ row[i] \in Row
      BY ReadTypes DEF RowsOf
    <3> DEFINE x == [row[i] EXCEPT !.weight = w]
    <3>3. x \in Row
      BY <3>2 DEF Row
    <3> HIDE DEF x
    <3>4. [req[r].pending EXCEPT !.row[i] = x] \in Writes
      BY <1>a, <3>2, <3>3 DEF Writes
    <3>5. [req[r] EXCEPT !.at = "handled", !.edited = i, !.pending.row[i] = x] \in Request
      BY <1>0, <3>2, <3>4 DEF Request
    <3> QED
      BY <1>0, <2>1, <3>1, <3>5, RequestStepType DEF x
  <2> QED
    BY <2>2, <2>3
<1> QED
  BY <1>1, <1>2, <1>3, <1>5, <1>6, <1>7, TypeRest DEF MemberHandler

\* The deletion of a workspace.
LEMMA TypeSpace ==
    ASSUME TypeOK, NEW r \in Requests, SpaceHandler(r)
    PROVE  TypeOK'
<1>0. /\ req[r] \in Request /\ made \in Nat /\ loop \in Requests \union {None}
      /\ cache \in [Users -> Entry \union {None}]
  BY DEF TypeOK
<1>a. req[r].done \in Writes /\ req[r].pending \in Writes /\ req[r].space \in Spaces
      /\ req[r].plan \in [Users -> Spaces \union {None, Same}]
  BY <1>0 DEF Request
<1>b. [req[r].pending EXCEPT !.closed = {req[r].space}] \in Writes
  BY <1>a DEF Writes
<1>1. ASSUME NEW s \in Spaces, DeleteSpace(r, s) PROVE TypeOK'
  <2> DEFINE at == IF req[r].info.current = s THEN "own" ELSE "members"
  <2>1. [req[r] EXCEPT !.space = s, !.at = at] \in Request
    BY <1>0 DEF Request
  <2>2. UNCHANGED <<tables, made, cache>> /\ loop' \in Requests \union {None}
    BY <1>0, <1>1 DEF DeleteSpace, Starts, Holds
  <2> QED
    BY <1>0, <1>1, <2>1, <2>2, IdleType, RequestStepType DEF DeleteSpace, End
<1>2. CASE OwnSpace(r)
  <2>1. SetCurrent(Admin, Home) \in Writes
    BY UserAssumption, SpaceAssumption, SetCurrentType
  <2>2. [req[r] EXCEPT !.at = "members", !.done = SetCurrent(Admin, Home)] \in Request
    BY <1>0, <2>1 DEF Request
  <2>3. cache' \in [Users -> Entry \union {None}] /\ UNCHANGED <<tables, made, loop>>
    BY <1>2, DropType DEF OwnSpace, GoesOn
  <2> QED
    BY <1>0, <1>2, <2>2, <2>3, RequestStepType DEF OwnSpace
<1>3. CASE DropRecords(r)
  <2>1. [req[r] EXCEPT !.at = "handled", !.pending.closed = {req[r].space}] \in Request
    BY <1>0, <1>b DEF Request
  <2>2. [req[r] EXCEPT !.at = "plan"] \in Request
    BY <1>0 DEF Request
  <2>3. cache' \in [Users -> Entry \union {None}] /\ UNCHANGED <<tables, made>>
        /\ loop' \in Requests \union {None}
    BY <1>0, <1>3, DropType DEF DropRecords, GoesOn, Frees
  <2> QED
    BY <1>0, <1>3, <2>1, <2>2, <2>3, RequestStepType DEF DropRecords
<1>4. CASE PlanMoves(r)
  <2>1. PICK plan \in [Users -> Spaces \union {None, Same}] :
            Become(r, [req[r] EXCEPT !.at = "reset", !.plan = plan])
    BY <1>4 DEF PlanMoves
  <2>2. [req[r] EXCEPT !.at = "reset", !.plan = plan] \in Request
    BY <1>0 DEF Request
  <2> QED
    BY <1>0, <1>4, <2>1, <2>2, RequestStepType DEF PlanMoves, GoesOn
<1>5. ASSUME NEW u \in Users, MoveOne(r, u) PROVE TypeOK'
  <2> DEFINE w == Then(req[r].done, SetCurrent(u, req[r].plan[u]))
  <2>1. w \in Writes
    BY <1>a, SetCurrentType, ThenType
  <2> HIDE DEF w
  <2>2. [req[r].plan EXCEPT ![u] = Same] \in [Users -> Spaces \union {None, Same}]
    BY <1>a
  <2>3. [req[r] EXCEPT !.plan[u] = Same, !.done = w] \in Request
    BY <1>0, <2>1, <2>2 DEF Request
  <2> QED
    BY <1>0, <1>5, <2>3, RequestStepType DEF MoveOne, GoesOn, w
<1>6. CASE CutMemberships(r)
  <2> DEFINE w == Then(req[r].done, Delete(RowsIn(req[r].space)))
  <2>1. w \in Writes
    BY <1>a, DeleteType, ThenType
  <2> HIDE DEF w
  <2>2. [req[r] EXCEPT !.at = "handled", !.done = w, !.pending.closed = {req[r].space}] \in Request
    BY <1>0, <1>b, <2>1 DEF Request
  <2> QED
    BY <1>0, <1>6, <2>2, RequestStepType DEF CutMemberships, GoesOn, Frees, w
<1> QED
  BY <1>1, <1>2, <1>3, <1>4, <1>5, <1>6 DEF SpaceHandler

LEMMA TypeCommit ==
    ASSUME TypeOK, NEW r \in Requests, Commit(r)
    PROVE  TypeOK'
<1> DEFINE w == Then(req[r].done, req[r].pending)
<1>1. w \in Writes
  BY ThenType DEF TypeOK, Request
<1> HIDE DEF w
<1>2. /\ current' \in [Users -> Spaces \union {None}]
      /\ status' \in [Users -> Status]
      /\ row' \in [Rows -> Row \union {None}]
      /\ spaces' \in SUBSET Spaces
  BY <1>1, SaveType DEF Commit, TypeOK, tables, w
<1>3. req' \in [Requests -> Request]
  BY IdleType DEF Commit, End, Become, TypeOK
<1> QED
  BY <1>2, <1>3 DEF Commit, TypeOK

LEMMA TypeNext == TypeOK /\ [Next]_vars => TypeOK'
<1> SUFFICES ASSUME TypeOK, [Next]_vars PROVE TypeOK'
  OBVIOUS
<1>1. ASSUME NEW u \in Users, Expire(u) PROVE TypeOK'
  BY <1>1, DropType DEF Expire, TypeOK, tables
<1>2. CASE Restart
  <2>1. cache' \in [Users -> Entry \union {None}] /\ req' \in [Requests -> Request]
        /\ loop' = None /\ UNCHANGED <<tables, made>>
    BY <1>2, IdleType DEF Restart
  <2> QED
    BY <2>1 DEF TypeOK, tables
<1>3. CASE UNCHANGED vars
  BY <1>3 DEF vars, TypeOK
<1> QED
  BY <1>1, <1>2, <1>3, TypeRest, TypeFill, TypeUser, TypeMembers, TypeSpace, TypeCommit
     DEF Next, Authenticate, Handle, Finish

\* Every state has its type.
THEOREM SpacesTypes == Spec => []TypeOK
<1> QED
  BY TypeInit, TypeNext, PTL DEF Spec

-------------------------------------------------------------------------------
(* Cached records                                                          *)

\* The parts of the invariant, for a cache c, memberships rw and a request q.
LateIn(c, u) == c[u] = None \/ c[u].raced

TB(rw, w) ==
    {u \in Users : w.current[u] # Same \/ w.status[u] # Same}
    \union {rw[i].user : i \in {j \in Rows : rw[j] # None /\ w.row[j] # Same}}
    \union {w.row[i].user : i \in {j \in Rows : w.row[j] \notin {None, Same}}}

TQ(rw, q) == TB(rw, q.done) \union TB(rw, q.pending)

MembersIn(rw, s) == {rw[i].user : i \in {j \in Rows : rw[j] # None /\ rw[j].space = s}}

Due(q) == IF q.at \in {"remove", "other"} THEN q.todo ELSE {}

\* Whoever a request changes has had the record dropped, or is still to be
\* visited by the loop that drops it; and those whom it is going to change
\* without a further drop have had theirs dropped.
Fine(c, rw, q) ==
    /\ q.at # "idle" => q.user \in Users
    /\ q.at \in {"idle", "fill", "in", "option", "drop", "own"} =>
           q.done = NoWrites /\ q.pending = NoWrites
    /\ q.at = "gone" => q.pending = NoWrites
    /\ \A u \in TQ(rw, q) : LateIn(c, u) \/ u \in Due(q)
    /\ q.at = "option" => LateIn(c, q.user)
    /\ q.at \in {"edit", "erase", "gone"} => \A u \in q.list : LateIn(c, u)
    /\ q.at = "add" => \A u \in q.list \ q.todo : LateIn(c, u)
    /\ q.at = "other" => q.list \subseteq q.todo
    /\ q.at \in {"plan", "reset"} => \A u \in MembersIn(rw, q.space) : LateIn(c, u)
    /\ q.at = "reset" => \A u \in Users : q.plan[u] # Same => LateIn(c, u)

RequestsFine == \A r \in Requests : Fine(cache, row, req[r])

\* Only the holder of the loop is in the middle of its handler.
Resting == {"idle", "in", "handled", "committing"}
LoopFine == \A r \in Requests : req[r].at \notin Resting => loop = r

\* What has been read of a user is right until the record is stored, if no
\* request was changing the user.
Base(u) == IF Exists(u) THEN [current |-> current[u], status |-> status[u], weight |-> 0] ELSE None
FillFine(r) ==
    req[r].at = "fill" /\ ~req[r].raced =>
        /\ req[r].info = Base(req[r].user)
        /\ \A q \in Requests \ {r} : req[r].user \notin TQ(row, req[q])

IInv == /\ TypeOK /\ LoopFine /\ RequestsFine
        /\ \A r \in Requests : FillFine(r)
        /\ StaleIsExplained

\* Whom the writes of a transaction touch.
LEMMA TouchNone == \A rw : TB(rw, NoWrites) = {}
  BY DEF TB, NoWrites

LEMMA TouchThen ==
    ASSUME NEW rw, NEW w \in Writes, NEW v \in Writes
    PROVE  TB(rw, Then(w, v)) \subseteq TB(rw, w) \union TB(rw, v)
<1> DEFINE t == Then(w, v)
<1>1. \A u \in Users : /\ t.current[u] = IF v.current[u] = Same THEN w.current[u] ELSE v.current[u]
                       /\ t.status[u] = IF v.status[u] = Same THEN w.status[u] ELSE v.status[u]
  BY WritesParts DEF Then, Upon
<1>2. \A i \in Rows : t.row[i] = IF v.row[i] = Same THEN w.row[i] ELSE v.row[i]
  BY WritesParts DEF Then, Upon
<1> HIDE DEF t
<1>3. ASSUME NEW u \in TB(rw, t) PROVE u \in TB(rw, w) \union TB(rw, v)
  <2>1. CASE u \in Users /\ (t.current[u] # Same \/ t.status[u] # Same)
    BY <1>1, <2>1 DEF TB
  <2>2. CASE \E i \in Rows : rw[i] # None /\ t.row[i] # Same /\ u = rw[i].user
    BY <1>2, <2>2 DEF TB
  <2>3. CASE \E i \in Rows : t.row[i] \notin {None, Same} /\ u = t.row[i].user
    BY <1>2, <2>3 DEF TB
  <2> QED
    BY <1>3, <2>1, <2>2, <2>3 DEF TB
<1> QED
  BY <1>3 DEF t

LEMMA TouchCurrent ==
    ASSUME NEW rw, NEW u, NEW s
    PROVE  TB(rw, SetCurrent(u, s)) \subseteq {u}
<1>1. \A v \in Users : v # u => SetCurrent(u, s).current[v] = Same
  BY DEF SetCurrent, NoWrites
<1>2. /\ \A v \in Users : SetCurrent(u, s).status[v] = Same
      /\ \A i \in Rows : SetCurrent(u, s).row[i] = Same
  BY DEF SetCurrent, NoWrites
<1> QED
  BY <1>1, <1>2 DEF TB

LEMMA TouchDelete ==
    ASSUME NEW rw, NEW I
    PROVE  \A u \in TB(rw, Delete(I)) : \E i \in I \intersect Rows : rw[i] # None /\ u = rw[i].user
<1>1. /\ \A v \in Users : Delete(I).current[v] = Same /\ Delete(I).status[v] = Same
      /\ \A i \in Rows : Delete(I).row[i] = IF i \in I THEN None ELSE Same
  BY DEF Delete, NoWrites
<1> QED
  BY <1>1 DEF TB

LEMMA TouchInsert ==
    ASSUME NEW I \in SUBSET Unused, NEW of, DOMAIN of = I
    PROVE  \A u \in TB(row, Insert(of)) : \E i \in I : u = of[i].user
<1>1. /\ \A v \in Users : Insert(of).current[v] = Same /\ Insert(of).status[v] = Same
      /\ \A i \in Rows : Insert(of).row[i] = IF i \in I THEN of[i] ELSE Same
  BY DEF Insert, NoWrites
<1>2. \A i \in I : row[i] = None
  BY DEF Unused
<1> QED
  BY <1>1, <1>2 DEF TB

\* Touched is what TQ is of the memberships there are.
LEMMA TouchedIs == \A r \in Requests : Touched(r) = TQ(row, req[r])
  BY DEF Touched, TouchedBy, TQ, TB

\* A request stays fine when records are dropped.
LEMMA FineDrop ==
    ASSUME NEW c, NEW d, NEW rw, NEW q \in Request, Fine(c, rw, q),
           \A u \in Users : LateIn(c, u) => LateIn(d, u),
           TQ(rw, q) \subseteq Users, MembersIn(rw, q.space) \subseteq Users
    PROVE  Fine(d, rw, q)
<1>1. q.list \subseteq Users
  BY DEF Request, Members
<1> QED
  BY <1>1 DEF Fine

\* And when memberships change of users whose record has been dropped.
LEMMA FineRows ==
    ASSUME NEW c, NEW rw, NEW rx, NEW q, Fine(c, rw, q),
           \A i \in Rows : rx[i] # rw[i] /\ rx[i] # None => LateIn(c, rx[i].user)
    PROVE  Fine(c, rx, q)
<1>1. \A u \in TQ(rx, q) : u \in TQ(rw, q) \/ LateIn(c, u)
  BY DEF TQ, TB
<1>2. \A u \in MembersIn(rx, q.space) : u \in MembersIn(rw, q.space) \/ LateIn(c, u)
  BY DEF MembersIn
<1> QED
  BY <1>1, <1>2 DEF Fine

\* Whom a request touches is a user.
LEMMA TouchUsers ==
    ASSUME TypeOK, NEW q \in Request
    PROVE  TQ(row, q) \subseteq Users /\ \A s : MembersIn(row, s) \subseteq Users
<1>1. ASSUME NEW w \in Writes PROVE TB(row, w) \subseteq Users
  <2>1. \A i \in Rows : row[i] # None => row[i].user \in Users
    BY ReadTypes DEF Row, Members
  <2>2. \A i \in Rows : w.row[i] \notin {None, Same} => w.row[i].user \in Users
    <3>1. \A i \in Rows : w.row[i] \in Row \union {None, Same}
      BY WritesParts
    <3> QED
      BY <3>1 DEF Row, Members
  <2> QED
    BY <2>1, <2>2 DEF TB
<1>2. \A s : MembersIn(row, s) \subseteq Users
  BY ReadTypes DEF MembersIn, Row, Members
<1> QED
  BY <1>1, <1>2 DEF TQ, Request

LEMMA IdleFine == \A c, rw : Fine(c, rw, Idle)
<1>1. \A rw : TQ(rw, Idle) = {}
  BY TouchNone DEF TQ, Idle
<1> QED
  BY <1>1 DEF Fine, Idle

\* A step of one request that leaves the tables alone and only drops records
\* keeps the invariant, if the request stays fine.
LEMMA CalmStep ==
    ASSUME IInv, TypeOK', NEW r \in Requests, NEW new, Become(r, new),
           UNCHANGED tables,
           \A u \in Users : cache'[u] \in {cache[u], None},
           Fine(cache', row, new),
           new.at # "fill" \/ FillFine(r)',
           new.at \notin Resting => loop' = r,
           \A q \in Requests \ {r} : loop = q => loop' = q,
           loop \in {None, r} \/ TQ(row, new) = {}
    PROVE  IInv'
<1>0. /\ TypeOK /\ LoopFine /\ RequestsFine /\ StaleIsExplained
      /\ \A q \in Requests : FillFine(q)
      /\ row' = row /\ current' = current /\ status' = status
      /\ req \in [Requests -> Request] /\ cache' \in [Users -> Entry \union {None}]
  BY DEF IInv, tables, TypeOK
<1>1. req'[r] = new /\ \A q \in Requests \ {r} : req'[q] = req[q]
  BY <1>0 DEF Become
<1>2. \A u \in Users : LateIn(cache, u) => LateIn(cache', u)
  BY DEF LateIn
<1>3. RequestsFine'
  <2>1. ASSUME NEW q \in Requests, q # r PROVE Fine(cache', row', req'[q])
    <3>1. req[q] \in Request /\ Fine(cache, row, req[q])
      BY <1>0 DEF RequestsFine
    <3>2. TQ(row, req[q]) \subseteq Users /\ MembersIn(row, req[q].space) \subseteq Users
      BY <1>0, <3>1, TouchUsers
    <3> QED
      BY <1>0, <1>1, <1>2, <2>1, <3>1, <3>2, FineDrop
  <2> QED
    BY <1>0, <1>1, <2>1 DEF RequestsFine
<1>4. LoopFine'
  BY <1>0, <1>1 DEF LoopFine
<1>5. ASSUME NEW q \in Requests PROVE FillFine(q)'
  <2>1. CASE q = r
    BY <1>1, <2>1 DEF FillFine
  <2>2. CASE q # r
    <3>1. ASSUME req[q].at = "fill", ~req[q].raced
          PROVE  /\ req[q].info = Base(req[q].user)
                 /\ \A p \in Requests \ {q} : req[q].user \notin TQ(row, req'[p])
      <4>1. loop = q
        BY <1>0, <3>1 DEF LoopFine, Resting
      <4>3. TQ(row, new) = {}
        BY <2>2, <4>1, RequestAssumption
      <4>4. req[q].info = Base(req[q].user)
            /\ \A p \in Requests \ {q} : req[q].user \notin TQ(row, req[p])
        BY <1>0, <3>1 DEF FillFine
      <4> QED
        BY <1>1, <4>3, <4>4
    <3> QED
      BY <1>0, <1>1, <2>2, <3>1 DEF FillFine, Base, Exists
  <2> QED
    BY <2>1, <2>2
<1>6. StaleIsExplained'
  <2>1. \A u \in Users : Infos(u)' = Infos(u)
    BY <1>0 DEF Infos, Exists, WeightOf, RowsOf, RowsIn
  <2> QED
    BY <1>0, <2>1 DEF StaleIsExplained
<1> QED
  BY <1>3, <1>4, <1>5, <1>6 DEF IInv

\* A transaction that is saved leaves alone whom it does not touch.
LEMMA SaveKeeps ==
    ASSUME TypeOK, NEW w \in Writes, Save(w), NEW u \in Users, u \notin TB(row, w)
    PROVE  /\ current'[u] = current[u] /\ status'[u] = status[u]
           /\ \A i \in Rows : \/ row'[i] = row[i]
                              \/ /\ row[i] # None => row[i].user # u
                                 /\ row'[i] # None => row'[i].user # u
<1>1. w.current[u] = Same /\ w.status[u] = Same
  BY DEF TB
<1>2. current'[u] = current[u] /\ status'[u] = status[u]
  BY <1>1, WritesParts DEF Save, Upon, TypeOK
<1>3. ASSUME NEW i \in Rows, row'[i] # row[i]
      PROVE  /\ row[i] # None => row[i].user # u
             /\ row'[i] # None => row'[i].user # u
  <2>1. row'[i] = w.row[i] /\ w.row[i] # Same
    BY <1>3, WritesParts DEF Save, Upon, TypeOK
  <2> QED
    BY <2>1 DEF TB
<1> QED
  BY <1>2, <1>3

LEMMA SaveKeepsInfos ==
    ASSUME TypeOK, NEW w \in Writes, Save(w), NEW u \in Users, u \notin TB(row, w)
    PROVE  Infos(u)' = Infos(u) /\ Base(u)' = Base(u)
<1>1. current'[u] = current[u] /\ status'[u] = status[u]
  BY SaveKeeps
<1>2. RowsOf(u)' = RowsOf(u) /\ \A i \in RowsOf(u) : row'[i] = row[i]
  BY SaveKeeps DEF RowsOf
<1>3. \A s : (RowsOf(u) \intersect RowsIn(s))' = RowsOf(u) \intersect RowsIn(s)
  BY <1>2 DEF RowsIn, RowsOf
<1>4. \A s : WeightOf(u, s)' = WeightOf(u, s)
  BY <1>2, <1>3 DEF WeightOf
<1> QED
  BY <1>1, <1>4 DEF Infos, Base, Exists

\* Nor do others touch them who did not before.
LEMMA StillUntouched ==
    ASSUME NEW rw, NEW rx, NEW v, NEW u, u \notin TB(rw, v),
           \A i \in Rows : rx[i] = rw[i] \/ (rx[i] # None => rx[i].user # u)
    PROVE  u \notin TB(rx, v)
  BY DEF TB

\* The end of a transaction keeps the invariant, if all it touches have had
\* their record dropped.
LEMMA SaveStep ==
    ASSUME IInv, TypeOK', NEW r \in Requests, NEW new, Become(r, new),
           NEW w \in Writes, Save(w), UNCHANGED cache,
           \A u \in TB(row, w) : LateIn(cache, u),
           TB(row, w) \subseteq TQ(row, req[r]) \/ loop = r,
           \A rw : Fine(cache, rw, new),
           new.at # "fill", new.done = NoWrites, new.pending = NoWrites,
           new.at \notin Resting => loop' = r,
           \A q \in Requests \ {r} : loop = q => loop' = q
    PROVE  IInv'
<1>0. /\ TypeOK /\ LoopFine /\ RequestsFine /\ StaleIsExplained
      /\ \A q \in Requests : FillFine(q)
      /\ req \in [Requests -> Request] /\ cache' = cache
  BY DEF IInv, TypeOK
<1>1. req'[r] = new /\ \A q \in Requests \ {r} : req'[q] = req[q]
  BY <1>0 DEF Become
<1>2. \A i \in Rows : row'[i] # row[i] /\ row'[i] # None => LateIn(cache, row'[i].user)
  <2>1. \A i \in Rows : row'[i] # row[i] => row'[i] = w.row[i] /\ w.row[i] # Same
    BY <1>0, WritesParts DEF Save, Upon, TypeOK
  <2> QED
    BY <2>1 DEF TB
<1>3. RequestsFine'
  <2>1. ASSUME NEW q \in Requests, q # r PROVE Fine(cache', row', req'[q])
    BY <1>0, <1>1, <1>2, <2>1, FineRows DEF RequestsFine
  <2>2. Fine(cache', row', req'[r])
    BY <1>0, <1>1
  <2> QED
    BY <2>1, <2>2 DEF RequestsFine
<1>4. LoopFine'
  BY <1>0, <1>1 DEF LoopFine
<1>5. ASSUME NEW q \in Requests PROVE FillFine(q)'
  <2>1. CASE q = r
    BY <1>1, <2>1 DEF FillFine
  <2>2. CASE q # r
    <3>0. PICK u : u = req[q].user
      OBVIOUS
    <3>1. ASSUME req[q].at = "fill", ~req[q].raced
          PROVE  /\ req[q].info = Base(u)'
                 /\ \A p \in Requests \ {q} : u \notin TQ(row', req'[p])
      <4>1. loop = q
        BY <1>0, <3>1 DEF LoopFine, Resting
      <4>2. u \in Users
        BY <1>0, <3>0, <3>1 DEF RequestsFine, Fine
      <4>3. /\ req[q].info = Base(u)
            /\ \A p \in Requests \ {q} : u \notin TQ(row, req[p])
        BY <1>0, <3>0, <3>1 DEF FillFine
      <4>4. u \notin TB(row, w)
        BY <2>2, <4>1, <4>3
      <4>5. Base(u)' = Base(u)
        BY <1>0, <4>2, <4>4, SaveKeepsInfos
      <4>6. ASSUME NEW p \in Requests \ {q} PROVE u \notin TQ(row', req'[p])
        <5>1. CASE p = r
          BY <1>1, <5>1, TouchNone DEF TQ
        <5>2. CASE p # r
          <6>1. u \notin TQ(row, req[p]) /\ req'[p] = req[p]
            BY <1>1, <4>3, <5>2
          <6>2. \A i \in Rows : \/ row'[i] = row[i]
                                \/ row'[i] # None => row'[i].user # u
            BY <1>0, <4>2, <4>4, SaveKeeps
          <6> QED
            BY <6>1, <6>2, StillUntouched DEF TQ
        <5> QED
          BY <5>1, <5>2
      <4> QED
        BY <4>3, <4>5, <4>6
    <3> QED
      BY <1>1, <2>2, <3>0, <3>1 DEF FillFine
  <2> QED
    BY <2>1, <2>2
<1>6. StaleIsExplained'
  <2>1. ASSUME NEW u \in Users, cache[u] # None, ~cache[u].raced
        PROVE  Infos(u)' = Infos(u)
    <3>1. u \notin TB(row, w)
      BY <2>1 DEF LateIn
    <3> QED
      BY <1>0, <3>1, SaveKeepsInfos
  <2> QED
    BY <1>0, <2>1 DEF StaleIsExplained
<1> QED
  BY <1>3, <1>4, <1>5, <1>6 DEF IInv

-------------------------------------------------------------------------------
(* The steps                                                               *)

\* What the invariant says of one request.
LEMMA Here ==
    ASSUME IInv, NEW r \in Requests
    PROVE  /\ TypeOK /\ Fine(cache, row, req[r])
           /\ req[r] \in Request /\ req[r].done \in Writes /\ req[r].pending \in Writes
           /\ req[r].list \in SUBSET Users /\ req[r].todo \in SUBSET Users
           /\ TQ(row, req[r]) \subseteq Users
           /\ \A s : MembersIn(row, s) \subseteq Users
           /\ loop \in Requests \union {None}
<1>1. TypeOK /\ req[r] \in Request /\ Fine(cache, row, req[r]) /\ loop \in Requests \union {None}
  BY DEF IInv, RequestsFine, TypeOK
<1>2. Members \subseteq Users
  BY DEF Members
<1> QED
  BY <1>1, <1>2, TouchUsers DEF Request

\* What dropping records does.
LEMMA DropLate ==
    ASSUME NEW U, Drop(U)
    PROVE  /\ \A u \in Users : cache'[u] \in {cache[u], None}
           /\ \A u \in Users : LateIn(cache, u) => LateIn(cache', u)
           /\ \A u \in Users : u \in U => LateIn(cache', u)
  BY DEF Drop, LateIn

\* A request ends and nothing is saved.
LEMMA EndStep ==
    ASSUME IInv, TypeOK', NEW r \in Requests, End(r), UNCHANGED tables,
           \A u \in Users : cache'[u] \in {cache[u], None},
           \A q \in Requests \ {r} : loop = q => loop' = q
    PROVE  IInv'
<1>1. TQ(row, Idle) = {}
  BY TouchNone DEF TQ, Idle
<1>2. Idle.at = "idle" /\ "idle" \in Resting
  BY DEF Idle, Resting
<1> QED
  BY <1>1, <1>2, IdleFine, CalmStep DEF End

\* A request whose writes are none.
LEMMA BlankFine ==
    ASSUME NEW c, NEW rw, NEW q, q.done = NoWrites, q.pending = NoWrites,
           q.user \in Users, q.at \in {"fill", "in", "drop", "own", "members", "handled"}
    PROVE  Fine(c, rw, q) /\ TQ(rw, q) = {}
<1>1. TQ(rw, q) = {}
  BY TouchNone DEF TQ
<1> QED
  BY <1>1 DEF Fine

\* The requests that only begin, wait or end.
LEMMA KeepRest ==
    ASSUME IInv, TypeOK', NEW r \in Requests,
           \/ \E u \in Users : Cached(r, u) \/ LookUp(r, u)
           \/ Leave(r) \/ HandOver(r) \/ Victim(r) \/ Abort(r)
    PROVE  IInv'
<1>0. UNCHANGED tables
  BY DEF Cached, LookUp, Leave, HandOver, Victim, Abort, Starts
<1>a. cache' = cache
  BY DEF Cached, LookUp, Leave, HandOver, Victim, Abort
<1>1. ASSUME NEW u \in Users, Cached(r, u) PROVE IInv'
  <2> DEFINE new == [Idle EXCEPT !.at = "in", !.user = u, !.info = cache[u].info]
  <2>1. new.at = "in" /\ new.user = u /\ new.done = NoWrites /\ new.pending = NoWrites
    BY DEF Idle
  <2>2. Become(r, new) /\ loop' = loop
    BY <1>1 DEF Cached
  <2> HIDE DEF new
  <2>3. Fine(cache', row, new) /\ TQ(row, new) = {}
    BY <2>1, BlankFine
  <2>4. new.at \in Resting
    BY <2>1 DEF Resting
  <2> QED
    BY <1>0, <1>a, <2>1, <2>2, <2>3, <2>4, CalmStep
<1>2. ASSUME NEW u \in Users, LookUp(r, u) PROVE IInv'
  <2> DEFINE info == IF Exists(u)
                     THEN [current |-> current[u], status |-> status[u], weight |-> 0]
                     ELSE None
             raced == \E q \in Requests : u \in Touched(q)
             new == [Idle EXCEPT !.at = "fill", !.user = u, !.info = info, !.raced = raced]
  <2>1. /\ new.at = "fill" /\ new.user = u /\ new.done = NoWrites /\ new.pending = NoWrites
        /\ new.info = Base(u) /\ new.raced = \E q \in Requests : u \in TQ(row, req[q])
    BY TouchedIs DEF Idle, Base
  <2>2. Become(r, new) /\ loop' = r /\ loop = None
    BY <1>2 DEF LookUp, Holds
  <2> HIDE DEF new
  <2>3. Fine(cache', row, new) /\ TQ(row, new) = {}
    BY <2>1, BlankFine
  <2>4. FillFine(r)'
    <3>1. req'[r] = new /\ \A q \in Requests \ {r} : req'[q] = req[q]
      BY <2>2, Here DEF Become, TypeOK
    <3>2. row' = row /\ Base(u)' = Base(u)
      BY <1>0 DEF tables, Base, Exists
    <3> QED
      BY <2>1, <3>1, <3>2 DEF FillFine
  <2> QED
    BY <1>0, <1>a, <2>2, <2>3, <2>4, RequestAssumption, CalmStep
<1>3. CASE Leave(r)
  BY <1>0, <1>a, <1>3, EndStep DEF Leave
<1>4. CASE HandOver(r)
  <2> DEFINE new == [req[r] EXCEPT !.at = "committing"]
  <2>1. new.at = "committing" /\ new.user = req[r].user /\ req[r].at = "handled"
        /\ new.done = req[r].done /\ new.pending = req[r].pending
    BY <1>4, Here DEF HandOver, Request
  <2>2. Become(r, new) /\ loop' = loop /\ loop = None
    BY <1>4 DEF HandOver
  <2> HIDE DEF new
  <2>3. Fine(cache', row, new)
    BY <1>a, <2>1, Here DEF Fine, TQ, Due
  <2>4. new.at \in Resting /\ new.at # "fill"
    BY <2>1 DEF Resting
  <2> QED
    BY <1>0, <1>a, <2>2, <2>3, <2>4, CalmStep
<1>5. CASE Victim(r)
  BY <1>0, <1>a, <1>5, EndStep DEF Victim
<1>6. CASE Abort(r)
  BY <1>0, <1>a, <1>6, EndStep DEF Abort
<1> QED
  BY <1>1, <1>2, <1>3, <1>4, <1>5, <1>6

\* A record that is read and stored.
LEMMA KeepFill ==
    ASSUME IInv, TypeOK', NEW r \in Requests, Fill(r)
    PROVE  IInv'
<1>0. /\ UNCHANGED tables /\ loop = r /\ loop' = None /\ req[r].at = "fill"
      /\ row' = row /\ current' = current /\ status' = status
  BY DEF Fill, GoesOn, Frees, tables
<1>a. PICK u : u = req[r].user
  OBVIOUS
<1>b. u \in Users /\ cache \in [Users -> Entry \union {None}] /\ req \in [Requests -> Request]
      /\ LoopFine /\ RequestsFine /\ StaleIsExplained /\ req[r].info \in Info \union {None}
  BY <1>0, <1>a, Here DEF Fine, TypeOK, IInv, Request
<1>1. PICK info \in IF req[r].info = None THEN {None}
                    ELSE {[req[r].info EXCEPT !.weight = w] :
                            w \in WeightOf(u, req[r].info.current)} :
          /\ cache' = [cache EXCEPT ![u] = [info |-> info, raced |-> req[r].raced]]
          /\ IF Accepted(info)
             THEN Become(r, [Idle EXCEPT !.at = "in", !.user = u, !.info = info])
             ELSE End(r)
  BY <1>a DEF Fill
<1>2. cache'[u].info = info /\ cache'[u].raced = req[r].raced
      /\ \A v \in Users \ {u} : cache'[v] = cache[v]
  BY <1>1, <1>b
<1>3. PICK new : Become(r, new) /\ new.at \in {"idle", "in"} /\ \A c, rw : Fine(c, rw, new)
  <2> DEFINE in == [Idle EXCEPT !.at = "in", !.user = u, !.info = info]
  <2>1. in.at = "in" /\ in.user = u /\ in.done = NoWrites /\ in.pending = NoWrites
    BY DEF Idle
  <2>2. Idle.at = "idle" /\ (Become(r, in) \/ Become(r, Idle))
    BY <1>1 DEF Idle, End
  <2> HIDE DEF in
  <2>3. \A c, rw : Fine(c, rw, in)
    BY <1>b, <2>1, BlankFine
  <2> QED
    BY <2>1, <2>2, <2>3, IdleFine
<1>4. req'[r] = new /\ \A q \in Requests \ {r} : req'[q] = req[q]
  BY <1>3, <1>b DEF Become
<1>5. \A q \in Requests \ {r} : req[q].at \in Resting
  BY <1>0, <1>b DEF LoopFine
<1>6. RequestsFine'
  <2>1. ASSUME NEW q \in Requests, q # r PROVE Fine(cache', row', req'[q])
    <3>1. Fine(cache, row, req[q]) /\ req[q].at \in Resting
      BY <1>5, <1>b, <2>1 DEF RequestsFine
    <3>2. ASSUME NEW v \in TQ(row, req[q]) PROVE LateIn(cache', v)
      <4>1. LateIn(cache, v) /\ v \in Users
        BY <3>1, Here DEF Fine, Due, Resting
      <4>2. CASE v = u
        <5>1. req[r].raced
          BY <1>0, <1>a, <2>1, <4>2 DEF IInv, FillFine
        <5> QED
          BY <1>2, <4>2, <5>1 DEF LateIn
      <4>3. CASE v # u
        BY <1>2, <4>1, <4>3 DEF LateIn
      <4> QED
        BY <4>2, <4>3
    <3> QED
      BY <1>0, <1>4, <2>1, <3>1, <3>2 DEF Fine, Resting
  <2> QED
    BY <1>3, <1>4, <2>1 DEF RequestsFine
<1>7. LoopFine'
  BY <1>3, <1>4, <1>5 DEF LoopFine, Resting
<1>8. \A q \in Requests : FillFine(q)'
  BY <1>3, <1>4, <1>5 DEF FillFine, Resting
<1>9. StaleIsExplained'
  <2>1. \A v \in Users : Infos(v)' = Infos(v)
    BY <1>0 DEF Infos, Exists, WeightOf, RowsOf, RowsIn
  <2>2. ASSUME ~req[r].raced PROVE info \in Infos(u)
    <3>1. req[r].info = Base(u)
      BY <1>0, <1>a, <2>2 DEF IInv, FillFine
    <3>2. CASE ~Exists(u)
      BY <1>1, <3>1, <3>2 DEF Base, Infos
    <3>3. CASE Exists(u)
      <4>1. req[r].info = [current |-> current[u], status |-> status[u], weight |-> 0]
        BY <3>1, <3>3 DEF Base
      <4>2. req[r].info \in Info
        BY <1>b, <4>1, Here, ReadTypes DEF Info, Weights
      <4>3. req[r].info # None
        BY <4>2, InfoAssumption
      <4>4. PICK w \in WeightOf(u, current[u]) : info = [req[r].info EXCEPT !.weight = w]
        BY <1>1, <4>1, <4>3
      <4>5. info = [current |-> current[u], status |-> status[u], weight |-> w]
        BY <4>1, <4>4
      <4> QED
        BY <3>3, <4>5 DEF Infos
    <3> QED
      BY <3>2, <3>3
  <2>3. ASSUME NEW v \in Users, cache'[v] # None
        PROVE  cache'[v].raced \/ cache'[v].info \in Infos(v)
    BY <1>b, <1>2, <2>2, <2>3 DEF StaleIsExplained
  <2> QED
    BY <2>1, <2>3 DEF StaleIsExplained
<1> QED
  BY <1>6, <1>7, <1>8, <1>9 DEF IInv

\* The handlers of api/user.py.
LEMMA KeepUser ==
    ASSUME IInv, TypeOK', NEW r \in Requests, UserHandler(r)
    PROVE  IInv'
<1>0. /\ TypeOK /\ Fine(cache, row, req[r])
      /\ req[r] \in Request /\ req[r].done \in Writes /\ req[r].pending \in Writes
      /\ req[r].list \in SUBSET Users /\ req[r].todo \in SUBSET Users
      /\ Members \subseteq Users
  BY Here DEF Members
<1>a. \A u : TB(row, NoWrites) \subseteq {u}
  BY TouchNone
<1>b. ASSUME Starts(r)
      PROVE  /\ loop = None /\ req[r].user \in Users /\ UNCHANGED tables
             /\ req[r].done = NoWrites /\ req[r].pending = NoWrites
  BY <1>0, <1>b DEF Starts, Fine
<1>1. ASSUME NEW s \in Spaces, ChangeSpace(r, s) PROVE IInv'
  <2> DEFINE new == [req[r] EXCEPT !.at = "option", !.space = s]
  <2>1. Starts(r) /\ Drop({req[r].user})
    BY <1>1 DEF ChangeSpace
  <2>2. /\ \A u \in Users : cache'[u] \in {cache[u], None}
        /\ LateIn(cache', req[r].user)
    BY <1>b, <2>1, DropLate
  <2>3. CASE End(r) /\ loop' = loop
    BY <1>b, <2>1, <2>2, <2>3, EndStep
  <2>4. CASE Become(r, new) /\ loop' = r
    <3>1. new.at = "option" /\ new.user = req[r].user /\ new.done = NoWrites
          /\ new.pending = NoWrites
      BY <1>0, <1>b, <2>1 DEF Request
    <3> HIDE DEF new
    <3>2. TQ(row, new) = {}
      BY <3>1, TouchNone DEF TQ
    <3>3. Fine(cache', row, new)
      BY <1>b, <2>1, <2>2, <3>1, <3>2 DEF Fine
    <3> QED
      BY <1>b, <2>1, <2>2, <2>4, <3>1, <3>2, <3>3, RequestAssumption, CalmStep
  <2> QED
    BY <1>1, <2>3, <2>4 DEF ChangeSpace, Holds
<1>2. CASE Choose(r)
  <2> DEFINE w == SetCurrent(req[r].user, Changed(current[req[r].user], req[r].space))
             new == [req[r] EXCEPT !.at = "handled", !.pending = w]
  <2>1. loop = r /\ req[r].at = "option" /\ UNCHANGED tables /\ loop' = None /\ cache' = cache
        /\ (Become(r, new) \/ End(r))
    BY <1>2 DEF Choose, GoesOn, Frees
  <2>2. CASE End(r)
    BY <2>1, <2>2, EndStep
  <2>3. CASE Become(r, new)
    <3>1. TB(row, w) \subseteq {req[r].user}
      BY TouchCurrent
    <3> HIDE DEF w
    <3>2. new.at = "handled" /\ new.user = req[r].user /\ new.done = NoWrites /\ new.pending = w
          /\ new.user \in Users /\ LateIn(cache, req[r].user)
      BY <1>0, <2>1 DEF Request, Fine
    <3> HIDE DEF new
    <3>3. Fine(cache', row, new)
      BY <2>1, <3>1, <3>2, TouchNone DEF Fine, TQ
    <3> QED
      BY <2>1, <2>3, <3>2, <3>3, CalmStep DEF Resting
  <2> QED
    BY <2>1, <2>2, <2>3
<1>3. ASSUME NEW u \in Members, NEW L \in SUBSET Spaces, NEW st \in {"on", "off"},
             NEW s \in IF L = {} THEN {None} ELSE L, EditUser(r, u, L, s, st)
      PROVE  IInv'
  <2> DEFINE first == IF current[u] \in L THEN current[u] ELSE s
             w == [SetCurrent(u, Changed(current[u], first)) EXCEPT
                      !.status[u] = Changed(status[u], st)]
             new == [req[r] EXCEPT !.at = "edit", !.list = {u}, !.wanted = L, !.pending = w]
  <2>1. Starts(r) /\ Drop({u})
    BY <1>3 DEF EditUser
  <2>2. /\ \A v \in Users : cache'[v] \in {cache[v], None}
        /\ LateIn(cache', u)
    BY <1>0, <2>1, DropLate
  <2>3. CASE End(r) /\ loop' = loop
    BY <1>b, <2>1, <2>2, <2>3, EndStep
  <2>4. CASE Become(r, new) /\ loop' = r
    <3>1. TB(row, w) \subseteq {u}
      <4>1. \A v \in Users : v # u => w.current[v] = Same /\ w.status[v] = Same
        BY DEF SetCurrent, NoWrites
      <4>2. \A i \in Rows : w.row[i] = Same
        BY DEF SetCurrent, NoWrites
      <4> QED
        BY <4>1, <4>2 DEF TB
    <3> HIDE DEF w
    <3>2. new.at = "edit" /\ new.user = req[r].user /\ new.done = NoWrites
          /\ new.pending = w /\ new.list = {u}
      BY <1>0, <1>b, <2>1 DEF Request
    <3> HIDE DEF new
    <3>3. Fine(cache', row, new)
      BY <1>b, <2>1, <2>2, <3>1, <3>2, TouchNone DEF Fine, TQ
    <3> QED
      BY <1>b, <2>1, <2>2, <2>4, <3>2, <3>3, RequestAssumption, CalmStep
  <2> QED
    BY <1>3, <2>3, <2>4 DEF EditUser, Holds
<1>4. ASSUME NEW U \in SUBSET Members, DeleteUsers(r, U) PROVE IInv'
  <2> DEFINE new == [req[r] EXCEPT !.at = "drop", !.todo = U]
  <2>1. Starts(r) /\ Become(r, new) /\ loop' = r /\ cache' = cache
    BY <1>4 DEF DeleteUsers, Holds
  <2>2. new.at = "drop" /\ new.user = req[r].user /\ new.done = NoWrites /\ new.pending = NoWrites
    BY <1>0, <1>b, <2>1 DEF Request
  <2> HIDE DEF new
  <2>3. Fine(cache', row, new)
    BY <1>b, <2>1, <2>2, BlankFine
  <2> QED
    BY <1>b, <2>1, <2>2, <2>3, RequestAssumption, CalmStep
<1>5. ASSUME NEW u \in Members, EditMemberships(r, u) PROVE IInv'
  <2> DEFINE extra == SpacesOf(u) \ req[r].wanted
             missing == req[r].wanted \ SpacesOf(u)
  <2>0. PICK I \in SUBSET Unused :
            \E of \in [I -> [user : {u}, space : missing, weight : {0}]] :
                Become(r, [req[r] EXCEPT
                    !.at = IF extra = {} THEN "handled" ELSE "erase",
                    !.wanted = extra,
                    !.pending = Then(@, Insert(of))])
    BY <1>5 DEF EditMemberships
  <2>1. PICK of \in [I -> [user : {u}, space : missing, weight : {0}]] :
            Become(r, [req[r] EXCEPT
                    !.at = IF extra = {} THEN "handled" ELSE "erase",
                    !.wanted = extra,
                    !.pending = Then(@, Insert(of))])
    BY <2>0
  <2> DEFINE w == Then(req[r].pending, Insert(of))
             new == [req[r] EXCEPT !.at = IF extra = {} THEN "handled" ELSE "erase",
                                   !.wanted = extra, !.pending = w]
  <2>2. /\ loop = r /\ req[r].at = "edit" /\ u \in req[r].list /\ UNCHANGED tables
        /\ cache' = cache /\ loop' = IF extra = {} THEN None ELSE r
    BY <1>5 DEF EditMemberships, GoesOn, Frees
  <2>3. TB(row, w) \subseteq TB(row, req[r].pending) \union {u}
    <3>1. Insert(of) \in Writes
      <4>1. I \in SUBSET Rows
        BY DEF Unused
      <4>2. [user : {u}, space : missing, weight : {0}] \subseteq Row
        BY <1>0 DEF Row, Weights, Request
      <4>3. of \in [I -> Row]
        BY <4>2
      <4> QED
        BY <4>1, <4>3, InsertType
    <3>2. TB(row, Insert(of)) \subseteq {u}
      BY TouchInsert
    <3> QED
      BY <1>0, <3>1, <3>2, TouchThen
  <2> HIDE DEF w, extra
  <2>4. /\ new.at = IF extra = {} THEN "handled" ELSE "erase"
        /\ new.user = req[r].user /\ new.done = req[r].done
        /\ new.pending = w /\ new.list = req[r].list
    BY <1>0 DEF Request
  <2>5. Become(r, new)
    BY <2>1 DEF w
  <2> HIDE DEF new
  <2>6. LateIn(cache, u)
    BY <1>0, <2>2 DEF Fine
  <2>7. Fine(cache', row, new)
    BY <1>0, <2>2, <2>3, <2>4, <2>6 DEF Fine, TQ, Due
  <2> QED
    BY <2>2, <2>4, <2>5, <2>7, CalmStep DEF Resting
<1>6. ASSUME NEW u \in Members, Erase(r, u) PROVE IInv'
  <2> DEFINE I == {i \in RowsOf(u) : row[i].space \in req[r].wanted}
             w == Then(req[r].done, Delete(I))
             new == [req[r] EXCEPT !.at = "handled", !.done = w]
  <2>1. /\ loop = r /\ req[r].at = "erase" /\ u \in req[r].list /\ UNCHANGED tables
        /\ cache' = cache /\ loop' = None /\ Become(r, new)
    BY <1>6 DEF Erase, GoesOn, Frees
  <2>2. TB(row, w) \subseteq TB(row, req[r].done) \union {u}
    <3>1. \A i \in I : row[i].user = u
      BY DEF RowsOf
    <3> HIDE DEF I
    <3>2. TB(row, Delete(I)) \subseteq {u}
      BY <3>1, TouchDelete
    <3> QED
      BY <1>0, <3>2, DeleteType, TouchThen
  <2> HIDE DEF w
  <2>3. /\ new.at = "handled" /\ new.user = req[r].user /\ new.done = w
        /\ new.pending = req[r].pending
    BY <1>0 DEF Request
  <2> HIDE DEF new
  <2>4. Fine(cache', row, new)
    BY <1>0, <2>1, <2>2, <2>3 DEF Fine, TQ, Due
  <2> QED
    BY <2>1, <2>3, <2>4, CalmStep DEF Resting
<1>7. ASSUME NEW u \in Members, NEW st \in {"on", "off"}, ChangeStatus(r, u, st) PROVE IInv'
  <2> DEFINE w == [req[r].pending EXCEPT !.status[u] = Changed(status[u], st)]
             new == [req[r] EXCEPT !.at = "handled", !.pending.status[u] = Changed(status[u], st)]
  <2>1. Starts(r) /\ Drop({u}) /\ loop' = loop /\ (Become(r, new) \/ End(r))
    BY <1>7 DEF ChangeStatus
  <2>2. /\ \A v \in Users : cache'[v] \in {cache[v], None}
        /\ LateIn(cache', u)
    BY <1>0, <2>1, DropLate
  <2>3. CASE End(r)
    BY <1>b, <2>1, <2>2, <2>3, EndStep
  <2>4. CASE Become(r, new)
    <3>1. TB(row, w) \subseteq {u}
      <4>1. req[r].pending = NoWrites
        BY <1>b, <2>1
      <4>2. \A v \in Users : v # u => w.current[v] = Same /\ w.status[v] = Same
        BY <4>1 DEF NoWrites
      <4>3. \A i \in Rows : w.row[i] = Same
        BY <4>1 DEF NoWrites
      <4> QED
        BY <4>2, <4>3, <4>1 DEF TB, NoWrites
    <3>2. new.at = "handled" /\ new.user = req[r].user /\ new.done = NoWrites /\ new.pending = w
      BY <1>0, <1>b, <2>1 DEF Request
    <3> HIDE DEF w, new
    <3>3. Fine(cache', row, new)
      BY <1>b, <2>1, <2>2, <3>1, <3>2, TouchNone DEF Fine, TQ
    <3> QED
      BY <1>b, <2>1, <2>2, <2>4, <3>2, <3>3, CalmStep DEF Resting
  <2> QED
    BY <2>1, <2>3, <2>4
<1>8. ASSUME NEW u \in Members, DropMemberships(r, u) PROVE IInv'
  <2> DEFINE w == Delete(RowsOf(u))
             new == [req[r] EXCEPT !.at = "gone", !.list = {u}, !.done = w]
  <2>1. loop = r /\ req[r].at = "drop" /\ Drop({u}) /\ UNCHANGED tables
    BY <1>8 DEF DropMemberships, GoesOn
  <2>2. /\ \A v \in Users : cache'[v] \in {cache[v], None}
        /\ LateIn(cache', u)
    BY <1>0, <2>1, DropLate
  <2>3. CASE End(r)
    BY <2>1, <2>2, <2>3, EndStep
  <2>4. CASE Become(r, new) /\ loop' = loop
    <3>1. TB(row, w) \subseteq {u}
      BY TouchDelete DEF RowsOf
    <3> HIDE DEF w
    <3>2. new.at = "gone" /\ new.user = req[r].user /\ new.done = w /\ new.pending = NoWrites
          /\ new.list = {u} /\ new.user \in Users
      BY <1>0, <2>1 DEF Request, Fine
    <3> HIDE DEF new
    <3>3. Fine(cache', row, new)
      BY <2>1, <2>2, <3>1, <3>2, TouchNone DEF Fine, TQ
    <3> QED
      BY <2>1, <2>2, <2>4, <3>2, <3>3, CalmStep
  <2> QED
    BY <1>8, <2>3, <2>4 DEF DropMemberships
<1>9. ASSUME NEW u \in Members, DropUser(r, u) PROVE IInv'
  <2> DEFINE gone == [NoWrites EXCEPT !.status[u] = "gone"]
             w == Then(req[r].done, gone)
             new == [req[r] EXCEPT !.at = "drop", !.todo = @ \ {u}, !.list = {},
                                   !.done = NoWrites]
  <2>1. /\ loop = r /\ req[r].at = "gone" /\ u \in req[r].list /\ Save(w)
        /\ cache' = cache
        /\ (Become(r, new) /\ loop' = r) \/ Become(r, Idle)
    BY <1>9 DEF DropUser, End
  <2>2. gone \in Writes /\ TB(row, gone) \subseteq {u}
    <3>1. gone \in Writes
      BY NoWritesType DEF NoWrites, Writes, Status
    <3>2. \A v \in Users : gone.current[v] = Same /\ (v # u => gone.status[v] = Same)
      BY DEF NoWrites
    <3>3. \A i \in Rows : gone.row[i] = Same
      BY DEF NoWrites
    <3> QED
      BY <3>1, <3>2, <3>3 DEF TB
  <2> HIDE DEF gone
  <2>3. w \in Writes /\ TB(row, w) \subseteq TB(row, req[r].done) \union {u}
    BY <1>0, <2>2, ThenType, TouchThen
  <2> HIDE DEF w
  <2>4. \A v \in TB(row, w) : LateIn(cache, v)
    BY <1>0, <2>1, <2>3 DEF Fine, TQ, Due
  <2>5. \A q \in Requests \ {r} : loop # q
    BY <2>1
  <2>6. CASE Become(r, Idle)
    <3>1. Idle.at = "idle" /\ Idle.done = NoWrites /\ Idle.pending = NoWrites /\ "idle" \in Resting
      BY DEF Idle, Resting
    <3> QED
      BY <2>1, <2>3, <2>4, <2>5, <2>6, <3>1, IdleFine, SaveStep
  <2>7. CASE Become(r, new) /\ loop' = r
    <3>1. new.at = "drop" /\ new.user = req[r].user /\ new.done = NoWrites
          /\ new.pending = NoWrites /\ new.user \in Users
      BY <1>0, <2>1 DEF Request, Fine
    <3> HIDE DEF new
    <3> QED
      BY <2>1, <2>3, <2>4, <2>5, <2>7, <3>1, BlankFine, SaveStep
  <2> QED
    BY <2>1, <2>6, <2>7
<1> QED
  BY <1>1, <1>2, <1>3, <1>4, <1>5, <1>6, <1>7, <1>8, <1>9 DEF UserHandler

\* The handlers of api/workspace.py for members.
LEMMA KeepMembers ==
    ASSUME IInv, TypeOK', NEW r \in Requests, MemberHandler(r)
    PROVE  IInv'
<1>0. /\ TypeOK /\ Fine(cache, row, req[r])
      /\ req[r] \in Request /\ req[r].done \in Writes /\ req[r].pending \in Writes
      /\ req[r].list \in SUBSET Users /\ req[r].todo \in SUBSET Users
      /\ Members \subseteq Users
      /\ TQ(row, req[r]) \subseteq Users
  BY Here DEF Members
<1>b. ASSUME Starts(r)
      PROVE  /\ loop = None /\ req[r].user \in Users /\ UNCHANGED tables
             /\ req[r].done = NoWrites /\ req[r].pending = NoWrites
  BY <1>0, <1>b DEF Starts, Fine
<1>1. ASSUME NEW U \in SUBSET Members, NEW s \in Spaces, NEW w \in Weights, AddMembers(r, U, s, w)
      PROVE  IInv'
  <2> DEFINE new == [req[r] EXCEPT !.at = "add", !.list = U, !.todo = U, !.space = s, !.weight = w]
  <2>1. Starts(r) /\ Become(r, new) /\ loop' = r /\ cache' = cache
    BY <1>1 DEF AddMembers, Holds
  <2>2. new.at = "add" /\ new.user = req[r].user /\ new.done = NoWrites /\ new.pending = NoWrites
        /\ new.list = U /\ new.todo = U
    BY <1>0, <1>b, <2>1 DEF Request
  <2> HIDE DEF new
  <2>3. Fine(cache', row, new)
    BY <1>b, <2>1, <2>2, TouchNone DEF Fine, TQ
  <2> QED
    BY <1>b, <2>1, <2>2, <2>3, RequestAssumption, CalmStep
<1>2. ASSUME NEW u \in Members, AddOne(r, u) PROVE IInv'
  <2> DEFINE s == req[r].space
             moved == IF Exists(u) /\ current[u] = None THEN SetCurrent(u, s) ELSE NoWrites
             sent == Then(req[r].done, req[r].pending)
  <2>1. /\ loop = r /\ req[r].at = "add" /\ u \in req[r].todo /\ UNCHANGED tables /\ Drop({u})
    BY <1>2 DEF AddOne, GoesOn
  <2>2. /\ \A v \in Users : cache'[v] \in {cache[v], None}
        /\ \A v \in Users : LateIn(cache, v) => LateIn(cache', v)
        /\ LateIn(cache', u)
    BY <1>0, <2>1, DropLate
  <2>3. moved \in Writes /\ TB(row, moved) \subseteq {u}
    <3>1. s \in Spaces \union {None, Same}
      BY <1>0 DEF Request
    <3> QED
      BY <1>0, <3>1, SetCurrentType, NoWritesType, TouchCurrent, TouchNone
  <2>4. TB(row, sent) \subseteq TQ(row, req[r])
    BY <1>0, TouchThen DEF TQ
  <2> HIDE DEF moved, sent
  <2>5. \A v \in TQ(row, req[r]) : LateIn(cache', v)
    BY <1>0, <2>1, <2>2 DEF Fine, Due
  <2>6. \A v \in req[r].list \ req[r].todo : LateIn(cache', v)
    BY <1>0, <2>1, <2>2 DEF Fine
  <2>7. CASE req[r].todo = {u}
    <3>0. PICK I \in SUBSET Unused :
             \E of \in [I -> [user : req[r].list, space : {s}, weight : {req[r].weight}]] :
                Become(r, [req[r] EXCEPT !.at = "handled", !.todo = {}, !.done = sent,
                              !.pending = Then(moved, Insert(of))])
      BY <1>2, <2>7 DEF AddOne, moved, sent
    <3>1. PICK of \in [I -> [user : req[r].list, space : {s}, weight : {req[r].weight}]] :
                Become(r, [req[r] EXCEPT !.at = "handled", !.todo = {}, !.done = sent,
                              !.pending = Then(moved, Insert(of))])
      BY <3>0
    <3> DEFINE out == Then(moved, Insert(of))
               new == [req[r] EXCEPT !.at = "handled", !.todo = {}, !.done = sent, !.pending = out]
    <3>2. TB(row, out) \subseteq {u} \union req[r].list
      <4>1. Insert(of) \in Writes
        <5>1. I \in SUBSET Rows
          BY DEF Unused
        <5>2. [user : req[r].list, space : {s}, weight : {req[r].weight}] \subseteq Row
          BY <1>0 DEF Row, Request
        <5>3. of \in [I -> Row]
          BY <5>2
        <5> QED
          BY <5>1, <5>3, InsertType
      <4>2. TB(row, Insert(of)) \subseteq req[r].list
        BY TouchInsert
      <4> QED
        BY <2>3, <4>1, <4>2, TouchThen
    <3>3. Become(r, new) /\ loop' = None
      BY <1>2, <2>7, <3>1 DEF AddOne, Frees
    <3> HIDE DEF out
    <3>4. new.at = "handled" /\ new.user = req[r].user /\ new.done = sent /\ new.pending = out
      BY <1>0 DEF Request
    <3> HIDE DEF new
    <3>5. Fine(cache', row, new)
      BY <1>0, <2>1, <2>2, <2>4, <2>5, <2>6, <2>7, <3>2, <3>4 DEF Fine, TQ
    <3> QED
      BY <2>1, <2>2, <3>3, <3>4, <3>5, CalmStep DEF Resting
  <2>8. CASE req[r].todo # {u}
    <3> DEFINE new == [req[r] EXCEPT !.todo = @ \ {u}, !.done = sent, !.pending = moved]
    <3>1. Become(r, new) /\ loop' = r
      BY <1>2, <2>1, <2>8 DEF AddOne, moved, sent
    <3>2. new.at = "add" /\ new.user = req[r].user /\ new.done = sent /\ new.pending = moved
          /\ new.list = req[r].list /\ new.todo = req[r].todo \ {u}
      BY <1>0, <2>1 DEF Request
    <3> HIDE DEF new
    <3>3. Fine(cache', row, new)
      BY <1>0, <2>1, <2>2, <2>3, <2>4, <2>5, <2>6, <3>2 DEF Fine, TQ
    <3> QED
      BY <2>1, <2>2, <3>1, <3>2, <3>3, CalmStep
  <2> QED
    BY <2>7, <2>8
<1>3. ASSUME NEW U \in SUBSET Members, NEW s \in Spaces, RemoveMembers(r, U, s) PROVE IInv'
  <2> DEFINE I == {i \in RowsIn(s) : row[i].user \in U}
             w == Delete(I)
             new == [req[r] EXCEPT !.at = "remove", !.list = {}, !.todo = U, !.space = s,
                                   !.pending = w]
  <2>1. Starts(r) /\ cache' = cache
    BY <1>3 DEF RemoveMembers
  <2>2. CASE End(r) /\ loop' = loop
    BY <1>b, <2>1, <2>2, EndStep
  <2>3. CASE Become(r, new) /\ loop' = r
    <3>1. TB(row, w) \subseteq U
      BY TouchDelete
    <3> HIDE DEF I, w
    <3>2. new.at = "remove" /\ new.user = req[r].user /\ new.done = NoWrites /\ new.pending = w
          /\ new.todo = U
      BY <1>0, <1>b, <2>1 DEF Request
    <3> HIDE DEF new
    <3>3. Fine(cache', row, new)
      BY <1>b, <2>1, <3>1, <3>2, TouchNone DEF Fine, TQ, Due
    <3> QED
      BY <1>b, <2>1, <2>3, <3>2, <3>3, RequestAssumption, CalmStep
  <2> QED
    BY <1>3, <2>2, <2>3 DEF RemoveMembers, Holds
<1>4. ASSUME loop = r, UNCHANGED tables, NEW u \in Members, u \in req[r].todo,
             req[r].at \in {"remove", "other"}, NEW new, Turn(r, u, new), new \in Request,
             new.user = req[r].user, new.todo = req[r].todo,
             TQ(row, new) \subseteq TQ(row, req[r]) \union {u}
      PROVE  IInv'
  <2>1. Drop({u})
    BY <1>4 DEF Turn
  <2>2. /\ \A v \in Users : cache'[v] \in {cache[v], None}
        /\ \A v \in Users : LateIn(cache, v) => LateIn(cache', v)
        /\ LateIn(cache', u)
    BY <1>0, <2>1, DropLate
  <2>3. \A v \in TQ(row, new) : LateIn(cache', v) \/ v \in req[r].todo \ {u}
    BY <1>0, <1>4, <2>2 DEF Fine, Due
  <2>4. req[r].user \in Users
    BY <1>0, <1>4 DEF Fine
  <2>5. CASE req[r].todo = {u}
    <3> DEFINE next == [new EXCEPT !.at = "handled", !.todo = {}]
    <3>1. Become(r, next) /\ loop' = None
      BY <1>4, <2>5 DEF Turn, Frees
    <3>2. next.at = "handled" /\ next.user = new.user /\ next.done = new.done
          /\ next.pending = new.pending
      BY <1>4 DEF Request
    <3> HIDE DEF next
    <3>3. Fine(cache', row, next)
      BY <1>4, <2>3, <2>4, <2>5, <3>2 DEF Fine, TQ
    <3> QED
      BY <1>4, <2>2, <3>1, <3>2, <3>3, CalmStep DEF Resting
  <2>6. CASE req[r].todo # {u}
    <3> DEFINE next == [new EXCEPT !.at = "remove", !.todo = @ \ {u}]
    <3>1. Become(r, next) /\ loop' = r
      BY <1>4, <2>6 DEF Turn
    <3>2. next.at = "remove" /\ next.user = new.user /\ next.done = new.done
          /\ next.pending = new.pending /\ next.todo = req[r].todo \ {u}
      BY <1>4 DEF Request
    <3> HIDE DEF next
    <3>3. Fine(cache', row, next)
      BY <1>4, <2>3, <2>4, <3>2 DEF Fine, TQ, Due
    <3> QED
      BY <1>4, <2>2, <3>1, <3>2, <3>3, CalmStep
  <2> QED
    BY <2>5, <2>6
<1>5. ASSUME NEW u \in Members, RemoveOne(r, u) PROVE IInv'
  <2> DEFINE sent == Then(req[r].done, req[r].pending)
             flushed == [req[r] EXCEPT !.done = sent, !.pending = NoWrites]
  <2>1. loop = r /\ req[r].at = "remove" /\ u \in req[r].todo /\ UNCHANGED tables
    BY <1>5 DEF RemoveOne, GoesOn
  <2>2. sent \in Writes /\ TB(row, sent) \subseteq TQ(row, req[r])
    BY <1>0, ThenType, TouchThen DEF TQ
  <2> HIDE DEF sent
  <2>3. CASE Turn(r, u, flushed)
    <3>1. flushed \in Request /\ flushed.user = req[r].user /\ flushed.todo = req[r].todo
          /\ flushed.done = sent /\ flushed.pending = NoWrites
      BY <1>0, <2>2, NoWritesType DEF Request
    <3> HIDE DEF flushed
    <3>2. TQ(row, flushed) \subseteq TQ(row, req[r])
      BY <2>2, <3>1, TouchNone DEF TQ
    <3> QED
      BY <1>4, <2>1, <2>3, <3>1, <3>2
  <2>4. CASE ~Turn(r, u, flushed)
    <3> DEFINE w == SetCurrent(u, None)
               new == [flushed EXCEPT !.at = "other", !.list = {u}, !.pending = w]
    <3>1. Become(r, new) /\ cache' = cache /\ loop' = loop
      BY <1>5, <2>4 DEF RemoveOne, sent
    <3>2. TB(row, w) \subseteq {u}
      BY TouchCurrent
    <3> HIDE DEF w
    <3>3. new.at = "other" /\ new.user = req[r].user /\ new.done = sent /\ new.pending = w
          /\ new.list = {u} /\ new.todo = req[r].todo
      BY <1>0 DEF Request
    <3> HIDE DEF new
    <3>4. Fine(cache', row, new)
      BY <1>0, <2>1, <2>2, <3>1, <3>2, <3>3 DEF Fine, TQ, Due
    <3> QED
      BY <2>1, <3>1, <3>3, <3>4, CalmStep
  <2> QED
    BY <2>3, <2>4
<1>6. ASSUME NEW u \in Members, OtherSpace(r, u) PROVE IInv'
  <2> DEFINE sent == Then(req[r].done, req[r].pending)
             others == SpacesOf(u) \ {req[r].space}
  <2>1. loop = r /\ req[r].at = "other" /\ u \in req[r].list /\ UNCHANGED tables
    BY <1>6 DEF OtherSpace, GoesOn
  <2>2. u \in req[r].todo
    BY <1>0, <2>1 DEF Fine
  <2>3. sent \in Writes /\ TB(row, sent) \subseteq TQ(row, req[r])
    BY <1>0, ThenType, TouchThen DEF TQ
  <2>4. PICK s \in IF others = {} THEN {Same} ELSE others :
            Turn(r, u, [req[r] EXCEPT !.done = sent, !.pending = SetCurrent(u, s)])
    BY <1>6 DEF OtherSpace
  <2>5. s \in Spaces \union {None, Same}
    BY <1>0, ReadTypes
  <2> HIDE DEF sent
  <2> DEFINE w == SetCurrent(u, s)
             new == [req[r] EXCEPT !.done = sent, !.pending = w]
  <2>6. w \in Writes /\ TB(row, w) \subseteq {u}
    BY <1>0, <2>5, SetCurrentType, TouchCurrent
  <2>7. Turn(r, u, new)
    BY <2>4
  <2> HIDE DEF w
  <2>8. new \in Request /\ new.user = req[r].user /\ new.todo = req[r].todo
        /\ new.done = sent /\ new.pending = w
    BY <1>0, <2>3, <2>6 DEF Request
  <2> HIDE DEF new
  <2>9. TQ(row, new) \subseteq TQ(row, req[r]) \union {u}
    BY <2>3, <2>6, <2>8 DEF TQ
  <2> QED
    BY <1>4, <2>1, <2>2, <2>7, <2>8, <2>9
<1>7. ASSUME NEW u \in Members, NEW s \in Spaces, NEW x \in Weights, EditMember(r, u, s, x)
      PROVE  IInv'
  <2>1. Starts(r) /\ loop' = loop
    BY <1>7 DEF EditMember
  <2>2. CASE End(r) /\ cache' = cache
    BY <1>b, <2>1, <2>2, EndStep
  <2>3. CASE ~(End(r) /\ cache' = cache)
    <3>1. PICK i \in RowsOf(u) \intersect RowsIn(s) :
              /\ Become(r, [req[r] EXCEPT !.at = "handled", !.edited = i,
                                 !.pending.row[i] = [row[i] EXCEPT !.weight = x]])
              /\ Drop({u})
      BY <1>7, <2>3 DEF EditMember
    <3> DEFINE m == [row[i] EXCEPT !.weight = x]
               w == [req[r].pending EXCEPT !.row[i] = m]
               new == [req[r] EXCEPT !.at = "handled", !.edited = i, !.pending.row[i] = m]
    <3>2. i \in Rows /\ row[i] # None /\ row[i].user = u /\ m.user = u
      BY <1>0, ReadTypes DEF RowsOf, Row
    <3>3. Become(r, new)
      BY <3>1
    <3> HIDE DEF m
    <3>4. TB(row, w) \subseteq {u}
      <4>1. req[r].pending = NoWrites
        BY <1>b, <2>1
      <4>2. \A v \in Users : w.current[v] = Same /\ w.status[v] = Same
        BY <4>1 DEF NoWrites
      <4>3. \A j \in Rows : w.row[j] = IF j = i THEN m ELSE Same
        BY <3>2, <4>1 DEF NoWrites
      <4> QED
        BY <3>2, <4>2, <4>3 DEF TB
    <3>5. new.at = "handled" /\ new.user = req[r].user /\ new.done = NoWrites /\ new.pending = w
      BY <1>0, <1>b, <2>1 DEF Request
    <3> HIDE DEF w, new
    <3>6. /\ \A v \in Users : cache'[v] \in {cache[v], None}
          /\ LateIn(cache', u)
      BY <1>0, <3>1, DropLate
    <3>7. Fine(cache', row, new)
      BY <1>b, <2>1, <3>4, <3>5, <3>6, TouchNone DEF Fine, TQ
    <3> QED
      BY <1>b, <2>1, <3>3, <3>5, <3>6, <3>7, CalmStep DEF Resting
  <2> QED
    BY <2>2, <2>3
<1> QED
  BY <1>1, <1>2, <1>3, <1>5, <1>6, <1>7, KeepRest DEF MemberHandler

\* The deletion of a workspace.
LEMMA KeepSpace ==
    ASSUME IInv, TypeOK', NEW r \in Requests, SpaceHandler(r)
    PROVE  IInv'
<1>0. /\ TypeOK /\ Fine(cache, row, req[r])
      /\ req[r] \in Request /\ req[r].done \in Writes /\ req[r].pending \in Writes
      /\ TQ(row, req[r]) \subseteq Users
      /\ \A s : MembersIn(row, s) \subseteq Users
  BY Here
<1>a. \A s : MembersOf(s) = MembersIn(row, s)
  BY DEF MembersOf, RowsIn, MembersIn
<1>1. ASSUME NEW s \in Spaces, DeleteSpace(r, s) PROVE IInv'
  <2> DEFINE at == IF req[r].info.current = s THEN "own" ELSE "members"
             new == [req[r] EXCEPT !.space = s, !.at = at]
  <2>1. /\ loop = None /\ req[r].user \in Users /\ UNCHANGED tables /\ cache' = cache
        /\ req[r].done = NoWrites /\ req[r].pending = NoWrites
    BY <1>0, <1>1 DEF DeleteSpace, Starts, Fine
  <2>2. CASE End(r) /\ loop' = loop
    BY <2>1, <2>2, EndStep
  <2>3. CASE Become(r, new) /\ loop' = r
    <3>1. new.at \in {"own", "members"} /\ new.user = req[r].user /\ new.done = NoWrites
          /\ new.pending = NoWrites
      BY <1>0, <2>1 DEF Request
    <3> HIDE DEF new
    <3>2. Fine(cache', row, new)
      BY <2>1, <3>1, BlankFine
    <3> QED
      BY <2>1, <2>3, <3>1, <3>2, RequestAssumption, CalmStep
  <2> QED
    BY <1>1, <2>2, <2>3 DEF DeleteSpace, Holds
<1>2. CASE OwnSpace(r)
  <2> DEFINE w == SetCurrent(Admin, Home)
             new == [req[r] EXCEPT !.at = "members", !.done = w]
  <2>1. /\ loop = r /\ req[r].at = "own" /\ UNCHANGED tables /\ Drop({Admin}) /\ Become(r, new)
        /\ loop' = loop
    BY <1>2 DEF OwnSpace, GoesOn
  <2>2. /\ \A v \in Users : cache'[v] \in {cache[v], None}
        /\ LateIn(cache', Admin)
    BY <2>1, UserAssumption, DropLate
  <2>3. TB(row, w) \subseteq {Admin}
    BY TouchCurrent
  <2> HIDE DEF w
  <2>4. new.at = "members" /\ new.user = req[r].user /\ new.user \in Users /\ new.done = w
        /\ new.pending = NoWrites
    BY <1>0, <2>1 DEF Request, Fine
  <2> HIDE DEF new
  <2>5. Fine(cache', row, new)
    BY <2>2, <2>3, <2>4, TouchNone DEF Fine, TQ
  <2> QED
    BY <2>1, <2>2, <2>4, <2>5, CalmStep
<1>3. CASE DropRecords(r)
  <2> DEFINE M == MembersOf(req[r].space)
             w == [req[r].pending EXCEPT !.closed = {req[r].space}]
             handled == [req[r] EXCEPT !.at = "handled", !.pending.closed = {req[r].space}]
             plan == [req[r] EXCEPT !.at = "plan"]
  <2>1. /\ loop = r /\ req[r].at = "members" /\ UNCHANGED tables /\ Drop(M)
        /\ (Become(r, handled) /\ loop' = None) \/ (Become(r, plan) /\ loop' = loop)
    BY <1>3 DEF DropRecords, GoesOn, Frees
  <2>2. /\ \A v \in Users : cache'[v] \in {cache[v], None}
        /\ \A v \in Users : LateIn(cache, v) => LateIn(cache', v)
        /\ \A v \in M : LateIn(cache', v)
    BY <1>0, <1>a, <2>1, DropLate
  <2>3. /\ \A v \in TQ(row, req[r]) : LateIn(cache', v)
        /\ req[r].user \in Users
    BY <1>0, <2>1, <2>2 DEF Fine, Due
  <2>4. CASE Become(r, handled) /\ loop' = None
    <3>1. TB(row, w) = TB(row, req[r].pending)
      BY <1>0 DEF TB, Writes
    <3>2. handled.at = "handled" /\ handled.user = req[r].user /\ handled.done = req[r].done
          /\ handled.pending = w
      BY <1>0 DEF Request
    <3> HIDE DEF w, handled
    <3>3. Fine(cache', row, handled)
      BY <2>3, <3>1, <3>2 DEF Fine, TQ
    <3> QED
      BY <2>1, <2>2, <2>4, <3>2, <3>3, CalmStep DEF Resting
  <2>5. CASE Become(r, plan) /\ loop' = loop
    <3>1. plan.at = "plan" /\ plan.user = req[r].user /\ plan.done = req[r].done
          /\ plan.pending = req[r].pending /\ plan.space = req[r].space
      BY <1>0 DEF Request
    <3> HIDE DEF plan
    <3>2. Fine(cache', row, plan)
      BY <1>a, <2>2, <2>3, <3>1 DEF Fine, TQ
    <3> QED
      BY <2>1, <2>2, <2>5, <3>1, <3>2, CalmStep
  <2> QED
    BY <2>1, <2>4, <2>5
<1>4. CASE PlanMoves(r)
  <2>1. PICK plan \in [Users -> Spaces \union {None, Same}], x \in LastRead(req[r].space) :
            /\ \A u \in Users : plan[u] \in Moves(u, req[r].space, x)
            /\ Become(r, [req[r] EXCEPT !.at = "reset", !.plan = plan])
    BY <1>4 DEF PlanMoves
  <2> DEFINE new == [req[r] EXCEPT !.at = "reset", !.plan = plan]
  <2>2. loop = r /\ req[r].at = "plan" /\ UNCHANGED tables /\ cache' = cache /\ loop' = loop
    BY <1>4 DEF PlanMoves, GoesOn
  <2>3. \A u \in Users : plan[u] # Same => u \in MembersIn(row, req[r].space)
    BY <1>a, <2>1 DEF Moves
  <2>4. new.at = "reset" /\ new.user = req[r].user /\ new.done = req[r].done
        /\ new.pending = req[r].pending /\ new.space = req[r].space /\ new.plan = plan
    BY <1>0 DEF Request
  <2>5. Become(r, new)
    BY <2>1
  <2> HIDE DEF new
  <2>6. Fine(cache', row, new)
    BY <1>0, <2>2, <2>3, <2>4 DEF Fine, TQ, Due
  <2> QED
    BY <2>2, <2>4, <2>5, <2>6, CalmStep
<1>5. ASSUME NEW u \in Users, MoveOne(r, u) PROVE IInv'
  <2> DEFINE v == SetCurrent(u, req[r].plan[u])
             w == Then(req[r].done, v)
             new == [req[r] EXCEPT !.plan[u] = Same, !.done = w]
  <2>1. /\ loop = r /\ req[r].at = "reset" /\ req[r].plan[u] # Same /\ UNCHANGED tables
        /\ cache' = cache /\ loop' = loop /\ Become(r, new)
    BY <1>5 DEF MoveOne, GoesOn
  <2>2. req[r].plan \in [Users -> Spaces \union {None, Same}]
    BY <1>0 DEF Request
  <2>3. v \in Writes /\ TB(row, v) \subseteq {u}
    BY <2>2, SetCurrentType, TouchCurrent
  <2> HIDE DEF v
  <2>4. TB(row, w) \subseteq TB(row, req[r].done) \union {u}
    BY <1>0, <2>3, TouchThen
  <2> HIDE DEF w
  <2>5. new.at = "reset" /\ new.user = req[r].user /\ new.done = w
        /\ new.pending = req[r].pending /\ new.space = req[r].space
        /\ \A x \in Users : new.plan[x] # Same => req[r].plan[x] # Same
    BY <1>0, <2>1, <2>2 DEF Request
  <2> HIDE DEF new
  <2>6. Fine(cache', row, new)
    BY <1>0, <2>1, <2>4, <2>5 DEF Fine, TQ, Due
  <2> QED
    BY <2>1, <2>5, <2>6, CalmStep
<1>6. CASE CutMemberships(r)
  <2> DEFINE I == RowsIn(req[r].space)
             w == Then(req[r].done, Delete(I))
             out == [req[r].pending EXCEPT !.closed = {req[r].space}]
             new == [req[r] EXCEPT !.at = "handled", !.done = w,
                                   !.pending.closed = {req[r].space}]
  <2>1. /\ loop = r /\ req[r].at = "reset" /\ UNCHANGED tables
        /\ cache' = cache /\ loop' = None /\ Become(r, new)
    BY <1>6 DEF CutMemberships, GoesOn, Frees
  <2>2. TB(row, Delete(I)) \subseteq MembersIn(row, req[r].space)
    BY TouchDelete DEF RowsIn, MembersIn
  <2> HIDE DEF I
  <2>3. TB(row, w) \subseteq TB(row, req[r].done) \union MembersIn(row, req[r].space)
    BY <1>0, <2>2, DeleteType, TouchThen
  <2>4. TB(row, out) = TB(row, req[r].pending)
    BY <1>0 DEF TB, Writes
  <2> HIDE DEF w
  <2>5. new.at = "handled" /\ new.user = req[r].user /\ new.done = w /\ new.pending = out
    BY <1>0 DEF Request
  <2> HIDE DEF new, out
  <2>6. Fine(cache', row, new)
    BY <1>0, <2>1, <2>3, <2>4, <2>5 DEF Fine, TQ, Due
  <2> QED
    BY <2>1, <2>5, <2>6, CalmStep DEF Resting
<1> QED
  BY <1>1, <1>2, <1>3, <1>4, <1>5, <1>6 DEF SpaceHandler

\* The commit.
LEMMA KeepCommit ==
    ASSUME IInv, TypeOK', NEW r \in Requests, Commit(r)
    PROVE  IInv'
<1> DEFINE w == Then(req[r].done, req[r].pending)
<1>1. /\ req[r].at = "committing" /\ End(r) /\ cache' = cache /\ loop' = loop
      /\ Save(w) \/ UNCHANGED tables
  BY DEF Commit
<1>2. w \in Writes /\ TB(row, w) \subseteq TQ(row, req[r])
  BY Here, ThenType, TouchThen DEF TQ
<1> HIDE DEF w
<1>3. CASE UNCHANGED tables
  BY <1>1, <1>3, EndStep
<1>4. CASE Save(w)
  <2>1. \A v \in TB(row, w) : LateIn(cache, v)
    BY <1>1, <1>2, Here DEF Fine, Due
  <2>2. Idle.at = "idle" /\ Idle.done = NoWrites /\ Idle.pending = NoWrites /\ "idle" \in Resting
    BY DEF Idle, Resting
  <2>3. \A rw : Fine(cache, rw, Idle)
    BY IdleFine
  <2>4. Become(r, Idle)
    BY <1>1 DEF End
  <2> QED
    BY <1>1, <1>2, <1>4, <2>1, <2>2, <2>3, <2>4, SaveStep
<1> QED
  BY <1>1, <1>3, <1>4

LEMMA KeepInit == Init => IInv
<1> SUFFICES ASSUME Init PROVE IInv
  OBVIOUS
<1>1. TypeOK
  BY TypeInit
<1>2. \A r \in Requests : req[r] = Idle
  BY DEF Init
<1>3. Idle.at = "idle"
  BY DEF Idle
<1>4. LoopFine /\ \A r \in Requests : FillFine(r)
  BY <1>2, <1>3 DEF LoopFine, Resting, FillFine
<1>5. RequestsFine
  BY <1>2, IdleFine DEF RequestsFine
<1>6. StaleIsExplained
  BY DEF Init, StaleIsExplained
<1> QED
  BY <1>1, <1>4, <1>5, <1>6 DEF IInv

LEMMA KeepNext == IInv /\ [Next]_vars => IInv'
<1> SUFFICES ASSUME IInv, [Next]_vars PROVE IInv'
  OBVIOUS
<1>0. TypeOK /\ TypeOK'
  BY TypeNext DEF IInv
<1>1. ASSUME UNCHANGED <<current, status, row, req, loop>>,
             \A u \in Users : cache'[u] \in {cache[u], None}
      PROVE  IInv'
  <2>1. /\ LoopFine' /\ \A r \in Requests : FillFine(r)'
    BY <1>1 DEF IInv, LoopFine, FillFine, Base, Exists
  <2>2. RequestsFine'
    <3>1. \A u \in Users : LateIn(cache, u) => LateIn(cache', u)
      BY <1>1 DEF LateIn
    <3>2. ASSUME NEW r \in Requests PROVE Fine(cache', row', req'[r])
      BY <1>1, <3>1, Here, FineDrop
    <3> QED
      BY <3>2 DEF RequestsFine
  <2>3. \A u \in Users : Infos(u)' = Infos(u)
    BY <1>1 DEF Infos, Exists, WeightOf, RowsOf, RowsIn
  <2>4. StaleIsExplained'
    BY <1>1, <2>3 DEF IInv, StaleIsExplained
  <2> QED
    BY <1>0, <2>1, <2>2, <2>4 DEF IInv
<1>2. ASSUME NEW u \in Users, Expire(u) PROVE IInv'
  BY <1>1, <1>2, DropLate DEF Expire, tables
<1>3. CASE Restart
  <2>1. \A r \in Requests : req'[r] = Idle
    BY <1>3 DEF Restart
  <2>2. Idle.at = "idle"
    BY DEF Idle
  <2>3. LoopFine' /\ \A r \in Requests : FillFine(r)'
    BY <2>1, <2>2 DEF LoopFine, Resting, FillFine
  <2>4. RequestsFine'
    BY <2>1, IdleFine DEF RequestsFine
  <2>5. StaleIsExplained'
    BY <1>3 DEF Restart, StaleIsExplained
  <2> QED
    BY <1>0, <2>3, <2>4, <2>5 DEF IInv
<1>4. CASE UNCHANGED vars
  BY <1>1, <1>4 DEF vars
<1> QED
  BY <1>0, <1>2, <1>3, <1>4, KeepRest, KeepFill, KeepUser, KeepMembers, KeepSpace, KeepCommit
     DEF Next, Authenticate, Handle, Finish

\* A cached record that is out of date was read while a request that changes
\* its user was between its handler and its commit, whatever the users, the
\* workspaces and the requests (clear_cache of sqlbot_cache.py).
THEOREM RecordsExplained == Spec => []StaleIsExplained
<1>1. IInv => StaleIsExplained
  BY DEF IInv
<1> QED
  BY <1>1, KeepInit, KeepNext, PTL DEF Spec

-------------------------------------------------------------------------------
(* Where users work, one request at a time                                 *)

\* No two requests are under way at once.
Alone == \A p, q \in Requests : p = q

\* What the tables will say once w is committed: the current workspace of u,
\* whether u is still a user, and the membership i.
CurrentAfter(w, u) == IF w.current[u] = Same THEN current[u] ELSE w.current[u]
ThereAfter(w, u) == (IF w.status[u] = Same THEN status[u] ELSE w.status[u]) # "gone"
RowAfter(w, i) == IF w.row[i] = Same THEN row[i] ELSE w.row[i]

\* They will say that everybody works where they should.
Fits(w) ==
    /\ Home \notin w.closed
    /\ CurrentAfter(w, Admin) \in spaces \ w.closed
    /\ \A u \in Members :
        ThereAfter(w, u) /\ CurrentAfter(w, u) \in spaces \ w.closed =>
            \E i \in Rows : /\ RowAfter(w, i) # None
                            /\ RowAfter(w, i).user = u
                            /\ RowAfter(w, i).space = CurrentAfter(w, u)

\* Writes of no status and of no deleted workspace.
Still(w) == (\A u \in Users : w.status[u] = Same) /\ w.closed = {}
SameRows(w) == \A i \in Rows : w.row[i] = Same

\* What has been written half-way through a handler, by its stage: in an edit,
\* nobody but the edited user is written, who will work in one of the wanted
\* workspaces;
EditReady(q) ==
    /\ q.done = NoWrites /\ SameRows(q.pending) /\ q.pending.closed = {}
    /\ \E u \in Members :
        /\ q.list = {u} /\ Exists(u) /\ q.pending.status[u] # "gone"
        /\ \A v \in Users \ {u} : q.pending.current[v] = Same /\ q.pending.status[v] = Same
        /\ CurrentAfter(q.pending, u) \in q.wanted \union {None}

\* only the memberships that are not wanted are still to go;
Unwanted(q, u) == {i \in RowsOf(u) : row[i].space \in q.wanted}
EraseReady(q) ==
    /\ q.done = NoWrites
    /\ \A u \in q.list : Fits(Then(Delete(Unwanted(q, u)), q.pending))

\* a user who is being deleted has no memberships left;
GoneReady(q) == q.pending = NoWrites /\ \A u \in q.list : q.done = Delete(RowsOf(u))

\* those who have been moved are to become members of where they work now;
Adding(w, todo, list, s) ==
    /\ Still(w) /\ SameRows(w) /\ todo \subseteq list
    /\ \A u \in Users : w.current[u] # Same => u \in list /\ w.current[u] = s

\* whoever loses the membership of the current workspace is moved elsewhere, or
\* is still to be visited;
Removing(w, todo, s) ==
    /\ Still(w) /\ w.current[Admin] = Same
    /\ \A u \in Members : w.current[u] \in {Same, None} \union (SpacesOf(u) \ {s})
    /\ \A i \in Rows : w.row[i] # Same =>
        /\ w.row[i] = None /\ row[i] # None /\ row[i].space = s
        /\ \/ row[i].user \in todo \/ ~Exists(row[i].user)
           \/ w.current[row[i].user] # Same \/ current[row[i].user] # s

\* the administrator has left a workspace that is to be deleted, and members
\* have moved to nowhere or to where they belong.
Closing(w, s) ==
    /\ s # Home /\ Still(w) /\ SameRows(w)
    /\ CurrentAfter(w, Admin) \in spaces \ {s}
    /\ \A u \in Members : w.current[u] \in {Same, None} \union SpacesOf(u)

Ready(q) ==
    /\ q.at = "fill" => ~q.raced
    /\ q.at = "in" => q.info.current = current[q.user]
    /\ q.at = "option" => q.space \in Options(q.user)
    /\ q.at = "edit" => EditReady(q)
    /\ q.at = "erase" => EraseReady(q)
    /\ q.at = "gone" => GoneReady(q)
    /\ q.at = "add" => Adding(Then(q.done, q.pending), q.todo, q.list, q.space)
    /\ q.at \in {"remove", "other"} => Removing(Then(q.done, q.pending), q.todo, q.space)
    /\ q.at = "other" => \A u \in q.list : q.pending.current[u] # Same
    /\ q.at = "own" => q.space # Home
    /\ q.at \in {"members", "plan", "reset"} => q.pending = NoWrites /\ Closing(q.done, q.space)
    /\ q.at = "reset" => /\ q.plan[Admin] = Same
                         /\ \A u \in Members : q.plan[u] \in {Same, None} \union SpacesOf(u)
    /\ q.at \in {"handled", "committing"} => Fits(Then(q.done, q.pending))

\* Records are never read in the middle of a change.
Unraced == \A u \in Users : cache[u] # None => ~cache[u].raced

Settled == WorksWhereMember /\ Home \in spaces /\ Unraced
AInv == Settled /\ \A r \in Requests : Ready(req[r])

-------------------------------------------------------------------------------
\* The fields of writes.
LEMMA ThenIs ==
    ASSUME NEW w \in Writes, NEW v \in Writes
    PROVE  /\ \A u \in Users :
                /\ Then(w, v).current[u] = IF v.current[u] = Same THEN w.current[u] ELSE v.current[u]
                /\ Then(w, v).status[u] = IF v.status[u] = Same THEN w.status[u] ELSE v.status[u]
           /\ \A i \in Rows : Then(w, v).row[i] = IF v.row[i] = Same THEN w.row[i] ELSE v.row[i]
           /\ Then(w, v).closed = w.closed \union v.closed
  BY WritesParts DEF Then, Upon

LEMMA NoWritesAre ==
    /\ \A u \in Users : NoWrites.current[u] = Same /\ NoWrites.status[u] = Same
    /\ \A i \in Rows : NoWrites.row[i] = Same
    /\ NoWrites.closed = {}
  BY DEF NoWrites

LEMMA SetCurrentIs ==
    ASSUME NEW u \in Users, NEW s
    PROVE  /\ \A v \in Users : /\ SetCurrent(u, s).current[v] = IF v = u THEN s ELSE Same
                               /\ SetCurrent(u, s).status[v] = Same
           /\ \A i \in Rows : SetCurrent(u, s).row[i] = Same
           /\ SetCurrent(u, s).closed = {}
  BY DEF SetCurrent, NoWrites

LEMMA DeleteIs ==
    ASSUME NEW I
    PROVE  /\ \A v \in Users : Delete(I).current[v] = Same /\ Delete(I).status[v] = Same
           /\ \A i \in Rows : Delete(I).row[i] = IF i \in I THEN None ELSE Same
           /\ Delete(I).closed = {}
  BY DEF Delete, NoWrites

LEMMA InsertIs ==
    ASSUME NEW of
    PROVE  /\ \A v \in Users : Insert(of).current[v] = Same /\ Insert(of).status[v] = Same
           /\ \A i \in Rows : Insert(of).row[i] = IF i \in DOMAIN of THEN of[i] ELSE Same
           /\ Insert(of).closed = {}
  BY DEF Insert, NoWrites

LEMMA ThenNone ==
    ASSUME NEW w \in Writes
    PROVE  Then(NoWrites, w) = w /\ Then(w, NoWrites) = w
<1>1. Upon(NoWrites.current, w.current) = w.current /\ Upon(w.current, NoWrites.current) = w.current
  BY WritesParts DEF Upon, NoWrites
<1>2. Upon(NoWrites.status, w.status) = w.status /\ Upon(w.status, NoWrites.status) = w.status
  BY WritesParts DEF Upon, NoWrites
<1>3. Upon(NoWrites.row, w.row) = w.row /\ Upon(w.row, NoWrites.row) = w.row
  BY WritesParts DEF Upon, NoWrites
<1>4. NoWrites.closed = {}
  BY NoWritesAre
<1>5. w = [current |-> w.current, status |-> w.status, row |-> w.row, closed |-> w.closed]
  BY DEF Writes
<1> QED
  BY <1>1, <1>2, <1>3, <1>4, <1>5 DEF Then

\* Whoever is a member has a row for it.
LEMMA SpacesAre ==
    \A u, s : s \in SpacesOf(u) <=> \E i \in Rows : row[i] # None /\ row[i].user = u /\ row[i].space = s
  BY DEF SpacesOf, RowsOf

\* Writes that fit are writes after which everybody works where they should.
LEMMA SaveFits ==
    ASSUME TypeOK, NEW w \in Writes, Fits(w), Save(w), Home \in spaces
    PROVE  WorksWhereMember' /\ (Home \in spaces)'
<1>1. \A u \in Users : current'[u] = CurrentAfter(w, u) /\ (status'[u] # "gone" <=> ThereAfter(w, u))
  BY DEF Save, Upon, TypeOK, CurrentAfter, ThereAfter
<1>2. \A i \in Rows : row'[i] = RowAfter(w, i)
  BY DEF Save, Upon, TypeOK, RowAfter
<1>3. spaces' = spaces \ w.closed
  BY DEF Save
<1>4. Members \subseteq Users /\ Admin \in Users
  BY UserAssumption DEF Members
<1>5. current'[Admin] \in spaces'
  BY <1>1, <1>3, <1>4 DEF Fits
<1>6. ASSUME NEW u \in Members, status'[u] # "gone", current'[u] \in spaces'
      PROVE  current'[u] \in SpacesOf(u)'
  <2>1. PICK i \in Rows : row'[i] # None /\ row'[i].user = u /\ row'[i].space = current'[u]
    BY <1>1, <1>2, <1>3, <1>4, <1>6 DEF Fits
  <2> QED
    BY <2>1 DEF SpacesOf, RowsOf
<1> QED
  BY <1>3, <1>5, <1>6 DEF WorksWhereMember, Exists, Fits

\* Nothing that a request is ready for changes with the other requests.
LEMMA ReadySame ==
    ASSUME UNCHANGED tables, NEW q, Ready(q)
    PROVE  Ready(q)'
<1>1. current' = current /\ status' = status /\ row' = row /\ spaces' = spaces
  BY DEF tables
<1>2. \A u : RowsOf(u)' = RowsOf(u) /\ SpacesOf(u)' = SpacesOf(u) /\ Exists(u)' = Exists(u)
             /\ Options(u)' = Options(u)
  BY <1>1 DEF RowsOf, SpacesOf, Exists, Options
<1>3. \A w, u : CurrentAfter(w, u)' = CurrentAfter(w, u) /\ ThereAfter(w, u)' = ThereAfter(w, u)
                /\ RowAfter(w, u)' = RowAfter(w, u)
  BY <1>1 DEF CurrentAfter, ThereAfter, RowAfter
<1>4. \A w : Fits(w)' = Fits(w)
  BY <1>1, <1>3 DEF Fits
<1>5. EditReady(q)' = EditReady(q) /\ EraseReady(q)' = EraseReady(q) /\ GoneReady(q)' = GoneReady(q)
  BY <1>1, <1>2, <1>3, <1>4 DEF EditReady, EraseReady, GoneReady, Unwanted
<1>6. \A w, s, U : Removing(w, U, s)' = Removing(w, U, s) /\ Closing(w, s)' = Closing(w, s)
  BY <1>1, <1>2, <1>3 DEF Removing, Closing
<1> QED
  BY <1>1, <1>2, <1>4, <1>5, <1>6 DEF Ready, Adding

LEMMA ReadyIdle == Ready(Idle) /\ Ready(Idle)'
  BY DEF Ready, Idle

\* A step that leaves the tables alone keeps the invariant, if the request is
\* ready for the next one.
LEMMA CalmReady ==
    ASSUME IInv, Alone, AInv, NEW r \in Requests, NEW new, Become(r, new),
           UNCHANGED tables, Ready(new), Unraced'
    PROVE  AInv'
<1>1. req' = [req EXCEPT ![r] = new] /\ req \in [Requests -> Request]
  BY DEF Become, IInv, TypeOK
<1>2. \A q \in Requests : req'[q] = new
  BY <1>1 DEF Alone
<1>3. Ready(new)'
  BY ReadySame
<1>4. ASSUME NEW q \in Requests PROVE Ready(req[q])'
  BY <1>2, <1>3 DEF Ready, EditReady, EraseReady, GoneReady
<1>5. WorksWhereMember' /\ (Home \in spaces)'
  BY DEF AInv, Settled, WorksWhereMember, tables, Exists, SpacesOf, RowsOf
<1> QED
  BY <1>4, <1>5 DEF AInv, Settled

\* Dropping records marks none.
LEMMA DropUnraced ==
    ASSUME Unraced, \A u \in Users : cache'[u] \in {cache[u], None}
    PROVE  Unraced'
  BY DEF Unraced

\* A request ends and nothing is saved.
LEMMA EndReady ==
    ASSUME IInv, Alone, AInv, NEW r \in Requests, End(r), UNCHANGED tables,
           \A u \in Users : cache'[u] \in {cache[u], None}
    PROVE  AInv'
<1>1. Unraced'
  BY DropUnraced DEF AInv, Settled
<1> QED
  BY <1>1, ReadyIdle, CalmReady DEF End

\* A transaction that fits is saved.
LEMMA SaveReady ==
    ASSUME IInv, Alone, AInv, NEW r \in Requests, NEW new, Become(r, new),
           NEW w \in Writes, Fits(w), Save(w), UNCHANGED cache,
           new.at \in {"idle", "drop"}
    PROVE  AInv'
<1>1. req' = [req EXCEPT ![r] = new] /\ req \in [Requests -> Request] /\ TypeOK
  BY DEF Become, IInv, TypeOK
<1>2. \A q \in Requests : req'[q] = new
  BY <1>1 DEF Alone
<1>4. ASSUME NEW q \in Requests PROVE Ready(req[q])'
  BY <1>2 DEF Ready
<1>5. WorksWhereMember' /\ (Home \in spaces)'
  BY <1>1, SaveFits DEF AInv, Settled
<1> QED
  BY <1>4, <1>5 DEF AInv, Settled, Unraced

\* What the invariant says of one request.
LEMMA ReadyHere ==
    ASSUME IInv, AInv, NEW r \in Requests
    PROVE  /\ TypeOK /\ WorksWhereMember /\ Home \in spaces /\ Unraced /\ Ready(req[r])
           /\ req[r] \in Request /\ req[r].done \in Writes /\ req[r].pending \in Writes
           /\ req[r].list \in SUBSET Members /\ req[r].todo \in SUBSET Members
           /\ req[r].space \in Spaces /\ req[r].wanted \in SUBSET Spaces
           /\ req[r].at # "idle" => req[r].user \in Users
           /\ req[r].at \in {"idle", "fill", "in", "option", "drop", "own"} =>
                  req[r].done = NoWrites /\ req[r].pending = NoWrites
           /\ Members \subseteq Users /\ Admin \in Users /\ Admin \notin Members
<1>1. TypeOK /\ req[r] \in Request /\ Fine(cache, row, req[r])
  BY Here
<1>2. Members \subseteq Users /\ Admin \in Users /\ Admin \notin Members
  BY UserAssumption DEF Members
<1>3. /\ req[r].done \in Writes /\ req[r].pending \in Writes
      /\ req[r].list \in SUBSET Members /\ req[r].todo \in SUBSET Members
      /\ req[r].space \in Spaces /\ req[r].wanted \in SUBSET Spaces
  BY <1>1 DEF Request
<1> QED
  BY <1>1, <1>2, <1>3 DEF Fine, AInv, Settled

LEMMA ReadyRest ==
    ASSUME IInv, Alone, AInv, NEW r \in Requests,
           \/ \E u \in Users : Cached(r, u) \/ LookUp(r, u)
           \/ Leave(r) \/ HandOver(r) \/ Victim(r) \/ Abort(r)
    PROVE  AInv'
<1>0. UNCHANGED tables /\ cache' = cache
  BY DEF Cached, LookUp, Leave, HandOver, Victim, Abort, Starts
<1>a. Unraced' /\ \A u \in Users : cache'[u] \in {cache[u], None}
  BY <1>0 DEF AInv, Settled, Unraced
<1>1. ASSUME NEW u \in Users, Cached(r, u) PROVE AInv'
  <2> DEFINE new == [Idle EXCEPT !.at = "in", !.user = u, !.info = cache[u].info]
  <2>1. new.at = "in" /\ new.user = u /\ new.info = cache[u].info
    BY DEF Idle
  <2>2. Become(r, new) /\ cache[u] # None /\ cache[u].info # None
    BY <1>1 DEF Cached, Accepted
  <2> HIDE DEF new
  <2>3. cache[u].info \in Infos(u)
    BY <2>2 DEF IInv, StaleIsExplained, AInv, Settled, Unraced
  <2>4. cache[u].info.current = current[u]
    BY <2>2, <2>3 DEF Infos
  <2>5. Ready(new)
    BY <2>1, <2>4 DEF Ready
  <2> QED
    BY <1>0, <1>a, <2>2, <2>5, CalmReady
<1>2. ASSUME NEW u \in Users, LookUp(r, u) PROVE AInv'
  <2> DEFINE info == IF Exists(u)
                     THEN [current |-> current[u], status |-> status[u], weight |-> 0]
                     ELSE None
             raced == \E q \in Requests : u \in Touched(q)
             new == [Idle EXCEPT !.at = "fill", !.user = u, !.info = info, !.raced = raced]
  <2>1. /\ new.at = "fill" /\ new.raced = \E q \in Requests : u \in TQ(row, req[q])
    BY TouchedIs DEF Idle
  <2>2. Become(r, new) /\ req[r].at = "idle"
    BY <1>2 DEF LookUp
  <2> HIDE DEF new
  <2>3. TQ(row, req[r]) = {}
    BY <2>2, ReadyHere, TouchNone DEF TQ
  <2>4. \A q \in Requests : TQ(row, req[q]) = {}
    BY <2>3 DEF Alone
  <2>5. Ready(new)
    BY <2>1, <2>4 DEF Ready
  <2> QED
    BY <1>0, <1>a, <2>2, <2>5, CalmReady
<1>3. CASE Leave(r)
  BY <1>0, <1>a, <1>3, EndReady DEF Leave
<1>4. CASE HandOver(r)
  <2> DEFINE new == [req[r] EXCEPT !.at = "committing"]
  <2>1. new.at = "committing" /\ req[r].at = "handled"
        /\ new.done = req[r].done /\ new.pending = req[r].pending
    BY <1>4, ReadyHere DEF HandOver, Request
  <2>2. Become(r, new)
    BY <1>4 DEF HandOver
  <2> HIDE DEF new
  <2>3. Ready(new)
    BY <2>1, ReadyHere DEF Ready
  <2> QED
    BY <1>0, <1>a, <2>2, <2>3, CalmReady
<1>5. CASE Victim(r)
  BY <1>0, <1>a, <1>5, EndReady DEF Victim
<1>6. CASE Abort(r)
  BY <1>0, <1>a, <1>6, EndReady DEF Abort
<1> QED
  BY <1>1, <1>2, <1>3, <1>4, <1>5, <1>6

LEMMA ReadyFill ==
    ASSUME IInv, Alone, AInv, NEW r \in Requests, Fill(r)
    PROVE  AInv'
<1> DEFINE u == req[r].user
           seen == req[r].info
<1>1. PICK info \in IF seen = None THEN {None}
                    ELSE {[seen EXCEPT !.weight = w] : w \in WeightOf(u, seen.current)} :
          /\ cache' = [cache EXCEPT ![u] = [info |-> info, raced |-> req[r].raced]]
          /\ IF Accepted(info)
             THEN Become(r, [Idle EXCEPT !.at = "in", !.user = u, !.info = info])
             ELSE End(r)
  BY DEF Fill
<1>2. UNCHANGED tables /\ req[r].at = "fill"
  BY DEF Fill, GoesOn
<1>3. ~req[r].raced /\ req[r].info = Base(u)
  BY <1>2, ReadyHere DEF Ready, IInv, FillFine
<1>4. Unraced'
  <2>1. cache \in [Users -> Entry \union {None}] /\ Unraced
    BY ReadyHere DEF TypeOK
  <2> QED
    BY <1>1, <1>3, <2>1 DEF Unraced
<1>5. CASE End(r)
  BY <1>2, <1>4, <1>5, ReadyIdle, CalmReady DEF End
<1>6. CASE Accepted(info) /\ Become(r, [Idle EXCEPT !.at = "in", !.user = u, !.info = info])
  <2> DEFINE new == [Idle EXCEPT !.at = "in", !.user = u, !.info = info]
  <2>1. new.at = "in" /\ new.user = u /\ new.info = info
    BY DEF Idle
  <2> HIDE DEF new
  <2>2. seen # None
    BY <1>1, <1>6 DEF Accepted
  <2>3. seen = [current |-> current[u], status |-> status[u], weight |-> 0]
    BY <1>3, <2>2 DEF Base
  <2>4. info.current = current[u]
    BY <1>1, <2>2, <2>3
  <2>5. Ready(new)
    BY <2>1, <2>4 DEF Ready
  <2> QED
    BY <1>2, <1>4, <1>6, <2>5, CalmReady DEF new
<1> QED
  BY <1>1, <1>5, <1>6

LEMMA ReadyCommit ==
    ASSUME IInv, Alone, AInv, NEW r \in Requests, Commit(r)
    PROVE  AInv'
<1>1. req[r].at = "committing" /\ cache' = cache /\ End(r)
  BY DEF Commit
<1>2. CASE UNCHANGED tables
  BY <1>1, <1>2, EndReady
<1>3. CASE Save(Then(req[r].done, req[r].pending))
  <2>1. Fits(Then(req[r].done, req[r].pending)) /\ Then(req[r].done, req[r].pending) \in Writes
    BY <1>1, ReadyHere, ThenType DEF Ready
  <2>2. Idle.at = "idle"
    BY DEF Idle
  <2> QED
    BY <1>1, <1>3, <2>1, <2>2, SaveReady DEF End
<1> QED
  BY <1>2, <1>3 DEF Commit

\* Everybody has a membership where they work, in the words of Fits.
LEMMA WorksNow ==
    ASSUME WorksWhereMember
    PROVE  /\ current[Admin] \in spaces
           /\ \A u \in Members : status[u] # "gone" /\ current[u] \in spaces =>
                 \E i \in Rows : row[i] # None /\ row[i].user = u /\ row[i].space = current[u]
  BY SpacesAre DEF WorksWhereMember, Exists

\* A user moves to one of their own workspaces.
LEMMA MoveFits ==
    ASSUME TypeOK, WorksWhereMember, NEW u \in Users, NEW s \in Options(u)
    PROVE  Fits(SetCurrent(u, Changed(current[u], s)))
<1> DEFINE w == SetCurrent(u, Changed(current[u], s))
<1>0. Admin \in Users /\ Members \subseteq Users /\ s \in Spaces /\ s \in spaces
  BY UserAssumption DEF Members, Options, TypeOK
<1>1. /\ \A v \in Users : /\ w.current[v] = IF v = u THEN Changed(current[u], s) ELSE Same
                          /\ w.status[v] = Same
      /\ \A i \in Rows : w.row[i] = Same
      /\ w.closed = {}
  BY SetCurrentIs
<1> HIDE DEF w
<1>2. \A v \in Users : CurrentAfter(w, v) = IF v = u THEN s ELSE current[v]
  BY <1>0, <1>1, SpaceAssumption DEF CurrentAfter, Changed
<1>3. \A v \in Users : ThereAfter(w, v) <=> status[v] # "gone"
  BY <1>1 DEF ThereAfter
<1>4. \A i \in Rows : RowAfter(w, i) = row[i]
  BY <1>1 DEF RowAfter
<1>5. u \in Members => \E i \in Rows : row[i] # None /\ row[i].user = u /\ row[i].space = s
  BY SpacesAre DEF Options, Members
<1> QED
  BY <1>0, <1>1, <1>2, <1>3, <1>4, <1>5, WorksNow DEF Fits, w

\* Writes of the status or the weight of somebody who is there fit.
LEMMA KeepFits ==
    ASSUME WorksWhereMember, NEW w, w.closed = {},
           \A u \in Users : w.current[u] = Same /\ (w.status[u] # Same => Exists(u)),
           \A i \in Rows : w.row[i] # Same =>
               w.row[i] # None /\ row[i] # None /\ w.row[i].user = row[i].user /\ w.row[i].space = row[i].space
    PROVE  Fits(w)
<1>0. Admin \in Users /\ Members \subseteq Users
  BY UserAssumption DEF Members
<1>1. \A u \in Users : CurrentAfter(w, u) = current[u] /\ (ThereAfter(w, u) => status[u] # "gone")
  BY DEF CurrentAfter, ThereAfter, Exists
<1>2. \A i \in Rows : row[i] # None => RowAfter(w, i) # None /\ RowAfter(w, i).user = row[i].user
                                       /\ RowAfter(w, i).space = row[i].space
  BY DEF RowAfter
<1>3. current[Admin] \in spaces
  BY WorksNow
<1>5. ASSUME NEW u \in Members, ThereAfter(w, u), CurrentAfter(w, u) \in spaces
      PROVE  \E i \in Rows : RowAfter(w, i) # None /\ RowAfter(w, i).user = u
                             /\ RowAfter(w, i).space = CurrentAfter(w, u)
  <2>1. status[u] # "gone" /\ current[u] \in spaces
    BY <1>0, <1>1, <1>5
  <2>2. PICK i \in Rows : row[i] # None /\ row[i].user = u /\ row[i].space = current[u]
    BY <2>1, WorksNow
  <2> QED
    BY <1>0, <1>1, <1>2, <2>2
<1> QED
  BY <1>0, <1>1, <1>3, <1>5 DEF Fits

LEMMA ReadyChoice ==
    ASSUME IInv, Alone, AInv, NEW r \in Requests,
           (\E s \in Spaces : ChangeSpace(r, s)) \/ Choose(r)
    PROVE  AInv'
<1>0. UNCHANGED tables
  BY DEF ChangeSpace, Choose, Starts, GoesOn
<1>1. ASSUME NEW s \in Spaces, ChangeSpace(r, s) PROVE AInv'
  <2> DEFINE new == [req[r] EXCEPT !.at = "option", !.space = s]
  <2>1. \A u \in Users : cache'[u] \in {cache[u], None}
    BY <1>1, DropLate DEF ChangeSpace
  <2>2. CASE End(r)
    BY <1>0, <2>1, <2>2, EndReady
  <2>3. CASE s \in Options(req[r].user) /\ Become(r, new)
    <3>1. new.at = "option" /\ new.user = req[r].user /\ new.space = s
      BY ReadyHere DEF Request
    <3> HIDE DEF new
    <3>2. Ready(new)
      BY <2>3, <3>1 DEF Ready
    <3>3. Unraced'
      BY <2>1, DropUnraced, ReadyHere
    <3> QED
      BY <1>0, <2>3, <3>2, <3>3, CalmReady
  <2> QED
    BY <1>1, <2>2, <2>3 DEF ChangeSpace
<1>2. CASE Choose(r)
  <2> DEFINE u == req[r].user
             w == SetCurrent(u, Changed(current[u], req[r].space))
             new == [req[r] EXCEPT !.at = "handled", !.pending = w]
  <2>1. req[r].at = "option" /\ cache' = cache /\ (Become(r, new) \/ End(r))
    BY <1>2 DEF Choose, GoesOn
  <2>2. \A v \in Users : cache'[v] \in {cache[v], None}
    BY <2>1
  <2>3. Unraced'
    BY <2>2, DropUnraced, ReadyHere
  <2>4. CASE End(r)
    BY <1>0, <2>2, <2>4, EndReady
  <2>5. CASE Become(r, new)
    <3>1. u \in Users /\ req[r].space \in Options(u)
      BY <2>1, ReadyHere DEF Ready
    <3>2. Fits(w) /\ w \in Writes
      <4>1. Changed(current[u], req[r].space) \in Spaces \union {None, Same}
        BY ReadyHere DEF Changed
      <4> QED
        BY <3>1, <4>1, MoveFits, ReadyHere, SetCurrentType
    <3> HIDE DEF w
    <3>3. new.at = "handled" /\ new.done = NoWrites /\ new.pending = w
      BY <2>1, ReadyHere DEF Request
    <3> HIDE DEF new
    <3>4. Ready(new)
      BY <3>2, <3>3, ThenNone DEF Ready
    <3> QED
      BY <1>0, <2>3, <2>5, <3>4, CalmReady
  <2> QED
    BY <2>1, <2>4, <2>5
<1> QED
  BY <1>1, <1>2

LEMMA ReadyEdit ==
    ASSUME IInv, Alone, AInv, NEW r \in Requests, NEW u \in Members, NEW L \in SUBSET Spaces,
           NEW st \in {"on", "off"}, NEW s \in IF L = {} THEN {None} ELSE L,
           EditUser(r, u, L, s, st)
    PROVE  AInv'
<1> DEFINE first == IF current[u] \in L THEN current[u] ELSE s
           w == [SetCurrent(u, Changed(current[u], first)) EXCEPT
                    !.status[u] = Changed(status[u], st)]
           new == [req[r] EXCEPT !.at = "edit", !.list = {u}, !.wanted = L, !.pending = w]
<1>1. Starts(r) /\ UNCHANGED tables
  BY DEF EditUser, Starts
<1>2. \A v \in Users : cache'[v] \in {cache[v], None}
  BY DropLate DEF EditUser
<1>3. CASE End(r)
  BY <1>1, <1>2, <1>3, EndReady
<1>4. CASE Exists(u) /\ Become(r, new)
  <2>1. u \in Users /\ req[r].done = NoWrites
    BY <1>1, ReadyHere DEF Starts
  <2>2. /\ \A v \in Users : /\ w.current[v] = IF v = u THEN Changed(current[u], first) ELSE Same
                            /\ w.status[v] = IF v = u THEN Changed(status[u], st) ELSE Same
        /\ \A i \in Rows : w.row[i] = Same
        /\ w.closed = {}
    BY <2>1 DEF SetCurrent, NoWrites
  <2>3. first \in L \union {None} /\ first # Same
    BY SpaceAssumption, MarkAssumption
  <2> HIDE DEF w, first
  <2>4. CurrentAfter(w, u) \in L \union {None}
    BY <2>1, <2>2, <2>3 DEF CurrentAfter, Changed
  <2>5. w.status[u] # "gone"
    BY <2>1, <2>2, MarkAssumption DEF Changed, Status
  <2>6. new.at = "edit" /\ new.done = NoWrites /\ new.pending = w /\ new.list = {u} /\ new.wanted = L
    BY <2>1, ReadyHere DEF Request
  <2> HIDE DEF new
  <2>7. EditReady(new)
    BY <1>4, <2>1, <2>2, <2>4, <2>5, <2>6 DEF EditReady, SameRows
  <2>8. Ready(new)
    BY <2>6, <2>7 DEF Ready
  <2>9. Unraced'
    BY <1>2, DropUnraced, ReadyHere
  <2> QED
    BY <1>1, <1>4, <2>8, <2>9, CalmReady
<1> QED
  BY <1>3, <1>4 DEF EditUser

\* The memberships of an edited user: what is kept or added holds the workspace
\* the user works in, what goes does not.
LEMMA EditFits ==
    ASSUME IInv, AInv, NEW r \in Requests, NEW u \in Members, EditReady(req[r]), u \in req[r].list,
           NEW I \in SUBSET Unused,
           NEW of \in [I -> [user : {u}, space : req[r].wanted \ SpacesOf(u), weight : {0}]],
           req[r].wanted \ SpacesOf(u) = {of[i].space : i \in I},
           NEW D, D = {i \in RowsOf(u) : row[i].space \in SpacesOf(u) \ req[r].wanted}
    PROVE  /\ Insert(of) \in Writes
           /\ Fits(Then(Delete(D), Then(req[r].pending, Insert(of))))
<1> DEFINE p == req[r].pending
           n == Then(p, Insert(of))
           w == Then(Delete(D), n)
<1>0. /\ p \in Writes /\ Members \subseteq Users /\ Admin \in Users /\ Admin \notin Members
      /\ req[r].wanted \in SUBSET Spaces /\ WorksWhereMember
  BY ReadyHere
<1>1. I \in SUBSET Rows /\ \A i \in I : row[i] = None
  BY DEF Unused
<1>2. \A i \in I : of[i].user = u /\ of[i] \in Row
  BY <1>0 DEF Row, Weights
<1>3. Insert(of) \in Writes
  <2>1. of \in [I -> Row]
    BY <1>2
  <2> QED
    BY <1>1, <2>1, InsertType
<1>4. /\ SameRows(p) /\ p.closed = {} /\ Exists(u) /\ p.status[u] # "gone"
      /\ \A v \in Users \ {u} : p.current[v] = Same /\ p.status[v] = Same
      /\ CurrentAfter(p, u) \in req[r].wanted \union {None}
  BY DEF EditReady
<1>5. n \in Writes /\ Delete(D) \in Writes
  BY <1>0, <1>3, ThenType, DeleteType
<1>6. /\ \A v \in Users : n.current[v] = p.current[v] /\ n.status[v] = p.status[v]
      /\ \A i \in Rows : n.row[i] = IF i \in I /\ of[i] # Same THEN of[i] ELSE Same
      /\ n.closed = {}
  BY <1>0, <1>3, <1>4, ThenIs, InsertIs DEF SameRows
<1> HIDE DEF p, n
<1>7. /\ \A v \in Users : w.current[v] = p.current[v] /\ w.status[v] = p.status[v]
      /\ \A i \in Rows : w.row[i] = IF i \in I THEN of[i] ELSE IF i \in D THEN None ELSE Same
      /\ w.closed = {}
  <2>1. \A i \in I : of[i] # Same /\ i \in Rows
    BY <1>1, <1>2, MarkAssumption
  <2>2. \A v \in Users : w.current[v] = p.current[v] /\ w.status[v] = p.status[v]
    BY <1>5, <1>6, ThenIs, DeleteIs
  <2>3. \A i \in Rows : w.row[i] = IF i \in I THEN of[i] ELSE IF i \in D THEN None ELSE Same
    BY <1>5, <1>6, <2>1, ThenIs, DeleteIs
  <2>4. w.closed = {}
    <3>1. w.closed = Delete(D).closed \union n.closed
      BY <1>5, ThenIs
    <3>2. Delete(D).closed = {}
      BY DeleteIs
    <3> QED
      BY <1>6, <3>1, <3>2
  <2> QED
    BY <2>2, <2>3, <2>4
<1> HIDE DEF w
<1>8. CurrentAfter(w, u) = CurrentAfter(p, u)
      /\ \A v \in Users \ {u} : CurrentAfter(w, v) = current[v] /\ (ThereAfter(w, v) <=> status[v] # "gone")
  BY <1>0, <1>4, <1>7 DEF CurrentAfter, ThereAfter
<1>9. \A i \in Rows : RowAfter(w, i) = IF i \in I THEN of[i] ELSE IF i \in D THEN None ELSE row[i]
  BY <1>2, <1>7, MarkAssumption DEF RowAfter
<1>10. ASSUME NEW v \in Members, v # u, ThereAfter(w, v), CurrentAfter(w, v) \in spaces
       PROVE  \E i \in Rows : RowAfter(w, i) # None /\ RowAfter(w, i).user = v
                              /\ RowAfter(w, i).space = CurrentAfter(w, v)
  <2>1. CurrentAfter(w, v) = current[v] /\ status[v] # "gone" /\ current[v] \in spaces
    BY <1>0, <1>8, <1>10
  <2>2. PICK i \in Rows : row[i] # None /\ row[i].user = v /\ row[i].space = current[v]
    BY <1>0, <2>1, WorksNow
  <2>3. i \notin I /\ i \notin D
    BY <1>1, <1>10, <2>2 DEF RowsOf
  <2> QED
    BY <1>9, <2>1, <2>2, <2>3
<1>11. ASSUME CurrentAfter(w, u) \in spaces
       PROVE  \E i \in Rows : RowAfter(w, i) # None /\ RowAfter(w, i).user = u
                              /\ RowAfter(w, i).space = CurrentAfter(w, u)
  <2>1. CurrentAfter(w, u) \in req[r].wanted
    <3>1. None \notin spaces
      BY SpaceAssumption, ReadyHere DEF TypeOK
    <3> QED
      BY <1>4, <1>8, <1>11, <3>1
  <2>2. CASE CurrentAfter(w, u) \in SpacesOf(u)
    <3>1. PICK i \in Rows : row[i] # None /\ row[i].user = u /\ row[i].space = CurrentAfter(w, u)
      BY <2>2, SpacesAre
    <3>2. i \notin I /\ i \notin D
      BY <1>1, <2>1, <3>1
    <3> QED
      BY <1>9, <3>1, <3>2
  <2>3. CASE CurrentAfter(w, u) \notin SpacesOf(u)
    <3>1. PICK i \in I : of[i].space = CurrentAfter(w, u)
      BY <2>1, <2>3
    <3>2. i \in Rows /\ RowAfter(w, i) = of[i] /\ of[i].user = u /\ of[i] # None
      BY <1>1, <1>2, <1>9, MarkAssumption
    <3> QED
      BY <3>1, <3>2
  <2> QED
    BY <2>2, <2>3
<1>12. CurrentAfter(w, Admin) \in spaces
  BY <1>0, <1>8, WorksNow
<1>13. Fits(w)
  BY <1>7, <1>10, <1>11, <1>12 DEF Fits
<1> QED
  BY <1>3, <1>13 DEF w, n, p

LEMMA ReadyMemberships ==
    ASSUME IInv, Alone, AInv, NEW r \in Requests, NEW u \in Members, EditMemberships(r, u)
    PROVE  AInv'
<1> DEFINE extra == SpacesOf(u) \ req[r].wanted
           missing == req[r].wanted \ SpacesOf(u)
           D == {i \in RowsOf(u) : row[i].space \in extra}
<1>0. PICK I \in SUBSET Unused :
          \E of \in [I -> [user : {u}, space : missing, weight : {0}]] :
              /\ missing = {of[i].space : i \in I}
              /\ Become(r, [req[r] EXCEPT
                    !.at = IF extra = {} THEN "handled" ELSE "erase",
                    !.wanted = extra,
                    !.pending = Then(@, Insert(of))])
  BY DEF EditMemberships
<1>1. PICK of \in [I -> [user : {u}, space : missing, weight : {0}]] :
              /\ missing = {of[i].space : i \in I}
              /\ Become(r, [req[r] EXCEPT
                    !.at = IF extra = {} THEN "handled" ELSE "erase",
                    !.wanted = extra,
                    !.pending = Then(@, Insert(of))])
  BY <1>0
<1> DEFINE n == Then(req[r].pending, Insert(of))
           new == [req[r] EXCEPT !.at = IF extra = {} THEN "handled" ELSE "erase",
                                 !.wanted = extra, !.pending = n]
<1>2. req[r].at = "edit" /\ u \in req[r].list /\ UNCHANGED tables /\ cache' = cache
  BY DEF EditMemberships, GoesOn
<1>3. EditReady(req[r])
  BY <1>2, ReadyHere DEF Ready
<1>4. Fits(Then(Delete(D), n)) /\ Insert(of) \in Writes
  BY <1>1, <1>2, <1>3, EditFits
<1>5. n \in Writes
  BY <1>4, ReadyHere, ThenType
<1>6. \A v \in req[r].list : v = u
  BY <1>2, <1>3 DEF EditReady
<1>7. extra = {} => D = {}
  OBVIOUS
<1>8. Delete({}) = NoWrites
  BY DEF Delete, NoWrites
<1> HIDE DEF n
<1>9. /\ new.at = IF extra = {} THEN "handled" ELSE "erase"
      /\ new.wanted = extra /\ new.pending = n /\ new.done = NoWrites /\ new.list = req[r].list
  BY <1>3, ReadyHere DEF Request, EditReady
<1>10. Become(r, new)
  BY <1>1 DEF n
<1> HIDE DEF new
<1>11. extra = {} => Fits(Then(new.done, new.pending))
  BY <1>4, <1>7, <1>8, <1>9
<1>12. D = Unwanted(new, u)
  BY <1>9 DEF Unwanted
<1> HIDE DEF D
<1>13. extra # {} => EraseReady(new)
  BY <1>4, <1>6, <1>9, <1>12 DEF EraseReady
<1> HIDE DEF extra
<1>14. Ready(new)
  BY <1>9, <1>11, <1>13 DEF Ready
<1>15. Unraced'
  BY <1>2, ReadyHere DEF Unraced
<1> QED
  BY <1>2, <1>10, <1>14, <1>15, CalmReady

LEMMA ReadyErase ==
    ASSUME IInv, Alone, AInv, NEW r \in Requests, NEW u \in Members, Erase(r, u)
    PROVE  AInv'
<1> DEFINE gone == Delete({i \in RowsOf(u) : row[i].space \in req[r].wanted})
           w == Then(req[r].done, gone)
           new == [req[r] EXCEPT !.at = "handled", !.done = w]
<1>1. req[r].at = "erase" /\ u \in req[r].list /\ UNCHANGED tables /\ cache' = cache /\ Become(r, new)
  BY DEF Erase, GoesOn
<1>2. EraseReady(req[r])
  BY <1>1, ReadyHere DEF Ready
<1>3. w = gone
  BY <1>2, DeleteType, ThenNone DEF EraseReady
<1>4. Fits(Then(w, req[r].pending))
  BY <1>1, <1>2, <1>3 DEF EraseReady, Unwanted
<1> HIDE DEF w, gone
<1>5. new.at = "handled" /\ new.done = w /\ new.pending = req[r].pending
  BY ReadyHere DEF Request
<1> HIDE DEF new
<1>6. Ready(new)
  BY <1>4, <1>5 DEF Ready
<1>7. Unraced'
  BY <1>1, ReadyHere DEF Unraced
<1> QED
  BY <1>1, <1>6, <1>7, CalmReady

LEMMA ReadyStatus ==
    ASSUME IInv, Alone, AInv, NEW r \in Requests, NEW u \in Members, NEW st \in {"on", "off"},
           ChangeStatus(r, u, st)
    PROVE  AInv'
<1> DEFINE w == [req[r].pending EXCEPT !.status[u] = Changed(status[u], st)]
           new == [req[r] EXCEPT !.at = "handled", !.pending.status[u] = Changed(status[u], st)]
<1>1. req[r].at = "in" /\ UNCHANGED tables
  BY DEF ChangeStatus, Starts
<1>2. \A v \in Users : cache'[v] \in {cache[v], None}
  BY DropLate DEF ChangeStatus
<1>3. Unraced'
  BY <1>2, DropUnraced, ReadyHere
<1>4. CASE End(r)
  BY <1>1, <1>2, <1>4, EndReady
<1>5. CASE Exists(u) /\ Become(r, new)
  <2>1. u \in Users /\ req[r].pending = NoWrites /\ req[r].done = NoWrites
    BY <1>1, ReadyHere
  <2>2. /\ \A v \in Users : w.current[v] = Same /\ (w.status[v] # Same => v = u)
        /\ \A i \in Rows : w.row[i] = Same
        /\ w.closed = {}
    BY <2>1 DEF NoWrites
  <2>3. w \in Writes
    <3>1. Changed(status[u], st) \in Status \union {Same}
      BY DEF Changed, Status
    <3> QED
      BY <2>1, <3>1, ReadyHere DEF Writes
  <2>4. new.at = "handled" /\ new.pending = w /\ new.done = NoWrites
    BY <2>1, ReadyHere DEF Request
  <2> HIDE DEF w, new
  <2>5. Fits(w)
    BY <1>5, <2>2, KeepFits, ReadyHere
  <2>6. Ready(new)
    BY <2>3, <2>4, <2>5, ThenNone DEF Ready
  <2> QED
    BY <1>1, <1>3, <1>5, <2>6, CalmReady
<1> QED
  BY <1>4, <1>5 DEF ChangeStatus

LEMMA ReadyDelete ==
    ASSUME IInv, Alone, AInv, NEW r \in Requests,
           \/ \E U \in SUBSET Members : DeleteUsers(r, U)
           \/ \E u \in Members : DropMemberships(r, u) \/ DropUser(r, u)
    PROVE  AInv'
<1>1. ASSUME NEW U \in SUBSET Members, DeleteUsers(r, U) PROVE AInv'
  <2> DEFINE new == [req[r] EXCEPT !.at = "drop", !.todo = U]
  <2>1. UNCHANGED tables /\ cache' = cache /\ Become(r, new)
    BY <1>1 DEF DeleteUsers, Starts
  <2>2. new.at = "drop"
    BY ReadyHere DEF Request
  <2> HIDE DEF new
  <2>3. Ready(new)
    BY <2>2 DEF Ready
  <2>4. Unraced'
    BY <2>1, ReadyHere DEF Unraced
  <2> QED
    BY <2>1, <2>3, <2>4, CalmReady
<1>2. ASSUME NEW u \in Members, DropMemberships(r, u) PROVE AInv'
  <2> DEFINE w == Delete(RowsOf(u))
             new == [req[r] EXCEPT !.at = "gone", !.list = {u}, !.done = w]
  <2>1. req[r].at = "drop" /\ UNCHANGED tables
    BY <1>2 DEF DropMemberships, GoesOn
  <2>2. \A v \in Users : cache'[v] \in {cache[v], None}
    BY <1>2, DropLate DEF DropMemberships
  <2>3. CASE End(r)
    BY <2>1, <2>2, <2>3, EndReady
  <2>4. CASE Become(r, new)
    <3>1. new.at = "gone" /\ new.list = {u} /\ new.done = Delete(RowsOf(u)) /\ new.pending = NoWrites
      BY <2>1, ReadyHere DEF Request
    <3> HIDE DEF new
    <3>2. GoneReady(new)
      BY <3>1 DEF GoneReady
    <3>3. Ready(new)
      BY <3>1, <3>2 DEF Ready
    <3>4. Unraced'
      BY <2>2, DropUnraced, ReadyHere
    <3> QED
      BY <2>1, <2>4, <3>3, <3>4, CalmReady
  <2> QED
    BY <1>2, <2>3, <2>4 DEF DropMemberships
<1>3. ASSUME NEW u \in Members, DropUser(r, u) PROVE AInv'
  <2> DEFINE gone == [NoWrites EXCEPT !.status[u] = "gone"]
             w == Then(req[r].done, gone)
             new == [req[r] EXCEPT !.at = "drop", !.todo = @ \ {u}, !.list = {},
                                   !.done = NoWrites]
  <2>1. /\ req[r].at = "gone" /\ u \in req[r].list /\ Save(w) /\ cache' = cache
        /\ Become(r, new) \/ Become(r, Idle)
    BY <1>3 DEF DropUser, End
  <2>2. req[r].done = Delete(RowsOf(u)) /\ u \in Users
    BY <2>1, ReadyHere DEF Ready, GoneReady
  <2>3. gone \in Writes
    BY NoWritesType DEF NoWrites, Writes, Status
  <2>4. /\ \A v \in Users : gone.current[v] = Same /\ gone.status[v] = IF v = u THEN "gone" ELSE Same
        /\ \A i \in Rows : gone.row[i] = Same
        /\ gone.closed = {}
    BY <2>2 DEF NoWrites
  <2> HIDE DEF gone
  <2>5. w \in Writes
    BY <2>3, ReadyHere, ThenType
  <2>6. /\ \A v \in Users : w.current[v] = Same /\ w.status[v] = IF v = u THEN "gone" ELSE Same
        /\ \A i \in Rows : w.row[i] = IF i \in RowsOf(u) THEN None ELSE Same
        /\ w.closed = {}
    <3>1. /\ \A v \in Users : w.current[v] = Same /\ w.status[v] = IF v = u THEN "gone" ELSE Same
          /\ \A i \in Rows : w.row[i] = IF i \in RowsOf(u) THEN None ELSE Same
      BY <2>2, <2>3, <2>4, DeleteType, DeleteIs, ThenIs, MarkAssumption DEF Status
    <3>2. w.closed = Delete(RowsOf(u)).closed \union gone.closed
      BY <2>2, <2>3, DeleteType, ThenIs
    <3> QED
      BY <2>4, <3>1, <3>2, DeleteIs
  <2> HIDE DEF w
  <2>7. Fits(w)
    <3>1. \A v \in Users : CurrentAfter(w, v) = current[v] /\ (ThereAfter(w, v) => v # u /\ status[v] # "gone")
      BY <2>6, MarkAssumption DEF CurrentAfter, ThereAfter, Status
    <3>2. \A i \in Rows : row[i] # None /\ row[i].user # u => RowAfter(w, i) = row[i]
      BY <2>6 DEF RowAfter, RowsOf
    <3>3. ASSUME NEW v \in Members, ThereAfter(w, v), CurrentAfter(w, v) \in spaces
          PROVE  \E i \in Rows : RowAfter(w, i) # None /\ RowAfter(w, i).user = v
                                 /\ RowAfter(w, i).space = CurrentAfter(w, v)
      <4>1. v \in Users /\ v # u /\ status[v] # "gone" /\ CurrentAfter(w, v) = current[v]
        BY <3>1, <3>3, ReadyHere
      <4>2. PICK i \in Rows : row[i] # None /\ row[i].user = v /\ row[i].space = current[v]
        BY <3>3, <4>1, WorksNow, ReadyHere
      <4> QED
        BY <3>2, <4>1, <4>2
    <3>4. CurrentAfter(w, Admin) \in spaces
      BY <3>1, WorksNow, ReadyHere
    <3> QED
      BY <2>6, <3>3, <3>4 DEF Fits
  <2>8. CASE Become(r, new)
    <3>1. new.at = "drop"
      BY ReadyHere DEF Request
    <3> HIDE DEF new
    <3> QED
      BY <2>1, <2>5, <2>7, <2>8, <3>1, SaveReady
  <2>9. CASE Become(r, Idle)
    <3>1. Idle.at = "idle"
      BY DEF Idle
    <3> QED
      BY <2>1, <2>5, <2>7, <2>9, <3>1, SaveReady
  <2> QED
    BY <2>1, <2>8, <2>9
<1> QED
  BY <1>1, <1>2, <1>3

\* Those who are added end up as members of the workspace that some of them
\* have been moved to.
LEMMA AddFits ==
    ASSUME IInv, AInv, NEW r \in Requests, NEW sent \in Writes, NEW moved \in Writes, NEW s \in Spaces,
           NEW U \in SUBSET Members, Adding(Then(sent, moved), {}, U, s),
           NEW I \in SUBSET Unused,
           NEW of \in [I -> [user : U, space : {s}, weight : {req[r].weight}]],
           U = {of[i].user : i \in I}
    PROVE  /\ Insert(of) \in Writes
           /\ Fits(Then(sent, Then(moved, Insert(of))))
<1> DEFINE m == Then(sent, moved)
           n == Then(moved, Insert(of))
           w == Then(sent, n)
<1>0. /\ Members \subseteq Users /\ Admin \in Users /\ Admin \notin Members /\ WorksWhereMember
      /\ req[r].weight \in Weights
  BY ReadyHere DEF Request
<1>1. I \in SUBSET Rows /\ \A i \in I : row[i] = None
  BY DEF Unused
<1>2. \A i \in I : of[i].user \in U /\ of[i].space = s /\ of[i] \in Row
  BY <1>0 DEF Row
<1>3. Insert(of) \in Writes
  <2>1. of \in [I -> Row]
    BY <1>2
  <2> QED
    BY <1>1, <2>1, InsertType
<1>4. /\ \A v \in Users : m.status[v] = Same /\ (m.current[v] # Same => v \in U /\ m.current[v] = s)
      /\ \A i \in Rows : m.row[i] = Same
      /\ m.closed = {}
  BY DEF Adding, Still, SameRows
<1>5. /\ \A v \in Users : /\ m.current[v] = IF moved.current[v] = Same THEN sent.current[v]
                                            ELSE moved.current[v]
                          /\ m.status[v] = IF moved.status[v] = Same THEN sent.status[v]
                                           ELSE moved.status[v]
      /\ \A i \in Rows : m.row[i] = IF moved.row[i] = Same THEN sent.row[i] ELSE moved.row[i]
      /\ m.closed = sent.closed \union moved.closed
  BY ThenIs
<1>6. /\ n \in Writes
      /\ \A v \in Users : n.current[v] = moved.current[v] /\ n.status[v] = moved.status[v]
      /\ n.closed = moved.closed
  <2>1. n.closed = moved.closed \union Insert(of).closed
    BY <1>3, ThenIs
  <2>2. Insert(of).closed = {}
    BY InsertIs
  <2>3. \A v \in Users : n.current[v] = moved.current[v] /\ n.status[v] = moved.status[v]
    BY <1>3, ThenIs, InsertIs
  <2> QED
    BY <1>3, <2>1, <2>2, <2>3, ThenType
<1>7. \A i \in Rows : n.row[i] = IF i \in I THEN of[i] ELSE moved.row[i]
  <2>1. \A i \in I : of[i] # Same
    BY <1>2, MarkAssumption
  <2> QED
    BY <1>3, <2>1, ThenIs, InsertIs
<1> HIDE DEF m, n
<1>8. /\ \A v \in Users : w.current[v] = m.current[v] /\ w.status[v] = m.status[v]
      /\ w.closed = m.closed
  <2>1. w.closed = sent.closed \union n.closed
    BY <1>6, ThenIs
  <2>2. \A v \in Users : w.current[v] = m.current[v] /\ w.status[v] = m.status[v]
    BY <1>5, <1>6, ThenIs
  <2>3. w.closed = m.closed
    BY <1>5, <1>6, <2>1
  <2> QED
    BY <2>2, <2>3
<1>9. \A i \in Rows : w.row[i] = IF i \in I THEN of[i] ELSE Same
  <2>1. \A i \in I : of[i] # Same
    BY <1>2, MarkAssumption
  <2> QED
    BY <1>4, <1>5, <1>6, <1>7, <2>1, ThenIs
<1> HIDE DEF w
<1>10. \A v \in Users : /\ ThereAfter(w, v) <=> status[v] # "gone"
                        /\ CurrentAfter(w, v) = IF m.current[v] = Same THEN current[v] ELSE s
                        /\ m.current[v] # Same => v \in U
  BY <1>4, <1>8 DEF CurrentAfter, ThereAfter
<1>11. \A i \in Rows : RowAfter(w, i) = IF i \in I THEN of[i] ELSE row[i]
  BY <1>2, <1>9, MarkAssumption DEF RowAfter
<1>12. ASSUME NEW v \in Members, ThereAfter(w, v), CurrentAfter(w, v) \in spaces
       PROVE  \E i \in Rows : RowAfter(w, i) # None /\ RowAfter(w, i).user = v
                              /\ RowAfter(w, i).space = CurrentAfter(w, v)
  <2>1. CASE m.current[v] = Same
    <3>1. CurrentAfter(w, v) = current[v] /\ status[v] # "gone" /\ current[v] \in spaces
      BY <1>0, <1>10, <1>12, <2>1
    <3>2. PICK i \in Rows : row[i] # None /\ row[i].user = v /\ row[i].space = current[v]
      BY <1>0, <1>12, <3>1, WorksNow
    <3>3. i \notin I
      BY <1>1, <3>2
    <3> QED
      BY <1>11, <3>1, <3>2, <3>3
  <2>2. CASE m.current[v] # Same
    <3>1. v \in U /\ CurrentAfter(w, v) = s
      BY <1>0, <1>10, <1>12, <2>2
    <3>2. PICK i \in I : of[i].user = v
      BY <3>1
    <3>3. i \in Rows /\ RowAfter(w, i) = of[i] /\ of[i].space = s /\ of[i] # None
      BY <1>1, <1>2, <1>11, MarkAssumption
    <3> QED
      BY <3>1, <3>2, <3>3
  <2> QED
    BY <2>1, <2>2
<1>13. CurrentAfter(w, Admin) \in spaces
  <2>1. Admin \notin U
    BY <1>0
  <2> QED
    BY <1>0, <1>10, <2>1, WorksNow
<1>14. Fits(w)
  BY <1>4, <1>8, <1>12, <1>13 DEF Fits
<1> QED
  BY <1>3, <1>14 DEF w, n

LEMMA ReadyAdd ==
    ASSUME IInv, Alone, AInv, NEW r \in Requests,
           \/ \E U \in SUBSET Members, s \in Spaces, w \in Weights : AddMembers(r, U, s, w)
           \/ \E u \in Members : AddOne(r, u)
    PROVE  AInv'
<1>1. ASSUME NEW U \in SUBSET Members, NEW s \in Spaces, NEW w \in Weights, AddMembers(r, U, s, w)
      PROVE  AInv'
  <2> DEFINE new == [req[r] EXCEPT !.at = "add", !.list = U, !.todo = U, !.space = s, !.weight = w]
  <2>1. req[r].at = "in" /\ UNCHANGED tables /\ Become(r, new) /\ cache' = cache
    BY <1>1 DEF AddMembers, Starts
  <2>2. new.at = "add" /\ new.done = NoWrites /\ new.pending = NoWrites
        /\ new.list = U /\ new.todo = U
    BY <2>1, ReadyHere DEF Request
  <2> HIDE DEF new
  <2>3. Adding(NoWrites, U, U, new.space)
    BY NoWritesAre DEF Adding, Still, SameRows
  <2>4. Ready(new)
    BY <2>2, <2>3, ThenNone, NoWritesType DEF Ready
  <2>5. Unraced'
    BY <2>1, ReadyHere DEF Unraced
  <2> QED
    BY <2>1, <2>4, <2>5, CalmReady
<1>2. ASSUME NEW u \in Members, AddOne(r, u) PROVE AInv'
  <2> DEFINE s == req[r].space
             moved == IF Exists(u) /\ current[u] = None THEN SetCurrent(u, s) ELSE NoWrites
             sent == Then(req[r].done, req[r].pending)
  <2>0. /\ req[r].at = "add" /\ u \in req[r].todo /\ UNCHANGED tables
    BY <1>2 DEF AddOne, GoesOn
  <2>1. \A v \in Users : cache'[v] \in {cache[v], None}
    BY <1>2, DropLate DEF AddOne
  <2>2. Unraced'
    BY <2>1, DropUnraced, ReadyHere
  <2>3. Adding(sent, req[r].todo, req[r].list, s) /\ sent \in Writes /\ s \in Spaces /\ u \in Users
    BY <2>0, ReadyHere, ThenType DEF Ready
  <2>4. moved \in Writes
    BY <2>3, SetCurrentType, NoWritesType
  <2>5. /\ \A v \in Users : moved.status[v] = Same /\ (moved.current[v] # Same => v = u /\ moved.current[v] = s)
        /\ \A i \in Rows : moved.row[i] = Same
        /\ moved.closed = {}
    BY <2>3, SetCurrentIs, NoWritesAre
  <2> HIDE DEF moved, sent
  <2>6. ASSUME NEW T, T \subseteq req[r].todo PROVE Adding(Then(sent, moved), T, req[r].list, s)
    <3>1. Then(sent, moved).closed = {}
      <4>1. Then(sent, moved).closed = sent.closed \union moved.closed
        BY <2>3, <2>4, ThenIs
      <4> QED
        BY <2>3, <2>5, <4>1 DEF Adding, Still
    <3>2. \A v \in Users : Then(sent, moved).status[v] = Same
      BY <2>3, <2>4, <2>5, ThenIs DEF Adding, Still
    <3>3. \A i \in Rows : Then(sent, moved).row[i] = Same
      BY <2>3, <2>4, <2>5, ThenIs DEF Adding, SameRows
    <3>4. \A v \in Users : Then(sent, moved).current[v] # Same =>
                v \in req[r].list /\ Then(sent, moved).current[v] = s
      BY <2>0, <2>3, <2>4, <2>5, ThenIs DEF Adding
    <3> QED
      BY <2>3, <2>6, <3>1, <3>2, <3>3, <3>4 DEF Adding, Still, SameRows
  <2>7. CASE req[r].todo = {u}
    <3>0. PICK I \in SUBSET Unused :
             \E of \in [I -> [user : req[r].list, space : {s}, weight : {req[r].weight}]] :
                /\ req[r].list = {of[i].user : i \in I}
                /\ Become(r, [req[r] EXCEPT !.at = "handled", !.todo = {}, !.done = sent,
                              !.pending = Then(moved, Insert(of))])
      BY <1>2, <2>7 DEF AddOne, moved, sent
    <3>1. PICK of \in [I -> [user : req[r].list, space : {s}, weight : {req[r].weight}]] :
                /\ req[r].list = {of[i].user : i \in I}
                /\ Become(r, [req[r] EXCEPT !.at = "handled", !.todo = {}, !.done = sent,
                              !.pending = Then(moved, Insert(of))])
      BY <3>0
    <3> DEFINE out == Then(moved, Insert(of))
               new == [req[r] EXCEPT !.at = "handled", !.todo = {}, !.done = sent, !.pending = out]
    <3>2. req[r].list \in SUBSET Members
      BY ReadyHere
    <3>3. Adding(Then(sent, moved), {}, req[r].list, s)
      BY <2>6
    <3>4. Fits(Then(sent, out))
      BY <2>3, <2>4, <3>1, <3>2, <3>3, AddFits
    <3> HIDE DEF out
    <3>5. new.at = "handled" /\ new.done = sent /\ new.pending = out
      BY ReadyHere DEF Request
    <3>6. Become(r, new)
      BY <3>1 DEF out
    <3> HIDE DEF new
    <3>7. Ready(new)
      BY <3>4, <3>5 DEF Ready
    <3> QED
      BY <2>0, <2>2, <3>6, <3>7, CalmReady
  <2>8. CASE req[r].todo # {u}
    <3> DEFINE new == [req[r] EXCEPT !.todo = @ \ {u}, !.done = sent, !.pending = moved]
    <3>1. Become(r, new)
      BY <1>2, <2>8 DEF AddOne, moved, sent
    <3>2. new.at = "add" /\ new.done = sent /\ new.pending = moved /\ new.space = s
          /\ new.list = req[r].list /\ new.todo = req[r].todo \ {u}
      BY <2>0, ReadyHere DEF Request
    <3> HIDE DEF new
    <3>3. Adding(Then(sent, moved), req[r].todo \ {u}, req[r].list, s)
      BY <2>6
    <3>4. Ready(new)
      BY <3>2, <3>3 DEF Ready
    <3> QED
      BY <2>0, <2>2, <3>1, <3>4, CalmReady
  <2> QED
    BY <2>7, <2>8
<1> QED
  BY <1>1, <1>2

LEMMA ReadyWeight ==
    ASSUME IInv, Alone, AInv, NEW r \in Requests, NEW u \in Members, NEW s \in Spaces,
           NEW w \in Weights, EditMember(r, u, s, w)
    PROVE  AInv'
<1>1. req[r].at = "in" /\ UNCHANGED tables
  BY DEF EditMember, Starts
<1>2. \A v \in Users : cache'[v] \in {cache[v], None}
  BY DropLate DEF EditMember
<1>3. Unraced'
  BY <1>2, DropUnraced, ReadyHere
<1>4. CASE End(r)
  BY <1>1, <1>2, <1>4, EndReady
<1>5. CASE ~End(r)
  <2>1. PICK i \in RowsOf(u) \intersect RowsIn(s) :
            Become(r, [req[r] EXCEPT !.at = "handled", !.edited = i,
                               !.pending.row[i] = [row[i] EXCEPT !.weight = w]])
    BY <1>5 DEF EditMember
  <2>2. i \in Rows /\ row[i] \in Row
    BY ReadTypes, ReadyHere DEF RowsOf
  <2> DEFINE x == [row[i] EXCEPT !.weight = w]
  <2>3. x \in Row /\ x.user = row[i].user /\ x.space = row[i].space
    BY <2>2 DEF Row
  <2> HIDE DEF x
  <2> DEFINE p == [req[r].pending EXCEPT !.row[i] = x]
             new == [req[r] EXCEPT !.at = "handled", !.edited = i, !.pending.row[i] = x]
  <2>4. p \in Writes
    BY <2>2, <2>3, ReadyHere DEF Writes
  <2>5. req[r].pending = NoWrites /\ req[r].done = NoWrites
    BY <1>1, ReadyHere
  <2>6. /\ \A v \in Users : p.current[v] = Same /\ p.status[v] = Same
        /\ \A j \in Rows : p.row[j] = IF j = i THEN x ELSE Same
        /\ p.closed = {}
    BY <2>5 DEF NoWrites
  <2>7. new.at = "handled" /\ new.pending = p /\ new.done = NoWrites
    BY <2>5, ReadyHere DEF Request
  <2>8. Become(r, new)
    BY <2>1 DEF x
  <2> HIDE DEF p, new
  <2>9. \A j \in Rows : p.row[j] # Same =>
            p.row[j] # None /\ row[j] # None /\ p.row[j].user = row[j].user /\ p.row[j].space = row[j].space
    BY <2>2, <2>3, <2>6, MarkAssumption
  <2>10. Fits(p)
    BY <2>6, <2>9, KeepFits, ReadyHere
  <2>11. Ready(new)
    BY <2>4, <2>7, <2>10, ThenNone DEF Ready
  <2> QED
    BY <1>1, <1>3, <2>8, <2>11, CalmReady
<1> QED
  BY <1>4, <1>5

\* Once the loop has visited everybody, whoever has lost the membership of the
\* current workspace works elsewhere.
LEMMA RemoveFits ==
    ASSUME TypeOK, WorksWhereMember, NEW w, NEW s, Removing(w, {}, s)
    PROVE  Fits(w)
<1>0. Members \subseteq Users /\ Admin \in Users
  BY UserAssumption DEF Members
<1>1. /\ \A u \in Users : w.status[u] = Same
      /\ w.closed = {} /\ w.current[Admin] = Same
      /\ \A u \in Members : w.current[u] \in {Same, None} \union (SpacesOf(u) \ {s})
      /\ \A i \in Rows : w.row[i] # Same =>
            /\ row[i] # None /\ row[i].space = s
            /\ \/ ~Exists(row[i].user)
               \/ w.current[row[i].user] # Same \/ current[row[i].user] # s
  BY DEF Removing, Still
<1>2. ASSUME NEW u \in Members, ThereAfter(w, u), CurrentAfter(w, u) \in spaces
      PROVE  \E i \in Rows : RowAfter(w, i) # None /\ RowAfter(w, i).user = u
                             /\ RowAfter(w, i).space = CurrentAfter(w, u)
  <2>0. Exists(u)
    BY <1>0, <1>1, <1>2 DEF ThereAfter, Exists
  <2>1. CASE w.current[u] = Same
    <3>1. CurrentAfter(w, u) = current[u]
      BY <2>1 DEF CurrentAfter
    <3>2. PICK i \in Rows : row[i] # None /\ row[i].user = u /\ row[i].space = current[u]
      BY <1>2, <2>0, <3>1, WorksNow DEF Exists
    <3>3. w.row[i] = Same
      BY <1>1, <2>0, <2>1, <3>2
    <3> QED
      BY <3>1, <3>2, <3>3 DEF RowAfter
  <2>2. CASE w.current[u] # Same
    <3>1. CurrentAfter(w, u) = w.current[u] /\ w.current[u] # None
      BY <1>2, <2>2, SpaceAssumption DEF CurrentAfter, TypeOK
    <3>2. w.current[u] \in SpacesOf(u) /\ w.current[u] # s
      BY <1>1, <2>2, <3>1
    <3>3. PICK i \in Rows : row[i] # None /\ row[i].user = u /\ row[i].space = w.current[u]
      BY <3>2, SpacesAre
    <3>4. w.row[i] = Same
      BY <1>1, <3>2, <3>3
    <3> QED
      BY <3>1, <3>3, <3>4 DEF RowAfter
  <2> QED
    BY <2>1, <2>2
<1>3. CurrentAfter(w, Admin) \in spaces
  BY <1>1, WorksNow DEF CurrentAfter
<1> QED
  BY <1>1, <1>2, <1>3 DEF Fits

\* The end of a turn: whom the loop has visited needs no further visit.
LEMMA ReadyTurn ==
    ASSUME IInv, Alone, AInv, NEW r \in Requests, UNCHANGED tables, NEW u, NEW new \in Request,
           Turn(r, u, new), new.todo = req[r].todo,
           Removing(Then(new.done, new.pending), req[r].todo \ {u}, new.space)
    PROVE  AInv'
<1>1. \A v \in Users : cache'[v] \in {cache[v], None}
  BY DropLate DEF Turn
<1>2. Unraced'
  BY <1>1, DropUnraced, ReadyHere
<1>3. CASE req[r].todo = {u}
  <2> DEFINE next == [new EXCEPT !.at = "handled", !.todo = {}]
  <2>1. Become(r, next)
    BY <1>3 DEF Turn
  <2>2. next.at = "handled" /\ next.done = new.done /\ next.pending = new.pending
    BY DEF Request
  <2> HIDE DEF next
  <2>3. req[r].todo \ {u} = {}
    BY <1>3
  <2>4. Fits(Then(new.done, new.pending))
    BY <2>3, RemoveFits, ReadyHere
  <2>5. Ready(next)
    BY <2>2, <2>4 DEF Ready
  <2> QED
    BY <1>2, <2>1, <2>5, CalmReady
<1>4. CASE req[r].todo # {u}
  <2> DEFINE next == [new EXCEPT !.at = "remove", !.todo = @ \ {u}]
  <2>1. Become(r, next)
    BY <1>4 DEF Turn
  <2>2. next.at = "remove" /\ next.done = new.done /\ next.pending = new.pending
        /\ next.todo = req[r].todo \ {u} /\ next.space = new.space
    BY DEF Request
  <2> HIDE DEF next
  <2>3. Ready(next)
    BY <2>2 DEF Ready
  <2> QED
    BY <1>2, <2>1, <2>3, CalmReady
<1> QED
  BY <1>3, <1>4

\* One of those who lose a membership moves elsewhere.
LEMMA RemovingMore ==
    ASSUME TypeOK, NEW w \in Writes, NEW T, NEW s, Removing(w, T, s), NEW u \in Members,
           NEW x \in {Same, None} \union (SpacesOf(u) \ {s}), SetCurrent(u, x) \in Writes
    PROVE  LET n == Then(w, SetCurrent(u, x))
           IN  Removing(n, T, s) /\ (w.current[u] # Same \/ x # Same => Removing(n, T \ {u}, s))
<1> DEFINE n == Then(w, SetCurrent(u, x))
<1>0. u \in Users /\ u # Admin /\ Admin \in Users /\ Members \subseteq Users
  BY UserAssumption DEF Members
<1>1. /\ \A v \in Users : /\ n.current[v] = IF v = u /\ x # Same THEN x ELSE w.current[v]
                          /\ n.status[v] = w.status[v]
      /\ \A i \in Rows : n.row[i] = w.row[i]
  BY <1>0, SetCurrentIs, ThenIs
<1>2. n.closed = w.closed \union SetCurrent(u, x).closed
  BY ThenIs
<1>3. SetCurrent(u, x).closed = {}
  BY <1>0, SetCurrentIs
<1> HIDE DEF n
<1>4. Still(n)
  BY <1>1, <1>2, <1>3 DEF Removing, Still
<1>5. n.current[Admin] = Same
  BY <1>0, <1>1 DEF Removing
<1>6. \A v \in Members : n.current[v] \in {Same, None} \union (SpacesOf(v) \ {s})
  BY <1>0, <1>1 DEF Removing
<1>7. \A i \in Rows : n.row[i] # Same =>
          n.row[i] = None /\ row[i] # None /\ row[i].space = s
  BY <1>1 DEF Removing
<1>8. \A v : v \in Users /\ n.current[v] = Same => w.current[v] = Same
  BY <1>1
<1>9. ASSUME NEW i \in Rows, n.row[i] # Same
      PROVE  \/ row[i].user \in T \/ ~Exists(row[i].user)
             \/ n.current[row[i].user] # Same \/ current[row[i].user] # s
  <2>1. \/ row[i].user \in T \/ ~Exists(row[i].user)
        \/ w.current[row[i].user] # Same \/ current[row[i].user] # s
    BY <1>1, <1>9 DEF Removing
  <2>2. row[i].user \in Users
    BY <1>0, <1>7, <1>9, ReadTypes DEF Row
  <2> QED
    BY <1>8, <2>1, <2>2
<1>10. Removing(n, T, s)
  BY <1>4, <1>5, <1>6, <1>7, <1>9 DEF Removing
<1>11. ASSUME w.current[u] # Same \/ x # Same PROVE Removing(n, T \ {u}, s)
  <2>1. n.current[u] # Same
    BY <1>0, <1>1, <1>11
  <2> QED
    BY <1>4, <1>5, <1>6, <1>7, <1>9, <2>1 DEF Removing
<1> QED
  BY <1>10, <1>11 DEF n

LEMMA ReadyRemove ==
    ASSUME IInv, Alone, AInv, NEW r \in Requests,
           \/ \E U \in SUBSET Members, s \in Spaces : RemoveMembers(r, U, s)
           \/ \E u \in Members : RemoveOne(r, u) \/ OtherSpace(r, u)
    PROVE  AInv'
<1>1. ASSUME NEW U \in SUBSET Members, NEW s \in Spaces, RemoveMembers(r, U, s) PROVE AInv'
  <2> DEFINE I == {i \in RowsIn(s) : row[i].user \in U}
             w == Delete(I)
             new == [req[r] EXCEPT !.at = "remove", !.list = {}, !.todo = U, !.space = s,
                                   !.pending = w]
  <2>1. req[r].at = "in" /\ cache' = cache /\ UNCHANGED tables
    BY <1>1 DEF RemoveMembers, Starts
  <2>2. Unraced'
    BY <2>1, ReadyHere DEF Unraced
  <2>3. CASE End(r)
    BY <2>1, <2>3, EndReady
  <2>4. CASE Become(r, new)
    <3>1. /\ \A v \in Users : w.current[v] = Same /\ w.status[v] = Same
          /\ \A i \in Rows : w.row[i] = IF i \in I THEN None ELSE Same
          /\ w.closed = {}
      BY DeleteIs
    <3>2. \A i \in I : row[i] # None /\ row[i].space = s /\ row[i].user \in U
      BY DEF RowsIn
    <3>3. w \in Writes
      BY DeleteType
    <3> HIDE DEF I, w
    <3>4. Still(w) /\ w.current[Admin] = Same
      BY <3>1, ReadyHere DEF Still
    <3>5. \A u \in Members : w.current[u] = Same
      BY <3>1, ReadyHere
    <3>6. Removing(w, U, s)
      BY <3>1, <3>2, <3>4, <3>5 DEF Removing
    <3>7. new.at = "remove" /\ new.done = NoWrites /\ new.pending = w /\ new.todo = U /\ new.space = s
      BY <2>1, ReadyHere DEF Request
    <3> HIDE DEF new
    <3>8. Ready(new)
      BY <3>3, <3>6, <3>7, ThenNone DEF Ready
    <3> QED
      BY <2>1, <2>2, <2>4, <3>8, CalmReady
  <2> QED
    BY <1>1, <2>3, <2>4 DEF RemoveMembers
<1>2. ASSUME NEW u \in Members, RemoveOne(r, u) PROVE AInv'
  <2> DEFINE sent == Then(req[r].done, req[r].pending)
             flushed == [req[r] EXCEPT !.done = sent, !.pending = NoWrites]
             w == SetCurrent(u, None)
             new == [flushed EXCEPT !.at = "other", !.list = {u}, !.pending = w]
  <2>1. req[r].at = "remove" /\ u \in req[r].todo /\ UNCHANGED tables
    BY <1>2 DEF RemoveOne, GoesOn
  <2>2. sent \in Writes /\ Removing(sent, req[r].todo, req[r].space)
    BY <2>1, ReadyHere, ThenType DEF Ready
  <2>3. w \in Writes /\ u \in Users /\ w.current[u] = None
    BY ReadyHere, SetCurrentType, SetCurrentIs
  <2>4. Removing(Then(sent, w), req[r].todo, req[r].space)
    BY <2>2, <2>3, RemovingMore, ReadyHere
  <2> HIDE DEF sent, w
  <2>5. flushed \in Request /\ flushed.todo = req[r].todo /\ flushed.space = req[r].space
        /\ flushed.done = sent /\ flushed.pending = NoWrites
    BY <2>2, ReadyHere, NoWritesType DEF Request
  <2>6. CASE ~(Exists(u) /\ current[u] = req[r].space) /\ Turn(r, u, flushed)
    <3>1. Removing(sent, req[r].todo \ {u}, req[r].space)
      BY <2>2, <2>6 DEF Removing
    <3>2. Then(sent, NoWrites) = sent
      BY <2>2, ThenNone
    <3> HIDE DEF flushed
    <3> QED
      BY <2>1, <2>5, <2>6, <3>1, <3>2, ReadyTurn
  <2>7. CASE Become(r, new) /\ cache' = cache
    <3>1. new.at = "other" /\ new.done = sent /\ new.pending = w /\ new.list = {u}
          /\ new.todo = req[r].todo /\ new.space = req[r].space
      BY <2>5 DEF Request
    <3> HIDE DEF new
    <3>2. Ready(new)
      BY <2>3, <2>4, <3>1, MarkAssumption DEF Ready
    <3>3. Unraced'
      BY <2>7, ReadyHere DEF Unraced
    <3> QED
      BY <2>1, <2>7, <3>2, <3>3, CalmReady
  <2> QED
    BY <1>2, <2>6, <2>7 DEF RemoveOne, sent, w
<1>3. ASSUME NEW u \in Members, OtherSpace(r, u) PROVE AInv'
  <2> DEFINE sent == Then(req[r].done, req[r].pending)
             others == SpacesOf(u) \ {req[r].space}
  <2>1. req[r].at = "other" /\ u \in req[r].list /\ UNCHANGED tables
    BY <1>3 DEF OtherSpace, GoesOn
  <2>2. /\ sent \in Writes /\ Removing(sent, req[r].todo, req[r].space)
        /\ req[r].pending.current[u] # Same
    BY <2>1, ReadyHere, ThenType DEF Ready
  <2>3. sent.current[u] # Same
    BY <2>2, ReadyHere, ThenIs
  <2>4. PICK s \in IF others = {} THEN {Same} ELSE others :
            Turn(r, u, [req[r] EXCEPT !.done = sent, !.pending = SetCurrent(u, s)])
    BY <1>3 DEF OtherSpace
  <2>5. s \in {Same, None} \union others /\ s \in Spaces \union {None, Same}
    BY ReadTypes, ReadyHere
  <2> DEFINE w == SetCurrent(u, s)
             new == [req[r] EXCEPT !.done = sent, !.pending = w]
  <2>6. w \in Writes
    BY <2>5, ReadyHere, SetCurrentType
  <2>7. Removing(Then(sent, w), req[r].todo \ {u}, req[r].space)
    BY <2>2, <2>3, <2>5, <2>6, RemovingMore, ReadyHere
  <2>8. Turn(r, u, new)
    BY <2>4
  <2> HIDE DEF sent, w
  <2>9. new \in Request /\ new.todo = req[r].todo /\ new.space = req[r].space
        /\ new.done = sent /\ new.pending = w
    BY <2>2, <2>6, ReadyHere DEF Request
  <2> HIDE DEF new
  <2> QED
    BY <2>1, <2>7, <2>8, <2>9, ReadyTurn
<1> QED
  BY <1>1, <1>2, <1>3

\* A workspace that is deleted with its memberships leaves the others as they
\* were, and nobody was moved to it.
LEMMA CloseFits ==
    ASSUME TypeOK, WorksWhereMember, NEW d, NEW s, Closing(d, s), NEW w,
           \A u \in Users : w.current[u] = d.current[u] /\ w.status[u] = d.status[u],
           \A i \in Rows : w.row[i] # Same => row[i].space = s,
           w.closed = {s}
    PROVE  Fits(w)
<1>0. Members \subseteq Users /\ Admin \in Users
  BY UserAssumption DEF Members
<1>1. Home \notin w.closed
  BY DEF Closing
<1>2. \A u \in Users : CurrentAfter(w, u) = CurrentAfter(d, u) /\ (ThereAfter(w, u) <=> Exists(u))
  BY DEF Closing, Still, CurrentAfter, ThereAfter, Exists
<1>3. CurrentAfter(w, Admin) \in spaces \ w.closed
  BY <1>0, <1>2 DEF Closing
<1>4. ASSUME NEW u \in Members, ThereAfter(w, u), CurrentAfter(w, u) \in spaces \ w.closed
      PROVE  \E i \in Rows : RowAfter(w, i) # None /\ RowAfter(w, i).user = u
                             /\ RowAfter(w, i).space = CurrentAfter(w, u)
  <2>1. CurrentAfter(w, u) \in SpacesOf(u)
    <3>1. CASE d.current[u] = Same
      <4>1. CurrentAfter(w, u) = current[u] /\ Exists(u)
        BY <1>0, <1>2, <1>4, <3>1 DEF CurrentAfter
      <4> QED
        BY <1>4, <4>1 DEF WorksWhereMember
    <3>2. CASE d.current[u] # Same
      <4>1. CurrentAfter(w, u) = d.current[u]
        BY <1>0, <1>2, <3>2 DEF CurrentAfter
      <4>2. d.current[u] # None
        BY <1>4, <4>1, SpaceAssumption DEF TypeOK
      <4> QED
        BY <3>2, <4>1, <4>2 DEF Closing
    <3> QED
      BY <3>1, <3>2
  <2>2. PICK i \in Rows : row[i] # None /\ row[i].user = u /\ row[i].space = CurrentAfter(w, u)
    BY <2>1, SpacesAre
  <2>3. w.row[i] = Same
    BY <1>4, <2>2
  <2> QED
    BY <2>2, <2>3 DEF RowAfter
<1> QED
  BY <1>1, <1>3, <1>4 DEF Fits

\* The administrator leaves a workspace that is to be deleted.
LEMMA ReadyOwn ==
    ASSUME IInv, Alone, AInv, NEW r \in Requests,
           (\E s \in Spaces : DeleteSpace(r, s)) \/ OwnSpace(r)
    PROVE  AInv'
<1>1. ASSUME NEW s \in Spaces, DeleteSpace(r, s) PROVE AInv'
  <2> DEFINE at == IF req[r].info.current = s THEN "own" ELSE "members"
             new == [req[r] EXCEPT !.space = s, !.at = at]
  <2>1. /\ req[r].at = "in" /\ req[r].user = Admin /\ UNCHANGED tables /\ cache' = cache
    BY <1>1 DEF DeleteSpace, Starts, IsAdmin
  <2>2. Unraced'
    BY <2>1, ReadyHere DEF Unraced
  <2>3. CASE End(r)
    BY <2>1, <2>3, EndReady
  <2>4. CASE s # Home /\ Become(r, new)
    <3>1. new.at = at /\ new.space = s /\ new.done = NoWrites /\ new.pending = NoWrites
      BY <2>1, ReadyHere DEF Request
    <3> HIDE DEF new
    <3>2. req[r].info.current = current[Admin] /\ current[Admin] \in spaces
      BY <2>1, ReadyHere DEF Ready, WorksWhereMember
    <3>3. at = "members" => Closing(NoWrites, s)
      <4>1. ASSUME at = "members" PROVE CurrentAfter(NoWrites, Admin) \in spaces \ {s}
        BY <3>2, <4>1, NoWritesAre, ReadyHere DEF CurrentAfter
      <4>2. Still(NoWrites) /\ SameRows(NoWrites)
        BY NoWritesAre DEF Still, SameRows
      <4>3. \A u \in Members : NoWrites.current[u] = Same
        BY NoWritesAre, ReadyHere
      <4> QED
        BY <2>4, <4>1, <4>2, <4>3 DEF Closing
    <3>4. Ready(new)
      BY <2>4, <3>1, <3>3 DEF Ready
    <3> QED
      BY <2>1, <2>2, <2>4, <3>4, CalmReady
  <2> QED
    BY <1>1, <2>3, <2>4 DEF DeleteSpace
<1>2. CASE OwnSpace(r)
  <2> DEFINE w == SetCurrent(Admin, Home)
             new == [req[r] EXCEPT !.at = "members", !.done = w]
  <2>1. /\ req[r].at = "own" /\ UNCHANGED tables /\ Become(r, new)
    BY <1>2 DEF OwnSpace, GoesOn
  <2>2. \A v \in Users : cache'[v] \in {cache[v], None}
    BY <1>2, DropLate DEF OwnSpace
  <2>3. Unraced'
    BY <2>2, DropUnraced, ReadyHere
  <2>4. /\ \A v \in Users : w.current[v] = (IF v = Admin THEN Home ELSE Same) /\ w.status[v] = Same
        /\ \A i \in Rows : w.row[i] = Same
        /\ w.closed = {}
    BY UserAssumption, SetCurrentIs
  <2> HIDE DEF w
  <2>5. new.at = "members" /\ new.done = w /\ new.pending = NoWrites /\ new.space = req[r].space
    BY <2>1, ReadyHere DEF Request
  <2> HIDE DEF new
  <2>6. req[r].space # Home
    BY <2>1, ReadyHere DEF Ready
  <2>7. CurrentAfter(w, Admin) = Home
    BY <2>4, UserAssumption, SpaceAssumption DEF CurrentAfter
  <2>8. \A u \in Members : w.current[u] = Same
    BY <2>4, ReadyHere
  <2>9. Closing(w, req[r].space)
    BY <2>4, <2>6, <2>7, <2>8, ReadyHere DEF Closing, Still, SameRows
  <2>10. Ready(new)
    BY <2>5, <2>9 DEF Ready
  <2> QED
    BY <2>1, <2>3, <2>10, CalmReady
<1> QED
  BY <1>1, <1>2

\* The members move, and the workspace is deleted.
LEMMA ReadyClose ==
    ASSUME IInv, Alone, AInv, NEW r \in Requests,
           \/ DropRecords(r) \/ PlanMoves(r)
           \/ \E u \in Users : MoveOne(r, u)
           \/ CutMemberships(r)
    PROVE  AInv'
<1>0. /\ req[r].at \in {"members", "plan", "reset"} /\ UNCHANGED tables
      /\ \A v \in Users : cache'[v] \in {cache[v], None}
  BY DropLate DEF DropRecords, PlanMoves, MoveOne, CutMemberships, GoesOn
<1>a. req[r].pending = NoWrites /\ Closing(req[r].done, req[r].space)
  BY <1>0, ReadyHere DEF Ready
<1>b. Unraced'
  BY <1>0, DropUnraced, ReadyHere
<1> DEFINE out == [NoWrites EXCEPT !.closed = {req[r].space}]
<1>c. /\ \A v \in Users : out.current[v] = Same /\ out.status[v] = Same
      /\ \A i \in Rows : out.row[i] = Same
      /\ out.closed = {req[r].space}
  BY DEF NoWrites
<1>d. out \in Writes
  BY NoWritesType, ReadyHere DEF Writes
<1> HIDE DEF out
<1>1. CASE DropRecords(r)
  <2> DEFINE handled == [req[r] EXCEPT !.at = "handled", !.pending.closed = {req[r].space}]
             plan == [req[r] EXCEPT !.at = "plan"]
             w == Then(req[r].done, out)
  <2>1. CASE Become(r, handled)
    <3>1. handled.at = "handled" /\ handled.done = req[r].done /\ handled.pending = out
      BY <1>a, ReadyHere DEF Request, out
    <3> HIDE DEF handled
    <3>2. \A u \in Users : w.current[u] = req[r].done.current[u] /\ w.status[u] = req[r].done.status[u]
      BY <1>c, <1>d, ThenIs, ReadyHere
    <3>3. \A i \in Rows : w.row[i] = Same
      BY <1>a, <1>c, <1>d, ThenIs, ReadyHere DEF Closing, SameRows
    <3>4. w.closed = req[r].done.closed \union out.closed
      BY <1>d, ThenIs, ReadyHere
    <3> HIDE DEF w
    <3>5. w.closed = {req[r].space}
      BY <1>a, <1>c, <3>4 DEF Closing, Still
    <3>6. Fits(w)
      BY <1>a, <3>2, <3>3, <3>5, CloseFits, ReadyHere
    <3>7. Ready(handled)
      BY <3>1, <3>6 DEF Ready, w
    <3> QED
      BY <1>0, <1>b, <2>1, <3>7, CalmReady
  <2>2. CASE Become(r, plan)
    <3>1. plan.at = "plan" /\ plan.done = req[r].done /\ plan.pending = NoWrites
          /\ plan.space = req[r].space
      BY <1>a, ReadyHere DEF Request
    <3> HIDE DEF plan
    <3>2. Ready(plan)
      BY <1>a, <3>1 DEF Ready
    <3> QED
      BY <1>0, <1>b, <2>2, <3>2, CalmReady
  <2> QED
    BY <1>1, <2>1, <2>2 DEF DropRecords
<1>2. CASE PlanMoves(r)
  <2>1. PICK plan \in [Users -> Spaces \union {None, Same}], x \in LastRead(req[r].space) :
            /\ \A u \in Users : plan[u] \in Moves(u, req[r].space, x)
            /\ Become(r, [req[r] EXCEPT !.at = "reset", !.plan = plan])
    BY <1>2 DEF PlanMoves
  <2> DEFINE new == [req[r] EXCEPT !.at = "reset", !.plan = plan]
  <2>2. new.at = "reset" /\ new.done = req[r].done /\ new.pending = NoWrites
        /\ new.space = req[r].space /\ new.plan = plan
    BY <1>a, ReadyHere DEF Request
  <2>3. Become(r, new)
    BY <2>1
  <2> HIDE DEF new
  <2>4. MembersOf(req[r].space) \in SUBSET Members
    BY ReadTypes, ReadyHere
  <2>5. plan[Admin] = Same
    BY <2>1, <2>4, ReadyHere DEF Moves
  <2>6. \A u \in Members : plan[u] \in {Same, None} \union SpacesOf(u)
    BY <2>1, ReadyHere DEF Moves, Changed
  <2>7. Ready(new)
    BY <1>a, <2>2, <2>5, <2>6 DEF Ready
  <2> QED
    BY <1>0, <1>b, <2>3, <2>7, CalmReady
<1>3. ASSUME NEW u \in Users, MoveOne(r, u) PROVE AInv'
  <2> DEFINE p == req[r].plan
             v == SetCurrent(u, p[u])
             w == Then(req[r].done, v)
             new == [req[r] EXCEPT !.plan[u] = Same, !.done = w]
  <2>1. req[r].at = "reset" /\ p[u] # Same /\ Become(r, new)
    BY <1>3 DEF MoveOne, GoesOn
  <2>2. p \in [Users -> Spaces \union {None, Same}]
    BY ReadyHere DEF Request
  <2>3. p[Admin] = Same /\ \A x \in Members : p[x] \in {Same, None} \union SpacesOf(x)
    BY <2>1, ReadyHere DEF Ready
  <2>4. u \in Members
    BY <2>1, <2>3 DEF Members
  <2>5. v \in Writes
    BY <2>2, SetCurrentType
  <2>6. /\ \A x \in Users : /\ v.current[x] = IF x = u THEN p[u] ELSE Same
                            /\ v.status[x] = Same
        /\ \A i \in Rows : v.row[i] = Same
        /\ v.closed = {}
    BY SetCurrentIs
  <2> HIDE DEF v
  <2>7. /\ \A x \in Users : /\ w.current[x] = IF x = u THEN p[u] ELSE req[r].done.current[x]
                            /\ w.status[x] = req[r].done.status[x]
        /\ \A i \in Rows : w.row[i] = req[r].done.row[i]
        /\ w.closed = req[r].done.closed \union v.closed
    <3>1. \A x \in Users : w.current[x] = IF x = u THEN p[u] ELSE req[r].done.current[x]
      BY <2>1, <2>5, <2>6, ThenIs, ReadyHere
    <3>2. \A x \in Users : w.status[x] = req[r].done.status[x]
      BY <2>5, <2>6, ThenIs, ReadyHere
    <3>3. \A i \in Rows : w.row[i] = req[r].done.row[i]
      BY <2>5, <2>6, ThenIs, ReadyHere
    <3>4. w.closed = req[r].done.closed \union v.closed
      BY <2>5, ThenIs, ReadyHere
    <3> QED
      BY <3>1, <3>2, <3>3, <3>4
  <2>8. new.at = "reset" /\ new.done = w /\ new.pending = NoWrites /\ new.space = req[r].space
        /\ \A x \in Users : new.plan[x] = IF x = u THEN Same ELSE p[x]
    BY <1>a, <2>1, <2>2, ReadyHere DEF Request
  <2> HIDE DEF w, new
  <2>9. Still(w) /\ SameRows(w)
    BY <1>a, <2>6, <2>7 DEF Closing, Still, SameRows
  <2>10. CurrentAfter(w, Admin) = CurrentAfter(req[r].done, Admin)
    BY <2>4, <2>7, ReadyHere DEF CurrentAfter
  <2>11. \A x \in Members : w.current[x] \in {Same, None} \union SpacesOf(x)
    BY <1>a, <2>3, <2>4, <2>7, ReadyHere DEF Closing
  <2>12. Closing(w, req[r].space)
    BY <1>a, <2>9, <2>10, <2>11 DEF Closing
  <2>13. new.plan[Admin] = Same /\ \A x \in Members : new.plan[x] \in {Same, None} \union SpacesOf(x)
    BY <2>3, <2>8, ReadyHere
  <2>14. Ready(new)
    BY <2>8, <2>12, <2>13 DEF Ready
  <2> QED
    BY <1>0, <1>b, <2>1, <2>14, CalmReady
<1>4. CASE CutMemberships(r)
  <2> DEFINE I == RowsIn(req[r].space)
             d == Then(req[r].done, Delete(I))
             w == Then(d, out)
             new == [req[r] EXCEPT !.at = "handled", !.done = d,
                                   !.pending.closed = {req[r].space}]
  <2>1. Become(r, new)
    BY <1>4 DEF CutMemberships
  <2>2. d \in Writes
    BY DeleteType, ThenType, ReadyHere
  <2>3. new.at = "handled" /\ new.done = d /\ new.pending = out
    BY <1>a, <2>2, ReadyHere DEF Request, out
  <2> HIDE DEF new
  <2>4. /\ \A u \in Users : d.current[u] = req[r].done.current[u] /\ d.status[u] = req[r].done.status[u]
        /\ \A i \in Rows : d.row[i] # Same => i \in I
    BY <1>a, DeleteType, DeleteIs, ThenIs, ReadyHere DEF Closing, SameRows
  <2>5. d.closed = req[r].done.closed \union Delete(I).closed
    BY DeleteType, ThenIs, ReadyHere
  <2>6. d.closed = {}
    BY <1>a, <2>5, DeleteIs DEF Closing, Still
  <2> HIDE DEF d
  <2>7. \A u \in Users : w.current[u] = req[r].done.current[u] /\ w.status[u] = req[r].done.status[u]
    BY <1>c, <1>d, <2>2, <2>4, ThenIs
  <2>8. \A i \in Rows : w.row[i] # Same => row[i].space = req[r].space
    BY <1>c, <1>d, <2>2, <2>4, ThenIs DEF RowsIn
  <2>9. w.closed = d.closed \union out.closed
    BY <1>d, <2>2, ThenIs
  <2> HIDE DEF w
  <2>10. w.closed = {req[r].space}
    BY <1>c, <2>6, <2>9
  <2>11. Fits(w)
    BY <1>a, <2>7, <2>8, <2>10, CloseFits, ReadyHere
  <2>12. Ready(new)
    BY <2>3, <2>11 DEF Ready, w
  <2> QED
    BY <1>0, <1>b, <2>1, <2>12, CalmReady
<1> QED
  BY <1>1, <1>2, <1>3, <1>4

LEMMA ReadyInit == Init => AInv
<1> SUFFICES ASSUME Init PROVE AInv
  OBVIOUS
<1>1. \A r \in Requests : Ready(req[r])
  BY ReadyIdle DEF Init
<1>2. Unraced
  BY DEF Init, Unraced
<1>3. WorksWhereMember /\ Home \in spaces
  <2>1. None \notin spaces /\ Home \in spaces /\ current[Admin] \in spaces
    BY SpaceAssumption DEF Init
  <2>2. \A u \in Members : current[u] = None \/ current[u] \in SpacesOf(u)
    BY DEF Init
  <2> QED
    BY <2>1, <2>2 DEF WorksWhereMember
<1> QED
  BY <1>1, <1>2, <1>3 DEF AInv, Settled

LEMMA ReadyNext == Alone /\ IInv /\ AInv /\ [Next]_vars => AInv'
<1> SUFFICES ASSUME Alone, IInv, AInv, [Next]_vars PROVE AInv'
  OBVIOUS
<1>1. ASSUME UNCHANGED tables, \A r \in Requests : req'[r] \in {req[r], Idle}, Unraced'
      PROVE  AInv'
  <2>1. ASSUME NEW r \in Requests PROVE Ready(req[r])'
    <3>1. PICK q : q = req'[r]
      OBVIOUS
    <3>2. Ready(q)
      BY <1>1, <3>1, ReadyIdle DEF AInv
    <3>3. Ready(q)'
      BY <1>1, <3>2, ReadySame
    <3> QED
      BY <3>1, <3>3 DEF Ready, EditReady, EraseReady, GoneReady
  <2>2. WorksWhereMember' /\ (Home \in spaces)'
    BY <1>1 DEF AInv, Settled, WorksWhereMember, tables, Exists, SpacesOf, RowsOf
  <2> QED
    BY <1>1, <2>1, <2>2 DEF AInv, Settled
<1>2. ASSUME NEW u \in Users, Expire(u) PROVE AInv'
  <2>1. Unraced'
    BY <1>2, DropLate, DropUnraced DEF Expire, AInv, Settled
  <2> QED
    BY <1>1, <1>2, <2>1 DEF Expire
<1>3. CASE Restart
  <2>1. Unraced'
    BY <1>3 DEF Restart, Unraced
  <2>2. \A r \in Requests : req'[r] = Idle
    BY <1>3 DEF Restart
  <2> QED
    BY <1>1, <1>3, <2>1, <2>2 DEF Restart
<1>4. CASE UNCHANGED vars
  <2>1. Unraced'
    BY <1>4 DEF vars, Unraced, AInv, Settled
  <2> QED
    BY <1>1, <1>4, <2>1 DEF vars, tables
<1>5. ASSUME NEW r \in Requests, UserHandler(r) PROVE AInv'
  BY <1>5, ReadyChoice, ReadyEdit, ReadyMemberships, ReadyErase, ReadyStatus, ReadyDelete DEF UserHandler
<1>6. ASSUME NEW r \in Requests, MemberHandler(r) PROVE AInv'
  BY <1>6, ReadyAdd, ReadyWeight, ReadyRemove DEF MemberHandler
<1>7. ASSUME NEW r \in Requests, SpaceHandler(r) PROVE AInv'
  BY <1>7, ReadyOwn, ReadyClose DEF SpaceHandler
<1> QED
  BY <1>2, <1>3, <1>4, <1>5, <1>6, <1>7, ReadyRest, ReadyFill, ReadyCommit
     DEF Next, Authenticate, Handle, Finish

\* While requests come one at a time, everybody works in a workspace of their
\* own memberships, in none, or in one that has been deleted, whatever the
\* users, the workspaces and the requests: the handlers of api/user.py and
\* api/workspace.py keep sys_user.oid and sys_user_ws together.
THEOREM WorksAlone ==
    ASSUME Alone
    PROVE  Spec => []WorksWhereMember
<1>1. IInv /\ AInv => WorksWhereMember
  BY DEF AInv, Settled
<1>2. Alone /\ IInv /\ AInv /\ [Next]_vars => (IInv /\ AInv)'
  BY KeepNext, ReadyNext
<1>3. Init => IInv /\ AInv
  BY KeepInit, ReadyInit
<1> QED
  BY <1>1, <1>2, <1>3, PTL DEF Spec

===============================================================================
