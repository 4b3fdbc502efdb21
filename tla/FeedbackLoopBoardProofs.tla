------------------------ MODULE FeedbackLoopBoardProofs ------------------------
(***************************************************************************)
(* The life of a patch (PatchLifecycle), the refinement of OverrideBoard   *)
(* (BoardSpec), for any number of server processes; then what a            *)
(* transaction that overlaps no other gets right, and what follows where   *)
(* there is only one process, as in the shipped deployment.                *)
(*                                                                         *)
(* The first two rest on what stays true of the rows a transaction loaded  *)
(* while others commit: numbers are never handed out twice (NumbersInv),   *)
(* the event a transaction adds is not yet on record and says why its      *)
(* patches end (EventsInv), and what a delete did not see is newer than    *)
(* what it takes away (GoneInv).  The rest follows from this: while a      *)
(* transaction has been alone since it opened, what it loaded is still     *)
(* what is committed (SoloTx), for only its own commit can change it.      *)
(***************************************************************************)
EXTENDS FeedbackLoopBoard, FeedbackLoopProofs

\* The patches a transaction loaded in order to end or delete them.
Loaded(t) == t.loaded \union t.held

\* The numbers a correction drew are nobody else's.
NumbersInv ==
    /\ \A w \in Workers : Loaded(tx[w]) \subseteq 1..lastPatch
    /\ \A w \in Workers :
          /\ \A p \in Added(tx[w]) : patches[p] = NoRow
          /\ \A v \in Workers : Added(tx[w]) \intersect Loaded(tx[v]) = {}
          /\ \A v \in Workers \ {w} : Added(tx[w]) \intersect Added(tx[v]) = {}

\* The event a transaction adds is new, and a reason for what it ends.
NewEvent(w) ==
    tx[w].row # NoRow =>
       /\ tx[w].row.resource = tx[w].resource
       /\ tx[w].row.type = "manual_fix_submit" => tx[w].op = "submit"
       /\ tx[w].row.no <= lastEvent
       /\ events[tx[w].row.no] = NoRow
       /\ \A p \in Loaded(tx[w]) :
             patches[p] # NoRow => Ends(tx[w].row, p, patches[p])

EventsInv ==
    /\ \A e \in EventIds : events[e] # NoRow => e <= lastEvent
    /\ \A w \in Workers : NewEvent(w)
    /\ \A v, w \in Workers :
          v # w /\ tx[v].row # NoRow /\ tx[w].row # NoRow
          => tx[v].row.no # tx[w].row.no

\* A patch that appeared since a delete looked is the newest of its key.
NewerThanGone(w) ==
    tx[w].op = "delete" =>
       \A p \in Loaded(tx[w]) : patches[p] # NoRow =>
          /\ patches[p].resource = tx[w].resource
          /\ \A q \in PatchIds \ Loaded(tx[w]) :
                patches[q] # NoRow /\ Key(patches[q]) = Key(patches[p]) => p < q

GoneInv == \A w \in Workers : NewerThanGone(w)

HInv == IInv /\ NumbersInv /\ EventsInv /\ GoneInv

------------------------------------------------------------------------------
(* The kinds of steps *)

Opens(w) ==
    /\ OthersKept(w) /\ UNCHANGED <<patches, events, lastPatch>>
    /\ Added(tx'[w]) = {}
    /\ \A p \in Loaded(tx'[w]) : p \in PatchIds /\ patches[p] # NoRow
    /\ IF tx'[w].row = NoRow
       THEN lastEvent' = lastEvent
       ELSE /\ lastEvent' = lastEvent + 1 /\ tx'[w].row.no = lastEvent + 1
            /\ lastEvent + 1 \in EventIds
            /\ tx'[w].row.resource = tx'[w].resource
            /\ tx'[w].row.type = "manual_fix_submit" => tx'[w].op = "submit"
            /\ \A p \in Loaded(tx'[w]) : Ends(tx'[w].row, p, patches[p])
    /\ tx'[w].op = "delete" => Loaded(tx'[w]) = PatchesOf(tx'[w].resource)

\* It may draw a number, load rows its event ends, and forget rows it found
\* gone.
Moves(w) ==
    /\ OthersKept(w) /\ UNCHANGED <<patches, events, lastEvent>>
    /\ tx'[w].op = tx[w].op
    /\ tx'[w].row = tx[w].row /\ tx'[w].resource = tx[w].resource
    /\ lastPatch' >= lastPatch /\ lastPatch' \in Nat
    /\ Added(tx'[w]) \subseteq Added(tx[w]) \union (lastPatch + 1)..lastPatch'
    /\ \A p \in Loaded(tx'[w]) \ Loaded(tx[w]) :
          /\ p \in PatchIds /\ patches[p] # NoRow
          /\ tx[w].op # "delete" /\ Ends(tx[w].row, p, patches[p])
    /\ \A p \in Loaded(tx[w]) \ Loaded(tx'[w]) : patches[p] = NoRow

Closes(w) ==
    /\ OthersKept(w) /\ tx'[w] = Idle /\ UNCHANGED <<lastPatch, lastEvent>>
    /\ UNCHANGED <<patches, events>> \/ CommitFeedback(w) \/ CommitDelete(w)

Rests == UNCHANGED <<tx, patches, events, lastPatch, lastEvent>>

LEMMA SubmitOpens ==
    ASSUME TypeInv, NEW w \in Workers, NEW r \in ResourceIds, NEW s \in Submissions,
           SubmitFeedbackEvent(w, r, s)
    PROVE  Opens(w)
<1>1. PICK t \in TxRow :
         /\ Open(w, t) /\ TxShape(t) /\ t.held = {} /\ t.ids = <<>>
         /\ t.op = "submit" /\ t.resource = r
         /\ t.row \in EventRow /\ t.row.no = lastEvent + 1 /\ t.row.resource = r
         /\ \A p \in t.loaded : /\ p \in PatchIds /\ patches[p] # NoRow
                                /\ patches[p].resource = r
                                /\ Key(patches[p]) = KeyAt(t, 1)
                                /\ Len(Listed(t)) > 0
  BY SubmitTx
<1>2. UNCHANGED <<patches, events, lastPatch>> /\ lastEvent' = lastEvent + 1
  BY DEF SubmitFeedbackEvent, tables
<1>3. lastEvent + 1 \in EventIds
  BY BoundsAssumption DEF TypeInv, TypeOK, SubmitFeedbackEvent, EventIds
<1>4. OthersKept(w) /\ SameTx(tx'[w], t)
  BY <1>1, OpenStep DEF TypeInv
<1>5. \A p \in t.loaded : Ends(t.row, p, patches[p])
  <2> SUFFICES ASSUME NEW p \in t.loaded PROVE Ends(t.row, p, patches[p])
    OBVIOUS
  <2>1. Key(patches[p]) = KeyAt(t, 1) /\ Len(Listed(t)) > 0 /\ patches[p].resource = r
    BY <1>1
  <2>2. t.row.type = "manual_fix_submit" /\ Listed(t) = t.row.patchTypes
    BY <2>1 DEF Listed
  <2>3. 1 \in DOMAIN t.row.patchTypes
    <3>1. t.row.patchTypes \in Seq(PatchTypes)
      BY <1>1 DEF EventRow
    <3> QED
      BY <2>1, <2>2, <3>1
  <2>4. KeyAt(t, 1) = <<r, t.row.patchTypes[1], t.row.question, t.row.matchedSql>>
    BY <1>1, <2>2 DEF KeyAt
  <2> QED
    BY <1>1, <2>1, <2>2, <2>3, <2>4 DEF Ends
<1>6. Added(tx'[w]) = {} /\ Loaded(tx'[w]) = t.loaded
  BY <1>1, <1>4 DEF SameTx, Added, Loaded
<1>7. tx'[w].row = t.row /\ tx'[w].op = "submit" /\ tx'[w].resource = r
  BY <1>1, <1>4 DEF SameTx
<1>8. t.row # NoRow
  BY <1>1, NoRowAssumption
<1> QED
  BY <1>1, <1>2, <1>3, <1>4, <1>5, <1>6, <1>7, <1>8 DEF Opens

LEMMA DisableOpens ==
    ASSUME TypeInv, NEW w \in Workers, NEW r \in ResourceIds, NEW p \in PatchIds,
           DisablePatch(w, r, p)
    PROVE  Opens(w)
<1>1. PICK t \in TxRow :
         /\ Open(w, t) /\ t.held = {} /\ t.ids = <<>>
         /\ t.op = "disable" /\ t.resource = r
         /\ t.row \in EventRow /\ t.row.no = lastEvent + 1 /\ t.row.resource = r
         /\ t.row.type = "manual_fix_disable" /\ t.row.patch = p
         /\ \A o \in t.loaded : o = p
  BY DisableTx
<1>2. UNCHANGED <<patches, events, lastPatch>> /\ lastEvent' = lastEvent + 1
  BY DEF DisablePatch, tables
<1>3. lastEvent + 1 \in EventIds
  BY BoundsAssumption DEF TypeInv, TypeOK, DisablePatch, EventIds
<1>4. OthersKept(w) /\ SameTx(tx'[w], t)
  BY <1>1, OpenStep DEF TypeInv
<1>5. patches[p] # NoRow /\ Ends(t.row, p, patches[p])
  BY <1>1 DEF DisablePatch, PatchesOf, Ends
<1>6. Added(tx'[w]) = {} /\ Loaded(tx'[w]) = t.loaded
  BY <1>1, <1>4 DEF SameTx, Added, Loaded
<1>7. tx'[w].row = t.row /\ tx'[w].op = "disable" /\ tx'[w].resource = r
  BY <1>1, <1>4 DEF SameTx
<1>8. t.row # NoRow
  BY <1>1, NoRowAssumption
<1> QED
  BY <1>1, <1>2, <1>3, <1>4, <1>5, <1>6, <1>7, <1>8 DEF Opens

LEMMA GetMetricOpens ==
    ASSUME TypeInv, NEW w \in Workers, NEW r \in ResourceIds, GetFeedbackMetric(w, r)
    PROVE  Opens(w)
<1>1. PICK t \in TxRow :
         /\ Open(w, t) /\ t.held = {} /\ t.ids = <<>> /\ t.loaded = {}
         /\ t.op = "metric" /\ t.row = NoRow
  BY GetMetricTx
<1>2. UNCHANGED <<patches, events, lastPatch, lastEvent>>
  BY DEF GetFeedbackMetric, tables, sequences
<1>3. OthersKept(w) /\ SameTx(tx'[w], t)
  BY <1>1, OpenStep DEF TypeInv
<1>4. /\ Added(tx'[w]) = {} /\ Loaded(tx'[w]) = {}
      /\ tx'[w].row = NoRow /\ tx'[w].op = "metric"
  BY <1>1, <1>3 DEF SameTx, Added, Loaded
<1> QED
  BY <1>2, <1>3, <1>4 DEF Opens

LEMMA DeleteOpens ==
    ASSUME TypeInv, NEW w \in Workers, NEW r \in ResourceIds, DeleteResource(w, r)
    PROVE  Opens(w)
<1>1. PICK t \in TxRow :
         /\ Open(w, t) /\ t.held = {} /\ t.ids = <<>> /\ t.loaded = PatchesOf(r)
         /\ t.op = "delete" /\ t.row = NoRow /\ t.resource = r
  BY DeleteTx
<1>2. UNCHANGED <<patches, events, lastPatch, lastEvent>>
  BY DEF DeleteResource, tables, sequences
<1>3. OthersKept(w) /\ SameTx(tx'[w], t)
  BY <1>1, OpenStep DEF TypeInv
<1>4. /\ Added(tx'[w]) = {} /\ Loaded(tx'[w]) = PatchesOf(r)
      /\ tx'[w].row = NoRow /\ tx'[w].resource = r
  BY <1>1, <1>3 DEF SameTx, Added, Loaded
<1>5. \A p \in PatchesOf(r) : p \in PatchIds /\ patches[p] # NoRow
  BY DEF PatchesOf
<1> QED
  BY <1>2, <1>3, <1>4, <1>5 DEF Opens

LEMMA WriteMoves ==
    ASSUME TypeInv, NEW w \in Workers, WritePatch(w)
    PROVE  Moves(w)
<1>1. PICK t \in TxRow, p \in tx[w].loaded :
         /\ tx' = [tx EXCEPT ![w] = t] /\ tx'[w] = t
         /\ t.op = tx[w].op /\ t.resource = tx[w].resource /\ t.row = tx[w].row
         /\ t.loaded = tx[w].loaded \ {p}
         /\ patches[p] = NoRow => t.held = tx[w].held
         /\ patches[p] # NoRow => t.held = tx[w].held \union {p}
         /\ Added(t) = Added(tx[w])
  BY WriteTx
<1>2. UNCHANGED <<patches, events, lastEvent, lastPatch>> /\ lastPatch \in Nat
  BY BoundsAssumption DEF WritePatch, tables, sequences, TypeInv, TypeOK
<1>3. OthersKept(w)
  BY <1>1, ChangeStep DEF TypeInv
<1>4. /\ Loaded(t) \subseteq Loaded(tx[w])
      /\ \A o \in Loaded(tx[w]) \ Loaded(t) : patches[o] = NoRow
  BY <1>1 DEF Loaded
<1> QED
  BY <1>1, <1>2, <1>3, <1>4 DEF Moves

LEMMA InsertMoves ==
    ASSUME TypeInv, EventsInv, NEW w \in Workers, InsertPatch(w)
    PROVE  Moves(w)
<1>1. lastPatch \in Nat /\ lastPatch' = lastPatch + 1
  BY InsertTx
<1>2. PICK t \in TxRow :
         /\ tx' = [tx EXCEPT ![w] = t] /\ tx'[w] = t
         /\ t.op = "submit" /\ tx[w].op = "submit" /\ t.resource = tx[w].resource
         /\ t.row = tx[w].row /\ t.row \in EventRow /\ t.row.type = "manual_fix_submit"
         /\ t.held = tx[w].held /\ tx[w].loaded = {}
         /\ \A p \in t.loaded : /\ p \in PatchIds /\ patches[p] # NoRow
                                /\ patches[p].resource = t.resource
                                /\ \E i \in 1..Len(Listed(t)) :
                                      Key(patches[p]) = KeyAt(t, i)
         /\ Added(t) = Added(tx[w]) \union {lastPatch'}
  BY InsertTx
<1>3. UNCHANGED <<patches, events, lastEvent>>
  BY DEF InsertPatch, tables
<1>4. OthersKept(w)
  BY <1>2, ChangeStep DEF TypeInv
<1>5. Listed(t) = t.row.patchTypes /\ DOMAIN t.row.patchTypes = 1..Len(t.row.patchTypes)
  BY <1>2 DEF Listed, EventRow
<1>6. t.row.resource = t.resource
  <2>1. t.row # NoRow
    BY <1>2, NoRowAssumption
  <2> QED
    BY <1>2, <2>1 DEF EventsInv, NewEvent
<1>7. \A p \in t.loaded : Ends(t.row, p, patches[p])
  BY <1>2, <1>5, <1>6 DEF Ends, KeyAt
<1>8. Loaded(t) \ Loaded(tx[w]) \subseteq t.loaded /\ Loaded(tx[w]) \subseteq Loaded(t)
  BY <1>2 DEF Loaded
<1>9. lastPatch' \in (lastPatch + 1)..lastPatch' /\ lastPatch' \in Nat /\ lastPatch' >= lastPatch
  BY <1>1
<1>10. Added(t) \subseteq Added(tx[w]) \union (lastPatch + 1)..lastPatch'
  BY <1>2, <1>9
<1> QED
  BY <1>2, <1>3, <1>4, <1>7, <1>8, <1>9, <1>10 DEF Moves

LEMMA CountMoves ==
    ASSUME TypeInv, NEW w \in Workers, CountFeedback(w)
    PROVE  Moves(w)
<1>1. PICK t \in TxRow :
         /\ tx' = [tx EXCEPT ![w] = t] /\ tx'[w] = t
         /\ t.op = tx[w].op /\ t.resource = tx[w].resource /\ t.row = tx[w].row
         /\ t.loaded = {} /\ tx[w].loaded = {} /\ t.held = tx[w].held
         /\ Added(t) = Added(tx[w])
  BY CountTx
<1>2. UNCHANGED <<patches, events, lastEvent, lastPatch>> /\ lastPatch \in Nat
  BY BoundsAssumption DEF CountFeedback, tables, sequences, TypeInv, TypeOK
<1>3. OthersKept(w)
  BY <1>1, ChangeStep DEF TypeInv
<1>4. Loaded(t) = Loaded(tx[w])
  BY <1>1 DEF Loaded
<1> QED
  BY <1>1, <1>2, <1>3, <1>4 DEF Moves

LEMMA DeleteRemainingMoves ==
    ASSUME TypeInv, NEW w \in Workers, DeleteRemaining(w)
    PROVE  Moves(w)
<1>1. PICK t \in TxRow :
         /\ tx' = [tx EXCEPT ![w] = t] /\ tx'[w] = t
         /\ t.op = "delete" /\ tx[w].op = "delete" /\ t.resource = tx[w].resource
         /\ t.row = NoRow /\ tx[w].row = NoRow
         /\ t.loaded = {} /\ tx[w].loaded = {} /\ t.held = tx[w].held
         /\ Added(t) = Added(tx[w])
  BY DeleteRemainingTx
<1>2. UNCHANGED <<patches, events, lastEvent, lastPatch>> /\ lastPatch \in Nat
  BY BoundsAssumption DEF DeleteRemaining, tables, sequences, TypeInv, TypeOK
<1>3. OthersKept(w)
  BY <1>1, ChangeStep DEF TypeInv
<1>4. Loaded(t) = Loaded(tx[w])
  BY <1>1 DEF Loaded
<1> QED
  BY <1>1, <1>2, <1>3, <1>4 DEF Moves

LEMMA EndCloses ==
    ASSUME TypeInv, NEW w \in Workers,
           \/ CommitFeedback(w) \/ FailRequest(w) \/ Crash(w)
           \/ CommitDelete(w) \/ DeleteNotFound(w)
    PROVE  Closes(w)
<1>1. Close(w) /\ UNCHANGED sequences
  BY DEF CommitFeedback, FailRequest, Crash, CommitDelete, DeleteNotFound
<1>2. OthersKept(w) /\ tx'[w] = Idle
  BY <1>1, CloseStep DEF TypeInv
<1>3. UNCHANGED <<patches, events>> \/ CommitFeedback(w) \/ CommitDelete(w)
  BY DEF FailRequest, Crash, DeleteNotFound, tables
<1> QED
  BY <1>1, <1>2, <1>3 DEF Closes, sequences

\* Every step opens, moves on or closes one transaction, or leaves the
\* transactions, the patches and the events alone.
LEMMA StepKinds ==
    ASSUME TypeInv, EventsInv, [Next]_vars
    PROVE  Rests \/ \E w \in Workers : Opens(w) \/ Moves(w) \/ Closes(w)
<1>1. ASSUME NEW w \in Workers, Start(w) PROVE Rests \/ Opens(w)
  <2>1. ASSUME NEW r \in ResourceIds, LearnResource(w, r) PROVE Rests
    BY <2>1 DEF LearnResource, Rests, sequences
  <2> QED
    BY <1>1, <2>1, SubmitOpens, DisableOpens, GetMetricOpens, DeleteOpens DEF Start
<1>2. ASSUME NEW w \in Workers, Proceed(w) \/ Crash(w) PROVE Moves(w) \/ Closes(w)
  BY <1>2, WriteMoves, InsertMoves, CountMoves, DeleteRemainingMoves, EndCloses DEF Proceed
<1>3. ASSUME NEW c \in Chats,
             \/ \E d \in Datasources, q \in Questions : AskQuestion(c, d, q)
             \/ RecordPatchApplyLog(c)
             \/ AbandonAnswer(c)
      PROVE  Rests
  BY <1>3 DEF AskQuestion, RecordPatchApplyLog, AbandonAnswer, tables, sequences, Rests
<1>4. PassTime \/ UNCHANGED vars => Rests
  BY DEF PassTime, vars, tables, sequences, Rests
<1> QED
  BY <1>1, <1>2, <1>3, <1>4 DEF Next

------------------------------------------------------------------------------
(* Each kind of step keeps the invariants *)

LEMMA OthersFields ==
    ASSUME NEW w \in Workers, OthersKept(w), NEW v \in Workers \ {w}
    PROVE  /\ tx'[v].op = tx[v].op
           /\ tx'[v].row = tx[v].row /\ tx'[v].resource = tx[v].resource
           /\ Loaded(tx'[v]) = Loaded(tx[v]) /\ Added(tx'[v]) = Added(tx[v])
<1>1. SameTx(tx'[v], tx[v])
  BY DEF OthersKept
<1> QED
  BY <1>1 DEF SameTx, Loaded, Added

\* A closing step keeps the key of a row; a row appears only under a number
\* its transaction drew; it goes only in a delete that loaded it.
LEMMA RowsOfClose ==
    ASSUME TypeInv, NumbersInv, NEW w \in Workers, Closes(w), NEW p \in PatchIds
    PROVE  /\ patches[p] # NoRow /\ patches'[p] # NoRow => Key(patches'[p]) = Key(patches[p])
           /\ patches[p] = NoRow /\ patches'[p] # NoRow =>
                 CommitFeedback(w) /\ p \in Added(tx[w])
           /\ patches[p] # NoRow /\ patches'[p] # patches[p] =>
                 \/ patches'[p] = NoRow
                 \/ /\ CommitFeedback(w) /\ p \in tx[w].held
                    /\ patches[p] \in PatchRow
                    /\ patches'[p] = [patches[p] EXCEPT !.status = "inactive",
                                                        !.endedBy = tx[w].row.no]
<1>1. CASE UNCHANGED <<patches, events>>
  BY <1>1
<1>2. CASE CommitFeedback(w)
  <2>1. p \in Added(tx[w]) => patches[p] = NoRow
    BY DEF NumbersInv
  <2>2. CASE p \in Added(tx[w])
    BY <1>2, <2>1, <2>2
  <2>3. CASE p \notin Added(tx[w]) /\ p \in tx[w].held
    <3>1. /\ patches[p] \in PatchRow
          /\ patches'[p] = [patches[p] EXCEPT !.status = "inactive",
                                              !.endedBy = tx[w].row.no]
      BY <1>2, <2>3, RemainingPatches
    <3>2. Key(patches'[p]) = Key(patches[p])
      BY <3>1 DEF PatchRow, Key
    <3>3. patches[p] # NoRow
      BY <3>1, NoRowAssumption
    <3> QED
      BY <1>2, <2>3, <3>1, <3>2, <3>3
  <2>4. CASE p \notin Added(tx[w]) /\ p \notin tx[w].held
    BY <1>2, <2>4, RemainingPatches
  <2> QED
    BY <2>2, <2>3, <2>4
<1>3. CASE CommitDelete(w)
  <2>1. patches'[p] = IF p \in tx[w].held THEN NoRow ELSE patches[p]
    BY <1>3 DEF CommitDelete
  <2> QED
    BY <2>1
<1> QED
  BY <1>1, <1>2, <1>3 DEF Closes

\* An event appears only as the one its transaction added.
LEMMA EventsOfClose ==
    ASSUME TypeInv, NEW w \in Workers, Closes(w), NEW e \in EventIds, events'[e] # NoRow
    PROVE  \/ events[e] # NoRow
           \/ CommitFeedback(w) /\ tx[w].row # NoRow /\ e = tx[w].row.no
<1>1. events \in [EventIds -> EventRow \union {NoRow}]
  BY DEF TypeInv, TypeOK
<1>2. CASE CommitFeedback(w)
  BY <1>1, <1>2 DEF CommitFeedback
<1>3. CASE CommitDelete(w)
  BY <1>1, <1>3 DEF CommitDelete
<1> QED
  BY <1>2, <1>3 DEF Closes

LEMMA RestsKeeps ==
    ASSUME NumbersInv, EventsInv, GoneInv, Rests
    PROVE  NumbersInv' /\ EventsInv' /\ GoneInv'
<1>1. NumbersInv'
  BY DEF NumbersInv, Rests
<1>2. EventsInv'
  BY DEF EventsInv, Rests, NewEvent
<1>3. GoneInv'
  BY DEF GoneInv, Rests, NewerThanGone
<1> QED
  BY <1>1, <1>2, <1>3

\* What a step of w must show to keep NumbersInv.
LEMMA NumbersStep ==
    ASSUME TypeInv, NumbersInv, NEW w \in Workers, OthersKept(w),
           lastPatch' \in Nat, lastPatch' >= lastPatch,
           Loaded(tx'[w]) \subseteq 1..lastPatch',
           \A p \in Added(tx'[w]) :
              /\ patches'[p] = NoRow
              /\ p \notin Loaded(tx'[w])
              /\ \A v \in Workers \ {w} : p \notin Loaded(tx[v]) /\ p \notin Added(tx[v]),
           \A v \in Workers \ {w} : \A p \in Added(tx[v]) :
              patches'[p] = NoRow /\ p \notin Loaded(tx'[w])
    PROVE  NumbersInv'
<1>1. lastPatch \in Nat
  BY BoundsAssumption DEF TypeInv, TypeOK
<1>2. \A v \in Workers : Loaded(tx'[v]) \subseteq 1..lastPatch'
  <2>1. ASSUME NEW v \in Workers, v # w PROVE Loaded(tx'[v]) \subseteq 1..lastPatch'
    <3>1. Loaded(tx'[v]) \subseteq 1..lastPatch
      BY <2>1, OthersFields DEF NumbersInv
    <3> QED
      BY <1>1, <3>1
  <2> QED
    BY <2>1
<1>3. ASSUME NEW v \in Workers
      PROVE  /\ \A p \in Added(tx'[v]) : patches'[p] = NoRow
             /\ \A u \in Workers : Added(tx'[v]) \intersect Loaded(tx'[u]) = {}
             /\ \A u \in Workers \ {v} : Added(tx'[v]) \intersect Added(tx'[u]) = {}
  <2>1. CASE v = w
    BY <2>1, OthersFields
  <2>2. CASE v # w
    <3>1. Added(tx'[v]) = Added(tx[v])
      BY <2>2, OthersFields
    <3>2. \A u \in Workers : Added(tx'[v]) \intersect Loaded(tx'[u]) = {}
      BY <2>2, <3>1, OthersFields DEF NumbersInv
    <3>3. \A u \in Workers \ {v, w} : Added(tx'[v]) \intersect Added(tx'[u]) = {}
      BY <2>2, <3>1, OthersFields DEF NumbersInv
    <3>4. Added(tx'[v]) \intersect Added(tx'[w]) = {}
      BY <2>2, <3>1
    <3> QED
      BY <2>2, <3>1, <3>2, <3>3, <3>4
  <2> QED
    BY <2>1, <2>2
<1> QED
  BY <1>2, <1>3 DEF NumbersInv

LEMMA OpensKeepsNumbers ==
    ASSUME TypeInv, FreshInv, NumbersInv, NEW w \in Workers, Opens(w)
    PROVE  NumbersInv'
<1>1. /\ lastPatch \in Nat /\ lastPatch' = lastPatch /\ patches' = patches
      /\ OthersKept(w)
  BY BoundsAssumption DEF TypeInv, TypeOK, Opens
<1>2. \A p \in Loaded(tx'[w]) : p \in PatchIds /\ patches[p] # NoRow
  BY DEF Opens
<1>3. Loaded(tx'[w]) \subseteq 1..lastPatch'
  BY <1>1, <1>2, BoundsAssumption DEF FreshInv, PatchIds
<1>4. Added(tx'[w]) = {}
  BY DEF Opens
<1>5. \A v \in Workers \ {w} : \A p \in Added(tx[v]) :
         patches'[p] = NoRow /\ p \notin Loaded(tx'[w])
  BY <1>1, <1>2 DEF NumbersInv
<1> QED
  BY <1>1, <1>3, <1>4, <1>5, NumbersStep

LEMMA MovesKeepsNumbers ==
    ASSUME TypeInv, TypeInv', FreshInv, NumbersInv, NEW w \in Workers, Moves(w)
    PROVE  NumbersInv'
<1>1. /\ lastPatch \in Nat /\ lastPatch' \in Nat /\ lastPatch' >= lastPatch
      /\ patches' = patches /\ OthersKept(w)
  BY BoundsAssumption DEF TypeInv, TypeOK, Moves
<1>2. \A v \in Workers : Loaded(tx[v]) \subseteq 1..lastPatch
  BY DEF NumbersInv
<1>3. \A p \in Loaded(tx'[w]) : \/ p \in Loaded(tx[w])
                                \/ p \in PatchIds /\ patches[p] # NoRow
  BY DEF Moves
<1>4. Loaded(tx'[w]) \subseteq 1..lastPatch
  BY <1>1, <1>2, <1>3, BoundsAssumption DEF FreshInv, PatchIds
<1>5. ASSUME NEW p \in (lastPatch + 1)..lastPatch', p \in Added(tx'[w])
      PROVE  /\ patches'[p] = NoRow
             /\ p \notin Loaded(tx'[w])
             /\ \A v \in Workers \ {w} : p \notin Loaded(tx[v]) /\ p \notin Added(tx[v])
  <2>1. p \in Nat /\ p > lastPatch
    BY <1>1
  <2>2. p \notin Loaded(tx'[w]) /\ \A v \in Workers : p \notin Loaded(tx[v])
    BY <1>1, <1>2, <1>4, <2>1
  <2>3. \A v \in Workers : p \notin Added(tx[v])
    <3>1. \A v \in Workers : Added(tx[v]) \subseteq 1..lastPatch
      BY DEF TypeInv, TxInv
    <3> QED
      BY <1>1, <2>1, <3>1
  <2>4. p \in PatchIds
    <3>1. p \in 1..lastPatch' /\ lastPatch' \in 0..MaxPatches
      BY <1>5 DEF TypeInv, TypeOK, TxInv
    <3> QED
      BY <3>1, BoundsAssumption DEF PatchIds
  <2>5. patches[p] = NoRow
    BY <1>1, <2>1, <2>4 DEF FreshInv
  <2> QED
    BY <1>1, <2>2, <2>3, <2>5
<1>6. ASSUME NEW p \in Added(tx[w])
      PROVE  /\ patches'[p] = NoRow
             /\ p \notin Loaded(tx'[w])
             /\ \A v \in Workers \ {w} : p \notin Loaded(tx[v]) /\ p \notin Added(tx[v])
  BY <1>1, <1>3 DEF NumbersInv
<1>7. \A p \in Added(tx'[w]) :
         /\ patches'[p] = NoRow
         /\ p \notin Loaded(tx'[w])
         /\ \A v \in Workers \ {w} : p \notin Loaded(tx[v]) /\ p \notin Added(tx[v])
  BY <1>5, <1>6 DEF Moves
<1>8. \A v \in Workers \ {w} : \A p \in Added(tx[v]) :
         patches'[p] = NoRow /\ p \notin Loaded(tx'[w])
  BY <1>1, <1>3 DEF NumbersInv
<1>9. Loaded(tx'[w]) \subseteq 1..lastPatch'
  BY <1>1, <1>4
<1> QED
  BY <1>1, <1>7, <1>8, <1>9, NumbersStep

LEMMA ClosesKeepsNumbers ==
    ASSUME TypeInv, NumbersInv, NEW w \in Workers, Closes(w)
    PROVE  NumbersInv'
<1>1. /\ lastPatch \in Nat /\ lastPatch' = lastPatch /\ OthersKept(w) /\ tx'[w] = Idle
  BY BoundsAssumption DEF TypeInv, TypeOK, Closes
<1>2. Loaded(tx'[w]) = {} /\ Added(tx'[w]) = {}
  <2>1. Loaded(Idle) = {} /\ Added(Idle) = {}
    BY IdleType DEF Loaded, Idle
  <2> QED
    BY <1>1, <2>1
<1>3. \A v \in Workers \ {w} : \A p \in Added(tx[v]) :
         patches'[p] = NoRow /\ p \notin Loaded(tx'[w])
  <2> SUFFICES ASSUME NEW v \in Workers \ {w}, NEW p \in Added(tx[v])
               PROVE  patches'[p] = NoRow
    BY <1>2
  <2>1. p \in PatchIds
    <3>1. p \in 1..lastPatch /\ lastPatch \in 0..MaxPatches
      BY DEF TypeInv, TypeOK, TxInv
    <3> QED
      BY <3>1, BoundsAssumption DEF PatchIds
  <2>2. patches[p] = NoRow /\ p \notin Added(tx[w])
    BY DEF NumbersInv
  <2> QED
    BY <2>1, <2>2, RowsOfClose
<1> QED
  BY <1>1, <1>2, <1>3, NumbersStep

LEMMA OpensKeepsEvents ==
    ASSUME TypeInv, EventsInv, NEW w \in Workers, Opens(w)
    PROVE  EventsInv'
<1>1. /\ lastEvent \in Nat /\ events' = events /\ patches' = patches /\ OthersKept(w)
      /\ lastEvent' \in {lastEvent, lastEvent + 1}
  BY BoundsAssumption DEF TypeInv, TypeOK, Opens
<1>2. \A e \in EventIds : e \in Nat
  BY DEF EventIds
<1>3. \A v \in Workers : tx[v].row # NoRow => tx[v].row.no \in EventIds
  <2>1. \A v \in Workers : tx[v].row # NoRow => tx[v].row \in EventRow
    BY DEF TypeInv, TypeOK, TxRow
  <2> QED
    BY <2>1 DEF EventRow
<1>4. \A e \in EventIds : events'[e] # NoRow => e <= lastEvent'
  BY <1>1, <1>2 DEF EventsInv
<1>5. \A v \in Workers \ {w} : NewEvent(v)'
  <2> TAKE v \in Workers \ {w}
  <2>1. /\ NewEvent(v) /\ tx'[v].row = tx[v].row /\ Loaded(tx'[v]) = Loaded(tx[v])
        /\ tx'[v].op = tx[v].op /\ tx'[v].resource = tx[v].resource
    BY <1>1, OthersFields DEF EventsInv
  <2>2. tx[v].row # NoRow => tx[v].row.no <= lastEvent'
    BY <1>1, <1>2, <1>3, <2>1 DEF NewEvent
  <2> QED
    BY <1>1, <2>1, <2>2 DEF NewEvent
<1>6. NewEvent(w)'
  <2> SUFFICES ASSUME tx'[w].row # NoRow
               PROVE  /\ tx'[w].row.resource = tx'[w].resource
                      /\ tx'[w].row.type = "manual_fix_submit" => tx'[w].op = "submit"
                      /\ tx'[w].row.no <= lastEvent'
                      /\ events[tx'[w].row.no] = NoRow
                      /\ \A p \in Loaded(tx'[w]) : Ends(tx'[w].row, p, patches[p])
    BY <1>1 DEF NewEvent
  <2>1. /\ lastEvent' = lastEvent + 1 /\ tx'[w].row.no = lastEvent + 1
        /\ lastEvent + 1 \in EventIds
        /\ tx'[w].row.resource = tx'[w].resource
        /\ tx'[w].row.type = "manual_fix_submit" => tx'[w].op = "submit"
        /\ \A p \in Loaded(tx'[w]) : Ends(tx'[w].row, p, patches[p])
    BY DEF Opens
  <2>2. events[lastEvent + 1] = NoRow
    BY <1>1, <2>1 DEF EventsInv
  <2> QED
    BY <1>1, <2>1, <2>2
<1>7. \A v \in Workers \ {w} : tx'[v].row # NoRow /\ tx'[w].row # NoRow
         => tx'[v].row.no # tx'[w].row.no
  <2> SUFFICES ASSUME NEW v \in Workers \ {w}, tx'[v].row # NoRow, tx'[w].row # NoRow
               PROVE  tx'[v].row.no # tx'[w].row.no
    OBVIOUS
  <2>1. tx'[w].row.no = lastEvent + 1
    BY DEF Opens
  <2>2. tx'[v].row = tx[v].row
    BY <1>1, OthersFields
  <2>3. tx[v].row.no <= lastEvent /\ tx[v].row.no \in Nat
    BY <1>2, <1>3, <2>2 DEF EventsInv, NewEvent
  <2> QED
    BY <1>1, <2>1, <2>2, <2>3
<1>8. \A u, v \in Workers \ {w} : u # v /\ tx'[u].row # NoRow /\ tx'[v].row # NoRow
         => tx'[u].row.no # tx'[v].row.no
  BY <1>1, OthersFields DEF EventsInv
<1> QED
  BY <1>4, <1>5, <1>6, <1>7, <1>8 DEF EventsInv

LEMMA MovesKeepsEvents ==
    ASSUME TypeInv, EventsInv, NEW w \in Workers, Moves(w)
    PROVE  EventsInv'
<1>1. UNCHANGED <<patches, events, lastEvent>> /\ OthersKept(w)
  BY DEF Moves
<1>2. \A v \in Workers :
         /\ tx'[v].row = tx[v].row
         /\ tx'[v].op = tx[v].op /\ tx'[v].resource = tx[v].resource
  BY OthersFields DEF Moves
<1>3. \A v \in Workers \ {w} : Loaded(tx'[v]) = Loaded(tx[v])
  BY <1>1, OthersFields
<1>4. \A v \in Workers \ {w} : NewEvent(v)'
  BY <1>1, <1>2, <1>3 DEF EventsInv, NewEvent
<1>5. \A p \in Loaded(tx'[w]) : p \in Loaded(tx[w]) \/ Ends(tx[w].row, p, patches[p])
  BY DEF Moves
<1>6. NewEvent(w)'
  BY <1>1, <1>2, <1>5 DEF EventsInv, NewEvent
<1> QED
  BY <1>1, <1>2, <1>4, <1>6 DEF EventsInv

LEMMA ClosesKeepsEvents ==
    ASSUME TypeInv, NumbersInv, EventsInv, NEW w \in Workers, Closes(w)
    PROVE  EventsInv'
<1>1. lastEvent' = lastEvent /\ OthersKept(w) /\ tx'[w].row = NoRow
  BY DEF Closes, Idle
<1>2. \A e \in EventIds : events'[e] # NoRow => e <= lastEvent'
  BY <1>1, EventsOfClose DEF EventsInv, NewEvent
<1>3. ASSUME NEW v \in Workers \ {w} PROVE NewEvent(v)'
  <2>1. /\ tx'[v].row = tx[v].row /\ Loaded(tx'[v]) = Loaded(tx[v])
        /\ tx'[v].op = tx[v].op /\ tx'[v].resource = tx[v].resource
        /\ Loaded(tx[v]) \subseteq PatchIds
    BY <1>1, OthersFields DEF TypeInv, TypeOK, TxRow, Loaded
  <2> SUFFICES ASSUME tx[v].row # NoRow
               PROVE  /\ tx[v].row.resource = tx[v].resource
                      /\ tx[v].row.type = "manual_fix_submit" => tx[v].op = "submit"
                      /\ tx[v].row.no <= lastEvent'
                      /\ events'[tx[v].row.no] = NoRow
                      /\ \A p \in Loaded(tx[v]) :
                            patches'[p] # NoRow => Ends(tx[v].row, p, patches'[p])
    BY <2>1 DEF NewEvent
  <2>2. tx[v].row.no \in EventIds
    <3>1. tx[v].row \in EventRow
      BY DEF TypeInv, TypeOK, TxRow
    <3> QED
      BY <3>1 DEF EventRow
  <2>3. NewEvent(v) /\ (tx[w].row # NoRow => tx[v].row.no # tx[w].row.no)
    BY DEF EventsInv
  <2>4. events'[tx[v].row.no] = NoRow
    BY <2>2, <2>3, EventsOfClose DEF NewEvent
  <2>5. ASSUME NEW p \in Loaded(tx[v]), patches'[p] # NoRow
        PROVE  Ends(tx[v].row, p, patches'[p])
    <3>1. p \in PatchIds
      BY <2>1
    <3>2. patches[p] # NoRow
      BY <2>5, <3>1, RowsOfClose DEF NumbersInv
    <3>3. Key(patches'[p]) = Key(patches[p])
      BY <2>5, <3>1, <3>2, RowsOfClose
    <3>4. Ends(tx[v].row, p, patches[p])
      BY <2>3, <3>2 DEF NewEvent
    <3>5. patches'[p].resource = patches[p].resource
      BY <3>3 DEF Key
    <3> QED
      BY <3>3, <3>4, <3>5 DEF Ends
  <2> QED
    BY <1>1, <2>3, <2>4, <2>5 DEF NewEvent
<1>4. NewEvent(w)'
  BY <1>1 DEF NewEvent
<1>5. \A u, v \in Workers : u # v /\ tx'[u].row # NoRow /\ tx'[v].row # NoRow
         => tx'[u].row.no # tx'[v].row.no
  BY <1>1, OthersFields DEF EventsInv
<1> QED
  BY <1>2, <1>3, <1>4, <1>5 DEF EventsInv

LEMMA OpensKeepsGone ==
    ASSUME TypeInv, GoneInv, NEW w \in Workers, Opens(w)
    PROVE  GoneInv'
<1>1. patches' = patches /\ OthersKept(w)
  BY DEF Opens
<1>2. \A v \in Workers \ {w} : NewerThanGone(v)'
  BY <1>1, OthersFields DEF GoneInv, NewerThanGone
<1>3. NewerThanGone(w)'
  <2>1. CASE tx'[w].op # "delete"
    BY <2>1 DEF NewerThanGone
  <2>2. CASE Loaded(tx'[w]) = PatchesOf(tx'[w].resource)
    <3>1. \A p \in Loaded(tx'[w]) : patches[p].resource = tx'[w].resource
      BY <2>2 DEF PatchesOf
    <3>2. \A p, q \in PatchIds :
             /\ p \in Loaded(tx'[w]) /\ patches[q] # NoRow
             /\ Key(patches[q]) = Key(patches[p])
             => q \in Loaded(tx'[w])
      BY <2>2, <3>1 DEF PatchesOf, Key
    <3>3. Loaded(tx'[w]) \subseteq PatchIds
      BY <2>2 DEF PatchesOf
    <3> QED
      BY <1>1, <3>1, <3>2, <3>3 DEF NewerThanGone
  <2> QED
    BY <2>1, <2>2 DEF Opens
<1> QED
  BY <1>2, <1>3 DEF GoneInv

LEMMA MovesKeepsGone ==
    ASSUME GoneInv, NEW w \in Workers, Moves(w)
    PROVE  GoneInv'
<1>1. patches' = patches /\ OthersKept(w)
  BY DEF Moves
<1>2. \A v \in Workers \ {w} : NewerThanGone(v)'
  BY <1>1, OthersFields DEF GoneInv, NewerThanGone
<1>3. /\ tx'[w].op = tx[w].op /\ tx'[w].resource = tx[w].resource
      /\ tx[w].op = "delete" => Loaded(tx'[w]) \subseteq Loaded(tx[w])
      /\ \A p \in Loaded(tx[w]) \ Loaded(tx'[w]) : patches[p] = NoRow
  BY DEF Moves
<1>4. NewerThanGone(w)'
  BY <1>1, <1>3 DEF GoneInv, NewerThanGone
<1> QED
  BY <1>2, <1>4 DEF GoneInv

\* A patch a correction adds is newer than those of its key on record.
LEMMA AddedIsNewer ==
    ASSUME TypeInv, FreshInv, NEW w \in Workers, CommitFeedback(w),
           NEW q \in PatchIds, q \in Added(tx[w]), NEW p \in PatchIds,
           patches[p] # NoRow, Key(patches[p]) = Key(patches'[q])
    PROVE  p < q
<1>1. PICK i \in DOMAIN tx[w].ids : q = tx[w].ids[i]
  BY DEF Added
<1>2. patches'[q] = NewPatch(tx[w], i)
  BY <1>1, CommittedPatches
<1>3. Key(patches'[q]) = KeyAt(tx[w], i)
  BY <1>2 DEF NewPatch, Key, KeyAt
<1> QED
  BY <1>1, <1>3 DEF FreshInv

LEMMA ClosesKeepsGone ==
    ASSUME TypeInv, FreshInv, NumbersInv, GoneInv, NEW w \in Workers, Closes(w)
    PROVE  GoneInv'
<1>1. OthersKept(w) /\ tx'[w].op # "delete"
  BY DEF Closes, Idle
<1>2. ASSUME NEW v \in Workers \ {w} PROVE NewerThanGone(v)'
  <2>1. /\ Loaded(tx'[v]) = Loaded(tx[v]) /\ tx'[v].resource = tx[v].resource
        /\ tx'[v].op = tx[v].op /\ Loaded(tx[v]) \subseteq PatchIds
    BY <1>1, OthersFields DEF TypeInv, TypeOK, TxRow, Loaded
  <2> SUFFICES ASSUME tx[v].op = "delete",
                      NEW p \in Loaded(tx[v]), patches'[p] # NoRow
               PROVE  /\ patches'[p].resource = tx[v].resource
                      /\ \A q \in PatchIds \ Loaded(tx[v]) :
                            patches'[q] # NoRow /\ Key(patches'[q]) = Key(patches'[p])
                            => p < q
    BY <2>1 DEF NewerThanGone
  <2>2. p \in PatchIds
    BY <2>1
  <2>3. patches[p] # NoRow
    BY <2>2, RowsOfClose DEF NumbersInv
  <2>4. Key(patches'[p]) = Key(patches[p])
    BY <2>2, <2>3, RowsOfClose
  <2>5. NewerThanGone(v)
    BY DEF GoneInv
  <2>6. patches'[p].resource = tx[v].resource
    BY <2>3, <2>4, <2>5 DEF NewerThanGone, Key
  <2>7. ASSUME NEW q \in PatchIds \ Loaded(tx[v]), patches'[q] # NoRow,
               Key(patches'[q]) = Key(patches'[p])
        PROVE  p < q
    <3>1. CASE patches[q] # NoRow
      <4>1. Key(patches[q]) = Key(patches[p])
        BY <2>4, <2>7, <3>1, RowsOfClose
      <4> QED
        BY <2>3, <2>5, <3>1, <4>1 DEF NewerThanGone
    <3>2. CASE patches[q] = NoRow
      BY <2>2, <2>3, <2>4, <2>7, <3>2, RowsOfClose, AddedIsNewer
    <3> QED
      BY <3>1, <3>2
  <2> QED
    BY <2>6, <2>7
<1>3. NewerThanGone(w)'
  BY <1>1 DEF NewerThanGone
<1> QED
  BY <1>2, <1>3 DEF GoneInv

LEMMA InitHInv == Init => HInv
<1> SUFFICES ASSUME Init PROVE HInv
  OBVIOUS
<1>1. IInv
  BY InitTypeInv, InitFresh DEF IInv
<1>2. \A w \in Workers : tx[w] = Idle /\ Loaded(tx[w]) = {}
  BY DEF Init, Idle, Loaded
<1>3. NumbersInv
  BY <1>2, IdleType DEF NumbersInv
<1>4. \A w \in Workers : tx[w].row = NoRow /\ tx[w].op # "delete"
  BY <1>2 DEF Idle
<1>5. EventsInv
  BY <1>4 DEF EventsInv, NewEvent, Init
<1>6. GoneInv
  BY <1>4 DEF GoneInv, NewerThanGone
<1> QED
  BY <1>1, <1>3, <1>5, <1>6 DEF HInv

LEMMA NextHInv == HInv /\ [Next]_vars => HInv'
<1> SUFFICES ASSUME HInv, [Next]_vars PROVE HInv'
  OBVIOUS
<1>1. TypeInv /\ FreshInv /\ NewestActive /\ NumbersInv /\ EventsInv /\ GoneInv
  BY DEF HInv, IInv
<1>2. IInv'
  BY <1>1, NextTypeInv, NextFresh DEF IInv
<1>3. TypeInv'
  BY <1>2 DEF IInv
<1>4. Rests \/ \E w \in Workers : Opens(w) \/ Moves(w) \/ Closes(w)
  BY <1>1, StepKinds
<1>5. NumbersInv' /\ EventsInv' /\ GoneInv'
  BY <1>1, <1>3, <1>4, RestsKeeps,
     OpensKeepsNumbers, MovesKeepsNumbers, ClosesKeepsNumbers,
     OpensKeepsEvents, MovesKeepsEvents, ClosesKeepsEvents,
     OpensKeepsGone, MovesKeepsGone, ClosesKeepsGone
<1> QED
  BY <1>2, <1>5 DEF HInv

------------------------------------------------------------------------------
(* The life of a patch *)

LEMMA StepKeepsLife ==
    ASSUME HInv, [Next]_vars, NEW p \in PatchIds,
           patches[p] # NoRow, patches'[p] # patches[p], patches'[p] # NoRow
    PROVE  /\ patches'[p] = [patches[p] EXCEPT !.status = "inactive",
                                               !.endedBy = patches'[p].endedBy]
           /\ LET e == patches'[p].endedBy
              IN  /\ events[e] = NoRow /\ events'[e] # NoRow
                  /\ Ends(events'[e], p, patches'[p])
<1>1. TypeInv /\ NumbersInv /\ EventsInv
  BY DEF HInv, IInv
<1>2. PICK w \in Workers : Closes(w)
  BY <1>1, StepKinds DEF Rests, Opens, Moves
<1> DEFINE t == tx[w]
           e == t.row.no
<1>3. /\ CommitFeedback(w) /\ p \in t.held /\ patches[p] \in PatchRow
      /\ patches'[p] = [patches[p] EXCEPT !.status = "inactive", !.endedBy = e]
  BY <1>1, <1>2, RowsOfClose
<1>4. patches'[p].endedBy = e /\ Key(patches'[p]) = Key(patches[p])
      /\ patches'[p].resource = patches[p].resource
  BY <1>3 DEF PatchRow, Key
<1>5. t \in TxRow /\ TxShape(t)
  BY <1>1 DEF TypeInv, TypeOK, TxInv
<1>6. t.row # NoRow /\ t.row \in EventRow
  BY <1>3, <1>5 DEF CommitFeedback, TxShape, TxRow
<1>7. e \in EventIds
  BY <1>6 DEF EventRow
<1>8. events' = [events EXCEPT ![e] = t.row] /\ events \in [EventIds -> EventRow \union {NoRow}]
  BY <1>1, <1>3, <1>6 DEF CommitFeedback, TypeInv, TypeOK
<1>9. events'[e] = t.row
  BY <1>7, <1>8
<1>10. events[e] = NoRow /\ Ends(t.row, p, patches[p])
  BY <1>1, <1>3, <1>6 DEF EventsInv, NewEvent, Loaded
<1>11. Ends(t.row, p, patches'[p])
  BY <1>4, <1>10 DEF Ends
<1> QED
  BY <1>3, <1>4, <1>6, <1>9, <1>10, <1>11

\* However many server processes run and however their requests overlap, a
\* patch keeps what it corrects as long as it exists, and stops being active
\* only together with the event that says so.
THEOREM PatchesLive == Spec => PatchLifecycle
<1>1. HInv /\ [Next]_vars =>
         [\A p \in PatchIds :
            patches[p] # NoRow /\ patches'[p] # patches[p] =>
               \/ patches'[p] = NoRow
               \/ /\ patches'[p] = [patches[p] EXCEPT !.status = "inactive",
                                                      !.endedBy = patches'[p].endedBy]
                  /\ LET e == patches'[p].endedBy
                     IN  /\ events[e] = NoRow /\ events'[e] # NoRow
                         /\ Ends(events'[e], p, patches'[p])]_vars
  BY StepKeepsLife
<1> QED
  BY InitHInv, NextHInv, <1>1, PTL DEF Spec, PatchLifecycle

------------------------------------------------------------------------------
(* The refinement *)

LEMMA PatchIdsAreFinite == PatchIds \subseteq Nat /\ IsFiniteSet(PatchIds)
BY FS_Interval, BoundsAssumption DEF PatchIds

\* A nonempty set of patch numbers has a largest one.
LEMMA LargestIn ==
    ASSUME NEW S, S \subseteq PatchIds, S # {}
    PROVE  Largest(S) \in S /\ \A o \in S : o <= Largest(S)
<1>1. IsFiniteSet(S) /\ S \in SUBSET Nat
  BY PatchIdsAreFinite, FS_Subset
<1> QED
  BY <1>1, LargestExists DEF Largest

LEMMA LargestIs ==
    ASSUME NEW S, S \subseteq PatchIds, NEW m \in S, \A o \in S : o <= m
    PROVE  Largest(S) = m
<1>1. Largest(S) \in S /\ m <= Largest(S)
  BY LargestIn
<1>2. \A o \in S : o \in Nat
  BY DEF PatchIds
<1> QED
  BY <1>1, <1>2

LEMMA LargestType ==
    ASSUME NEW S, S \subseteq PatchIds
    PROVE  Largest(S) \in PatchIds \union {0}
BY LargestIn DEF Largest

Keys == ResourceIds \X PatchTypes \X Texts \X Sqls

LEMMA BoardIsTyped == Board!BoardTypeOK
<1>1. \A k : Shown(k) \subseteq PatchIds /\ OnRecord(k) \subseteq PatchIds
  BY DEF Shown, OnRecord
<1>2. \A k : /\ Largest(Shown(k)) \in PatchIds \union {0}
             /\ Largest(OnRecord(k)) \in PatchIds \union {0}
  BY <1>1, LargestType
<1> QED
  BY <1>2 DEF Board!BoardTypeOK, Board!Keys

\* The keys whose slot or latest number a step changes.
ChangedKeys ==
    {k \in Keys : \/ Largest(Shown(k))' # Largest(Shown(k))
                  \/ Largest(OnRecord(k))' # Largest(OnRecord(k))}

LEMMA ChangedAsIs == Board!Changed = ChangedKeys
BY DEF Board!Changed, Board!Keys, ChangedKeys, Keys

\* A correction of a key that none of the rows a step changed has, before or
\* after, looks the same after it.
LEMMA UntouchedKey ==
    ASSUME NEW k,
           \A p \in PatchIds : patches'[p] # patches[p] =>
              /\ patches[p] # NoRow => Key(patches[p]) # k
              /\ patches'[p] # NoRow => Key(patches'[p]) # k
    PROVE  Shown(k)' = Shown(k) /\ OnRecord(k)' = OnRecord(k)
<1>1. OnRecord(k)' = OnRecord(k)
  BY DEF OnRecord
<1>2. Shown(k)' = Shown(k)
  BY DEF Shown, OnRecord, IsActive
<1> QED
  BY <1>1, <1>2

\* The last patch a correction adds for a key is active.
LEMMA LastAddedIsActive ==
    ASSUME NEW t \in TxRow, TxShape(t), NEW i \in DOMAIN t.ids
    PROVE  \E j \in DOMAIN t.ids : KeyAt(t, j) = KeyAt(t, i)
                                   /\ NewPatch(t, j).status = "active"
<1> DEFINE A == {j \in DOMAIN t.ids : KeyAt(t, j) = KeyAt(t, i)}
<1>1. DOMAIN t.ids = 1..Len(t.ids) /\ Len(t.ids) \in Nat
  BY DEF TxRow
<1>2. A \in SUBSET Nat /\ A # {} /\ IsFiniteSet(A)
  <2>1. IsFiniteSet(1..Len(t.ids)) /\ A \subseteq 1..Len(t.ids)
    BY <1>1, FS_Interval
  <2> QED
    BY <1>1, <2>1, FS_Subset
<1>3. PICK m \in A : \A o \in A : o <= m
  BY <1>2, LargestExists
<1>4. ASSUME NEW j \in DOMAIN t.ids, j > m, Listed(t)[j] = Listed(t)[m]
      PROVE  FALSE
  <2>1. KeyAt(t, j) = KeyAt(t, m)
    BY <1>4 DEF KeyAt
  <2>2. j \in A /\ j \in Nat /\ m \in Nat
    BY <1>1, <1>3, <2>1
  <2> QED
    BY <1>3, <1>4, <2>2
<1>5. NewPatch(t, m).status = "active"
  BY <1>4 DEF NewPatch
<1> QED
  BY <1>3, <1>5

\* A correction publishes the last patch of each of its keys.
LEMMA CorrectionPublishes ==
    ASSUME HInv, HInv', NEW w \in Workers, CommitFeedback(w),
           tx[w].row # NoRow, tx[w].row.type = "manual_fix_submit"
    PROVE  Board!Publish(ChangedKeys)
<1> DEFINE t == tx[w]
<1>1. /\ TypeInv /\ FreshInv /\ NumbersInv /\ EventsInv
      /\ TypeInv' /\ NewestActive'
  BY DEF HInv, IInv
<1>2. /\ t \in TxRow /\ TxShape(t) /\ t.pc = "commit" /\ Closes(w)
      /\ \A p \in t.held : patches[p] # NoRow
  BY <1>1, EndCloses DEF CommitFeedback, TypeInv, TypeOK, TxInv
<1>3. t.op = "submit" /\ t.row.resource = t.resource /\ t.row \in EventRow
  BY <1>1, <1>2 DEF EventsInv, NewEvent, TxRow
<1>4. /\ Listed(t) = t.row.patchTypes /\ DOMAIN t.row.patchTypes = DOMAIN t.ids
      /\ LockedKeys(w) = {KeyAt(t, i) : i \in DOMAIN t.ids}
  <2>1. Listed(t) = t.row.patchTypes /\ t.row.patchTypes \in Seq(PatchTypes)
    BY <1>3 DEF Listed, EventRow
  <2>2. Len(t.ids) = Len(t.row.patchTypes) /\ t.ids \in Seq(PatchIds)
    BY <1>2, <1>3, <2>1 DEF TxShape, TxRow
  <2> QED
    BY <2>1, <2>2 DEF LockedKeys
<1>5. \A i \in DOMAIN t.ids :
         KeyAt(t, i) = <<t.resource, t.row.patchTypes[i], t.row.question, t.row.matchedSql>>
  BY <1>4 DEF KeyAt
<1>6. \A p \in t.held : Key(patches[p]) \in LockedKeys(w)
  <2> SUFFICES ASSUME NEW p \in t.held PROVE Key(patches[p]) \in LockedKeys(w)
    OBVIOUS
  <2>1. Ends(t.row, p, patches[p])
    BY <1>1, <1>2 DEF EventsInv, NewEvent, Loaded
  <2>2. PICK i \in DOMAIN t.row.patchTypes :
           Key(patches[p]) = <<t.row.resource, t.row.patchTypes[i], t.row.question,
                               t.row.matchedSql>>
    BY <2>1 DEF Ends
  <2>3. Key(patches[p]) = KeyAt(t, i) /\ i \in DOMAIN t.ids
    BY <1>3, <1>4, <1>5, <2>2
  <2> QED
    BY <1>4, <2>3
<1>7. \A p \in Added(t) : \E i \in DOMAIN t.ids : p = t.ids[i]
  BY DEF Added
<1>8. \A i \in DOMAIN t.ids : Key(NewPatch(t, i)) = KeyAt(t, i)
  BY DEF NewPatch, Key, KeyAt
<1>9. \A k : k \notin LockedKeys(w) => Shown(k)' = Shown(k) /\ OnRecord(k)' = OnRecord(k)
  <2> SUFFICES ASSUME NEW k, k \notin LockedKeys(w)
               PROVE  Shown(k)' = Shown(k) /\ OnRecord(k)' = OnRecord(k)
    OBVIOUS
  <2>1. ASSUME NEW p \in PatchIds, patches'[p] # patches[p]
        PROVE  /\ patches[p] # NoRow => Key(patches[p]) # k
               /\ patches'[p] # NoRow => Key(patches'[p]) # k
    <3>1. CASE p \in Added(t)
      <4>1. PICK i \in DOMAIN t.ids : p = t.ids[i]
        BY <1>7, <3>1
      <4>2. patches[p] = NoRow /\ patches'[p] = NewPatch(t, i)
        BY <1>1, <3>1, <4>1, CommittedPatches DEF NumbersInv
      <4>3. KeyAt(t, i) \in LockedKeys(w)
        BY <1>4
      <4> QED
        BY <1>8, <4>2, <4>3
    <3>2. CASE p \notin Added(t)
      <4>1. p \in t.held
        BY <1>1, <2>1, <3>2, RemainingPatches
      <4> QED
        BY <1>1, <1>2, <1>6, <4>1, RowsOfClose
    <3> QED
      BY <3>1, <3>2
  <2> QED
    BY <2>1, UntouchedKey
<1>10. ASSUME NEW k \in LockedKeys(w)
       PROVE  /\ Largest(Shown(k))' \in PatchIds
              /\ Largest(Shown(k))' > Largest(OnRecord(k))
              /\ Largest(OnRecord(k))' = Largest(Shown(k))'
  <2>1. PICK i \in DOMAIN t.ids : KeyAt(t, i) = k /\ NewPatch(t, i).status = "active"
    <3>1. PICK j \in DOMAIN t.ids : k = KeyAt(t, j)
      BY <1>4
    <3> QED
      BY <1>2, <3>1, LastAddedIsActive
  <2> DEFINE m == t.ids[i]
  <2>2. m \in Added(t) /\ m \in PatchIds /\ patches'[m] = NewPatch(t, i) /\ patches'[m] # NoRow
    BY <1>1, CommittedPatches, NoRowAssumption
  <2>3. Key(patches'[m]) = k /\ patches'[m].status = "active"
    BY <1>8, <2>1, <2>2
  <2> HIDE DEF m
  <2>4. m \in Shown(k)' /\ m \in OnRecord(k)'
    BY <2>2, <2>3 DEF Shown, OnRecord, IsActive
  <2>5. \A o \in OnRecord(k)' : o <= m
    <3>1. ASSUME NEW o \in PatchIds, patches'[o] # NoRow, Key(patches'[o]) = k, o # m
          PROVE  o < m
      BY <1>1, <2>2, <2>3, <3>1 DEF NewestActive, IsActive
    <3>2. m \in Nat /\ \A o \in PatchIds : o \in Nat
      BY <2>2 DEF PatchIds
    <3> QED
      BY <3>1, <3>2 DEF OnRecord
  <2>6. Shown(k)' \subseteq OnRecord(k)' /\ OnRecord(k)' \subseteq PatchIds
    BY DEF Shown, OnRecord
  <2>7. Largest(Shown(k)') = m /\ Largest(OnRecord(k)') = m
    BY <2>4, <2>5, <2>6, LargestIs
  <2>8. m > Largest(OnRecord(k))
    <3>1. CASE OnRecord(k) = {}
      BY <2>2, <3>1 DEF Largest, PatchIds
    <3>2. CASE OnRecord(k) # {}
      <4>1. Largest(OnRecord(k)) \in OnRecord(k)
        <5>1. OnRecord(k) \subseteq PatchIds
          BY DEF OnRecord
        <5> QED
          BY <3>2, <5>1, LargestIn
      <4>2. \A q \in OnRecord(k) : q < m
        BY <1>1, <2>2, <2>3, AddedIsNewer DEF OnRecord
      <4>3. Largest(OnRecord(k)) < m /\ Largest(OnRecord(k)) \in Nat
        BY <4>1, <4>2 DEF OnRecord, PatchIds
      <4> QED
        BY <2>2, <4>3 DEF PatchIds
    <3> QED
      BY <3>1, <3>2
  <2> QED
    BY <2>2, <2>7, <2>8
<1>11. ChangedKeys \subseteq LockedKeys(w)
  BY <1>9 DEF ChangedKeys
<1>12. \A k, l \in ChangedKeys : k[1] = l[1] /\ k[3] = l[3] /\ k[4] = l[4]
  BY <1>4, <1>5, <1>11
<1>13. ChangedKeys \subseteq Board!Keys
  BY DEF ChangedKeys, Keys, Board!Keys
<1> QED
  BY <1>10, <1>11, <1>12, <1>13 DEF Board!Publish, Board!Keys

\* Any other feedback takes at most one correction down.
LEMMA FeedbackWithdraws ==
    ASSUME HInv, NEW w \in Workers, CommitFeedback(w),
           tx[w].row # NoRow => tx[w].row.type # "manual_fix_submit"
    PROVE  Board!Withdraw(ChangedKeys)
<1> DEFINE t == tx[w]
<1>1. TypeInv /\ FreshInv /\ NewestActive /\ NumbersInv /\ EventsInv
  BY DEF HInv, IInv
<1>2. /\ t \in TxRow /\ TxShape(t) /\ t.op # "delete" /\ Closes(w)
      /\ \A p \in t.held : p \in PatchIds /\ patches[p] # NoRow
  BY <1>1, EndCloses DEF CommitFeedback, TypeInv, TypeOK, TxInv, TxRow
<1>3. Added(t) = {}
  <2>1. Listed(t) = <<>>
    BY <1>2 DEF Listed, TxShape
  <2>2. t.ids \in Seq(PatchIds) /\ Len(t.ids) <= 0
    BY <1>2, <2>1 DEF TxShape, TxRow
  <2>3. DOMAIN t.ids = {}
    BY <2>2
  <2> QED
    BY <2>3 DEF Added
<1>4. \A p, q \in t.held : p = q
  <2> SUFFICES ASSUME NEW p \in t.held, NEW q \in t.held PROVE p = q
    OBVIOUS
  <2>1. t.row # NoRow
    BY <1>2 DEF TxShape
  <2>2. Ends(t.row, p, patches[p]) /\ Ends(t.row, q, patches[q])
    BY <1>1, <1>2, <2>1 DEF EventsInv, NewEvent, Loaded
  <2> QED
    BY <2>1, <2>2 DEF Ends
<1>5. ASSUME NEW p \in PatchIds
      PROVE  /\ p \notin t.held => patches'[p] = patches[p]
             /\ p \in t.held => /\ patches[p] # NoRow /\ patches'[p] # NoRow
                                /\ patches'[p].status = "inactive"
                                /\ Key(patches'[p]) = Key(patches[p])
  <2>1. CASE p \notin t.held
    BY <1>1, <1>3, <2>1, RemainingPatches
  <2>2. CASE p \in t.held
    <3>1. /\ patches[p] \in PatchRow /\ patches'[p] \in PatchRow
          /\ patches'[p] = [patches[p] EXCEPT !.status = "inactive", !.endedBy = t.row.no]
      BY <1>1, <1>3, <2>2, RemainingPatches
    <3>2. patches'[p].status = "inactive" /\ Key(patches'[p]) = Key(patches[p])
      BY <3>1 DEF PatchRow, Key
    <3> QED
      BY <2>2, <3>1, <3>2, NoRowAssumption
  <2> QED
    BY <2>1, <2>2
<1>6. \A k : OnRecord(k)' = OnRecord(k)
  BY <1>5 DEF OnRecord
<1>7. \A k : Shown(k)' = Shown(k) \ t.held
  BY <1>5 DEF Shown, OnRecord, IsActive
<1>8. ASSUME NEW k \in ChangedKeys
      PROVE  /\ \E p \in t.held : Key(patches[p]) = k
             /\ Largest(Shown(k))' = 0
  <2>1. Shown(k)' # Shown(k)
    BY <1>6 DEF ChangedKeys
  <2>2. PICK p \in Shown(k) : p \in t.held
    BY <1>7, <2>1
  <2>3. \A q \in Shown(k) : q = p
    BY <1>1, <2>2 DEF Shown, OnRecord, NewestActive, IsActive
  <2>4. Shown(k)' = {}
    BY <1>7, <2>2, <2>3
  <2> QED
    BY <2>2, <2>4 DEF Largest, Shown, OnRecord
<1>9. \A k, l \in ChangedKeys : k = l
  BY <1>4, <1>8
<1>10. \A k \in ChangedKeys : k \in Board!Keys
  BY DEF ChangedKeys, Keys, Board!Keys
<1> QED
  BY <1>6, <1>8, <1>9, <1>10 DEF Board!Withdraw, Board!Keys

\* A delete empties the keys of its resource it saw the newest patch of, and
\* changes none that has a newer one.
LEMMA DeletePurges ==
    ASSUME HInv, NEW w \in Workers, CommitDelete(w)
    PROVE  Board!Purge(ChangedKeys)
<1> DEFINE t == tx[w]
<1>1. TypeInv /\ NewestActive /\ NewerThanGone(w)
  BY DEF HInv, IInv, GoneInv
<1>0. t.op = "delete" /\ Loaded(t) = t.held
  BY <1>1 DEF CommitDelete, Loaded, TypeInv, TxInv, TxShape
<1>2. \A p \in PatchIds : patches'[p] = IF p \in t.held THEN NoRow ELSE patches[p]
  BY DEF CommitDelete
<1>3. \A k : /\ OnRecord(k)' = OnRecord(k) \ t.held
             /\ Shown(k)' = Shown(k) \ t.held
  BY <1>2 DEF Shown, OnRecord, IsActive
<1>4. \A k : Shown(k) \subseteq OnRecord(k) /\ OnRecord(k) \subseteq PatchIds
  BY DEF Shown, OnRecord
<1>5. PatchIds \subseteq Nat
  BY DEF PatchIds
<1>6. ASSUME NEW k \in ChangedKeys
      PROVE  /\ k[1] = t.resource
             /\ Largest(Shown(k))' = 0 /\ Largest(OnRecord(k))' = 0
  <2>1. PICK p \in OnRecord(k) : p \in t.held
    BY <1>3, <1>4 DEF ChangedKeys
  <2>2. k[1] = t.resource
    BY <1>0, <1>1, <2>1 DEF NewerThanGone, OnRecord, Key
  <2>3. OnRecord(k)' = {}
    <3> SUFFICES ASSUME NEW q \in OnRecord(k), q \notin t.held PROVE FALSE
      BY <1>3
    <3>1. \A o \in OnRecord(k) : o \in t.held => o < q
      BY <1>0, <1>1, <1>4 DEF NewerThanGone, OnRecord
    <3>2. Largest(OnRecord(k)) \in OnRecord(k) /\ q <= Largest(OnRecord(k))
          /\ \A o \in OnRecord(k) : o <= Largest(OnRecord(k))
      BY <1>4, LargestIn
    <3>3. Largest(OnRecord(k)) \in OnRecord(k)'
      <4>1. Largest(OnRecord(k)) \in Nat /\ q \in Nat
        BY <1>4, <1>5, <3>2
      <4>2. Largest(OnRecord(k)) \notin t.held
        BY <3>1, <3>2, <4>1
      <4> QED
        BY <1>3, <3>2, <4>2
    <3>4. Largest(OnRecord(k)') = Largest(OnRecord(k))
      <4>1. OnRecord(k)' \subseteq PatchIds /\ \A o \in OnRecord(k)' : o \in OnRecord(k)
        BY <1>3, <1>4
      <4> QED
        BY <3>2, <3>3, <4>1, LargestIs
    <3>5. Shown(k)' = Shown(k)
      <4>1. \A o \in Shown(k) : o \notin t.held
        <5> SUFFICES ASSUME NEW o \in Shown(k), o \in t.held PROVE FALSE
          OBVIOUS
        <5>1. o < q /\ o \in PatchIds /\ q \in PatchIds
          BY <1>4, <3>1
        <5>2. q < o
          BY <1>1, <5>1 DEF NewestActive, Shown, OnRecord
        <5> QED
          BY <1>5, <5>1, <5>2
      <4> QED
        BY <1>3, <4>1
    <3> QED
      BY <3>4, <3>5 DEF ChangedKeys
  <2>4. Shown(k)' = {}
    BY <1>3, <1>4, <2>3
  <2> QED
    BY <2>2, <2>3, <2>4 DEF Largest
<1>7. \A k \in ChangedKeys : k \in Board!Keys
  BY DEF ChangedKeys, Keys, Board!Keys
<1> QED
  BY <1>6, <1>7 DEF Board!Purge, Board!Keys

LEMMA BoardInit == Init => Board!Init
<1> SUFFICES ASSUME Init PROVE Board!Init
  OBVIOUS
<1>1. \A k : OnRecord(k) = {} /\ Shown(k) = {}
  BY DEF Init, OnRecord, Shown
<1> QED
  BY <1>1 DEF Board!Init, Board!Keys, Largest

LEMMA BoardStep == HInv /\ HInv' /\ [Next]_vars => [Board!Next]_Board!vars
<1> SUFFICES ASSUME HInv, HInv', [Next]_vars PROVE [Board!Next]_Board!vars
  OBVIOUS
<1>1. CASE patches' = patches
  <2>1. \A k : OnRecord(k)' = OnRecord(k) /\ Shown(k)' = Shown(k)
    BY <1>1 DEF OnRecord, Shown, IsActive
  <2> QED
    BY <2>1 DEF Board!vars
<1>2. CASE patches' # patches
  <2>1. TypeInv /\ EventsInv
    BY DEF HInv, IInv
  <2>2. PICK w \in Workers : CommitFeedback(w) \/ CommitDelete(w)
    BY <1>2, <2>1, StepKinds DEF Rests, Opens, Moves, Closes
  <2>3. \/ Board!Publish(ChangedKeys) \/ Board!Withdraw(ChangedKeys)
        \/ Board!Purge(ChangedKeys)
    BY <2>2, CorrectionPublishes, FeedbackWithdraws, DeletePurges
  <2>4. Board!BoardTypeOK'
    BY BoardIsTyped, PTL
  <2> QED
    BY <2>3, <2>4, ChangedAsIs DEF Board!Next
<1> QED
  BY <1>1, <1>2

\* The patch table is the abstract board, for every set of server processes
\* and clients: each commit publishes, withdraws or purges as one request
\* would, and nothing else changes what a reader can see.
THEOREM BoardImplemented == Spec => BoardSpec
BY InitHInv, NextHInv, BoardInit, BoardStep, PTL DEF Spec, BoardSpec, Board!Spec

(* Transactions that overlap no other                                      *)

\* What an undisturbed transaction loaded is what is committed: it misses no
\* row that it has to end, and the numbers it drew are the largest.
Current(t) ==
    /\ t.row # NoRow /\ t.row.type = "manual_fix_submit" =>
          \A i \in DOMAIN t.row.patchTypes : t.row.patchTypes[i] = "sql_override" =>
             t.row.sql \in SafeSqls \union {NoText}
    /\ \A p \in Loaded(t) : patches[p] # NoRow
    /\ \A p \in PatchIds : patches[p] # NoRow => \A i \in DOMAIN t.ids : p < t.ids[i]
    /\ t.pc = "flush" /\ Len(t.ids) < Len(Listed(t)) =>
          \A p \in PatchIds : IsActive(p) /\ Key(patches[p]) = NextKey(t) => p \in Loaded(t)
    /\ t.op = "delete" => Loaded(t) = PatchesOf(t.resource)
    /\ t.op = "delete" /\ t.pc = "commit" => t.goneEvents = EventsOf(t.resource)
    /\ t.pc = "commit" => t.read = metric[t.resource]
    /\ t.op # "delete" /\ t.pc = "commit" =>
          t.payload = MetricPayload(VisibleEvents(t), t.payload.updatedAt)

SoloTx(w) ==
    tx[w].solo /\ tx[w].pc # "idle" =>
       /\ \A v \in Workers \ {w} : tx[v].pc = "idle"
       /\ Current(tx[w])

SoloInv == \A w \in Workers : SoloTx(w)

SInv == HInv /\ SoloInv

LEMMA CurrentSame ==
    ASSUME NEW w \in Workers, NEW t \in TxRow, SameTx(tx'[w], t), Current(t),
           UNCHANGED <<patches, events, metric>>
    PROVE  Current(tx[w])'
<1> DEFINE s == tx'[w]
<1>1. /\ s.op = t.op /\ s.pc = t.pc /\ s.resource = t.resource /\ s.row = t.row
      /\ s.loaded = t.loaded /\ s.held = t.held /\ s.ids = t.ids
      /\ s.read = t.read /\ s.payload = t.payload /\ s.goneEvents = t.goneEvents
  BY DEF SameTx
<1>2. Loaded(s) = Loaded(t) /\ Listed(s) = Listed(t) /\ NextKey(s) = NextKey(t)
  BY <1>1 DEF Loaded, Listed, NextKey, KeyAt
<1>3. /\ VisibleEvents(tx[w])' = VisibleEvents(t)
      /\ PatchesOf(tx[w].resource)' = PatchesOf(t.resource)
      /\ EventsOf(tx[w].resource)' = EventsOf(t.resource)
      /\ \A p \in PatchIds : IsActive(p)' <=> IsActive(p)
  BY <1>1 DEF VisibleEvents, PatchesOf, EventsOf, IsActive
<1> QED
  BY <1>1, <1>2, <1>3 DEF Current

\* A transaction that opens is alone only if all others are idle, and ends
\* the solitude of the others.
LEMMA OpenSolo ==
    ASSUME TypeInv, NEW w \in Workers, NEW t \in TxRow, Open(w, t), Current(t),
           UNCHANGED <<patches, events, metric>>
    PROVE  SoloInv'
<1>1. tx \in [Workers -> TxRow]
  BY DEF TypeInv, TypeOK
<1>2. \A u \in TxRow : \A b \in BOOLEAN :
         [u EXCEPT !.solo = b].solo = b /\ [u EXCEPT !.solo = b].pc = u.pc
  BY DEF TxRow
<1>3. \A v \in Workers \ {w} : tx'[v].pc = "idle" \/ ~tx'[v].solo
  BY <1>1, <1>2 DEF Open
<1>4. \A v \in Workers \ {w} : SoloTx(v)'
  BY <1>3 DEF SoloTx
<1>5. tx'[w].solo => \A v \in Workers \ {w} : tx'[v].pc = "idle"
  <2>1. tx'[w].solo = (\A u \in Workers \ {w} : tx[u].pc = "idle")
    BY <1>2 DEF Open
  <2> QED
    BY <2>1 DEF Open
<1>6. Current(tx[w])'
  BY OpenStep, CurrentSame DEF TypeInv
<1>7. SoloTx(w)'
  BY <1>5, <1>6 DEF SoloTx
<1> QED
  BY <1>4, <1>7 DEF SoloInv

\* A transaction in progress that moves on was the only one to be alone.
LEMMA OthersSolo ==
    ASSUME TypeInv, SoloInv, NEW w \in Workers, tx[w].pc # "idle", NEW t,
           tx' = [tx EXCEPT ![w] = t], SoloTx(w)'
    PROVE  SoloInv'
<1>1. \A v \in Workers \ {w} : tx'[v] = tx[v]
  BY DEF TypeInv, TypeOK
<1>2. \A v \in Workers \ {w} : tx[v].solo => tx[v].pc = "idle"
  BY DEF SoloInv, SoloTx
<1>3. \A v \in Workers \ {w} : SoloTx(v)'
  BY <1>1, <1>2 DEF SoloTx
<1> QED
  BY <1>3 DEF SoloInv

LEMMA MoveSolo ==
    ASSUME TypeInv, SoloInv, NEW w \in Workers, tx[w].pc # "idle", NEW t \in TxRow,
           tx' = [tx EXCEPT ![w] = t], t.solo = tx[w].solo,
           Current(tx[w]) => Current(t),
           UNCHANGED <<patches, events, metric>>
    PROVE  SoloInv'
<1>1. tx'[w] = t /\ \A v \in Workers \ {w} : tx'[v] = tx[v]
  BY DEF TypeInv, TypeOK
<1>2. SoloTx(w)'
  <2> SUFFICES ASSUME tx'[w].solo, tx'[w].pc # "idle"
               PROVE  (\A v \in Workers \ {w} : tx'[v].pc = "idle") /\ Current(tx[w])'
    BY DEF SoloTx
  <2>1. Current(tx[w]) /\ \A v \in Workers \ {w} : tx[v].pc = "idle"
    BY <1>1 DEF SoloInv, SoloTx
  <2>2. SameTx(tx'[w], t)
    BY <1>1 DEF SameTx
  <2> QED
    BY <1>1, <2>1, <2>2, CurrentSame
<1> QED
  BY <1>2, OthersSolo

LEMMA CloseKeepsSolo ==
    ASSUME TypeInv, SoloInv, NEW w \in Workers, tx[w].pc # "idle", Close(w)
    PROVE  SoloInv'
<1>1. SoloTx(w)'
  BY CloseStep DEF SoloTx, Idle, TypeInv
<1> QED
  BY <1>1, OthersSolo DEF Close

LEMMA RestKeepsSolo ==
    ASSUME TypeInv, SoloInv, UNCHANGED <<tx, patches, events, metric>>
    PROVE  SoloInv'
<1>1. ASSUME NEW w \in Workers PROVE SoloTx(w)'
  <2>1. SoloTx(w) /\ tx[w] \in TxRow /\ SameTx(tx'[w], tx[w])
    BY DEF SoloInv, TypeInv, TypeOK, SameTx
  <2> QED
    BY <2>1, CurrentSame DEF SoloTx
<1> QED
  BY <1>1 DEF SoloInv

LEMMA SubmitKeepsSolo ==
    ASSUME TypeInv, NEW w \in Workers, NEW r \in ResourceIds,
           NEW s \in Submissions, SubmitFeedbackEvent(w, r, s)
    PROVE  SoloInv'
<1>1. PICK t \in TxRow :
         /\ Open(w, t) /\ t.held = {} /\ t.ids = <<>>
         /\ t.op = "submit" /\ t.pc = "flush" /\ t.resource = r
         /\ t.row.type = s.type
         /\ t.row.patchTypes = s.patchTypes /\ t.row.sql = s.sql
         /\ t.loaded = Superseded(t)
         /\ \A p \in t.loaded : p \in PatchIds /\ patches[p] # NoRow
  BY SubmitTx
<1>2. t.row.type = "manual_fix_submit" =>
         \A i \in DOMAIN t.row.patchTypes : t.row.patchTypes[i] = "sql_override" =>
            t.row.sql \in SafeSqls \union {NoText}
  BY <1>1 DEF SubmitFeedbackEvent, ValidSubmission
<1>3. Len(t.ids) < Len(Listed(t)) =>
         \A p \in PatchIds : IsActive(p) /\ Key(patches[p]) = NextKey(t) => p \in t.loaded
  <2>1. NextKey(t)[1] = t.resource
    BY DEF NextKey, KeyAt
  <2> QED
    BY <1>1, <2>1 DEF Superseded, PatchesOf, IsActive, Key
<1>4. Loaded(t) = t.loaded
  BY <1>1 DEF Loaded
<1>5. Current(t)
  BY <1>1, <1>2, <1>3, <1>4 DEF Current
<1> QED
  BY <1>1, <1>5, OpenSolo DEF SubmitFeedbackEvent, tables

LEMMA DisableKeepsSolo ==
    ASSUME TypeInv, NEW w \in Workers, NEW r \in ResourceIds,
           NEW p \in PatchIds, DisablePatch(w, r, p)
    PROVE  SoloInv'
<1>1. PICK t \in TxRow :
         /\ Open(w, t) /\ t.held = {} /\ t.ids = <<>>
         /\ t.op = "disable" /\ t.pc = "flush"
         /\ t.row.type = "manual_fix_disable"
         /\ p \in t.loaded <=> IsActive(p)
         /\ \A o \in t.loaded : o = p
  BY DisableTx
<1>2. Loaded(t) = t.loaded /\ Listed(t) = <<>>
  BY <1>1 DEF Loaded, Listed
<1>3. \A o \in t.loaded : patches[o] # NoRow
  BY <1>1 DEF IsActive
<1>4. Current(t)
  BY <1>1, <1>2, <1>3 DEF Current
<1> QED
  BY <1>1, <1>4, OpenSolo DEF DisablePatch, tables

LEMMA GetMetricKeepsSolo ==
    ASSUME TypeInv, NEW w \in Workers, NEW r \in ResourceIds, GetFeedbackMetric(w, r)
    PROVE  SoloInv'
<1>1. PICK t \in TxRow :
         /\ Open(w, t) /\ t.held = {} /\ t.ids = <<>>
         /\ t.op = "metric" /\ t.pc = "commit" /\ t.resource = r /\ t.row = NoRow
         /\ t.loaded = {} /\ t.read = NoRow
         /\ t.payload = MetricPayload(RowsOf(events, r), clock)
         /\ t.payload \in MetricRow
  BY GetMetricTx
<1>2. t.payload.updatedAt = clock
  BY <1>1 DEF MetricPayload
<1>3. VisibleEvents(t) = RowsOf(events, r)
  BY <1>1 DEF VisibleEvents, EventsOf, RowsOf
<1>4. t.payload = MetricPayload(VisibleEvents(t), t.payload.updatedAt)
  BY <1>1, <1>2, <1>3
<1>5. Loaded(t) = {} /\ metric[r] = NoRow
  BY <1>1 DEF Loaded, GetFeedbackMetric
<1>6. Current(t)
  BY <1>1, <1>4, <1>5 DEF Current
<1> QED
  BY <1>1, <1>6, OpenSolo DEF GetFeedbackMetric, tables

LEMMA DeleteKeepsSolo ==
    ASSUME TypeInv, NEW w \in Workers, NEW r \in ResourceIds, DeleteResource(w, r)
    PROVE  SoloInv'
<1>1. PICK t \in TxRow :
         /\ Open(w, t) /\ t.held = {} /\ t.ids = <<>>
         /\ t.op = "delete" /\ t.pc = "flush" /\ t.resource = r /\ t.row = NoRow
         /\ t.loaded = PatchesOf(r)
  BY DeleteTx
<1>2. Loaded(t) = PatchesOf(r) /\ Listed(t) = <<>>
  BY <1>1 DEF Loaded, Listed
<1>3. \A p \in PatchesOf(r) : patches[p] # NoRow
  BY DEF PatchesOf
<1>4. Current(t)
  BY <1>1, <1>2, <1>3 DEF Current
<1> QED
  BY <1>1, <1>4, OpenSolo DEF DeleteResource, tables

LEMMA WriteKeepsSolo ==
    ASSUME TypeInv, SoloInv, NEW w \in Workers, WritePatch(w)
    PROVE  SoloInv'
<1>1. PICK t \in TxRow, p \in tx[w].loaded :
         /\ tx' = [tx EXCEPT ![w] = t]
         /\ t.op = tx[w].op /\ t.pc = "flush" /\ tx[w].pc = "flush"
         /\ t.resource = tx[w].resource
         /\ t.row = tx[w].row /\ t.ids = tx[w].ids
         /\ t.solo = tx[w].solo /\ t.loaded = tx[w].loaded \ {p}
         /\ patches[p] # NoRow => t.held = tx[w].held \union {p}
         /\ Listed(t) = Listed(tx[w])
  BY WriteTx
<1>2. UNCHANGED <<patches, events, metric>>
  BY DEF WritePatch, tables
<1>3. ASSUME Current(tx[w]) PROVE Current(t)
  <2>1. patches[p] # NoRow
    BY <1>3 DEF Current, Loaded
  <2>2. Loaded(t) = Loaded(tx[w]) /\ NextKey(t) = NextKey(tx[w])
    BY <1>1, <2>1 DEF Loaded, NextKey, KeyAt
  <2> QED
    BY <1>1, <1>3, <2>2 DEF Current
<1> QED
  BY <1>1, <1>2, <1>3, MoveSolo

LEMMA InsertKeepsSolo ==
    ASSUME TypeInv, FreshInv, SoloInv, NEW w \in Workers, InsertPatch(w)
    PROVE  SoloInv'
<1>1. lastPatch \in Nat /\ lastPatch' = lastPatch + 1
  BY InsertTx
<1>2. PICK t \in TxRow :
         /\ tx' = [tx EXCEPT ![w] = t]
         /\ t.op = "submit" /\ tx[w].op = "submit"
         /\ t.pc = "flush" /\ tx[w].pc = "flush"
         /\ t.row = tx[w].row
         /\ t.ids = Append(tx[w].ids, lastPatch')
         /\ t.solo = tx[w].solo /\ t.held = tx[w].held
         /\ tx[w].loaded = {} /\ t.loaded = Superseded(t)
         /\ \A p \in t.loaded : p \in PatchIds /\ patches[p] # NoRow
         /\ Added(t) = Added(tx[w]) \union {lastPatch'}
  BY InsertTx
<1>3. UNCHANGED <<patches, events, metric>>
  BY DEF InsertPatch, tables
<1>4. ASSUME Current(tx[w]) PROVE Current(t)
  <2>1. \A p \in Loaded(t) : patches[p] # NoRow
    BY <1>2, <1>4 DEF Current, Loaded
  <2>2. ASSUME NEW p \in PatchIds, patches[p] # NoRow, NEW i \in DOMAIN t.ids
        PROVE  p < t.ids[i]
    <3>1. t.ids[i] = lastPatch' \/ \E j \in DOMAIN tx[w].ids : t.ids[i] = tx[w].ids[j]
      BY <1>2 DEF Added
    <3>2. p < lastPatch'
      BY <1>1, <2>2 DEF FreshInv, PatchIds
    <3> QED
      BY <1>4, <2>2, <3>1, <3>2 DEF Current
  <2>3. Len(t.ids) < Len(Listed(t)) =>
           \A p \in PatchIds : IsActive(p) /\ Key(patches[p]) = NextKey(t) => p \in Loaded(t)
    <3>1. NextKey(t)[1] = t.resource
      BY DEF NextKey, KeyAt
    <3> QED
      BY <1>2, <3>1 DEF Superseded, PatchesOf, IsActive, Key, Loaded
  <2> QED
    BY <1>2, <1>4, <2>1, <2>2, <2>3 DEF Current
<1> QED
  BY <1>2, <1>3, <1>4, MoveSolo

LEMMA CountKeepsSolo ==
    ASSUME TypeInv, SoloInv, NEW w \in Workers, CountFeedback(w)
    PROVE  SoloInv'
<1>1. PICK t \in TxRow :
         /\ tx' = [tx EXCEPT ![w] = t] /\ tx[w].pc = "flush"
         /\ tx[w].loaded = {} /\ t.loaded = {}
         /\ t.op = tx[w].op /\ t.op \in {"submit", "disable"} /\ t.pc = "commit"
         /\ t.row = tx[w].row /\ t.ids = tx[w].ids
         /\ t.read = metric[t.resource]
         /\ t.payload = MetricPayload(VisibleEvents(t), clock)
         /\ t.solo = tx[w].solo /\ t.held = tx[w].held
  BY CountTx
<1>2. UNCHANGED <<patches, events, metric>>
  BY DEF CountFeedback, tables
<1>3. t.payload.updatedAt = clock
  BY <1>1 DEF MetricPayload
<1>4. Loaded(t) = Loaded(tx[w])
  BY <1>1 DEF Loaded
<1>5. Current(tx[w]) => Current(t)
  BY <1>1, <1>3, <1>4 DEF Current
<1> QED
  BY <1>1, <1>2, <1>5, MoveSolo

LEMMA DeleteRemainingKeepsSolo ==
    ASSUME TypeInv, SoloInv, NEW w \in Workers, DeleteRemaining(w)
    PROVE  SoloInv'
<1>1. PICK t \in TxRow :
         /\ tx' = [tx EXCEPT ![w] = t] /\ tx[w].pc = "flush"
         /\ tx[w].loaded = {} /\ t.loaded = {}
         /\ t.op = "delete" /\ tx[w].op = "delete" /\ t.pc = "commit"
         /\ t.resource = tx[w].resource /\ t.row = NoRow
         /\ t.ids = tx[w].ids /\ t.read = metric[t.resource]
         /\ t.goneEvents = EventsOf(t.resource)
         /\ t.held = tx[w].held /\ t.solo = tx[w].solo
  BY DeleteRemainingTx
<1>2. UNCHANGED <<patches, events, metric>>
  BY DEF DeleteRemaining, tables
<1>3. Loaded(t) = Loaded(tx[w])
  BY <1>1 DEF Loaded
<1>4. Current(tx[w]) => Current(t)
  BY <1>1, <1>3 DEF Current
<1> QED
  BY <1>1, <1>2, <1>4, MoveSolo

LEMMA RefusedIsOpen ==
    ASSUME NEW w \in Workers, Refused(w)
    PROVE  tx[w].pc # "idle"
<1> SUFFICES ASSUME tx[w].pc = "idle" PROVE FALSE
  OBVIOUS
<1>1. ~RowGone(w) /\ ~KeyTaken(w) /\ ~OutOfPatchIds(w) /\ ~CommitConflict(w)
  BY DEF RowGone, KeyTaken, OutOfPatchIds, CommitConflict, Writing, Inserting, Flushed
<1>2. \A v \in Workers : ~Awaits(w, v)
  BY DEF Awaits, Writing, Inserting, Flushed, MetricRowNeeded
<1>3. ~OnCircle(w)
  <2> SUFFICES ASSUME OnCircle(w) PROVE FALSE
    OBVIOUS
  <2>1. {} \in SUBSET Workers
    OBVIOUS
  <2>2. /\ \A v \in Workers : Awaits(w, v) => v \in {}
        /\ \A u \in {}, v \in Workers : Awaits(u, v) => v \in {}
    BY <1>2
  <2>3. w \in {}
    BY <2>1, <2>2 DEF OnCircle
  <2> QED
    BY <2>3
<1> QED
  BY <1>1, <1>3 DEF Refused

LEMMA NextSolo ==
    ASSUME TypeInv, FreshInv, SoloInv, [Next]_vars
    PROVE  SoloInv'
<1>1. ASSUME NEW w \in Workers, Start(w) PROVE SoloInv'
  <2>1. ASSUME NEW r \in ResourceIds, LearnResource(w, r) PROVE SoloInv'
    BY <2>1, RestKeepsSolo DEF LearnResource
  <2> QED
    BY <1>1, <2>1, SubmitKeepsSolo, DisableKeepsSolo, GetMetricKeepsSolo,
       DeleteKeepsSolo DEF Start
<1>2. ASSUME NEW w \in Workers,
             \/ CommitFeedback(w) \/ FailRequest(w) \/ Crash(w)
             \/ CommitDelete(w) \/ DeleteNotFound(w)
      PROVE  SoloInv'
  <2>1. tx[w].pc # "idle" /\ Close(w)
    BY <1>2, RefusedIsOpen
       DEF CommitFeedback, FailRequest, Crash, CommitDelete, DeleteNotFound
  <2> QED
    BY <2>1, CloseKeepsSolo
<1>3. ASSUME NEW w \in Workers, Proceed(w) PROVE SoloInv'
  BY <1>2, <1>3, WriteKeepsSolo, InsertKeepsSolo, CountKeepsSolo,
     DeleteRemainingKeepsSolo DEF Proceed
<1>4. ASSUME NEW c \in Chats,
             \/ \E d \in Datasources, q \in Questions : AskQuestion(c, d, q)
             \/ RecordPatchApplyLog(c)
             \/ AbandonAnswer(c)
      PROVE  UNCHANGED <<tx, patches, events, metric>>
  BY <1>4 DEF AskQuestion, RecordPatchApplyLog, AbandonAnswer, tables
<1>5. PassTime \/ UNCHANGED vars => UNCHANGED <<tx, patches, events, metric>>
  BY DEF PassTime, vars, tables
<1> QED
  BY <1>1, <1>2, <1>3, <1>4, <1>5, RestKeepsSolo DEF Next

LEMMA InitSInv == Init => SInv
<1> SUFFICES ASSUME Init PROVE SInv
  OBVIOUS
<1>1. \A w \in Workers : tx[w].pc = "idle"
  BY DEF Init, Idle
<1> QED
  BY <1>1, InitHInv DEF SInv, SoloInv, SoloTx

LEMMA NextSInv == SInv /\ [Next]_vars => SInv'
BY NextHInv, NextSolo DEF SInv, HInv, IInv

------------------------------------------------------------------------------
(* The metric row *)

\* Replacing every column that differs is replacing the row.
LEMMA UpdateIsReplace ==
    ASSUME NEW row \in MetricRow, NEW payload \in MetricRow
    PROVE  UpdateColumns(row, row, payload) = payload
BY DEF UpdateColumns, MetricRow

\* What the commit of a solo transaction stores.
LEMMA SoloCommit ==
    ASSUME SInv, NEW w \in Workers, CommitFeedback(w), tx[w].solo
    PROVE  LET r == tx[w].resource
           IN  metric' = [metric EXCEPT ![r] =
                             MetricPayload(RowsOf(events', r), tx[w].payload.updatedAt)]
<1> DEFINE t == tx[w]
           r == t.resource
<1>1. /\ TypeInv /\ EventsInv /\ SoloTx(w) /\ t \in TxRow /\ TxShape(t)
      /\ t.pc = "commit" /\ t.op # "delete"
  BY DEF SInv, HInv, IInv, SoloInv, CommitFeedback, TypeInv, TypeOK, TxInv
<1>2. /\ t.read = metric[r]
      /\ t.payload = MetricPayload(VisibleEvents(t), t.payload.updatedAt)
      /\ t.payload \in MetricRow
  BY <1>1 DEF SoloTx, Current, TxShape, TxRow
<1>3. metric' = [metric EXCEPT ![r] = t.payload]
  <2>1. CASE t.read = NoRow
    BY <2>1 DEF CommitFeedback
  <2>2. CASE t.read # NoRow
    <3>1. t.read \in MetricRow
      BY <1>1, <2>2 DEF TxRow
    <3> QED
      BY <1>2, <2>2, <3>1, UpdateIsReplace DEF CommitFeedback
  <2> QED
    BY <2>1, <2>2
<1>4. VisibleEvents(t) = RowsOf(events', r)
  <2>1. CASE t.row = NoRow
    BY <2>1 DEF CommitFeedback, VisibleEvents, RowsOf, EventsOf
  <2>2. CASE t.row # NoRow
    <3>1. /\ t.row \in EventRow /\ t.row.no \in EventIds /\ t.row.resource = r
          /\ events[t.row.no] = NoRow
      BY <1>1, <2>2 DEF TxRow, EventRow, EventsInv, NewEvent
    <3>2. events' = [events EXCEPT ![t.row.no] = t.row]
      BY <2>2 DEF CommitFeedback
    <3>3. \A e \in EventIds : events'[e] = IF e = t.row.no THEN t.row ELSE events[e]
      BY <1>1, <3>2 DEF TypeInv, TypeOK
    <3>4. RowsOf(events', r) = {events[e] : e \in EventsOf(r)} \union {t.row}
      BY <2>2, <3>1, <3>3 DEF RowsOf, EventsOf
    <3> QED
      BY <2>2, <3>4 DEF VisibleEvents
  <2> QED
    BY <2>1, <2>2
<1> QED
  BY <1>2, <1>3, <1>4

LEMMA OnlyCommitsChange ==
    ASSUME [Next]_vars, <<events', metric', patches'>> # <<events, metric, patches>>
    PROVE  \E w \in Workers : CommitFeedback(w) \/ CommitDelete(w)
<1>1. ASSUME NEW w \in Workers, Start(w)
      PROVE  UNCHANGED <<events, metric, patches>>
  BY <1>1 DEF Start, SubmitFeedbackEvent, DisablePatch, GetFeedbackMetric,
              DeleteResource, LearnResource, tables
<1>2. ASSUME NEW w \in Workers, Proceed(w) \/ Crash(w),
             ~CommitFeedback(w), ~CommitDelete(w)
      PROVE  UNCHANGED <<events, metric, patches>>
  BY <1>2 DEF Proceed, Crash, WritePatch, InsertPatch, CountFeedback, FailRequest,
              DeleteRemaining, DeleteNotFound, tables
<1>3. ASSUME NEW c \in Chats,
             \/ \E d \in Datasources, q \in Questions : AskQuestion(c, d, q)
             \/ RecordPatchApplyLog(c)
             \/ AbandonAnswer(c)
      PROVE  UNCHANGED <<events, metric, patches>>
  BY <1>3 DEF AskQuestion, RecordPatchApplyLog, AbandonAnswer, tables
<1>4. PassTime \/ UNCHANGED vars => UNCHANGED <<events, metric, patches>>
  BY DEF PassTime, vars, tables
<1> QED
  BY <1>1, <1>2, <1>3, <1>4 DEF Next

LEMMA SoloStepIsExact ==
    ASSUME SInv, [Next]_vars, NEW w \in Workers, NEW r \in ResourceIds,
           tx[w].solo, tx[w].resource = r, tx[w].op # "delete", tx[w].pc = "commit",
           <<events', metric'>> # <<events, metric>>, tx'[w] = Idle
    PROVE  metric'[r] = MetricPayload(RowsOf(events', r), tx[w].payload.updatedAt)
<1>1. PICK v \in Workers : CommitFeedback(v) \/ CommitDelete(v)
  BY OnlyCommitsChange
<1>2. tx' = [tx EXCEPT ![v] = Idle] /\ tx \in [Workers -> TxRow]
      /\ metric \in [ResourceIds -> MetricRow \union {NoRow}]
  BY <1>1 DEF CommitFeedback, CommitDelete, Close, SInv, HInv, IInv, TypeInv, TypeOK
<1>3. v = w
  BY <1>2 DEF Idle
<1>4. CommitFeedback(w)
  BY <1>1, <1>3 DEF CommitDelete
<1>5. metric' = [metric EXCEPT ![r] =
                    MetricPayload(RowsOf(events', r), tx[w].payload.updatedAt)]
  BY <1>4, SoloCommit
<1> QED
  BY <1>2, <1>5

\* However many server processes run, a transaction that overlapped no other
\* leaves its resource's metric row equal to a count of the committed events.
THEOREM SoloRecounts == Spec => SoloRecountIsExact
<1>1. SInv /\ [Next]_vars =>
         [\A w \in Workers, r \in ResourceIds :
            /\ tx[w].solo /\ tx[w].resource = r
            /\ tx[w].op # "delete" /\ tx[w].pc = "commit"
            /\ <<events', metric'>> # <<events, metric>> /\ tx'[w] = Idle
            => metric'[r] = MetricPayload(RowsOf(events', r), tx[w].payload.updatedAt)]_vars
  BY SoloStepIsExact
<1> QED
  BY InitSInv, NextSInv, <1>1, PTL DEF Spec, SoloRecountIsExact

------------------------------------------------------------------------------
(* One server process *)

OneProcess == \A v, w \in Workers : v = w

\* With one process a transaction in progress is alone.
AlwaysSolo == \A w \in Workers : tx[w].solo

LEMMA InitSolo == Init => AlwaysSolo
BY DEF Init, AlwaysSolo, Idle

LEMMA NextAlwaysSolo ==
    ASSUME OneProcess, TypeInv, AlwaysSolo, [Next]_vars
    PROVE  AlwaysSolo'
<1>1. \A w, u \in Workers : u \notin Workers \ {w}
  BY DEF OneProcess
<1>2. ASSUME NEW w \in Workers, tx'[w].solo PROVE AlwaysSolo'
  BY <1>2 DEF AlwaysSolo, OneProcess
<1>3. ASSUME NEW w \in Workers, Start(w) PROVE AlwaysSolo'
  <2>1. ASSUME NEW r \in ResourceIds, NEW s \in Submissions, SubmitFeedbackEvent(w, r, s)
        PROVE  tx'[w].solo
    BY <1>1, <2>1 DEF SubmitFeedbackEvent, Open, Idle
  <2>2. ASSUME NEW r \in ResourceIds, NEW p \in PatchIds, DisablePatch(w, r, p)
        PROVE  tx'[w].solo
    BY <1>1, <2>2 DEF DisablePatch, Open, Idle
  <2>3. ASSUME NEW r \in ResourceIds, GetFeedbackMetric(w, r) PROVE tx'[w].solo
    BY <1>1, <2>3 DEF GetFeedbackMetric, Open, Idle
  <2>4. ASSUME NEW r \in ResourceIds, DeleteResource(w, r) PROVE tx'[w].solo
    BY <1>1, <2>4 DEF DeleteResource, Open, Idle
  <2>5. ASSUME NEW r \in ResourceIds, LearnResource(w, r) PROVE tx'[w].solo
    BY <2>5 DEF LearnResource, AlwaysSolo
  <2> QED
    BY <1>2, <1>3, <2>1, <2>2, <2>3, <2>4, <2>5 DEF Start
<1>4. ASSUME NEW w \in Workers, Proceed(w) \/ Crash(w) PROVE AlwaysSolo'
  <2>1. tx \in [Workers -> TxRow] /\ tx[w].solo
    BY DEF TypeInv, TypeOK, AlwaysSolo
  <2>2. ASSUME WritePatch(w) PROVE tx'[w].solo = tx[w].solo
    BY <2>2, WriteTx
  <2>3. ASSUME InsertPatch(w) PROVE tx'[w].solo = tx[w].solo
    BY <2>3, InsertTx
  <2>4. ASSUME CountFeedback(w) PROVE tx'[w].solo = tx[w].solo
    BY <2>4, CountTx
  <2>5. ASSUME DeleteRemaining(w) PROVE tx'[w].solo = tx[w].solo
    BY <2>5, DeleteRemainingTx
  <2>6. CASE Close(w)
    BY <1>2, <2>1, <2>6 DEF Close, Idle
  <2> QED
    BY <1>2, <1>4, <2>1, <2>2, <2>3, <2>4, <2>5, <2>6
       DEF Proceed, Crash, CommitFeedback, FailRequest, CommitDelete, DeleteNotFound
<1>5. ASSUME UNCHANGED tx PROVE AlwaysSolo'
  BY <1>5 DEF AlwaysSolo
<1>6. ASSUME NEW c \in Chats,
             \/ \E d \in Datasources, q \in Questions : AskQuestion(c, d, q)
             \/ RecordPatchApplyLog(c)
             \/ AbandonAnswer(c)
      PROVE  UNCHANGED tx
  BY <1>6 DEF AskQuestion, RecordPatchApplyLog, AbandonAnswer
<1>7. PassTime \/ UNCHANGED vars => UNCHANGED tx
  BY DEF PassTime, vars
<1> QED
  BY <1>3, <1>4, <1>5, <1>6, <1>7 DEF Next

LEMMA AloneKeepsSolo ==
    ASSUME OneProcess
    PROVE  Spec => [](SInv /\ AlwaysSolo)
<1>1. SInv /\ AlwaysSolo /\ [Next]_vars => (SInv /\ AlwaysSolo)'
  BY NextSInv, NextAlwaysSolo DEF SInv, HInv, IInv
<1> QED
  BY InitSInv, InitSolo, <1>1, PTL DEF Spec

\* With one server process the database refuses no request: what a handler
\* loaded keeps it clear of the unique index and of the primary key.
THEOREM NothingRefused ==
    ASSUME OneProcess
    PROVE  Spec => []NoServerError
<1>1. ASSUME SInv, AlwaysSolo, NEW w \in Workers
      PROVE  ~RowGone(w) /\ ~KeyTaken(w) /\ ~CommitConflict(w) /\ ~OnCircle(w)
  <2>1. tx[w] \in TxRow /\ (tx[w].pc # "idle" => Current(tx[w]))
    BY <1>1 DEF SInv, HInv, IInv, TypeInv, TypeOK, SoloInv, SoloTx, AlwaysSolo
  <2>2. ~RowGone(w)
    BY <2>1, NextRowIsLoaded DEF RowGone, Writing, Current, Loaded
  <2>3. ~KeyTaken(w)
    BY <2>1 DEF KeyTaken, Inserting, Flushed, Current, Loaded
  <2>4. ~CommitConflict(w)
    BY <2>1 DEF CommitConflict, Current
  <2>5. \A u, v \in Workers : ~Awaits(u, v)
    BY DEF OneProcess, Awaits
  <2>6. ~OnCircle(w)
    <3>1. {} \in SUBSET Workers /\ w \notin {}
      OBVIOUS
    <3> QED
      BY <2>5, <3>1 DEF OnCircle
  <2> QED
    BY <2>2, <2>3, <2>4, <2>6
<1>2. SInv /\ AlwaysSolo => NoServerError
  BY <1>1 DEF NoServerError
<1> QED
  BY <1>2, AloneKeepsSolo, PTL

LEMMA CommitKeepsMetric ==
    ASSUME SInv, AlwaysSolo, MetricIsExact, NEW w \in Workers, CommitFeedback(w)
    PROVE  MetricIsExact'
<1> DEFINE t == tx[w]
           r == t.resource
           m == MetricPayload(RowsOf(events', r), t.payload.updatedAt)
<1>1. /\ TypeInv /\ EventsInv /\ t \in TxRow /\ TxShape(t) /\ t.op # "none"
  BY DEF SInv, HInv, IInv, CommitFeedback, TypeInv, TypeOK, TxInv, TxShape
<1>2. metric' = [metric EXCEPT ![r] = m]
  BY SoloCommit DEF AlwaysSolo
<1>3. metric \in [ResourceIds -> MetricRow \union {NoRow}] /\ r \in ResourceIds
      /\ TypeOK'
  BY <1>1, CommitKeepsTypeInv DEF TypeInv, TypeOK, TxShape
<1>4. m.updatedAt = t.payload.updatedAt
  BY DEF MetricPayload
<1>5. m # NoRow
  <2>1. t.payload \in MetricRow /\ t.payload # NoRow
    BY <1>1 DEF CommitFeedback, TxShape, TxRow
  <2>2. m = t.payload
    <3>1. metric'[r] = m
      BY <1>2, <1>3
    <3>2. t.read = metric[r]
      BY DEF SInv, SoloInv, SoloTx, Current, AlwaysSolo, CommitFeedback
    <3>3. t.read # NoRow => t.read \in MetricRow
      BY <1>1 DEF TxRow
    <3>4. metric'[r] = t.payload
      BY <1>3, <2>1, <3>2, <3>3, UpdateIsReplace DEF CommitFeedback
    <3> QED
      BY <3>1, <3>4
  <2> QED
    BY <2>1, <2>2
<1> HIDE DEF m
<1>6. metric'[r] = MetricPayload(RowsOf(events', r), metric'[r].updatedAt)
      /\ metric'[r] # NoRow
  BY <1>2, <1>3, <1>4, <1>5 DEF m
<1>7. ASSUME NEW s \in ResourceIds, s # r
      PROVE  metric'[s] = metric[s] /\ EventsOf(s)' = EventsOf(s)
             /\ RowsOf(events', s) = RowsOf(events, s)
             /\ \A e \in EventsOf(s) : events'[e] = events[e]
  <2>1. metric'[s] = metric[s]
    BY <1>2, <1>3, <1>7
  <2>2. CASE t.row = NoRow
    BY <2>1, <2>2 DEF CommitFeedback, EventsOf, RowsOf
  <2>3. CASE t.row # NoRow
    <3>1. /\ t.row.no \in EventIds /\ t.row.resource = r /\ events[t.row.no] = NoRow
      BY <1>1, <2>3 DEF TxRow, EventRow, EventsInv, NewEvent
    <3>2. events' = [events EXCEPT ![t.row.no] = t.row]
      BY <2>3 DEF CommitFeedback
    <3>3. \A e \in EventIds : events'[e] = IF e = t.row.no THEN t.row ELSE events[e]
      BY <1>1, <3>2 DEF TypeInv, TypeOK
    <3>4. \A e \in EventIds : /\ e \in EventsOf(s)' <=> e \in EventsOf(s)
                              /\ e \in EventsOf(s) => events'[e] = events[e]
      BY <1>7, <3>1, <3>3 DEF EventsOf
    <3>5. EventsOf(s)' = EventsOf(s)
      BY <3>4 DEF EventsOf
    <3>6. RowsOf(events', s) = {events'[e] : e \in EventsOf(s)'}
          /\ RowsOf(events, s) = {events[e] : e \in EventsOf(s)}
      BY DEF RowsOf, EventsOf
    <3> QED
      BY <2>1, <3>4, <3>5, <3>6 DEF EventsOf
  <2> QED
    BY <2>2, <2>3
<1>8. ASSUME NEW s \in ResourceIds
      PROVE  /\ metric'[s] = NoRow =>
                   \A e \in EventsOf(s)' : events'[e].type \notin RateEventTypes
             /\ metric'[s] # NoRow =>
                   metric'[s] = MetricPayload(RowsOf(events', s), metric'[s].updatedAt)
  <2>1. CASE s = r
    BY <1>6, <2>1
  <2>2. CASE s # r
    BY <1>7, <2>2 DEF MetricIsExact
  <2> QED
    BY <2>1, <2>2
<1> QED
  BY <1>8 DEF MetricIsExact

LEMMA DeleteKeepsMetric ==
    ASSUME SInv, AlwaysSolo, MetricIsExact, NEW w \in Workers, CommitDelete(w)
    PROVE  MetricIsExact'
<1> DEFINE t == tx[w]
<1> SUFFICES ASSUME NEW r, r = t.resource PROVE MetricIsExact'
  OBVIOUS
<1>1. /\ TypeInv /\ t.goneEvents = EventsOf(r) /\ t.read = metric[r] /\ TxShape(t)
      /\ t.op = "delete"
  BY DEF SInv, HInv, IInv, SoloInv, SoloTx, Current, AlwaysSolo, CommitDelete, TypeInv,
         TxInv
<1>2. r \in ResourceIds /\ metric \in [ResourceIds -> MetricRow \union {NoRow}]
  BY <1>1 DEF TypeInv, TypeOK, TxShape
<1>3. \A e \in EventIds : events'[e] = IF e \in EventsOf(r) THEN NoRow ELSE events[e]
  BY <1>1 DEF CommitDelete
<1>4. metric'[r] = NoRow /\ \A s \in ResourceIds : s # r => metric'[s] = metric[s]
  BY <1>1, <1>2 DEF CommitDelete
<1>5. EventsOf(r)' = {}
  BY <1>3 DEF EventsOf
<1>6. ASSUME NEW s \in ResourceIds, s # r
      PROVE  /\ EventsOf(s)' = EventsOf(s)
             /\ RowsOf(events', s) = RowsOf(events, s)
             /\ \A e \in EventsOf(s) : events'[e] = events[e]
  <2>1. \A e \in EventIds : /\ e \in EventsOf(s)' <=> e \in EventsOf(s)
                            /\ e \in EventsOf(s) => events'[e] = events[e]
    BY <1>3, <1>6 DEF EventsOf
  <2>2. EventsOf(s)' = EventsOf(s)
    BY <2>1 DEF EventsOf
  <2>3. RowsOf(events', s) = {events'[e] : e \in EventsOf(s)'}
        /\ RowsOf(events, s) = {events[e] : e \in EventsOf(s)}
    BY DEF RowsOf, EventsOf
  <2> QED
    BY <2>1, <2>2, <2>3 DEF EventsOf
<1> QED
  BY <1>4, <1>5, <1>6 DEF MetricIsExact

\* With one server process the stored metric is the count of the committed
\* events, whatever the requests, crashes and deletes.
THEOREM MetricExact ==
    ASSUME OneProcess
    PROVE  Spec => []MetricIsExact
<1>1. Init => MetricIsExact
  BY DEF Init, MetricIsExact, EventsOf
<1>2. SInv /\ AlwaysSolo /\ MetricIsExact /\ [Next]_vars => MetricIsExact'
  <2>1. ASSUME SInv, AlwaysSolo, MetricIsExact, [Next]_vars,
               <<events', metric', patches'>> # <<events, metric, patches>>
        PROVE  MetricIsExact'
    BY <2>1, OnlyCommitsChange, CommitKeepsMetric, DeleteKeepsMetric
  <2>2. MetricIsExact /\ UNCHANGED <<events, metric, patches>> => MetricIsExact'
    BY DEF MetricIsExact, EventsOf, RowsOf
  <2> QED
    BY <2>1, <2>2
<1> QED
  BY <1>1, <1>2, AloneKeepsSolo, PTL DEF Spec

------------------------------------------------------------------------------
(* Patches and the events that explain them *)

LEMMA EndsSameKey ==
    ASSUME NEW e, NEW p, NEW row, NEW new, Key(new) = Key(row), Ends(e, p, row)
    PROVE  Ends(e, p, new)
<1>1. new.resource = row.resource
  BY DEF Key
<1> QED
  BY <1>1 DEF Ends

\* What PatchesAreExplained says of one patch.
Explained(p) ==
    LET row == patches[p] IN
    /\ events[row.source] # NoRow
    /\ events[row.source].type = "manual_fix_submit"
    /\ Ends(events[row.source], p, row)
    /\ row.status = "inactive" =>
          /\ row.endedBy # 0 /\ events[row.endedBy] # NoRow
          /\ Ends(events[row.endedBy], p, row)

LEMMA CommitExplains ==
    ASSUME HInv, PatchesAreExplained, NEW w \in Workers, CommitFeedback(w),
           NEW p \in PatchIds, patches'[p] # NoRow
    PROVE  Explained(p)'
<1> DEFINE t == tx[w]
<1>1. /\ TypeInv /\ NumbersInv /\ EventsInv /\ t \in TxRow /\ TxShape(t)
      /\ events \in [EventIds -> EventRow \union {NoRow}]
      /\ patches \in [PatchIds -> PatchRow \union {NoRow}]
      /\ NewEvent(w) /\ t.op # "delete"
  BY DEF HInv, IInv, CommitFeedback, TypeInv, TypeOK, TxInv, EventsInv
<1>2. \A e \in EventIds : events[e] # NoRow => events'[e] = events[e]
  <2>1. CASE t.row = NoRow
    BY <2>1 DEF CommitFeedback
  <2>2. CASE t.row # NoRow
    BY <1>1, <2>2 DEF CommitFeedback, NewEvent
  <2> QED
    BY <2>1, <2>2
<1>3. t.row # NoRow =>
         t.row \in EventRow /\ t.row.no \in EventIds /\ events'[t.row.no] = t.row
         /\ t.row.no # 0
  <2> SUFFICES ASSUME t.row # NoRow
               PROVE  /\ t.row \in EventRow /\ t.row.no \in EventIds
                      /\ events'[t.row.no] = t.row /\ t.row.no # 0
    OBVIOUS
  <2>1. t.row \in EventRow
    BY <1>1 DEF TxRow
  <2>2. t.row.no \in EventIds
    BY <2>1 DEF EventRow
  <2>3. t.row.no # 0
    BY <2>2 DEF EventIds
  <2>4. events' = [events EXCEPT ![t.row.no] = t.row]
    BY DEF CommitFeedback
  <2>5. events'[t.row.no] = t.row
    BY <1>1, <2>2, <2>4
  <2> QED
    BY <2>1, <2>2, <2>3, <2>5
<1>4. patches[p] # NoRow =>
         /\ Explained(p) /\ patches[p] \in PatchRow
         /\ patches[p].source \in EventIds
         /\ patches[p].status = "inactive" => patches[p].endedBy \in EventIds
  <2> SUFFICES ASSUME patches[p] # NoRow
               PROVE  /\ Explained(p) /\ patches[p] \in PatchRow
                      /\ patches[p].source \in EventIds
                      /\ patches[p].status = "inactive" => patches[p].endedBy \in EventIds
    OBVIOUS
  <2>1. Explained(p)
    BY DEF PatchesAreExplained, Explained
  <2>2. patches[p] \in PatchRow
    BY <1>1
  <2> QED
    BY <2>1, <2>2 DEF Explained, PatchRow
<1>5. CASE p \in Added(t)
  <2> PICK i \in DOMAIN t.ids : p = t.ids[i]
    BY <1>5 DEF Added
  <2>1. patches'[p] = NewPatch(t, i)
    BY <1>1, CommittedPatches
  <2>2. i \in 1..Len(Listed(t)) /\ Len(Listed(t)) \in Nat
    <3>1. Len(Listed(t)) \in Nat
      BY <1>1, ListedType
    <3> QED
      BY <1>1, <3>1 DEF TxShape, TxRow
  <2>3. /\ t.row # NoRow /\ t.row.type = "manual_fix_submit" /\ Listed(t) = t.row.patchTypes
        /\ i \in DOMAIN t.row.patchTypes
    <3>1. t.op = "submit" /\ t.row.type = "manual_fix_submit" /\ Listed(t) = t.row.patchTypes
      BY <2>2 DEF Listed
    <3>2. t.row # NoRow
      BY <1>1, <3>1 DEF TxShape
    <3>3. DOMAIN t.row.patchTypes = 1..Len(t.row.patchTypes)
      BY <1>3, <3>2 DEF EventRow
    <3> QED
      BY <2>2, <3>1, <3>2, <3>3
  <2>4. Ends(t.row, p, patches'[p])
    <3>0. t.row.resource = t.resource
      BY <1>1, <2>3 DEF NewEvent
    <3>1. patches'[p].resource = t.row.resource
      BY <2>1, <3>0 DEF NewPatch
    <3>2. Key(patches'[p]) = <<t.row.resource, t.row.patchTypes[i],
                               t.row.question, t.row.matchedSql>>
      BY <2>1, <2>3, <3>0 DEF NewPatch, Key
    <3> QED
      BY <2>3, <3>1, <3>2 DEF Ends
  <2>5. /\ patches'[p].source = t.row.no
        /\ patches'[p].status = "inactive" => patches'[p].endedBy = t.row.no
    BY <2>1 DEF NewPatch
  <2> QED
    BY <1>3, <2>3, <2>4, <2>5 DEF Explained
<1>6. CASE p \notin Added(t) /\ p \in t.held
  <2>1. /\ patches[p] \in PatchRow /\ patches[p] # NoRow
        /\ patches'[p] = [patches[p] EXCEPT !.status = "inactive", !.endedBy = t.row.no]
    BY <1>1, <1>6, RemainingPatches, NoRowAssumption
  <2>2. /\ Key(patches'[p]) = Key(patches[p])
        /\ patches'[p].source = patches[p].source /\ patches'[p].endedBy = t.row.no
    BY <2>1 DEF PatchRow, Key
  <2>3. t.row # NoRow
    BY <1>1, <1>6 DEF TxShape
  <2>4. Ends(t.row, p, patches'[p])
    BY <1>1, <1>6, <2>1, <2>2, <2>3, EndsSameKey DEF NewEvent, Loaded
  <2>5. Ends(events[patches[p].source], p, patches'[p])
    BY <1>4, <2>1, <2>2, EndsSameKey DEF Explained
  <2>6. events'[patches[p].source] = events[patches[p].source]
    BY <1>2, <1>4, <2>1 DEF Explained
  <2> QED
    BY <1>3, <1>4, <2>1, <2>2, <2>3, <2>4, <2>5, <2>6 DEF Explained
<1>7. CASE p \notin Added(t) /\ p \notin t.held
  <2>1. patches'[p] = patches[p]
    BY <1>1, <1>7, RemainingPatches
  <2>2. /\ events'[patches[p].source] = events[patches[p].source]
        /\ patches[p].status = "inactive" =>
              events'[patches[p].endedBy] = events[patches[p].endedBy]
    BY <1>2, <1>4, <2>1 DEF Explained
  <2> QED
    BY <1>4, <2>1, <2>2 DEF Explained
<1> QED
  BY <1>5, <1>6, <1>7

LEMMA DeleteExplains ==
    ASSUME SInv, AlwaysSolo, PatchesAreExplained, NEW w \in Workers, CommitDelete(w),
           NEW p \in PatchIds, patches'[p] # NoRow
    PROVE  Explained(p)'
<1> DEFINE t == tx[w]
<1>1. /\ t.goneEvents = EventsOf(t.resource) /\ t.held = PatchesOf(t.resource)
      /\ patches \in [PatchIds -> PatchRow \union {NoRow}]
  <2>1. /\ Current(t) /\ TxShape(t) /\ t.pc = "commit" /\ t.op = "delete"
        /\ patches \in [PatchIds -> PatchRow \union {NoRow}]
    BY DEF SInv, HInv, IInv, SoloInv, SoloTx, AlwaysSolo, CommitDelete, TypeInv, TypeOK,
           TxInv
  <2> QED
    BY <2>1 DEF Current, TxShape, Loaded
<1>2. patches[p] # NoRow /\ patches'[p] = patches[p] /\ patches[p].resource # t.resource
  BY <1>1 DEF CommitDelete, PatchesOf
<1>3. Explained(p) /\ patches[p] \in PatchRow
  BY <1>1, <1>2 DEF PatchesAreExplained, Explained
<1>4. \A e \in EventIds : events'[e] = IF e \in EventsOf(t.resource) THEN NoRow ELSE events[e]
  BY <1>1 DEF CommitDelete
<1>5. \A e \in EventIds : Ends(events[e], p, patches[p]) => events'[e] = events[e]
  BY <1>2, <1>4 DEF Ends, EventsOf
<1>6. patches[p].source \in EventIds
      /\ (patches[p].status = "inactive" => patches[p].endedBy \in EventIds)
  BY <1>3 DEF PatchRow, Explained
<1>7. /\ events'[patches[p].source] = events[patches[p].source]
      /\ patches[p].status = "inactive" =>
            events'[patches[p].endedBy] = events[patches[p].endedBy]
  BY <1>3, <1>5, <1>6 DEF Explained
<1> QED
  BY <1>2, <1>3, <1>7 DEF Explained

\* With one server process no patch is ever without the event that made it, or
\* inactive without the event that ended it, deletes included.
THEOREM PatchesExplained ==
    ASSUME OneProcess
    PROVE  Spec => []PatchesAreExplained
<1>1. Init => PatchesAreExplained
  BY DEF Init, PatchesAreExplained
<1>2. SInv /\ AlwaysSolo /\ PatchesAreExplained /\ [Next]_vars => PatchesAreExplained'
  <2>1. ASSUME SInv, AlwaysSolo, PatchesAreExplained, [Next]_vars,
               <<events', metric', patches'>> # <<events, metric, patches>>
        PROVE  PatchesAreExplained'
    <3>1. \A p \in PatchIds : patches'[p] # NoRow => Explained(p)'
      BY <2>1, OnlyCommitsChange, CommitExplains, DeleteExplains DEF SInv
    <3> QED
      BY <3>1 DEF PatchesAreExplained, Explained
  <2>2. PatchesAreExplained /\ UNCHANGED <<events, metric, patches>> => PatchesAreExplained'
    BY DEF PatchesAreExplained
  <2> QED
    BY <2>1, <2>2
<1> QED
  BY <1>1, <1>2, AloneKeepsSolo, PTL DEF Spec

------------------------------------------------------------------------------
(* A correction is the next answer *)

\* The lookup on the resource of an accepted override finds a patch of it.
LEMMA CorrectionIsFound ==
    ASSUME OneProcess, SInv, SInv', AlwaysSolo, [Next]_vars,
           NEW w \in Workers, NEW r, NEW q \in Questions,
           tx[w].op = "submit", tx[w].pc = "commit", events' # events,
           tx[w].resource = r, tx[w].row.question = q, tx[w].row.sql # NoText,
           NEW i \in DOMAIN Listed(tx[w]), Listed(tx[w])[i] = "sql_override"
    PROVE  FindActiveSqlOverridePatch(r, q)' \in Added(tx[w])
<1> DEFINE t == tx[w]
           S == MatchingOverrides(r, q)'
           k == KeyAt(t, i)
<1>1. CommitFeedback(w)
  BY OnlyCommitsChange DEF OneProcess, CommitDelete
<1>2. /\ TypeInv /\ NumbersInv /\ t \in TxRow /\ TxShape(t) /\ Current(t) /\ Closes(w)
      /\ lastPatch \in 0..MaxPatches /\ Added(t) \subseteq 1..lastPatch
  BY <1>1, EndCloses DEF SInv, HInv, IInv, CommitFeedback, TypeInv, TypeOK, TxInv,
                         SoloInv, SoloTx, AlwaysSolo
<1>3. Added(t) \subseteq PatchIds
  BY <1>2, BoundsAssumption DEF PatchIds
<1>4. t.row # NoRow /\ t.row \in EventRow
  BY <1>2 DEF TxShape, TxRow
<1>5. /\ Listed(t) = t.row.patchTypes /\ t.row.type = "manual_fix_submit"
      /\ i \in DOMAIN t.row.patchTypes /\ i \in DOMAIN t.ids
  <2>1. t.row.type = "manual_fix_submit"
    <3> SUFFICES ASSUME t.row.type # "manual_fix_submit" PROVE FALSE
      OBVIOUS
    <3>1. Listed(t) = <<>>
      BY DEF Listed
    <3> QED
      BY <3>1
  <2>2. Listed(t) = t.row.patchTypes /\ t.row.patchTypes \in Seq(PatchTypes)
    BY <1>4, <2>1 DEF Listed, EventRow
  <2>3. Len(t.ids) = Len(t.row.patchTypes) /\ t.ids \in Seq(PatchIds)
    BY <1>2, <2>2 DEF TxShape, TxRow
  <2> QED
    BY <2>1, <2>2, <2>3
<1>6. k = <<r, "sql_override", q, t.row.matchedSql>>
  BY DEF KeyAt
<1>7. PICK j \in DOMAIN t.ids : KeyAt(t, j) = k /\ NewPatch(t, j).status = "active"
  BY <1>2, <1>5, LastAddedIsActive
<1> DEFINE m == t.ids[j]
<1>8. /\ m \in Added(t) /\ m \in PatchIds /\ patches'[m] = NewPatch(t, j)
      /\ patches'[m] # NoRow
  BY <1>1, <1>2, CommittedPatches, NoRowAssumption
<1>9. t.row.sql \in SafeSqls
  <2>1. t.row.sql \in SafeSqls \union {NoText}
    BY <1>2, <1>4, <1>5 DEF Current
  <2> QED
    BY <2>1
<1>10. m \in S
  <2>1. /\ patches'[m].resource = r /\ patches'[m].type = "sql_override"
        /\ patches'[m].question = q /\ patches'[m].sql = t.row.sql
        /\ patches'[m].status = "active"
    BY <1>6, <1>7, <1>8 DEF NewPatch, KeyAt
  <2> HIDE DEF m
  <2> QED
    BY <1>8, <1>9, <2>1 DEF MatchingOverrides, PatchesOf, IsActive
<1>11. S \subseteq PatchIds /\ \A p \in S : patches'[p] # NoRow
  BY DEF MatchingOverrides, PatchesOf
<1> HIDE DEF S
<1>12. PatchIds \subseteq Nat /\ IsFiniteSet(PatchIds)
  BY PatchIdsAreFinite
<1>13. \E x \in S : \A o \in S : o <= x
  <2>1. S \in SUBSET Nat /\ IsFiniteSet(S)
    BY <1>11, <1>12, FS_Subset
  <2> QED
    BY <1>10, <2>1, LargestExists
<1> DEFINE x == CHOOSE p \in S : \A o \in S : o <= p
<1>14. x \in S /\ m <= x
  BY <1>10, <1>13
<1>15. FindActiveSqlOverridePatch(r, q)' = x
  <2>1. q # NoText
    BY TextAssumption
  <2> QED
    BY <1>10, <2>1 DEF FindActiveSqlOverridePatch, S
<1> HIDE DEF x
<1>16. x \in Added(t)
  <2> SUFFICES ASSUME x \notin Added(t) PROVE FALSE
    OBVIOUS
  <2>1. x \in PatchIds /\ patches'[x] # NoRow
    BY <1>11, <1>14
  <2>2. patches[x] # NoRow
    BY <1>2, <2>1, RowsOfClose
  <2>3. x < m
    BY <1>2, <2>1, <2>2 DEF Current
  <2>4. x \in Nat /\ m \in Nat
    BY <1>8, <1>12, <2>1
  <2> QED
    BY <1>14, <2>3, <2>4
<1> QED
  BY <1>15, <1>16

LEMMA StepTakesEffect ==
    ASSUME OneProcess, SInv, SInv', AlwaysSolo, [Next]_vars,
           NEW w \in Workers, NEW d \in Datasources, NEW q \in Questions,
           tx[w].op = "submit", tx[w].pc = "commit", events' # events,
           tx[w].resource[2] = d, tx[w].row.question = q, tx[w].row.sql # NoText,
           NEW i \in DOMAIN Listed(tx[w]), Listed(tx[w])[i] = "sql_override"
    PROVE  \/ FindOverride(d, q)'[2] \in Added(tx[w])
           \/ /\ tx[w].resource = <<"legacy", d>>
              /\ FindOverride(d, q)'[1] = <<"datasource", d>>
<1> SUFFICES ASSUME NEW r, r = tx[w].resource
             PROVE  \/ FindOverride(d, q)'[2] \in Added(tx[w])
                    \/ /\ r = <<"legacy", d>>
                       /\ FindOverride(d, q)'[1] = <<"datasource", d>>
  OBVIOUS
<1> DEFINE now == <<"datasource", d>>
           old == <<"legacy", d>>
<1>1. FindActiveSqlOverridePatch(r, q)' \in Added(tx[w])
  BY CorrectionIsFound
<1>2. FindActiveSqlOverridePatch(r, q)' # 0
  <2>1. TypeInv /\ Added(tx[w]) \subseteq 1..lastPatch /\ lastPatch \in 0..MaxPatches
    BY DEF SInv, HInv, IInv, TypeInv, TypeOK, TxInv
  <2> QED
    BY <1>1, <2>1, BoundsAssumption
<1>3. r = now \/ r = old
  <2>1. TypeInv /\ tx[w].op # "none"
    BY DEF SInv, HInv, IInv
  <2>2. r \in Forms \X Datasources /\ r[2] = d
    BY <2>1 DEF TypeInv, TxInv, TxShape, ResourceIds
  <2>3. r = <<r[1], r[2]>> /\ r[1] \in Forms
    BY <2>2
  <2> QED
    BY <2>2, <2>3, FormsAssumption
<1>4. /\ FindActiveSqlOverridePatch(now, q)' # 0 =>
            FindOverride(d, q)' = <<now, FindActiveSqlOverridePatch(now, q)'>>
      /\ FindActiveSqlOverridePatch(now, q)' = 0 =>
            FindOverride(d, q)' = <<old, FindActiveSqlOverridePatch(old, q)'>>
  BY DEF FindOverride
<1>5. CASE r = now
  BY <1>1, <1>2, <1>4, <1>5
<1>6. CASE r = old /\ FindActiveSqlOverridePatch(now, q)' # 0
  BY <1>4, <1>6
<1>7. CASE r = old /\ FindActiveSqlOverridePatch(now, q)' = 0
  BY <1>1, <1>4, <1>7
<1> QED
  BY <1>3, <1>5, <1>6, <1>7

\* With one server process the next answer to the question of an accepted
\* override is that override, whatever else is active for the question; only a
\* correction of the bare id may stand behind an override of "datasource:<id>".
THEOREM CorrectionIsUsed ==
    ASSUME OneProcess
    PROVE  Spec => CorrectionTakesEffect
<1>1. (SInv /\ AlwaysSolo) /\ (SInv /\ AlwaysSolo)' /\ [Next]_vars =>
         [\A w \in Workers, d \in Datasources, q \in Questions :
            /\ tx[w].op = "submit" /\ tx[w].pc = "commit" /\ events' # events
            /\ tx'[w] = Idle
            /\ tx[w].resource[2] = d /\ tx[w].row.question = q
            /\ tx[w].row.sql # NoText
            /\ \E i \in DOMAIN Listed(tx[w]) : Listed(tx[w])[i] = "sql_override"
            => \/ FindOverride(d, q)'[2] \in Added(tx[w])
               \/ /\ tx[w].resource = <<"legacy", d>>
                  /\ FindOverride(d, q)'[1] = <<"datasource", d>>]_vars
  BY StepTakesEffect
<1> QED
  BY <1>1, AloneKeepsSolo, PTL DEF Spec, CorrectionTakesEffect
==============================================================================
