----------------------------- MODULE FeedbackLoop -----------------------------
(***************************************************************************)
(* The feedback loop of the query-resource learning service: feedback      *)
(* events, the correction patches they activate, the metric row recomputed *)
(* with them, the log of applied patches, and the removal of a resource.   *)
(* Code: SQLBot/backend/apps/query_resource_learning/{api,service,models}  *)
(* and the readers of the patches in apps/chat.                            *)
(*                                                                         *)
(* Every request is one transaction of one session at PostgreSQL's default *)
(* level, read committed: a SELECT sees what is committed when it runs     *)
(* plus the transaction's own writes, which it flushes first; every row    *)
(* and index entry written is locked until the transaction ends; all of it *)
(* becomes visible at commit, or nothing does.  The handlers are "async    *)
(* def" without an await, so one server process runs them one at a time:   *)
(* Workers is the set of server processes (start.sh starts one).  Chats    *)
(* are the threads that answer questions; they read patches and write the  *)
(* apply log in their own sessions, between any two steps of a request.    *)
(***************************************************************************)
EXTENDS FeedbackMetrics, Sequences

CONSTANTS
    Workers,        \* server processes running the governance API
    Chats,          \* threads answering questions
    Datasources,    \* ids of data sources that are learned and asked
    Forms,          \* forms their ids are given in
    Questions,      \* normalized question texts
    SafeSqls,       \* statements _is_safe_read_sql accepts
    UnsafeSqls,     \* statements it rejects
    PatchTypes,     \* kinds of correction, "sql_override" among them
    NoText,         \* an empty or missing text
    NoRow,          \* a row that is not in its table
    Submissions,    \* the feedback payloads clients send
    TickDays,       \* how far time may pass in one step
    MaxClock, MaxEvents, MaxPatches  \* bounds on time and on the id sequences

Texts == Questions \union {NoText}
Sqls == SafeSqls \union UnsafeSqls \union {NoText}
ResourceIds == Forms \X Datasources       \* "datasource:<id>" and "<id>"
EventIds == 1..MaxEvents
PatchIds == 1..MaxPatches

Submission == [type: EventTypes, question: Texts, matchedSql: Sqls,
               before: BOOLEAN, after: BOOLEAN, sql: Sqls,
               patchTypes: Seq(PatchTypes)]

ASSUME BoundsAssumption ==
    /\ MaxClock \in Nat /\ MaxEvents \in Nat /\ MaxPatches \in Nat
    /\ TickDays \subseteq Nat \ {0}

ASSUME TextAssumption ==
    /\ NoText \notin Questions \union SafeSqls \union UnsafeSqls
    /\ SafeSqls \intersect UnsafeSqls = {}
    /\ "sql_override" \in PatchTypes

ASSUME SubmissionAssumption == Submissions \subseteq Submission

ASSUME FormsAssumption == Forms \subseteq {"datasource", "legacy"}

EventRow == [no: EventIds, resource: ResourceIds, type: EventTypes,
             question: Texts, matchedSql: Sqls, sql: Sqls,
             patchTypes: Seq(PatchTypes), patch: PatchIds \union {0},
             created: Nat]

PatchRow == [resource: ResourceIds, type: PatchTypes, question: Texts,
             matchedSql: Sqls, sql: Sqls, status: {"active", "inactive"},
             source: EventIds, endedBy: EventIds \union {0}]

ASSUME NoRowAssumption ==
    NoRow \notin EventRow \union PatchRow \union MetricRow

VARIABLES
    clock,       \* days passed
    learned,     \* resources with rows in the task, result or score table
    events,      \* committed feedback events by event_no
    patches,     \* committed patch snapshots by id
    metric,      \* committed metric row of each resource
    applyLogs,   \* committed <<resource, patch>> pairs of the apply log
    lastEvent,   \* last event_no handed out
    lastPatch,   \* last value of the patch id sequence
    tx,          \* the open transaction of each worker
    chat         \* the override each answering thread holds

tables == <<learned, events, patches, metric, applyLogs>>
sequences == <<lastEvent, lastPatch>>
vars == <<clock, tables, sequences, tx, chat>>

------------------------------------------------------------------------------
(* Transactions *)

Idle == [op |-> "none", pc |-> "idle", resource |-> NoRow, row |-> NoRow,
         loaded |-> {}, held |-> {}, ids |-> <<>>,
         read |-> NoRow, payload |-> NoRow, goneLogs |-> {}, goneEvents |-> {},
         goneLearned |-> FALSE, solo |-> TRUE]

TxRow == [op: {"none", "submit", "disable", "delete", "metric"},
          pc: {"idle", "flush", "commit"},
          resource: ResourceIds \union {NoRow},
          row: EventRow \union {NoRow},        \* the event being added
          loaded: SUBSET PatchIds,             \* patches it is about to write
          held: SUBSET PatchIds,               \* patches it wrote, locked
          ids: Seq(PatchIds),                  \* ids of the patches it added
          read: MetricRow \union {NoRow},      \* the metric row it loaded
          payload: MetricRow \union {NoRow},   \* the metric row it computed
          goneLogs: SUBSET (ResourceIds \X PatchIds),
          goneEvents: SUBSET EventIds,
          goneLearned: BOOLEAN,
          solo: BOOLEAN]                       \* overlapped no other transaction

TypeOK ==
    /\ clock \in 0..MaxClock
    /\ learned \subseteq ResourceIds
    /\ events \in [EventIds -> EventRow \union {NoRow}]
    /\ patches \in [PatchIds -> PatchRow \union {NoRow}]
    /\ metric \in [ResourceIds -> MetricRow \union {NoRow}]
    /\ applyLogs \subseteq ResourceIds \X PatchIds
    /\ lastEvent \in 0..MaxEvents
    /\ lastPatch \in 0..MaxPatches
    /\ tx \in [Workers -> TxRow]
    /\ chat \in [Chats -> (ResourceIds \X PatchIds) \union {NoRow}]

Init ==
    /\ clock = 0
    /\ learned = {}
    /\ events = [e \in EventIds |-> NoRow]
    /\ patches = [p \in PatchIds |-> NoRow]
    /\ metric = [r \in ResourceIds |-> NoRow]
    /\ applyLogs = {}
    /\ lastEvent = 0
    /\ lastPatch = 0
    /\ tx = [w \in Workers |-> Idle]
    /\ chat = [c \in Chats |-> NoRow]

\* The session of w opens a transaction t; those already open overlap it.
Open(w, t) ==
    tx' = [v \in Workers |->
             IF v = w
             THEN [t EXCEPT !.solo = \A u \in Workers \ {w} : tx[u].pc = "idle"]
             ELSE IF tx[v].pc = "idle" THEN tx[v] ELSE [tx[v] EXCEPT !.solo = FALSE]]

Close(w) == tx' = [tx EXCEPT ![w] = Idle]

EventsOf(r) == {e \in EventIds : events[e] # NoRow /\ events[e].resource = r}
PatchesOf(r) == {p \in PatchIds : patches[p] # NoRow /\ patches[p].resource = r}
LogsOf(r) == {log \in applyLogs : log[1] = r}

\* The feedback endpoints answer 404 unless some table mentions the resource.
FeedbackResourceExists(r) ==
    \/ r \in learned
    \/ EventsOf(r) # {}
    \/ PatchesOf(r) # {}
    \/ LogsOf(r) # {}
    \/ metric[r] # NoRow

IsActive(p) == patches[p] # NoRow /\ patches[p].status = "active"

\* The partial unique index over active patches.
Key(row) == <<row.resource, row.type, row.question, row.matchedSql>>

\* The kinds of correction a transaction submits, in the order listed.
Listed(t) == IF t.op = "submit" /\ t.row.type = "manual_fix_submit"
             THEN t.row.patchTypes
             ELSE <<>>

\* The key of its i-th patch.
KeyAt(t, i) == <<t.resource, Listed(t)[i], t.row.question, t.row.matchedSql>>

Added(t) == {t.ids[i] : i \in DOMAIN t.ids}

\* Patch types are handled in list order: a type listed again supersedes the
\* patch just added for it.
NewPatch(t, i) ==
    LET again == \E j \in DOMAIN t.ids : j > i /\ Listed(t)[j] = Listed(t)[i]
    IN  [resource |-> t.resource, type |-> Listed(t)[i],
         question |-> t.row.question, matchedSql |-> t.row.matchedSql,
         sql |-> t.row.sql,
         status |-> IF again THEN "inactive" ELSE "active",
         source |-> t.row.no,
         endedBy |-> IF again THEN t.row.no ELSE 0]

\* Mutant: the event is not flushed before the recount.
VisibleEventsUnflushed(t) == {events[e] : e \in EventsOf(t.resource)}

\* The events a transaction's recount reads: committed ones and its own.
VisibleEvents(t) ==
    {events[e] : e \in EventsOf(t.resource)} \union
    (IF t.row = NoRow THEN {} ELSE {t.row})

\* Rows and index entries a transaction keeps locked until it ends.
LockedPatches(v) == tx[v].held
LockedKeys(v) == {KeyAt(tx[v], i) : i \in DOMAIN tx[v].ids}

\* What it does next: rows are updated and deleted one by one in order of id,
\* and the rows of one patch type are updated before its patch is inserted.
NextRow(t) == CHOOSE p \in t.loaded : \A o \in t.loaded : p <= o
Writing(w) == tx[w].pc = "flush" /\ tx[w].loaded # {}
Flushed(w) == tx[w].pc = "flush" /\ tx[w].loaded = {}
Inserting(w) == Flushed(w) /\ Len(tx[w].ids) < Len(Listed(tx[w]))
NextKey(t) == KeyAt(t, Len(t.ids) + 1)
MetricRowNeeded(w) ==
    \/ tx[w].op = "delete" /\ Flushed(w)
    \/ tx[w].op # "delete" /\ tx[w].pc = "commit"

\* Mutant: uncommitted index entries of others are not waited for.
AwaitsRowsOnly(w, v) ==
    v # w /\ Writing(w) /\ NextRow(tx[w]) \in LockedPatches(v)

\* v holds a row or an index entry that the next statement of w needs.
Awaits(w, v) ==
    /\ v # w
    /\ \/ Writing(w) /\ NextRow(tx[w]) \in LockedPatches(v)
       \/ Inserting(w) /\ NextKey(tx[w]) \in LockedKeys(v)
       \/ /\ Inserting(w)
          /\ \E p \in LockedPatches(v) :
                IsActive(p) /\ Key(patches[p]) = NextKey(tx[w])
       \/ /\ MetricRowNeeded(w)
          /\ tx[v].op = "delete" /\ tx[v].pc = "commit" /\ tx[v].read # NoRow
          /\ tx[v].resource = tx[w].resource

Blocked(w) == \E v \in Workers : Awaits(w, v)

\* A transaction that waits for itself over others, each waiting for the next.
OnCircle(w) ==
    \A S \in SUBSET Workers :
        /\ \A v \in Workers : Awaits(w, v) => v \in S
        /\ \A u \in S, v \in Workers : Awaits(u, v) => v \in S
        => w \in S

------------------------------------------------------------------------------
(* POST .../feedback/events *)

ValidSubmission(s) ==
    s.type = "manual_fix_submit" =>
        LET types == {s.patchTypes[i] : i \in DOMAIN s.patchTypes}
            candidates == {s.matchedSql, s.sql} \ {NoText}
        IN  /\ s.before /\ s.after /\ types # {}
            /\ s.question # NoText \/ s.matchedSql # NoText
            /\ "sql_override" \in types => /\ candidates # {}
                                           /\ candidates \subseteq SafeSqls

\* Mutant: only the first listed type is looked at.
SupersededByFirstType(t) ==
    {p \in PatchesOf(t.resource) \ t.held :
        /\ Len(t.ids) < Len(Listed(t))
        /\ IsActive(p) /\ Key(patches[p]) = KeyAt(t, 1)}

\* Mutant: the fingerprint alone decides, whatever the patch type.
SupersededByFingerprint(t) ==
    {p \in PatchesOf(t.resource) \ t.held :
        /\ Len(t.ids) < Len(Listed(t)) /\ IsActive(p)
        /\ patches[p].question = t.row.question
        /\ patches[p].matchedSql = t.row.matchedSql}

\* The active patches that the next patch of a correction supersedes.
Superseded(t) ==
    {p \in PatchesOf(t.resource) \ t.held :
        /\ Len(t.ids) < Len(Listed(t))
        /\ IsActive(p) /\ Key(patches[p]) = NextKey(t)}

\* Insert the event, then load the patches the first type supersedes.
SubmitFeedbackEvent(w, r, s) ==
    /\ tx[w].pc = "idle"
    /\ FeedbackResourceExists(r)
    /\ ValidSubmission(s)
    /\ lastEvent < MaxEvents
    /\ lastEvent' = lastEvent + 1
    /\ LET row == [no |-> lastEvent + 1, resource |-> r, type |-> s.type,
                   question |-> s.question, matchedSql |-> s.matchedSql,
                   sql |-> s.sql, patchTypes |-> s.patchTypes, patch |-> 0,
                   created |-> clock]
           t == [Idle EXCEPT !.op = "submit", !.pc = "flush", !.resource = r,
                             !.row = row]
       IN  Open(w, [t EXCEPT !.loaded = Superseded(t)])
    /\ UNCHANGED <<clock, tables, lastPatch, chat>>

------------------------------------------------------------------------------
(* POST .../patches/{patch_id}/disable *)

\* Disabling an inactive patch changes no patch but still adds an event.
DisablePatch(w, r, p) ==
    /\ tx[w].pc = "idle"
    /\ p \in PatchesOf(r)
    /\ lastEvent < MaxEvents
    /\ lastEvent' = lastEvent + 1
    /\ LET row == [no |-> lastEvent + 1, resource |-> r, type |-> "manual_fix_disable",
                   question |-> patches[p].question,
                   matchedSql |-> patches[p].matchedSql, sql |-> NoText,
                   patchTypes |-> <<patches[p].type>>, patch |-> p,
                   created |-> clock]
       IN  Open(w, [Idle EXCEPT !.op = "disable", !.pc = "flush", !.resource = r,
                                !.row = row,
                                !.loaded = IF IsActive(p) THEN {p} ELSE {}])
    /\ UNCHANGED <<clock, tables, lastPatch, chat>>

------------------------------------------------------------------------------
(* The flushes of submit, disable and delete *)

\* A patch row it wants to update was deleted meanwhile: StaleDataError.
RowGone(w) == Writing(w) /\ tx[w].op # "delete" /\ patches[NextRow(tx[w])] = NoRow

\* UPDATE or DELETE the next row loaded; deleting one that is gone is no error.
WritePatch(w) ==
    /\ Writing(w) /\ ~Blocked(w) /\ ~RowGone(w)
    /\ LET p == NextRow(tx[w])
       IN  tx' = [tx EXCEPT ![w] =
                    [tx[w] EXCEPT !.loaded = tx[w].loaded \ {p},
                                  !.held = {o \in tx[w].held \union {p} :
                                               patches[o] # NoRow}]]
    /\ UNCHANGED <<clock, tables, sequences, chat>>

\* Mutant: the table has no unique index.
KeyNeverTaken(w) == FALSE

\* A patch with the same key was activated meanwhile: IntegrityError.
KeyTaken(w) ==
    /\ Inserting(w)
    /\ \E p \in PatchIds \ tx[w].held :
          IsActive(p) /\ Key(patches[p]) = NextKey(tx[w])

\* Bound of the model: the id sequence of the patch table has run out.
OutOfPatchIds(w) == Inserting(w) /\ lastPatch = MaxPatches

\* INSERT the patch of one type, then load those the next type supersedes.
InsertPatch(w) ==
    /\ Inserting(w) /\ ~Blocked(w) /\ ~KeyTaken(w) /\ ~OutOfPatchIds(w)
    /\ lastPatch' = lastPatch + 1
    /\ LET t == [tx[w] EXCEPT !.ids = Append(tx[w].ids, lastPatch + 1)]
       IN  tx' = [tx EXCEPT ![w] = [t EXCEPT !.loaded = Superseded(t)]]
    /\ UNCHANGED <<clock, tables, lastEvent, chat>>

\* _upsert_feedback_metric: load the events, recount them, load the row.
CountFeedback(w) ==
    /\ Flushed(w) /\ ~Inserting(w) /\ tx[w].op \in {"submit", "disable"}
    /\ tx' = [tx EXCEPT ![w] = [tx[w] EXCEPT
                 !.pc = "commit",
                 !.read = metric[tx[w].resource],
                 !.payload = MetricPayload(VisibleEvents(tx[w]), clock)]]
    /\ UNCHANGED <<clock, tables, sequences, chat>>

------------------------------------------------------------------------------
(* GET .../feedback-metric and POST .../feedback/evaluate-relearning *)

\* A stored row is answered as it is; only a missing row is computed.
GetFeedbackMetric(w, r) ==
    /\ tx[w].pc = "idle"
    /\ FeedbackResourceExists(r)
    /\ metric[r] = NoRow
    /\ Open(w, [Idle EXCEPT !.op = "metric", !.pc = "commit", !.resource = r,
                            !.payload = MetricPayload({events[e] : e \in EventsOf(r)},
                                                      clock)])
    /\ UNCHANGED <<clock, tables, sequences, chat>>

------------------------------------------------------------------------------
(* End of a submit, disable or metric transaction *)

\* The metric row it loaded is gone, or one it did not see was inserted.
CommitConflict(w) ==
    /\ tx[w].pc = "commit" /\ tx[w].op # "delete"
    /\ (tx[w].read = NoRow) # (metric[tx[w].resource] = NoRow)

CommitFeedback(w) ==
    /\ tx[w].pc = "commit" /\ tx[w].op # "delete"
    /\ ~Blocked(w) /\ ~CommitConflict(w)
    /\ LET t == tx[w]
           r == t.resource
       IN  /\ events' = IF t.row = NoRow THEN events
                        ELSE [events EXCEPT ![t.row.no] = t.row]
           /\ patches' = [p \in PatchIds |->
                            IF p \in Added(t)
                            THEN NewPatch(t, CHOOSE i \in DOMAIN t.ids : t.ids[i] = p)
                            ELSE IF p \in t.held
                            THEN [patches[p] EXCEPT !.status = "inactive",
                                                    !.endedBy = t.row.no]
                            ELSE patches[p]]
           /\ metric' = [metric EXCEPT ![r] =
                            IF t.read = NoRow THEN t.payload
                            ELSE UpdateColumns(metric[r], t.read, t.payload)]
    /\ Close(w)
    /\ UNCHANGED <<clock, learned, applyLogs, sequences, chat>>

\* The database refuses a statement: it conflicts with what others committed,
\* or its wait closes a circle and the deadlock detector ends this transaction.
Refused(w) ==
    \/ ~Blocked(w) /\ (RowGone(w) \/ KeyTaken(w) \/ OutOfPatchIds(w) \/ CommitConflict(w))
    \/ OnCircle(w)

\* Mutant: a refused request flushes again, in the session it has.
FlushAgain(w) ==
    /\ Refused(w)
    /\ tx' = [tx EXCEPT ![w].pc = "flush"]
    /\ UNCHANGED <<clock, tables, sequences, chat>>

\* 500, and nothing is kept.
FailRequest(w) ==
    /\ Refused(w)
    /\ Close(w)
    /\ UNCHANGED <<clock, tables, sequences, chat>>

\* The process dies, or the connection is lost: the database rolls back.
Crash(w) ==
    /\ tx[w].pc # "idle"
    /\ Close(w)
    /\ UNCHANGED <<clock, tables, sequences, chat>>

------------------------------------------------------------------------------
(* DELETE .../resources/{resource_id} *)

\* Mutant: the patch table is not in the list of tables to clean.
DeleteResourceKeepsPatches(w, r) ==
    /\ tx[w].pc = "idle"
    /\ Open(w, [Idle EXCEPT !.op = "delete", !.pc = "flush", !.resource = r,
                            !.goneLogs = LogsOf(r)])
    /\ UNCHANGED <<clock, tables, sequences, chat>>

\* Seven tables are read one after the other, each read flushing the deletes
\* of the tables before it: first the apply logs and the patches ...
DeleteResource(w, r) ==
    /\ tx[w].pc = "idle"
    /\ Open(w, [Idle EXCEPT !.op = "delete", !.pc = "flush", !.resource = r,
                            !.goneLogs = LogsOf(r), !.loaded = PatchesOf(r)])
    /\ UNCHANGED <<clock, tables, sequences, chat>>

\* ... then the events, the metric row and the learning rows.
DeleteRemaining(w) ==
    /\ Flushed(w) /\ tx[w].op = "delete" /\ ~Blocked(w)
    /\ tx' = [tx EXCEPT ![w] = [tx[w] EXCEPT
                 !.pc = "commit",
                 !.goneEvents = EventsOf(tx[w].resource),
                 !.read = metric[tx[w].resource],
                 !.goneLearned = tx[w].resource \in learned]]
    /\ UNCHANGED <<clock, tables, sequences, chat>>

FoundRows(t) ==
    \/ t.goneLearned \/ t.read # NoRow
    \/ t.goneLogs # {} \/ t.held # {} \/ t.goneEvents # {}

CommitDelete(w) ==
    /\ tx[w].pc = "commit" /\ tx[w].op = "delete"
    /\ LET t == tx[w]
           r == t.resource
       IN  /\ FoundRows(t)
           /\ applyLogs' = applyLogs \ t.goneLogs
           /\ patches' = [p \in PatchIds |->
                            IF p \in t.held THEN NoRow ELSE patches[p]]
           /\ events' = [e \in EventIds |->
                            IF e \in t.goneEvents THEN NoRow ELSE events[e]]
           /\ metric' = IF t.read = NoRow THEN metric ELSE [metric EXCEPT ![r] = NoRow]
           /\ learned' = IF t.goneLearned THEN learned \ {r} ELSE learned
    /\ Close(w)
    /\ UNCHANGED <<clock, sequences, chat>>

\* Nothing to delete: 404, or all of it gone since it was loaded.
DeleteNotFound(w) ==
    /\ tx[w].pc = "commit" /\ tx[w].op = "delete"
    /\ ~FoundRows(tx[w])
    /\ Close(w)
    /\ UNCHANGED <<clock, tables, sequences, chat>>

------------------------------------------------------------------------------
(* POST .../resources/{resource_id}/learn *)

\* A learning run, succeeded or failed, adds rows to the learning tables and
\* touches no other; which rows is not told apart here.
LearnResource(w, r) ==
    /\ tx[w].pc = "idle"
    /\ learned' = learned \union {r}
    /\ UNCHANGED <<clock, events, patches, metric, applyLogs, sequences, tx, chat>>

------------------------------------------------------------------------------
(* Answering a question *)

\* Active overrides of r for question q; the matched SQL of the question is
\* not known yet, so patches that differ only in it all match.
MatchingOverrides(r, q) ==
    {p \in PatchesOf(r) : /\ IsActive(p)
                          /\ patches[p].type = "sql_override"
                          /\ patches[p].question = q
                          /\ patches[p].sql \in SafeSqls}

\* Mutant: the sort key is the id, not its negation.
FindOldestSqlOverridePatch(r, q) ==
    IF q = NoText \/ MatchingOverrides(r, q) = {} THEN 0
    ELSE CHOOSE p \in MatchingOverrides(r, q) :
            \A o \in MatchingOverrides(r, q) : p <= o

\* Priority is 100 for every patch, so the largest id comes first.
FindActiveSqlOverridePatch(r, q) ==
    IF q = NoText \/ MatchingOverrides(r, q) = {} THEN 0
    ELSE CHOOSE p \in MatchingOverrides(r, q) :
            \A o \in MatchingOverrides(r, q) : o <= p

\* Mutant: the handler does not check that a patch was found.
AskQuestionUnchecked(c, d, q) ==
    /\ chat[c] = NoRow
    /\ LET r == <<"datasource", d>>
       IN  chat' = [chat EXCEPT ![c] = <<r, FindActiveSqlOverridePatch(r, q)>>]
    /\ UNCHANGED <<clock, tables, sequences, tx>>

\* The resource and the override a question finds: "datasource:<id>" is tried
\* before the bare "<id>".
FindOverride(d, q) ==
    LET now == <<"datasource", d>>
        old == <<"legacy", d>>
        r == IF FindActiveSqlOverridePatch(now, q) # 0 THEN now ELSE old
    IN  <<r, FindActiveSqlOverridePatch(r, q)>>

AskQuestion(c, d, q) ==
    /\ chat[c] = NoRow
    /\ FindOverride(d, q)[2] # 0
    /\ chat' = [chat EXCEPT ![c] = FindOverride(d, q)]
    /\ UNCHANGED <<clock, tables, sequences, tx>>

\* The override is used, and the log row committed with the answer.
RecordPatchApplyLog(c) ==
    /\ chat[c] # NoRow
    /\ applyLogs' = applyLogs \union {chat[c]}
    /\ chat' = [chat EXCEPT ![c] = NoRow]
    /\ UNCHANGED <<clock, learned, events, patches, metric, sequences, tx>>

\* The answer fails or its process dies before the log row is committed.
AbandonAnswer(c) ==
    /\ chat[c] # NoRow
    /\ chat' = [chat EXCEPT ![c] = NoRow]
    /\ UNCHANGED <<clock, tables, sequences, tx>>

------------------------------------------------------------------------------
(* The specification *)

\* A request takes no measurable part of a day.
PassTime ==
    /\ \A w \in Workers : tx[w].pc = "idle"
    /\ \E days \in TickDays :
          /\ clock + days <= MaxClock
          /\ clock' = clock + days
    /\ UNCHANGED <<tables, sequences, tx, chat>>

Start(w) ==
    \E r \in ResourceIds :
        \/ \E s \in Submissions : SubmitFeedbackEvent(w, r, s)
        \/ \E p \in PatchIds : DisablePatch(w, r, p)
        \/ GetFeedbackMetric(w, r)
        \/ DeleteResource(w, r)
        \/ LearnResource(w, r)

\* What a request in progress does next, unless it is waiting for a lock.
Proceed(w) ==
    \/ WritePatch(w) \/ InsertPatch(w)
    \/ CountFeedback(w) \/ CommitFeedback(w) \/ FailRequest(w)
    \/ DeleteRemaining(w) \/ CommitDelete(w) \/ DeleteNotFound(w)

Next ==
    \/ \E w \in Workers : Start(w) \/ Proceed(w) \/ Crash(w)
    \/ \E c \in Chats :
          \/ \E d \in Datasources, q \in Questions : AskQuestion(c, d, q)
          \/ RecordPatchApplyLog(c)
          \/ AbandonAnswer(c)
    \/ PassTime

Spec == Init /\ [][Next]_vars

\* A handler waits for nothing but locks of the database.  PostgreSQL queues
\* waiters in arrival order, so a request whose lock is free again and again gets
\* it, and its deadlock detector ends a transaction of every circle.
FairSpec == Spec /\ \A w \in Workers : SF_vars(Proceed(w))

------------------------------------------------------------------------------
(* Properties that hold however many server processes there are *)

\* Among the patches of one resource, type, question and matched SQL, at most
\* one is active, and no patch of the same key is newer than the active one:
\* what _activate_patch_snapshots_for_event and the partial unique index
\* together promise the readers of the snapshot table.
NewestActive ==
    \A p, q \in PatchIds :
        /\ IsActive(p) /\ patches[q] # NoRow
        /\ p # q /\ Key(patches[p]) = Key(patches[q])
        => q < p /\ ~IsActive(q)

\* Event e is a reason for patch row p to stop being active.
Ends(e, p, row) ==
    /\ e.resource = row.resource
    /\ \/ e.type = "manual_fix_disable" /\ e.patch = p
       \/ /\ e.type = "manual_fix_submit"
          /\ \E i \in DOMAIN e.patchTypes :
                Key(row) = <<e.resource, e.patchTypes[i], e.question, e.matchedSql>>

\* A patch keeps what it corrects for as long as it exists; it stops being
\* active for good, and only in the transaction that commits an event saying
\* so.  Learning again, in particular, ends no patch.
PatchLifecycle ==
    [][\A p \in PatchIds :
         patches[p] # NoRow /\ patches'[p] # patches[p] =>
            \/ patches'[p] = NoRow
            \/ /\ patches'[p] = [patches[p] EXCEPT !.status = "inactive",
                                                   !.endedBy = patches'[p].endedBy]
               /\ LET e == patches'[p].endedBy
                  IN  /\ events[e] = NoRow /\ events'[e] # NoRow
                      /\ Ends(events'[e], p, patches'[p])]_vars

RowsOf(evs, r) == {evs[e] : e \in {f \in EventIds : evs[f] # NoRow /\ evs[f].resource = r}}

\* The recount of a transaction that overlapped no other leaves the metric row
\* equal to a count of all committed events, whatever earlier overlapping
\* transactions made of it: lost updates do not last.
SoloRecountIsExact ==
    [][\A w \in Workers, r \in ResourceIds :
         /\ tx[w].solo /\ tx[w].resource = r
         /\ tx[w].op # "delete" /\ tx[w].pc = "commit"
         /\ <<events', metric'>> # <<events, metric>> /\ tx'[w] = Idle
         => metric'[r] = MetricPayload(RowsOf(events', r), tx[w].payload.updatedAt)]_vars

\* No request waits for ever for another's locks, in whatever order the listed
\* patch types of two corrections, or a correction and a deletion, take them.
RequestsEnd == \A w \in Workers : tx[w].pc # "idle" ~> tx[w].pc = "idle"

------------------------------------------------------------------------------
(* Properties of the shipped deployment, one server process *)

\* The stored metric row is the count of the resource's events as of the day
\* it was computed, and it exists as soon as there is feedback to count.
MetricIsExact ==
    \A r \in ResourceIds :
        /\ metric[r] = NoRow =>
              \A e \in EventsOf(r) : events[e].type \notin RateEventTypes
        /\ metric[r] # NoRow =>
              metric[r] = MetricPayload(RowsOf(events, r), metric[r].updatedAt)

\* Patches are never without the event that made them, nor inactive without
\* the event that ended them.
PatchesAreExplained ==
    \A p \in PatchIds : patches[p] # NoRow =>
        LET row == patches[p] IN
        /\ events[row.source] # NoRow
        /\ events[row.source].type = "manual_fix_submit"
        /\ Ends(events[row.source], p, row)
        /\ row.status = "inactive" =>
              /\ row.endedBy # 0 /\ events[row.endedBy] # NoRow
              /\ Ends(events[row.endedBy], p, row)

\* No request is refused by the database: what the handlers load before they
\* write keeps them clear of the unique index and of the primary key.
NoServerError ==
    \A w \in Workers :
        ~RowGone(w) /\ ~KeyTaken(w) /\ ~CommitConflict(w) /\ ~OnCircle(w)

\* The next question after an accepted override with a question and a
\* corrected statement is answered with it, even when other overrides of the
\* question, made against other matched SQL, are still active.  One thing comes
\* before it: to a correction of the bare "<id>", any override on record for
\* "datasource:<id>".
CorrectionTakesEffect ==
    [][\A w \in Workers, d \in Datasources, q \in Questions :
         /\ tx[w].op = "submit" /\ tx[w].pc = "commit" /\ events' # events
         /\ tx'[w] = Idle
         /\ tx[w].resource[2] = d /\ tx[w].row.question = q
         /\ tx[w].row.sql # NoText
         /\ \E i \in DOMAIN Listed(tx[w]) : Listed(tx[w])[i] = "sql_override"
         => \/ FindOverride(d, q)'[2] \in Added(tx[w])
            \/ /\ tx[w].resource = <<"legacy", d>>
               /\ FindOverride(d, q)'[1] = <<"datasource", d>>]_vars
==============================================================================
