# A verification project for StarBI

StarBI is a business-intelligence product made of two parts that live side by
side in this repository: **SQLBot** (`SQLBot/`, Python, FastAPI and Vue), which
answers questions in natural language by writing and running SQL, and
**DataEase** (`dataease/`, Java and Vue), the dashboards, with a gateway that
forwards AI requests to SQLBot. This directory holds TLA+ models of its own
logic, TLC configurations that check them on small instances, and proofs
checked by TLAPS.

Seven parts are modelled. Of SQLBot: how it answers a question (`ChatTask`),
how feedback about answers changes the next ones (`FeedbackLoop`), and its
users with their workspaces and cached records (`Workspaces`). Of the
DataEase front end: the conversation page of the query assistant
(`Conversation`), the editor of a dashboard with its history, draft and saves
(`Editor`), the component tree of a data screen (`Canvas`), and the renewal of
the login token (`TokenRefresh`).

## 1. Inventory

| component | state it keeps | operations | what is hard about it | what makes it correct |
|---|---|---|---|---|
| feedback loop, `SQLBot/backend/apps/query_resource_learning` | tables of feedback events, patch snapshots, one metric row per resource, apply log | submit feedback, disable a patch, read or compute the metric, evaluate, delete the resource | one transaction per request with reads, automatic flushes and a commit; several processes if scaled; unique indexes; crash before commit; a deletion that reads seven tables in a row | one active patch per key; a patch ends only by an event that says so; the metric row is the count of the events; a correction answers the next question |
| learning runs, same directory | task, result and score rows | learn a resource, list, quality summary | version = largest + 1 without a constraint; rows picked independently; failure inside the transaction | versions distinct; what is shown comes from one run |
| patch readers, `apps/chat/api/chat.py`, `apps/chat/task/llm.py` | the patch found for the question being answered | look an override up, use it, log it | the lookup and the log are separate in time from the patch's life | newest override of the question wins; log rows name real patches |
| answer task, `apps/chat/task/llm.py`, `apps/chat/curd/chat.py` | chat record, operation logs, chunk list, future | select data source, generate SQL, execute, chart, save at every stage, stream events | pool thread against response generator; every stage commits; errors at any stage | every record ends finished or with an error; every stream ends with finish or error |
| chat history, `apps/chat/curd/chat.py`, `record_merge.py` | records of a chat, analyses and predictions as child records | merge children into parents, sqlbot-new snapshot | order of records, chains of children | no record lost, each child shown in its own parent |
| users, workspaces and their cache, `apps/system/api/user.py`, `api/workspace.py`, `crud/`, `common/core/sqlbot_cache.py` | current workspace, status and memberships of each user; cached record of a user, which every request begins with | choose a workspace; edit, disable, delete users; add, change, remove memberships; delete a workspace | the record is dropped in the handler, the commit comes after it, in a thread; statements wait for locks with the event loop in hand | a user works in a workspace of a membership; the record is what the tables say; every request ends |
| embeddings, `common/utils/embedding_threads.py`, terminology and data training | text and vector of each term or example | save, recompute in a pool thread | late results of earlier texts | the vector belongs to the text |
| ids, `common/utils/snowflake.py` | last timestamp, sequence | generate | sequence overflow, clock going back, two processes with one worker id | unique and increasing |
| trusted-answer services, `dataease/core/core-backend/.../ai/query/trusted` | maps of patches, todos, traces in one JVM | create, approve, publish, roll back; check context; record traces | concurrent requests, bounded lists, restart | no transition out of order; no duplicate todo |
| AI gateway, `.../ai/gateway` | none | forward and stream | | |
| conversation page, `core-frontend/src/views/sqlbot-new` | the conversation on screen, its records, one loading flag, one abort controller, keys of running interpretations | ask, reply locally, interpret, leave, open, delete, switch the source | every handler is cut by awaits, and shares flag, conversation and chat with the others; closures keep old conversations alive | a chat keeps to one source; one interpretation at a time; nothing is sent after leaving; the page opens again for questions |
| dashboard editor, `store/modules/data-visualization/snapshot.ts`, `DbToolbar.vue`, `canvasUtils.ts` | canvas, counter of changes, history with an index, draft in localStorage, version | edit, undo, redo, save, publish, leave, recover a draft | a timer records what was changed; saves by keyboard overlap; other users and other tabs | history shows the canvas; clean means saved; unsaved work has a draft; no silent overwrite |
| component tree, `dvMain.ts`, `compose.ts`, `copy.ts`, `layer.ts` | lists of components inside tabs and groups, selection, current component, clipboard | select, group, ungroup, copy, cut, paste, delete, reorder, move into and out of tabs | components found by index and by id in lists that changed meanwhile; nesting one level deep | the tree stays a tree; only deleting loses |
| login token, `config/axios/refresh.ts` | token, its age and a flag that lapses, shared by tabs; held requests, one list per tab | hold a request back, renew, release, log in and out | several tabs, slow and failing renewals, a flag with a time to live | one renewal at a time; no older token over a newer one; held requests leave |
| assistants, AI models, data sources, drivers, charts, views | rows, connections | administration, rendering | | not modelled: no protocol of their own |

How they interact: the browser calls DataEase, whose gateway forwards AI
requests to SQLBot and streams the events back. SQLBot answers each question in
a pool thread, with its own database session; before it asks the language model
it looks for an active SQL override of the question in the patch table, which
the governance API of the learning service writes. Processes and threads share
nothing but PostgreSQL and the cache.
In the browser, the conversation page calls SQLBot through the gateway; the
editor and the component tree work on one store (`dvMain`), which the editor
saves as a whole; every request of every page passes the token handler.

## 2. Modules

| module | what it is |
|---|---|
| `FeedbackMetrics` | pure: how a set of events becomes the metric row, and the row a relearning decision |
| `FeedbackLoop` | the state machine: every writing endpoint of the feedback loop as transactions, and the answering threads |
| `OverrideBoard` | abstract specification: what the patch table promises its readers |
| `FeedbackLoopBoard` | the refinement mapping from `FeedbackLoop` to `OverrideBoard` |
| `ChatTask` | the state machine of a request to the chat: record, logs, thread and session, event list, response stream |
| `Conversation` | the conversation page: what is under way in it, between any two awaits, and the chats the server keeps |
| `Editor` | one editor page of a dashboard with server, draft, another user and another tab |
| `Canvas` | the component tree of a data screen |
| `TokenRefresh` | renewing the login token from the tabs of one browser |
| `Workspaces` | users, workspaces, memberships, the cached records, and the requests with their transactions and the event loop |
| `WorkspacesClaims` | a comment of `api/workspace.py` that its code does not keep |
| `MCFeedbackLoop`, `MCChatTask`, `MCWorkspaces` | payload sets and symmetry for TLC; the other modules are their own instances |
| `CanvasProofs`, `ChatTaskProofs`, `ConversationProofs`, `EditorProofs`, `TokenRefreshProofs`, `WorkspacesProofs` | the theorems about each of these modules, and their proofs |
| `FeedbackLoopProofs` | types and the one active patch of a key; the rounding of `FeedbackMetrics` at its thresholds |
| `FeedbackLoopBoardProofs` | the life of a patch; that `FeedbackLoop` implements `OverrideBoard`; what a request that overlaps no other gets right, and so what holds of a single process |

### `FeedbackLoop`: state and code

| variable of `FeedbackLoop` | code |
|---|---|
| `events`, `patches`, `metric`, `applyLogs` | committed rows of the four feedback tables (`models.py` 115-403). An event row keeps what later code reads of it; a patch row keeps its key, its statement, its status, the event that made it and the event in its `disable_reason` (`endedBy`) |
| `learned` | resources that occur in the task, result or score table |
| `lastEvent`, `lastPatch` | the generators of `event_no` and of patch ids: a value handed out is not reused, even after a rollback |
| `tx[w]` | the open session of server process `w` (`common/core/db.py` 12-21): the event it adds, the patches it has loaded and is about to write (`loaded`), those it has written and keeps locked (`held`), the ids of those it has inserted (`ids`), and what it has computed |
| `chat[c]` | the override an answering thread has found and not yet used |
| `clock` | days, as far as the 7-day window can tell |

A request is cut where another session can get in between: at each row it
updates or deletes, at each row of the patch table it inserts, and at the
commit. Read committed isolation is modelled by what each step reads: the
committed tables at that step, plus the rows of its own transaction
(`VisibleEvents`, `Superseded`). Locks are modelled by what a transaction has
written so far: `Awaits(w, v)` says that the next statement of `w` needs a row
or an index entry that `v` keeps locked, and `OnCircle(w)` that `w` waits for
itself over others; PostgreSQL's deadlock detector then ends it (`Refused`).

| action | handler |
|---|---|
| `SubmitFeedbackEvent`, then `WritePatch` and `InsertPatch` for each type in the order listed, then `CountFeedback`, `CommitFeedback` | `POST .../feedback/events`: insert and flush the event and load the patches of the first type; supersede them row by row; insert the new patch and load those of the next type; recount the events and load the metric row; commit |
| `DisablePatch`, `WritePatch`, `CountFeedback`, `CommitFeedback` | `POST .../patches/{id}/disable` |
| `GetFeedbackMetric`, `CommitFeedback` | `GET .../feedback-metric` and `POST .../evaluate-relearning` when there is no row yet (otherwise they write nothing) |
| `DeleteResource`, `WritePatch` for each patch, `DeleteRemaining`, `CommitDelete`, `DeleteNotFound` | `DELETE .../resources/{id}` |
| `LearnResource` | `POST .../resources/{id}/learn` |
| `FailRequest` | the database refuses a statement (unique index, primary key, a row that is gone, a circle of waiting transactions): 500 and rollback |
| `Crash` | the process or its connection dies: rollback |
| `AskQuestion`, `RecordPatchApplyLog`, `AbandonAnswer` | the answering thread; `FindOverride` tries "datasource:<id>" before the bare "<id>" |
| `PassTime` | time passes between requests |

The handlers are `async def` functions without an `await`, so one server
process runs them one at a time; `start.sh` (line 15) and `Dockerfile.sqlbot`
(line 112) start uvicorn with one worker. `Workers` is the set of server
processes: `{w1}` is what is shipped, `{w1, w2}` is what a second replica or
`--workers 2` would do. Answering threads run in their own sessions and
interleave with the steps of a request even in the shipped deployment.

Data is abstract there: texts and statements are model values, a statement is safe or
not by membership (`SafeSqls`), the match fingerprint is the tuple it hashes,
an id "datasource:7" is the pair `<<"datasource", 7>>` and the older form "7"
is `<<"legacy", 7>>`.

### `ChatTask`: state and code

| field of `req[r]`, variable | code |
|---|---|
| `kind`, `place` | which of `run_task`, `run_analysis_or_predict_task` and `_try_learning_sql_override_stream` serves the request, and how far it has come |
| `saved`, `finish`, `error` | the committed columns of its `chat_record` row (`chat_model.py` 103-131) |
| `open`, `failedLogs` | its `chat_log` rows without a finish time, and those marked as an error |
| `apply` | its row in the patch apply log; `"flushed"` until the session commits, because `record_patch_apply_log` only flushes |
| `chunks` | `LLMService.chunk_list`: appended to by the task's thread, emptied by the response |
| `got`, `stream` | what the response has sent, and where `await_result` is: polling the future, emptying the list for the last time, closed; `"left"` when the browser has gone |
| `thread`, `session` | the pool thread the task runs on, and that thread's `scoped_session` (`llm.py` 71-76): none, usable, or broken by a failed statement |
| `hit` | (ghost) a statement of this request has failed |
| `faults` | bounds failing statements and restarts |

| action | code |
|---|---|
| `AskQuestion`, `AskAbout`, `AskOverride` | `stream_sql`, `analysis_or_predict`, the start of the override stream: the record is saved, the task submitted |
| `Refuse` | their `except` clauses: one error event (`"refused"`, to tell it from that of a task), and no record |
| `Begin` | the executor hands the task to a thread; `session_maker()` returns that thread's session |
| `OpenContext` ... `SaveChart` | `run_task`, cut at each commit and each wait for the language model or the data source; the events yielded in between are part of the step |
| `AnnounceAnalysis` ... `FinishAnalysis` | `run_analysis_or_predict_task`, in the same way |
| `Raise` | an exception that leaves the session usable: no answer of the model, a refused query, text that cannot be read, and the one statement that is rolled back (`select_datasource`, `llm.py` 990-999) |
| `SaveError`, `CloseLogs` | `save_error_message`: two transactions, then the error event |
| `Finally`, `Cleanup` | the `finally` clauses of the two tasks |
| `StatementFails` | a statement of the session fails, at any place where one is executed; also every statement of a session that is already broken |
| `Poll`, `Deliver`, `CloseStream`, `Leave` | `is_running`, `pop_chunk`, the end of `await_result`, the browser leaving |
| `RecordOverride`, `RunOverride`, `FinishOverride`, `OverrideFails` | `_try_learning_sql_override_stream` |
| `Restart` | the server process restarts |

The point where the tasks differ is their `finally` clause. That of
`run_analysis_or_predict_task` (`llm.py` 2174-2176) only calls
`session_maker.remove()`. That of `run_task` (2004-2006) calls `finish_record`
first. But for the saving of the chosen data source (`llm.py` 998), nothing rolls
a session back after a failed statement, so `finish_record` raises as well, `remove()` is not reached, and the broken session stays with the
thread: the task ends as `"dead"`, and the next question on that thread fails at
its first statement and dies in the same way, without any event. An analysis, a
prediction or a recommendation that happens to run there repairs the thread.
The model has all of this: `session` outlives the tasks, and a request can be
hit by the failure of another one.

### `Conversation`: state and code

| variable of `Conversation` | code |
|---|---|
| `page`, `loading`, `controller`, `active`, `shown`, `restored` | `pageMode`, `conversationLoading`, `sqlbotAbortController`, `activeExecutionContext`, `conversationSession`, `restoredHistoryContext` of `useSqlbotNewConversation.ts` |
| `selected` | the source chosen on the page (`useSqlbotNewSelection.ts`) |
| `session` | conversations as objects: the ones no longer on screen are still written to by the handlers that hold them |
| `question`, `derived`, `reply`, `opening`, `deletion` | the running handlers: at which await each one is, with its local variables |
| `keys` | `pendingDerivedActionKeys` |
| `chat` | what the server keeps of each chat |
| `strayed`, `early`, `freed`, `twice` | (ghosts) the four situations the properties except |

A handler is cut at each `await`: `Submit`, `TokenForQuestion`,
`StartForQuestion`, `PostForQuestion`, `StreamId`, `StreamEnds`,
`StreamBreaks`, `FailingEnds` and `FailQuestion` are the stretches of
`submitQuestion` with what it calls (`ensureChatSession`,
`persistPendingAssistantReplies`); `Interpret` to `SaveLast` those of
`requestDerivedRecordAnalysis`; `AppendReply` to `FailReply` those of
`appendAssistantReply` and what it starts without waiting. Leaving
(`GoHome`, `ResetConversation`), `Open`, `Delete`, `Switch` and `Choose` are
the other handlers of the page. An abort is modelled as it works: a streaming
question or interpretation ends at once with its `finally`; a question not yet
streaming finds the signal when it sends; an interpretation not yet streaming
has no controller and finds nothing. The local replies a chat has no copy of
(`Unsaved`) are saved one call after the other before a question is sent: the
question holds the set that is left (`todo`) and takes the `Oldest` of it.

### `Editor`: state and code

`page` holds the snapshot store (`styleChangeTimes`, `snapshotCacheTimes`,
`snapshotDisableTime`, `snapshotData`, `snapshotIndex`), the canvas as a number
and `dvInfo.contentId`; `draft` is `DE-DV-CATCH-<id>` in localStorage; `server`
is what DataEase has stored; `save[o]` is one run of
`saveCanvasWithCheck`, `saveResource` or `publishStatusChange`, from check to
dialog to answer. `Tick` is the timer that turns counted changes into a
snapshot and a draft. `OtherSaves`, `OtherRecords` and `OtherDropsDraft` are
other users and other tabs; `Crash` is a closed tab. A dialog stops mouse and
keyboard, the mask of a request only the mouse (`Keys`, `Mouse`), so that two
saves by keyboard are under way at once. The fields `clean`, `root`, `late` and
`bare` of a page, and `phantoms`, are ghosts.

### `Canvas`: state and code

`kids` gives the list of the main canvas and the list inside each tab and
group; `at` is `canvasId`, where `Group-<g>` is g; `cur` and `area` are
`curComponent` and `areaData.components`; `clip` the clipboard, and `pending` the
intervals of the pastes under way, which may overlap. The ghost `origin` gives
for a group the one it was copied from, through any number of copies. The actions are the handlers of mouse, keyboard, context menu
and layer list; each does to `kids` what the stores do, with the lookups they
use: `FoundIn` and `PlaceOf` are `getCurInfoById`, which takes a component it
does not find for the first of the main canvas. `Explored` ends the model where
two components have got one id (`stale`) and where the list has a null, on which
every handler fails. What is filtered or joined is written with `FlattenSeq`,
which can be proved about.

### `TokenRefresh`: state and code

`token`, `old` and `flag` are `user.token`, the age of it (`isExpired`) and
`de-global-refresh`, which `Lapse` takes away at any time (it lives five
seconds). `request[r]` is a request of a tab, held or not; `call[r]` the call of
`/login/refresh` it may make, asked or answered by the server. `configHandler`
is cut at each access to what the tabs share: `SendAtOnce` and `FindOld` are its
look at the token, `FindFlagDown` and `Hold` its look at the flag, `HoldAndAsk`
raises the flag and makes the call. Tabs are processes of their own, so the steps of
another tab come in between; within the tab nothing does (`Busy`).
`AnswerToken`, `AnswerNothing` and `Fail` are its `then` and `catch`, with
`Finally` in each: the writes of one answer are one step (section 5).

### `Workspaces`: state and code

| variable | code |
|---|---|
| `current`, `status` | `sys_user.oid` and `sys_user.status`; `None` is 0, `"gone"` a row that has been deleted |
| `row` | the rows of `sys_user_ws`, each with user, workspace and weight; no constraint keeps one from occurring twice |
| `spaces` | the rows of `sys_workspace` |
| `cache` | the entry of `get_user_info` for each user; `raced` (ghost) says that a request was changing the user when the record was read |
| `req[r]` | a request: `user` and `info` are what `validateToken` has found, `done` what its transaction has sent to the database and holds locks for, `pending` what its session will send at the next flush |
| `loop` | the handler that holds the event loop |

No `await` in these handlers waits for anything, so a handler holds the event loop from its first line to
its last; but it is cut at each statement, where commits of other requests,
which run in threads, fall in. The commit of a request is made after its
handler by the dependency `get_session`, which the loop hands to a thread when
it is free again (`HandOver`, `Commit`). A statement that meets a row another
transaction has written waits (`CanWrite`), with the loop in its hand.

| action | handler |
|---|---|
| `Cached`, `LookUp`, `Fill` | the token middleware: the record from the cache, or read in two statements and put there |
| `ChangeSpace`, `Choose` | `PUT /user/ws/{oid}` |
| `EditUser`, `EditMemberships`, `Erase` | `PUT /user` |
| `ChangeStatus` | `PATCH /user/status` |
| `DeleteUsers`, `DropMemberships`, `DropUser` | `DELETE /user/{id}` and `DELETE /user`, which commit user by user |
| `AddMembers`, `AddOne` | `POST /system/workspace/uws`, one turn of its loop after the other |
| `EditMember` | `PUT /system/workspace/uws` |
| `RemoveMembers`, `RemoveOne`, `OtherSpace` | `DELETE /system/workspace/uws`, with `reset_single_user_oid` |
| `DeleteSpace`, `OwnSpace`, `DropRecords`, `PlanMoves`, `MoveOne`, `CutMemberships` | `DELETE /system/workspace/{id}`, with `reset_user_oid` |
| `Victim`, `Abort` | the victim of a deadlock, a connection that is lost: rollback |
| `Expire`, `Restart` | an entry's time is over; the process is started again |

`PlanMoves` follows `reset_user_oid` to the letter: the workspace that is left
out of a member's others is not the one that is deleted but the current one of
the user read last, since a loop gives the parameter `oid` another value
(`crud/workspace.py` 50 and 64). `default_reset` shows what comes of it.

## 3. Runs

Bounds: `MaxClock` and `TickDays` bound time (8 days in one step moves every
event out of the 7-day window), `MaxEvents` and `MaxPatches` the ids handed
out, and the sets the rest. `OutOfPatchIds` turns the end of the patch ids into
a failed request, so that no request gets stuck on a bound.

| run | instance | what it asks | states |
|---|---|---|---|
| `single_worker` | 1 process, 1 thread, both id forms of one data source, 6 payloads, 3 events, 3 patches, 8 days | `TypeOK`, `MetricIsExact`, `PatchesAreExplained`, `NoServerError`, `CorrectionTakesEffect` | 1.4 million |
| `two_workers` | 2 processes, 2 payloads (one lists a patch type twice), 3 events, 3 patches | `NewestActive`, `PatchLifecycle`, `SoloRecountIsExact` | 1.9 million |
| `requests_end` | 2 processes, two kinds of fix listed in either order, 2 events, 4 patches, fairness | `RequestsEnd`, and `BoardSpec`: the table implements the abstract board | 20 thousand |
| `chat_one_thread` | 2 requests of any kind, 1 thread, 1 fault | `SavedBeforeSeen`, `OneOutcome`, `SilentOnlyIfHit`, `FinishedIsFinal` | 5.5 million |
| `chat_ends` | 2 questions, 1 thread, 3 detours, 2 faults, one browser may leave, fairness | `StreamsEnd`, `RecordsFinish` | 0.3 million |
| `conversation` | 2 sources, 2 questions, 2 interpretations, 1 reply, 1 opening, 1 deletion, 3 conversations, 3 chats, 4 things the user does, fairness | `TypeOK`, `OneSourcePerChat`, `OneDerivedAtATime`, `NothingSentAfterLeaving`, `LoadingEnds`, `KeysAreGivenBack` | 0.8 million |
| `editor` | 2 saves under way, 2 edits, 2 versions, 2 undos or redos | `HistoryShowsCanvas`, `CleanMeansSaved`, `DraftGuardsWork`, `ConflictIsReal`, `OverwriteIsKnown` | 4.1 million |
| `canvas` | 3 charts, a tab and a group in it, 9 ids, 3 operations besides selecting | `TypeOK`, `IdsAreUnique`, `CanvasIdIsRight`, `NestingIsShallow`, `OnlyDeletingLoses` | 0.5 million |
| `token` | 2 tabs, 3 requests with a call each, 4 tokens, fairness | `OneRefreshAtATime`, `HeldIsWaitedFor`, `TokenNeverGoesBack`, `WaitingEnds` | 0.2 million |
| `spaces_alone` | 3 users, 2 workspaces, 3 memberships, 2 requests one after the other | `WorksWhereMember` | 0.4 million |
| `spaces` | 2 users, 2 workspaces, 1 membership, 2 requests at a time, fairness | `TypeOK`, `StaleIsExplained`, `RequestsEnd` | 34 thousand |
| `default_reset` | 2 users, 2 memberships, 1 request | a comment of `api/workspace.py`, violated | |

Why these bounds are enough to be interesting: three events let a correction be
made, superseded and disabled, or two kinds of feedback surround a deletion;
three patches let one key be superseded twice, and four let two corrections of
two kinds each; two processes give every pair of overlapping requests; two id forms of
one data source give the lookup its two candidates. Symmetry over processes is
used in safety runs only.

For the chat: two requests on one thread give a task that inherits what another
has left behind, an analysis of a record whose question is still being
finished, and two streams at once; one fault is enough to break a session, to
fail in the error handling of an exception, or to restart between any two
steps. In `chat_ends` two questions share a thread, so that one waits for it
while the task of the other goes its way, fails or dies; two faults let the
second inherit a broken session and be hit again, or a restart follow a failure. `Detours`
bounds the ways a task may take off the straight line: `chat_ends` has a
refused request, a clarification and a statement that is rejected, which is an
exception with its error event; `chat_one_thread` has all of them. `CHECK_DEADLOCK FALSE` is set because a system in which every user
has asked and been answered stops.

What the runs show of the chat: whatever fails and whoever shares the thread,
an event is sent only when what it announces is committed (`SavedBeforeSeen`),
a request has at most one outcome (`OneOutcome`), a finished record is never
changed again (`FinishedIsFinal`), and a stream that closes without an outcome
belongs to a request of which a statement failed (`SilentOnlyIfHit`): these
silent ends do exist, for the reason given in section 2. Every stream ends, that
of a question waiting for the thread too, since every task gives its thread
back (`StreamsEnd`), and every record is finished unless a statement failed or the
process restarted (`RecordsFinish`); after one of these it may stay unfinished
for good.

For the front end: two questions, two interpretations and one opening are the
least in which a handler meets an older one of its own kind and one of another
kind; four things the user does let one question be asked, left, the source
changed and the next one asked. Two saves under way, one other user and two
edits give every order of check, save, answer and change. Three operations on
three components, with free selecting in between, reach a tab holding a group,
a group holding a tab, a copy of either and a component selected after it is
gone. Three
requests in two tabs are one that asks, one held with it, and one held by the
flag of the other tab. `CHECK_DEADLOCK FALSE` in these runs: the user may stop,
and the bounds end what he may do.

What the runs show of the conversation page: as long as a source is not chosen
on the home page over a kept conversation, and no other conversation or source
comes under a question still being prepared, a chat has questions about one
source only (`OneSourcePerChat`); both exceptions are real. One answer is interpreted once at a time, also when its chat
is opened again meanwhile, except by a double click before the token comes
(`OneDerivedAtATime`). A question that was left is not sent, unless a second
question had been let in under it, whose controller takes the place of the
first (`NothingSentAfterLeaving`). The loading flag goes down and the keys are
given back in every order of answers (`LoadingEnds`, `KeysAreGivenBack`).

What the run shows of the editor: with no change waiting for the timer the
canvas is the snapshot the index points to (`HistoryShowsCanvas`); an editor
that lets the user go without a warning shows what it knows to be stored
(`CleanMeansSaved`); counted changes come back after a crash
(`DraftGuardsWork`). The exceptions are named in the properties, and work is
really lost in them: a change the timer has not recorded is not counted, and
undo before the timer goes back two steps; changes made while a save is under
way lose their mark when its answer comes; what the first snapshot holds, after
opening, recovering a draft or publishing, is not counted; and a save takes the draft
away before it is known to have worked. The version check reports only real
conflicts (`ConflictIsReal`), except after a publication that failed unnoticed
or two saves answered in the wrong order, and a checked save overwrites only
what came between the check and the save (`OverwriteIsKnown`); the preview
saves without a check.

What the run shows of the component tree: each component is in it once
(`IdsAreUnique`), names the canvas it is on (`CanvasIdIsRight`; the components
of a pasted group go on naming the group that was copied, which is what
`deepCopyHelper` does, and by which `updateGroupBorder` then finds the old
group), is never nested deeper than the lookups look (`NestingIsShallow`), and is lost only by
deleting (`OnlyDeletingLoses`). The exceptions: a component put in the
selection twice by Ctrl+click, and a group that is taken apart, copied or
grouped when it is gone (its components may be elsewhere by then, one of them
twice); a tab holding a group, which grouping deletes; and a current component
that is not found, in whose place the first of the main canvas is deleted.

What the run shows of the token: one renewal at a time over all tabs, unless the
flag lapsed under a call or two tabs found it down before either had raised it;
never an older token over a newer one, except when two calls cross in one of
those ways or an answer comes after a logout; and every
held request leaves, unless its call fails or it was held under the flag of
another tab: nobody releases those (`stranded`) before the tab asks again
itself.

For the workspaces, every run begins in every state in which users work in
workspaces of theirs, so that few requests suffice: two in a row, or two at a
time, one of which puts a record in the cache while the other changes its user.
In `spaces_alone` three memberships of two users give a user another workspace
to be moved to, and one that is there twice. One membership is enough in
`spaces` for a record to be right or wrong and for every kind of wait; that
`StaleIsExplained` holds with more of them, and with more requests, is proved.
`Room` keeps a request from beginning that would need more ids than there are.

The type invariants of `ChatTask`, `Editor` and `TokenRefresh` are not among the
properties of their runs: they are proved for every instance.

What the runs show of the workspaces: one request after the other keeps
everybody in a workspace of a membership, or in none, or in one that has been
deleted (`WorksWhereMember`). The last case is the fault that `default_reset`
shows: deleting a workspace moves members into it who work elsewhere. With
overlapping requests nothing of the kind holds (two edits of one user each see
the memberships before the other), and the property is checked for requests
one after the other only. Overlapping or not, a cached record is what the
tables say unless it was read while a request was between its handler and its
commit (`StaleIsExplained`): every handler drops the record of every user it
changes, before or in the same hold of the loop as the change. That exception
lasts a day, the life of an entry.
Requests end, except that the event loop may wait for a lock of a request
whose commit only the loop can hand over (`Stuck`): two deletions of one
workspace, or an edit while another is being committed, may do it, until the database
or an operator ends one.

What the runs show of the shipped deployment of the feedback loop: the metric row is always the
count of the resource's events as of the day it was computed; every patch row
has the event that made it and, if inactive, the event that ended it; no
request is refused by the database; an accepted override with a statement
answers the next question, unless it was given for the bare id of a data source
and an override is on record for "datasource:<id>", which is looked up first
(`CorrectionTakesEffect`).

With two processes the last three properties but one do not hold, and are
therefore properties of the single process: two overlapping recounts each miss
the other's event and the row stays wrong until the next feedback
(`MetricIsExact`), a correction committed while the resource is being deleted
survives without its event (`PatchesAreExplained`), and two first requests for
one resource collide on the primary key of the metric row (`NoServerError`).
What does hold for any number of processes is checked by `two_workers` and
`requests_end`: the unique index keeps one active patch per key (`NewestActive`), no
patch ends without an event that names it (`PatchLifecycle`), and the metric
row repairs itself with the next request that overlaps no other
(`SoloRecountIsExact`). `RequestsEnd` says that no request waits for ever. Circles of waiting
transactions do form: two corrections that list the same two kinds of fix in
opposite orders, or a correction and a deletion that come to the patches in
different orders. The deadlock detector ends one of them with a 500; without
`OnCircle` in `Refused` TLC finds two corrections that wait for each other for ever.

What the violated run shows is in `PROJECT.json` under `findings`, with the
comment it contradicts.

### Where the models follow the code against its comments

The properties above name their exceptions. These are the places where the code
also says something else of itself; the models follow the code.

* An override whose only statement is `matched_sql` is accepted (`service.py`
  703) and never used: the lookup reads the corrected statement only. The
  governance design says that a correction works at once;
  `CorrectionTakesEffect` says so of corrections with a statement.
* Grouping deletes what was selected because it "has been moved into the group"
  (`compose.ts` 211). A tab that holds a group is not moved, and is deleted;
  hence the exception in `OnlyDeletingLoses`.
* A switch of the source must start a fresh chat
  (`useSqlbotNewConversation.ts` 1826). A source chosen on the home page over a
  kept conversation makes no switch; hence the exception in `OneSourcePerChat`.
* Who deletes the workspace the administrator works in has them moved to the
  default one (`api/workspace.py` 244), but the workspace is taken from the
  cached record, which may be the one of before a change (`raced`).
* Users and workspace of new memberships are to be checked (`api/workspace.py`
  134); nothing is, and `AddMembers` takes users and workspaces that are gone.

### Fairness

`FairSpec` assumes strong fairness of `Proceed(w)`, the steps of a request that
has begun, for each process: a handler waits for nothing but row locks, and
PostgreSQL grants a lock to waiters in the order they came. Nothing is assumed
about requests being made, time passing or processes crashing. The steps of a
request include that of PostgreSQL's deadlock detector: a transaction on a
circle of waits can always be ended (`Refused`), and as the circle stays until
one of them is, one of them will be.

For the chat, `FairSpec` assumes weak fairness of the steps of a task, of its
stream, of the override stream and of the hand-over to a thread, for each
request. A task waits only for the language model and the data source, whose
clients have time-outs (`Raise` is always possible at those places), and for
statements, which return or fail; the executor starts a queued task when a
thread is idle; the response generator polls in a loop. Weak fairness of
`Begin` is enough because a thread, once idle, stays so until a queued task
takes it, and an instance has finitely many requests; which of several queued
tasks comes first is left open (the executor's queue is first in, first out). Nothing is
assumed about users asking or leaving, statements failing or restarts.

For the conversation page, weak fairness of the answers of the server to each
question (`Answered`), each interpretation (`DerivedAnswered`) and each opening:
every call and every stream ends, well or not, because the HTTP client and the
stream reader give up in the end, and what follows runs by itself. Nothing is
assumed about the user, nor about which answer comes. For the token, weak
fairness of `Settle(c)`: a call ends. `Editor` and `Canvas` state safety only.

For the workspaces, weak fairness of `Handle(r)` and of `Victim(r)` for each
request: the loop runs what is ready, a statement returns once its locks are
free, the thread pool commits, and PostgreSQL ends one of the transactions of a
deadlock it sees. It does not see the one through the event loop, which is why
`RequestsEnd` makes an exception of `[]Stuck`. Nothing is assumed about
requests being made, aborted, or entries expiring.

## 4. Proofs

| theorem | says |
|---|---|
| `TypeCorrect` | `Spec => []TypeOK` |
| `AtMostOneActive` | `Spec => []NewestActive` |
| `PatchesLive` | `Spec => PatchLifecycle`, an action property |
| `BoardImplemented` | `Spec => BoardSpec`, the refinement |
| `SoloRecounts` | `Spec => SoloRecountIsExact`, an action property |
| `NothingRefused`, `MetricExact`, `PatchesExplained` | with one process, `Spec => []` of `NoServerError`, `MetricIsExact` and `PatchesAreExplained` |
| `CorrectionIsUsed` | with one process, `Spec => CorrectionTakesEffect`, an action property |
| `ChatTypeCorrect` | `Spec => []TypeOK` of `ChatTask` |
| `ChatSavedBeforeSeen`, `ChatOneOutcome`, `ChatSilentOnlyIfHit` | `Spec => []` of each of these invariants |
| `ChatFinishedIsFinal` | `Spec => FinishedIsFinal`, an action property |
| `TypeCorrect`, `RefreshesOnce`, `WaitersHaveACall` | `Spec => []` of `TypeOK`, `OneRefreshAtATime` and `HeldIsWaitedFor` of `TokenRefresh` |
| `TokenOnlyRenewed` | `Spec => TokenNeverGoesBack`, an action property |
| `EditorTypes`, `HistoryKept`, `CleanIsSaved`, `DraftKeepsWork` | `Spec => []` of `TypeOK`, `HistoryShowsCanvas`, `CleanMeansSaved` and `DraftGuardsWork` of `Editor` |
| `NothingOverwritten`, `ConflictsAreReal` | `Spec => OverwriteIsKnown` and `Spec => ConflictIsReal`, action properties of `Editor` |
| `SpacesTypes`, `RecordsExplained` | `Spec => []` of `TypeOK` and `StaleIsExplained` of `Workspaces` |
| `WorksAlone` | with one request at a time, `Spec => []WorksWhereMember` of `Workspaces` |
| `TypeCorrect`, `InterpretedOnce`, `LeftIsNotSent`, `OneSourceInAChat` | `Spec => []` of `TypeOK`, `OneDerivedAtATime`, `NothingSentAfterLeaving` and `OneSourcePerChat` of `Conversation` |
| `Invariant` | `Spec => []IInv` of `Canvas`: the components are a tree, and what the clipboard and a paste under way hold is one |
| `CanvasTypes`, `IdsUnique`, `CanvasIdRight`, `NestingShallow` | `Spec => []` of `TypeOK`, `IdsAreUnique`, `CanvasIdIsRight` and `NestingIsShallow` of `Canvas` |
| `OnlyDeleting` | `Spec => OnlyDeletingLoses`, an action property of `Canvas` |
| `DownvoteThreshold`, `FailureThreshold` | a rounded percentage reaches 20 (30) exactly when the exact one reaches 19.5 (29.5) |

`TypeCorrect` and `AtMostOneActive` hold for every value of the constants that
satisfies the four assumptions in `FeedbackLoop` (the bounds are naturals, the special values are
not among the texts and rows, the payloads have their type), so for any number
of server processes.

The argument for `AtMostOneActive`. `NewestActive` alone is not inductive: a
commit installs patch rows that were decided at an earlier flush, and nothing
in `NewestActive` says that the decision is still good. The inductive invariant
`IInv` (in `FeedbackLoopProofs`) adds what a transaction between its flush and
its commit can rely on:

* `TxShape`: which fields of a transaction are set in which of its phases;
* `TxInv`: the rows a transaction has written are still there, because no two
  transactions hold the same row;
* `FreshInv`: from each of its inserts on, the patches on record with the key
  inserted are older than its own, and the active ones are rows it holds and
  is about to end; no two transactions hold the same index entry.

`IInv` holds initially and is preserved by each action (one step per action,
under it one per conjunct the action can disturb). `FreshInv` is made true by
`InsertPatch`: the insert waits for whoever holds the key and finds none active
on record but rows of its own transaction.

`PatchesLive` and the refinement `BoardImplemented` ask more: a commit deletes
and ends rows that were read some steps before, while other processes committed
in between. `HInv` (in `FeedbackLoopBoardProofs`) says what of that reading is
still true of the rows a transaction is about to write and those it has written
(`Loaded`):

* `NumbersInv`: the ids a transaction drew are in no table, in no
  other transaction, and among nobody's loaded rows;
* `EventsInv`: the event it adds is not on record yet, has a number of its own
  and is a reason for each patch it ends;
* `GoneInv`: a patch a deletion did not see is newer than those with its key
  that it did see, so that removing these never makes an older override the
  newest.

Each step is then an opening, a move, a close or a rest (`StepKinds`), and each
part of `HInv` is shown once for each of the four kinds. The refinement maps a
close to one step of the board and everything else to a stutter.

With one process nothing comes in between, and what a transaction read is still
true when it commits. That is not assumed of the process but of the
transaction: `solo`, a field the model keeps, says that it has overlapped no
other since it opened, and `SoloTx` says that what it has loaded is `Current`:
it misses no row it has to end, its ids are the largest, its recount is of the
events on record. It is inductive for any number of processes and gives
`SoloRecounts`. The hypothesis `OneProcess` of the four theorems after it, that
two processes are always the same one, is the deployment `start.sh` and
`Dockerfile.sqlbot` ship; under it every transaction is alone.
For `CorrectionIsUsed`, `CorrectionIsFound` shows that a lookup of the resource
corrected finds the new patch; by the order in which `FindOverride` tries the
two forms of the id it is what the question finds, or an override of
"datasource:<id>" comes before it.

The theorems about the chat hold for any set of requests, any pool of threads
and any bound on faults, from the assumptions that `NoThread` is not a thread
and the bound is a natural. All five follow from one inductive invariant
(`IInv` in `ChatTaskProofs`), which adds to the properties what a task knows at
each of its places:

* `Sound`: which parts are saved there and which logs may be open; an error or
  a finish time only occurs where the task is on its way out; a stream is in
  its last round only after the task has ended;
* `Told`: everything published, delivered or not, is already committed, and an
  outcome is the last event and only there where the task is about to end;
* `OnThread`: a task that still works has a thread, and one that failed after
  its outcome has a broken session. This is what keeps an error event from
  following `analysis_finish`: the only step after that outcome is
  `finish_record`, and if it fails, so does the attempt to save the error;
* `Alone`: no two tasks share a thread at a time, so nobody repairs the session
  in between.

The steps that answer all have one shape (`Moves`: publish events whose parts
are saved by then), so that `MoveStep` is proved once and each action only
shown to have that shape; the steps that end a task, the stream, the start and
the restart each have a lemma of their own. TLC had checked `IInv` on the
`chat_one_thread` instance before.

The theorems about the token hold for any set of tabs and requests, from
the assumptions that `NoTab` is not a tab and there is at least one token.
`OneRefreshAtATime` is not inductive: a step that raises the flag must know that
no call is under way, though it looked at the flag some steps ago. `IInv` in
`TokenRefreshProofs` adds `FlagIsUp` (a call under way means that the flag is up
and that no request still believes it down, unless it lapsed or was missed) and `AnswerIsNewer` (the token a call brings is no older than
the stored one, unless the user has logged out), from which
`TokenOnlyRenewed` follows as well. `HeldIsWaitedFor` is inductive over
`TypeOK`: the answer of a call releases or strands every request of its tab.

The theorems about the editor hold for any number of saves under way and any
bounds on edits, versions and moves. For the history, `HistInv` adds that a page
that is not ready, or has counted nothing since it was opened, has no history
(`Unready`, `Uncounted`: this is why the first snapshot never counts and every
later one does), and that an untouched draft is the last snapshot whatever is
counted (`Guarded`). For the check against changes of others, `VersionInv`
follows a version from where it is handed out to where it is compared: none is
larger than the last one handed out (`Spent`); a version the page knows is the
one its content goes back to, or a phantom (`Rooted`); a save on its way has a
version of its own that is not stored yet (`Unposted`); what somebody else has
stored is newer than all the page knows of (`Foreign`); and while the check is
out the page's content only becomes newer (`Checking`). Together they give what
a save past the check knows (`Passed`), which is `OverwriteIsKnown`. Most steps
change none of this, or only in ways named once (`SlightStep`); sending,
storing and the two answers have lemmas of their own.

The theorems about the workspaces hold for any sets of users, workspaces,
membership ids and requests, and any bound on requests, from the assumptions in
`Workspaces` that the special values are none of them and that there are the
administrator and the default workspace. `StaleIsExplained` is not inductive: a
commit changes the tables long after its handler has dropped the records. The
inductive `IInv` in `WorkspacesProofs` adds

* `Fine`, of every request at every place: whoever its writes touch has no
  record in the cache, or a marked one, or is still to be visited by the loop
  that drops it; and whom it is about to touch without a further drop (the
  member list of a workspace that is deleted, the users of an edit) has had it
  dropped already;
* `LoopFine`: the middle of a handler is reached with the loop in hand, so that
  no other handler reads a user there;
* `FillFine`: a record under way into the cache is what the table of users
  says, and nobody touches that user, unless it is marked.

A step either leaves the tables alone and drops records (`CalmStep`), or saves a
transaction all of whose users have had theirs dropped (`SaveStep`), or stores
a record (`KeepFill`); each action is shown to be one of these. TLC had checked
`IInv` before, on an instance with two users, two memberships and three requests.

`WorksWhereMember` is false of overlapping requests (section 3), so `WorksAlone`
assumes that any two requests under way are the same one (`Alone`), the instance
of `spaces_alone` with any number of users, workspaces and memberships and any
number of requests in a row. It is a property of a whole handler: between its
first statement and its commit the tables and what is written so far do not fit
together. `Ready` says of each place in a handler what its writes already are,
and it ends in `Fits`: once a handler is through, the tables with its writes
laid upon them have everybody work where they should. The two places that need
most are the removal of members, where whoever loses the membership of the
current workspace is moved already or is still to be visited (`Removing`), and
the deletion of a workspace, where a member is moved to nowhere or to a
workspace of his, and the administrator has left it before (`Closing`); it needs
that no record is read in the middle of a change (`Unraced`), since the
administrator's own workspace is taken from the record. `AInv` is their
conjunction, inductive over `IInv`; TLC had checked it on the instance of
`spaces_alone`.

The theorems about the conversation page hold for any set of sources and any
bounds on questions, interpretations, replies, conversations and chats, from the
assumption in `Conversation` that there is a source and `NoSource` is none. None
of the three properties is inductive: each is about a state some awaits after
the check that is to ensure it.

* `TypeInv` is what a handler relies on when it comes back from an await: the
  conversation, chat and question it kept in local variables are there.
* `KeyInv`: from its token on an interpretation holds the key of its question,
  and no two asked for or under way are of one question. Without the second
  half, an interpretation that ends would give back the key of another.
* `ControlInv`: a question being prepared or answered is the one the abort
  controller of the page reaches, and it has not been left.
* `PlaceInv` and `SourceInv`: while a question is prepared, the conversation it
  was entered in stays on screen and is not empty, its source is that of the
  page, and so is the source of every question already in the chat of that
  conversation. A question that starts a chat therefore starts an empty one, and
  one that joins a chat is about its source.

Each handler has one lemma per invariant; what `submitQuestion` does once it has
its chat is the same whether it comes from the token, from the new chat or from
the last saved reply (`SendsFrom`), and is shown once. TLC had checked the five
invariants on the instance of the run `conversation`.

The theorems about the component tree hold for a screen of any size and any
bounds on components, operations and selections, from the assumption in
`Canvas` that there is a chart and room for what a screen begins with. `IInv`
in `CanvasProofs` says

* `TreeInv`: the components reached from the main canvas are a tree. Every list
  holds each of them once, no two lists share one, each names the canvas it is
  on, or the origin of its group, and what a tab or a group holds is of another kind than it is and holds
  charts only;
* `CopyInv`: what was copied, and what is left of a paste under way, is such a
  tree as well, without a main canvas. A paste attaches it whatever has happened
  to the screen since: what was in a group goes to the main canvas, and what was
  in a tab, and may go back there, holds nothing but charts;
* `AreaInv`: what is selected lies on the main canvas, or is gone. Grouping
  takes the selection off the main canvas only; a component somewhere else would
  then be in two lists;
* `MadeInv`: whatever is in a list or selected, gone or not, has a number that
  was handed out before, so that a copy or a new group gets numbers of its own,
  and a group was copied from an older one (`OriginInv`).

They come from what the handlers look at: three levels, and no further. Deleting
and cutting only make lists shorter (`KeptStep`); grouping, taking apart and
dragging give a new tree of given components (`GrowStep`); a paste is the tree
of the copy under new numbers (`RenamedIs`, `PastedIs`). For `OnlyDeleting`
each handler is followed from the main canvas down to what it leaves there
(`LostUnder`, `Reached`). The lemmas on sequences (`FlattenIs`, `OnlyIs`,
`RemoveFirstIs`, `SwapIs` and others) start from the functions the library
defines them by, and an induction over numbers (`UpTo`). TLC had checked `IInv`
on the instance of the run `canvas`. The proof showed one
property to be too strong: `NestingIsShallow` had been stated without its
exception, but a group that is gone keeps its components, and when it is grouped
again, five operations on and thus two more than the run allows, they may hold a
group in a tab.

Every safety property of a passing run is stated by a theorem. Model-checked
only: the liveness properties (`RequestsEnd` of both modules, `StreamsEnd`,
`RecordsFinish`, `LoadingEnds`, `KeysAreGivenBack`, `WaitingEnds`), which are
out of the prover's reach.

The rounding model `Percentage` is exact (half to even), while the code divides
floats: the two differ only on some exact ties of .5 percent, none of which is
at a threshold for totals up to 6000 events.

## 5. Not modelled, and abstractions to know of

* Read-only endpoints (lists, replay, quality and feedback summary) change
  nothing.
* `POST .../feedback` computes a decision from rates in its payload and stores
  nothing: it is `RelearningDecision`.
* The administrator check of the endpoints and the validation of shapes by
  pydantic happen before the modelled steps.
* The id of a new patch is drawn when its insert gets through. PostgreSQL draws
  it when the statement starts, so that an insert that has waited for another
  transaction's key may get an id smaller than that of a patch made and ended
  meanwhile, and likewise where a deletion frees the key. That `NewestActive`
  and the board order patches by their ids is relative to this; that at most one
  patch of a key is active is not.
* A row that a transaction loaded before and that the session still refers to
  keeps the attributes it had. Which patches are loaded is decided by the
  database and is modelled so; no attribute but the status is used afterwards.
* Locks on rows of the apply log and on events while a resource is deleted: no
  other request writes these rows again, except a second deletion, which waits
  for the same patches or the same metric row if there are any. A deletion that finds all
  rows gone meanwhile may answer 200 in the code, 404 in the model; neither
  changes anything.
* Two texts that are joined to the same fingerprint string are not told apart
  from texts that are not (`service.py` 661).
* A clock that goes back.
* `ChatTask` models the answers streamed to a browser. The MCP and non-streaming
  variants (markdown in place of events, early finish steps, pictures) and the
  recommendation task are left out.
* A handler that fails after its record is saved and before its task is in the
  pool: `executor.submit` would have to fail.
* The events that announce titles, explanations and interpretations are left
  out; the chunks of one answer of the language model are one event; the logs
  of collecting terminology, examples and schema are one log, `"context"`.
* A failed statement is assumed to leave the session unusable until `remove()`,
  as SQLAlchemy does after a failed flush and PostgreSQL after a failed query.
* The language model, data sources, SQLAlchemy's sessions, the web server's
  handling of a closed connection and process restarts are external: modelled
  from how the code uses them.
* `Conversation`: texts, charts, usage figures, recommendations,
  clarifications; predictions, whose handler is that of the interpretations
  over again; the recovery snapshot and the saving of switches; conversations
  without a chat opened again from the list. The source of an opened chat is
  chosen as soon as the chat is restored, with no call between the two
  (`useSqlbotNewHistory.ts` 134, `useSqlbotNewSelection.ts` 1987-2049), and so in
  the same step; its details and the copy a cancelled dialog goes back to
  (`committedSelection`) come later and are left out. While the page is loading its
  input is disabled, which is why a local reply needs `~loading`.
* `Editor`: the first save of a new dashboard, copies, renaming, the status
  shown next to the name, the returns to the published version, the toolbar of
  data screens, the mobile editor, and the early returns for another
  organization and the desktop edition. The canvas is one value.
* `Canvas`: positions, styles, locks, hidden components, tabs with several
  panes, new components from the toolbar, undo, and dashboards, where leaving a
  tab takes half a second. The three charts a run begins with stand for
  whatever is on the canvas.
* `TokenRefresh`: the bodies of requests, and the pages that wait for them. The
  desktop edition and shared links return before the handler does anything. The
  three or four writes of an answer (token, expiry, time, then the flag) are one
  step: what another tab does between them, it could have done before them, with
  the token still old and the flag still up, or after them. `setUser`
  (`user.ts` 55-69), which reads the token and writes it back when a page is
  loaded, is not modelled; a renewal by another tab between the two is undone.
* `Workspaces`: the creation of users and workspaces, names, language,
  passwords and the audit log; assistants and embedded users, who have records
  of their own; the Redis cache, in which reading and storing are cut by awaits;
  edits of the built-in administrator, whom the lists of the pages leave out;
  the same user named twice in one request.
* DataEase's server is external to the front-end models: it stores a canvas and
  gives it a version, renews a token, keeps chats.
* Everything in the inventory without a module: learning versions and rows,
  embeddings, ids, the history view, the trusted-answer services; the
  reasons are in `PROJECT.json` under `components`.
* Most of the repository is the upstream BI product: chart rendering, forms,
  permissions, drivers, locales, generated code. It has no protocol of its own
  to model; the share of its lines the models stand for is small.

## 6. Plan

Done: `FeedbackLoop` with its abstract board, `ChatTask`, `TokenRefresh`,
`Editor`, `Canvas`, `Conversation`, `Workspaces`, with their runs, and the proofs of section
4. What would come next, in this order:

1. Proofs: every safety property of a run is proved. Next would be abstract
   specifications with a refinement, as `OverrideBoard` is for the feedback
   loop: the stored canvas and its versions for `Editor`, one finite sequence of
   events for `ChatTask`.
2. The recovery snapshot of the conversation page, and what a reopened
   conversation shows of an interpretation that was cut off.
3. `LearningAssets` (versions of learning runs), `EmbeddingRefresh`,
   `Snowflake`.
4. `TrustedAnswer`: the Java services, once they are more than stubs.
