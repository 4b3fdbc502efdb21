-------------------------------- MODULE ChatTask --------------------------------
(***************************************************************************)
(* How SQLBot answers a question of a chat.  A request handler saves a     *)
(* record of the question and hands a task to a pool of threads            *)
(* (chat/task/llm.py); the task writes the parts of the answer into the    *)
(* record, each in a transaction of its own, logs each operation, and      *)
(* leaves events in a list; a second actor, the response stream, empties   *)
(* that list towards the browser.  All tasks that run on one thread, one   *)
(* after the other, share that thread's database session.  A question for  *)
(* which a learned statement is on record may be answered by the stream    *)
(* itself instead (chat/api/chat.py).                                      *)
(*                                                                         *)
(* Texts, statements, rows and charts are abstracted to the fact that they *)
(* are saved; a run of chunks of one answer of the language model is one   *)
(* event; titles, explanations and the "info" events are left out.         *)
(***************************************************************************)
EXTENDS Sequences, Integers

CONSTANTS
    Requests,    \* one element for each request users make
    Threads,     \* the threads of the pool: max_workers in the code
    NoThread,    \* where a request is that has no thread
    Asked,       \* the kinds of request that are made
    Detours,     \* the ways off the straight line that they may take
    Impatient,   \* the requests whose browser may go away
    MaxFaults    \* bound on failing database statements and on restarts

ASSUME ThreadAssumption == NoThread \notin Threads
ASSUME ImpatientAssumption == Impatient \subseteq Requests
ASSUME FaultAssumption == MaxFaults \in Nat

Kinds == {"question", "analysis", "predict", "override"}

ASSUME AskedAssumption == Asked \subseteq Kinds

ASSUME DetoursAssumption ==
    Detours \subseteq {"refusal", "choice", "clarification", "override",
                       "rejection", "permissions", "exception"}

\* What a record can hold; "question" is there from the moment it exists, and
\* "datasource" is that of its chat.
Parts == {"question", "datasource", "answer", "sql", "data", "chart_answer",
          "chart", "analysis", "predict", "predict_data"}

\* The operations a task logs.
Ops == {"context", "choose_datasource", "sql", "permissions", "execute",
        "chart", "analysis", "predict"}

\* "refused" is the error event of a request handler, not of a task.
Events == {"id", "question", "datasource", "clarification", "sql-result",
           "sql", "sql-data", "chart-result", "chart", "analysis-result",
           "predict-result", "predict-success", "predict-failed", "finish",
           "analysis_finish", "predict_finish", "error", "refused"}

\* The events after which a browser expects no more of a request.
Outcomes == {"finish", "clarification", "analysis_finish", "predict_finish",
             "error", "refused"}

\* Where a task is between two steps, by what the next step needs: a database
\* statement or only the language model, the data source or nothing.
DbPlaces == {"start", "context", "introduced", "choose", "choosing", "generate",
             "sql_text", "check", "permissions", "execute", "executing",
             "draw", "chart_text", "check_chart", "load", "analysis_text",
             "predict_text", "predict_data", "conclude"}
OtherPlaces == {"begun", "clarify", "sql_model", "chart_model",
                "analysis_model", "predict_model"}
Working == DbPlaces \union OtherPlaces
Closing == {"failed", "close_logs", "finally", "cleanup"}
OverridePlaces == {"recorded", "applied", "executed"}
Ended == {"done", "dead", "lost"}
Places == {"idle", "queued"} \union Working \union Closing
              \union OverridePlaces \union Ended

VARIABLES
    req,       \* each request: its record, its logs, its task and its stream
    session,   \* the database session of each thread
    faults     \* how many statements have failed or processes restarted

vars == <<req, session, faults>>

Request ==
    [kind : Kinds,
     place : Places,
     thread : Threads \union {NoThread},
     saved : SUBSET Parts,              \* committed columns of the record
     finish : BOOLEAN,
     error : BOOLEAN,
     open : SUBSET Ops,                 \* logs without a finish time
     failedLogs : SUBSET Ops,           \* logs marked as an error
     apply : {"none", "flushed", "applied", "error"},  \* its patch apply log
     chunks : Seq(Events),              \* LLMService.chunk_list
     got : Seq(Events),                 \* what the browser has received
     stream : {"none", "poll", "last", "closed", "left"},
     hit : BOOLEAN]   \* a statement failed (of its session, or the override's)

TypeOK ==
    /\ req \in [Requests -> Request]
    /\ session \in [Threads -> {"none", "ok", "broken"}]
    /\ faults \in 0..MaxFaults

Init ==
    /\ req = [r \in Requests |->
                 [kind |-> "question", place |-> "idle", thread |-> NoThread,
                  saved |-> {}, finish |-> FALSE, error |-> FALSE,
                  open |-> {}, failedLogs |-> {}, apply |-> "none",
                  chunks |-> <<>>, got |-> <<>>, stream |-> "none",
                  hit |-> FALSE]]
    /\ session = [t \in Threads |-> "none"]
    /\ faults = 0

At(r, place) == req[r].place = place
Healthy(r) == session[req[r].thread] = "ok"
Quiet == UNCHANGED <<session, faults>>

\* record_patch_apply_log only flushes: the next commit of the session keeps the
\* row, and a failure before it loses it.
Committed(apply) == IF apply = "flushed" THEN "applied" ELSE apply
Lost(apply) == IF apply = "flushed" THEN "none" ELSE apply

------------------------------------------------------------------------------
(* The request handlers.                                                   *)

\* stream_sql: save_question, then run_task_async.
AskQuestion(r) ==
    /\ "question" \in Asked
    /\ At(r, "idle")
    /\ req' = [req EXCEPT ![r].place = "queued", ![r].saved = {"question"},
                          ![r].stream = "poll"]
    /\ Quiet

\* analysis_or_predict of the record of another request: its chart must be
\* saved, and the new record starts with a copy of its chart and its data.
AskAbout(r, base, kind) ==
    /\ At(r, "idle")
    /\ kind \in {"analysis", "predict"} \intersect Asked
    /\ "chart" \in req[base].saved
    /\ req' = [req EXCEPT ![r].kind = kind, ![r].place = "queued",
                          ![r].saved = {"question"} \union
                              (req[base].saved \intersect {"chart", "data"}),
                          ![r].stream = "poll"]
    /\ Quiet

\* The except clauses of both handlers: the task cannot be prepared (no language
\* model, no record or chart to analyse), and the response is one error event.
Refuse(r) ==
    /\ "refusal" \in Detours
    /\ At(r, "idle")
    /\ req' = [req EXCEPT ![r].place = "done", ![r].stream = "last",
                          ![r].chunks = <<"refused">>]
    /\ Quiet

\* An idle thread takes a task; session_maker() creates the session of the
\* thread, or returns the one an earlier task has left behind.
Begin(r, t) ==
    /\ At(r, "queued")
    /\ \A other \in Requests : req[other].thread # t
    /\ req' = [req EXCEPT ![r].thread = t,
                   ![r].place = IF req[r].kind = "question" THEN "start" ELSE "begun"]
    /\ session' = [session EXCEPT ![t] = IF @ = "none" THEN "ok" ELSE @]
    /\ UNCHANGED faults

------------------------------------------------------------------------------
(* run_task: answering a question.                                         *)

\* The chat has a data source: its terminology, examples and table schema are
\* collected under logs before the first event.
OpenContext(r) ==
    /\ At(r, "start") /\ Healthy(r)
    /\ req' = [req EXCEPT ![r].place = "context", ![r].open = @ \union {"context"}]
    /\ Quiet

CloseContext(r) ==
    /\ At(r, "context") /\ Healthy(r)
    /\ req' = [req EXCEPT ![r].place = "introduced", ![r].open = @ \ {"context"},
                          ![r].chunks = @ \o <<"id", "question">>]
    /\ Quiet

\* validate_history_ds
ValidateDatasource(r) ==
    /\ At(r, "introduced") /\ Healthy(r)
    /\ req' = [req EXCEPT ![r].place = "clarify"]
    /\ Quiet

\* The chat has none: the question is announced first.
AnnounceFirst(r) ==
    /\ "choice" \in Detours
    /\ At(r, "start")
    /\ req' = [req EXCEPT ![r].place = "choose",
                          ![r].chunks = @ \o <<"id", "question">>]
    /\ Quiet

\* select_datasource: the model chooses, unless there is only one to choose;
\* the choice is committed to the chat, and the context collected.
OpenChoice(r) ==
    /\ At(r, "choose") /\ Healthy(r)
    /\ req' = [req EXCEPT ![r].place = "choosing",
                          ![r].open = @ \union {"choose_datasource"}]
    /\ Quiet

ChooseDatasource(r) ==
    /\ req[r].place \in {"choose", "choosing"} /\ Healthy(r)
    /\ req' = [req EXCEPT ![r].place = "clarify",
                          ![r].open = @ \ {"choose_datasource"},
                          ![r].saved = @ \union {"datasource"},
                          ![r].chunks = @ \o <<"datasource">>]
    /\ Quiet

\* Mutant: the generator goes on after the event.
ClarifyAndGoOn(r) ==
    /\ At(r, "clarify")
    /\ \/ /\ "clarification" \in Detours
          /\ req' = [req EXCEPT ![r].place = "generate",
                                ![r].chunks = @ \o <<"clarification">>]
       \/ req' = [req EXCEPT ![r].place = "generate"]
    /\ Quiet

\* Mutant: the return is outside the try statement.
ClarifyUnfinished(r) ==
    /\ At(r, "clarify")
    /\ \/ /\ "clarification" \in Detours
          /\ req' = [req EXCEPT ![r].place = "done", ![r].thread = NoThread,
                                ![r].chunks = @ \o <<"clarification">>]
       \/ req' = [req EXCEPT ![r].place = "generate"]
    /\ Quiet

\* should_request_clarification; the generator returns after the event, and
\* its finally clause finishes the record.
Clarify(r) ==
    /\ At(r, "clarify")
    /\ \/ /\ "clarification" \in Detours
          /\ req' = [req EXCEPT ![r].place = "finally",
                                ![r].chunks = @ \o <<"clarification">>]
       \/ req' = [req EXCEPT ![r].place = "generate"]
    /\ Quiet

\* generate_sql: start_log, the model's answer, end_log, save_sql_answer.
OpenSql(r) ==
    /\ At(r, "generate") /\ Healthy(r)
    /\ req' = [req EXCEPT ![r].place = "sql_model", ![r].open = @ \union {"sql"}]
    /\ Quiet

StreamSql(r) ==
    /\ At(r, "sql_model")
    /\ req' = [req EXCEPT ![r].place = "sql_text",
                          ![r].chunks = @ \o <<"sql-result">>]
    /\ Quiet

SaveSqlAnswer(r) ==
    /\ At(r, "sql_text") /\ Healthy(r)
    /\ req' = [req EXCEPT ![r].place = "check", ![r].open = @ \ {"sql"},
                          ![r].saved = @ \union {"answer"}]
    /\ Quiet

\* try_apply_learning_sql_override: a learned statement instead of the model's.
ApplyOverride(r) ==
    /\ "override" \in Detours
    /\ At(r, "generate") /\ Healthy(r)
    /\ req' = [req EXCEPT ![r].place = "check", ![r].apply = "flushed",
                          ![r].saved = @ \union {"answer"},
                          ![r].chunks = @ \o <<"sql-result">>]
    /\ Quiet

\* check_sql finds no statement in the answer: trigger_log_error, an exception.
RejectSql(r) ==
    /\ "rejection" \in Detours
    /\ req[r].place \in {"check", "permissions"} /\ Healthy(r)
    /\ req' = [req EXCEPT ![r].place = "failed", ![r].open = @ \ {"permissions"},
                   ![r].apply = Committed(@),
                   ![r].failedLogs = @ \union
                       {IF At(r, "check") THEN "sql" ELSE "permissions"}]
    /\ Quiet

\* build_table_filter and generate_with_sub_sql: the model rewrites the
\* statement for the user's row permissions or for an embedded data source.
OpenPermissions(r) ==
    /\ "permissions" \in Detours
    /\ At(r, "check") /\ Healthy(r)
    /\ req' = [req EXCEPT ![r].place = "permissions", ![r].apply = Committed(@),
                          ![r].open = @ \union {"permissions"}]
    /\ Quiet

\* check_save_sql, and the sql event.
SaveSql(r) ==
    /\ req[r].place \in {"check", "permissions"} /\ Healthy(r)
    /\ req' = [req EXCEPT ![r].place = "execute", ![r].open = @ \ {"permissions"},
                          ![r].apply = Committed(@),
                          ![r].saved = @ \union {"sql"},
                          ![r].chunks = @ \o <<"sql">>]
    /\ Quiet

\* Mutant: the event comes before the data.
OpenExecuteAnnounced(r) ==
    /\ At(r, "execute") /\ Healthy(r)
    /\ req' = [req EXCEPT ![r].place = "executing", ![r].open = @ \union {"execute"},
                          ![r].chunks = @ \o <<"sql-data">>]
    /\ Quiet

OpenExecute(r) ==
    /\ At(r, "execute") /\ Healthy(r)
    /\ req' = [req EXCEPT ![r].place = "executing", ![r].open = @ \union {"execute"}]
    /\ Quiet

\* Mutant: the record counts as finished once its rows are there.
SaveDataFinished(r) ==
    /\ At(r, "executing") /\ Healthy(r)
    /\ req' = [req EXCEPT ![r].place = "draw", ![r].open = @ \ {"execute"},
                          ![r].saved = @ \union {"data"}, ![r].finish = TRUE,
                          ![r].chunks = @ \o <<"sql-data">>]
    /\ Quiet

\* execute_sql has returned: end_log, save_sql_data, and the event.
SaveData(r) ==
    /\ At(r, "executing") /\ Healthy(r)
    /\ req' = [req EXCEPT ![r].place = "draw", ![r].open = @ \ {"execute"},
                          ![r].saved = @ \union {"data"},
                          ![r].chunks = @ \o <<"sql-data">>]
    /\ Quiet

\* generate_chart: start_log, the model's answer, save_chart_answer, end_log.
OpenChart(r) ==
    /\ At(r, "draw") /\ Healthy(r)
    /\ req' = [req EXCEPT ![r].place = "chart_model", ![r].open = @ \union {"chart"}]
    /\ Quiet

StreamChart(r) ==
    /\ At(r, "chart_model")
    /\ req' = [req EXCEPT ![r].place = "chart_text",
                          ![r].chunks = @ \o <<"chart-result">>]
    /\ Quiet

SaveChartAnswer(r) ==
    /\ At(r, "chart_text") /\ Healthy(r)
    /\ req' = [req EXCEPT ![r].place = "check_chart", ![r].open = @ \ {"chart"},
                          ![r].saved = @ \union {"chart_answer"}]
    /\ Quiet

\* check_save_chart, and the last two events; the record is finished after them.
SaveChart(r) ==
    /\ At(r, "check_chart") /\ Healthy(r)
    /\ req' = [req EXCEPT ![r].place = "finally",
                          ![r].saved = @ \union {"chart"},
                          ![r].chunks = @ \o <<"chart", "finish">>]
    /\ Quiet

------------------------------------------------------------------------------
(* run_analysis_or_predict_task.                                           *)

AnnounceAnalysis(r) ==
    /\ At(r, "begun")
    /\ req' = [req EXCEPT ![r].place = "load", ![r].chunks = @ \o <<"id">>]
    /\ Quiet

OpenAnalysis(r) ==
    /\ At(r, "load") /\ Healthy(r)
    /\ req' = [req EXCEPT ![r].open = @ \union {req[r].kind},
                   ![r].place = IF req[r].kind = "analysis"
                                THEN "analysis_model" ELSE "predict_model"]
    /\ Quiet

StreamAnalysis(r) ==
    /\ At(r, "analysis_model")
    /\ req' = [req EXCEPT ![r].place = "analysis_text",
                          ![r].chunks = @ \o <<"analysis-result">>]
    /\ Quiet

\* end_log and save_analysis_answer; the outcome is announced before the record
\* is finished.
SaveAnalysis(r) ==
    /\ At(r, "analysis_text") /\ Healthy(r)
    /\ req' = [req EXCEPT ![r].place = "conclude", ![r].open = @ \ {"analysis"},
                          ![r].saved = @ \union {"analysis"},
                          ![r].chunks = @ \o <<"analysis_finish">>]
    /\ Quiet

StreamPredict(r) ==
    /\ At(r, "predict_model")
    /\ req' = [req EXCEPT ![r].place = "predict_text",
                          ![r].chunks = @ \o <<"predict-result">>]
    /\ Quiet

SavePredict(r) ==
    /\ At(r, "predict_text") /\ Healthy(r)
    /\ req' = [req EXCEPT ![r].place = "predict_data", ![r].open = @ \ {"predict"},
                          ![r].saved = @ \union {"predict"}]
    /\ Quiet

\* check_save_predict_data: the data found in the answer, possibly none.
SavePredictData(r) ==
    /\ At(r, "predict_data") /\ Healthy(r)
    /\ \E found \in BOOLEAN :
           req' = [req EXCEPT ![r].place = "conclude",
                      ![r].saved = IF found THEN @ \union {"predict_data"} ELSE @,
                      ![r].chunks = @ \o
                          <<IF found THEN "predict-success" ELSE "predict-failed",
                            "predict_finish">>]
    /\ Quiet

FinishAnalysis(r) ==
    /\ At(r, "conclude") /\ Healthy(r)
    /\ req' = [req EXCEPT ![r].place = "cleanup", ![r].finish = TRUE]
    /\ Quiet

------------------------------------------------------------------------------
(* How a task ends.                                                        *)

\* An exception that leaves the session usable: no connection to the data
\* source, a failing query, an answer that cannot be read, a model that does not
\* respond; also the one failing statement that is rolled back, the saving of
\* the data source chosen.
Raise(r) ==
    /\ "exception" \in Detours
    /\ req[r].place \in Working \ {"conclude"}
    /\ req' = [req EXCEPT ![r].place = "failed"]
    /\ Quiet

\* The except clauses call save_error_message: error and finish in a first
\* transaction,
SaveError(r) ==
    /\ At(r, "failed") /\ Healthy(r)
    /\ req' = [req EXCEPT ![r].place = "close_logs", ![r].error = TRUE,
                          ![r].apply = Committed(@), ![r].finish = TRUE]
    /\ Quiet

\* the logs that are still open in a second, and then the event.
CloseLogs(r) ==
    /\ At(r, "close_logs") /\ Healthy(r)
    /\ req' = [req EXCEPT
                  ![r].place = IF req[r].kind = "question" THEN "finally" ELSE "cleanup",
                  ![r].failedLogs = @ \union req[r].open, ![r].open = {},
                  ![r].chunks = @ \o <<"error">>]
    /\ Quiet

\* Mutant: the end of the task does not give its thread back.
FinallyKeepsThread(r) ==
    /\ At(r, "finally") /\ Healthy(r)
    /\ req' = [req EXCEPT ![r].place = "done", ![r].finish = TRUE]
    /\ session' = [session EXCEPT ![req[r].thread] = "none"]
    /\ UNCHANGED faults

\* The finally clause of run_task: finish_record, and then remove().
Finally(r) ==
    /\ At(r, "finally") /\ Healthy(r)
    /\ req' = [req EXCEPT ![r].place = "done", ![r].finish = TRUE,
                          ![r].thread = NoThread]
    /\ session' = [session EXCEPT ![req[r].thread] = "none"]
    /\ UNCHANGED faults

\* That of run_analysis_or_predict_task: remove() and nothing before it.
Cleanup(r) ==
    /\ At(r, "cleanup")
    /\ req' = [req EXCEPT ![r].place = "done", ![r].thread = NoThread]
    /\ session' = [session EXCEPT ![req[r].thread] = "none"]
    /\ UNCHANGED faults

\* A statement of the task fails, by itself or because the session is broken
\* since an earlier one: nothing rolls it back (but see Raise), so the session
\* stays broken until remove().  While the task works this is an exception like any other.  In
\* save_error_message or in finish_record it leaves the clause it is raised in:
\* the task of a question then goes through finish_record, which fails as well,
\* and ends without the call of remove(); the other tasks still reach theirs.
StatementFails(r) ==
    /\ req[r].place \in DbPlaces \union {"failed", "close_logs", "finally"}
    /\ LET t == req[r].thread
           next == IF req[r].place \in DbPlaces THEN "failed"
                   ELSE IF req[r].kind = "question" THEN "dead" ELSE "cleanup" IN
       /\ IF session[t] = "broken" THEN UNCHANGED faults
          ELSE faults < MaxFaults /\ faults' = faults + 1
       /\ session' = [session EXCEPT ![t] = "broken"]
       /\ req' = [req EXCEPT ![r].place = next, ![r].hit = TRUE,
                      ![r].apply = Lost(@),
                      ![r].thread = IF next = "dead" THEN NoThread ELSE @]

------------------------------------------------------------------------------
(* await_result: the response stream of a task.                            *)

\* is_running is false: the future is done, and what is left is delivered.  (The
\* chunks are popped as long as there are any between two of these tests, so
\* that at the last test some may have come in since.)
Poll(r) ==
    /\ req[r].stream = "poll"
    /\ req[r].place \in Ended
    /\ req' = [req EXCEPT ![r].stream = "last"]
    /\ Quiet

\* pop_chunk
Deliver(r) ==
    /\ req[r].stream \in {"poll", "last"}
    /\ req[r].chunks # <<>>
    /\ req' = [req EXCEPT ![r].got = Append(@, Head(req[r].chunks)),
                          ![r].chunks = Tail(@)]
    /\ Quiet

\* Mutant: nothing is delivered after the last test.
CloseStreamEarly(r) ==
    /\ req[r].stream = "last"
    /\ req' = [req EXCEPT ![r].stream = "closed"]
    /\ Quiet

CloseStream(r) ==
    /\ req[r].stream = "last"
    /\ req[r].chunks = <<>>
    /\ req' = [req EXCEPT ![r].stream = "closed"]
    /\ Quiet

\* The browser goes away; the task is not told.
Leave(r) ==
    /\ r \in Impatient
    /\ req[r].stream \in {"poll", "last"}
    /\ req' = [req EXCEPT ![r].stream = "left"]
    /\ Quiet

------------------------------------------------------------------------------
(* _try_learning_sql_override_stream: the stream answers by itself, with the *)
(* session of its request and before its first event.                        *)

AskOverride(r) ==
    /\ "override" \in Asked
    /\ At(r, "idle")
    /\ req' = [req EXCEPT ![r].kind = "override", ![r].place = "recorded",
                          ![r].saved = {"question"}]
    /\ Quiet

\* save_sql_answer, save_sql, record_patch_apply_log and commit.
RecordOverride(r) ==
    /\ At(r, "recorded")
    /\ req' = [req EXCEPT ![r].place = "applied", ![r].apply = "applied",
                          ![r].saved = @ \union {"answer", "sql"}]
    /\ Quiet

\* exec_sql and save_sql_exec_data.
RunOverride(r) ==
    /\ At(r, "applied")
    /\ req' = [req EXCEPT ![r].place = "executed", ![r].saved = @ \union {"data"}]
    /\ Quiet

\* save_chart_answer, save_chart and finish_record; then every event.
FinishOverride(r) ==
    /\ At(r, "executed")
    /\ req' = [req EXCEPT ![r].place = "done", ![r].finish = TRUE, ![r].stream = "last",
                  ![r].saved = @ \union {"chart_answer", "chart"},
                  ![r].chunks = <<"id", "question", "sql-result", "sql",
                                  "sql-data", "chart-result", "chart", "finish">>]
    /\ Quiet

\* No exception is caught there: the stream breaks off before its first event.
OverrideFails(r) ==
    /\ req[r].place \in OverridePlaces
    /\ req' = [req EXCEPT ![r].place = "done", ![r].hit = TRUE, ![r].stream = "closed"]
    /\ Quiet

------------------------------------------------------------------------------
\* The process restarts: its threads, tasks and streams are gone, what is
\* committed is not, and nothing looks for records that were never finished.
Restart ==
    /\ faults < MaxFaults
    /\ faults' = faults + 1
    /\ session' = [t \in Threads |-> "none"]
    /\ req' = [r \in Requests |->
                  IF At(r, "idle") THEN req[r] ELSE
                  [req[r] EXCEPT !.place = IF @ \in Ended THEN @ ELSE "lost",
                                 !.thread = NoThread, !.chunks = <<>>,
                                 !.apply = Lost(@),
                                 !.stream = IF @ = "closed" THEN @ ELSE "left"]]

Ask(r) ==
    \/ AskQuestion(r) \/ AskOverride(r) \/ Refuse(r)
    \/ \E base \in Requests, kind \in Kinds : AskAbout(r, base, kind)

\* The steps of a task on its thread.
Task(r) ==
    \/ OpenContext(r) \/ CloseContext(r) \/ ValidateDatasource(r)
    \/ AnnounceFirst(r) \/ OpenChoice(r) \/ ChooseDatasource(r) \/ Clarify(r)
    \/ OpenSql(r) \/ StreamSql(r) \/ SaveSqlAnswer(r) \/ ApplyOverride(r)
    \/ RejectSql(r) \/ OpenPermissions(r) \/ SaveSql(r)
    \/ OpenExecute(r) \/ SaveData(r)
    \/ OpenChart(r) \/ StreamChart(r) \/ SaveChartAnswer(r) \/ SaveChart(r)
    \/ AnnounceAnalysis(r) \/ OpenAnalysis(r)
    \/ StreamAnalysis(r) \/ SaveAnalysis(r)
    \/ StreamPredict(r) \/ SavePredict(r) \/ SavePredictData(r) \/ FinishAnalysis(r)
    \/ Raise(r) \/ SaveError(r) \/ CloseLogs(r) \/ Finally(r) \/ Cleanup(r)
    \/ StatementFails(r)

Stream(r) == Poll(r) \/ Deliver(r) \/ CloseStream(r)

Override(r) ==
    \/ RecordOverride(r) \/ RunOverride(r) \/ FinishOverride(r) \/ OverrideFails(r)

Next ==
    \/ \E r \in Requests :
           \/ Ask(r) \/ Task(r) \/ Stream(r) \/ Override(r) \/ Leave(r)
           \/ \E t \in Threads : Begin(r, t)
    \/ Restart

Spec == Init /\ [][Next]_vars

\* The pool runs its threads, the language model and the database answer or
\* fail, and the server writes to a browser that still reads.  Nothing makes a
\* user ask or leave, a statement fail, or the process restart.
Fairness ==
    /\ \A r \in Requests : /\ WF_vars(Task(r))
                           /\ WF_vars(Stream(r))
                           /\ WF_vars(Override(r))
                           /\ WF_vars(\E t \in Threads : Begin(r, t))

FairSpec == Spec /\ Fairness

------------------------------------------------------------------------------
(* Properties.                                                             *)

Seen(r) == {req[r].got[i] : i \in DOMAIN req[r].got}
Published(r) == req[r].got \o req[r].chunks

\* What must be committed when a browser is told of it.
Behind(e) ==
    CASE e = "datasource"      -> {"datasource"}
      [] e = "sql"             -> {"answer", "sql"}
      [] e = "sql-data"        -> {"answer", "sql", "data"}
      [] e \in {"chart", "finish"} ->
                                  {"answer", "sql", "data", "chart_answer", "chart"}
      [] e = "analysis_finish" -> {"data", "chart", "analysis"}
      [] e = "predict-success" -> {"data", "chart", "predict", "predict_data"}
      [] OTHER                 -> {}

\* A browser that reloads the record after an event finds there what the event
\* announced, whatever failed or restarted meanwhile; after an error event it
\* finds the error, a finished record and no log that is still open.
SavedBeforeSeen ==
    \A r \in Requests : \A e \in Seen(r) :
        /\ Behind(e) \subseteq req[r].saved
        /\ e = "error" => req[r].error /\ req[r].finish /\ req[r].open = {}

\* A request has one outcome: nothing is published after it, and a record with
\* an error was never announced as answered.
OneOutcome ==
    \A r \in Requests :
        LET p == Published(r) IN
        \A i \in DOMAIN p : p[i] \in Outcomes =>
            /\ i = Len(p)
            /\ req[r].error => p[i] = "error"

\* A stream only breaks off without an outcome when a statement of its own task
\* failed; in every other case the browser gets all that was published, an
\* outcome last, and the record, if there is one, is finished with its logs closed.
SilentOnlyIfHit ==
    \A r \in Requests :
        req[r].stream = "closed" /\ ~req[r].hit =>
            /\ req[r].got # <<>> /\ req[r].chunks = <<>>
            /\ req[r].got[Len(req[r].got)] \in Outcomes
            /\ req[r].saved # {} => req[r].finish /\ req[r].open = {}

\* A finished record is a final one: no step adds to it, clears its error or
\* reopens it.
FinishedIsFinal ==
    [][\A r \in Requests :
          req[r].finish => /\ req'[r].finish
                           /\ req'[r].saved = req[r].saved
                           /\ req'[r].error = req[r].error]_vars

\* Every stream ends, also when the task fails, dies or waits for a thread that
\* another task holds.
StreamsEnd ==
    \A r \in Requests :
        req[r].stream \in {"poll", "last"} ~> req[r].stream \in {"closed", "left"}

\* Every record is finished in the end unless a statement of its task failed or
\* the process restarted: also if it is asked to clarify, or the browser leaves.
RecordsFinish ==
    \A r \in Requests :
        "question" \in req[r].saved ~>
            req[r].finish \/ req[r].hit \/ At(r, "lost")
==============================================================================
