----------------------------- MODULE ChatTaskProofs -----------------------------
(***************************************************************************)
(* The safety properties of ChatTask, for any number of requests, any pool *)
(* of threads and any number of failing statements and restarts.           *)
(*                                                                         *)
(* None of them is inductive.  The invariants below add what a task knows  *)
(* at each of its places (Sound), what it has already told the browser     *)
(* (Told), and that a task has its thread for itself, so that a session    *)
(* broken under it is still broken when it tries to save its error         *)
(* (OnThread, Alone).                                                      *)
(***************************************************************************)
EXTENDS ChatTask, SequenceTheorems, TLAPS

\* The parts that are committed when a task has come to a place.
SavedAt(place) ==
    CASE place \in {"check", "permissions"} -> {"answer"}
      [] place \in {"execute", "executing", "applied"} -> {"answer", "sql"}
      [] place \in {"draw", "chart_model", "chart_text", "executed"} ->
             {"answer", "sql", "data"}
      [] place = "check_chart" -> {"answer", "sql", "data", "chart_answer"}
      [] place \in {"begun", "load", "analysis_model", "analysis_text",
                    "predict_model", "predict_text"} -> {"data", "chart"}
      [] place = "predict_data" -> {"data", "chart", "predict"}
      [] OTHER -> {}

\* The logs that may be open at a place where the task has not failed.
OpenAt(place) ==
    CASE place = "context" -> {"context"}
      [] place = "choosing" -> {"choose_datasource"}
      [] place \in {"sql_model", "sql_text"} -> {"sql"}
      [] place = "permissions" -> {"permissions"}
      [] place = "executing" -> {"execute"}
      [] place \in {"chart_model", "chart_text"} -> {"chart"}
      [] place \in {"analysis_model", "analysis_text"} -> {"analysis"}
      [] place \in {"predict_model", "predict_text"} -> {"predict"}
      [] OTHER -> {}

AnalysisPlaces == {"begun", "load", "analysis_model", "analysis_text",
                   "predict_model", "predict_text", "predict_data", "conclude"}
SettledPlaces == {"close_logs", "finally", "cleanup", "done", "dead", "lost"}
OutcomePlaces == {"conclude", "failed", "finally", "cleanup", "done", "dead",
                  "lost"}
\* Where an outcome is certain unless a statement failed.
ToldPlaces == {"conclude", "finally", "cleanup", "done"}
OnThreadPlaces == Working \union Closing

\* What a request's record, logs and stream have to do with its place.
Sound(x) ==
    /\ "chart" \in x.saved => "data" \in x.saved
    /\ SavedAt(x.place) \subseteq x.saved
    /\ x.place = "queued" =>
          x.kind = "question" \/ (x.kind \in {"analysis", "predict"}
                                    /\ {"data", "chart"} \subseteq x.saved)
    /\ x.place \in AnalysisPlaces => x.kind \in {"analysis", "predict"}
    /\ x.place \notin {"failed", "close_logs", "finally", "cleanup"} \union Ended =>
          x.open \subseteq OpenAt(x.place)
    /\ x.finish \/ x.error => x.place \in SettledPlaces
    /\ x.error => x.finish
    /\ x.place = "close_logs" => x.error
    /\ x.place \in {"finally", "cleanup", "done"} /\ ~x.hit => x.open = {}
    /\ x.place \in {"cleanup", "done"} /\ ~x.hit => x.finish \/ x.saved = {}
    /\ x.place = "dead" => x.hit
    /\ x.stream \in {"last", "closed"} => x.place \in {"done", "dead"}
    /\ x.place = "lost" => x.stream = "left"
    /\ x.stream = "closed" => x.chunks = <<>>
    /\ x.place \in {"idle"} \union OverridePlaces =>
          x.chunks = <<>> /\ x.got = <<>> /\ x.stream = "none"
    /\ x.place = "idle" => x.saved = {} /\ x.kind = "question"

Said(x) == x.got \o x.chunks

\* What has been published is committed, and the outcome is the last of it.
Told(x) ==
    /\ \A i \in 1..Len(Said(x)) :
          /\ Behind(Said(x)[i]) \subseteq x.saved
          /\ Said(x)[i] = "error" => x.error /\ x.open = {}
          /\ Said(x)[i] \in Outcomes =>
                /\ i = Len(Said(x))
                /\ x.error => Said(x)[i] = "error"
                /\ x.place \in OutcomePlaces
    /\ x.place \in ToldPlaces /\ ~x.hit /\ x.stream # "left" =>
          Len(Said(x)) # 0 /\ Said(x)[Len(Said(x))] \in Outcomes

\* A task is on a thread from its first step to its last, and an error after the
\* outcome can only come from a broken session.
OnThread(x, s) ==
    /\ x.thread \in Threads <=> x.place \in OnThreadPlaces
    /\ x.place = "failed" /\ (\E i \in 1..Len(Said(x)) : Said(x)[i] \in Outcomes) =>
          s[x.thread] = "broken"

Alone == \A q, r \in Requests :
            q # r => req[q].thread # req[r].thread \/ req[q].thread = NoThread

IInv ==
    /\ TypeOK
    /\ \A r \in Requests :
          Sound(req[r]) /\ Told(req[r]) /\ OnThread(req[r], session)
    /\ Alone
------------------------------------------------------------------------------
(* Lemmas                                                                  *)

\* No outcome has been published.
Silent(x) == \A i \in 1..Len(Said(x)) : Said(x)[i] \notin Outcomes

LEMMA SaidType ==
    ASSUME NEW x \in Request
    PROVE  /\ x.got \in Seq(Events) /\ x.chunks \in Seq(Events)
           /\ Said(x) \in Seq(Events)
           /\ Len(Said(x)) = Len(x.got) + Len(x.chunks)
           /\ \A i \in 1..Len(x.got) : Said(x)[i] = x.got[i]
<1>1. x.got \in Seq(Events) /\ x.chunks \in Seq(Events)
  BY DEF Request
<1>2. /\ Said(x) \in Seq(Events)
      /\ Len(Said(x)) = Len(x.got) + Len(x.chunks)
      /\ \A i \in 1..Len(x.got) + Len(x.chunks) :
            Said(x)[i] = IF i <= Len(x.got) THEN x.got[i]
                         ELSE x.chunks[i - Len(x.got)]
  BY <1>1, ConcatProperties, Zenon DEF Said
<1>3. Len(x.got) \in Nat /\ Len(x.chunks) \in Nat
  BY <1>1, LenProperties, Zenon
<1>4. \A m, n \in Nat : \A i \in 1..m : i \in 1..m + n /\ i <= m
  OBVIOUS
<1>5. \A i \in 1..Len(x.got) : Said(x)[i] = x.got[i]
  BY <1>2, <1>3, <1>4, Zenon
<1> QED
  BY <1>1, <1>2, <1>5, Zenon

LEMMA Joined ==
    \A s, t, u \in Seq(Events) : (s \o t) \o u = s \o (t \o u)
<1> TAKE s, t, u \in Seq(Events)
<1> QED
  BY SMTT(30)

\* t is s, followed by evs.
Extended(s, t, evs) ==
    /\ Len(s) \in Nat /\ Len(evs) \in Nat
    /\ Len(t) = Len(s) + Len(evs)
    /\ \A i \in 1..Len(s) : t[i] = s[i]
    /\ \A i \in Len(s)+1..Len(t) :
          /\ i - Len(s) \in 1..Len(evs)
          /\ t[i] = evs[i - Len(s)]

\* What publishing some events does to the events of a request.
LEMMA SaidMore ==
    ASSUME NEW x \in Request, NEW y \in Request, NEW evs \in Seq(Events),
           y.got = x.got, y.chunks = x.chunks \o evs
    PROVE  Extended(Said(x), Said(y), evs)
<1>1. /\ x.got \in Seq(Events) /\ x.chunks \in Seq(Events)
      /\ Said(x) \in Seq(Events)
  BY SaidType
<1>2. Said(y) = Said(x) \o evs
  <2>1. (x.got \o x.chunks) \o evs = x.got \o (x.chunks \o evs)
    BY <1>1, Joined, Zenon
  <2> QED
    BY <2>1 DEF Said
<1>3. Len(Said(x)) \in Nat /\ Len(evs) \in Nat
  BY <1>1, LenProperties
<1>4. /\ Len(Said(y)) = Len(Said(x)) + Len(evs)
      /\ \A i \in 1..Len(Said(x)) + Len(evs) :
            Said(y)[i] = IF i <= Len(Said(x)) THEN Said(x)[i]
                         ELSE evs[i - Len(Said(x))]
  BY <1>1, <1>2, ConcatProperties
<1> QED
  BY <1>3, <1>4 DEF Extended

LEMMA SaidOnce ==
    ASSUME NEW x \in Request, NEW y \in Request, x.chunks # <<>>,
           y.got = Append(x.got, Head(x.chunks)), y.chunks = Tail(x.chunks)
    PROVE  Said(y) = Said(x)
<1>1. x.got \in Seq(Events) /\ x.chunks \in Seq(Events)
  BY SaidType
<1> DEFINE c == x.chunks  g == x.got  h == <<Head(c)>>
<1>2. Head(c) \in Events /\ Tail(c) \in Seq(Events) /\ h \in Seq(Events)
  BY <1>1
<1>3. Append(g, Head(c)) = g \o h
  BY <1>1, <1>2, AppendIsConcat
<1>4. c = h \o Tail(c)
  BY <1>1, <1>2
<1>5. (g \o h) \o Tail(c) = g \o (h \o Tail(c))
  BY <1>1, <1>2, Joined, Zenon
<1> QED
  BY <1>3, <1>4, <1>5 DEF Said

\* What a step of one request must show to keep the invariant.
LEMMA Step ==
    ASSUME IInv, NEW r \in Requests, NEW y \in Request,
           req' = [req EXCEPT ![r] = y],
           session' \in [Threads -> {"none", "ok", "broken"}],
           faults' \in 0..MaxFaults,
           Sound(y), Told(y), OnThread(y, session'),
           y.thread # NoThread => \A q \in Requests \ {r} : req[q].thread # y.thread,
           \A t \in Threads : session'[t] # session[t] =>
              \A q \in Requests \ {r} : req[q].thread # t
    PROVE  IInv'
<1>1. req \in [Requests -> Request]
  BY DEF IInv, TypeOK
<1>2. req'[r] = y /\ \A q \in Requests \ {r} : req'[q] = req[q]
  BY <1>1
<1>3. TypeOK'
  BY <1>1 DEF TypeOK
<1>4. ASSUME NEW q \in Requests
      PROVE  Sound(req'[q]) /\ Told(req'[q]) /\ OnThread(req'[q], session')
  <2>1. CASE q = r
    BY <2>1, <1>2
  <2>2. CASE q # r
    <3>1. req'[q] = req[q] /\ Sound(req[q]) /\ Told(req[q]) /\ OnThread(req[q], session)
      BY <2>2, <1>2 DEF IInv
    <3>2. OnThread(req[q], session')
      <4>1. CASE req[q].place = "failed"
        <5>1. req[q].thread \in Threads
          BY <3>1, <4>1 DEF OnThread, OnThreadPlaces, Closing
        <5>2. session'[req[q].thread] = session[req[q].thread]
          BY <5>1, <2>2
        <5> QED
          BY <3>1, <5>2 DEF OnThread
      <4>2. CASE req[q].place # "failed"
        BY <3>1, <4>2 DEF OnThread
      <4> QED
        BY <4>1, <4>2
    <3> QED
      BY <3>1, <3>2
  <2> QED
    BY <2>1, <2>2
<1>5. Alone'
  BY <1>2 DEF IInv, Alone
<1> QED
  BY <1>3, <1>4, <1>5 DEF IInv

\* A step that publishes nothing.
LEMMA KeepTold ==
    ASSUME NEW x \in Request, NEW y \in Request, Told(x), Said(y) = Said(x),
           x.saved \subseteq y.saved,
           x.error /\ x.open = {} => y.error /\ y.open = {},
           y.error => x.error \/ Silent(x),
           x.place \in OutcomePlaces => y.place \in OutcomePlaces \/ Silent(x),
           y.place \in ToldPlaces /\ ~y.hit /\ y.stream # "left" =>
              x.place \in ToldPlaces /\ ~x.hit /\ x.stream # "left"
    PROVE  Told(y)
<1>1. ASSUME NEW i \in 1..Len(Said(y))
      PROVE  /\ Behind(Said(y)[i]) \subseteq y.saved
             /\ Said(y)[i] = "error" => y.error /\ y.open = {}
             /\ Said(y)[i] \in Outcomes =>
                   /\ i = Len(Said(y))
                   /\ y.error => Said(y)[i] = "error"
                   /\ y.place \in OutcomePlaces
  BY <1>1, Zenon DEF Told, Silent
<1>2. y.place \in ToldPlaces /\ ~y.hit /\ y.stream # "left" =>
         Len(Said(y)) # 0 /\ Said(y)[Len(Said(y))] \in Outcomes
  BY Zenon DEF Told
<1> QED
  BY <1>1, <1>2, Zenon DEF Told

\* A step that publishes some events, of which only the last may be an outcome.
LEMMA PublishTold ==
    ASSUME NEW x \in Request, NEW y \in Request, NEW evs \in Seq(Events),
           Told(x), Silent(x), y.got = x.got, y.chunks = x.chunks \o evs,
           x.saved \subseteq y.saved,
           \A j \in 1..Len(evs) :
              /\ Behind(evs[j]) \subseteq y.saved
              /\ evs[j] = "error" => y.error /\ y.open = {}
              /\ evs[j] \in Outcomes =>
                    /\ j = Len(evs)
                    /\ y.error => evs[j] = "error"
                    /\ y.place \in OutcomePlaces,
           y.place \in ToldPlaces /\ ~y.hit /\ y.stream # "left" =>
              Len(evs) # 0 /\ evs[Len(evs)] \in Outcomes
    PROVE  Told(y)
<1> DEFINE n == Len(Said(x))
<1>1. /\ n \in Nat /\ Len(evs) \in Nat
      /\ Len(Said(y)) = n + Len(evs)
      /\ \A i \in 1..n : Said(y)[i] = Said(x)[i]
      /\ \A i \in n+1..Len(Said(y)) : /\ i - n \in 1..Len(evs)
                                      /\ Said(y)[i] = evs[i - n]
  BY SaidMore, Zenon DEF Extended
<1> HIDE DEF n
<1>2. ASSUME NEW i \in 1..Len(Said(y))
      PROVE  /\ Behind(Said(y)[i]) \subseteq y.saved
             /\ Said(y)[i] = "error" => y.error /\ y.open = {}
             /\ Said(y)[i] \in Outcomes =>
                   /\ i = Len(Said(y))
                   /\ y.error => Said(y)[i] = "error"
                   /\ y.place \in OutcomePlaces
  <2>1. CASE i \in 1..n
    <3>1. Said(y)[i] = Said(x)[i] /\ Said(x)[i] \notin Outcomes
      BY <1>1, <2>1, Zenon DEF Silent, n
    <3>2. Behind(Said(x)[i]) \subseteq y.saved
      BY <2>1, Zenon DEF Told, n
    <3>3. "error" \in Outcomes
      BY DEF Outcomes
    <3> QED
      BY <3>1, <3>2, <3>3, Zenon
  <2>2. CASE i \notin 1..n
    <3>1. i \in n+1..Len(Said(y))
      BY <1>1, <2>2
    <3>2. i - n \in 1..Len(evs) /\ Said(y)[i] = evs[i - n]
      BY <1>1, <3>1, Zenon
    <3>3. i - n = Len(evs) => i = Len(Said(y))
      BY <1>1, <3>1
    <3> QED
      BY <3>2, <3>3, Zenon
  <2> QED
    BY <2>1, <2>2
<1>3. ASSUME y.place \in ToldPlaces, ~y.hit, y.stream # "left"
      PROVE  Len(Said(y)) # 0 /\ Said(y)[Len(Said(y))] \in Outcomes
  <2>1. Len(evs) # 0 /\ evs[Len(evs)] \in Outcomes
    BY <1>3
  <2>2. /\ Len(Said(y)) # 0 /\ Len(Said(y)) \in n+1..Len(Said(y))
        /\ Len(Said(y)) - n = Len(evs)
    BY <1>1, <2>1
  <2> QED
    BY <1>1, <2>1, <2>2, Zenon
<1> QED
  BY <1>2, <1>3, Zenon DEF Told

\* An outcome is only on record where the task is about to end.
LEMMA StillSilent ==
    ASSUME NEW x, Told(x), x.place \notin OutcomePlaces
    PROVE  Silent(x)
BY Zenon DEF Told, Silent

LEMMA FailedSilent ==
    ASSUME NEW x, OnThread(x, session), x.place = "failed",
           session[x.thread] = "ok"
    PROVE  Silent(x)
BY Zenon DEF OnThread, Silent

LEMMA PublishSilent ==
    ASSUME NEW x \in Request, NEW y \in Request, NEW evs \in Seq(Events),
           Silent(x), y.got = x.got, y.chunks = x.chunks \o evs,
           \A j \in 1..Len(evs) : evs[j] \notin Outcomes
    PROVE  Silent(y)
<1> DEFINE n == Len(Said(x))
<1>1. /\ n \in Nat /\ Len(evs) \in Nat
      /\ Len(Said(y)) = n + Len(evs)
      /\ \A i \in 1..n : Said(y)[i] = Said(x)[i]
      /\ \A i \in n+1..Len(Said(y)) : /\ i - n \in 1..Len(evs)
                                      /\ Said(y)[i] = evs[i - n]
  BY SaidMore, Zenon DEF Extended
<1>2. \A i \in 1..n : Said(x)[i] \notin Outcomes
  BY DEF Silent
<1> HIDE DEF n
<1>3. ASSUME NEW i \in 1..Len(Said(y))
      PROVE  Said(y)[i] \notin Outcomes
  <2>1. i \in 1..n \/ i \in n+1..Len(Said(y))
    BY <1>1
  <2> QED
    BY <1>1, <1>2, <2>1, Zenon
<1> QED
  BY <1>3 DEF Silent

\* The events a task may publish on its way to a place, with the parts that are
\* saved by then.
Tells(place, saved, evs) ==
    /\ evs \in Seq(Events)
    /\ \A j \in 1..Len(evs) :
          /\ Behind(evs[j]) \subseteq saved
          /\ evs[j] # "error"
          /\ evs[j] \in Outcomes => j = Len(evs) /\ place # "failed"
                                    /\ place \in OutcomePlaces
    /\ place \in {"conclude", "finally"} =>
          Len(evs) # 0 /\ evs[Len(evs)] \in Outcomes

LEMMA TellsNothing ==
    ASSUME NEW place, NEW saved, place \notin {"conclude", "finally"}
    PROVE  Tells(place, saved, <<>>)
BY DEF Tells

LEMMA TellsOne ==
    ASSUME NEW place, NEW saved,
           NEW e \in Events \ {"error"}, Behind(e) \subseteq saved,
           e \in Outcomes => place # "failed" /\ place \in OutcomePlaces,
           place \in {"conclude", "finally"} => e \in Outcomes
    PROVE  Tells(place, saved, <<e>>)
BY DEF Tells

LEMMA TellsTwo ==
    ASSUME NEW place, NEW saved, NEW d \in Events \ Outcomes,
           NEW e \in Events \ {"error"},
           Behind(d) \subseteq saved, Behind(e) \subseteq saved,
           e \in Outcomes => place # "failed" /\ place \in OutcomePlaces,
           place \in {"conclude", "finally"} => e \in Outcomes
    PROVE  Tells(place, saved, <<d, e>>)
<1>1. <<d, e>> \in Seq(Events) /\ Len(<<d, e>>) = 2
      /\ <<d, e>>[1] = d /\ <<d, e>>[2] = e
  OBVIOUS
<1>2. d # "error"
  BY DEF Outcomes

<1> QED
  BY <1>1, <1>2 DEF Tells

\* A request after a step that changes these fields.
After(x, place, open, saved, evs, apply, failedLogs) ==
    [x EXCEPT !.place = place, !.open = open, !.saved = saved,
              !.chunks = x.chunks \o evs,
              !.apply = apply, !.failedLogs = failedLogs]

\* A step of the answering part of a task: where it goes, the logs it leaves
\* open, the parts it leaves saved, the events it publishes, and what becomes of
\* the apply log and of the logs marked as an error.
Moves(r, place, open, saved, evs, apply, failedLogs) ==
    /\ Quiet
    /\ req' = [req EXCEPT ![r] =
                 After(req[r], place, open, saved, evs, apply, failedLogs)]
    /\ req[r].place \in Working \ {"conclude"}
    /\ place \in Working \union {"failed", "finally"}
    /\ open \in SUBSET Ops /\ saved \in SUBSET Parts
    /\ apply \in {"none", "flushed", "applied", "error"} /\ failedLogs \in SUBSET Ops
    /\ req[r].saved \subseteq saved
    /\ "chart" \in saved => "data" \in saved
    /\ SavedAt(place) \subseteq saved
    /\ place \in AnalysisPlaces => req[r].kind \in {"analysis", "predict"}
    /\ place \in Working => open \subseteq OpenAt(place)
    /\ place = "finally" => open = {}
    /\ Tells(place, saved, evs)

LEMMA MoveStep ==
    ASSUME IInv, NEW r \in Requests, NEW place, NEW open, NEW saved, NEW evs,
           NEW apply, NEW failedLogs,
           Moves(r, place, open, saved, evs, apply, failedLogs)
    PROVE  IInv'
<1> DEFINE x == req[r]
           y == After(x, place, open, saved, evs, apply, failedLogs)
<1>1. x \in Request
  BY DEF IInv, TypeOK
<1>2. x.chunks \o evs \in Seq(Events)
  BY <1>1, SaidType, ConcatProperties DEF Moves, Tells
<1>3. place \in Places
  BY DEF Moves, Places, Closing
<1>4. y \in Request
  BY <1>1, <1>2, <1>3 DEF Request, Moves, After
<1>5. /\ y.kind = x.kind /\ y.thread = x.thread
      /\ y.finish = x.finish /\ y.error = x.error
      /\ y.got = x.got /\ y.stream = x.stream /\ y.hit = x.hit
      /\ y.place = place /\ y.open = open /\ y.saved = saved
      /\ y.chunks = x.chunks \o evs
  BY <1>1 DEF Request, After
<1>6. req' = [req EXCEPT ![r] = y]
  BY DEF Moves
<1> HIDE DEF y
<1>7. /\ Sound(x) /\ Told(x) /\ OnThread(x, session)
      /\ session \in [Threads -> {"none", "ok", "broken"}] /\ faults \in 0..MaxFaults
  BY DEF IInv, TypeOK
<1>8. Silent(x)
  <2>1. x.place \notin OutcomePlaces
    BY DEF Moves, Working, DbPlaces, OtherPlaces, OutcomePlaces
  <2> QED
    BY <1>7, <2>1, StillSilent, Zenon
<1>9. ~x.finish /\ ~x.error /\ x.stream \notin {"last", "closed"}
  BY <1>7 DEF Moves, Sound, Working, DbPlaces, OtherPlaces, SettledPlaces
<1>10. Sound(y)
  BY <1>5, <1>7, <1>9
     DEF Moves, Sound, Working, DbPlaces, OtherPlaces, OverridePlaces, Ended
<1>11. Told(y)
  <2>1. \A j \in 1..Len(evs) :
           /\ Behind(evs[j]) \subseteq y.saved
           /\ evs[j] = "error" => y.error /\ y.open = {}
           /\ evs[j] \in Outcomes =>
                 /\ j = Len(evs)
                 /\ y.error => evs[j] = "error"
                 /\ y.place \in OutcomePlaces
    BY <1>5, <1>9 DEF Moves, Tells
  <2>2. y.place \in ToldPlaces => Len(evs) # 0 /\ evs[Len(evs)] \in Outcomes
    BY <1>5 DEF Moves, Tells, ToldPlaces, Working, DbPlaces, OtherPlaces
  <2>3. evs \in Seq(Events) /\ x.saved \subseteq y.saved
    BY <1>5 DEF Moves, Tells
  <2> QED
    BY <1>1, <1>4, <1>5, <1>7, <1>8, <2>1, <2>2, <2>3, PublishTold, Zenon
<1>12. OnThread(y, session)
  <2>1. x.place \in OnThreadPlaces /\ y.place \in OnThreadPlaces
    BY <1>5 DEF Moves, OnThreadPlaces, Working, DbPlaces, OtherPlaces, Closing
  <2>2. y.place = "failed" => Silent(y)
    BY <1>1, <1>4, <1>5, <1>8, PublishSilent DEF Moves, Tells
  <2> QED
    BY <1>5, <1>7, <2>1, <2>2 DEF OnThread, Silent
<1>13. y.thread # NoThread => \A q \in Requests \ {r} : req[q].thread # y.thread
  BY <1>5 DEF IInv, Alone
<1> QED
  BY <1>4, <1>6, <1>7, <1>10, <1>11, <1>12, <1>13, Step, Zenon DEF Moves, Quiet

LEMMA NoEvents ==
    ASSUME NEW x \in Request
    PROVE  x.chunks \o <<>> = x.chunks /\ <<>> \in Seq(Events)
           /\ Len(<<>>) = 0 /\ \A j : j \notin 1..0
BY SaidType, ConcatEmptySeq


Answer(r) ==
    \/ OpenContext(r)
    \/ CloseContext(r)
    \/ ValidateDatasource(r)
    \/ AnnounceFirst(r)
    \/ OpenChoice(r)
    \/ ChooseDatasource(r)
    \/ OpenSql(r)
    \/ StreamSql(r)
    \/ SaveSqlAnswer(r)
    \/ ApplyOverride(r)
    \/ OpenPermissions(r)
    \/ SaveSql(r)
    \/ OpenExecute(r)
    \/ SaveData(r)
    \/ OpenChart(r)
    \/ StreamChart(r)
    \/ SaveChartAnswer(r)
    \/ SaveChart(r)
    \/ AnnounceAnalysis(r)
    \/ StreamAnalysis(r)
    \/ SaveAnalysis(r)
    \/ StreamPredict(r)
    \/ SavePredict(r)
    \/ Raise(r)
    \/ Clarify(r)
    \/ RejectSql(r)
    \/ OpenAnalysis(r)
    \/ SavePredictData(r)

\* Any step of the part of a task that answers keeps the invariant.
LEMMA AnswerStep ==
    ASSUME IInv, NEW r \in Requests, Answer(r)
    PROVE  IInv'
<1> DEFINE x == req[r]
<1> USE DEF At, Healthy, Working, DbPlaces, OtherPlaces
<1>1. /\ x \in Request /\ Sound(x) /\ req \in [Requests -> Request]
  BY DEF IInv, TypeOK
<1>2. x.chunks \o <<>> = x.chunks
  BY <1>1, NoEvents
<1>3. CASE OpenContext(r)
  <2>1. req' = [req EXCEPT ![r] =
           After(x, "context", x.open \union {"context"}, x.saved,
                 <<>>, x.apply, x.failedLogs)]
    BY <1>1, <1>2, <1>3 DEF OpenContext, Request, After
  <2>2. Tells("context", x.saved, <<>>)
    BY <1>1, <1>3, TellsNothing
  <2>3. Moves(r, "context", x.open \union {"context"}, x.saved,
                 <<>>, x.apply, x.failedLogs)
    BY <1>1, <1>3, <2>1, <2>2
       DEF OpenContext, Moves, Request, Parts, Ops, Sound, SavedAt, OpenAt,
           AnalysisPlaces, Closing, OverridePlaces, Ended
  <2> QED
    BY <2>3, MoveStep, Zenon
<1>4. CASE CloseContext(r)
  <2>1. req' = [req EXCEPT ![r] =
           After(x, "introduced", x.open \ {"context"}, x.saved,
                 <<"id", "question">>, x.apply, x.failedLogs)]
    BY <1>1, <1>2, <1>4 DEF CloseContext, Request, After
  <2>2. Tells("introduced", x.saved, <<"id", "question">>)
    BY <1>1, <1>4, TellsTwo
       DEF CloseContext, Sound, SavedAt, Behind, Events, Outcomes, OutcomePlaces
  <2>3. Moves(r, "introduced", x.open \ {"context"}, x.saved,
                 <<"id", "question">>, x.apply, x.failedLogs)
    BY <1>1, <1>4, <2>1, <2>2
       DEF CloseContext, Moves, Request, Parts, Ops, Sound, SavedAt, OpenAt,
           AnalysisPlaces, Closing, OverridePlaces, Ended
  <2> QED
    BY <2>3, MoveStep, Zenon
<1>5. CASE ValidateDatasource(r)
  <2>1. req' = [req EXCEPT ![r] =
           After(x, "clarify", x.open, x.saved,
                 <<>>, x.apply, x.failedLogs)]
    BY <1>1, <1>2, <1>5 DEF ValidateDatasource, Request, After
  <2>2. Tells("clarify", x.saved, <<>>)
    BY <1>1, <1>5, TellsNothing
  <2>3. Moves(r, "clarify", x.open, x.saved,
                 <<>>, x.apply, x.failedLogs)
    BY <1>1, <1>5, <2>1, <2>2
       DEF ValidateDatasource, Moves, Request, Parts, Ops, Sound, SavedAt,
           OpenAt, AnalysisPlaces, Closing, OverridePlaces, Ended
  <2> QED
    BY <2>3, MoveStep, Zenon
<1>6. CASE AnnounceFirst(r)
  <2>1. req' = [req EXCEPT ![r] =
           After(x, "choose", x.open, x.saved,
                 <<"id", "question">>, x.apply, x.failedLogs)]
    BY <1>1, <1>2, <1>6 DEF AnnounceFirst, Request, After
  <2>2. Tells("choose", x.saved, <<"id", "question">>)
    BY <1>1, <1>6, TellsTwo
       DEF AnnounceFirst, Sound, SavedAt, Behind, Events, Outcomes,
           OutcomePlaces
  <2>3. Moves(r, "choose", x.open, x.saved,
                 <<"id", "question">>, x.apply, x.failedLogs)
    BY <1>1, <1>6, <2>1, <2>2
       DEF AnnounceFirst, Moves, Request, Parts, Ops, Sound, SavedAt, OpenAt,
           AnalysisPlaces, Closing, OverridePlaces, Ended
  <2> QED
    BY <2>3, MoveStep, Zenon
<1>7. CASE OpenChoice(r)
  <2>1. req' = [req EXCEPT ![r] =
           After(x, "choosing", x.open \union {"choose_datasource"}, x.saved,
                 <<>>, x.apply, x.failedLogs)]
    BY <1>1, <1>2, <1>7 DEF OpenChoice, Request, After
  <2>2. Tells("choosing", x.saved, <<>>)
    BY <1>1, <1>7, TellsNothing
  <2>3. Moves(r, "choosing", x.open \union {"choose_datasource"}, x.saved,
                 <<>>, x.apply, x.failedLogs)
    BY <1>1, <1>7, <2>1, <2>2
       DEF OpenChoice, Moves, Request, Parts, Ops, Sound, SavedAt, OpenAt,
           AnalysisPlaces, Closing, OverridePlaces, Ended
  <2> QED
    BY <2>3, MoveStep, Zenon
<1>8. CASE ChooseDatasource(r)
  <2>1. req' = [req EXCEPT ![r] =
           After(x, "clarify", x.open \ {"choose_datasource"},
                 x.saved \union {"datasource"},
                 <<"datasource">>, x.apply, x.failedLogs)]
    BY <1>1, <1>2, <1>8 DEF ChooseDatasource, Request, After
  <2>2. Tells("clarify", x.saved \union {"datasource"}, <<"datasource">>)
    BY <1>1, <1>8, TellsOne
       DEF ChooseDatasource, Sound, SavedAt, Behind, Events, Outcomes,
           OutcomePlaces
  <2>3. Moves(r, "clarify", x.open \ {"choose_datasource"}, x.saved \union {"datasource"},
                 <<"datasource">>, x.apply, x.failedLogs)
    BY <1>1, <1>8, <2>1, <2>2
       DEF ChooseDatasource, Moves, Request, Parts, Ops, Sound, SavedAt, OpenAt,
           AnalysisPlaces, Closing, OverridePlaces, Ended
  <2> QED
    BY <2>3, MoveStep, Zenon
<1>9. CASE OpenSql(r)
  <2>1. req' = [req EXCEPT ![r] =
           After(x, "sql_model", x.open \union {"sql"}, x.saved,
                 <<>>, x.apply, x.failedLogs)]
    BY <1>1, <1>2, <1>9 DEF OpenSql, Request, After
  <2>2. Tells("sql_model", x.saved, <<>>)
    BY <1>1, <1>9, TellsNothing
  <2>3. Moves(r, "sql_model", x.open \union {"sql"}, x.saved,
                 <<>>, x.apply, x.failedLogs)
    BY <1>1, <1>9, <2>1, <2>2
       DEF OpenSql, Moves, Request, Parts, Ops, Sound, SavedAt, OpenAt,
           AnalysisPlaces, Closing, OverridePlaces, Ended
  <2> QED
    BY <2>3, MoveStep, Zenon
<1>10. CASE StreamSql(r)
  <2>1. req' = [req EXCEPT ![r] =
           After(x, "sql_text", x.open, x.saved,
                 <<"sql-result">>, x.apply, x.failedLogs)]
    BY <1>1, <1>2, <1>10 DEF StreamSql, Request, After
  <2>2. Tells("sql_text", x.saved, <<"sql-result">>)
    BY <1>1, <1>10, TellsOne
       DEF StreamSql, Sound, SavedAt, Behind, Events, Outcomes, OutcomePlaces
  <2>3. Moves(r, "sql_text", x.open, x.saved,
                 <<"sql-result">>, x.apply, x.failedLogs)
    BY <1>1, <1>10, <2>1, <2>2
       DEF StreamSql, Moves, Request, Parts, Ops, Sound, SavedAt, OpenAt,
           AnalysisPlaces, Closing, OverridePlaces, Ended
  <2> QED
    BY <2>3, MoveStep, Zenon
<1>11. CASE SaveSqlAnswer(r)
  <2>1. req' = [req EXCEPT ![r] =
           After(x, "check", x.open \ {"sql"}, x.saved \union {"answer"},
                 <<>>, x.apply, x.failedLogs)]
    BY <1>1, <1>2, <1>11 DEF SaveSqlAnswer, Request, After
  <2>2. Tells("check", x.saved \union {"answer"}, <<>>)
    BY <1>1, <1>11, TellsNothing
  <2>3. Moves(r, "check", x.open \ {"sql"}, x.saved \union {"answer"},
                 <<>>, x.apply, x.failedLogs)
    BY <1>1, <1>11, <2>1, <2>2
       DEF SaveSqlAnswer, Moves, Request, Parts, Ops, Sound, SavedAt, OpenAt,
           AnalysisPlaces, Closing, OverridePlaces, Ended
  <2> QED
    BY <2>3, MoveStep, Zenon
<1>12. CASE ApplyOverride(r)
  <2>1. req' = [req EXCEPT ![r] =
           After(x, "check", x.open, x.saved \union {"answer"},
                 <<"sql-result">>, "flushed", x.failedLogs)]
    BY <1>1, <1>2, <1>12 DEF ApplyOverride, Request, After
  <2>2. Tells("check", x.saved \union {"answer"}, <<"sql-result">>)
    BY <1>1, <1>12, TellsOne
       DEF ApplyOverride, Sound, SavedAt, Behind, Events, Outcomes,
           OutcomePlaces
  <2>3. Moves(r, "check", x.open, x.saved \union {"answer"},
                 <<"sql-result">>, "flushed", x.failedLogs)
    BY <1>1, <1>12, <2>1, <2>2
       DEF ApplyOverride, Moves, Request, Parts, Ops, Sound, SavedAt, OpenAt,
           AnalysisPlaces, Closing, OverridePlaces, Ended
  <2> QED
    BY <2>3, MoveStep, Zenon
<1>13. CASE OpenPermissions(r)
  <2>1. req' = [req EXCEPT ![r] =
           After(x, "permissions", x.open \union {"permissions"}, x.saved,
                 <<>>, Committed(x.apply), x.failedLogs)]
    BY <1>1, <1>2, <1>13 DEF OpenPermissions, Request, After
  <2>2. Tells("permissions", x.saved, <<>>)
    BY <1>1, <1>13, TellsNothing
  <2>3. Moves(r, "permissions", x.open \union {"permissions"}, x.saved,
                 <<>>, Committed(x.apply), x.failedLogs)
    BY <1>1, <1>13, <2>1, <2>2
       DEF OpenPermissions, Moves, Committed, Request, Parts, Ops, Sound,
           SavedAt, OpenAt, AnalysisPlaces, Closing, OverridePlaces, Ended
  <2> QED
    BY <2>3, MoveStep, Zenon
<1>14. CASE SaveSql(r)
  <2>1. req' = [req EXCEPT ![r] =
           After(x, "execute", x.open \ {"permissions"}, x.saved \union {"sql"},
                 <<"sql">>, Committed(x.apply), x.failedLogs)]
    BY <1>1, <1>2, <1>14 DEF SaveSql, Request, After
  <2>2. Tells("execute", x.saved \union {"sql"}, <<"sql">>)
    BY <1>1, <1>14, TellsOne
       DEF SaveSql, Sound, SavedAt, Behind, Events, Outcomes, OutcomePlaces
  <2>3. Moves(r, "execute", x.open \ {"permissions"}, x.saved \union {"sql"},
                 <<"sql">>, Committed(x.apply), x.failedLogs)
    BY <1>1, <1>14, <2>1, <2>2
       DEF SaveSql, Moves, Committed, Request, Parts, Ops, Sound, SavedAt,
           OpenAt, AnalysisPlaces, Closing, OverridePlaces, Ended
  <2> QED
    BY <2>3, MoveStep, Zenon
<1>15. CASE OpenExecute(r)
  <2>1. req' = [req EXCEPT ![r] =
           After(x, "executing", x.open \union {"execute"}, x.saved,
                 <<>>, x.apply, x.failedLogs)]
    BY <1>1, <1>2, <1>15 DEF OpenExecute, Request, After
  <2>2. Tells("executing", x.saved, <<>>)
    BY <1>1, <1>15, TellsNothing
  <2>3. Moves(r, "executing", x.open \union {"execute"}, x.saved,
                 <<>>, x.apply, x.failedLogs)
    BY <1>1, <1>15, <2>1, <2>2
       DEF OpenExecute, Moves, Request, Parts, Ops, Sound, SavedAt, OpenAt,
           AnalysisPlaces, Closing, OverridePlaces, Ended
  <2> QED
    BY <2>3, MoveStep, Zenon
<1>16. CASE SaveData(r)
  <2>1. req' = [req EXCEPT ![r] =
           After(x, "draw", x.open \ {"execute"}, x.saved \union {"data"},
                 <<"sql-data">>, x.apply, x.failedLogs)]
    BY <1>1, <1>2, <1>16 DEF SaveData, Request, After
  <2>2. Tells("draw", x.saved \union {"data"}, <<"sql-data">>)
    BY <1>1, <1>16, TellsOne
       DEF SaveData, Sound, SavedAt, Behind, Events, Outcomes, OutcomePlaces
  <2>3. Moves(r, "draw", x.open \ {"execute"}, x.saved \union {"data"},
                 <<"sql-data">>, x.apply, x.failedLogs)
    BY <1>1, <1>16, <2>1, <2>2
       DEF SaveData, Moves, Request, Parts, Ops, Sound, SavedAt, OpenAt,
           AnalysisPlaces, Closing, OverridePlaces, Ended
  <2> QED
    BY <2>3, MoveStep, Zenon
<1>17. CASE OpenChart(r)
  <2>1. req' = [req EXCEPT ![r] =
           After(x, "chart_model", x.open \union {"chart"}, x.saved,
                 <<>>, x.apply, x.failedLogs)]
    BY <1>1, <1>2, <1>17 DEF OpenChart, Request, After
  <2>2. Tells("chart_model", x.saved, <<>>)
    BY <1>1, <1>17, TellsNothing
  <2>3. Moves(r, "chart_model", x.open \union {"chart"}, x.saved,
                 <<>>, x.apply, x.failedLogs)
    BY <1>1, <1>17, <2>1, <2>2
       DEF OpenChart, Moves, Request, Parts, Ops, Sound, SavedAt, OpenAt,
           AnalysisPlaces, Closing, OverridePlaces, Ended
  <2> QED
    BY <2>3, MoveStep, Zenon
<1>18. CASE StreamChart(r)
  <2>1. req' = [req EXCEPT ![r] =
           After(x, "chart_text", x.open, x.saved,
                 <<"chart-result">>, x.apply, x.failedLogs)]
    BY <1>1, <1>2, <1>18 DEF StreamChart, Request, After
  <2>2. Tells("chart_text", x.saved, <<"chart-result">>)
    BY <1>1, <1>18, TellsOne
       DEF StreamChart, Sound, SavedAt, Behind, Events, Outcomes, OutcomePlaces
  <2>3. Moves(r, "chart_text", x.open, x.saved,
                 <<"chart-result">>, x.apply, x.failedLogs)
    BY <1>1, <1>18, <2>1, <2>2
       DEF StreamChart, Moves, Request, Parts, Ops, Sound, SavedAt, OpenAt,
           AnalysisPlaces, Closing, OverridePlaces, Ended
  <2> QED
    BY <2>3, MoveStep, Zenon
<1>19. CASE SaveChartAnswer(r)
  <2>1. req' = [req EXCEPT ![r] =
           After(x, "check_chart", x.open \ {"chart"}, x.saved \union {"chart_answer"},
                 <<>>, x.apply, x.failedLogs)]
    BY <1>1, <1>2, <1>19 DEF SaveChartAnswer, Request, After
  <2>2. Tells("check_chart", x.saved \union {"chart_answer"}, <<>>)
    BY <1>1, <1>19, TellsNothing
  <2>3. Moves(r, "check_chart", x.open \ {"chart"}, x.saved \union {"chart_answer"},
                 <<>>, x.apply, x.failedLogs)
    BY <1>1, <1>19, <2>1, <2>2
       DEF SaveChartAnswer, Moves, Request, Parts, Ops, Sound, SavedAt, OpenAt,
           AnalysisPlaces, Closing, OverridePlaces, Ended
  <2> QED
    BY <2>3, MoveStep, Zenon
<1>20. CASE SaveChart(r)
  <2>1. req' = [req EXCEPT ![r] =
           After(x, "finally", x.open, x.saved \union {"chart"},
                 <<"chart", "finish">>, x.apply, x.failedLogs)]
    BY <1>1, <1>2, <1>20 DEF SaveChart, Request, After
  <2>2. Tells("finally", x.saved \union {"chart"}, <<"chart", "finish">>)
    BY <1>1, <1>20, TellsTwo
       DEF SaveChart, Sound, SavedAt, Behind, Events, Outcomes, OutcomePlaces
  <2>3. Moves(r, "finally", x.open, x.saved \union {"chart"},
                 <<"chart", "finish">>, x.apply, x.failedLogs)
    BY <1>1, <1>20, <2>1, <2>2
       DEF SaveChart, Moves, Request, Parts, Ops, Sound, SavedAt, OpenAt,
           AnalysisPlaces, Closing, OverridePlaces, Ended
  <2> QED
    BY <2>3, MoveStep, Zenon
<1>21. CASE AnnounceAnalysis(r)
  <2>1. req' = [req EXCEPT ![r] =
           After(x, "load", x.open, x.saved,
                 <<"id">>, x.apply, x.failedLogs)]
    BY <1>1, <1>2, <1>21 DEF AnnounceAnalysis, Request, After
  <2>2. Tells("load", x.saved, <<"id">>)
    BY <1>1, <1>21, TellsOne
       DEF AnnounceAnalysis, Sound, SavedAt, Behind, Events, Outcomes,
           OutcomePlaces
  <2>3. Moves(r, "load", x.open, x.saved,
                 <<"id">>, x.apply, x.failedLogs)
    BY <1>1, <1>21, <2>1, <2>2
       DEF AnnounceAnalysis, Moves, Request, Parts, Ops, Sound, SavedAt, OpenAt,
           AnalysisPlaces, Closing, OverridePlaces, Ended
  <2> QED
    BY <2>3, MoveStep, Zenon
<1>22. CASE StreamAnalysis(r)
  <2>1. req' = [req EXCEPT ![r] =
           After(x, "analysis_text", x.open, x.saved,
                 <<"analysis-result">>, x.apply, x.failedLogs)]
    BY <1>1, <1>2, <1>22 DEF StreamAnalysis, Request, After
  <2>2. Tells("analysis_text", x.saved, <<"analysis-result">>)
    BY <1>1, <1>22, TellsOne
       DEF StreamAnalysis, Sound, SavedAt, Behind, Events, Outcomes,
           OutcomePlaces
  <2>3. Moves(r, "analysis_text", x.open, x.saved,
                 <<"analysis-result">>, x.apply, x.failedLogs)
    BY <1>1, <1>22, <2>1, <2>2
       DEF StreamAnalysis, Moves, Request, Parts, Ops, Sound, SavedAt, OpenAt,
           AnalysisPlaces, Closing, OverridePlaces, Ended
  <2> QED
    BY <2>3, MoveStep, Zenon
<1>23. CASE SaveAnalysis(r)
  <2>1. req' = [req EXCEPT ![r] =
           After(x, "conclude", x.open \ {"analysis"}, x.saved \union {"analysis"},
                 <<"analysis_finish">>, x.apply, x.failedLogs)]
    BY <1>1, <1>2, <1>23 DEF SaveAnalysis, Request, After
  <2>2. Tells("conclude", x.saved \union {"analysis"}, <<"analysis_finish">>)
    BY <1>1, <1>23, TellsOne
       DEF SaveAnalysis, Sound, SavedAt, Behind, Events, Outcomes, OutcomePlaces
  <2>3. Moves(r, "conclude", x.open \ {"analysis"}, x.saved \union {"analysis"},
                 <<"analysis_finish">>, x.apply, x.failedLogs)
    BY <1>1, <1>23, <2>1, <2>2
       DEF SaveAnalysis, Moves, Request, Parts, Ops, Sound, SavedAt, OpenAt,
           AnalysisPlaces, Closing, OverridePlaces, Ended
  <2> QED
    BY <2>3, MoveStep, Zenon
<1>24. CASE StreamPredict(r)
  <2>1. req' = [req EXCEPT ![r] =
           After(x, "predict_text", x.open, x.saved,
                 <<"predict-result">>, x.apply, x.failedLogs)]
    BY <1>1, <1>2, <1>24 DEF StreamPredict, Request, After
  <2>2. Tells("predict_text", x.saved, <<"predict-result">>)
    BY <1>1, <1>24, TellsOne
       DEF StreamPredict, Sound, SavedAt, Behind, Events, Outcomes,
           OutcomePlaces
  <2>3. Moves(r, "predict_text", x.open, x.saved,
                 <<"predict-result">>, x.apply, x.failedLogs)
    BY <1>1, <1>24, <2>1, <2>2
       DEF StreamPredict, Moves, Request, Parts, Ops, Sound, SavedAt, OpenAt,
           AnalysisPlaces, Closing, OverridePlaces, Ended
  <2> QED
    BY <2>3, MoveStep, Zenon
<1>25. CASE SavePredict(r)
  <2>1. req' = [req EXCEPT ![r] =
           After(x, "predict_data", x.open \ {"predict"}, x.saved \union {"predict"},
                 <<>>, x.apply, x.failedLogs)]
    BY <1>1, <1>2, <1>25 DEF SavePredict, Request, After
  <2>2. Tells("predict_data", x.saved \union {"predict"}, <<>>)
    BY <1>1, <1>25, TellsNothing
  <2>3. Moves(r, "predict_data", x.open \ {"predict"}, x.saved \union {"predict"},
                 <<>>, x.apply, x.failedLogs)
    BY <1>1, <1>25, <2>1, <2>2
       DEF SavePredict, Moves, Request, Parts, Ops, Sound, SavedAt, OpenAt,
           AnalysisPlaces, Closing, OverridePlaces, Ended
  <2> QED
    BY <2>3, MoveStep, Zenon
<1>26. CASE Raise(r)
  <2>1. req' = [req EXCEPT ![r] =
           After(x, "failed", x.open, x.saved,
                 <<>>, x.apply, x.failedLogs)]
    BY <1>1, <1>2, <1>26 DEF Raise, Request, After
  <2>2. Tells("failed", x.saved, <<>>)
    BY <1>1, <1>26, TellsNothing
  <2>3. Moves(r, "failed", x.open, x.saved,
                 <<>>, x.apply, x.failedLogs)
    BY <1>1, <1>26, <2>1, <2>2
       DEF Raise, Moves, Request, Parts, Ops, Sound, SavedAt, OpenAt,
           AnalysisPlaces, Closing, OverridePlaces, Ended
  <2> QED
    BY <2>3, MoveStep, Zenon
<1>27. CASE Clarify(r)
  <2>1. ASSUME req' = [req EXCEPT ![r].place = "finally",
                               ![r].chunks = @ \o <<"clarification">>]
        PROVE  IInv'
    <3>1. req' = [req EXCEPT ![r] =
             After(x, "finally", x.open, x.saved,
                   <<"clarification">>, x.apply, x.failedLogs)]
      BY <1>1, <1>2, <1>27, <2>1 DEF Clarify, Request, After
    <3>2. Tells("finally", x.saved, <<"clarification">>)
      BY <1>1, <1>27, <2>1, TellsOne
         DEF Clarify, Sound, SavedAt, Behind, Events, Outcomes, OutcomePlaces
    <3>3. Moves(r, "finally", x.open, x.saved,
                   <<"clarification">>, x.apply, x.failedLogs)
      BY <1>1, <1>27, <2>1, <3>1, <3>2
         DEF Clarify, Moves, Request, Parts, Ops, Sound, SavedAt, OpenAt,
             AnalysisPlaces, Closing, OverridePlaces, Ended
    <3> QED
      BY <3>3, MoveStep, Zenon
  <2>2. ASSUME req' = [req EXCEPT ![r].place = "generate"]
        PROVE  IInv'
    <3>1. req' = [req EXCEPT ![r] =
             After(x, "generate", x.open, x.saved,
                   <<>>, x.apply, x.failedLogs)]
      BY <1>1, <1>2, <1>27, <2>2 DEF Clarify, Request, After
    <3>2. Tells("generate", x.saved, <<>>)
      BY <1>1, <1>27, <2>2, TellsNothing
    <3>3. Moves(r, "generate", x.open, x.saved,
                   <<>>, x.apply, x.failedLogs)
      BY <1>1, <1>27, <2>2, <3>1, <3>2
         DEF Clarify, Moves, Request, Parts, Ops, Sound, SavedAt, OpenAt,
             AnalysisPlaces, Closing, OverridePlaces, Ended
    <3> QED
      BY <3>3, MoveStep, Zenon
  <2> QED
    BY <1>27, <2>1, <2>2 DEF Clarify
<1>28. CASE RejectSql(r)
  <2>1. ASSUME x.place = "check"
        PROVE  IInv'
    <3>1. req' = [req EXCEPT ![r] =
             After(x, "failed", x.open \ {"permissions"}, x.saved,
                   <<>>, Committed(x.apply), x.failedLogs \union {"sql"})]
      BY <1>1, <1>2, <1>28, <2>1 DEF RejectSql, Request, After
    <3>2. Tells("failed", x.saved, <<>>)
      BY <1>1, <1>28, <2>1, TellsNothing
    <3>3. Moves(r, "failed", x.open \ {"permissions"}, x.saved,
                   <<>>, Committed(x.apply), x.failedLogs \union {"sql"})
      BY <1>1, <1>28, <2>1, <3>1, <3>2
         DEF RejectSql, Moves, Committed, Request, Parts, Ops, Sound, SavedAt,
             OpenAt, AnalysisPlaces, Closing, OverridePlaces, Ended
    <3> QED
      BY <3>3, MoveStep, Zenon
  <2>2. ASSUME x.place = "permissions"
        PROVE  IInv'
    <3>1. req' = [req EXCEPT ![r] =
             After(x, "failed", x.open \ {"permissions"}, x.saved,
                   <<>>, Committed(x.apply), x.failedLogs \union {"permissions"})]
      BY <1>1, <1>2, <1>28, <2>2 DEF RejectSql, Request, After
    <3>2. Tells("failed", x.saved, <<>>)
      BY <1>1, <1>28, <2>2, TellsNothing
    <3>3. Moves(r, "failed", x.open \ {"permissions"}, x.saved,
                   <<>>, Committed(x.apply), x.failedLogs \union {"permissions"})
      BY <1>1, <1>28, <2>2, <3>1, <3>2
         DEF RejectSql, Moves, Committed, Request, Parts, Ops, Sound, SavedAt,
             OpenAt, AnalysisPlaces, Closing, OverridePlaces, Ended
    <3> QED
      BY <3>3, MoveStep, Zenon
  <2> QED
    BY <1>28, <2>1, <2>2 DEF RejectSql
<1>29. CASE OpenAnalysis(r)
  <2>1. ASSUME x.kind = "analysis"
        PROVE  IInv'
    <3>1. req' = [req EXCEPT ![r] =
             After(x, "analysis_model", x.open \union {"analysis"}, x.saved,
                   <<>>, x.apply, x.failedLogs)]
      BY <1>1, <1>2, <1>29, <2>1 DEF OpenAnalysis, Request, After
    <3>2. Tells("analysis_model", x.saved, <<>>)
      BY <1>1, <1>29, <2>1, TellsNothing
    <3>3. Moves(r, "analysis_model", x.open \union {"analysis"}, x.saved,
                   <<>>, x.apply, x.failedLogs)
      BY <1>1, <1>29, <2>1, <3>1, <3>2
         DEF OpenAnalysis, Moves, Request, Parts, Ops, Sound, SavedAt, OpenAt,
             AnalysisPlaces, Closing, OverridePlaces, Ended
    <3> QED
      BY <3>3, MoveStep, Zenon
  <2>2. ASSUME x.kind = "predict"
        PROVE  IInv'
    <3>1. req' = [req EXCEPT ![r] =
             After(x, "predict_model", x.open \union {"predict"}, x.saved,
                   <<>>, x.apply, x.failedLogs)]
      BY <1>1, <1>2, <1>29, <2>2 DEF OpenAnalysis, Request, After
    <3>2. Tells("predict_model", x.saved, <<>>)
      BY <1>1, <1>29, <2>2, TellsNothing
    <3>3. Moves(r, "predict_model", x.open \union {"predict"}, x.saved,
                   <<>>, x.apply, x.failedLogs)
      BY <1>1, <1>29, <2>2, <3>1, <3>2
         DEF OpenAnalysis, Moves, Request, Parts, Ops, Sound, SavedAt, OpenAt,
             AnalysisPlaces, Closing, OverridePlaces, Ended
    <3> QED
      BY <3>3, MoveStep, Zenon
  <2>3. x.kind \in {"analysis", "predict"}
    BY <1>1, <1>29 DEF OpenAnalysis, Sound, AnalysisPlaces
  <2> QED
    BY <2>1, <2>2, <2>3
<1>30. CASE SavePredictData(r)
  <2>1. ASSUME req' = [req EXCEPT ![r].place = "conclude",
                               ![r].saved = @ \union {"predict_data"},
                               ![r].chunks = @ \o <<"predict-success", "predict_finish">>]
        PROVE  IInv'
    <3>1. req' = [req EXCEPT ![r] =
             After(x, "conclude", x.open, x.saved \union {"predict_data"},
                   <<"predict-success", "predict_finish">>, x.apply, x.failedLogs)]
      BY <1>1, <1>2, <2>1 DEF Request, After
    <3>2. Tells("conclude", x.saved \union {"predict_data"},
               <<"predict-success", "predict_finish">>)
      BY <1>1, <1>30, <2>1, TellsTwo
         DEF SavePredictData, Sound, SavedAt, Behind, Events, Outcomes,
             OutcomePlaces
    <3>3. Moves(r, "conclude", x.open, x.saved \union {"predict_data"},
                   <<"predict-success", "predict_finish">>, x.apply, x.failedLogs)
      BY <1>1, <1>30, <2>1, <3>1, <3>2
         DEF SavePredictData, Moves, Request, Parts, Ops, Sound, SavedAt,
             OpenAt, AnalysisPlaces, Closing, OverridePlaces, Ended
    <3> QED
      BY <3>3, MoveStep, Zenon
  <2>2. ASSUME req' = [req EXCEPT ![r].place = "conclude",
                               ![r].saved = @,
                               ![r].chunks = @ \o <<"predict-failed", "predict_finish">>]
        PROVE  IInv'
    <3>1. req' = [req EXCEPT ![r] =
             After(x, "conclude", x.open, x.saved,
                   <<"predict-failed", "predict_finish">>, x.apply, x.failedLogs)]
      BY <1>1, <1>2, <2>2 DEF Request, After
    <3>2. Tells("conclude", x.saved, <<"predict-failed", "predict_finish">>)
      BY <1>1, <1>30, <2>2, TellsTwo
         DEF SavePredictData, Sound, SavedAt, Behind, Events, Outcomes,
             OutcomePlaces
    <3>3. Moves(r, "conclude", x.open, x.saved,
                   <<"predict-failed", "predict_finish">>, x.apply, x.failedLogs)
      BY <1>1, <1>30, <2>2, <3>1, <3>2
         DEF SavePredictData, Moves, Request, Parts, Ops, Sound, SavedAt,
             OpenAt, AnalysisPlaces, Closing, OverridePlaces, Ended
    <3> QED
      BY <3>3, MoveStep, Zenon
  <2> QED
    BY <1>30, <2>1, <2>2 DEF SavePredictData
<1> QED
  BY <1>3, <1>4, <1>5, <1>6, <1>7, <1>8, <1>9, <1>10, <1>11, <1>12, <1>13,
     <1>14, <1>15, <1>16, <1>17, <1>18, <1>19, <1>20, <1>21, <1>22, <1>23,
     <1>24, <1>25, <1>26, <1>27, <1>28, <1>29, <1>30
     DEF Answer

\* The steps that end a task.
LEMMA EndStep ==
    ASSUME IInv, NEW r \in Requests,
           FinishAnalysis(r) \/ SaveError(r) \/ CloseLogs(r) \/ Finally(r) \/ Cleanup(r)
    PROVE  IInv'
<1> DEFINE x == req[r]
<1> USE DEF At, Healthy
<1>1. /\ x \in Request /\ Sound(x) /\ Told(x) /\ OnThread(x, session)
      /\ req \in [Requests -> Request] /\ faults \in 0..MaxFaults
      /\ session \in [Threads -> {"none", "ok", "broken"}]
  BY DEF IInv, TypeOK
<1>2. NoThread \notin Threads /\ MaxFaults \in Nat
  BY ThreadAssumption, FaultAssumption
<1>3. x.thread # NoThread =>
         \A q \in Requests \ {r} : req[q].thread # x.thread
  BY DEF IInv, Alone
<1>4. CASE FinishAnalysis(r)
  <2> DEFINE y == [x EXCEPT !.place = "cleanup", !.finish = TRUE]
  <2>1. y \in Request
    BY <1>1, <1>4
       DEF FinishAnalysis, Request, Places, Working, DbPlaces, OtherPlaces,
           Closing, OverridePlaces, Ended
  <2>2. /\ y.place = "cleanup" /\ y.finish = TRUE /\ y.kind = x.kind
       /\ y.thread = x.thread /\ y.saved = x.saved /\ y.error = x.error
       /\ y.open = x.open /\ y.failedLogs = x.failedLogs /\ y.apply = x.apply
       /\ y.chunks = x.chunks /\ y.got = x.got /\ y.stream = x.stream
       /\ y.hit = x.hit
    BY <1>1 DEF Request
  <2>3. req' = [req EXCEPT ![r] = y]
    BY <1>1, <1>4 DEF FinishAnalysis, Request
  <2> HIDE DEF y
  <2>4. Sound(y)
    BY <1>1, <1>4, <2>2
       DEF FinishAnalysis, Sound, SettledPlaces, AnalysisPlaces, SavedAt,
           OpenAt, Working, DbPlaces, OtherPlaces, OverridePlaces, Ended
  <2>5. Told(y)
    <3>1. Said(y) = Said(x)
      BY <2>2 DEF Said
    <3>2. /\ x.saved \subseteq y.saved
          /\ x.error /\ x.open = {} => y.error /\ y.open = {}
          /\ y.error => x.error
          /\ x.place \in OutcomePlaces => y.place \in OutcomePlaces
          /\ y.place \in ToldPlaces /\ ~y.hit /\ y.stream # "left" =>
                x.place \in ToldPlaces /\ ~x.hit /\ x.stream # "left"
      BY <1>1, <1>4, <2>2
         DEF FinishAnalysis, OutcomePlaces, ToldPlaces, Sound, SettledPlaces,
             AnalysisPlaces, SavedAt, OpenAt, Working, DbPlaces, OtherPlaces,
             OverridePlaces, Ended
    <3> QED
      BY <1>1, <2>1, <3>1, <3>2, KeepTold, Zenon
  <2>6. OnThread(y, session')
    BY <1>1, <1>2, <1>4, <2>2
       DEF FinishAnalysis, OnThread, OnThreadPlaces, Closing, Working, DbPlaces,
           OtherPlaces, OverridePlaces, Ended, Said
  <2>7. /\ session' \in [Threads -> {"none", "ok", "broken"}]
        /\ faults' \in 0..MaxFaults
        /\ \A t \in Threads : session'[t] # session[t] =>
             \A q \in Requests \ {r} : req[q].thread # t
    BY <1>1, <1>2, <1>3, <1>4 DEF FinishAnalysis, Quiet
  <2>8. y.thread # NoThread => \A q \in Requests \ {r} : req[q].thread # y.thread
    BY <1>3, <1>4, <2>2 DEF FinishAnalysis
  <2> QED
    BY <2>1, <2>3, <2>4, <2>5, <2>6, <2>7, <2>8, Step, Zenon
<1>5. CASE SaveError(r)
  <2> DEFINE y == [x EXCEPT !.place = "close_logs",
                             !.error = TRUE,
                             !.apply = Committed(x.apply),
                             !.finish = TRUE]
  <2>1. y \in Request
    BY <1>1, <1>5
       DEF SaveError, Request, Places, Working, DbPlaces, OtherPlaces, Closing,
           OverridePlaces, Ended, Committed
  <2>2. /\ y.place = "close_logs" /\ y.finish = TRUE /\ y.error = TRUE
       /\ y.apply = Committed(x.apply) /\ y.kind = x.kind
       /\ y.thread = x.thread /\ y.saved = x.saved /\ y.open = x.open
       /\ y.failedLogs = x.failedLogs /\ y.chunks = x.chunks /\ y.got = x.got
       /\ y.stream = x.stream /\ y.hit = x.hit
    BY <1>1 DEF Request
  <2>3. req' = [req EXCEPT ![r] = y]
    BY <1>1, <1>5 DEF SaveError, Request
  <2> HIDE DEF y
  <2>4. Sound(y)
    BY <1>1, <1>5, <2>2
       DEF SaveError, Sound, SettledPlaces, AnalysisPlaces, SavedAt, OpenAt,
           Working, DbPlaces, OtherPlaces, OverridePlaces, Ended
  <2>5. Told(y)
    <3>1. Said(y) = Said(x) /\ Silent(x)
      BY <1>1, <1>5, <2>2, FailedSilent DEF SaveError, Said
    <3>2. /\ x.saved \subseteq y.saved /\ y.error /\ y.open = x.open
          /\ y.place \notin ToldPlaces
      BY <2>2 DEF ToldPlaces
    <3>3. x.error = FALSE
      BY <1>1, <1>5 DEF SaveError, Sound, SettledPlaces, Request
    <3> QED
      BY <1>1, <2>1, <3>1, <3>2, <3>3, KeepTold, Zenon
  <2>6. OnThread(y, session')
    BY <1>1, <1>2, <1>5, <2>2
       DEF SaveError, OnThread, OnThreadPlaces, Closing, Working, DbPlaces,
           OtherPlaces, OverridePlaces, Ended
  <2>7. /\ session' \in [Threads -> {"none", "ok", "broken"}]
        /\ faults' \in 0..MaxFaults
        /\ \A t \in Threads : session'[t] # session[t] =>
             \A q \in Requests \ {r} : req[q].thread # t
    BY <1>1, <1>2, <1>3, <1>5 DEF SaveError, Quiet
  <2>8. y.thread # NoThread => \A q \in Requests \ {r} : req[q].thread # y.thread
    BY <1>3, <1>5, <2>2 DEF SaveError
  <2> QED
    BY <2>1, <2>3, <2>4, <2>5, <2>6, <2>7, <2>8, Step, Zenon
<1>6. CASE CloseLogs(r)
  <2> DEFINE p == IF x.kind = "question" THEN "finally" ELSE "cleanup"
  <2> DEFINE y == [x EXCEPT !.place = p,
                             !.failedLogs = x.failedLogs \union x.open,
                             !.open = {},
                             !.chunks = x.chunks \o <<"error">>]
  <2>10. x.chunks \o <<"error">> \in Seq(Events)
    <3>1. <<"error">> \in Seq(Events)
      BY DEF Events
    <3>2. x.chunks \in Seq(Events)
      BY <1>1, SaidType
    <3> QED
      BY <3>1, <3>2, ConcatProperties, Zenon
  <2>11. p \in {"finally", "cleanup"}
    OBVIOUS
  <2>12. req' = [req EXCEPT ![r] = y]
    BY <1>1, <1>6 DEF CloseLogs, Request
  <2> HIDE DEF p
  <2>1. y \in Request
    BY <1>1, <1>6, <2>10, <2>11
       DEF CloseLogs, Request, Places, Working, DbPlaces, OtherPlaces, Closing,
           OverridePlaces, Ended
  <2>2. /\ y.place = p /\ y.open = {}
       /\ y.failedLogs = x.failedLogs \union x.open
       /\ y.chunks = x.chunks \o <<"error">> /\ y.kind = x.kind
       /\ y.thread = x.thread /\ y.saved = x.saved /\ y.finish = x.finish
       /\ y.error = x.error /\ y.apply = x.apply /\ y.got = x.got
       /\ y.stream = x.stream /\ y.hit = x.hit
    BY <1>1 DEF Request
  <2> HIDE DEF y
  <2>4. Sound(y)
    BY <1>1, <1>6, <2>2, <2>11
       DEF CloseLogs, Sound, SettledPlaces, AnalysisPlaces, SavedAt, OpenAt,
           Working, DbPlaces, OtherPlaces, OverridePlaces, Ended
  <2>5. Told(y)
    <3>1. Silent(x)
      BY <1>1, <1>6, StillSilent DEF CloseLogs, OutcomePlaces
    <3>2. /\ <<"error">> \in Seq(Events) /\ Len(<<"error">>) = 1
          /\ <<"error">>[1] = "error" /\ "error" \in Outcomes
      BY DEF Events, Outcomes
    <3>3. Behind("error") = {}
      BY DEF Behind
    <3>4. x.error
      BY <1>1, <1>6 DEF CloseLogs, Sound
    <3>5. y.place \in OutcomePlaces /\ x.saved \subseteq y.saved /\ y.error /\ y.open = {}
      BY <2>2, <2>11, <3>4 DEF OutcomePlaces
    <3> DEFINE evs == <<"error">>
    <3>6. \A j \in 1..Len(evs) :
             /\ Behind(evs[j]) \subseteq y.saved
             /\ evs[j] = "error" => y.error /\ y.open = {}
             /\ evs[j] \in Outcomes => /\ j = Len(evs)
                                       /\ y.error => evs[j] = "error"
                                       /\ y.place \in OutcomePlaces
      BY <3>2, <3>3, <3>5
    <3>7. Len(evs) # 0 /\ evs[Len(evs)] \in Outcomes
      BY <3>2
    <3> QED
      BY <1>1, <2>1, <2>2, <3>1, <3>2, <3>5, <3>6, <3>7, PublishTold, Zenon
  <2>6. OnThread(y, session')
    BY <1>1, <1>2, <1>6, <2>2, <2>11
       DEF CloseLogs, OnThread, OnThreadPlaces, Closing, Working, DbPlaces,
           OtherPlaces, OverridePlaces, Ended
  <2>7. /\ session' \in [Threads -> {"none", "ok", "broken"}]
        /\ faults' \in 0..MaxFaults
        /\ \A t \in Threads : session'[t] # session[t] =>
             \A q \in Requests \ {r} : req[q].thread # t
    BY <1>1, <1>2, <1>3, <1>6 DEF CloseLogs, Quiet
  <2>8. y.thread # NoThread => \A q \in Requests \ {r} : req[q].thread # y.thread
    BY <1>3, <1>6, <2>2 DEF CloseLogs
  <2> QED
    BY <2>1, <2>12, <2>4, <2>5, <2>6, <2>7, <2>8, Step, Zenon
<1>7. CASE Finally(r)
  <2> DEFINE y == [x EXCEPT !.place = "done", !.finish = TRUE, !.thread = NoThread]
  <2>1. y \in Request
    BY <1>1, <1>7
       DEF Finally, Request, Places, Working, DbPlaces, OtherPlaces, Closing,
           OverridePlaces, Ended
  <2>2. /\ y.place = "done" /\ y.thread = NoThread /\ y.finish = TRUE
       /\ y.kind = x.kind /\ y.saved = x.saved /\ y.error = x.error
       /\ y.open = x.open /\ y.failedLogs = x.failedLogs /\ y.apply = x.apply
       /\ y.chunks = x.chunks /\ y.got = x.got /\ y.stream = x.stream
       /\ y.hit = x.hit
    BY <1>1 DEF Request
  <2>3. req' = [req EXCEPT ![r] = y]
    BY <1>1, <1>7 DEF Finally, Request
  <2> HIDE DEF y
  <2>4. Sound(y)
    BY <1>1, <1>7, <2>2
       DEF Finally, Sound, SettledPlaces, AnalysisPlaces, SavedAt, OpenAt,
           Working, DbPlaces, OtherPlaces, OverridePlaces, Ended
  <2>5. Told(y)
    <3>1. Said(y) = Said(x)
      BY <2>2 DEF Said
    <3>2. /\ x.saved \subseteq y.saved
          /\ x.error /\ x.open = {} => y.error /\ y.open = {}
          /\ y.error => x.error
          /\ x.place \in OutcomePlaces => y.place \in OutcomePlaces
          /\ y.place \in ToldPlaces /\ ~y.hit /\ y.stream # "left" =>
                x.place \in ToldPlaces /\ ~x.hit /\ x.stream # "left"
      BY <1>1, <1>7, <2>2
         DEF Finally, OutcomePlaces, ToldPlaces, Sound, SettledPlaces,
             AnalysisPlaces, SavedAt, OpenAt, Working, DbPlaces, OtherPlaces,
             OverridePlaces, Ended
    <3> QED
      BY <1>1, <2>1, <3>1, <3>2, KeepTold, Zenon
  <2>6. OnThread(y, session')
    BY <1>1, <1>2, <1>7, <2>2
       DEF Finally, OnThread, OnThreadPlaces, Closing, Working, DbPlaces,
           OtherPlaces, OverridePlaces, Ended, Said
  <2>7. /\ session' \in [Threads -> {"none", "ok", "broken"}]
        /\ faults' \in 0..MaxFaults
        /\ \A t \in Threads : session'[t] # session[t] =>
             \A q \in Requests \ {r} : req[q].thread # t
    BY <1>1, <1>2, <1>3, <1>7 DEF Finally, Quiet
  <2>8. y.thread # NoThread => \A q \in Requests \ {r} : req[q].thread # y.thread
    BY <1>3, <1>7, <2>2 DEF Finally
  <2> QED
    BY <2>1, <2>3, <2>4, <2>5, <2>6, <2>7, <2>8, Step, Zenon
<1>8. CASE Cleanup(r)
  <2> DEFINE y == [x EXCEPT !.place = "done", !.thread = NoThread]
  <2>1. y \in Request
    BY <1>1, <1>8
       DEF Cleanup, Request, Places, Working, DbPlaces, OtherPlaces, Closing,
           OverridePlaces, Ended
  <2>2. /\ y.place = "done" /\ y.thread = NoThread /\ y.kind = x.kind
       /\ y.saved = x.saved /\ y.finish = x.finish /\ y.error = x.error
       /\ y.open = x.open /\ y.failedLogs = x.failedLogs /\ y.apply = x.apply
       /\ y.chunks = x.chunks /\ y.got = x.got /\ y.stream = x.stream
       /\ y.hit = x.hit
    BY <1>1 DEF Request
  <2>3. req' = [req EXCEPT ![r] = y]
    BY <1>1, <1>8 DEF Cleanup, Request
  <2> HIDE DEF y
  <2>4. Sound(y)
    BY <1>1, <1>8, <2>2
       DEF Cleanup, Sound, SettledPlaces, AnalysisPlaces, SavedAt, OpenAt,
           Working, DbPlaces, OtherPlaces, OverridePlaces, Ended
  <2>5. Told(y)
    <3>1. Said(y) = Said(x)
      BY <2>2 DEF Said
    <3>2. /\ x.saved \subseteq y.saved
          /\ x.error /\ x.open = {} => y.error /\ y.open = {}
          /\ y.error => x.error
          /\ x.place \in OutcomePlaces => y.place \in OutcomePlaces
          /\ y.place \in ToldPlaces /\ ~y.hit /\ y.stream # "left" =>
                x.place \in ToldPlaces /\ ~x.hit /\ x.stream # "left"
      BY <1>1, <1>8, <2>2
         DEF Cleanup, OutcomePlaces, ToldPlaces, Sound, SettledPlaces,
             AnalysisPlaces, SavedAt, OpenAt, Working, DbPlaces, OtherPlaces,
             OverridePlaces, Ended
    <3> QED
      BY <1>1, <2>1, <3>1, <3>2, KeepTold, Zenon
  <2>6. OnThread(y, session')
    BY <1>1, <1>2, <1>8, <2>2
       DEF Cleanup, OnThread, OnThreadPlaces, Closing, Working, DbPlaces,
           OtherPlaces, OverridePlaces, Ended, Said
  <2>7. /\ session' \in [Threads -> {"none", "ok", "broken"}]
        /\ faults' \in 0..MaxFaults
        /\ \A t \in Threads : session'[t] # session[t] =>
             \A q \in Requests \ {r} : req[q].thread # t
    BY <1>1, <1>2, <1>3, <1>8 DEF Cleanup, Quiet
  <2>8. y.thread # NoThread => \A q \in Requests \ {r} : req[q].thread # y.thread
    BY <1>3, <1>8, <2>2 DEF Cleanup
  <2> QED
    BY <2>1, <2>3, <2>4, <2>5, <2>6, <2>7, <2>8, Step, Zenon
<1> QED
  BY <1>4, <1>5, <1>6, <1>7, <1>8

\* A failing statement.
LEMMA FailStep ==
    ASSUME IInv, NEW r \in Requests, StatementFails(r)
    PROVE  IInv'
<1> DEFINE x == req[r]
<1> USE DEF At, Healthy
<1>1. /\ x \in Request /\ Sound(x) /\ Told(x) /\ OnThread(x, session)
      /\ req \in [Requests -> Request] /\ faults \in 0..MaxFaults
      /\ session \in [Threads -> {"none", "ok", "broken"}]
  BY DEF IInv, TypeOK
<1>2. NoThread \notin Threads /\ MaxFaults \in Nat
  BY ThreadAssumption, FaultAssumption
<1>3. x.thread # NoThread =>
         \A q \in Requests \ {r} : req[q].thread # x.thread
  BY DEF IInv, Alone
<1>4. /\ x.place \in DbPlaces \union {"failed", "close_logs", "finally"}
      /\ x.thread \in Threads
      /\ session' = [session EXCEPT ![x.thread] = "broken"]
      /\ faults' \in 0..MaxFaults
      /\ Lost(x.apply) \in {"none", "flushed", "applied", "error"}
  BY <1>1, <1>2
     DEF StatementFails, OnThread, OnThreadPlaces, Working, Closing, Lost,
         Request
<1>5. ASSUME x.place \in DbPlaces
      PROVE  IInv'
  <2> DEFINE y == [x EXCEPT !.place = "failed", !.hit = TRUE, !.apply = Lost(x.apply)]
  <2>1. y \in Request
    BY <1>1, <1>5, <1>4
       DEF DbPlaces, Request, Places, Working, DbPlaces, OtherPlaces, Closing,
           OverridePlaces, Ended
  <2>2. /\ y.place = "failed" /\ y.apply = Lost(x.apply) /\ y.hit = TRUE
       /\ y.kind = x.kind /\ y.thread = x.thread /\ y.saved = x.saved
       /\ y.finish = x.finish /\ y.error = x.error /\ y.open = x.open
       /\ y.failedLogs = x.failedLogs /\ y.chunks = x.chunks /\ y.got = x.got
       /\ y.stream = x.stream
    BY <1>1 DEF Request
  <2>3. req' = [req EXCEPT ![r] = y]
    BY <1>1, <1>5 DEF StatementFails, Request
  <2> HIDE DEF y
  <2>4. Sound(y)
    BY <1>1, <1>5, <2>2, <1>4
       DEF DbPlaces, Sound, SettledPlaces, AnalysisPlaces, SavedAt, OpenAt,
           Working, DbPlaces, OtherPlaces, OverridePlaces, Ended
  <2>5. Told(y)
    <3>1. Said(y) = Said(x)
      BY <2>2 DEF Said
    <3>2. /\ x.saved \subseteq y.saved
          /\ x.error /\ x.open = {} => y.error /\ y.open = {}
          /\ y.error => x.error
          /\ x.place \in OutcomePlaces => y.place \in OutcomePlaces
          /\ y.place \in ToldPlaces /\ ~y.hit /\ y.stream # "left" =>
                x.place \in ToldPlaces /\ ~x.hit /\ x.stream # "left"
      BY <1>1, <1>5, <2>2, <1>4
         DEF DbPlaces, OutcomePlaces, ToldPlaces, Sound, SettledPlaces,
             AnalysisPlaces, SavedAt, OpenAt, Working, DbPlaces, OtherPlaces,
             OverridePlaces, Ended
    <3> QED
      BY <1>1, <2>1, <3>1, <3>2, KeepTold, Zenon
  <2>6. OnThread(y, session')
    BY <1>1, <1>2, <1>5, <2>2, <1>4
       DEF DbPlaces, OnThread, OnThreadPlaces, Closing, Working, DbPlaces,
           OtherPlaces, OverridePlaces, Ended, Said
  <2>7. /\ session' \in [Threads -> {"none", "ok", "broken"}]
        /\ faults' \in 0..MaxFaults
        /\ \A t \in Threads : session'[t] # session[t] =>
             \A q \in Requests \ {r} : req[q].thread # t
    BY <1>1, <1>2, <1>3, <1>5, <1>4 DEF DbPlaces, Quiet
  <2>8. y.thread # NoThread => \A q \in Requests \ {r} : req[q].thread # y.thread
    BY <1>3, <1>5, <2>2 DEF DbPlaces
  <2> QED
    BY <2>1, <2>3, <2>4, <2>5, <2>6, <2>7, <2>8, Step, Zenon
<1>6. ASSUME x.place \notin DbPlaces, x.kind = "question"
      PROVE  IInv'
  <2> DEFINE y == [x EXCEPT !.place = "dead",
                             !.hit = TRUE,
                             !.apply = Lost(x.apply),
                             !.thread = NoThread]
  <2>1. y \in Request
    BY <1>1, <1>6, <1>4
       DEF DbPlaces, Request, Places, Working, DbPlaces, OtherPlaces, Closing,
           OverridePlaces, Ended
  <2>2. /\ y.place = "dead" /\ y.thread = NoThread /\ y.apply = Lost(x.apply)
       /\ y.hit = TRUE /\ y.kind = x.kind /\ y.saved = x.saved
       /\ y.finish = x.finish /\ y.error = x.error /\ y.open = x.open
       /\ y.failedLogs = x.failedLogs /\ y.chunks = x.chunks /\ y.got = x.got
       /\ y.stream = x.stream
    BY <1>1 DEF Request
  <2>3. req' = [req EXCEPT ![r] = y]
    BY <1>1, <1>6 DEF StatementFails, Request
  <2> HIDE DEF y
  <2>4. Sound(y)
    BY <1>1, <1>6, <2>2, <1>4
       DEF DbPlaces, Sound, SettledPlaces, AnalysisPlaces, SavedAt, OpenAt,
           Working, DbPlaces, OtherPlaces, OverridePlaces, Ended
  <2>5. Told(y)
    <3>1. Said(y) = Said(x)
      BY <2>2 DEF Said
    <3>2. /\ x.saved \subseteq y.saved
          /\ x.error /\ x.open = {} => y.error /\ y.open = {}
          /\ y.error => x.error
          /\ x.place \in OutcomePlaces => y.place \in OutcomePlaces
          /\ y.place \in ToldPlaces /\ ~y.hit /\ y.stream # "left" =>
                x.place \in ToldPlaces /\ ~x.hit /\ x.stream # "left"
      BY <1>1, <1>6, <2>2, <1>4
         DEF DbPlaces, OutcomePlaces, ToldPlaces, Sound, SettledPlaces,
             AnalysisPlaces, SavedAt, OpenAt, Working, DbPlaces, OtherPlaces,
             OverridePlaces, Ended
    <3> QED
      BY <1>1, <2>1, <3>1, <3>2, KeepTold, Zenon
  <2>6. OnThread(y, session')
    BY <1>1, <1>2, <1>6, <2>2, <1>4
       DEF DbPlaces, OnThread, OnThreadPlaces, Closing, Working, DbPlaces,
           OtherPlaces, OverridePlaces, Ended, Said
  <2>7. /\ session' \in [Threads -> {"none", "ok", "broken"}]
        /\ faults' \in 0..MaxFaults
        /\ \A t \in Threads : session'[t] # session[t] =>
             \A q \in Requests \ {r} : req[q].thread # t
    BY <1>1, <1>2, <1>3, <1>6, <1>4 DEF DbPlaces, Quiet
  <2>8. y.thread # NoThread => \A q \in Requests \ {r} : req[q].thread # y.thread
    BY <1>3, <1>6, <2>2 DEF DbPlaces
  <2> QED
    BY <2>1, <2>3, <2>4, <2>5, <2>6, <2>7, <2>8, Step, Zenon
<1>7. ASSUME x.place \notin DbPlaces, x.kind # "question"
      PROVE  IInv'
  <2> DEFINE y == [x EXCEPT !.place = "cleanup", !.hit = TRUE, !.apply = Lost(x.apply)]
  <2>1. y \in Request
    BY <1>1, <1>7, <1>4
       DEF DbPlaces, Request, Places, Working, DbPlaces, OtherPlaces, Closing,
           OverridePlaces, Ended
  <2>2. /\ y.place = "cleanup" /\ y.apply = Lost(x.apply) /\ y.hit = TRUE
       /\ y.kind = x.kind /\ y.thread = x.thread /\ y.saved = x.saved
       /\ y.finish = x.finish /\ y.error = x.error /\ y.open = x.open
       /\ y.failedLogs = x.failedLogs /\ y.chunks = x.chunks /\ y.got = x.got
       /\ y.stream = x.stream
    BY <1>1 DEF Request
  <2>3. req' = [req EXCEPT ![r] = y]
    BY <1>1, <1>7 DEF StatementFails, Request
  <2> HIDE DEF y
  <2>4. Sound(y)
    BY <1>1, <1>7, <2>2, <1>4
       DEF DbPlaces, Sound, SettledPlaces, AnalysisPlaces, SavedAt, OpenAt,
           Working, DbPlaces, OtherPlaces, OverridePlaces, Ended
  <2>5. Told(y)
    <3>1. Said(y) = Said(x)
      BY <2>2 DEF Said
    <3>2. /\ x.saved \subseteq y.saved
          /\ x.error /\ x.open = {} => y.error /\ y.open = {}
          /\ y.error => x.error
          /\ x.place \in OutcomePlaces => y.place \in OutcomePlaces
          /\ y.place \in ToldPlaces /\ ~y.hit /\ y.stream # "left" =>
                x.place \in ToldPlaces /\ ~x.hit /\ x.stream # "left"
      BY <1>1, <1>7, <2>2, <1>4
         DEF DbPlaces, OutcomePlaces, ToldPlaces, Sound, SettledPlaces,
             AnalysisPlaces, SavedAt, OpenAt, Working, DbPlaces, OtherPlaces,
             OverridePlaces, Ended
    <3> QED
      BY <1>1, <2>1, <3>1, <3>2, KeepTold, Zenon
  <2>6. OnThread(y, session')
    BY <1>1, <1>2, <1>7, <2>2, <1>4
       DEF DbPlaces, OnThread, OnThreadPlaces, Closing, Working, DbPlaces,
           OtherPlaces, OverridePlaces, Ended, Said
  <2>7. /\ session' \in [Threads -> {"none", "ok", "broken"}]
        /\ faults' \in 0..MaxFaults
        /\ \A t \in Threads : session'[t] # session[t] =>
             \A q \in Requests \ {r} : req[q].thread # t
    BY <1>1, <1>2, <1>3, <1>7, <1>4 DEF DbPlaces, Quiet
  <2>8. y.thread # NoThread => \A q \in Requests \ {r} : req[q].thread # y.thread
    BY <1>3, <1>7, <2>2 DEF DbPlaces
  <2> QED
    BY <2>1, <2>3, <2>4, <2>5, <2>6, <2>7, <2>8, Step, Zenon
<1> QED
  BY <1>5, <1>6, <1>7

\* The response stream.
LEMMA StreamStep ==
    ASSUME IInv, NEW r \in Requests, Stream(r) \/ Leave(r)
    PROVE  IInv'
<1> DEFINE x == req[r]
<1> USE DEF At, Healthy
<1>1. /\ x \in Request /\ Sound(x) /\ Told(x) /\ OnThread(x, session)
      /\ req \in [Requests -> Request] /\ faults \in 0..MaxFaults
      /\ session \in [Threads -> {"none", "ok", "broken"}]
  BY DEF IInv, TypeOK
<1>2. NoThread \notin Threads /\ MaxFaults \in Nat
  BY ThreadAssumption, FaultAssumption
<1>3. x.thread # NoThread =>
         \A q \in Requests \ {r} : req[q].thread # x.thread
  BY DEF IInv, Alone
<1>4. CASE Poll(r)
  <2> DEFINE y == [x EXCEPT !.stream = "last"]
  <2>1. y \in Request
    BY <1>1, <1>4
       DEF Poll, Request, Places, Working, DbPlaces, OtherPlaces, Closing,
           OverridePlaces, Ended
  <2>2. /\ y.stream = "last" /\ y.kind = x.kind /\ y.place = x.place
       /\ y.thread = x.thread /\ y.saved = x.saved /\ y.finish = x.finish
       /\ y.error = x.error /\ y.open = x.open /\ y.failedLogs = x.failedLogs
       /\ y.apply = x.apply /\ y.chunks = x.chunks /\ y.got = x.got
       /\ y.hit = x.hit
    BY <1>1 DEF Request
  <2>3. req' = [req EXCEPT ![r] = y]
    BY <1>1, <1>4 DEF Poll, Request
  <2> HIDE DEF y
  <2>4. Sound(y)
    BY <1>1, <1>4, <2>2
       DEF Poll, Sound, SettledPlaces, AnalysisPlaces, SavedAt, OpenAt, Working,
           DbPlaces, OtherPlaces, OverridePlaces, Ended
  <2>5. Told(y)
    <3>1. Said(y) = Said(x)
      BY <2>2 DEF Said
    <3>2. /\ x.saved \subseteq y.saved
          /\ x.error /\ x.open = {} => y.error /\ y.open = {}
          /\ y.error => x.error
          /\ x.place \in OutcomePlaces => y.place \in OutcomePlaces
          /\ y.place \in ToldPlaces /\ ~y.hit /\ y.stream # "left" =>
                x.place \in ToldPlaces /\ ~x.hit /\ x.stream # "left"
      BY <1>1, <1>4, <2>2
         DEF Poll, OutcomePlaces, ToldPlaces, Sound, SettledPlaces,
             AnalysisPlaces, SavedAt, OpenAt, Working, DbPlaces, OtherPlaces,
             OverridePlaces, Ended
    <3> QED
      BY <1>1, <2>1, <3>1, <3>2, KeepTold, Zenon
  <2>6. OnThread(y, session')
    BY <1>1, <1>2, <1>4, <2>2
       DEF Poll, OnThread, OnThreadPlaces, Closing, Working, DbPlaces,
           OtherPlaces, OverridePlaces, Ended, Said
  <2>7. /\ session' \in [Threads -> {"none", "ok", "broken"}]
        /\ faults' \in 0..MaxFaults
        /\ \A t \in Threads : session'[t] # session[t] =>
             \A q \in Requests \ {r} : req[q].thread # t
    BY <1>1, <1>2, <1>3, <1>4 DEF Poll, Quiet
  <2>8. y.thread # NoThread => \A q \in Requests \ {r} : req[q].thread # y.thread
    BY <1>3, <1>4, <2>2 DEF Poll
  <2> QED
    BY <2>1, <2>3, <2>4, <2>5, <2>6, <2>7, <2>8, Step, Zenon
<1>5. CASE Deliver(r)
  <2> DEFINE y == [x EXCEPT !.chunks = Tail(x.chunks),
                             !.got = Append(x.got, Head(x.chunks))]
  <2>0. /\ Tail(x.chunks) \in Seq(Events)
        /\ Append(x.got, Head(x.chunks)) \in Seq(Events)
    <3>1. x.chunks \in Seq(Events) /\ x.got \in Seq(Events) /\ x.chunks # <<>>
      BY <1>1, <1>5, SaidType DEF Deliver
    <3> QED
      BY <3>1
  <2>1. y \in Request
    BY <1>1, <1>5, <2>0
       DEF Deliver, Request, Places, Working, DbPlaces, OtherPlaces, Closing,
           OverridePlaces, Ended
  <2>2. /\ y.chunks = Tail(x.chunks) /\ y.got = Append(x.got, Head(x.chunks))
       /\ y.kind = x.kind /\ y.place = x.place /\ y.thread = x.thread
       /\ y.saved = x.saved /\ y.finish = x.finish /\ y.error = x.error
       /\ y.open = x.open /\ y.failedLogs = x.failedLogs /\ y.apply = x.apply
       /\ y.stream = x.stream /\ y.hit = x.hit
    BY <1>1 DEF Request
  <2>3. req' = [req EXCEPT ![r] = y]
    BY <1>1, <1>5 DEF Deliver, Request
  <2> HIDE DEF y
  <2>4. Sound(y)
    BY <1>1, <1>5, <2>2
       DEF Deliver, Sound, SettledPlaces, AnalysisPlaces, SavedAt, OpenAt,
           Working, DbPlaces, OtherPlaces, OverridePlaces, Ended
  <2>5. Told(y)
    <3>1. Said(y) = Said(x)
      BY <1>1, <1>5, <2>1, <2>2, SaidOnce DEF Deliver
    <3> QED
      BY <1>1, <2>1, <2>2, <3>1, KeepTold, Zenon
  <2>6. OnThread(y, session')
    <3>1. Said(y) = Said(x)
      BY <1>1, <1>5, <2>1, <2>2, SaidOnce DEF Deliver, Said
    <3>2. session' = session
      BY <1>5 DEF Deliver, Quiet
    <3> QED
      BY <1>1, <2>2, <3>1, <3>2, Zenon DEF OnThread
  <2>7. /\ session' \in [Threads -> {"none", "ok", "broken"}]
        /\ faults' \in 0..MaxFaults
        /\ \A t \in Threads : session'[t] # session[t] =>
             \A q \in Requests \ {r} : req[q].thread # t
    BY <1>1, <1>2, <1>3, <1>5 DEF Deliver, Quiet
  <2>8. y.thread # NoThread => \A q \in Requests \ {r} : req[q].thread # y.thread
    BY <1>3, <1>5, <2>2 DEF Deliver
  <2> QED
    BY <2>1, <2>3, <2>4, <2>5, <2>6, <2>7, <2>8, Step, Zenon
<1>6. CASE CloseStream(r)
  <2> DEFINE y == [x EXCEPT !.stream = "closed"]
  <2>1. y \in Request
    BY <1>1, <1>6
       DEF CloseStream, Request, Places, Working, DbPlaces, OtherPlaces,
           Closing, OverridePlaces, Ended
  <2>2. /\ y.stream = "closed" /\ y.kind = x.kind /\ y.place = x.place
       /\ y.thread = x.thread /\ y.saved = x.saved /\ y.finish = x.finish
       /\ y.error = x.error /\ y.open = x.open /\ y.failedLogs = x.failedLogs
       /\ y.apply = x.apply /\ y.chunks = x.chunks /\ y.got = x.got
       /\ y.hit = x.hit
    BY <1>1 DEF Request
  <2>3. req' = [req EXCEPT ![r] = y]
    BY <1>1, <1>6 DEF CloseStream, Request
  <2> HIDE DEF y
  <2>4. Sound(y)
    BY <1>1, <1>6, <2>2
       DEF CloseStream, Sound, SettledPlaces, AnalysisPlaces, SavedAt, OpenAt,
           Working, DbPlaces, OtherPlaces, OverridePlaces, Ended
  <2>5. Told(y)
    <3>1. Said(y) = Said(x)
      BY <2>2 DEF Said
    <3>2. /\ x.saved \subseteq y.saved
          /\ x.error /\ x.open = {} => y.error /\ y.open = {}
          /\ y.error => x.error
          /\ x.place \in OutcomePlaces => y.place \in OutcomePlaces
          /\ y.place \in ToldPlaces /\ ~y.hit /\ y.stream # "left" =>
                x.place \in ToldPlaces /\ ~x.hit /\ x.stream # "left"
      BY <1>1, <1>6, <2>2
         DEF CloseStream, OutcomePlaces, ToldPlaces, Sound, SettledPlaces,
             AnalysisPlaces, SavedAt, OpenAt, Working, DbPlaces, OtherPlaces,
             OverridePlaces, Ended
    <3> QED
      BY <1>1, <2>1, <3>1, <3>2, KeepTold, Zenon
  <2>6. OnThread(y, session')
    <3>1. Said(y) = Said(x)
      BY <1>1, <1>6, <2>1, <2>2, SaidOnce DEF CloseStream, Said
    <3>2. session' = session
      BY <1>6 DEF CloseStream, Quiet
    <3> QED
      BY <1>1, <2>2, <3>1, <3>2, Zenon DEF OnThread
  <2>7. /\ session' \in [Threads -> {"none", "ok", "broken"}]
        /\ faults' \in 0..MaxFaults
        /\ \A t \in Threads : session'[t] # session[t] =>
             \A q \in Requests \ {r} : req[q].thread # t
    BY <1>1, <1>2, <1>3, <1>6 DEF CloseStream, Quiet
  <2>8. y.thread # NoThread => \A q \in Requests \ {r} : req[q].thread # y.thread
    BY <1>3, <1>6, <2>2 DEF CloseStream
  <2> QED
    BY <2>1, <2>3, <2>4, <2>5, <2>6, <2>7, <2>8, Step, Zenon
<1>7. CASE Leave(r)
  <2> DEFINE y == [x EXCEPT !.stream = "left"]
  <2>1. y \in Request
    BY <1>1, <1>7
       DEF Leave, Request, Places, Working, DbPlaces, OtherPlaces, Closing,
           OverridePlaces, Ended
  <2>2. /\ y.stream = "left" /\ y.kind = x.kind /\ y.place = x.place
       /\ y.thread = x.thread /\ y.saved = x.saved /\ y.finish = x.finish
       /\ y.error = x.error /\ y.open = x.open /\ y.failedLogs = x.failedLogs
       /\ y.apply = x.apply /\ y.chunks = x.chunks /\ y.got = x.got
       /\ y.hit = x.hit
    BY <1>1 DEF Request
  <2>3. req' = [req EXCEPT ![r] = y]
    BY <1>1, <1>7 DEF Leave, Request
  <2> HIDE DEF y
  <2>4. Sound(y)
    BY <1>1, <1>7, <2>2
       DEF Leave, Sound, SettledPlaces, AnalysisPlaces, SavedAt, OpenAt,
           Working, DbPlaces, OtherPlaces, OverridePlaces, Ended
  <2>5. Told(y)
    <3>1. Said(y) = Said(x)
      BY <2>2 DEF Said
    <3>2. /\ x.saved \subseteq y.saved
          /\ x.error /\ x.open = {} => y.error /\ y.open = {}
          /\ y.error => x.error
          /\ x.place \in OutcomePlaces => y.place \in OutcomePlaces
          /\ y.place \in ToldPlaces /\ ~y.hit /\ y.stream # "left" =>
                x.place \in ToldPlaces /\ ~x.hit /\ x.stream # "left"
      BY <1>1, <1>7, <2>2
         DEF Leave, OutcomePlaces, ToldPlaces, Sound, SettledPlaces,
             AnalysisPlaces, SavedAt, OpenAt, Working, DbPlaces, OtherPlaces,
             OverridePlaces, Ended
    <3> QED
      BY <1>1, <2>1, <3>1, <3>2, KeepTold, Zenon
  <2>6. OnThread(y, session')
    <3>1. Said(y) = Said(x)
      BY <1>1, <1>7, <2>1, <2>2, SaidOnce DEF Leave, Said
    <3>2. session' = session
      BY <1>7 DEF Leave, Quiet
    <3> QED
      BY <1>1, <2>2, <3>1, <3>2, Zenon DEF OnThread
  <2>7. /\ session' \in [Threads -> {"none", "ok", "broken"}]
        /\ faults' \in 0..MaxFaults
        /\ \A t \in Threads : session'[t] # session[t] =>
             \A q \in Requests \ {r} : req[q].thread # t
    BY <1>1, <1>2, <1>3, <1>7 DEF Leave, Quiet
  <2>8. y.thread # NoThread => \A q \in Requests \ {r} : req[q].thread # y.thread
    BY <1>3, <1>7, <2>2 DEF Leave
  <2> QED
    BY <2>1, <2>3, <2>4, <2>5, <2>6, <2>7, <2>8, Step, Zenon
<1> QED
  BY <1>4, <1>5, <1>6, <1>7 DEF Stream

\* A user asks, or a thread takes a task.
LEMMA StartStep ==
    ASSUME IInv, NEW r \in Requests, Ask(r) \/ \E t \in Threads : Begin(r, t)
    PROVE  IInv'
<1> DEFINE x == req[r]
<1> USE DEF At, Healthy
<1>1. /\ x \in Request /\ Sound(x) /\ Told(x) /\ OnThread(x, session)
      /\ req \in [Requests -> Request] /\ faults \in 0..MaxFaults
      /\ session \in [Threads -> {"none", "ok", "broken"}]
  BY DEF IInv, TypeOK
<1>2. NoThread \notin Threads /\ MaxFaults \in Nat
  BY ThreadAssumption, FaultAssumption
<1>3. x.thread # NoThread =>
         \A q \in Requests \ {r} : req[q].thread # x.thread
  BY DEF IInv, Alone
<1>4. CASE AskQuestion(r)
  <2> DEFINE y == [x EXCEPT !.place = "queued",
                             !.saved = {"question"},
                             !.stream = "poll"]
  <2>1. y \in Request
    BY <1>1, <1>4
       DEF AskQuestion, Request, Places, Working, DbPlaces, OtherPlaces,
           Closing, OverridePlaces, Ended, Parts
  <2>2. /\ y.place = "queued" /\ y.saved = {"question"} /\ y.stream = "poll"
       /\ y.kind = x.kind /\ y.thread = x.thread /\ y.finish = x.finish
       /\ y.error = x.error /\ y.open = x.open /\ y.failedLogs = x.failedLogs
       /\ y.apply = x.apply /\ y.chunks = x.chunks /\ y.got = x.got
       /\ y.hit = x.hit
    BY <1>1 DEF Request
  <2>3. req' = [req EXCEPT ![r] = y]
    BY <1>1, <1>4 DEF AskQuestion, Request
  <2> HIDE DEF y
  <2>4. Sound(y)
    BY <1>1, <1>4, <2>2
       DEF AskQuestion, Sound, SettledPlaces, AnalysisPlaces, SavedAt, OpenAt,
           Working, DbPlaces, OtherPlaces, OverridePlaces, Ended
  <2>5. Told(y)
    <3>1. Said(y) = Said(x)
      BY <2>2 DEF Said
    <3>2. /\ x.saved \subseteq y.saved
          /\ x.error /\ x.open = {} => y.error /\ y.open = {}
          /\ y.error => x.error
          /\ x.place \in OutcomePlaces => y.place \in OutcomePlaces
          /\ y.place \in ToldPlaces /\ ~y.hit /\ y.stream # "left" =>
                x.place \in ToldPlaces /\ ~x.hit /\ x.stream # "left"
      BY <1>1, <1>4, <2>2
         DEF AskQuestion, OutcomePlaces, ToldPlaces, Sound, SettledPlaces,
             AnalysisPlaces, SavedAt, OpenAt, Working, DbPlaces, OtherPlaces,
             OverridePlaces, Ended
    <3> QED
      BY <1>1, <2>1, <3>1, <3>2, KeepTold, Zenon
  <2>6. OnThread(y, session')
    BY <1>1, <1>2, <1>4, <2>2
       DEF AskQuestion, OnThread, OnThreadPlaces, Closing, Working, DbPlaces,
           OtherPlaces, OverridePlaces, Ended, Said
  <2>7. /\ session' \in [Threads -> {"none", "ok", "broken"}]
        /\ faults' \in 0..MaxFaults
        /\ \A u \in Threads : session'[u] # session[u] =>
             \A q \in Requests \ {r} : req[q].thread # u
    BY <1>1, <1>2, <1>3, <1>4 DEF AskQuestion, Quiet
  <2>8. y.thread # NoThread => \A q \in Requests \ {r} : req[q].thread # y.thread
    BY <1>3, <1>4, <2>2 DEF AskQuestion
  <2> QED
    BY <2>1, <2>3, <2>4, <2>5, <2>6, <2>7, <2>8, Step, Zenon
<1>5. CASE AskOverride(r)
  <2> DEFINE y == [x EXCEPT !.kind = "override",
                             !.place = "recorded",
                             !.saved = {"question"}]
  <2>1. y \in Request
    BY <1>1, <1>5
       DEF AskOverride, Request, Places, Working, DbPlaces, OtherPlaces,
           Closing, OverridePlaces, Ended, Parts, Kinds
  <2>2. /\ y.kind = "override" /\ y.place = "recorded" /\ y.saved = {"question"}
       /\ y.thread = x.thread /\ y.finish = x.finish /\ y.error = x.error
       /\ y.open = x.open /\ y.failedLogs = x.failedLogs /\ y.apply = x.apply
       /\ y.chunks = x.chunks /\ y.got = x.got /\ y.stream = x.stream
       /\ y.hit = x.hit
    BY <1>1 DEF Request
  <2>3. req' = [req EXCEPT ![r] = y]
    BY <1>1, <1>5 DEF AskOverride, Request
  <2> HIDE DEF y
  <2>4. Sound(y)
    BY <1>1, <1>5, <2>2
       DEF AskOverride, Sound, SettledPlaces, AnalysisPlaces, SavedAt, OpenAt,
           Working, DbPlaces, OtherPlaces, OverridePlaces, Ended
  <2>5. Told(y)
    <3>1. Said(y) = Said(x)
      BY <2>2 DEF Said
    <3>2. /\ x.saved \subseteq y.saved
          /\ x.error /\ x.open = {} => y.error /\ y.open = {}
          /\ y.error => x.error
          /\ x.place \in OutcomePlaces => y.place \in OutcomePlaces
          /\ y.place \in ToldPlaces /\ ~y.hit /\ y.stream # "left" =>
                x.place \in ToldPlaces /\ ~x.hit /\ x.stream # "left"
      BY <1>1, <1>5, <2>2
         DEF AskOverride, OutcomePlaces, ToldPlaces, Sound, SettledPlaces,
             AnalysisPlaces, SavedAt, OpenAt, Working, DbPlaces, OtherPlaces,
             OverridePlaces, Ended
    <3> QED
      BY <1>1, <2>1, <3>1, <3>2, KeepTold, Zenon
  <2>6. OnThread(y, session')
    BY <1>1, <1>2, <1>5, <2>2
       DEF AskOverride, OnThread, OnThreadPlaces, Closing, Working, DbPlaces,
           OtherPlaces, OverridePlaces, Ended, Said
  <2>7. /\ session' \in [Threads -> {"none", "ok", "broken"}]
        /\ faults' \in 0..MaxFaults
        /\ \A u \in Threads : session'[u] # session[u] =>
             \A q \in Requests \ {r} : req[q].thread # u
    BY <1>1, <1>2, <1>3, <1>5 DEF AskOverride, Quiet
  <2>8. y.thread # NoThread => \A q \in Requests \ {r} : req[q].thread # y.thread
    BY <1>3, <1>5, <2>2 DEF AskOverride
  <2> QED
    BY <2>1, <2>3, <2>4, <2>5, <2>6, <2>7, <2>8, Step, Zenon
<1>6. ASSUME NEW base \in Requests, NEW kind \in Kinds, AskAbout(r, base, kind)
      PROVE  IInv'
  <2>0. req[base] \in Request /\ Sound(req[base])
    BY DEF IInv, TypeOK
  <2> DEFINE y == [x EXCEPT !.kind = kind,
                             !.place = "queued",
                             !.saved = {"question"} \union
                                        (req[base].saved \intersect {"chart", "data"}),
                             !.stream = "poll"]
  <2>1. y \in Request
    BY <1>1, <1>6, <2>0
       DEF AskAbout, Request, Places, Working, DbPlaces, OtherPlaces, Closing,
           OverridePlaces, Ended, Parts, Kinds
  <2>2. /\ y.kind = kind /\ y.place = "queued"
       /\ y.saved = {"question"} \union
                                        (req[base].saved \intersect {"chart", "data"})
       /\ y.stream = "poll" /\ y.thread = x.thread /\ y.finish = x.finish
       /\ y.error = x.error /\ y.open = x.open /\ y.failedLogs = x.failedLogs
       /\ y.apply = x.apply /\ y.chunks = x.chunks /\ y.got = x.got
       /\ y.hit = x.hit
    BY <1>1 DEF Request
  <2>3. req' = [req EXCEPT ![r] = y]
    BY <1>1, <1>6 DEF AskAbout, Request
  <2> HIDE DEF y
  <2>4. Sound(y)
    BY <1>1, <1>6, <2>2, <2>0
       DEF AskAbout, Sound, SettledPlaces, AnalysisPlaces, SavedAt, OpenAt,
           Working, DbPlaces, OtherPlaces, OverridePlaces, Ended
  <2>5. Told(y)
    <3>1. Said(y) = Said(x)
      BY <2>2 DEF Said
    <3>2. /\ x.saved \subseteq y.saved
          /\ x.error /\ x.open = {} => y.error /\ y.open = {}
          /\ y.error => x.error
          /\ x.place \in OutcomePlaces => y.place \in OutcomePlaces
          /\ y.place \in ToldPlaces /\ ~y.hit /\ y.stream # "left" =>
                x.place \in ToldPlaces /\ ~x.hit /\ x.stream # "left"
      BY <1>1, <1>6, <2>2, <2>0
         DEF AskAbout, OutcomePlaces, ToldPlaces, Sound, SettledPlaces,
             AnalysisPlaces, SavedAt, OpenAt, Working, DbPlaces, OtherPlaces,
             OverridePlaces, Ended
    <3> QED
      BY <1>1, <2>1, <3>1, <3>2, KeepTold, Zenon
  <2>6. OnThread(y, session')
    BY <1>1, <1>2, <1>6, <2>2
       DEF AskAbout, OnThread, OnThreadPlaces, Closing, Working, DbPlaces,
           OtherPlaces, OverridePlaces, Ended, Said
  <2>7. /\ session' \in [Threads -> {"none", "ok", "broken"}]
        /\ faults' \in 0..MaxFaults
        /\ \A u \in Threads : session'[u] # session[u] =>
             \A q \in Requests \ {r} : req[q].thread # u
    BY <1>1, <1>2, <1>3, <1>6 DEF AskAbout, Quiet
  <2>8. y.thread # NoThread => \A q \in Requests \ {r} : req[q].thread # y.thread
    BY <1>3, <1>6, <2>2 DEF AskAbout
  <2> QED
    BY <2>1, <2>3, <2>4, <2>5, <2>6, <2>7, <2>8, Step, Zenon
<1>7. ASSUME NEW t \in Threads, Begin(r, t)
      PROVE  IInv'
  <2>1. CASE x.kind = "question"
    <3> DEFINE y == [x EXCEPT !.thread = t, !.place = "start"]
    <3>1. y \in Request
      BY <1>1, <2>1, <1>7
         DEF Begin, Request, Places, Working, DbPlaces, OtherPlaces, Closing,
             OverridePlaces, Ended
    <3>2. /\ y.place = "start" /\ y.thread = t /\ y.kind = x.kind
         /\ y.saved = x.saved /\ y.finish = x.finish /\ y.error = x.error
         /\ y.open = x.open /\ y.failedLogs = x.failedLogs /\ y.apply = x.apply
         /\ y.chunks = x.chunks /\ y.got = x.got /\ y.stream = x.stream
         /\ y.hit = x.hit
      BY <1>1 DEF Request
    <3>3. req' = [req EXCEPT ![r] = y]
      BY <1>1, <1>7, <2>1 DEF Begin, Request
    <3> HIDE DEF y
    <3>4. Sound(y)
      BY <1>1, <2>1, <3>2, <1>7
         DEF Begin, Sound, SettledPlaces, AnalysisPlaces, SavedAt, OpenAt,
             Working, DbPlaces, OtherPlaces, OverridePlaces, Ended
    <3>5. Told(y)
      <4>1. Said(y) = Said(x)
        BY <3>2 DEF Said
      <4>2. /\ x.saved \subseteq y.saved
            /\ x.error /\ x.open = {} => y.error /\ y.open = {}
            /\ y.error => x.error
            /\ x.place \in OutcomePlaces => y.place \in OutcomePlaces
            /\ y.place \in ToldPlaces /\ ~y.hit /\ y.stream # "left" =>
                  x.place \in ToldPlaces /\ ~x.hit /\ x.stream # "left"
        BY <1>1, <2>1, <3>2, <1>7
           DEF Begin, OutcomePlaces, ToldPlaces, Sound, SettledPlaces,
               AnalysisPlaces, SavedAt, OpenAt, Working, DbPlaces, OtherPlaces,
               OverridePlaces, Ended
      <4> QED
        BY <1>1, <3>1, <4>1, <4>2, KeepTold, Zenon
    <3>6. OnThread(y, session')
      BY <1>1, <1>2, <2>1, <3>2, <1>7
         DEF Begin, OnThread, OnThreadPlaces, Closing, Working, DbPlaces,
             OtherPlaces, OverridePlaces, Ended, Said
    <3>7. /\ session' \in [Threads -> {"none", "ok", "broken"}]
          /\ faults' \in 0..MaxFaults
          /\ \A u \in Threads : session'[u] # session[u] =>
               \A q \in Requests \ {r} : req[q].thread # u
      BY <1>1, <1>2, <1>3, <2>1, <1>7 DEF Begin, Quiet
    <3>8. y.thread # NoThread => \A q \in Requests \ {r} : req[q].thread # y.thread
      BY <1>7, <3>2 DEF Begin
    <3> QED
      BY <3>1, <3>3, <3>4, <3>5, <3>6, <3>7, <3>8, Step, Zenon
  <2>2. CASE x.kind # "question"
    <3> DEFINE y == [x EXCEPT !.thread = t, !.place = "begun"]
    <3>1. y \in Request
      BY <1>1, <2>2, <1>7
         DEF Begin, Request, Places, Working, DbPlaces, OtherPlaces, Closing,
             OverridePlaces, Ended
    <3>2. /\ y.place = "begun" /\ y.thread = t /\ y.kind = x.kind
         /\ y.saved = x.saved /\ y.finish = x.finish /\ y.error = x.error
         /\ y.open = x.open /\ y.failedLogs = x.failedLogs /\ y.apply = x.apply
         /\ y.chunks = x.chunks /\ y.got = x.got /\ y.stream = x.stream
         /\ y.hit = x.hit
      BY <1>1 DEF Request
    <3>3. req' = [req EXCEPT ![r] = y]
      BY <1>1, <1>7, <2>2 DEF Begin, Request
    <3> HIDE DEF y
    <3>4. Sound(y)
      BY <1>1, <2>2, <3>2, <1>7
         DEF Begin, Sound, SettledPlaces, AnalysisPlaces, SavedAt, OpenAt,
             Working, DbPlaces, OtherPlaces, OverridePlaces, Ended
    <3>5. Told(y)
      <4>1. Said(y) = Said(x)
        BY <3>2 DEF Said
      <4>2. /\ x.saved \subseteq y.saved
            /\ x.error /\ x.open = {} => y.error /\ y.open = {}
            /\ y.error => x.error
            /\ x.place \in OutcomePlaces => y.place \in OutcomePlaces
            /\ y.place \in ToldPlaces /\ ~y.hit /\ y.stream # "left" =>
                  x.place \in ToldPlaces /\ ~x.hit /\ x.stream # "left"
        BY <1>1, <2>2, <3>2, <1>7
           DEF Begin, OutcomePlaces, ToldPlaces, Sound, SettledPlaces,
               AnalysisPlaces, SavedAt, OpenAt, Working, DbPlaces, OtherPlaces,
               OverridePlaces, Ended
      <4> QED
        BY <1>1, <3>1, <4>1, <4>2, KeepTold, Zenon
    <3>6. OnThread(y, session')
      BY <1>1, <1>2, <2>2, <3>2, <1>7
         DEF Begin, OnThread, OnThreadPlaces, Closing, Working, DbPlaces,
             OtherPlaces, OverridePlaces, Ended, Said
    <3>7. /\ session' \in [Threads -> {"none", "ok", "broken"}]
          /\ faults' \in 0..MaxFaults
          /\ \A u \in Threads : session'[u] # session[u] =>
               \A q \in Requests \ {r} : req[q].thread # u
      BY <1>1, <1>2, <1>3, <2>2, <1>7 DEF Begin, Quiet
    <3>8. y.thread # NoThread => \A q \in Requests \ {r} : req[q].thread # y.thread
      BY <1>7, <3>2 DEF Begin
    <3> QED
      BY <3>1, <3>3, <3>4, <3>5, <3>6, <3>7, <3>8, Step, Zenon
  <2> QED
    BY <2>1, <2>2
<1>8. CASE Refuse(r)
  <2> DEFINE y == [x EXCEPT !.place = "done", !.stream = "last",
                            !.chunks = <<"refused">>]
  <2>1. y \in Request
    <3>1. "refused" \in Events
      BY DEF Events
    <3>2. <<"refused">> \in Seq(Events)
      BY <3>1
    <3>3. "done" \in Places
      BY DEF Places, Ended
    <3> QED
      BY <1>1, <3>2, <3>3 DEF Request
  <2>2. /\ y.place = "done" /\ y.saved = x.saved /\ y.stream = "last"
        /\ y.kind = x.kind /\ y.thread = x.thread /\ y.finish = x.finish
        /\ y.error = x.error /\ y.open = x.open /\ y.failedLogs = x.failedLogs
        /\ y.apply = x.apply /\ y.chunks = <<"refused">> /\ y.got = x.got
        /\ y.hit = x.hit
    BY <1>1 DEF Request
  <2>3. req' = [req EXCEPT ![r] = y]
    BY <1>1, <1>8 DEF Refuse, Request
  <2>4. /\ x.place = "idle" /\ x.chunks = <<>> /\ x.got = <<>> /\ x.saved = {}
        /\ x.open = {} /\ ~x.error /\ ~x.finish
    BY <1>1, <1>8
       DEF Refuse, Sound, OpenAt, SettledPlaces, Ended
  <2> HIDE DEF y
  <2>5. Sound(y)
    BY <2>2, <2>4
       DEF Sound, SettledPlaces, AnalysisPlaces, SavedAt, OpenAt,
           OverridePlaces, Ended
  <2>6. Told(y)
    <3>1. Said(y) = <<"refused">>
      BY <2>2, <2>4 DEF Said
    <3>2. Len(Said(y)) = 1 /\ Said(y)[1] = "refused"
      BY <3>1
    <3>3. "refused" \in Outcomes /\ "refused" # "error" /\ Behind("refused") = {}
      BY DEF Outcomes, Behind
    <3> QED
      BY <2>2, <2>4, <3>2, <3>3 DEF Told, OutcomePlaces
  <2>7. OnThread(y, session')
    BY <1>1, <1>2, <2>2, <2>4
       DEF OnThread, OnThreadPlaces, Closing, Working, DbPlaces, OtherPlaces
  <2>8. /\ session' \in [Threads -> {"none", "ok", "broken"}]
        /\ faults' \in 0..MaxFaults
        /\ \A u \in Threads : session'[u] # session[u] =>
             \A q \in Requests \ {r} : req[q].thread # u
    BY <1>1, <1>2, <1>8 DEF Refuse, Quiet
  <2>9. y.thread # NoThread => \A q \in Requests \ {r} : req[q].thread # y.thread
    BY <1>3, <2>2
  <2> QED
    BY <2>1, <2>3, <2>5, <2>6, <2>7, <2>8, <2>9, Step, Zenon
<1> QED
  BY <1>4, <1>5, <1>6, <1>7, <1>8 DEF Ask

\* The override stream.
LEMMA OverrideStep ==
    ASSUME IInv, NEW r \in Requests, Override(r)
    PROVE  IInv'
<1> DEFINE x == req[r]
<1> USE DEF At, Healthy
<1>1. /\ x \in Request /\ Sound(x) /\ Told(x) /\ OnThread(x, session)
      /\ req \in [Requests -> Request] /\ faults \in 0..MaxFaults
      /\ session \in [Threads -> {"none", "ok", "broken"}]
  BY DEF IInv, TypeOK
<1>2. NoThread \notin Threads /\ MaxFaults \in Nat
  BY ThreadAssumption, FaultAssumption
<1>3. x.thread # NoThread =>
         \A q \in Requests \ {r} : req[q].thread # x.thread
  BY DEF IInv, Alone
<1>4. CASE RecordOverride(r)
  <2> DEFINE y == [x EXCEPT !.place = "applied",
                             !.apply = "applied",
                             !.saved = x.saved \union {"answer", "sql"}]
  <2>1. y \in Request
    BY <1>1, <1>4
       DEF RecordOverride, Request, Places, Working, DbPlaces, OtherPlaces,
           Closing, OverridePlaces, Ended, Parts
  <2>2. /\ y.place = "applied" /\ y.saved = x.saved \union {"answer", "sql"}
       /\ y.apply = "applied" /\ y.kind = x.kind /\ y.thread = x.thread
       /\ y.finish = x.finish /\ y.error = x.error /\ y.open = x.open
       /\ y.failedLogs = x.failedLogs /\ y.chunks = x.chunks /\ y.got = x.got
       /\ y.stream = x.stream /\ y.hit = x.hit
    BY <1>1 DEF Request
  <2>3. req' = [req EXCEPT ![r] = y]
    BY <1>1, <1>4 DEF RecordOverride, Request
  <2> HIDE DEF y
  <2>4. Sound(y)
    BY <1>1, <1>4, <2>2
       DEF RecordOverride, Sound, SettledPlaces, AnalysisPlaces, SavedAt,
           OpenAt, Working, DbPlaces, OtherPlaces, OverridePlaces, Ended
  <2>5. Told(y)
    <3>1. Said(y) = Said(x)
      BY <2>2 DEF Said
    <3>2. /\ x.saved \subseteq y.saved
          /\ x.error /\ x.open = {} => y.error /\ y.open = {}
          /\ y.error => x.error
          /\ x.place \in OutcomePlaces => y.place \in OutcomePlaces
          /\ y.place \in ToldPlaces /\ ~y.hit /\ y.stream # "left" =>
                x.place \in ToldPlaces /\ ~x.hit /\ x.stream # "left"
      BY <1>1, <1>4, <2>2
         DEF RecordOverride, OutcomePlaces, ToldPlaces, Sound, SettledPlaces,
             AnalysisPlaces, SavedAt, OpenAt, Working, DbPlaces, OtherPlaces,
             OverridePlaces, Ended
    <3> QED
      BY <1>1, <2>1, <3>1, <3>2, KeepTold, Zenon
  <2>6. OnThread(y, session')
    BY <1>1, <1>2, <1>4, <2>2
       DEF RecordOverride, OnThread, OnThreadPlaces, Closing, Working, DbPlaces,
           OtherPlaces, OverridePlaces, Ended, Said
  <2>7. /\ session' \in [Threads -> {"none", "ok", "broken"}]
        /\ faults' \in 0..MaxFaults
        /\ \A u \in Threads : session'[u] # session[u] =>
             \A q \in Requests \ {r} : req[q].thread # u
    BY <1>1, <1>2, <1>3, <1>4 DEF RecordOverride, Quiet
  <2>8. y.thread # NoThread => \A q \in Requests \ {r} : req[q].thread # y.thread
    BY <1>3, <1>4, <2>2 DEF RecordOverride
  <2> QED
    BY <2>1, <2>3, <2>4, <2>5, <2>6, <2>7, <2>8, Step, Zenon
<1>5. CASE RunOverride(r)
  <2> DEFINE y == [x EXCEPT !.place = "executed", !.saved = x.saved \union {"data"}]
  <2>1. y \in Request
    BY <1>1, <1>5
       DEF RunOverride, Request, Places, Working, DbPlaces, OtherPlaces,
           Closing, OverridePlaces, Ended, Parts
  <2>2. /\ y.place = "executed" /\ y.saved = x.saved \union {"data"}
       /\ y.kind = x.kind /\ y.thread = x.thread /\ y.finish = x.finish
       /\ y.error = x.error /\ y.open = x.open /\ y.failedLogs = x.failedLogs
       /\ y.apply = x.apply /\ y.chunks = x.chunks /\ y.got = x.got
       /\ y.stream = x.stream /\ y.hit = x.hit
    BY <1>1 DEF Request
  <2>3. req' = [req EXCEPT ![r] = y]
    BY <1>1, <1>5 DEF RunOverride, Request
  <2> HIDE DEF y
  <2>4. Sound(y)
    BY <1>1, <1>5, <2>2
       DEF RunOverride, Sound, SettledPlaces, AnalysisPlaces, SavedAt, OpenAt,
           Working, DbPlaces, OtherPlaces, OverridePlaces, Ended
  <2>5. Told(y)
    <3>1. Said(y) = Said(x)
      BY <2>2 DEF Said
    <3>2. /\ x.saved \subseteq y.saved
          /\ x.error /\ x.open = {} => y.error /\ y.open = {}
          /\ y.error => x.error
          /\ x.place \in OutcomePlaces => y.place \in OutcomePlaces
          /\ y.place \in ToldPlaces /\ ~y.hit /\ y.stream # "left" =>
                x.place \in ToldPlaces /\ ~x.hit /\ x.stream # "left"
      BY <1>1, <1>5, <2>2
         DEF RunOverride, OutcomePlaces, ToldPlaces, Sound, SettledPlaces,
             AnalysisPlaces, SavedAt, OpenAt, Working, DbPlaces, OtherPlaces,
             OverridePlaces, Ended
    <3> QED
      BY <1>1, <2>1, <3>1, <3>2, KeepTold, Zenon
  <2>6. OnThread(y, session')
    BY <1>1, <1>2, <1>5, <2>2
       DEF RunOverride, OnThread, OnThreadPlaces, Closing, Working, DbPlaces,
           OtherPlaces, OverridePlaces, Ended, Said
  <2>7. /\ session' \in [Threads -> {"none", "ok", "broken"}]
        /\ faults' \in 0..MaxFaults
        /\ \A u \in Threads : session'[u] # session[u] =>
             \A q \in Requests \ {r} : req[q].thread # u
    BY <1>1, <1>2, <1>3, <1>5 DEF RunOverride, Quiet
  <2>8. y.thread # NoThread => \A q \in Requests \ {r} : req[q].thread # y.thread
    BY <1>3, <1>5, <2>2 DEF RunOverride
  <2> QED
    BY <2>1, <2>3, <2>4, <2>5, <2>6, <2>7, <2>8, Step, Zenon
<1>6. CASE FinishOverride(r)
  <2> DEFINE evs == <<"id", "question", "sql-result", "sql",
                          "sql-data", "chart-result", "chart", "finish">>
  <2> DEFINE y == [x EXCEPT !.place = "done",
                             !.finish = TRUE,
                             !.stream = "last",
                             !.saved = x.saved \union {"chart_answer", "chart"},
                             !.chunks = evs]
  <2>10. evs \in Seq(Events) /\ Len(evs) = 8
    BY DEF Events
  <2>11. /\ evs[1] = "id" /\ evs[2] = "question" /\ evs[3] = "sql-result"
         /\ evs[4] = "sql"
         /\ evs[5] = "sql-data" /\ evs[6] = "chart-result"
         /\ evs[7] = "chart" /\ evs[8] = "finish"
    OBVIOUS
  <2>1. y \in Request
    BY <1>1, <1>6, <2>10
       DEF FinishOverride, Request, Places, Working, DbPlaces, OtherPlaces,
           Closing, OverridePlaces, Ended, Parts
  <2>2. /\ y.place = "done"
       /\ y.saved = x.saved \union {"chart_answer", "chart"} /\ y.finish = TRUE
       /\ y.chunks = evs /\ y.stream = "last" /\ y.kind = x.kind
       /\ y.thread = x.thread /\ y.error = x.error /\ y.open = x.open
       /\ y.failedLogs = x.failedLogs /\ y.apply = x.apply /\ y.got = x.got
       /\ y.hit = x.hit
    BY <1>1 DEF Request
  <2>3. req' = [req EXCEPT ![r] = y]
    BY <1>1, <1>6 DEF FinishOverride, Request
  <2> HIDE DEF y, evs
  <2>4. Sound(y)
    BY <1>1, <1>6, <2>2
       DEF FinishOverride, Sound, SettledPlaces, AnalysisPlaces, SavedAt,
           OpenAt, Working, DbPlaces, OtherPlaces, OverridePlaces, Ended
  <2>5. Told(y)
    <3>1. Silent(x) /\ x.chunks = <<>> /\ x.saved \subseteq y.saved
      BY <1>1, <1>6, <2>2, StillSilent
         DEF FinishOverride, Sound, OverridePlaces, OutcomePlaces
    <3>2. y.chunks = x.chunks \o evs
      BY <2>2, <2>10, <3>1, ConcatEmptySeq
    <3>3. {"answer", "sql", "data", "chart_answer", "chart"} \subseteq y.saved
      BY <1>1, <1>6, <2>2 DEF FinishOverride, Sound, SavedAt
    <3>4. y.error = FALSE
      BY <1>1, <1>6, <2>2 DEF FinishOverride, Sound, SettledPlaces, Request
    <3>5. \A e \in {"id", "question", "sql-result", "chart-result"} : Behind(e) = {}
      BY DEF Behind
    <3>6. /\ Behind("sql") = {"answer", "sql"}
          /\ Behind("sql-data") = {"answer", "sql", "data"}
          /\ Behind("chart") = {"answer", "sql", "data", "chart_answer", "chart"}
          /\ Behind("finish") = {"answer", "sql", "data", "chart_answer", "chart"}
      BY DEF Behind
    <3>7. \A j \in 1..8 : Behind(evs[j]) \subseteq y.saved
      BY <2>11, <3>3, <3>5, <3>6
    <3>8. \A j \in 1..8 : evs[j] # "error" /\ (evs[j] \in Outcomes => j = 8)
      BY <2>11 DEF Outcomes
    <3>9. y.place \in OutcomePlaces /\ evs[8] \in Outcomes
      BY <2>11, <2>2 DEF OutcomePlaces, Outcomes
    <3>10. \A j \in 1..Len(evs) :
              /\ Behind(evs[j]) \subseteq y.saved
              /\ evs[j] = "error" => y.error /\ y.open = {}
              /\ evs[j] \in Outcomes => /\ j = Len(evs)
                                        /\ y.error => evs[j] = "error"
                                        /\ y.place \in OutcomePlaces
      BY <2>10, <3>4, <3>7, <3>8, <3>9
    <3>11. Len(evs) # 0 /\ evs[Len(evs)] \in Outcomes
      BY <2>10, <3>9
    <3>12. y.got = x.got /\ evs \in Seq(Events) /\ Told(x) /\ x \in Request
      BY <1>1, <2>10, <2>2
    <3> HIDE DEF x
    <3> QED
      BY <2>1, <3>1, <3>2, <3>10, <3>11, <3>12, PublishTold, Zenon
  <2>6. OnThread(y, session')
    BY <1>1, <1>2, <1>6, <2>2
       DEF FinishOverride, OnThread, OnThreadPlaces, Closing, Working, DbPlaces,
           OtherPlaces, OverridePlaces, Ended
  <2>7. /\ session' \in [Threads -> {"none", "ok", "broken"}]
        /\ faults' \in 0..MaxFaults
        /\ \A u \in Threads : session'[u] # session[u] =>
             \A q \in Requests \ {r} : req[q].thread # u
    BY <1>1, <1>2, <1>3, <1>6 DEF FinishOverride, Quiet
  <2>8. y.thread # NoThread => \A q \in Requests \ {r} : req[q].thread # y.thread
    BY <1>3, <1>6, <2>2 DEF FinishOverride
  <2> QED
    BY <2>1, <2>3, <2>4, <2>5, <2>6, <2>7, <2>8, Step, Zenon
<1>7. CASE OverrideFails(r)
  <2> DEFINE y == [x EXCEPT !.place = "done", !.hit = TRUE, !.stream = "closed"]
  <2>1. y \in Request
    BY <1>1, <1>7
       DEF OverrideFails, Request, Places, Working, DbPlaces, OtherPlaces,
           Closing, OverridePlaces, Ended, Parts
  <2>2. /\ y.place = "done" /\ y.stream = "closed" /\ y.hit = TRUE
       /\ y.kind = x.kind /\ y.thread = x.thread /\ y.saved = x.saved
       /\ y.finish = x.finish /\ y.error = x.error /\ y.open = x.open
       /\ y.failedLogs = x.failedLogs /\ y.apply = x.apply
       /\ y.chunks = x.chunks /\ y.got = x.got
    BY <1>1 DEF Request
  <2>3. req' = [req EXCEPT ![r] = y]
    BY <1>1, <1>7 DEF OverrideFails, Request
  <2> HIDE DEF y
  <2>4. Sound(y)
    BY <1>1, <1>7, <2>2
       DEF OverrideFails, Sound, SettledPlaces, AnalysisPlaces, SavedAt, OpenAt,
           Working, DbPlaces, OtherPlaces, OverridePlaces, Ended
  <2>5. Told(y)
    <3>1. Said(y) = Said(x)
      BY <2>2 DEF Said
    <3>2. /\ x.saved \subseteq y.saved
          /\ x.error /\ x.open = {} => y.error /\ y.open = {}
          /\ y.error => x.error
          /\ x.place \in OutcomePlaces => y.place \in OutcomePlaces
          /\ y.place \in ToldPlaces /\ ~y.hit /\ y.stream # "left" =>
                x.place \in ToldPlaces /\ ~x.hit /\ x.stream # "left"
      BY <1>1, <1>7, <2>2
         DEF OverrideFails, OutcomePlaces, ToldPlaces, Sound, SettledPlaces,
             AnalysisPlaces, SavedAt, OpenAt, Working, DbPlaces, OtherPlaces,
             OverridePlaces, Ended
    <3> QED
      BY <1>1, <2>1, <3>1, <3>2, KeepTold, Zenon
  <2>6. OnThread(y, session')
    BY <1>1, <1>2, <1>7, <2>2
       DEF OverrideFails, OnThread, OnThreadPlaces, Closing, Working, DbPlaces,
           OtherPlaces, OverridePlaces, Ended, Said
  <2>7. /\ session' \in [Threads -> {"none", "ok", "broken"}]
        /\ faults' \in 0..MaxFaults
        /\ \A u \in Threads : session'[u] # session[u] =>
             \A q \in Requests \ {r} : req[q].thread # u
    BY <1>1, <1>2, <1>3, <1>7 DEF OverrideFails, Quiet
  <2>8. y.thread # NoThread => \A q \in Requests \ {r} : req[q].thread # y.thread
    BY <1>3, <1>7, <2>2 DEF OverrideFails
  <2> QED
    BY <2>1, <2>3, <2>4, <2>5, <2>6, <2>7, <2>8, Step, Zenon
<1> QED
  BY <1>4, <1>5, <1>6, <1>7 DEF Override

\* A restart of the process: what a request has been told stays, the rest of
\* what was published is lost.
LEMMA RestartStep ==
    ASSUME IInv, Restart
    PROVE  IInv'
<1>1. /\ faults' \in 0..MaxFaults
      /\ session' \in [Threads -> {"none", "ok", "broken"}]
  <2>1. faults \in 0..MaxFaults /\ faults' = faults + 1 /\ faults < MaxFaults
    BY DEF IInv, TypeOK, Restart
  <2>2. faults' \in 0..MaxFaults
    BY <2>1, FaultAssumption
  <2>3. session' = [t \in Threads |-> "none"]
    BY DEF Restart
  <2> QED
    BY <2>2, <2>3
<1>2. NoThread \notin Threads
  BY ThreadAssumption
<1>3. ASSUME NEW r \in Requests
      PROVE  /\ req'[r] \in Request
             /\ Sound(req'[r]) /\ Told(req'[r]) /\ OnThread(req'[r], session')
             /\ req'[r].thread = NoThread
  <2> DEFINE x == req[r]  y == req'[r]
  <2>1. x \in Request /\ Sound(x) /\ Told(x) /\ OnThread(x, session)
    BY DEF IInv, TypeOK
  <2>2. CASE x.place = "idle"
    <3>1. y = x
      BY <2>2 DEF Restart, At
    <3>2. x.thread = NoThread
      BY <2>1, <2>2
         DEF OnThread, OnThreadPlaces, Working, DbPlaces, OtherPlaces, Closing,
             Request
    <3>3. OnThread(x, session')
      BY <2>1, <2>2 DEF OnThread
    <3> QED
      BY <2>1, <3>1, <3>2, <3>3
  <2>3. CASE x.place # "idle"
    <3> DEFINE place == IF x.place \in Ended THEN x.place ELSE "lost"
               stream == IF x.stream = "closed" THEN x.stream ELSE "left"
    <3>1. y = [x EXCEPT !.place = place, !.thread = NoThread, !.chunks = <<>>,
                        !.apply = Lost(x.apply), !.stream = stream]
      BY <2>3 DEF Restart, At
    <3>2. /\ place \in Ended /\ (place # "lost" => x.place = place)
          /\ x.place \in Ended => place = x.place
      BY DEF Ended
    <3>3. stream \in {"closed", "left"} /\ (stream = "closed" <=> x.stream = "closed")
      OBVIOUS
    <3> HIDE DEF place, stream
    <3>4. Lost(x.apply) \in {"none", "flushed", "applied", "error"}
      BY <2>1 DEF Lost, Request
    <3>5. y \in Request
      <4>1. place \in Places
        BY <3>2 DEF Places
      <4>2. <<>> \in Seq(Events)
        OBVIOUS
      <4> QED
        BY <2>1, <3>1, <3>3, <3>4, <4>1, <4>2 DEF Request
    <3>6. /\ y.kind = x.kind /\ y.place = place /\ y.thread = NoThread
          /\ y.saved = x.saved /\ y.finish = x.finish /\ y.error = x.error
          /\ y.open = x.open /\ y.chunks = <<>> /\ y.got = x.got
          /\ y.stream = stream /\ y.hit = x.hit
      BY <2>1, <3>1 DEF Request
    <3> HIDE DEF y
    <3>7. Sound(y)
      BY <2>1, <3>2, <3>3, <3>6
         DEF Sound, SettledPlaces, AnalysisPlaces, SavedAt, OpenAt,
             OverridePlaces, Ended
    <3>8. /\ Len(Said(x)) \in Nat /\ Len(x.got) \in Nat /\ Len(x.got) <= Len(Said(x))
          /\ \A i \in 1..Len(x.got) : i \in 1..Len(Said(x)) /\ Said(x)[i] = x.got[i]
          /\ Said(y) = x.got
      <4>1. /\ x.got \in Seq(Events) /\ x.chunks \in Seq(Events)
            /\ Said(x) \in Seq(Events)
            /\ Len(Said(x)) = Len(x.got) + Len(x.chunks)
            /\ \A i \in 1..Len(x.got) : Said(x)[i] = x.got[i]
        BY <2>1, SaidType, Zenon
      <4>2. Len(Said(x)) \in Nat /\ Len(x.got) \in Nat /\ Len(x.chunks) \in Nat
        BY <4>1, LenProperties, Zenon
      <4>3. Said(y) = x.got
        BY <3>6, <4>1, ConcatEmptySeq DEF Said
      <4>4. \A l, m, n \in Nat : n = l + m =>
               l <= n /\ \A i \in 1..l : i \in 1..n
        OBVIOUS
      <4>5. /\ Len(x.got) <= Len(Said(x))
            /\ \A i \in 1..Len(x.got) : i \in 1..Len(Said(x))
        BY <4>1, <4>2, <4>4, Zenon
      <4> QED
        BY <4>1, <4>2, <4>3, <4>5, Zenon
    <3>9. Told(y)
      <4>1. ASSUME NEW i \in 1..Len(Said(y))
            PROVE  /\ Behind(Said(y)[i]) \subseteq y.saved
                   /\ Said(y)[i] = "error" => y.error /\ y.open = {}
                   /\ Said(y)[i] \in Outcomes =>
                         /\ i = Len(Said(y))
                         /\ y.error => Said(y)[i] = "error"
                         /\ y.place \in OutcomePlaces
        <5>1. i \in 1..Len(Said(x)) /\ Said(y)[i] = Said(x)[i]
          BY <3>8
        <5>2. i = Len(Said(x)) => i = Len(Said(y))
          BY <3>8
        <5>3. y.place \in OutcomePlaces
          BY <3>2, <3>6 DEF Ended, OutcomePlaces
        <5> QED
          BY <2>1, <3>6, <5>1, <5>2, <5>3, Zenon DEF Told
      <4>2. y.place \in ToldPlaces /\ ~y.hit /\ y.stream # "left" =>
               Len(Said(y)) # 0 /\ Said(y)[Len(Said(y))] \in Outcomes
        <5>1. SUFFICES ASSUME y.place \in ToldPlaces, ~y.hit, y.stream # "left"
                       PROVE  Len(Said(y)) # 0 /\ Said(y)[Len(Said(y))] \in Outcomes
          OBVIOUS
        <5>2. x.stream = "closed" /\ x.chunks = <<>>
          BY <2>1, <3>3, <3>6, <5>1 DEF Sound
        <5>3. x.place = place
          BY <3>2, <3>6, <5>1 DEF ToldPlaces
        <5>4. Said(y) = Said(x)
          BY <3>6, <5>2 DEF Said
        <5> QED
          BY <2>1, <3>6, <5>1, <5>2, <5>3, <5>4 DEF Told
      <4> QED
        BY <4>1, <4>2, Zenon DEF Told
    <3>10. OnThread(y, session')
      BY <1>2, <3>2, <3>6
         DEF OnThread, OnThreadPlaces, Working, DbPlaces, OtherPlaces, Closing,
             Ended
    <3> QED
      BY <3>5, <3>6, <3>7, <3>9, <3>10 DEF y
  <2> QED
    BY <2>2, <2>3
<1>4. TypeOK'
  <2>1. req' \in [Requests -> Request]
    BY <1>3 DEF Restart
  <2> QED
    BY <1>1, <2>1 DEF TypeOK
<1>5. Alone'
  BY <1>3 DEF Alone
<1> QED
  BY <1>3, <1>4, <1>5 DEF IInv

LEMMA GotIsSaid ==
    ASSUME NEW x \in Request, NEW i \in DOMAIN x.got
    PROVE  i \in 1..Len(Said(x)) /\ Said(x)[i] = x.got[i]
<1>1. /\ x.got \in Seq(Events) /\ x.chunks \in Seq(Events)
      /\ Len(Said(x)) = Len(x.got) + Len(x.chunks)
      /\ \A j \in 1..Len(x.got) : Said(x)[j] = x.got[j]
  BY SaidType, Zenon
<1>2. Len(x.got) \in Nat /\ Len(x.chunks) \in Nat /\ DOMAIN x.got = 1..Len(x.got)
  BY <1>1, LenProperties, Zenon
<1>3. \A l, m \in Nat : \A j \in 1..l : j \in 1..l + m
  OBVIOUS
<1> QED
  BY <1>1, <1>2, <1>3, Zenon

------------------------------------------------------------------------------
(* Theorems                                                                *)

LEMMA InitIInv == Init => IInv
<1> SUFFICES ASSUME Init
             PROVE  IInv
  OBVIOUS
<1>1. MaxFaults \in Nat /\ NoThread \notin Threads
  BY FaultAssumption, ThreadAssumption
<1>2. TypeOK
  <2>1. <<>> \in Seq(Events)
    OBVIOUS
  <2> QED
    BY <1>1, <2>1 DEF Init, TypeOK, Request, Kinds, Places
<1>3. ASSUME NEW r \in Requests
      PROVE  Sound(req[r]) /\ Told(req[r]) /\ OnThread(req[r], session)
  <2> DEFINE x == req[r]
  <2>1. /\ x.kind = "question" /\ x.place = "idle" /\ x.thread = NoThread /\ x.saved = {}
        /\ x.finish = FALSE /\ x.error = FALSE /\ x.open = {}
        /\ x.chunks = <<>> /\ x.got = <<>> /\ x.stream = "none" /\ x.hit = FALSE
    BY DEF Init
  <2>2. Said(x) = <<>> /\ Len(<<>>) = 0
    BY <2>1 DEF Said
  <2> HIDE DEF x
  <2>3. Sound(x)
    BY <2>1
       DEF Sound, SettledPlaces, AnalysisPlaces, SavedAt, OpenAt,
           OverridePlaces, Ended
  <2>4. Told(x)
    BY <2>1, <2>2 DEF Told, ToldPlaces
  <2>5. OnThread(x, session)
    BY <1>1, <2>1
       DEF OnThread, OnThreadPlaces, Working, DbPlaces, OtherPlaces, Closing
  <2> QED
    BY <2>3, <2>4, <2>5 DEF x
<1>4. Alone
  BY DEF Init, Alone
<1> QED
  BY <1>2, <1>3, <1>4 DEF IInv

LEMMA NextIInv == IInv /\ [Next]_vars => IInv'
<1> SUFFICES ASSUME IInv, [Next]_vars
             PROVE  IInv'
  OBVIOUS
<1>1. ASSUME NEW r \in Requests, Task(r)
      PROVE  IInv'
  <2>1. \/ Answer(r) \/ StatementFails(r)
        \/ FinishAnalysis(r) \/ SaveError(r) \/ CloseLogs(r) \/ Finally(r) \/ Cleanup(r)
    BY <1>1, Zenon DEF Task, Answer
  <2> QED
    BY <2>1, AnswerStep, FailStep, EndStep, Zenon
<1>2. CASE UNCHANGED vars
  BY <1>2 DEF vars, IInv, TypeOK, Alone
<1> QED
  BY <1>1, <1>2, StartStep, StreamStep, OverrideStep, RestartStep, Zenon
     DEF Next

\* The invariant of every behaviour: what each request knows, has told and holds.
THEOREM ChatInvariant == Spec => []IInv
BY InitIInv, NextIInv, PTL DEF Spec

\* Records, logs, streams and sessions keep their types.
THEOREM ChatTypeCorrect == Spec => []TypeOK
<1>1. IInv => TypeOK
  BY DEF IInv
<1> QED
  BY <1>1, ChatInvariant, PTL

\* What a browser has been told of is committed, whatever failed or restarted.
THEOREM ChatSavedBeforeSeen == Spec => []SavedBeforeSeen
<1>1. IInv => SavedBeforeSeen
  <2> SUFFICES ASSUME IInv, NEW r \in Requests, NEW e \in Seen(r)
               PROVE  /\ Behind(e) \subseteq req[r].saved
                      /\ e = "error" =>
                            req[r].error /\ req[r].finish /\ req[r].open = {}
    BY DEF SavedBeforeSeen
  <2>1. req[r] \in Request /\ Sound(req[r]) /\ Told(req[r])
    BY DEF IInv, TypeOK
  <2>2. PICK i \in DOMAIN req[r].got : e = req[r].got[i]
    BY DEF Seen
  <2>3. i \in 1..Len(Said(req[r])) /\ Said(req[r])[i] = e
    BY <2>1, <2>2, GotIsSaid
  <2> QED
    BY <2>1, <2>3 DEF Told, Sound
<1> QED
  BY <1>1, ChatInvariant, PTL

\* Nothing is published after an outcome, and none is contradicted by the record.
THEOREM ChatOneOutcome == Spec => []OneOutcome
<1>1. IInv => OneOutcome
  <2> SUFFICES ASSUME IInv, NEW r \in Requests, NEW i \in DOMAIN Said(req[r]),
                      Said(req[r])[i] \in Outcomes
               PROVE  /\ i = Len(Said(req[r]))
                      /\ req[r].error => Said(req[r])[i] = "error"
    BY DEF OneOutcome, Published, Said
  <2>1. req[r] \in Request /\ Told(req[r])
    BY DEF IInv, TypeOK
  <2>2. i \in 1..Len(Said(req[r]))
    BY <2>1, SaidType, LenProperties
  <2> QED
    BY <2>1, <2>2, Zenon DEF Told
<1> QED
  BY <1>1, ChatInvariant, PTL

\* A stream that ends without an outcome belongs to a request of which a
\* statement failed.
THEOREM ChatSilentOnlyIfHit == Spec => []SilentOnlyIfHit
<1>1. IInv => SilentOnlyIfHit
  <2> SUFFICES ASSUME IInv, NEW r \in Requests,
                      req[r].stream = "closed", ~req[r].hit
               PROVE  /\ req[r].got # <<>> /\ req[r].chunks = <<>>
                      /\ req[r].got[Len(req[r].got)] \in Outcomes
                      /\ req[r].saved # {} => req[r].finish /\ req[r].open = {}
    BY DEF SilentOnlyIfHit
  <2> DEFINE x == req[r]
  <2>1. x \in Request /\ Sound(x) /\ Told(x)
    BY DEF IInv, TypeOK
  <2>2. /\ x.place = "done" /\ x.open = {} /\ x.chunks = <<>>
        /\ x.saved # {} => x.finish
    BY <2>1 DEF Sound
  <2>3. Said(x) = x.got
    BY <2>1, <2>2, SaidType, ConcatEmptySeq DEF Said
  <2>4. Len(x.got) # 0 /\ x.got[Len(x.got)] \in Outcomes
    BY <2>1, <2>2, <2>3 DEF Told, ToldPlaces
  <2>5. x.got # <<>>
    BY <2>4
  <2> QED
    BY <2>2, <2>4, <2>5
<1> QED
  BY <1>1, ChatInvariant, PTL

FinalStep == \A r \in Requests :
                req[r].finish => /\ req'[r].finish
                                 /\ req'[r].saved = req[r].saved
                                 /\ req'[r].error = req[r].error

LEMMA FinalTask ==
    ASSUME IInv, NEW r \in Requests, Task(r)
    PROVE  FinalStep
<1> USE DEF At
<1>1. /\ req \in [Requests -> Request] /\ req[r] \in Request
      /\ req[r].finish => req[r].place \in SettledPlaces
      /\ req[r].place = "close_logs" => req[r].error
  BY DEF IInv, TypeOK, Sound
<1> USE DEF SettledPlaces
<1>2. CASE OpenContext(r)
  BY <1>1, <1>2 DEF OpenContext, FinalStep, Request
<1>3. CASE CloseContext(r)
  BY <1>1, <1>3 DEF CloseContext, FinalStep, Request
<1>4. CASE ValidateDatasource(r)
  BY <1>1, <1>4 DEF ValidateDatasource, FinalStep, Request
<1>5. CASE AnnounceFirst(r)
  BY <1>1, <1>5 DEF AnnounceFirst, FinalStep, Request
<1>6. CASE OpenChoice(r)
  BY <1>1, <1>6 DEF OpenChoice, FinalStep, Request
<1>7. CASE ChooseDatasource(r)
  BY <1>1, <1>7 DEF ChooseDatasource, FinalStep, Request
<1>8. CASE Clarify(r)
  BY <1>1, <1>8 DEF Clarify, FinalStep, Request
<1>9. CASE OpenSql(r)
  BY <1>1, <1>9 DEF OpenSql, FinalStep, Request
<1>10. CASE StreamSql(r)
  BY <1>1, <1>10 DEF StreamSql, FinalStep, Request
<1>11. CASE SaveSqlAnswer(r)
  BY <1>1, <1>11 DEF SaveSqlAnswer, FinalStep, Request
<1>12. CASE ApplyOverride(r)
  BY <1>1, <1>12 DEF ApplyOverride, FinalStep, Request
<1>13. CASE RejectSql(r)
  BY <1>1, <1>13 DEF RejectSql, FinalStep, Request
<1>14. CASE OpenPermissions(r)
  BY <1>1, <1>14 DEF OpenPermissions, FinalStep, Request
<1>15. CASE SaveSql(r)
  BY <1>1, <1>15 DEF SaveSql, FinalStep, Request
<1>16. CASE OpenExecute(r)
  BY <1>1, <1>16 DEF OpenExecute, FinalStep, Request
<1>17. CASE SaveData(r)
  BY <1>1, <1>17 DEF SaveData, FinalStep, Request
<1>18. CASE OpenChart(r)
  BY <1>1, <1>18 DEF OpenChart, FinalStep, Request
<1>19. CASE StreamChart(r)
  BY <1>1, <1>19 DEF StreamChart, FinalStep, Request
<1>20. CASE SaveChartAnswer(r)
  BY <1>1, <1>20 DEF SaveChartAnswer, FinalStep, Request
<1>21. CASE SaveChart(r)
  BY <1>1, <1>21 DEF SaveChart, FinalStep, Request
<1>22. CASE AnnounceAnalysis(r)
  BY <1>1, <1>22 DEF AnnounceAnalysis, FinalStep, Request
<1>23. CASE OpenAnalysis(r)
  BY <1>1, <1>23 DEF OpenAnalysis, FinalStep, Request
<1>24. CASE StreamAnalysis(r)
  BY <1>1, <1>24 DEF StreamAnalysis, FinalStep, Request
<1>25. CASE SaveAnalysis(r)
  BY <1>1, <1>25 DEF SaveAnalysis, FinalStep, Request
<1>26. CASE StreamPredict(r)
  BY <1>1, <1>26 DEF StreamPredict, FinalStep, Request
<1>27. CASE SavePredict(r)
  BY <1>1, <1>27 DEF SavePredict, FinalStep, Request
<1>28. CASE SavePredictData(r)
  BY <1>1, <1>28 DEF SavePredictData, FinalStep, Request
<1>29. CASE FinishAnalysis(r)
  BY <1>1, <1>29 DEF FinishAnalysis, FinalStep, Request
<1>30. CASE Raise(r)
  BY <1>1, <1>30 DEF Raise, FinalStep, Working, DbPlaces, OtherPlaces, Request
<1>31. CASE SaveError(r)
  BY <1>1, <1>31 DEF SaveError, FinalStep, Request
<1>32. CASE CloseLogs(r)
  BY <1>1, <1>32 DEF CloseLogs, FinalStep, Request
<1>33. CASE Finally(r)
  BY <1>1, <1>33 DEF Finally, FinalStep, Request
<1>34. CASE Cleanup(r)
  BY <1>1, <1>34 DEF Cleanup, FinalStep, Request
<1>35. CASE StatementFails(r)
  BY <1>1, <1>35 DEF StatementFails, FinalStep, DbPlaces, Request
<1> QED
  BY <1>2, <1>3, <1>4, <1>5, <1>6, <1>7, <1>8, <1>9, <1>10, <1>11, <1>12, <1>13,
     <1>14, <1>15, <1>16, <1>17, <1>18, <1>19, <1>20, <1>21, <1>22, <1>23,
     <1>24, <1>25, <1>26, <1>27, <1>28, <1>29, <1>30, <1>31, <1>32, <1>33,
     <1>34, <1>35
     DEF Task

LEMMA FinalStream ==
    ASSUME IInv, NEW r \in Requests, Stream(r) \/ Leave(r)
    PROVE  FinalStep
<1> USE DEF At
<1>1. /\ req \in [Requests -> Request] /\ req[r] \in Request
      /\ req[r].finish => req[r].place \in SettledPlaces
      /\ req[r].place = "close_logs" => req[r].error
  BY DEF IInv, TypeOK, Sound
<1> USE DEF SettledPlaces
<1>2. CASE Poll(r)
  BY <1>1, <1>2 DEF Poll, FinalStep, Request
<1>3. CASE Deliver(r)
  BY <1>1, <1>3 DEF Deliver, FinalStep, Request
<1>4. CASE CloseStream(r)
  BY <1>1, <1>4 DEF CloseStream, FinalStep, Request
<1>5. CASE Leave(r)
  BY <1>1, <1>5 DEF Leave, FinalStep, Request
<1> QED
  BY <1>2, <1>3, <1>4, <1>5 DEF Stream

LEMMA FinalOverride ==
    ASSUME IInv, NEW r \in Requests, Override(r)
    PROVE  FinalStep
<1> USE DEF At
<1>1. /\ req \in [Requests -> Request] /\ req[r] \in Request
      /\ req[r].finish => req[r].place \in SettledPlaces
      /\ req[r].place = "close_logs" => req[r].error
  BY DEF IInv, TypeOK, Sound
<1> USE DEF SettledPlaces
<1>2. CASE RecordOverride(r)
  BY <1>1, <1>2 DEF RecordOverride, FinalStep, Request, OverridePlaces
<1>3. CASE RunOverride(r)
  BY <1>1, <1>3 DEF RunOverride, FinalStep, Request, OverridePlaces
<1>4. CASE FinishOverride(r)
  BY <1>1, <1>4 DEF FinishOverride, FinalStep, Request, OverridePlaces
<1>5. CASE OverrideFails(r)
  BY <1>1, <1>5 DEF OverrideFails, FinalStep, Request, OverridePlaces
<1> QED
  BY <1>2, <1>3, <1>4, <1>5 DEF Override

LEMMA FinalStart ==
    ASSUME IInv, NEW r \in Requests, Ask(r) \/ \E t \in Threads : Begin(r, t)
    PROVE  FinalStep
<1> USE DEF At
<1>1. /\ req \in [Requests -> Request] /\ req[r] \in Request
      /\ req[r].finish => req[r].place \in SettledPlaces
      /\ req[r].place = "close_logs" => req[r].error
  BY DEF IInv, TypeOK, Sound
<1> USE DEF SettledPlaces
<1>2. CASE AskQuestion(r)
  BY <1>1, <1>2 DEF AskQuestion, FinalStep, Request
<1>3. CASE AskOverride(r)
  BY <1>1, <1>3 DEF AskOverride, FinalStep, Request
<1>4. ASSUME NEW base \in Requests, NEW kind \in Kinds, AskAbout(r, base, kind)
      PROVE  FinalStep
  BY <1>1, <1>4 DEF AskAbout, FinalStep, Request
<1>5. ASSUME NEW t \in Threads, Begin(r, t)
      PROVE  FinalStep
  BY <1>1, <1>5 DEF Begin, FinalStep, Request
<1>6. CASE Refuse(r)
  BY <1>1, <1>6 DEF Refuse, FinalStep, Request
<1> QED
  BY <1>2, <1>3, <1>4, <1>5, <1>6 DEF Ask

LEMMA FinalRestart ==
    ASSUME IInv, Restart
    PROVE  FinalStep
<1>1. req \in [Requests -> Request]
  BY DEF IInv, TypeOK
<1> QED
  BY <1>1 DEF Restart, FinalStep, Request

\* A finished record is never changed again.
THEOREM ChatFinishedIsFinal == Spec => FinishedIsFinal
<1>1. IInv /\ [Next]_vars => [FinalStep]_vars
  <2>1. ASSUME IInv, Next
        PROVE  FinalStep
    BY <2>1, FinalTask, FinalStream, FinalOverride, FinalStart, FinalRestart,
       Zenon
       DEF Next
  <2> QED
    BY <2>1
<1> QED
  BY <1>1, ChatInvariant, PTL DEF Spec, FinishedIsFinal, FinalStep

==============================================================================
