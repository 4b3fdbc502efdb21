--------------------------- MODULE FeedbackMetrics ---------------------------
(***************************************************************************)
(* The arithmetic of the feedback loop of the query-resource learning      *)
(* service (SQLBot/backend/apps/query_resource_learning/service.py): how a *)
(* set of feedback events becomes the row of the metric table, and how the *)
(* rates of that row become a relearning decision.  Everything here is a   *)
(* pure function; the state machine that stores the rows is FeedbackLoop.  *)
(*                                                                         *)
(* An event is a record with at least the fields "type" and "created"; a   *)
(* point in time is a number of days.                                      *)
(***************************************************************************)
EXTENDS Integers, FiniteSets

RateEventTypes == {"upvote", "downvote", "execution_failure", "manual_fix_submit"}

EventTypes == RateEventTypes \union {"manual_fix_disable"}

FeedbackWindowDays == 7
FailureRateThreshold == 30
DownvoteRateThreshold == 20

\* Python's round() takes a tie to the even neighbour.
Percentage(count, total) ==
    IF total <= 0 THEN 0
    ELSE LET floor == (100 * count) \div total
             twiceRest == 2 * ((100 * count) % total)
         IN  IF \/ twiceRest < total
                \/ twiceRest = total /\ floor % 2 = 0
             THEN floor
             ELSE floor + 1

\* The three fields of the decision (suggested, reason, advice) are all
\* functions of the reason: suggested iff it is not "observe".
RelearningDecision(failureRate, downvoteRate, schemaChanged) ==
    IF schemaChanged THEN "schema_changed"
    ELSE IF failureRate >= FailureRateThreshold THEN "failure_rate_high"
    ELSE IF downvoteRate >= DownvoteRateThreshold THEN "downvote_rate_high"
    ELSE "observe"

Reasons == {"schema_changed", "failure_rate_high", "downvote_rate_high", "observe"}

Never == -1

OfType(evs, type) == {e \in evs : e.type = type}

LastEventAt(evs) ==
    IF evs = {} THEN Never
    ELSE LET last == CHOOSE e \in evs : \A f \in evs : f.created <= e.created
         IN  last.created

\* Disable events are bookkeeping: they move last_event_at but no rate.
MetricPayload(evs, now) ==
    LET feedback == {e \in evs : e.type \in RateEventTypes}
        window   == {e \in feedback : e.created >= now - FeedbackWindowDays}
        Rate(type) == Percentage(Cardinality(OfType(window, type)), Cardinality(window))
    IN  [lifetimeTotal       |-> Cardinality(feedback),
         lifetimeDownvotes   |-> Cardinality(OfType(feedback, "downvote")),
         lifetimeFailures    |-> Cardinality(OfType(feedback, "execution_failure")),
         lifetimeCorrections |-> Cardinality(OfType(feedback, "manual_fix_submit")),
         windowTotal         |-> Cardinality(window),
         downvoteRate        |-> Rate("downvote"),
         failureRate         |-> Rate("execution_failure"),
         correctionRate      |-> Rate("manual_fix_submit"),
         reason              |-> RelearningDecision(Rate("execution_failure"),
                                                    Rate("downvote"), FALSE),
         lastEventAt         |-> LastEventAt(evs),
         updatedAt           |-> now]

MetricRow == [lifetimeTotal: Nat, lifetimeDownvotes: Nat, lifetimeFailures: Nat,
              lifetimeCorrections: Nat, windowTotal: Nat, downvoteRate: Nat,
              failureRate: Nat, correctionRate: Nat, reason: Reasons,
              lastEventAt: Nat \union {Never}, updatedAt: Nat]

\* Mutant: the row is incremented instead of replaced by the recount.
IncrementColumns(stored, loaded, payload) ==
    [payload EXCEPT !.lifetimeTotal = stored.lifetimeTotal + 1]

\* The ORM's UPDATE names only the columns whose computed value differs from
\* the value the session loaded; the others keep what is stored by then.
UpdateColumns(stored, loaded, payload) ==
    LET Column(was, read, new) == IF new # read THEN new ELSE was
    IN  [lifetimeTotal       |-> Column(stored.lifetimeTotal, loaded.lifetimeTotal,
                                        payload.lifetimeTotal),
         lifetimeDownvotes   |-> Column(stored.lifetimeDownvotes, loaded.lifetimeDownvotes,
                                        payload.lifetimeDownvotes),
         lifetimeFailures    |-> Column(stored.lifetimeFailures, loaded.lifetimeFailures,
                                        payload.lifetimeFailures),
         lifetimeCorrections |-> Column(stored.lifetimeCorrections,
                                        loaded.lifetimeCorrections,
                                        payload.lifetimeCorrections),
         windowTotal         |-> Column(stored.windowTotal, loaded.windowTotal,
                                        payload.windowTotal),
         downvoteRate        |-> Column(stored.downvoteRate, loaded.downvoteRate,
                                        payload.downvoteRate),
         failureRate         |-> Column(stored.failureRate, loaded.failureRate,
                                        payload.failureRate),
         correctionRate      |-> Column(stored.correctionRate, loaded.correctionRate,
                                        payload.correctionRate),
         reason              |-> Column(stored.reason, loaded.reason, payload.reason),
         lastEventAt         |-> Column(stored.lastEventAt, loaded.lastEventAt,
                                        payload.lastEventAt),
         updatedAt           |-> Column(stored.updatedAt, loaded.updatedAt,
                                        payload.updatedAt)]
==============================================================================
