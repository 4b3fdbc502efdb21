--------------------------- MODULE MCFeedbackLoop ---------------------------
(***************************************************************************)
(* Instances of FeedbackLoop for TLC.                                      *)
(***************************************************************************)
EXTENDS FeedbackLoopBoard, TLC

CONSTANTS q1, shown, fixed, unsafe

Feedback(type) == [type |-> type, question |-> q1, matchedSql |-> shown,
                   before |-> FALSE, after |-> FALSE, sql |-> NoText,
                   patchTypes |-> <<>>]

Correction(matched, sql, types) ==
    [Feedback("manual_fix_submit") EXCEPT
        !.matchedSql = matched, !.before = TRUE, !.after = TRUE,
        !.sql = sql, !.patchTypes = types]

\* An override against a matched SQL, one without it in a list with another
\* kind of fix, an override without a corrected statement, an unsafe
\* one, and plain feedback of two kinds.
MCSubmissions ==
    {Feedback("downvote"), Feedback("execution_failure"),
     Correction(shown, fixed, <<"sql_override">>),
     Correction(NoText, fixed, <<"field_mapping_fix", "sql_override">>),
     Correction(shown, NoText, <<"sql_override">>),
     Correction(shown, unsafe, <<"sql_override">>)}

\* Two workers: the interleavings, on fewer payloads.
MCFewSubmissions ==
    {Correction(shown, fixed, <<"sql_override">>),
     Correction(shown, fixed, <<"field_mapping_fix", "field_mapping_fix">>)}

\* For the refinement and the liveness run: the same two kinds of fix in either
\* order.
MCBothOrders ==
    {Correction(shown, fixed, <<"sql_override", "field_mapping_fix">>),
     Correction(shown, fixed, <<"field_mapping_fix", "sql_override">>)}

\* Server processes are interchangeable (used by safety runs only).
Swap == Permutations(Workers)

=============================================================================
