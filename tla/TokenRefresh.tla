----------------------------- MODULE TokenRefresh -----------------------------
(***************************************************************************)
(* How the pages of one browser renew the login token (config/axios/       *)
(* refresh.ts).  The token, its age and a "refreshing" flag that lapses    *)
(* after five seconds live in localStorage, which all tabs share; the list *)
(* of requests held back until the new token is there lives in the memory  *)
(* of each tab.  A request that finds the token old is held; the first one *)
(* that also finds the flag down raises it and asks the server for a new   *)
(* token.                                                                  *)
(*                                                                         *)
(* localStorage has no transactions: the handler finds the token old, looks*)
(* at the flag and raises it in three steps, with those of other tabs in   *)
(* between.  Within a tab nothing comes between them (Busy).               *)
(*                                                                         *)
(* Times are abstracted to two facts that become true by themselves: the   *)
(* token is old (90 seconds), the flag has lapsed (5 seconds).  Tokens are *)
(* numbers in the order in which the server issues them.                   *)
(***************************************************************************)
EXTENDS Integers

CONSTANTS
    Tabs,       \* the tabs of the browser
    Requests,   \* one element for each request the pages make
    NoTab,      \* the tab of what has not been made
    MaxTokens   \* bound on the tokens the server issues

ASSUME TabAssumption == NoTab \notin Tabs
ASSUME TokenAssumption == MaxTokens \in Nat \ {0}

VARIABLES
    token,     \* user.token: the newest token the browser knows, 0 for none
    old,       \* user.time is more than 90 seconds ago
    flag,      \* de-global-refresh
    request,   \* each request of a page
    call,      \* the call of /login/refresh each request may make
    issued,    \* how many tokens the server has issued
    lapsed,    \* (ghost) the flag has lapsed under a call still in flight
    crossed    \* (ghost) a tab has asked beside a call whose flag it missed

vars == <<token, old, flag, request, call, issued, lapsed, crossed>>

\* "old": has found the token old; "first": has found the flag down as well;
\* "missed": the same, but another tab has raised the flag since.  "stranded"
\* marks a held request for which no call of its tab is under way any more.
Request == [tab : Tabs \union {NoTab},
            place : {"unmade", "old", "first", "missed", "held", "sent", "gone"},
            stranded : BOOLEAN]

\* "over" marks a call during or before which the user has logged out.
Call == [tab : Tabs \union {NoTab},
         place : {"none", "asked", "issued"},
         token : 0..MaxTokens,
         over : BOOLEAN]

NoCall == [tab |-> NoTab, place |-> "none", token |-> 0, over |-> FALSE]

InFlight == {c \in Requests : call[c].place \in {"asked", "issued"}}
InFlightOf(t) == {c \in InFlight : call[c].tab = t}
Held(t) == {r \in Requests : request[r].place = "held" /\ request[r].tab = t}

\* The requests the handler of a tab is at work on.  The handler does not wait
\* for anything, so nothing else runs in the tab until it is done.
Handled(t) ==
    {r \in Requests : request[r].place \in {"old", "first", "missed"} /\ request[r].tab = t}
Busy(t) == Handled(t) # {}

Init ==
    /\ token = 1 /\ issued = 1
    /\ old = FALSE
    /\ flag = FALSE
    /\ request = [r \in Requests |-> [tab |-> NoTab, place |-> "unmade",
                                      stranded |-> FALSE]]
    /\ call = [c \in Requests |-> NoCall]
    /\ lapsed = FALSE /\ crossed = FALSE

(* A request of a page                                                     *)

Away(place) == [tab |-> NoTab, place |-> place, stranded |-> FALSE]

\* Without a token, or with one that is not old, it leaves at once.
SendAtOnce(t, r) ==
    /\ request[r].place = "unmade" /\ ~Busy(t)
    /\ token = 0 \/ ~old
    /\ request' = [request EXCEPT ![r] = Away("sent")]
    /\ UNCHANGED <<token, old, flag, call, issued, lapsed, crossed>>

FindOld(t, r) ==
    /\ request[r].place = "unmade" /\ ~Busy(t)
    /\ token # 0 /\ old
    /\ request' = [request EXCEPT ![r] = [tab |-> t, place |-> "old", stranded |-> FALSE]]
    /\ UNCHANGED <<token, old, flag, call, issued, lapsed, crossed>>

\* Mutant: The flag is not shared: each tab only looks at its own calls.
FindOwnFlagDown(r) ==
    /\ request[r].place = "old" /\ InFlightOf(request[r].tab) = {}
    /\ request' = [request EXCEPT ![r].place = "first"]
    /\ UNCHANGED <<token, old, flag, call, issued, lapsed, crossed>>

\* Nobody is asking for a new token: this request will.
FindFlagDown(r) ==
    /\ request[r].place = "old" /\ ~flag
    /\ request' = [request EXCEPT ![r].place = "first"]
    /\ UNCHANGED <<token, old, flag, call, issued, lapsed, crossed>>

\* It raises the flag, asks and waits for its own call.  Who has found the flag
\* down as well will ask beside it.
HoldAndAsk(r) ==
    /\ request[r].place \in {"first", "missed"}
    /\ flag' = TRUE
    /\ crossed' = (crossed \/ (request[r].place = "missed" /\ InFlight # {}))
    /\ call' = [call EXCEPT ![r] = [tab |-> request[r].tab, place |-> "asked",
                                    token |-> 0, over |-> token = 0]]
    /\ request' = [s \in Requests |->
           IF s = r THEN [request[s] EXCEPT !.place = "held"]
           ELSE IF request[s].place = "first"
           THEN [request[s] EXCEPT !.place = "missed"]
           ELSE request[s]]
    /\ UNCHANGED <<token, old, issued, lapsed>>

\* The others only wait, whoever has raised the flag.
Hold(r) ==
    /\ request[r].place = "old" /\ flag
    /\ request' = [request EXCEPT ![r].place = "held",
                                  ![r].stranded = (InFlightOf(request[r].tab) = {})]
    /\ UNCHANGED <<token, old, flag, call, issued, lapsed, crossed>>

(* The answer of /login/refresh                                            *)

\* The server issues a token; a call may also be answered without one.
Issue(c) ==
    /\ call[c].place = "asked" /\ issued < MaxTokens
    /\ issued' = issued + 1
    /\ call' = [call EXCEPT ![c].place = "issued", ![c].token = issued + 1]
    /\ UNCHANGED <<token, old, flag, request, lapsed, crossed>>

\* Mutant: The answer sends only one of the requests that wait.
ReleaseOne(t) ==
    \E s \in Held(t) \union {CHOOSE r \in Requests : TRUE} :
        request' = [r \in Requests |->
            IF r = s /\ r \in Held(t) THEN Away("sent") ELSE request[r]]

\* Every request of the tab that waits is sent.
Release(t) ==
    request' = [r \in Requests |-> IF r \in Held(t) THEN Away("sent") ELSE request[r]]

\* Nothing of the tab is under way any more: who still waits is stranded.
Strand(t, c) ==
    request' = [r \in Requests |->
        IF r \in Held(t) /\ InFlightOf(t) = {c}
        THEN [request[r] EXCEPT !.stranded = TRUE]
        ELSE request[r]]

\* Whatever the answer, the flag comes down.
Finally(c) ==
    /\ flag' = FALSE
    /\ call' = [call EXCEPT ![c] = NoCall]
    /\ lapsed' = (lapsed /\ InFlight # {c})
    /\ crossed' = (crossed /\ InFlight # {c})

AnswerToken(c) ==
    /\ call[c].place = "issued" /\ ~Busy(call[c].tab)
    /\ token' = call[c].token
    /\ old' = FALSE
    /\ Release(call[c].tab)
    /\ Finally(c)
    /\ UNCHANGED issued

\* Mutant: The requests that wait are only sent when there is a token for them.
AnswerNothingKeeps(c) ==
    /\ call[c].place = "asked" /\ ~Busy(call[c].tab)
    /\ Finally(c)
    /\ UNCHANGED <<token, old, issued, request>>

\* A failed login or an error status other than 400 answers without a token:
\* who waits is sent without one.
AnswerNothing(c) ==
    /\ call[c].place = "asked" /\ ~Busy(call[c].tab)
    /\ Release(call[c].tab)
    /\ Finally(c)
    /\ UNCHANGED <<token, old, issued>>

\* The network fails or the server refuses: the error is logged, nobody is sent.
Fail(c) ==
    /\ c \in InFlight /\ ~Busy(call[c].tab)
    /\ Strand(call[c].tab, c)
    /\ Finally(c)
    /\ UNCHANGED <<token, old, issued>>

(* What happens around it                                                  *)

GrowOld ==
    /\ token # 0 /\ ~old
    /\ old' = TRUE
    /\ UNCHANGED <<token, flag, request, call, issued, lapsed, crossed>>

\* Five seconds after it was raised the flag is gone, answer or not.
Lapse ==
    /\ flag
    /\ flag' = FALSE
    /\ lapsed' = (lapsed \/ InFlight # {})
    /\ UNCHANGED <<token, old, request, call, issued, crossed>>

\* A tab is reloaded or closed: its list and its answers are lost, the flag is
\* not.
Reload(t) ==
    /\ Held(t) \union Handled(t) # {} \/ InFlightOf(t) # {}
    /\ request' = [r \in Requests |->
           IF r \in Held(t) \union Handled(t) THEN Away("gone") ELSE request[r]]
    /\ call' = [c \in Requests |->
           IF c \in InFlightOf(t) THEN NoCall ELSE call[c]]
    /\ lapsed' = (lapsed /\ InFlight # InFlightOf(t))
    /\ crossed' = (crossed /\ InFlight # InFlightOf(t))
    /\ UNCHANGED <<token, old, flag, issued>>

\* The user logs out, in whatever tab; answers under way are not called off.
Logout ==
    /\ token # 0
    /\ token' = 0
    /\ old' = FALSE
    /\ call' = [c \in Requests |->
           IF c \in InFlight THEN [call[c] EXCEPT !.over = TRUE] ELSE call[c]]
    /\ UNCHANGED <<flag, request, issued, lapsed, crossed>>

\* The login page stores the token it is given.
Login ==
    /\ token = 0 /\ issued < MaxTokens
    /\ issued' = issued + 1
    /\ token' = issued + 1
    /\ old' = FALSE
    /\ UNCHANGED <<flag, request, call, lapsed, crossed>>

\* The handler at work: what follows once a request has found the token old.
Proceed(r) == FindFlagDown(r) \/ HoldAndAsk(r) \/ Hold(r)

Settle(c) == AnswerToken(c) \/ AnswerNothing(c) \/ Fail(c)

Next ==
    \/ \E t \in Tabs, r \in Requests : SendAtOnce(t, r) \/ FindOld(t, r)
    \/ \E r \in Requests : Proceed(r)
    \/ \E t \in Tabs : Reload(t)
    \/ \E c \in Requests : Issue(c) \/ Settle(c)
    \/ GrowOld \/ Lapse \/ Logout \/ Login

Spec == Init /\ [][Next]_vars

\* A handler that has begun comes to its end, and every call is answered or
\* fails: axios gives up after a time.
FairSpec == Spec /\ \A r \in Requests : WF_vars(Proceed(r)) /\ WF_vars(Settle(r))

(* Properties                                                              *)

\* Every request and every call is in a place the code knows, and the token is
\* one the server has issued.
TypeOK ==
    /\ token \in 0..issued
    /\ issued \in 1..MaxTokens
    /\ old \in BOOLEAN /\ flag \in BOOLEAN /\ lapsed \in BOOLEAN /\ crossed \in BOOLEAN
    /\ request \in [Requests -> Request]
    /\ call \in [Requests -> Call]
    /\ \A c \in Requests : call[c].token <= issued

\* One refresh for the whole browser: no two calls are in flight, unless the
\* flag lapsed under a slow call, or two tabs found it down before either had
\* raised it (refresh.ts 59 and 60 are two operations on localStorage).
OneRefreshAtATime ==
    ~lapsed /\ ~crossed => \A c, d \in InFlight : c = d

\* A held request has a call of its own tab to wait for, or is known to be
\* stranded: it was held under another tab's flag, or its tab's call failed.
HeldIsWaitedFor ==
    \A r \in Requests :
        request[r].place = "held" /\ ~request[r].stranded =>
            InFlightOf(request[r].tab) # {}

\* The token never goes back to an older one, unless two calls were under way
\* (the flag lapsed, or two tabs found it down at once) and the older answer
\* comes last, or the user logged out and in again under a slow call, whose
\* answer then takes the new login away.
TokenNeverGoesBack ==
    [][token' # 0 /\ token' < token =>
           lapsed \/ crossed \/ \E c \in InFlight : call[c].over]_vars

\* A request that waits for a call of its tab leaves, unless that call fails or
\* the page goes away.
WaitingEnds ==
    \A r \in Requests :
        request[r].place = "held" /\ ~request[r].stranded
            ~> request[r].place # "held" \/ request[r].stranded
===============================================================================
