--------------------------- MODULE TokenRefreshProofs ---------------------------
(***************************************************************************)
(* Proofs about TokenRefresh for any number of tabs, requests and tokens.  *)
(* TypeOK is inductive as it stands.  OneRefreshAtATime is not: it needs   *)
(* that while a call is in flight that the flag has not lapsed under and   *)
(* no other has joined, the flag is up and no request believes it down     *)
(* (FlagIsUp).  That no answer takes the token back needs both, and that   *)
(* the token of the one call in flight is not older than the browser's     *)
(* (AnswerIsNewer).                                                        *)
(***************************************************************************)
EXTENDS TokenRefresh, TLAPS

\* The flag tells of the call in flight, to all who look and have looked.
FlagIsUp ==
    ~lapsed /\ ~crossed /\ InFlight # {} =>
        flag /\ \A r \in Requests : request[r].place # "first"

\* A call in flight keeps the token it was asked with until the user logs out.
AnswerIsNewer ==
    ~lapsed /\ ~crossed =>
        \A c \in InFlight :
            ~call[c].over => token # 0 /\ (call[c].place = "issued" => call[c].token >= token)

IInv == TypeOK /\ OneRefreshAtATime /\ FlagIsUp /\ AnswerIsNewer

-------------------------------------------------------------------------------
(* Types                                                                   *)

\* What the steps write has the type of what it replaces.
LEMMA RecordTypes ==
    /\ \A t \in Tabs : [tab |-> t, place |-> "old", stranded |-> FALSE] \in Request
    /\ \A p \in {"unmade", "sent", "gone"} : Away(p) \in Request
    /\ \A x \in Request, b \in BOOLEAN :
           /\ [x EXCEPT !.place = "first"] \in Request
           /\ [x EXCEPT !.place = "missed"] \in Request
           /\ [x EXCEPT !.place = "held"] \in Request
           /\ [x EXCEPT !.place = "held", !.stranded = b] \in Request
           /\ [x EXCEPT !.stranded = TRUE] \in Request
<1>1. \A p \in {"unmade", "sent", "gone"} : Away(p) \in Request
  BY DEF Request, Away
<1> QED
  BY <1>1 DEF Request

LEMMA CallTypes ==
    /\ NoCall \in Call
    /\ \A x \in Request, b \in BOOLEAN :
           [tab |-> x.tab, place |-> "asked", token |-> 0, over |-> b] \in Call
    /\ \A x \in Call : [x EXCEPT !.over = TRUE] \in Call
    /\ \A x \in Call, n \in 0..MaxTokens :
           [x EXCEPT !.place = "issued", !.token = n] \in Call
<1>1. 0 \in 0..MaxTokens
  BY TokenAssumption
<1>2. NoCall \in Call
  BY <1>1 DEF Call, NoCall
<1>3. \A x \in Request, b \in BOOLEAN :
          [tab |-> x.tab, place |-> "asked", token |-> 0, over |-> b] \in Call
  BY <1>1 DEF Call, Request
<1>4. \A x \in Call : [x EXCEPT !.over = TRUE] \in Call
  BY DEF Call
<1>5. \A x \in Call, n \in 0..MaxTokens :
          [x EXCEPT !.place = "issued", !.token = n] \in Call
  BY DEF Call
<1> QED
  BY <1>2, <1>3, <1>4, <1>5

LEMMA Numbers ==
    ASSUME TypeOK
    PROVE  /\ MaxTokens \in Nat /\ issued \in Nat /\ token \in Nat
           /\ 1 <= issued /\ issued <= MaxTokens /\ token <= issued
           /\ \A c \in Requests : call[c].token \in Nat /\ call[c].token <= issued
<1>1. MaxTokens \in Nat /\ issued \in Nat /\ 1 <= issued /\ issued <= MaxTokens
  BY TokenAssumption DEF TypeOK
<1>2. token \in Nat /\ token <= issued
  BY <1>1 DEF TypeOK
<1>3. \A c \in Requests : call[c] \in Call
  BY DEF TypeOK
<1>4. \A c \in Requests : call[c].token \in Nat
  BY <1>3 DEF Call
<1> QED
  BY <1>1, <1>2, <1>4 DEF TypeOK

LEMMA TypeInit == Init => TypeOK
<1> SUFFICES ASSUME Init PROVE TypeOK
  OBVIOUS
<1>1. Away("unmade") \in Request /\ NoCall \in Call /\ NoCall.token = 0
  BY RecordTypes, CallTypes DEF NoCall
<1>2. request \in [Requests -> Request] /\ call \in [Requests -> Call]
  BY <1>1 DEF Init, Away
<1>3. \A c \in Requests : call[c].token <= issued
  BY <1>1 DEF Init
<1>4. token \in 0..issued /\ issued \in 1..MaxTokens
  BY TokenAssumption DEF Init
<1> QED
  BY <1>2, <1>3, <1>4 DEF Init, TypeOK

\* A step that ends a call, or several, keeps the types of the calls.
LEMMA CallsEnd ==
    ASSUME TypeOK, NEW S \in SUBSET Requests,
           call' = [c \in Requests |-> IF c \in S THEN NoCall ELSE call[c]],
           issued' = issued
    PROVE  /\ call' \in [Requests -> Call]
           /\ \A c \in Requests : call'[c].token <= issued'
<1>1. call' \in [Requests -> Call]
  BY CallTypes DEF TypeOK
<1>2. NoCall.token = 0
  BY DEF NoCall
<1>3. \A c \in Requests : call'[c] = NoCall \/ call'[c] = call[c]
  OBVIOUS
<1> QED
  BY <1>1, <1>2, <1>3, Numbers

LEMMA FinallyEnds ==
    ASSUME TypeOK, NEW c \in Requests, Finally(c)
    PROVE  call' = [d \in Requests |-> IF d \in {c} THEN NoCall ELSE call[d]]
BY DEF TypeOK, Finally

LEMMA TypeStep == TypeOK /\ [Next]_vars => TypeOK'
<1> SUFFICES ASSUME TypeOK, [Next]_vars PROVE TypeOK'
  OBVIOUS
<1> USE DEF TypeOK
<1>1. CASE \E t \in Tabs, r \in Requests : SendAtOnce(t, r) \/ FindOld(t, r)
  BY <1>1, RecordTypes DEF SendAtOnce, FindOld
<1>8. CASE \E r \in Requests : Proceed(r)
  <2>1. PICK r \in Requests : Proceed(r)
    BY <1>8
  <2>2. request[r] \in Request /\ request[r].tab \in Tabs \union {NoTab}
    BY DEF Request
  <2>3. CASE FindFlagDown(r)
    BY <2>2, <2>3, RecordTypes DEF FindFlagDown
  <2>4. CASE HoldAndAsk(r)
    <3> DEFINE new == [tab |-> request[r].tab, place |-> "asked",
                       token |-> 0, over |-> token = 0]
    <3>1. call' = [call EXCEPT ![r] = new] /\ new.token = 0
      BY <2>4 DEF HoldAndAsk
    <3>2. new \in Call
      BY <2>2, CallTypes
    <3> HIDE DEF new
    <3>3. call' \in [Requests -> Call]
      BY <3>1, <3>2
    <3>4. \A d \in Requests : call'[d].token <= issued
      BY <3>1, TokenAssumption
    <3>5. request' \in [Requests -> Request]
      BY <2>4, RecordTypes DEF HoldAndAsk
    <3>6. crossed' \in BOOLEAN
      BY <2>4 DEF HoldAndAsk
    <3> QED
      BY <2>4, <3>3, <3>4, <3>5, <3>6 DEF HoldAndAsk
  <2>5. CASE Hold(r)
    <3>1. request' \in [Requests -> Request]
      BY <2>2, <2>5, RecordTypes DEF Hold
    <3> QED
      BY <2>5, <3>1 DEF Hold
  <2> QED
    BY <2>1, <2>3, <2>4, <2>5 DEF Proceed
<1>2. CASE \E t \in Tabs : Reload(t)
  <2>1. PICK t \in Tabs : Reload(t)
    BY <1>2
  <2>2. InFlightOf(t) \in SUBSET Requests
    BY DEF InFlightOf, InFlight
  <2>3. call' \in [Requests -> Call] /\ \A c \in Requests : call'[c].token <= issued'
    BY <2>1, <2>2, CallsEnd DEF Reload
  <2>4. request' \in [Requests -> Request]
    BY <2>1, RecordTypes DEF Reload
  <2> QED
    BY <2>1, <2>3, <2>4 DEF Reload
<1>3. CASE \E c \in Requests : Issue(c)
  <2>1. PICK c \in Requests : Issue(c)
    BY <1>3
  <2>2. /\ issued' = issued + 1
        /\ issued + 1 \in 0..MaxTokens
        /\ issued + 1 \in 1..MaxTokens
        /\ token \in 0..(issued + 1)
    BY <2>1, Numbers DEF Issue
  <2> DEFINE new == [call[c] EXCEPT !.place = "issued", !.token = issued + 1]
  <2>3. call' = [call EXCEPT ![c] = new]
    BY <2>1 DEF Issue
  <2>4. new \in Call /\ new.token = issued + 1
    BY <2>2, CallTypes DEF Call
  <2>5. call' \in [Requests -> Call] /\ \A d \in Requests : call'[d].token <= issued'
    <3> HIDE DEF new
    <3>1. \A d \in Requests : call[d].token \in 0..MaxTokens
      BY DEF Call
    <3> QED
      BY <2>2, <2>3, <2>4, <3>1
  <2> QED
    BY <2>1, <2>2, <2>5 DEF Issue
<1>4. CASE \E c \in Requests : Settle(c)
  <2>1. PICK c \in Requests : Settle(c)
    BY <1>4
  <2>2. Finally(c) /\ issued' = issued
    BY <2>1 DEF Settle, AnswerToken, AnswerNothing, Fail
  <2>3. call' \in [Requests -> Call] /\ \A d \in Requests : call'[d].token <= issued'
    BY <2>2, FinallyEnds, CallsEnd
  <2>4. request' \in [Requests -> Request]
    BY <2>1, RecordTypes DEF Settle, AnswerToken, AnswerNothing, Fail, Release, Strand
  <2>5. token' \in 0..issued' /\ old' \in BOOLEAN
    <3>1. token' \in {token, call[c].token} /\ old' \in {old, FALSE}
      BY <2>1 DEF Settle, AnswerToken, AnswerNothing, Fail
    <3>2. token' \in 0..issued
      BY <3>1, Numbers
    <3> QED
      BY <2>2, <3>1, <3>2
  <2>6. /\ issued' \in 1..MaxTokens /\ flag' \in BOOLEAN
        /\ lapsed' \in BOOLEAN /\ crossed' \in BOOLEAN
    BY <2>2 DEF Finally
  <2> QED
    BY <2>3, <2>4, <2>5, <2>6
<1>5. CASE GrowOld \/ Lapse \/ UNCHANGED vars
  BY <1>5 DEF GrowOld, Lapse, vars
<1>7. CASE Login
  <2>1. issued' \in 1..MaxTokens /\ token' \in 0..issued'
    BY <1>7, Numbers DEF Login
  <2>2. \A c \in Requests : call'[c].token <= issued'
    BY <1>7, Numbers DEF Login
  <2> QED
    BY <1>7, <2>1, <2>2 DEF Login
<1>6. CASE Logout
  <2>1. call' \in [Requests -> Call]
    BY <1>6, CallTypes DEF Logout
  <2>2. \A c \in Requests : [call[c] EXCEPT !.over = TRUE].token = call[c].token
    BY DEF Call
  <2>3. \A c \in Requests : call'[c].token = call[c].token
    BY <1>6, <2>2 DEF Logout
  <2>4. token' \in 0..issued'
    BY <1>6, Numbers DEF Logout
  <2> QED
    BY <1>6, <2>1, <2>3, <2>4 DEF Logout
<1> QED
  BY <1>1, <1>2, <1>3, <1>4, <1>5, <1>6, <1>7, <1>8 DEF Next

\* Every request and every call is in a place the code knows, and the token of
\* the browser is one the server has issued.
THEOREM TypeCorrect == Spec => []TypeOK
BY TypeInit, TypeStep, PTL DEF Spec

-------------------------------------------------------------------------------
(* The one call in flight                                                  *)

\* A step that ends calls and lowers no flag of the others.
LEMMA FewerInFlight ==
    ASSUME TypeOK, NEW S \in SUBSET Requests,
           call' = [c \in Requests |-> IF c \in S THEN NoCall ELSE call[c]]
    PROVE  /\ InFlight' = InFlight \ S
           /\ \A c \in InFlight' : call'[c] = call[c]
BY DEF InFlight, NoCall

\* A call that is answered or fails is the only one, unless the flag lapsed or
\* another had joined it: then nothing is in flight any more.
LEMMA FinallyLeavesNone ==
    ASSUME IInv, NEW c \in InFlight, Finally(c)
    PROVE  /\ InFlight' = InFlight \ {c}
           /\ ~lapsed' /\ ~crossed' => InFlight' = {}
<1>1. c \in Requests
  BY DEF InFlight
<1>2. InFlight' = InFlight \ {c}
  BY <1>1, FinallyEnds, FewerInFlight DEF IInv
<1>3. CASE lapsed \/ crossed
  BY <1>2, <1>3 DEF Finally
<1>4. CASE ~lapsed /\ ~crossed
  BY <1>2, <1>4 DEF IInv, OneRefreshAtATime
<1> QED
  BY <1>2, <1>3, <1>4

LEMMA SettleInFlight ==
    ASSUME NEW c \in Requests, Settle(c)
    PROVE  c \in InFlight /\ Finally(c)
BY DEF Settle, AnswerToken, AnswerNothing, Fail, InFlight

\* The invariant says nothing of a state where nothing is in flight or the
\* flag has lapsed or was missed.
LEMMA NothingToShow ==
    ASSUME lapsed \/ crossed \/ InFlight = {}
    PROVE  OneRefreshAtATime /\ FlagIsUp /\ AnswerIsNewer
BY DEF OneRefreshAtATime, FlagIsUp, AnswerIsNewer

LEMMA OneStep == IInv /\ TypeOK' /\ [Next]_vars => IInv'
<1> SUFFICES ASSUME IInv, TypeOK', [Next]_vars
             PROVE  (OneRefreshAtATime /\ FlagIsUp /\ AnswerIsNewer)'
  BY DEF IInv
<1>a. TypeOK /\ OneRefreshAtATime /\ FlagIsUp /\ AnswerIsNewer
  BY DEF IInv
<1>b. SUFFICES ASSUME ~lapsed', ~crossed', InFlight' # {}
               PROVE  (OneRefreshAtATime /\ FlagIsUp /\ AnswerIsNewer)'
  BY NothingToShow DEF OneRefreshAtATime, FlagIsUp, AnswerIsNewer
<1>1. CASE \E t \in Tabs, r \in Requests : SendAtOnce(t, r) \/ FindOld(t, r)
  <2>1. PICK t \in Tabs, r \in Requests : SendAtOnce(t, r) \/ FindOld(t, r)
    BY <1>1
  <2>2. \A s \in Requests : request'[s].place = "first" => request[s].place = "first"
    BY <1>a, <2>1 DEF SendAtOnce, FindOld, Away, TypeOK
  <2>3. /\ call' = call /\ lapsed' = lapsed /\ crossed' = crossed /\ flag' = flag
        /\ token' = token /\ InFlight' = InFlight
    BY <2>1 DEF SendAtOnce, FindOld, InFlight
  <2> QED
    BY <1>a, <1>b, <2>2, <2>3 DEF OneRefreshAtATime, FlagIsUp, AnswerIsNewer
<1>9. CASE \E r \in Requests : Proceed(r)
  <2>1. PICK r \in Requests : Proceed(r)
    BY <1>9
  <2>a. request[r] \in Request
    BY <1>a DEF TypeOK
  <2>2. CASE FindFlagDown(r)
    <3>1. ~flag /\ InFlight' = InFlight /\ lapsed' = lapsed /\ crossed' = crossed
      BY <2>2 DEF FindFlagDown, InFlight
    <3> QED
      BY <1>a, <1>b, <3>1 DEF FlagIsUp
  <2>3. CASE HoldAndAsk(r)
    <3>1. lapsed' = lapsed /\ ~crossed /\ token' = token /\ flag'
      BY <1>b, <2>3 DEF HoldAndAsk
    <3>2. InFlight = {}
      <4>1. CASE request[r].place = "first"
        BY <1>a, <1>b, <3>1, <4>1 DEF FlagIsUp
      <4>2. CASE request[r].place = "missed"
        <5>1. crossed' = (crossed \/ (request[r].place = "missed" /\ InFlight # {}))
          BY <2>3 DEF HoldAndAsk
        <5> QED
          BY <1>b, <4>2, <5>1
      <4> QED
        BY <2>3, <4>1, <4>2 DEF HoldAndAsk
    <3>3. \A d \in InFlight' : d = r
      BY <1>a, <2>3, <3>2 DEF HoldAndAsk, InFlight, TypeOK
    <3>4. call'[r].place = "asked" /\ call'[r].over = (token = 0)
      BY <1>a, <2>3 DEF HoldAndAsk, TypeOK
    <3>5. \A s \in Requests : request'[s].place # "first"
      <4> SUFFICES ASSUME NEW s \in Requests PROVE request'[s].place # "first"
        OBVIOUS
      <4>1. request[s] \in Request
        BY <1>a DEF TypeOK
      <4>2. CASE s = r
        BY <2>3, <4>1, <4>2 DEF HoldAndAsk, Request
      <4>3. CASE s # r /\ request[s].place = "first"
        BY <2>3, <4>1, <4>3 DEF HoldAndAsk, Request
      <4>4. CASE s # r /\ request[s].place # "first"
        BY <2>3, <4>4 DEF HoldAndAsk
      <4> QED
        BY <4>2, <4>3, <4>4
    <3> QED
      BY <3>1, <3>3, <3>4, <3>5 DEF OneRefreshAtATime, FlagIsUp, AnswerIsNewer
  <2>4. CASE Hold(r)
    <3>1. request'[r].place = "held"
      BY <1>a, <2>a, <2>4 DEF Hold, TypeOK, Request
    <3>2. \A s \in Requests : s # r => request'[s] = request[s]
      BY <1>a, <2>4 DEF Hold, TypeOK
    <3>3. /\ call' = call /\ lapsed' = lapsed /\ crossed' = crossed /\ flag' = flag
          /\ token' = token /\ InFlight' = InFlight
      BY <2>4 DEF Hold, InFlight
    <3> QED
      BY <1>a, <1>b, <3>1, <3>2, <3>3 DEF OneRefreshAtATime, FlagIsUp, AnswerIsNewer
  <2> QED
    BY <2>1, <2>2, <2>3, <2>4 DEF Proceed
<1>2. CASE \E t \in Tabs : Reload(t)
  <2>1. PICK t \in Tabs : Reload(t)
    BY <1>2
  <2>2. InFlightOf(t) \in SUBSET Requests /\ InFlightOf(t) \subseteq InFlight
    BY DEF InFlightOf, InFlight
  <2>3. InFlight' = InFlight \ InFlightOf(t) /\ \A c \in InFlight' : call'[c] = call[c]
    BY <1>a, <2>1, <2>2, FewerInFlight DEF Reload
  <2>4. ~lapsed /\ ~crossed
    BY <1>b, <2>1, <2>2, <2>3 DEF Reload
  <2>5. flag' = flag /\ token' = token
    BY <2>1 DEF Reload
  <2>7. \A r \in Requests : request'[r].place = "first" => request[r].place = "first"
    BY <1>a, <2>1 DEF Reload, Away, TypeOK
  <2>6. InFlight # {}
    BY <1>b, <2>3
  <2> QED
    BY <1>a, <2>3, <2>4, <2>5, <2>6, <2>7 DEF OneRefreshAtATime, FlagIsUp, AnswerIsNewer
<1>3. CASE \E c \in Requests : Issue(c)
  <2>1. PICK c \in Requests : Issue(c)
    BY <1>3
  <2>2. /\ flag' = flag /\ token' = token /\ lapsed' = lapsed
        /\ crossed' = crossed /\ request' = request
    BY <2>1 DEF Issue
  <2>3. c \in InFlight
    BY <2>1 DEF Issue, InFlight
  <2>4. InFlight' \subseteq InFlight
    BY <1>a, <2>1, <2>3 DEF Issue, InFlight, TypeOK
  <2>5. \A d \in InFlight : d = c
    BY <1>a, <1>b, <2>2, <2>3 DEF OneRefreshAtATime
  <2> DEFINE new == [call[c] EXCEPT !.place = "issued", !.token = issued + 1]
  <2>6. call'[c] = new
    BY <1>a, <2>1 DEF Issue, TypeOK
  <2>7. call[c] \in Call
    BY <1>a DEF TypeOK
  <2>8. new.over = call[c].over /\ new.token = issued + 1
    BY <2>7 DEF Call
  <2> HIDE DEF new
  <2>9. ~call'[c].over => token # 0 /\ call'[c].token >= token
    <3>1. issued + 1 >= token
      BY <1>a, Numbers
    <3> QED
      BY <1>a, <1>b, <2>2, <2>3, <2>6, <2>8, <3>1 DEF AnswerIsNewer
  <2> QED
    BY <1>a, <2>2, <2>3, <2>4, <2>5, <2>9 DEF OneRefreshAtATime, FlagIsUp, AnswerIsNewer
<1>4. CASE \E c \in Requests : Settle(c)
  BY <1>4, <1>b, SettleInFlight, FinallyLeavesNone
<1>5. CASE GrowOld \/ UNCHANGED vars
  BY <1>a, <1>5 DEF GrowOld, vars, OneRefreshAtATime, FlagIsUp, AnswerIsNewer, InFlight
<1>6. CASE Lapse
  BY <1>b, <1>6 DEF Lapse, InFlight
<1>7. CASE Login
  <2>1. /\ InFlight' = InFlight /\ call' = call /\ lapsed' = lapsed /\ flag' = flag
        /\ token = 0 /\ crossed' = crossed /\ request' = request
    BY <1>7 DEF Login, InFlight
  <2> QED
    BY <1>a, <1>b, <2>1 DEF OneRefreshAtATime, FlagIsUp, AnswerIsNewer
<1>8. CASE Logout
  <2>1. \A c \in Requests : call[c] \in Call
    BY <1>a DEF TypeOK
  <2>2. \A c \in Requests : [call[c] EXCEPT !.over = TRUE].place = call[c].place
                        /\ [call[c] EXCEPT !.over = TRUE].over
    BY <2>1 DEF Call
  <2>3. InFlight' = InFlight /\ \A c \in InFlight : call'[c].over
    BY <1>8, <2>2 DEF Logout, InFlight
  <2>4. lapsed' = lapsed /\ flag' = flag /\ crossed' = crossed /\ request' = request
    BY <1>8 DEF Logout
  <2> QED
    BY <1>a, <2>3, <2>4 DEF OneRefreshAtATime, FlagIsUp, AnswerIsNewer
<1> QED
  BY <1>1, <1>2, <1>3, <1>4, <1>5, <1>6, <1>7, <1>8, <1>9 DEF Next

LEMMA IInvAlways == Spec => []IInv
<1>1. Init => IInv
  <2>1. Init => InFlight = {}
    BY DEF Init, InFlight, NoCall
  <2> QED
    BY <2>1, TypeInit, NothingToShow DEF IInv
<1>2. IInv /\ [Next]_vars => IInv'
  BY TypeStep, OneStep DEF IInv
<1> QED
  BY <1>1, <1>2, PTL DEF Spec

\* One refresh for the whole browser, however many tabs and requests there are,
\* but for a lapse of the flag and for tabs that find it down at once.
THEOREM RefreshesOnce == Spec => []OneRefreshAtATime
<1>1. IInv => OneRefreshAtATime
  BY DEF IInv
<1> QED
  BY <1>1, IInvAlways, PTL

\* The token never goes back, but for the three ways the code leaves open.
THEOREM TokenOnlyRenewed == Spec => TokenNeverGoesBack
<1> DEFINE Good ==
         token' # 0 /\ token' < token =>
             lapsed \/ crossed \/ \E c \in InFlight : call[c].over
<1>1. IInv /\ [Next]_vars => [Good]_vars
  <2> SUFFICES ASSUME IInv, [Next]_vars, token' # 0, token' < token, ~lapsed, ~crossed
               PROVE  \E c \in InFlight : call[c].over
    OBVIOUS
  <2>a. TypeOK /\ AnswerIsNewer
    BY DEF IInv
  <2>b. token \in Nat /\ issued \in Nat /\ token <= issued
    BY <2>a, Numbers
  <2>1. CASE token' = token \/ token' = issued + 1
    BY <2>b, <2>1
  <2>2. CASE \E c \in Requests : AnswerToken(c)
    <3>1. PICK c \in Requests : AnswerToken(c)
      BY <2>2
    <3>2. c \in InFlight /\ call[c].place = "issued" /\ token' = call[c].token
      BY <3>1 DEF AnswerToken, InFlight
    <3>3. call[c].token \in Nat
      BY <2>a, <3>1, Numbers
    <3>4. ~ (call[c].token >= token)
      BY <2>b, <3>2, <3>3
    <3> QED
      BY <2>a, <3>2, <3>4 DEF AnswerIsNewer
  <2>3. \/ token' = token \/ token' = issued + 1
        \/ \E c \in Requests : AnswerToken(c)
    BY DEF Next, Proceed, SendAtOnce, FindOld, FindFlagDown, HoldAndAsk, Hold, Reload, Issue, Settle,
           AnswerNothing, Fail, GrowOld, Lapse, Logout, Login, vars
  <2> QED
    BY <2>1, <2>2, <2>3
<1> QED
  BY <1>1, IInvAlways, PTL DEF Spec, TokenNeverGoesBack

-------------------------------------------------------------------------------
(* Who waits, waits for something                                          *)

\* Only a request that has been handled may have made a call.
CallsAreLater ==
    \A r \in Requests :
        call[r] # NoCall => request[r].place \in {"held", "sent", "gone"}

LEMMA LaterStep == TypeOK /\ CallsAreLater /\ [Next]_vars => CallsAreLater'
<1> SUFFICES ASSUME TypeOK, CallsAreLater, [Next]_vars,
                    NEW r \in Requests, call'[r] # NoCall
             PROVE  request'[r].place \in {"held", "sent", "gone"}
  BY DEF CallsAreLater
<1> DEFINE Made == call[r] # NoCall /\ request[r].place \in {"held", "sent", "gone"}
<1>a. request[r] \in Request /\ call[r] \in Call
  BY DEF TypeOK
<1>1. CASE \E t \in Tabs, q \in Requests : SendAtOnce(t, q) \/ FindOld(t, q)
  <2>1. call' = call /\ Made
    BY <1>1 DEF SendAtOnce, FindOld, CallsAreLater
  <2> QED
    BY <1>1, <2>1 DEF SendAtOnce, FindOld, TypeOK
<1>2. CASE \E q \in Requests : Proceed(q)
  <2>1. PICK q \in Requests : Proceed(q)
    BY <1>2
  <2>2. CASE q = r
    <3>1. request[r].place \in {"old", "first", "missed"}
      BY <2>1, <2>2 DEF Proceed, FindFlagDown, HoldAndAsk, Hold
    <3>2. ~Made
      BY <3>1
    <3>3. HoldAndAsk(r) \/ Hold(r)
      BY <2>1, <2>2, <3>2 DEF Proceed, FindFlagDown, CallsAreLater
    <3> QED
      BY <1>a, <3>3 DEF HoldAndAsk, Hold, TypeOK, Request
  <2>3. CASE q # r
    <3>1. call'[r] = call[r] /\ Made
      BY <2>1, <2>3 DEF Proceed, FindFlagDown, HoldAndAsk, Hold, TypeOK, CallsAreLater
    <3> QED
      BY <2>1, <2>3, <3>1 DEF Proceed, FindFlagDown, HoldAndAsk, Hold, TypeOK
  <2> QED
    BY <2>2, <2>3
<1>3. CASE \E t \in Tabs : Reload(t)
  <2>1. Made
    BY <1>3 DEF Reload, CallsAreLater
  <2> QED
    BY <1>3, <2>1 DEF Reload, Away
<1>4. CASE \E c \in Requests : Issue(c)
  <2>1. PICK c \in Requests : Issue(c)
    BY <1>4
  <2>2. call[c] # NoCall /\ request' = request
    BY <2>1 DEF Issue, NoCall
  <2>3. c = r \/ call'[r] = call[r]
    BY <2>1 DEF Issue, TypeOK
  <2> QED
    BY <2>2, <2>3 DEF CallsAreLater
<1>5. CASE \E c \in Requests : Settle(c)
  <2>1. PICK c \in Requests : Settle(c)
    BY <1>5
  <2>2. call' = [call EXCEPT ![c] = NoCall]
    BY <2>1 DEF Settle, AnswerToken, AnswerNothing, Fail, Finally
  <2>3. Made
    BY <2>2 DEF CallsAreLater, TypeOK
  <2> QED
    BY <1>a, <2>1, <2>3 DEF Settle, AnswerToken, AnswerNothing, Fail, Release, Strand, Away, Request
<1>6. CASE GrowOld \/ Lapse \/ Login \/ UNCHANGED vars
  BY <1>6 DEF GrowOld, Lapse, Login, vars, CallsAreLater
<1>7. CASE Logout
  <2>1. r \in InFlight \/ call'[r] = call[r]
    BY <1>7 DEF Logout
  <2>2. r \in InFlight => call[r] # NoCall
    BY DEF InFlight, NoCall
  <2> QED
    BY <1>7, <2>1, <2>2 DEF Logout, CallsAreLater
<1> QED
  BY <1>1, <1>2, <1>3, <1>4, <1>5, <1>6, <1>7 DEF Next

LEMMA WaitStep ==
    TypeOK /\ CallsAreLater /\ HeldIsWaitedFor /\ [Next]_vars => HeldIsWaitedFor'
<1> SUFFICES ASSUME TypeOK, CallsAreLater, HeldIsWaitedFor, [Next]_vars,
                    NEW r \in Requests,
                    request'[r].place = "held", ~request'[r].stranded,
                    NEW w, request'[r].tab = w
             PROVE  \E d \in Requests : call'[d].place \in {"asked", "issued"} /\ call'[d].tab = w
  BY DEF HeldIsWaitedFor, InFlightOf, InFlight
<1> DEFINE Same == request'[r] = request[r]
<1>a. Same => InFlightOf(w) # {}
  BY DEF HeldIsWaitedFor
<1>1. CASE \E t \in Tabs, q \in Requests : SendAtOnce(t, q) \/ FindOld(t, q)
  <2>1. PICK t \in Tabs, q \in Requests : SendAtOnce(t, q) \/ FindOld(t, q)
    BY <1>1
  <2>2. q # r
    BY <2>1 DEF SendAtOnce, FindOld, TypeOK, Away
  <2>3. Same /\ call' = call
    BY <2>1, <2>2 DEF SendAtOnce, FindOld, TypeOK
  <2> QED
    BY <1>a, <2>3 DEF InFlightOf, InFlight
<1>7. CASE \E q \in Requests : Proceed(q)
  <2>1. PICK q \in Requests : Proceed(q)
    BY <1>7
  <2>a. request[q] \in Request /\ request[r] \in Request
    BY DEF TypeOK
  <2>2. CASE FindFlagDown(q)
    <3>1. q # r
      BY <2>a, <2>2 DEF FindFlagDown, TypeOK, Request
    <3>2. Same /\ call' = call
      BY <2>2, <3>1 DEF FindFlagDown, TypeOK
    <3> QED
      BY <1>a, <3>2 DEF InFlightOf, InFlight
  <2>3. CASE HoldAndAsk(q)
    <3>1. call'[q].tab = request[q].tab /\ call'[q].place = "asked"
      BY <2>3 DEF HoldAndAsk, TypeOK
    <3>2. \A d \in Requests : d # q => call'[d] = call[d]
      BY <2>3 DEF HoldAndAsk, TypeOK
    <3>3. CASE q = r
      <4>1. request'[r].tab = request[r].tab
        BY <2>a, <2>3, <3>3 DEF HoldAndAsk, Request
      <4> QED
        BY <3>1, <3>3, <4>1
    <3>4. CASE q # r
      <4>1. Same
        <5>1. CASE request[r].place = "first"
          <6>1. request'[r].place = "missed"
            BY <2>a, <2>3, <3>4, <5>1 DEF HoldAndAsk, Request
          <6> QED
            BY <6>1
        <5>2. CASE request[r].place # "first"
          BY <2>3, <3>4, <5>2 DEF HoldAndAsk
        <5> QED
          BY <5>1, <5>2
      <4>2. PICK d \in InFlightOf(w) : TRUE
        BY <1>a, <4>1
      <4>3. d # q
        <5>1. request[q].place \in {"first", "missed"}
          BY <2>3 DEF HoldAndAsk
        <5>2. call[q] = NoCall
          BY <5>1 DEF CallsAreLater
        <5> QED
          BY <4>2, <5>2 DEF InFlightOf, InFlight, NoCall
      <4> QED
        BY <3>2, <4>2, <4>3 DEF InFlightOf, InFlight
    <3> QED
      BY <3>3, <3>4
  <2>4. CASE Hold(q)
    <3>1. call' = call
      BY <2>4 DEF Hold
    <3>2. CASE q = r
      <4>1. request'[r].tab = request[r].tab
        BY <2>a, <2>4, <3>2 DEF Hold, TypeOK, Request
      <4>2. request'[r].stranded = (InFlightOf(request[r].tab) = {})
        BY <2>a, <2>4, <3>2 DEF Hold, TypeOK, Request
      <4> QED
        BY <3>1, <4>1, <4>2 DEF InFlightOf, InFlight
    <3>3. CASE q # r
      <4>1. Same
        BY <2>4, <3>3 DEF Hold, TypeOK
      <4> QED
        BY <1>a, <3>1, <4>1 DEF InFlightOf, InFlight
    <3> QED
      BY <3>2, <3>3
  <2> QED
    BY <2>1, <2>2, <2>3, <2>4 DEF Proceed
<1>2. CASE \E t \in Tabs : Reload(t)
  <2>1. PICK t \in Tabs : Reload(t)
    BY <1>2
  <2>2. Same /\ r \notin Held(t)
    BY <2>1 DEF Reload, Away, TypeOK
  <2>3. request[r].tab # t
    BY <2>2 DEF Held
  <2>4. PICK d \in InFlightOf(w) : TRUE
    BY <1>a, <2>2
  <2>5. d \in Requests /\ call[d].tab = w /\ w # t
    BY <2>2, <2>3, <2>4 DEF InFlightOf, InFlight
  <2>6. call'[d] = call[d]
    BY <2>1, <2>5 DEF Reload, InFlightOf, InFlight
  <2> QED
    BY <2>4, <2>5, <2>6 DEF InFlightOf, InFlight
<1>3. CASE \E c \in Requests : Issue(c)
  <2>1. PICK c \in Requests : Issue(c)
    BY <1>3
  <2>2. Same
    BY <2>1 DEF Issue
  <2>3. PICK d \in InFlightOf(w) : TRUE
    BY <1>a, <2>2
  <2>4. d \in Requests /\ call[d] \in Call
    BY <2>3 DEF InFlightOf, InFlight, TypeOK
  <2> DEFINE new == [call[c] EXCEPT !.place = "issued", !.token = issued + 1]
  <2>5. call' = [call EXCEPT ![c] = new]
    BY <2>1 DEF Issue
  <2>6. new.tab = call[c].tab /\ new.place = "issued"
    BY DEF TypeOK, Call
  <2> HIDE DEF new
  <2>7. call'[d].tab = call[d].tab /\ call'[d].place \in {call[d].place, "issued"}
    BY <2>4, <2>5, <2>6 DEF TypeOK
  <2> QED
    BY <2>3, <2>4, <2>7 DEF InFlightOf, InFlight
<1>4. CASE \E c \in Requests : Settle(c)
  <2>1. PICK c \in Requests : Settle(c)
    BY <1>4
  <2>2. \A d \in Requests : d # c => call'[d] = call[d]
    BY <2>1 DEF Settle, AnswerToken, AnswerNothing, Fail, Finally, TypeOK
  <2>3. CASE AnswerToken(c) \/ AnswerNothing(c)
    <3>1. Same /\ r \notin Held(call[c].tab)
      BY <2>3 DEF AnswerToken, AnswerNothing, Release, Away
    <3>2. request[r].tab # call[c].tab
      BY <3>1 DEF Held
    <3>3. PICK d \in InFlightOf(w) : TRUE
      BY <1>a, <3>1
    <3>4. d \in Requests /\ d # c /\ call[d].tab = w
      BY <3>1, <3>2, <3>3 DEF InFlightOf, InFlight
    <3> QED
      BY <2>2, <3>1, <3>3, <3>4 DEF InFlightOf, InFlight
  <2>4. CASE Fail(c)
    <3>1. request[r] \in Request
      BY DEF TypeOK
    <3>2. Same /\ ~ (r \in Held(call[c].tab) /\ InFlightOf(call[c].tab) = {c})
      BY <2>4, <3>1 DEF Fail, Strand, Request
    <3>3. PICK d \in InFlightOf(w) : d # c
      BY <1>a, <3>2 DEF Held, InFlightOf
    <3> QED
      BY <2>2, <3>2, <3>3 DEF InFlightOf, InFlight
  <2> QED
    BY <2>1, <2>3, <2>4 DEF Settle
<1>5. CASE GrowOld \/ Lapse \/ Login \/ UNCHANGED vars
  <2>1. Same /\ call' = call
    BY <1>5 DEF GrowOld, Lapse, Login, vars
  <2> QED
    BY <1>a, <2>1 DEF InFlightOf, InFlight
<1>6. CASE Logout
  <2>1. Same
    BY <1>6 DEF Logout
  <2>2. \A c \in Requests : [call[c] EXCEPT !.over = TRUE].place = call[c].place
                        /\ [call[c] EXCEPT !.over = TRUE].tab = call[c].tab
    BY DEF TypeOK, Call
  <2>3. \A c \in Requests : call'[c].place = call[c].place /\ call'[c].tab = call[c].tab
    BY <1>6, <2>2 DEF Logout
  <2> QED
    BY <1>a, <2>1, <2>3 DEF InFlightOf, InFlight
<1> QED
  BY <1>1, <1>2, <1>3, <1>4, <1>5, <1>6, <1>7 DEF Next

\* A held request has a call of its own tab to wait for, or is stranded.
THEOREM WaitersHaveACall == Spec => []HeldIsWaitedFor
<1>1. Init => CallsAreLater /\ HeldIsWaitedFor
  BY DEF Init, CallsAreLater, HeldIsWaitedFor
<1>2. TypeOK /\ CallsAreLater /\ HeldIsWaitedFor /\ [Next]_vars
          => CallsAreLater' /\ HeldIsWaitedFor'
  BY LaterStep, WaitStep
<1> QED
  BY <1>1, <1>2, TypeCorrect, PTL DEF Spec

=================================================================================
