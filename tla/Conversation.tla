----------------------------- MODULE Conversation -----------------------------
(***************************************************************************)
(* The conversation page of the query assistant (views/sqlbot-new): the    *)
(* conversation on screen, the questions, interpretations and locally      *)
(* written replies that are under way in it, and the chats the server      *)
(* keeps for it.                                                           *)
(*                                                                         *)
(* Every handler of the page runs to its next "await" without being        *)
(* interrupted; an action here is one such stretch.  What is under way     *)
(* waits at a place named by "at": whatever else the user does, and every  *)
(* other answer of the server, may come in between.  A conversation is an  *)
(* object that the handlers keep a reference to, so the ones no longer on  *)
(* screen stay in "session" and can still be written to.                   *)
(*                                                                         *)
(* Texts, charts, usage figures and recommended questions are left out,    *)
(* and so is the recovery snapshot the page saves for a chat; a source     *)
(* stands for everything the user may select to ask about.                 *)
(***************************************************************************)
EXTENDS Integers, Sequences, FiniteSets

CONSTANTS
    Sources,        \* the data sets and files there are
    NoSource,
    MaxQuestions,   \* bounds: questions, interpretations and replies of the user
    MaxDerived,
    MaxReplies,
    MaxSessions,    \* bound on the conversations the page creates or restores
    MaxChats,       \* bound on the chats the server starts
    MaxOpenings,    \* bounds: openings and deletions of a chat
    MaxDeletions,
    MaxMoves        \* bound on what the user does, all in all

ASSUME SourceAssumption == Sources # {} /\ NoSource \notin Sources
ASSUME BoundAssumption ==
    {MaxQuestions, MaxDerived, MaxReplies, MaxSessions, MaxChats, MaxOpenings,
     MaxDeletions, MaxMoves} \subseteq Nat

Questions == 1..MaxQuestions
Derived == 1..MaxDerived
Replies == 1..MaxReplies
Openings == 1..MaxOpenings
Deletions == 1..MaxDeletions

VARIABLES
    page,       \* pageMode
    loading,    \* conversationLoading
    controller, \* sqlbotAbortController: the question it would abort, 0 for null
    selected,   \* the source chosen on the page
    active,     \* activeExecutionContext: the source of the conversation
    shown,      \* conversationSession: which conversation is on screen, 0 for null
    restored,   \* restoredHistoryContext.sessionId: a chat, 0 for a local id or none
    session,    \* the conversations, those no longer on screen included
    question, derived, reply, opening, deletion,   \* what is under way, and where it waits
    keys,       \* pendingDerivedActionKeys: the questions being interpreted
    chat,       \* the chats of the server
    moves,      \* how much the user has done
    strayed,    \* a source was brought in from the home page, without a switch
    early,      \* another conversation or source came under a question not yet sent
    freed,      \* a second question was let in under the first
    twice       \* an interpretation was asked for again while the first was prepared

screen == <<page, loading, controller, selected, active, shown, restored, session>>
ghosts == <<strayed, early, freed, twice>>
vars == <<screen, question, derived, reply, opening, deletion, keys, chat, moves, ghosts>>

(* What there is                                                           *)

\* A record of a conversation, or of a chat: "n" is the number of the question,
\* reply or interpretation.
Entry == [kind : {"question", "reply", "derived"}, n : Nat, of : Nat,
          known : BOOLEAN, finish : BOOLEAN, error : BOOLEAN]

NewEntry(kind, n) ==
    [kind |-> kind, n |-> n, of |-> 0, known |-> FALSE, finish |-> FALSE, error |-> FALSE]

Asked == [at : {"unasked", "token", "start", "pending", "stream", "failing", "over"},
          session : 0..MaxSessions, target : 0..MaxSessions,
          source : Sources \union {NoSource}, chat : 0..MaxChats,
          todo : SUBSET Replies, aborted : BOOLEAN, left : BOOLEAN]

Unasked == [at |-> "unasked", session |-> 0, target |-> 0, source |-> NoSource,
            chat |-> 0, todo |-> {}, aborted |-> FALSE, left |-> FALSE]

NewSession == [chat |-> 0, records |-> <<>>]

Init ==
    /\ page = "home" /\ loading = FALSE /\ controller = 0
    /\ selected = CHOOSE s \in Sources : TRUE
    /\ active = NoSource
    /\ shown = 0 /\ restored = 0 /\ session = <<>>
    /\ question = [q \in Questions |-> Unasked]
    /\ derived = [d \in Derived |-> [at |-> "unasked", of |-> 0, session |-> 0, chat |-> 0]]
    /\ reply = [r \in Replies |-> [at |-> "unasked", target |-> 0, source |-> NoSource,
                                   chat |-> 0, saved |-> FALSE]]
    /\ opening = [v \in Openings |-> [at |-> "unasked", chat |-> 0]]
    /\ deletion = [x \in Deletions |-> [at |-> "unasked", chat |-> 0]]
    /\ keys = {} /\ chat = <<>> /\ moves = 0
    /\ strayed = FALSE /\ early = FALSE /\ freed = FALSE /\ twice = FALSE

Preparing(q) == question[q].at \in {"token", "start", "pending"} /\ ~question[q].aborted
UnderWay(q) == Preparing(q) \/ question[q].at \in {"stream", "failing"}

\* The next one of a numbered kind: they are used in order.
IsNext(f, n) == f[n].at = "unasked" /\ \A m \in DOMAIN f : m < n => f[m].at # "unasked"

\* The user does something; the bound on how much.
Moves == moves < MaxMoves /\ moves' = moves + 1

(* The conversation                                                        *)

\* The source a question entered now is about (effectiveExecutionContext).
Source == IF page = "home" \/ active = NoSource THEN selected ELSE active

\* ensureConversationContainer: the conversation on screen, or a new one.
Container == IF shown = 0 THEN Len(session) + 1 ELSE shown
Sessions == IF shown = 0 THEN Append(session, NewSession) ELSE session
Room == shown # 0 \/ Len(session) < MaxSessions

Push(sessions, s, entry) == [sessions EXCEPT ![s].records = Append(@, entry)]

\* The same change to every copy of one record in a sequence of records.
Marked(records, kind, n, Change(_)) ==
    [i \in DOMAIN records |->
        IF records[i].kind = kind /\ records[i].n = n THEN Change(records[i]) ELSE records[i]]

\* The chat of the conversation on screen, as a handler finds it.
ChatOf(sessions, s) == IF s = 0 THEN 0 ELSE sessions[s].chat

\* persistConversationSnapshot
Noted(sessions, s) == IF s = 0 THEN restored ELSE sessions[s].chat

\* startSQLBotAssistantChat
Started(source) == Append(chat, [exists |-> TRUE, source |-> source, log |-> <<>>])

Logged(chats, c, entry) == [chats EXCEPT ![c].log = Append(@, entry)]

\* The sources of the questions of a chat.
SourcesOf(c) == {question[chat[c].log[i].n].source : i \in
                    {j \in DOMAIN chat[c].log : chat[c].log[j].kind = "question"}}

\* External: the source the server's history gives a chat, that of its last question.
SourceOf(c) ==
    LET asked == {i \in DOMAIN chat[c].log : chat[c].log[i].kind = "question"}
        last == CHOOSE i \in asked : \A j \in asked : j <= i
    IN IF asked = {} THEN chat[c].source ELSE question[chat[c].log[last].n].source

\* External: what the server keeps of a chat, as records.
Kept(c) == [i \in DOMAIN chat[c].log |-> [chat[c].log[i] EXCEPT !.known = TRUE]]

Entries(records, kind) == {records[i] : i \in {j \in DOMAIN records : records[j].kind = kind}}

(* A question (submitQuestion)                                             *)

\* A source comes in from the home page while the conversation behind it is
\* about another one.
Strays == page = "home" /\ shown # 0 /\ active # NoSource /\ active # Source

LatestFailed(records) == records # <<>> /\ records[Len(records)].error
\* Mutant: the question's controller is not kept for an abort.
SubmitUnregistered(q) ==
    /\ Moves
    /\ IsNext(question, q)
    /\ ~loading
    /\ Room
    /\ loading' = TRUE /\ page' = "result" /\ controller' = controller
    /\ active' = Source
    /\ restored' = IF ChatOf(session, shown) = 0 THEN restored ELSE session[shown].chat
    /\ shown' = Container
    /\ LET s == Container
           sessions == IF LatestFailed(Sessions[s].records)
                       THEN [Sessions EXCEPT ![s].chat = 0]   \* resetBackendChatSession
                       ELSE Sessions
       IN session' = Push(sessions, s, NewEntry("question", q))
    /\ question' = [question EXCEPT ![q] = [Unasked EXCEPT !.at = "token", !.source = Source,
                                                           !.session = Container]]
    /\ strayed' = (strayed \/ Strays)
    /\ freed' = (freed \/ \E p \in Questions : UnderWay(p))
    /\ UNCHANGED <<selected, derived, reply, opening, deletion, keys, chat, early, twice>>

Submit(q) ==
    /\ Moves
    /\ IsNext(question, q)
    /\ ~loading
    /\ Room
    /\ loading' = TRUE /\ page' = "result" /\ controller' = q
    /\ active' = Source
    /\ restored' = IF ChatOf(session, shown) = 0 THEN restored ELSE session[shown].chat
    /\ shown' = Container
    /\ LET s == Container
           sessions == IF LatestFailed(Sessions[s].records)
                       THEN [Sessions EXCEPT ![s].chat = 0]   \* resetBackendChatSession
                       ELSE Sessions
       IN session' = Push(sessions, s, NewEntry("question", q))
    /\ question' = [question EXCEPT ![q] = [Unasked EXCEPT !.at = "token", !.source = Source,
                                                           !.session = Container]]
    /\ strayed' = (strayed \/ Strays)
    /\ freed' = (freed \/ \E p \in Questions : UnderWay(p))
    /\ UNCHANGED <<selected, derived, reply, opening, deletion, keys, chat, early, twice>>

\* The "finally" of submitQuestion: it puts the flag down whoever has put it up.
Over(q, mine) ==
    /\ question' = [question EXCEPT ![q] = [mine EXCEPT !.at = "over"]]
    /\ loading' = FALSE
    /\ controller' = IF controller = q THEN 0 ELSE controller

\* Its record is marked as failed; the usage is loaded before the "finally".
Failing(q, mine, sessions) ==
    /\ question' = [question EXCEPT ![q] = [mine EXCEPT !.at = "failing"]]
    /\ session' = [sessions EXCEPT ![mine.session].records =
                      Marked(@, "question", q, LAMBDA e : [e EXCEPT !.finish = TRUE, !.error = TRUE])]
    /\ UNCHANGED <<loading, controller>>

\* streamSQLBotQuestion, with the chat that its conversation has by now.
Send(q, mine, sessions, chats) ==
    LET c == sessions[mine.target].chat IN
    /\ restored' = Noted(sessions, shown')
    /\ \/ /\ mine.aborted
          /\ Over(q, mine)
          /\ session' = sessions /\ chat' = chats
       \/ /\ ~mine.aborted
          /\ c # 0 /\ chats[c].exists
          /\ question' = [question EXCEPT ![q] = [mine EXCEPT !.at = "stream", !.chat = c]]
          /\ chat' = Logged(chats, c, NewEntry("question", q))
          /\ session' = sessions
          /\ UNCHANGED <<loading, controller>>
       \/ /\ ~mine.aborted
          /\ ~(c # 0 /\ chats[c].exists)
          /\ Failing(q, mine, sessions)
          /\ chat' = chats

\* persistPendingAssistantReplies: the replies of the conversation on screen
\* that no chat has yet are saved first, one after the other, in the order they
\* were written.
Unsaved(records, saved) == {e.n : e \in Entries(records, "reply")} \ saved
Oldest(replies) == CHOOSE r \in replies : \A m \in replies : r <= m

Saved == {r \in Replies : reply[r].saved}

SaveOrSend(q, mine, todo, sessions, chats) ==
    \/ /\ todo # {} /\ ChatOf(sessions, shown') # 0
       /\ question' = [question EXCEPT ![q] =
             [mine EXCEPT !.at = "pending", !.todo = todo, !.chat = ChatOf(sessions, shown')]]
       /\ session' = sessions /\ chat' = chats
       /\ UNCHANGED <<loading, controller, restored>>
    \/ /\ ~(todo # {} /\ ChatOf(sessions, shown') # 0)
       /\ Send(q, [mine EXCEPT !.todo = {}], sessions, chats)

HasChat(q, mine, sessions, chats) ==
    SaveOrSend(q, mine,
               IF shown' = 0 THEN {} ELSE Unsaved(sessions[shown'].records, Saved),
               sessions, chats)

Rest == <<derived, opening, deletion, keys, moves, ghosts, page, selected, active>>

\* The token is there; ensureChatSession takes the conversation then on screen.
TokenForQuestion(q) ==
    /\ question[q].at = "token"
    /\ Room
    /\ shown' = Container
    /\ LET mine == [question[q] EXCEPT !.target = Container] IN
       \/ /\ Sessions[Container].chat # 0
          /\ HasChat(q, mine, Sessions, chat)
       \/ /\ Sessions[Container].chat = 0
          /\ question' = [question EXCEPT ![q] = [mine EXCEPT !.at = "start"]]
          /\ session' = Sessions
          /\ UNCHANGED <<loading, controller, restored, chat>>
    /\ UNCHANGED <<Rest, reply>>

\* The chat is started, for the conversation taken before.
StartForQuestion(q) ==
    /\ question[q].at = "start"
    /\ Len(chat) < MaxChats
    /\ shown' = shown
    /\ HasChat(q, question[q],
               [session EXCEPT ![question[q].target].chat = Len(chat) + 1],
               Started(question[q].source))
    /\ UNCHANGED <<Rest, reply>>

\* A pending reply has been saved, or could not be; the next one goes to the
\* chat that is on screen now.
PostForQuestion(q) ==
    /\ question[q].at = "pending"
    /\ shown' = shown
    /\ LET r == Oldest(question[q].todo)
           c == question[q].chat
           next == question[q].todo \ (Saved \union {r})
       IN \/ /\ chat[c].exists
             /\ reply' = [reply EXCEPT ![r].saved = TRUE]
             /\ SaveOrSend(q, question[q], next, session,
                           Logged(chat, c, NewEntry("reply", r)))
          \/ /\ reply' = reply
             /\ SaveOrSend(q, question[q], next, session, chat)
    /\ UNCHANGED Rest

FailQuestion(q) ==
    /\ question[q].at \in {"token", "start"}
    /\ \/ /\ question[q].aborted
          /\ Over(q, question[q])
          /\ UNCHANGED session
       \/ /\ ~question[q].aborted
          /\ Failing(q, question[q], session)
    /\ UNCHANGED <<Rest, reply, shown, restored, chat>>
\* The first event of the stream gives the record its id.
StreamId(q) ==
    /\ question[q].at = "stream"
    /\ \E i \in DOMAIN session[question[q].session].records :
          LET e == session[question[q].session].records[i]
          IN e.kind = "question" /\ e.n = q /\ ~e.known
    /\ session' = [session EXCEPT ![question[q].session].records =
                      Marked(@, "question", q, LAMBDA e : [e EXCEPT !.known = TRUE])]
    /\ UNCHANGED <<Rest, reply, shown, restored, chat, question, loading, controller>>

\* The stream ends: after "finish", after an error event of the server, or
\* without either.
StreamEnds(q) ==
    /\ question[q].at = "stream"
    /\ Over(q, question[q])
    /\ \/ UNCHANGED <<session, chat>>
       \/ \E error \in BOOLEAN :
             LET Done(e) == [e EXCEPT !.finish = TRUE, !.error = error]
             IN /\ session' = [session EXCEPT ![question[q].session].records =
                                  Marked(@, "question", q, Done)]
                /\ chat' = [chat EXCEPT ![question[q].chat].log = Marked(@, "question", q, Done)]
    /\ UNCHANGED <<Rest, reply, shown, restored>>

StreamBreaks(q) ==
    /\ question[q].at = "stream"
    /\ Failing(q, question[q], session)
    /\ UNCHANGED <<Rest, reply, shown, restored, chat>>

FailingEnds(q) ==
    /\ question[q].at = "failing"
    /\ Over(q, question[q])
    /\ restored' = Noted(session, shown)
    /\ UNCHANGED <<Rest, reply, shown, session, chat>>

(* An interpretation of an answer (requestDerivedRecordAnalysis)           *)

OnScreen == IF shown = 0 THEN <<>> ELSE session[shown].records
\* Mutant: only the answers on screen are looked at.
InterpretedOnScreen(q) ==
    \E e \in Entries(OnScreen, "derived") : e.of = q /\ ~e.finish

\* isDerivedActionPending, hasUnfinishedDerivedAnswer
Interpreted(q) ==
    q \in keys \/ \E e \in Entries(OnScreen, "derived") : e.of = q /\ ~e.finish

Interpret(d, q) ==
    /\ Moves
    /\ IsNext(derived, d)
    /\ page = "result" /\ ~loading
    /\ \E e \in Entries(OnScreen, "question") : e.n = q /\ e.known /\ e.finish /\ ~e.error
    /\ ~Interpreted(q)
    /\ derived' = [derived EXCEPT ![d].at = "token", ![d].of = q]
    /\ twice' = (twice \/ \E e \in Derived : derived[e].at = "token" /\ derived[e].of = q)
    /\ UNCHANGED <<screen, question, reply, opening, deletion, keys, chat,
                   strayed, early, freed>>

Aside == <<page, loading, controller, selected, active, question, reply, opening, deletion,
           moves, ghosts>>

\* Mutant: the key is that of the answer, not of the question interpreted.
TokenForDerivedKeyed(d) ==
    /\ derived[d].at = "token"
    /\ Room
    /\ shown' = Container
    /\ session' = Push(Sessions, Container,
                       [NewEntry("derived", d) EXCEPT !.of = derived[d].of])
    /\ keys' = keys \union {d}
    /\ restored' = Noted(Sessions, Container)
    /\ derived' = [derived EXCEPT ![d].session = Container,
                      ![d].at = IF Sessions[Container].chat = 0 THEN "stream" ELSE "saveQuestion"]
    /\ UNCHANGED <<Aside, chat>>

\* Its question and answer enter the conversation on screen, and are to be
\* saved in its chat.
TokenForDerived(d) ==
    /\ derived[d].at = "token"
    /\ Room
    /\ shown' = Container
    /\ session' = Push(Sessions, Container,
                       [NewEntry("derived", d) EXCEPT !.of = derived[d].of])
    /\ keys' = keys \union {derived[d].of}
    /\ restored' = Noted(Sessions, Container)
    /\ derived' = [derived EXCEPT ![d].session = Container,
                      ![d].at = IF Sessions[Container].chat = 0 THEN "stream" ELSE "saveQuestion"]
    /\ UNCHANGED <<Aside, chat>>

FailDerived(d) ==
    /\ derived[d].at = "token"
    /\ derived' = [derived EXCEPT ![d].at = "over"]
    /\ UNCHANGED <<Aside, shown, restored, session, keys, chat>>

\* The derived question is saved or lost; the answer goes to the chat on
\* screen now, still unfinished.
SaveDerivedQuestion(d) ==
    /\ derived[d].at = "saveQuestion"
    /\ derived' = [derived EXCEPT
          ![d].at = IF ChatOf(session, shown) = 0 THEN "stream" ELSE "saveAnswer",
          ![d].chat = ChatOf(session, shown)]
    /\ UNCHANGED <<Aside, shown, restored, session, keys, chat>>

\* A chat keeps the newest version of a derived answer.
Filed(c, entry) ==
    IF entry.n \in {e.n : e \in Entries(chat[c].log, "derived")}
    THEN [chat EXCEPT ![c].log = Marked(@, "derived", entry.n, LAMBDA e : entry)]
    ELSE Logged(chat, c, entry)

SaveDerived(d, finish) ==
    \/ UNCHANGED chat
    \/ /\ chat[derived[d].chat].exists
       /\ chat' = Filed(derived[d].chat, [NewEntry("derived", d) EXCEPT
                           !.of = derived[d].of, !.finish = finish])

SaveDerivedAnswer(d) ==
    /\ derived[d].at = "saveAnswer"
    /\ SaveDerived(d, FALSE)
    /\ derived' = [derived EXCEPT ![d].at = "stream"]
    /\ UNCHANGED <<Aside, shown, restored, session, keys>>

\* The answers of the interpretations in "done" are finished on screen.
Closed(sessions, done) ==
    [s \in DOMAIN sessions |-> [sessions[s] EXCEPT !.records =
        [i \in DOMAIN @ |->
            IF @[i].kind = "derived" /\ @[i].n \in done /\ derived[@[i].n].session = s
            THEN [@[i] EXCEPT !.finish = TRUE] ELSE @[i]]]]

\* The stream is over, well or not; its key is given back and the answer saved.
DerivedEnds(d) ==
    /\ derived[d].at = "stream"
    /\ session' = Closed(session, {d})
    /\ keys' = keys \ {derived[d].of}
    /\ derived' = [derived EXCEPT
          ![d].at = IF ChatOf(session, shown) = 0 THEN "over" ELSE "saveLast",
          ![d].chat = ChatOf(session, shown)]
    /\ UNCHANGED <<Aside, shown, restored, chat>>

SaveLast(d) ==
    /\ derived[d].at = "saveLast"
    /\ SaveDerived(d, TRUE)
    /\ derived' = [derived EXCEPT ![d].at = "over"]
    /\ UNCHANGED <<Aside, shown, restored, session, keys>>

(* A reply the page writes itself (appendAssistantReply)                   *)

AppendReply(r) ==
    /\ Moves
    /\ IsNext(reply, r)
    /\ ~loading
    /\ Room
    /\ page' = "result" /\ active' = Source
    /\ shown' = Container
    /\ session' = Push(Sessions, Container, [NewEntry("reply", r) EXCEPT !.finish = TRUE])
    /\ restored' = Sessions[Container].chat
    /\ reply' = [reply EXCEPT ![r].at = "token", ![r].source = Source]
    /\ strayed' = (strayed \/ Strays)
    /\ UNCHANGED <<loading, controller, selected, question, derived, opening, deletion, keys,
                   chat, early, freed, twice>>

Around == <<page, loading, controller, selected, active, question, derived, opening, deletion,
            keys, moves, ghosts>>

\* persistAssistantReplyWithSession, once its conversation has a chat: the
\* reply goes to the chat of the one on screen.
SaveReply(r, mine, sessions) ==
    LET c == ChatOf(sessions, shown') IN
    /\ session' = sessions
    /\ restored' = Noted(sessions, shown')
    /\ reply' = [reply EXCEPT ![r] = [mine EXCEPT !.chat = c,
                    !.at = IF c = 0 \/ mine.saved THEN "over" ELSE "save"]]

TokenForReply(r) ==
    /\ reply[r].at = "token"
    /\ Room
    /\ shown' = Container
    /\ LET mine == [reply[r] EXCEPT !.target = Container] IN
       \/ /\ Sessions[Container].chat # 0
          /\ SaveReply(r, mine, Sessions)
       \/ /\ Sessions[Container].chat = 0
          /\ reply' = [reply EXCEPT ![r] = [mine EXCEPT !.at = "start"]]
          /\ session' = Sessions
          /\ UNCHANGED restored
    /\ UNCHANGED <<Around, chat>>

StartForReply(r) ==
    /\ reply[r].at = "start"
    /\ Len(chat) < MaxChats
    /\ shown' = shown
    /\ chat' = Started(reply[r].source)
    /\ SaveReply(r, reply[r], [session EXCEPT ![reply[r].target].chat = Len(chat) + 1])
    /\ UNCHANGED Around

PostReply(r) ==
    /\ reply[r].at = "save"
    /\ chat[reply[r].chat].exists
    /\ chat' = Logged(chat, reply[r].chat, NewEntry("reply", r))
    /\ reply' = [reply EXCEPT ![r].saved = TRUE, ![r].at = "over"]
    /\ UNCHANGED <<Around, shown, restored, session>>

FailReply(r) ==
    /\ reply[r].at \in {"token", "start", "save"}
    /\ reply' = [reply EXCEPT ![r].at = "over"]
    /\ UNCHANGED <<Around, shown, restored, session, chat>>

(* The user leaves, opens, deletes, chooses                                *)
\* Mutant: an interpretation that is cut off keeps its key.
AbortKeepsKeys ==
    LET cut == {d \in Derived : derived[d].at = "stream"} IN
    /\ question' = [q \in Questions |->
          [question[q] EXCEPT
             !.left = @ \/ UnderWay(q),
             !.aborted = @ \/ q = controller,
             !.at = IF q = controller /\ @ = "stream" THEN "over" ELSE @]]
    /\ controller' = 0
    /\ derived' = [d \in Derived |->
          IF d \in cut THEN [derived[d] EXCEPT !.at = "over"] ELSE derived[d]]
    /\ keys' = keys
    /\ session' = Closed(session, cut)

\* Abort of the question's controller, and abortAllAnalysisRequests.  What
\* streams is over at once, with its "finally"; what has not got so far only
\* finds the signal later, and interpretations not yet streaming find nothing.
Abort ==
    LET cut == {d \in Derived : derived[d].at = "stream"} IN
    /\ question' = [q \in Questions |->
          [question[q] EXCEPT
             !.left = @ \/ UnderWay(q),
             !.aborted = @ \/ q = controller,
             !.at = IF q = controller /\ @ = "stream" THEN "over" ELSE @]]
    /\ controller' = 0
    /\ derived' = [d \in Derived |->
          IF d \in cut THEN [derived[d] EXCEPT !.at = "over"] ELSE derived[d]]
    /\ keys' = keys \ {derived[d].of : d \in cut}
    /\ session' = Closed(session, cut)

GoHome ==
    /\ Moves
    /\ page = "result" /\ page' = "home"
    /\ Abort
    /\ loading' = FALSE
    /\ UNCHANGED <<selected, active, shown, restored, reply, opening, deletion, chat,
                   ghosts>>

\* handleThemeChange on a result page without records
ResetConversation ==
    /\ Moves
    /\ page = "result" /\ OnScreen = <<>>
    /\ page' = "home"
    /\ Abort
    /\ loading' = FALSE /\ active' = NoSource /\ shown' = 0 /\ restored' = 0
    /\ UNCHANGED <<selected, reply, opening, deletion, chat, ghosts>>

\* restoreHistorySession.  The "finally" of a question it aborts puts the
\* loading flag down again.
Open(v, c) ==
    /\ Moves
    /\ IsNext(opening, v)
    /\ chat[c].exists
    /\ opening' = [opening EXCEPT ![v] = [at |-> "open", chat |-> c]]
    /\ Abort
    /\ loading' = (controller = 0 \/ question[controller].at # "stream")
    /\ UNCHANGED <<page, selected, active, shown, restored, reply, deletion, chat,
                   ghosts>>

\* The source chosen on the page follows without a call in between:
\* applyRestoredSelection, which openHistoryItem calls with the chat restored, sets
\* it before its first await.
Opened(v) ==
    /\ opening[v].at = "open"
    /\ chat[opening[v].chat].exists
    /\ Len(session) < MaxSessions
    /\ LET c == opening[v].chat IN
       /\ session' = Append(session, [chat |-> c, records |-> Kept(c)])
       /\ active' = SourceOf(c) /\ selected' = SourceOf(c)
       /\ restored' = c
    /\ shown' = Len(session) + 1
    /\ page' = "result" /\ loading' = FALSE
    /\ opening' = [opening EXCEPT ![v].at = "over"]
    /\ early' = (early \/ \E q \in Questions : Preparing(q))
    /\ UNCHANGED <<controller, question, derived, reply, deletion, keys, chat, moves,
                   strayed, freed, twice>>
\* Mutant: a failed opening leaves the flag up.
OpeningFailsOnly(v) ==
    /\ opening[v].at = "open"
    /\ shown' = 0 /\ active' = NoSource /\ restored' = 0
    /\ loading' = loading
    /\ opening' = [opening EXCEPT ![v].at = "over"]
    /\ early' = (early \/ \E q \in Questions : Preparing(q))
    /\ UNCHANGED <<page, controller, selected, session, question, derived, reply, deletion,
                   keys, chat, moves,
                   strayed, freed, twice>>

OpeningFails(v) ==
    /\ opening[v].at = "open"
    /\ shown' = 0 /\ active' = NoSource /\ restored' = 0
    /\ loading' = FALSE
    /\ opening' = [opening EXCEPT ![v].at = "over"]
    /\ early' = (early \/ \E q \in Questions : Preparing(q))
    /\ UNCHANGED <<page, controller, selected, session, question, derived, reply, deletion,
                   keys, chat, moves,
                   strayed, freed, twice>>

\* deleteHistoryEntry
Delete(x, c) ==
    /\ Moves
    /\ IsNext(deletion, x)
    /\ chat[c].exists
    /\ deletion' = [deletion EXCEPT ![x] = [at |-> "delete", chat |-> c]]
    /\ UNCHANGED <<screen, question, derived, reply, opening, keys, chat, ghosts>>

\* What is under way in the deleted conversation is not aborted.
Deleted(x) ==
    /\ deletion[x].at = "delete"
    /\ deletion' = [deletion EXCEPT ![x].at = "over"]
    /\ chat' = [chat EXCEPT ![deletion[x].chat].exists = FALSE]
    /\ \/ /\ restored = deletion[x].chat
          /\ shown' = 0 /\ active' = NoSource /\ restored' = 0
          /\ loading' = FALSE /\ page' = "home"
          /\ early' = (early \/ \E q \in Questions : Preparing(q))
       \/ /\ restored # deletion[x].chat
          /\ UNCHANGED <<shown, active, restored, loading, page, early>>
    /\ UNCHANGED <<controller, selected, session, question, derived, reply, opening, keys,
                   moves, strayed, freed, twice>>

DeletionFails(x) ==
    /\ deletion[x].at = "delete"
    /\ deletion' = [deletion EXCEPT ![x].at = "over"]
    /\ UNCHANGED <<screen, question, derived, reply, opening, keys, chat, moves, ghosts>>
\* Mutant: the conversation goes on in the chat it has.
SwitchKeepsChat(s) ==
    /\ Moves
    /\ page = "result" /\ OnScreen # <<>>
    /\ s # Source
    /\ selected' = s /\ active' = s
    /\ UNCHANGED <<session, restored>>
    /\ early' = (early \/ \E q \in Questions : Preparing(q))
    /\ UNCHANGED <<page, loading, controller, shown, question, derived, reply, opening, deletion,
                   keys, chat, strayed, freed, twice>>

\* appendContextSwitchRecord: the conversation stays, its next question gets a
\* new chat.  The card it shows is no answer and is left out.
Switch(s) ==
    /\ Moves
    /\ page = "result" /\ OnScreen # <<>>
    /\ s # Source
    /\ selected' = s /\ active' = s
    /\ session' = [session EXCEPT ![shown].chat = 0]
    /\ restored' = 0
    /\ early' = (early \/ \E q \in Questions : Preparing(q))
    /\ UNCHANGED <<page, loading, controller, shown, question, derived, reply, opening, deletion,
                   keys, chat, strayed, freed, twice>>

\* On the home page, or before the first record, a choice is only a choice.
Choose(s) ==
    /\ Moves
    /\ ~(page = "result" /\ OnScreen # <<>>)
    /\ s # selected
    /\ selected' = s
    /\ UNCHANGED <<page, loading, controller, active, shown, restored, session, question,
                   derived, reply, opening, deletion, keys, chat, ghosts>>

Next ==
    \/ \E q \in Questions :
          \/ Submit(q) \/ TokenForQuestion(q) \/ StartForQuestion(q) \/ PostForQuestion(q)
          \/ FailQuestion(q) \/ StreamId(q) \/ StreamEnds(q) \/ StreamBreaks(q)
          \/ FailingEnds(q)
    \/ \E d \in Derived :
          \/ \E q \in Questions : Interpret(d, q)
          \/ TokenForDerived(d) \/ FailDerived(d) \/ SaveDerivedQuestion(d)
          \/ SaveDerivedAnswer(d) \/ DerivedEnds(d) \/ SaveLast(d)
    \/ \E r \in Replies :
          \/ AppendReply(r) \/ TokenForReply(r) \/ StartForReply(r) \/ PostReply(r)
          \/ FailReply(r)
    \/ GoHome \/ ResetConversation
    \/ \E v \in Openings : (\E c \in DOMAIN chat : Open(v, c)) \/ Opened(v) \/ OpeningFails(v)
    \/ \E x \in Deletions : (\E c \in DOMAIN chat : Delete(x, c)) \/ Deleted(x) \/ DeletionFails(x)
    \/ \E s \in Sources : Switch(s) \/ Choose(s)

Spec == Init /\ [][Next]_vars

\* The server answers every call and ends every stream, well or not: calls time
\* out, and the page goes on from there by itself.
Answered(q) ==
    \/ TokenForQuestion(q) \/ StartForQuestion(q) \/ PostForQuestion(q)
    \/ FailQuestion(q) \/ StreamEnds(q) \/ StreamBreaks(q) \/ FailingEnds(q)
DerivedAnswered(d) ==
    \/ TokenForDerived(d) \/ FailDerived(d) \/ SaveDerivedQuestion(d)
    \/ SaveDerivedAnswer(d) \/ DerivedEnds(d) \/ SaveLast(d)

FairSpec ==
    /\ Spec
    /\ \A q \in Questions : WF_vars(Answered(q))
    /\ \A d \in Derived : WF_vars(DerivedAnswered(d))
    /\ \A v \in Openings : WF_vars(Opened(v) \/ OpeningFails(v))

(* What is true of it                                                      *)

\* Every variable holds a value of its kind, and what is under way refers to
\* conversations, chats and questions that exist.
TypeOK ==
    /\ page \in {"home", "result"} /\ loading \in BOOLEAN
    /\ controller \in 0..MaxQuestions
    /\ selected \in Sources /\ active \in Sources \union {NoSource}
    /\ shown \in 0..Len(session) /\ restored \in 0..Len(chat)
    /\ Len(session) <= MaxSessions /\ Len(chat) <= MaxChats
    /\ \A s \in DOMAIN session :
          /\ session[s].chat \in 0..Len(chat)
          /\ \A i \in DOMAIN session[s].records : session[s].records[i] \in Entry
    /\ question \in [Questions -> Asked]
    /\ \A q \in Questions : UnderWay(q) => question[q].session \in DOMAIN session
    /\ keys \subseteq {derived[d].of : d \in Derived}

OneSourceOf(c) == Cardinality(SourcesOf(c)) <= 1

\* The questions sent in one chat are all about the same source, whatever is
\* switched, opened, aborted or started twice in between (the comment of
\* appendContextSwitchRecord: the next question after a switch must start a
\* fresh chat).  Two ways of losing this are excepted: a source chosen on the
\* home page while the conversation is kept behind it, and another conversation
\* or source that comes under a question still being prepared.
OneSourcePerChat == strayed \/ early \/ \A c \in DOMAIN chat : OneSourceOf(c)

Interpreting(q) == {d \in Derived : /\ derived[d].of = q
                                    /\ derived[d].at \in {"saveQuestion", "saveAnswer", "stream"}}

\* One question is interpreted once at a time, also when its chat is opened
\* again while the interpretation of its older copy goes on
\* (pendingDerivedActionKeys, hasUnfinishedDerivedAnswer).  Excepted: asked for
\* again before the first request has its token, and so its key.
OneDerivedAtATime == twice \/ \A q \in Questions : Cardinality(Interpreting(q)) <= 1

\* A question the user has left, by going home or opening another conversation,
\* is not sent to the server afterwards, however far its preparation was
\* (sqlbotAbortController).  Excepted: a second question was let in under the
\* first, and took its controller's place.
NothingSentAfterLeaving ==
    freed \/ \A q \in Questions : question[q].left => question[q].at # "stream"

\* The page does not stay closed to questions: whichever of the question, the
\* opening and the leaving come in each other's way, conversationLoading goes
\* down again.
LoadingEnds == loading ~> ~loading

\* A question does not stay locked against interpretation in this page
\* (pendingDerivedActionKeys), cut off, failed or finished.
KeysAreGivenBack == \A q \in Questions : q \in keys ~> q \notin keys

====
