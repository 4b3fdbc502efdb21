--------------------------- MODULE ConversationProofs ---------------------------
(***************************************************************************)
(* The safety properties of Conversation, for any number of questions,     *)
(* interpretations, replies, conversations, chats and sources.  Each is    *)
(* about a state some awaits after the check that is to ensure it, so each *)
(* needs to know what still holds when a handler comes back from an await: *)
(* what it kept in local variables is there (TypeInv), an interpretation   *)
(* has its key (KeyInv), a question has the controller (ControlInv) and    *)
(* finds its conversation on screen (PlaceInv), about its source, as is    *)
(* that conversation's chat (SourceInv).                                   *)
(***************************************************************************)
EXTENDS Conversation, FiniteSetTheorems, SequenceTheorems, WellFoundedInduction, TLAPS

(* The types                                                               *)

\* Records as the page writes them: their numbers are those of questions and
\* replies there are.
Record == {e \in Entry : /\ e.kind = "question" => e.n \in Questions
                         /\ e.kind = "reply" => e.n \in Replies}

SessionSet(chats) == [chat : 0..chats, records : Seq(Record)]
ChatSet == [exists : BOOLEAN, source : Sources, log : Seq(Record)]
DerivedSet == [at : {"unasked", "token", "saveQuestion", "saveAnswer", "stream", "saveLast", "over"},
               of : 0..MaxQuestions, session : 0..MaxSessions, chat : 0..MaxChats]
ReplySet == [at : {"unasked", "token", "start", "save", "over"}, target : 0..MaxSessions,
             source : Sources \union {NoSource}, chat : 0..MaxChats, saved : BOOLEAN]
CallSet == [at : {"unasked", "open", "delete", "over"}, chat : 0..MaxChats]

\* What a question, interpretation, reply or call under way refers to is there,
\* among that many conversations and chats.
AskedOk(m, sessions, chats) ==
    m.at # "unasked" =>
       /\ m.source \in Sources /\ m.session \in 1..sessions
       /\ m.at \in {"start", "pending", "stream"} => m.target \in 1..sessions
       /\ m.at \in {"pending", "stream"} => m.chat \in 1..chats
       /\ m.at = "pending" => m.todo # {}

DerivedOk(m, sessions, chats) ==
    /\ m.at # "unasked" => m.of \in Questions
    /\ m.at \in {"saveQuestion", "saveAnswer", "stream", "saveLast"} => m.session \in 1..sessions
    /\ m.at \in {"saveAnswer", "saveLast"} => m.chat \in 1..chats

ReplyOk(m, sessions, chats) ==
    /\ m.at # "unasked" => m.source \in Sources
    /\ m.at = "start" => m.target \in 1..sessions
    /\ m.at = "save" => m.chat \in 1..chats

CallOk(m, chats) == m.at \in {"open", "delete"} => m.chat \in 1..chats

\* The questions that a chat has a record of.
QuestionsIn(log) == {log[i].n : i \in {j \in DOMAIN log : log[j].kind = "question"}}

ScreenInv ==
    /\ page \in {"home", "result"} /\ loading \in BOOLEAN
    /\ controller \in 0..MaxQuestions
    /\ selected \in Sources /\ active \in Sources \union {NoSource}
    /\ shown \in 0..Len(session) /\ restored \in 0..Len(chat)
    /\ keys \subseteq {derived[d].of : d \in {e \in Derived : derived[e].at # "unasked"}}

SessionInv ==
    /\ session \in Seq(SessionSet(Len(chat))) /\ Len(session) <= MaxSessions
    /\ chat \in Seq(ChatSet) /\ Len(chat) <= MaxChats
    /\ \A c \in DOMAIN chat : \A n \in QuestionsIn(chat[c].log) : question[n].at # "unasked"

UnderWayInv ==
    /\ question \in [Questions -> Asked] /\ derived \in [Derived -> DerivedSet]
    /\ reply \in [Replies -> ReplySet]
    /\ opening \in [Openings -> CallSet] /\ deletion \in [Deletions -> CallSet]
    /\ \A q \in Questions : AskedOk(question[q], Len(session), Len(chat))
    /\ \A d \in Derived : DerivedOk(derived[d], Len(session), Len(chat))
    /\ \A r \in Replies : ReplyOk(reply[r], Len(session), Len(chat))
    /\ \A v \in Openings : CallOk(opening[v], Len(chat))
    /\ \A x \in Deletions : CallOk(deletion[x], Len(chat))

TypeInv == ScreenInv /\ SessionInv /\ UnderWayInv


(* Sequences of records                                                    *)

\* A sequence changed place by place is still a sequence, of the same length.
LEMMA PointwiseSeq ==
    ASSUME NEW S, NEW T, NEW s \in Seq(S), NEW f \in [DOMAIN s -> T]
    PROVE  f \in Seq(T) /\ Len(f) = Len(s) /\ DOMAIN f = 1..Len(s)
<1>1. Len(s) \in Nat /\ DOMAIN s = 1..Len(s)
  BY LenProperties
<1>2. f \in [1..Len(s) -> T]
  BY <1>1
<1>3. f \in Seq(T)
  BY <1>1, <1>2
<1> QED
  BY <1>1, <1>2, <1>3

\* A number of a non-empty set of numbers up to n that none is above.
LEMMA GreatestExists ==
    ASSUME NEW n \in Nat, NEW S \in SUBSET (1..n), S # {}
    PROVE  \E m \in S : \A k \in S : k <= m
<1> DEFINE T == {n - k : k \in S}
<1>1. T # {} /\ T \subseteq Nat
  <2>1. \A k \in S : n - k \in Nat
    OBVIOUS
  <2> QED
    BY <2>1
<1>2. PICK t \in T : \A u \in T : ~ (<<u, t>> \in OpToRel(<, Nat))
  <2> HIDE DEF T
  <2> QED BY <1>1, NatLessThanWellFounded, WFMin
<1>3. PICK m \in S : t = n - m
  BY <1>2
<1>4. ASSUME NEW k \in S PROVE k <= m
  <2>1. n - k \in T /\ t \in Nat /\ n - k \in Nat
    BY <1>1, <1>2
  <2>2. ~ (n - k < t)
    BY <1>2, <2>1 DEF OpToRel
  <2> QED
    BY <1>3, <2>2
<1> QED
  BY <1>4

\* The oldest of some replies is one of them.
LEMMA OldestIn ==
    ASSUME NEW S \in SUBSET Replies, S # {}
    PROVE  Oldest(S) \in S
<1>1. S \subseteq Nat
  BY DEF Replies
<1>2. PICK m \in S : \A k \in S : ~ (<<k, m>> \in OpToRel(<, Nat))
  BY <1>1, NatLessThanWellFounded, WFMin
<1>3. ASSUME NEW k \in S PROVE m <= k
  <2>1. k \in Nat /\ m \in Nat
    BY <1>1
  <2>2. ~ (k < m)
    BY <1>2, <2>1 DEF OpToRel
  <2> QED
    BY <2>1, <2>2
<1> QED
  BY <1>3 DEF Oldest

\* One conversation, or one chat, is changed.
WithRecords(sessions, s, records) == [sessions EXCEPT ![s].records = records]
WithChat(sessions, s, c) == [sessions EXCEPT ![s].chat = c]
WithLog(chats, c, log) == [chats EXCEPT ![c].log = log]

\* The chat a conversation has, and its records.
LEMMA SessionFields ==
    ASSUME NEW n \in Nat, NEW sessions \in Seq(SessionSet(n)), NEW s \in DOMAIN sessions
    PROVE  /\ s \in 1..Len(sessions)
           /\ sessions[s] \in SessionSet(n)
           /\ sessions[s].chat \in 0..n /\ sessions[s].records \in Seq(Record)
<1>1. s \in 1..Len(sessions) /\ sessions[s] \in SessionSet(n)
  BY LenProperties, ElementOfSeq
<1> QED
  BY <1>1 DEF SessionSet

LEMMA WithRecordsType ==
    ASSUME NEW n \in Nat, NEW sessions \in Seq(SessionSet(n)), NEW s \in DOMAIN sessions,
           NEW records \in Seq(Record)
    PROVE  /\ WithRecords(sessions, s, records) \in Seq(SessionSet(n))
           /\ Len(WithRecords(sessions, s, records)) = Len(sessions)
           /\ \A t \in DOMAIN sessions :
                 /\ WithRecords(sessions, s, records)[t].chat = sessions[t].chat
                 /\ WithRecords(sessions, s, records)[t].records =
                       IF t = s THEN records ELSE sessions[t].records
<1> DEFINE new == WithRecords(sessions, s, records)
<1>1. \A t \in DOMAIN sessions : sessions[t] \in SessionSet(n)
  BY SessionFields
<1>2. /\ new \in [DOMAIN sessions -> SessionSet(n)]
      /\ \A t \in DOMAIN sessions :
            new[t].chat = sessions[t].chat
            /\ new[t].records = IF t = s THEN records ELSE sessions[t].records
  BY <1>1 DEF WithRecords, SessionSet
<1> HIDE DEF new
<1>3. new \in Seq(SessionSet(n)) /\ Len(new) = Len(sessions)
  BY <1>2, PointwiseSeq
<1> QED
  BY <1>2, <1>3 DEF new

LEMMA WithChatType ==
    ASSUME NEW n \in Nat, NEW sessions \in Seq(SessionSet(n)), NEW s \in DOMAIN sessions,
           NEW c \in 0..n
    PROVE  /\ WithChat(sessions, s, c) \in Seq(SessionSet(n))
           /\ Len(WithChat(sessions, s, c)) = Len(sessions)
           /\ \A t \in DOMAIN sessions :
                 /\ WithChat(sessions, s, c)[t].records = sessions[t].records
                 /\ WithChat(sessions, s, c)[t].chat = IF t = s THEN c ELSE sessions[t].chat
<1> DEFINE new == WithChat(sessions, s, c)
<1>1. \A t \in DOMAIN sessions : sessions[t] \in SessionSet(n)
  BY SessionFields
<1>2. /\ new \in [DOMAIN sessions -> SessionSet(n)]
      /\ \A t \in DOMAIN sessions :
            new[t].records = sessions[t].records
            /\ new[t].chat = IF t = s THEN c ELSE sessions[t].chat
  BY <1>1 DEF WithChat, SessionSet
<1> HIDE DEF new
<1>3. new \in Seq(SessionSet(n)) /\ Len(new) = Len(sessions)
  BY <1>2, PointwiseSeq
<1> QED
  BY <1>2, <1>3 DEF new

\* Chats come to be; none goes away.
LEMMA MoreChats ==
    ASSUME NEW n \in Nat, NEW m \in Nat, n <= m, NEW sessions \in Seq(SessionSet(n))
    PROVE  sessions \in Seq(SessionSet(m))
<1>1. SessionSet(n) \subseteq SessionSet(m)
  BY DEF SessionSet
<1> QED
  BY <1>1, SeqMonotonic

\* A record is put at the end of a conversation.
LEMMA PushType ==
    ASSUME NEW n \in Nat, NEW sessions \in Seq(SessionSet(n)), NEW s \in DOMAIN sessions,
           NEW e \in Record
    PROVE  /\ Push(sessions, s, e) \in Seq(SessionSet(n))
           /\ Len(Push(sessions, s, e)) = Len(sessions)
           /\ \A t \in DOMAIN sessions :
                 /\ Push(sessions, s, e)[t].chat = sessions[t].chat
                 /\ sessions[t].records # <<>> => Push(sessions, s, e)[t].records # <<>>
           /\ Push(sessions, s, e)[s].records # <<>>
<1> DEFINE r == Append(sessions[s].records, e)
<1>1. sessions[s].records \in Seq(Record)
  BY SessionFields
<1>2. r \in Seq(Record) /\ r # <<>>
  BY <1>1, AppendProperties
<1>3. Push(sessions, s, e) = WithRecords(sessions, s, r)
  BY DEF Push, WithRecords
<1> HIDE DEF r
<1> QED
  BY <1>2, <1>3, WithRecordsType

\* What is noted of a chat, by its kinds.
LEMMA ChatFields ==
    ASSUME NEW chats \in Seq(ChatSet), NEW c \in DOMAIN chats
    PROVE  /\ c \in 1..Len(chats) /\ chats[c] \in ChatSet
           /\ chats[c].exists \in BOOLEAN /\ chats[c].source \in Sources
           /\ chats[c].log \in Seq(Record)
<1>1. c \in 1..Len(chats) /\ chats[c] \in ChatSet
  BY LenProperties, ElementOfSeq
<1> QED
  BY <1>1 DEF ChatSet

LEMMA WithLogType ==
    ASSUME NEW chats \in Seq(ChatSet), NEW c \in DOMAIN chats, NEW log \in Seq(Record)
    PROVE  /\ WithLog(chats, c, log) \in Seq(ChatSet)
           /\ Len(WithLog(chats, c, log)) = Len(chats)
           /\ \A d \in DOMAIN chats :
                 WithLog(chats, c, log)[d].log = IF d = c THEN log ELSE chats[d].log
<1> DEFINE new == WithLog(chats, c, log)
<1>1. \A d \in DOMAIN chats : chats[d] \in ChatSet
  BY ChatFields
<1>2. /\ new \in [DOMAIN chats -> ChatSet]
      /\ \A d \in DOMAIN chats : new[d].log = IF d = c THEN log ELSE chats[d].log
  BY <1>1 DEF WithLog, ChatSet
<1> HIDE DEF new
<1>3. new \in Seq(ChatSet) /\ Len(new) = Len(chats)
  BY <1>2, PointwiseSeq
<1> QED
  BY <1>2, <1>3 DEF new

\* A record at the end of a log adds its question, if it has one.
LEMMA LoggedType ==
    ASSUME NEW chats \in Seq(ChatSet), NEW c \in DOMAIN chats, NEW e \in Record
    PROVE  /\ Logged(chats, c, e) \in Seq(ChatSet)
           /\ Len(Logged(chats, c, e)) = Len(chats)
           /\ \A d \in DOMAIN chats :
                 QuestionsIn(Logged(chats, c, e)[d].log) =
                    IF d = c /\ e.kind = "question"
                    THEN QuestionsIn(chats[d].log) \union {e.n} ELSE QuestionsIn(chats[d].log)
<1>1. chats[c].log \in Seq(Record)
  BY ChatFields
<1> DEFINE log == chats[c].log
           longer == Append(log, e)
           new == Logged(chats, c, e)
<1>2. /\ longer \in Seq(Record) /\ Len(longer) = Len(log) + 1
      /\ \A i \in 1..Len(log) : longer[i] = log[i]
      /\ longer[Len(log) + 1] = e
  BY <1>1, AppendProperties
<1>3. /\ DOMAIN log = 1..Len(log) /\ Len(log) \in Nat
      /\ DOMAIN longer = 1..(Len(log) + 1)
  BY <1>1, <1>2, LenProperties
<1>4. new = WithLog(chats, c, longer)
  BY DEF Logged, WithLog
<1> HIDE DEF log, longer, new
<1>5. QuestionsIn(longer) = IF e.kind = "question" THEN QuestionsIn(log) \union {e.n}
                                                   ELSE QuestionsIn(log)
  <2>1. ASSUME NEW n \in QuestionsIn(log) PROVE n \in QuestionsIn(longer)
    BY <1>2, <1>3, <2>1 DEF QuestionsIn
  <2>2. e.kind = "question" => e.n \in QuestionsIn(longer)
    <3>1. Len(log) + 1 \in DOMAIN longer
      BY <1>3
    <3> QED
      BY <1>2, <3>1 DEF QuestionsIn
  <2>3. ASSUME NEW n \in QuestionsIn(longer)
        PROVE  n \in QuestionsIn(log) \/ (e.kind = "question" /\ n = e.n)
    <3>1. PICK i \in DOMAIN longer : longer[i].kind = "question" /\ n = longer[i].n
      BY DEF QuestionsIn
    <3>2. CASE i \in 1..Len(log)
      BY <1>2, <1>3, <3>1, <3>2 DEF QuestionsIn
    <3>3. CASE i = Len(log) + 1
      BY <1>2, <3>1, <3>3
    <3> QED
      BY <1>3, <3>2, <3>3
  <2> QED
    BY <2>1, <2>2, <2>3
<1>6. /\ new \in Seq(ChatSet) /\ Len(new) = Len(chats)
      /\ \A d \in DOMAIN chats : new[d].log = IF d = c THEN longer ELSE chats[d].log
  BY <1>2, <1>4, WithLogType
<1> QED
  BY <1>5, <1>6 DEF log, new

\* Records changed in place keep the questions, if they keep what they are.
LEMMA PointwiseQuestions ==
    ASSUME NEW log \in Seq(Record), NEW new \in [DOMAIN log -> Record],
           \A i \in DOMAIN log : new[i].kind = log[i].kind /\ new[i].n = log[i].n
    PROVE  new \in Seq(Record) /\ Len(new) = Len(log) /\ QuestionsIn(new) = QuestionsIn(log)
<1>1. DOMAIN new = DOMAIN log
  OBVIOUS
<1>2. QuestionsIn(new) = QuestionsIn(log)
  BY <1>1 DEF QuestionsIn
<1> QED
  BY <1>2, PointwiseSeq

\* A record of the page's own making.
LEMMA NewEntryType ==
    /\ \A q \in Questions : NewEntry("question", q) \in Record
    /\ \A r \in Replies : NewEntry("reply", r) \in Record
    /\ \A d \in Derived : NewEntry("derived", d) \in Record
BY BoundAssumption DEF NewEntry, Record, Entry, Questions, Replies, Derived

\* What the types say of the two sequences.
LEMMA Sizes ==
    ASSUME TypeInv
    PROVE  /\ Len(session) \in Nat /\ DOMAIN session = 1..Len(session)
           /\ Len(chat) \in Nat /\ DOMAIN chat = 1..Len(chat)
           /\ {MaxQuestions, MaxDerived, MaxReplies, MaxSessions, MaxChats} \subseteq Nat
BY BoundAssumption, LenProperties DEF TypeInv, SessionInv

\* The conversation on screen is there, or a new one is.
LEMMA ContainerThere ==
    ASSUME TypeInv, Room
    PROVE  /\ Sessions \in Seq(SessionSet(Len(chat)))
           /\ Len(Sessions) \in Nat /\ DOMAIN Sessions = 1..Len(Sessions)
           /\ Len(session) <= Len(Sessions) /\ Len(Sessions) <= MaxSessions
           /\ Container \in 1..Len(Sessions)
           /\ shown # 0 => Sessions = session /\ Container = shown
           /\ shown = 0 => Sessions[Container].chat = 0
<1>1. /\ session \in Seq(SessionSet(Len(chat))) /\ Len(session) <= MaxSessions
      /\ Len(session) \in Nat /\ Len(chat) \in Nat /\ MaxSessions \in Nat
      /\ shown \in 0..Len(session)
  BY Sizes DEF TypeInv, SessionInv, ScreenInv
<1>2. CASE shown # 0
  BY <1>1, <1>2, LenProperties DEF Sessions, Container
<1>3. CASE shown = 0
  <2>1. NewSession \in SessionSet(Len(chat)) /\ NewSession.chat = 0
    BY <1>1, EmptySeq DEF NewSession, SessionSet
  <2>2. Sessions = Append(session, NewSession) /\ Container = Len(session) + 1
    BY <1>3 DEF Sessions, Container
  <2>3. /\ Sessions \in Seq(SessionSet(Len(chat))) /\ Len(Sessions) = Len(session) + 1
        /\ Sessions[Len(session) + 1] = NewSession
    BY <1>1, <2>1, <2>2, AppendProperties
  <2>4. Len(session) < MaxSessions
    BY <1>3 DEF Room
  <2> QED
    BY <1>1, <1>3, <2>1, <2>2, <2>3, <2>4, LenProperties
<1> QED
  BY <1>2, <1>3

\* What is under way stays sound while conversations and chats are added.
LEMMA UnderWayStep ==
    ASSUME TypeInv,
           Len(session') \in Nat, Len(session) <= Len(session'),
           Len(chat') \in Nat, Len(chat) <= Len(chat'),
           question' \in [Questions -> Asked], derived' \in [Derived -> DerivedSet],
           reply' \in [Replies -> ReplySet],
           opening' \in [Openings -> CallSet], deletion' \in [Deletions -> CallSet],
           \A q \in Questions : question'[q] # question[q] =>
              AskedOk(question'[q], Len(session'), Len(chat')),
           \A d \in Derived : derived'[d] # derived[d] =>
              DerivedOk(derived'[d], Len(session'), Len(chat')),
           \A r \in Replies : reply'[r] # reply[r] =>
              ReplyOk(reply'[r], Len(session'), Len(chat')),
           \A v \in Openings : opening'[v] # opening[v] => CallOk(opening'[v], Len(chat')),
           \A x \in Deletions : deletion'[x] # deletion[x] => CallOk(deletion'[x], Len(chat'))
    PROVE  UnderWayInv'
<1>1. Len(session) \in Nat /\ Len(chat) \in Nat
  BY Sizes
<1>2. \A q \in Questions : AskedOk(question'[q], Len(session'), Len(chat'))
  BY <1>1 DEF TypeInv, UnderWayInv, AskedOk
<1>3. \A d \in Derived : DerivedOk(derived'[d], Len(session'), Len(chat'))
  BY <1>1 DEF TypeInv, UnderWayInv, DerivedOk
<1>4. \A r \in Replies : ReplyOk(reply'[r], Len(session'), Len(chat'))
  BY <1>1 DEF TypeInv, UnderWayInv, ReplyOk
<1>5. /\ \A v \in Openings : CallOk(opening'[v], Len(chat'))
      /\ \A x \in Deletions : CallOk(deletion'[x], Len(chat'))
  BY <1>1 DEF TypeInv, UnderWayInv, CallOk
<1> QED
  BY <1>2, <1>3, <1>4, <1>5 DEF UnderWayInv

\* Keys stay those of interpretations, which keep what they are of.
LEMMA KeysStep ==
    ASSUME TypeInv, keys' \subseteq keys,
           \A d \in Derived : derived[d].at # "unasked" =>
              derived'[d].at # "unasked" /\ derived'[d].of = derived[d].of
    PROVE  keys' \subseteq {derived'[d].of : d \in {e \in Derived : derived'[e].at # "unasked"}}
BY DEF TypeInv, ScreenInv

\* The conversations, and the logs, if no question enters a log that has
\* not been asked.
LEMMA SessionStep ==
    ASSUME TypeInv,
           session' \in Seq(SessionSet(Len(chat'))), Len(session') <= MaxSessions,
           chat' \in Seq(ChatSet), Len(chat') <= MaxChats,
           \A q \in Questions : question[q].at # "unasked" => question'[q].at # "unasked",
           \A c \in DOMAIN chat' : \A n \in QuestionsIn(chat'[c].log) :
              \/ c \in DOMAIN chat /\ n \in QuestionsIn(chat[c].log)
              \/ n \in Questions /\ question'[n].at # "unasked"
    PROVE  SessionInv'
<1>1. ASSUME NEW c \in DOMAIN chat, NEW n \in QuestionsIn(chat[c].log)
      PROVE  n \in Questions
  <2>1. chat \in Seq(ChatSet)
    BY DEF TypeInv, SessionInv
  <2>2. chat[c].log \in Seq(Record)
    BY <2>1, ChatFields
  <2>3. PICK i \in DOMAIN chat[c].log : chat[c].log[i].kind = "question" /\ n = chat[c].log[i].n
    BY DEF QuestionsIn
  <2>4. chat[c].log[i] \in Record
    BY <2>2, LenProperties, ElementOfSeq
  <2> QED
    BY <2>3, <2>4 DEF Record
<1>2. \A c \in DOMAIN chat' : \A n \in QuestionsIn(chat'[c].log) : question'[n].at # "unasked"
  BY <1>1 DEF TypeInv, SessionInv
<1> QED
  BY <1>2 DEF SessionInv

(* A question                                                              *)

\* The same conversations, with the same chats, later: records may have been
\* added or changed.
Later(sessions, new, chats) ==
    /\ new \in Seq(SessionSet(chats)) /\ Len(new) = Len(sessions)
    /\ \A s \in DOMAIN sessions :
          /\ new[s].chat = sessions[s].chat
          /\ sessions[s].records # <<>> => new[s].records # <<>>

\* What becomes of a question that is about to be sent.
Sent(q, mine, sessions, chats) ==
    /\ Later(sessions, session', Len(chats))
    /\ restored' \in 0..Len(chats)
    /\ \E m \in Asked :
          /\ question' = [question EXCEPT ![q] = m]
          /\ m.source = mine.source /\ m.session = mine.session /\ m.target = mine.target
          /\ m.aborted = mine.aborted /\ m.left = mine.left
          /\ m.at \in {"pending", "stream", "failing", "over"}
          /\ AskedOk(m, Len(sessions), Len(chats))
          /\ IF m.at = "stream"
             THEN /\ ~mine.aborted /\ sessions[mine.target].chat \in DOMAIN chats
                  /\ chat' = Logged(chats, sessions[mine.target].chat, NewEntry("question", q))
             ELSE chat' = chats
          /\ IF m.at = "over"
             THEN /\ mine.aborted /\ loading' = FALSE
                  /\ controller' = IF controller = q THEN 0 ELSE controller
             ELSE UNCHANGED <<loading, controller>>

\* Changing the records of a conversation in place.
LEMMA MarkedLater ==
    ASSUME NEW n \in Nat, NEW sessions \in Seq(SessionSet(n)), NEW s \in DOMAIN sessions,
           NEW records \in [DOMAIN sessions[s].records -> Record]
    PROVE  Later(sessions, WithRecords(sessions, s, records), n)
<1> DEFINE old == sessions[s].records
           new == WithRecords(sessions, s, records)
<1>1. old \in Seq(Record)
  BY SessionFields
<1>2. records \in [DOMAIN old -> Record]
  OBVIOUS
<1> HIDE DEF old, new
<1>3. records \in Seq(Record) /\ Len(records) = Len(old)
  BY <1>1, <1>2, PointwiseSeq
<1>4. old # <<>> => records # <<>>
  BY <1>1, <1>3, EmptySeq
<1>5. /\ new \in Seq(SessionSet(n)) /\ Len(new) = Len(sessions)
      /\ \A t \in DOMAIN sessions :
            /\ new[t].chat = sessions[t].chat
            /\ new[t].records = IF t = s THEN records ELSE sessions[t].records
  BY <1>3, WithRecordsType DEF new
<1> QED
  BY <1>4, <1>5 DEF Later, old, new

\* Marking the record of a question as failed changes nothing else.
LEMMA FailingLater ==
    ASSUME NEW n \in Nat, NEW sessions \in Seq(SessionSet(n)), NEW q, NEW mine,
           mine.session \in DOMAIN sessions, Failing(q, mine, sessions)
    PROVE  Later(sessions, session', n)
<1> DEFINE s == mine.session
           old == sessions[s].records
           Change(e) == [e EXCEPT !.finish = TRUE, !.error = TRUE]
           records == [i \in DOMAIN old |->
                          IF old[i].kind = "question" /\ old[i].n = q
                          THEN Change(old[i]) ELSE old[i]]
<1>1. \A i \in DOMAIN old : old[i] \in Record
  BY SessionFields, LenProperties, ElementOfSeq
<1>2. \A e \in Record : Change(e) \in Record
  BY DEF Record, Entry
<1>3. records \in [DOMAIN old -> Record]
  <2> HIDE DEF Change, old
  <2> QED BY <1>1, <1>2
<1>4. session' = WithRecords(sessions, s, records)
  BY DEF Failing, Marked, WithRecords
<1> HIDE DEF records
<1> QED
  BY <1>3, <1>4, MarkedLater

LEMMA SendShape ==
    ASSUME TypeInv, NEW q \in Questions, NEW mine \in Asked,
           NEW chats \in Seq(ChatSet), Len(chats) <= MaxChats,
           Len(chat) <= Len(chats),
           NEW sessions \in Seq(SessionSet(Len(chats))),
           mine.source \in Sources,
           mine.session \in DOMAIN sessions, mine.target \in DOMAIN sessions,
           shown' \in 0..Len(sessions),
           Send(q, mine, sessions, chats)
    PROVE  Sent(q, mine, sessions, chats)
<1>1. /\ Len(chats) \in Nat /\ DOMAIN chats = 1..Len(chats)
      /\ DOMAIN sessions = 1..Len(sessions) /\ Len(sessions) \in Nat /\ MaxChats \in Nat
      /\ Len(chat) \in Nat
  BY LenProperties, Sizes
<1> DEFINE c == sessions[mine.target].chat
<1>2. c \in 0..Len(chats)
  BY <1>1, SessionFields
<1>3. restored' \in 0..Len(chats)
  <2>1. restored' = Noted(sessions, shown')
    BY DEF Send
  <2>2. CASE shown' = 0
    BY <1>1, <2>1, <2>2 DEF Noted, TypeInv, ScreenInv
  <2>3. CASE shown' # 0
    BY <1>1, <2>1, <2>3, SessionFields DEF Noted
  <2> QED
    BY <2>2, <2>3
<1>4. Later(sessions, sessions, Len(chats))
  BY DEF Later
<1>5. CASE mine.aborted /\ Over(q, mine) /\ session' = sessions /\ chat' = chats
  <2> DEFINE m == [mine EXCEPT !.at = "over"]
  <2>1. m \in Asked /\ AskedOk(m, Len(sessions), Len(chats))
    BY <1>1 DEF Asked, AskedOk
  <2>2. /\ m.source = mine.source /\ m.session = mine.session /\ m.target = mine.target
        /\ m.aborted = mine.aborted /\ m.left = mine.left /\ m.at = "over"
    BY DEF Asked
  <2>3. question' = [question EXCEPT ![q] = m]
    BY <1>5 DEF Over
  <2> HIDE DEF m
  <2> QED
    BY <1>3, <1>4, <1>5, <2>1, <2>2, <2>3 DEF Sent, Over
<1>6. CASE /\ ~mine.aborted
           /\ c # 0 /\ chats[c].exists
           /\ question' = [question EXCEPT ![q] = [mine EXCEPT !.at = "stream", !.chat = c]]
           /\ chat' = Logged(chats, c, NewEntry("question", q))
           /\ session' = sessions
           /\ UNCHANGED <<loading, controller>>
  <2> DEFINE m == [mine EXCEPT !.at = "stream", !.chat = c]
  <2>1. c \in 1..Len(chats) /\ c \in 0..MaxChats
    BY <1>1, <1>2, <1>6
  <2> HIDE DEF c
  <2>2. m \in Asked /\ AskedOk(m, Len(sessions), Len(chats))
    BY <1>1, <2>1 DEF Asked, AskedOk
  <2>3. /\ m.source = mine.source /\ m.session = mine.session /\ m.target = mine.target
        /\ m.aborted = mine.aborted /\ m.left = mine.left /\ m.at = "stream"
    BY DEF Asked
  <2>4. question' = [question EXCEPT ![q] = m]
    BY <1>6
  <2> HIDE DEF m
  <2> QED
    BY <1>1, <1>3, <1>4, <1>6, <2>1, <2>2, <2>3, <2>4 DEF Sent, c
<1>7. CASE ~mine.aborted /\ Failing(q, mine, sessions) /\ chat' = chats
  <2> DEFINE m == [mine EXCEPT !.at = "failing"]
  <2>1. m \in Asked /\ AskedOk(m, Len(sessions), Len(chats))
    BY <1>1 DEF Asked, AskedOk
  <2>2. /\ m.source = mine.source /\ m.session = mine.session /\ m.target = mine.target
        /\ m.aborted = mine.aborted /\ m.left = mine.left /\ m.at = "failing"
    BY DEF Asked
  <2>3. question' = [question EXCEPT ![q] = m]
    BY <1>7 DEF Failing
  <2>4. Later(sessions, session', Len(chats))
    BY <1>1, <1>7, FailingLater
  <2> HIDE DEF m
  <2> QED
    BY <1>3, <1>7, <2>1, <2>2, <2>3, <2>4 DEF Sent, Failing
<1> QED
  BY <1>5, <1>6, <1>7 DEF Send

LEMMA SaveOrSendShape ==
    ASSUME TypeInv, NEW q \in Questions, NEW mine \in Asked, NEW todo \in SUBSET Replies,
           NEW chats \in Seq(ChatSet), Len(chats) <= MaxChats,
           Len(chat) <= Len(chats),
           NEW sessions \in Seq(SessionSet(Len(chats))),
           mine.source \in Sources,
           mine.session \in DOMAIN sessions, mine.target \in DOMAIN sessions,
           shown' \in 0..Len(sessions),
           SaveOrSend(q, mine, todo, sessions, chats)
    PROVE  Sent(q, mine, sessions, chats)
<1>1. /\ Len(chats) \in Nat /\ DOMAIN chats = 1..Len(chats)
      /\ DOMAIN sessions = 1..Len(sessions) /\ Len(sessions) \in Nat /\ MaxChats \in Nat
      /\ Len(chat) \in Nat
  BY LenProperties, Sizes
<1> DEFINE c == ChatOf(sessions, shown')
<1>2. CASE /\ todo # {} /\ c # 0
           /\ question' = [question EXCEPT ![q] =
                 [mine EXCEPT !.at = "pending", !.todo = todo, !.chat = c]]
           /\ session' = sessions /\ chat' = chats
           /\ UNCHANGED <<loading, controller, restored>>
  <2> DEFINE m == [mine EXCEPT !.at = "pending", !.todo = todo, !.chat = c]
  <2>1. c \in 1..Len(chats) /\ c \in 0..MaxChats
    <3>1. shown' \in DOMAIN sessions
      BY <1>1, <1>2 DEF ChatOf
    <3> QED
      BY <1>1, <1>2, <3>1, SessionFields DEF ChatOf
  <2> HIDE DEF c
  <2>2. m \in Asked /\ AskedOk(m, Len(sessions), Len(chats))
    BY <1>1, <1>2, <2>1 DEF Asked, AskedOk
  <2>3. /\ m.source = mine.source /\ m.session = mine.session /\ m.target = mine.target
        /\ m.aborted = mine.aborted /\ m.left = mine.left /\ m.at = "pending"
    BY DEF Asked
  <2>4. question' = [question EXCEPT ![q] = m]
    BY <1>2
  <2> HIDE DEF m
  <2>5. restored' \in 0..Len(chats)
    BY <1>1, <1>2 DEF TypeInv, ScreenInv
  <2>6. Later(sessions, session', Len(chats))
    BY <1>2 DEF Later
  <2> QED
    BY <1>2, <2>2, <2>3, <2>4, <2>5, <2>6 DEF Sent
<1>3. CASE Send(q, [mine EXCEPT !.todo = {}], sessions, chats)
  <2> DEFINE m == [mine EXCEPT !.todo = {}]
  <2>1. /\ m \in Asked
        /\ m.source = mine.source /\ m.session = mine.session /\ m.target = mine.target
        /\ m.aborted = mine.aborted /\ m.left = mine.left
    BY DEF Asked
  <2> HIDE DEF m
  <2>2. Send(q, m, sessions, chats)
    BY <1>3 DEF m
  <2>3. Sent(q, m, sessions, chats)
    BY <2>1, <2>2, SendShape
  <2> QED
    BY <2>1, <2>3 DEF Sent
<1> QED
  BY <1>2, <1>3 DEF SaveOrSend

LEMMA UnsavedType ==
    ASSUME NEW records \in Seq(Record), NEW saved
    PROVE  Unsaved(records, saved) \in SUBSET Replies
<1>1. \A i \in DOMAIN records : records[i] \in Record
  BY LenProperties, ElementOfSeq
<1>2. \A e \in Entries(records, "reply") : e.n \in Replies
  BY <1>1 DEF Entries, Record
<1> QED
  BY <1>2 DEF Unsaved

LEMMA HasChatShape ==
    ASSUME TypeInv, NEW q \in Questions, NEW mine \in Asked,
           NEW chats \in Seq(ChatSet), Len(chats) <= MaxChats,
           Len(chat) <= Len(chats),
           NEW sessions \in Seq(SessionSet(Len(chats))),
           mine.source \in Sources,
           mine.session \in DOMAIN sessions, mine.target \in DOMAIN sessions,
           shown' \in 0..Len(sessions),
           HasChat(q, mine, sessions, chats)
    PROVE  Sent(q, mine, sessions, chats)
<1> DEFINE todo == IF shown' = 0 THEN {} ELSE Unsaved(sessions[shown'].records, Saved)
<1>1. Len(chats) \in Nat /\ DOMAIN sessions = 1..Len(sessions) /\ Len(sessions) \in Nat
  BY LenProperties
<1>2. todo \in SUBSET Replies
  <2>1. CASE shown' # 0
    BY <1>1, <2>1, SessionFields, UnsavedType
  <2> QED
    BY <2>1
<1>3. SaveOrSend(q, mine, todo, sessions, chats)
  BY DEF HasChat
<1> HIDE DEF todo
<1> QED
  BY <1>2, <1>3, SaveOrSendShape

\* The chats before a send: those there were, with the same questions, and
\* perhaps new ones without any.
SameQuestions(chats) ==
    /\ chats \in Seq(ChatSet) /\ Len(chat) <= Len(chats) /\ Len(chats) <= MaxChats
    /\ \A c \in DOMAIN chats : \A n \in QuestionsIn(chats[c].log) :
          c \in DOMAIN chat /\ n \in QuestionsIn(chat[c].log)

LEMMA SentType ==
    ASSUME TypeInv, NEW q \in Questions, question[q].at # "unasked", NEW mine,
           NEW chats, SameQuestions(chats), NEW sessions \in Seq(SessionSet(Len(chats))),
           Len(session) <= Len(sessions), Len(sessions) <= MaxSessions,
           shown' \in 0..Len(sessions),
           Sent(q, mine, sessions, chats), UNCHANGED Rest,
           reply' \in [Replies -> ReplySet],
           \A r \in Replies : reply'[r] # reply[r] =>
              ReplyOk(reply'[r], Len(sessions), Len(chats))
    PROVE  TypeInv'
<1>1. /\ Len(chats) \in Nat /\ DOMAIN chats = 1..Len(chats)
      /\ DOMAIN sessions = 1..Len(sessions) /\ Len(sessions) \in Nat
      /\ chats \in Seq(ChatSet)
  BY LenProperties DEF SameQuestions
<1>2. PICK m \in Asked :
          /\ question' = [question EXCEPT ![q] = m]
          /\ m.at \in {"pending", "stream", "failing", "over"}
          /\ AskedOk(m, Len(sessions), Len(chats))
          /\ IF m.at = "stream"
             THEN /\ sessions[mine.target].chat \in DOMAIN chats
                  /\ chat' = Logged(chats, sessions[mine.target].chat, NewEntry("question", q))
             ELSE chat' = chats
          /\ IF m.at = "over"
             THEN loading' = FALSE /\ controller' = IF controller = q THEN 0 ELSE controller
             ELSE UNCHANGED <<loading, controller>>
  BY DEF Sent
<1>3. /\ chat' \in Seq(ChatSet) /\ Len(chat') = Len(chats)
      /\ \A c \in DOMAIN chats : \A n \in QuestionsIn(chat'[c].log) :
            n \in QuestionsIn(chats[c].log) \/ n = q
  <2>1. NewEntry("question", q) \in Record /\ NewEntry("question", q).n = q
    BY NewEntryType DEF NewEntry
  <2>2. CASE m.at = "stream"
    <3> DEFINE c == sessions[mine.target].chat
               e == NewEntry("question", q)
    <3>1. c \in DOMAIN chats /\ chat' = Logged(chats, c, e)
      BY <1>2, <2>2
    <3> HIDE DEF c, e
    <3>2. e \in Record /\ e.n = q
      BY <2>1 DEF e
    <3>3. /\ chat' \in Seq(ChatSet) /\ Len(chat') = Len(chats)
          /\ \A d \in DOMAIN chats :
                QuestionsIn(chat'[d].log) =
                   IF d = c /\ e.kind = "question"
                   THEN QuestionsIn(chats[d].log) \union {e.n} ELSE QuestionsIn(chats[d].log)
      BY <1>1, <3>1, <3>2, LoggedType
    <3> QED
      BY <3>2, <3>3
  <2>3. CASE m.at # "stream"
    BY <1>1, <1>2, <2>3
  <2> QED
    BY <2>2, <2>3
<1>4. question \in [Questions -> Asked]
  BY DEF TypeInv, UnderWayInv
<1>5. question' \in [Questions -> Asked] /\ question'[q] = m
      /\ \A p \in Questions : p # q => question'[p] = question[p]
  BY <1>2, <1>4
<1>6. session' \in Seq(SessionSet(Len(chat'))) /\ Len(session') = Len(sessions)
      /\ restored' \in 0..Len(chat')
  BY <1>3 DEF Sent, Later
<1>7. SessionInv'
  <2>1. \A p \in Questions : question[p].at # "unasked" => question'[p].at # "unasked"
    BY <1>2, <1>5
  <2>2. \A c \in DOMAIN chat' : \A n \in QuestionsIn(chat'[c].log) :
            \/ c \in DOMAIN chat /\ n \in QuestionsIn(chat[c].log)
            \/ n \in Questions /\ question'[n].at # "unasked"
    <3>1. DOMAIN chat' = DOMAIN chats
      BY <1>1, <1>3, LenProperties
    <3> QED
      BY <1>2, <1>3, <1>5, <3>1 DEF SameQuestions
  <2> QED
    BY <1>3, <1>6, <2>1, <2>2, SessionStep DEF SameQuestions
<1>8. UnderWayInv'
  <2>1. UNCHANGED <<derived, opening, deletion>>
    BY DEF Rest
  <2>2. /\ derived \in [Derived -> DerivedSet]
        /\ opening \in [Openings -> CallSet] /\ deletion \in [Deletions -> CallSet]
    BY DEF TypeInv, UnderWayInv
  <2>3. \A p \in Questions : question'[p] # question[p] =>
            AskedOk(question'[p], Len(session'), Len(chat'))
    BY <1>2, <1>3, <1>5, <1>6
  <2> QED
    BY <1>1, <1>3, <1>5, <1>6, <2>1, <2>2, <2>3, UnderWayStep DEF SameQuestions
<1>9. ScreenInv'
  <2>1. UNCHANGED <<derived, keys, page, selected, active>>
    BY DEF Rest
  <2>2. /\ loading' = FALSE \/ loading' = loading
        /\ controller' = 0 \/ controller' = controller
    BY <1>2
  <2>3. loading' \in BOOLEAN /\ controller' \in 0..MaxQuestions
    <3>1. loading' \in BOOLEAN
      BY <2>2 DEF TypeInv, ScreenInv
    <3>2. 0 \in 0..MaxQuestions
      BY Sizes
    <3>3. controller' \in 0..MaxQuestions
      BY <2>2, <3>2 DEF TypeInv, ScreenInv
    <3> QED
      BY <3>1, <3>3
  <2> QED
    BY <1>6, <2>1, <2>3 DEF TypeInv, ScreenInv
<1> QED
  BY <1>7, <1>8, <1>9 DEF TypeInv

\* A question that is about to be sent, in the conversation and the chat it finds:
\* the one on screen when it has just got its token, else the one noted then; a
\* conversation has kept its chat or has one just started.
SendsFrom(q, mine, sessions, chats) ==
    /\ question[q].at \in {"token", "start", "pending"}
    /\ mine \in Asked
    /\ mine.source = question[q].source /\ mine.session = question[q].session
    /\ mine.aborted = question[q].aborted /\ mine.left = question[q].left
    /\ mine.target = IF question[q].at = "token" THEN shown' ELSE question[q].target
    /\ SameQuestions(chats) /\ sessions \in Seq(SessionSet(Len(chats)))
    /\ Len(session) <= Len(sessions) /\ Len(sessions) <= MaxSessions
    /\ shown' \in 0..Len(sessions) /\ shown' = shown
    /\ mine.target \in DOMAIN sessions
    /\ \A s \in DOMAIN sessions :
          /\ s \in DOMAIN session => sessions[s].records = session[s].records
          /\ \/ sessions[s].chat \in {0} \union (1..Len(chats) \ 1..Len(chat))
             \/ s \in DOMAIN session /\ sessions[s].chat = session[s].chat
    /\ Sent(q, mine, sessions, chats) /\ UNCHANGED Rest

\* A question that has its token and finds no chat starts one.
BeginsChat(q, m) ==
    /\ question[q].at = "token" /\ shown' = Container /\ Room
    /\ m \in Asked /\ m.at = "start" /\ m.target = Container
    /\ m.source = question[q].source /\ m.session = question[q].session
    /\ m.aborted = question[q].aborted /\ m.left = question[q].left
    /\ question' = [question EXCEPT ![q] = m]
    /\ session' = Sessions /\ Sessions[Container].chat = 0
    /\ UNCHANGED <<loading, controller, restored, chat, reply, Rest>>

LEMMA TokenForQuestionShape ==
    ASSUME TypeInv, NEW q \in Questions, TokenForQuestion(q)
    PROVE  /\ reply' = reply
           /\ \/ \E mine, sessions, chats : SendsFrom(q, mine, sessions, chats)
              \/ \E m : BeginsChat(q, m)
<1>1. /\ Room /\ shown' = Container /\ question[q].at = "token"
      /\ question[q] \in Asked /\ AskedOk(question[q], Len(session), Len(chat))
      /\ UNCHANGED Rest /\ reply' = reply
      /\ chat \in Seq(ChatSet) /\ Len(chat) <= MaxChats
  BY DEF TokenForQuestion, TypeInv, UnderWayInv, SessionInv
<1>2. /\ Sessions \in Seq(SessionSet(Len(chat)))
      /\ Len(Sessions) \in Nat /\ DOMAIN Sessions = 1..Len(Sessions)
      /\ Len(session) <= Len(Sessions) /\ Len(Sessions) <= MaxSessions
      /\ Container \in 1..Len(Sessions)
      /\ shown # 0 => Sessions = session /\ Container = shown
      /\ shown = 0 => Sessions[Container].chat = 0
  BY <1>1, ContainerThere
<1>3. /\ Len(session) \in Nat /\ Len(chat) \in Nat /\ Len(chat) <= Len(chat)
      /\ Container \in 0..MaxSessions /\ shown' \in 0..Len(Sessions)
  BY <1>1, <1>2, Sizes
<1> DEFINE mine == [question[q] EXCEPT !.target = Container]
<1>4. /\ mine \in Asked /\ mine.target = Container /\ mine.at = "token"
      /\ mine.source = question[q].source /\ mine.session = question[q].session
      /\ mine.aborted = question[q].aborted /\ mine.left = question[q].left
  BY <1>1, <1>2, <1>3 DEF Asked
<1>5. /\ mine.source \in Sources /\ mine.session \in DOMAIN Sessions
      /\ mine.target \in DOMAIN Sessions
  BY <1>1, <1>2, <1>3, <1>4 DEF AskedOk
<1>6. SameQuestions(chat)
  BY <1>1, <1>3 DEF SameQuestions
<1>7. CASE Sessions[Container].chat # 0 /\ HasChat(q, mine, Sessions, chat)
  <2> HIDE DEF mine
  <2>1. Sent(q, mine, Sessions, chat)
    BY <1>1, <1>2, <1>3, <1>4, <1>5, <1>7, HasChatShape
  <2>2. shown # 0 /\ Sessions = session
    BY <1>2, <1>7
  <2>3. SendsFrom(q, mine, Sessions, chat)
    BY <1>1, <1>2, <1>3, <1>4, <1>5, <1>6, <2>1, <2>2 DEF SendsFrom
  <2> QED
    BY <1>1, <2>3
<1>8. CASE /\ Sessions[Container].chat = 0
           /\ question' = [question EXCEPT ![q] = [mine EXCEPT !.at = "start"]]
           /\ session' = Sessions
           /\ UNCHANGED <<loading, controller, restored, chat>>
  <2> DEFINE m == [mine EXCEPT !.at = "start"]
  <2>1. /\ m \in Asked /\ m.at = "start" /\ m.target = Container
        /\ m.source = question[q].source /\ m.session = question[q].session
        /\ m.aborted = question[q].aborted /\ m.left = question[q].left
    BY <1>4 DEF Asked
  <2> HIDE DEF mine
  <2>2. question' = [question EXCEPT ![q] = m]
    BY <1>8
  <2> HIDE DEF m
  <2>3. BeginsChat(q, m)
    BY <1>1, <1>8, <2>1, <2>2 DEF BeginsChat
  <2> QED
    BY <1>1, <2>3
<1> QED
  BY <1>7, <1>8 DEF TokenForQuestion

LEMMA SendsFromType ==
    ASSUME TypeInv, NEW q \in Questions, NEW mine, NEW sessions, NEW chats,
           SendsFrom(q, mine, sessions, chats),
           reply' \in [Replies -> ReplySet],
           \A r \in Replies : reply'[r] # reply[r] =>
              ReplyOk(reply'[r], Len(sessions), Len(chats))
    PROVE  TypeInv'
BY SentType DEF SendsFrom

LEMMA TokenForQuestionType ==
    ASSUME TypeInv, NEW q \in Questions, TokenForQuestion(q)
    PROVE  TypeInv'
<1>1. /\ reply' = reply /\ reply \in [Replies -> ReplySet]
      /\ AskedOk(question[q], Len(session), Len(chat))
      /\ question \in [Questions -> Asked] /\ session \in Seq(SessionSet(Len(chat)))
      /\ chat \in Seq(ChatSet) /\ Len(chat) <= MaxChats
  BY TokenForQuestionShape DEF TypeInv, UnderWayInv, SessionInv
<1>2. ASSUME NEW mine, NEW sessions, NEW chats, SendsFrom(q, mine, sessions, chats)
      PROVE  TypeInv'
  BY <1>1, <1>2, SendsFromType
<1>3. ASSUME NEW m, BeginsChat(q, m) PROVE TypeInv'
  <2>1. /\ Sessions \in Seq(SessionSet(Len(chat)))
        /\ Len(Sessions) \in Nat /\ DOMAIN Sessions = 1..Len(Sessions)
        /\ Len(session) <= Len(Sessions) /\ Len(Sessions) <= MaxSessions
        /\ Container \in 1..Len(Sessions) /\ Container \in 0..Len(Sessions)
        /\ Len(session) \in Nat /\ Len(chat) \in Nat /\ Len(chat) <= Len(chat)
    BY <1>3, ContainerThere, Sizes DEF BeginsChat
  <2>2. /\ m \in Asked /\ m.at = "start" /\ AskedOk(m, Len(Sessions), Len(chat))
        /\ question' = [question EXCEPT ![q] = m]
    BY <1>1, <1>3, <2>1 DEF BeginsChat, AskedOk
  <2>3. /\ question' \in [Questions -> Asked] /\ question'[q] = m
        /\ \A p \in Questions : p # q => question'[p] = question[p]
    BY <1>1, <2>2
  <2>4. /\ UNCHANGED <<derived, opening, deletion, keys, page, selected, active, chat,
                       loading, controller, restored>>
        /\ session' = Sessions /\ shown' = Container
    BY <1>3 DEF BeginsChat, Rest
  <2>5. SessionInv'
    BY <1>1, <2>1, <2>2, <2>3, <2>4, SessionStep
  <2>6. UnderWayInv'
    BY <1>1, <2>1, <2>2, <2>3, <2>4, UnderWayStep DEF TypeInv, UnderWayInv
  <2>7. ScreenInv'
    BY <2>1, <2>4 DEF TypeInv, ScreenInv
  <2> QED
    BY <2>5, <2>6, <2>7 DEF TypeInv
<1> QED
  BY <1>2, <1>3, TokenForQuestionShape

\* A chat that is started has no questions, and changes no other.
LEMMA StartedType ==
    ASSUME TypeInv, Len(chat) < MaxChats, NEW source \in Sources
    PROVE  /\ SameQuestions(Started(source))
           /\ Len(Started(source)) = Len(chat) + 1
           /\ QuestionsIn(Started(source)[Len(chat) + 1].log) = {}
           /\ \A c \in DOMAIN chat : Started(source)[c] = chat[c]
<1> DEFINE e == [exists |-> TRUE, source |-> source, log |-> <<>>]
           new == Started(source)
<1>1. /\ chat \in Seq(ChatSet) /\ Len(chat) \in Nat /\ DOMAIN chat = 1..Len(chat)
      /\ MaxChats \in Nat
  BY Sizes DEF TypeInv, SessionInv
<1>2. e \in ChatSet /\ QuestionsIn(e.log) = {}
  BY EmptySeq DEF ChatSet, QuestionsIn
<1>3. new = Append(chat, e)
  BY DEF Started
<1> HIDE DEF e, new
<1>4. /\ new \in Seq(ChatSet) /\ Len(new) = Len(chat) + 1
      /\ \A c \in 1..Len(chat) : new[c] = chat[c]
      /\ new[Len(chat) + 1] = e
  BY <1>1, <1>2, <1>3, AppendProperties
<1>5. DOMAIN new = 1..(Len(chat) + 1)
  BY <1>4, LenProperties
<1>6. ASSUME NEW c \in DOMAIN new, NEW n \in QuestionsIn(new[c].log)
      PROVE  c \in DOMAIN chat /\ n \in QuestionsIn(chat[c].log)
  <2>1. c # Len(chat) + 1
    BY <1>2, <1>4, <1>6
  <2>2. c \in 1..Len(chat)
    BY <1>1, <1>5, <2>1
  <2> QED
    BY <1>1, <1>4, <1>6, <2>2
<1>7. SameQuestions(new)
  BY <1>1, <1>4, <1>6 DEF SameQuestions
<1> QED
  BY <1>1, <1>2, <1>4, <1>7 DEF new

LEMMA StartedSession ==
    ASSUME TypeInv, NEW s \in DOMAIN session
    PROVE  LET new == [session EXCEPT ![s].chat = Len(chat) + 1] IN
           /\ new \in Seq(SessionSet(Len(chat) + 1)) /\ Len(new) = Len(session)
           /\ DOMAIN new = DOMAIN session
           /\ \A t \in DOMAIN session :
                 /\ new[t].records = session[t].records
                 /\ new[t].chat = IF t = s THEN Len(chat) + 1 ELSE session[t].chat
<1> DEFINE new == WithChat(session, s, Len(chat) + 1)
<1>1. session \in Seq(SessionSet(Len(chat))) /\ Len(chat) \in Nat
  BY Sizes DEF TypeInv, SessionInv
<1>2. Len(chat) + 1 \in Nat /\ Len(chat) <= Len(chat) + 1
      /\ Len(chat) + 1 \in 0..(Len(chat) + 1)
  BY <1>1
<1>3. session \in Seq(SessionSet(Len(chat) + 1))
  BY <1>1, <1>2, MoreChats
<1>4. /\ new \in Seq(SessionSet(Len(chat) + 1)) /\ Len(new) = Len(session)
      /\ \A t \in DOMAIN session :
            /\ new[t].records = session[t].records
            /\ new[t].chat = IF t = s THEN Len(chat) + 1 ELSE session[t].chat
  BY <1>2, <1>3, WithChatType
<1>5. DOMAIN new = DOMAIN session
  BY DEF WithChat
<1> QED
  BY <1>4, <1>5 DEF WithChat

LEMMA StartForQuestionShape ==
    ASSUME TypeInv, NEW q \in Questions, StartForQuestion(q)
    PROVE  /\ reply' = reply
           /\ \E mine, sessions, chats : SendsFrom(q, mine, sessions, chats)
<1> DEFINE mine == question[q]
           sessions == [session EXCEPT ![mine.target].chat = Len(chat) + 1]
           chats == Started(mine.source)
<1>1. /\ shown' = shown /\ mine.at = "start" /\ Len(chat) < MaxChats
      /\ mine \in Asked /\ mine.source \in Sources
      /\ mine.session \in DOMAIN session /\ mine.target \in DOMAIN session
      /\ UNCHANGED Rest /\ reply' = reply
      /\ Len(session) <= MaxSessions /\ shown \in 0..Len(session)
      /\ Len(chat) \in Nat /\ Len(session) \in Nat /\ MaxChats \in Nat
  BY Sizes DEF StartForQuestion, TypeInv, UnderWayInv, SessionInv, ScreenInv, AskedOk
<1>2. HasChat(q, mine, sessions, chats)
  BY DEF StartForQuestion
<1>3. SameQuestions(chats) /\ Len(chats) = Len(chat) + 1
  BY <1>1, StartedType
<1>4. /\ sessions \in Seq(SessionSet(Len(chat) + 1)) /\ Len(sessions) = Len(session)
      /\ DOMAIN sessions = DOMAIN session
      /\ \A t \in DOMAIN session :
            /\ sessions[t].records = session[t].records
            /\ sessions[t].chat = IF t = mine.target THEN Len(chat) + 1 ELSE session[t].chat
  BY <1>1, StartedSession
<1>5. sessions \in Seq(SessionSet(Len(chats))) /\ shown' \in 0..Len(sessions)
      /\ Len(session) <= Len(sessions) /\ Len(sessions) <= MaxSessions
      /\ Len(chat) + 1 \in 1..Len(chats) \ 1..Len(chat)
  BY <1>1, <1>3, <1>4
<1> HIDE DEF sessions, chats, mine
<1>6. Len(chat) <= Len(chats) /\ Len(chats) <= MaxChats /\ chats \in Seq(ChatSet)
  BY <1>3 DEF SameQuestions
<1>7. Sent(q, mine, sessions, chats)
  BY <1>1, <1>2, <1>4, <1>5, <1>6, HasChatShape
<1>8. SendsFrom(q, mine, sessions, chats)
  BY <1>1, <1>3, <1>4, <1>5, <1>7 DEF SendsFrom, mine
<1> QED
  BY <1>1, <1>8

LEMMA StartForQuestionType ==
    ASSUME TypeInv, NEW q \in Questions, StartForQuestion(q)
    PROVE  TypeInv'
<1>1. reply' = reply /\ reply \in [Replies -> ReplySet]
  BY StartForQuestionShape DEF TypeInv, UnderWayInv
<1> QED
  BY <1>1, StartForQuestionShape, SendsFromType

\* A record of a reply adds no question.
LEMMA ReplyLogged ==
    ASSUME TypeInv, NEW c \in DOMAIN chat, NEW r \in Replies
    PROVE  /\ SameQuestions(Logged(chat, c, NewEntry("reply", r)))
           /\ Len(Logged(chat, c, NewEntry("reply", r))) = Len(chat)
<1> DEFINE e == NewEntry("reply", r)
           new == Logged(chat, c, e)
<1>1. chat \in Seq(ChatSet) /\ Len(chat) <= MaxChats /\ Len(chat) \in Nat
  BY Sizes DEF TypeInv, SessionInv
<1>2. e \in Record /\ e.kind # "question"
  BY NewEntryType DEF NewEntry
<1> HIDE DEF e
<1>3. /\ new \in Seq(ChatSet) /\ Len(new) = Len(chat)
      /\ \A d \in DOMAIN chat :
            QuestionsIn(new[d].log) = IF d = c /\ e.kind = "question"
                                      THEN QuestionsIn(chat[d].log) \union {e.n}
                                      ELSE QuestionsIn(chat[d].log)
  BY <1>1, <1>2, LoggedType
<1>4. DOMAIN new = DOMAIN chat
  BY <1>1, <1>3, LenProperties
<1> QED
  BY <1>1, <1>2, <1>3, <1>4 DEF SameQuestions, e

LEMMA PostForQuestionShape ==
    ASSUME TypeInv, NEW q \in Questions, PostForQuestion(q)
    PROVE  /\ reply' \in [Replies -> ReplySet]
           /\ \A m \in Replies : ReplyOk(reply'[m], Len(session), Len(chat))
           /\ \E mine, chats : SendsFrom(q, mine, session, chats) /\ Len(chats) = Len(chat)
<1> DEFINE mine == question[q]
           r == Oldest(mine.todo)
           next == mine.todo \ (Saved \union {r})
           longer == Logged(chat, mine.chat, NewEntry("reply", r))
<1>1. /\ shown' = shown /\ mine.at = "pending" /\ mine \in Asked
      /\ mine.source \in Sources /\ mine.todo # {} /\ mine.todo \in SUBSET Replies
      /\ mine.session \in DOMAIN session /\ mine.target \in DOMAIN session
      /\ mine.chat \in DOMAIN chat
      /\ UNCHANGED Rest /\ reply \in [Replies -> ReplySet]
      /\ \A m \in Replies : ReplyOk(reply[m], Len(session), Len(chat))
      /\ session \in Seq(SessionSet(Len(chat)))
      /\ Len(session) <= MaxSessions /\ shown \in 0..Len(session)
      /\ Len(chat) \in Nat /\ Len(session) \in Nat /\ MaxChats \in Nat
      /\ Len(session) <= Len(session) /\ Len(chat) <= MaxChats /\ chat \in Seq(ChatSet)
  BY Sizes DEF PostForQuestion, TypeInv, UnderWayInv, SessionInv, ScreenInv, AskedOk, Asked
<1>2. r \in Replies /\ next \in SUBSET Replies
  BY <1>1, OldestIn
<1>3. CASE /\ reply' = [reply EXCEPT ![r].saved = TRUE]
           /\ SaveOrSend(q, mine, next, session, longer)
  <2>1. SameQuestions(longer) /\ Len(longer) = Len(chat)
    BY <1>1, <1>2, ReplyLogged
  <2>2. /\ longer \in Seq(ChatSet) /\ Len(longer) <= MaxChats /\ Len(chat) <= Len(longer)
        /\ session \in Seq(SessionSet(Len(longer)))
    BY <1>1, <2>1 DEF SameQuestions
  <2>3. /\ reply' \in [Replies -> ReplySet]
        /\ \A m \in Replies : ReplyOk(reply'[m], Len(session), Len(chat))
    BY <1>1, <1>2, <1>3, <2>1 DEF ReplySet, ReplyOk
  <2> HIDE DEF next, longer, r, mine
  <2>4. Sent(q, mine, session, longer)
    BY <1>1, <1>2, <1>3, <2>2, SaveOrSendShape
  <2>5. SendsFrom(q, mine, session, longer)
    BY <1>1, <2>1, <2>2, <2>4 DEF SendsFrom, mine
  <2> QED
    BY <2>1, <2>3, <2>5
<1>4. CASE reply' = reply /\ SaveOrSend(q, mine, next, session, chat)
  <2>1. SameQuestions(chat) /\ Len(chat) <= Len(chat)
    BY <1>1 DEF SameQuestions
  <2> HIDE DEF next, longer, r, mine
  <2>2. Sent(q, mine, session, chat)
    BY <1>1, <1>2, <1>4, <2>1, SaveOrSendShape
  <2>3. SendsFrom(q, mine, session, chat)
    BY <1>1, <2>1, <2>2 DEF SendsFrom, mine
  <2> QED
    BY <1>1, <1>4, <2>3
<1> QED
  BY <1>3, <1>4 DEF PostForQuestion

LEMMA PostForQuestionType ==
    ASSUME TypeInv, NEW q \in Questions, PostForQuestion(q)
    PROVE  TypeInv'
BY PostForQuestionShape, SendsFromType

\* A step of one question, which may change the conversations and the screen.
LEMMA QuestionStep ==
    ASSUME TypeInv, NEW q \in Questions, NEW m \in Asked, m.at # "unasked",
           question' = [question EXCEPT ![q] = m], AskedOk(m, Len(session'), Len(chat')),
           session' \in Seq(SessionSet(Len(chat'))),
           Len(session) <= Len(session'), Len(session') <= MaxSessions,
           SameQuestions(chat'),
           UNCHANGED <<derived, reply, opening, deletion, keys>>,
           page' \in {"home", "result"}, loading' \in BOOLEAN, controller' \in 0..MaxQuestions,
           selected' \in Sources, active' \in Sources \union {NoSource},
           shown' \in 0..Len(session'), restored' \in 0..Len(chat')
    PROVE  TypeInv'
<1>1. /\ question \in [Questions -> Asked]
      /\ derived \in [Derived -> DerivedSet] /\ reply \in [Replies -> ReplySet]
      /\ opening \in [Openings -> CallSet] /\ deletion \in [Deletions -> CallSet]
  BY DEF TypeInv, UnderWayInv
<1>2. /\ question' \in [Questions -> Asked] /\ question'[q] = m
      /\ \A p \in Questions : p # q => question'[p] = question[p]
  BY <1>1
<1>3. /\ chat' \in Seq(ChatSet) /\ Len(chat) <= Len(chat') /\ Len(chat') <= MaxChats
      /\ Len(chat') \in Nat /\ Len(session') \in Nat
  BY LenProperties DEF SameQuestions
<1>4. SessionInv'
  BY <1>2, <1>3, SessionStep DEF SameQuestions
<1>5. UnderWayInv'
  BY <1>1, <1>2, <1>3, UnderWayStep
<1>6. ScreenInv'
  BY DEF TypeInv, ScreenInv
<1> QED
  BY <1>4, <1>5, <1>6 DEF TypeInv

\* The state a question under way finds.
LEMMA QuestionFields ==
    ASSUME TypeInv, NEW q \in Questions, question[q].at # "unasked"
    PROVE  /\ question[q] \in Asked /\ AskedOk(question[q], Len(session), Len(chat))
           /\ question[q].session \in DOMAIN session
           /\ question[q].at = "stream" => question[q].chat \in DOMAIN chat
           /\ session \in Seq(SessionSet(Len(chat))) /\ SameQuestions(chat)
           /\ Len(session) <= Len(session) /\ Len(session) <= MaxSessions
           /\ shown \in 0..Len(session) /\ restored \in 0..Len(chat)
           /\ page \in {"home", "result"} /\ controller \in 0..MaxQuestions
           /\ selected \in Sources /\ active \in Sources \union {NoSource}
           /\ Len(session) \in Nat /\ Len(chat) \in Nat
<1>1. /\ Len(session) \in Nat /\ Len(chat) \in Nat /\ DOMAIN session = 1..Len(session)
      /\ DOMAIN chat = 1..Len(chat)
  BY Sizes
<1> QED
  BY <1>1 DEF TypeInv, ScreenInv, SessionInv, UnderWayInv, SameQuestions, AskedOk

\* The end of a question.
LEMMA OverType ==
    ASSUME TypeInv, NEW q \in Questions, question[q].at # "unasked", Over(q, question[q]),
           session' \in Seq(SessionSet(Len(chat))), Len(session') = Len(session),
           SameQuestions(chat'), Len(chat') = Len(chat),
           UNCHANGED <<Rest, reply, shown>>, restored' \in 0..Len(chat)
    PROVE  TypeInv'
<1> DEFINE m == [question[q] EXCEPT !.at = "over"]
<1>1. m \in Asked /\ m.at # "unasked" /\ AskedOk(m, Len(session'), Len(chat'))
  BY QuestionFields DEF Asked, AskedOk
<1>2. question' = [question EXCEPT ![q] = m] /\ loading' = FALSE
      /\ controller' = IF controller = q THEN 0 ELSE controller
  BY DEF Over
<1> HIDE DEF m
<1>3. controller' \in 0..MaxQuestions
  BY <1>2, QuestionFields, Sizes
<1>4. UNCHANGED <<derived, opening, deletion, keys, page, selected, active>>
  BY DEF Rest
<1> QED
  BY <1>1, <1>2, <1>3, <1>4, QuestionFields, QuestionStep

\* A question fails.
LEMMA FailingType ==
    ASSUME TypeInv, NEW q \in Questions, question[q].at # "unasked",
           Failing(q, question[q], session), UNCHANGED <<Rest, reply, shown, restored, chat>>
    PROVE  TypeInv'
<1> DEFINE m == [question[q] EXCEPT !.at = "failing"]
<1>1. Later(session, session', Len(chat))
  BY QuestionFields, FailingLater
<1>2. session' \in Seq(SessionSet(Len(chat'))) /\ Len(session') = Len(session)
  BY <1>1 DEF Later
<1>3. m \in Asked /\ m.at # "unasked" /\ AskedOk(m, Len(session'), Len(chat'))
  BY <1>2, QuestionFields DEF Asked, AskedOk
<1>4. question' = [question EXCEPT ![q] = m] /\ UNCHANGED <<loading, controller>>
  BY DEF Failing
<1> HIDE DEF m
<1>5. UNCHANGED <<derived, opening, deletion, keys, page, selected, active>>
  BY DEF Rest
<1>6. loading' \in BOOLEAN
  BY <1>4 DEF TypeInv, ScreenInv
<1> QED
  BY <1>2, <1>3, <1>4, <1>5, <1>6, QuestionFields, QuestionStep

LEMMA FailQuestionType ==
    ASSUME TypeInv, NEW q \in Questions, FailQuestion(q)
    PROVE  TypeInv'
<1>1. question[q].at # "unasked" /\ UNCHANGED <<Rest, reply, shown, restored, chat>>
  BY DEF FailQuestion
<1>2. CASE Over(q, question[q]) /\ UNCHANGED session
  BY <1>1, <1>2, QuestionFields, OverType
<1>3. CASE Failing(q, question[q], session)
  BY <1>1, <1>3, FailingType
<1> QED
  BY <1>2, <1>3 DEF FailQuestion

LEMMA StreamBreaksType ==
    ASSUME TypeInv, NEW q \in Questions, StreamBreaks(q)
    PROVE  TypeInv'
BY FailingType DEF StreamBreaks

LEMMA FailingEndsType ==
    ASSUME TypeInv, NEW q \in Questions, FailingEnds(q)
    PROVE  TypeInv'
<1>1. question[q].at # "unasked" /\ Over(q, question[q])
      /\ UNCHANGED <<Rest, reply, shown, session, chat>>
  BY DEF FailingEnds
<1>2. restored' = IF shown = 0 THEN restored ELSE session[shown].chat
  BY DEF FailingEnds, Noted
<1>3. restored' \in 0..Len(chat)
  <2>1. CASE shown = 0
    BY <1>1, <1>2, <2>1, QuestionFields
  <2>2. CASE shown # 0
    <3>1. shown \in DOMAIN session
      BY <1>1, <2>2, QuestionFields, Sizes
    <3> QED
      BY <1>1, <1>2, <2>2, <3>1, QuestionFields, SessionFields
  <2> QED
    BY <2>1, <2>2
<1> QED
  BY <1>1, <1>3, QuestionFields, OverType

\* Marking the records of a question where it streams.
LEMMA StreamIdLater ==
    ASSUME TypeInv, NEW q \in Questions, StreamId(q)
    PROVE  Later(session, session', Len(chat))
<1> DEFINE s == question[q].session
           old == session[s].records
           Change(e) == [e EXCEPT !.known = TRUE]
           records == [i \in DOMAIN old |->
                          IF old[i].kind = "question" /\ old[i].n = q
                          THEN Change(old[i]) ELSE old[i]]
<1>1. session \in Seq(SessionSet(Len(chat))) /\ s \in DOMAIN session /\ Len(chat) \in Nat
  BY QuestionFields DEF StreamId
<1>2. \A i \in DOMAIN old : old[i] \in Record
  BY <1>1, SessionFields, LenProperties, ElementOfSeq
<1>3. \A e \in Record : Change(e) \in Record
  BY DEF Record, Entry
<1>4. records \in [DOMAIN old -> Record]
  <2> HIDE DEF Change, old
  <2> QED BY <1>2, <1>3
<1>5. session' = WithRecords(session, s, records)
  BY DEF StreamId, Marked, WithRecords
<1> HIDE DEF records
<1> QED
  BY <1>1, <1>4, <1>5, MarkedLater

LEMMA StreamIdType ==
    ASSUME TypeInv, NEW q \in Questions, StreamId(q)
    PROVE  TypeInv'
<1>1. /\ question[q].at = "stream"
      /\ UNCHANGED <<Rest, reply, shown, restored, chat, question, loading, controller>>
  BY DEF StreamId
<1>2. session' \in Seq(SessionSet(Len(chat'))) /\ Len(session') = Len(session)
  BY <1>1, StreamIdLater DEF Later
<1>3. question' = [question EXCEPT ![q] = question[q]]
  BY <1>1 DEF TypeInv, UnderWayInv
<1>4. UNCHANGED <<derived, opening, deletion, keys, page, selected, active>>
  BY <1>1 DEF Rest
<1>5. loading' \in BOOLEAN
  BY <1>1 DEF TypeInv, ScreenInv
<1> QED
  BY <1>1, <1>2, <1>3, <1>4, <1>5, QuestionFields, QuestionStep

\* What the end of a stream does to the conversation and the chat.
LEMMA StreamEndsLater ==
    ASSUME TypeInv, NEW q \in Questions, StreamEnds(q)
    PROVE  /\ Later(session, session', Len(chat))
           /\ chat' \in Seq(ChatSet) /\ Len(chat') = Len(chat)
           /\ \A c \in DOMAIN chat : QuestionsIn(chat'[c].log) = QuestionsIn(chat[c].log)
<1> DEFINE s == question[q].session
           c == question[q].chat
           old == session[s].records
           log == chat[c].log
<1>1. /\ session \in Seq(SessionSet(Len(chat))) /\ s \in DOMAIN session /\ Len(chat) \in Nat
      /\ chat \in Seq(ChatSet) /\ c \in DOMAIN chat
  BY QuestionFields DEF StreamEnds, SameQuestions
<1>2. CASE UNCHANGED <<session, chat>>
  BY <1>1, <1>2 DEF Later
<1>3. ASSUME NEW error \in BOOLEAN,
             session' = [session EXCEPT ![s].records =
                Marked(@, "question", q, LAMBDA e : [e EXCEPT !.finish = TRUE, !.error = error])],
             chat' = [chat EXCEPT ![c].log =
                Marked(@, "question", q, LAMBDA e : [e EXCEPT !.finish = TRUE, !.error = error])]
      PROVE  /\ Later(session, session', Len(chat))
             /\ chat' \in Seq(ChatSet) /\ Len(chat') = Len(chat)
             /\ \A d \in DOMAIN chat : QuestionsIn(chat'[d].log) = QuestionsIn(chat[d].log)
  <2> DEFINE Change(e) == [e EXCEPT !.finish = TRUE, !.error = error]
             records == [i \in DOMAIN old |->
                            IF old[i].kind = "question" /\ old[i].n = q
                            THEN Change(old[i]) ELSE old[i]]
             new == [i \in DOMAIN log |->
                        IF log[i].kind = "question" /\ log[i].n = q
                        THEN Change(log[i]) ELSE log[i]]
  <2>1. /\ \A i \in DOMAIN old : old[i] \in Record
        /\ \A i \in DOMAIN log : log[i] \in Record
        /\ log \in Seq(Record)
    BY <1>1, SessionFields, ChatFields, LenProperties, ElementOfSeq
  <2>2. \A e \in Record : Change(e) \in Record /\ Change(e).kind = e.kind /\ Change(e).n = e.n
    BY DEF Record, Entry
  <2>3. records \in [DOMAIN old -> Record]
    <3> HIDE DEF Change, old
    <3> QED BY <2>1, <2>2
  <2>4. /\ new \in [DOMAIN log -> Record]
        /\ \A i \in DOMAIN log : new[i].kind = log[i].kind /\ new[i].n = log[i].n
    <3> HIDE DEF Change, log
    <3> QED BY <2>1, <2>2
  <2>5. session' = WithRecords(session, s, records)
    BY <1>3 DEF Marked, WithRecords
  <2>6. chat' = WithLog(chat, c, new)
    BY <1>3 DEF Marked, WithLog
  <2> HIDE DEF records, new
  <2>7. Later(session, session', Len(chat))
    BY <1>1, <2>3, <2>5, MarkedLater
  <2>8. new \in Seq(Record) /\ QuestionsIn(new) = QuestionsIn(log)
    BY <2>1, <2>4, PointwiseQuestions
  <2>9. /\ chat' \in Seq(ChatSet) /\ Len(chat') = Len(chat)
        /\ \A d \in DOMAIN chat : chat'[d].log = IF d = c THEN new ELSE chat[d].log
    BY <1>1, <2>6, <2>8, WithLogType
  <2> QED
    BY <2>7, <2>8, <2>9
<1> QED
  BY <1>2, <1>3 DEF StreamEnds

LEMMA StreamEndsType ==
    ASSUME TypeInv, NEW q \in Questions, StreamEnds(q)
    PROVE  TypeInv'
<1>1. /\ question[q].at = "stream" /\ Over(q, question[q])
      /\ UNCHANGED <<Rest, reply, shown, restored>>
  BY DEF StreamEnds
<1>2. /\ session' \in Seq(SessionSet(Len(chat))) /\ Len(session') = Len(session)
      /\ chat' \in Seq(ChatSet) /\ Len(chat') = Len(chat)
      /\ \A c \in DOMAIN chat : QuestionsIn(chat'[c].log) = QuestionsIn(chat[c].log)
  BY StreamEndsLater DEF Later
<1>3. SameQuestions(chat')
  <2>1. DOMAIN chat' = DOMAIN chat
    BY <1>2, LenProperties, Sizes
  <2> QED
    BY <1>1, <1>2, <2>1, QuestionFields DEF SameQuestions
<1> QED
  BY <1>1, <1>2, <1>3, QuestionFields, OverType

LEMMA SourceThere == TypeInv => Source \in Sources
BY DEF TypeInv, ScreenInv, Source

\* What a question entered does to the conversation on screen, or the new one.
LEMMA SubmitPushes ==
    ASSUME TypeInv, NEW q \in Questions, Submit(q)
    PROVE  /\ session' \in Seq(SessionSet(Len(chat))) /\ Len(session') = Len(Sessions)
           /\ session'[Container].records # <<>>
           /\ session'[Container].chat \in {0, Sessions[Container].chat}
<1> DEFINE s == Container
           e == NewEntry("question", q)
           sessions == IF LatestFailed(Sessions[s].records)
                       THEN [Sessions EXCEPT ![s].chat = 0] ELSE Sessions
<1>1. /\ Sessions \in Seq(SessionSet(Len(chat))) /\ s \in DOMAIN Sessions
      /\ Len(chat) \in Nat /\ 0 \in 0..Len(chat)
  BY ContainerThere, Sizes DEF Submit
<1>2. e \in Record
  BY NewEntryType
<1>3. /\ sessions \in Seq(SessionSet(Len(chat))) /\ Len(sessions) = Len(Sessions)
      /\ sessions[s].chat \in {0, Sessions[s].chat} /\ s \in DOMAIN sessions
  <2>1. CASE LatestFailed(Sessions[s].records)
    <3>1. sessions = WithChat(Sessions, s, 0)
      BY <2>1 DEF WithChat
    <3> HIDE DEF sessions, s
    <3>2. /\ sessions \in Seq(SessionSet(Len(chat))) /\ Len(sessions) = Len(Sessions)
          /\ sessions[s].chat = 0
      BY <1>1, <3>1, WithChatType
    <3> QED
      BY <1>1, <3>2, LenProperties
  <2>2. CASE ~LatestFailed(Sessions[s].records)
    BY <1>1, <2>2
  <2> QED
    BY <2>1, <2>2
<1>4. session' = Push(sessions, s, e)
  BY DEF Submit
<1> HIDE DEF sessions, e
<1>5. /\ session' \in Seq(SessionSet(Len(chat))) /\ Len(session') = Len(sessions)
      /\ session'[s].chat = sessions[s].chat /\ session'[s].records # <<>>
  BY <1>1, <1>2, <1>3, <1>4, PushType
<1> QED
  BY <1>3, <1>5

LEMMA SubmitType ==
    ASSUME TypeInv, NEW q \in Questions, Submit(q)
    PROVE  TypeInv'
<1> DEFINE m == [Unasked EXCEPT !.at = "token", !.source = Source, !.session = Container]
<1>1. /\ UNCHANGED <<selected, derived, reply, opening, deletion, keys, chat>>
      /\ page' = "result" /\ loading' = TRUE /\ controller' = q
      /\ active' = Source /\ shown' = Container
      /\ question' = [question EXCEPT ![q] = m] /\ Room
      /\ restored' = IF ChatOf(session, shown) = 0 THEN restored ELSE session[shown].chat
  BY DEF Submit
<1>2. /\ session' \in Seq(SessionSet(Len(chat'))) /\ Len(session') = Len(Sessions)
      /\ Len(session) <= Len(session') /\ Len(session') <= MaxSessions
      /\ Container \in 1..Len(session') /\ Len(session') \in Nat
  BY <1>1, SubmitPushes, ContainerThere
<1>3. m \in Asked /\ m.at # "unasked" /\ AskedOk(m, Len(session'), Len(chat'))
  <2>1. /\ Container \in 0..MaxSessions /\ 0 \in 0..MaxSessions /\ 0 \in 0..MaxChats
        /\ Source \in Sources
    BY <1>2, SourceThere, Sizes
  <2>2. Unasked \in Asked
    BY <2>1 DEF Unasked, Asked
  <2>3. /\ m \in Asked /\ m.at = "token" /\ m.source = Source /\ m.session = Container
    BY <2>1, <2>2 DEF Asked
  <2> HIDE DEF m
  <2> QED
    BY <1>2, <2>1, <2>3 DEF AskedOk
<1> HIDE DEF m
<1>4. shown' \in 0..Len(session') /\ controller' \in 0..MaxQuestions
  BY <1>1, <1>2, Sizes DEF Questions
<1>5. restored' \in 0..Len(chat')
  <2>1. CASE shown = 0
    BY <1>1, <2>1 DEF ChatOf, TypeInv, ScreenInv
  <2>2. CASE shown # 0
    <3>1. shown \in DOMAIN session /\ session \in Seq(SessionSet(Len(chat)))
      BY <2>2, Sizes DEF TypeInv, ScreenInv, SessionInv
    <3>2. session[shown].chat \in 0..Len(chat)
      BY <3>1, SessionFields, Sizes
    <3> QED
      BY <1>1, <3>2 DEF TypeInv, ScreenInv
  <2> QED
    BY <2>1, <2>2
<1>6. SameQuestions(chat')
  BY <1>1, Sizes DEF TypeInv, SessionInv, SameQuestions
<1>7. selected' \in Sources /\ active' \in Sources \union {NoSource}
  BY <1>1, SourceThere DEF TypeInv, ScreenInv
<1> QED
  BY <1>1, <1>2, <1>3, <1>4, <1>5, <1>6, <1>7, QuestionStep

(* An interpretation                                                       *)

\* A step of the interpretations, which may change the conversations, the
\* logs and the keys.
LEMMA DerivedStep ==
    ASSUME TypeInv, derived' \in [Derived -> DerivedSet],
           \A d \in Derived : derived'[d] # derived[d] =>
              DerivedOk(derived'[d], Len(session'), Len(chat')),
           session' \in Seq(SessionSet(Len(chat'))),
           Len(session) <= Len(session'), Len(session') <= MaxSessions,
           SameQuestions(chat'),
           UNCHANGED Aside,
           keys' \subseteq {derived'[d].of : d \in {e \in Derived : derived'[e].at # "unasked"}},
           shown' \in 0..Len(session'), restored' \in 0..Len(chat')
    PROVE  TypeInv'
<1>1. /\ question \in [Questions -> Asked] /\ reply \in [Replies -> ReplySet]
      /\ opening \in [Openings -> CallSet] /\ deletion \in [Deletions -> CallSet]
      /\ UNCHANGED <<question, reply, opening, deletion, page, loading, controller,
                     selected, active>>
  BY DEF TypeInv, UnderWayInv, Aside
<1>2. /\ chat' \in Seq(ChatSet) /\ Len(chat) <= Len(chat') /\ Len(chat') <= MaxChats
      /\ Len(chat') \in Nat /\ Len(session') \in Nat
  BY LenProperties DEF SameQuestions
<1>3. SessionInv'
  BY <1>1, <1>2, SessionStep DEF SameQuestions
<1>4. UnderWayInv'
  BY <1>1, <1>2, UnderWayStep
<1>5. ScreenInv'
  BY <1>1 DEF TypeInv, ScreenInv
<1> QED
  BY <1>3, <1>4, <1>5 DEF TypeInv

\* The state an interpretation under way finds.
LEMMA DerivedFields ==
    ASSUME TypeInv, NEW d \in Derived
    PROVE  /\ derived[d] \in DerivedSet /\ DerivedOk(derived[d], Len(session), Len(chat))
           /\ derived \in [Derived -> DerivedSet]
           /\ session \in Seq(SessionSet(Len(chat))) /\ SameQuestions(chat)
           /\ Len(session) <= Len(session) /\ Len(session) <= MaxSessions
           /\ shown \in 0..Len(session) /\ restored \in 0..Len(chat)
           /\ Len(session) \in Nat /\ Len(chat) \in Nat /\ Len(chat) <= MaxChats
           /\ DOMAIN session = 1..Len(session) /\ DOMAIN chat = 1..Len(chat)
           /\ MaxChats \in Nat /\ MaxSessions \in Nat
<1>1. /\ Len(session) \in Nat /\ Len(chat) \in Nat /\ MaxChats \in Nat /\ MaxSessions \in Nat
      /\ DOMAIN session = 1..Len(session) /\ DOMAIN chat = 1..Len(chat)
  BY Sizes
<1> QED
  BY <1>1 DEF TypeInv, ScreenInv, SessionInv, UnderWayInv, SameQuestions

\* The chat of the conversation on screen.
LEMMA ChatOnScreen ==
    ASSUME TypeInv
    PROVE  ChatOf(session, shown) \in 0..Len(chat)
<1>1. session \in Seq(SessionSet(Len(chat))) /\ shown \in 0..Len(session)
      /\ Len(session) \in Nat /\ Len(chat) \in Nat /\ DOMAIN session = 1..Len(session)
  BY Sizes DEF TypeInv, ScreenInv, SessionInv
<1>2. CASE shown = 0
  BY <1>1, <1>2 DEF ChatOf
<1>3. CASE shown # 0
  <2>1. shown \in DOMAIN session
    BY <1>1, <1>3
  <2> QED
    BY <1>1, <1>3, <2>1, SessionFields DEF ChatOf
<1> QED
  BY <1>2, <1>3

LEMMA InterpretType ==
    ASSUME TypeInv, NEW d \in Derived, NEW q \in Questions, Interpret(d, q)
    PROVE  TypeInv'
<1>1. /\ derived' = [derived EXCEPT ![d].at = "token", ![d].of = q]
      /\ derived[d].at = "unasked"
      /\ UNCHANGED <<screen, question, reply, opening, deletion, keys, chat>>
  BY DEF Interpret, IsNext
<1>2. /\ UNCHANGED <<page, loading, controller, selected, active, shown, restored, session,
                     question, reply, opening, deletion, keys, chat>>
  BY <1>1 DEF screen
<1>3. q \in 0..MaxQuestions
  BY Sizes DEF Questions
<1>4. /\ derived' \in [Derived -> DerivedSet]
      /\ derived'[d].at = "token" /\ derived'[d].of = q
      /\ \A e \in Derived : e # d => derived'[e] = derived[e]
  BY <1>1, <1>3, DerivedFields DEF DerivedSet
<1>5. \A e \in Derived : derived'[e] # derived[e] =>
          DerivedOk(derived'[e], Len(session'), Len(chat'))
  BY <1>4 DEF DerivedOk
<1>6. UnderWayInv'
  <2>1. /\ Len(session) \in Nat /\ Len(chat) \in Nat
        /\ question \in [Questions -> Asked] /\ reply \in [Replies -> ReplySet]
        /\ opening \in [Openings -> CallSet] /\ deletion \in [Deletions -> CallSet]
    BY Sizes DEF TypeInv, UnderWayInv
  <2> QED
    BY <1>2, <1>4, <1>5, <2>1, UnderWayStep
<1>7. ScreenInv'
  <2>1. keys' \subseteq {derived'[e].of : e \in {g \in Derived : derived'[g].at # "unasked"}}
    BY <1>1, <1>2, <1>4, KeysStep
  <2> QED
    BY <1>2, <2>1 DEF TypeInv, ScreenInv
<1>8. SessionInv'
  BY <1>2 DEF TypeInv, SessionInv
<1> QED
  BY <1>6, <1>7, <1>8 DEF TypeInv

\* What an interpretation that has its token puts into the conversation.
LEMMA DerivedPushes ==
    ASSUME TypeInv, NEW d \in Derived, TokenForDerived(d)
    PROVE  /\ session' \in Seq(SessionSet(Len(chat))) /\ Len(session') = Len(Sessions)
           /\ \A s \in DOMAIN Sessions :
                 /\ session'[s].chat = Sessions[s].chat
                 /\ Sessions[s].records # <<>> => session'[s].records # <<>>
<1> DEFINE e == [NewEntry("derived", d) EXCEPT !.of = derived[d].of]
<1>1. /\ Sessions \in Seq(SessionSet(Len(chat))) /\ Container \in DOMAIN Sessions
      /\ Len(chat) \in Nat
  BY ContainerThere, Sizes DEF TokenForDerived
<1>2. derived[d].of \in Nat
  BY DerivedFields, Sizes DEF DerivedSet
<1>3. e \in Record
  BY <1>2, NewEntryType DEF NewEntry, Record, Entry
<1>4. session' = Push(Sessions, Container, e)
  BY DEF TokenForDerived
<1> HIDE DEF e
<1> QED
  BY <1>1, <1>3, <1>4, PushType

LEMMA TokenForDerivedType ==
    ASSUME TypeInv, NEW d \in Derived, TokenForDerived(d)
    PROVE  TypeInv'
<1> DEFINE at == IF Sessions[Container].chat = 0 THEN "stream" ELSE "saveQuestion"
<1>1. /\ derived[d].at = "token" /\ Room /\ shown' = Container
      /\ keys' = keys \union {derived[d].of}
      /\ restored' = Noted(Sessions, Container)
      /\ derived' = [derived EXCEPT ![d].session = Container, ![d].at = at]
      /\ UNCHANGED <<Aside, chat>>
  BY DEF TokenForDerived
<1>2. /\ session' \in Seq(SessionSet(Len(chat'))) /\ Len(session') = Len(Sessions)
      /\ Len(session) <= Len(session') /\ Len(session') <= MaxSessions
      /\ Container \in 1..Len(session') /\ Container \in 0..MaxSessions
      /\ Len(session') \in Nat
      /\ Sessions \in Seq(SessionSet(Len(chat))) /\ Container \in DOMAIN Sessions
  BY <1>1, DerivedPushes, ContainerThere, Sizes
<1>3. at \in {"stream", "saveQuestion"}
  OBVIOUS
<1> HIDE DEF at
<1>4. /\ derived' \in [Derived -> DerivedSet]
      /\ derived'[d].at = at /\ derived'[d].of = derived[d].of
      /\ derived'[d].session = Container
      /\ \A e \in Derived : e # d => derived'[e] = derived[e]
  BY <1>1, <1>2, <1>3, DerivedFields DEF DerivedSet
<1>5. derived[d].of \in Questions
  BY <1>1, DerivedFields DEF DerivedOk
<1>6. \A e \in Derived : derived'[e] # derived[e] =>
          DerivedOk(derived'[e], Len(session'), Len(chat'))
  BY <1>2, <1>3, <1>4, <1>5 DEF DerivedOk
<1>7. restored' \in 0..Len(chat')
  <2>1. Container # 0
    BY <1>2
  <2>2. Sessions[Container].chat \in 0..Len(chat)
    BY <1>2, SessionFields, Sizes
  <2> QED
    BY <1>1, <2>1, <2>2 DEF Noted
<1>8. keys' \subseteq {derived'[e].of : e \in {g \in Derived : derived'[g].at # "unasked"}}
  BY <1>1, <1>3, <1>4 DEF TypeInv, ScreenInv
<1>9. shown' \in 0..Len(session') /\ SameQuestions(chat')
  BY <1>1, <1>2, DerivedFields
<1> QED
  BY <1>1, <1>2, <1>4, <1>6, <1>7, <1>8, <1>9, DerivedStep

\* A step of an interpretation that leaves the conversations alone.
LEMMA DerivedMoves ==
    ASSUME TypeInv, NEW d \in Derived, derived[d].at # "unasked",
           NEW at \in {"saveQuestion", "saveAnswer", "stream", "saveLast", "over"},
           NEW c \in 0..Len(chat),
           derived' \in [Derived -> DerivedSet],
           derived'[d].at = at, derived'[d].of = derived[d].of,
           derived'[d].session = derived[d].session, derived'[d].chat = c,
           \A e \in Derived : e # d => derived'[e] = derived[e],
           at # "over" => derived[d].session \in 1..Len(session),
           at \in {"saveAnswer", "saveLast"} => c # 0,
           session' \in Seq(SessionSet(Len(chat))), Len(session') = Len(session),
           SameQuestions(chat'), Len(chat') = Len(chat),
           keys' \subseteq keys, UNCHANGED <<Aside, shown, restored>>
    PROVE  TypeInv'
<1>1. derived[d].of \in Questions
  BY DerivedFields DEF DerivedOk
<1>2. \A e \in Derived : derived'[e] # derived[e] =>
          DerivedOk(derived'[e], Len(session'), Len(chat'))
  BY <1>1, DerivedFields DEF DerivedOk
<1>3. keys' \subseteq {derived'[e].of : e \in {g \in Derived : derived'[g].at # "unasked"}}
  BY KeysStep
<1> QED
  BY <1>2, <1>3, DerivedFields, DerivedStep

LEMMA FailDerivedType ==
    ASSUME TypeInv, NEW d \in Derived, FailDerived(d)
    PROVE  TypeInv'
<1>1. /\ derived[d].at # "unasked" /\ UNCHANGED <<Aside, shown, restored, session, keys, chat>>
      /\ derived' = [derived EXCEPT ![d].at = "over"]
  BY DEF FailDerived
<1>2. /\ derived' \in [Derived -> DerivedSet]
      /\ derived'[d].at = "over" /\ derived'[d].of = derived[d].of
      /\ \A e \in Derived : e # d => derived'[e] = derived[e]
  BY <1>1, DerivedFields DEF DerivedSet
<1>3. derived[d].of \in Questions
  BY <1>1, DerivedFields DEF DerivedOk
<1>4. \A e \in Derived : derived'[e] # derived[e] =>
          DerivedOk(derived'[e], Len(session'), Len(chat'))
  BY <1>2, <1>3 DEF DerivedOk
<1>5. keys' \subseteq {derived'[e].of : e \in {g \in Derived : derived'[g].at # "unasked"}}
  BY <1>1, <1>2, KeysStep
<1> QED
  BY <1>1, <1>2, <1>4, <1>5, DerivedFields, DerivedStep

LEMMA SaveDerivedQuestionType ==
    ASSUME TypeInv, NEW d \in Derived, SaveDerivedQuestion(d)
    PROVE  TypeInv'
<1> DEFINE c == ChatOf(session, shown)
           at == IF c = 0 THEN "stream" ELSE "saveAnswer"
<1>1. /\ derived[d].at = "saveQuestion"
      /\ UNCHANGED <<Aside, shown, restored, session, keys, chat>>
      /\ derived' = [derived EXCEPT ![d].at = at, ![d].chat = c]
  BY DEF SaveDerivedQuestion
<1>2. /\ c \in 0..Len(chat) /\ c \in 0..MaxChats
      /\ at \in {"stream", "saveAnswer"} /\ (at = "saveAnswer" => c # 0)
  BY ChatOnScreen, DerivedFields
<1> HIDE DEF at, c
<1>3. derived[d].session \in 1..Len(session)
  BY <1>1, DerivedFields DEF DerivedOk
<1>4. /\ derived' \in [Derived -> DerivedSet]
      /\ derived'[d].at = at /\ derived'[d].of = derived[d].of
      /\ derived'[d].session = derived[d].session /\ derived'[d].chat = c
      /\ \A e \in Derived : e # d => derived'[e] = derived[e]
  BY <1>1, <1>2, DerivedFields DEF DerivedSet
<1> QED
  BY <1>1, <1>2, <1>3, <1>4, DerivedFields, DerivedMoves

\* A chat keeps the questions it has when a derived answer is filed in it.
LEMMA FiledType ==
    ASSUME TypeInv, NEW c \in DOMAIN chat, NEW e \in Record, e.kind = "derived"
    PROVE  SameQuestions(Filed(c, e)) /\ Len(Filed(c, e)) = Len(chat)
<1> DEFINE new == Filed(c, e)
           log == chat[c].log
           marked == [i \in DOMAIN log |->
                         IF log[i].kind = "derived" /\ log[i].n = e.n THEN e ELSE log[i]]
<1>1. chat \in Seq(ChatSet)
  BY DEF TypeInv, SessionInv
<1>2. /\ new \in Seq(ChatSet) /\ Len(new) = Len(chat)
      /\ \A d \in DOMAIN chat : QuestionsIn(new[d].log) = QuestionsIn(chat[d].log)
  <2>1. CASE e.n \in {f.n : f \in Entries(chat[c].log, "derived")}
    <3>1. log \in Seq(Record) /\ \A i \in DOMAIN log : log[i] \in Record
      BY <1>1, ChatFields, LenProperties, ElementOfSeq
    <3>2. /\ marked \in [DOMAIN log -> Record]
          /\ \A i \in DOMAIN log : marked[i].kind = log[i].kind /\ marked[i].n = log[i].n
      <4> HIDE DEF log
      <4> QED BY <3>1
    <3>3. new = WithLog(chat, c, marked)
      BY <2>1 DEF Filed, Marked, WithLog
    <3> HIDE DEF marked, new
    <3>4. marked \in Seq(Record) /\ QuestionsIn(marked) = QuestionsIn(log)
      BY <3>1, <3>2, PointwiseQuestions
    <3>5. /\ new \in Seq(ChatSet) /\ Len(new) = Len(chat)
          /\ \A d \in DOMAIN chat : new[d].log = IF d = c THEN marked ELSE chat[d].log
      BY <1>1, <3>3, <3>4, WithLogType
    <3> QED
      BY <3>4, <3>5
  <2>2. CASE e.n \notin {f.n : f \in Entries(chat[c].log, "derived")}
    <3>1. new = Logged(chat, c, e)
      BY <2>2 DEF Filed
    <3> HIDE DEF new
    <3> QED
      BY <1>1, <3>1, LoggedType
  <2> QED
    BY <2>1, <2>2
<1>3. DOMAIN new = DOMAIN chat
  BY <1>1, <1>2, LenProperties
<1> HIDE DEF new
<1>4. SameQuestions(new)
  BY <1>2, <1>3, Sizes DEF SameQuestions, TypeInv, SessionInv
<1> QED
  BY <1>2, <1>4 DEF new

LEMMA SaveDerivedType ==
    ASSUME TypeInv, NEW d \in Derived, derived[d].at \in {"saveAnswer", "saveLast"},
           NEW finish \in BOOLEAN, SaveDerived(d, finish)
    PROVE  SameQuestions(chat') /\ Len(chat') = Len(chat)
<1> DEFINE e == [NewEntry("derived", d) EXCEPT !.of = derived[d].of, !.finish = finish]
<1>1. derived[d].of \in Nat /\ derived[d].chat \in DOMAIN chat
  BY DerivedFields, Sizes DEF DerivedSet, DerivedOk
<1>2. e \in Record /\ e.kind = "derived"
  BY <1>1, NewEntryType DEF NewEntry, Record, Entry
<1>3. CASE UNCHANGED chat
  BY <1>3, DerivedFields
<1>4. CASE chat' = Filed(derived[d].chat, e)
  <2> HIDE DEF e
  <2> QED
    BY <1>1, <1>2, <1>4, FiledType
<1> QED
  BY <1>3, <1>4 DEF SaveDerived

LEMMA SaveDerivedAnswerType ==
    ASSUME TypeInv, NEW d \in Derived, SaveDerivedAnswer(d)
    PROVE  TypeInv'
<1>1. /\ derived[d].at = "saveAnswer" /\ SaveDerived(d, FALSE)
      /\ UNCHANGED <<Aside, shown, restored, session, keys>>
      /\ derived' = [derived EXCEPT ![d].at = "stream"]
  BY DEF SaveDerivedAnswer
<1>2. SameQuestions(chat') /\ Len(chat') = Len(chat)
  BY <1>1, SaveDerivedType
<1>3. /\ derived' \in [Derived -> DerivedSet]
      /\ derived'[d].at = "stream" /\ derived'[d].of = derived[d].of
      /\ derived'[d].session = derived[d].session /\ derived'[d].chat = derived[d].chat
      /\ \A e \in Derived : e # d => derived'[e] = derived[e]
  BY <1>1, DerivedFields DEF DerivedSet
<1>4. derived[d].chat \in 0..Len(chat) /\ derived[d].session \in 1..Len(session)
      /\ derived[d].chat # 0
  BY <1>1, DerivedFields DEF DerivedOk
<1> QED
  BY <1>1, <1>2, <1>3, <1>4, DerivedFields, DerivedMoves

LEMMA SaveLastType ==
    ASSUME TypeInv, NEW d \in Derived, SaveLast(d)
    PROVE  TypeInv'
<1>1. /\ derived[d].at = "saveLast" /\ SaveDerived(d, TRUE)
      /\ UNCHANGED <<Aside, shown, restored, session, keys>>
      /\ derived' = [derived EXCEPT ![d].at = "over"]
  BY DEF SaveLast
<1>2. SameQuestions(chat') /\ Len(chat') = Len(chat)
  BY <1>1, SaveDerivedType
<1>3. /\ derived' \in [Derived -> DerivedSet]
      /\ derived'[d].at = "over" /\ derived'[d].of = derived[d].of
      /\ derived'[d].session = derived[d].session /\ derived'[d].chat = derived[d].chat
      /\ \A e \in Derived : e # d => derived'[e] = derived[e]
  BY <1>1, DerivedFields DEF DerivedSet
<1>4. derived[d].chat \in 0..Len(chat)
  BY <1>1, DerivedFields DEF DerivedOk
<1> QED
  BY <1>1, <1>2, <1>3, <1>4, DerivedFields, DerivedMoves

\* Finishing the answers of some interpretations changes nothing else.
LEMMA ClosedType ==
    ASSUME NEW n \in Nat, NEW sessions \in Seq(SessionSet(n)), NEW done
    PROVE  Later(sessions, Closed(sessions, done), n)
<1> DEFINE new == Closed(sessions, done)
           Change(e) == [e EXCEPT !.finish = TRUE]
           old(s) == sessions[s].records
           records(s) == [i \in DOMAIN old(s) |->
                             IF /\ old(s)[i].kind = "derived" /\ old(s)[i].n \in done
                                /\ derived[old(s)[i].n].session = s
                             THEN Change(old(s)[i]) ELSE old(s)[i]]
<1>1. \A e \in Record : Change(e) \in Record
  BY DEF Record, Entry
<1>2. ASSUME NEW s \in DOMAIN sessions
      PROVE  /\ records(s) \in Seq(Record)
             /\ old(s) # <<>> => records(s) # <<>>
  <2>1. old(s) \in Seq(Record) /\ \A i \in DOMAIN old(s) : old(s)[i] \in Record
    BY SessionFields, LenProperties, ElementOfSeq
  <2>2. records(s) \in [DOMAIN old(s) -> Record]
    <3> HIDE DEF Change, old
    <3> QED BY <1>1, <2>1
  <2> HIDE DEF records, old
  <2>3. records(s) \in Seq(Record) /\ Len(records(s)) = Len(old(s))
    BY <2>1, <2>2, PointwiseSeq
  <2> QED
    BY <2>1, <2>3, EmptySeq
<1>3. new = [s \in DOMAIN sessions |-> [sessions[s] EXCEPT !.records = records(s)]]
  BY DEF Closed
<1> HIDE DEF records, old, new
<1>4. \A s \in DOMAIN sessions : sessions[s] \in SessionSet(n)
  BY SessionFields
<1>5. /\ new \in [DOMAIN sessions -> SessionSet(n)]
      /\ \A s \in DOMAIN sessions :
            /\ new[s].chat = sessions[s].chat /\ new[s].records = records(s)
  BY <1>2, <1>3, <1>4 DEF SessionSet
<1>6. new \in Seq(SessionSet(n)) /\ Len(new) = Len(sessions)
  BY <1>5, PointwiseSeq
<1> QED
  BY <1>2, <1>5, <1>6 DEF Later, new, old

LEMMA DerivedEndsType ==
    ASSUME TypeInv, NEW d \in Derived, DerivedEnds(d)
    PROVE  TypeInv'
<1> DEFINE c == ChatOf(session, shown)
           at == IF c = 0 THEN "over" ELSE "saveLast"
<1>1. /\ derived[d].at = "stream" /\ session' = Closed(session, {d})
      /\ UNCHANGED <<Aside, shown, restored, chat>> /\ keys' \subseteq keys
      /\ derived' = [derived EXCEPT ![d].at = at, ![d].chat = c]
  BY DEF DerivedEnds
<1>2. /\ c \in 0..Len(chat) /\ c \in 0..MaxChats
      /\ at \in {"over", "saveLast"} /\ (at = "saveLast" => c # 0)
  BY ChatOnScreen, DerivedFields
<1> HIDE DEF at, c
<1>3. derived[d].session \in 1..Len(session)
  BY <1>1, DerivedFields DEF DerivedOk
<1>4. session' \in Seq(SessionSet(Len(chat))) /\ Len(session') = Len(session)
  BY <1>1, DerivedFields, ClosedType DEF Later
<1>5. /\ derived' \in [Derived -> DerivedSet]
      /\ derived'[d].at = at /\ derived'[d].of = derived[d].of
      /\ derived'[d].session = derived[d].session /\ derived'[d].chat = c
      /\ \A e \in Derived : e # d => derived'[e] = derived[e]
  BY <1>1, <1>2, DerivedFields DEF DerivedSet
<1> QED
  BY <1>1, <1>2, <1>3, <1>4, <1>5, DerivedFields, DerivedMoves

(* A reply                                                                 *)

\* A step of one reply, which may change the conversations and the logs.
LEMMA ReplyStep ==
    ASSUME TypeInv, NEW r \in Replies, reply' \in [Replies -> ReplySet],
           ReplyOk(reply'[r], Len(session'), Len(chat')),
           \A m \in Replies : m # r => reply'[m] = reply[m],
           session' \in Seq(SessionSet(Len(chat'))),
           Len(session) <= Len(session'), Len(session') <= MaxSessions,
           SameQuestions(chat'),
           UNCHANGED <<loading, controller, selected, question, derived, opening, deletion, keys>>,
           page' \in {"home", "result"}, active' \in Sources \union {NoSource},
           shown' \in 0..Len(session'), restored' \in 0..Len(chat')
    PROVE  TypeInv'
<1>1. /\ question \in [Questions -> Asked] /\ derived \in [Derived -> DerivedSet]
      /\ opening \in [Openings -> CallSet] /\ deletion \in [Deletions -> CallSet]
  BY DEF TypeInv, UnderWayInv
<1>2. /\ chat' \in Seq(ChatSet) /\ Len(chat) <= Len(chat') /\ Len(chat') <= MaxChats
      /\ Len(chat') \in Nat /\ Len(session') \in Nat
  BY LenProperties DEF SameQuestions
<1>3. SessionInv'
  BY <1>2, SessionStep DEF SameQuestions
<1>4. UnderWayInv'
  BY <1>1, <1>2, UnderWayStep
<1>5. ScreenInv'
  BY DEF TypeInv, ScreenInv
<1> QED
  BY <1>3, <1>4, <1>5 DEF TypeInv

\* The state a reply under way finds.
LEMMA ReplyFields ==
    ASSUME TypeInv, NEW r \in Replies
    PROVE  /\ reply[r] \in ReplySet /\ ReplyOk(reply[r], Len(session), Len(chat))
           /\ reply \in [Replies -> ReplySet]
           /\ session \in Seq(SessionSet(Len(chat))) /\ SameQuestions(chat)
           /\ Len(session) <= Len(session) /\ Len(session) <= MaxSessions
           /\ shown \in 0..Len(session) /\ restored \in 0..Len(chat)
           /\ page \in {"home", "result"} /\ active \in Sources \union {NoSource}
           /\ Len(session) \in Nat /\ Len(chat) \in Nat /\ Len(chat) <= MaxChats
           /\ DOMAIN session = 1..Len(session) /\ DOMAIN chat = 1..Len(chat)
<1>1. /\ Len(session) \in Nat /\ Len(chat) \in Nat /\ MaxChats \in Nat
      /\ DOMAIN session = 1..Len(session) /\ DOMAIN chat = 1..Len(chat)
  BY Sizes
<1> QED
  BY <1>1 DEF TypeInv, ScreenInv, SessionInv, UnderWayInv, SameQuestions

\* A reply written by the page enters the conversation on screen, or a new one.
LEMMA ReplyPushes ==
    ASSUME TypeInv, NEW r \in Replies, AppendReply(r)
    PROVE  /\ session' \in Seq(SessionSet(Len(chat))) /\ Len(session') = Len(Sessions)
           /\ \A s \in DOMAIN Sessions :
                 /\ session'[s].chat = Sessions[s].chat
                 /\ Sessions[s].records # <<>> => session'[s].records # <<>>
<1> DEFINE e == [NewEntry("reply", r) EXCEPT !.finish = TRUE]
<1>1. /\ Sessions \in Seq(SessionSet(Len(chat))) /\ Container \in DOMAIN Sessions
      /\ Len(chat) \in Nat
  BY ContainerThere, Sizes DEF AppendReply
<1>2. e \in Record
  BY NewEntryType DEF NewEntry, Record, Entry
<1>3. session' = Push(Sessions, Container, e)
  BY DEF AppendReply
<1> HIDE DEF e
<1> QED
  BY <1>1, <1>2, <1>3, PushType

LEMMA AppendReplyType ==
    ASSUME TypeInv, NEW r \in Replies, AppendReply(r)
    PROVE  TypeInv'
<1>1. /\ page' = "result" /\ active' = Source /\ shown' = Container /\ Room
      /\ restored' = Sessions[Container].chat
      /\ reply' = [reply EXCEPT ![r].at = "token", ![r].source = Source]
      /\ UNCHANGED <<loading, controller, selected, question, derived, opening, deletion, keys,
                     chat>>
  BY DEF AppendReply
<1>2. /\ session' \in Seq(SessionSet(Len(chat'))) /\ Len(session') = Len(Sessions)
      /\ Len(session) <= Len(session') /\ Len(session') <= MaxSessions
      /\ Container \in 1..Len(session') /\ Len(session') \in Nat
      /\ Sessions \in Seq(SessionSet(Len(chat))) /\ Container \in DOMAIN Sessions
  BY <1>1, ReplyPushes, ContainerThere
<1>3. /\ reply' \in [Replies -> ReplySet]
      /\ reply'[r].at = "token" /\ reply'[r].source = Source
      /\ \A m \in Replies : m # r => reply'[m] = reply[m]
  BY <1>1, SourceThere, ReplyFields DEF ReplySet
<1>4. ReplyOk(reply'[r], Len(session'), Len(chat'))
  BY <1>3, SourceThere DEF ReplyOk
<1>5. restored' \in 0..Len(chat') /\ shown' \in 0..Len(session')
      /\ active' \in Sources \union {NoSource} /\ SameQuestions(chat')
  BY <1>1, <1>2, SourceThere, SessionFields, ReplyFields
<1> QED
  BY <1>1, <1>2, <1>3, <1>4, <1>5, ReplyStep

\* A reply whose conversation has a chat is saved, or is over.
LEMMA SaveReplyType ==
    ASSUME TypeInv, NEW r \in Replies, NEW mine \in ReplySet, mine.source \in Sources,
           NEW chats, SameQuestions(chats), chat' = chats,
           NEW sessions \in Seq(SessionSet(Len(chats))),
           Len(session) <= Len(sessions), Len(sessions) <= MaxSessions,
           shown' \in 0..Len(sessions),
           SaveReply(r, mine, sessions), UNCHANGED Around
    PROVE  TypeInv'
<1> DEFINE c == ChatOf(sessions, shown')
           at == IF c = 0 \/ mine.saved THEN "over" ELSE "save"
<1>1. /\ session' = sessions /\ restored' = Noted(sessions, shown')
      /\ reply' = [reply EXCEPT ![r] = [mine EXCEPT !.chat = c, !.at = at]]
  BY DEF SaveReply
<1>2. /\ Len(chats) \in Nat /\ Len(chats) <= MaxChats /\ Len(chat) <= Len(chats)
      /\ Len(sessions) \in Nat /\ DOMAIN sessions = 1..Len(sessions) /\ MaxChats \in Nat
      /\ Len(chat) \in Nat
  BY LenProperties, Sizes DEF SameQuestions
<1>3. c \in 0..Len(chats) /\ restored' \in 0..Len(chats)
  <2>1. CASE shown' = 0
    BY <1>1, <1>2, <2>1, ReplyFields DEF ChatOf, Noted
  <2>2. CASE shown' # 0
    <3>1. shown' \in DOMAIN sessions
      BY <1>2, <2>2
    <3>2. sessions[shown'].chat \in 0..Len(chats)
      BY <1>2, <3>1, SessionFields
    <3> QED
      BY <1>1, <2>2, <3>2 DEF ChatOf, Noted
  <2> QED
    BY <2>1, <2>2
<1>4. at \in {"over", "save"} /\ (at = "save" => c # 0)
  OBVIOUS
<1> DEFINE m == [mine EXCEPT !.chat = c, !.at = at]
<1> HIDE DEF at, c
<1>5. c \in 0..MaxChats
  BY <1>2, <1>3
<1>6. m \in ReplySet /\ m.at = at /\ m.chat = c /\ m.source = mine.source
  BY <1>4, <1>5 DEF ReplySet
<1>7. ReplyOk(m, Len(sessions), Len(chats))
  BY <1>3, <1>4, <1>6 DEF ReplyOk
<1>8. reply' = [reply EXCEPT ![r] = m]
  BY <1>1
<1> HIDE DEF m
<1>9. /\ reply' \in [Replies -> ReplySet] /\ reply'[r] = m
      /\ \A n \in Replies : n # r => reply'[n] = reply[n]
  BY <1>6, <1>8, ReplyFields
<1>10. UNCHANGED <<page, active, loading, controller, selected, question, derived, opening,
                   deletion, keys>>
  BY DEF Around
<1> QED
  BY <1>1, <1>3, <1>7, <1>9, <1>10, ReplyFields, ReplyStep

LEMMA TokenForReplyType ==
    ASSUME TypeInv, NEW r \in Replies, TokenForReply(r)
    PROVE  TypeInv'
<1> DEFINE mine == [reply[r] EXCEPT !.target = Container]
<1>1. reply[r].at = "token" /\ Room /\ shown' = Container /\ UNCHANGED <<Around, chat>>
  BY DEF TokenForReply
<1>2. /\ Sessions \in Seq(SessionSet(Len(chat)))
      /\ Len(session) <= Len(Sessions) /\ Len(Sessions) <= MaxSessions
      /\ Container \in 1..Len(Sessions) /\ Len(Sessions) \in Nat
      /\ Container \in 0..MaxSessions
  BY <1>1, ContainerThere, Sizes
<1>3. /\ mine \in ReplySet /\ mine.target = Container /\ mine.source = reply[r].source
      /\ mine.source \in Sources
  BY <1>1, <1>2, ReplyFields DEF ReplySet, ReplyOk
<1>4. SameQuestions(chat) /\ shown' \in 0..Len(Sessions)
  BY <1>1, <1>2, ReplyFields
<1>5. CASE SaveReply(r, mine, Sessions)
  <2> HIDE DEF mine
  <2> QED
    BY <1>1, <1>2, <1>3, <1>4, <1>5, SaveReplyType
<1>6. CASE /\ reply' = [reply EXCEPT ![r] = [mine EXCEPT !.at = "start"]]
           /\ session' = Sessions /\ UNCHANGED restored
  <2> DEFINE m == [mine EXCEPT !.at = "start"]
  <2>1. /\ m \in ReplySet /\ m.at = "start" /\ m.target = Container
        /\ m.source = mine.source
    BY <1>3 DEF ReplySet
  <2>2. reply' = [reply EXCEPT ![r] = m]
    BY <1>6
  <2> HIDE DEF m, mine
  <2>3. ReplyOk(m, Len(Sessions), Len(chat))
    BY <1>2, <1>3, <2>1 DEF ReplyOk
  <2>4. /\ reply' \in [Replies -> ReplySet] /\ reply'[r] = m
        /\ \A n \in Replies : n # r => reply'[n] = reply[n]
    BY <2>1, <2>2, ReplyFields
  <2>5. UNCHANGED <<page, active, loading, controller, selected, question, derived, opening,
                    deletion, keys, chat>>
    BY <1>1 DEF Around
  <2> QED
    BY <1>2, <1>4, <1>6, <2>3, <2>4, <2>5, ReplyFields, ReplyStep
<1> QED
  BY <1>5, <1>6 DEF TokenForReply

LEMMA StartForReplyType ==
    ASSUME TypeInv, NEW r \in Replies, StartForReply(r)
    PROVE  TypeInv'
<1> DEFINE mine == reply[r]
           sessions == [session EXCEPT ![mine.target].chat = Len(chat) + 1]
           chats == Started(mine.source)
<1>1. /\ shown' = shown /\ mine.at = "start" /\ Len(chat) < MaxChats
      /\ mine \in ReplySet /\ mine.source \in Sources /\ mine.target \in DOMAIN session
      /\ UNCHANGED Around /\ chat' = chats
  BY ReplyFields DEF StartForReply, ReplyOk
<1>2. SaveReply(r, mine, sessions)
  BY DEF StartForReply
<1>3. SameQuestions(chats) /\ Len(chats) = Len(chat) + 1
  BY <1>1, StartedType
<1>4. /\ sessions \in Seq(SessionSet(Len(chat) + 1)) /\ Len(sessions) = Len(session)
  BY <1>1, StartedSession
<1>5. sessions \in Seq(SessionSet(Len(chats))) /\ shown' \in 0..Len(sessions)
      /\ Len(session) <= Len(sessions) /\ Len(sessions) <= MaxSessions
  BY <1>1, <1>3, <1>4, ReplyFields
<1> HIDE DEF sessions, chats, mine
<1> QED
  BY <1>1, <1>2, <1>3, <1>5, SaveReplyType

LEMMA PostReplyType ==
    ASSUME TypeInv, NEW r \in Replies, PostReply(r)
    PROVE  TypeInv'
<1>1. /\ reply[r].at = "save"
      /\ chat' = Logged(chat, reply[r].chat, NewEntry("reply", r))
      /\ reply' = [reply EXCEPT ![r].saved = TRUE, ![r].at = "over"]
      /\ UNCHANGED <<page, active, loading, controller, selected, question, derived, opening,
                     deletion, keys, shown, restored, session>>
  BY DEF PostReply, Around
<1>2. reply[r].chat \in DOMAIN chat
  BY <1>1, ReplyFields DEF ReplyOk
<1>3. SameQuestions(chat') /\ Len(chat') = Len(chat)
  BY <1>1, <1>2, ReplyLogged
<1>4. /\ reply' \in [Replies -> ReplySet] /\ reply'[r].at = "over"
      /\ reply'[r].source = reply[r].source
      /\ \A m \in Replies : m # r => reply'[m] = reply[m]
  BY <1>1, ReplyFields DEF ReplySet
<1>5. ReplyOk(reply'[r], Len(session'), Len(chat'))
  BY <1>1, <1>4, ReplyFields DEF ReplyOk
<1> QED
  BY <1>1, <1>3, <1>4, <1>5, ReplyFields, ReplyStep

LEMMA FailReplyType ==
    ASSUME TypeInv, NEW r \in Replies, FailReply(r)
    PROVE  TypeInv'
<1>1. /\ reply[r].at # "unasked" /\ reply' = [reply EXCEPT ![r].at = "over"]
      /\ UNCHANGED <<page, active, loading, controller, selected, question, derived, opening,
                     deletion, keys, shown, restored, session, chat>>
  BY DEF FailReply, Around
<1>2. /\ reply' \in [Replies -> ReplySet] /\ reply'[r].at = "over"
      /\ reply'[r].source = reply[r].source
      /\ \A m \in Replies : m # r => reply'[m] = reply[m]
  BY <1>1, ReplyFields DEF ReplySet
<1>3. ReplyOk(reply'[r], Len(session'), Len(chat'))
  BY <1>1, <1>2, ReplyFields DEF ReplyOk
<1> QED
  BY <1>1, <1>2, <1>3, ReplyFields, ReplyStep

(* The user                                                                *)

\* A step of the user or of an opening or deletion, which may abort what is
\* under way but starts nothing.
LEMMA UserStep ==
    ASSUME TypeInv,
           question' \in [Questions -> Asked],
           \A q \in Questions :
              question[q].at # "unasked" => question'[q].at # "unasked",
           \A q \in Questions : question'[q] # question[q] =>
              AskedOk(question'[q], Len(session'), Len(chat')),
           derived' \in [Derived -> DerivedSet],
           \A d \in Derived : derived[d].at # "unasked" =>
              derived'[d].at # "unasked" /\ derived'[d].of = derived[d].of,
           \A d \in Derived : derived'[d] # derived[d] =>
              DerivedOk(derived'[d], Len(session'), Len(chat')),
           keys' \subseteq keys, reply' = reply,
           opening' \in [Openings -> CallSet], deletion' \in [Deletions -> CallSet],
           \A v \in Openings : opening'[v] # opening[v] => CallOk(opening'[v], Len(chat')),
           \A x \in Deletions : deletion'[x] # deletion[x] => CallOk(deletion'[x], Len(chat')),
           session' \in Seq(SessionSet(Len(chat'))),
           Len(session) <= Len(session'), Len(session') <= MaxSessions,
           SameQuestions(chat'),
           page' \in {"home", "result"}, loading' \in BOOLEAN, controller' \in 0..MaxQuestions,
           selected' \in Sources, active' \in Sources \union {NoSource},
           shown' \in 0..Len(session'), restored' \in 0..Len(chat')
    PROVE  TypeInv'
<1>1. /\ chat' \in Seq(ChatSet) /\ Len(chat) <= Len(chat') /\ Len(chat') <= MaxChats
      /\ Len(chat') \in Nat /\ Len(session') \in Nat
      /\ reply \in [Replies -> ReplySet]
  BY LenProperties DEF SameQuestions, TypeInv, UnderWayInv
<1>2. SessionInv'
  BY <1>1, SessionStep DEF SameQuestions
<1>3. UnderWayInv'
  BY <1>1, UnderWayStep
<1>4. ScreenInv'
  <2>1. keys' \subseteq {derived'[e].of : e \in {g \in Derived : derived'[g].at # "unasked"}}
    BY KeysStep
  <2> QED
    BY <2>1 DEF ScreenInv
<1> QED
  BY <1>2, <1>3, <1>4 DEF TypeInv

\* The state the user finds.
LEMMA UserFields ==
    ASSUME TypeInv
    PROVE  /\ question \in [Questions -> Asked] /\ derived \in [Derived -> DerivedSet]
           /\ opening \in [Openings -> CallSet] /\ deletion \in [Deletions -> CallSet]
           /\ session \in Seq(SessionSet(Len(chat))) /\ SameQuestions(chat)
           /\ Len(session) <= Len(session) /\ Len(session) <= MaxSessions
           /\ shown \in 0..Len(session) /\ restored \in 0..Len(chat)
           /\ page \in {"home", "result"} /\ loading \in BOOLEAN
           /\ controller \in 0..MaxQuestions
           /\ selected \in Sources /\ active \in Sources \union {NoSource}
           /\ Len(session) \in Nat /\ Len(chat) \in Nat /\ Len(chat) <= MaxChats
           /\ DOMAIN session = 1..Len(session) /\ DOMAIN chat = 1..Len(chat)
           /\ 0 \in 0..MaxQuestions
<1>1. /\ Len(session) \in Nat /\ Len(chat) \in Nat /\ MaxChats \in Nat
      /\ DOMAIN session = 1..Len(session) /\ DOMAIN chat = 1..Len(chat)
      /\ 0 \in 0..MaxQuestions
  BY Sizes
<1> QED
  BY <1>1 DEF TypeInv, ScreenInv, SessionInv, UnderWayInv, SameQuestions

\* What an abort does to each question and interpretation.
LEMMA AbortShape ==
    ASSUME TypeInv, Abort
    PROVE  /\ question' \in [Questions -> Asked]
           /\ \A q \in Questions :
                 /\ question'[q].at = IF q = controller /\ question[q].at = "stream"
                                      THEN "over" ELSE question[q].at
                 /\ question'[q].aborted = (question[q].aborted \/ q = controller)
                 /\ question'[q].left = (question[q].left \/ UnderWay(q))
                 /\ question'[q].session = question[q].session
                 /\ question'[q].target = question[q].target
                 /\ question'[q].source = question[q].source
                 /\ question'[q].chat = question[q].chat
                 /\ question'[q].todo = question[q].todo
           /\ derived' \in [Derived -> DerivedSet]
           /\ \A d \in Derived :
                 /\ derived'[d].at = IF derived[d].at = "stream" THEN "over" ELSE derived[d].at
                 /\ derived'[d].of = derived[d].of
                 /\ derived'[d].session = derived[d].session
                 /\ derived'[d].chat = derived[d].chat
<1>1. question' = [q \in Questions |->
          [question[q] EXCEPT
             !.left = question[q].left \/ UnderWay(q),
             !.aborted = question[q].aborted \/ q = controller,
             !.at = IF q = controller /\ question[q].at = "stream"
                    THEN "over" ELSE question[q].at]]
  BY DEF Abort
<1>2. ASSUME NEW q \in Questions
      PROVE  /\ question'[q] \in Asked
             /\ question'[q].at = IF q = controller /\ question[q].at = "stream"
                                  THEN "over" ELSE question[q].at
             /\ question'[q].aborted = (question[q].aborted \/ q = controller)
             /\ question'[q].left = (question[q].left \/ UnderWay(q))
             /\ question'[q].session = question[q].session
             /\ question'[q].target = question[q].target
             /\ question'[q].source = question[q].source
             /\ question'[q].chat = question[q].chat
             /\ question'[q].todo = question[q].todo
  <2> DEFINE left == question[q].left \/ UnderWay(q)
             aborted == question[q].aborted \/ q = controller
             at == IF q = controller /\ question[q].at = "stream" THEN "over" ELSE question[q].at
  <2>1. question[q] \in Asked
    BY UserFields
  <2>2. question'[q] = [question[q] EXCEPT !.left = left, !.aborted = aborted, !.at = at]
    BY <1>1
  <2>3. left \in BOOLEAN /\ aborted \in BOOLEAN
    BY DEF UnderWay, Preparing
  <2>4. at \in {"unasked", "token", "start", "pending", "stream", "failing", "over"}
    BY <2>1 DEF Asked
  <2> HIDE DEF left, aborted, at
  <2>5. /\ question'[q] \in Asked
        /\ question'[q].left = left /\ question'[q].aborted = aborted /\ question'[q].at = at
        /\ question'[q].session = question[q].session
        /\ question'[q].target = question[q].target
        /\ question'[q].source = question[q].source
        /\ question'[q].chat = question[q].chat
        /\ question'[q].todo = question[q].todo
    BY <2>1, <2>2, <2>3, <2>4 DEF Asked
  <2> QED
    BY <2>5 DEF left, aborted, at
<1>3. question' \in [Questions -> Asked]
  BY <1>1, <1>2
<1>4. derived' = [d \in Derived |-> IF derived[d].at = "stream"
                                    THEN [derived[d] EXCEPT !.at = "over"] ELSE derived[d]]
  BY DEF Abort
<1>5. /\ derived' \in [Derived -> DerivedSet]
      /\ \A d \in Derived :
            /\ derived'[d].at = IF derived[d].at = "stream" THEN "over" ELSE derived[d].at
            /\ derived'[d].of = derived[d].of
            /\ derived'[d].session = derived[d].session
            /\ derived'[d].chat = derived[d].chat
  BY <1>4, UserFields DEF DerivedSet
<1> QED
  BY <1>2, <1>3, <1>5

\* An abort keeps the types of all it changes.
LEMMA AbortType ==
    ASSUME TypeInv, Abort, chat' = chat
    PROVE  /\ \A q \in Questions :
                 question[q].at # "unasked" => question'[q].at # "unasked"
           /\ \A q \in Questions : AskedOk(question'[q], Len(session'), Len(chat'))
           /\ \A d \in Derived : derived[d].at # "unasked" =>
                 derived'[d].at # "unasked" /\ derived'[d].of = derived[d].of
           /\ \A d \in Derived : DerivedOk(derived'[d], Len(session'), Len(chat'))
           /\ keys' \subseteq keys /\ controller' \in 0..MaxQuestions
           /\ session' \in Seq(SessionSet(Len(chat'))) /\ Len(session') = Len(session)
<1>1. Later(session, session', Len(chat))
  BY UserFields, ClosedType DEF Abort
<1>2. session' \in Seq(SessionSet(Len(chat'))) /\ Len(session') = Len(session)
  BY <1>1 DEF Later
<1>3. keys' \subseteq keys /\ controller' \in 0..MaxQuestions
  BY UserFields DEF Abort
<1>4. ASSUME NEW q \in Questions
      PROVE  /\ question[q].at # "unasked" => question'[q].at # "unasked"
             /\ AskedOk(question'[q], Len(session'), Len(chat'))
  <2>1. AskedOk(question[q], Len(session), Len(chat))
    BY DEF TypeInv, UnderWayInv
  <2> QED
    BY <1>2, <2>1, AbortShape DEF AskedOk
<1>5. ASSUME NEW d \in Derived
      PROVE  /\ derived[d].at # "unasked" =>
                   derived'[d].at # "unasked" /\ derived'[d].of = derived[d].of
             /\ DerivedOk(derived'[d], Len(session'), Len(chat'))
  <2>1. DerivedOk(derived[d], Len(session), Len(chat))
    BY DerivedFields
  <2> QED
    BY <1>2, <2>1, AbortShape DEF DerivedOk
<1> QED
  BY <1>2, <1>3, <1>4, <1>5

LEMMA GoHomeType ==
    ASSUME TypeInv, GoHome
    PROVE  TypeInv'
<1>1. /\ page' = "home" /\ Abort /\ loading' = FALSE
      /\ UNCHANGED <<selected, active, shown, restored, reply, opening, deletion, chat>>
  BY DEF GoHome
<1> QED
  BY <1>1, AbortShape, AbortType, UserFields, UserStep

LEMMA ResetConversationType ==
    ASSUME TypeInv, ResetConversation
    PROVE  TypeInv'
<1>1. /\ page' = "home" /\ Abort /\ loading' = FALSE
      /\ active' = NoSource /\ shown' = 0 /\ restored' = 0
      /\ UNCHANGED <<selected, reply, opening, deletion, chat>>
  BY DEF ResetConversation
<1>2. /\ opening' \in [Openings -> CallSet] /\ deletion' \in [Deletions -> CallSet]
      /\ \A v \in Openings : opening'[v] # opening[v] => CallOk(opening'[v], Len(chat'))
      /\ \A x \in Deletions : deletion'[x] # deletion[x] => CallOk(deletion'[x], Len(chat'))
  BY <1>1, UserFields
<1>3. /\ Len(session') = Len(session) /\ Len(session) <= Len(session')
      /\ Len(session') <= MaxSessions /\ 0 \in 0..Len(session') /\ 0 \in 0..Len(chat)
  BY <1>1, AbortType, UserFields
<1>4. /\ Abort /\ chat' = chat /\ reply' = reply /\ shown' = 0 /\ restored' = 0
      /\ page' = "home" /\ loading' = FALSE /\ selected' \in Sources /\ active' = NoSource
  BY <1>1, UserFields
<1>5. SameQuestions(chat')
  BY <1>4, UserFields DEF SameQuestions
<1> QED
  BY <1>2, <1>3, <1>4, <1>5, AbortShape, AbortType, UserStep

LEMMA OpenType ==
    ASSUME TypeInv, NEW v \in Openings, NEW c \in DOMAIN chat, Open(v, c)
    PROVE  TypeInv'
<1>1. /\ Abort /\ opening' = [opening EXCEPT ![v] = [at |-> "open", chat |-> c]]
      /\ UNCHANGED <<page, selected, active, shown, restored, reply, deletion, chat>>
      /\ loading' \in BOOLEAN
  BY DEF Open
<1>2. /\ [at |-> "open", chat |-> c] \in CallSet
      /\ CallOk([at |-> "open", chat |-> c], Len(chat))
  BY UserFields, Sizes DEF CallSet, CallOk
<1>3. /\ opening' \in [Openings -> CallSet]
      /\ \A u \in Openings : opening'[u] # opening[u] => CallOk(opening'[u], Len(chat'))
  BY <1>1, <1>2, UserFields
<1>4. /\ deletion' \in [Deletions -> CallSet]
      /\ \A x \in Deletions : deletion'[x] # deletion[x] => CallOk(deletion'[x], Len(chat'))
      /\ SameQuestions(chat') /\ reply' = reply
      /\ page' \in {"home", "result"} /\ selected' \in Sources
      /\ active' \in Sources \union {NoSource} /\ restored' \in 0..Len(chat')
  BY <1>1, UserFields DEF SameQuestions
<1>5. /\ Abort /\ loading' \in BOOLEAN /\ shown' = shown /\ chat' = chat
  BY <1>1
<1>6. Len(session') = Len(session) /\ Len(session) <= Len(session)
      /\ shown \in 0..Len(session) /\ Len(session) <= MaxSessions
  BY <1>5, AbortType, UserFields
<1> QED
  BY <1>3, <1>4, <1>5, <1>6, AbortShape, AbortType, UserStep

\* The questions of a chat are questions that have been asked.
LEMMA QuestionsAsked ==
    ASSUME TypeInv, NEW c \in DOMAIN chat, NEW n \in QuestionsIn(chat[c].log)
    PROVE  n \in Questions /\ question[n].at # "unasked" /\ question[n].source \in Sources
<1>1. chat[c].log \in Seq(Record)
  BY ChatFields DEF TypeInv, SessionInv
<1>2. PICK i \in DOMAIN chat[c].log : chat[c].log[i].kind = "question" /\ n = chat[c].log[i].n
  BY DEF QuestionsIn
<1>3. chat[c].log[i] \in Record
  BY <1>1, LenProperties, ElementOfSeq
<1>4. n \in Questions
  BY <1>2, <1>3 DEF Record
<1>5. question[n].at # "unasked"
  BY DEF TypeInv, SessionInv
<1>6. AskedOk(question[n], Len(session), Len(chat))
  BY <1>4 DEF TypeInv, UnderWayInv
<1> QED
  BY <1>4, <1>5, <1>6 DEF AskedOk

\* The source a chat is listed with is that of one of its questions, if it has
\* any.
LEMMA SourceOfType ==
    ASSUME TypeInv, NEW c \in DOMAIN chat
    PROVE  /\ SourceOf(c) \in Sources
           /\ QuestionsIn(chat[c].log) # {} =>
                 \E n \in QuestionsIn(chat[c].log) : SourceOf(c) = question[n].source
<1> DEFINE log == chat[c].log
           asked == {i \in DOMAIN log : log[i].kind = "question"}
           last == CHOOSE i \in asked : \A j \in asked : j <= i
<1>1. log \in Seq(Record) /\ chat[c].source \in Sources
  BY ChatFields DEF TypeInv, SessionInv
<1>2. DOMAIN log = 1..Len(log) /\ Len(log) \in Nat
  BY <1>1, LenProperties
<1>3. CASE asked = {}
  BY <1>1, <1>3 DEF SourceOf, QuestionsIn
<1>4. CASE asked # {}
  <2>1. last \in asked
    <3>1. asked \in SUBSET (1..Len(log))
      BY <1>2
    <3> HIDE DEF asked
    <3>2. \E m \in asked : \A k \in asked : k <= m
      BY <1>2, <1>4, <3>1, GreatestExists
    <3> QED
      BY <3>2
  <2>2. SourceOf(c) = question[log[last].n].source
    BY <1>4 DEF SourceOf
  <2>3. log[last].n \in QuestionsIn(log)
    <3> HIDE DEF last
    <3> QED BY <2>1 DEF QuestionsIn
  <2> HIDE DEF last
  <2>4. question[log[last].n].source \in Sources
    BY <2>3, QuestionsAsked
  <2> QED
    BY <2>2, <2>3, <2>4
<1> QED
  BY <1>3, <1>4

\* What the server keeps of a chat are records.
LEMMA KeptType ==
    ASSUME TypeInv, NEW c \in DOMAIN chat
    PROVE  [chat |-> c, records |-> Kept(c)] \in SessionSet(Len(chat))
<1> DEFINE log == chat[c].log
           Change(e) == [e EXCEPT !.known = TRUE]
           records == [i \in DOMAIN log |-> Change(log[i])]
<1>1. log \in Seq(Record) /\ \A i \in DOMAIN log : log[i] \in Record
  BY ChatFields, LenProperties, ElementOfSeq DEF TypeInv, SessionInv
<1>2. \A e \in Record : Change(e) \in Record
  BY DEF Record, Entry
<1>3. Kept(c) = records
  BY DEF Kept
<1>4. records \in [DOMAIN log -> Record]
  <2> HIDE DEF Change, log
  <2> QED BY <1>1, <1>2
<1> HIDE DEF records, log
<1>5. records \in Seq(Record)
  BY <1>1, <1>4, PointwiseSeq
<1>6. c \in 0..Len(chat)
  BY UserFields
<1> QED
  BY <1>3, <1>5, <1>6 DEF SessionSet

LEMMA OpenedType ==
    ASSUME TypeInv, NEW v \in Openings, Opened(v)
    PROVE  TypeInv'
<1> DEFINE c == opening[v].chat
           fresh == [chat |-> c, records |-> Kept(c)]
<1>1. /\ opening[v].at = "open" /\ Len(session) < MaxSessions
      /\ session' = Append(session, fresh)
      /\ active' = SourceOf(c) /\ selected' = SourceOf(c) /\ restored' = c
      /\ shown' = Len(session) + 1 /\ page' = "result" /\ loading' = FALSE
      /\ opening' = [opening EXCEPT ![v].at = "over"]
      /\ UNCHANGED <<controller, question, derived, reply, deletion, keys, chat>>
  BY DEF Opened
<1>2. /\ c \in DOMAIN chat /\ c \in 0..Len(chat)
      /\ Len(chat) \in Nat /\ Len(session) \in Nat /\ MaxSessions \in Nat
      /\ session \in Seq(SessionSet(Len(chat))) /\ controller \in 0..MaxQuestions
      /\ SameQuestions(chat)
  BY <1>1, UserFields, Sizes DEF TypeInv, UnderWayInv, CallOk
<1>3. fresh \in SessionSet(Len(chat))
  BY <1>2, KeptType
<1>4. SourceOf(c) \in Sources
  BY <1>2, SourceOfType
<1> HIDE DEF c, fresh
<1>5. session' \in Seq(SessionSet(Len(chat))) /\ Len(session') = Len(session) + 1
  BY <1>1, <1>2, <1>3, AppendProperties
<1>6. /\ session' \in Seq(SessionSet(Len(chat')))
      /\ Len(session) <= Len(session') /\ Len(session') <= MaxSessions
      /\ page' \in {"home", "result"} /\ controller' \in 0..MaxQuestions
      /\ selected' \in Sources /\ active' \in Sources \union {NoSource}
      /\ shown' \in 0..Len(session') /\ restored' \in 0..Len(chat')
  BY <1>1, <1>2, <1>4, <1>5
<1>7. SameQuestions(chat')
  BY <1>1, <1>2 DEF SameQuestions
<1>8. /\ opening' \in [Openings -> CallSet] /\ deletion' \in [Deletions -> CallSet]
      /\ \A u \in Openings : opening'[u] # opening[u] => CallOk(opening'[u], Len(chat'))
      /\ \A x \in Deletions : deletion'[x] # deletion[x] => CallOk(deletion'[x], Len(chat'))
  BY <1>1, UserFields DEF CallSet, CallOk
<1> QED
  BY <1>1, <1>6, <1>7, <1>8, UserFields, UserStep

LEMMA OpeningFailsType ==
    ASSUME TypeInv, NEW v \in Openings, OpeningFails(v)
    PROVE  TypeInv'
<1>1. /\ opening[v].at = "open" /\ active' = NoSource
      /\ shown' = 0 /\ restored' = 0 /\ loading' = FALSE
      /\ opening' = [opening EXCEPT ![v].at = "over"]
      /\ UNCHANGED <<page, controller, selected, session, question, derived, reply, deletion,
                     keys, chat>>
  BY DEF OpeningFails
<1>2. /\ session' \in Seq(SessionSet(Len(chat')))
      /\ Len(session) <= Len(session') /\ Len(session') <= MaxSessions
      /\ page' \in {"home", "result"} /\ controller' \in 0..MaxQuestions
      /\ 0 \in 0..Len(session') /\ 0 \in 0..Len(chat')
      /\ selected' \in Sources
  BY <1>1, UserFields
<1>3. SameQuestions(chat')
  BY <1>1, UserFields DEF SameQuestions
<1>4. /\ opening' \in [Openings -> CallSet] /\ deletion' \in [Deletions -> CallSet]
      /\ \A u \in Openings : opening'[u] # opening[u] => CallOk(opening'[u], Len(chat'))
      /\ \A x \in Deletions : deletion'[x] # deletion[x] => CallOk(deletion'[x], Len(chat'))
  BY <1>1, UserFields DEF CallSet, CallOk
<1> QED
  BY <1>1, <1>2, <1>3, <1>4, UserFields, UserStep

\* A deletion that begins or fails leaves all else as it was.
LEMMA DeletionStep ==
    ASSUME TypeInv, deletion' \in [Deletions -> CallSet],
           \A x \in Deletions : deletion'[x] # deletion[x] => CallOk(deletion'[x], Len(chat)),
           UNCHANGED <<screen, question, derived, reply, opening, keys, chat>>
    PROVE  TypeInv'
<1>1. /\ session' \in Seq(SessionSet(Len(chat')))
      /\ Len(session) <= Len(session') /\ Len(session') <= MaxSessions
      /\ page' \in {"home", "result"} /\ controller' \in 0..MaxQuestions
      /\ shown' \in 0..Len(session') /\ restored' \in 0..Len(chat')
      /\ selected' \in Sources /\ active' \in Sources \union {NoSource}
  BY UserFields DEF screen
<1>2. loading' \in BOOLEAN
  BY UserFields DEF screen
<1>3. SameQuestions(chat')
  BY UserFields DEF SameQuestions
<1> QED
  BY <1>1, <1>2, <1>3, UserFields, UserStep

LEMMA DeleteType ==
    ASSUME TypeInv, NEW x \in Deletions, NEW c \in DOMAIN chat, Delete(x, c)
    PROVE  TypeInv'
<1>1. /\ deletion' = [deletion EXCEPT ![x] = [at |-> "delete", chat |-> c]]
      /\ UNCHANGED <<screen, question, derived, reply, opening, keys, chat>>
  BY DEF Delete
<1>2. /\ [at |-> "delete", chat |-> c] \in CallSet
      /\ CallOk([at |-> "delete", chat |-> c], Len(chat))
  BY UserFields, Sizes DEF CallSet, CallOk
<1>3. /\ deletion' \in [Deletions -> CallSet]
      /\ \A y \in Deletions : deletion'[y] # deletion[y] => CallOk(deletion'[y], Len(chat))
  BY <1>1, <1>2, UserFields
<1> QED
  BY <1>1, <1>3, DeletionStep

LEMMA DeletionFailsType ==
    ASSUME TypeInv, NEW x \in Deletions, DeletionFails(x)
    PROVE  TypeInv'
<1>1. /\ deletion' = [deletion EXCEPT ![x].at = "over"]
      /\ UNCHANGED <<screen, question, derived, reply, opening, keys, chat>>
  BY DEF DeletionFails
<1>2. /\ deletion' \in [Deletions -> CallSet]
      /\ \A y \in Deletions : deletion'[y] # deletion[y] => CallOk(deletion'[y], Len(chat))
  BY <1>1, UserFields DEF CallSet, CallOk
<1> QED
  BY <1>1, <1>2, DeletionStep

\* A chat that is deleted stays where it is, with its log.
LEMMA DeletedChats ==
    ASSUME TypeInv, NEW x \in Deletions, Deleted(x)
    PROVE  /\ SameQuestions(chat') /\ Len(chat') = Len(chat)
           /\ \A c \in DOMAIN chat : chat'[c].log = chat[c].log
<1> DEFINE c == deletion[x].chat
<1>1. /\ chat' = [chat EXCEPT ![c].exists = FALSE] /\ deletion[x].at = "delete"
      /\ chat \in Seq(ChatSet) /\ DOMAIN chat = 1..Len(chat) /\ Len(chat) <= MaxChats
      /\ Len(chat) \in Nat
  BY UserFields DEF Deleted, SameQuestions
<1>2. /\ chat' \in [DOMAIN chat -> ChatSet]
      /\ \A d \in DOMAIN chat : chat'[d].log = chat[d].log
  <2>1. \A d \in DOMAIN chat : chat[d] \in ChatSet
    BY <1>1, ChatFields
  <2> HIDE DEF c
  <2> QED
    BY <1>1, <2>1 DEF ChatSet
<1>3. chat' \in Seq(ChatSet) /\ Len(chat') = Len(chat) /\ DOMAIN chat' = DOMAIN chat
  BY <1>1, <1>2, PointwiseSeq
<1> QED
  BY <1>1, <1>2, <1>3 DEF SameQuestions

LEMMA DeletedType ==
    ASSUME TypeInv, NEW x \in Deletions, Deleted(x)
    PROVE  TypeInv'
<1>1. /\ deletion[x].at = "delete" /\ deletion' = [deletion EXCEPT ![x].at = "over"]
      /\ UNCHANGED <<controller, selected, session, question, derived, reply, opening, keys>>
      /\ shown' \in {0, shown} /\ active' \in {NoSource, active}
      /\ restored' \in {0, restored} /\ page' \in {"home", page}
  BY DEF Deleted
<1>2. loading' \in BOOLEAN
  BY UserFields DEF Deleted
<1>3. SameQuestions(chat') /\ Len(chat') = Len(chat)
  BY DeletedChats
<1>4. /\ session' \in Seq(SessionSet(Len(chat')))
      /\ Len(session) <= Len(session') /\ Len(session') <= MaxSessions
      /\ page' \in {"home", "result"} /\ controller' \in 0..MaxQuestions
      /\ shown' \in 0..Len(session') /\ restored' \in 0..Len(chat')
      /\ selected' \in Sources /\ active' \in Sources \union {NoSource}
  BY <1>1, <1>3, UserFields
<1>5. /\ opening' \in [Openings -> CallSet] /\ deletion' \in [Deletions -> CallSet]
      /\ \A u \in Openings : opening'[u] # opening[u] => CallOk(opening'[u], Len(chat'))
      /\ \A y \in Deletions : deletion'[y] # deletion[y] => CallOk(deletion'[y], Len(chat'))
  BY <1>1, UserFields DEF CallSet, CallOk
<1> QED
  BY <1>1, <1>2, <1>3, <1>4, <1>5, UserFields, UserStep

\* After a switch the conversation has no chat; nothing else of it changes.
LEMMA SwitchShape ==
    ASSUME TypeInv, NEW s \in Sources, Switch(s)
    PROVE  /\ shown \in DOMAIN session /\ session[shown].records # <<>>
           /\ session' \in Seq(SessionSet(Len(chat))) /\ Len(session') = Len(session)
           /\ \A t \in DOMAIN session :
                 /\ session'[t].records = session[t].records
                 /\ session'[t].chat = IF t = shown THEN 0 ELSE session[t].chat
<1>1. shown \in DOMAIN session /\ session[shown].records # <<>>
  BY UserFields DEF Switch, OnScreen
<1>2. session' = WithChat(session, shown, 0)
  BY DEF Switch, WithChat
<1>3. session \in Seq(SessionSet(Len(chat))) /\ Len(chat) \in Nat /\ 0 \in 0..Len(chat)
  BY UserFields
<1> QED
  BY <1>1, <1>2, <1>3, WithChatType

LEMMA SwitchType ==
    ASSUME TypeInv, NEW s \in Sources, Switch(s)
    PROVE  TypeInv'
<1>1. /\ selected' = s /\ active' = s /\ restored' = 0
      /\ UNCHANGED <<page, loading, controller, shown, question, derived, reply, opening,
                     deletion, keys, chat>>
  BY DEF Switch
<1>2. /\ session' \in Seq(SessionSet(Len(chat')))
      /\ Len(session) <= Len(session') /\ Len(session') <= MaxSessions
      /\ page' \in {"home", "result"} /\ controller' \in 0..MaxQuestions
      /\ shown' \in 0..Len(session') /\ restored' \in 0..Len(chat')
      /\ selected' \in Sources /\ active' \in Sources \union {NoSource}
  BY <1>1, SwitchShape, UserFields
<1>3. loading' \in BOOLEAN
  BY <1>1, UserFields
<1>4. SameQuestions(chat')
  BY <1>1, UserFields DEF SameQuestions
<1> QED
  BY <1>1, <1>2, <1>3, <1>4, UserFields, UserStep

LEMMA ChooseType ==
    ASSUME TypeInv, NEW s \in Sources, Choose(s)
    PROVE  TypeInv'
<1>1. /\ selected' = s
      /\ UNCHANGED <<page, loading, controller, active, shown, restored, session, question,
                     derived, reply, opening, deletion, keys, chat>>
  BY DEF Choose
<1>2. /\ session' \in Seq(SessionSet(Len(chat')))
      /\ Len(session) <= Len(session') /\ Len(session') <= MaxSessions
      /\ page' \in {"home", "result"} /\ controller' \in 0..MaxQuestions
      /\ shown' \in 0..Len(session') /\ restored' \in 0..Len(chat')
      /\ selected' \in Sources /\ active' \in Sources \union {NoSource}
  BY <1>1, UserFields
<1>3. loading' \in BOOLEAN
  BY <1>1, UserFields
<1>4. SameQuestions(chat')
  BY <1>1, UserFields DEF SameQuestions
<1> QED
  BY <1>1, <1>2, <1>3, <1>4, UserFields, UserStep

LEMMA InitType == Init => TypeInv
<1> SUFFICES ASSUME Init PROVE TypeInv
  OBVIOUS
<1>1. /\ {MaxQuestions, MaxDerived, MaxReplies, MaxSessions, MaxChats} \subseteq Nat
      /\ Sources # {}
  BY BoundAssumption, SourceAssumption
<1>2. /\ session = <<>> /\ chat = <<>> /\ keys = {} /\ page = "home" /\ loading = FALSE
      /\ controller = 0 /\ active = NoSource /\ shown = 0 /\ restored = 0
      /\ selected = CHOOSE s \in Sources : TRUE
  BY DEF Init
<1>3. ScreenInv
  <2>1. Len(session) = 0 /\ Len(chat) = 0 /\ selected \in Sources
    BY <1>1, <1>2, EmptySeq
  <2>2. controller \in 0..MaxQuestions /\ shown \in 0..Len(session) /\ restored \in 0..Len(chat)
    BY <1>1, <1>2, <2>1
  <2> QED
    BY <1>2, <2>1, <2>2 DEF ScreenInv
<1>4. SessionInv
  <2>1. /\ session \in Seq(SessionSet(Len(chat))) /\ chat \in Seq(ChatSet)
        /\ Len(session) = 0 /\ Len(chat) = 0 /\ DOMAIN chat = {}
    BY <1>2, EmptySeq
  <2> QED
    BY <1>1, <2>1 DEF SessionInv
<1>5. UnderWayInv
  <2>1. Unasked \in Asked
    BY <1>1 DEF Unasked, Asked
  <2>2. question \in [Questions -> Asked] /\ \A q \in Questions : question[q].at = "unasked"
    BY <2>1 DEF Init, Unasked
  <2>3. derived \in [Derived -> DerivedSet] /\ \A d \in Derived : derived[d].at = "unasked"
    BY <1>1 DEF Init, DerivedSet
  <2>4. reply \in [Replies -> ReplySet] /\ \A r \in Replies : reply[r].at = "unasked"
    BY <1>1 DEF Init, ReplySet
  <2>5. /\ opening \in [Openings -> CallSet] /\ deletion \in [Deletions -> CallSet]
        /\ \A v \in Openings : opening[v].at = "unasked"
        /\ \A x \in Deletions : deletion[x].at = "unasked"
    BY <1>1 DEF Init, CallSet
  <2> QED
    BY <2>2, <2>3, <2>4, <2>5 DEF UnderWayInv, AskedOk, DerivedOk, ReplyOk, CallOk
<1> QED
  BY <1>3, <1>4, <1>5 DEF TypeInv

LEMMA TypeStep == TypeInv /\ [Next]_vars => TypeInv'
<1> SUFFICES ASSUME TypeInv, [Next]_vars PROVE TypeInv'
  OBVIOUS
<1>1. ASSUME NEW q \in Questions, Submit(q) PROVE TypeInv'
  BY <1>1, SubmitType
<1>2. ASSUME NEW q \in Questions, TokenForQuestion(q) PROVE TypeInv'
  BY <1>2, TokenForQuestionType
<1>3. ASSUME NEW q \in Questions, StartForQuestion(q) PROVE TypeInv'
  BY <1>3, StartForQuestionType
<1>4. ASSUME NEW q \in Questions, PostForQuestion(q) PROVE TypeInv'
  BY <1>4, PostForQuestionType
<1>5. ASSUME NEW q \in Questions, FailQuestion(q) PROVE TypeInv'
  BY <1>5, FailQuestionType
<1>6. ASSUME NEW q \in Questions, StreamId(q) PROVE TypeInv'
  BY <1>6, StreamIdType
<1>7. ASSUME NEW q \in Questions, StreamEnds(q) PROVE TypeInv'
  BY <1>7, StreamEndsType
<1>8. ASSUME NEW q \in Questions, StreamBreaks(q) PROVE TypeInv'
  BY <1>8, StreamBreaksType
<1>9. ASSUME NEW q \in Questions, FailingEnds(q) PROVE TypeInv'
  BY <1>9, FailingEndsType
<1>10. ASSUME NEW d \in Derived, NEW q \in Questions, Interpret(d, q) PROVE TypeInv'
  BY <1>10, InterpretType
<1>11. ASSUME NEW d \in Derived, TokenForDerived(d) PROVE TypeInv'
  BY <1>11, TokenForDerivedType
<1>12. ASSUME NEW d \in Derived, FailDerived(d) PROVE TypeInv'
  BY <1>12, FailDerivedType
<1>13. ASSUME NEW d \in Derived, SaveDerivedQuestion(d) PROVE TypeInv'
  BY <1>13, SaveDerivedQuestionType
<1>14. ASSUME NEW d \in Derived, SaveDerivedAnswer(d) PROVE TypeInv'
  BY <1>14, SaveDerivedAnswerType
<1>15. ASSUME NEW d \in Derived, DerivedEnds(d) PROVE TypeInv'
  BY <1>15, DerivedEndsType
<1>16. ASSUME NEW d \in Derived, SaveLast(d) PROVE TypeInv'
  BY <1>16, SaveLastType
<1>17. ASSUME NEW r \in Replies, AppendReply(r) PROVE TypeInv'
  BY <1>17, AppendReplyType
<1>18. ASSUME NEW r \in Replies, TokenForReply(r) PROVE TypeInv'
  BY <1>18, TokenForReplyType
<1>19. ASSUME NEW r \in Replies, StartForReply(r) PROVE TypeInv'
  BY <1>19, StartForReplyType
<1>20. ASSUME NEW r \in Replies, PostReply(r) PROVE TypeInv'
  BY <1>20, PostReplyType
<1>21. ASSUME NEW r \in Replies, FailReply(r) PROVE TypeInv'
  BY <1>21, FailReplyType
<1>22. ASSUME GoHome PROVE TypeInv'
  BY <1>22, GoHomeType
<1>23. ASSUME ResetConversation PROVE TypeInv'
  BY <1>23, ResetConversationType
<1>24. ASSUME NEW v \in Openings, NEW c \in DOMAIN chat, Open(v, c) PROVE TypeInv'
  BY <1>24, OpenType
<1>25. ASSUME NEW v \in Openings, Opened(v) PROVE TypeInv'
  BY <1>25, OpenedType
<1>26. ASSUME NEW v \in Openings, OpeningFails(v) PROVE TypeInv'
  BY <1>26, OpeningFailsType
<1>27. ASSUME NEW x \in Deletions, NEW c \in DOMAIN chat, Delete(x, c) PROVE TypeInv'
  BY <1>27, DeleteType
<1>28. ASSUME NEW x \in Deletions, Deleted(x) PROVE TypeInv'
  BY <1>28, DeletedType
<1>29. ASSUME NEW x \in Deletions, DeletionFails(x) PROVE TypeInv'
  BY <1>29, DeletionFailsType
<1>30. ASSUME NEW s \in Sources, Switch(s) PROVE TypeInv'
  BY <1>30, SwitchType
<1>31. ASSUME NEW s \in Sources, Choose(s) PROVE TypeInv'
  BY <1>31, ChooseType
<1>32. ASSUME UNCHANGED vars PROVE TypeInv'
  BY <1>32 DEF vars, screen, TypeInv, ScreenInv, SessionInv, UnderWayInv
<1> QED
  BY <1>1, <1>2, <1>3, <1>4, <1>5, <1>6, <1>7, <1>8, <1>9, <1>10, <1>11, <1>12, <1>13,
     <1>14, <1>15, <1>16, <1>17, <1>18, <1>19, <1>20, <1>21, <1>22, <1>23, <1>24, <1>25,
     <1>26, <1>27, <1>28, <1>29, <1>30, <1>31, <1>32 DEF Next

LEMMA TypesHold == Spec => []TypeInv
<1> QED
  BY InitType, TypeStep, PTL DEF Spec

\* Every variable holds a value of its kind, and what is under way refers to
\* conversations, chats and questions that exist.
THEOREM TypeCorrect == Spec => []TypeOK
<1>1. TypeInv => TypeOK
  <2> SUFFICES ASSUME TypeInv PROVE TypeOK
    OBVIOUS
  <2>1. /\ Len(session) <= MaxSessions /\ Len(chat) <= MaxChats
        /\ question \in [Questions -> Asked] /\ DOMAIN session = 1..Len(session)
    BY Sizes DEF TypeInv, SessionInv, UnderWayInv
  <2>2. ASSUME NEW s \in DOMAIN session
        PROVE  /\ session[s].chat \in 0..Len(chat)
               /\ \A i \in DOMAIN session[s].records : session[s].records[i] \in Entry
    <3>1. session[s].chat \in 0..Len(chat) /\ session[s].records \in Seq(Record)
      BY SessionFields, UserFields
    <3>2. \A i \in DOMAIN session[s].records : session[s].records[i] \in Record
      BY <3>1, LenProperties, ElementOfSeq
    <3> QED
      BY <3>1, <3>2 DEF Record
  <2>3. ASSUME NEW q \in Questions, UnderWay(q)
        PROVE  question[q].session \in DOMAIN session
    BY <2>1, <2>3 DEF TypeInv, UnderWayInv, AskedOk, UnderWay, Preparing
  <2>4. keys \subseteq {derived[d].of : d \in Derived}
    BY DEF TypeInv, ScreenInv
  <2> QED
    BY <2>1, <2>2, <2>3, <2>4 DEF TypeOK, TypeInv, ScreenInv
<1> QED
  BY <1>1, TypesHold, PTL

(* Interpretations *)

\* What an interpretation goes through once it is asked for.
Busy == {"token", "saveQuestion", "saveAnswer", "stream"}

\* From its token on an interpretation holds the key of its question, and no
\* two that are asked for or under way are of the same question: what makes
\* giving back a key at the end of one no harm to another.
KeyInv ==
    twice \/ /\ \A d \in Derived : derived[d].at \in Busy \ {"token"} => derived[d].of \in keys
             /\ \A d, e \in Derived :
                   d # e /\ derived[d].at \in Busy /\ derived[e].at \in Busy =>
                      derived[d].of # derived[e].of

\* A step by which no interpretation begins, and only those that end give back
\* their keys.
LEMMA KeyKept ==
    ASSUME KeyInv, twice' = twice,
           \A d \in Derived : derived'[d].at \in Busy =>
              derived[d].at \in Busy /\ derived'[d].of = derived[d].of,
           \A d \in Derived : derived'[d].at \in Busy \ {"token"} =>
              derived[d].at \in Busy \ {"token"} \/ derived'[d].of \in keys',
           \A k \in keys \ keys' : \E e \in Derived :
              derived[e].of = k /\ derived[e].at \in Busy /\ derived'[e].at \notin Busy
    PROVE  KeyInv'
BY DEF KeyInv

LEMMA InterpretKeys ==
    ASSUME TypeInv, KeyInv, NEW d \in Derived, NEW q \in Questions, Interpret(d, q)
    PROVE  KeyInv'
<1>1. /\ derived' = [derived EXCEPT ![d].at = "token", ![d].of = q]
      /\ twice' = (twice \/ \E e \in Derived : derived[e].at = "token" /\ derived[e].of = q)
      /\ q \notin keys /\ keys' = keys /\ derived[d].at = "unasked"
  BY DEF Interpret, Interpreted, IsNext
<1>2. /\ derived'[d].at = "token" /\ derived'[d].of = q
      /\ \A e \in Derived : e # d => derived'[e] = derived[e]
  BY <1>1, UserFields DEF DerivedSet
<1>3. CASE twice'
  BY <1>3 DEF KeyInv
<1>4. CASE ~twice'
  <2>1. \A e \in Derived : derived[e].at \in Busy => derived[e].of # q
    BY <1>1, <1>4 DEF KeyInv, Busy
  <2>2. /\ \A e \in Derived : derived[e].at \in Busy \ {"token"} => derived[e].of \in keys
        /\ \A e, f \in Derived :
              e # f /\ derived[e].at \in Busy /\ derived[f].at \in Busy =>
                 derived[e].of # derived[f].of
    BY <1>1, <1>4 DEF KeyInv
  <2>3. ASSUME NEW e \in Derived, derived'[e].at \in Busy \ {"token"}
        PROVE  derived'[e].of \in keys'
    <3>1. keys' = keys
      BY <1>1
    <3>2. derived'[e] = derived[e]
      BY <1>2, <2>3
    <3> QED
      BY <2>2, <2>3, <3>1, <3>2
  <2>4. ASSUME NEW e \in Derived, NEW f \in Derived, e # f,
               derived'[e].at \in Busy, derived'[f].at \in Busy
        PROVE  derived'[e].of # derived'[f].of
    BY <1>2, <2>1, <2>2, <2>4
  <2> QED
    BY <2>3, <2>4 DEF KeyInv
<1> QED
  BY <1>3, <1>4

LEMMA AbortKeys ==
    ASSUME TypeInv, KeyInv, Abort, twice' = twice
    PROVE  KeyInv'
<1>1. keys' = keys \ {derived[d].of : d \in {e \in Derived : derived[e].at = "stream"}}
  BY DEF Abort
<1>2. \A d \in Derived :
          /\ derived'[d].at = IF derived[d].at = "stream" THEN "over" ELSE derived[d].at
          /\ derived'[d].of = derived[d].of
  BY AbortShape
<1> QED
  BY <1>1, <1>2, KeyKept DEF Busy

LEMMA DerivedKeys ==
    ASSUME TypeInv, KeyInv, NEW d \in Derived,
           \/ TokenForDerived(d) \/ FailDerived(d) \/ SaveDerivedQuestion(d)
           \/ SaveDerivedAnswer(d) \/ DerivedEnds(d) \/ SaveLast(d)
    PROVE  KeyInv'
<1>1. derived \in [Derived -> DerivedSet]
  BY UserFields
<1>2. twice' = twice
  BY DEF TokenForDerived, FailDerived, SaveDerivedQuestion, SaveDerivedAnswer, DerivedEnds,
         SaveLast, Aside, ghosts
<1>3. CASE TokenForDerived(d)
  <2>1. /\ derived[d].at = "token" /\ keys' = keys \union {derived[d].of}
        /\ derived'[d].of = derived[d].of
        /\ \A e \in Derived : e # d => derived'[e] = derived[e]
    BY <1>1, <1>3 DEF TokenForDerived, DerivedSet
  <2> QED
    BY <1>2, <2>1, KeyKept DEF Busy
<1>4. CASE FailDerived(d)
  <2>1. /\ keys' = keys /\ derived'[d].at = "over"
        /\ \A e \in Derived : e # d => derived'[e] = derived[e]
    BY <1>1, <1>4 DEF FailDerived, DerivedSet
  <2> QED
    BY <1>2, <2>1, KeyKept DEF Busy
<1>5. CASE SaveDerivedQuestion(d)
  <2>1. /\ keys' = keys /\ derived'[d].of = derived[d].of /\ derived[d].at = "saveQuestion"
        /\ \A e \in Derived : e # d => derived'[e] = derived[e]
    BY <1>1, <1>5 DEF SaveDerivedQuestion, DerivedSet
  <2> QED
    BY <1>2, <2>1, KeyKept DEF Busy
<1>6. CASE SaveDerivedAnswer(d)
  <2>1. /\ keys' = keys /\ derived'[d].of = derived[d].of /\ derived[d].at = "saveAnswer"
        /\ \A e \in Derived : e # d => derived'[e] = derived[e]
    BY <1>1, <1>6 DEF SaveDerivedAnswer, DerivedSet
  <2> QED
    BY <1>2, <2>1, KeyKept DEF Busy
<1>7. CASE DerivedEnds(d)
  <2>1. /\ keys' = keys \ {derived[d].of} /\ derived[d].at = "stream"
        /\ derived'[d].at \in {"over", "saveLast"}
        /\ \A e \in Derived : e # d => derived'[e] = derived[e]
    BY <1>1, <1>7 DEF DerivedEnds, DerivedSet
  <2> QED
    BY <1>2, <2>1, KeyKept DEF Busy
<1>8. CASE SaveLast(d)
  <2>1. /\ keys' = keys /\ derived'[d].at = "over"
        /\ \A e \in Derived : e # d => derived'[e] = derived[e]
    BY <1>1, <1>8 DEF SaveLast, DerivedSet
  <2> QED
    BY <1>2, <2>1, KeyKept DEF Busy
<1> QED
  BY <1>3, <1>4, <1>5, <1>6, <1>7, <1>8

LEMMA KeyStep == TypeInv /\ KeyInv /\ [Next]_vars => KeyInv'
<1> SUFFICES ASSUME TypeInv, KeyInv, [Next]_vars PROVE KeyInv'
  OBVIOUS
<1>1. CASE UNCHANGED <<derived, keys, twice>>
  BY <1>1 DEF KeyInv
<1>2. ASSUME NEW q \in Questions,
             \/ Submit(q) \/ TokenForQuestion(q) \/ StartForQuestion(q) \/ PostForQuestion(q)
             \/ FailQuestion(q) \/ StreamId(q) \/ StreamEnds(q) \/ StreamBreaks(q)
             \/ FailingEnds(q)
      PROVE  UNCHANGED <<derived, keys, twice>>
  BY <1>2 DEF Submit, TokenForQuestion, StartForQuestion, PostForQuestion, FailQuestion,
     StreamId, StreamEnds, StreamBreaks, FailingEnds, Rest, ghosts
<1>3. ASSUME NEW r \in Replies,
             \/ AppendReply(r) \/ TokenForReply(r) \/ StartForReply(r) \/ PostReply(r)
             \/ FailReply(r)
      PROVE  UNCHANGED <<derived, keys, twice>>
  BY <1>3 DEF AppendReply, TokenForReply, StartForReply, PostReply, FailReply, Around, ghosts
<1>4. ASSUME NEW v \in Openings, Opened(v) \/ OpeningFails(v)
      PROVE  UNCHANGED <<derived, keys, twice>>
  BY <1>4 DEF Opened, OpeningFails
<1>5. ASSUME NEW x \in Deletions,
             (\E c \in DOMAIN chat : Delete(x, c)) \/ Deleted(x) \/ DeletionFails(x)
      PROVE  UNCHANGED <<derived, keys, twice>>
  BY <1>5 DEF Delete, Deleted, DeletionFails, ghosts
<1>6. ASSUME NEW s \in Sources, Switch(s) \/ Choose(s)
      PROVE  UNCHANGED <<derived, keys, twice>>
  BY <1>6 DEF Switch, Choose, ghosts
<1>7. CASE GoHome \/ ResetConversation
  <2>1. Abort /\ twice' = twice
    BY <1>7 DEF GoHome, ResetConversation, ghosts
  <2> QED
    BY <2>1, AbortKeys
<1>8. ASSUME NEW v \in Openings, NEW c \in DOMAIN chat, Open(v, c) PROVE KeyInv'
  <2>1. Abort /\ twice' = twice
    BY <1>8 DEF Open, ghosts
  <2> QED
    BY <2>1, AbortKeys
<1>9. CASE UNCHANGED vars
  BY <1>1, <1>9 DEF vars, ghosts
<1> QED
  BY <1>1, <1>2, <1>3, <1>4, <1>5, <1>6, <1>7, <1>8, <1>9, InterpretKeys, DerivedKeys DEF Next

\* One question is interpreted once at a time, also when its chat is opened
\* again while the interpretation of its older copy goes on; excepted are two
\* requests before the first has its token.
THEOREM InterpretedOnce == Spec => []OneDerivedAtATime
<1>1. Init => KeyInv
  BY DEF Init, KeyInv, Busy
<1>2. TypeInv /\ KeyInv => OneDerivedAtATime
  <2> SUFFICES ASSUME TypeInv, KeyInv, ~twice, NEW q \in Questions
               PROVE  Cardinality(Interpreting(q)) <= 1
    BY DEF OneDerivedAtATime
  <2>1. \A d, e \in Interpreting(q) : d = e
    BY DEF KeyInv, Interpreting, Busy
  <2>2. CASE Interpreting(q) = {}
    BY <2>2, FS_EmptySet
  <2>3. CASE Interpreting(q) # {}
    <3>1. PICK d \in Interpreting(q) : TRUE
      BY <2>3
    <3>2. Interpreting(q) = {d}
      BY <2>1, <3>1
    <3> HIDE DEF Interpreting
    <3>3. Cardinality({d}) = 1
      BY FS_Singleton
    <3> QED
      BY <3>2, <3>3
  <2> QED
    BY <2>2, <2>3
<1>3. Spec => []KeyInv
  BY <1>1, TypesHold, KeyStep, PTL DEF Spec
<1> QED
  BY <1>2, <1>3, TypesHold, PTL

(* Leaving a question *)

\* A question being prepared or answered is the one that an abort would reach,
\* and its user is still there.
ControlInv ==
    freed \/ \A q \in Questions : Preparing(q) \/ question[q].at = "stream" =>
                controller = q /\ ~question[q].left

\* A step in which one question gets no further than the invariant allows, and
\* the controller stays that of the others.
LEMMA ControlKept ==
    ASSUME TypeInv, ControlInv, freed' = freed, NEW q \in Questions,
           \A p \in Questions : p # q => question'[p] = question[p],
           controller' = controller \/ (controller = q /\ controller' = 0),
           (Preparing(q) \/ question[q].at = "stream")'
              => /\ Preparing(q) \/ question[q].at = "stream"
                 /\ question'[q].left = question[q].left
                 /\ controller' = controller
    PROVE  ControlInv'
BY DEF ControlInv, Preparing

LEMMA SentControl ==
    ASSUME TypeInv, ControlInv, freed' = freed, NEW q \in Questions, Preparing(q) \/ question[q].aborted,
           NEW mine, mine.aborted = question[q].aborted, mine.left = question[q].left,
           NEW sessions, NEW chats, Sent(q, mine, sessions, chats)
    PROVE  ControlInv'
<1>1. PICK m \in Asked :
          /\ question' = [question EXCEPT ![q] = m]
          /\ m.aborted = mine.aborted /\ m.left = mine.left
          /\ m.at \in {"pending", "stream", "failing", "over"}
          /\ m.at = "stream" => ~mine.aborted
          /\ IF m.at = "over"
             THEN controller' = IF controller = q THEN 0 ELSE controller
             ELSE controller' = controller
  BY DEF Sent
<1>2. question'[q] = m /\ \A p \in Questions : p # q => question'[p] = question[p]
  BY <1>1, UserFields
<1>3. (Preparing(q) \/ question[q].at = "stream")' => ~m.aborted /\ m.at # "over"
  BY <1>1, <1>2 DEF Preparing
<1> QED
  BY <1>1, <1>2, <1>3, ControlKept

LEMMA OverControl ==
    ASSUME TypeInv, ControlInv, freed' = freed, NEW q \in Questions, Over(q, question[q])
    PROVE  ControlInv'
<1>1. /\ question'[q].at = "over" /\ \A p \in Questions : p # q => question'[p] = question[p]
      /\ controller' = IF controller = q THEN 0 ELSE controller
  BY UserFields DEF Over, Asked
<1> QED
  BY <1>1, ControlKept DEF Preparing

LEMMA FailingControl ==
    ASSUME TypeInv, ControlInv, freed' = freed, NEW q \in Questions,
           Failing(q, question[q], session)
    PROVE  ControlInv'
<1>1. /\ question'[q].at = "failing"
      /\ \A p \in Questions : p # q => question'[p] = question[p]
      /\ controller' = controller
  BY UserFields DEF Failing, Asked
<1> QED
  BY <1>1, ControlKept DEF Preparing

LEMMA AbortControl ==
    ASSUME TypeInv, ControlInv, freed' = freed, Abort
    PROVE  ControlInv'
<1>1. ASSUME NEW q \in Questions, ~freed PROVE ~(Preparing(q) \/ question[q].at = "stream")'
  <2>1. /\ question'[q].at = IF q = controller /\ question[q].at = "stream"
                             THEN "over" ELSE question[q].at
        /\ question'[q].aborted = (question[q].aborted \/ q = controller)
    BY AbortShape
  <2>2. Preparing(q) \/ question[q].at = "stream" => q = controller
    BY <1>1 DEF ControlInv
  <2> QED
    BY <2>1, <2>2 DEF Preparing
<1> QED
  BY <1>1 DEF ControlInv

LEMMA SubmitControl ==
    ASSUME TypeInv, ControlInv, NEW q \in Questions, Submit(q)
    PROVE  ControlInv'
<1> DEFINE m == [Unasked EXCEPT !.at = "token", !.source = Source, !.session = Container]
<1>1. /\ question' = [question EXCEPT ![q] = m] /\ controller' = q
      /\ freed' = (freed \/ \E p \in Questions : UnderWay(p))
  BY DEF Submit
<1>2. ~m.left
  BY DEF Unasked
<1> HIDE DEF m
<1>3. question'[q] = m /\ \A p \in Questions : p # q => question'[p] = question[p]
  BY <1>1, UserFields
<1>4. CASE freed'
  BY <1>4 DEF ControlInv
<1>5. CASE ~freed'
  <2>1. \A p \in Questions : ~(Preparing(p) \/ question[p].at = "stream")
    BY <1>1, <1>5 DEF UnderWay
  <2>2. ASSUME NEW p \in Questions, p # q
        PROVE  ~(Preparing(p) \/ question[p].at = "stream")'
    BY <1>3, <2>1, <2>2 DEF Preparing
  <2> QED
    BY <1>1, <1>2, <1>3, <2>2 DEF ControlInv
<1> QED
  BY <1>4, <1>5

LEMMA SendsControl ==
    ASSUME TypeInv, ControlInv, NEW q \in Questions, NEW mine, NEW sessions, NEW chats,
           SendsFrom(q, mine, sessions, chats)
    PROVE  ControlInv'
<1>1. /\ Sent(q, mine, sessions, chats) /\ freed' = freed
      /\ mine.aborted = question[q].aborted /\ mine.left = question[q].left
      /\ question[q].at \in {"token", "start", "pending"}
  BY DEF SendsFrom, Rest, ghosts
<1>2. Preparing(q) \/ question[q].aborted
  BY <1>1 DEF Preparing
<1> QED
  BY <1>1, <1>2, SentControl

LEMMA BeginsControl ==
    ASSUME TypeInv, ControlInv, NEW q \in Questions, NEW m, BeginsChat(q, m)
    PROVE  ControlInv'
<1>1. /\ question'[q] = m /\ \A p \in Questions : p # q => question'[p] = question[p]
      /\ controller' = controller /\ freed' = freed /\ question[q].at = "token"
      /\ m.at = "start" /\ m.aborted = question[q].aborted /\ m.left = question[q].left
  BY UserFields DEF BeginsChat, Rest, ghosts
<1> QED
  BY <1>1, ControlKept DEF Preparing

LEMMA ControlStep == TypeInv /\ ControlInv /\ [Next]_vars => ControlInv'
<1> SUFFICES ASSUME TypeInv, ControlInv, [Next]_vars PROVE ControlInv'
  OBVIOUS
<1>1. CASE UNCHANGED <<question, controller, freed>>
  BY <1>1 DEF ControlInv, Preparing
<1>2. ASSUME NEW q \in Questions,
             TokenForQuestion(q) \/ StartForQuestion(q) \/ PostForQuestion(q)
      PROVE  ControlInv'
  BY <1>2, TokenForQuestionShape, StartForQuestionShape, PostForQuestionShape,
     SendsControl, BeginsControl
<1>3. ASSUME NEW q \in Questions, FailQuestion(q) PROVE ControlInv'
  BY <1>3, OverControl, FailingControl DEF FailQuestion, Rest, ghosts
<1>4. ASSUME NEW q \in Questions, StreamEnds(q) \/ FailingEnds(q) PROVE ControlInv'
  BY <1>4, OverControl DEF StreamEnds, FailingEnds, Rest, ghosts
<1>5. ASSUME NEW q \in Questions, StreamBreaks(q) PROVE ControlInv'
  BY <1>5, FailingControl DEF StreamBreaks, Rest, ghosts
<1>6. ASSUME NEW q \in Questions, StreamId(q) PROVE UNCHANGED <<question, controller, freed>>
  BY <1>6 DEF StreamId, Rest, ghosts
<1>7. ASSUME NEW d \in Derived,
             \/ \E q \in Questions : Interpret(d, q)
             \/ TokenForDerived(d) \/ FailDerived(d) \/ SaveDerivedQuestion(d)
             \/ SaveDerivedAnswer(d) \/ DerivedEnds(d) \/ SaveLast(d)
      PROVE  UNCHANGED <<question, controller, freed>>
  BY <1>7 DEF Interpret, TokenForDerived, FailDerived, SaveDerivedQuestion,
     SaveDerivedAnswer, DerivedEnds, SaveLast, Aside, ghosts, screen
<1>8. ASSUME NEW r \in Replies,
             \/ AppendReply(r) \/ TokenForReply(r) \/ StartForReply(r) \/ PostReply(r)
             \/ FailReply(r)
      PROVE  UNCHANGED <<question, controller, freed>>
  BY <1>8 DEF AppendReply, TokenForReply, StartForReply, PostReply, FailReply, Around, ghosts
<1>9. CASE GoHome \/ ResetConversation
  BY <1>9, AbortControl DEF GoHome, ResetConversation, ghosts
<1>10. ASSUME NEW v \in Openings, NEW c \in DOMAIN chat, Open(v, c) PROVE ControlInv'
  BY <1>10, AbortControl DEF Open, ghosts
<1>11. ASSUME NEW v \in Openings, Opened(v) \/ OpeningFails(v)
       PROVE  UNCHANGED <<question, controller, freed>>
  BY <1>11 DEF Opened, OpeningFails
<1>12. ASSUME NEW x \in Deletions,
              (\E c \in DOMAIN chat : Delete(x, c)) \/ Deleted(x) \/ DeletionFails(x)
       PROVE  UNCHANGED <<question, controller, freed>>
  BY <1>12 DEF Delete, Deleted, DeletionFails, ghosts, screen
<1>13. ASSUME NEW s \in Sources, Switch(s) \/ Choose(s)
       PROVE  UNCHANGED <<question, controller, freed>>
  BY <1>13 DEF Switch, Choose, ghosts
<1>14. CASE UNCHANGED vars
  BY <1>1, <1>14 DEF vars, screen, ghosts
<1> QED
  BY <1>1, <1>2, <1>3, <1>4, <1>5, <1>6, <1>7, <1>8, <1>9, <1>10, <1>11, <1>12, <1>13,
     <1>14, SubmitControl DEF Next

\* A question the user has left is not sent to the server afterwards, however
\* far its preparation was; excepted is one that let a second question in and
\* lost its controller to it.
THEOREM LeftIsNotSent == Spec => []NothingSentAfterLeaving
<1>1. Init => ControlInv
  BY DEF Init, ControlInv, Preparing, Unasked
<1>2. ControlInv => NothingSentAfterLeaving
  BY DEF ControlInv, NothingSentAfterLeaving
<1>3. Spec => []ControlInv
  BY <1>1, TypesHold, ControlStep, PTL DEF Spec
<1> QED
  BY <1>2, <1>3, PTL

(* The source of a chat *)

\* While a question is prepared the conversation it was entered in stays on
\* screen, with records, and is the one it will be sent for; excepted is another
\* conversation or source that comes under it.
PlaceInv ==
    early \/ \A q \in Questions : Preparing(q) =>
                /\ shown # 0 /\ shown = question[q].session
                /\ question[q].at # "token" => question[q].target = shown
                /\ session[shown].records # <<>>

\* A step that leaves the conversation on screen there, and its records.
LEMMA PlaceKept ==
    ASSUME PlaceInv, TypeInv, early' = early,
           \A q \in Questions : Preparing(q)' =>
              /\ Preparing(q) /\ question'[q].session = question[q].session
              /\ question'[q].at # "token" =>
                    \/ question[q].at # "token" /\ question'[q].target = question[q].target
                    \/ question'[q].target = shown',
           shown # 0 => /\ shown' = shown
                        /\ session[shown].records # <<>> => session'[shown].records # <<>>
    PROVE  PlaceInv'
BY DEF PlaceInv

LEMMA SendsPlace ==
    ASSUME TypeInv, PlaceInv, NEW q \in Questions, NEW mine, NEW sessions, NEW chats,
           SendsFrom(q, mine, sessions, chats)
    PROVE  PlaceInv'
<1>1. PICK m \in Asked :
          /\ question' = [question EXCEPT ![q] = m]
          /\ m.session = mine.session /\ m.target = mine.target
          /\ m.aborted = mine.aborted
  BY DEF SendsFrom, Sent
<1>2. /\ question'[q] = m /\ \A p \in Questions : p # q => question'[p] = question[p]
      /\ m.session = question[q].session /\ m.aborted = question[q].aborted
      /\ m.target = IF question[q].at = "token" THEN shown' ELSE question[q].target
      /\ question[q].at \in {"token", "start", "pending"}
      /\ early' = early
  BY <1>1, UserFields DEF SendsFrom, Rest, ghosts
<1>3. \A p \in Questions : Preparing(p)' =>
         /\ Preparing(p) /\ question'[p].session = question[p].session
         /\ question'[p].at # "token" =>
               \/ question[p].at # "token" /\ question'[p].target = question[p].target
               \/ question'[p].target = shown'
  BY <1>2 DEF Preparing
<1>4. ASSUME shown # 0
      PROVE  /\ shown' = shown
             /\ session[shown].records # <<>> => session'[shown].records # <<>>
  <2>1. shown \in DOMAIN session /\ shown \in DOMAIN sessions /\ shown' = shown
    BY <1>4, UserFields, LenProperties DEF SendsFrom
  <2>2. sessions[shown].records = session[shown].records
    BY <2>1 DEF SendsFrom
  <2> QED
    BY <2>1, <2>2 DEF SendsFrom, Sent, Later
<1> QED
  BY <1>2, <1>3, <1>4, PlaceKept

LEMMA BeginsPlace ==
    ASSUME TypeInv, PlaceInv, NEW q \in Questions, NEW m, BeginsChat(q, m)
    PROVE  PlaceInv'
<1>1. /\ question'[q] = m /\ \A p \in Questions : p # q => question'[p] = question[p]
      /\ early' = early /\ question[q].at = "token"
      /\ m.target = shown' /\ m.session = question[q].session
      /\ m.aborted = question[q].aborted
  BY UserFields DEF BeginsChat, Rest, ghosts
<1>2. shown # 0 => shown' = shown /\ session' = session
  BY ContainerThere DEF BeginsChat
<1> QED
  BY <1>1, <1>2, PlaceKept DEF Preparing

LEMMA AbortPlace ==
    ASSUME TypeInv, PlaceInv, Abort, early' = early,
           shown' = shown \/ OnScreen = <<>>
    PROVE  PlaceInv'
<1>1. \A q \in Questions : Preparing(q)' =>
         /\ Preparing(q) /\ question'[q].session = question[q].session
         /\ question'[q].at = question[q].at /\ question'[q].target = question[q].target
  BY AbortShape DEF Preparing
<1>2. shown # 0 => (session[shown].records # <<>> => session'[shown].records # <<>>)
  <2>1. Later(session, session', Len(chat))
    BY UserFields, ClosedType DEF Abort
  <2> QED
    BY <2>1, UserFields DEF Later
<1>3. CASE shown' = shown
  BY <1>1, <1>2, <1>3, PlaceKept
<1>4. CASE OnScreen = <<>>
  <2>1. ~early => \A q \in Questions : ~Preparing(q)
    BY <1>4 DEF PlaceInv, OnScreen
  <2> QED
    BY <1>1, <2>1 DEF PlaceInv
<1> QED
  BY <1>3, <1>4

LEMMA SubmitPlace ==
    ASSUME TypeInv, PlaceInv, NEW q \in Questions, Submit(q)
    PROVE  PlaceInv'
<1> DEFINE m == [Unasked EXCEPT !.at = "token", !.source = Source, !.session = Container]
<1>1. /\ question' = [question EXCEPT ![q] = m] /\ shown' = Container /\ Room
      /\ early' = early
  BY DEF Submit
<1>2. m.at = "token" /\ m.session = Container
  BY DEF Unasked
<1> HIDE DEF m
<1>3. question'[q] = m /\ \A p \in Questions : p # q => question'[p] = question[p]
  BY <1>1, UserFields
<1>4. Container # 0 /\ (shown # 0 => Container = shown)
  BY <1>1, ContainerThere
<1>5. session'[Container].records # <<>>
  BY SubmitPushes
<1>6. CASE early
  BY <1>1, <1>6 DEF PlaceInv
<1>7. CASE ~early
  <2>1. ASSUME NEW p \in Questions, p # q, Preparing(p)'
        PROVE  /\ shown' # 0 /\ shown' = question'[p].session
               /\ question'[p].at # "token" => question'[p].target = shown'
               /\ session'[shown'].records # <<>>
    <3>1. Preparing(p) /\ question'[p] = question[p]
      BY <1>3, <2>1 DEF Preparing
    <3> QED
      BY <1>1, <1>4, <1>5, <1>7, <3>1 DEF PlaceInv
  <2>2. /\ shown' # 0 /\ shown' = question'[q].session
        /\ question'[q].at = "token" /\ session'[shown'].records # <<>>
    BY <1>1, <1>2, <1>3, <1>4, <1>5
  <2> QED
    BY <2>1, <2>2 DEF PlaceInv
<1> QED
  BY <1>6, <1>7

LEMMA QuestionLater ==
    ASSUME TypeInv, NEW q \in Questions,
           \/ FailQuestion(q) \/ StreamId(q) \/ StreamEnds(q) \/ StreamBreaks(q)
           \/ FailingEnds(q)
    PROVE  Later(session, session', Len(chat))
<1>1. Later(session, session, Len(chat))
  BY UserFields DEF Later
<1>2. CASE FailQuestion(q) \/ StreamBreaks(q) \/ FailingEnds(q)
  <2>1. session' = session \/ Failing(q, question[q], session)
    BY <1>2 DEF FailQuestion, StreamBreaks, FailingEnds
  <2>2. question[q].at # "unasked"
    BY <1>2 DEF FailQuestion, StreamBreaks, FailingEnds
  <2> QED
    BY <1>1, <2>1, <2>2, QuestionFields, FailingLater
<1>3. CASE StreamId(q)
  BY <1>3, StreamIdLater
<1>4. CASE StreamEnds(q)
  BY <1>4, StreamEndsLater
<1> QED
  BY <1>2, <1>3, <1>4

LEMMA QuestionMoves ==
    ASSUME TypeInv, NEW q \in Questions,
           \/ FailQuestion(q) \/ StreamId(q) \/ StreamEnds(q) \/ StreamBreaks(q)
           \/ FailingEnds(q)
    PROVE  \A p \in Questions :
              /\ question'[p].source = question[p].source
              /\ Preparing(p)' => question'[p] = question[p]
<1>1. \/ question' = question
      \/ \E at \in {"over", "failing"} :
            question' = [question EXCEPT ![q] = [question[q] EXCEPT !.at = at]]
  BY DEF FailQuestion, StreamId, StreamEnds, StreamBreaks, FailingEnds, Over, Failing
<1>2. CASE question' = question
  BY <1>2
<1>3. ASSUME NEW at \in {"over", "failing"},
             question' = [question EXCEPT ![q] = [question[q] EXCEPT !.at = at]]
      PROVE  \A p \in Questions :
                /\ question'[p].source = question[p].source
                /\ Preparing(p)' => question'[p] = question[p]
  <2>1. /\ question'[q].at = at /\ question'[q].source = question[q].source
        /\ \A p \in Questions : p # q => question'[p] = question[p]
    BY <1>3, UserFields DEF Asked
  <2> QED
    BY <2>1 DEF Preparing
<1> QED
  BY <1>1, <1>2, <1>3

LEMMA QuestionPlace ==
    ASSUME TypeInv, PlaceInv, NEW q \in Questions,
           \/ FailQuestion(q) \/ StreamId(q) \/ StreamEnds(q) \/ StreamBreaks(q)
           \/ FailingEnds(q)
    PROVE  PlaceInv'
<1>1. early' = early /\ shown' = shown
  BY DEF FailQuestion, StreamId, StreamEnds, StreamBreaks, FailingEnds, Rest, ghosts
<1>2. Later(session, session', Len(chat))
  BY QuestionLater
<1>3. shown # 0 => (session[shown].records # <<>> => session'[shown].records # <<>>)
  BY <1>2, UserFields DEF Later
<1>4. \A p \in Questions : Preparing(p)' => Preparing(p) /\ question'[p] = question[p]
  BY QuestionMoves DEF Preparing
<1> QED
  BY <1>1, <1>3, <1>4, PlaceKept

\* The steps that leave the questions as they are.
LEMMA PlaceBeside ==
    ASSUME TypeInv, PlaceInv, UNCHANGED <<question, early>>,
           shown # 0 => /\ shown' = shown
                        /\ session[shown].records # <<>> => session'[shown].records # <<>>
    PROVE  PlaceInv'
BY PlaceKept DEF Preparing

LEMMA DerivedPlace ==
    ASSUME TypeInv, PlaceInv, NEW d \in Derived,
           \/ \E q \in Questions : Interpret(d, q)
           \/ TokenForDerived(d) \/ FailDerived(d) \/ SaveDerivedQuestion(d)
           \/ SaveDerivedAnswer(d) \/ DerivedEnds(d) \/ SaveLast(d)
    PROVE  PlaceInv'
<1>1. UNCHANGED <<question, early>>
  BY DEF Interpret, TokenForDerived, FailDerived, SaveDerivedQuestion, SaveDerivedAnswer,
         DerivedEnds, SaveLast, Aside, ghosts
<1>2. CASE TokenForDerived(d)
  <2>1. shown # 0 => shown' = shown /\ Sessions = session /\ shown \in DOMAIN Sessions
    BY <1>2, ContainerThere DEF TokenForDerived
  <2> QED
    BY <1>1, <1>2, <2>1, DerivedPushes, PlaceBeside
<1>3. CASE DerivedEnds(d)
  <2>1. Later(session, session', Len(chat)) /\ shown' = shown
    BY <1>3, UserFields, ClosedType DEF DerivedEnds
  <2>2. shown # 0 => (session[shown].records # <<>> => session'[shown].records # <<>>)
    BY <2>1, UserFields DEF Later
  <2> QED
    BY <1>1, <2>1, <2>2, PlaceBeside
<1>4. CASE \/ \E q \in Questions : Interpret(d, q)
           \/ FailDerived(d) \/ SaveDerivedQuestion(d) \/ SaveDerivedAnswer(d) \/ SaveLast(d)
  <2>1. UNCHANGED <<shown, session>>
    BY <1>4 DEF Interpret, FailDerived, SaveDerivedQuestion, SaveDerivedAnswer, SaveLast, screen
  <2> QED
    BY <1>1, <2>1, PlaceBeside
<1> QED
  BY <1>2, <1>3, <1>4

LEMMA ReplyPlace ==
    ASSUME TypeInv, PlaceInv, NEW r \in Replies,
           \/ AppendReply(r) \/ TokenForReply(r) \/ StartForReply(r) \/ PostReply(r)
           \/ FailReply(r)
    PROVE  PlaceInv'
<1>1. UNCHANGED <<question, early>>
  BY DEF AppendReply, TokenForReply, StartForReply, PostReply, FailReply, Around, ghosts
<1>2. CASE AppendReply(r)
  <2>1. shown # 0 => shown' = shown /\ Sessions = session /\ shown \in DOMAIN Sessions
    BY <1>2, ContainerThere DEF AppendReply
  <2> QED
    BY <1>1, <1>2, <2>1, ReplyPushes, PlaceBeside
<1>3. CASE TokenForReply(r)
  <2>1. shown # 0 => shown' = shown /\ session' = session
    BY <1>3, ContainerThere DEF TokenForReply, SaveReply
  <2> QED
    BY <1>1, <2>1, PlaceBeside
<1>4. CASE StartForReply(r)
  <2>1. reply[r].target \in DOMAIN session
    BY <1>4, ReplyFields DEF StartForReply, ReplyOk
  <2>2. session' = [session EXCEPT ![reply[r].target].chat = Len(chat) + 1] /\ shown' = shown
    BY <1>4 DEF StartForReply, SaveReply
  <2>3. shown # 0 => session'[shown].records = session[shown].records
    BY <2>1, <2>2, StartedSession, UserFields
  <2> QED
    BY <1>1, <2>2, <2>3, PlaceBeside
<1>5. CASE PostReply(r) \/ FailReply(r)
  <2>1. UNCHANGED <<shown, session>>
    BY <1>5 DEF PostReply, FailReply
  <2> QED
    BY <1>1, <2>1, PlaceBeside
<1> QED
  BY <1>2, <1>3, <1>4, <1>5

\* Another conversation or source comes under what is being prepared.
LEMMA EarlyPlace ==
    ASSUME PlaceInv, question' = question,
           early' = (early \/ \E q \in Questions : Preparing(q))
    PROVE  PlaceInv'
BY DEF PlaceInv, Preparing

LEMMA PlaceStep == TypeInv /\ PlaceInv /\ [Next]_vars => PlaceInv'
<1> SUFFICES ASSUME TypeInv, PlaceInv, [Next]_vars PROVE PlaceInv'
  OBVIOUS
<1>1. CASE UNCHANGED <<question, early, shown, session>>
  BY <1>1, PlaceBeside
<1>2. ASSUME NEW q \in Questions,
             TokenForQuestion(q) \/ StartForQuestion(q) \/ PostForQuestion(q)
      PROVE  PlaceInv'
  BY <1>2, TokenForQuestionShape, StartForQuestionShape, PostForQuestionShape,
     SendsPlace, BeginsPlace
<1>3. CASE GoHome \/ ResetConversation
  BY <1>3, AbortPlace DEF GoHome, ResetConversation, ghosts
<1>4. ASSUME NEW v \in Openings, NEW c \in DOMAIN chat, Open(v, c) PROVE PlaceInv'
  BY <1>4, AbortPlace DEF Open, ghosts
<1>5. ASSUME NEW v \in Openings, Opened(v) \/ OpeningFails(v) PROVE PlaceInv'
  BY <1>5, EarlyPlace DEF Opened, OpeningFails
<1>6. ASSUME NEW x \in Deletions, Deleted(x) PROVE PlaceInv'
  <2>1. \/ question' = question /\ early' = (early \/ \E q \in Questions : Preparing(q))
        \/ UNCHANGED <<question, early, shown, session>>
    BY <1>6 DEF Deleted
  <2> QED
    BY <1>1, <2>1, EarlyPlace
<1>7. ASSUME NEW x \in Deletions, (\E c \in DOMAIN chat : Delete(x, c)) \/ DeletionFails(x)
      PROVE  UNCHANGED <<question, early, shown, session>>
  BY <1>7 DEF Delete, DeletionFails, ghosts, screen
<1>8. ASSUME NEW s \in Sources, Switch(s) PROVE PlaceInv'
  BY <1>8, EarlyPlace DEF Switch
<1>9. ASSUME NEW s \in Sources, Choose(s) PROVE UNCHANGED <<question, early, shown, session>>
  BY <1>9 DEF Choose, ghosts
<1>10. CASE UNCHANGED vars
  BY <1>1, <1>10 DEF vars, screen, ghosts
<1> QED
  BY <1>1, <1>2, <1>3, <1>4, <1>5, <1>6, <1>7, <1>8, <1>9, <1>10, SubmitPlace, QuestionPlace,
     DerivedPlace, ReplyPlace DEF Next

\* What is prepared is about the source of the conversation on screen, and so
\* are the questions in that conversation's chat; in each chat all are about one
\* source.
SourceInv ==
    strayed \/ early \/
       /\ \A q \in Questions : Preparing(q) => active = question[q].source
       /\ \A c \in DOMAIN chat : \A n, m \in QuestionsIn(chat[c].log) :
             question[n].source = question[m].source
       /\ shown # 0 /\ session[shown].chat # 0 =>
             \A n \in QuestionsIn(chat[session[shown].chat].log) : question[n].source = active

\* A step that sends no question: the conversation on screen keeps its chat and
\* its source, or gets a chat that has no questions, or none.
LEMMA SourceKept ==
    ASSUME TypeInv, TypeInv', SourceInv,
           strayed \/ early => strayed' \/ early',
           \A q \in Questions : question[q].at # "unasked" =>
              question'[q].source = question[q].source,
           SameQuestions(chat'),
           strayed' \/ early' \/
              /\ \A q \in Questions : Preparing(q)' => active' = question'[q].source
              /\ \/ shown' = 0 \/ session'[shown'].chat \notin DOMAIN chat
                 \/ /\ shown # 0 /\ session'[shown'].chat = session[shown].chat
                    /\ active' = active \/ active = NoSource
    PROVE  SourceInv'
<1>1. CASE strayed' \/ early'
  BY <1>1 DEF SourceInv
<1>2. CASE ~(strayed' \/ early')
  <2>1. /\ \A c \in DOMAIN chat : \A n, m \in QuestionsIn(chat[c].log) :
              question[n].source = question[m].source
        /\ shown # 0 /\ session[shown].chat # 0 =>
              \A n \in QuestionsIn(chat[session[shown].chat].log) : question[n].source = active
    BY <1>2 DEF SourceInv
  <2>2. ASSUME NEW c \in DOMAIN chat', NEW n \in QuestionsIn(chat'[c].log)
        PROVE  /\ c \in DOMAIN chat /\ n \in QuestionsIn(chat[c].log)
               /\ question'[n].source = question[n].source
    <3>1. c \in DOMAIN chat /\ n \in QuestionsIn(chat[c].log)
      BY DEF SameQuestions
    <3> QED
      BY <3>1, QuestionsAsked
  <2>3. \A c \in DOMAIN chat' : \A n, m \in QuestionsIn(chat'[c].log) :
           question'[n].source = question'[m].source
    BY <2>1, <2>2
  <2>4. ASSUME shown' # 0, session'[shown'].chat # 0,
               NEW n \in QuestionsIn(chat'[session'[shown'].chat].log)
        PROVE  question'[n].source = active'
    <3>1. session'[shown'].chat \in DOMAIN chat'
      <4>1. shown' \in DOMAIN session' /\ session' \in Seq(SessionSet(Len(chat')))
            /\ Len(chat') \in Nat /\ DOMAIN chat' = 1..Len(chat')
        BY <2>4, LenProperties DEF TypeInv, ScreenInv, SessionInv
      <4> HIDE DEF SourceInv
      <4>2. session'[shown'].chat \in 0..Len(chat')
        BY <4>1, SessionFields
      <4> QED
        BY <2>4, <4>1, <4>2
    <3>2. /\ session'[shown'].chat \in DOMAIN chat
          /\ n \in QuestionsIn(chat[session'[shown'].chat].log)
          /\ question'[n].source = question[n].source
      BY <2>2, <2>4, <3>1
    <3>3. /\ shown # 0 /\ session'[shown'].chat = session[shown].chat
          /\ active' = active \/ active = NoSource
      BY <1>2, <2>4, <3>2
    <3>4. question[n].source = active
      BY <2>1, <2>4, <3>2, <3>3
    <3>5. question[n].source # NoSource
      BY <3>2, QuestionsAsked, SourceAssumption
    <3> QED
      BY <3>2, <3>3, <3>4, <3>5
  <2> QED
    BY <1>2, <2>3, <2>4 DEF SourceInv
<1> QED
  BY <1>1, <1>2

LEMMA SendsSource ==
    ASSUME TypeInv, TypeInv', PlaceInv, SourceInv, NEW q \in Questions,
           NEW mine, NEW sessions, NEW chats, SendsFrom(q, mine, sessions, chats)
    PROVE  SourceInv'
<1>1. PICK m \in Asked :
          /\ question' = [question EXCEPT ![q] = m]
          /\ m.source = mine.source /\ m.aborted = mine.aborted
          /\ m.at \in {"pending", "stream", "failing", "over"}
          /\ IF m.at = "stream"
             THEN /\ ~mine.aborted /\ sessions[mine.target].chat \in DOMAIN chats
                  /\ chat' = Logged(chats, sessions[mine.target].chat, NewEntry("question", q))
             ELSE chat' = chats
  BY DEF SendsFrom, Sent
<1>2. /\ question[q].at \in {"token", "start", "pending"}
      /\ question'[q] = m /\ m.source = question[q].source /\ m.aborted = question[q].aborted
      /\ \A p \in Questions : p # q => question'[p] = question[p]
      /\ UNCHANGED <<strayed, early, active>> /\ shown' = shown
      /\ SameQuestions(chats) /\ Later(sessions, session', Len(chats))
      /\ DOMAIN session \subseteq DOMAIN sessions
  BY <1>1, UserFields, LenProperties DEF SendsFrom, Sent, Rest, ghosts
<1>3. \A p \in Questions : question'[p].source = question[p].source
  BY <1>2
<1>4. ASSUME NEW p \in Questions, Preparing(p)' PROVE Preparing(p)
  BY <1>2, <1>4 DEF Preparing
<1>5. \A p \in Questions : Preparing(p)' => strayed' \/ early' \/ active' = question'[p].source
  BY <1>2, <1>3, <1>4 DEF SourceInv
<1>6. shown # 0 =>
         /\ session'[shown].chat = sessions[shown].chat
         /\ session'[shown].chat \notin DOMAIN chat \/ session'[shown].chat = session[shown].chat
  <2>1. SUFFICES ASSUME shown # 0
                 PROVE  /\ session'[shown].chat = sessions[shown].chat
                        /\ \/ session'[shown].chat \notin DOMAIN chat
                           \/ session'[shown].chat = session[shown].chat
    OBVIOUS
  <2>2. shown \in DOMAIN session /\ shown \in DOMAIN sessions /\ DOMAIN chat = 1..Len(chat)
    BY <1>2, <2>1, UserFields
  <2>3. session'[shown].chat = sessions[shown].chat
    BY <1>2, <2>2 DEF Later
  <2>4. \/ sessions[shown].chat \in {0} \union (1..Len(chats) \ 1..Len(chat))
        \/ sessions[shown].chat = session[shown].chat
    BY <2>2 DEF SendsFrom
  <2> QED
    BY <2>2, <2>3, <2>4
<1>7. CASE strayed \/ early
  BY <1>2, <1>7 DEF SourceInv
<1>8. CASE m.at # "stream"
  <2>1. SameQuestions(chat')
    BY <1>1, <1>2, <1>8
  <2> QED
    BY <1>2, <1>3, <1>5, <1>6, <2>1, SourceKept
<1>9. CASE m.at = "stream" /\ ~strayed /\ ~early
  <2> DEFINE c == sessions[shown].chat
             e == NewEntry("question", q)
  <2>1. Preparing(q)
    BY <1>1, <1>2, <1>9 DEF Preparing, SendsFrom
  <2>2. shown # 0 /\ mine.target = shown /\ active = question[q].source
    BY <1>2, <1>9, <2>1 DEF PlaceInv, SourceInv, SendsFrom
  <2>3. c \in DOMAIN chats /\ chat' = Logged(chats, c, e)
    BY <1>1, <1>9, <2>2
  <2>4. e \in Record /\ e.kind = "question" /\ e.n = q
    BY NewEntryType DEF NewEntry
  <2> HIDE DEF c, e
  <2>5. /\ \A d \in DOMAIN chats :
              QuestionsIn(chat'[d].log) = IF d = c THEN QuestionsIn(chats[d].log) \union {q}
                                                   ELSE QuestionsIn(chats[d].log)
        /\ Len(chat') = Len(chats) /\ chat' \in Seq(ChatSet) /\ chats \in Seq(ChatSet)
    BY <1>2, <2>3, <2>4, LoggedType DEF SameQuestions
  <2>6. DOMAIN chat' = DOMAIN chats
    BY <2>5, LenProperties
  <2>7. /\ \A d \in DOMAIN chats : \A n \in QuestionsIn(chats[d].log) :
              d \in DOMAIN chat /\ n \in QuestionsIn(chat[d].log)
        /\ \A d \in DOMAIN chat : \A n \in QuestionsIn(chat[d].log) : n \in Questions
    BY <1>2, QuestionsAsked DEF SameQuestions
  <2>8. ASSUME NEW n \in QuestionsIn(chat'[c].log) PROVE question'[n].source = active
    <3>1. CASE n = q
      BY <1>3, <2>2, <3>1
    <3>2. CASE n \in QuestionsIn(chats[c].log)
      <4>1. c \in DOMAIN chat /\ n \in QuestionsIn(chat[c].log) /\ n \in Questions
        BY <2>3, <2>7, <3>2
      <4>2. c = session[shown].chat /\ c # 0
        BY <1>6, <2>2, <4>1, UserFields DEF c
      <4> QED
        BY <1>3, <1>9, <2>2, <4>1, <4>2 DEF SourceInv
    <3> QED
      BY <2>3, <2>5, <3>1, <3>2
  <2>9. ASSUME NEW d \in DOMAIN chat', NEW n \in QuestionsIn(chat'[d].log),
               NEW k \in QuestionsIn(chat'[d].log)
        PROVE  question'[n].source = question'[k].source
    <3>1. CASE d = c
      BY <2>8, <3>1
    <3>2. CASE d # c
      <4>1. d \in DOMAIN chats /\ n \in QuestionsIn(chats[d].log) /\ k \in QuestionsIn(chats[d].log)
        BY <2>5, <2>6, <2>9, <3>2
      <4>2. /\ d \in DOMAIN chat
            /\ n \in QuestionsIn(chat[d].log) /\ k \in QuestionsIn(chat[d].log)
            /\ n \in Questions /\ k \in Questions
        BY <2>7, <4>1
      <4> QED
        BY <1>3, <1>9, <4>2 DEF SourceInv
    <3> QED
      BY <3>1, <3>2
  <2>10. session'[shown'].chat = c
    BY <1>2, <1>6, <2>2 DEF c
  <2> QED
    BY <1>2, <1>5, <2>8, <2>9, <2>10 DEF SourceInv
<1> QED
  BY <1>7, <1>8, <1>9

LEMMA BeginsSource ==
    ASSUME TypeInv, TypeInv', SourceInv, NEW q \in Questions, NEW m, BeginsChat(q, m)
    PROVE  SourceInv'
<1>1. /\ question'[q] = m /\ \A p \in Questions : p # q => question'[p] = question[p]
      /\ UNCHANGED <<strayed, early, active, chat>> /\ question[q].at = "token"
      /\ m.source = question[q].source /\ m.aborted = question[q].aborted
      /\ shown' = Container /\ session' = Sessions /\ session'[Container].chat = 0
  BY UserFields DEF BeginsChat, Rest, ghosts
<1>2. SameQuestions(chat')
  BY <1>1, UserFields DEF SameQuestions
<1>3. session'[shown'].chat \notin DOMAIN chat
  BY <1>1, UserFields
<1>4. \A p \in Questions : Preparing(p)' =>
         Preparing(p) /\ question'[p].source = question[p].source
  BY <1>1 DEF Preparing
<1>5. \A p \in Questions : Preparing(p)' => strayed \/ early \/ active' = question'[p].source
  BY <1>1, <1>4 DEF SourceInv
<1> QED
  BY <1>1, <1>2, <1>3, <1>5, SourceKept

\* The steps that leave the questions, and the source, as they are.
LEMMA SourceBeside ==
    ASSUME TypeInv, TypeInv', SourceInv, UNCHANGED <<strayed, early, active>>,
           \A q \in Questions :
              /\ question'[q].source = question[q].source
              /\ Preparing(q)' => Preparing(q),
           SameQuestions(chat'),
           \/ shown' = 0 \/ session'[shown'].chat \notin DOMAIN chat
           \/ shown # 0 /\ session'[shown'].chat = session[shown].chat
    PROVE  SourceInv'
<1>1. \A q \in Questions : Preparing(q)' => strayed \/ early \/ active' = question'[q].source
  BY DEF SourceInv
<1> QED
  BY <1>1, SourceKept

LEMMA QuestionSource ==
    ASSUME TypeInv, TypeInv', SourceInv, NEW q \in Questions,
           \/ FailQuestion(q) \/ StreamId(q) \/ StreamEnds(q) \/ StreamBreaks(q)
           \/ FailingEnds(q)
    PROVE  SourceInv'
<1>1. UNCHANGED <<strayed, early, active>> /\ shown' = shown
  BY DEF FailQuestion, StreamId, StreamEnds, StreamBreaks, FailingEnds, Rest, ghosts
<1>2. Later(session, session', Len(chat))
  BY QuestionLater
<1>3. SameQuestions(chat')
  <2>1. CASE StreamEnds(q)
    BY <2>1, StreamEndsLater, UserFields, LenProperties DEF SameQuestions
  <2>2. CASE FailQuestion(q) \/ StreamId(q) \/ StreamBreaks(q) \/ FailingEnds(q)
    <3>1. chat' = chat
      BY <2>2 DEF FailQuestion, StreamId, StreamBreaks, FailingEnds
    <3> QED
      BY <3>1, UserFields DEF SameQuestions
  <2> QED
    BY <2>1, <2>2
<1>4. \A p \in Questions :
         question'[p].source = question[p].source /\ (Preparing(p)' => Preparing(p))
  BY QuestionMoves DEF Preparing
<1>5. shown # 0 => session'[shown].chat = session[shown].chat
  BY <1>2, UserFields DEF Later
<1> QED
  BY <1>1, <1>3, <1>4, <1>5, SourceBeside

LEMMA DerivedSource ==
    ASSUME TypeInv, TypeInv', SourceInv, NEW d \in Derived,
           \/ \E q \in Questions : Interpret(d, q)
           \/ TokenForDerived(d) \/ FailDerived(d) \/ SaveDerivedQuestion(d)
           \/ SaveDerivedAnswer(d) \/ DerivedEnds(d) \/ SaveLast(d)
    PROVE  SourceInv'
<1>1. UNCHANGED <<question, strayed, early, active>>
  BY DEF Interpret, TokenForDerived, FailDerived, SaveDerivedQuestion, SaveDerivedAnswer,
         DerivedEnds, SaveLast, Aside, ghosts, screen
<1>2. \A q \in Questions :
         question'[q].source = question[q].source /\ (Preparing(q)' => Preparing(q))
  BY <1>1 DEF Preparing
<1>3. SameQuestions(chat')
  <2>1. CASE SaveDerivedAnswer(d) \/ SaveLast(d)
    BY <2>1, SaveDerivedType DEF SaveDerivedAnswer, SaveLast
  <2>2. CASE ~(SaveDerivedAnswer(d) \/ SaveLast(d))
    <3>1. chat' = chat
      BY <2>2 DEF Interpret, TokenForDerived, FailDerived, SaveDerivedQuestion, DerivedEnds
    <3> QED
      BY <3>1, UserFields DEF SameQuestions
  <2> QED
    BY <2>1, <2>2
<1>4. \/ shown' = 0 \/ session'[shown'].chat \notin DOMAIN chat
      \/ shown # 0 /\ session'[shown'].chat = session[shown].chat
  <2>1. CASE TokenForDerived(d)
    <3>1. /\ shown' = Container /\ Container \in DOMAIN Sessions
          /\ shown # 0 => Sessions = session /\ Container = shown
          /\ shown = 0 => Sessions[Container].chat = 0
      BY <2>1, ContainerThere DEF TokenForDerived
    <3>2. session'[shown'].chat = Sessions[Container].chat
      BY <2>1, <3>1, DerivedPushes
    <3> QED
      BY <3>1, <3>2, UserFields
  <2>2. CASE DerivedEnds(d)
    <3>1. Later(session, session', Len(chat)) /\ shown' = shown
      BY <2>2, UserFields, ClosedType DEF DerivedEnds
    <3> QED
      BY <3>1, UserFields DEF Later
  <2>3. CASE ~(TokenForDerived(d) \/ DerivedEnds(d))
    <3>1. UNCHANGED <<shown, session>>
      BY <2>3 DEF Interpret, FailDerived, SaveDerivedQuestion, SaveDerivedAnswer, SaveLast, screen
    <3> QED
      BY <3>1
  <2> QED
    BY <2>1, <2>2, <2>3
<1> QED
  BY <1>1, <1>2, <1>3, <1>4, SourceBeside

\* What is entered is about the source of the conversation it is entered in,
\* unless that strays.
LEMMA SourceEntered ==
    ASSUME TypeInv, PlaceInv, SourceInv, ~strayed, ~early, ~Strays
    PROVE  /\ \A p \in Questions : Preparing(p) => Source = question[p].source
           /\ shown # 0 => Source = active \/ active = NoSource
<1>1. shown # 0 => Source = active \/ active = NoSource
  BY DEF Strays, Source
<1>2. ASSUME NEW p \in Questions, Preparing(p) PROVE Source = question[p].source
  <2>1. shown # 0 /\ active = question[p].source
    BY <1>2 DEF PlaceInv, SourceInv
  <2>2. AskedOk(question[p], Len(session), Len(chat)) /\ question[p].at # "unasked"
    BY <1>2 DEF TypeInv, UnderWayInv, Preparing
  <2>3. active # NoSource
    BY <2>1, <2>2, SourceAssumption DEF AskedOk
  <2> QED
    BY <1>1, <2>1, <2>3
<1> QED
  BY <1>1, <1>2

LEMMA SubmitSource ==
    ASSUME TypeInv, TypeInv', PlaceInv, SourceInv, NEW q \in Questions, Submit(q)
    PROVE  SourceInv'
<1> DEFINE m == [Unasked EXCEPT !.at = "token", !.source = Source, !.session = Container]
<1>1. /\ question' = [question EXCEPT ![q] = m] /\ shown' = Container /\ Room
      /\ early' = early /\ strayed' = (strayed \/ Strays) /\ active' = Source /\ chat' = chat
      /\ question[q].at = "unasked"
  BY DEF Submit, IsNext
<1>2. m.source = Source
  BY DEF Unasked
<1> HIDE DEF m
<1>3. question'[q] = m /\ \A p \in Questions : p # q => question'[p] = question[p]
  BY <1>1, UserFields
<1>4. /\ shown # 0 => Container = shown /\ Sessions = session
      /\ shown = 0 => Sessions[Container].chat = 0
  BY <1>1, ContainerThere
<1>5. session'[Container].chat \in {0, Sessions[Container].chat}
  BY SubmitPushes
<1>6. SameQuestions(chat') /\ DOMAIN chat = 1..Len(chat)
  BY <1>1, UserFields DEF SameQuestions
<1>7. \A p \in Questions : question[p].at # "unasked" => question'[p].source = question[p].source
  BY <1>1, <1>3
<1>8. ASSUME ~(strayed' \/ early')
      PROVE  /\ \A p \in Questions : Preparing(p)' => active' = question'[p].source
             /\ \/ shown' = 0 \/ session'[shown'].chat \notin DOMAIN chat
                \/ /\ shown # 0 /\ session'[shown'].chat = session[shown].chat
                   /\ active' = active \/ active = NoSource
  <2>1. /\ \A p \in Questions : Preparing(p) => Source = question[p].source
        /\ shown # 0 => Source = active \/ active = NoSource
    BY <1>1, <1>8, SourceEntered
  <2>2. ASSUME NEW p \in Questions, Preparing(p)' PROVE active' = question'[p].source
    <3>1. CASE p = q
      BY <1>1, <1>2, <1>3, <3>1
    <3>2. CASE p # q
      BY <1>1, <1>3, <2>1, <2>2, <3>2 DEF Preparing
    <3> QED
      BY <3>1, <3>2
  <2>3. \/ session'[shown'].chat \notin DOMAIN chat
        \/ shown # 0 /\ session'[shown'].chat = session[shown].chat
    BY <1>1, <1>4, <1>5, <1>6
  <2> QED
    BY <1>1, <2>1, <2>2, <2>3
<1> QED
  BY <1>1, <1>6, <1>7, <1>8, SourceKept

LEMMA AppendReplySource ==
    ASSUME TypeInv, TypeInv', PlaceInv, SourceInv, NEW r \in Replies, AppendReply(r)
    PROVE  SourceInv'
<1>1. /\ question' = question /\ shown' = Container /\ Room
      /\ early' = early /\ strayed' = (strayed \/ Strays) /\ active' = Source /\ chat' = chat
  BY DEF AppendReply
<1>2. /\ shown # 0 => Container = shown /\ Sessions = session
      /\ shown = 0 => Sessions[Container].chat = 0
      /\ Container \in DOMAIN Sessions
  BY <1>1, ContainerThere
<1>3. session'[Container].chat = Sessions[Container].chat
  BY <1>2, ReplyPushes
<1>4. SameQuestions(chat') /\ DOMAIN chat = 1..Len(chat)
  BY <1>1, UserFields DEF SameQuestions
<1>5. ASSUME ~(strayed' \/ early')
      PROVE  /\ \A p \in Questions : Preparing(p)' => active' = question'[p].source
             /\ \/ shown' = 0 \/ session'[shown'].chat \notin DOMAIN chat
                \/ /\ shown # 0 /\ session'[shown'].chat = session[shown].chat
                   /\ active' = active \/ active = NoSource
  <2>1. /\ \A p \in Questions : Preparing(p) => Source = question[p].source
        /\ shown # 0 => Source = active \/ active = NoSource
    BY <1>1, <1>5, SourceEntered
  <2>2. \A p \in Questions : Preparing(p)' => active' = question'[p].source
    BY <1>1, <2>1 DEF Preparing
  <2>3. \/ session'[shown'].chat \notin DOMAIN chat
        \/ shown # 0 /\ session'[shown'].chat = session[shown].chat
    BY <1>1, <1>2, <1>3, <1>4
  <2> QED
    BY <1>1, <2>1, <2>2, <2>3
<1> QED
  BY <1>1, <1>4, <1>5, SourceKept

LEMMA ReplySource ==
    ASSUME TypeInv, TypeInv', SourceInv, NEW r \in Replies,
           TokenForReply(r) \/ StartForReply(r) \/ PostReply(r) \/ FailReply(r)
    PROVE  SourceInv'
<1>1. UNCHANGED <<question, strayed, early, active>>
  BY DEF TokenForReply, StartForReply, PostReply, FailReply, Around, ghosts
<1>2. \A q \in Questions :
         question'[q].source = question[q].source /\ (Preparing(q)' => Preparing(q))
  BY <1>1 DEF Preparing
<1>3. CASE TokenForReply(r)
  <2>1. /\ shown' = Container /\ session' = Sessions /\ Room /\ chat' = chat
    BY <1>3 DEF TokenForReply, SaveReply
  <2>2. /\ shown # 0 => Sessions = session /\ Container = shown
        /\ shown = 0 => Sessions[Container].chat = 0
    BY <2>1, ContainerThere
  <2>3. SameQuestions(chat') /\ DOMAIN chat = 1..Len(chat)
    BY <2>1, UserFields DEF SameQuestions
  <2>4. \/ session'[shown'].chat \notin DOMAIN chat
        \/ shown # 0 /\ session'[shown'].chat = session[shown].chat
    BY <2>1, <2>2, <2>3
  <2> QED
    BY <1>1, <1>2, <2>3, <2>4, SourceBeside
<1>4. CASE StartForReply(r)
  <2>1. /\ reply[r].target \in DOMAIN session /\ reply[r].source \in Sources
        /\ Len(chat) < MaxChats
    BY <1>4, ReplyFields DEF StartForReply, ReplyOk
  <2>2. /\ session' = [session EXCEPT ![reply[r].target].chat = Len(chat) + 1]
        /\ shown' = shown /\ chat' = Started(reply[r].source)
    BY <1>4 DEF StartForReply, SaveReply
  <2>3. SameQuestions(chat') /\ DOMAIN chat = 1..Len(chat) /\ Len(chat) \in Nat
    BY <2>1, <2>2, StartedType, UserFields
  <2>4. \A t \in DOMAIN session :
           session'[t].chat = IF t = reply[r].target THEN Len(chat) + 1 ELSE session[t].chat
    BY <2>1, <2>2, StartedSession
  <2>5. shown # 0 => \/ session'[shown'].chat \notin DOMAIN chat
                     \/ session'[shown'].chat = session[shown].chat
    <3>1. Len(chat) + 1 \notin DOMAIN chat /\ (shown # 0 => shown \in DOMAIN session)
      BY <2>3, UserFields
    <3> QED
      BY <2>2, <2>4, <3>1
  <2> QED
    BY <1>1, <1>2, <2>2, <2>3, <2>5, SourceBeside
<1>5. CASE PostReply(r)
  <2>1. /\ reply[r].chat \in DOMAIN chat
        /\ chat' = Logged(chat, reply[r].chat, NewEntry("reply", r))
        /\ UNCHANGED <<shown, session>>
    BY <1>5, ReplyFields, UserFields DEF PostReply, ReplyOk
  <2>2. SameQuestions(chat')
    BY <2>1, ReplyLogged
  <2> QED
    BY <1>1, <1>2, <2>1, <2>2, SourceBeside
<1>6. CASE FailReply(r)
  <2>1. UNCHANGED <<shown, session, chat>>
    BY <1>6 DEF FailReply
  <2>2. SameQuestions(chat')
    BY <2>1, UserFields DEF SameQuestions
  <2> QED
    BY <1>1, <1>2, <2>1, <2>2, SourceBeside
<1> QED
  BY <1>3, <1>4, <1>5, <1>6

LEMMA AbortSource ==
    ASSUME TypeInv, TypeInv', PlaceInv, SourceInv, Abort, chat' = chat,
           UNCHANGED <<strayed, early>>,
           UNCHANGED <<shown, active>> \/ (shown' = 0 /\ OnScreen = <<>>)
    PROVE  SourceInv'
<1>1. \A q \in Questions :
         question'[q].source = question[q].source /\ (Preparing(q)' => Preparing(q))
  BY AbortShape DEF Preparing
<1>2. SameQuestions(chat')
  BY UserFields DEF SameQuestions
<1>3. CASE UNCHANGED <<shown, active>>
  <2>1. Later(session, session', Len(chat))
    BY UserFields, ClosedType DEF Abort
  <2>2. shown # 0 => session'[shown].chat = session[shown].chat
    BY <2>1, UserFields DEF Later
  <2> QED
    BY <1>1, <1>2, <1>3, <2>2, SourceBeside
<1>4. CASE shown' = 0 /\ OnScreen = <<>>
  <2>1. early \/ \A q \in Questions : ~Preparing(q)
    BY <1>4 DEF PlaceInv, OnScreen
  <2> QED
    BY <1>1, <1>2, <1>4, <2>1, SourceKept
<1> QED
  BY <1>3, <1>4

LEMMA OpenedSource ==
    ASSUME TypeInv, TypeInv', SourceInv, NEW v \in Openings, Opened(v)
    PROVE  SourceInv'
<1> DEFINE c == opening[v].chat
           fresh == [chat |-> c, records |-> Kept(c)]
<1>1. /\ opening[v].at = "open" /\ session' = Append(session, fresh)
      /\ active' = SourceOf(c) /\ shown' = Len(session) + 1
      /\ early' = (early \/ \E q \in Questions : Preparing(q))
      /\ UNCHANGED <<question, chat, strayed>>
  BY DEF Opened
<1>2. c \in DOMAIN chat /\ session \in Seq(SessionSet(Len(chat)))
  BY <1>1, UserFields DEF TypeInv, UnderWayInv, CallOk
<1>3. /\ fresh \in SessionSet(Len(chat)) /\ fresh.chat = c
      /\ QuestionsIn(chat[c].log) # {} =>
            \E n \in QuestionsIn(chat[c].log) : SourceOf(c) = question[n].source
  BY <1>2, KeptType, SourceOfType
<1> HIDE DEF c, fresh
<1>4. session'[shown'].chat = c
  <2>1. session'[Len(session) + 1] = fresh
    BY <1>1, <1>2, <1>3, AppendProperties
  <2> QED
    BY <1>1, <1>3, <2>1
<1>5. CASE strayed' \/ early'
  BY <1>5 DEF SourceInv
<1>6. CASE ~(strayed' \/ early')
  <2>1. /\ \A q \in Questions : ~Preparing(q)
        /\ \A d \in DOMAIN chat : \A n, m \in QuestionsIn(chat[d].log) :
              question[n].source = question[m].source
    BY <1>1, <1>6 DEF SourceInv
  <2>2. \A n \in QuestionsIn(chat[c].log) : question[n].source = active'
    BY <1>1, <1>2, <1>3, <2>1
  <2>3. \A q \in Questions : ~Preparing(q)'
    BY <1>1, <2>1 DEF Preparing
  <2> QED
    BY <1>1, <1>4, <2>1, <2>2, <2>3 DEF SourceInv
<1> QED
  BY <1>5, <1>6

\* The screen is emptied, or the conversation loses its chat, under nothing that
\* is prepared.
LEMMA EarlySource ==
    ASSUME TypeInv, TypeInv', SourceInv, UNCHANGED <<question, strayed>>,
           early' = (early \/ \E q \in Questions : Preparing(q)),
           SameQuestions(chat'), shown' = 0 \/ session'[shown'].chat = 0
    PROVE  SourceInv'
<1>1. strayed' \/ early' \/ \A q \in Questions : Preparing(q)' => active' = question'[q].source
  BY DEF Preparing
<1>2. shown' = 0 \/ session'[shown'].chat \notin DOMAIN chat
  BY UserFields
<1> QED
  BY <1>1, <1>2, SourceKept

LEMMA DeletedSource ==
    ASSUME TypeInv, TypeInv', SourceInv, NEW x \in Deletions, Deleted(x)
    PROVE  SourceInv'
<1>1. SameQuestions(chat')
  BY DeletedChats
<1>2. UNCHANGED <<question, strayed, session>>
  BY DEF Deleted
<1>3. CASE shown' = 0 /\ early' = (early \/ \E q \in Questions : Preparing(q))
  BY <1>1, <1>2, <1>3, EarlySource
<1>4. CASE UNCHANGED <<shown, active, early>>
  <2>1. \A q \in Questions :
           question'[q].source = question[q].source /\ (Preparing(q)' => Preparing(q))
    BY <1>2 DEF Preparing
  <2> QED
    BY <1>1, <1>2, <1>4, <2>1, SourceBeside
<1> QED
  BY <1>3, <1>4 DEF Deleted

LEMMA SwitchSource ==
    ASSUME TypeInv, TypeInv', SourceInv, NEW s \in Sources, Switch(s)
    PROVE  SourceInv'
<1>1. /\ UNCHANGED <<question, strayed, shown, chat>>
      /\ early' = (early \/ \E q \in Questions : Preparing(q))
  BY DEF Switch
<1>2. session'[shown'].chat = 0
  BY <1>1, SwitchShape
<1>3. SameQuestions(chat')
  BY <1>1, UserFields DEF SameQuestions
<1> QED
  BY <1>1, <1>2, <1>3, EarlySource

LEMMA SourceStep == TypeInv /\ PlaceInv /\ SourceInv /\ [Next]_vars => SourceInv'
<1> SUFFICES ASSUME TypeInv, PlaceInv, SourceInv, [Next]_vars PROVE SourceInv'
  OBVIOUS
<1>0. TypeInv'
  BY TypeStep
<1>1. ASSUME UNCHANGED <<question, strayed, early, active, shown, session, chat>>
      PROVE  SourceInv'
  BY <1>1 DEF SourceInv, Preparing
<1>2. ASSUME NEW q \in Questions,
             TokenForQuestion(q) \/ StartForQuestion(q) \/ PostForQuestion(q)
      PROVE  SourceInv'
  BY <1>0, <1>2, TokenForQuestionShape, StartForQuestionShape, PostForQuestionShape,
     SendsSource, BeginsSource
<1>3. CASE GoHome \/ ResetConversation
  BY <1>0, <1>3, AbortSource DEF GoHome, ResetConversation, ghosts
<1>4. ASSUME NEW v \in Openings, NEW c \in DOMAIN chat, Open(v, c) PROVE SourceInv'
  BY <1>0, <1>4, AbortSource DEF Open, ghosts
<1>5. ASSUME NEW v \in Openings, OpeningFails(v) PROVE SourceInv'
  <2>1. /\ shown' = 0 /\ UNCHANGED <<question, strayed, chat>>
        /\ early' = (early \/ \E q \in Questions : Preparing(q))
    BY <1>5 DEF OpeningFails
  <2>2. SameQuestions(chat')
    BY <2>1, UserFields DEF SameQuestions
  <2> QED
    BY <1>0, <2>1, <2>2, EarlySource
<1>6. ASSUME NEW x \in Deletions, (\E c \in DOMAIN chat : Delete(x, c)) \/ DeletionFails(x)
      PROVE  SourceInv'
  BY <1>1, <1>6 DEF Delete, DeletionFails, ghosts, screen
<1>7. ASSUME NEW s \in Sources, Choose(s) PROVE SourceInv'
  BY <1>1, <1>7 DEF Choose, ghosts
<1>8. CASE UNCHANGED vars
  BY <1>1, <1>8 DEF vars, screen, ghosts
<1> QED
  BY <1>0, <1>2, <1>3, <1>4, <1>5, <1>6, <1>7, <1>8, SubmitSource, QuestionSource,
     DerivedSource, AppendReplySource, ReplySource, OpenedSource, DeletedSource,
     SwitchSource DEF Next

\* The questions sent in one chat are all about the same source, whatever is
\* switched, opened, aborted or started twice in between; excepted are a source
\* brought in from the home page without a switch, and another conversation or
\* source that comes under a question not yet sent.
THEOREM OneSourceInAChat == Spec => []OneSourcePerChat
<1>1. Init => PlaceInv /\ SourceInv
  BY EmptySeq DEF Init, PlaceInv, SourceInv, Preparing, Unasked
<1>2. TypeInv /\ SourceInv => OneSourcePerChat
  <2> SUFFICES ASSUME TypeInv, SourceInv, ~strayed, ~early, NEW c \in DOMAIN chat
               PROVE  OneSourceOf(c)
    BY DEF OneSourcePerChat
  <2>1. SourcesOf(c) = {question[n].source : n \in QuestionsIn(chat[c].log)}
    BY DEF SourcesOf, QuestionsIn
  <2>2. \A s, t \in SourcesOf(c) : s = t
    BY <2>1 DEF SourceInv
  <2>3. CASE SourcesOf(c) = {}
    BY <2>3, FS_EmptySet DEF OneSourceOf
  <2>4. CASE SourcesOf(c) # {}
    <3>1. PICK s \in SourcesOf(c) : TRUE
      BY <2>4
    <3>2. SourcesOf(c) = {s}
      BY <2>2, <3>1
    <3>3. Cardinality({s}) = 1
      BY FS_Singleton
    <3> QED
      BY <3>2, <3>3 DEF OneSourceOf
  <2> QED
    BY <2>3, <2>4
<1>3. Spec => [](PlaceInv /\ SourceInv)
  BY <1>1, TypesHold, PlaceStep, SourceStep, PTL DEF Spec
<1> QED
  BY <1>2, <1>3, TypesHold, PTL

====
