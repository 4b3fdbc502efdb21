----------------------------- MODULE EditorProofs -----------------------------
(***************************************************************************)
(* The properties of Editor, for any number of saves under way and any     *)
(* bounds on edits, versions and moves.                                    *)
(*                                                                         *)
(* HistoryShowsCanvas and CleanMeansSaved only need the types and where    *)
(* the history is empty.  The two properties of the check for changes of   *)
(* others need to know where a version came from: VersionInv.              *)
(***************************************************************************)
EXTENDS Editor, SequenceTheorems, TLAPS

Used == [edits : 0..MaxEdits, versions : 0..MaxSaves, moves : 0..MaxMoves]

TypeInv == TypeOK /\ used \in Used

LEMMA FreshType == Fresh \in Page
BY BoundAssumption DEF Fresh, Page, Contents, Versions

LEMMA NoSaveType == NoSave \in Save
BY BoundAssumption DEF NoSave, Save, Contents, Versions

LEMMA RecordType ==
    ASSUME NEW p \in Page, p.index \in 0..Len(p.snaps)
    PROVE  /\ Record(p) \in Page
           /\ Record(p).index = p.index + 1
           /\ Record(p).snaps \in Seq(Contents)
           /\ Len(Record(p).snaps) = p.index + 1
           /\ Record(p).snaps[p.index + 1] = p.content
<1>1. p.snaps \in Seq(Contents) /\ p.content \in Contents /\ p.index \in Nat
  BY DEF Page
<1> DEFINE kept == SubSeq(p.snaps, 1, p.index)
<1>2. kept \in Seq(Contents) /\ Len(kept) = p.index
  BY <1>1, SubSeqProperties
<1> HIDE DEF kept
<1>3. /\ Append(kept, p.content) \in Seq(Contents)
      /\ Len(Append(kept, p.content)) = p.index + 1
      /\ Append(kept, p.content)[p.index + 1] = p.content
  BY <1>1, <1>2, AppendProperties
<1> DEFINE grown == Append(kept, p.content)
<1>4. Record(p) = [p EXCEPT !.times = More(p.times), !.cached = FALSE, !.late = FALSE,
                            !.index = p.index + 1, !.snaps = grown]
  BY DEF Record, kept
<1>5. More(p.times) \in -1..1
  BY DEF More, Page
<1>6. grown \in Seq(Contents) /\ Len(grown) = p.index + 1
      /\ grown[p.index + 1] = p.content
  BY <1>3
<1> HIDE DEF grown
<1>7. p.index + 1 \in Nat
  BY <1>1
<1>8. Record(p) \in Page
  BY <1>4, <1>5, <1>6, <1>7 DEF Page
<1>9. Record(p).index = p.index + 1 /\ Record(p).snaps = grown
  BY <1>4 DEF Page
<1> QED
  BY <1>6, <1>8, <1>9

\* The type of a save goes through Put.
LEMMA PutType ==
    ASSUME TypeInv, NEW o \in Ops, NEW s \in Save, Put(o, s)
    PROVE  save' \in [Ops -> Save]
BY DEF TypeInv, TypeOK, Put

LEMMA PostType ==
    ASSUME TypeInv, NEW o \in Ops, NEW publish \in BOOLEAN,
           NEW way \in {"none", "checked", "confirmed", "unchecked"},
           Post(o, way, publish)
    PROVE  save' \in [Ops -> Save] /\ used' \in Used
<1>1. used.versions \in 0..MaxSaves /\ used.versions < MaxSaves
      /\ used' = [used EXCEPT !.versions = @ + 1]
  BY DEF Post, TypeInv, Used
<1>2. used' \in Used /\ used.versions + 1 \in Versions
  BY <1>1, BoundAssumption DEF TypeInv, Used, Versions
<1> DEFINE s == [pc |-> "posting", publish |-> publish,
                 sent |-> 0, seen |-> server.version, way |-> way,
                 body |-> page.content, new |-> used.versions + 1, root |-> page.root]
<1>3. s \in Save
  BY <1>2, BoundAssumption DEF TypeInv, TypeOK, Save, Page, Versions
<1>4. Put(o, s)
  BY DEF Post
<1> QED
  BY <1>2, <1>3, <1>4, PutType

LEMMA SaveResourceType ==
    ASSUME TypeInv, NEW o \in Ops,
           NEW way \in {"none", "checked", "confirmed", "unchecked"},
           SaveResource(o, way)
    PROVE  /\ draft' \in Draft /\ page' \in Page
           /\ page'.index = page.index /\ page'.snaps = page.snaps
           /\ save' \in [Ops -> Save] /\ used' \in Used
<1>1. draft' = NoDraft /\ page' = [page EXCEPT !.bare = TRUE]
  BY DEF SaveResource
<1>2. page \in Page
  BY DEF TypeInv, TypeOK
<1>3. page' \in Page /\ page'.index = page.index /\ page'.snaps = page.snaps
  BY <1>1, <1>2 DEF Page
<1>4. draft' \in Draft
  BY <1>1 DEF Draft
<1>5. CASE Post(o, way, save[o].publish)
  <2>1. save[o].publish \in BOOLEAN
    BY DEF TypeInv, TypeOK, Save
  <2> QED
    BY <1>3, <1>4, <1>5, <2>1, PostType
<1>6. CASE End(o) /\ UNCHANGED used
  BY <1>3, <1>4, <1>6, NoSaveType, PutType DEF End, TypeInv
<1> QED
  BY <1>5, <1>6 DEF SaveResource

LEMMA MoveType ==
    ASSUME TypeInv, NEW i \in Int, Move(i)
    PROVE  TypeInv'
<1>1. page \in Page /\ i \in 1..Len(page.snaps) /\ i \in Nat
  BY DEF TypeInv, TypeOK, Move
<1>2. page.snaps \in Seq(Contents) /\ page.snaps[i] \in Contents
  BY <1>1, ElementOfSeq DEF Page
<1>3. More(page.times) \in -1..1
  BY <1>1 DEF More, Page
<1>4. page' = [page EXCEPT !.index = i, !.content = page.snaps[i],
                           !.times = More(page.times), !.frozen = TRUE]
  BY DEF Move
<1>5. page' \in Page /\ page'.index = i /\ page'.snaps = page.snaps
  BY <1>1, <1>2, <1>3, <1>4 DEF Page
<1>6. used' \in Used
  BY BoundAssumption DEF Move, TypeInv, Used
<1> QED
  BY <1>1, <1>5, <1>6 DEF TypeInv, TypeOK, Move

\* A step that gives the page any page with an index in its history keeps the
\* types, if it keeps the types of the rest.
LEMMA TypeParts ==
    ASSUME TypeInv,
           server' \in [content : Contents, version : Versions, own : BOOLEAN],
           draft' \in Draft, page' \in Page, page'.index \in 0..Len(page'.snaps),
           save' \in [Ops -> Save], phantoms' \subseteq Versions, used' \in Used
    PROVE  TypeInv'
BY DEF TypeInv, TypeOK

LEMMA TypeStep == TypeInv /\ [Next]_vars => TypeInv'
<1> SUFFICES ASSUME TypeInv, [Next]_vars PROVE TypeInv'
  OBVIOUS
<1> USE BoundAssumption
<1>1. /\ server \in [content : Contents, version : Versions, own : BOOLEAN]
      /\ draft \in Draft /\ page \in Page /\ page.index \in 0..Len(page.snaps)
      /\ save \in [Ops -> Save] /\ phantoms \subseteq Versions /\ used \in Used
  BY DEF TypeInv, TypeOK
<1>2. <<>> \in Seq(Contents) /\ Len(<<>>) = 0
  OBVIOUS
<1>3. /\ Fresh.index = 0 /\ Fresh.snaps = <<>>
      /\ [Fresh EXCEPT !.frozen = page.frozen] \in Page
      /\ [Fresh EXCEPT !.frozen = page.frozen].index = 0
      /\ [Fresh EXCEPT !.frozen = page.frozen].snaps = <<>>
  BY <1>1, FreshType DEF Fresh, Page
<1>30. 0 \in -1..1 /\ -1 \in -1..1
  OBVIOUS
<1>29. /\ InitSnapShot(page) \in Page
       /\ InitSnapShot(page).index = 0 /\ InitSnapShot(page).snaps = <<>>
  BY <1>1, <1>2, <1>30 DEF InitSnapShot, Page
<1>4. CASE OpenEditor
  <2>1. page' \in Page /\ page'.index = 0 /\ page'.snaps = <<>>
    <3>1. PICK f \in {"opening", "asking"} :
             page' = [InitSnapShot(page) EXCEPT !.phase = f]
      BY <1>4 DEF OpenEditor
    <3> QED
      BY <1>29, <3>1 DEF Page
  <2> QED
    BY <1>1, <1>2, <1>4, <2>1, TypeParts DEF OpenEditor
<1>5. CASE UseDraft
  <2>1. draft.content \in Contents /\ draft.version \in Versions /\ draft.root \in Versions
    BY <1>1, <1>5 DEF UseDraft, Draft
  <2>2. page' \in Page /\ page'.index = page.index /\ page'.snaps = page.snaps
    BY <1>1, <1>5, <2>1 DEF UseDraft, Page
  <2> QED
    BY <1>1, <1>5, <2>2, TypeParts DEF UseDraft
<1>6. CASE RefuseDraft
  <2>1. page' \in Page /\ page'.index = page.index /\ page'.snaps = page.snaps
    BY <1>1, <1>6 DEF RefuseDraft, Page
  <2> QED
    BY <1>1, <1>6, <2>1, TypeParts DEF RefuseDraft, Draft
<1>7. CASE Loaded
  <2>1. page' \in Page /\ page'.index = page.index /\ page'.snaps = page.snaps
    BY <1>1, <1>7 DEF Loaded, Page
  <2> QED
    BY <1>1, <1>7, <2>1, TypeParts DEF Loaded
<1>8. CASE MarkRecovered
  <2>1. page' \in Page /\ page'.index = page.index /\ page'.snaps = page.snaps
    BY <1>1, <1>8 DEF MarkRecovered, Page
  <2> QED
    BY <1>1, <1>8, <2>1, TypeParts DEF MarkRecovered
<1>9. CASE Edit
  <2>1. used.edits + 1 \in Contents /\ used' \in Used
    BY <1>1, <1>9 DEF Edit, Used, Contents
  <2>2. page' \in Page /\ page'.index = page.index /\ page'.snaps = page.snaps
    BY <1>1, <1>9, <2>1 DEF Edit, Page
  <2> QED
    BY <1>1, <1>9, <2>1, <2>2, TypeParts DEF Edit
<1>10. CASE Tick
  <2> DEFINE p == Record(page)
  <2>1. p \in Page /\ p.index \in 0..Len(p.snaps)
    BY <1>1, RecordType DEF Page
  <2>2. page' \in Page /\ page'.index = p.index /\ page'.snaps = p.snaps
    <3> HIDE DEF p
    <3>1. page' = p \/ page' = [p EXCEPT !.bare = FALSE]
      BY <1>10 DEF Tick, p
    <3> QED
      BY <2>1, <3>1 DEF Page
  <2>3. DraftOf(p) \in Draft
    BY <2>1 DEF DraftOf, Draft, Page
  <2>4. draft' \in Draft
    BY <1>1, <1>10, <2>3 DEF Tick
  <2> QED
    BY <1>1, <1>10, <2>1, <2>2, <2>4, TypeParts DEF Tick
<1>11. CASE Undo \/ Redo
  <2>1. page.index - 1 \in Int /\ page.index + 1 \in Int
    BY <1>1
  <2> QED
    BY <1>11, <2>1, MoveType DEF Undo, Redo
<1>12. CASE Thaw
  <2>1. page' \in Page /\ page'.index = page.index /\ page'.snaps = page.snaps
    BY <1>1, <1>12 DEF Thaw, Page
  <2> QED
    BY <1>1, <1>12, <2>1, TypeParts DEF Thaw
<1>13. CASE \E o \in Ops, publish \in BOOLEAN : SaveCanvasWithCheck(o, publish)
  <2>1. PICK o \in Ops, publish \in BOOLEAN : SaveCanvasWithCheck(o, publish)
    BY <1>13
  <2> DEFINE s == [NoSave EXCEPT !.pc = "checking", !.publish = publish,
                                 !.sent = page.version, !.root = page.root]
  <2>2. s \in Save
    BY <1>1, NoSaveType DEF Save, Page
  <2>3. save' \in [Ops -> Save]
    BY <2>1, <2>2, PutType DEF SaveCanvasWithCheck
  <2> QED
    BY <1>1, <2>1, <2>3, TypeParts DEF SaveCanvasWithCheck
<1>14. ASSUME NEW o \in Ops, CheckPassed(o) \/ CheckBroken(o) \/ Confirm(o)
       PROVE  TypeInv'
  <2>1. PICK way \in {"none", "checked", "confirmed", "unchecked"} : SaveResource(o, way)
    BY <1>14 DEF CheckPassed, CheckBroken, Confirm
  <2>2. UNCHANGED <<server, phantoms>>
    BY <1>14 DEF CheckPassed, CheckBroken, Confirm
  <2> QED
    BY <1>1, <2>1, <2>2, SaveResourceType, TypeParts
<1>15. ASSUME NEW o \in Ops, CheckRepeat(o)
       PROVE  TypeInv'
  <2>1. [save[o] EXCEPT !.pc = "asking"] \in Save
    BY <1>1 DEF Save
  <2> QED
    BY <1>1, <1>15, <2>1, PutType, TypeParts DEF CheckRepeat
<1>16. ASSUME NEW o \in Ops, Decline(o) \/ Refused(o)
       PROVE  TypeInv'
  <2>1. End(o) /\ UNCHANGED <<server, draft, page, used, phantoms>>
    BY <1>16 DEF Decline, Refused
  <2> QED
    BY <1>1, <2>1, NoSaveType, PutType, TypeParts DEF End
<1>17. ASSUME NEW o \in Ops, PreviewOuter(o)
       PROVE  TypeInv'
  <2>1. Post(o, "unchecked", FALSE) /\ UNCHANGED <<server, draft, page, phantoms>>
    BY <1>17 DEF PreviewOuter
  <2> QED
    BY <1>1, <2>1, PostType, TypeParts
<1>18. ASSUME NEW o \in Ops, Store(o)
       PROVE  TypeInv'
  <2>1. server' \in [content : Contents, version : Versions, own : BOOLEAN]
    BY <1>1, <1>18 DEF Store, Save
  <2>2. [save[o] EXCEPT !.pc = "stored"] \in Save
    BY <1>1 DEF Save
  <2>3. save' \in [Ops -> Save]
    BY <1>18, <2>2, NoSaveType, PutType DEF Store, End
  <2> QED
    BY <1>1, <1>18, <2>1, <2>3, TypeParts DEF Store
<1>19. ASSUME NEW o \in Ops, GoOn(o)
       PROVE  save' \in [Ops -> Save]
  <2>1. [NoSave EXCEPT !.pc = "publishing"] \in Save
    BY NoSaveType DEF Save
  <2> QED
    BY <1>19, <2>1, NoSaveType, PutType DEF GoOn, End
<1>20. ASSUME NEW o \in Ops, Answered(o)
       PROVE  TypeInv'
  <2>1. save[o].new \in Versions /\ save[o].body \in Contents
    BY <1>1 DEF Save
  <2>2. Newer(page.root, save[o].new) \in Versions
    BY <1>1, <2>1 DEF Newer, Page
  <2> DEFINE late == page.late \/ page.cached \/ page.content # save[o].body
             root == Newer(page.root, save[o].new)
  <2>3. late \in BOOLEAN
    OBVIOUS
  <2>4. page' \in Page /\ page'.index = page.index /\ page'.snaps = page.snaps
    <3>1. page' = [page EXCEPT !.version = save[o].new, !.root = root, !.times = 0,
                               !.cached = FALSE, !.clean = save[o].body, !.late = late]
      BY <1>20 DEF Answered
    <3> HIDE DEF late, root
    <3> QED
      BY <1>1, <1>30, <2>1, <2>2, <2>3, <3>1 DEF Page, root
  <2>5. phantoms' \subseteq Versions
    BY <1>1, <1>20, <2>1 DEF Answered
  <2> QED
    BY <1>1, <1>19, <1>20, <2>4, <2>5, TypeParts DEF Answered
<1>21. ASSUME NEW o \in Ops, AnsweredBroken(o)
       PROVE  TypeInv'
  <2>1. save[o].new \in Versions
    BY <1>1 DEF Save
  <2>2. page' \in Page /\ page'.index = page.index /\ page'.snaps = page.snaps
    <3>1. page' = [page EXCEPT !.version = save[o].new, !.times = 0,
                               !.cached = FALSE, !.late = TRUE]
      BY <1>21 DEF AnsweredBroken
    <3> QED
      BY <1>1, <1>30, <2>1, <3>1 DEF Page
  <2>3. phantoms' \subseteq Versions
    BY <1>1, <1>21, <2>1 DEF AnsweredBroken
  <2> QED
    BY <1>1, <1>19, <1>21, <2>2, <2>3, TypeParts DEF AnsweredBroken
<1>22. ASSUME NEW o \in Ops, Published(o)
       PROVE  TypeInv'
  <2> DEFINE late == InitSnapShot(page).late \/ page.cached
                     \/ page.content # page.clean
  <2>1. late \in BOOLEAN
    OBVIOUS
  <2>2. page' \in Page /\ page'.index = 0 /\ page'.snaps = <<>>
    <3>1. page' = [InitSnapShot(page) EXCEPT !.late = late]
      BY <1>22 DEF Published
    <3> HIDE DEF late
    <3> QED
      BY <1>29, <2>1, <3>1 DEF Page
  <2>3. save' \in [Ops -> Save]
    BY <1>22, NoSaveType, PutType DEF Published, End
  <2> QED
    BY <1>1, <1>2, <1>22, <2>2, <2>3, TypeParts DEF Published
<1>23. CASE BackToMain
  BY <1>1, <1>2, <1>3, <1>23, TypeParts DEF BackToMain, Draft
<1>24. CASE Crash
  <2>1. \A o \in Ops : [save[o] EXCEPT !.pc = "lost"] \in Save
    BY <1>1 DEF Save
  <2>2. save' \in [Ops -> Save]
    BY <1>24, <2>1, NoSaveType DEF Crash
  <2> QED
    BY <1>1, <1>2, <1>3, <1>24, <2>2, FreshType, TypeParts DEF Crash
<1>25. CASE OtherSaves
  <2>1. /\ used.edits + 1 \in Contents /\ used.versions + 1 \in Versions
        /\ used' \in Used
    <3>1. used.edits \in 0..MaxEdits /\ used.versions \in 0..MaxSaves
      BY <1>1 DEF Used
    <3>2. used.edits + 1 \in Contents /\ used.versions + 1 \in Versions
      BY <1>25, <3>1 DEF OtherSaves, Contents, Versions
    <3>3. used' = [used EXCEPT !.edits = used.edits + 1,
                               !.versions = used.versions + 1]
      BY <1>25 DEF OtherSaves
    <3> QED
      BY <1>1, <3>2, <3>3 DEF Used, Contents, Versions
  <2> QED
    BY <1>1, <1>25, <2>1, TypeParts DEF OtherSaves
<1>26. CASE OtherRecords
  <2>1. used.edits + 1 \in Contents /\ used' \in Used
    BY <1>1, <1>26 DEF OtherRecords, Used, Contents
  <2>2. draft' \in Draft
    BY <1>1, <1>26, <2>1 DEF OtherRecords, Draft
  <2>3. page' \in Page /\ page'.index = page.index /\ page'.snaps = page.snaps
    BY <1>1, <1>26 DEF OtherRecords, Page
  <2> QED
    BY <1>1, <1>26, <2>1, <2>2, <2>3, TypeParts DEF OtherRecords
<1>27. CASE OtherDropsDraft
  <2>1. page' \in Page /\ page'.index = page.index /\ page'.snaps = page.snaps
    BY <1>1, <1>27 DEF OtherDropsDraft, Page
  <2> QED
    BY <1>1, <1>27, <2>1, TypeParts DEF OtherDropsDraft, Draft
<1>28. CASE UNCHANGED vars
  BY <1>1, <1>28, TypeParts DEF vars
<1> QED
  BY <1>4, <1>5, <1>6, <1>7, <1>8, <1>9, <1>10, <1>11, <1>12, <1>13, <1>14, <1>15,
     <1>16, <1>17, <1>18, <1>20, <1>21, <1>22, <1>23, <1>24, <1>25, <1>26, <1>27,
     <1>28
     DEF Next, User, Clock, Dialog, Reply

LEMMA TypeStart == Init => TypeInv
BY BoundAssumption, FreshType, NoSaveType
   DEF Init, TypeInv, TypeOK, Used, Fresh, Draft, Contents, Versions

\* Every field has its type and the undo index points into the history, whatever
\* the timers, the answers, other tabs and a crash do in between: snapshot.ts,
\* DbToolbar.vue, canvasUtils.ts.
THEOREM EditorTypes == Spec => []TypeOK
<1>1. TypeInv => TypeOK
  BY DEF TypeInv
<1> QED
  BY <1>1, TypeStart, TypeStep, PTL DEF Spec

-------------------------------------------------------------------------------
(* The history *)

\* A page that is not ready, or has counted nothing since it was opened, has no
\* history; a draft that nobody has touched is the last snapshot, whatever is
\* counted.
Unready == page.phase # "ready" => page.snaps = <<>>
Uncounted == page.times = -1 => page.snaps = <<>>
Guarded ==
    ~page.bare /\ Len(page.snaps) > 1
        => draft # NoDraft /\ draft.content = page.snaps[Len(page.snaps)]

HistInv ==
    Unready /\ Uncounted /\ HistoryShowsCanvas /\ CleanMeansSaved /\ Guarded

\* The page has no history.
LEMMA EmptyHistory ==
    ASSUME TypeInv', page'.snaps = <<>>
    PROVE  HistInv'
<1>1. page'.index = 0 /\ Len(page'.snaps) = 0
  BY DEF TypeInv, TypeOK
<1> QED
  BY <1>1 DEF HistInv, Unready, Uncounted, HistoryShowsCanvas, CleanMeansSaved, Guarded

\* A step that leaves the page and the draft alone.
LEMMA SameHistory ==
    ASSUME HistInv, UNCHANGED <<page, draft>>
    PROVE  HistInv'
BY DEF HistInv, Unready, Uncounted, HistoryShowsCanvas, CleanMeansSaved, Guarded, Ready

\* A step that only touches the mark, the counter and the draft.
LEMMA KeptHistory ==
    ASSUME TypeInv, TypeInv', HistInv,
           page'.snaps = page.snaps, page'.index = page.index,
           page'.phase = page.phase,
           page'.times # -1 \/ page'.times = page.times,
           \/ page'.cached
           \/ page'.late
           \/ /\ page'.content = page.content
              /\ page'.cached = page.cached /\ page'.late = page.late
              /\ page'.times = page.times /\ page'.clean = page.clean,
           page'.bare \/ (page'.bare = page.bare /\ draft' = draft)
    PROVE  HistInv'
<1>1. Unready' /\ Uncounted'
  BY DEF HistInv, Unready, Uncounted
<1>2. HistoryShowsCanvas' /\ CleanMeansSaved'
  BY DEF HistInv, HistoryShowsCanvas, CleanMeansSaved, Ready
<1>3. Guarded'
  BY DEF HistInv, Guarded
<1> QED
  BY <1>1, <1>2, <1>3 DEF HistInv

LEMMA HistStep == TypeInv /\ TypeInv' /\ HistInv /\ [Next]_vars => HistInv'
<1> SUFFICES ASSUME TypeInv, TypeInv', HistInv, [Next]_vars PROVE HistInv'
  OBVIOUS
<1>1. page \in Page /\ page' \in Page /\ page.index \in 0..Len(page.snaps)
  BY DEF TypeInv, TypeOK
<1>2. ~Ready => page.snaps = <<>>
  BY DEF HistInv, Unready, Ready
<1>3. CASE OpenEditor
  <2>1. page'.snaps = <<>>
    BY <1>1, <1>3 DEF OpenEditor, InitSnapShot, Page
  <2> QED
    BY <2>1, EmptyHistory
<1>4. CASE UseDraft \/ RefuseDraft \/ Loaded
  <2>1. page'.snaps = page.snaps /\ ~Ready
    BY <1>1, <1>4 DEF UseDraft, RefuseDraft, Loaded, Ready, Page
  <2> QED
    BY <1>2, <2>1, EmptyHistory
<1>5. CASE MarkRecovered
  <2>1. page' = [page EXCEPT !.marking = FALSE, !.cached = TRUE] /\ draft' = draft
    BY <1>5 DEF MarkRecovered
  <2> QED
    BY <1>1, <2>1, KeptHistory DEF Page
<1>6. CASE Edit
  <2>1. page' = [page EXCEPT !.content = used.edits + 1, !.cached = TRUE]
        /\ draft' = draft
    BY <1>6 DEF Edit
  <2> QED
    BY <1>1, <2>1, KeptHistory DEF Page
<1>7. CASE Tick
  <2> DEFINE p == Record(page)
  <2>1. /\ p \in Page /\ p.index = page.index + 1 /\ Len(p.snaps) = page.index + 1
        /\ p.snaps[page.index + 1] = page.content
    BY <1>1, RecordType
  <2>2. /\ p.content = page.content /\ p.phase = "ready"
        /\ p.times = More(page.times) /\ page.index \in Nat /\ Len(page.snaps) \in Nat
    BY <1>1, <1>7 DEF Record, Page, Tick, Ready
  <2>3. p.times \in 0..1 /\ (page.index > 0 => p.times = 1)
    <3>1. page.index > 0 => page.times # -1
      BY <1>1 DEF HistInv, Uncounted
    <3> QED
      BY <1>1, <2>2, <3>1 DEF More, Page
  <2>4. page' = p \/ page' = [p EXCEPT !.bare = FALSE]
    BY <1>7 DEF Tick
  <2>5. /\ page'.snaps = p.snaps /\ page'.index = p.index /\ page'.phase = p.phase
        /\ page'.content = p.content /\ page'.times = p.times
    <3> HIDE DEF p
    <3> QED
      BY <2>1, <2>4 DEF Page
  <2>6. Unready' /\ Uncounted' /\ HistoryShowsCanvas'
    <3> HIDE DEF p
    <3> QED
      BY <2>1, <2>2, <2>3, <2>5 DEF Unready, Uncounted, HistoryShowsCanvas
  <2>7. CleanMeansSaved'
    <3> HIDE DEF p
    <3> QED
      BY <2>1, <2>2, <2>3, <2>5 DEF CleanMeansSaved
  <2>8. Guarded'
    <3>1. Len(p.snaps) > 1 => draft' = DraftOf(p)
      BY <1>7 DEF Tick
    <3>2. DraftOf(p).content = p.content /\ (DraftOf(p) # NoDraft)
      <4> HIDE DEF p
      <4> QED
        BY <2>1 DEF DraftOf, NoDraft, Page, Contents
    <3> HIDE DEF p
    <3> QED
      BY <2>1, <2>2, <2>5, <3>1, <3>2 DEF Guarded
  <2> QED
    BY <2>6, <2>7, <2>8 DEF HistInv
<1>8. ASSUME NEW i \in Int, Move(i)
      PROVE  HistInv'
  <2>1. /\ page'.snaps = page.snaps /\ page'.index = i /\ page'.phase = "ready"
        /\ page'.content = page.snaps[i] /\ page'.times = More(page.times)
        /\ page'.bare = page.bare /\ draft' = draft
    BY <1>1, <1>8 DEF Move, Page, Keys, Ready
  <2>2. page.snaps # <<>>
    BY <1>8 DEF Move
  <2>3. page'.times = 1
    BY <1>1, <2>1, <2>2 DEF HistInv, Uncounted, More, Page
  <2> QED
    BY <2>1, <2>3
       DEF HistInv, Unready, Uncounted, HistoryShowsCanvas, CleanMeansSaved, Guarded
<1>9. CASE Undo \/ Redo
  <2>1. page.index - 1 \in Int /\ page.index + 1 \in Int
    BY <1>1
  <2> QED
    BY <1>8, <1>9, <2>1 DEF Undo, Redo
<1>10. CASE Thaw
  <2>1. page' = [page EXCEPT !.frozen = FALSE] /\ draft' = draft
    BY <1>10 DEF Thaw
  <2> QED
    BY <1>1, <2>1, KeptHistory DEF Page
<1>11. CASE \E o \in Ops, publish \in BOOLEAN : SaveCanvasWithCheck(o, publish)
  BY <1>11, SameHistory DEF SaveCanvasWithCheck
<1>12. ASSUME NEW o \in Ops, CheckPassed(o) \/ CheckBroken(o) \/ Confirm(o)
       PROVE  HistInv'
  <2>1. page' = [page EXCEPT !.bare = TRUE]
    BY <1>12 DEF CheckPassed, CheckBroken, Confirm, SaveResource
  <2> QED
    BY <1>1, <2>1, KeptHistory DEF Page
<1>13. ASSUME NEW o \in Ops,
              \/ CheckRepeat(o) \/ Decline(o) \/ Refused(o)
              \/ PreviewOuter(o) \/ Store(o)
       PROVE  HistInv'
  BY <1>13, SameHistory DEF CheckRepeat, Decline, Refused, PreviewOuter, Store
<1>14. ASSUME NEW o \in Ops, Answered(o)
       PROVE  HistInv'
  <2> DEFINE late == page.late \/ page.cached \/ page.content # save[o].body
             root == Newer(page.root, save[o].new)
  <2>1. page' = [page EXCEPT !.version = save[o].new, !.root = root, !.times = 0,
                             !.cached = FALSE, !.clean = save[o].body, !.late = late]
        /\ draft' = draft
    BY <1>14 DEF Answered
  <2>2. /\ page'.snaps = page.snaps /\ page'.index = page.index
        /\ page'.phase = page.phase /\ page'.times = 0 /\ page'.bare = page.bare
        /\ page'.content = page.content /\ page'.clean = save[o].body
        /\ page'.late = late
    <3> HIDE DEF late, root
    <3> QED
      BY <1>1, <2>1 DEF Page
  <2>3. Unready' /\ Uncounted' /\ Guarded'
    BY <2>1, <2>2 DEF HistInv, Unready, Uncounted, Guarded
  <2>4. ~page'.late => ~page.late /\ ~page.cached /\ page'.content = page'.clean
    BY <2>2
  <2>5. HistoryShowsCanvas' /\ CleanMeansSaved'
    <3> HIDE DEF late
    <3> QED
      BY <2>2, <2>4 DEF HistInv, HistoryShowsCanvas, CleanMeansSaved, Ready
  <2> QED
    BY <2>3, <2>5 DEF HistInv
<1>15. ASSUME NEW o \in Ops, AnsweredBroken(o)
       PROVE  HistInv'
  <2>1. page' = [page EXCEPT !.version = save[o].new, !.times = 0,
                             !.cached = FALSE, !.late = TRUE]
        /\ draft' = draft
    BY <1>15 DEF AnsweredBroken
  <2> QED
    BY <1>1, <2>1, KeptHistory DEF Page
<1>16. ASSUME NEW o \in Ops, Published(o)
       PROVE  HistInv'
  <2> DEFINE late == InitSnapShot(page).late \/ page.cached
                     \/ page.content # page.clean
  <2>1. page' = [InitSnapShot(page) EXCEPT !.late = late]
    BY <1>16 DEF Published
  <2>2. InitSnapShot(page) = [page EXCEPT !.times = -1, !.cached = FALSE,
                                          !.snaps = <<>>, !.index = 0]
    BY DEF InitSnapShot
  <2>3. page'.snaps = <<>>
    <3> HIDE DEF late
    <3> QED
      BY <1>1, <2>1, <2>2 DEF Page
  <2> QED
    BY <2>3, EmptyHistory
<1>17. CASE BackToMain \/ Crash
  <2>1. page'.snaps = <<>>
    BY <1>17 DEF BackToMain, Crash, Fresh
  <2> QED
    BY <2>1, EmptyHistory
<1>18. CASE OtherSaves
  BY <1>18, SameHistory DEF OtherSaves
<1>19. CASE OtherRecords \/ OtherDropsDraft
  <2>1. page' = [page EXCEPT !.bare = TRUE]
    BY <1>19 DEF OtherRecords, OtherDropsDraft
  <2> QED
    BY <1>1, <2>1, KeptHistory DEF Page
<1>20. CASE UNCHANGED vars
  BY <1>20, SameHistory DEF vars
<1> QED
  BY <1>3, <1>4, <1>5, <1>6, <1>7, <1>9, <1>10, <1>11, <1>12, <1>13, <1>14, <1>15,
     <1>16, <1>17, <1>18, <1>19, <1>20
     DEF Next, User, Clock, Dialog, Reply

LEMMA HistStart == Init => HistInv
BY DEF Init, Fresh, HistInv, Unready, Uncounted, HistoryShowsCanvas, CleanMeansSaved,
       Guarded

\* With no change waiting, the canvas is the snapshot the undo index points to
\* (snapshot.ts: snapshotCatchToStore, undo, redo), through saves, publications and
\* recoveries.
THEOREM HistoryKept == Spec => []HistoryShowsCanvas
<1>1. HistInv => HistoryShowsCanvas
  BY DEF HistInv
<1> QED
  BY <1>1, TypeStart, TypeStep, HistStart, HistStep, PTL DEF Spec

\* A page that warns of nothing when the user leaves shows what is stored, but for
\* a change the timer has not recorded, one made under a save, and what the first
\* snapshot holds (styleChangeTimes in snapshot.ts and DbToolbar.vue).
THEOREM CleanIsSaved == Spec => []CleanMeansSaved
<1>1. HistInv => CleanMeansSaved
  BY DEF HistInv
<1> QED
  BY <1>1, TypeStart, TypeStep, HistStart, HistStep, PTL DEF Spec

\* The draft in localStorage holds the counted changes of a page whose draft nobody
\* has touched (snapshotCatchToStore in snapshot.ts).
THEOREM DraftKeepsWork == Spec => []DraftGuardsWork
<1>1. HistInv => DraftGuardsWork
  BY DEF HistInv, Guarded, DraftGuardsWork
<1> QED
  BY <1>1, TypeStart, TypeStep, HistStart, HistStep, PTL DEF Spec

-------------------------------------------------------------------------------
(* The versions *)

\* No version is larger than the last one handed out.
Spent ==
    /\ server.version <= used.versions
    /\ page.root <= used.versions /\ draft.root <= used.versions
    /\ \A o \in Ops : save[o].new <= used.versions /\ save[o].seen <= used.versions
    /\ \A v \in phantoms : v <= used.versions

\* A version that is not the one the content goes back to is a phantom.
Rooted ==
    /\ page.version = page.root \/ page.version \in phantoms
    /\ draft.version = draft.root \/ draft.version \in phantoms

\* A save on its way to the server has a version of its own, not stored yet.
Unposted ==
    \A o \in Ops : save[o].pc \in {"posting", "lost"} =>
        /\ save[o].new # server.version
        /\ \A q \in Ops \ {o} :
              save[q].pc \in {"posting", "lost"} => save[o].new # save[q].new

\* What somebody else has stored is newer than all the page knows of.
Foreign ==
    ~server.own =>
        /\ server.version \notin phantoms
        /\ page.root <= server.version /\ draft.root <= server.version
        /\ \A o \in Ops : save[o].pc = "stored" => save[o].new < server.version

\* The content of the page goes back at least to what it went back to at the check.
Checking ==
    \A o \in Ops : save[o].pc = "checking" =>
        /\ page.phase = "ready"
        /\ save[o].sent = save[o].root \/ save[o].sent \in phantoms
        /\ save[o].root <= page.root

\* A save past the check goes back to what the server had then, or the server has
\* something newer, or something of the page.
Passed ==
    \A o \in Ops :
        save[o].pc = "posting" /\ save[o].way = "checked" /\ save[o].seen = server.version
            => save[o].root = server.version \/ server.own

VersionInv == Spent /\ Rooted /\ Unposted /\ Foreign /\ Checking /\ Passed

LEMMA Numbers ==
    ASSUME TypeInv
    PROVE  /\ server.version \in Int /\ used.versions \in Int
           /\ page.root \in Int /\ page.version \in Int
           /\ draft.root \in Int /\ draft.version \in Int
           /\ phantoms \subseteq Int /\ -1 \notin phantoms
           /\ \A o \in Ops : /\ save[o].new \in Int /\ save[o].seen \in Int
                             /\ save[o].sent \in Int /\ save[o].root \in Int
<1> USE BoundAssumption
<1>1. Versions \subseteq Int /\ 0..MaxSaves \subseteq Int /\ -1 \notin Versions
  BY DEF Versions
<1>2. draft.root \in Int /\ draft.version \in Int
  <2>1. CASE draft = NoDraft
    BY <2>1 DEF NoDraft
  <2>2. CASE draft # NoDraft
    <3>1. draft.root \in Versions /\ draft.version \in Versions
      BY <2>2 DEF TypeInv, TypeOK, Draft
    <3> QED
      BY <1>1, <3>1
  <2> QED
    BY <2>1, <2>2
<1>3. page.root \in Int /\ page.version \in Int
  BY <1>1 DEF TypeInv, TypeOK, Page
<1>4. \A o \in Ops : /\ save[o].new \in Int /\ save[o].seen \in Int
                    /\ save[o].sent \in Int /\ save[o].root \in Int
  BY <1>1 DEF TypeInv, TypeOK, Save
<1> QED
  BY <1>1, <1>2, <1>3, <1>4 DEF TypeInv, TypeOK, Used

LEMMA PutIs ==
    ASSUME TypeInv, NEW o \in Ops, NEW s, Put(o, s)
    PROVE  save'[o] = s /\ \A q \in Ops \ {o} : save'[q] = save[q]
BY DEF TypeInv, TypeOK, Put

-------------------------------------------------------------------------------
(* How a step may change what the versions depend on *)

\* The draft is the page's, another tab's of the stored canvas, gone, or as it was.
SlightDraft ==
    \/ draft'.version = draft.version /\ draft'.root = draft.root
    \/ draft'.version = page.version /\ draft'.root = page.root
    \/ draft'.version = draft'.root /\ draft'.root \in {-1, server.version}

\* The page goes back to what it did, to the draft, to the stored canvas, or nowhere.
SlightPage ==
    \/ page'.version = page.version /\ page'.root = page.root
    \/ page'.version = draft.version /\ page'.root = draft.root
    \/ page'.version = page'.root /\ page'.root \in {0, server.version}

\* The save goes on with nothing new to store.
SlightSave(o) ==
    \/ save'[o] = save[o]
    \/ /\ save'[o].pc \in {"idle", "asking", "publishing", "checking", "lost"}
       /\ save'[o].new <= used.versions /\ save'[o].seen <= used.versions
       /\ save'[o].pc = "lost" =>
             save[o].pc \in {"posting", "lost"} /\ save'[o].new = save[o].new
       /\ save'[o].pc = "checking" =>
             /\ page.phase = "ready"
             /\ save'[o].sent = page.version /\ save'[o].root = page.root

\* A page that is checked stays as ready and as new as it was.
SteadyCheck ==
    \A o \in Ops : save'[o].pc = "checking" =>
        page'.phase = page.phase /\ page'.root = page.root

LEMMA SlightStep ==
    ASSUME TypeInv, TypeInv', VersionInv,
           server' = server, phantoms' = phantoms, used'.versions = used.versions,
           SlightDraft, SlightPage, SteadyCheck, \A o \in Ops : SlightSave(o)
    PROVE  VersionInv'
<1>1. 0 <= server.version /\ 0 <= used.versions
  BY BoundAssumption DEF TypeInv, TypeOK, Versions, Used
<1>2. Spent'
  <2>1. page'.root <= used.versions /\ draft'.root <= used.versions
    BY <1>1, Numbers DEF VersionInv, Spent, SlightDraft, SlightPage
  <2>2. \A o \in Ops : save'[o].new <= used.versions /\ save'[o].seen <= used.versions
    BY DEF VersionInv, Spent, SlightSave
  <2> QED
    BY <2>1, <2>2 DEF VersionInv, Spent
<1>3. Rooted'
  BY DEF VersionInv, Rooted, SlightDraft, SlightPage
<1>4. Unposted'
  <2>1. \A o \in Ops : save'[o].pc \in {"posting", "lost"} =>
           save[o].pc \in {"posting", "lost"} /\ save'[o].new = save[o].new
    BY DEF SlightSave
  <2> QED
    BY <2>1 DEF VersionInv, Unposted
<1>5. Foreign'
  <2>1. \A o \in Ops : save'[o].pc = "stored" => save'[o] = save[o]
    BY DEF SlightSave
  <2>2. ~server.own => page'.root <= server.version /\ draft'.root <= server.version
    BY <1>1, Numbers DEF VersionInv, Foreign, SlightDraft, SlightPage
  <2> QED
    BY <2>1, <2>2 DEF VersionInv, Foreign
<1>6. Checking'
  <2> SUFFICES ASSUME NEW o \in Ops, save'[o].pc = "checking"
               PROVE  /\ page'.phase = "ready"
                      /\ save'[o].sent = save'[o].root \/ save'[o].sent \in phantoms
                      /\ save'[o].root <= page'.root
    BY DEF Checking
  <2>1. page'.phase = page.phase /\ page'.root = page.root
    BY DEF SteadyCheck
  <2>2. CASE save'[o] = save[o]
    BY <2>1, <2>2 DEF VersionInv, Checking
  <2>3. CASE save'[o] # save[o]
    BY <2>1, <2>3, Numbers DEF VersionInv, Rooted, SlightSave
  <2> QED
    BY <2>2, <2>3
<1>7. Passed'
  <2>1. \A o \in Ops : save'[o].pc = "posting" => save'[o] = save[o]
    BY DEF SlightSave
  <2> QED
    BY <2>1 DEF VersionInv, Passed
<1> QED
  BY <1>2, <1>3, <1>4, <1>5, <1>6, <1>7 DEF VersionInv

\* A save is sent, with a version nobody has had.
LEMMA PostStep ==
    ASSUME TypeInv, TypeInv', VersionInv, NEW o \in Ops, NEW way, NEW publish,
           Post(o, way, publish), server' = server, phantoms' = phantoms,
           SlightDraft, page'.version = page.version, page'.root = page.root,
           page'.phase = page.phase,
           way = "checked" => page.root = server.version \/ server.own
    PROVE  VersionInv'
<1> DEFINE s == [pc |-> "posting", publish |-> publish,
                 sent |-> 0, seen |-> server.version, way |-> way,
                 body |-> page.content, new |-> used.versions + 1, root |-> page.root]
<1>1. used'.versions = used.versions + 1
  BY DEF Post, TypeInv, Used
<1>2. /\ save'[o].pc = "posting" /\ save'[o].seen = server.version
      /\ save'[o].way = way /\ save'[o].new = used.versions + 1
      /\ save'[o].root = page.root
      /\ \A q \in Ops \ {o} : save'[q] = save[q]
  <2>1. Put(o, s)
    BY DEF Post
  <2> QED
    BY <2>1, PutIs
<1>3. 0 <= server.version /\ 0 <= used.versions
  BY BoundAssumption DEF TypeInv, TypeOK, Versions, Used
<1>4. Spent'
  <2>1. /\ page'.root <= used.versions + 1 /\ draft'.root <= used.versions + 1
        /\ server'.version <= used.versions + 1
    BY <1>3, Numbers DEF VersionInv, Spent, SlightDraft
  <2>2. \A q \in Ops : /\ save'[q].new <= used.versions + 1
                       /\ save'[q].seen <= used.versions + 1
    <3> TAKE q \in Ops
    <3>1. CASE q = o
      BY <1>2, <2>1, <3>1, Numbers
    <3>2. CASE q # o
      BY <1>2, <3>2, Numbers DEF VersionInv, Spent
    <3> QED
      BY <3>1, <3>2
  <2>3. \A v \in phantoms' : v <= used.versions + 1
    BY Numbers DEF VersionInv, Spent
  <2> QED
    BY <1>1, <2>1, <2>2, <2>3 DEF Spent
<1>5. Rooted'
  BY DEF VersionInv, Rooted, SlightDraft
<1>6. Unposted'
  <2>1. \A q \in Ops : save[q].new < used.versions + 1
    BY Numbers DEF VersionInv, Spent
  <2>2. server.version < used.versions + 1
    BY Numbers DEF VersionInv, Spent
  <2> SUFFICES ASSUME NEW a \in Ops, save'[a].pc \in {"posting", "lost"}
               PROVE  /\ save'[a].new # server.version
                      /\ \A q \in Ops \ {a} :
                            save'[q].pc \in {"posting", "lost"}
                                => save'[a].new # save'[q].new
    BY DEF Unposted
  <2>3. CASE a = o
    BY <1>2, <2>1, <2>2, <2>3, Numbers
  <2>4. CASE a # o
    BY <1>2, <2>1, <2>4, Numbers DEF VersionInv, Unposted
  <2> QED
    BY <2>3, <2>4
<1>7. Foreign'
  <2>1. ~server.own => page'.root <= server.version /\ draft'.root <= server.version
    BY <1>3, Numbers DEF VersionInv, Foreign, SlightDraft
  <2>2. \A q \in Ops : save'[q].pc = "stored" => save'[q] = save[q]
    BY <1>2
  <2> QED
    BY <2>1, <2>2 DEF VersionInv, Foreign
<1>8. Checking'
  <2>1. \A q \in Ops : save'[q].pc = "checking" => save'[q] = save[q]
    BY <1>2
  <2> QED
    BY <2>1 DEF VersionInv, Checking
<1>9. Passed'
  <2> SUFFICES ASSUME NEW q \in Ops, save'[q].pc = "posting", save'[q].way = "checked",
                      save'[q].seen = server.version
               PROVE  save'[q].root = server.version \/ server.own
    BY DEF Passed
  <2>1. CASE q = o
    BY <1>2, <2>1
  <2>2. CASE q # o
    BY <1>2, <2>2 DEF VersionInv, Passed
  <2> QED
    BY <2>1, <2>2
<1> QED
  BY <1>4, <1>5, <1>6, <1>7, <1>8, <1>9 DEF VersionInv

\* A step that leaves the saves alone.
LEMMA SameSaves ==
    ASSUME TypeInv, VersionInv, save' = save, ~Ready \/ UNCHANGED <<page.phase, page.root>>
    PROVE  SteadyCheck /\ \A o \in Ops : SlightSave(o)
BY DEF SteadyCheck, SlightSave, VersionInv, Checking, Ready

\* A save that ends, waits or publishes, and no other.
LEMMA OneSave ==
    ASSUME TypeInv, VersionInv, NEW o \in Ops, NEW s, Put(o, s),
           s.pc \in {"idle", "asking", "publishing"},
           s.new = 0 \/ s.new = save[o].new, s.seen = 0 \/ s.seen = save[o].seen,
           ~Ready \/ UNCHANGED <<page.phase, page.root>>
    PROVE  SteadyCheck /\ \A q \in Ops : SlightSave(q)
<1>1. save'[o] = s /\ \A q \in Ops \ {o} : save'[q] = save[q]
  BY PutIs
<1>2. 0 <= used.versions
  BY BoundAssumption DEF TypeInv, Used
<1>3. s.new <= used.versions /\ s.seen <= used.versions
  BY <1>2 DEF VersionInv, Spent
<1>4. SlightSave(o)
  BY <1>1, <1>3 DEF SlightSave
<1>5. \A q \in Ops \ {o} : SlightSave(q)
  BY <1>1 DEF SlightSave
<1>6. SteadyCheck
  <2> SUFFICES ASSUME NEW q \in Ops, save'[q].pc = "checking"
               PROVE  page'.phase = page.phase /\ page'.root = page.root
    BY DEF SteadyCheck
  <2>1. save[q].pc = "checking"
    BY <1>1
  <2> QED
    BY <2>1 DEF VersionInv, Checking, Ready
<1> QED
  BY <1>4, <1>5, <1>6

LEMMA EndStep ==
    ASSUME TypeInv, VersionInv, NEW o \in Ops, End(o),
           ~Ready \/ UNCHANGED <<page.phase, page.root>>
    PROVE  SteadyCheck /\ \A q \in Ops : SlightSave(q)
<1>1. NoSave.pc = "idle" /\ NoSave.new = 0 /\ NoSave.seen = 0
  BY DEF NoSave
<1> QED
  BY <1>1, OneSave DEF End

LEMMA GoOnStep ==
    ASSUME TypeInv, VersionInv, NEW o \in Ops, GoOn(o)
    PROVE  /\ save'[o].pc \in {"idle", "publishing"}
           /\ save'[o].new = 0 /\ save'[o].seen = 0
           /\ \A q \in Ops \ {o} : save'[q] = save[q]
<1> DEFINE s == IF save[o].publish THEN [NoSave EXCEPT !.pc = "publishing"] ELSE NoSave
<1>1. Put(o, s)
  BY DEF GoOn, End
<1>2. s.pc \in {"idle", "publishing"} /\ s.new = 0 /\ s.seen = 0
  BY DEF NoSave
<1> QED
  BY <1>1, <1>2, PutIs

LEMMA SaveResourceStep ==
    ASSUME TypeInv, TypeInv', VersionInv, NEW o \in Ops, NEW way,
           SaveResource(o, way), UNCHANGED <<server, phantoms>>,
           way = "checked" => page.root = server.version \/ server.own
    PROVE  VersionInv'
<1>1. draft' = NoDraft /\ page' = [page EXCEPT !.bare = TRUE]
  BY DEF SaveResource
<1>2. SlightDraft
  BY <1>1 DEF SlightDraft, NoDraft
<1>3. page'.version = page.version /\ page'.root = page.root /\ page'.phase = page.phase
  BY <1>1 DEF TypeInv, TypeOK, Page
<1>4. SlightPage
  BY <1>3 DEF SlightPage
<1>5. CASE Post(o, way, save[o].publish)
  BY <1>2, <1>3, <1>5, PostStep
<1>6. CASE End(o) /\ UNCHANGED used
  BY <1>2, <1>3, <1>4, <1>6, EndStep, SlightStep
<1> QED
  BY <1>5, <1>6 DEF SaveResource

\* The server has what the page sent: Store.
LEMMA StoreStep ==
    ASSUME TypeInv, TypeInv', VersionInv, NEW o \in Ops, Store(o)
    PROVE  VersionInv'
<1>1. /\ save[o].pc \in {"posting", "lost"} /\ save \in [Ops -> Save]
      /\ server'.version = save[o].new /\ server'.own
      /\ UNCHANGED <<draft, page, used, phantoms>>
  BY DEF Store, TypeInv, TypeOK
<1>2. /\ \A q \in Ops \ {o} : save'[q] = save[q]
      /\ save'[o].pc \in {"stored", "idle"}
      /\ save'[o].new \in {0, save[o].new} /\ save'[o].seen \in {0, save[o].seen}
  <2>1. CASE save[o].pc = "posting"
    <3> DEFINE s == [save[o] EXCEPT !.pc = "stored"]
    <3>1. s.pc = "stored" /\ s.new = save[o].new /\ s.seen = save[o].seen
      BY <1>1 DEF Save
    <3>2. Put(o, s)
      BY <2>1 DEF Store
    <3> QED
      BY <3>1, <3>2, PutIs
  <2>2. CASE save[o].pc # "posting"
    <3>1. Put(o, NoSave)
      BY <2>2 DEF Store, End
    <3> QED
      BY <3>1, PutIs DEF NoSave
  <2> QED
    BY <2>1, <2>2
<1>3. Spent'
  <2>1. 0 <= used.versions
    BY BoundAssumption DEF TypeInv, Used
  <2> QED
    BY <1>1, <1>2, <2>1 DEF VersionInv, Spent
<1>4. Rooted' /\ Foreign'
  BY <1>1 DEF VersionInv, Rooted, Foreign
<1>5. Unposted'
  BY <1>1, <1>2 DEF VersionInv, Unposted
<1>6. Checking'
  BY <1>1, <1>2 DEF VersionInv, Checking
<1>7. Passed'
  BY <1>1 DEF Passed
<1> QED
  BY <1>3, <1>4, <1>5, <1>6, <1>7 DEF VersionInv

\* The answer to a save that was stored: Answered.
LEMMA AnsweredStep ==
    ASSUME TypeInv, TypeInv', VersionInv, NEW o \in Ops, Answered(o)
    PROVE  VersionInv'
<1> DEFINE late == page.late \/ page.cached \/ page.content # save[o].body
           root == Newer(page.root, save[o].new)
<1>1. page' = [page EXCEPT !.version = save[o].new, !.root = root, !.times = 0,
                           !.cached = FALSE, !.clean = save[o].body, !.late = late]
      /\ UNCHANGED <<server, draft, used>>
  BY DEF Answered
<1>2. page'.version = save[o].new /\ page'.root = root /\ page'.phase = page.phase
  <2> HIDE DEF late, root
  <2> QED
    BY <1>1 DEF TypeInv, TypeOK, Page
<1>3. /\ root \in {page.root, save[o].new} /\ page.root <= root
      /\ save[o].new < page.root \/ root = save[o].new
  BY Numbers DEF Newer
<1>4. /\ phantoms \subseteq phantoms' /\ phantoms' \subseteq phantoms \union {save[o].new}
      /\ save[o].new < page.root => save[o].new \in phantoms'
      /\ save[o].pc = "stored"
  BY DEF Answered
<1>5. /\ save'[o].pc \in {"idle", "publishing"} /\ save'[o].new = 0 /\ save'[o].seen = 0
      /\ \A q \in Ops \ {o} : save'[q] = save[q]
  BY GoOnStep DEF Answered
<1> HIDE DEF root
<1>6. Spent'
  <2>1. 0 <= used.versions
    BY BoundAssumption DEF TypeInv, Used
  <2> QED
    BY <1>1, <1>2, <1>3, <1>4, <1>5, <2>1, Numbers DEF VersionInv, Spent
<1>7. Rooted'
  BY <1>1, <1>2, <1>3, <1>4 DEF VersionInv, Rooted
<1>8. Unposted'
  BY <1>1, <1>5 DEF VersionInv, Unposted
<1>9. Foreign'
  <2>1. ~server.own => save[o].new < server.version /\ root <= server.version
    BY <1>3, <1>4, Numbers DEF VersionInv, Foreign
  <2> QED
    BY <1>1, <1>2, <1>4, <1>5, <2>1, Numbers DEF VersionInv, Foreign
<1>10. Checking'
  <2>1. \A q \in Ops : save'[q].pc = "checking" => save'[q] = save[q]
    BY <1>5
  <2>2. \A q \in Ops : save[q].root <= page.root => save[q].root <= root
    BY <1>3, Numbers
  <2> QED
    BY <1>2, <1>4, <2>1, <2>2 DEF VersionInv, Checking
<1>11. Passed'
  <2>1. \A q \in Ops : save'[q].pc = "posting" => save'[q] = save[q]
    BY <1>5
  <2> QED
    BY <1>1, <2>1 DEF VersionInv, Passed
<1> QED
  BY <1>6, <1>7, <1>8, <1>9, <1>10, <1>11 DEF VersionInv

\* The answer to a publication that was not stored: AnsweredBroken.
LEMMA AnsweredBrokenStep ==
    ASSUME TypeInv, TypeInv', VersionInv, NEW o \in Ops, AnsweredBroken(o)
    PROVE  VersionInv'
<1>1. page' = [page EXCEPT !.version = save[o].new, !.times = 0,
                           !.cached = FALSE, !.late = TRUE]
      /\ UNCHANGED <<server, draft, used>>
  BY DEF AnsweredBroken
<1>2. page'.version = save[o].new /\ page'.root = page.root /\ page'.phase = page.phase
  BY <1>1 DEF TypeInv, TypeOK, Page
<1>3. phantoms' = phantoms \union {save[o].new} /\ save[o].pc = "posting"
  BY DEF AnsweredBroken
<1>4. /\ save'[o].pc \in {"idle", "publishing"} /\ save'[o].new = 0 /\ save'[o].seen = 0
      /\ \A q \in Ops \ {o} : save'[q] = save[q]
  BY GoOnStep DEF AnsweredBroken
<1>5. Spent'
  <2>1. 0 <= used.versions
    BY BoundAssumption DEF TypeInv, Used
  <2> QED
    BY <1>1, <1>2, <1>3, <1>4, <2>1 DEF VersionInv, Spent
<1>6. Rooted'
  BY <1>1, <1>2, <1>3 DEF VersionInv, Rooted
<1>7. Unposted'
  BY <1>1, <1>4 DEF VersionInv, Unposted
<1>8. Foreign'
  <2>1. save[o].new # server.version
    BY <1>3 DEF VersionInv, Unposted
  <2> QED
    BY <1>1, <1>2, <1>3, <1>4, <2>1 DEF VersionInv, Foreign
<1>9. Checking'
  BY <1>2, <1>3, <1>4 DEF VersionInv, Checking
<1>10. Passed'
  BY <1>1, <1>4 DEF VersionInv, Passed
<1> QED
  BY <1>5, <1>6, <1>7, <1>8, <1>9, <1>10 DEF VersionInv

\* Somebody else saves.
LEMMA OtherSavesStep ==
    ASSUME TypeInv, TypeInv', VersionInv, OtherSaves
    PROVE  VersionInv'
<1>1. /\ server'.version = used.versions + 1 /\ ~server'.own
      /\ used'.versions = used.versions + 1
      /\ UNCHANGED <<draft, page, save, phantoms>>
  BY DEF OtherSaves, TypeInv, Used
<1>2. /\ page.root <= used.versions /\ draft.root <= used.versions
      /\ \A v \in phantoms : v <= used.versions
      /\ \A o \in Ops : save[o].new <= used.versions /\ save[o].seen <= used.versions
  BY DEF VersionInv, Spent
<1>3. \A v \in Int : v <= used.versions => v < used.versions + 1
  BY Numbers
<1>4. Spent'
  BY <1>1, <1>2, <1>3, Numbers DEF Spent
<1>5. Rooted' /\ Checking'
  BY <1>1 DEF VersionInv, Rooted, Checking
<1>6. Unposted'
  BY <1>1, <1>2, <1>3, Numbers DEF VersionInv, Unposted
<1>7. Foreign'
  BY <1>1, <1>2, <1>3, Numbers DEF Foreign
<1>8. Passed'
  BY <1>1, <1>2, <1>3, Numbers DEF Passed
<1> QED
  BY <1>4, <1>5, <1>6, <1>7, <1>8 DEF VersionInv

LEMMA VersionStep == TypeInv /\ TypeInv' /\ VersionInv /\ [Next]_vars => VersionInv'
<1> SUFFICES ASSUME TypeInv, TypeInv', VersionInv, [Next]_vars PROVE VersionInv'
  OBVIOUS
<1>1. page \in Page /\ save \in [Ops -> Save]
  BY DEF TypeInv, TypeOK
<1>2. CASE OpenEditor
  <2>1. PICK f \in {"opening", "asking"} : page' = [InitSnapShot(page) EXCEPT !.phase = f]
    BY <1>2 DEF OpenEditor
  <2>2. page'.version = page.version /\ page'.root = page.root /\ ~Ready
    BY <1>1, <1>2, <2>1 DEF OpenEditor, InitSnapShot, Page, Ready
  <2> QED
    BY <1>2, <2>2, SameSaves, SlightStep DEF OpenEditor, SlightDraft, SlightPage
<1>3. CASE UseDraft
  <2>1. page'.version = draft.version /\ page'.root = draft.root /\ ~Ready
    BY <1>1, <1>3 DEF UseDraft, Page, Ready
  <2> QED
    BY <1>3, <2>1, SameSaves, SlightStep DEF UseDraft, SlightDraft, SlightPage
<1>4. CASE RefuseDraft
  <2>1. page'.version = page.version /\ page'.root = page.root /\ ~Ready
    BY <1>1, <1>4 DEF RefuseDraft, Page, Ready
  <2> QED
    BY <1>4, <2>1, SameSaves, SlightStep DEF RefuseDraft, SlightDraft, SlightPage, NoDraft
<1>5. CASE Loaded
  <2>1. page'.version = server.version /\ page'.root = server.version /\ ~Ready
    BY <1>1, <1>5 DEF Loaded, Page, Ready
  <2> QED
    BY <1>5, <2>1, SameSaves, SlightStep DEF Loaded, SlightDraft, SlightPage
<1>6. CASE MarkRecovered \/ Edit \/ Thaw
  <2>1. page'.version = page.version /\ page'.root = page.root /\ page'.phase = page.phase
    BY <1>1, <1>6 DEF MarkRecovered, Edit, Thaw, Page
  <2>2. UNCHANGED <<server, draft, save, phantoms>> /\ used'.versions = used.versions
    BY <1>6 DEF MarkRecovered, Edit, Thaw, TypeInv, Used
  <2> QED
    BY <2>1, <2>2, SameSaves, SlightStep DEF SlightDraft, SlightPage
<1>7. CASE Tick
  <2> DEFINE p == Record(page)
  <2>1. p.version = page.version /\ p.root = page.root /\ p.phase = page.phase
    BY <1>1 DEF Record, Page
  <2>2. p \in Page
    BY <1>1, RecordType DEF TypeInv, TypeOK
  <2>3. page' = p \/ page' = [p EXCEPT !.bare = FALSE]
    BY <1>7 DEF Tick
  <2>4. draft' = draft \/ (draft'.version = p.version /\ draft'.root = p.root)
    BY <1>7 DEF Tick, DraftOf
  <2>5. page'.version = page.version /\ page'.root = page.root /\ page'.phase = page.phase
    <3> HIDE DEF p
    <3> QED
      BY <2>1, <2>2, <2>3 DEF Page
  <2>6. SlightDraft
    BY <2>1, <2>4 DEF SlightDraft
  <2> QED
    BY <1>7, <2>5, <2>6, SameSaves, SlightStep DEF Tick, SlightPage
<1>8. ASSUME NEW i, Move(i)
      PROVE  VersionInv'
  <2>1. page'.version = page.version /\ page'.root = page.root /\ page'.phase = page.phase
    BY <1>1, <1>8 DEF Move, Page
  <2>2. UNCHANGED <<server, draft, save, phantoms>> /\ used'.versions = used.versions
    BY <1>8 DEF Move, TypeInv, Used
  <2> QED
    BY <2>1, <2>2, SameSaves, SlightStep DEF SlightDraft, SlightPage
<1>9. CASE Undo \/ Redo
  BY <1>8, <1>9 DEF Undo, Redo
<1>10. CASE \E o \in Ops, publish \in BOOLEAN : SaveCanvasWithCheck(o, publish)
  <2>1. PICK o \in Ops, publish \in BOOLEAN : SaveCanvasWithCheck(o, publish)
    BY <1>10
  <2> DEFINE s == [NoSave EXCEPT !.pc = "checking", !.publish = publish,
                                 !.sent = page.version, !.root = page.root]
  <2>2. /\ s.pc = "checking" /\ s.sent = page.version /\ s.root = page.root
        /\ s.new = 0 /\ s.seen = 0
    BY DEF NoSave
  <2>3. Put(o, s) /\ page.phase = "ready"
    BY <2>1 DEF SaveCanvasWithCheck, Keys, Mouse, Ready
  <2>4. save'[o] = s /\ \A q \in Ops \ {o} : save'[q] = save[q]
    BY <2>3, PutIs
  <2>5. 0 <= used.versions
    BY BoundAssumption DEF TypeInv, Used
  <2>6. \A q \in Ops : SlightSave(q)
    BY <2>2, <2>3, <2>4, <2>5 DEF SlightSave
  <2>7. UNCHANGED <<server, draft, page, used, phantoms>>
    BY <2>1 DEF SaveCanvasWithCheck
  <2> QED
    BY <2>6, <2>7, SlightStep DEF SlightDraft, SlightPage, SteadyCheck
<1>11. ASSUME NEW o \in Ops, CheckPassed(o)
       PROVE  VersionInv'
  <2>1. page.root = server.version \/ server.own
    BY <1>11, Numbers DEF CheckPassed, VersionInv, Checking, Foreign
  <2> QED
    BY <1>11, <2>1, SaveResourceStep DEF CheckPassed
<1>12. ASSUME NEW o \in Ops, CheckBroken(o) \/ Confirm(o)
       PROVE  VersionInv'
  BY <1>12, SaveResourceStep DEF CheckBroken, Confirm
<1>13. ASSUME NEW o \in Ops, CheckRepeat(o)
       PROVE  VersionInv'
  <2> DEFINE s == [save[o] EXCEPT !.pc = "asking"]
  <2>1. s.pc = "asking" /\ s.new = save[o].new /\ s.seen = save[o].seen
    BY <1>1 DEF Save
  <2>2. Put(o, s) /\ UNCHANGED <<server, draft, page, used, phantoms>>
    BY <1>13 DEF CheckRepeat
  <2> QED
    BY <2>1, <2>2, OneSave, SlightStep DEF SlightDraft, SlightPage
<1>14. ASSUME NEW o \in Ops, Decline(o) \/ Refused(o)
       PROVE  VersionInv'
  <2>1. End(o) /\ UNCHANGED <<server, draft, page, used, phantoms>>
    BY <1>14 DEF Decline, Refused
  <2> QED
    BY <2>1, EndStep, SlightStep DEF SlightDraft, SlightPage
<1>15. ASSUME NEW o \in Ops, PreviewOuter(o)
       PROVE  VersionInv'
  BY <1>15, PostStep DEF PreviewOuter, SlightDraft
<1>16. ASSUME NEW o \in Ops, Published(o)
       PROVE  VersionInv'
  <2> DEFINE late == InitSnapShot(page).late \/ page.cached
                     \/ page.content # page.clean
  <2>1. page' = [InitSnapShot(page) EXCEPT !.late = late]
    BY <1>16 DEF Published
  <2>2. InitSnapShot(page) = [page EXCEPT !.times = -1, !.cached = FALSE,
                                          !.snaps = <<>>, !.index = 0]
    BY DEF InitSnapShot
  <2>3. page'.version = page.version /\ page'.root = page.root /\ page'.phase = page.phase
    <3> HIDE DEF late
    <3> QED
      BY <1>1, <2>1, <2>2 DEF Page
  <2>4. End(o) /\ UNCHANGED <<server, draft, used, phantoms>>
    BY <1>16 DEF Published
  <2> QED
    BY <2>3, <2>4, EndStep, SlightStep DEF SlightDraft, SlightPage
<1>17. CASE BackToMain
  <2>1. page'.version = 0 /\ page'.root = 0
    BY <1>17 DEF BackToMain, Fresh
  <2>2. \A o \in Ops : save[o].pc # "checking"
    BY <1>17 DEF BackToMain, Mouse, SavesAt
  <2>3. SteadyCheck /\ \A o \in Ops : SlightSave(o)
    BY <1>17, <2>2 DEF BackToMain, SteadyCheck, SlightSave
  <2> QED
    BY <1>17, <2>1, <2>3, SlightStep DEF BackToMain, SlightDraft, SlightPage, NoDraft
<1>18. CASE Crash
  <2>1. page'.version = 0 /\ page'.root = 0
    BY <1>18 DEF Crash, Fresh
  <2>2. 0 <= used.versions
    BY BoundAssumption DEF TypeInv, Used
  <2>3. ASSUME NEW o \in Ops
        PROVE  SlightSave(o) /\ save'[o].pc # "checking"
    <3>1. CASE save[o].pc \in {"posting", "lost"}
      <4>1. save'[o] = [save[o] EXCEPT !.pc = "lost"]
        BY <1>18, <3>1 DEF Crash
      <4>2. save'[o].pc = "lost" /\ save'[o].new = save[o].new
            /\ save'[o].seen = save[o].seen
        BY <1>1, <4>1 DEF Save
      <4> QED
        BY <3>1, <4>2 DEF SlightSave, VersionInv, Spent
    <3>2. CASE save[o].pc \notin {"posting", "lost"}
      <4>1. save'[o] = NoSave
        BY <1>18, <3>2 DEF Crash
      <4> QED
        BY <2>2, <4>1 DEF SlightSave, NoSave
    <3> QED
      BY <3>1, <3>2
  <2> QED
    BY <1>18, <2>1, <2>3, SlightStep DEF Crash, SlightDraft, SlightPage, SteadyCheck
<1>19. CASE OtherRecords \/ OtherDropsDraft
  <2>1. page' = [page EXCEPT !.bare = TRUE]
    BY <1>19 DEF OtherRecords, OtherDropsDraft
  <2>2. page'.version = page.version /\ page'.root = page.root /\ page'.phase = page.phase
    BY <1>1, <2>1 DEF Page
  <2>3. UNCHANGED <<server, save, phantoms>> /\ used'.versions = used.versions
    BY <1>19 DEF OtherRecords, OtherDropsDraft, TypeInv, Used
  <2>4. SlightDraft
    BY <1>19 DEF OtherRecords, OtherDropsDraft, SlightDraft, NoDraft
  <2> QED
    BY <2>2, <2>3, <2>4, SameSaves, SlightStep DEF SlightPage
<1>20. CASE UNCHANGED vars
  BY <1>20, SameSaves, SlightStep DEF vars, SlightDraft, SlightPage
<1> QED
  BY <1>2, <1>3, <1>4, <1>5, <1>6, <1>7, <1>9, <1>10, <1>11, <1>12, <1>13, <1>14,
     <1>15, <1>16, <1>17, <1>18, <1>19, <1>20,
     StoreStep, AnsweredStep, AnsweredBrokenStep, OtherSavesStep
     DEF Next, User, Clock, Dialog, Reply

LEMMA VersionStart == Init => VersionInv
BY DEF Init, Fresh, NoSave, NoDraft, VersionInv, Spent, Rooted, Unposted, Foreign,
       Checking, Passed

\* A save that the server's check let through overwrites nothing of others that its
\* author has not seen, unless they saved between the check and the save
\* (checkCanvasChangePre in canvasUtils.ts, saveCanvasWithCheck in DbToolbar.vue).
THEOREM NothingOverwritten == Spec => OverwriteIsKnown
<1> DEFINE Known == \A o \in Ops :
              save[o].pc = "posting" /\ save'[o].pc = "stored" /\ save[o].way = "checked"
                  => save[o].root = server.version \/ save[o].seen # server.version \/ server.own
<1>1. VersionInv => [Known]_vars
  BY DEF VersionInv, Passed
<1> QED
  BY <1>1, TypeStart, TypeStep, VersionStart, VersionStep, PTL
     DEF Spec, OverwriteIsKnown

\* The user is asked about changes of others only if the server has another version
\* than the content at the check went back to (the "Repeat" answer of
\* checkCanvasChange), unless the page believes in a version that was never stored.
THEOREM ConflictsAreReal == Spec => ConflictIsReal
<1> DEFINE Real == \A o \in Ops :
              save[o].pc = "checking" /\ save'[o].pc = "asking"
                  /\ save[o].sent \notin phantoms
                  => server.version # save[o].root
<1>1. TypeInv /\ VersionInv /\ [Next]_vars => [Real]_vars
  <2> SUFFICES ASSUME TypeInv, VersionInv, Next, NEW o \in Ops,
                      save[o].pc = "checking", save'[o].pc = "asking",
                      save[o].sent \notin phantoms
               PROVE  server.version # save[o].root
    BY DEF vars
  <2>1. save[o].sent = save[o].root
    BY DEF VersionInv, Checking
  <2>2. CheckRepeat(o)
    <3>1. ASSUME NEW q \in Ops, NEW s, Put(q, s), s.pc # "asking"
          PROVE  FALSE
      BY <3>1, PutIs
    <3>2. NoSave.pc # "asking"
      BY DEF NoSave
    <3>3. ASSUME NEW q \in Ops, End(q)
          PROVE  FALSE
      BY <3>1, <3>2, <3>3 DEF End
    <3>4. ASSUME NEW q \in Ops, NEW way, NEW publish, Post(q, way, publish)
          PROVE  FALSE
      BY <3>1, <3>4 DEF Post
    <3>5. ASSUME NEW q \in Ops, NEW way, SaveResource(q, way)
          PROVE  FALSE
      BY <3>3, <3>4, <3>5 DEF SaveResource
    <3>6. ASSUME NEW q \in Ops, GoOn(q)
          PROVE  FALSE
      <4>1. save'[q].pc # "asking" /\ \A a \in Ops \ {q} : save'[a] = save[a]
        BY <3>6, GoOnStep
      <4> QED
        BY <4>1
    <3>7. ASSUME NEW q \in Ops, NEW publish, SaveCanvasWithCheck(q, publish)
          PROVE  FALSE
      <4> DEFINE s == [NoSave EXCEPT !.pc = "checking", !.publish = publish,
                                     !.sent = page.version, !.root = page.root]
      <4>1. Put(q, s) /\ s.pc = "checking"
        BY <3>7 DEF SaveCanvasWithCheck, NoSave
      <4> QED
        BY <3>1, <4>1
    <3>8. ASSUME NEW q \in Ops, Store(q)
          PROVE  FALSE
      <4>1. [save[q] EXCEPT !.pc = "stored"].pc = "stored"
        BY DEF TypeInv, TypeOK, Save
      <4> QED
        BY <3>1, <3>3, <3>8, <4>1 DEF Store
    <3>9. ASSUME NEW q \in Ops, Dialog(q)
          PROVE  FALSE
      BY <3>3, <3>4, <3>5, <3>9 DEF Dialog, Confirm, Decline, PreviewOuter
    <3>10. ASSUME NEW q \in Ops, Reply(q)
           PROVE  CheckRepeat(q)
      BY <3>3, <3>5, <3>6, <3>8, <3>10
         DEF Reply, CheckPassed, CheckBroken, Answered, AnsweredBroken, Published, Refused
    <3>11. ASSUME NEW q \in Ops, CheckRepeat(q)
           PROVE  q = o
      <4>1. Put(q, [save[q] EXCEPT !.pc = "asking"])
        BY <3>11 DEF CheckRepeat
      <4> QED
        BY <4>1, PutIs
    <3>12. ~Crash
      <4> SUFFICES ASSUME Crash PROVE FALSE
        OBVIOUS
      <4>1. save'[o] = NoSave
        BY DEF Crash
      <4> QED
        BY <3>2, <4>1
    <3>13. save' # save
      OBVIOUS
    <3>14. ~(User \/ Clock \/ Loaded \/ OtherSaves \/ OtherRecords \/ OtherDropsDraft)
      BY <3>13 DEF User, Clock, OpenEditor, UseDraft, RefuseDraft, Edit, Undo, Redo, Move,
                   BackToMain, MarkRecovered, Tick, Thaw, Loaded, OtherSaves,
                   OtherRecords, OtherDropsDraft
    <3> QED
      BY <3>7, <3>9, <3>10, <3>11, <3>12, <3>14 DEF Next
  <2> QED
    BY <2>1, <2>2 DEF CheckRepeat
<1> QED
  BY <1>1, TypeStart, TypeStep, VersionStart, VersionStep, PTL
     DEF Spec, ConflictIsReal
===============================================================================
