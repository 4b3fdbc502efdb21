-------------------------------- MODULE Editor --------------------------------
(***************************************************************************)
(* One editor page of a dashboard, with everybody who edits it too: the    *)
(* undo history and its timer (store/modules/data-visualization/           *)
(* snapshot.ts), the draft in localStorage, which all tabs of the browser  *)
(* share, the save with its check for changes of others (DbToolbar.vue,    *)
(* canvasUtils.ts), publishing, leaving, and a page that is reloaded or    *)
(* crashes at any moment.  Other users and other tabs save, and other tabs *)
(* write and delete the draft, whenever they like.                         *)
(*                                                                         *)
(* What is on the canvas is a number, a new one for each edit; a version   *)
(* (contentId) is a number, a new one for each save.  The counter of style *)
(* changes is only compared with zero and is cut off at one.               *)
(***************************************************************************)
EXTENDS Integers, Sequences

CONSTANTS
    Ops,       \* the saves of the page that may be under way at once
    MaxEdits,  \* bound on the edits, of the page and of others
    MaxSaves,  \* bound on the versions, of the page and of others
    MaxMoves   \* bound on the undos and redos

ASSUME BoundAssumption == MaxEdits \in Nat /\ MaxSaves \in Nat /\ MaxMoves \in Nat

VARIABLES
    server,    \* what the server has stored, and whether the page has sent it
    draft,     \* DE-DV-CATCH-<id> in localStorage
    page,      \* the editor, with the stores behind it
    save,      \* each save of the page under way
    used,      \* the edits, versions and moves used so far
    phantoms   \* versions the page believed in that were never stored, or older
               \* than one it had stored itself

vars == <<server, draft, page, save, used, phantoms>>

Contents == 0..MaxEdits
Versions == 0..MaxSaves

\* The last four fields are not in the code: the content the page knows to be
\* stored, the version its content goes back to, whether a change slipped through
\* since the last snapshot, whether somebody took its draft away.
Page == [phase : {"closed", "asking", "opening", "ready"},
         content : Contents,            \* componentData and the rest of the canvas
         version : Versions,            \* dvInfo.contentId
         times : -1..1,                 \* styleChangeTimes
         cached : BOOLEAN,              \* snapshotCacheTimes is not 0
         frozen : BOOLEAN,              \* before snapshotDisableTime
         marking : BOOLEAN,             \* the mark 1.5 s after a recovery is still to come
         snaps : Seq(Contents),         \* snapshotData
         index : Nat,                   \* snapshotIndex + 1
         clean : Contents,
         root : Versions,
         late : BOOLEAN,
         bare : BOOLEAN]

Fresh == [phase |-> "closed", content |-> 0, version |-> 0,
          times |-> -1, cached |-> FALSE, frozen |-> FALSE, marking |-> FALSE,
          snaps |-> <<>>, index |-> 0,
          clean |-> 0, root |-> 0, late |-> FALSE, bare |-> TRUE]

NoDraft == [content |-> -1, version |-> -1, root |-> -1]
Draft == [content : Contents, version : Versions, root : Versions] \union {NoDraft}

\* "sent" and "seen" are the page's and the server's version at the check, "way"
\* is how the save got past it, "root" what the content it sends goes back to;
\* a "lost" save is one whose page has gone.
Save == [pc : {"idle", "checking", "asking", "posting", "stored", "publishing", "lost"},
         publish : BOOLEAN,
         sent : Versions, seen : Versions,
         way : {"none", "checked", "confirmed", "unchecked"},
         body : Contents, new : Versions, root : Versions]

NoSave == [pc |-> "idle", publish |-> FALSE, sent |-> 0, seen |-> 0,
           way |-> "none", body |-> 0, new |-> 0, root |-> 0]

SavesAt(pcs) == {o \in Ops : save[o].pc \in pcs}

\* A dialog stops the mouse and the keyboard, the mask of a request only the mouse.
Ready == page.phase = "ready"
Keys == Ready /\ SavesAt({"asking"}) = {}
Mouse == Keys /\ SavesAt({"checking", "posting", "stored"}) = {}

Init ==
    /\ server = [content |-> 0, version |-> 0, own |-> FALSE]
    /\ draft = NoDraft
    /\ page = Fresh
    /\ save = [o \in Ops |-> NoSave]
    /\ used = [edits |-> 0, versions |-> 0, moves |-> 0]
    /\ phantoms = {}

-------------------------------------------------------------------------------
(* Opening the editor                                                      *)

\* initSnapShot
InitSnapShot(p) == [p EXCEPT !.times = -1, !.cached = FALSE, !.snaps = <<>>, !.index = 0]

\* A draft found in localStorage is offered first.
OpenEditor ==
    /\ page.phase = "closed"
    /\ page' = [InitSnapShot(page) EXCEPT
                    !.phase = IF draft = NoDraft THEN "opening" ELSE "asking"]
    /\ UNCHANGED <<server, draft, save, used, phantoms>>

\* Mutant: the recovered canvas takes the version the server has now.
UseDraftAsNewest ==
    /\ page.phase = "asking" /\ draft # NoDraft
    /\ page' = [page EXCEPT !.phase = "ready", !.cached = TRUE, !.marking = TRUE,
                            !.content = draft.content, !.version = server.version,
                            !.root = draft.root, !.clean = server.content]
    /\ UNCHANGED <<server, draft, save, used, phantoms>>

\* doUseCache(true): the draft is put on the canvas, with the version it was
\* edited from.  Half a second later, before any snapshot, canvasInit asks for the
\* first one.
UseDraft ==
    /\ page.phase = "asking" /\ draft # NoDraft
    /\ page' = [page EXCEPT !.phase = "ready", !.cached = TRUE, !.marking = TRUE,
                            !.content = draft.content, !.version = draft.version,
                            !.root = draft.root, !.clean = server.content]
    /\ UNCHANGED <<server, draft, save, used, phantoms>>

\* doUseCache(false), or the draft is gone by now.
RefuseDraft ==
    /\ page.phase = "asking"
    /\ page' = [page EXCEPT !.phase = "opening"]
    /\ draft' = NoDraft
    /\ UNCHANGED <<server, save, used, phantoms>>

\* initCanvasData, and canvasInit.
Loaded ==
    /\ page.phase = "opening"
    /\ page' = [page EXCEPT !.phase = "ready", !.cached = TRUE,
                            !.content = server.content, !.version = server.version,
                            !.root = server.version, !.clean = server.content]
    /\ UNCHANGED <<server, draft, save, used, phantoms>>

\* One and a half seconds after a recovery another snapshot is asked for: it makes
\* the recovered canvas savable.
MarkRecovered ==
    /\ Ready /\ page.marking
    /\ page' = [page EXCEPT !.marking = FALSE, !.cached = TRUE]
    /\ UNCHANGED <<server, draft, save, used, phantoms>>

-------------------------------------------------------------------------------
(* Editing                                                                 *)

\* Any change of the canvas with its recordSnapshotCache.
Edit ==
    /\ Keys /\ used.edits < MaxEdits
    /\ used' = [used EXCEPT !.edits = @ + 1]
    /\ page' = [page EXCEPT !.content = used.edits + 1, !.cached = TRUE]
    /\ UNCHANGED <<server, draft, save, phantoms>>

\* styleChangeTimes + 1
More(times) == IF times < 1 THEN times + 1 ELSE 1

\* Mutant: the new snapshot goes to the end, behind what was undone.
RecordAtEnd(p) ==
    [p EXCEPT !.times = More(@), !.cached = FALSE, !.late = FALSE,
              !.index = p.index + 1, !.snaps = Append(@, p.content)]

\* recordSnapshot: what comes after the new snapshot is cut off.
Record(p) ==
    [p EXCEPT !.times = More(@), !.cached = FALSE, !.late = FALSE,
              !.index = p.index + 1,
              !.snaps = Append(SubSeq(@, 1, p.index), p.content)]

\* Mutant: the draft is the snapshot before the new one.
DraftOfPrevious(p) ==
    [content |-> p.snaps[p.index - 1], version |-> p.version, root |-> p.root]

\* What a tab that comes next can recover.
DraftOf(p) == [content |-> p.content, version |-> p.version, root |-> p.root]

\* The timer: from the second snapshot on it is also the draft.
Tick ==
    /\ Ready /\ page.cached /\ ~page.frozen
    /\ LET p == Record(page)
       IN IF Len(p.snaps) > 1
          THEN page' = [p EXCEPT !.bare = FALSE] /\ draft' = DraftOf(p)
          ELSE page' = p /\ UNCHANGED draft
    /\ UNCHANGED <<server, save, used, phantoms>>

\* Mutant: an undo or redo is no change of style.
MoveUncounted(i) ==
    /\ Keys /\ used.moves < MaxMoves
    /\ i \in 1..Len(page.snaps)
    /\ used' = [used EXCEPT !.moves = @ + 1]
    /\ page' = [page EXCEPT !.index = i, !.content = page.snaps[i], !.frozen = TRUE]
    /\ UNCHANGED <<server, draft, save, phantoms>>

\* The snapshot is put on the canvas, but keeps the page's version, and no
\* snapshot is taken for three seconds.
Move(i) ==
    /\ Keys /\ used.moves < MaxMoves
    /\ i \in 1..Len(page.snaps)
    /\ used' = [used EXCEPT !.moves = @ + 1]
    /\ page' = [page EXCEPT !.index = i, !.content = page.snaps[i],
                            !.times = More(@), !.frozen = TRUE]
    /\ UNCHANGED <<server, draft, save, phantoms>>

Undo == Move(page.index - 1)
Redo == Move(page.index + 1)

\* snapshotDisableTime passes.
Thaw ==
    /\ page.frozen
    /\ page' = [page EXCEPT !.frozen = FALSE]
    /\ UNCHANGED <<server, draft, save, used, phantoms>>

-------------------------------------------------------------------------------
(* Saving                                                                  *)

Put(o, s) == save' = [save EXCEPT ![o] = s]
End(o) == Put(o, NoSave)

\* saveCanvasWithCheck, by Ctrl+S at any time or by the buttons; checkCanvasChangePre
\* sends the version the page knows.
SaveCanvasWithCheck(o, publish) ==
    /\ IF publish THEN Mouse ELSE Keys
    /\ save[o].pc = "idle"
    /\ Put(o, [NoSave EXCEPT !.pc = "checking", !.publish = publish,
                             !.sent = page.version, !.root = page.root])
    /\ UNCHANGED <<server, draft, page, used, phantoms>>

\* canvasSaveWithParams takes the canvas as it is now.
Post(o, way, publish) ==
    /\ used.versions < MaxSaves
    /\ used' = [used EXCEPT !.versions = @ + 1]
    /\ Put(o, [pc |-> "posting", publish |-> publish,
               sent |-> 0, seen |-> server.version, way |-> way,
               body |-> page.content, new |-> used.versions + 1, root |-> page.root])

\* saveResource: the draft goes first; without counted changes nothing is sent.
SaveResource(o, way) ==
    /\ draft' = NoDraft
    /\ page' = [page EXCEPT !.bare = TRUE]
    /\ IF page.times > 0 \/ save[o].publish
       THEN Post(o, way, save[o].publish)
       ELSE End(o) /\ UNCHANGED used

\* The server answers the check: "Repeat" if somebody else has saved.
CheckPassed(o) ==
    /\ save[o].pc = "checking" /\ save[o].sent = server.version
    /\ SaveResource(o, "checked")
    /\ UNCHANGED <<server, phantoms>>

CheckRepeat(o) ==
    /\ save[o].pc = "checking" /\ save[o].sent # server.version
    /\ Put(o, [save[o] EXCEPT !.pc = "asking"])
    /\ UNCHANGED <<server, draft, page, used, phantoms>>

\* An error status resolves to nothing, which is not "Repeat".
CheckBroken(o) ==
    /\ save[o].pc = "checking"
    /\ SaveResource(o, "unchecked")
    /\ UNCHANGED <<server, phantoms>>

\* The user is asked whether to overwrite.
Confirm(o) ==
    /\ save[o].pc = "asking"
    /\ SaveResource(o, "confirmed")
    /\ UNCHANGED <<server, phantoms>>

Decline(o) ==
    /\ save[o].pc = "asking"
    /\ End(o)
    /\ UNCHANGED <<server, draft, page, used, phantoms>>

\* The preview in a new window saves first, and checks nothing.
PreviewOuter(o) ==
    /\ Mouse /\ save[o].pc = "idle"
    /\ Post(o, "unchecked", FALSE)
    /\ UNCHANGED <<server, draft, page, phantoms>>

\* updateCanvas on the server.
Store(o) ==
    /\ save[o].pc \in {"posting", "lost"}
    /\ server' = [content |-> save[o].body, version |-> save[o].new, own |-> TRUE]
    /\ IF save[o].pc = "posting" THEN Put(o, [save[o] EXCEPT !.pc = "stored"]) ELSE End(o)
    /\ UNCHANGED <<draft, page, used, phantoms>>

\* What comes after a save that was answered: the page publishes, or is done.
GoOn(o) ==
    IF save[o].publish THEN Put(o, [NoSave EXCEPT !.pc = "publishing"]) ELSE End(o)

\* The content goes back to the newest version the page has sent.
Newer(v, w) == IF v < w THEN w ELSE v

\* Mutant: the page keeps the version it had.
AnsweredKeepsVersion(o) ==
    /\ save[o].pc = "stored"
    /\ page' = [page EXCEPT !.root = Newer(@, save[o].new),
                            !.times = 0, !.cached = FALSE, !.clean = save[o].body,
                            !.late = @ \/ page.cached \/ page.content # save[o].body]
    /\ GoOn(o)
    /\ UNCHANGED <<server, draft, used, phantoms>>

\* updateDvInfoCall and resetStyleChangeTimes: every change counts as saved,
\* also one made while the save was under way.
Answered(o) ==
    /\ save[o].pc = "stored"
    /\ page' = [page EXCEPT !.version = save[o].new, !.root = Newer(@, save[o].new),
                            !.times = 0, !.cached = FALSE, !.clean = save[o].body,
                            !.late = @ \/ page.cached \/ page.content # save[o].body]
    /\ phantoms' = IF save[o].new < page.root THEN phantoms \union {save[o].new}
                   ELSE phantoms
    /\ GoOn(o)
    /\ UNCHANGED <<server, draft, used>>

\* An error status while publishing: the status is known, the answer is not
\* looked at, and the page goes on as if it were saved.
AnsweredBroken(o) ==
    /\ save[o].pc = "posting" /\ save[o].publish
    /\ page' = [page EXCEPT !.version = save[o].new,
                            !.times = 0, !.cached = FALSE, !.late = TRUE]
    /\ phantoms' = phantoms \union {save[o].new}
    /\ GoOn(o)
    /\ UNCHANGED <<server, draft, used>>

\* updatePublishStatus is answered, with whatever status: initSnapShot.
Published(o) ==
    /\ save[o].pc = "publishing"
    /\ page' = [InitSnapShot(page) EXCEPT
                    !.late = @ \/ page.cached \/ page.content # page.clean]
    /\ End(o)
    /\ UNCHANGED <<server, draft, used, phantoms>>

\* A request is refused, or its answer is lost: nothing is reset.
Refused(o) ==
    /\ save[o].pc \in {"checking", "posting", "stored", "publishing", "lost"}
    /\ End(o)
    /\ UNCHANGED <<server, draft, page, used, phantoms>>

-------------------------------------------------------------------------------
(* Leaving, and the others                                                 *)

\* backToMain, after the warning if changes are counted.  Of the stores only what
\* opening does not set anew is left.
BackToMain ==
    /\ Mouse
    /\ draft' = NoDraft
    /\ page' = [Fresh EXCEPT !.frozen = page.frozen]
    /\ UNCHANGED <<server, save, used, phantoms>>

\* The tab is reloaded, closed or crashes: its stores are gone, what it has sent
\* may still reach the server.
Crash ==
    /\ page.phase # "closed"
    /\ page' = Fresh
    /\ save' = [o \in Ops |->
           IF save[o].pc \in {"posting", "lost"} THEN [save[o] EXCEPT !.pc = "lost"]
           ELSE NoSave]
    /\ UNCHANGED <<server, draft, used, phantoms>>

\* Another tab or another user saves.
OtherSaves ==
    /\ used.edits < MaxEdits /\ used.versions < MaxSaves
    /\ used' = [used EXCEPT !.edits = @ + 1, !.versions = @ + 1]
    /\ server' = [content |-> used.edits + 1, version |-> used.versions + 1,
                  own |-> FALSE]
    /\ UNCHANGED <<draft, page, save, phantoms>>

\* Another tab records a snapshot of its own canvas.
OtherRecords ==
    /\ used.edits < MaxEdits
    /\ used' = [used EXCEPT !.edits = @ + 1]
    /\ draft' = [content |-> used.edits + 1, version |-> server.version,
                 root |-> server.version]
    /\ page' = [page EXCEPT !.bare = TRUE]
    /\ UNCHANGED <<server, save, phantoms>>

\* Another tab saves, leaves or refuses the draft.
OtherDropsDraft ==
    /\ draft # NoDraft
    /\ draft' = NoDraft
    /\ page' = [page EXCEPT !.bare = TRUE]
    /\ UNCHANGED <<server, save, used, phantoms>>

User == OpenEditor \/ UseDraft \/ RefuseDraft \/ Edit \/ Undo \/ Redo \/ BackToMain

Clock == MarkRecovered \/ Tick \/ Thaw

Dialog(o) == Confirm(o) \/ Decline(o) \/ PreviewOuter(o)

Reply(o) ==
    \/ CheckPassed(o) \/ CheckRepeat(o) \/ CheckBroken(o)
    \/ Store(o) \/ Answered(o) \/ AnsweredBroken(o) \/ Published(o) \/ Refused(o)

Next ==
    \/ User \/ Clock \/ Loaded \/ Crash
    \/ \E o \in Ops, publish \in BOOLEAN : SaveCanvasWithCheck(o, publish)
    \/ \E o \in Ops : Dialog(o) \/ Reply(o)
    \/ OtherSaves \/ OtherRecords \/ OtherDropsDraft

Spec == Init /\ [][Next]_vars

-------------------------------------------------------------------------------
(* Properties                                                              *)

\* The undo index points into the history, and every field has its type.
TypeOK ==
    /\ server \in [content : Contents, version : Versions, own : BOOLEAN]
    /\ draft \in Draft
    /\ page \in Page
    /\ save \in [Ops -> Save]
    /\ phantoms \subseteq Versions
    /\ page.index \in 0..Len(page.snaps)

\* With no change waiting for the timer, the canvas shows the snapshot the index
\* points to: the next undo takes back one step, and a redo brings it back.  A
\* change made while a save was under way is the exception: the answer clears its
\* mark, and it may never enter the history.
HistoryShowsCanvas ==
    Ready /\ page.index > 0 /\ ~page.cached /\ ~page.late
        => page.snaps[page.index] = page.content

\* A page that lets the user leave without a warning, because it counts no change,
\* shows what it knows to be stored, undone and redone changes included; only in
\* these cases is work lost that way:
\*   - cached: the timer has not recorded the change yet, and the toolbar asks for
\*     the counter only (DbToolbar.vue 314);
\*   - late: the change was made while a save was under way, whose answer counts it
\*     as saved (resetStyleChangeTimes);
\*   - at most one snapshot: the counter begins at -1 (initSnapShot), so that the
\*     first snapshot counts nothing, after opening, after a recovery of a draft and
\*     after publishing.
CleanMeansSaved ==
    Ready /\ page.times <= 0 /\ page.content # page.clean
        => page.cached \/ page.late \/ Len(page.snaps) <= 1

\* If the page crashes now, the changes it has counted come back from the draft,
\* unless a save has taken it away or another tab has touched it.
DraftGuardsWork ==
    Ready /\ page.times > 0 /\ ~page.bare /\ Len(page.snaps) > 1
        => draft # NoDraft /\ draft.content = page.snaps[Len(page.snaps)]

\* The user is asked about changes of others only if the server has another
\* version than the one the page's content went back to at the check, unless a
\* failed publication or two saves answered in the wrong order made the page
\* believe in a version the server does not have.
ConflictIsReal ==
    [][\A o \in Ops :
         save[o].pc = "checking" /\ save'[o].pc = "asking" /\ save[o].sent \notin phantoms
             => server.version # save[o].root]_vars

\* A save that was let through by the check overwrites nothing of others that its
\* author has not seen, unless they saved between the check and the save.
OverwriteIsKnown ==
    [][\A o \in Ops :
         save[o].pc = "posting" /\ save'[o].pc = "stored" /\ save[o].way = "checked"
             => save[o].root = server.version \/ save[o].seen # server.version \/ server.own]_vars
===============================================================================
