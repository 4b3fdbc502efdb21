-------------------------------- MODULE Canvas --------------------------------
(***************************************************************************)
(* The tree of components of a data screen while it is edited: what the    *)
(* stores dvMain.ts, compose.ts, copy.ts and layer.ts do to it when the    *)
(* user selects, groups, ungroups, copies, cuts, pastes, deletes, moves    *)
(* components in the layers, drags them into a tab and out of it.          *)
(*                                                                         *)
(* A component is a number, in the order generateID hands them out.  The   *)
(* tree is the list of the main canvas and one list for each group and     *)
(* each tab; a DeTabs holds one tab here.  Positions, styles, charts and   *)
(* locks are left out.                                                     *)
(***************************************************************************)
EXTENDS Naturals, FiniteSets, SequencesExt

CONSTANTS
    Views,     \* the charts on the canvas to begin with
    MaxIds,    \* bound on the components ever made
    MaxEdits,  \* bound on the operations other than selecting
    MaxMarks   \* bound on the components selected together

ASSUME BoundAssumption == /\ Views \in Nat \ {0} /\ MaxEdits \in Nat /\ MaxMarks \in Nat
                          /\ MaxIds \in Nat /\ Views + 2 <= MaxIds

VARIABLES
    kids,     \* componentData, and the list inside each group and tab
    kind,     \* component.component
    at,       \* component.canvasId: Main, a tab, or g for Group-<g>
    origin,   \* of a group, the one it was copied from first, or itself (not in the code)
    last,     \* the last id handed out
    cur,      \* curComponent
    area,     \* areaData.components
    clip,     \* copyData
    pending,  \* the pastes whose interval is running, by the operation that began them
    stale,    \* a component was grouped twice at once, or one that is gone was
              \* grouped, taken apart or copied (not in the code)
    edits     \* the operations so far, other than selecting

vars == <<kids, kind, at, origin, last, cur, area, clip, pending, stale, edits>>

Ids == 1..MaxIds
Main == 0              \* canvas-main
None == 0              \* no current component
Frame == MaxIds + 1    \* the GroupArea drawn around a selection
Null == MaxIds + 2     \* a null in the list of components

Canvases == {Main} \cup Ids
NoClip == [roots |-> <<>>, kids |-> <<>>, at |-> <<>>]
NoPaste == [clip |-> NoClip, next |-> 0]

-----------------------------------------------------------------------------
(***************************************************************************)
(* The tree.                                                               *)
(***************************************************************************)

Step(k, S) == S \cup UNION {ToSet(k[c]) : c \in S \cap Ids}

\* S and what it holds: nothing is nested deeper than this.
Under(k, S) == Step(k, Step(k, S))

Elements(k) == Under(k, ToSet(k[Main])) \cap Ids

\* Where getCurInfoById looks: the main canvas, and one level below it.
FoundIn(o) == {c \in {Main} \cup (ToSet(kids[Main]) \cap Ids) : o \in ToSet(kids[c])}

\* The current component is nowhere getCurInfoById looks: it is gone, or it is in
\* a group in a tab, or in a tab in a group.
Astray == cur \in Ids /\ FoundIn(cur) = {}

\* Mutant: only the main canvas is looked at.
PlaceOnMain(o) == Main

\* A component that is not found is taken to be on the main canvas.
PlaceOf(o) == IF FoundIn(o) = {} THEN Main ELSE CHOOSE c \in FoundIn(o) : TRUE

Only(s, S) == FlattenSeq([i \in DOMAIN s |-> IF s[i] \in S THEN <<s[i]>> ELSE <<>>])

Without(s, S) == Only(s, ToSet(s) \ S)

\* Mutant: whatever a tab holds, it goes into a group.
JoinsAlways(o) == TRUE

\* A tab that holds a group may not go into a group, a group that holds a tab may
\* not go into a tab.
JoinsGroup(o) == kind[o] = "DeTabs" => \A c \in ToSet(kids[o]) : kind[c] # "Group"
JoinsTab(o) == kind[o] = "Group" => \A c \in ToSet(kids[o]) : kind[c] # "DeTabs"

\* The watch on the selection: two components or more get a frame, which becomes
\* the current component.
Select(k, a, c) ==
    /\ area' = a
    /\ kids' = [k EXCEPT ![Main] = IF Len(a) < 2 THEN Without(@, {Frame})
                                   ELSE IF Contains(@, Frame) THEN @ ELSE Append(@, Frame)]
    /\ cur' = IF Len(a) < 2 THEN c ELSE Frame

\* Every operation but selecting counts.
Counted == edits < MaxEdits /\ edits' = edits + 1

-----------------------------------------------------------------------------
(***************************************************************************)
(* Selecting.                                                              *)
(***************************************************************************)

\* A click on the canvas leaves the selection alone.  The selected components
\* themselves are covered, and are only taken out of the selection.
ClickOnCanvas(o) ==
    /\ o \in Elements(kids) \ ({cur} \cup ToSet(area))
    /\ area = <<>> \/ o \in ToSet(kids[Main])
    /\ cur' = o
    /\ UNCHANGED <<kids, kind, at, origin, last, area, clip, pending, stale, edits>>

ClickBeside ==
    /\ cur # None \/ area # <<>>
    /\ Select(kids, <<>>, None)
    /\ UNCHANGED <<kind, at, origin, last, clip, pending, stale, edits>>

\* Drawing a frame begins with a click beside the components.
RubberBand(S) ==
    /\ cur = None /\ area = <<>>
    /\ Cardinality(S) \in 2..MaxMarks
    /\ Select(kids, Only(kids[Main], S), None)
    /\ UNCHANGED <<kind, at, origin, last, clip, pending, stale, edits>>

\* With Ctrl the clicked component and the current one are selected.  On the
\* canvas the current component stays what it was, and a component may get into
\* the selection twice.
Marked(o, S) ==
    area \o Only(<<o>> \o (IF cur # o /\ cur \in Ids THEN <<cur>> ELSE <<>>),
                 {x \in S : at[x] = Main})

MarkOnCanvas(o) ==
    LET a == Marked(o, Ids)
    IN /\ o \in Elements(kids) \ ToSet(area)
       /\ Len(area) < Len(a) /\ Len(a) <= MaxMarks
       /\ Select(kids, a, cur)
       /\ UNCHANGED <<kind, at, origin, last, clip, pending, stale, edits>>

MarkInList(o) ==
    LET a == Marked(o, {x \in Ids : kind[x] # "DeTabs"})
    IN /\ o \in (ToSet(kids[Main]) \cap Ids) \ ToSet(area)
       /\ Len(a) <= MaxMarks
       /\ Select(kids, a, None)
       /\ UNCHANGED <<kind, at, origin, last, clip, pending, stale, edits>>

\* With Shift the layers from the last click to this one are selected, those that
\* are selected already not again.
MarkRange(i, j) ==
    LET a == area \o Only(SubSeq(kids[Main], i, j), {x \in Ids \ ToSet(area) : JoinsGroup(x)})
    IN /\ Len(area) < Len(a) /\ Len(a) <= MaxMarks
       /\ Select(kids, a, None)
       /\ UNCHANGED <<kind, at, origin, last, clip, pending, stale, edits>>

Unmark(o) ==
    /\ o \in ToSet(area)
    /\ Select(kids, RemoveFirst(area, o), cur)
    /\ UNCHANGED <<kind, at, origin, last, clip, pending, stale, edits>>

-----------------------------------------------------------------------------
(***************************************************************************)
(* Deleting, copying, cutting.  Nothing of it changes the current          *)
(* component: it may be one that is gone.                                  *)
(***************************************************************************)

\* The component at this index of this list; a component that is not found has
\* index 0 of the main canvas.
DropAt(c, o) ==
    LET s == kids[c]
    IN [kids EXCEPT ![c] = IF o \in ToSet(s) THEN RemoveFirst(s, o)
                           ELSE IF s = <<>> THEN s ELSE Tail(s)]

DeleteKey ==
    /\ cur # None
    /\ IF cur # Frame
       THEN kids' = DropAt(PlaceOf(cur), cur) /\ UNCHANGED <<area, cur>>
       ELSE Select([kids EXCEPT ![Main] = Without(@, ToSet(area))], <<>>, cur)
    /\ Counted
    /\ UNCHANGED <<kind, at, origin, last, clip, pending, stale>>

DeleteInMenu ==
    /\ cur # None \/ area # <<>>
    /\ Select(IF cur \in Ids
              THEN [kids EXCEPT ![PlaceOf(cur)] = Without(@, {cur})]
              ELSE [kids EXCEPT ![Main] = Without(@, ToSet(area))], <<>>, cur)
    /\ Counted
    /\ UNCHANGED <<kind, at, origin, last, clip, pending, stale>>

\* The current component, or else the selected ones.
Chosen == IF cur \in Ids THEN <<cur>> ELSE area

Gone == ~(ToSet(Chosen) \subseteq Elements(kids))

DeepCopy(roots) ==
    LET all == Under(kids, ToSet(roots))
    IN [roots |-> roots, kids |-> [o \in all |-> kids[o]], at |-> [o \in all |-> at[o]]]

Copy ==
    /\ Chosen # <<>>
    /\ clip' = DeepCopy(Chosen)
    /\ stale' = (stale \/ Gone)
    /\ Counted
    /\ UNCHANGED <<kids, kind, at, origin, last, cur, area, pending>>

\* The key cuts on the main canvas only, the menu wherever the component is found.
Cut(c) ==
    /\ Chosen # <<>>
    /\ clip' = DeepCopy(Chosen)
    /\ IF cur \in Ids
       THEN kids' = [kids EXCEPT ![c] = Without(@, {cur})] /\ UNCHANGED <<area, cur>>
       ELSE Select([kids EXCEPT ![Main] = Without(@, ToSet(area))], <<>>, cur)
    /\ stale' = (stale \/ Gone)
    /\ Counted
    /\ UNCHANGED <<kind, at, origin, last, pending>>

CutKey == Cut(Main)
CutInMenu == Cut(IF cur \in Ids THEN PlaceOf(cur) ELSE Main)

-----------------------------------------------------------------------------
(***************************************************************************)
(* Pasting: an interval adds one component at a time.  Nothing keeps the   *)
(* user from pasting again meanwhile.                                      *)
(***************************************************************************)

Paste ==
    /\ clip # NoClip
    /\ Counted
    /\ pending' = [pending EXCEPT ![edits'] = [clip |-> clip, next |-> 1]]
    /\ UNCHANGED <<kids, kind, at, origin, last, cur, area, clip, stale>>

\* Everything in the copy has a new id; what is in a tab names the new tab, and what
\* is in a group goes on naming the group it named.
Fresh(o, all) == last + Cardinality({x \in all : x <= o})

\* Mutant: what is in a copied tab keeps naming the old tab.
CopiedIdKept(p, new, was) == was

\* The canvasId of something in a copied container.
CopiedId(p, new, was) == IF kind[p] = "DeTabs" THEN new ELSE was

\* What was in a group goes to the main canvas; what was in a tab goes to that
\* tab, or nowhere when the tab is not on the main canvas.
PasteNext(n) ==
    LET c == pending[n].clip
        root == c.roots[pending[n].next]
        all == Under(c.kids, {root})
        new(o) == Fresh(o, all)
        made == {new(o) : o \in all}
        old == [m \in made |-> CHOOSE o \in all : new(o) = m]
        holder(o) == CHOOSE p \in all : o \in ToSet(c.kids[p])
        home == IF c.at[root] # Main /\ kind[c.at[root]] = "Group" THEN Main ELSE c.at[root]
        copied == [m \in Canvases |->
                     IF m \in made
                     THEN [i \in 1..Len(c.kids[old[m]]) |-> new(c.kids[old[m]][i])]
                     ELSE kids[m]]
    IN /\ pending[n] # NoPaste
       /\ last + Cardinality(all) <= MaxIds
       /\ last' = last + Cardinality(all)
       /\ kind' = [m \in Ids |-> IF m \in made THEN kind[old[m]] ELSE kind[m]]
       /\ origin' = [m \in Ids |-> IF m \in made THEN origin[old[m]] ELSE origin[m]]
       /\ at' = [m \in Ids |->
                   IF m \notin made THEN at[m]
                   ELSE IF m = new(root) THEN home
                   ELSE CopiedId(holder(old[m]), new(holder(old[m])), c.at[old[m]])]
       /\ kids' = IF home = Main \/ home \in ToSet(kids[Main])
                  THEN [copied EXCEPT ![home] = Append(@, new(root))]
                  ELSE copied
       /\ cur' = IF Len(c.roots) = 1 THEN new(root) ELSE cur
       /\ pending' = [pending EXCEPT ![n] = IF @.next = Len(c.roots) THEN NoPaste
                                            ELSE [clip |-> c, next |-> @.next + 1]]
       /\ UNCHANGED <<area, clip, stale, edits>>

-----------------------------------------------------------------------------
(***************************************************************************)
(* Grouping.                                                               *)
(***************************************************************************)

\* What of the selection goes into the new group: a group gives its components,
\* and a tab that holds a group is left out.
Joining ==
    FlattenSeq([i \in 1..Len(area) |->
                  IF kind[area[i]] = "Group" THEN kids[area[i]]
                  ELSE IF JoinsGroup(area[i]) THEN <<area[i]>> ELSE <<>>])

\* Mutant: only what was a group is taken off the main canvas.
TakenOutGroups(s) == Without(s, {o \in ToSet(area) : kind[o] = "Group"})

\* Every selected component is taken off the main canvas.
TakenOut(s) == Without(s, ToSet(area))

Compose ==
    LET g == last + 1
    IN /\ Len(area) > 1 /\ g <= MaxIds
       /\ last' = g
       /\ kind' = [kind EXCEPT ![g] = "Group"]
       /\ origin' = [origin EXCEPT ![g] = g]
       /\ at' = [o \in Ids |-> IF o = g THEN Main
                               ELSE IF o \in ToSet(Joining) THEN g ELSE at[o]]
       /\ Select([kids EXCEPT ![g] = Joining, ![Main] = Append(TakenOut(@), g)], <<>>, g)
       /\ stale' = (stale \/ Cardinality(ToSet(area) \cap Elements(kids)) < Len(area))
       /\ Counted
       /\ UNCHANGED <<clip, pending>>

\* One component is no group.
ComposeOne ==
    /\ Len(area) = 1
    /\ area' = <<>>
    /\ Counted
    /\ UNCHANGED <<kids, kind, at, origin, last, cur, clip, pending, stale>>

\* The group stays the current component, though it is gone.  Of a group that is
\* gone from a tab the canvas is not found and the handler fails.
Decompose ==
    LET c == at[cur]
    IN /\ cur \in Ids /\ kind[cur] = "Group"
       /\ c # Main => cur \in ToSet(kids[c]) /\ c \in Elements(kids)
       /\ kids' = [kids EXCEPT ![c] = Without(@, {cur}) \o kids[cur]]
       /\ at' = [o \in Ids |-> IF o \in ToSet(kids[cur]) THEN c ELSE at[o]]
       /\ stale' = (stale \/ Gone)
       /\ Counted
       /\ UNCHANGED <<kind, origin, last, cur, area, clip, pending>>

-----------------------------------------------------------------------------
(***************************************************************************)
(* Layers, and tabs.                                                       *)
(***************************************************************************)

Position(s, o) == IF Contains(s, o) THEN SelectLastInSeq(s, LAMBDA x : x = o) ELSE 1

Layer(s, i, move) ==
    CASE move = "up" /\ i < Len(s) -> [s EXCEPT ![i] = s[i + 1], ![i + 1] = s[i]]
      [] move = "down" /\ i > 1 -> [s EXCEPT ![i] = s[i - 1], ![i - 1] = s[i]]
      [] move = "top" /\ i < Len(s) -> Append(RemoveAt(s, i), IF Astray THEN Null ELSE cur)
      [] move = "bottom" /\ i > 1 -> <<cur>> \o RemoveAt(s, i)
      [] OTHER -> s

\* A component that is not found is moved as if it were the first of the main
\* canvas, and to the top as a null.
MoveLayer(move) ==
    LET c == PlaceOf(cur)
    IN /\ cur \in Ids
       /\ kids' = [kids EXCEPT ![c] = Layer(@, Position(@, cur), move)]
       /\ Counted
       /\ UNCHANGED <<kind, at, origin, last, cur, area, clip, pending, stale>>

\* Mutant: it may be dropped onto anything.
MoveInAnything(o, t) ==
    /\ {o, t} \subseteq (ToSet(kids[Main]) \cap Ids) \ ToSet(area)
    /\ o # t /\ kind[o] # "DeTabs" /\ JoinsTab(o)
    /\ kids' = [kids EXCEPT ![Main] = Without(@, {o}), ![t] = Append(@, o)]
    /\ at' = [at EXCEPT ![o] = t]
    /\ cur' = None
    /\ Counted
    /\ UNCHANGED <<kind, origin, last, area, clip, pending, stale>>

\* Dragging a component of the main canvas onto a tab.
MoveIn(o, t) ==
    /\ {o, t} \subseteq (ToSet(kids[Main]) \cap Ids) \ ToSet(area)
    /\ kind[t] = "DeTabs" /\ kind[o] # "DeTabs" /\ JoinsTab(o)
    /\ kids' = [kids EXCEPT ![Main] = Without(@, {o}), ![t] = Append(@, o)]
    /\ at' = [at EXCEPT ![o] = t]
    /\ cur' = None
    /\ Counted
    /\ UNCHANGED <<kind, origin, last, area, clip, pending, stale>>

\* Dragging a component out of a tab of the main canvas: it leaves the canvas it
\* names.
MoveOut(o, t) ==
    /\ t \in (ToSet(kids[Main]) \cap Ids) \ ToSet(area) /\ kind[t] = "DeTabs"
    /\ o \in ToSet(kids[t]) /\ JoinsTab(o)
    /\ kids' = IF at[o] \in Ids
               THEN [kids EXCEPT ![at[o]] = Without(@, {o}), ![Main] = Append(@, o)]
               ELSE [kids EXCEPT ![Main] = Append(@, o)]
    /\ at' = [at EXCEPT ![o] = Main]
    /\ cur' = None
    /\ Counted
    /\ UNCHANGED <<kind, origin, last, area, clip, pending, stale>>

-----------------------------------------------------------------------------
\* A screen that is opened: one chart, and a tab with a group of the others.
Init ==
    LET tab == Views + 1  group == Views + 2
    IN /\ kids = [c \in Canvases |-> CASE c = Main -> <<1, tab>>
                                       [] c = tab -> <<group>>
                                       [] c = group -> [i \in 1..(Views - 1) |-> i + 1]
                                       [] OTHER -> <<>>]
       /\ kind = [o \in Ids |-> CASE o <= Views -> "view"
                                  [] o = tab -> "DeTabs"
                                  [] o = group -> "Group"
                                  [] OTHER -> "free"]
       /\ at = [o \in Ids |-> CASE o \in 2..Views -> group
                                [] o = group -> tab
                                [] OTHER -> Main]
       /\ origin = [o \in Ids |-> o]
       /\ last = Views + 2
       /\ cur = None
       /\ area = <<>>
       /\ clip = NoClip
       /\ pending = [n \in 1..MaxEdits |-> NoPaste]
       /\ stale = FALSE
       /\ edits = 0

Selecting ==
    \/ \E o \in Ids : \/ ClickOnCanvas(o) \/ MarkOnCanvas(o) \/ MarkInList(o) \/ Unmark(o)
    \/ \E S \in SUBSET (ToSet(kids[Main]) \cap Ids) : RubberBand(S)
    \/ \E j \in 1..Len(kids[Main]) : \E i \in 1..j : MarkRange(i, j)
    \/ ClickBeside

Deleting == DeleteKey \/ DeleteInMenu \/ CutKey \/ CutInMenu

Moving ==
    \/ Compose \/ ComposeOne \/ Decompose
    \/ \E move \in {"up", "down", "top", "bottom"} : MoveLayer(move)
    \/ \E o, t \in Ids : MoveIn(o, t) \/ MoveOut(o, t)

\* The model ends where two components have one id, and where a null is among the
\* components, on which every handler fails.
Explored == ~stale /\ Null \notin ToSet(kids[Main])

Next == Explored /\ (Selecting \/ Deleting \/ Moving \/ Copy \/ Paste
                     \/ \E n \in 1..MaxEdits : PasteNext(n))

Spec == Init /\ [][Next]_vars

-----------------------------------------------------------------------------
(***************************************************************************)
(* Properties.                                                             *)
(***************************************************************************)

\* Every list, kind and selection has its type, only charts hold nothing, and what
\* is in the tree has been made before it got there.
TypeOK ==
    /\ kids \in [Canvases -> Seq(1..(MaxIds + 2))]
    /\ kind \in [Ids -> {"view", "DeTabs", "Group", "free"}]
    /\ at \in [Ids -> Canvases] /\ origin \in [Ids -> Ids]
    /\ last \in Views..MaxIds
    /\ cur \in {None, Frame} \cup Ids
    /\ area \in Seq(Ids) /\ Len(area) <= MaxMarks
    /\ \A o \in Elements(kids) : o <= last /\ kind[o] # "free"
    /\ \A o \in Ids : kind[o] = "view" => kids[o] = <<>>
    /\ stale \in BOOLEAN

\* Each component is in the tree once, whatever was grouped, taken apart, copied
\* and dragged, in whatever order -- unless a selection is grouped that names a
\* component twice (the current one, clicked with Ctrl before another one is) or
\* one that is gone, or a group is taken apart or copied that is gone (by
\* the keyboard shortcut held down).
IdsAreUnique ==
    LET lists == {Main} \cup Elements(kids)
    IN ~stale =>
       /\ \A c \in lists : Cardinality(ToSet(kids[c])) = Len(kids[c])
       /\ \A c, d \in lists : ToSet(kids[c]) \cap ToSet(kids[d]) # {} => c = d

\* A component names the canvas it is on: the main canvas, its tab, or its group.
\* Deleting it, dragging it, taking its group apart and pasting a copy of it all go
\* by that name.  One kind is let be, and what it names said exactly: the components
\* of a pasted group name the group that was copied, and those of a copy of that the
\* same one again, until the group they are in is taken apart or put into another.
CanvasIdIsRight ==
    ~stale =>
      \A c \in {Main} \cup Elements(kids) : \A o \in ToSet(kids[c]) \cap Ids :
        at[o] = IF c # Main /\ kind[c] = "Group" THEN origin[c] ELSE c

\* A group may hold a tab and a tab a group, and nothing deeper: no handler looks
\* further down.  Excepted as above: a group that is gone keeps its components,
\* which may have been given others since.
NestingIsShallow ==
    ~stale =>
    \A c \in Elements(kids) : \A o \in ToSet(kids[c]) :
        /\ kind[o] # kind[c]
        /\ \A p \in ToSet(kids[o]) : kind[p] = "view"

\* A chart or a tab leaves the screen only when the user deletes or cuts it, or
\* what holds it, as the current component or as part of the selection.  Two ways
\* in which the program loses others are let be: a tab with a group that is
\* selected when the selection is grouped, and a current component that is not
\* found.
OnlyDeletingLoses ==
    [][LET lost == {o \in Elements(kids) \ Elements(kids') : kind[o] # "Group"}
       IN \/ lost = {} \/ Astray
          \/ Deleting /\ lost \subseteq Under(kids, ({cur} \cup ToSet(area)) \cap Ids)
          \/ Compose /\ lost \subseteq Under(kids, {o \in ToSet(area) : ~JoinsGroup(o)})]_vars
=============================================================================
