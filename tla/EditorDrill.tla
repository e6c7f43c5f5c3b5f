---------------------------- MODULE EditorDrill ----------------------------
(***************************************************************************)
(* Drilling through a node's page in the editor: lanes of frames in the    *)
(* reducer of drill-context, what DrillStack shows of them, the breadcrumb *)
(* (DrillBreadcrumb) and the panel of nearby nodes (NearbyPanel).          *)
(*                                                                         *)
(* The page shows one frame: the one the pointer peeks at, if any, else    *)
(* the last of the active lane.  Hovering a nearby node that no lane holds *)
(* adds it to the active lane as a preview.  Indexes count from 1.         *)
(***************************************************************************)
EXTENDS Integers, Sequences, SequencesExt, FiniteSets

CONSTANTS Uids, Paths, MaxIds, MaxFrames, None

DrillAssumption ==
  /\ Paths \subseteq Seq(Uids) /\ MaxIds \in Nat /\ MaxFrames \in Nat
  /\ None \notin Uids \cup Nat \cup [lane : Nat, index : Nat]

VARIABLES
  root,      \* the node of the page's URL
  lanes,     \* the lanes, in order: their id and the uids of their frames
  active,    \* activeLaneId
  preview,   \* previewLaneId
  peek,      \* what the pointer peeks at, a lane's id and an index
  counter,   \* laneCounter
  astray     \* a peek outlived what it pointed at

vars == <<root, lanes, active, preview, peek, counter, astray>>

Lane(id, frames) == [id |-> id, frames |-> frames]
PeekAt(id, index) == [lane |-> id, index |-> index]

LaneIds == {lanes[i].id : i \in DOMAIN lanes}

\* lanes.find(...) ?? lanes[0]
LaneOf(id) == IF id \in LaneIds THEN lanes[CHOOSE i \in DOMAIN lanes : lanes[i].id = id] ELSE lanes[1]

ActiveIndex == Len(LaneOf(active).frames)

VisualId == IF peek = None THEN active ELSE peek.lane
VisualIndex == IF peek = None THEN ActiveIndex ELSE peek.index
VisualFrames == LaneOf(VisualId).frames

\* The node on the page, or none.
Visible == IF VisualIndex \in DOMAIN VisualFrames THEN VisualFrames[VisualIndex] ELSE None

Init ==
  /\ root \in Uids
  /\ lanes = << Lane(1, <<root>>) >> /\ active = 1 /\ counter = 1
  /\ preview = None /\ peek = None /\ astray = FALSE

-----------------------------------------------------------------------------
(* The reducer: what each action makes of the lanes. *)

Extended(id, frames) ==
  [i \in DOMAIN lanes |-> IF lanes[i].id = id THEN [lanes[i] EXCEPT !.frames = @ \o frames] ELSE lanes[i]]

\* Mutant: the frame popped to goes as well.
PoppedBelow(id, index) ==
  [i \in DOMAIN lanes |->
     IF lanes[i].id = id THEN [lanes[i] EXCEPT !.frames = SubSeq(@, 1, index - 1)] ELSE lanes[i]]

Popped(id, index) ==
  [i \in DOMAIN lanes |->
     IF lanes[i].id = id THEN [lanes[i] EXCEPT !.frames = SubSeq(@, 1, IF index < Len(@) THEN index ELSE Len(@))]
                         ELSE lanes[i]]

WithoutPreview ==
  IF preview = None THEN lanes
  ELSE [i \in DOMAIN lanes |-> IF lanes[i].id = preview THEN [lanes[i] EXCEPT !.frames = Front(@)] ELSE lanes[i]]

EXTEND(id, frames) ==
  /\ lanes' = Extended(id, frames) /\ active' = id /\ preview' = None
  /\ UNCHANGED counter

CREATE(frames) ==
  /\ counter < MaxIds /\ counter' = counter + 1
  /\ lanes' = Append(lanes, Lane(counter + 1, frames))
  /\ active' = counter + 1 /\ preview' = None

\* A fork keeps the frames up to the index and goes on from there.
FORK(from, index, frames) ==
  IF from \in LaneIds
    THEN CREATE(SubSeq(LaneOf(from).frames, 1, index) \o frames)
    ELSE counter' = counter + 1 /\ UNCHANGED <<lanes, active, preview>>

POP_TO(id, index) ==
  /\ lanes' = Popped(id, index) /\ active' = id /\ preview' = None
  /\ UNCHANGED counter

SWITCH(id) == active' = id /\ UNCHANGED <<lanes, preview, counter>>

\* The lanes but the one closed: ids differ.
CLOSE(id) ==
  LET remaining == RemoveAt(lanes, CHOOSE i \in DOMAIN lanes : lanes[i].id = id)
  IN  /\ preview' = None
      /\ IF remaining = << >>
           THEN /\ counter < MaxIds /\ counter' = counter + 1
                /\ lanes' = << Lane(counter + 1, <<root>>) >> /\ active' = counter + 1
           ELSE /\ lanes' = remaining /\ active' = IF active = id THEN remaining[1].id ELSE active
                /\ UNCHANGED counter

\* Any preview goes first; a uid the lane holds already is not added again.
Holds(ls, id, u) == \E i \in DOMAIN ls : ls[i].id = id /\ u \in ToSet(ls[i].frames)

PREVIEW(u) ==
  /\ IF Holds(WithoutPreview, active, u)
       THEN lanes' = WithoutPreview /\ preview' = None
       ELSE /\ lanes' = [i \in DOMAIN lanes |->
                           IF lanes[i].id = active
                             THEN [WithoutPreview[i] EXCEPT !.frames = Append(@, u)]
                             ELSE WithoutPreview[i]]
            /\ preview' = active
  /\ UNCHANGED <<active, counter>>

CLEAR_PREVIEW == lanes' = WithoutPreview /\ preview' = None /\ UNCHANGED <<active, counter>>

-----------------------------------------------------------------------------
(* What the user does. *)

\* Another active lane ends a peek (an effect of DrillStack).
Peeks(p) == peek' = IF active' # active THEN None ELSE p

\* scopedDrillIn: show a uid of the lane, extend the lane's tip, or fork.
DrillIn(u) ==
  /\ Visible # None
  /\ IF u \in ToSet(VisualFrames)
       THEN /\ peek' = PeekAt(LaneOf(VisualId).id, CHOOSE i \in DOMAIN VisualFrames :
                                 VisualFrames[i] = u /\ \A j \in 1..(i - 1) : VisualFrames[j] # u)
            /\ UNCHANGED <<lanes, active, preview, counter>>
       ELSE /\ IF VisualIndex < Len(VisualFrames)
                 THEN FORK(VisualId, VisualIndex, <<u>>)
                 ELSE EXTEND(VisualId, <<u>>)
            /\ Peeks(None)
  /\ UNCHANGED <<root, astray>>

\* scopedDrillPath: a lane that has the path, a lane it goes on from, or a new lane.
HasPrefix(frames, path) == Len(path) <= Len(frames) /\ SubSeq(frames, 1, Len(path)) = path

Desired(path) == SubSeq(VisualFrames, 1, VisualIndex) \o path

\* The longest lane that the path goes on from, the first of several.
Best(path) ==
  LET prefixes == {i \in DOMAIN lanes : HasPrefix(path, lanes[i].frames)}
  IN  CHOOSE i \in prefixes : \A j \in prefixes :
        \/ Len(lanes[i].frames) > Len(lanes[j].frames)
        \/ Len(lanes[i].frames) = Len(lanes[j].frames) /\ i <= j

\* Mutant: the frame the lane ends with is added again.
OneTooMany(path, frames) == SubSeq(path, Len(frames), Len(path))

\* The frames that are missing from the lane.
Remaining(path, frames) == SubSeq(path, Len(frames) + 1, Len(path))

DrillPath(path) ==
  LET wanted == Desired(path)
      having == {i \in DOMAIN lanes : HasPrefix(lanes[i].frames, wanted)}
  IN  /\ Visible # None
      /\ IF having # {}
           THEN LET lane == lanes[CHOOSE i \in having : \A j \in having : i <= j]
                IN  IF Len(lane.frames) > Len(wanted)
                      THEN POP_TO(lane.id, Len(wanted))
                      ELSE SWITCH(lane.id)
           ELSE IF \E i \in DOMAIN lanes : HasPrefix(wanted, lanes[i].frames)
             THEN LET lane == lanes[Best(wanted)]
                  IN  EXTEND(lane.id, Remaining(wanted, lane.frames))
             ELSE CREATE(wanted)
      /\ Peeks(None)
      /\ UNCHANGED <<root, astray>>

\* The page of a node that was deleted gives way to the frame before it.
\* Its lane may be gone when the answer comes.
AfterDelete(id, index) ==
  /\ POP_TO(id, index)
  /\ Peeks(None)
  /\ astray' = (astray \/ id \notin LaneIds)
  /\ UNCHANGED root

\* Escape ends a peek, else leaves the last frame of the active lane.
Escape ==
  /\ IF peek # None
       THEN peek' = None /\ UNCHANGED <<lanes, active, preview, counter>>
       ELSE ActiveIndex > 1 /\ POP_TO(active, ActiveIndex - 1) /\ Peeks(peek)
  /\ UNCHANGED <<root, astray>>

\* The breadcrumb does not show the preview.  Hovering a frame peeks at it.
Crumbs == [i \in DOMAIN lanes |-> WithoutPreview[i]]

\* Lanes that begin alike share a frame: it stands for the active lane, if
\* it is one of them, else for the first.
Sharing(i, index) ==
  {j \in DOMAIN lanes : HasPrefix(Crumbs[j].frames, SubSeq(Crumbs[i].frames, 1, index))}

StandsFor(i, index) ==
  \/ lanes[i].id = active
  \/ \A j \in Sharing(i, index) : lanes[j].id # active /\ i <= j

Hover(i, index) ==
  /\ index \in DOMAIN Crumbs[i].frames /\ StandsFor(i, index)
  /\ peek' = PeekAt(lanes[i].id, index)
  /\ UNCHANGED <<root, lanes, active, preview, counter, astray>>

\* The page of another node starts over (RESET).
OpenPage(u) ==
  /\ root' = u
  /\ IF u = root
       THEN UNCHANGED <<lanes, active, preview, counter>>
       ELSE lanes' = << Lane(1, <<u>>) >> /\ active' = 1 /\ counter' = 1 /\ preview' = None

\* A click pops to the hovered frame; the active one opens its own page,
\* which starts over, but for a peek in a lane of the same id.
Click(i) ==
  /\ peek # None /\ peek.lane = lanes[i].id
  /\ peek.index \in DOMAIN Crumbs[i].frames
  /\ IF active = lanes[i].id /\ peek.index = ActiveIndex
       THEN OpenPage(Visible)
       ELSE POP_TO(lanes[i].id, peek.index) /\ UNCHANGED root
  /\ Peeks(peek)
  /\ astray' = (astray \/ (peek' # None /\ root' # root))

\* Offered while there are several lanes.
Close(i) ==
  /\ Len(lanes) > 1
  /\ CLOSE(lanes[i].id)
  /\ Peeks(peek)
  /\ astray' = (astray \/ (peek' # None /\ peek'.lane = lanes[i].id))
  /\ UNCHANGED root

\* Hovering a nearby node peeks at its frame, the first in the first lane,
\* after any preview is cleared, or previews it.  Leaving it changes nothing.
Nearby(u) ==
  LET holding == {i \in DOMAIN lanes : u \in ToSet(lanes[i].frames)}
  IN  /\ IF holding # {}
           THEN LET lane  == lanes[CHOOSE i \in holding : \A j \in holding : i <= j]
                    index == CHOOSE i \in DOMAIN lane.frames :
                               lane.frames[i] = u /\ \A j \in 1..(i - 1) : lane.frames[j] # u
                IN  /\ CLEAR_PREVIEW
                    /\ peek' = PeekAt(lane.id, index)
                    /\ astray' = (astray \/ (lane.id = preview /\ index = Len(lane.frames)))
           ELSE PREVIEW(u) /\ peek' = None /\ UNCHANGED astray
      /\ UNCHANGED root

\* A click on a nearby node ends peek and preview and opens its page.
Open(u) ==
  /\ IF u = root THEN CLEAR_PREVIEW /\ UNCHANGED root ELSE OpenPage(u)
  /\ peek' = None
  /\ UNCHANGED astray

Next ==
  /\ \/ \E u \in Uids : DrillIn(u) \/ Nearby(u) \/ Open(u)
     \/ \E path \in Paths : DrillPath(path)
     \/ \E id \in 1..counter, index \in 1..MaxFrames : AfterDelete(id, index)
     \/ Escape
     \/ \E i \in DOMAIN lanes : Click(i) \/ Close(i) \/ \E index \in 1..MaxFrames : Hover(i, index)
  /\ \A i \in DOMAIN lanes' : Len(lanes'[i].frames) <= MaxFrames

-----------------------------------------------------------------------------
TypeOK ==
  /\ root \in Uids
  /\ \A i \in DOMAIN lanes : lanes[i].frames \in Seq(Uids) /\ lanes[i].id \in 1..counter
  /\ preview \in {None} \cup (1..counter)

\* Lanes have ids of their own, start at the page's node, and clearing a
\* preview, always the last frame of a lane that holds its uid once, never
\* takes the root away.
LanesAreWhole ==
  /\ \A i, j \in DOMAIN lanes : lanes[i].id = lanes[j].id => i = j
  /\ lanes # << >>
  /\ \A i \in DOMAIN lanes : lanes[i].frames # << >> /\ lanes[i].frames[1] = root
  /\ preview # None /\ ~astray =>
       /\ preview \in LaneIds
       /\ Len(LaneOf(preview).frames) > 1
       /\ Last(LaneOf(preview).frames) \notin ToSet(Front(LaneOf(preview).frames))

\* The page shows a frame of an existing lane, unless a peek outlived its
\* frame: a nearby node hovered twice, a page opened from the breadcrumb,
\* a hovered lane closed, a lane closed while its node was being deleted.
SomethingIsShown == ~astray => Visible # None /\ active \in LaneIds

\* A drill leads to its target along the frames that were shown, and no lane
\* loses a frame to it unless it went further along the same path.
DrillsLead ==
  [][ \A path \in Paths : DrillPath(path) /\ ~astray =>
        /\ LaneOf(active)'.frames = Desired(path)
        /\ \A i \in DOMAIN lanes : \E j \in DOMAIN lanes' :
             HasPrefix(lanes'[j].frames, lanes[i].frames) \/ HasPrefix(lanes[i].frames, Desired(path)) ]_vars

\* Without the exception: not so, the page goes blank.
SomethingIsAlwaysShown == Visible # None
=============================================================================
