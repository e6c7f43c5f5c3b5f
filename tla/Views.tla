------------------------------- MODULE Views -------------------------------
(***************************************************************************)
(* A custom view of the editor (CustomView.tsx) and the element it shows:  *)
(* a web component that wraps a React or a Svelte component (react.ts,     *)
(* svelte.ts).  The element may mount its component only when the framework*)
(* is imported, and may have been removed, put back or given other data    *)
(* until then.  Awaited imports of one element answer in their order.      *)
(***************************************************************************)
EXTENDS Naturals, Sequences

CONSTANTS
  Frameworks,   \* \subseteq {"react", "svelte"}
  Values,       \* data of the record shown
  None,
  MaxElements,  \* bound: elements created
  MaxChanges,   \* bound: changes of tag or data, moves and removals
  MaxFaults     \* bound: imports and components that fail

VARIABLES
  elements,  \* sequence of elements created; see Element
  elementRef, \* element that CustomView gives data to, 0 for none
  loaded,    \* frameworks that were imported
  changes, faults

vars == <<elements, elementRef, loaded, changes, faults>>

\* connected: in the document (_mounted); props, instance: _props and _instance of
\* svelte.ts, _root of react.ts; live: the component trees that are mounted, with
\* `shows` what the one of `instance` renders; jobs: what follows awaited imports.
Element == [framework : Frameworks, connected : BOOLEAN, data : Values \cup {None},
            props : Values \cup {None}, instance : Nat, live : SUBSET Nat, mounts : Nat,
            shows : Values \cup {None}, failed : BOOLEAN, jobs : Seq({"mount", "unmount"})]

New(framework) ==
  [framework |-> framework, connected |-> FALSE, data |-> None, props |-> None, instance |-> 0,
   live |-> {}, mounts |-> 0, shows |-> None, failed |-> FALSE, jobs |-> <<>>]

Await(el, job) == [el EXCEPT !.jobs = Append(@, job)]

Unmount(el) == [el EXCEPT !.live = @ \ {el.instance}, !.shows = None]

-----------------------------------------------------------------------------
(* The element's own callbacks, each without an await.                      *)

Connected(el) == Await([el EXCEPT !.connected = TRUE], "mount")

\* React's root is unmounted at once, Svelte's instance after an import.
Disconnected(el) ==
  LET out == [el EXCEPT !.connected = FALSE]
  IN  IF el.instance = 0 THEN out
      ELSE IF el.framework = "react" THEN [Unmount(out) EXCEPT !.instance = 0]
      ELSE Await(out, "unmount")

\* Props that exist are changed in place: the tree that has them follows.
SetData(el, v) ==
  LET given == [el EXCEPT !.data = v]
  IN  IF el.framework = "svelte" /\ el.props # None
      THEN [given EXCEPT !.props = v, !.shows = IF el.instance \in el.live THEN v ELSE @]
      ELSE IF el.connected THEN Await(given, "mount") ELSE given

-----------------------------------------------------------------------------
(* What follows an import.                                                  *)

\* Mutant: the tree that is there is left to itself.
MountAnother(el) ==
  [el EXCEPT !.props = el.data, !.mounts = @ + 1, !.instance = el.mounts + 1,
             !.live = @ \cup {el.mounts + 1}, !.shows = el.data, !.failed = FALSE]

\* Svelte mounts anew, React renders into the root it has.
Mount(el) ==
  IF el.framework = "react" /\ el.instance # 0
  THEN [el EXCEPT !.shows = el.data, !.failed = FALSE]
  ELSE [el EXCEPT !.props = el.data, !.mounts = @ + 1, !.instance = el.mounts + 1,
                  !.live = (@ \ {el.instance}) \cup {el.mounts + 1},
                  !.shows = el.data, !.failed = FALSE]

\* A component that throws: React keeps the empty root, Svelte the props it was
\* given and the instance it has just unmounted.
MountThrows(el) ==
  IF el.framework = "react"
  THEN LET tree == IF el.instance # 0 THEN el.instance ELSE el.mounts + 1
       IN  [el EXCEPT !.mounts = IF el.instance # 0 THEN @ ELSE @ + 1, !.instance = tree,
                      !.live = {tree}, !.shows = None, !.failed = TRUE]
  ELSE [Unmount(el) EXCEPT !.props = el.data, !.failed = TRUE]

\* Mutant: the component is mounted although the element was removed meanwhile.
MountsAnyway(el) == TRUE

\* The second look at _mounted, after the import.
StillThere(el) == el.connected

Unmounted(el) ==
  IF el.instance = 0 THEN el ELSE [Unmount(el) EXCEPT !.instance = 0, !.props = None]

Done(el) == [el EXCEPT !.jobs = Tail(@)]

-----------------------------------------------------------------------------

Init == elements = <<>> /\ elementRef = 0 /\ loaded = {} /\ changes = 0 /\ faults = 0

Change == changes < MaxChanges /\ changes' = changes + 1 /\ UNCHANGED <<loaded, faults>>

\* container.innerHTML = '': whatever element is in the document leaves it.
Emptied ==
  [i \in DOMAIN elements |->
     IF elements[i].connected THEN Disconnected(elements[i]) ELSE elements[i]]

\* The effect of CustomView: another tag takes another element, which is in the
\* document before it has data.
Show(framework, v) ==
  /\ Change
  /\ IF elementRef # 0 /\ elements[elementRef].framework = framework
     THEN elements' = [elements EXCEPT ![elementRef] = SetData(@, v)] /\ UNCHANGED elementRef
     ELSE /\ Len(elements) < MaxElements
          /\ elements' = Append(Emptied, SetData(Connected(New(framework)), v))
          /\ elementRef' = Len(elements) + 1

\* A tag nobody registered: the element is forgotten, and stays until the parent
\* has switched to JSON or the tag changes again.
ShowUnregistered == elementRef # 0 /\ Change /\ elementRef' = 0 /\ UNCHANGED elements

\* CustomView goes, and all it contains.
Leave ==
  /\ \E i \in DOMAIN elements : elements[i].connected
  /\ Change
  /\ elements' = Emptied
  /\ elementRef' = 0

\* A list is sorted anew: its items leave the document and come back at once.
Move ==
  /\ Change
  /\ \E i \in DOMAIN elements : elements[i].connected
  /\ elements' = [i \in DOMAIN elements |->
                    IF elements[i].connected THEN Connected(Disconnected(elements[i]))
                    ELSE elements[i]]
  /\ UNCHANGED elementRef

Fault == faults < MaxFaults /\ faults' = faults + 1

Resume(i) ==
  LET el == elements[i]
      next == Done(el)
  IN  /\ el.jobs # <<>>
      /\ \/ /\ elements' = [elements EXCEPT ![i] =
                 IF Head(el.jobs) = "unmount" THEN Unmounted(next)
                 ELSE IF StillThere(el) THEN Mount(next) ELSE next]
            /\ loaded' = loaded \cup {el.framework}
            /\ UNCHANGED faults
         \/ /\ Fault /\ Head(el.jobs) = "mount" /\ StillThere(el)
            /\ elements' = [elements EXCEPT ![i] = MountThrows(next)]
            /\ loaded' = loaded \cup {el.framework}
      /\ UNCHANGED <<elementRef, changes>>

\* The module cannot be loaded, and nothing follows; once loaded, it is there.
ImportFails(i) ==
  /\ elements[i].jobs # <<>> /\ elements[i].framework \notin loaded
  /\ Fault
  /\ elements' = [elements EXCEPT ![i] = [Done(@) EXCEPT !.failed = TRUE]]
  /\ UNCHANGED <<elementRef, loaded, changes>>

Next ==
  \/ \E framework \in Frameworks, v \in Values : Show(framework, v)
  \/ ShowUnregistered
  \/ Leave
  \/ Move
  \/ \E i \in DOMAIN elements : Resume(i) \/ ImportFails(i)

Spec == Init /\ [][Next]_vars

-----------------------------------------------------------------------------

TypeOK ==
  /\ \A i \in DOMAIN elements : elements[i] \in Element
  /\ elementRef \in 0..Len(elements)
  /\ loaded \subseteq Frameworks

\* An element has at most one component tree, which is the one it will unmount;
\* what it would unmount is mounted, but for a component that threw.
OneTree ==
  \A i \in DOMAIN elements :
    LET el == elements[i]
    IN  /\ el.live \subseteq {el.instance}
        /\ el.instance # 0 => el.failed \/ el.live # {}

\* Whatever was changed while imports were awaited: after the last of them, an
\* element in the document shows the data it was given last, unless its component
\* threw or could not be loaded, and one that left it has nothing mounted.
SettledElementsShow ==
  \A i \in DOMAIN elements :
    LET el == elements[i]
    IN  el.jobs = <<>> =>
          IF el.connected THEN el.failed \/ (el.live # {} /\ el.shows = el.data)
          ELSE el.live = {}

\* Only the element that CustomView gives data to is in the document, or one it has
\* forgotten for an unregistered tag.
OneElement ==
  /\ \A i, j \in DOMAIN elements : elements[i].connected /\ elements[j].connected => i = j
  /\ elementRef # 0 => elements[elementRef].connected

=============================================================================
