------------------------------ MODULE Docking ------------------------------
(***************************************************************************)
(* The mouse and the docked windows: Workspace (sg/workspace.cc) with the  *)
(* two things a press can start, ToolWindowDragger and DockingResizer.     *)
(*                                                                         *)
(* The window system is outside: a message reaches the program while the   *)
(* pointer is over its window or while the program has captured the mouse, *)
(* which OnWndProc does at every press and gives up at every release,      *)
(* whichever the button.                                                   *)
(***************************************************************************)
EXTENDS DockingTree

CONSTANTS
  source_view_, stack_view_window_, watch_, locals_view_window_,
  breakpoints_, output_window_, log_window_,
  Buttons,        \* the mouse buttons that are used; 0 is the left one
  Fractions,      \* where a splitter can be dragged to
  Sizes,          \* sizes the user gives the application window
  Landscapes,     \* what IsLandscape() can answer
  MaxGestures     \* bound: drags started and resizings

ToolWindow == {stack_view_window_, watch_, locals_view_window_,
               breakpoints_, output_window_, log_window_}

\* Seven different windows, and room for the containers they need: a tree has
\* one fewer than it has windows.
ASSUME DockingAssumption ==
  /\ Leaf = ToolWindow \cup {source_view_}
  /\ source_view_ \notin ToolWindow
  /\ stack_view_window_ \notin {watch_, locals_view_window_, breakpoints_,
                                output_window_, log_window_}
  /\ watch_ \notin {locals_view_window_, breakpoints_, output_window_,
                    log_window_}
  /\ locals_view_window_ \notin {breakpoints_, output_window_, log_window_}
  /\ breakpoints_ \notin {output_window_, log_window_}
  /\ output_window_ # log_window_
  /\ MaxContainers + 1 >= Cardinality(Leaf)
  /\ MaxGestures \in Nat

VARIABLES
  tree,       \* main_area_
  draggable,  \* draggable_: None, a ToolWindowDragger or a DockingResizer
  held,       \* the buttons that are down
  captured,   \* the program has the mouse capture
  inside,     \* the pointer is over the application window
  stopped,    \* "no", or the null or dead object the program has called
  gestures,   \* drags started and resizings so far
  before,     \* history: the layout when the last window was picked up ...
  without     \* ... and the one left when it was taken out

vars == <<tree, draggable, held, captured, inside, stopped, gestures, before,
          without>>

---------------------------------------------------------------------------
(* Workspace::Init and the first SetScreenRect. *)

\* first->parent()->SplitChild(direction, first, second), where one of the two
\* is in the tree, followed by SetFraction on the container just made.
SplitAt(t, at, direction, first, second, fraction) ==
  LET split == SplitChild(t, t.parent[at], direction, first, second)
  IN  SetFraction(split, split.parent[at], fraction)

Landscape ==
  LET t0 == SetRoot(EmptyTree, source_view_)
      t1 == SplitAt(t0, source_view_, "horizontal",
                    source_view_, output_window_, 700)
      t2 == SplitAt(t1, output_window_, "vertical",
                    output_window_, log_window_, 600)
      t3 == SplitAt(t2, source_view_, "vertical",
                    source_view_, stack_view_window_, 375)
      t4 == SplitAt(t3, stack_view_window_, "vertical",
                    stack_view_window_, watch_, 500)
      t5 == SplitAt(t4, watch_, "horizontal",
                    watch_, locals_view_window_, 650)
  IN  SplitAt(t5, stack_view_window_, "horizontal",
              stack_view_window_, breakpoints_, 600)

\* The splits without a SetFraction keep the constructor's fraction.
Portrait ==
  LET t0 == SetRoot(EmptyTree, source_view_)
      t1 == SplitAt(t0, source_view_, "horizontal",
                    source_view_, output_window_, 750)
      t2 == SplitAt(t1, output_window_, "vertical",
                    output_window_, log_window_, 600)
      t3 == SplitAt(t2, log_window_, "horizontal",
                    breakpoints_, log_window_, Half)
      t4 == SplitAt(t3, source_view_, "vertical", source_view_, watch_, Half)
      t5 == SplitAt(t4, watch_, "horizontal",
                    watch_, locals_view_window_, Half)
  IN  SplitAt(t5, locals_view_window_, "horizontal",
              locals_view_window_, stack_view_window_, Half)

\* draggable_ is empty.
None == [kind |-> "none"]

Init ==
  /\ \E landscape \in Landscapes, size \in Sizes :
       tree = SetScreenRect(IF landscape THEN Landscape ELSE Portrait, Root,
                            <<size>>)
  /\ draggable = None
  /\ held = {} /\ captured = FALSE /\ inside = TRUE
  /\ stopped = "no" /\ gestures = 0
  /\ before = <<>> /\ without = <<>>

---------------------------------------------------------------------------
(* ToolWindowDragger *)

\* RefreshTargets: what gets indicators, the root of the workspace at its four
\* edges and each window of the tree at its centre.
TargetsOf(t) == {t.left[Root]} \cup DockTargets(t)

\* The four indicators of each: top, left, right and bottom.
Indicators(dockables) ==
  [dockable : dockables, direction : Direction, this_dockable_first : BOOLEAN]

\* Mutation: the targets are collected before the window is taken out.
NewDraggerEarly(t, w) ==
  LET c == t.parent[w]
  IN  [kind             |-> "window",
       dragging         |-> w,
       initial_rect     |-> t.rect[w],
       on_drop_target   |-> NULL,
       targets          |-> TargetsOf(t),
       cancel_sibling   |-> SiblingOf(t, w),
       cancel_direction |-> t.direction[c],
       cancel_fraction  |-> t.fraction[c],
       cancel_was_primary |-> t.left[c] = w]

\* The constructor: what it remembers of window w, found in tree t.
NewDragger(t, w) ==
  LET c == t.parent[w]
  IN  [kind             |-> "window",
       dragging         |-> w,
       initial_rect     |-> t.rect[w],
       on_drop_target   |-> NULL,
       targets          |-> TargetsOf(ReleaseChild(t, w)),
       cancel_sibling   |-> SiblingOf(t, w),
       cancel_direction |-> t.direction[c],
       cancel_fraction  |-> t.fraction[c],
       cancel_was_primary |-> t.left[c] = w]

\* Mutation: the window is not taken out of the place it was hovering at.
UndockForgets(t, d) == t

\* The first half of Drag: out of the place it was hovering at.
Undock(t, d) ==
  IF d.on_drop_target = NULL THEN t
  ELSE [ReleaseChild(t, d.dragging) EXCEPT !.rect[d.dragging] = d.initial_rect]

\* The second half: into the tree at the target under the pointer, if any.
DockAt(t, d, target) ==
  IF target = NULL THEN t
  ELSE LET at     == target.dockable
           first  == IF target.this_dockable_first THEN at ELSE d.dragging
           second == IF target.this_dockable_first THEN d.dragging ELSE at
       IN  SplitChild(t, t.parent[at], target.direction, first, second)

\* Mutation: the old fraction is not restored.
CancelDragHalf(t, d) ==
  LET s     == d.cancel_sibling
      first == IF d.cancel_was_primary THEN d.dragging ELSE s
      then  == IF d.cancel_was_primary THEN s ELSE d.dragging
  IN  SplitChild(t, t.parent[s], d.cancel_direction, first, then)

\* CancelDrag calls cancel_sibling_->parent(): the sibling must still exist
\* and still be in the tree.
SiblingInTree(t, d) == d.cancel_sibling \in InTree(t)

CancelDrag(t, d) ==
  LET s     == d.cancel_sibling
      first == IF d.cancel_was_primary THEN d.dragging ELSE s
      then  == IF d.cancel_was_primary THEN s ELSE d.dragging
      back  == SplitChild(t, t.parent[s], d.cancel_direction, first, then)
  IN  SetFraction(back, back.parent[s], d.cancel_fraction)

---------------------------------------------------------------------------
(* Workspace *)

\* Mutation: the test on on_drop_target_ is inverted.
CancelsDocked(d) ==
  /\ d.kind = "window"
  /\ d.on_drop_target # NULL

\* The destructor of draggable_ cancels only a window that is nowhere: a
\* resizer has been applied directly, a docked window stays where it is.
Cancels(d) ==
  /\ d.kind = "window"
  /\ d.on_drop_target = NULL

\* draggable_.reset(next), where `t' is the tree that the constructor of
\* `next' leaves: the old one is destroyed after the new one is made.
ResetDraggable(t, next) ==
  IF Cancels(draggable) /\ ~SiblingInTree(t, draggable)
  THEN /\ stopped' = "sibling"
       /\ UNCHANGED <<tree, draggable>>
  ELSE /\ tree' = IF Cancels(draggable) THEN CancelDrag(t, draggable) ELSE t
       /\ draggable' = next
       /\ UNCHANGED stopped

\* A press on the title bar of a tool window.
PickUp(w) ==
  /\ gestures < MaxGestures
  /\ w \in InTree(tree)
  /\ ResetDraggable(ReleaseChild(tree, w), NewDragger(tree, w))
  /\ gestures' = gestures + 1
  /\ before' = Layout(tree)
  /\ without' = Layout(ReleaseChild(tree, w))

\* A press on the splitter of a container.
GrabSplitter(c) ==
  /\ gestures < MaxGestures
  /\ ResetDraggable(tree, [kind |-> "splitter", resizing |-> c])
  /\ gestures' = gestures + 1
  /\ UNCHANGED <<before, without>>

\* A press elsewhere goes to the window under the pointer, which is null when
\* the pointer is outside: FindTopMostUnderPoint, then target->...
ClickContents ==
  /\ stopped' = IF inside THEN stopped ELSE "target"
  /\ UNCHANGED <<tree, draggable, gestures, before, without>>

Delivered == captured \/ inside

Press(b) ==
  /\ b \notin held
  /\ held' = held \cup {b}
  /\ captured' = (captured \/ Delivered)
  /\ UNCHANGED inside
  /\ IF Delivered /\ b = 0
     THEN \/ inside /\ \E w \in ToolWindow : PickUp(w)
          \/ inside /\ \E c \in Alive(tree) : GrabSplitter(c)
          \/ ClickContents
     ELSE UNCHANGED <<tree, draggable, stopped, gestures, before, without>>

\* Mutation: the release of a button does not give up the capture.
ReleaseCaptured(b) ==
  /\ b \in held
  /\ held' = held \ {b}
  /\ UNCHANGED <<captured, inside, gestures>>
  /\ IF Delivered /\ b = 0 /\ draggable # None
     THEN /\ ResetDraggable(tree, None)
          /\ before' = <<>> /\ without' = <<>>
     ELSE UNCHANGED <<tree, draggable, stopped, before, without>>

Release(b) ==
  /\ b \in held
  /\ held' = held \ {b}
  /\ captured' = (captured /\ ~Delivered)
  /\ UNCHANGED <<inside, gestures>>
  /\ IF Delivered /\ b = 0 /\ draggable # None
     THEN /\ ResetDraggable(tree, None)
          /\ before' = <<>> /\ without' = <<>>
     ELSE UNCHANGED <<tree, draggable, stopped, before, without>>

\* A drop target is inside the workspace.
DragWindow ==
  LET out == Undock(tree, draggable)
  IN  \E target \in {NULL} \cup
                    (IF inside' THEN Indicators(draggable.targets) ELSE {}) :
        /\ tree' = DockAt(out, draggable, target)
        /\ draggable' = [draggable EXCEPT !.on_drop_target = target]

DragSplitter ==
  /\ \E f \in Fractions : tree' = SetFraction(tree, draggable.resizing, f)
  /\ UNCHANGED draggable

Move ==
  /\ inside' \in BOOLEAN
  /\ IF draggable = None \/ ~(captured \/ inside')
     THEN UNCHANGED <<tree, draggable>>
     ELSE \/ draggable.kind = "window" /\ DragWindow
          \/ draggable.kind = "splitter" /\ DragSplitter
  /\ UNCHANGED <<held, captured, stopped, gestures, before, without>>

\* WM_SIZE.
Resize ==
  /\ gestures < MaxGestures
  /\ \E size \in Sizes : tree' = SetScreenRect(tree, Root, <<size>>)
  /\ gestures' = gestures + 1
  /\ UNCHANGED <<draggable, held, captured, inside, stopped, before, without>>

Next ==
  /\ stopped = "no"
  /\ \/ \E b \in Buttons : Press(b) \/ Release(b)
     \/ Move
     \/ Resize

Spec == Init /\ [][Next]_vars

---------------------------------------------------------------------------
(* Properties *)

Dragging == draggable.kind = "window"
Hovering == Dragging /\ draggable.on_drop_target # NULL
Loose == IF Dragging /\ ~Hovering THEN {draggable.dragging} ELSE {}

TypeOK ==
  /\ tree.left \in [Split -> Node \cup {NULL}]
  /\ tree.right \in [Split -> Node \cup {NULL}]
  /\ tree.parent \in [Node -> Split \cup {NULL}]
  /\ tree.direction \in [Split -> Direction]
  /\ \A n \in Node : tree.rect[n] = <<>> \/ Head(tree.rect[n]) \in Sizes
  /\ Dragging => /\ draggable.dragging \in ToolWindow
                 /\ draggable.on_drop_target \in
                      {NULL} \cup Indicators(draggable.targets)
  /\ held \subseteq Buttons
  /\ captured \in BOOLEAN /\ inside \in BOOLEAN
  /\ stopped \in {"no", "sibling", "target"}
  /\ gestures \in 0..MaxGestures

\* Every pointer of the tree has its counterpart: a node's parent has it as one
\* of its children, a child's parent is the container that holds it, a container
\* has two different children and is in the tree as long as it exists, and the
\* root has one.  SplitChild, Replace and ReleaseChild move the owning and the
\* plain pointers in separate statements.
TreeLinked ==
  /\ \A n \in InTree(tree) : n \in ChildrenOf(tree, tree.parent[n])
  /\ \A c \in Split : \A n \in ChildrenOf(tree, c) : tree.parent[n] = c
  /\ Alive(tree) = Container \cap InTree(tree)
  /\ \A c \in Alive(tree) : tree.right[c] \notin {NULL, tree.left[c]}
  /\ tree.left[Root] # NULL /\ tree.right[Root] = NULL

\* No window is lost: each is in the tree, or it is the one being dragged.
NoWindowLost == Leaf \ InTree(tree) = Loose

\* Docking and undocking make and delete containers in step: the tree has one
\* fewer than it has windows.
NoContainerLeaked ==
  Cardinality(Alive(tree)) + 1 = Cardinality(DockTargets(tree))

\* Nobody shows a stale rectangle: each node has the one its parent, with its
\* present direction and fraction, gives it.
RectsCurrent ==
  \A n \in InTree(tree) :
    LET c == tree.parent[n]
    IN  tree.rect[n] = ChildRect(tree, c, n, tree.rect[c])

\* A window that is dragged over any number of targets and is over none now
\* has left no trace: the others lie where they lay when it was taken out.
HoverLeavesNoTrace == Loose # {} => Layout(tree) = without

\* While it hovers at one window, no other window has moved.
HoverMovesTargetOnly ==
  Hovering /\ draggable.on_drop_target.dockable \in Leaf =>
    \A n \in DockTargets(tree) \ {draggable.dragging,
                                  draggable.on_drop_target.dockable} :
      Tail(tree.rect[n]) = without[n]

\* A drag that ends over no target puts the window back: same neighbour, same
\* order, same direction and fraction, all windows where they were, though the
\* container they were in has been deleted and another one made.
CancelRestores ==
  [][Loose # {} /\ draggable' = None => Layout(tree') = before]_vars

\* What a drag remembers by pointer, the sibling and every target, or the
\* container whose splitter it holds, is in the tree for as long as the drag may
\* use it, whatever the drag itself has made and deleted.
RememberedInTree ==
  draggable # None =>
    IF Dragging
    THEN draggable.targets \cup {draggable.cancel_sibling} \subseteq InTree(tree)
    ELSE draggable.resizing \in Alive(tree)

\* The program never calls a window that is not there.
NeverStopped == stopped = "no"

\* tool_window_dragger.cc:178: CancelDrag reinserts the window "at "old"
\* location, based on saved information".
CancelFindsSibling == stopped # "sibling"
=============================================================================
