--------------------------- MODULE DockingProofs ---------------------------
(***************************************************************************)
(* Whatever the user does with the mouse, the tree of docked windows stays *)
(* well-formed, no window is lost, no rectangle is stale, and what a drag  *)
(* remembers is in the tree.  With one button, the program never calls a   *)
(* window that is gone, a drag leaves no trace where it has passed, and    *)
(* one that is cancelled puts everything back.                             *)
(***************************************************************************)
EXTENDS Docking, DockingTreeProofs

\* What is known of a drag d in tree t: the objects it refers to are in the
\* tree, the window it drags is not one of them, and while the window hovers,
\* neither is the container made for it.
SplitterOK(t, d) ==
  /\ d # None
  /\ d.kind = "splitter"
  /\ d.resizing \in Alive(t)

WindowOK(t, d) ==
  /\ d.kind = "window"
  /\ d = [field \in {"kind", "dragging", "initial_rect", "on_drop_target",
                     "targets", "cancel_sibling", "cancel_direction",
                     "cancel_fraction", "cancel_was_primary"} |-> d[field]]
  /\ d.dragging \in ToolWindow
  /\ d.cancel_direction \in Direction
  /\ d.targets \subseteq InTree(t) /\ d.dragging \notin d.targets
  /\ d.cancel_sibling \in InTree(t) /\ d.dragging # d.cancel_sibling
  /\ d.on_drop_target = NULL => d.dragging \notin InTree(t)
  /\ d.on_drop_target # NULL =>
       /\ d.dragging \in InTree(t)
       /\ t.parent[d.dragging] \in Container
       /\ t.parent[d.dragging] \notin d.targets \cup {d.cancel_sibling}

DragOK(t, d) == d = None \/ SplitterOK(t, d) \/ WindowOK(t, d)

\* The windows that a drag d keeps out of the tree.
OutFor(d) ==
  IF d.kind = "window" /\ d.on_drop_target = NULL THEN {d.dragging} ELSE {}

\* Tree and drag fit together.
Sound(t, d) == WellFormed(t) /\ DragOK(t, d) /\ Leaf \ InTree(t) = OutFor(d)

\* The inductive invariant.
IInv == Sound(tree, draggable)

---------------------------------------------------------------------------
(* The layouts the program starts with *)

\* The container that SplitChild makes is in the tree.
LEMMA SplitParent ==
  ASSUME NEW t, WellFormed(t), Unused(t) # {}, NEW x \in InTree(t),
         NEW w \in Leaf, w \notin InTree(t), NEW d \in Direction,
         NEW first, NEW second,
         \/ first = x /\ second = w
         \/ first = w /\ second = x
  PROVE  LET u == SplitChild(t, t.parent[x], d, first, second)
         IN  u.parent[x] \in Container /\ u.parent[x] \in InTree(u)
<1> DEFINE u   == SplitChild(t, t.parent[x], d, first, second)
           new == Fresh(t)
<1>1. /\ WellFormed(u)
      /\ new \in Container \ InTree(t)
      /\ InTree(u) = InTree(t) \cup {w, new}
      /\ DockTargets(u) = DockTargets(t) \cup {w}
      /\ u.parent[w] = new /\ u.parent[x] = new
  BY SMTT(60), SplitWellFormed
<1> HIDE DEF u, new
<1> QED  BY <1>1 DEF u

\* A tree that Workspace::Init builds: its rectangles, if any, are of a size
\* of the application window.
Neat(t) == Framed(t) /\ RectsIn(t, Sizes)
\* Such a tree, and well-formed.
Built(t) == WellFormed(t) /\ Neat(t)

\* SplitAt makes room for one window and leaves the others in the tree.
LEMMA SplitNeat ==
  ASSUME NEW t, Built(t), Unused(t) # {}, NEW x \in InTree(t),
         NEW w \in Leaf, w \notin InTree(t), NEW d \in Direction,
         NEW first, NEW second,
         \/ first = x /\ second = w
         \/ first = w /\ second = x
  PROVE  Neat(SplitChild(t, t.parent[x], d, first, second))
<1>1. WellFormed(t) /\ Framed(t) /\ RectsIn(t, Sizes)
  BY DEF Built, Neat
<1>2. \/ first = x /\ second = w
      \/ first = w /\ second = x
  OBVIOUS
<1> QED  BY <1>1, <1>2, SplitFramed DEF Neat

\* One split of Workspace::Init brings one window into the tree.
LEMMA OneMore ==
  ASSUME NEW t, Built(t), NEW at, at \in DockTargets(t),
         NEW w \in Leaf, w \notin DockTargets(t), NEW d \in Direction,
         NEW first, NEW second, NEW f,
         \/ first = at /\ second = w
         \/ first = w /\ second = at
  PROVE  LET u == SplitAt(t, at, d, first, second, f)
         IN  Built(u) /\ DockTargets(u) = DockTargets(t) \cup {w}
<1> DEFINE split == SplitChild(t, t.parent[at], d, first, second)
<1>1. at \in InTree(t) /\ w \notin InTree(t) /\ WellFormed(t)
  BY DEF DockTargets, Built
<1>2. Unused(t) # {}
  BY <1>1, RoomLeft, DockingAssumption
<1>3. \/ first = at /\ second = w
      \/ first = w /\ second = at
  OBVIOUS
<1>4. /\ WellFormed(split)
      /\ DockTargets(split) = DockTargets(t) \cup {w}
  <2>1. WellFormed(split)
    BY <1>1, <1>2, <1>3, SplitWellFormed
  <2>2. DockTargets(split) = DockTargets(t) \cup {w}
    BY <1>1, <1>2, <1>3, SplitWellFormed
  <2> QED  BY <2>1, <2>2
<1>5. split.parent[at] \in Container
  BY <1>1, <1>2, <1>3, SplitParent
<1>6. Neat(split)
  BY <1>1, <1>2, <1>3, SplitNeat
<1>7. SplitAt(t, at, d, first, second, f) =
        SetFraction(split, split.parent[at], f)
  BY DEF SplitAt
<1> HIDE DEF split
<1> DEFINE u == SetFraction(split, split.parent[at], f)
<1>8. WellFormed(u) /\ DockTargets(u) = DockTargets(split)
  BY <1>4, FractionSet
<1>9. Neat(u)
  BY <1>4, <1>5, <1>6, FractionFramed, Kinds DEF Neat
<1> QED  BY <1>4, <1>7, <1>8, <1>9 DEF Built

\* The tree with the source view alone, which has no size yet.
LEMMA OneBuilt ==
  ASSUME NEW w \in Leaf
  PROVE  Built(SetRoot(EmptyTree, w))
<1> DEFINE e  == EmptyTree
           t1 == [e EXCEPT !.left[Root] = w]
           t2 == SetScreenRect(t1, w, e.rect[Root])
           u  == [t2 EXCEPT !.parent[w] = Root]
<1>1. SetRoot(EmptyTree, w) = u
  BY DEF SetRoot
<1>2. /\ e.left = [c \in Split |-> NULL] /\ e.right = [c \in Split |-> NULL]
      /\ e.parent = [n \in Node |-> NULL]
      /\ e.fraction = [c \in Split |-> Half] /\ e.rect = [n \in Node |-> <<>>]
      /\ Shaped(e)
  <2>1. e = [field \in {"left", "right", "parent", "direction", "fraction",
                        "rect"} |-> e[field]]
    BY DEF EmptyTree
  <2> QED  BY <2>1 DEF Shaped, EmptyTree, Direction
<1> HIDE DEF e
<1>3. /\ t1.parent = e.parent /\ t1.fraction = e.fraction /\ t1.rect = e.rect
      /\ Shaped(t1)
  BY <1>2, Kinds DEF Shaped
<1> HIDE DEF t1
<1>4. Ranked(t1)
  <2>1. RankOf(t1, [n \in Node |-> 0])
    BY <1>2, <1>3 DEF RankOf
  <2> QED  BY <2>1 DEF Ranked
<1>5. Framed(t1) /\ RectsIn(t1, Sizes) /\ RectIn(e.rect[Root], Sizes)
  BY <1>2, <1>3, Kinds DEF Framed, RectsIn, RectIn
<1>6. Neat(t2) /\ Shaped(t2)
  BY <1>3, <1>4, <1>5, RectsStayIn, OnlyRects DEF Neat
<1> HIDE DEF t2
<1>7. u.fraction = t2.fraction /\ u.rect = t2.rect
  BY <1>6 DEF Shaped
<1>8. Neat(u)
  BY <1>6, <1>7 DEF Neat, Framed, RectsIn
<1> HIDE DEF u
<1> QED  BY <1>1, <1>8, OneWindow DEF Built

\* What Workspace::Init builds holds every window.
LEMMA LandscapeOK == Built(Landscape) /\ DockTargets(Landscape) = Leaf
<1> DEFINE t0 == SetRoot(EmptyTree, source_view_)
           t1 == SplitAt(t0, source_view_, "horizontal",
                         source_view_, output_window_, 700)
           t2 == SplitAt(t1, output_window_, "vertical",
                         output_window_, log_window_, 600)
           t3 == SplitAt(t2, source_view_, "vertical",
                         source_view_, stack_view_window_, 375)
           t4 == SplitAt(t3, stack_view_window_, "vertical",
                         stack_view_window_, watch_, 500)
           t5 == SplitAt(t4, watch_, "horizontal",
                         watch_, locals_view_window_, 650)
           t6 == SplitAt(t5, stack_view_window_, "horizontal",
                         stack_view_window_, breakpoints_, 600)
<1>1. Landscape = t6
  BY DEF Landscape
<1>2. ToolWindow \subseteq Leaf /\ source_view_ \in Leaf
  BY DockingAssumption
<1>3. "horizontal" \in Direction /\ "vertical" \in Direction
  BY DEF Direction
<1>4. Built(t0) /\ DockTargets(t0) = {source_view_}
  BY <1>2, OneWindow, OneBuilt
<1> HIDE DEF t0
<1>5. Built(t1) /\ DockTargets(t1) = {source_view_, output_window_}
  BY <1>2, <1>3, <1>4, OneMore, DockingAssumption DEF ToolWindow
<1> HIDE DEF t1
<1>6. /\ Built(t2)
      /\ DockTargets(t2) = {source_view_, output_window_, log_window_}
  BY <1>2, <1>3, <1>5, OneMore, DockingAssumption DEF ToolWindow
<1> HIDE DEF t2
<1>7. /\ Built(t3)
      /\ DockTargets(t3) = {source_view_, output_window_, log_window_,
                            stack_view_window_}
  BY <1>2, <1>3, <1>6, OneMore, DockingAssumption DEF ToolWindow
<1> HIDE DEF t3
<1>8. /\ Built(t4)
      /\ DockTargets(t4) = {source_view_, output_window_, log_window_,
                            stack_view_window_, watch_}
  BY <1>2, <1>3, <1>7, OneMore, DockingAssumption DEF ToolWindow
<1> HIDE DEF t4
<1>9. /\ Built(t5)
      /\ DockTargets(t5) = {source_view_, output_window_, log_window_,
                            stack_view_window_, watch_, locals_view_window_}
  BY <1>2, <1>3, <1>8, OneMore, DockingAssumption DEF ToolWindow
<1> HIDE DEF t5
<1>10. /\ Built(t6)
       /\ DockTargets(t6) = {source_view_, output_window_, log_window_,
                             stack_view_window_, watch_, locals_view_window_,
                             breakpoints_}
  BY <1>2, <1>3, <1>9, OneMore, DockingAssumption DEF ToolWindow
<1> HIDE DEF t6
<1> QED  BY <1>1, <1>10, DockingAssumption DEF ToolWindow

\* And so in portrait.
LEMMA PortraitOK == Built(Portrait) /\ DockTargets(Portrait) = Leaf
<1> DEFINE t0 == SetRoot(EmptyTree, source_view_)
           t1 == SplitAt(t0, source_view_, "horizontal",
                         source_view_, output_window_, 750)
           t2 == SplitAt(t1, output_window_, "vertical",
                         output_window_, log_window_, 600)
           t3 == SplitAt(t2, log_window_, "horizontal",
                         breakpoints_, log_window_, Half)
           t4 == SplitAt(t3, source_view_, "vertical",
                         source_view_, watch_, Half)
           t5 == SplitAt(t4, watch_, "horizontal",
                         watch_, locals_view_window_, Half)
           t6 == SplitAt(t5, locals_view_window_, "horizontal",
                         locals_view_window_, stack_view_window_, Half)
<1>1. Portrait = t6
  BY DEF Portrait
<1>2. ToolWindow \subseteq Leaf /\ source_view_ \in Leaf
  BY DockingAssumption
<1>3. "horizontal" \in Direction /\ "vertical" \in Direction
  BY DEF Direction
<1>4. Built(t0) /\ DockTargets(t0) = {source_view_}
  BY <1>2, OneWindow, OneBuilt
<1> HIDE DEF t0
<1>5. Built(t1) /\ DockTargets(t1) = {source_view_, output_window_}
  BY <1>2, <1>3, <1>4, OneMore, DockingAssumption DEF ToolWindow
<1> HIDE DEF t1
<1>6. /\ Built(t2)
      /\ DockTargets(t2) = {source_view_, output_window_, log_window_}
  BY <1>2, <1>3, <1>5, OneMore, DockingAssumption DEF ToolWindow
<1> HIDE DEF t2
<1>7. /\ Built(t3)
      /\ DockTargets(t3) = {source_view_, output_window_, log_window_,
                            breakpoints_}
  BY <1>2, <1>3, <1>6, OneMore, DockingAssumption DEF ToolWindow
<1> HIDE DEF t3
<1>8. /\ Built(t4)
      /\ DockTargets(t4) = {source_view_, output_window_, log_window_,
                            breakpoints_, watch_}
  BY <1>2, <1>3, <1>7, OneMore, DockingAssumption DEF ToolWindow
<1> HIDE DEF t4
<1>9. /\ Built(t5)
      /\ DockTargets(t5) = {source_view_, output_window_, log_window_,
                            breakpoints_, watch_, locals_view_window_}
  BY <1>2, <1>3, <1>8, OneMore, DockingAssumption DEF ToolWindow
<1> HIDE DEF t5
<1>10. /\ Built(t6)
       /\ DockTargets(t6) = {source_view_, output_window_, log_window_,
                             breakpoints_, watch_, locals_view_window_,
                             stack_view_window_}
  BY <1>2, <1>3, <1>9, OneMore, DockingAssumption DEF ToolWindow
<1> HIDE DEF t6
<1> QED  BY <1>1, <1>10, DockingAssumption DEF ToolWindow

\* The program starts with a sound tree and no drag.
LEMMA InitIInv == Init => IInv
<1> SUFFICES ASSUME Init PROVE IInv
  OBVIOUS
<1>1. PICK landscape \in Landscapes, size \in Sizes :
        tree = SetScreenRect(IF landscape THEN Landscape ELSE Portrait, Root,
                             <<size>>)
  BY DEF Init
<1>2. WellFormed(tree) /\ DockTargets(tree) = Leaf
  BY <1>1, LandscapeOK, PortraitOK, LaidOut DEF Built
<1>3. draggable = None /\ draggable.kind = "none"
  BY DEF Init, None
<1>4. Leaf \ InTree(tree) = OutFor(draggable)
  BY <1>2, <1>3 DEF OutFor, DockTargets
<1> QED  BY <1>2, <1>3, <1>4 DEF IInv, Sound, DragOK

---------------------------------------------------------------------------
(* What a drag does to the tree *)

\* A container exists as long as it hangs in the tree, and the root's child
\* hangs in it.
LEMMA TreeFacts ==
  ASSUME NEW t, WellFormed(t)
  PROVE  Alive(t) = Container \cap InTree(t) /\ t.left[Root] \in InTree(t)
<1>1. Alive(t) = Container \cap InTree(t)
  BY Kinds DEF Alive, InTree, WellFormed, Linked
<1>2. t.left[Root] \in Node
  BY Kinds DEF WellFormed, Shaped, Linked
<1>3. t.parent[t.left[Root]] = Root
  BY <1>2, Kinds DEF WellFormed, Linked
<1> QED  BY <1>1, <1>2, <1>3, Kinds DEF InTree

\* What only moves rectangles disturbs no drag.
LEMMA SameForDrag ==
  ASSUME NEW t, NEW d, NEW u, Sound(t, d), WellFormed(u),
         InTree(u) = InTree(t), Alive(u) = Alive(t), u.parent = t.parent
  PROVE  Sound(u, d)
BY DEF Sound, DragOK, SplitterOK, WindowOK

\* CancelDrag brings the window back, and nothing else moves out or in.
LEMMA Cancelled ==
  ASSUME NEW t, NEW d, WellFormed(t),
         d.dragging \in Leaf, d.dragging \notin InTree(t),
         d.cancel_sibling \in InTree(t), d.cancel_direction \in Direction
  PROVE  LET u == CancelDrag(t, d)
         IN  /\ WellFormed(u)
             /\ InTree(t) \subseteq InTree(u)
             /\ Leaf \ InTree(u) = (Leaf \ InTree(t)) \ {d.dragging}
<1> DEFINE s     == d.cancel_sibling
           w     == d.dragging
           first == IF d.cancel_was_primary THEN w ELSE s
           then  == IF d.cancel_was_primary THEN s ELSE w
           new   == Fresh(t)
           back  == SplitChild(t, t.parent[s], d.cancel_direction, first, then)
<1>1. \/ first = s /\ then = w
      \/ first = w /\ then = s
  OBVIOUS
<1>2. CancelDrag(t, d) =
        SetFraction(back, back.parent[s], d.cancel_fraction)
  BY DEF CancelDrag
<1>3. Unused(t) # {}
  BY RoomLeft, DockingAssumption
<1> DEFINE dir == d.cancel_direction
<1>4. s \in InTree(t) /\ w \in Leaf /\ w \notin InTree(t) /\ dir \in Direction
  OBVIOUS
<1>5. back = SplitChild(t, t.parent[s], dir, first, then)
  OBVIOUS
<1> HIDE DEF first, then, back, s, w, dir
<1>6. /\ new \in Container \ InTree(t)
      /\ WellFormed(SplitChild(t, t.parent[s], dir, first, then))
  BY <1>1, <1>3, <1>4, SplitWellFormed
<1>7. InTree(SplitChild(t, t.parent[s], dir, first, then))
        = InTree(t) \cup {w, new}
  BY <1>1, <1>3, <1>4, SplitWellFormed
<1>8. WellFormed(back) /\ InTree(back) = InTree(t) \cup {w, new}
  BY <1>5, <1>6, <1>7
<1>9. /\ WellFormed(CancelDrag(t, d))
      /\ InTree(CancelDrag(t, d)) = InTree(t) \cup {w, new}
  BY <1>2, <1>8, FractionSet
<1> QED  BY <1>6, <1>9, Kinds DEF w

\* A window can always be taken out of the tree, the source view being in it,
\* and what the drag remembers then hangs in what is left.
LEMMA PickedUp ==
  ASSUME NEW t, NEW d, Sound(t, d), NEW w \in ToolWindow, w \in InTree(t)
  PROVE  LET u == ReleaseChild(t, w)
             n == NewDragger(t, w)
         IN  /\ WellFormed(u)
             /\ WindowOK(u, n)
             /\ n.kind = "window" /\ n.on_drop_target = NULL
             /\ n.dragging = w /\ t.parent[w] \in Container
             /\ Leaf \ InTree(u) = (Leaf \ InTree(t)) \cup {w}
<1> DEFINE u == ReleaseChild(t, w)
           n == NewDragger(t, w)
           c == t.parent[w]
<1>1. source_view_ \in Leaf /\ w \in Leaf /\ source_view_ # w
  BY DockingAssumption
<1>2. WellFormed(t)
  BY DEF Sound
<1>3. source_view_ \in InTree(t)
  BY <1>1, DockingAssumption DEF Sound, OutFor, DragOK, WindowOK, SplitterOK,
     None
<1>4. c \in Container
  BY <1>1, <1>2, <1>3, NotUnderRoot
<1>5. /\ WellFormed(u)
      /\ InTree(u) = InTree(t) \ {w, c}
      /\ SiblingOf(t, w) \in InTree(u)
  BY <1>1, <1>2, <1>4, ReleaseWellFormed
<1>6. TargetsOf(u) \subseteq InTree(u)
  BY <1>5, TreeFacts DEF TargetsOf, DockTargets
<1>7. t.direction[c] \in Direction
  BY <1>2, <1>4, Kinds DEF WellFormed, Shaped
<1>8. /\ n.kind = "window" /\ n.dragging = w /\ n.on_drop_target = NULL
      /\ n.targets = TargetsOf(u) /\ n.cancel_sibling = SiblingOf(t, w)
      /\ n.cancel_direction = t.direction[c]
      /\ n = [field \in {"kind", "dragging", "initial_rect", "on_drop_target",
                         "targets", "cancel_sibling", "cancel_direction",
                         "cancel_fraction", "cancel_was_primary"} |-> n[field]]
  BY DEF NewDragger
<1> HIDE DEF u, n, c
<1>9. WindowOK(u, n)
  BY <1>5, <1>6, <1>7, <1>8 DEF WindowOK
<1>10. Leaf \ InTree(u) = (Leaf \ InTree(t)) \cup {w}
  BY <1>1, <1>4, <1>5, Kinds
<1> QED  BY <1>4, <1>5, <1>8, <1>9, <1>10 DEF u, n, c

\* The first half of ToolWindowDragger::Drag: the window is in no place, and
\* what the drag remembers is still in the tree.
LEMMA Undocked ==
  ASSUME NEW t, NEW d, Sound(t, d), d.kind = "window"
  PROVE  LET out == Undock(t, d)
         IN  /\ WindowOK(t, d) /\ d.dragging \in Leaf
             /\ WellFormed(out)
             /\ d.targets \cup {d.cancel_sibling} \subseteq InTree(out)
             /\ Leaf \ InTree(out) = {d.dragging}
             /\ d.dragging \notin d.targets \cup {d.cancel_sibling}
<1> DEFINE w   == d.dragging
           rel == ReleaseChild(t, w)
           out == Undock(t, d)
           kept == d.targets \cup {d.cancel_sibling}
<1>1. WindowOK(t, d) /\ WellFormed(t)
  BY DEF Sound, DragOK, SplitterOK, None
<1>2. w \in ToolWindow /\ w \in Leaf /\ w \notin kept
  BY <1>1, DockingAssumption DEF WindowOK
<1>3. /\ WellFormed(out) /\ kept \subseteq InTree(out)
      /\ Leaf \ InTree(out) = {w}
  <2>1. CASE d.on_drop_target = NULL
    BY <1>1, <2>1 DEF Undock, WindowOK, Sound, OutFor
  <2>2. CASE d.on_drop_target # NULL
    <3>1. /\ w \in InTree(t) /\ t.parent[w] \in Container
          /\ t.parent[w] \notin kept /\ kept \subseteq InTree(t)
          /\ Leaf \ InTree(t) = {}
      BY <1>1, <2>2 DEF WindowOK, Sound, OutFor
    <3>2. /\ WellFormed(rel)
          /\ InTree(rel) = InTree(t) \ {w, t.parent[w]}
      BY <1>1, <1>2, <3>1, ReleaseWellFormed
    <3>3. out = [rel EXCEPT !.rect[w] = d.initial_rect]
      BY <2>2 DEF Undock
    <3> HIDE DEF rel, out, w
    <3>4. /\ Shaped(out) /\ out.left = rel.left /\ out.right = rel.right
          /\ out.parent = rel.parent
      BY <3>2, <3>3 DEF WellFormed, Shaped
    <3>5. WellFormed(out) /\ InTree(out) = InTree(rel)
      BY <3>2, <3>4, SameLinks
    <3> QED  BY <1>2, <3>1, <3>2, <3>5, Kinds
  <2> QED  BY <2>1, <2>2
<1> QED  BY <1>1, <1>2, <1>3

\* ToolWindowDragger::Drag.
LEMMA Dragged ==
  ASSUME NEW t, NEW d, Sound(t, d), d.kind = "window",
         NEW target \in {NULL} \cup Indicators(d.targets)
  PROVE  Sound(DockAt(Undock(t, d), d, target),
               [d EXCEPT !.on_drop_target = target])
<1> DEFINE w   == d.dragging
           out == Undock(t, d)
           e   == [d EXCEPT !.on_drop_target = target]
           kept == d.targets \cup {d.cancel_sibling}
<1>1. WindowOK(t, d) /\ w \in Leaf
  BY Undocked
<1>2. w \in ToolWindow /\ w \in Leaf /\ w \notin kept
  BY <1>1, Undocked DEF WindowOK
<1>3. /\ WellFormed(out) /\ kept \subseteq InTree(out)
      /\ Leaf \ InTree(out) = {w}
  BY Undocked
<1>4. /\ e.kind = "window" /\ e.on_drop_target = target /\ e.dragging = w
      /\ e.targets = d.targets /\ e.cancel_sibling = d.cancel_sibling
      /\ e.cancel_direction = d.cancel_direction
      /\ e = [field \in {"kind", "dragging", "initial_rect", "on_drop_target",
                         "targets", "cancel_sibling", "cancel_direction",
                         "cancel_fraction", "cancel_was_primary"} |-> e[field]]
  BY <1>1 DEF WindowOK
<1>5. d.cancel_direction \in Direction
  BY <1>1 DEF WindowOK
<1>6. CASE target = NULL
  <2>1. DockAt(out, d, target) = out
    BY <1>6 DEF DockAt
  <2>2. DragOK(out, e)
    BY <1>2, <1>3, <1>4, <1>5, <1>6 DEF DragOK, WindowOK
  <2>3. Leaf \ InTree(out) = OutFor(e)
    BY <1>3, <1>4, <1>6 DEF OutFor
  <2> QED  BY <1>3, <2>1, <2>2, <2>3 DEF Sound
<1>7. CASE target # NULL
  <2> DEFINE at     == target.dockable
             first  == IF target.this_dockable_first THEN at ELSE w
             second == IF target.this_dockable_first THEN w ELSE at
             dir    == target.direction
             new    == Fresh(out)
             u      == SplitChild(out, out.parent[at], dir, first, second)
  <2>1. at \in d.targets /\ dir \in Direction
    BY <1>7 DEF Indicators
  <2>2. DockAt(out, d, target) = u
    BY <1>7 DEF DockAt
  <2>3. \/ first = at /\ second = w
        \/ first = w /\ second = at
    OBVIOUS
  <2>4. at \in InTree(out) /\ w \in Leaf /\ w \notin InTree(out)
    BY <1>2, <1>3, <2>1
  <2>5. Unused(out) # {}
    BY <1>3, <2>4, RoomLeft, DockingAssumption
  <2> HIDE DEF at, first, second, dir, out, w
  <2>6. /\ WellFormed(u) /\ new \in Container \ InTree(out)
        /\ InTree(u) = InTree(out) \cup {w, new} /\ u.parent[w] = new
    BY <1>3, <2>1, <2>3, <2>4, <2>5, SplitWellFormed
  <2> HIDE DEF u, new, kept, e
  <2>7. WindowOK(u, e)
    BY <1>2, <1>3, <1>4, <1>5, <1>7, <2>6 DEF WindowOK, kept
  <2>8. Leaf \ InTree(u) = OutFor(e)
    BY <1>3, <1>4, <1>7, <2>6, Kinds DEF OutFor
  <2>9. Sound(u, e)
    BY <2>6, <2>7, <2>8 DEF Sound, DragOK
  <2> QED  BY <2>2, <2>9 DEF out, e
<1> QED  BY <1>6, <1>7

\* CancelDrag leaves every rectangle as its parent gives it.
LEMMA CancelPlaced ==
  ASSUME NEW t, NEW d, Placed(t),
         d.dragging \in Leaf, d.dragging \notin InTree(t),
         d.cancel_sibling \in InTree(t), d.cancel_direction \in Direction
  PROVE  Placed(CancelDrag(t, d))
<1> DEFINE s     == d.cancel_sibling
           w     == d.dragging
           dir   == d.cancel_direction
           first == IF d.cancel_was_primary THEN w ELSE s
           then  == IF d.cancel_was_primary THEN s ELSE w
           back  == SplitChild(t, t.parent[s], dir, first, then)
<1>1. \/ first = s /\ then = w
      \/ first = w /\ then = s
  OBVIOUS
<1>2. CancelDrag(t, d) =
        SetFraction(back, back.parent[s], d.cancel_fraction)
  BY DEF CancelDrag
<1>3. WellFormed(t) /\ Unused(t) # {}
  BY RoomLeft, DockingAssumption DEF Placed
<1>4. s \in InTree(t) /\ w \in Leaf /\ w \notin InTree(t) /\ dir \in Direction
  OBVIOUS
<1> HIDE DEF first, then, s, w, dir
<1>5. Placed(back)
  BY <1>1, <1>3, <1>4, SplitPlaced
<1>6. back.parent[s] \in Container /\ back.parent[s] \in InTree(back)
  BY <1>1, <1>3, <1>4, SplitParent
<1> HIDE DEF back
<1>7. Placed(SetFraction(back, back.parent[s], d.cancel_fraction))
  BY <1>5, <1>6, FractionPlaced, Kinds
<1> QED  BY <1>2, <1>7

\* Cancelling a drag does the same to twins.
LEMMA TwinCancel ==
  ASSUME NEW t, NEW u, NEW d, Placed(t), Placed(u), Twin(t, u),
         d.dragging \in Leaf, d.dragging \notin InTree(t),
         d.cancel_sibling \in InTree(t), d.cancel_direction \in Direction
  PROVE  Twin(CancelDrag(t, d), CancelDrag(u, d))
<1> DEFINE s     == d.cancel_sibling
           w     == d.dragging
           dir   == d.cancel_direction
           first == IF d.cancel_was_primary THEN w ELSE s
           then  == IF d.cancel_was_primary THEN s ELSE w
           back  == SplitChild(t, t.parent[s], dir, first, then)
           back2 == SplitChild(u, u.parent[s], dir, first, then)
<1>1. \/ first = s /\ then = w
      \/ first = w /\ then = s
  OBVIOUS
<1>2. /\ CancelDrag(t, d) =
           SetFraction(back, back.parent[s], d.cancel_fraction)
      /\ CancelDrag(u, d) =
           SetFraction(back2, back2.parent[s], d.cancel_fraction)
  BY DEF CancelDrag
<1>3. WellFormed(t) /\ Unused(t) # {}
  BY RoomLeft, DockingAssumption DEF Placed
<1>4. s \in InTree(t) /\ w \in Leaf /\ w \notin InTree(t) /\ dir \in Direction
  OBVIOUS
<1> HIDE DEF first, then, s, w, dir
<1>5. s \in InTree(u) /\ w \notin InTree(u) /\ Unused(u) # {}
  BY <1>3, <1>4, TwinFacts DEF Placed, WellFormed
<1>6. Placed(back)
  BY <1>1, <1>3, <1>4, SplitPlaced
<1>7. Placed(back2)
  BY <1>1, <1>4, <1>5, SplitPlaced
<1>8. Twin(back, back2)
  BY <1>1, <1>3, <1>4, TwinSplit
<1>9. back.parent[s] \in Container /\ back.parent[s] \in InTree(back)
  BY <1>1, <1>3, <1>4, SplitParent
<1> HIDE DEF back, back2
<1>10. back2.parent[s] = back.parent[s]
  BY <1>8 DEF Twin
<1>11. Twin(SetFraction(back, back.parent[s], d.cancel_fraction),
            SetFraction(back2, back.parent[s], d.cancel_fraction))
  BY <1>6, <1>7, <1>8, <1>9, TwinFraction, Kinds
<1> QED  BY <1>2, <1>10, <1>11

\* A window that is put back at its sibling is where it was, and so is every
\* other, though another container may hold it.
LEMMA OutAndBack ==
  ASSUME NEW t, Placed(t), NEW w \in Leaf, w \in InTree(t),
         t.parent[w] \in Container
  PROVE  Layout(CancelDrag(ReleaseChild(t, w), NewDragger(t, w))) = Layout(t)
<1> DEFINE c     == t.parent[w]
           g     == t.parent[c]
           s     == SiblingOf(t, w)
           u     == ReleaseChild(t, w)
           n     == NewDragger(t, w)
           first == IF t.left[c] = w THEN w ELSE s
           then  == IF t.left[c] = w THEN s ELSE w
           dir   == t.direction[c]
           f     == t.fraction[c]
           new   == Fresh(u)
           back  == SplitChild(u, u.parent[s], dir, first, then)
           v     == SetFraction(back, back.parent[s], f)
<1>1. CancelDrag(u, n) = v
  BY DEF CancelDrag, NewDragger
<1>2. WellFormed(t)
  BY DEF Placed
<1>3. /\ Placed(u)
      /\ \A k \in Split : u.direction[k] =
           IF k = c THEN "vertical" ELSE t.direction[k]
      /\ \A k \in Split : u.fraction[k] =
           IF k = c THEN Half ELSE t.fraction[k]
  BY ReleasePlaced
<1>4. /\ Shaped(u)
      /\ g \in Split /\ g # c /\ s \in Node /\ s # w /\ s # c
      /\ \/ t.left[c] = w /\ t.right[c] = s
         \/ t.left[c] = s /\ t.right[c] = w
      /\ \A k \in Split : u.left[k] =
           IF k = c THEN NULL
           ELSE IF k = g /\ t.left[g] = c THEN s ELSE t.left[k]
      /\ \A k \in Split : u.right[k] =
           IF k = c THEN NULL
           ELSE IF k = g /\ t.left[g] # c THEN s ELSE t.right[k]
      /\ \A m \in Node : u.parent[m] =
           IF m = w \/ m = c THEN NULL ELSE IF m = s THEN g
           ELSE t.parent[m]
  BY <1>2, ReleasePointers
<1>5. /\ WellFormed(u) /\ InTree(u) = InTree(t) \ {w, c}
      /\ DockTargets(u) = DockTargets(t) \ {w} /\ s \in InTree(u)
  BY <1>2, ReleaseWellFormed
<1> HIDE DEF s
<1>6. \/ first = s /\ then = w
      \/ first = w /\ then = s
  OBVIOUS
<1>7. c \in Split /\ c \in Node /\ w \in Node /\ dir \in Direction
      /\ t.parent[s] = c /\ t.parent[w] = c /\ t.parent[c] = g
  BY <1>2, <1>4, Kinds DEF WellFormed, Shaped, Linked
<1> HIDE DEF u, c, g, dir, f
<1>8. w \notin InTree(u) /\ Unused(u) # {}
  BY <1>5, RoomLeft, DockingAssumption
<1>9. u.parent[s] = g
  BY <1>4
<1> HIDE DEF first, then
<1>10. /\ Placed(back)
       /\ \A k \in Split : back.direction[k] =
            IF k = new THEN dir ELSE u.direction[k]
       /\ \A k \in Split : back.fraction[k] =
            IF k = new THEN Half ELSE u.fraction[k]
  BY <1>3, <1>5, <1>6, <1>7, <1>8, SplitPlaced
<1>11. /\ new \in Container \ InTree(u)
       /\ InTree(back) = InTree(u) \cup {w, new}
       /\ DockTargets(back) = DockTargets(u) \cup {w}
       /\ back.parent[s] = new
  BY SMTT(60), <1>5, <1>6, <1>7, <1>8, SplitWellFormed
<1> DEFINE q == u.parent[s]
<1>12. /\ Shaped(back)
       /\ new \in Container /\ u.left[new] = NULL
       /\ \A k \in Split : back.left[k] =
            IF k = new THEN first
            ELSE IF k = q /\ u.left[q] = s THEN new ELSE u.left[k]
       /\ \A k \in Split : back.right[k] =
            IF k = new THEN then
            ELSE IF k = q /\ u.left[q] # s THEN new ELSE u.right[k]
       /\ \A m \in Node : back.parent[m] =
            IF m = s \/ m = w THEN new ELSE IF m = new THEN q
            ELSE u.parent[m]
  BY <1>5, <1>6, <1>7, <1>8, SplitPointers
<1>13. q = g
  BY <1>9
<1> HIDE DEF q, new, back
<1>14. new \in Split /\ new \in Node /\ new \in InTree(back)
  BY <1>11, Kinds
<1>15. /\ Placed(v) /\ v.direction = back.direction
       /\ \A k \in Split : v.fraction[k] = IF k = new THEN f ELSE back.fraction[k]
  BY <1>10, <1>11, <1>14, FractionPlaced
<1>16. /\ v.left = back.left /\ v.parent = back.parent
       /\ InTree(v) = InTree(back) /\ DockTargets(v) = DockTargets(back)
  BY <1>10, FractionSet DEF Placed
<1> HIDE DEF v
<1>17. DockTargets(v) = DockTargets(t)
  BY <1>5, <1>11, <1>16 DEF DockTargets
<1> DEFINE D   == InTree(t)
           phi == [m \in Node |-> IF m = c THEN new ELSE m]
<1>18. \A m \in Node : phi[m] = IF m = c THEN new ELSE m
  OBVIOUS
<1> HIDE DEF phi
<1>19. \A m \in InTree(t) : m # c => m # new
  BY <1>5, <1>11, Kinds
<1>20. \A k \in Alive(t) : k # c => k # new
  BY <1>4, <1>12, Kinds, <1>2 DEF Alive
<1>21. Alike(t, v, D, phi)
  <2> SUFFICES ASSUME NEW m \in D
               PROVE  /\ phi[m] \in InTree(v)
                      /\ t.parent[m] = Root => v.parent[phi[m]] = Root
                      /\ t.parent[m] # Root =>
                           LET p == t.parent[m] IN
                           /\ p \in D
                           /\ v.parent[phi[m]] = phi[p]
                           /\ v.direction[phi[p]] = t.direction[p]
                           /\ v.fraction[phi[p]] = t.fraction[p]
                           /\ v.left[phi[p]] = phi[m] <=> t.left[p] = m
    BY DEF Alike
  <2> DEFINE p == t.parent[m]
  <2>1. /\ m \in InTree(t) /\ m \in Node /\ p \in Split /\ p \in Node
        /\ t.left[p] = m \/ t.right[p] = m
        /\ p # Root => p \in InTree(t) /\ p \in Alive(t)
    BY <1>2, Upwards, Kinds
  <2>2. phi[m] \in InTree(v)
    BY <1>5, <1>11, <1>16, <1>18, <2>1
  <2>3. v.parent[phi[m]] = IF p = Root THEN Root ELSE phi[p]
    <3>1. CASE m = w \/ m = s
      <4>1. p = c /\ phi[m] = m /\ phi[c] = new /\ c # Root
        BY <1>4, <1>7, <1>18, <2>1, <3>1, Kinds DEF c
      <4>2. v.parent[m] = new
        BY <1>12, <1>16, <2>1, <3>1
      <4> QED  BY <4>1, <4>2
    <3>2. CASE m = c
      <4>1. new # s /\ new # w
        BY <1>5, <1>11, Kinds
      <4>2. phi[m] = new /\ p = g /\ (p # Root => phi[p] = p)
        BY <1>4, <1>7, <1>18, <2>1, <3>2
      <4>3. v.parent[new] = g
        BY <1>12, <1>13, <1>14, <1>16, <4>1
      <4> QED  BY <4>2, <4>3
    <3>3. CASE m # w /\ m # s /\ m # c
      <4>1. p # c
        BY <1>4, <2>1, <3>3
      <4>2. phi[m] = m /\ phi[p] = p /\ m # new
        BY <1>18, <1>19, <2>1, <3>3, <4>1
      <4>3. v.parent[m] = p
        BY <1>4, <1>12, <1>16, <2>1, <3>3, <4>2
      <4> QED  BY <4>2, <4>3
    <3> QED  BY <3>1, <3>2, <3>3
  <2>4. ASSUME p # Root
        PROVE  /\ v.direction[phi[p]] = t.direction[p]
               /\ v.fraction[phi[p]] = t.fraction[p]
    <3>1. CASE p = c
      BY <1>10, <1>14, <1>15, <1>18, <2>1, <3>1 DEF dir, f
    <3>2. CASE p # c
      <4>1. p # new
        BY <1>20, <2>1, <2>4, <3>2
      <4> QED  BY <1>3, <1>10, <1>15, <1>18, <2>1, <3>2, <4>1
    <3> QED  BY <3>1, <3>2
  <2>5. ASSUME p # Root
        PROVE  v.left[phi[p]] = phi[m] <=> t.left[p] = m
    <3>1. CASE p = c
      <4>1. m = w \/ m = s
        BY <1>4, <2>1, <3>1
      <4>2. phi[m] = m /\ phi[p] = new
        BY <1>4, <1>18, <2>1, <3>1, <4>1, Kinds DEF c
      <4>3. v.left[new] = first
        BY <1>12, <1>14, <1>16
      <4>4. first = m <=> t.left[c] = m
        BY <1>4, <4>1 DEF first
      <4> QED  BY <3>1, <4>2, <4>3, <4>4
    <3>2. CASE p # c
      <4>1. p # new /\ phi[p] = p
        BY <1>18, <1>20, <2>1, <2>4, <2>5, <3>2
      <4>2. u.left[p] = IF p = g /\ t.left[g] = c THEN s ELSE t.left[p]
        BY <1>4, <2>1, <3>2
      <4>3. v.left[p] = IF p = g /\ u.left[g] = s THEN new ELSE u.left[p]
        BY <1>12, <1>13, <1>16, <2>1, <4>1
      <4>4. t.left[p] # s
        BY <1>2, <1>4, <1>7, <2>1, <3>2 DEF WellFormed, Linked
      <4>5. t.left[p] # c => t.left[p] # new
        <5>1. t.left[p] # NULL
          BY <2>1, <2>5 DEF Alive
        <5>2. t.left[p] \in InTree(t)
          BY <1>2, <2>1, <5>1, Kinds DEF WellFormed, Linked, Shaped, InTree
        <5> QED  BY <1>19, <5>2
      <4>6. m # s
        BY <1>7, <3>2
      <4>7. v.left[p] = IF t.left[p] = c THEN new ELSE t.left[p]
        <5>1. t.left[p] = c => p = g
          BY <1>2, <1>7, <2>1 DEF WellFormed, Linked
        <5> QED  BY <4>2, <4>3, <4>4, <5>1
      <4>8. CASE m = c
        BY <1>18, <2>1, <4>1, <4>5, <4>7, <4>8
      <4>9. CASE m # c
        BY <1>18, <1>19, <2>1, <4>1, <4>7, <4>9
      <4> QED  BY <4>8, <4>9
    <3> QED  BY <3>1, <3>2
  <2> HIDE DEF p
  <2> QED  BY <2>1, <2>2, <2>3, <2>4, <2>5 DEF p
<1>22. \A m \in D : Tail(v.rect[phi[m]]) = Tail(t.rect[m])
  <2>1. D \in SUBSET InTree(t)
    OBVIOUS
  <2> HIDE DEF D
  <2> QED  BY <1>15, <1>21, <2>1, SamePlaces
<1>23. \A m \in DockTargets(t) : Tail(v.rect[m]) = Tail(t.rect[m])
  <2> SUFFICES ASSUME NEW m \in DockTargets(t)
               PROVE  Tail(v.rect[m]) = Tail(t.rect[m])
    OBVIOUS
  <2>1. m \in D /\ m \in Node /\ m # c
    BY <1>4, Kinds DEF DockTargets, InTree, c
  <2> QED  BY <1>18, <1>22, <2>1
<1>24. Layout(v) = Layout(t)
  BY <1>17, <1>23 DEF Layout
<1> QED  BY <1>1, <1>24 DEF u
---------------------------------------------------------------------------
(* Every step keeps the invariant. *)

\* draggable_.reset(): the old drag, if its window is nowhere, is cancelled in
\* the tree that the new one leaves.
LEMMA Reset ==
  ASSUME IInv, NEW t, NEW next, WellFormed(t), DragOK(t, next),
         next.kind = "window" => next.on_drop_target = NULL,
         Leaf \ InTree(t) = OutFor(draggable) \cup OutFor(next),
         OutFor(draggable) \cap OutFor(next) = {},
         ResetDraggable(t, next)
  PROVE  IInv'
<1>1. CASE Cancels(draggable) /\ ~SiblingInTree(t, draggable)
  BY <1>1 DEF ResetDraggable, IInv, Sound, DragOK, SplitterOK, WindowOK, OutFor
<1>2. CASE ~Cancels(draggable)
  <2>1. tree' = t /\ draggable' = next
    BY <1>2 DEF ResetDraggable
  <2>2. OutFor(draggable) = {}
    BY <1>2 DEF Cancels, OutFor
  <2>3. Sound(t, next)
    BY <2>2 DEF Sound
  <2> QED  BY <2>1, <2>3 DEF IInv
<1>3. CASE Cancels(draggable) /\ SiblingInTree(t, draggable)
  <2> DEFINE w == draggable.dragging
             u == CancelDrag(t, draggable)
  <2>1. tree' = u /\ draggable' = next
    BY <1>3 DEF ResetDraggable
  <2>2. OutFor(draggable) = {w} /\ WindowOK(tree, draggable)
    BY <1>3 DEF Cancels, OutFor, IInv, Sound, DragOK, SplitterOK, None
  <2>3. /\ w \in Leaf /\ w \notin InTree(t)
        /\ draggable.cancel_sibling \in InTree(t)
        /\ draggable.cancel_direction \in Direction
    BY <1>3, <2>2 DEF SiblingInTree, WindowOK
  <2>4. /\ WellFormed(u) /\ InTree(t) \subseteq InTree(u)
        /\ Leaf \ InTree(u) = (Leaf \ InTree(t)) \ {w}
    BY <2>3, Cancelled
  <2>5. Leaf \ InTree(u) = OutFor(next)
    BY <2>2, <2>4
  <2> HIDE DEF u, w
  <2>6. CASE next = None
    BY <2>1, <2>4, <2>5, <2>6 DEF Sound, DragOK, IInv
  <2>7. CASE SplitterOK(t, next)
    <3>1. Alive(t) \subseteq Alive(u)
      BY <2>4, TreeFacts
    <3>2. SplitterOK(u, next)
      BY <2>7, <3>1 DEF SplitterOK
    <3> QED  BY <2>4, <2>5, <3>2, <2>1 DEF Sound, DragOK, IInv
  <2>8. CASE WindowOK(t, next)
    <3>1. next.on_drop_target = NULL /\ OutFor(next) = {next.dragging}
      BY <2>8 DEF WindowOK, OutFor
    <3>2. next.dragging \notin InTree(u)
      BY <2>5, <3>1
    <3>3. WindowOK(u, next)
      BY <2>4, <2>8, <3>1, <3>2 DEF WindowOK
    <3> QED  BY <2>4, <2>5, <3>3, <2>1 DEF Sound, DragOK, IInv
  <2> QED  BY <2>6, <2>7, <2>8 DEF DragOK
<1> QED  BY <1>1, <1>2, <1>3

\* A press on a title bar keeps the invariant ...
LEMMA PickUpIInv ==
  ASSUME IInv, NEW w \in ToolWindow, PickUp(w)
  PROVE  IInv'
<1> DEFINE t == ReleaseChild(tree, w)
           n == NewDragger(tree, w)
<1>1. Sound(tree, draggable) /\ w \in InTree(tree) /\ ResetDraggable(t, n)
  BY DEF PickUp, IInv
<1>2. /\ WellFormed(t) /\ WindowOK(t, n)
      /\ n.kind = "window" /\ n.on_drop_target = NULL /\ n.dragging = w
      /\ Leaf \ InTree(t) = (Leaf \ InTree(tree)) \cup {w}
  BY <1>1, PickedUp
<1> HIDE DEF t, n
<1>3. Leaf \ InTree(tree) = OutFor(draggable)
  BY <1>1 DEF Sound
<1>4. OutFor(n) = {w} /\ w \notin OutFor(draggable)
  BY <1>1, <1>2, <1>3 DEF OutFor
<1> QED  BY <1>1, <1>2, <1>3, <1>4, Reset DEF DragOK

\* ... and so does one on a splitter ...
LEMMA GrabSplitterIInv ==
  ASSUME IInv, NEW c \in Alive(tree), GrabSplitter(c)
  PROVE  IInv'
<1> DEFINE n == [kind |-> "splitter", resizing |-> c]
<1>1. /\ WellFormed(tree) /\ Leaf \ InTree(tree) = OutFor(draggable)
      /\ ResetDraggable(tree, n)
  BY DEF GrabSplitter, IInv, Sound
<1>2. n # None /\ n.kind = "splitter" /\ n.resizing = c /\ OutFor(n) = {}
  BY DEF None, OutFor
<1> HIDE DEF n
<1>3. DragOK(tree, n)
  BY <1>2 DEF DragOK, SplitterOK
<1> QED  BY <1>1, <1>2, <1>3, Reset

\* ... and the release of the button ...
LEMMA DropIInv ==
  ASSUME IInv, ResetDraggable(tree, None)
  PROVE  IInv'
<1>1. WellFormed(tree) /\ Leaf \ InTree(tree) = OutFor(draggable)
  BY DEF IInv, Sound
<1>2. None.kind = "none" /\ OutFor(None) = {} /\ DragOK(tree, None)
  BY DEF None, OutFor, DragOK
<1> QED  BY <1>1, <1>2, Reset

\* ... and every other step.
LEMMA StepIInv == IInv /\ [Next]_vars => IInv'
<1> SUFFICES ASSUME IInv, [Next]_vars PROVE IInv'
  OBVIOUS
<1>1. CASE UNCHANGED <<tree, draggable>>
  BY <1>1 DEF IInv, Sound, DragOK, SplitterOK, WindowOK, OutFor
<1>2. ASSUME NEW b \in Buttons, Press(b)
      PROVE  IInv'
  BY <1>1, <1>2, PickUpIInv, GrabSplitterIInv DEF Press, ClickContents
<1>3. ASSUME NEW b \in Buttons, Release(b)
      PROVE  IInv'
  BY <1>1, <1>3, DropIInv DEF Release
<1>4. CASE Move
  <2>1. CASE draggable.kind = "window" /\ DragWindow
    <3>1. PICK target \in {NULL} \cup Indicators(draggable.targets) :
            /\ tree' = DockAt(Undock(tree, draggable), draggable, target)
            /\ draggable' = [draggable EXCEPT !.on_drop_target = target]
      BY <2>1 DEF DragWindow
    <3> QED  BY <2>1, <3>1, Dragged DEF IInv
  <2>2. CASE DragSplitter
    <3>1. PICK f \in Fractions :
            tree' = SetFraction(tree, draggable.resizing, f)
      BY <2>2 DEF DragSplitter
    <3>2. draggable' = draggable
      BY <2>2 DEF DragSplitter
    <3>3. WellFormed(tree)
      BY DEF IInv, Sound
    <3>4. /\ WellFormed(tree') /\ InTree(tree') = InTree(tree)
          /\ Alive(tree') = Alive(tree) /\ tree'.parent = tree.parent
      BY <3>1, <3>3, FractionSet
    <3>5. Sound(tree', draggable)
      BY <3>4, SameForDrag DEF IInv
    <3> QED  BY <3>2, <3>5 DEF IInv
  <2> QED  BY <1>1, <1>4, <2>1, <2>2 DEF Move
<1>5. CASE Resize
  <2>1. PICK size \in Sizes : tree' = SetScreenRect(tree, Root, <<size>>)
    BY <1>5 DEF Resize
  <2>2. draggable' = draggable /\ WellFormed(tree)
    BY <1>5 DEF Resize, IInv, Sound
  <2>3. /\ WellFormed(tree') /\ InTree(tree') = InTree(tree)
        /\ Alive(tree') = Alive(tree) /\ tree'.parent = tree.parent
    BY <2>1, <2>2, LaidOut
  <2>4. Sound(tree', draggable)
    BY <2>3, SameForDrag DEF IInv
  <2> QED  BY <2>2, <2>4 DEF IInv
<1> QED  BY <1>1, <1>2, <1>3, <1>4, <1>5 DEF Next, vars

\* So it holds throughout.
LEMMA Invariance == Spec => []IInv
BY InitIInv, StepIInv, PTL DEF Spec

---------------------------------------------------------------------------
(* The theorems *)

\* The pointers of the tree agree with each other after any presses, moves and
\* releases, of any buttons (SplitChild, Replace and ReleaseChild).
THEOREM TreeStaysLinked == Spec => []TreeLinked
<1>1. IInv => TreeLinked
  <2> SUFFICES ASSUME IInv PROVE TreeLinked
    OBVIOUS
  <2>1. WellFormed(tree) /\ Linked(tree) /\ Shaped(tree)
    BY DEF IInv, Sound, WellFormed
  <2>2. ASSUME NEW n \in InTree(tree)
        PROVE  n \in ChildrenOf(tree, tree.parent[n])
    BY <2>1, <2>2, Kinds DEF InTree, Linked, ChildrenOf
  <2>3. ASSUME NEW c \in Split, NEW n \in ChildrenOf(tree, c)
        PROVE  tree.parent[n] = c
    <3>1. n \in Node
      BY <2>1, <2>3 DEF ChildrenOf, Shaped
    <3> QED  BY <2>1, <2>3, <3>1 DEF ChildrenOf, Linked
  <2>4. Alive(tree) = Container \cap InTree(tree)
    BY <2>1, TreeFacts
  <2>5. \A c \in Alive(tree) : tree.right[c] \notin {NULL, tree.left[c]}
    BY <2>1 DEF Alive, Linked
  <2>6. tree.left[Root] # NULL /\ tree.right[Root] = NULL
    BY <2>1 DEF Linked
  <2> QED  BY <2>2, <2>3, <2>4, <2>5, <2>6 DEF TreeLinked
<1> QED  BY <1>1, Invariance, PTL

\* Each window is in the tree, or is the one that is being dragged.
THEOREM WindowsKept == Spec => []NoWindowLost
<1>1. IInv => NoWindowLost
  BY DEF IInv, Sound, NoWindowLost, OutFor, Loose, Hovering, Dragging
<1> QED  BY <1>1, Invariance, PTL

\* The tree never has more containers than its windows need, so the program
\* leaks none however long the user drags windows around.
THEOREM ContainersKept == Spec => []NoContainerLeaked
<1>1. IInv => NoContainerLeaked
  BY DEF IInv, Sound, WellFormed, Counted, NoContainerLeaked
<1> QED  BY <1>1, Invariance, PTL

\* What a ToolWindowDragger or a DockingResizer holds by plain pointer is in
\* the tree as long as it holds it.
THEOREM RememberedKept == Spec => []RememberedInTree
<1>1. IInv => RememberedInTree
  <2> SUFFICES ASSUME IInv, draggable # None PROVE RememberedInTree
    BY DEF RememberedInTree
  <2>1. CASE SplitterOK(tree, draggable)
    BY <2>1 DEF RememberedInTree, SplitterOK, Dragging
  <2>2. CASE WindowOK(tree, draggable)
    BY <2>2 DEF RememberedInTree, WindowOK, Dragging
  <2> QED  BY <2>1, <2>2 DEF IInv, Sound, DragOK
<1> QED  BY <1>1, Invariance, PTL

\* With one button, the capture lasts as long as the press, a drag as long as
\* the capture, and nothing is called that is not there.
OneButton ==
  /\ captured => 0 \in held
  /\ draggable # None => captured
  /\ NeverStopped

\* No step with that button breaks it.
LEMMA OneButtonStep ==
  ASSUME Buttons = {0}
  PROVE  IInv /\ OneButton /\ [Next]_vars => OneButton'
<1> SUFFICES ASSUME IInv, OneButton, [Next]_vars PROVE OneButton'
  OBVIOUS
<1>1. ASSUME NEW t, NEW next, ResetDraggable(t, next),
             ~Cancels(draggable) \/ SiblingInTree(t, draggable)
      PROVE  draggable' = next /\ NeverStopped'
  BY <1>1 DEF ResetDraggable, OneButton, NeverStopped
<1>2. CASE Press(0)
  <2>1. draggable = None /\ ~captured /\ held' = held \cup {0}
    BY <1>2 DEF Press, OneButton
  <2>2. ~Cancels(draggable) /\ 0 \in held'
    BY <2>1 DEF Cancels, None
  <2>3. CASE inside
    <3>1. captured'
      BY <1>2, <2>3 DEF Press, Delivered
    <3>2. NeverStopped'
      BY <1>1, <1>2, <2>2, <2>3
      DEF Press, PickUp, GrabSplitter, ClickContents, OneButton, NeverStopped
    <3> QED  BY <2>2, <3>1, <3>2 DEF OneButton
  <2>4. CASE ~inside
    BY <1>2, <2>1, <2>2, <2>4 DEF Press, Delivered, OneButton, NeverStopped
  <2> QED  BY <2>3, <2>4
<1>3. CASE Release(0)
  <2>1. ~captured' /\ held' = held \ {0}
    BY <1>3 DEF Release, Delivered
  <2>2. SiblingInTree(tree, draggable) \/ ~Cancels(draggable)
    BY DEF SiblingInTree, Cancels, IInv, Sound, DragOK, SplitterOK, WindowOK,
           None
  <2>3. draggable' = None /\ NeverStopped'
    BY <1>1, <1>3, <2>2 DEF Release, Delivered, OneButton, NeverStopped
  <2> QED  BY <2>1, <2>3 DEF OneButton
<1>4. CASE Move
  BY <1>4 DEF Move, DragWindow, DragSplitter, OneButton, NeverStopped, None
<1>5. CASE Resize
  BY <1>5 DEF Resize, OneButton, NeverStopped
<1>6. CASE UNCHANGED vars
  BY <1>6 DEF vars, OneButton, NeverStopped
<1> QED  BY <1>2, <1>3, <1>4, <1>5, <1>6 DEF Next

\* With the left button alone, no call is made of a window that does not exist.
\* With a second one it is: that button's release ends the capture in the
\* middle of a drag.
THEOREM OneButtonNeverStops ==
  ASSUME Buttons = {0}
  PROVE  Spec => []NeverStopped
<1>1. Init => OneButton
  BY DEF Init, OneButton, NeverStopped
<1>2. IInv /\ OneButton /\ [Next]_vars => OneButton'
  BY OneButtonStep
<1>3. OneButton => NeverStopped
  BY DEF OneButton
<1> QED  BY <1>1, <1>2, <1>3, Invariance, PTL DEF Spec

---------------------------------------------------------------------------
(* Rectangles, whatever the user does *)

\* What a drag d knows of rectangles and targets.
DragTyped(d) ==
  d.kind = "window" =>
    /\ RectIn(d.initial_rect, Sizes)
    /\ d.on_drop_target \in {NULL} \cup Indicators(d.targets)

\* No rectangle of tree t is stale or of another size.
Laid(t, d) == Placed(t) /\ RectsIn(t, Sizes) /\ DragTyped(d)

\* CancelDrag leaves no stale rectangle.
LEMMA CancelLaid ==
  ASSUME NEW t, NEW d, Placed(t), RectsIn(t, Sizes),
         d.dragging \in Leaf, d.dragging \notin InTree(t),
         d.cancel_sibling \in InTree(t), d.cancel_direction \in Direction
  PROVE  Placed(CancelDrag(t, d)) /\ RectsIn(CancelDrag(t, d), Sizes)
<1> DEFINE s     == d.cancel_sibling
           w     == d.dragging
           dir   == d.cancel_direction
           first == IF d.cancel_was_primary THEN w ELSE s
           then  == IF d.cancel_was_primary THEN s ELSE w
           back  == SplitChild(t, t.parent[s], dir, first, then)
<1>1. \/ first = s /\ then = w
      \/ first = w /\ then = s
  OBVIOUS
<1>2. CancelDrag(t, d) =
        SetFraction(back, back.parent[s], d.cancel_fraction)
  BY DEF CancelDrag
<1>3. WellFormed(t) /\ Unused(t) # {}
  BY RoomLeft, DockingAssumption DEF Placed
<1>4. s \in InTree(t) /\ w \in Leaf /\ w \notin InTree(t) /\ dir \in Direction
  OBVIOUS
<1> HIDE DEF first, then, s, w, dir
<1>5. Built(t)
  BY <1>3 DEF Built, Neat, Placed
<1>6. Neat(back)
  BY <1>1, <1>3, <1>4, <1>5, SplitNeat
<1>7. WellFormed(back)
  BY <1>1, <1>3, <1>4, SplitWellFormed
<1>8. back.parent[s] \in Container
  BY <1>1, <1>3, <1>4, SplitParent
<1> HIDE DEF back
<1>9. RectsIn(SetFraction(back, back.parent[s], d.cancel_fraction), Sizes)
  BY <1>6, <1>7, <1>8, FractionFramed, Kinds DEF Neat
<1> QED  BY <1>2, <1>9, CancelPlaced

\* The rectangle of a window that is in no place can be anything.
LEMMA LooseRect ==
  ASSUME NEW t, Placed(t), RectsIn(t, Sizes), NEW w \in Leaf,
         w \notin InTree(t), NEW r, RectIn(r, Sizes)
  PROVE  LET u == [t EXCEPT !.rect[w] = r]
         IN  Placed(u) /\ RectsIn(u, Sizes) /\ Twin(t, u)
<1> DEFINE u == [t EXCEPT !.rect[w] = r]
<1>1. WellFormed(t) /\ Framed(t) /\ Shaped(t)
  BY DEF Placed, WellFormed
<1>2. /\ u.left = t.left /\ u.right = t.right /\ u.parent = t.parent
      /\ u.direction = t.direction /\ u.fraction = t.fraction
      /\ u.rect = [t.rect EXCEPT ![w] = r]
      /\ Shaped(u)
  BY <1>1 DEF Shaped
<1> HIDE DEF u
<1>3. \A n \in Node : u.rect[n] = IF n = w THEN r ELSE t.rect[n]
  BY <1>1, <1>2 DEF Framed
<1>4. WellFormed(u)
  BY <1>1, <1>2, SameLinks
<1>5. Framed(u)
  BY <1>1, <1>2 DEF Framed
<1>6. RectsIn(u, Sizes)
  BY <1>3 DEF RectsIn
<1>7. ASSUME NEW n \in Node, Hangs(u, n)
      PROVE  CurrentAt(u, n)
  <2> DEFINE p == t.parent[n]
  <2>1. n \in InTree(t) /\ n # w
    BY <1>2, <1>7 DEF Hangs, InTree
  <2>2. p \in Node /\ p # w
    BY <1>1, <2>1, Upwards, Kinds
  <2>3. t.rect[n] = ChildRect(t, p, n, t.rect[p])
    BY <2>1, PlacedRects DEF CurrentAt
  <2> QED  BY <1>2, <1>3, <2>1, <2>2, <2>3 DEF CurrentAt, ChildRect
<1>8. u.rect[Root] = t.rect[Root]
  BY <1>3, Kinds
<1>9. Placed(u)
  BY <1>4, <1>5, <1>7, <1>8 DEF Placed, Current
<1>10. Twin(t, u)
  BY <1>2 DEF Twin
<1> QED  BY <1>6, <1>9, <1>10 DEF u

\* Taking a window out leaves no stale rectangle.
LEMMA ReleaseLaid ==
  ASSUME NEW t, Placed(t), RectsIn(t, Sizes), NEW w \in Leaf, w \in InTree(t),
         t.parent[w] \in Container
  PROVE  /\ Placed(ReleaseChild(t, w)) /\ RectsIn(ReleaseChild(t, w), Sizes)
         /\ w \notin InTree(ReleaseChild(t, w))
<1>1. WellFormed(t) /\ Framed(t)
  BY DEF Placed
<1>2. Placed(ReleaseChild(t, w))
  BY ReleasePlaced
<1>3. RectsIn(ReleaseChild(t, w), Sizes)
  BY <1>1, ReleaseFramed
<1>4. InTree(ReleaseChild(t, w)) = InTree(t) \ {w, t.parent[w]}
  BY <1>1, ReleaseWellFormed
<1> QED  BY <1>2, <1>3, <1>4

\* Nor does the first half of ToolWindowDragger::Drag.
LEMMA UndockLaid ==
  ASSUME NEW t, NEW d, Sound(t, d), Laid(t, d), d.kind = "window"
  PROVE  Placed(Undock(t, d)) /\ RectsIn(Undock(t, d), Sizes)
<1> DEFINE w   == d.dragging
           rel == ReleaseChild(t, w)
<1>1. CASE d.on_drop_target = NULL
  BY <1>1 DEF Undock, Laid
<1>2. CASE d.on_drop_target # NULL
  <2>1. /\ w \in Leaf /\ w \in InTree(t) /\ t.parent[w] \in Container
        /\ Placed(t) /\ RectsIn(t, Sizes) /\ RectIn(d.initial_rect, Sizes)
    BY <1>2, Undocked DEF WindowOK, Laid, DragTyped
  <2>2. Undock(t, d) = [rel EXCEPT !.rect[w] = d.initial_rect]
    BY <1>2 DEF Undock
  <2>3. Placed(rel) /\ RectsIn(rel, Sizes) /\ w \notin InTree(rel)
    BY <2>1, ReleaseLaid
  <2> HIDE DEF w, rel
  <2> QED  BY <2>1, <2>2, <2>3, LooseRect
<1> QED  BY <1>1, <1>2

\* Docking: at `at', in the tree, a window that is not.
LEMMA DockLaid ==
  ASSUME NEW t, NEW d, Placed(t), RectsIn(t, Sizes), NEW target,
         d.dragging \in Leaf, d.dragging \notin InTree(t),
         target # NULL, target.dockable \in InTree(t),
         target.direction \in Direction
  PROVE  Placed(DockAt(t, d, target)) /\ RectsIn(DockAt(t, d, target), Sizes)
<1> DEFINE w      == d.dragging
           at     == target.dockable
           dir    == target.direction
           first  == IF target.this_dockable_first THEN at ELSE w
           second == IF target.this_dockable_first THEN w ELSE at
           u      == SplitChild(t, t.parent[at], dir, first, second)
<1>1. DockAt(t, d, target) = u
  BY DEF DockAt
<1>2. \/ first = at /\ second = w
      \/ first = w /\ second = at
  OBVIOUS
<1>3. at \in InTree(t) /\ w \in Leaf /\ w \notin InTree(t) /\ dir \in Direction
  OBVIOUS
<1>4. WellFormed(t) /\ Unused(t) # {}
  BY RoomLeft, DockingAssumption DEF Placed
<1>5. Built(t)
  BY <1>4 DEF Built, Neat, Placed
<1> HIDE DEF first, second, w, at, dir
<1>6. Placed(u)
  BY <1>2, <1>3, <1>4, SplitPlaced
<1>7. Neat(u)
  BY <1>2, <1>3, <1>4, <1>5, SplitNeat
<1> QED  BY <1>1, <1>6, <1>7 DEF Neat

\* The inductive invariant for rectangles.
RectInv == Laid(tree, draggable)

\* The first SetScreenRect gives every node its rectangle.
LEMMA InitRectInv == Init => RectInv
<1> SUFFICES ASSUME Init PROVE RectInv
  OBVIOUS
<1>1. PICK landscape \in Landscapes, size \in Sizes :
        tree = SetScreenRect(IF landscape THEN Landscape ELSE Portrait, Root,
                             <<size>>)
  BY DEF Init
<1>2. PICK t : Built(t) /\ tree = SetScreenRect(t, Root, <<size>>)
  BY <1>1, LandscapeOK, PortraitOK
<1>3. WellFormed(t) /\ Framed(t) /\ RectsIn(t, Sizes)
  BY <1>2 DEF Built, Neat
<1>4. Placed(tree)
  BY <1>2, <1>3, RootPlaced
<1>5. RectIn(<<size>>, Sizes)
  BY OneLong DEF RectIn
<1>6. RectsIn(tree, Sizes)
  BY <1>2, <1>3, <1>5, RectsStayIn DEF WellFormed
<1>7. DragTyped(draggable)
  BY DEF Init, None, DragTyped
<1> QED  BY <1>4, <1>6, <1>7 DEF RectInv, Laid

\* draggable_.reset() leaves no stale rectangle either.
LEMMA ResetLaid ==
  ASSUME IInv, RectInv, NEW t, NEW next, Laid(t, next),
         Leaf \ InTree(t) = OutFor(draggable) \cup OutFor(next),
         ResetDraggable(t, next)
  PROVE  RectInv'
<1>1. CASE Cancels(draggable) /\ ~SiblingInTree(t, draggable)
  BY <1>1 DEF ResetDraggable, RectInv, Laid, DragTyped
<1>2. CASE ~Cancels(draggable)
  BY <1>2 DEF ResetDraggable, RectInv
<1>3. CASE Cancels(draggable) /\ SiblingInTree(t, draggable)
  <2> DEFINE w == draggable.dragging
             u == CancelDrag(t, draggable)
  <2>1. tree' = u /\ draggable' = next
    BY <1>3 DEF ResetDraggable
  <2>2. OutFor(draggable) = {w} /\ WindowOK(tree, draggable)
    BY <1>3 DEF Cancels, OutFor, IInv, Sound, DragOK, SplitterOK, None
  <2>3. /\ w \in Leaf /\ w \notin InTree(t)
        /\ draggable.cancel_sibling \in InTree(t)
        /\ draggable.cancel_direction \in Direction
    BY <1>3, <2>2, DockingAssumption DEF SiblingInTree, WindowOK
  <2>4. Placed(u) /\ RectsIn(u, Sizes)
    BY <2>3, CancelLaid DEF Laid
  <2> QED  BY <2>1, <2>4 DEF Laid, RectInv
<1> QED  BY <1>1, <1>2, <1>3

\* No step leaves a stale one.
LEMMA StepRectInv == IInv /\ RectInv /\ [Next]_vars => RectInv'
<1> SUFFICES ASSUME IInv, RectInv, [Next]_vars PROVE RectInv'
  OBVIOUS
<1>1. CASE UNCHANGED <<tree, draggable>>
  BY <1>1 DEF RectInv, Laid, DragTyped
<1>2. ASSUME NEW w \in ToolWindow, PickUp(w)
      PROVE  RectInv'
  <2> DEFINE t == ReleaseChild(tree, w)
             n == NewDragger(tree, w)
  <2>1. Sound(tree, draggable) /\ w \in InTree(tree) /\ ResetDraggable(t, n)
    BY <1>2 DEF PickUp, IInv
  <2>2. /\ n.kind = "window" /\ n.on_drop_target = NULL /\ n.dragging = w
        /\ tree.parent[w] \in Container
        /\ Leaf \ InTree(t) = (Leaf \ InTree(tree)) \cup {w}
    BY <2>1, PickedUp
  <2>3. w \in Leaf
    BY DockingAssumption
  <2>4. Placed(t) /\ RectsIn(t, Sizes)
    BY <2>1, <2>2, <2>3, ReleaseLaid DEF RectInv, Laid
  <2>5. n.initial_rect = tree.rect[w]
    BY DEF NewDragger
  <2> HIDE DEF t, n
  <2>6. RectIn(n.initial_rect, Sizes)
    BY <2>3, <2>5, Kinds DEF RectInv, Laid, RectsIn
  <2>7. Laid(t, n)
    BY <2>2, <2>4, <2>6 DEF Laid, DragTyped
  <2>8. OutFor(n) = {w} /\ Leaf \ InTree(tree) = OutFor(draggable)
    BY <2>1, <2>2 DEF OutFor, Sound
  <2> QED  BY <2>1, <2>2, <2>7, <2>8, ResetLaid
<1>3. ASSUME NEW c \in Alive(tree), GrabSplitter(c)
      PROVE  RectInv'
  <2> DEFINE n == [kind |-> "splitter", resizing |-> c]
  <2>1. n.kind = "splitter" /\ OutFor(n) = {} /\ ResetDraggable(tree, n)
    BY <1>3 DEF OutFor, GrabSplitter
  <2> HIDE DEF n
  <2>2. Laid(tree, n)
    BY <2>1 DEF RectInv, Laid, DragTyped
  <2>3. Leaf \ InTree(tree) = OutFor(draggable)
    BY DEF IInv, Sound
  <2> QED  BY <2>1, <2>2, <2>3, ResetLaid
<1>4. ASSUME ResetDraggable(tree, None)
      PROVE  RectInv'
  <2>1. Laid(tree, None) /\ OutFor(None) = {}
    BY DEF RectInv, Laid, DragTyped, None, OutFor
  <2>2. Leaf \ InTree(tree) = OutFor(draggable)
    BY DEF IInv, Sound
  <2> QED  BY <1>4, <2>1, <2>2, ResetLaid
<1>5. ASSUME NEW b \in Buttons, Press(b)
      PROVE  RectInv'
  BY <1>1, <1>2, <1>3, <1>5 DEF Press, ClickContents
<1>6. ASSUME NEW b \in Buttons, Release(b)
      PROVE  RectInv'
  BY <1>1, <1>4, <1>6 DEF Release
<1>7. CASE Move
  <2>1. CASE draggable.kind = "window" /\ DragWindow
    <3> DEFINE out == Undock(tree, draggable)
    <3>1. PICK target \in {NULL} \cup Indicators(draggable.targets) :
            /\ tree' = DockAt(out, draggable, target)
            /\ draggable' = [draggable EXCEPT !.on_drop_target = target]
      BY <2>1 DEF DragWindow
    <3>2. Placed(out) /\ RectsIn(out, Sizes)
      BY <2>1, UndockLaid DEF IInv, RectInv
    <3>3. /\ WindowOK(tree, draggable) /\ draggable.dragging \in Leaf
          /\ draggable.targets \subseteq InTree(out)
          /\ draggable.dragging \notin InTree(out)
      BY <2>1, Undocked DEF IInv
    <3> HIDE DEF out
    <3>4. Placed(tree') /\ RectsIn(tree', Sizes)
      <4>1. CASE target = NULL
        BY <3>1, <3>2, <4>1 DEF DockAt
      <4>2. CASE target # NULL
        <5>1. target.dockable \in InTree(out) /\ target.direction \in Direction
          BY <3>1, <3>3, <4>2 DEF Indicators
        <5> QED  BY <3>1, <3>2, <3>3, <4>2, <5>1, DockLaid
      <4> QED  BY <4>1, <4>2
    <3>5. /\ draggable'.initial_rect = draggable.initial_rect
          /\ draggable'.targets = draggable.targets
          /\ draggable'.on_drop_target = target
      BY <3>1, <3>3 DEF WindowOK
    <3>6. DragTyped(draggable)'
      BY <2>1, <3>1, <3>5 DEF RectInv, Laid, DragTyped
    <3> QED  BY <3>4, <3>6 DEF RectInv, Laid
  <2>2. CASE draggable.kind = "splitter" /\ DragSplitter
    <3>1. PICK f \in Fractions :
            tree' = SetFraction(tree, draggable.resizing, f)
      BY <2>2 DEF DragSplitter
    <3>2. draggable' = draggable /\ DragTyped(draggable)'
      BY <2>2 DEF DragSplitter, DragTyped
    <3>3. draggable.resizing \in Alive(tree)
      BY <2>2 DEF IInv, Sound, DragOK, SplitterOK, WindowOK, None
    <3>4. draggable.resizing \in Split /\ draggable.resizing \in InTree(tree)
          /\ draggable.resizing \in Node
      BY <3>3, TreeFacts, Kinds DEF IInv, Sound
    <3>5. Placed(tree')
      BY <3>1, <3>4, FractionPlaced DEF RectInv, Laid
    <3>6. RectsIn(tree', Sizes)
      BY <3>1, <3>4, FractionFramed DEF RectInv, Laid, Placed
    <3> QED  BY <3>2, <3>5, <3>6 DEF RectInv, Laid
  <2> QED  BY <1>1, <1>7, <2>1, <2>2 DEF Move
<1>8. CASE Resize
  <2>1. PICK size \in Sizes : tree' = SetScreenRect(tree, Root, <<size>>)
    BY <1>8 DEF Resize
  <2>2. WellFormed(tree) /\ Framed(tree) /\ RectsIn(tree, Sizes)
    BY DEF RectInv, Laid, Placed
  <2>3. Placed(tree')
    BY <2>1, <2>2, RootPlaced
  <2>4. RectIn(<<size>>, Sizes)
    BY OneLong DEF RectIn
  <2>5. RectsIn(tree', Sizes)
    BY <2>1, <2>2, <2>4, RectsStayIn DEF WellFormed
  <2>6. DragTyped(draggable)'
    BY <1>8 DEF Resize, RectInv, Laid, DragTyped
  <2> QED  BY <2>3, <2>5, <2>6 DEF RectInv, Laid
<1> QED  BY <1>1, <1>5, <1>6, <1>7, <1>8 DEF Next, vars

\* So there never is one.
LEMMA RectInvariance == Spec => []RectInv
BY InitRectInv, StepRectInv, Invariance, PTL, InitIInv, StepIInv DEF Spec

\* After any presses, moves, releases and resizings, every node of the tree has
\* the rectangle that its parent gives it now (SetScreenRect after SplitChild,
\* Replace, SetFraction and WM_SIZE).
THEOREM RectsStayCurrent == Spec => []RectsCurrent
<1>1. RectInv => RectsCurrent
  BY PlacedRects DEF RectInv, Laid, RectsCurrent, CurrentAt
<1> QED  BY <1>1, RectInvariance, PTL

\* What TypeOK says of the mouse.
MouseOK ==
  /\ held \subseteq Buttons
  /\ captured \in BOOLEAN /\ inside \in BOOLEAN
  /\ stopped \in {"no", "sibling", "target"}
  /\ gestures \in 0 .. MaxGestures

\* The types of the tree, of the drag and of the mouse.
THEOREM DockingTyped == Spec => []TypeOK
<1>1. Init => MouseOK
  <2> SUFFICES ASSUME Init PROVE MouseOK
    OBVIOUS
  <2>1. MaxGestures \in Nat
    BY DockingAssumption
  <2>2. gestures \in 0 .. MaxGestures
    BY <2>1 DEF Init
  <2> QED  BY <2>2 DEF Init, MouseOK
<1>2. MouseOK /\ [Next]_vars => MouseOK'
  <2> SUFFICES ASSUME MouseOK, [Next]_vars PROVE MouseOK'
    OBVIOUS
  <2>1. gestures \in Nat /\ MaxGestures \in Nat /\ gestures <= MaxGestures
    BY DockingAssumption DEF MouseOK
  <2>2. \A t, next : ResetDraggable(t, next) =>
          stopped' \in {"no", "sibling", "target"}
    BY DEF ResetDraggable, MouseOK
  <2>3. ASSUME NEW b \in Buttons, Press(b)
        PROVE  MouseOK'
    <3>1. /\ held' \subseteq Buttons
          /\ captured' \in BOOLEAN /\ inside' \in BOOLEAN
      BY <2>3 DEF Press, Delivered, MouseOK
    <3>2. /\ stopped' \in {"no", "sibling", "target"}
          /\ gestures' \in 0 .. MaxGestures
      <4>1. \/ gestures < MaxGestures /\ gestures' = gestures + 1
            \/ gestures' = gestures
        BY <2>3 DEF Press, PickUp, GrabSplitter, ClickContents
      <4>2. gestures' \in 0 .. MaxGestures
        BY <2>1, <4>1
      <4>3. stopped' \in {"no", "sibling", "target"}
        BY <2>2, <2>3 DEF Press, PickUp, GrabSplitter, ClickContents, MouseOK
      <4> QED  BY <4>2, <4>3
    <3> QED  BY <3>1, <3>2 DEF MouseOK
  <2>4. ASSUME NEW b \in Buttons, Release(b)
        PROVE  MouseOK'
    BY <2>2, <2>4 DEF Release, Delivered, MouseOK
  <2>5. CASE Move
    BY <2>5 DEF Move, MouseOK
  <2>6. CASE Resize
    BY <2>1, <2>6 DEF Resize, MouseOK
  <2>7. CASE UNCHANGED vars
    BY <2>7 DEF vars, MouseOK
  <2> QED  BY <2>3, <2>4, <2>5, <2>6, <2>7 DEF Next
<1>3. IInv /\ RectInv /\ MouseOK => TypeOK
  <2> SUFFICES ASSUME IInv, RectInv, MouseOK PROVE TypeOK
    OBVIOUS
  <2>1. /\ tree.left \in [Split -> Node \cup {NULL}]
        /\ tree.right \in [Split -> Node \cup {NULL}]
        /\ tree.parent \in [Node -> Split \cup {NULL}]
        /\ tree.direction \in [Split -> Direction]
    BY DEF IInv, Sound, WellFormed, Shaped
  <2>2. \A n \in Node : tree.rect[n] = <<>> \/ Head(tree.rect[n]) \in Sizes
    BY DEF RectInv, Laid, RectsIn, RectIn
  <2>3. Dragging => /\ draggable.dragging \in ToolWindow
                    /\ draggable.on_drop_target \in
                         {NULL} \cup Indicators(draggable.targets)
    BY DEF Dragging, IInv, Sound, DragOK, SplitterOK, WindowOK, None, RectInv,
           Laid, DragTyped
  <2> QED  BY <2>1, <2>2, <2>3 DEF TypeOK, MouseOK
<1> QED  BY <1>1, <1>2, <1>3, Invariance, RectInvariance, PTL DEF Spec

---------------------------------------------------------------------------
(* Dragging over targets *)

\* Window n of tree t lies where layout `places' says.
LiesIn(t, n, places) == Tail(t.rect[n]) = places[n]

\* A drag d in tree t: without the window, the layout is `left'; cancelled, it
\* is `old'; while it hovers at a window, every other one lies as in `left'.
Undone(t, d, old, left) ==
  d.kind = "window" =>
    /\ Layout(Undock(t, d)) = left
    /\ Layout(CancelDrag(Undock(t, d), d)) = old
    /\ d.on_drop_target # NULL /\ d.on_drop_target.dockable \in Leaf =>
         \A n \in DockTargets(t) \ {d.dragging, d.on_drop_target.dockable} :
           LiesIn(t, n, left)

\* The inductive invariant of a drag, of the histories before and without.
HoverInv == Undone(tree, draggable, before, without)

\* What CancelDrag does does not depend on the target.
LEMMA CancelOther ==
  ASSUME NEW t, NEW d, NEW s, WindowOK(s, d), NEW target
  PROVE  CancelDrag(t, [d EXCEPT !.on_drop_target = target]) = CancelDrag(t, d)
<1> DEFINE e == [d EXCEPT !.on_drop_target = target]
<1>1. /\ e.dragging = d.dragging /\ e.cancel_sibling = d.cancel_sibling
      /\ e.cancel_direction = d.cancel_direction
      /\ e.cancel_fraction = d.cancel_fraction
      /\ e.cancel_was_primary = d.cancel_was_primary
  BY DEF WindowOK
<1> HIDE DEF e
<1>2. CancelDrag(t, e) = CancelDrag(t, d)
  BY <1>1 DEF CancelDrag
<1> QED  BY <1>2 DEF e

\* Two trees in which the drag comes to the same.
LEMMA SameOut ==
  ASSUME NEW t, NEW u, NEW d, Placed(t), Placed(u), Twin(t, u),
         d.dragging \in Leaf, d.dragging \notin InTree(t),
         d.cancel_sibling \in InTree(t), d.cancel_direction \in Direction
  PROVE  /\ Layout(u) = Layout(t)
         /\ Layout(CancelDrag(u, d)) = Layout(CancelDrag(t, d))
<1>1. Layout(u) = Layout(t) /\ InTree(u) = InTree(t)
  BY TwinLayout
<1>2. Placed(CancelDrag(t, d)) /\ Placed(CancelDrag(u, d))
  BY <1>1, CancelPlaced
<1>3. Twin(CancelDrag(t, d), CancelDrag(u, d))
  BY TwinCancel
<1> QED  BY <1>1, <1>2, <1>3, TwinLayout

\* Taking the window out of twins.
LEMMA UndockTwin ==
  ASSUME NEW t, NEW u, NEW d, Sound(t, d), Laid(t, d), Sound(u, d), Laid(u, d),
         d.kind = "window", Twin(t, u)
  PROVE  Twin(Undock(t, d), Undock(u, d))
<1> DEFINE w == d.dragging
           a == ReleaseChild(t, w)
           b == ReleaseChild(u, w)
<1>1. CASE d.on_drop_target = NULL
  BY <1>1 DEF Undock
<1>2. CASE d.on_drop_target # NULL
  <2>1. /\ w \in Leaf /\ w \in InTree(t) /\ t.parent[w] \in Container
        /\ Placed(t) /\ RectsIn(t, Sizes) /\ RectIn(d.initial_rect, Sizes)
    BY <1>2, Undocked DEF WindowOK, Laid, DragTyped
  <2>2. /\ w \in InTree(u) /\ u.parent[w] \in Container
        /\ Placed(u) /\ RectsIn(u, Sizes)
    BY <1>2, Undocked DEF WindowOK, Laid, DragTyped
  <2>3. Undock(t, d) = [a EXCEPT !.rect[w] = d.initial_rect]
    BY <1>2 DEF Undock
  <2>4. Undock(u, d) = [b EXCEPT !.rect[w] = d.initial_rect]
    BY <1>2 DEF Undock
  <2>5. Placed(a) /\ RectsIn(a, Sizes) /\ w \notin InTree(a)
    BY <2>1, ReleaseLaid
  <2>6. Placed(b) /\ RectsIn(b, Sizes) /\ w \notin InTree(b)
    BY <2>1, <2>2, ReleaseLaid
  <2>7. Twin(a, b)
    BY <2>1, <2>2, TwinRelease
  <2> HIDE DEF w, a, b
  <2>8. Twin(a, Undock(t, d))
    BY <2>1, <2>3, <2>5, LooseRect
  <2>9. Twin(b, Undock(u, d))
    BY <2>1, <2>4, <2>6, LooseRect
  <2>10. Alive(b) = Alive(a) /\ Alive(Undock(t, d)) = Alive(a)
    BY <2>7, <2>8 DEF Twin, Alive
  <2> QED  BY <2>7, <2>8, <2>9, <2>10 DEF Twin
<1> QED  BY <1>1, <1>2

\* What a split adds to the tree.
LEMMA SplitGains ==
  ASSUME NEW t, WellFormed(t), Unused(t) # {}, NEW x \in InTree(t),
         NEW w \in Leaf, w \notin InTree(t), NEW d \in Direction,
         NEW first, NEW second,
         \/ first = x /\ second = w
         \/ first = w /\ second = x
  PROVE  LET u == SplitChild(t, t.parent[x], d, first, second)
         IN  /\ InTree(u) = InTree(t) \cup {w, Fresh(t)}
             /\ Fresh(t) \in Container /\ u.parent[w] \in Container
<1> DEFINE u   == SplitChild(t, t.parent[x], d, first, second)
           new == Fresh(t)
<1>1. /\ WellFormed(u)
      /\ new \in Container \ InTree(t)
      /\ InTree(u) = InTree(t) \cup {w, new}
      /\ DockTargets(u) = DockTargets(t) \cup {w}
      /\ u.parent[w] = new /\ u.parent[x] = new
  BY SMTT(60), SplitWellFormed
<1> HIDE DEF u
<1>2. InTree(u) = InTree(t) \cup {w, new}
      /\ new \in Container /\ u.parent[w] \in Container
  BY <1>1
<1> QED  BY <1>2 DEF u

\* ToolWindowDragger::Drag: what it docks it can take out again.
LEMMA DragUndone ==
  ASSUME NEW t, NEW d, Sound(t, d), Laid(t, d), d.kind = "window",
         NEW old, NEW left, Undone(t, d, old, left),
         NEW target \in {NULL} \cup Indicators(d.targets)
  PROVE  Undone(DockAt(Undock(t, d), d, target),
                [d EXCEPT !.on_drop_target = target], old, left)
<1> DEFINE w   == d.dragging
           out == Undock(t, d)
           e   == [d EXCEPT !.on_drop_target = target]
           u   == DockAt(out, d, target)
<1>1. /\ WindowOK(t, d) /\ w \in Leaf
      /\ WellFormed(out) /\ w \notin InTree(out)
      /\ d.targets \subseteq InTree(out)
      /\ d.cancel_sibling \in InTree(out) /\ d.cancel_direction \in Direction
  BY Undocked DEF WindowOK
<1>2. Placed(out) /\ RectsIn(out, Sizes)
  BY UndockLaid
<1>3. Layout(out) = left /\ Layout(CancelDrag(out, d)) = old
  BY DEF Undone
<1>4. /\ e.kind = "window" /\ e.on_drop_target = target /\ e.dragging = w
      /\ e.initial_rect = d.initial_rect
  BY <1>1 DEF WindowOK
<1>5. \A x : CancelDrag(x, e) = CancelDrag(x, d)
  BY <1>1, CancelOther
<1> HIDE DEF out, e
<1>6. CASE target = NULL
  <2>1. u = out
    BY <1>6 DEF DockAt
  <2>2. Undock(u, e) = out
    BY <1>4, <1>6, <2>1 DEF Undock
  <2> QED  BY <1>3, <1>4, <1>5, <1>6, <2>1, <2>2 DEF Undone, e, out
<1>7. CASE target # NULL
  <2> DEFINE at     == target.dockable
             first  == IF target.this_dockable_first THEN at ELSE w
             second == IF target.this_dockable_first THEN w ELSE at
             dir    == target.direction
             split  == SplitChild(out, out.parent[at], dir, first, second)
             back   == ReleaseChild(split, w)
  <2>1. at \in InTree(out) /\ dir \in Direction
    BY <1>1, <1>7 DEF Indicators
  <2>2. u = split
    BY <1>7 DEF DockAt
  <2>3. \/ first = at /\ second = w
        \/ first = w /\ second = at
    OBVIOUS
  <2>4. Unused(out) # {}
    BY <1>1, RoomLeft, DockingAssumption
  <2>5. Undock(u, e) = [back EXCEPT !.rect[w] = d.initial_rect]
    BY <1>4, <1>7, <2>2 DEF Undock
  <2> HIDE DEF at, first, second, dir, w
  <2>6. Placed(back) /\ Twin(out, back)
    BY <1>1, <1>2, <2>1, <2>3, <2>4, InAndOut
  <2>7. InTree(split) = InTree(out) \cup {w, Fresh(out)}
        /\ Fresh(out) \in Container /\ split.parent[w] \in Container
    BY <1>1, <2>1, <2>3, <2>4, SplitGains
  <2>8. RectsIn(back, Sizes)
    <3>1. Placed(split)
      BY <1>1, <1>2, <2>1, <2>3, <2>4, SplitPlaced
    <3>2. Neat(split)
      <4>1. Built(out)
        BY <1>1, <1>2 DEF Built, Neat, Placed
      <4> QED  BY <1>1, <2>1, <2>3, <2>4, <4>1, SplitNeat
    <3>3. w \in InTree(split) /\ split.parent[w] \in Container
      BY <2>7
    <3> HIDE DEF split
    <3> QED  BY <1>1, <3>1, <3>2, <3>3, ReleaseLaid DEF Neat
  <2> HIDE DEF back, split
  <2>9. w \notin InTree(back)
    BY <1>1, <2>6 DEF Twin, InTree
  <2>10. RectIn(d.initial_rect, Sizes)
    BY DEF Laid, DragTyped
  <2> DEFINE again == Undock(u, e)
  <2>11. Placed(again) /\ Twin(back, again)
    BY <1>1, <2>5, <2>6, <2>8, <2>9, <2>10, LooseRect
  <2> HIDE DEF again
  <2>12. Twin(out, again)
    <3>1. Alive(back) = Alive(out)
      BY <2>6 DEF Twin, Alive
    <3> QED  BY <2>6, <2>11, <3>1 DEF Twin
  <2>13. Layout(again) = left /\ Layout(CancelDrag(again, e)) = old
    BY <1>1, <1>2, <1>3, <1>5, <2>11, <2>12, SameOut DEF w
  <2>14. ASSUME at \in Leaf
         PROVE  \A n \in DockTargets(u) \ {w, at} : LiesIn(u, n, left)
    <3> SUFFICES ASSUME NEW n \in DockTargets(u) \ {w, at}
                 PROVE  LiesIn(u, n, left)
      OBVIOUS
    <3>1. n \in InTree(out) /\ n \in DockTargets(out)
      BY <2>2, <2>7, Kinds DEF DockTargets
    <3>2. Tail(split.rect[n]) = Tail(out.rect[n])
      <4>1. \A m \in InTree(out) \ {at} : Tail(split.rect[m]) = Tail(out.rect[m])
        BY <1>1, <1>2, <2>1, <2>3, <2>4, <2>14, SplitMovesOne DEF split
      <4> QED  BY <3>1, <4>1
    <3>3. Layout(out)[n] = Tail(out.rect[n])
      BY <3>1 DEF Layout
    <3> QED  BY <1>3, <2>2, <3>2, <3>3 DEF LiesIn
  <2> HIDE DEF u
  <2>15. Undone(u, e, old, left)
    BY <1>4, <2>13, <2>14 DEF Undone, again, at
  <2> QED  BY <2>15 DEF u, e, out
<1> QED  BY <1>6, <1>7

---------------------------------------------------------------------------
\* The layout of a tree is the same at every size of the application window.
LEMMA SizeUndone ==
  ASSUME NEW t, NEW u, NEW d, Sound(t, d), Laid(t, d), Sound(u, d), Laid(u, d),
         Twin(t, u), NEW old, NEW left, Undone(t, d, old, left)
  PROVE  Undone(u, d, old, left)
<1> SUFFICES ASSUME d.kind = "window" PROVE Undone(u, d, old, left)
  BY DEF Undone
<1> DEFINE a == Undock(t, d)
           b == Undock(u, d)
<1>1. Placed(a) /\ Placed(b) /\ Twin(a, b)
  BY UndockLaid, UndockTwin
<1>2. /\ WindowOK(t, d) /\ d.dragging \in Leaf /\ d.dragging \notin InTree(a)
      /\ d.cancel_sibling \in InTree(a) /\ d.cancel_direction \in Direction
  BY Undocked DEF WindowOK
<1> HIDE DEF a, b
<1>3. Layout(b) = Layout(a) /\ Layout(CancelDrag(b, d)) = Layout(CancelDrag(a, d))
  BY <1>1, <1>2, SameOut
<1>4. InTree(u) = InTree(t) /\ \A n \in InTree(t) :
        Tail(u.rect[n]) = Tail(t.rect[n])
  BY TwinLayout DEF Laid
<1>5. Layout(a) = left /\ Layout(CancelDrag(a, d)) = old
  BY DEF Undone, a
<1>6. ASSUME d.on_drop_target # NULL, d.on_drop_target.dockable \in Leaf
      PROVE  \A n \in DockTargets(u) \ {d.dragging, d.on_drop_target.dockable} :
               LiesIn(u, n, left)
  <2>1. \A n \in DockTargets(t) \ {d.dragging, d.on_drop_target.dockable} :
          LiesIn(t, n, left)
    BY <1>6 DEF Undone
  <2> QED  BY <1>4, <2>1 DEF DockTargets, LiesIn
<1> QED  BY <1>3, <1>5, <1>6 DEF Undone, b

\* The press that picks a window up, when no other drag is going on.
LEMMA PickUpUndone ==
  ASSUME IInv, RectInv, draggable = None, NEW w \in ToolWindow, PickUp(w)
  PROVE  HoverInv'
<1> DEFINE t == ReleaseChild(tree, w)
           n == NewDragger(tree, w)
<1>1. Sound(tree, draggable) /\ w \in InTree(tree) /\ w \in Leaf
      /\ Placed(tree)
  BY DockingAssumption DEF PickUp, IInv, RectInv, Laid
<1>2. n.kind = "window" /\ n.on_drop_target = NULL
      /\ tree.parent[w] \in Container
  BY <1>1, PickedUp
<1>3. tree' = t /\ draggable' = n
  BY DEF PickUp, ResetDraggable, Cancels, None
<1>4. before' = Layout(tree) /\ without' = Layout(t)
  BY DEF PickUp
<1>5. Layout(CancelDrag(t, n)) = Layout(tree)
  BY <1>1, <1>2, OutAndBack
<1> HIDE DEF t, n
<1>6. Undock(t, n) = t
  BY <1>2 DEF Undock
<1> QED  BY <1>2, <1>3, <1>4, <1>5, <1>6 DEF HoverInv, Undone

\* No step with the left button breaks it.
LEMMA StepHoverInv ==
  ASSUME Buttons = {0}, IInv, RectInv, OneButton, HoverInv, [Next]_vars
  PROVE  HoverInv'
<1>1. CASE UNCHANGED <<tree, draggable, before, without>>
  BY <1>1 DEF HoverInv, Undone
<1>2. CASE Press(0)
  <2>1. draggable = None
    BY <1>2 DEF Press, OneButton
  <2>2. ASSUME NEW c \in Alive(tree), GrabSplitter(c)
        PROVE  HoverInv'
    <3>1. draggable'.kind = "splitter"
      BY <2>1, <2>2 DEF GrabSplitter, ResetDraggable, Cancels, None
    <3> QED  BY <3>1 DEF HoverInv, Undone
  <2> QED  BY <1>1, <1>2, <2>1, <2>2, PickUpUndone DEF Press, ClickContents
<1>3. CASE Release(0)
  <2>1. CASE ResetDraggable(tree, None)
    <3>1. ~Cancels(draggable) \/ SiblingInTree(tree, draggable)
      BY DEF SiblingInTree, Cancels, IInv, Sound, DragOK, SplitterOK, WindowOK,
             None
    <3>2. draggable' = None
      BY <2>1, <3>1 DEF ResetDraggable
    <3> QED  BY <3>2 DEF HoverInv, Undone, None
  <2> QED  BY <1>1, <1>3, <2>1 DEF Release
<1>4. CASE Move
  <2>1. before' = before /\ without' = without
    BY <1>4 DEF Move
  <2>2. CASE draggable.kind = "window" /\ DragWindow
    <3>1. PICK target \in {NULL} \cup Indicators(draggable.targets) :
            /\ tree' = DockAt(Undock(tree, draggable), draggable, target)
            /\ draggable' = [draggable EXCEPT !.on_drop_target = target]
      BY <2>2 DEF DragWindow
    <3>2. Undone(DockAt(Undock(tree, draggable), draggable, target),
                 [draggable EXCEPT !.on_drop_target = target], before, without)
      BY <2>2, DragUndone DEF IInv, RectInv, HoverInv
    <3> QED  BY <2>1, <3>1, <3>2 DEF HoverInv
  <2>3. CASE draggable.kind = "splitter" /\ DragSplitter
    BY <2>3 DEF DragSplitter, HoverInv, Undone
  <2> QED  BY <1>1, <1>4, <2>2, <2>3 DEF Move
<1>5. CASE Resize
  <2>1. PICK size \in Sizes : tree' = SetScreenRect(tree, Root, <<size>>)
    BY <1>5 DEF Resize
  <2>2. WellFormed(tree) /\ Framed(tree)
    BY DEF RectInv, Laid, Placed
  <2>3. Twin(tree, tree')
    BY <2>1, <2>2, LaidOut, RootPlaced DEF Twin
  <2>4. draggable' = draggable /\ before' = before /\ without' = without
    BY <1>5 DEF Resize
  <2>5. IInv' /\ RectInv'
    BY StepIInv, StepRectInv
  <2> QED  BY <2>3, <2>4, <2>5, SizeUndone DEF IInv, RectInv, HoverInv
<1> QED  BY <1>1, <1>2, <1>3, <1>4, <1>5 DEF Next, vars

\* So it holds throughout.
LEMMA HoverInvariance ==
  ASSUME Buttons = {0}
  PROVE  Spec => [](IInv /\ RectInv /\ OneButton /\ HoverInv)
<1>1. Init => HoverInv
  BY DEF Init, HoverInv, Undone, None
<1>2. IInv /\ RectInv /\ OneButton /\ HoverInv /\ [Next]_vars =>
        OneButton' /\ HoverInv'
  BY StepHoverInv, OneButtonStep
<1>3. Init => OneButton
  BY DEF Init, OneButton, NeverStopped
<1> QED  BY <1>1, <1>2, <1>3, Invariance, RectInvariance, PTL DEF Spec

\* Dragged over any number of targets with the left button and over none now,
\* a window has left no trace: the others lie where they lay when it was taken
\* out (ToolWindowDragger::Drag takes the window out and docks it again).
THEOREM NoTraceLeft ==
  ASSUME Buttons = {0}
  PROVE  Spec => []HoverLeavesNoTrace
<1>1. HoverInv => HoverLeavesNoTrace
  BY DEF HoverInv, Undone, HoverLeavesNoTrace, Loose, Hovering, Dragging, Undock
<1> QED  BY <1>1, HoverInvariance, PTL

\* While it hovers at one window, ToolWindowDragger::Drag has moved no other.
THEOREM OnlyTargetMoves ==
  ASSUME Buttons = {0}
  PROVE  Spec => []HoverMovesTargetOnly
<1>1. HoverInv => HoverMovesTargetOnly
  BY DEF HoverInv, Undone, LiesIn, HoverMovesTargetOnly, Hovering, Dragging
<1> QED  BY <1>1, HoverInvariance, PTL

\* ToolWindowDragger::CancelDrag puts the window back where it was picked up,
\* and with it every other one, over whatever targets it was dragged and
\* however the application window was resized meanwhile.
THEOREM CancelPutsBack ==
  ASSUME Buttons = {0}
  PROVE  Spec => CancelRestores
<1> DEFINE Back == Loose # {} /\ draggable' = None => Layout(tree') = before
<1>1. IInv /\ OneButton /\ HoverInv /\ [Next]_vars => [Back]_vars
  <2> SUFFICES ASSUME IInv, OneButton, HoverInv, Next,
                      Loose # {}, draggable' = None
               PROVE  Layout(tree') = before
    OBVIOUS
  <2>1. draggable.kind = "window" /\ draggable.on_drop_target = NULL
    BY DEF Loose, Hovering, Dragging
  <2>2. draggable # None /\ draggable' # draggable
    BY <2>1 DEF None
  <2>3. CASE Press(0)
    BY <2>2, <2>3 DEF Press, OneButton
  <2>4. CASE Release(0)
    <3>1. ResetDraggable(tree, None)
      BY <2>2, <2>4 DEF Release
    <3>2. Cancels(draggable)
      BY <2>1 DEF Cancels
    <3>3. tree' = CancelDrag(tree, draggable)
      BY <2>2, <3>1, <3>2 DEF ResetDraggable
    <3>4. Undock(tree, draggable) = tree
      BY <2>1 DEF Undock
    <3> QED  BY <2>1, <3>3, <3>4 DEF HoverInv, Undone
  <2>5. CASE Move
    <3>1. WindowOK(tree, draggable)
      BY <2>1 DEF IInv, Sound, DragOK, SplitterOK, None
    <3>2. draggable'.kind = "window"
      BY <2>1, <2>5, <3>1 DEF Move, DragWindow, DragSplitter, WindowOK
    <3> QED  BY <3>2 DEF None
  <2>6. CASE Resize
    BY <2>2, <2>6 DEF Resize
  <2> QED  BY <2>3, <2>4, <2>5, <2>6 DEF Next
<1>2. Spec => [][Back]_vars
  BY <1>1, HoverInvariance, PTL DEF Spec
<1> QED  BY <1>2 DEF CancelRestores
=============================================================================
