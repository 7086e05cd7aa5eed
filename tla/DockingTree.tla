---------------------------- MODULE DockingTree ----------------------------
(***************************************************************************)
(* The tree of docked windows (sg/ui/docking_split_container.cc,           *)
(* sg/ui/docking_workspace.cc) as a value, and each of its operations as   *)
(* the tree it returns.  A node is a leaf (the source view, or a tool      *)
(* window), a container, or the container of direction kSplitNoneRoot that *)
(* DockingWorkspace keeps as root_ and whose left_ is the visible tree.    *)
(*                                                                         *)
(* Pixels are left out.  What SetScreenRect computes depends only on the   *)
(* rectangle it is given and, at each container, on the direction, the     *)
(* fraction and the side, so a rectangle is written as the expression that *)
(* computes it: the size of the workspace, then one <<direction, fraction, *)
(* side>> for each container on the way down.  Equal expressions are equal *)
(* rectangles; a fraction is in thousandths.                               *)
(***************************************************************************)
EXTENDS Naturals, Sequences, FiniteSets

CONSTANTS
  Leaf,           \* the source view and the tool windows
  MaxContainers,  \* containers that can be alive at once: bound of the model
  NULL            \* the null pointer

Root == 0
Container == 1..MaxContainers
Split == Container \cup {Root}
Node == Split \cup Leaf

ASSUME TreeAssumption ==
  /\ MaxContainers \in Nat
  /\ IsFiniteSet(Leaf)
  /\ NULL \notin Node
  /\ Leaf \cap Nat = {}

Direction == {"vertical", "horizontal"}

\* fraction_(0.5) of the constructor.
Half == 500

\* DockingWorkspace(): a root without children, before any SetScreenRect.
EmptyTree ==
  [left      |-> [c \in Split |-> NULL],
   right     |-> [c \in Split |-> NULL],
   parent    |-> [n \in Node |-> NULL],
   direction |-> [c \in Split |-> "vertical"],
   fraction  |-> [c \in Split |-> Half],
   rect      |-> [n \in Node |-> <<>>]]

\* The containers that exist: a deleted one has given up both children.
Alive(t) == {c \in Container : t.left[c] # NULL}
Unused(t) == Container \ Alive(t)
Fresh(t) == CHOOSE c \in Unused(t) : TRUE

ChildrenOf(t, c) == {t.left[c], t.right[c]} \ {NULL}

\* The nodes that hang in the tree: those with a parent.
InTree(t) == {n \in Node : t.parent[n] # NULL}

\* Mutation: a rectangle is relative to its container instead of the screen.
ChildRectRelative(t, c, n, r) ==
  IF c = Root THEN r
  ELSE <<<<t.direction[c], t.fraction[c],
           IF t.left[c] = n THEN "first" ELSE "second">>>>

\* The rectangle container c hands to its child n when its own is r.
ChildRect(t, c, n, r) ==
  IF c = Root THEN r
  ELSE Append(r, <<t.direction[c], t.fraction[c],
                   IF t.left[c] = n THEN "first" ELSE "second">>)

\* SetScreenRect of a container hands their rectangles to its children, and
\* so on down.  A node that is not below `node' is given nothing, which is <<>>;
\* whose child a node is, is looked up by its parent pointer.
SetScreenRect(t, node, r) ==
  LET Given[n \in Node] ==
        IF n = node THEN r
        ELSE LET c == t.parent[n]
                 above == Given[c]
             IN  IF c = NULL \/ n \notin ChildrenOf(t, c) \/ above = <<>>
                 THEN <<>>
                 ELSE ChildRect(t, c, n, above)
  IN  [t EXCEPT !.rect =
         [n \in Node |-> LET given == Given[n]
                         IN  IF given = <<>> THEN t.rect[n] ELSE given]]

\* c's child `old' becomes `new', whichever side it is on.
PutChild(t, c, old, new) ==
  [t EXCEPT
     !.left[c]  = IF t.left[c] = old THEN new ELSE @,
     !.right[c] = IF t.left[c] # old /\ t.right[c] = old THEN new ELSE @]

\* DockingWorkspace::SetRoot, over ReplaceLeft.
SetRoot(t, n) ==
  [SetScreenRect([t EXCEPT !.left[Root] = n], n, t.rect[Root])
     EXCEPT !.parent[n] = Root]

\* Mutation: the fraction of the container that is split is reset, instead of
\* that of the new one.
SplitChildResetsOuter(t, c, direction, first, second) ==
  LET child == IF t.left[c] \in {first, second} THEN t.left[c] ELSE t.right[c]
      new   == Fresh(t)
      put   == PutChild(t, c, child, new)
      made  == [put EXCEPT
                  !.left[new]      = first,
                  !.right[new]     = second,
                  !.direction[new] = direction,
                  !.fraction[c]    = Half,
                  !.parent = [@ EXCEPT ![new]    = t.parent[child],
                                       ![first]  = new,
                                       ![second] = new]]
  IN  SetScreenRect(made, c, t.rect[c])

\* SplitChild of container c: of `first' and `second' one is a child of c; a
\* new container holding both takes its place and its rectangle.
SplitChild(t, c, direction, first, second) ==
  LET child == IF t.left[c] \in {first, second} THEN t.left[c] ELSE t.right[c]
      new   == Fresh(t)
      put   == PutChild(t, c, child, new)
      made  == [put EXCEPT
                  !.left[new]      = first,
                  !.right[new]     = second,
                  !.direction[new] = direction,
                  !.fraction[new]  = Half,
                  !.parent = [@ EXCEPT ![new]    = t.parent[child],
                                       ![first]  = new,
                                       ![second] = new]]
  IN  SetScreenRect(made, new, t.rect[child])

\* GetSiblingOf.
SiblingOf(t, n) ==
  LET c == t.parent[n]
  IN  IF t.left[c] = n THEN t.right[c] ELSE t.left[c]

\* Mutations: the replaced container is not deleted; the rectangles below c
\* are not computed again; the parent pointer of what comes in its place is not
\* set.
ReplaceKeeps(t, c, target, with) ==
  LET put  == PutChild(t, c, target, with)
      kept == [put EXCEPT !.parent[with] = c]
  IN  SetScreenRect(kept, c, t.rect[c])

ReplaceStale(t, c, target, with) ==
  [PutChild(t, c, target, with) EXCEPT
     !.parent = [@ EXCEPT ![with] = c, ![target] = NULL],
     !.left[target]  = NULL,
     !.right[target] = NULL]

ReplaceUnlinked(t, c, target, with) ==
  LET put  == PutChild(t, c, target, with)
      kept == [put EXCEPT !.parent[target] = NULL,
                          !.left[target]   = NULL,
                          !.right[target]  = NULL]
  IN  SetScreenRect(kept, c, t.rect[c])

\* Replace of container c, and the deletion of the container it replaces,
\* whose two children have been released before.
Replace(t, c, target, with) ==
  LET put  == PutChild(t, c, target, with)
      kept == [put EXCEPT
                 !.parent = [@ EXCEPT ![with] = c, ![target] = NULL],
                 !.left[target]      = NULL,
                 !.right[target]     = NULL,
                 !.direction[target] = "vertical",
                 !.fraction[target]  = Half,
                 !.rect[target]      = <<>>]
  IN  SetScreenRect(kept, c, t.rect[c])

\* n->parent()->ReleaseChild(n): the sibling takes the place of the parent.
ReleaseChild(t, n) ==
  LET c == t.parent[n]
  IN  [Replace(t, t.parent[c], c, SiblingOf(t, n)) EXCEPT !.parent[n] = NULL]

\* SetFraction.
SetFraction(t, c, f) ==
  LET set == [t EXCEPT !.fraction[c] = f]
  IN  SetScreenRect(set, c, t.rect[c])

\* GetDockTargets: the leaves of the tree.
DockTargets(t) == Leaf \cap InTree(t)

\* Where each window of the tree lies in the workspace, whatever its size.
\* Two trees have the same layout only if they have the same shape, order,
\* directions and fractions.
Layout(t) == [n \in DockTargets(t) |-> Tail(t.rect[n])]
=============================================================================
