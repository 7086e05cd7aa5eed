------------------------- MODULE DockingTreeProofs -------------------------
(***************************************************************************)
(* What SplitChild, ReleaseChild, SetFraction and SetScreenRect do to a    *)
(* tree, for any set of windows.  A tree is well-formed when its pointers  *)
(* match, when it has no cycle and when it has one container fewer than    *)
(* windows; it is placed when besides each node has the rectangle that its *)
(* parent gives it.                                                        *)
(***************************************************************************)
EXTENDS DockingTree, FiniteSetTheorems, SequenceTheorems,
        WellFoundedInduction, TLAPS

\* A tree is a record of functions; rectangles can be anything.
Shaped(t) ==
  /\ t = [field \in {"left", "right", "parent", "direction", "fraction",
                     "rect"} |-> t[field]]
  /\ t.left \in [Split -> Node \cup {NULL}]
  /\ t.right \in [Split -> Node \cup {NULL}]
  /\ t.parent \in [Node -> Split \cup {NULL}]
  /\ t.direction \in [Split -> Direction]

\* Each pointer has its counterpart, and a deleted container has none.
Linked(t) ==
  /\ \A n \in Node : t.parent[n] # NULL =>
       t.left[t.parent[n]] = n \/ t.right[t.parent[n]] = n
  /\ \A c \in Split, n \in Node :
       t.left[c] = n \/ t.right[c] = n => t.parent[n] = c
  /\ \A c \in Container : t.left[c] # NULL =>
       /\ t.right[c] # NULL /\ t.right[c] # t.left[c]
       /\ t.parent[c] # NULL
  /\ \A c \in Container : t.left[c] = NULL =>
       t.right[c] = NULL /\ t.parent[c] = NULL
  /\ t.left[Root] # NULL /\ t.right[Root] = NULL /\ t.parent[Root] = NULL

\* No cycle: some rank grows from a parent to its children.
RankOf(t, rank) ==
  /\ rank \in [Node -> Nat]
  /\ \A n \in Node : t.parent[n] # NULL => rank[t.parent[n]] < rank[n]

Ranked(t) == \E rank : RankOf(t, rank)

\* One container fewer than windows.
Counted(t) == Cardinality(Alive(t)) + 1 = Cardinality(DockTargets(t))

WellFormed(t) == Shaped(t) /\ Linked(t) /\ Ranked(t) /\ Counted(t)

\* Nodes of different kinds are different, and none is the null pointer.
LEMMA Kinds ==
  /\ Root \in Split /\ Root \in Node /\ Root \notin Container
  /\ Root \notin Leaf
  /\ Container \subseteq Split /\ Split \subseteq Node /\ Leaf \subseteq Node
  /\ Leaf \cap Split = {} /\ Leaf \cap Container = {}
  /\ NULL \notin Node /\ NULL \notin Split /\ NULL \notin Leaf
  /\ NULL \notin Container
  /\ Split = Container \cup {Root} /\ Node = Split \cup Leaf
BY TreeAssumption DEF Root, Container, Split, Node

\* SetScreenRect changes rectangles alone.
LEMMA OnlyRects ==
  ASSUME NEW t, NEW node, NEW r, Shaped(t)
  PROVE  LET u == SetScreenRect(t, node, r)
         IN  /\ Shaped(u)
             /\ u.left = t.left /\ u.right = t.right /\ u.parent = t.parent
             /\ u.direction = t.direction /\ u.fraction = t.fraction
BY DEF Shaped, SetScreenRect

\* Whatever changes neither the pointers nor the directions keeps a tree
\* well-formed.
LEMMA SameLinks ==
  ASSUME NEW t, NEW u, WellFormed(t), Shaped(u),
         u.left = t.left, u.right = t.right, u.parent = t.parent
  PROVE  /\ WellFormed(u)
         /\ InTree(u) = InTree(t) /\ Alive(u) = Alive(t)
         /\ DockTargets(u) = DockTargets(t)
<1>1. Linked(u)  BY DEF WellFormed, Linked
<1>2. Ranked(u)  BY DEF WellFormed, Ranked, RankOf
<1>3. InTree(u) = InTree(t) /\ Alive(u) = Alive(t)
  BY DEF InTree, Alive
<1>4. DockTargets(u) = DockTargets(t)  BY <1>3 DEF DockTargets
<1>5. Counted(u)  BY <1>3, <1>4 DEF WellFormed, Counted
<1> QED  BY <1>1, <1>2, <1>3, <1>4, <1>5 DEF WellFormed

\* Resizing the workspace, and moving a splitter, keep a tree well-formed.
LEMMA LaidOut ==
  ASSUME NEW t, NEW node, NEW r, WellFormed(t)
  PROVE  LET u == SetScreenRect(t, node, r)
         IN  /\ WellFormed(u) /\ InTree(u) = InTree(t) /\ Alive(u) = Alive(t)
             /\ DockTargets(u) = DockTargets(t) /\ u.parent = t.parent
             /\ u.left = t.left /\ u.right = t.right
<1>1. Shaped(t)  BY DEF WellFormed
<1> QED  BY <1>1, OnlyRects, SameLinks

\* SetFraction leaves every pointer alone.
LEMMA FractionSet ==
  ASSUME NEW t, NEW c, NEW f, WellFormed(t)
  PROVE  LET u == SetFraction(t, c, f)
         IN  /\ WellFormed(u) /\ InTree(u) = InTree(t) /\ Alive(u) = Alive(t)
             /\ DockTargets(u) = DockTargets(t) /\ u.parent = t.parent
             /\ u.left = t.left /\ u.right = t.right
<1> DEFINE v == [t EXCEPT !.fraction[c] = f]
<1>1. /\ Shaped(v) /\ v.left = t.left /\ v.right = t.right
      /\ v.parent = t.parent
  BY DEF WellFormed, Shaped
<1>2. WellFormed(v) /\ InTree(v) = InTree(t) /\ Alive(v) = Alive(t)
      /\ DockTargets(v) = DockTargets(t)
  BY <1>1, SameLinks
<1>3. SetFraction(t, c, f) = SetScreenRect(v, c, t.rect[c])
  BY DEF SetFraction
<1> HIDE DEF v
<1> QED  BY <1>1, <1>2, <1>3, LaidOut

\* The pointers after each step of SplitChild and ReleaseChild.
LEMMA PutChildPointers ==
  ASSUME NEW t, Shaped(t), NEW c \in Split, NEW old, NEW new \in Node
  PROVE  LET u == PutChild(t, c, old, new)
         IN  /\ Shaped(u)
             /\ u.left = [t.left EXCEPT
                            ![c] = IF t.left[c] = old THEN new ELSE t.left[c]]
             /\ u.right = [t.right EXCEPT
                             ![c] = IF t.left[c] # old /\ t.right[c] = old
                                    THEN new ELSE t.right[c]]
             /\ u.parent = t.parent
             /\ u.direction = t.direction /\ u.fraction = t.fraction
             /\ u.rect = t.rect
BY DEF Shaped, PutChild

\* The pointers after SplitChild, node by node.
LEMMA SplitPointers ==
  ASSUME NEW t, WellFormed(t), Unused(t) # {}, NEW x \in InTree(t),
         NEW w \in Leaf, w \notin InTree(t), NEW d \in Direction,
         NEW first, NEW second,
         \/ first = x /\ second = w
         \/ first = w /\ second = x
  PROVE  LET c   == t.parent[x]
             new == Fresh(t)
             u   == SplitChild(t, c, d, first, second)
         IN  /\ Shaped(u)
             /\ new \in Container /\ t.left[new] = NULL
             /\ \A k \in Split : u.left[k] =
                  IF k = new THEN first
                  ELSE IF k = c /\ t.left[c] = x THEN new ELSE t.left[k]
             /\ \A k \in Split : u.right[k] =
                  IF k = new THEN second
                  ELSE IF k = c /\ t.left[c] # x THEN new ELSE t.right[k]
             /\ \A n \in Node : u.parent[n] =
                  IF n = x \/ n = w THEN new ELSE IF n = new THEN c
                  ELSE t.parent[n]
<1> DEFINE c   == t.parent[x]
           new == Fresh(t)
           put == PutChild(t, c, x, new)
           made == [put EXCEPT
                  !.left[new]      = first,
                  !.right[new]     = second,
                  !.direction[new] = d,
                  !.fraction[new]  = Half,
                  !.parent = [@ EXCEPT ![new]    = t.parent[x],
                                       ![first]  = new,
                                       ![second] = new]]
<1>1. new \in Container /\ t.left[new] = NULL
  BY DEF Fresh, Unused, Alive
<1>2. x \in Node /\ x # w /\ c # NULL /\ c \in Split
  BY DEF WellFormed, Shaped, InTree
<1>3. t.left[c] = x \/ t.right[c] = x
  <2>1. \A n \in Node : t.parent[n] # NULL =>
          t.left[t.parent[n]] = n \/ t.right[t.parent[n]] = n
    BY DEF WellFormed, Linked
  <2> QED  BY <1>2, <2>1
<1>4. t.left[c] # w
  BY <1>2, Kinds DEF WellFormed, Linked, InTree
<1>5. (IF t.left[c] \in {first, second} THEN t.left[c] ELSE t.right[c]) = x
  BY <1>3, <1>4
<1>6. SplitChild(t, c, d, first, second) =
        SetScreenRect(made, new, t.rect[x])
  BY <1>5 DEF SplitChild
<1>7. new # x /\ new # w /\ new # c /\ new \in Node /\ new \in Split
  BY <1>1, <1>2, Kinds DEF WellFormed, Linked, InTree
<1>8. /\ Shaped(put)
      /\ put.left = [t.left EXCEPT ![c] = IF t.left[c] = x THEN new
                                          ELSE t.left[c]]
      /\ put.right = [t.right EXCEPT ![c] =
                         IF t.left[c] # x /\ t.right[c] = x
                         THEN new ELSE t.right[c]]
      /\ put.parent = t.parent
  BY <1>2, <1>7, PutChildPointers DEF WellFormed
<1> HIDE DEF put
<1>9. /\ made.left = [put.left EXCEPT ![new] = first]
      /\ made.right = [put.right EXCEPT ![new] = second]
      /\ made.parent = [t.parent EXCEPT ![new] = t.parent[x], ![first] = new,
                                        ![second] = new]
  BY <1>8 DEF Shaped
<1>10. Shaped(made)
  <2>1. made = [field \in {"left", "right", "parent", "direction",
                           "fraction", "rect"} |-> made[field]]
    BY <1>8 DEF Shaped
  <2>2. made.direction = [put.direction EXCEPT ![new] = d]
    BY <1>8 DEF Shaped
  <2>3. made.direction \in [Split -> Direction]
    BY <2>2, <1>8 DEF Shaped
  <2>4. first \in Node /\ second \in Node
    BY <1>2, Kinds
  <2>5. /\ made.left \in [Split -> Node \cup {NULL}]
        /\ made.right \in [Split -> Node \cup {NULL}]
    BY <2>4, <1>8, <1>9 DEF Shaped
  <2>6. made.parent \in [Node -> Split \cup {NULL}]
    BY ZenonT(60), <1>2, <1>7, <1>9 DEF WellFormed, Shaped
  <2> QED  BY <2>1, <2>3, <2>5, <2>6 DEF Shaped
<1> HIDE DEF made
<1>11. LET u == SetScreenRect(made, new, t.rect[x])
       IN  /\ Shaped(u) /\ u.left = made.left /\ u.right = made.right
           /\ u.parent = made.parent
  BY <1>10, OnlyRects
<1>12. \A k \in Split : made.left[k] =
         IF k = new THEN first
         ELSE IF k = c /\ t.left[c] = x THEN new ELSE t.left[k]
  BY <1>2, <1>7, <1>8, <1>9 DEF WellFormed, Shaped
<1>13. \A k \in Split : made.right[k] =
         IF k = new THEN second
         ELSE IF k = c /\ t.left[c] # x THEN new ELSE t.right[k]
  BY <1>2, <1>3, <1>7, <1>8, <1>9 DEF WellFormed, Shaped
<1>14. \A n \in Node : made.parent[n] =
         IF n = x \/ n = w THEN new ELSE IF n = new THEN c
         ELSE t.parent[n]
  BY <1>2, <1>7, <1>9 DEF WellFormed, Shaped
<1> QED  BY <1>1, <1>6, <1>11, <1>12, <1>13, <1>14

\* SplitChild keeps a tree well-formed; it brings in the window and one new
\* container, which is the parent of both.
LEMMA SplitWellFormed ==
  ASSUME NEW t, WellFormed(t), Unused(t) # {}, NEW x \in InTree(t),
         NEW w \in Leaf, w \notin InTree(t), NEW d \in Direction,
         NEW first, NEW second,
         \/ first = x /\ second = w
         \/ first = w /\ second = x
  PROVE  LET u   == SplitChild(t, t.parent[x], d, first, second)
             new == Fresh(t)
         IN  /\ WellFormed(u)
             /\ new \in Container \ InTree(t)
             /\ InTree(u) = InTree(t) \cup {w, new}
             /\ DockTargets(u) = DockTargets(t) \cup {w}
             /\ u.parent[w] = new /\ u.parent[x] = new
<1> DEFINE c   == t.parent[x]
           new == Fresh(t)
           u   == SplitChild(t, c, d, first, second)
<1>1. /\ Shaped(u)
      /\ new \in Container /\ t.left[new] = NULL
      /\ \A k \in Split : u.left[k] =
           IF k = new THEN first
           ELSE IF k = c /\ t.left[c] = x THEN new ELSE t.left[k]
      /\ \A k \in Split : u.right[k] =
           IF k = new THEN second
           ELSE IF k = c /\ t.left[c] # x THEN new ELSE t.right[k]
      /\ \A n \in Node : u.parent[n] =
           IF n = x \/ n = w THEN new ELSE IF n = new THEN c
           ELSE t.parent[n]
  BY SMTT(60), SplitPointers
<1> HIDE DEF u, new
<1>2. /\ x \in Node /\ x # w /\ c # NULL /\ c \in Split
      /\ t.parent[x] = c /\ w \in Node /\ t.parent[w] = NULL
  BY Kinds DEF WellFormed, Shaped, InTree
<1> HIDE DEF c
<1>3. /\ \A n \in Node : t.parent[n] # NULL =>
            t.left[t.parent[n]] = n \/ t.right[t.parent[n]] = n
      /\ \A k \in Split, n \in Node :
            t.left[k] = n \/ t.right[k] = n => t.parent[n] = k
      /\ \A k \in Container : t.left[k] # NULL =>
            /\ t.right[k] # NULL /\ t.right[k] # t.left[k]
            /\ t.parent[k] # NULL
      /\ \A k \in Container : t.left[k] = NULL =>
            t.right[k] = NULL /\ t.parent[k] = NULL
      /\ t.left[Root] # NULL /\ t.right[Root] = NULL
      /\ t.parent[Root] = NULL
  BY DEF WellFormed, Linked
<1>4. /\ \A k \in Split : t.left[k] \in Node \cup {NULL}
      /\ \A k \in Split : t.right[k] \in Node \cup {NULL}
      /\ \A n \in Node : t.parent[n] \in Split \cup {NULL}
  BY DEF WellFormed, Shaped
<1>5. /\ new # x /\ new # w /\ new # c /\ new # NULL /\ w # NULL /\ x # NULL
      /\ new \in Split /\ new \in Node /\ new # Root
      /\ t.parent[new] = NULL
      /\ first # NULL /\ second # NULL /\ first # second
      /\ first \in Node /\ second \in Node
      /\ t.left[c] = x \/ t.right[c] = x
  BY <1>1, <1>2, <1>3, Kinds
<1>6. \A n \in Node : u.parent[n] # NULL =>
        u.left[u.parent[n]] = n \/ u.right[u.parent[n]] = n
  <2> SUFFICES ASSUME NEW n \in Node, u.parent[n] # NULL
               PROVE  u.left[u.parent[n]] = n \/ u.right[u.parent[n]] = n
    OBVIOUS
  <2>1. CASE n = x \/ n = w
    <3>1. u.parent[n] = new
      BY <2>1, <1>1
    <3>2. u.left[new] = first /\ u.right[new] = second
      BY <1>1, <1>5
    <3> QED  BY <2>1, <3>1, <3>2
  <2>2. CASE n = new
    <3>1. u.parent[n] = c
      BY <2>2, <1>1, <1>5
    <3>2. IF t.left[c] = x THEN u.left[c] = new ELSE u.right[c] = new
      BY <1>1, <1>2, <1>5
    <3> QED  BY <2>2, <3>1, <3>2
  <2>3. CASE n # x /\ n # w /\ n # new
    <3> DEFINE p == t.parent[n]
    <3>1. u.parent[n] = p /\ p # NULL
      BY <2>3, <1>1
    <3>2. p \in Split /\ p # new
      BY <3>1, <1>1, <1>3, <1>4, Kinds
    <3>3. t.left[p] = n \/ t.right[p] = n
      BY <3>1, <1>3
    <3>4. /\ u.left[p] = IF p = c /\ t.left[c] = x THEN new ELSE t.left[p]
          /\ u.right[p] = IF p = c /\ t.left[c] # x THEN new ELSE t.right[p]
      BY <3>2, <1>1
    <3> HIDE DEF p
    <3> QED  BY <2>3, <3>1, <3>3, <3>4, <1>5
  <2> QED  BY <2>1, <2>2, <2>3
<1>7. \A k \in Split, n \in Node :
        u.left[k] = n \/ u.right[k] = n => u.parent[n] = k
  <2> SUFFICES ASSUME NEW k \in Split, NEW n \in Node,
                      u.left[k] = n \/ u.right[k] = n
               PROVE  u.parent[n] = k
    OBVIOUS
  <2>1. CASE k = new
    BY <2>1, <1>1, <1>2, <1>5
  <2>2. CASE k = c
    <3>1. /\ u.left[c] = IF t.left[c] = x THEN new ELSE t.left[c]
          /\ u.right[c] = IF t.left[c] # x THEN new ELSE t.right[c]
      BY <1>1, <1>2, <1>5
    <3>2. u.parent[new] = c
      BY <1>1, <1>5
    <3>3. CASE n = new
      BY <2>2, <3>2, <3>3
    <3>4. CASE n # new
      <4>1. t.left[c] = n \/ t.right[c] = n
        BY <2>2, <3>1, <3>4
      <4>2. t.parent[n] = c
        BY <4>1, <1>2, <1>3
      <4>3. n # w
        BY <4>2, <1>2
      <4>4. n # x
        <5>1. CASE t.left[c] = x
          <6>1. u.left[c] = new /\ u.right[c] = t.right[c]
            BY <5>1, <3>1
          <6>2. t.right[c] = n
            BY <6>1, <3>4, <2>2
          <6>3. c \in Container
            BY <6>2, <1>2, <1>3, Kinds
          <6>4. t.right[c] # t.left[c]
            BY <6>3, <5>1, <1>3, <1>5
          <6> QED  BY <5>1, <6>2, <6>4
        <5>2. CASE t.left[c] # x
          <6>1. u.left[c] = t.left[c] /\ u.right[c] = new
            BY <5>2, <3>1
          <6> QED  BY <6>1, <5>2, <3>4, <2>2
        <5> QED  BY <5>1, <5>2
      <4> QED  BY <4>2, <4>3, <4>4, <3>4, <2>2, <1>1
    <3> QED  BY <3>3, <3>4
  <2>3. CASE k # new /\ k # c
    <3>1. t.left[k] = n \/ t.right[k] = n
      BY <2>3, <1>1
    <3>2. t.parent[n] = k
      BY <3>1, <1>3
    <3>3. n # x /\ n # w /\ n # new
      BY <3>2, <2>3, <1>2, <1>5, Kinds
    <3> QED  BY <3>2, <3>3, <1>1
  <2> QED  BY <2>1, <2>2, <2>3
<1>8. \A k \in Container : u.left[k] # NULL =>
        /\ u.right[k] # NULL /\ u.right[k] # u.left[k]
        /\ u.parent[k] # NULL
  BY <1>1, <1>2, <1>3, <1>4, <1>5, Kinds
<1>9. \A k \in Container : u.left[k] = NULL =>
        u.right[k] = NULL /\ u.parent[k] = NULL
  BY <1>1, <1>2, <1>3, <1>4, <1>5, Kinds
<1>10. u.left[Root] # NULL /\ u.right[Root] = NULL /\ u.parent[Root] = NULL
  BY <1>1, <1>2, <1>3, <1>4, <1>5, Kinds
<1>11. Linked(u)
  BY <1>6, <1>7, <1>8, <1>9, <1>10 DEF Linked
<1>12. InTree(u) = InTree(t) \cup {w, new}
  BY <1>1, <1>2, <1>5, Kinds DEF InTree
<1>13. DockTargets(u) = DockTargets(t) \cup {w}
  BY <1>1, <1>12, Kinds DEF DockTargets
<1>14. new \in Container \ InTree(t)
  BY <1>1, <1>5 DEF InTree
<1>15. Ranked(u)
  <2>1. PICK rank : RankOf(t, rank)
    BY DEF WellFormed, Ranked
  <2> DEFINE higher == [n \in Node |->
                          IF n = new THEN 2 * rank[x]
                          ELSE IF n = w THEN 2 * rank[x] + 1
                          ELSE 2 * rank[n] + 1]
  <2>2. /\ \A n \in Node : rank[n] \in Nat
        /\ \A n \in Node : t.parent[n] # NULL => rank[t.parent[n]] < rank[n]
    BY <2>1 DEF RankOf
  <2>3. higher \in [Node -> Nat]
    BY <2>2, <1>2
  <2>4. \A n \in Node : u.parent[n] # NULL => higher[u.parent[n]] < higher[n]
    <3> SUFFICES ASSUME NEW n \in Node, u.parent[n] # NULL
                 PROVE  higher[u.parent[n]] < higher[n]
      OBVIOUS
    <3>1. CASE n = x \/ n = w
      <4>1. u.parent[n] = new /\ n # new
        BY <3>1, <1>1, <1>5
      <4>2. higher[n] = 2 * rank[x] + 1 /\ higher[new] = 2 * rank[x]
        BY <3>1, <1>5
      <4>3. rank[x] \in Nat
        BY <2>2, <1>2
      <4> HIDE DEF higher
      <4> QED  BY <4>1, <4>2, <4>3
    <3>2. CASE n = new
      <4>1. u.parent[n] = c
        BY <3>2, <1>1, <1>5
      <4>2. c # w /\ c # new /\ c \in Node
        BY <1>2, <1>5, Kinds
      <4>3. higher[c] = 2 * rank[c] + 1 /\ higher[n] = 2 * rank[x]
        BY <3>2, <4>2
      <4>4. rank[c] < rank[x] /\ rank[c] \in Nat /\ rank[x] \in Nat
        BY <2>2, <1>2, <4>2
      <4> HIDE DEF higher
      <4> QED  BY <4>1, <4>3, <4>4
    <3>3. CASE n # x /\ n # w /\ n # new
      <4>1. u.parent[n] = t.parent[n] /\ t.parent[n] # NULL
        BY <3>3, <1>1
      <4> DEFINE p == t.parent[n]
      <4>2. p \in Split /\ p \in Node /\ p # w
        BY <4>1, <1>4, Kinds
      <4>3. p # new
        BY <4>1, <1>1, <1>3, Kinds
      <4>4. higher[p] = 2 * rank[p] + 1 /\ higher[n] = 2 * rank[n] + 1
        BY <3>3, <4>2, <4>3
      <4>5. rank[p] < rank[n] /\ rank[p] \in Nat /\ rank[n] \in Nat
        BY <2>2, <4>1, <4>2
      <4> HIDE DEF higher
      <4> QED  BY <4>1, <4>4, <4>5
    <3> QED  BY <3>1, <3>2, <3>3
  <2> HIDE DEF higher
  <2> QED  BY <2>3, <2>4 DEF Ranked, RankOf
<1>16. Counted(u)
  <2>1. Alive(u) = Alive(t) \cup {new}
    BY <1>1, <1>2, <1>5, Kinds DEF Alive
  <2>2. new \notin Alive(t) /\ w \notin DockTargets(t)
    BY <1>1 DEF Alive, DockTargets
  <2>3. IsFiniteSet(Alive(t)) /\ IsFiniteSet(DockTargets(t))
    <3>1. IsFiniteSet(Container)
      BY FS_Interval, TreeAssumption DEF Container
    <3> QED  BY <3>1, FS_Subset, TreeAssumption DEF Alive, DockTargets
  <2>4. Cardinality(Alive(u)) = Cardinality(Alive(t)) + 1
    BY <2>1, <2>2, <2>3, FS_AddElement
  <2>5. Cardinality(DockTargets(u)) = Cardinality(DockTargets(t)) + 1
    BY <1>13, <2>2, <2>3, FS_AddElement
  <2>6. Cardinality(Alive(t)) + 1 = Cardinality(DockTargets(t))
    BY DEF WellFormed, Counted
  <2> QED  BY <2>4, <2>5, <2>6 DEF Counted
<1>17. u.parent[w] = new /\ u.parent[x] = new
  BY <1>1, <1>2
<1>18. WellFormed(u)
  BY <1>1, <1>11, <1>15, <1>16 DEF WellFormed
<1> QED  BY <1>12, <1>13, <1>14, <1>17, <1>18 DEF c, u, new

\* Only a window that is alone in the tree hangs from the root: any other node
\* of least rank would hang from a container of the tree.
LEMMA NotUnderRoot ==
  ASSUME NEW t, WellFormed(t), NEW v \in InTree(t), NEW w \in Leaf,
         w \in InTree(t), v # w
  PROVE  t.parent[w] \in Container
<1>1. SUFFICES ASSUME t.parent[w] = Root
               PROVE  FALSE
  BY Kinds DEF WellFormed, Shaped, InTree
<1>2. t.left[Root] = w
  BY <1>1, Kinds DEF WellFormed, Linked
<1>3. PICK rank : RankOf(t, rank)
  BY DEF WellFormed, Ranked
<1> DEFINE R == {rank[n] : n \in InTree(t) \ {w}}
<1>4. R \subseteq Nat /\ R # {}
  BY <1>3 DEF RankOf, InTree
<1>5. PICK m \in R : \A k \in R : ~(<<k, m>> \in OpToRel(<, Nat))
  BY <1>4, NatLessThanWellFounded, WFMin
<1>6. \A k \in R : ~(k < m)
  BY <1>4, <1>5 DEF OpToRel
<1>7. PICK n \in InTree(t) \ {w} : m = rank[n]
  BY <1>5
<1> DEFINE p == t.parent[n]
<1>8. n \in Node /\ p # NULL /\ p \in Split
  BY DEF InTree, WellFormed, Shaped
<1>9. rank[p] < rank[n]
  BY <1>3, <1>8 DEF RankOf
<1>10. t.left[p] = n \/ t.right[p] = n
  BY <1>8 DEF WellFormed, Linked
<1>11. p # Root
  BY <1>2, <1>7, <1>8, <1>10, Kinds DEF WellFormed, Linked
<1>12. p \in Container
  BY <1>8, <1>11, Kinds
<1>13. t.left[p] # NULL
  BY <1>8, <1>10, <1>12, Kinds DEF WellFormed, Linked
<1>14. p \in InTree(t) \ {w}
  BY <1>12, <1>13, Kinds DEF WellFormed, Linked, InTree
<1> QED  BY <1>6, <1>7, <1>9, <1>14

\* The pointers after ReleaseChild, node by node.
LEMMA ReleasePointers ==
  ASSUME NEW t, WellFormed(t), NEW w \in Leaf, w \in InTree(t),
         t.parent[w] \in Container
  PROVE  LET c == t.parent[w]
             g == t.parent[c]
             s == SiblingOf(t, w)
             u == ReleaseChild(t, w)
         IN  /\ Shaped(u)
             /\ g \in Split /\ g # c /\ s \in Node /\ s # w /\ s # c
             /\ \/ t.left[c] = w /\ t.right[c] = s
                \/ t.left[c] = s /\ t.right[c] = w
             /\ \A k \in Split : u.left[k] =
                  IF k = c THEN NULL
                  ELSE IF k = g /\ t.left[g] = c THEN s ELSE t.left[k]
             /\ \A k \in Split : u.right[k] =
                  IF k = c THEN NULL
                  ELSE IF k = g /\ t.left[g] # c THEN s ELSE t.right[k]
             /\ \A n \in Node : u.parent[n] =
                  IF n = w \/ n = c THEN NULL ELSE IF n = s THEN g
                  ELSE t.parent[n]
<1> DEFINE c    == t.parent[w]
           g    == t.parent[c]
           s    == SiblingOf(t, w)
           put  == PutChild(t, g, c, s)
           kept == [put EXCEPT
                      !.parent = [@ EXCEPT ![s] = g, ![c] = NULL],
                      !.left[c]      = NULL,
                      !.right[c]     = NULL,
                      !.direction[c] = "vertical",
                      !.fraction[c]  = Half,
                      !.rect[c]      = <<>>]
           laid == SetScreenRect(kept, g, t.rect[g])
           u    == [laid EXCEPT !.parent[w] = NULL]
<1>1. ReleaseChild(t, w) = u
  BY DEF ReleaseChild, Replace
<1>2. /\ \A n \in Node : t.parent[n] # NULL =>
            t.left[t.parent[n]] = n \/ t.right[t.parent[n]] = n
      /\ \A k \in Split, n \in Node :
            t.left[k] = n \/ t.right[k] = n => t.parent[n] = k
      /\ \A k \in Container : t.left[k] # NULL =>
            /\ t.right[k] # NULL /\ t.right[k] # t.left[k]
            /\ t.parent[k] # NULL
      /\ \A k \in Container : t.left[k] = NULL =>
            t.right[k] = NULL /\ t.parent[k] = NULL
  BY DEF WellFormed, Linked
<1>3. /\ \A k \in Split : t.left[k] \in Node \cup {NULL}
      /\ \A k \in Split : t.right[k] \in Node \cup {NULL}
      /\ \A n \in Node : t.parent[n] \in Split \cup {NULL}
  BY DEF WellFormed, Shaped
<1>4. /\ w \in Node /\ c \in Node /\ c \in Split /\ c # NULL /\ w # NULL
      /\ w # c
  BY Kinds
<1>5. t.left[c] = w \/ t.right[c] = w
  BY <1>2, <1>4
<1>6. /\ t.left[c] # NULL /\ t.right[c] # NULL /\ t.left[c] # t.right[c]
      /\ t.parent[c] # NULL
  BY <1>2, <1>4, <1>5
<1>7. \/ t.left[c] = w /\ t.right[c] = s
      \/ t.left[c] = s /\ t.right[c] = w
  BY <1>5, <1>6 DEF SiblingOf
<1>8. s \in Node /\ s # w /\ t.parent[s] = c
  BY <1>2, <1>3, <1>4, <1>6, <1>7
<1>9. g \in Split /\ g # NULL /\ g \in Node
  BY <1>3, <1>4, <1>6, Kinds
<1>10. g # c /\ s # c
  <2>1. PICK rank : RankOf(t, rank)
    BY DEF WellFormed, Ranked
  <2>2. rank[g] < rank[c] /\ rank[c] < rank[s] /\ rank[c] \in Nat
    BY <2>1, <1>4, <1>6, <1>8 DEF RankOf
  <2> QED  BY <2>2
<1> HIDE DEF s
<1>11. /\ Shaped(put)
       /\ put.left = [t.left EXCEPT ![g] = IF t.left[g] = c THEN s
                                           ELSE t.left[g]]
       /\ put.right = [t.right EXCEPT ![g] =
                          IF t.left[g] # c /\ t.right[g] = c
                          THEN s ELSE t.right[g]]
       /\ put.parent = t.parent
  BY <1>8, <1>9, PutChildPointers DEF WellFormed
<1> HIDE DEF put
<1>12. /\ kept.left = [put.left EXCEPT ![c] = NULL]
       /\ kept.right = [put.right EXCEPT ![c] = NULL]
       /\ kept.parent = [t.parent EXCEPT ![s] = g, ![c] = NULL]
       /\ kept.direction = [put.direction EXCEPT ![c] = "vertical"]
  BY <1>11 DEF Shaped
<1>13. Shaped(kept)
  <2>1. kept = [field \in {"left", "right", "parent", "direction",
                           "fraction", "rect"} |-> kept[field]]
    BY ZenonT(60), <1>11 DEF Shaped
  <2>2. kept.direction \in [Split -> Direction]
    BY <1>11, <1>12 DEF Shaped, Direction
  <2>3. /\ kept.left \in [Split -> Node \cup {NULL}]
        /\ kept.right \in [Split -> Node \cup {NULL}]
    BY <1>11, <1>12 DEF Shaped
  <2>4. kept.parent \in [Node -> Split \cup {NULL}]
    <3>1. t.parent \in [Node -> Split \cup {NULL}]
      BY DEF WellFormed, Shaped
    <3>2. [t.parent EXCEPT ![s] = g, ![c] = NULL]
            \in [Node -> Split \cup {NULL}]
      BY <3>1, <1>9
    <3> QED  BY <3>2, <1>12
  <2> QED  BY <2>1, <2>2, <2>3, <2>4 DEF Shaped
<1> HIDE DEF kept
<1>14. /\ Shaped(laid) /\ laid.left = kept.left /\ laid.right = kept.right
       /\ laid.parent = kept.parent
  BY <1>13, OnlyRects
<1> HIDE DEF laid
<1>15. /\ u.left = kept.left /\ u.right = kept.right
       /\ u.parent = [kept.parent EXCEPT ![w] = NULL]
  BY <1>14 DEF Shaped
<1>16. Shaped(u)
  <2>1. u = [field \in {"left", "right", "parent", "direction",
                        "fraction", "rect"} |-> u[field]]
    BY <1>14 DEF Shaped
  <2>2. u.direction = laid.direction
    BY <1>14 DEF Shaped
  <2>3. u.parent \in [Node -> Split \cup {NULL}]
    BY <1>13, <1>15 DEF Shaped
  <2> QED  BY <2>1, <2>2, <2>3, <1>13, <1>14, <1>15 DEF Shaped
<1> HIDE DEF u
<1>17. t.left[g] = c \/ t.right[g] = c
  BY <1>2, <1>4, <1>6
<1>18. \A k \in Split : u.left[k] =
         IF k = c THEN NULL
         ELSE IF k = g /\ t.left[g] = c THEN s ELSE t.left[k]
  BY <1>4, <1>9, <1>10, <1>11, <1>12, <1>15 DEF WellFormed, Shaped
<1>19. \A k \in Split : u.right[k] =
         IF k = c THEN NULL
         ELSE IF k = g /\ t.left[g] # c THEN s ELSE t.right[k]
  BY <1>4, <1>9, <1>10, <1>11, <1>12, <1>15, <1>17 DEF WellFormed, Shaped
<1>20. \A n \in Node : u.parent[n] =
         IF n = w \/ n = c THEN NULL ELSE IF n = s THEN g ELSE t.parent[n]
  BY <1>4, <1>8, <1>9, <1>10, <1>12, <1>15 DEF WellFormed, Shaped
<1> QED  BY <1>1, <1>7, <1>8, <1>9, <1>10, <1>16, <1>18, <1>19, <1>20 DEF s

\* ReleaseChild of a window that is not alone keeps a tree well-formed; the
\* window and its parent leave the tree, and nothing else does.
LEMMA ReleaseWellFormed ==
  ASSUME NEW t, WellFormed(t), NEW w \in Leaf, w \in InTree(t),
         t.parent[w] \in Container
  PROVE  LET u == ReleaseChild(t, w)
         IN  /\ WellFormed(u)
             /\ InTree(u) = InTree(t) \ {w, t.parent[w]}
             /\ DockTargets(u) = DockTargets(t) \ {w}
             /\ SiblingOf(t, w) \in InTree(u)
<1> DEFINE c == t.parent[w]
           g == t.parent[c]
           s == SiblingOf(t, w)
           u == ReleaseChild(t, w)
<1>1. /\ Shaped(u)
      /\ g \in Split /\ g # c /\ s \in Node /\ s # w /\ s # c
      /\ \/ t.left[c] = w /\ t.right[c] = s
         \/ t.left[c] = s /\ t.right[c] = w
      /\ \A k \in Split : u.left[k] =
           IF k = c THEN NULL
           ELSE IF k = g /\ t.left[g] = c THEN s ELSE t.left[k]
      /\ \A k \in Split : u.right[k] =
           IF k = c THEN NULL
           ELSE IF k = g /\ t.left[g] # c THEN s ELSE t.right[k]
      /\ \A n \in Node : u.parent[n] =
           IF n = w \/ n = c THEN NULL ELSE IF n = s THEN g
           ELSE t.parent[n]
  BY ReleasePointers
<1> HIDE DEF u, s
<1>2. /\ \A n \in Node : t.parent[n] # NULL =>
            t.left[t.parent[n]] = n \/ t.right[t.parent[n]] = n
      /\ \A k \in Split, n \in Node :
            t.left[k] = n \/ t.right[k] = n => t.parent[n] = k
      /\ \A k \in Container : t.left[k] # NULL =>
            /\ t.right[k] # NULL /\ t.right[k] # t.left[k]
            /\ t.parent[k] # NULL
      /\ \A k \in Container : t.left[k] = NULL =>
            t.right[k] = NULL /\ t.parent[k] = NULL
      /\ t.left[Root] # NULL /\ t.right[Root] = NULL
      /\ t.parent[Root] = NULL
  BY DEF WellFormed, Linked
<1>3. /\ \A k \in Split : t.left[k] \in Node \cup {NULL}
      /\ \A k \in Split : t.right[k] \in Node \cup {NULL}
      /\ \A n \in Node : t.parent[n] \in Split \cup {NULL}
  BY DEF WellFormed, Shaped
<1>4. /\ c \in Container /\ c \in Split /\ c \in Node /\ c # NULL /\ c # Root
      /\ t.parent[w] = c /\ t.parent[c] = g
      /\ w \in Node /\ w # NULL /\ w # c /\ w # g
      /\ s # NULL /\ g # NULL /\ g \in Node
      /\ t.left[c] # NULL /\ t.right[c] # NULL
      /\ t.parent[s] = c
  BY <1>1, <1>2, Kinds
<1> HIDE DEF c
<1>5. t.left[g] = c \/ t.right[g] = c
  BY <1>1, <1>2, <1>4
<1> HIDE DEF g
<1>6. \A n \in Node : u.parent[n] # NULL =>
        u.left[u.parent[n]] = n \/ u.right[u.parent[n]] = n
  <2> SUFFICES ASSUME NEW n \in Node, u.parent[n] # NULL
               PROVE  u.left[u.parent[n]] = n \/ u.right[u.parent[n]] = n
    OBVIOUS
  <2>1. n # w /\ n # c
    BY <1>1
  <2>2. CASE n = s
    <3>1. u.parent[n] = g
      BY <2>1, <2>2, <1>1
    <3>2. IF t.left[g] = c THEN u.left[g] = s ELSE u.right[g] = s
      BY <1>1
    <3> QED  BY <2>2, <3>1, <3>2
  <2>3. CASE n # s
    <3> DEFINE p == t.parent[n]
    <3>1. u.parent[n] = p /\ p # NULL /\ p \in Split
      BY <2>1, <2>3, <1>1, <1>3
    <3>2. t.left[p] = n \/ t.right[p] = n
      BY <3>1, <1>2
    <3> HIDE DEF p
    <3>3. p # c
      BY <3>2, <2>1, <2>3, <1>1
    <3>4. /\ u.left[p] = IF p = g /\ t.left[g] = c THEN s ELSE t.left[p]
          /\ u.right[p] = IF p = g /\ t.left[g] # c THEN s ELSE t.right[p]
      BY <3>1, <3>3, <1>1
    <3> QED  BY <3>1, <3>2, <3>4, <2>1, <1>5
  <2> QED  BY <2>2, <2>3
<1>7. \A k \in Split, n \in Node :
        u.left[k] = n \/ u.right[k] = n => u.parent[n] = k
  <2> SUFFICES ASSUME NEW k \in Split, NEW n \in Node,
                      u.left[k] = n \/ u.right[k] = n
               PROVE  u.parent[n] = k
    OBVIOUS
  <2>1. k # c
    BY <1>1, Kinds
  <2>2. /\ u.left[k] = IF k = g /\ t.left[g] = c THEN s ELSE t.left[k]
        /\ u.right[k] = IF k = g /\ t.left[g] # c THEN s ELSE t.right[k]
    BY <2>1, <1>1
  <2>3. CASE k = g /\ n = s
    BY <2>3, <1>1
  <2>4. CASE ~(k = g /\ n = s)
    <3>1. t.left[k] = n \/ t.right[k] = n
      BY <2>2, <2>4
    <3>2. t.parent[n] = k
      BY <3>1, <1>2
    <3>3. n # w /\ n # s
      BY <3>2, <2>1, <1>4
    <3>4. n # c
      <4>1. SUFFICES ASSUME n = c PROVE FALSE
        OBVIOUS
      <4>2. k = g
        BY <4>1, <3>2, <1>4
      <4>3. CASE t.left[g] = c
        <5>1. u.left[k] = s /\ u.right[k] = t.right[g]
          BY <4>2, <4>3, <2>2
        <5>2. t.right[g] = c
          BY <5>1, <4>1, <1>1
        <5>3. g \in Container
          BY <5>2, <1>1, <1>2, <1>4, Kinds
        <5> QED  BY <5>2, <5>3, <4>3, <1>2, <1>4
      <4>4. CASE t.left[g] # c
        <5>1. u.left[k] = t.left[g] /\ u.right[k] = s
          BY <4>2, <4>4, <2>2
        <5> QED  BY <5>1, <4>1, <4>4, <1>1
      <4> QED  BY <4>3, <4>4
    <3> QED  BY <3>2, <3>3, <3>4, <1>1
  <2> QED  BY <2>3, <2>4
<1>8. \A k \in Container : u.left[k] # NULL =>
        /\ u.right[k] # NULL /\ u.right[k] # u.left[k]
        /\ u.parent[k] # NULL
  <2> SUFFICES ASSUME NEW k \in Container, u.left[k] # NULL
               PROVE  /\ u.right[k] # NULL /\ u.right[k] # u.left[k]
                      /\ u.parent[k] # NULL
    OBVIOUS
  <2>1. k # c /\ k \in Split /\ k \in Node /\ k # w
    BY <1>1, Kinds
  <2>2. /\ u.left[k] = IF k = g /\ t.left[g] = c THEN s ELSE t.left[k]
        /\ u.right[k] = IF k = g /\ t.left[g] # c THEN s ELSE t.right[k]
    BY <2>1, <1>1
  <2>3. t.left[k] # NULL
    BY <2>1, <2>2, <1>4
  <2>4. /\ t.right[k] # NULL /\ t.right[k] # t.left[k]
        /\ t.parent[k] # NULL
    BY <2>3, <1>2
  <2>5. u.parent[k] # NULL
    BY <2>1, <2>4, <1>1, <1>4
  <2>6. k # g => u.right[k] # u.left[k]
    BY <2>2, <2>4
  <2>7. t.left[g] # s /\ t.right[g] # s
    BY <1>1, <1>2, <1>4
  <2> QED  BY <2>2, <2>4, <2>5, <2>6, <2>7, <1>4
<1>9. \A k \in Container : u.left[k] = NULL =>
        u.right[k] = NULL /\ u.parent[k] = NULL
  <2> SUFFICES ASSUME NEW k \in Container, u.left[k] = NULL, k # c
               PROVE  u.right[k] = NULL /\ u.parent[k] = NULL
    BY <1>1, <1>4
  <2>1. k \in Split /\ k \in Node
    BY Kinds
  <2>2. /\ u.left[k] = IF k = g /\ t.left[g] = c THEN s ELSE t.left[k]
        /\ u.right[k] = IF k = g /\ t.left[g] # c THEN s ELSE t.right[k]
    BY <2>1, <1>1
  <2>3. t.left[k] = NULL
    BY <2>2, <1>4
  <2>4. t.right[k] = NULL /\ t.parent[k] = NULL
    BY <2>3, <1>2
  <2>5. k # g
    BY <2>3, <2>4, <1>4, <1>5
  <2>6. k # s
    BY <2>4, <1>4
  <2> QED  BY <2>1, <2>2, <2>4, <2>5, <2>6, <1>1
<1>10. u.left[Root] # NULL /\ u.right[Root] = NULL /\ u.parent[Root] = NULL
  <2>1. Root \in Split /\ Root \in Node /\ Root # w /\ Root # s
    BY <1>2, <1>4, Kinds
  <2>2. /\ u.left[Root] =
             IF Root = g /\ t.left[g] = c THEN s ELSE t.left[Root]
        /\ u.right[Root] =
             IF Root = g /\ t.left[g] # c THEN s ELSE t.right[Root]
    BY <2>1, <1>1, <1>4
  <2>3. Root = g => t.left[g] = c
    BY <1>2, <1>4, <1>5
  <2>4. u.parent[Root] = NULL
    BY <2>1, <1>1, <1>2, <1>4
  <2> QED  BY <2>2, <2>3, <2>4, <1>2, <1>4
<1>11. Linked(u)
  BY <1>6, <1>7, <1>8, <1>9, <1>10 DEF Linked
<1>12. InTree(u) = InTree(t) \ {w, c}
  BY <1>1, <1>4 DEF InTree
<1>13. DockTargets(u) = DockTargets(t) \ {w}
  BY <1>4, <1>12, Kinds DEF DockTargets
<1>14. s \in InTree(u)
  BY <1>1, <1>4, <1>12 DEF InTree
<1>15. Ranked(u)
  <2>1. PICK rank : RankOf(t, rank)
    BY DEF WellFormed, Ranked
  <2>2. \A n \in Node : u.parent[n] # NULL => rank[u.parent[n]] < rank[n]
    <3> SUFFICES ASSUME NEW n \in Node, u.parent[n] # NULL
                 PROVE  rank[u.parent[n]] < rank[n]
      OBVIOUS
    <3>1. CASE n = s
      <4>1. u.parent[n] = g
        BY <3>1, <1>1
      <4>2. rank[g] < rank[c] /\ rank[c] < rank[s]
        BY <2>1, <1>1, <1>4 DEF RankOf
      <4>3. rank[g] \in Nat /\ rank[c] \in Nat /\ rank[s] \in Nat
        BY <2>1, <1>1, <1>4 DEF RankOf
      <4> QED  BY <3>1, <4>1, <4>2, <4>3
    <3>2. CASE n # s
      <4>1. u.parent[n] = t.parent[n] /\ t.parent[n] # NULL
        BY <3>2, <1>1
      <4> QED  BY <4>1, <2>1 DEF RankOf
    <3> QED  BY <3>1, <3>2
  <2> QED  BY <2>1, <2>2 DEF Ranked, RankOf
<1>16. Counted(u)
  <2>1. Alive(u) = Alive(t) \ {c}
    <3>1. \A k \in Container : k # c =>
            (u.left[k] = NULL <=> t.left[k] = NULL)
      BY <1>1, <1>4, Kinds
    <3>2. u.left[c] = NULL
      BY <1>1, <1>4
    <3> QED  BY <3>1, <3>2 DEF Alive
  <2>2. c \in Alive(t) /\ w \in DockTargets(t)
    BY <1>4 DEF Alive, DockTargets
  <2>3. IsFiniteSet(Alive(t)) /\ IsFiniteSet(DockTargets(t))
    <3>1. IsFiniteSet(Container)
      BY FS_Interval, TreeAssumption DEF Container
    <3> QED  BY <3>1, FS_Subset, TreeAssumption DEF Alive, DockTargets
  <2>4. Cardinality(Alive(u)) = Cardinality(Alive(t)) - 1
    BY <2>1, <2>2, <2>3, FS_RemoveElement
  <2>5. Cardinality(DockTargets(u)) = Cardinality(DockTargets(t)) - 1
    BY <1>13, <2>2, <2>3, FS_RemoveElement
  <2>6. Cardinality(Alive(t)) + 1 = Cardinality(DockTargets(t))
    BY DEF WellFormed, Counted
  <2>7. Cardinality(Alive(t)) \in Nat
    BY <2>3, FS_CardinalityType
  <2> QED  BY <2>4, <2>5, <2>6, <2>7 DEF Counted
<1>17. WellFormed(u)
  BY <1>1, <1>11, <1>15, <1>16 DEF WellFormed
<1> QED  BY <1>12, <1>13, <1>14, <1>17 DEF c, s, u

\* The tree with one window.
LEMMA OneWindow ==
  ASSUME NEW w \in Leaf
  PROVE  LET u == SetRoot(EmptyTree, w)
         IN  /\ WellFormed(u)
             /\ InTree(u) = {w} /\ DockTargets(u) = {w}
<1> DEFINE e  == EmptyTree
           t1 == [e EXCEPT !.left[Root] = w]
           t2 == SetScreenRect(t1, w, e.rect[Root])
           u  == [t2 EXCEPT !.parent[w] = Root]
<1>1. SetRoot(EmptyTree, w) = u
  BY DEF SetRoot
<1>2. /\ Shaped(e) /\ e.left = [c \in Split |-> NULL]
      /\ e.right = [c \in Split |-> NULL] /\ e.parent = [n \in Node |-> NULL]
  <2>1. e = [field \in {"left", "right", "parent", "direction", "fraction",
                        "rect"} |-> e[field]]
    BY DEF EmptyTree
  <2> QED  BY <2>1 DEF Shaped, EmptyTree, Direction
<1> HIDE DEF e
<1>3. /\ t1.left = [e.left EXCEPT ![Root] = w] /\ t1.right = e.right
      /\ t1.parent = e.parent /\ Shaped(t1)
  BY <1>2, Kinds DEF Shaped
<1> HIDE DEF t1
<1>4. /\ Shaped(t2) /\ t2.left = t1.left /\ t2.right = t1.right
      /\ t2.parent = t1.parent
  BY <1>3, OnlyRects
<1> HIDE DEF t2
<1>5. /\ Shaped(u) /\ u.left = t2.left /\ u.right = t2.right
      /\ u.parent = [t2.parent EXCEPT ![w] = Root]
  BY <1>4, Kinds DEF Shaped
<1> HIDE DEF u
<1>6. /\ \A c \in Split : u.left[c] = IF c = Root THEN w ELSE NULL
      /\ \A c \in Split : u.right[c] = NULL
      /\ \A n \in Node : u.parent[n] = IF n = w THEN Root ELSE NULL
  BY <1>2, <1>3, <1>4, <1>5, Kinds
<1>7. Linked(u)
  BY <1>6, Kinds DEF Linked
<1>8. Ranked(u)
  <2> DEFINE rank == [n \in Node |-> IF n = w THEN 1 ELSE 0]
  <2>1. RankOf(u, rank)
    BY <1>6, Kinds DEF RankOf
  <2> QED  BY <2>1 DEF Ranked
<1>9. InTree(u) = {w} /\ DockTargets(u) = {w}
  BY <1>6, Kinds DEF InTree, DockTargets
<1>10. Counted(u)
  <2>1. Alive(u) = {}
    BY <1>6, Kinds DEF Alive
  <2> QED  BY <2>1, <1>9, FS_EmptySet, FS_Singleton DEF Counted
<1> QED  BY <1>1, <1>5, <1>7, <1>8, <1>9, <1>10 DEF WellFormed

\* There is room for another container as long as a window is missing.
LEMMA RoomLeft ==
  ASSUME NEW t, WellFormed(t), NEW w \in Leaf, w \notin InTree(t),
         MaxContainers + 1 >= Cardinality(Leaf)
  PROVE  Unused(t) # {}
<1>1. IsFiniteSet(Leaf) /\ MaxContainers \in Nat
  BY TreeAssumption
<1>2. IsFiniteSet(Leaf \ {w}) /\ Cardinality(Leaf \ {w}) = Cardinality(Leaf) - 1
  BY <1>1, FS_RemoveElement
<1>3. DockTargets(t) \subseteq Leaf \ {w}
  BY DEF DockTargets
<1>4. Cardinality(DockTargets(t)) <= Cardinality(Leaf \ {w})
  BY <1>2, <1>3, FS_Subset
<1>5. IsFiniteSet(Container) /\ Cardinality(Container) = MaxContainers
  BY <1>1, FS_Interval DEF Container
<1>6. /\ Cardinality(Leaf) \in Nat /\ Cardinality(DockTargets(t)) \in Nat
      /\ Cardinality(Alive(t)) \in Nat
  <2>1. IsFiniteSet(DockTargets(t)) /\ IsFiniteSet(Alive(t))
    BY <1>1, <1>5, FS_Subset DEF DockTargets, Alive
  <2> QED  BY <2>1, <1>1, FS_CardinalityType
<1>7. Cardinality(Alive(t)) + 1 = Cardinality(DockTargets(t))
  BY DEF WellFormed, Counted
<1>8. Cardinality(Alive(t)) < MaxContainers
  BY <1>1, <1>2, <1>4, <1>6, <1>7
<1>9. Alive(t) # Container
  BY <1>1, <1>5, <1>6, <1>8
<1> QED  BY <1>9 DEF Unused, Alive

---------------------------------------------------------------------------
(***************************************************************************)
(* Rectangles.  SetScreenRect is a recursion down the tree: that it has a  *)
(* solution, and what it hands to each node, is shown by induction on the  *)
(* rank of the nodes.                                                      *)
(***************************************************************************)
\* A set of naturals has a least element.
LEMMA LeastNat ==
  ASSUME NEW T \in SUBSET Nat, T # {}
  PROVE  \E m \in T : \A k \in T : m <= k
<1>1. PICK m \in T : \A k \in T : ~(<<k, m>> \in OpToRel(<, Nat))
  BY NatLessThanWellFounded, WFMin
<1>2. \A k \in T : ~(k < m)
  BY <1>1 DEF OpToRel
<1> QED  BY <1>2

\* Induction over the numbers, for a property given as a set.
LEMMA NatInd ==
  ASSUME NEW P, 0 \in P, \A n \in Nat : n \in P => n + 1 \in P
  PROVE  Nat \subseteq P
<1>1. SUFFICES ASSUME Nat \ P # {} PROVE FALSE
  OBVIOUS
<1>2. PICK m \in Nat \ P : \A k \in Nat \ P : m <= k
  BY <1>1, LeastNat
<1>3. m # 0 /\ m - 1 \in Nat
  BY <1>2
<1>4. m - 1 \in P
  BY <1>2, <1>3
<1> QED  BY <1>3, <1>4

\* So has a set of nodes, by rank.
LEMMA LeastRank ==
  ASSUME NEW rank \in [Node -> Nat], NEW T \in SUBSET Node, T # {}
  PROVE  \E n \in T : \A m \in T : ~(rank[m] < rank[n])
<1> DEFINE R == {rank[n] : n \in T}
<1>1. R \subseteq Nat /\ R # {}
  OBVIOUS
<1>2. PICK k \in R : \A j \in R : k <= j
  BY <1>1, LeastNat
<1>3. PICK n \in T : k = rank[n]
  BY <1>2
<1> QED  BY <1>2, <1>3

\* A finite set has a highest rank.
LEMMA RanksBounded ==
  ASSUME NEW rank \in [Node -> Nat]
  PROVE  \E high \in Nat : \A n \in Node : rank[n] < high
<1>1. IsFiniteSet(Node)
  <2>1. IsFiniteSet(Container) /\ IsFiniteSet(Leaf)
    BY TreeAssumption, FS_Interval DEF Container
  <2>2. IsFiniteSet(Split)
    BY <2>1, FS_AddElement DEF Split
  <2> QED  BY <2>1, <2>2, FS_Union DEF Node
<1>2. PICK n \in Nat : \E b : b \in Bijection(1 .. n, Node)
  BY <1>1, FS_NatBijection DEF ExistsBijection
<1> PICK b : b \in Bijection(1 .. n, Node)
  BY <1>2
<1>3. /\ \A i \in 1 .. n : b[i] \in Node
      /\ \A m \in Node : \E i \in 1 .. n : b[i] = m
  BY DEF Bijection, Injection, Surjection
<1> DEFINE Below(k) == \E high \in Nat : \A i \in 1 .. n : i <= k => rank[b[i]] < high
           P == {k \in Nat : Below(k)}
<1>4. 0 \in P
  OBVIOUS
<1>5. ASSUME NEW k \in Nat, k \in P PROVE k + 1 \in P
  <2>1. PICK high \in Nat : \A i \in 1 .. n : i <= k => rank[b[i]] < high
    BY <1>5
  <2>2. CASE k + 1 \in 1 .. n
    <3>1. rank[b[k + 1]] \in Nat
      BY <1>3, <2>2
    <3>2. PICK more \in Nat : more > high /\ more > rank[b[k + 1]]
      <4>1. high + rank[b[k + 1]] + 1 \in Nat
        BY <3>1
      <4> QED  BY <3>1, <4>1
    <3>3. ASSUME NEW i \in 1 .. n, i <= k + 1 PROVE rank[b[i]] < more
      <4>1. rank[b[i]] \in Nat
        BY <1>3
      <4>2. CASE i <= k
        <5>1. rank[b[i]] < high
          BY <2>1, <4>2
        <5> QED  BY <3>2, <4>1, <5>1
      <4>3. CASE i = k + 1
        BY <3>2, <4>3
      <4> QED  BY <3>3, <4>2, <4>3
    <3> QED  BY SMTT(60), <3>3
  <2>3. CASE k + 1 \notin 1 .. n
    <3>1. \A i \in 1 .. n : i <= k + 1 => i <= k
      BY <2>3
    <3>2. Below(k + 1)
      BY <2>1, <3>1
    <3> QED  BY SMTT(60), <3>2
  <2> QED  BY <2>2, <2>3
<1>6. n \in P
  BY <1>4, <1>5, NatInd
<1>7. PICK high \in Nat : \A i \in 1 .. n : i <= n => rank[b[i]] < high
  BY <1>6
<1>8. \A i \in 1 .. n : rank[b[i]] < high
  BY <1>7
<1> QED  BY <1>3, <1>8

\* What node n is given when its parents are given g.
Handed(t, node, r, g, n) ==
  IF n = node THEN r
  ELSE LET c == t.parent[n]
       IN  IF c = NULL \/ n \notin ChildrenOf(t, c) \/ g[c] = <<>>
           THEN <<>>
           ELSE ChildRect(t, c, n, g[c])

\* g is a solution of the recursion of SetScreenRect.
IsGiven(t, node, r, g) == g = [n \in Node |-> Handed(t, node, r, g, n)]

\* The recursion of SetScreenRect has a solution.
LEMMA GivenExists ==
  ASSUME NEW t, NEW node, NEW r, Ranked(t), t.parent \in [Node -> Split \cup {NULL}]
  PROVE  \E g : IsGiven(t, node, r, g)
<1>1. PICK rank : RankOf(t, rank)
  BY DEF Ranked
<1>2. /\ rank \in [Node -> Nat] /\ \A n \in Node : rank[n] \in Nat
      /\ \A n \in Node : t.parent[n] # NULL =>
           t.parent[n] \in Node /\ rank[t.parent[n]] < rank[n]
  BY <1>1, Kinds DEF RankOf
<1> DEFINE Solves(g, k) == \A n \in Node : rank[n] < k => g[n] = Handed(t, node, r, g, n)
           P == {k \in Nat : \E g : Solves(g, k)}
<1>3. 0 \in P
  BY <1>2
<1>4. ASSUME NEW k \in Nat, NEW g, Solves(g, k)
      PROVE  Solves([n \in Node |-> Handed(t, node, r, g, n)], k + 1)
  <2> DEFINE h == [n \in Node |-> Handed(t, node, r, g, n)]
  <2>1. \A n \in Node : h[n] = Handed(t, node, r, g, n)
    OBVIOUS
  <2> HIDE DEF h
  <2>2. \A n \in Node : rank[n] < k => h[n] = g[n]
    BY <1>4, <2>1
  <2>3. ASSUME NEW n \in Node, rank[n] < k + 1
        PROVE  h[n] = Handed(t, node, r, h, n)
    <3>1. t.parent[n] # NULL => h[t.parent[n]] = g[t.parent[n]]
      <4>1. t.parent[n] # NULL => t.parent[n] \in Node /\ rank[t.parent[n]] < k
        BY <1>2, <2>3
      <4> QED  BY <2>2, <4>1
    <3>2. Handed(t, node, r, g, n) = Handed(t, node, r, h, n)
      BY <3>1 DEF Handed
    <3> QED  BY <2>1, <3>2
  <2> QED  BY <2>3 DEF h
<1>5. \A k \in Nat : k \in P => k + 1 \in P
  <2> SUFFICES ASSUME NEW k \in Nat, k \in P PROVE k + 1 \in P
    OBVIOUS
  <2>1. PICK g : Solves(g, k)
    OBVIOUS
  <2> HIDE DEF Solves
  <2>2. Solves([n \in Node |-> Handed(t, node, r, g, n)], k + 1)
    BY <1>4, <2>1
  <2> QED  BY <2>2
<1>6. Nat \subseteq P
  <2> HIDE DEF P
  <2> QED  BY <1>3, <1>5, NatInd
<1>7. PICK high \in Nat : \A n \in Node : rank[n] < high
  BY <1>2, RanksBounded
<1>8. PICK g : Solves(g, high)
  BY <1>6, <1>7
<1> DEFINE h == [n \in Node |-> Handed(t, node, r, g, n)]
<1>9. \A n \in Node : h[n] = g[n]
  BY <1>7, <1>8
<1>10. \A n \in Node : Handed(t, node, r, g, n) = Handed(t, node, r, h, n)
  <2> SUFFICES ASSUME NEW n \in Node PROVE Handed(t, node, r, g, n) = Handed(t, node, r, h, n)
    OBVIOUS
  <2>1. t.parent[n] # NULL => h[t.parent[n]] = g[t.parent[n]]
    BY <1>2, <1>9
  <2> HIDE DEF h
  <2> QED  BY <2>1 DEF Handed
<1>11. h = [n \in Node |-> Handed(t, node, r, h, n)]
  BY <1>10, Zenon
<1> QED  BY <1>11 DEF IsGiven

\* The rectangles of a tree once g has been handed out.
NewRects(t, g) == [n \in Node |-> IF g[n] = <<>> THEN t.rect[n] ELSE g[n]]
\* The tree with the rectangles that g gives.
WithGiven(t, g) == [t EXCEPT !.rect = NewRects(t, g)]

\* SetScreenRect hands out what solves its recursion.
LEMMA ScreenRectGiven ==
  ASSUME NEW t, NEW node, NEW r, Ranked(t),
         t.parent \in [Node -> Split \cup {NULL}]
  PROVE  \E g : /\ IsGiven(t, node, r, g)
                /\ SetScreenRect(t, node, r) = WithGiven(t, g)
<1> DEFINE G == CHOOSE g : g = [n \in Node |-> Handed(t, node, r, g, n)]
<1>1. \E g : g = [n \in Node |-> Handed(t, node, r, g, n)]
  BY GivenExists DEF IsGiven
<1>2. G = [n \in Node |-> Handed(t, node, r, G, n)]
  BY <1>1
<1>3. SetScreenRect(t, node, r) = WithGiven(t, G)
  BY Zenon DEF SetScreenRect, Handed, NewRects, WithGiven
<1> QED  BY <1>2, <1>3 DEF IsGiven

---------------------------------------------------------------------------
(* What SetScreenRect leaves current *)

\* A rectangle that has been given: a size and the containers on the way down.
IsRect(r) == r # <<>> /\ \E S : r \in Seq(S)

\* Every rectangle starts from a size in Z, or has not been given yet.
RectIn(r, Z) == r = <<>> \/ (IsRect(r) /\ Head(r) \in Z)
RectsIn(t, Z) == \A n \in Node : RectIn(t.rect[n], Z)

\* The fractions and the rectangles are functions.
Framed(t) ==
  /\ t.fraction = [c \in Split |-> t.fraction[c]]
  /\ t.rect = [n \in Node |-> t.rect[n]]

\* Node n hangs from its parent, which has it as one of its children.
Hangs(t, n) == t.parent[n] # NULL /\ n \in ChildrenOf(t, t.parent[n])

\* Node n has the rectangle its parent gives it now.
CurrentAt(t, n) ==
  t.rect[n] = ChildRect(t, t.parent[n], n, t.rect[t.parent[n]])

\* Each node has the rectangle its parent gives it.
Current(t) == \A n \in Node : Hangs(t, n) => CurrentAt(t, n)

\* A tree in which nothing waits to be laid out.
Placed(t) ==
  /\ WellFormed(t) /\ Framed(t) /\ Current(t)
  /\ IsRect(t.rect[Root]) /\ Len(t.rect[Root]) = 1

\* One container more on the way down.
LEMMA AppendRect ==
  ASSUME NEW r, IsRect(r), NEW x
  PROVE  /\ IsRect(Append(r, x)) /\ Head(Append(r, x)) = Head(r)
         /\ Tail(Append(r, x)) = Append(Tail(r), x)
<1>1. PICK S : r \in Seq(S)
  BY DEF IsRect
<1> DEFINE T == S \cup {x}
<1>2. r \in Seq(T) /\ x \in T
  <2>1. \A i \in 1 .. Len(r) : r[i] \in T
    BY <1>1, ElementOfSeq
  <2>2. Len(r) \in Nat /\ r = [i \in 1 .. Len(r) |-> r[i]]
    BY <1>1
  <2> QED  BY <2>1, <2>2, IsASeq
<1> HIDE DEF T
<1>3. r # <<>>
  BY DEF IsRect
<1>4. /\ Append(r, x) \in Seq(T) /\ Len(Append(r, x)) = Len(r) + 1
      /\ \A i \in 1 .. Len(r) : Append(r, x)[i] = r[i]
      /\ Append(r, x)[Len(r) + 1] = x
  BY <1>2, AppendProperties
<1>5. Len(r) \in Nat /\ Len(r) # 0
  BY <1>2, <1>3, EmptySeq
<1>6. Append(r, x) # <<>>
  BY <1>4, <1>5
<1>7. Head(Append(r, x)) = Head(r)
  BY <1>2, <1>3, <1>4, <1>5, <1>6, HeadTailProperties
<1>8. Tail(Append(r, x)) = Append(Tail(r), x)
  <2>1. /\ Tail(r) \in Seq(T) /\ Len(Tail(r)) = Len(r) - 1
        /\ \A i \in 1 .. Len(Tail(r)) : Tail(r)[i] = r[i + 1]
    BY <1>2, <1>3, HeadTailProperties
  <2> DEFINE a == Append(r, x)
  <2>2. /\ Tail(a) \in Seq(T) /\ Len(Tail(a)) = Len(a) - 1
        /\ \A i \in 1 .. Len(Tail(a)) : Tail(a)[i] = a[i + 1]
    BY <1>4, <1>6, HeadTailProperties
  <2> DEFINE b == Append(Tail(r), x)
  <2>3. /\ b \in Seq(T) /\ Len(b) = Len(Tail(r)) + 1
        /\ \A i \in 1 .. Len(Tail(r)) : b[i] = Tail(r)[i]
        /\ b[Len(Tail(r)) + 1] = x
    BY <1>2, <2>1, AppendProperties
  <2>4. Len(Tail(a)) = Len(b)
    BY <1>4, <1>5, <2>1, <2>2, <2>3
  <2>5. \A i \in 1 .. Len(b) : Tail(a)[i] = b[i]
    <3> SUFFICES ASSUME NEW i \in 1 .. Len(b) PROVE Tail(a)[i] = b[i]
      OBVIOUS
    <3> HIDE DEF b
    <3>1. Tail(a)[i] = a[i + 1]
      BY <2>2, <2>4
    <3>2. CASE i = Len(r)
      BY <1>4, <1>5, <2>1, <2>3, <3>1, <3>2
    <3>3. CASE i # Len(r)
      <4>1. i \in 1 .. Len(Tail(r)) /\ i + 1 \in 1 .. Len(r)
        <5>1. Len(b) = Len(r) /\ Len(Tail(r)) = Len(r) - 1
          BY <1>5, <2>1, <2>3
        <5> QED  BY <1>5, <3>3, <5>1
      <4> QED  BY <1>4, <2>1, <2>3, <3>1, <4>1
    <3> QED  BY <3>2, <3>3
  <2> HIDE DEF a, b
  <2>6. Tail(a) = b
    BY <2>2, <2>3, <2>4, <2>5, SeqEqual
  <2> QED  BY <2>6 DEF a, b
<1> QED  BY <1>4, <1>6, <1>7, <1>8 DEF IsRect

\* What a container hands on is a rectangle of the same workspace.
LEMMA ChildRectIn ==
  ASSUME NEW t, NEW c, NEW n, NEW r, NEW Z, IsRect(r), Head(r) \in Z
  PROVE  /\ IsRect(ChildRect(t, c, n, r)) /\ Head(ChildRect(t, c, n, r)) \in Z
         /\ ChildRect(t, c, n, r) # <<>>
<1> DEFINE x == <<t.direction[c], t.fraction[c],
                  IF t.left[c] = n THEN "first" ELSE "second">>
<1>1. ChildRect(t, c, n, r) = IF c = Root THEN r ELSE Append(r, x)
  BY DEF ChildRect
<1> HIDE DEF x
<1> QED  BY <1>1, AppendRect DEF IsRect

\* What SetScreenRect hands down starts from what it was given.
LEMMA GivenRects ==
  ASSUME NEW t, NEW node, NEW r, NEW Z, NEW g, Ranked(t),
         t.parent \in [Node -> Split \cup {NULL}],
         IsGiven(t, node, r, g), RectIn(r, Z)
  PROVE  \A n \in Node : RectIn(g[n], Z)
<1>1. PICK rank : RankOf(t, rank)
  BY DEF Ranked
<1>2. rank \in [Node -> Nat]
  BY <1>1 DEF RankOf
<1> DEFINE Bad == {n \in Node : ~RectIn(g[n], Z)}
<1>3. SUFFICES ASSUME Bad # {} PROVE FALSE
  OBVIOUS
<1>4. PICK n \in Bad : \A m \in Bad : ~(rank[m] < rank[n])
  BY <1>2, <1>3, LeastRank
<1>5. g[n] = Handed(t, node, r, g, n)
  BY DEF IsGiven
<1> DEFINE c == t.parent[n]
<1>6. n # node /\ c # NULL /\ g[c] # <<>> /\ g[n] = ChildRect(t, c, n, g[c])
  <2>1. n \in Node /\ ~RectIn(g[n], Z)
    BY <1>4
  <2>2. g[n] # r /\ g[n] # <<>>
    BY <2>1 DEF RectIn
  <2> HIDE DEF Bad
  <2> QED  BY <1>5, <2>2 DEF Handed
<1>7. c \in Node /\ rank[c] < rank[n]
  BY <1>1, <1>6, Kinds DEF RankOf
<1>8. RectIn(g[c], Z)
  BY <1>4, <1>7
<1>9. RectIn(g[n], Z)
  BY <1>6, <1>8, ChildRectIn DEF RectIn
<1> QED  BY <1>9

\* SetScreenRect hands out no rectangle of another size.
LEMMA RectsStayIn ==
  ASSUME NEW t, NEW node, NEW r, NEW Z, Ranked(t), Shaped(t), Framed(t),
         RectsIn(t, Z), RectIn(r, Z)
  PROVE  LET u == SetScreenRect(t, node, r)
         IN  RectsIn(u, Z) /\ Framed(u)
<1>1. t.parent \in [Node -> Split \cup {NULL}]
  BY DEF Shaped
<1>2. PICK g :
        /\ IsGiven(t, node, r, g)
        /\ SetScreenRect(t, node, r) = WithGiven(t, g)
  BY <1>1, ScreenRectGiven
<1>3. \A n \in Node : RectIn(g[n], Z)
  BY <1>1, <1>2, GivenRects
<1> DEFINE h == NewRects(t, g)
           u == WithGiven(t, g)
<1>4. u.rect = h /\ u.fraction = t.fraction
  BY DEF Shaped, WithGiven
<1>5. \A n \in Node : h[n] = IF g[n] = <<>> THEN t.rect[n] ELSE g[n]
  BY DEF NewRects
<1>6. h = [n \in Node |-> h[n]]
  BY DEF NewRects
<1> HIDE DEF h, u
<1>7. RectsIn(u, Z)
  BY <1>3, <1>4, <1>5 DEF RectsIn
<1>8. Framed(u)
  BY <1>4, <1>6 DEF Framed
<1> QED  BY <1>2, <1>7, <1>8 DEF u

\* What SetScreenRect of `node' does to each rectangle.
LEMMA Relaid ==
  ASSUME NEW t, NEW node \in Node, NEW r, Ranked(t), Shaped(t), Framed(t),
         IsRect(r)
  PROVE  LET u == SetScreenRect(t, node, r)
         IN  /\ u.rect[node] = r
             /\ Framed(u)
             /\ \A n \in Node \ {node} : Hangs(t, n) =>
                  \/ CurrentAt(u, n)
                  \/ /\ u.rect[n] = t.rect[n] /\ t.parent[n] # node
                     /\ u.rect[t.parent[n]] = t.rect[t.parent[n]]
             /\ t.parent[node] # NULL =>
                  u.rect[t.parent[node]] = t.rect[t.parent[node]]
             /\ node # Root /\ t.parent[Root] = NULL =>
                  u.rect[Root] = t.rect[Root]
<1>1. t.parent \in [Node -> Split \cup {NULL}]
  BY DEF Shaped
<1>2. PICK g :
        /\ IsGiven(t, node, r, g)
        /\ SetScreenRect(t, node, r) = WithGiven(t, g)
  BY <1>1, ScreenRectGiven
<1> DEFINE h == NewRects(t, g)
           u == WithGiven(t, g)
<1>3. /\ u.rect = h /\ u.parent = t.parent /\ u.direction = t.direction
      /\ u.fraction = t.fraction /\ u.left = t.left
  BY DEF Shaped, WithGiven
<1>4. \A n \in Node : h[n] = IF g[n] = <<>> THEN t.rect[n] ELSE g[n]
  BY DEF NewRects
<1>5. h = [n \in Node |-> h[n]]
  BY DEF NewRects
<1> HIDE DEF h, u
<1>6. \A n \in Node : g[n] = Handed(t, node, r, g, n)
  BY <1>2 DEF IsGiven
<1>7. g[node] = r /\ r # <<>>
  BY <1>6 DEF Handed, IsRect
<1>8. PICK rank : RankOf(t, rank)
  BY DEF Ranked
<1>9. /\ rank \in [Node -> Nat] /\ \A n \in Node : rank[n] \in Nat
      /\ \A n \in Node : t.parent[n] # NULL =>
           t.parent[n] \in Node /\ rank[t.parent[n]] < rank[n]
  BY <1>1, <1>8, Kinds DEF RankOf
<1>10. ASSUME NEW n \in Node, rank[n] < rank[node]
       PROVE  g[n] = <<>>
  <2> DEFINE Bad == {m \in Node : rank[m] < rank[node] /\ g[m] # <<>>}
  <2>1. SUFFICES ASSUME Bad # {} PROVE FALSE
    BY <1>10
  <2>2. PICK m \in Bad : \A k \in Bad : ~(rank[k] < rank[m])
    BY <1>9, <2>1, LeastRank
  <2>3. m # node /\ t.parent[m] # NULL /\ g[t.parent[m]] # <<>>
    BY <1>6, <1>9, <2>2 DEF Handed
  <2>4. t.parent[m] \in Bad
    BY <1>9, <2>2, <2>3
  <2> QED  BY <1>9, <2>2, <2>3, <2>4
<1>11. t.parent[node] # NULL => u.rect[t.parent[node]] = t.rect[t.parent[node]]
  BY <1>3, <1>4, <1>9, <1>10
<1>12. \A n \in Node : RectIn(g[n], {Head(r)})
  <2>1. RectIn(r, {Head(r)})
    BY DEF RectIn
  <2> QED  BY <1>1, <1>2, <2>1, GivenRects
<1>13. ASSUME NEW n \in Node \ {node}, Hangs(t, n)
       PROVE  \/ CurrentAt(u, n)
              \/ /\ u.rect[n] = t.rect[n] /\ t.parent[n] # node
                 /\ u.rect[t.parent[n]] = t.rect[t.parent[n]]
  <2> DEFINE c == t.parent[n]
  <2>1. c # NULL /\ n \in ChildrenOf(t, c) /\ c \in Node
    BY <1>9, <1>13 DEF Hangs
  <2>2. g[n] = IF g[c] = <<>> THEN <<>> ELSE ChildRect(t, c, n, g[c])
    BY <1>6, <2>1 DEF Handed
  <2>3. CASE g[c] = <<>>
    BY <1>3, <1>4, <1>7, <2>1, <2>2, <2>3
  <2>4. CASE g[c] # <<>>
    <3>1. g[n] # <<>>
      BY <1>12, <2>1, <2>2, <2>4, ChildRectIn DEF RectIn
    <3>2. u.rect[n] = ChildRect(t, c, n, u.rect[c])
      BY <1>3, <1>4, <2>1, <2>2, <2>4, <3>1
    <3>3. CurrentAt(u, n)
      BY <1>3, <3>2 DEF CurrentAt, ChildRect
    <3> QED  BY <3>3
  <2> QED  BY <2>3, <2>4
<1>14. node # Root /\ t.parent[Root] = NULL => u.rect[Root] = t.rect[Root]
  BY <1>3, <1>4, <1>6, Kinds DEF Handed
<1>15. u.rect[node] = r
  BY <1>3, <1>4, <1>7
<1>16. Framed(u)
  BY <1>3, <1>5 DEF Framed
<1> QED  BY <1>2, <1>11, <1>13, <1>14, <1>15, <1>16 DEF u

---------------------------------------------------------------------------
(* SplitChild keeps a placed tree placed. *)

\* Every node that hangs in the tree has been given a rectangle.
LEMMA PlacedRects ==
  ASSUME NEW t, Placed(t)
  PROVE  /\ \A n \in InTree(t) \cup {Root} : IsRect(t.rect[n])
         /\ \A n \in InTree(t) : Hangs(t, n) /\ CurrentAt(t, n)
<1>1. PICK rank : RankOf(t, rank)
  BY DEF Placed, WellFormed, Ranked
<1>2. rank \in [Node -> Nat]
  BY <1>1 DEF RankOf
<1>3. /\ \A n \in Node : t.parent[n] # NULL =>
            t.left[t.parent[n]] = n \/ t.right[t.parent[n]] = n
      /\ \A k \in Container : t.left[k] = NULL =>
            t.right[k] = NULL /\ t.parent[k] = NULL
      /\ t.parent \in [Node -> Split \cup {NULL}]
      /\ IsRect(t.rect[Root]) /\ Current(t)
  BY DEF Placed, WellFormed, Linked, Shaped
<1>4. ASSUME NEW n \in InTree(t)
      PROVE  Hangs(t, n) /\ CurrentAt(t, n)
  <2>1. n \in Node /\ t.parent[n] # NULL
    BY DEF InTree
  <2>2. Hangs(t, n)
    BY <1>3, <2>1, Kinds DEF Hangs, ChildrenOf
  <2> QED  BY <1>3, <2>1, <2>2 DEF Current
<1> DEFINE Bad == {n \in InTree(t) : ~IsRect(t.rect[n])}
<1>5. Bad = {}
  <2> SUFFICES ASSUME Bad # {} PROVE FALSE
    OBVIOUS
  <2>1. Bad \subseteq Node
    BY DEF InTree
  <2>2. PICK n \in Bad : \A m \in Bad : ~(rank[m] < rank[n])
    BY <1>2, <2>1, LeastRank
  <2> DEFINE c == t.parent[n]
  <2>3. /\ n \in InTree(t) /\ ~IsRect(t.rect[n]) /\ n \in Node /\ c # NULL
        /\ c \in Split /\ c \in Node
    BY <1>3, <2>2, Kinds DEF InTree
  <2>4. t.rect[n] = ChildRect(t, c, n, t.rect[c])
    BY <1>4, <2>3 DEF CurrentAt
  <2>5. c # Root
    BY <1>3, <2>3, <2>4 DEF ChildRect
  <2>6. c \in InTree(t)
    <3>1. t.left[c] = n \/ t.right[c] = n
      BY <1>3, <2>3
    <3>2. c \in Container /\ n # NULL
      BY <2>3, <2>5, Kinds
    <3>3. t.left[c] # NULL
      BY <1>3, <3>1, <3>2
    <3>4. t.parent[c] # NULL
      BY <3>2, <3>3 DEF Placed, WellFormed, Linked
    <3> QED  BY <2>3, <3>4 DEF InTree
  <2>7. rank[c] < rank[n]
    BY <1>1, <2>3 DEF RankOf
  <2>8. IsRect(t.rect[c])
    BY <2>2, <2>6, <2>7
  <2>9. IsRect(ChildRect(t, c, n, t.rect[c]))
    <3>1. Head(t.rect[c]) \in {Head(t.rect[c])}
      OBVIOUS
    <3> QED  BY <2>8, <3>1, ChildRectIn
  <2> QED  BY <2>3, <2>4, <2>9
<1> QED  BY <1>3, <1>4, <1>5

\* The tree that SplitChild lays out.
LEMMA SplitMade ==
  ASSUME NEW t, WellFormed(t), Framed(t), Unused(t) # {}, NEW x \in InTree(t),
         NEW w \in Leaf, w \notin InTree(t), NEW d \in Direction,
         NEW first, NEW second,
         \/ first = x /\ second = w
         \/ first = w /\ second = x
  PROVE  \E v :
           /\ SplitChild(t, t.parent[x], d, first, second) =
                SetScreenRect(v, Fresh(t), t.rect[x])
           /\ Shaped(v) /\ Framed(v) /\ v.rect = t.rect
           /\ \A k \in Split : v.direction[k] =
                IF k = Fresh(t) THEN d ELSE t.direction[k]
           /\ \A k \in Split : v.fraction[k] =
                IF k = Fresh(t) THEN Half ELSE t.fraction[k]
<1> DEFINE c   == t.parent[x]
           new == Fresh(t)
           put == PutChild(t, c, x, new)
           made == [put EXCEPT
                  !.left[new]      = first,
                  !.right[new]     = second,
                  !.direction[new] = d,
                  !.fraction[new]  = Half,
                  !.parent = [@ EXCEPT ![new]    = t.parent[x],
                                       ![first]  = new,
                                       ![second] = new]]
<1>1. new \in Container /\ t.left[new] = NULL
  BY DEF Fresh, Unused, Alive
<1>2. x \in Node /\ x # w /\ c # NULL /\ c \in Split
  BY DEF WellFormed, Shaped, InTree
<1>3. t.left[c] = x \/ t.right[c] = x
  <2>1. \A n \in Node : t.parent[n] # NULL =>
          t.left[t.parent[n]] = n \/ t.right[t.parent[n]] = n
    BY DEF WellFormed, Linked
  <2> QED  BY <1>2, <2>1
<1>4. t.left[c] # w
  BY <1>2, Kinds DEF WellFormed, Linked, InTree
<1>5. (IF t.left[c] \in {first, second} THEN t.left[c] ELSE t.right[c]) = x
  BY <1>3, <1>4
<1>6. SplitChild(t, c, d, first, second) =
        SetScreenRect(made, new, t.rect[x])
  BY <1>5 DEF SplitChild
<1>7. new \in Node /\ new \in Split
  BY <1>1, Kinds
<1>8. /\ Shaped(put)
      /\ put.left = [t.left EXCEPT ![c] = IF t.left[c] = x THEN new
                                          ELSE t.left[c]]
      /\ put.right = [t.right EXCEPT ![c] =
                         IF t.left[c] # x /\ t.right[c] = x
                         THEN new ELSE t.right[c]]
      /\ put.parent = t.parent
      /\ put.direction = t.direction /\ put.fraction = t.fraction
      /\ put.rect = t.rect
  BY <1>2, <1>7, PutChildPointers DEF WellFormed
<1> HIDE DEF put
<1>9. /\ made.left = [put.left EXCEPT ![new] = first]
      /\ made.right = [put.right EXCEPT ![new] = second]
      /\ made.parent = [t.parent EXCEPT ![new] = t.parent[x], ![first] = new,
                                        ![second] = new]
      /\ made.direction = [put.direction EXCEPT ![new] = d]
      /\ made.fraction = [put.fraction EXCEPT ![new] = Half]
      /\ made.rect = t.rect
  BY <1>8 DEF Shaped
<1>10. Shaped(made)
  <2>1. made = [field \in {"left", "right", "parent", "direction",
                           "fraction", "rect"} |-> made[field]]
    BY <1>8 DEF Shaped
  <2>2. made.direction \in [Split -> Direction]
    BY <1>8, <1>9 DEF Shaped
  <2>3. first \in Node /\ second \in Node
    BY <1>2, Kinds
  <2>4. /\ made.left \in [Split -> Node \cup {NULL}]
        /\ made.right \in [Split -> Node \cup {NULL}]
    BY <2>3, <1>8, <1>9 DEF Shaped
  <2>5. made.parent \in [Node -> Split \cup {NULL}]
    <3>1. /\ t.parent \in [Node -> Split \cup {NULL}]
          /\ t.parent[x] \in Split /\ new \in Split
      BY <1>2, <1>7 DEF WellFormed, Shaped
    <3> HIDE DEF new, c
    <3>2. [t.parent EXCEPT ![new] = t.parent[x], ![first] = new, ![second] = new]
            \in [Node -> Split \cup {NULL}]
      BY <3>1
    <3> QED  BY <1>9, <3>2
  <2> QED  BY <2>1, <2>2, <2>4, <2>5 DEF Shaped
<1> HIDE DEF made
<1>11. \A k \in Split : made.direction[k] = IF k = new THEN d ELSE t.direction[k]
  BY <1>8, <1>9 DEF Shaped
<1>12. \A k \in Split : made.fraction[k] = IF k = new THEN Half ELSE t.fraction[k]
  BY <1>8, <1>9 DEF Framed
<1>13. Framed(made)
  BY <1>8, <1>9 DEF Framed
<1> QED  BY <1>6, <1>9, <1>10, <1>11, <1>12, <1>13

\* SplitChild gives no rectangle of another size.
LEMMA SplitFramed ==
  ASSUME NEW t, WellFormed(t), Framed(t), Unused(t) # {}, NEW x \in InTree(t),
         NEW w \in Leaf, w \notin InTree(t), NEW d \in Direction,
         NEW first, NEW second, NEW Z, RectsIn(t, Z),
         \/ first = x /\ second = w
         \/ first = w /\ second = x
  PROVE  LET u == SplitChild(t, t.parent[x], d, first, second)
         IN  Framed(u) /\ RectsIn(u, Z)
<1> DEFINE u == SplitChild(t, t.parent[x], d, first, second)
<1>1. PICK v :
        /\ u = SetScreenRect(v, Fresh(t), t.rect[x])
        /\ Shaped(v) /\ Framed(v) /\ v.rect = t.rect
  BY SplitMade
<1>2. WellFormed(u)
  BY SplitWellFormed
<1> HIDE DEF u
<1>3. u.parent = v.parent
  BY <1>1, OnlyRects
<1>4. Ranked(v)
  BY <1>2, <1>3 DEF WellFormed, Ranked, RankOf
<1>5. RectsIn(v, Z) /\ RectIn(t.rect[x], Z)
  BY <1>1 DEF RectsIn, InTree
<1> QED  BY <1>1, <1>4, <1>5, RectsStayIn DEF u

\* SplitChild leaves every rectangle as its parent gives it.
LEMMA SplitPlaced ==
  ASSUME NEW t, Placed(t), Unused(t) # {}, NEW x \in InTree(t),
         NEW w \in Leaf, w \notin InTree(t), NEW d \in Direction,
         NEW first, NEW second,
         \/ first = x /\ second = w
         \/ first = w /\ second = x
  PROVE  LET u == SplitChild(t, t.parent[x], d, first, second)
         IN  /\ Placed(u)
             /\ \A k \in Split : u.direction[k] =
                  IF k = Fresh(t) THEN d ELSE t.direction[k]
             /\ \A k \in Split : u.fraction[k] =
                  IF k = Fresh(t) THEN Half ELSE t.fraction[k]
<1> DEFINE c   == t.parent[x]
           new == Fresh(t)
           u   == SplitChild(t, t.parent[x], d, first, second)
           r   == t.rect[x]
<1>1. WellFormed(t) /\ Framed(t)
  BY DEF Placed
<1>2. PICK v :
        /\ u = SetScreenRect(v, new, r)
        /\ Shaped(v) /\ Framed(v) /\ v.rect = t.rect
        /\ \A k \in Split : v.direction[k] = IF k = new THEN d ELSE t.direction[k]
        /\ \A k \in Split : v.fraction[k] = IF k = new THEN Half ELSE t.fraction[k]
  BY <1>1, SplitMade
<1>3. WellFormed(u)
  BY <1>1, SplitWellFormed
<1>4. /\ Shaped(u)
      /\ new \in Container /\ t.left[new] = NULL
      /\ \A k \in Split : u.left[k] =
           IF k = new THEN first
           ELSE IF k = c /\ t.left[c] = x THEN new ELSE t.left[k]
      /\ \A k \in Split : u.right[k] =
           IF k = new THEN second
           ELSE IF k = c /\ t.left[c] # x THEN new ELSE t.right[k]
      /\ \A n \in Node : u.parent[n] =
           IF n = x \/ n = w THEN new ELSE IF n = new THEN c
           ELSE t.parent[n]
  BY SMTT(60), <1>1, SplitPointers
<1> HIDE DEF u, new
<1>5. /\ u.left = v.left /\ u.right = v.right /\ u.parent = v.parent
      /\ u.direction = v.direction /\ u.fraction = v.fraction
  BY <1>2, OnlyRects
<1>6. Ranked(v)
  BY <1>3, <1>5 DEF WellFormed, Ranked, RankOf
<1>7. /\ x \in Node /\ x # w /\ c # NULL /\ c \in Split /\ c # new
      /\ new \in Node /\ new # Root /\ new # x /\ new # w /\ x # Root
      /\ t.parent[new] = NULL
      /\ \A n \in Node : t.parent[n] # NULL =>
            t.parent[n] # new /\ t.parent[n] \in Split
  <2>1. /\ \A n \in Node : t.parent[n] # NULL =>
              t.left[t.parent[n]] = n \/ t.right[t.parent[n]] = n
        /\ t.right[new] = NULL /\ t.parent[new] = NULL
        /\ t.parent[Root] = NULL
        /\ t.parent \in [Node -> Split \cup {NULL}]
    BY <1>1, <1>4 DEF WellFormed, Linked, Shaped
  <2>2. x \in Node /\ c # NULL
    BY DEF InTree
  <2> QED  BY <1>4, <2>1, <2>2, Kinds DEF InTree
<1>8. IsRect(r) /\ r = ChildRect(t, c, x, t.rect[c]) /\ IsRect(t.rect[Root])
      /\ Len(t.rect[Root]) = 1
  BY PlacedRects DEF CurrentAt, Placed
<1>9. /\ u.rect[new] = r /\ Framed(u)
      /\ \A n \in Node \ {new} : Hangs(v, n) =>
           \/ CurrentAt(u, n)
           \/ /\ u.rect[n] = v.rect[n] /\ v.parent[n] # new
              /\ u.rect[v.parent[n]] = v.rect[v.parent[n]]
      /\ v.parent[new] # NULL => u.rect[v.parent[new]] = v.rect[v.parent[new]]
      /\ new # Root /\ v.parent[Root] = NULL => u.rect[Root] = v.rect[Root]
  <2>1. new \in Node /\ Ranked(v) /\ Shaped(v) /\ Framed(v) /\ IsRect(r)
    BY <1>2, <1>6, <1>7, <1>8
  <2> HIDE DEF r, c
  <2> QED  BY <1>2, <2>1, Relaid
<1>10. u.rect[Root] = t.rect[Root]
  BY <1>2, <1>3, <1>5, <1>7, <1>9 DEF WellFormed, Linked
<1>11. ASSUME NEW n \in Node, Hangs(u, n)
       PROVE  CurrentAt(u, n)
  <2>1. CASE n = new
    <3>1. u.parent[new] = c /\ u.rect[c] = t.rect[c]
      <4>1. u.parent[new] = c
        BY <1>4, <1>7
      <4> QED  BY <1>2, <1>5, <1>7, <1>9, <4>1
    <3>2. u.left[c] = new <=> t.left[c] = x
      <4>1. t.left[c] # new
        BY <1>1, <1>4, <1>7 DEF WellFormed, Linked
      <4> QED  BY <1>4, <1>7, <4>1
    <3>3. u.direction[c] = t.direction[c] /\ u.fraction[c] = t.fraction[c]
      BY <1>2, <1>5, <1>7
    <3>4. ChildRect(u, c, new, t.rect[c]) = ChildRect(t, c, x, t.rect[c])
      BY <3>2, <3>3 DEF ChildRect
    <3> QED  BY <1>8, <1>9, <2>1, <3>1, <3>4 DEF CurrentAt
  <2>2. CASE n # new /\ ~CurrentAt(u, n)
    <3> DEFINE p == u.parent[n]
    <3>1. Hangs(v, n)
      BY <1>5, <1>11 DEF Hangs, ChildrenOf
    <3>2. u.rect[n] = t.rect[n] /\ p # new /\ u.rect[p] = t.rect[p]
      BY <1>2, <1>5, <1>9, <2>2, <3>1
    <3>3. n # x /\ n # w /\ p = t.parent[n] /\ p # NULL /\ p \in Split
      BY <1>4, <1>7, <1>11, <2>2, <3>2 DEF Hangs
    <3>4. n \in InTree(t)
      BY <3>3 DEF InTree
    <3>5. t.rect[n] = ChildRect(t, p, n, t.rect[p])
      BY <3>3, <3>4, PlacedRects DEF CurrentAt
    <3>6. u.left[p] = n <=> t.left[p] = n
      BY <1>4, <2>2, <3>2, <3>3
    <3>7. u.direction[p] = t.direction[p] /\ u.fraction[p] = t.fraction[p]
      BY <1>2, <1>5, <3>2, <3>3
    <3>8. ChildRect(u, p, n, t.rect[p]) = ChildRect(t, p, n, t.rect[p])
      BY <3>6, <3>7 DEF ChildRect
    <3> QED  BY <3>2, <3>5, <3>8 DEF CurrentAt
  <2> QED  BY <2>1, <2>2
<1>12. Current(u)
  BY <1>11 DEF Current
<1>13. Placed(u)
  BY <1>3, <1>8, <1>9, <1>10, <1>12 DEF Placed
<1>14. /\ \A k \in Split : u.direction[k] = IF k = new THEN d ELSE t.direction[k]
       /\ \A k \in Split : u.fraction[k] = IF k = new THEN Half ELSE t.fraction[k]
  BY <1>2, <1>5
<1> QED  BY <1>13, <1>14 DEF u, new

---------------------------------------------------------------------------
(* So do ReleaseChild and SetFraction. *)

\* ReleaseChild(t, w) is v, laid out again and without w.
MadeFrom(t, w, v) ==
  LET c == t.parent[w]
      g == t.parent[c]
  IN  /\ Shaped(v) /\ Framed(v) /\ Ranked(v)
      /\ ReleaseChild(t, w) =
           [SetScreenRect(v, g, t.rect[g]) EXCEPT !.parent[w] = NULL]
      /\ \A n \in Node : v.parent[n] =
           IF n = w THEN c ELSE ReleaseChild(t, w).parent[n]
      /\ v.left = ReleaseChild(t, w).left
      /\ v.right = ReleaseChild(t, w).right
      /\ \A k \in Split : v.direction[k] =
           IF k = c THEN "vertical" ELSE t.direction[k]
      /\ \A k \in Split : v.fraction[k] =
           IF k = c THEN Half ELSE t.fraction[k]
      /\ \A n \in Node : v.rect[n] = IF n = c THEN <<>> ELSE t.rect[n]

\* The tree that ReleaseChild lays out: the window still points to the deleted
\* container.
LEMMA ReleaseMade ==
  ASSUME NEW t, WellFormed(t), Framed(t), NEW w \in Leaf, w \in InTree(t),
         t.parent[w] \in Container
  PROVE  \E v : MadeFrom(t, w, v)
<1> DEFINE c    == t.parent[w]
           g    == t.parent[c]
           s    == SiblingOf(t, w)
           put  == PutChild(t, g, c, s)
           kept == [put EXCEPT
                      !.parent = [@ EXCEPT ![s] = g, ![c] = NULL],
                      !.left[c]      = NULL,
                      !.right[c]     = NULL,
                      !.direction[c] = "vertical",
                      !.fraction[c]  = Half,
                      !.rect[c]      = <<>>]
           laid == SetScreenRect(kept, g, t.rect[g])
           u    == ReleaseChild(t, w)
<1>1. u = [laid EXCEPT !.parent[w] = NULL]
  BY DEF ReleaseChild, Replace
<1>2. /\ Shaped(u)
      /\ g \in Split /\ g # c /\ s \in Node /\ s # w /\ s # c
      /\ \/ t.left[c] = w /\ t.right[c] = s
         \/ t.left[c] = s /\ t.right[c] = w
      /\ \A k \in Split : u.left[k] =
           IF k = c THEN NULL
           ELSE IF k = g /\ t.left[g] = c THEN s ELSE t.left[k]
      /\ \A k \in Split : u.right[k] =
           IF k = c THEN NULL
           ELSE IF k = g /\ t.left[g] # c THEN s ELSE t.right[k]
      /\ \A n \in Node : u.parent[n] =
           IF n = w \/ n = c THEN NULL ELSE IF n = s THEN g
           ELSE t.parent[n]
  BY ReleasePointers
<1> HIDE DEF s, u
<1>3. w \in Node /\ c \in Node /\ c \in Split /\ w # c
  BY Kinds
<1> HIDE DEF c, g
<1>4. /\ Shaped(put)
      /\ put.left = [t.left EXCEPT ![g] = IF t.left[g] = c THEN s
                                          ELSE t.left[g]]
      /\ put.right = [t.right EXCEPT ![g] =
                         IF t.left[g] # c /\ t.right[g] = c
                         THEN s ELSE t.right[g]]
      /\ put.parent = t.parent
      /\ put.direction = t.direction /\ put.fraction = t.fraction
      /\ put.rect = t.rect
  BY <1>2, PutChildPointers DEF WellFormed
<1> HIDE DEF put
<1>5. /\ kept.left = [put.left EXCEPT ![c] = NULL]
      /\ kept.right = [put.right EXCEPT ![c] = NULL]
      /\ kept.parent = [t.parent EXCEPT ![s] = g, ![c] = NULL]
      /\ kept.direction = [put.direction EXCEPT ![c] = "vertical"]
      /\ kept.fraction = [put.fraction EXCEPT ![c] = Half]
      /\ kept.rect = [put.rect EXCEPT ![c] = <<>>]
  BY <1>4 DEF Shaped
<1>6. Shaped(kept)
  <2>1. kept = [field \in {"left", "right", "parent", "direction",
                           "fraction", "rect"} |-> kept[field]]
    BY ZenonT(60), <1>4 DEF Shaped
  <2>2. kept.direction \in [Split -> Direction]
    BY <1>4, <1>5 DEF Shaped, Direction
  <2>3. /\ kept.left \in [Split -> Node \cup {NULL}]
        /\ kept.right \in [Split -> Node \cup {NULL}]
    BY <1>4, <1>5 DEF Shaped
  <2>4. kept.parent \in [Node -> Split \cup {NULL}]
    <3>1. t.parent \in [Node -> Split \cup {NULL}]
      BY DEF WellFormed, Shaped
    <3>2. [t.parent EXCEPT ![s] = g, ![c] = NULL]
            \in [Node -> Split \cup {NULL}]
      BY <3>1, <1>2
    <3> QED  BY <3>2, <1>5
  <2> QED  BY <2>1, <2>2, <2>3, <2>4 DEF Shaped
<1> HIDE DEF kept
<1>7. /\ Shaped(laid) /\ laid.left = kept.left /\ laid.right = kept.right
      /\ laid.parent = kept.parent
  BY <1>6, OnlyRects
<1> HIDE DEF laid
<1>8. u.left = kept.left /\ u.right = kept.right
      /\ u.parent = [kept.parent EXCEPT ![w] = NULL]
  BY <1>1, <1>7 DEF Shaped
<1>9. Framed(kept)
  <2>1. kept.fraction = [k \in Split |-> kept.fraction[k]]
    BY <1>4, <1>5 DEF Framed
  <2>2. kept.rect = [k \in Node |-> kept.rect[k]]
    BY <1>4, <1>5 DEF Framed
  <2> QED  BY <2>1, <2>2 DEF Framed
<1>10. \A n \in Node : kept.parent[n] = IF n = w THEN c ELSE u.parent[n]
  <2>1. t.parent \in [Node -> Split \cup {NULL}]
    BY DEF WellFormed, Shaped
  <2>2. kept.parent[w] = c
    BY <1>2, <1>3, <1>5, <2>1 DEF c
  <2>3. kept.parent \in [Node -> Split \cup {NULL}]
    BY <1>6 DEF Shaped
  <2> QED  BY <1>3, <1>8, <2>2, <2>3
<1>11. /\ \A k \in Split : kept.direction[k] =
            IF k = c THEN "vertical" ELSE t.direction[k]
       /\ \A k \in Split : kept.fraction[k] =
            IF k = c THEN Half ELSE t.fraction[k]
       /\ \A n \in Node : kept.rect[n] = IF n = c THEN <<>> ELSE t.rect[n]
  <2>1. \A k \in Split : kept.direction[k] =
            IF k = c THEN "vertical" ELSE t.direction[k]
    BY <1>4, <1>5 DEF Shaped
  <2>2. \A k \in Split : kept.fraction[k] =
            IF k = c THEN Half ELSE t.fraction[k]
    BY <1>4, <1>5 DEF Framed
  <2>3. \A n \in Node : kept.rect[n] = IF n = c THEN <<>> ELSE t.rect[n]
    BY <1>4, <1>5 DEF Framed
  <2> QED  BY <2>1, <2>2, <2>3
<1>12. Ranked(kept)
  <2>1. PICK rank : RankOf(t, rank)
    BY DEF WellFormed, Ranked
  <2>2. rank \in [Node -> Nat] /\ \A n \in Node : t.parent[n] # NULL =>
          rank[t.parent[n]] < rank[n]
    BY <2>1 DEF RankOf
  <2>3. t.parent[w] = c /\ t.parent[c] = g /\ t.parent[s] = c /\ c # NULL
        /\ g # NULL
    BY <1>2, <1>3, Kinds DEF c, g, WellFormed, Linked
  <2>4. rank[g] < rank[c] /\ rank[c] < rank[s] /\ rank[c] < rank[w]
    BY <1>2, <1>3, <2>2, <2>3
  <2>5. \A n \in Node : rank[n] \in Nat
    BY <2>2
  <2>6. rank[g] < rank[s]
    BY <1>2, <1>3, <2>4, <2>5, Kinds
  <2>7. \A n \in Node : kept.parent[n] # NULL => rank[kept.parent[n]] < rank[n]
    <3> SUFFICES ASSUME NEW n \in Node, kept.parent[n] # NULL
                 PROVE  rank[kept.parent[n]] < rank[n]
      OBVIOUS
    <3>1. CASE n = w
      BY <1>10, <2>4, <3>1
    <3>2. CASE n = s
      BY <1>2, <1>10, <2>6, <3>2
    <3>3. CASE n # w /\ n # s
      BY <1>2, <1>10, <2>2, <3>3
    <3> QED  BY <3>1, <3>2, <3>3
  <2> QED  BY <2>2, <2>7 DEF Ranked, RankOf
<1>13. MadeFrom(t, w, kept)
  BY ZenonT(60), <1>1, <1>6, <1>8, <1>9, <1>10, <1>11, <1>12 DEF MadeFrom, c, g, laid, u
<1> QED  BY <1>13

\* ReleaseChild makes up no size.
LEMMA ReleaseFramed ==
  ASSUME NEW t, WellFormed(t), Framed(t), NEW w \in Leaf, w \in InTree(t),
         t.parent[w] \in Container, NEW Z, RectsIn(t, Z)
  PROVE  LET u == ReleaseChild(t, w)
         IN  Framed(u) /\ RectsIn(u, Z)
<1> DEFINE c    == t.parent[w]
           g    == t.parent[c]
           r    == t.rect[g]
           u    == ReleaseChild(t, w)
<1>0. PICK v : MadeFrom(t, w, v)
  BY ReleaseMade
<1>1. /\ Shaped(v) /\ Framed(v) /\ Ranked(v)
      /\ u = [SetScreenRect(v, g, r) EXCEPT !.parent[w] = NULL]
      /\ \A n \in Node : v.rect[n] = IF n = c THEN <<>> ELSE t.rect[n]
  BY <1>0 DEF MadeFrom
<1>2. g \in Node
  <2>1. g \in Split
    BY ReleasePointers
  <2> QED  BY <2>1, Kinds
<1> DEFINE laid == SetScreenRect(v, g, r)
<1> HIDE DEF u, c, g
<1>3. RectsIn(v, Z) /\ RectIn(r, Z)
  BY <1>1, <1>2 DEF RectsIn, RectIn
<1>4. RectsIn(laid, Z) /\ Framed(laid) /\ Shaped(laid)
  BY <1>1, <1>3, RectsStayIn, OnlyRects
<1>5. u = [laid EXCEPT !.parent[w] = NULL]
  BY <1>1
<1> HIDE DEF laid
<1>6. u.rect = laid.rect /\ u.fraction = laid.fraction
  BY <1>4, <1>5 DEF Shaped
<1> QED  BY <1>4, <1>6 DEF u, RectsIn, Framed

\* ReleaseChild leaves every rectangle as its parent gives it.
LEMMA ReleasePlaced ==
  ASSUME NEW t, Placed(t), NEW w \in Leaf, w \in InTree(t),
         t.parent[w] \in Container
  PROVE  LET c == t.parent[w]
             u == ReleaseChild(t, w)
         IN  /\ Placed(u)
             /\ \A k \in Split : u.direction[k] =
                  IF k = c THEN "vertical" ELSE t.direction[k]
             /\ \A k \in Split : u.fraction[k] =
                  IF k = c THEN Half ELSE t.fraction[k]
<1> DEFINE c    == t.parent[w]
           g    == t.parent[c]
           s    == SiblingOf(t, w)
           r    == t.rect[g]
           u    == ReleaseChild(t, w)
<1>1. WellFormed(t) /\ Framed(t)
  BY DEF Placed
<1>0. PICK v : MadeFrom(t, w, v)
  BY <1>1, ReleaseMade
<1>2. /\ Shaped(v) /\ Framed(v) /\ Ranked(v)
      /\ u = [SetScreenRect(v, g, r) EXCEPT !.parent[w] = NULL]
      /\ \A n \in Node : v.parent[n] = IF n = w THEN c ELSE u.parent[n]
      /\ v.left = u.left /\ v.right = u.right
      /\ \A k \in Split : v.direction[k] =
           IF k = c THEN "vertical" ELSE t.direction[k]
      /\ \A k \in Split : v.fraction[k] =
           IF k = c THEN Half ELSE t.fraction[k]
      /\ \A n \in Node : v.rect[n] = IF n = c THEN <<>> ELSE t.rect[n]
  BY <1>0 DEF MadeFrom
<1>3. /\ Shaped(u)
      /\ g \in Split /\ g # c /\ s \in Node /\ s # w /\ s # c
      /\ \/ t.left[c] = w /\ t.right[c] = s
         \/ t.left[c] = s /\ t.right[c] = w
      /\ \A k \in Split : u.left[k] =
           IF k = c THEN NULL
           ELSE IF k = g /\ t.left[g] = c THEN s ELSE t.left[k]
      /\ \A k \in Split : u.right[k] =
           IF k = c THEN NULL
           ELSE IF k = g /\ t.left[g] # c THEN s ELSE t.right[k]
      /\ \A n \in Node : u.parent[n] =
           IF n = w \/ n = c THEN NULL ELSE IF n = s THEN g
           ELSE t.parent[n]
  BY <1>1, ReleasePointers
<1>4. WellFormed(u)
  BY <1>1, ReleaseWellFormed
<1>5. /\ w \in Node /\ c \in Node /\ c \in Split /\ w # c /\ c # Root
      /\ t.parent[w] = c /\ t.parent[c] = g /\ g \in Node /\ g # NULL
      /\ NULL \notin Node /\ Root \in Node /\ c # NULL
  BY <1>3, Kinds
<1>6. g = Root \/ g \in InTree(t)
  <2>1. t.left[g] # NULL
    <3>1. t.left[g] = c \/ t.right[g] = c
      BY <1>1, <1>5 DEF WellFormed, Linked
    <3>2. g = Root \/ g \in Container
      BY <1>3, Kinds
    <3> QED  BY <1>1, <1>5, <3>1, <3>2 DEF WellFormed, Linked
  <2> QED  BY <1>1, <1>3, <1>5, <2>1, Kinds DEF WellFormed, Linked, InTree
<1> DEFINE laid == SetScreenRect(v, g, r)
<1>7. u = [laid EXCEPT !.parent[w] = NULL]
  BY <1>2
<1> HIDE DEF u, c, g, s
<1>8. IsRect(r) /\ IsRect(t.rect[Root]) /\ Len(t.rect[Root]) = 1
  BY <1>6, PlacedRects DEF Placed
<1>9. /\ laid.left = v.left /\ laid.right = v.right
      /\ laid.parent = v.parent /\ laid.direction = v.direction
      /\ laid.fraction = v.fraction /\ Shaped(laid)
  BY <1>2, OnlyRects
<1>10. /\ laid.rect[g] = r /\ Framed(laid)
       /\ \A n \in Node \ {g} : Hangs(v, n) =>
            \/ CurrentAt(laid, n)
            \/ /\ laid.rect[n] = v.rect[n] /\ v.parent[n] # g
               /\ laid.rect[v.parent[n]] = v.rect[v.parent[n]]
       /\ v.parent[g] # NULL => laid.rect[v.parent[g]] = v.rect[v.parent[g]]
       /\ g # Root /\ v.parent[Root] = NULL => laid.rect[Root] = v.rect[Root]
  <2> HIDE DEF r
  <2> QED  BY <1>2, <1>5, <1>8, Relaid
<1> HIDE DEF laid
<1>11. /\ u.rect = laid.rect /\ u.fraction = laid.fraction
       /\ u.direction = laid.direction /\ u.left = laid.left
  BY <1>7, <1>9 DEF Shaped
<1>12. /\ \A k \in Split : u.direction[k] =
            IF k = c THEN "vertical" ELSE t.direction[k]
       /\ \A k \in Split : u.fraction[k] =
            IF k = c THEN Half ELSE t.fraction[k]
  BY <1>2, <1>9, <1>11
<1>13. /\ \A n \in Node : t.parent[n] # NULL =>
            t.left[t.parent[n]] = n \/ t.right[t.parent[n]] = n
       /\ t.parent[Root] = NULL
       /\ t.parent \in [Node -> Split \cup {NULL}]
  BY <1>1 DEF WellFormed, Linked, Shaped
<1>14. t.parent[s] = c
  BY <1>1, <1>3, <1>5 DEF WellFormed, Linked
<1>15. PICK rank : RankOf(t, rank)
  BY <1>1 DEF WellFormed, Ranked
<1>16. /\ \A n \in Node : rank[n] \in Nat
       /\ \A n \in Node : t.parent[n] # NULL => rank[t.parent[n]] < rank[n]
  BY <1>15 DEF RankOf
<1>17. g # s /\ t.parent[g] # c /\ t.parent[g] # g
  <2>1. rank[g] < rank[c] /\ rank[c] < rank[s]
    BY <1>3, <1>5, <1>14, <1>16
  <2>2. t.parent[g] # NULL => rank[t.parent[g]] < rank[g]
    BY <1>5, <1>16
  <2> QED  BY <1>3, <1>5, <1>16, <2>1, <2>2
<1>18. g # w
  BY <1>3, Kinds
<1>19. u.rect[Root] = t.rect[Root]
  <2>1. Root # w /\ Root # s /\ Root # c
    BY <1>5, <1>13, <1>14, Kinds
  <2>2. v.parent[Root] = NULL /\ v.rect[Root] = t.rect[Root]
    BY <1>2, <1>3, <1>5, <1>13, <2>1
  <2>3. CASE g = Root
    BY <1>10, <1>11, <2>3
  <2>4. CASE g # Root
    BY <1>10, <1>11, <2>2, <2>4
  <2> QED  BY <2>3, <2>4
<1>20. ASSUME NEW n \in Node, Hangs(u, n)
       PROVE  CurrentAt(u, n)
  <2> DEFINE p == u.parent[n]
  <2>1. /\ p # NULL /\ n # w /\ n # c /\ n \in ChildrenOf(u, p)
        /\ v.parent[n] = p /\ p \in Split
        /\ p = IF n = s THEN g ELSE t.parent[n]
    BY <1>2, <1>3, <1>13, <1>20 DEF Hangs
  <2>2. Hangs(v, n)
    BY <1>2, <2>1 DEF Hangs, ChildrenOf
  <2>3. CurrentAt(laid, n) => CurrentAt(u, n)
    BY <1>9, <1>11, <2>1 DEF CurrentAt, ChildRect
  <2>4. p # c /\ p \in Node
    BY <1>3, <1>5, <1>13, <2>1, Kinds
  <2>5. CASE n = g
    <3>1. p = t.parent[g] /\ p # g
      BY <1>17, <2>1, <2>5
    <3>2. u.rect[p] = t.rect[p]
      BY <1>2, <1>10, <1>11, <2>1, <2>4, <2>5
    <3>3. g \in InTree(t)
      BY <1>5, <2>1, <3>1 DEF InTree
    <3>4. t.rect[g] = ChildRect(t, p, g, t.rect[p])
      BY <3>1, <3>3, PlacedRects DEF CurrentAt
    <3>5. u.left[p] = t.left[p]
      BY <1>3, <2>1, <2>4, <3>1
    <3>6. ChildRect(u, p, g, t.rect[p]) = ChildRect(t, p, g, t.rect[p])
      BY <1>12, <2>1, <2>4, <3>5 DEF ChildRect
    <3>7. u.rect[g] = t.rect[g]
      BY <1>10, <1>11
    <3> QED  BY <2>5, <3>2, <3>4, <3>6, <3>7 DEF CurrentAt
  <2>6. CASE n # g /\ ~CurrentAt(u, n)
    <3>1. /\ u.rect[n] = t.rect[n] /\ p # g /\ u.rect[p] = t.rect[p]
      BY <1>2, <1>10, <1>11, <2>1, <2>2, <2>3, <2>4, <2>6
    <3>2. p = t.parent[n] /\ n \in InTree(t)
      BY <2>1, <3>1 DEF InTree
    <3>3. t.rect[n] = ChildRect(t, p, n, t.rect[p])
      BY <3>2, PlacedRects DEF CurrentAt
    <3>4. u.left[p] = t.left[p]
      BY <1>3, <2>1, <2>4, <3>1
    <3>5. ChildRect(u, p, n, t.rect[p]) = ChildRect(t, p, n, t.rect[p])
      BY <1>12, <2>1, <2>4, <3>4 DEF ChildRect
    <3> QED  BY <3>1, <3>3, <3>5 DEF CurrentAt
  <2> QED  BY <2>5, <2>6
<1>21. Current(u)
  BY <1>20 DEF Current
<1>22. Framed(u)
  BY <1>10, <1>11 DEF Framed
<1>23. Placed(u)
  BY <1>4, <1>8, <1>19, <1>21, <1>22 DEF Placed
<1> QED  BY <1>12, <1>23 DEF u, c

\* Moving a splitter.
LEMMA FractionPlaced ==
  ASSUME NEW t, Placed(t), NEW c \in Split, c = Root \/ c \in InTree(t), NEW f
  PROVE  LET u == SetFraction(t, c, f)
         IN  /\ Placed(u)
             /\ u.direction = t.direction
             /\ \A k \in Split : u.fraction[k] = IF k = c THEN f ELSE t.fraction[k]
<1> DEFINE v == [t EXCEPT !.fraction[c] = f]
           r == t.rect[c]
           u == SetFraction(t, c, f)
<1>1. WellFormed(t) /\ Framed(t) /\ Shaped(t)
  BY DEF Placed, WellFormed
<1>2. /\ v.left = t.left /\ v.right = t.right /\ v.parent = t.parent
      /\ v.direction = t.direction /\ v.rect = t.rect
      /\ v.fraction = [t.fraction EXCEPT ![c] = f] /\ Shaped(v)
  BY <1>1 DEF Shaped
<1>3. u = SetScreenRect(v, c, r)
  BY DEF SetFraction
<1> HIDE DEF v
<1>4. WellFormed(u)
  BY <1>1, FractionSet
<1> HIDE DEF u
<1>5. Framed(v)
  BY <1>1, <1>2 DEF Framed
<1>6. \A k \in Split : v.fraction[k] = IF k = c THEN f ELSE t.fraction[k]
  BY <1>1, <1>2 DEF Framed
<1>7. Ranked(v)
  BY <1>1, <1>2 DEF WellFormed, Ranked, RankOf
<1>8. IsRect(r) /\ c \in Node /\ IsRect(t.rect[Root]) /\ Len(t.rect[Root]) = 1
  BY PlacedRects, Kinds DEF Placed
<1>9. /\ u.left = v.left /\ u.right = v.right /\ u.parent = v.parent
      /\ u.direction = v.direction /\ u.fraction = v.fraction
  BY <1>2, <1>3, OnlyRects
<1>10. /\ u.rect[c] = r /\ Framed(u)
       /\ \A n \in Node \ {c} : Hangs(v, n) =>
            \/ CurrentAt(u, n)
            \/ /\ u.rect[n] = v.rect[n] /\ v.parent[n] # c
               /\ u.rect[v.parent[n]] = v.rect[v.parent[n]]
       /\ v.parent[c] # NULL => u.rect[v.parent[c]] = v.rect[v.parent[c]]
       /\ c # Root /\ v.parent[Root] = NULL => u.rect[Root] = v.rect[Root]
  <2> HIDE DEF r
  <2> QED  BY <1>2, <1>3, <1>5, <1>7, <1>8, Relaid
<1>11. u.rect[Root] = t.rect[Root]
  BY <1>1, <1>2, <1>10 DEF WellFormed, Linked
<1>12. t.parent[c] # c
  <2>1. PICK rank : RankOf(t, rank)
    BY <1>1 DEF WellFormed, Ranked
  <2>2. rank[c] \in Nat /\ (t.parent[c] # NULL => rank[t.parent[c]] < rank[c])
    BY <1>8, <2>1 DEF RankOf
  <2> QED  BY <2>2, Kinds
<1>13. ASSUME NEW n \in Node, Hangs(u, n)
       PROVE  CurrentAt(u, n)
  <2> DEFINE p == u.parent[n]
  <2>1. /\ Hangs(v, n) /\ Hangs(t, n) /\ p = t.parent[n] /\ p # NULL
        /\ n \in InTree(t) /\ p \in Split
    BY <1>1, <1>2, <1>9, <1>13 DEF Hangs, ChildrenOf, InTree, Shaped
  <2>2. t.rect[n] = ChildRect(t, p, n, t.rect[p])
    BY <2>1, PlacedRects DEF CurrentAt
  <2>3. CASE ~CurrentAt(u, n)
    <3>1. u.rect[n] = t.rect[n] /\ p # c /\ u.rect[p] = t.rect[p]
      <4>1. CASE n = c
        BY <1>2, <1>9, <1>10, <1>12, <2>1, <4>1
      <4>2. CASE n # c
        BY <1>2, <1>9, <1>10, <2>1, <2>3, <4>2
      <4> QED  BY <4>1, <4>2
    <3>2. ChildRect(u, p, n, t.rect[p]) = ChildRect(t, p, n, t.rect[p])
      BY <1>2, <1>6, <1>9, <2>1, <3>1 DEF ChildRect
    <3> QED  BY <2>2, <3>1, <3>2 DEF CurrentAt
  <2> QED  BY <2>3
<1>14. Current(u)
  BY <1>13 DEF Current
<1>15. Placed(u)
  BY <1>4, <1>8, <1>10, <1>11, <1>14 DEF Placed
<1>16. u.direction = t.direction
       /\ \A k \in Split : u.fraction[k] = IF k = c THEN f ELSE t.fraction[k]
  BY <1>2, <1>6, <1>9
<1> QED  BY <1>15, <1>16 DEF u

\* Nor does SetFraction.
LEMMA FractionFramed ==
  ASSUME NEW t, WellFormed(t), Framed(t), NEW c \in Node, NEW f, NEW Z,
         RectsIn(t, Z)
  PROVE  LET u == SetFraction(t, c, f)
         IN  Framed(u) /\ RectsIn(u, Z)
<1> DEFINE v == [t EXCEPT !.fraction[c] = f]
<1>1. /\ v.left = t.left /\ v.right = t.right /\ v.parent = t.parent
      /\ v.rect = t.rect /\ v.fraction = [t.fraction EXCEPT ![c] = f]
      /\ Shaped(v)
  BY DEF WellFormed, Shaped
<1>2. SetFraction(t, c, f) = SetScreenRect(v, c, t.rect[c])
  BY DEF SetFraction
<1> HIDE DEF v
<1>3. Framed(v)
  BY <1>1 DEF Framed
<1>4. Ranked(v)
  BY <1>1 DEF WellFormed, Ranked, RankOf
<1>5. RectsIn(v, Z) /\ RectIn(t.rect[c], Z)
  BY <1>1 DEF RectsIn
<1> QED  BY <1>1, <1>2, <1>3, <1>4, <1>5, RectsStayIn

---------------------------------------------------------------------------
(* Laid out from its root, a tree is placed whatever it was before. *)

\* On the way up from a node of the tree there are containers of the tree, and
\* then the root.
LEMMA Upwards ==
  ASSUME NEW t, WellFormed(t), NEW n \in InTree(t)
  PROVE  /\ n \in Node /\ n # Root /\ t.parent[n] \in Split
         /\ Hangs(t, n)
         /\ t.left[t.parent[n]] = n \/ t.right[t.parent[n]] = n
         /\ t.parent[n] # Root =>
              t.parent[n] \in InTree(t) /\ t.parent[n] \in Alive(t)
<1> DEFINE c == t.parent[n]
<1>1. n \in Node /\ c # NULL
  BY DEF InTree
<1>2. c \in Split /\ n # Root
  BY <1>1 DEF WellFormed, Shaped, Linked
<1>3. t.left[c] = n \/ t.right[c] = n
  BY <1>1 DEF WellFormed, Linked
<1>4. Hangs(t, n)
  BY <1>1, <1>3, Kinds DEF Hangs, ChildrenOf
<1>5. ASSUME c # Root PROVE c \in InTree(t) /\ c \in Alive(t)
  <2>1. c \in Container /\ n # NULL
    BY <1>1, <1>2, <1>5, Kinds
  <2>2. t.left[c] # NULL
    BY <1>3, <2>1 DEF WellFormed, Linked
  <2>3. t.parent[c] # NULL
    BY <2>1, <2>2 DEF WellFormed, Linked
  <2> QED  BY <2>1, <2>2, <2>3, Kinds DEF InTree, Alive
<1> QED  BY <1>1, <1>2, <1>3, <1>4, <1>5

\* The size of the workspace, as a rectangle.
LEMMA OneLong ==
  ASSUME NEW size
  PROVE  /\ IsRect(<<size>>) /\ Len(<<size>>) = 1 /\ Head(<<size>>) = size
         /\ \A r : IsRect(r) /\ Len(r) = 1 => Tail(r) = <<>>
<1>1. <<size>> \in Seq({size}) /\ <<size>> # <<>>
  OBVIOUS
<1>2. IsRect(<<size>>)
  BY <1>1 DEF IsRect
<1>3. ASSUME NEW r, IsRect(r), Len(r) = 1 PROVE Tail(r) = <<>>
  <2>1. PICK S : r \in Seq(S)
    BY <1>3 DEF IsRect
  <2>2. Tail(r) \in Seq(S) /\ Len(Tail(r)) = 0
    BY <1>3, <2>1, HeadTailProperties, EmptySeq DEF IsRect
  <2> QED  BY <2>2, EmptySeq
<1> QED  BY <1>2, <1>3

\* The first layout, and every resizing of the application window, reaches
\* every node of the tree.
LEMMA RootPlaced ==
  ASSUME NEW t, WellFormed(t), Framed(t), NEW size
  PROVE  LET u == SetScreenRect(t, Root, <<size>>)
         IN  /\ Placed(u)
             /\ u.direction = t.direction /\ u.fraction = t.fraction
<1> DEFINE r == <<size>>
           u == SetScreenRect(t, Root, r)
<1>1. /\ Shaped(t) /\ Ranked(t) /\ t.parent \in [Node -> Split \cup {NULL}]
      /\ t.parent[Root] = NULL
  BY DEF WellFormed, Shaped, Linked
<1>2. /\ WellFormed(u) /\ u.left = t.left /\ u.right = t.right
      /\ u.parent = t.parent /\ u.direction = t.direction
      /\ u.fraction = t.fraction
  BY <1>1, LaidOut, OnlyRects
<1>3. PICK g : IsGiven(t, Root, r, g) /\ u = WithGiven(t, g)
  BY <1>1, ScreenRectGiven
<1>4. u.rect = NewRects(t, g)
  BY <1>1, <1>3 DEF WithGiven, Shaped
<1> HIDE DEF r, u
<1>5. \A n \in Node : u.rect[n] = IF g[n] = <<>> THEN t.rect[n] ELSE g[n]
  BY <1>4 DEF NewRects
<1>6. \A n \in Node : g[n] = Handed(t, Root, r, g, n)
  BY <1>3 DEF IsGiven
<1>7. IsRect(r) /\ Len(r) = 1 /\ Head(r) = size
  BY OneLong DEF r
<1>8. g[Root] = r /\ u.rect[Root] = r
  BY <1>5, <1>6, <1>7, Kinds DEF Handed, IsRect
<1>9. \A n \in Node : RectIn(g[n], {size})
  BY <1>1, <1>3, <1>7, GivenRects DEF RectIn
<1>10. ASSUME NEW n \in InTree(t)
       PROVE  g[n] = IF g[t.parent[n]] = <<>> THEN <<>>
                     ELSE ChildRect(t, t.parent[n], n, g[t.parent[n]])
  BY <1>6, Upwards DEF Handed, Hangs
<1>11. PICK rank : RankOf(t, rank)
  BY <1>1 DEF Ranked
<1>12. /\ rank \in [Node -> Nat]
       /\ \A n \in Node : t.parent[n] # NULL => rank[t.parent[n]] < rank[n]
  BY <1>11 DEF RankOf
<1> DEFINE Bad == {n \in InTree(t) : g[n] = <<>>}
<1>13. Bad = {}
  <2> SUFFICES ASSUME Bad # {} PROVE FALSE
    OBVIOUS
  <2>1. Bad \subseteq Node
    BY DEF InTree
  <2>2. PICK n \in Bad : \A m \in Bad : ~(rank[m] < rank[n])
    BY <1>12, <2>1, LeastRank
  <2>3. n \in InTree(t) /\ g[n] = <<>>
    BY <2>2
  <2> DEFINE c == t.parent[n]
  <2>4. n \in Node /\ c # NULL /\ c \in Node /\ (c # Root => c \in InTree(t))
    BY <2>3, Upwards, Kinds DEF Hangs
  <2>5. g[c] = <<>>
    <3> SUFFICES ASSUME g[c] # <<>> PROVE FALSE
      OBVIOUS
    <3>1. IsRect(g[c]) /\ Head(g[c]) \in {size}
      BY <1>9, <2>4 DEF RectIn
    <3>2. ChildRect(t, c, n, g[c]) # <<>>
      BY <3>1, ChildRectIn
    <3> QED  BY <1>10, <2>3, <3>2
  <2>6. c \in Bad
    BY <1>7, <1>8, <2>4, <2>5 DEF IsRect
  <2> QED  BY <1>12, <2>2, <2>4, <2>6
<1>14. ASSUME NEW n \in Node, Hangs(u, n)
       PROVE  CurrentAt(u, n)
  <2> DEFINE c == t.parent[n]
  <2>1. n \in InTree(t)
    BY <1>2, <1>14 DEF Hangs, InTree
  <2>2. c \in Node /\ (c # Root => c \in InTree(t)) /\ g[n] # <<>>
    BY <1>13, <2>1, Upwards, Kinds
  <2>3. g[c] # <<>>
    BY <1>7, <1>8, <1>13, <2>2 DEF IsRect
  <2>4. u.rect[n] = ChildRect(t, c, n, u.rect[c])
    BY <1>5, <1>10, <2>1, <2>2, <2>3
  <2> QED  BY <1>2, <2>4 DEF CurrentAt, ChildRect
<1>15. Framed(u)
  <2>1. u.fraction = [k \in Split |-> u.fraction[k]]
    BY <1>2 DEF Framed
  <2>2. u.rect = [n \in Node |-> u.rect[n]]
    BY <1>4 DEF NewRects
  <2> QED  BY <2>1, <2>2 DEF Framed
<1>16. Placed(u)
  BY <1>2, <1>7, <1>8, <1>14, <1>15 DEF Placed, Current
<1> QED  BY <1>2, <1>16 DEF u, r

---------------------------------------------------------------------------
(* Places: where a node lies in the workspace, whatever its size. *)

\* The ways down to the nodes D of t are like the ways down in u; phi is where
\* each node is found in u.
Alike(t, u, D, phi) ==
  \A n \in D :
    /\ phi[n] \in InTree(u)
    /\ t.parent[n] = Root => u.parent[phi[n]] = Root
    /\ t.parent[n] # Root =>
         /\ t.parent[n] \in D
         /\ u.parent[phi[n]] = phi[t.parent[n]]
         /\ u.direction[phi[t.parent[n]]] = t.direction[t.parent[n]]
         /\ u.fraction[phi[t.parent[n]]] = t.fraction[t.parent[n]]
         /\ u.left[phi[t.parent[n]]] = phi[n] <=> t.left[t.parent[n]] = n

\* Nodes lie in the same places when the ways down to them are alike.
LEMMA SamePlaces ==
  ASSUME NEW t, NEW u, Placed(t), Placed(u), NEW D \in SUBSET InTree(t),
         NEW phi, Alike(t, u, D, phi)
  PROVE  \A n \in D : Tail(u.rect[phi[n]]) = Tail(t.rect[n])
<1>1. WellFormed(t) /\ WellFormed(u)
  BY DEF Placed
<1>2. PICK rank : RankOf(t, rank)
  BY <1>1 DEF WellFormed, Ranked
<1>3. /\ rank \in [Node -> Nat]
      /\ \A n \in Node : t.parent[n] # NULL => rank[t.parent[n]] < rank[n]
  BY <1>2 DEF RankOf
<1> DEFINE Bad == {n \in D : Tail(u.rect[phi[n]]) # Tail(t.rect[n])}
<1> SUFFICES ASSUME Bad # {} PROVE FALSE
  OBVIOUS
<1>4. Bad \subseteq Node
  BY DEF InTree
<1>5. PICK n \in Bad : \A m \in Bad : ~(rank[m] < rank[n])
  BY <1>3, <1>4, LeastRank
<1> DEFINE c == t.parent[n]
           m == phi[n]
<1>6. n \in D /\ n \in InTree(t) /\ Tail(u.rect[m]) # Tail(t.rect[n])
  BY <1>5
<1>7. /\ m \in InTree(u)
      /\ c = Root => u.parent[m] = Root
      /\ c # Root =>
           /\ c \in D
           /\ u.parent[m] = phi[c]
           /\ u.direction[phi[c]] = t.direction[c]
           /\ u.fraction[phi[c]] = t.fraction[c]
           /\ u.left[phi[c]] = m <=> t.left[c] = n
  BY <1>6 DEF Alike
<1> HIDE DEF Bad, m
<1>8. /\ t.rect[n] = ChildRect(t, c, n, t.rect[c])
      /\ u.rect[m] = ChildRect(u, u.parent[m], m, u.rect[u.parent[m]])
  BY <1>6, <1>7, PlacedRects DEF CurrentAt
<1>9. c # Root
  <2> SUFFICES ASSUME c = Root PROVE FALSE
    OBVIOUS
  <2>1. t.rect[n] = t.rect[Root] /\ u.rect[m] = u.rect[Root]
    BY <1>7, <1>8 DEF ChildRect
  <2>2. Tail(t.rect[Root]) = <<>> /\ Tail(u.rect[Root]) = <<>>
    BY OneLong DEF Placed
  <2> QED  BY <1>6, <2>1, <2>2
<1>10. c \in InTree(t) /\ phi[c] \in InTree(u) /\ c \in D
  <2>1. c \in D
    BY <1>7, <1>9
  <2> QED  BY <2>1 DEF Alike
<1>11. phi[c] # Root
  BY <1>1, <1>10, Upwards
<1>12. Tail(u.rect[phi[c]]) = Tail(t.rect[c])
  <2>1. rank[c] < rank[n]
    BY <1>3, <1>6 DEF InTree
  <2>2. c \notin Bad
    BY <1>5, <2>1
  <2> QED  BY <1>10, <2>2 DEF Bad
<1> DEFINE x == <<t.direction[c], t.fraction[c],
                  IF t.left[c] = n THEN "first" ELSE "second">>
<1>13. t.rect[n] = Append(t.rect[c], x)
  BY <1>8, <1>9 DEF ChildRect
<1>14. u.rect[m] = Append(u.rect[phi[c]], x)
  <2> DEFINE y == <<u.direction[phi[c]], u.fraction[phi[c]],
                    IF u.left[phi[c]] = m THEN "first" ELSE "second">>
  <2>1. u.rect[m] = Append(u.rect[phi[c]], y)
    BY <1>7, <1>8, <1>9, <1>11 DEF ChildRect
  <2>2. y = x
    <3>1. /\ u.direction[phi[c]] = t.direction[c]
          /\ u.fraction[phi[c]] = t.fraction[c]
          /\ u.left[phi[c]] = m <=> t.left[c] = n
      BY <1>7, <1>9
    <3>2. (IF u.left[phi[c]] = m THEN "first" ELSE "second") =
            (IF t.left[c] = n THEN "first" ELSE "second")
      BY <3>1
    <3> QED  BY <3>1, <3>2
  <2> QED  BY <2>1, <2>2
<1>15. IsRect(t.rect[c]) /\ IsRect(u.rect[phi[c]])
  BY <1>10, PlacedRects
<1> HIDE DEF x, c
<1>16. /\ Tail(t.rect[n]) = Append(Tail(t.rect[c]), x)
       /\ Tail(u.rect[m]) = Append(Tail(u.rect[phi[c]]), x)
  <2>1. Tail(Append(t.rect[c], x)) = Append(Tail(t.rect[c]), x)
    BY <1>15, AppendRect
  <2>2. Tail(Append(u.rect[phi[c]], x)) = Append(Tail(u.rect[phi[c]]), x)
    BY <1>15, AppendRect
  <2> QED  BY <1>13, <1>14, <2>1, <2>2
<1> QED  BY <1>6, <1>12, <1>16

\* Two trees with the same pointers, and the same directions and fractions at
\* the containers that exist.
Twin(t, u) ==
  /\ u.left = t.left /\ u.right = t.right /\ u.parent = t.parent
  /\ \A k \in Alive(t) :
       u.direction[k] = t.direction[k] /\ u.fraction[k] = t.fraction[k]

\* In twins every node lies in the same place.
LEMMA TwinLayout ==
  ASSUME NEW t, NEW u, Placed(t), Placed(u), Twin(t, u)
  PROVE  /\ Layout(u) = Layout(t)
         /\ InTree(u) = InTree(t)
         /\ \A n \in InTree(t) : Tail(u.rect[n]) = Tail(t.rect[n])
<1> DEFINE D   == InTree(t)
           phi == [n \in Node |-> n]
<1>1. WellFormed(t) /\ InTree(u) = InTree(t) /\ DockTargets(u) = DockTargets(t)
  BY DEF Placed, Twin, InTree, DockTargets
<1>2. \A n \in Node : phi[n] = n
  OBVIOUS
<1> HIDE DEF phi
<1>3. Alike(t, u, D, phi)
  <2>1. \A n \in D :
          /\ n \in Node
          /\ t.parent[n] # Root =>
               /\ t.parent[n] \in InTree(t) /\ t.parent[n] \in Alive(t)
               /\ t.parent[n] \in Node
    BY <1>1, Upwards, Kinds
  <2> QED  BY <1>1, <1>2, <2>1 DEF Twin, Alike
<1>4. \A n \in D : Tail(u.rect[phi[n]]) = Tail(t.rect[n])
  BY <1>3, SamePlaces
<1>5. \A n \in InTree(t) : Tail(u.rect[n]) = Tail(t.rect[n])
  BY <1>2, <1>4 DEF InTree
<1>6. Layout(u) = Layout(t)
  BY <1>1, <1>5 DEF Layout, DockTargets
<1> QED  BY <1>1, <1>5, <1>6

---------------------------------------------------------------------------
(* Trees that are twins are twins after the same operation. *)

\* Twins have the same nodes, and their next container is the same.
LEMMA TwinFacts ==
  ASSUME NEW t, NEW u, WellFormed(t), Shaped(u), Twin(t, u)
  PROVE  /\ WellFormed(u)
         /\ InTree(u) = InTree(t) /\ Alive(u) = Alive(t)
         /\ Fresh(u) = Fresh(t) /\ Unused(u) = Unused(t)
         /\ \A n \in Node : SiblingOf(u, n) = SiblingOf(t, n)
<1>1. u.left = t.left /\ u.right = t.right /\ u.parent = t.parent
  BY DEF Twin
<1>2. /\ WellFormed(u) /\ InTree(u) = InTree(t) /\ Alive(u) = Alive(t)
  BY <1>1, SameLinks
<1>3. Unused(u) = Unused(t)
  BY <1>2 DEF Unused
<1>4. Fresh(u) = Fresh(t)
  BY <1>3 DEF Fresh
<1>5. \A n \in Node : SiblingOf(u, n) = SiblingOf(t, n)
  BY <1>1 DEF SiblingOf
<1> QED  BY <1>2, <1>3, <1>4, <1>5

\* Functions that agree everywhere are the same.
LEMMA SamePointers ==
  ASSUME NEW t, NEW u, Shaped(t), Shaped(u),
         \A k \in Split : u.left[k] = t.left[k],
         \A k \in Split : u.right[k] = t.right[k],
         \A n \in Node : u.parent[n] = t.parent[n]
  PROVE  u.left = t.left /\ u.right = t.right /\ u.parent = t.parent
BY DEF Shaped

\* The same window is taken out of twins.
LEMMA TwinRelease ==
  ASSUME NEW t, NEW u, Placed(t), Placed(u), Twin(t, u),
         NEW w \in Leaf, w \in InTree(t), t.parent[w] \in Container
  PROVE  Twin(ReleaseChild(t, w), ReleaseChild(u, w))
<1> DEFINE c  == t.parent[w]
           g  == t.parent[c]
           s  == SiblingOf(t, w)
           t1 == ReleaseChild(t, w)
           u1 == ReleaseChild(u, w)
<1>1. WellFormed(t) /\ WellFormed(u) /\ w \in Node
  BY Kinds DEF Placed
<1>2. /\ w \in InTree(u) /\ u.parent[w] = c /\ u.parent[c] = g
      /\ SiblingOf(u, w) = s /\ u.left = t.left /\ u.right = t.right
      /\ u.parent = t.parent
  BY <1>1, TwinFacts DEF Twin, WellFormed
<1>3. /\ Shaped(t1) /\ g \in Split /\ g # c
      /\ \A k \in Split : t1.left[k] =
           IF k = c THEN NULL
           ELSE IF k = g /\ t.left[g] = c THEN s ELSE t.left[k]
      /\ \A k \in Split : t1.right[k] =
           IF k = c THEN NULL
           ELSE IF k = g /\ t.left[g] # c THEN s ELSE t.right[k]
      /\ \A n \in Node : t1.parent[n] =
           IF n = w \/ n = c THEN NULL ELSE IF n = s THEN g
           ELSE t.parent[n]
  BY <1>1, ReleasePointers
<1> DEFINE c2 == u.parent[w]
           g2 == u.parent[c2]
           s2 == SiblingOf(u, w)
<1>4. /\ Shaped(u1)
      /\ \A k \in Split : u1.left[k] =
           IF k = c2 THEN NULL
           ELSE IF k = g2 /\ u.left[g2] = c2 THEN s2 ELSE u.left[k]
      /\ \A k \in Split : u1.right[k] =
           IF k = c2 THEN NULL
           ELSE IF k = g2 /\ u.left[g2] # c2 THEN s2 ELSE u.right[k]
      /\ \A n \in Node : u1.parent[n] =
           IF n = w \/ n = c2 THEN NULL ELSE IF n = s2 THEN g2
           ELSE u.parent[n]
  <2>1. u.parent[w] \in Container
    BY <1>2
  <2> QED  BY <1>1, <1>2, <2>1, ReleasePointers
<1>5. c2 = c /\ g2 = g /\ s2 = s
  BY <1>2
<1>6. /\ \A k \in Split : t1.direction[k] =
           IF k = c THEN "vertical" ELSE t.direction[k]
      /\ \A k \in Split : t1.fraction[k] =
           IF k = c THEN Half ELSE t.fraction[k]
  BY ReleasePlaced
<1>7. /\ \A k \in Split : u1.direction[k] =
           IF k = c2 THEN "vertical" ELSE u.direction[k]
      /\ \A k \in Split : u1.fraction[k] =
           IF k = c2 THEN Half ELSE u.fraction[k]
  <2>1. u.parent[w] \in Container
    BY <1>2
  <2> QED  BY <1>2, <2>1, ReleasePlaced
<1> HIDE DEF t1, u1, c, g, s, c2, g2, s2
<1>8. u1.left = t1.left /\ u1.right = t1.right /\ u1.parent = t1.parent
  <2>1. \A k \in Split : u1.left[k] = t1.left[k]
    BY <1>2, <1>3, <1>4, <1>5
  <2>2. \A k \in Split : u1.right[k] = t1.right[k]
    BY <1>2, <1>3, <1>4, <1>5
  <2>3. \A n \in Node : u1.parent[n] = t1.parent[n]
    BY <1>2, <1>3, <1>4, <1>5
  <2> QED  BY <1>3, <1>4, <2>1, <2>2, <2>3, SamePointers
<1>9. ASSUME NEW k \in Alive(t1)
      PROVE  u1.direction[k] = t1.direction[k] /\ u1.fraction[k] = t1.fraction[k]
  <2>1. k \in Container /\ t1.left[k] # NULL /\ k \in Split
    BY Kinds DEF Alive
  <2>2. k # c
    BY <1>3, <2>1
  <2>3. k \in Alive(t)
    <3>1. t.left[k] # NULL
      <4>1. CASE k = g /\ t.left[g] = c
        BY <2>1, <4>1, Kinds DEF c
      <4>2. CASE ~(k = g /\ t.left[g] = c)
        BY <1>3, <2>1, <2>2, <4>2
      <4> QED  BY <4>1, <4>2
    <3> QED  BY <2>1, <3>1 DEF Alive
  <2>4. u.direction[k] = t.direction[k] /\ u.fraction[k] = t.fraction[k]
    BY <2>3 DEF Twin
  <2> QED  BY <1>5, <1>6, <1>7, <2>1, <2>2, <2>4
<1> QED  BY <1>8, <1>9 DEF Twin, t1, u1

\* SplitPointers for names given to what it is about.
LEMMA NamedSplit ==
  ASSUME NEW t, WellFormed(t), Unused(t) # {}, NEW x \in InTree(t),
         NEW w \in Leaf, w \notin InTree(t), NEW d \in Direction,
         NEW first, NEW second,
         \/ first = x /\ second = w
         \/ first = w /\ second = x,
         NEW c, c = t.parent[x], NEW new, new = Fresh(t),
         NEW t1, t1 = SplitChild(t, c, d, first, second)
  PROVE  /\ Shaped(t1)
         /\ new \in Container /\ t.left[new] = NULL
         /\ \A k \in Split : t1.left[k] =
              IF k = new THEN first
              ELSE IF k = c /\ t.left[c] = x THEN new ELSE t.left[k]
         /\ \A k \in Split : t1.right[k] =
              IF k = new THEN second
              ELSE IF k = c /\ t.left[c] # x THEN new ELSE t.right[k]
         /\ \A n \in Node : t1.parent[n] =
              IF n = x \/ n = w THEN new ELSE IF n = new THEN c
              ELSE t.parent[n]
BY SMTT(60), SplitPointers

\* The same window is docked at the same place of twins.
LEMMA TwinSplit ==
  ASSUME NEW t, NEW u, Placed(t), Placed(u), Twin(t, u), Unused(t) # {},
         NEW x \in InTree(t), NEW w \in Leaf, w \notin InTree(t),
         NEW d \in Direction, NEW first, NEW second,
         \/ first = x /\ second = w
         \/ first = w /\ second = x
  PROVE  Twin(SplitChild(t, t.parent[x], d, first, second),
              SplitChild(u, u.parent[x], d, first, second))
<1> DEFINE c   == t.parent[x]
           new == Fresh(t)
           t1  == SplitChild(t, t.parent[x], d, first, second)
           u1  == SplitChild(u, u.parent[x], d, first, second)
<1>1. WellFormed(t) /\ WellFormed(u) /\ x \in Node
  BY DEF Placed, InTree
<1>2. /\ x \in InTree(u) /\ w \notin InTree(u) /\ Unused(u) # {}
      /\ u.left = t.left /\ u.right = t.right /\ u.parent = t.parent
      /\ Fresh(u) = new
  BY <1>1, TwinFacts DEF Twin, WellFormed
<1>3. /\ Shaped(t1)
      /\ new \in Container /\ t.left[new] = NULL
      /\ \A k \in Split : t1.left[k] =
           IF k = new THEN first
           ELSE IF k = c /\ t.left[c] = x THEN new ELSE t.left[k]
      /\ \A k \in Split : t1.right[k] =
           IF k = new THEN second
           ELSE IF k = c /\ t.left[c] # x THEN new ELSE t.right[k]
      /\ \A n \in Node : t1.parent[n] =
           IF n = x \/ n = w THEN new ELSE IF n = new THEN c
           ELSE t.parent[n]
  <2>1. \/ first = x /\ second = w
        \/ first = w /\ second = x
    OBVIOUS
  <2>2. Unused(t) # {} /\ x \in InTree(t) /\ w \notin InTree(t)
    OBVIOUS
  <2>3. c = t.parent[x] /\ new = Fresh(t) /\ t1 = SplitChild(t, c, d, first, second)
    OBVIOUS
  <2> HIDE DEF c, new, t1
  <2> QED  BY <1>1, <2>1, <2>2, <2>3, NamedSplit
<1> DEFINE c2   == u.parent[x]
           new2 == Fresh(u)
<1>4. /\ Shaped(u1)
      /\ \A k \in Split : u1.left[k] =
           IF k = new2 THEN first
           ELSE IF k = c2 /\ u.left[c2] = x THEN new2 ELSE u.left[k]
      /\ \A k \in Split : u1.right[k] =
           IF k = new2 THEN second
           ELSE IF k = c2 /\ u.left[c2] # x THEN new2 ELSE u.right[k]
      /\ \A n \in Node : u1.parent[n] =
           IF n = x \/ n = w THEN new2 ELSE IF n = new2 THEN c2
           ELSE u.parent[n]
  BY SMTT(60), <1>1, <1>2, SplitPointers
<1>5. c2 = c /\ new2 = new
  BY <1>2
<1>6. /\ \A k \in Split : t1.direction[k] =
           IF k = new THEN d ELSE t.direction[k]
      /\ \A k \in Split : t1.fraction[k] =
           IF k = new THEN Half ELSE t.fraction[k]
  BY SplitPlaced
<1>7. /\ \A k \in Split : u1.direction[k] =
           IF k = new2 THEN d ELSE u.direction[k]
      /\ \A k \in Split : u1.fraction[k] =
           IF k = new2 THEN Half ELSE u.fraction[k]
  BY <1>2, SplitPlaced
<1> HIDE DEF t1, u1, c, new, c2, new2
<1>8. u1.left = t1.left /\ u1.right = t1.right /\ u1.parent = t1.parent
  <2>1. \A k \in Split : u1.left[k] = t1.left[k]
    BY <1>2, <1>3, <1>4, <1>5
  <2>2. \A k \in Split : u1.right[k] = t1.right[k]
    BY <1>2, <1>3, <1>4, <1>5
  <2>3. \A n \in Node : u1.parent[n] = t1.parent[n]
    BY <1>2, <1>3, <1>4, <1>5
  <2> QED  BY <1>3, <1>4, <2>1, <2>2, <2>3, SamePointers
<1>9. ASSUME NEW k \in Alive(t1)
      PROVE  u1.direction[k] = t1.direction[k] /\ u1.fraction[k] = t1.fraction[k]
  <2>1. k \in Container /\ t1.left[k] # NULL /\ k \in Split
    BY Kinds DEF Alive
  <2>2. CASE k = new
    BY <1>5, <1>6, <1>7, <2>1, <2>2
  <2>3. CASE k # new
    <3>1. t.left[k] # NULL
      <4>1. CASE k = c /\ t.left[c] = x
        BY <1>1, <4>1, Kinds
      <4>2. CASE ~(k = c /\ t.left[c] = x)
        BY <1>3, <2>1, <2>3, <4>2
      <4> QED  BY <4>1, <4>2
    <3>2. u.direction[k] = t.direction[k] /\ u.fraction[k] = t.fraction[k]
      BY <2>1, <3>1 DEF Twin, Alive
    <3> QED  BY <1>5, <1>6, <1>7, <2>1, <2>3, <3>2
  <2> QED  BY <2>2, <2>3
<1> QED  BY <1>8, <1>9 DEF Twin, t1, u1

\* The same fraction is set in twins.
LEMMA TwinFraction ==
  ASSUME NEW t, NEW u, Placed(t), Placed(u), Twin(t, u),
         NEW c \in Split, c \in InTree(t), NEW f
  PROVE  Twin(SetFraction(t, c, f), SetFraction(u, c, f))
<1> DEFINE t1 == SetFraction(t, c, f)
           u1 == SetFraction(u, c, f)
<1>1. WellFormed(t) /\ WellFormed(u) /\ c \in InTree(u)
  BY DEF Placed, Twin, InTree
<1>2. /\ t1.left = t.left /\ t1.right = t.right /\ t1.parent = t.parent
      /\ Alive(t1) = Alive(t)
  BY <1>1, FractionSet
<1>3. u1.left = u.left /\ u1.right = u.right /\ u1.parent = u.parent
  BY <1>1, FractionSet
<1>4. /\ t1.direction = t.direction
      /\ \A k \in Split : t1.fraction[k] = IF k = c THEN f ELSE t.fraction[k]
  BY FractionPlaced
<1>5. /\ u1.direction = u.direction
      /\ \A k \in Split : u1.fraction[k] = IF k = c THEN f ELSE u.fraction[k]
  BY <1>1, FractionPlaced
<1> HIDE DEF t1, u1
<1>6. \A k \in Alive(t) : k \in Split
  BY Kinds DEF Alive
<1>7. Twin(t1, u1)
  BY <1>2, <1>3, <1>4, <1>5, <1>6 DEF Twin
<1> QED  BY <1>7 DEF t1, u1

---------------------------------------------------------------------------
(* Docking a window and taking it out again *)

\* A window that is taken out again leaves the tree as it was before it was
\* docked.
LEMMA InAndOut ==
  ASSUME NEW t, Placed(t), Unused(t) # {}, NEW x \in InTree(t),
         NEW w \in Leaf, w \notin InTree(t), NEW d \in Direction,
         NEW first, NEW second,
         \/ first = x /\ second = w
         \/ first = w /\ second = x
  PROVE  LET u == SplitChild(t, t.parent[x], d, first, second)
             v == ReleaseChild(u, w)
         IN  Placed(v) /\ Twin(t, v)
<1> DEFINE c   == t.parent[x]
           new == Fresh(t)
           u   == SplitChild(t, t.parent[x], d, first, second)
           v   == ReleaseChild(u, w)
<1>1. WellFormed(t) /\ x \in Node /\ w \in Node /\ x # w /\ c # NULL
      /\ t.parent[w] = NULL /\ c \in Split
  BY Upwards, Kinds DEF Placed, InTree
<1>2. /\ Shaped(u)
      /\ new \in Container /\ t.left[new] = NULL
      /\ \A k \in Split : u.left[k] =
           IF k = new THEN first
           ELSE IF k = c /\ t.left[c] = x THEN new ELSE t.left[k]
      /\ \A k \in Split : u.right[k] =
           IF k = new THEN second
           ELSE IF k = c /\ t.left[c] # x THEN new ELSE t.right[k]
      /\ \A n \in Node : u.parent[n] =
           IF n = x \/ n = w THEN new ELSE IF n = new THEN c
           ELSE t.parent[n]
  BY SMTT(60), <1>1, SplitPointers
<1>3. /\ Placed(u)
      /\ \A k \in Split : u.direction[k] =
           IF k = new THEN d ELSE t.direction[k]
      /\ \A k \in Split : u.fraction[k] =
           IF k = new THEN Half ELSE t.fraction[k]
  <2>1. \/ first = x /\ second = w
        \/ first = w /\ second = x
    OBVIOUS
  <2>2. Unused(t) # {} /\ x \in InTree(t) /\ w \notin InTree(t)
    OBVIOUS
  <2> QED  BY SMTT(60), <2>1, <2>2, SplitPlaced
<1>4. w \in InTree(u) /\ u.parent[w] = new
  <2>1. \/ first = x /\ second = w
        \/ first = w /\ second = x
    OBVIOUS
  <2>2. Unused(t) # {} /\ x \in InTree(t) /\ w \notin InTree(t)
    OBVIOUS
  <2> QED  BY SMTT(60), <1>1, <2>1, <2>2, SplitWellFormed
<1> HIDE DEF u, new
<1>5. /\ Placed(v)
      /\ \A k \in Split : v.direction[k] =
           IF k = new THEN "vertical" ELSE u.direction[k]
      /\ \A k \in Split : v.fraction[k] =
           IF k = new THEN Half ELSE u.fraction[k]
  BY <1>2, <1>3, <1>4, ReleasePlaced
<1> DEFINE g == u.parent[new]
           s == SiblingOf(u, w)
<1>6. /\ Shaped(v)
      /\ \A k \in Split : v.left[k] =
           IF k = new THEN NULL
           ELSE IF k = g /\ u.left[g] = new THEN s ELSE u.left[k]
      /\ \A k \in Split : v.right[k] =
           IF k = new THEN NULL
           ELSE IF k = g /\ u.left[g] # new THEN s ELSE u.right[k]
      /\ \A n \in Node : v.parent[n] =
           IF n = w \/ n = new THEN NULL ELSE IF n = s THEN g
           ELSE u.parent[n]
  <2>1. WellFormed(u)
    BY <1>3 DEF Placed
  <2> QED  BY <1>2, <1>4, <2>1, ReleasePointers
<1> HIDE DEF v, c
<1>7. /\ t.right[new] = NULL /\ t.parent[new] = NULL
      /\ \A k \in Split : t.left[k] # new /\ t.right[k] # new
      /\ t.left[c] = x \/ t.right[c] = x
  BY <1>1, <1>2, Kinds DEF WellFormed, Linked, c
<1>8. new \in Split /\ new \in Node /\ new # x /\ new # w /\ new # c
  BY <1>1, <1>2, <1>7, Kinds DEF InTree
<1>9. g = c
  BY <1>2, <1>8
<1>10. s = x
  <2>1. u.left[new] = first /\ u.right[new] = second
    BY <1>2, <1>8
  <2>2. s = IF u.left[new] = w THEN u.right[new] ELSE u.left[new]
    BY <1>4 DEF SiblingOf
  <2> QED  BY <1>1, <2>1, <2>2
<1> HIDE DEF g, s
<1>11. \A k \in Split : v.left[k] = t.left[k]
  BY <1>2, <1>6, <1>7, <1>8, <1>9, <1>10
<1>12. \A k \in Split : v.right[k] = t.right[k]
  BY <1>2, <1>6, <1>7, <1>8, <1>9, <1>10
<1>13. \A n \in Node : v.parent[n] = t.parent[n]
  BY <1>1, <1>2, <1>6, <1>7, <1>8, <1>9, <1>10 DEF c
<1>14. v.left = t.left /\ v.right = t.right /\ v.parent = t.parent
  BY <1>1, <1>6, <1>11, <1>12, <1>13, SamePointers DEF WellFormed
<1>15. ASSUME NEW k \in Alive(t)
       PROVE  v.direction[k] = t.direction[k] /\ v.fraction[k] = t.fraction[k]
  <2>1. k \in Split /\ k # new
    BY <1>2, Kinds DEF Alive
  <2> QED  BY <1>3, <1>5, <2>1
<1> QED  BY <1>5, <1>14, <1>15 DEF Twin, u, v

\* Docking at a window moves no other window.
LEMMA SplitMovesOne ==
  ASSUME NEW t, Placed(t), Unused(t) # {}, NEW x \in InTree(t), x \in Leaf,
         NEW w \in Leaf, w \notin InTree(t), NEW d \in Direction,
         NEW first, NEW second,
         \/ first = x /\ second = w
         \/ first = w /\ second = x
  PROVE  LET u == SplitChild(t, t.parent[x], d, first, second)
         IN  \A n \in InTree(t) \ {x} : Tail(u.rect[n]) = Tail(t.rect[n])
<1> DEFINE c   == t.parent[x]
           new == Fresh(t)
           u   == SplitChild(t, t.parent[x], d, first, second)
           phi == [n \in Node |-> n]
           D   == InTree(t) \ {x}
<1>1. WellFormed(t)
  BY DEF Placed
<1>2. /\ new \in Container /\ t.left[new] = NULL
      /\ \A k \in Split : u.left[k] =
           IF k = new THEN first
           ELSE IF k = c /\ t.left[c] = x THEN new ELSE t.left[k]
      /\ \A n \in Node : u.parent[n] =
           IF n = x \/ n = w THEN new ELSE IF n = new THEN c
           ELSE t.parent[n]
  <2>1. /\ Shaped(u)
        /\ new \in Container /\ t.left[new] = NULL
        /\ \A k \in Split : u.left[k] =
             IF k = new THEN first
             ELSE IF k = c /\ t.left[c] = x THEN new ELSE t.left[k]
        /\ \A k \in Split : u.right[k] =
             IF k = new THEN second
             ELSE IF k = c /\ t.left[c] # x THEN new ELSE t.right[k]
        /\ \A n \in Node : u.parent[n] =
             IF n = x \/ n = w THEN new ELSE IF n = new THEN c
             ELSE t.parent[n]
    BY SMTT(60), <1>1, SplitPointers
  <2> QED  BY <2>1
<1>3. /\ Placed(u)
      /\ \A k \in Split : u.direction[k] =
           IF k = new THEN d ELSE t.direction[k]
      /\ \A k \in Split : u.fraction[k] =
           IF k = new THEN Half ELSE t.fraction[k]
  <2>1. \/ first = x /\ second = w
        \/ first = w /\ second = x
    OBVIOUS
  <2>2. Unused(t) # {} /\ x \in InTree(t) /\ w \notin InTree(t)
    OBVIOUS
  <2> QED  BY <2>1, <2>2, SplitPlaced
<1>4. InTree(u) = InTree(t) \cup {w, new}
  BY <1>1, SplitWellFormed
<1> HIDE DEF u, new
<1>5. \A n \in Node : phi[n] = n
  OBVIOUS
<1> HIDE DEF phi, c
<1>6. t.right[new] = NULL /\ t.parent[new] = NULL
  BY <1>1, <1>2 DEF WellFormed, Linked
<1>7. Alike(t, u, D, phi)
  <2> SUFFICES ASSUME NEW n \in D
               PROVE  /\ phi[n] \in InTree(u)
                      /\ t.parent[n] = Root => u.parent[phi[n]] = Root
                      /\ t.parent[n] # Root =>
                           LET p == t.parent[n] IN
                           /\ p \in D
                           /\ u.parent[phi[n]] = phi[p]
                           /\ u.direction[phi[p]] = t.direction[p]
                           /\ u.fraction[phi[p]] = t.fraction[p]
                           /\ u.left[phi[p]] = phi[n] <=> t.left[p] = n
    BY DEF Alike
  <2> DEFINE p == t.parent[n]
  <2>1. n \in InTree(t) /\ n # x /\ n \in Node /\ n # w /\ n # new
    BY <1>6 DEF InTree
  <2>2. u.parent[n] = p
    BY <1>2, <2>1
  <2>3. ASSUME p # Root
        PROVE  /\ p \in D /\ u.direction[p] = t.direction[p] /\ p \in Node
               /\ u.fraction[p] = t.fraction[p]
               /\ u.left[p] = n <=> t.left[p] = n
    <3>1. p \in InTree(t) /\ p \in Alive(t) /\ p \in Split /\ p \in Node
      BY <1>1, <2>1, <2>3, Upwards, Kinds
    <3>2. p # x /\ p # new
      BY <1>2, <3>1, Kinds DEF Alive
    <3>3. u.left[p] = n <=> t.left[p] = n
      BY <1>2, <2>1, <3>1, <3>2
    <3>4. u.direction[p] = t.direction[p] /\ u.fraction[p] = t.fraction[p]
      BY <1>3, <3>1, <3>2
    <3> QED  BY <3>1, <3>2, <3>3, <3>4
  <2>4. phi[n] = n /\ (p # Root => phi[p] = p)
    BY <1>5, <2>1, <2>3
  <2> HIDE DEF p, D
  <2> QED  BY <1>4, <2>1, <2>2, <2>3, <2>4 DEF p
<1>8. \A n \in D : Tail(u.rect[phi[n]]) = Tail(t.rect[n])
  <2>1. D \in SUBSET InTree(t)
    OBVIOUS
  <2> HIDE DEF D
  <2> QED  BY <1>3, <1>7, <2>1, SamePlaces
<1> QED  BY <1>5, <1>8 DEF u, InTree
=============================================================================
