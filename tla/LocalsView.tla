----------------------------- MODULE LocalsView -----------------------------
(***************************************************************************)
(* LocalsView (sg/locals_view.cc) and the tree widget it is shown with     *)
(* (sg/ui/tree_view_helper.cc), as operations on a view:                   *)
(*   kids   children_:  id -> the ids of its children, in display order    *)
(*   nodes  node_data_: id -> expansion_state and parent_id                *)
(* The texts of a row (expression, value, type) are left out.              *)
(*                                                                         *)
(* An id is a sequence: a local variable "V3" is <<3>>, its fields, which  *)
(* gdb names after it, are <<3, 1>>, <<3, 2>>..., and the invisible root   *)
(* "" is <<>>.                                                             *)
(***************************************************************************)
EXTENDS Naturals, Sequences, SequencesExt

Root == <<>>

ExpansionStates == {"NotExpandable", "Collapsed", "Expanded"}

EmptyView == [kids |-> [id \in {} |-> <<>>],
              nodes |-> [id \in {} |-> [state |-> "NotExpandable", parent |-> Root]]]

\* children_[id] and node_data_[id]: operator[] of a missing key is a default
\* value.
Kids(view, id) == IF id \in DOMAIN view.kids THEN view.kids[id] ELSE <<>>

Node(view, id) == IF id \in DOMAIN view.nodes THEN view.nodes[id]
                  ELSE [state |-> "NotExpandable", parent |-> Root]

Put(f, key, value) == [k \in DOMAIN f \cup {key} |-> IF k = key THEN value ELSE f[k]]
Drop(f, key)       == [k \in DOMAIN f \ {key} |-> f[k]]

\* AddChild for each of the children.
AddChildren(view, parent, children) ==
  IF children = <<>> THEN view
  ELSE [kids  |-> Put(view.kids, parent, Kids(view, parent) \o children),
        nodes |-> [id \in DOMAIN view.nodes \cup ToSet(children) |->
                     IF id \in ToSet(children)
                     THEN [state |-> "NotExpandable", parent |-> parent]
                     ELSE view.nodes[id]]]

\* DCHECK(node_data_.find(id) != node_data_.end())
SetNodeDataAsserts(view, id) == id \in DOMAIN view.nodes

\* SetNodeData with has_children, for each item: whatever the node showed, it is
\* collapsed or not expandable afterwards.  (Without has_children no modelled data
\* changes.)
SetNodesData(view, items) ==
  [view EXCEPT !.nodes = [id \in DOMAIN @ |->
     IF id \in DOMAIN items
     THEN [@[id] EXCEPT !.state = IF items[id] THEN "Collapsed" ELSE "NotExpandable"]
     ELSE @[id]]]

-----------------------------------------------------------------------------
(* RemoveNode.  The code calls it recursively; here a node has at most one *)
(* level of descendants, so the calls for the children remove leaves.      *)

\* The end of a call: the node is erased from its parent's list, where
\* DCHECK(i != parents_children.end()) expects it, and from both maps.
EraseNode(r, id) ==
  LET parent   == Node(r.view, id).parent
      siblings == Kids(r.view, parent)
  IN  IF r.ok /\ Contains(siblings, id)
      THEN [view |-> [kids  |-> Drop(Put(r.view.kids, parent, RemoveFirst(siblings, id)), id),
                      nodes |-> Drop(r.view.nodes, id)],
            ok   |-> TRUE]
      ELSE [r EXCEPT !.ok = FALSE]

\* The loop over the children takes children_[id][i] for i = 0, 1, ... while the
\* call for each erases it from that very list: it ends after half of them, and
\* every other child stays in node_data_.
EraseChild(r, id, i) == EraseNode(r, Kids(r.view, id)[i])

RemoveNode(r, id) ==
  LET half == (Len(Kids(r.view, id)) + 1) \div 2
      After[i \in 0..half] == IF i = 0 THEN r ELSE EraseChild(After[i - 1], id, i)
  IN  EraseNode(After[half], id)

\* RemoveNode for each id of a sequence: the view that remains, and whether every
\* DCHECK held.
RemoveNodes(view, ids) ==
  LET After[i \in 0..Len(ids)] ==
        IF i = 0 THEN [view |-> view, ok |-> TRUE] ELSE RemoveNode(After[i - 1], ids[i])
  IN  After[Len(ids)]

-----------------------------------------------------------------------------
(* TreeViewHelper: rendering draws the children of expanded nodes and      *)
(* remembers where it drew an expansion button; a click looks the button   *)
(* up in that list.                                                        *)

\* The ids that RenderNodes draws a button for.  An ancestor's id is a prefix
\* of the id.
Buttons(view) ==
  {id \in DOMAIN view.nodes :
     /\ view.nodes[id].state # "NotExpandable"
     /\ \A n \in 1..Len(id) :
          Contains(Kids(view, SubSeq(id, 1, n - 1)), SubSeq(id, 1, n))
     /\ \A n \in 1..(Len(id) - 1) : Node(view, SubSeq(id, 1, n)).state = "Expanded"}

\* CHECK(expansion_state == kCollapsed || expansion_state == kExpanded)
ClickAsserts(view, id) == Node(view, id).state \in {"Collapsed", "Expanded"}

Toggled(view, id) == IF Node(view, id).state = "Collapsed" THEN "Expanded" ELSE "Collapsed"

SetNodeExpansionState(view, id, state) == [view EXCEPT !.nodes[id].state = state]
=============================================================================
