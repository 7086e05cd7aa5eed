---------------------------- MODULE WatchLedger ----------------------------
(***************************************************************************)
(* What the front end and gdb promise each other about watches, without    *)
(* views, stops or key presses: the front end chooses the identifiers and  *)
(* keeps the names of the watches it shows (local_to_backend_); gdb keeps  *)
(* the variable objects, creates and deletes them later and in the order   *)
(* asked, and may fail to create one.  No failure is ever reported back.   *)
(***************************************************************************)
EXTENDS Naturals, Sequences, FiniteSets, SequencesExt

CONSTANT Name

VARIABLES
  shown,     \* name -> identifier of the watch that the front end shows
  next,      \* the next unused identifier
  requests,  \* creations and deletions on their way to gdb, in order
  objects    \* identifiers of the variable objects that gdb has

ledgerVars == <<shown, next, requests, objects>>

Create(id) == [kind |-> "create", id |-> id]
Delete(id) == [kind |-> "delete", id |-> id]

Distinct(seq) == IsInjective(seq)

ShownIds == {shown[n] : n \in DOMAIN shown}

Init ==
  /\ shown = [n \in {} |-> 0] /\ next = 0
  /\ requests = <<>> /\ objects = {}

\* The names in fresh get new identifiers, in order; then the watches of the
\* names in gone are given up.
Show(fresh, gone) ==
  /\ Distinct(fresh) /\ Distinct(gone)
  /\ ToSet(fresh) \cap DOMAIN shown = {}
  /\ ToSet(gone) \subseteq DOMAIN shown
  /\ shown' \in [(DOMAIN shown \ ToSet(gone)) \cup ToSet(fresh) -> Nat]
  /\ \A n \in DOMAIN shown \ ToSet(gone) : shown'[n] = shown[n]
  /\ \A k \in DOMAIN fresh : shown'[fresh[k]] = next + k - 1
  /\ next' = next + Len(fresh)
  /\ requests' = requests \o [k \in 1..Len(fresh) |-> Create(next + k - 1)]
                          \o [k \in 1..Len(gone) |-> Delete(shown[gone[k]])]
  /\ UNCHANGED objects

\* gdb carries out the oldest request.
Execute ==
  /\ requests # <<>>
  /\ \/ objects' = objects \cup {Head(requests).id} /\ Head(requests).kind = "create"
     \/ objects' = objects                          /\ Head(requests).kind = "create"
     \/ objects' = objects \ {Head(requests).id}    /\ Head(requests).kind = "delete"
  /\ requests' = Tail(requests)
  /\ UNCHANGED <<shown, next>>

\* No list of distinct names is longer than the set of names.
Next ==
  \/ \E fresh, gone \in SeqOf(Name, Cardinality(Name)) : Show(fresh, gone)
  \/ Execute

Spec == Init /\ [][Next]_ledgerVars

-----------------------------------------------------------------------------
\* A variable object that is not shown has its deletion on the way: no watch
\* leaks in gdb.
NoLeak ==
  \A id \in objects \ ShownIds :
    \E k \in DOMAIN requests : requests[k] = Delete(id)

\* An identifier is used for one creation only: gdb never refuses one because
\* the name is taken.
NoCollision ==
  \A k \in DOMAIN requests :
    requests[k].kind = "create" =>
      /\ requests[k].id \notin objects
      /\ \A j \in DOMAIN requests : requests[j] = requests[k] => j = k
=============================================================================
