---------------------------- MODULE DebugSession ----------------------------
(***************************************************************************)
(* A debugging session as the UI thread sees it: DebugPresenter            *)
(* (sg/debug_presenter.cc) between the keyboard and mouse, the locals view *)
(* and the BACKEND thread, and gdb behind that.                            *)
(*                                                                         *)
(* The two directions are FIFO.  Requests go through the BACKEND thread's  *)
(* task queue and the ReaderWriter, which delivers commands in order       *)
(* (ReaderWriterIsAChannel), so both are one queue, toGdb; gdb's answers   *)
(* come back as tasks of the UI thread, toUI.  One request is carried out  *)
(* by gdb in one step: no other client talks to gdb in between.  A program *)
(* that runs answers nothing until it stops, which looks the same as the   *)
(* request that resumed it being carried out only then.                    *)
(*                                                                         *)
(* gdb (the Gdb... actions) is outside src/ and modelled from the answers  *)
(* that gdb_to_generic_converter.cc and debug_core_gdb.cc take apart.      *)
(*                                                                         *)
(* A failed DCHECK or CHECK ends the session: failed names the place.      *)
(***************************************************************************)
EXTENDS DebugCoreGdb, LocalsView, FiniteSets

CONSTANTS Scopes,     \* what a stop can have as its local names, in gdb's order
          Fields,     \* name -> number of fields of the variable
          Keys,       \* the keys the user presses
          MaxKeys,    \* bound on the number of key presses
          MaxClicks,  \* bound on the number of clicks on expansion buttons
          MaxStops    \* bound on the number of stops of the program

LocalNames == DOMAIN Fields

HandledKeys == {"F10", "F11", "S-F11", "F5", "C-S-F5", "S-F5"}

ASSUME SessionAssumption ==
  /\ IsFiniteSet(LocalNames)
  /\ \A scope \in Scopes : scope \in Seq(LocalNames)
  /\ \A name \in LocalNames : Fields[name] \in Nat
  /\ Keys \subseteq HandledKeys
  /\ {MaxKeys, MaxClicks, MaxStops} \subseteq Nat

VARIABLES
  connected,      \* debug_core_ has been set
  running,        \* running_
  nextVariable,   \* variable_counter_
  localToBackend, \* local_to_backend_
  view,           \* the locals view
  buttons,        \* last_rendered_buttons_
  shown,          \* the stop whose line, stack and source file are displayed
  failed          \* "none" or the assertion that failed

VARIABLES
  toGdb,          \* requests on their way to gdb
  toUI,           \* notifications on their way to the UI thread
  loads           \* file reads on the FILE thread whose replies are due

VARIABLES
  program,        \* state, the number of stops so far, the last one at a breakpoint,
                  \* and the names in scope
  objects,        \* gdb's variable objects: id -> name of the root variable
  keys, clicks    \* how many inputs there were

uiVars    == <<connected, running, nextVariable, localToBackend, view, shown>>
queueVars == <<toGdb, toUI, loads>>
gdbVars   == <<program, objects>>
inputVars == <<keys, clicks>>
vars      == <<uiVars, buttons, failed, queueVars, gdbVars, inputVars>>

Stopped == program.state = "stopped"

Post(requests) == toGdb' = toGdb \o requests

\* No assertion has failed yet.
Going == failed = "none"
-----------------------------------------------------------------------------
(* User input.                                                             *)

\* NotifyKey: the methods that a key posts to the BACKEND thread.
KeyMethods(key) ==
  CASE key = "F10"    -> <<IF running THEN "StepOver" ELSE "RunToMain">>
    [] key = "F11"    -> <<IF running THEN "StepIn" ELSE "RunToMain">>
    [] key = "S-F11"  -> <<"StepOut">>
    [] key = "F5"     -> <<"Continue">>
    [] key = "C-S-F5" -> <<"StopDebugging", "RunToMain">>
    [] key = "S-F5"   -> <<"StopDebugging">>

\* Before ConnectDebugCore the tasks are bound to a null WeakPtr and do nothing.
NotifyKey(key) ==
  /\ Going /\ keys < MaxKeys
  /\ keys' = keys + 1
  /\ running' = (running \/ key \in {"F10", "F11"})
  /\ IF connected
     THEN Post([k \in DOMAIN KeyMethods(key) |-> Request(KeyMethods(key)[k])])
     ELSE UNCHANGED toGdb
  /\ UNCHANGED <<connected, nextVariable, localToBackend, view, shown, buttons, failed,
                 toUI, loads, gdbVars, clicks>>

\* The reply to DebugCoreGdb::Create: ConnectDebugCore, SetDebugCore.
SetDebugCore ==
  /\ Going /\ ~connected
  /\ connected' = TRUE
  /\ Post(<<Request("SetDebugNotification"), Request("LoadProcess")>>)
  /\ UNCHANGED <<running, nextVariable, localToBackend, view, shown, buttons, failed,
                 toUI, loads, gdbVars, inputVars>>

\* ApplicationWindow::Paint, 10 ms after a change was announced: until then the
\* buttons are those of the previous picture.
Paint ==
  /\ Going /\ buttons # Buttons(view)
  /\ buttons' = Buttons(view)
  /\ UNCHANGED <<uiVars, failed, queueVars, gdbVars, inputVars>>

\* NotifyVariableExpansionStateChanged: on collapsing, the children are removed
\* from the last to the first; in either case the backend is told.
Collapse(v, id) == RemoveNodes(v, Reverse(Kids(v, id)))

\* A click on the button drawn for a node.
Click(id) ==
  /\ Going /\ clicks < MaxClicks
  /\ clicks' = clicks + 1
  /\ IF ClickAsserts(view, id)
     THEN LET state == Toggled(view, id)
              v     == SetNodeExpansionState(view, id, state)
              r     == IF state = "Collapsed" THEN Collapse(v, id) ELSE [view |-> v, ok |-> TRUE]
          IN  /\ view' = r.view
              /\ failed' = IF r.ok THEN "none" ELSE "RemoveNode"
              /\ Post(<<SetWatchExpanded(id, state = "Expanded")>>)
     ELSE failed' = "Button" /\ UNCHANGED <<view, toGdb>>
  /\ UNCHANGED <<connected, running, nextVariable, localToBackend, shown, buttons,
                 toUI, loads, gdbVars, keys>>

-----------------------------------------------------------------------------
(* Notifications, handled on the UI thread.                                *)

UpdatePassiveDisplays ==
  <<Request("GetStack"), Request("GetLocals"), Request("UpdateWatches")>>

Receive(event) ==
  /\ Going /\ toUI # <<>> /\ Head(toUI).event = event
  /\ toUI' = Tail(toUI)

OnStoppedAtBreakpoint ==
  /\ Receive("OnStoppedAtBreakpoint")
  /\ shown' = [shown EXCEPT !.line = Head(toUI).at]
  /\ loads' = Append(loads, Head(toUI).at)
  /\ Post(UpdatePassiveDisplays)
  /\ UNCHANGED <<connected, running, nextVariable, localToBackend, view, buttons, failed,
                 gdbVars, inputVars>>

\* Mutation: the displays are not refreshed after a step.
OnStoppedAfterSteppingLineOnly ==
  /\ Receive("OnStoppedAfterStepping")
  /\ shown' = [shown EXCEPT !.line = Head(toUI).at]
  /\ UNCHANGED <<connected, running, nextVariable, localToBackend, view, buttons, failed,
                 toGdb, loads, gdbVars, inputVars>>

OnStoppedAfterStepping ==
  /\ Receive("OnStoppedAfterStepping")
  /\ shown' = [shown EXCEPT !.line = Head(toUI).at]
  /\ Post(UpdatePassiveDisplays)
  /\ UNCHANGED <<connected, running, nextVariable, localToBackend, view, buttons, failed,
                 loads, gdbVars, inputVars>>

\* The reply of the FILE thread (which reads nothing: ReadFileOnFILE is empty).
FileLoadCompleted ==
  /\ Going /\ loads # <<>>
  /\ loads' = Tail(loads)
  /\ shown' = [shown EXCEPT !.file = Head(loads)]
  /\ UNCHANGED <<connected, running, nextVariable, localToBackend, view, buttons, failed,
                 toGdb, toUI, gdbVars, inputVars>>

OnRetrievedStack ==
  /\ Receive("OnRetrievedStack")
  /\ shown' = [shown EXCEPT !.stack = Head(toUI).at]
  /\ UNCHANGED <<connected, running, nextVariable, localToBackend, view, buttons, failed,
                 toGdb, loads, gdbVars, inputVars>>

\* The elements of a sequence at some positions, in order.
Chosen(seq, positions) ==
  LET Upto[n \in 0..Len(seq)] ==
        IF n = 0 THEN <<>>
        ELSE IF n \in positions THEN Append(Upto[n - 1], seq[n]) ELSE Upto[n - 1]
  IN  Upto[Len(seq)]

\* The names, in order, that have no watch yet, and GenerateNewVariableIdentifier
\* for each.
FreshNames(names) ==
  Chosen(names, {k \in DOMAIN names :
                   /\ names[k] \notin DOMAIN localToBackend
                   /\ \A j \in 1..(k - 1) : names[j] # names[k]})

\* Mutations: the counter does not move between two names; it moves before its
\* value is used.
OneNewId(fresh)   == [k \in DOMAIN fresh |-> <<nextVariable>>]
LaterIds(fresh)   == [k \in DOMAIN fresh |-> <<nextVariable + k>>]

NewIds(fresh) == [k \in DOMAIN fresh |-> <<nextVariable + k - 1>>]

\* Mutations: names that left the scope stay in the map; their watches stay in gdb.
ForgetNothing(map, ids) == map
DeleteNothing(ids)      == <<>>

\* The rows that are not among the active ones.
Inactive(ids, active) == Chosen(ids, {k \in DOMAIN ids : ids[k] \notin active})

\* local_to_backend_.erase for the names of removed nodes, and DeleteWatch.
Forget(map, ids) == [n \in {m \in DOMAIN map : map[m] \notin ToSet(ids)} |-> map[n]]
DeleteWatches(ids) == [k \in DOMAIN ids |-> WatchRequest("DeleteWatch", ids[k])]

OnRetrievedLocals ==
  /\ Receive("OnRetrievedLocals")
  /\ LET names  == Head(toUI).names
         fresh  == FreshNames(names)
         ids    == NewIds(fresh)
         known  == [n \in DOMAIN localToBackend \cup ToSet(fresh) |->
                      IF n \in DOMAIN localToBackend THEN localToBackend[n]
                      ELSE ids[CHOOSE k \in DOMAIN fresh : fresh[k] = n]]
         added  == AddChildren(view, Root, ids)
         active == {known[n] : n \in ToSet(names)}
         gone   == Inactive(Kids(added, Root), active)
         r      == RemoveNodes(added, gone)
     IN  /\ view' = r.view
         /\ failed' = IF r.ok THEN "none" ELSE "RemoveNode"
         /\ localToBackend' = Forget(known, gone)
         /\ nextVariable' = nextVariable + Len(fresh)
         /\ Post([k \in DOMAIN fresh |-> CreateWatch(ids[k], fresh[k])] \o DeleteWatches(gone))
  /\ UNCHANGED <<connected, running, shown, buttons, loads, gdbVars, inputVars>>

OnWatchCreated ==
  /\ Receive("OnWatchCreated")
  /\ LET n == Head(toUI)
     IN  IF SetNodeDataAsserts(view, n.id)
         THEN view' = SetNodesData(view, [id \in {n.id} |-> n.hasChildren]) /\ UNCHANGED failed
         ELSE failed' = "SetNodeData" /\ UNCHANGED view
  /\ UNCHANGED <<connected, running, nextVariable, localToBackend, shown, buttons,
                 toGdb, loads, gdbVars, inputVars>>

\* Mutation: every update asks for the next one.
OnWatchesUpdatedAsksAgain ==
  /\ Receive("OnWatchesUpdated")
  /\ Post(<<Request("UpdateWatches")>>)
  /\ UNCHANGED <<uiVars, buttons, failed, loads, gdbVars, inputVars>>

\* Items without a value have been dropped from the notification already.
OnWatchesUpdated ==
  /\ Receive("OnWatchesUpdated")
  /\ LET items == Head(toUI).items
     IN  IF \A id \in DOMAIN items : SetNodeDataAsserts(view, id)
         THEN view' = SetNodesData(view, items) /\ UNCHANGED failed
         ELSE failed' = "SetNodeData" /\ UNCHANGED view
  /\ UNCHANGED <<connected, running, nextVariable, localToBackend, shown, buttons,
                 toGdb, loads, gdbVars, inputVars>>

\* Children are added whether or not they, or their parent, are still shown.
OnWatchChildList ==
  /\ Receive("OnWatchChildList")
  /\ LET n == Head(toUI)
     IN  view' = SetNodesData(AddChildren(view, n.parent, n.children),
                              [id \in ToSet(n.children) |-> FALSE])
  /\ UNCHANGED <<connected, running, nextVariable, localToBackend, shown, buttons, failed,
                 toGdb, loads, gdbVars, inputVars>>

-----------------------------------------------------------------------------
(* External: gdb carries out the oldest request.                           *)

RunMethods  == {"RunToMain", "Continue"}
StepMethods == {"StepOver", "StepIn", "StepOut"}

Perform(methods) ==
  /\ Going /\ toGdb # <<>> /\ Head(toGdb).method \in methods
  /\ toGdb' = Tail(toGdb)
  /\ UNCHANGED <<uiVars, buttons, failed, loads, inputVars>>

Answer(notification) == toUI' = Append(toUI, notification)

InScope(name) == Stopped /\ Contains(program.scope, name)

\* A run or a step ends at a stop, or with the program; a step needs a program.
GdbExec ==
  /\ Perform(RunMethods \cup StepMethods)
  /\ LET run == Head(toGdb).method \in RunMethods
     IN  IF run \/ Stopped
         THEN \/ /\ program.stops < MaxStops
                 /\ \E scope \in Scopes :
                      program' = [state |-> "stopped", stops |-> program.stops + 1, scope |-> scope,
                                  lastBreak |-> IF run THEN program.stops + 1 ELSE program.lastBreak]
                 /\ Answer([event |-> IF run THEN "OnStoppedAtBreakpoint" ELSE "OnStoppedAfterStepping",
                            at |-> program.stops + 1])
              \/ program' = [program EXCEPT !.state = "none", !.scope = <<>>] /\ UNCHANGED toUI
         ELSE UNCHANGED <<program, toUI>>
  /\ UNCHANGED objects

\* -exec-abort ends the program, where gdb knows the command.
GdbAbort ==
  /\ Perform({"StopDebugging"})
  /\ \/ program' = [program EXCEPT !.state = "none", !.scope = <<>>]
     \/ UNCHANGED program
  /\ UNCHANGED <<toUI, objects>>

\* Requests that have no answer and change nothing here.
GdbAccept ==
  /\ Perform({"SetDebugNotification", "LoadProcess", "CollapseWatch"})
  /\ UNCHANGED <<toUI, program, objects>>

\* There are a stack and locals only while the program is stopped.
GdbQuery ==
  /\ Perform({"GetStack", "GetLocals"})
  /\ IF ~Stopped THEN UNCHANGED toUI
     ELSE Answer(IF Head(toGdb).method = "GetStack"
                 THEN [event |-> "OnRetrievedStack", at |-> program.stops]
                 ELSE [event |-> "OnRetrievedLocals", names |-> program.scope])
  /\ UNCHANGED <<program, objects>>

\* -var-create of a floating object fails when its name cannot be evaluated in
\* the current frame, or its identifier is taken.
GdbVarCreate ==
  /\ Perform({"CreateWatch"})
  /\ LET r == Head(toGdb)
     IN  IF InScope(r.name) /\ r.id \notin DOMAIN objects
         THEN /\ objects' = Put(objects, r.id, r.name)
              /\ Answer([event |-> "OnWatchCreated", id |-> r.id, hasChildren |-> Fields[r.name] > 0])
         ELSE UNCHANGED <<objects, toUI>>
  /\ UNCHANGED program

\* -var-update reports the objects, children that were listed once included, whose
\* value changed and can be shown; has_more may be set for those with fields.
GdbVarUpdate ==
  /\ Perform({"UpdateWatches"})
  /\ \E changed \in SUBSET {id \in DOMAIN objects : InScope(objects[id])} :
       \E more \in SUBSET {id \in changed : Len(id) = 1 /\ Fields[objects[id]] > 0} :
         Answer([event |-> "OnWatchesUpdated", items |-> [id \in changed |-> id \in more]])
  /\ UNCHANGED gdbVars

\* -var-list-children creates the children and lists them.
GdbVarListChildren ==
  /\ Perform({"ExpandWatch"})
  /\ LET id       == Head(toGdb).id
         n        == IF Len(id) = 1 /\ id \in DOMAIN objects THEN Fields[objects[id]] ELSE 0
         children == [k \in 1..n |-> Append(id, k)]
     IN  IF id \in DOMAIN objects
         THEN /\ objects' = [o \in DOMAIN objects \cup ToSet(children) |->
                               IF o \in DOMAIN objects THEN objects[o] ELSE objects[id]]
              /\ Answer([event |-> "OnWatchChildList", parent |-> id, children |-> children])
         ELSE UNCHANGED <<objects, toUI>>
  /\ UNCHANGED program

\* -var-delete deletes an object and its children.
GdbVarDelete ==
  /\ Perform({"DeleteWatch"})
  /\ objects' = [id \in {o \in DOMAIN objects : ~IsPrefix(Head(toGdb).id, o)} |-> objects[id]]
  /\ UNCHANGED <<toUI, program>>
-----------------------------------------------------------------------------
Init ==
  /\ connected = FALSE /\ running = FALSE
  /\ nextVariable = 0 /\ localToBackend = [n \in {} |-> Root]
  /\ view = EmptyView /\ buttons = {} /\ failed = "none"
  /\ shown = [line |-> 0, stack |-> 0, file |-> 0]
  /\ toGdb = <<>> /\ toUI = <<>> /\ loads = <<>>
  /\ program = [state |-> "none", stops |-> 0, scope |-> <<>>, lastBreak |-> 0]
  /\ objects = [id \in {} |-> "-"]
  /\ keys = 0 /\ clicks = 0

UserStep ==
  \/ \E key \in Keys : NotifyKey(key)
  \/ \E id \in buttons : Click(id)

UIStep ==
  \/ SetDebugCore
  \/ Paint
  \/ FileLoadCompleted
  \/ OnStoppedAtBreakpoint
  \/ OnStoppedAfterStepping
  \/ OnRetrievedStack
  \/ OnWatchCreated
  \/ OnWatchesUpdated
  \/ OnWatchChildList
  \/ OnRetrievedLocals

GdbStep ==
  \/ GdbExec
  \/ GdbAbort
  \/ GdbAccept
  \/ GdbQuery
  \/ GdbVarCreate
  \/ GdbVarUpdate
  \/ GdbVarListChildren
  \/ GdbVarDelete

Next == UserStep \/ UIStep \/ GdbStep

Spec == Init /\ [][Next]_vars

\* There is nothing to do for the message loops of the UI and FILE threads or gdb.
Idle ==
  \/ ~Going
  \/ connected /\ buttons = Buttons(view) /\ toGdb = <<>> /\ toUI = <<>> /\ loads = <<>>

\* Weak fairness of GdbStep \/ UIStep, with Idle for "not enabled": as long as there
\* is something to do, one of them does something.  Nothing forces the user.
Fairness == []<>Idle \/ []<><<GdbStep \/ UIStep>>_vars

FairSpec == Spec /\ Fairness

-----------------------------------------------------------------------------
(* Properties.                                                             *)

\* Nothing is on its way between the user interface, gdb and the disk.
Quiet == Going /\ toGdb = <<>> /\ toUI = <<>> /\ loads = <<>>

UsedIds == {<<k>> : k \in 0..(nextVariable - 1)}
FieldNumbers == UNION {1..Fields[name] : name \in LocalNames}
Ids     == UsedIds \cup {Append(id, f) : id \in UsedIds, f \in FieldNumbers}
StopNumbers == 0..program.stops

\* Type invariant: the ranges of the fields, and that every identifier anywhere
\* was handed out by GenerateNewVariableIdentifier or is a field of such a one.
TypeOK ==
  /\ {connected, running} \subseteq BOOLEAN
  /\ nextVariable \in Nat
  /\ DOMAIN localToBackend \subseteq LocalNames
  /\ \A n \in DOMAIN localToBackend : localToBackend[n] \in UsedIds
  /\ DOMAIN view.nodes \subseteq Ids
  /\ \A id \in DOMAIN view.nodes : view.nodes[id].state \in ExpansionStates
  /\ DOMAIN view.kids \subseteq Ids \cup {Root}
  /\ buttons \subseteq Ids
  /\ shown \in [{"line", "stack", "file"} -> StopNumbers]
  /\ failed \in {"none", "SetNodeData", "RemoveNode", "Button"}
  /\ \A k \in DOMAIN toGdb : toGdb[k].method \in Methods /\ toGdb[k].id \in Ids \cup {NoId}
  /\ DOMAIN objects \subseteq Ids

\* The locals view and local_to_backend_ agree: the rows at the top level are the
\* identifiers in the map, each once, and no two names share one.  OnRetrievedLocals
\* changes the two in separate loops, and other handlers change the view.
ViewMatchesMap ==
  Going =>
    /\ IsInjective(localToBackend)
    /\ Kids(view, Root) \in Seq(Range(localToBackend))
    /\ Len(Kids(view, Root)) = Cardinality(Range(localToBackend))
    /\ ToSet(Kids(view, Root)) = Range(localToBackend)

\* When nothing is on its way and the program is stopped, the line, the stack and
\* the names of the locals displayed are those of the last stop, and the source
\* file is that of the last breakpoint, however the keys were pressed and the
\* answers of several stops interleaved.
QuiescentDisplay ==
  Quiet /\ Stopped =>
    /\ shown.line = program.stops /\ shown.stack = program.stops
    /\ shown.file = program.lastBreak
    /\ DOMAIN localToBackend = ToSet(program.scope)

\* No watch leaks in gdb: a variable object that the map does not know has its
\* DeleteWatch on the way, even when the name came back under a new identifier.
NoWatchLeak ==
  \A id \in DOMAIN objects :
    \/ Len(id) > 1
    \/ ~Going
    \/ id \in Range(localToBackend)
    \/ \E k \in DOMAIN toGdb : toGdb[k] = WatchRequest("DeleteWatch", id)

\* The map, the watch requests and gdb's variable objects behave as WatchLedger.
IdNumber(id) == id[1]
LedgerRequest(r) ==
  [kind |-> IF r.method = "CreateWatch" THEN "create" ELSE "delete", id |-> IdNumber(r.id)]
LedgerRequests(requests) ==
  LET watch == Chosen(requests, {k \in DOMAIN requests :
                                   requests[k].method \in {"CreateWatch", "DeleteWatch"}})
  IN  [k \in DOMAIN watch |-> LedgerRequest(watch[k])]

Ledger == INSTANCE WatchLedger WITH
  Name     <- LocalNames,
  shown    <- [n \in DOMAIN localToBackend |-> IdNumber(localToBackend[n])],
  next     <- nextVariable,
  requests <- LedgerRequests(toGdb),
  objects  <- {IdNumber(id) : id \in {o \in DOMAIN objects : Len(o) = 1}}

WatchesAreALedger == Ledger!Spec

\* Handlers post requests and requests bring notifications: the exchange ends
\* after every input, it does not feed itself.
Settles == []<>(Quiet \/ ~Going)

\* The assertion of LocalsView::RemoveNode (locals_view.cc:64): a node is in the
\* list of its parent when it is removed.
RemovedNodeIsInItsParent == failed # "RemoveNode"

\* The assertion of LocalsView::SetNodeData (locals_view.cc:39): data arrives only
\* for nodes that the view has.
UpdatedNodeExists == failed # "SetNodeData"

\* "For each local, make sure we have a backend variable" (debug_presenter.cc:169):
\* once everything has settled, every local displayed has its object in gdb.
EveryLocalHasABackendVariable ==
  Quiet /\ Stopped => Range(localToBackend) \subseteq DOMAIN objects

\* "F10: step over (and run to main() on startup)" (debug_presenter.cc:45): in a
\* program that is stopped and displayed, F10 steps.
F10Steps ==
  [][Quiet /\ Stopped /\ NotifyKey("F10") => toGdb' = <<Request("StepOver")>>]_vars
=============================================================================
