---------------------------- MODULE DebugCoreGdb ----------------------------
(***************************************************************************)
(* What each method of DebugCoreGdb sends to gdb                           *)
(* (sg/backend/debug_core_gdb.cc).  The UI thread never calls these        *)
(* methods directly: it posts them to the BACKEND thread as tasks bound to *)
(* a WeakPtr, so a "request" here is one posted task and Commands(r) is    *)
(* the list of GDB/MI command lines that the task writes, in order.        *)
(*                                                                         *)
(* Quoting and the text of a command line are abstracted: a command keeps  *)
(* its operation and, for the variable-object commands, the identifier and *)
(* the name of the variable.                                               *)
(***************************************************************************)
EXTENDS Naturals, Sequences

\* Placeholders for a command that carries no variable.
NoId   == <<>>
NoName == "-"

Request(method)           == [method |-> method, id |-> NoId, name |-> NoName]
WatchRequest(method, id)  == [Request(method) EXCEPT !.id = id]
CreateWatch(id, name)     == [WatchRequest("CreateWatch", id) EXCEPT !.name = name]

\* SetWatchExpanded(id, expanded): only expanding talks to gdb, the branch
\* for collapsing is commented out in the source.
SetWatchExpanded(id, expanded) ==
  WatchRequest(IF expanded THEN "ExpandWatch" ELSE "CollapseWatch", id)

\* The GDB/MI operations the front end uses: those whose result record has a
\* handler, and those sent without a token.
HandledOps   == {"stack-list-frames", "stack-list-arguments",
                 "stack-list-variables", "var-update", "var-list-children",
                 "var-create"}
UnhandledOps == {"enable-pretty-printing", "file-exec-and-symbols",
                 "break-insert", "exec-run", "exec-next", "exec-step",
                 "exec-finish", "exec-abort", "var-delete"}
AllOps       == HandledOps \cup UnhandledOps

Operations ==
  [ EnablePrettyPrinting |-> <<"enable-pretty-printing">>,
    SetDebugNotification |-> <<>>,
    LoadProcess          |-> <<"file-exec-and-symbols">>,
    RunToMain            |-> <<"break-insert", "exec-run">>,
    Continue             |-> <<"exec-run">>,
    StepOver             |-> <<"exec-next">>,
    StepIn               |-> <<"exec-step">>,
    StepOut              |-> <<"exec-finish">>,
    GetStack             |-> <<"stack-list-frames", "stack-list-arguments">>,
    GetLocals            |-> <<"stack-list-variables">>,
    UpdateWatches        |-> <<"var-update">>,
    ExpandWatch          |-> <<"var-list-children">>,
    CollapseWatch        |-> <<>>,
    CreateWatch          |-> <<"var-create">>,
    DeleteWatch          |-> <<"var-delete">>,
    StopDebugging        |-> <<"exec-abort">> ]

Methods == DOMAIN Operations

Commands(request) ==
  LET ops == Operations[request.method]
  IN  [k \in 1..Len(ops) |->
         [op |-> ops[k], id |-> request.id, name |-> request.name]]

\* The handler that SendCommand binds to a command's token; the commands
\* outside this function are sent without a token and their result records
\* are dropped.
Handler ==
  [ op \in HandledOps |->
      CASE op = "stack-list-frames"    -> "HandlerStack"
        [] op = "stack-list-arguments" -> "HandlerStackArgs"
        [] op = "stack-list-variables" -> "HandlerVariables"
        [] op = "var-update"           -> "HandlerVariableUpdates"
        [] op = "var-list-children"    -> "HandlerVariableListChildren"
        [] op = "var-create"           -> "HandlerCreateVariable" ]

HasHandler(op) == op \in HandledOps

\* The commands after which gdb lets the program run until its next stop.
RunsDebuggee(op) == op \in {"exec-run", "exec-next", "exec-step", "exec-finish"}
=============================================================================
