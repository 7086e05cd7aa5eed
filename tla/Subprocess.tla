---------------------------- MODULE Subprocess ----------------------------
(***************************************************************************)
(* Subprocess (backend/subprocess_win.cc): the two pipes to gdb and the    *)
(* start of its process, step by step on the BACKEND thread.  What counts  *)
(* is who holds which end of which pipe: a pipe breaks when nobody holds   *)
(* its other end, and CreateProcess copies every inheritable handle.       *)
(***************************************************************************)
EXTENDS FiniteSets

VARIABLES
  started,   \* how far Init and Start have come
  handles,   \* the handles of this process: a name, an end, inheritable or not
  gdbs,      \* the ends that gdb holds
  child      \* child_: is there a gdb process?

subprocessVars == <<started, handles, gdbs, child>>

PipeEnds == {"from_child: read", "from_child: write", "to_child: read", "to_child: write"}
Handle(name, end, inherit) == [name |-> name, end |-> end, inherit |-> inherit]
Names == {"input_temp", "output_temp", "input_pipe_", "output_pipe_",
          "child_output_pipe_", "child_input_pipe_", "child_error_pipe_"}
Steps == {"none", "pipes", "child ends", "ours", "ready", "running", "started", "failed"}
Without(names) == {h \in handles : h.name \notin names}

SInit ==
  /\ started = "none"
  /\ handles = {}
  /\ gdbs = {}
  /\ child = FALSE

Step(from, to) == started = from /\ started' = to

\* Init.
CreateNamedPipes ==
  /\ Step("none", "pipes")
  /\ handles' = {Handle("input_temp", "from_child: read", TRUE), Handle("output_temp", "to_child: write", TRUE)}
  /\ UNCHANGED <<gdbs, child>>

OpenChildEnds ==
  /\ Step("pipes", "child ends")
  /\ handles' = handles \cup {Handle("child_output_pipe_", "from_child: write", TRUE),
                              Handle("child_input_pipe_", "to_child: read", TRUE),
                              Handle("child_error_pipe_", "from_child: write", TRUE)}
  /\ UNCHANGED <<gdbs, child>>

DuplicateOwnEnds ==
  /\ Step("child ends", "ours")
  /\ handles' = handles \cup {Handle("input_pipe_", "from_child: read", FALSE),
                              Handle("output_pipe_", "to_child: write", FALSE)}
  /\ UNCHANGED <<gdbs, child>>

CloseTemporaries ==
  /\ Step("ours", "ready")
  /\ handles' = Without({"input_temp", "output_temp"})
  /\ UNCHANGED <<gdbs, child>>

\* Start.
CreateProcess ==
  /\ Step("ready", "running")
  /\ gdbs' = {h.end : h \in {k \in handles : k.inherit}}
  /\ child' = TRUE
  /\ UNCHANGED handles

\* Without gdb's program; the members keep the closed handles.
CreateProcessFails ==
  /\ Step("ready", "failed")
  /\ handles' = Without({"child_output_pipe_", "child_input_pipe_"})
  /\ UNCHANGED <<gdbs, child>>

\* Mutation: the duplicate for stderr is forgotten.
CloseInputAndOutput ==
  /\ Step("running", "started")
  /\ handles' = Without({"child_output_pipe_", "child_input_pipe_"})
  /\ UNCHANGED <<gdbs, child>>
CloseChildEnds ==
  /\ Step("running", "started")
  /\ handles' = Without({"child_output_pipe_", "child_input_pipe_", "child_error_pipe_"})
  /\ UNCHANGED <<gdbs, child>>

StartSubprocess ==
  \/ CreateNamedPipes \/ OpenChildEnds \/ DuplicateOwnEnds \/ CloseTemporaries
  \/ CreateProcess \/ CreateProcessFails \/ CloseChildEnds

---------------------------------------------------------------------------
\* Once gdb has been started each end of a pipe has one holder: the end of gdb
\* breaks the pipe it wrote to, so that the read of the front end returns, and
\* the end of the front end breaks the one gdb reads (subprocess_win.cc 91-104
\* and 156-166).
PipesHeldByTheirEnds ==
  started = "started" =>
    /\ {h.end : h \in handles} = {"from_child: read", "to_child: write"}
    /\ gdbs = {"from_child: write", "to_child: read"}
=============================================================================
