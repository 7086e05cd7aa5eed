---------------------------- MODULE ReaderWriter ----------------------------
(***************************************************************************)
(* ReaderWriter (sg/backend/debug_core_gdb.cc): the object on the BACKEND  *)
(* thread that owns both pipes to gdb.  It keeps one overlapped read       *)
(* queued on gdb's output and at most one overlapped write on gdb's input; *)
(* further commands wait in pending_writes_.  Completions run on the       *)
(* BACKEND thread, so a task, a completion and the destructor never        *)
(* overlap, but the kernel and gdb move bytes between any two of them.     *)
(*                                                                         *)
(* Outside src/ and modelled from how the code uses them: the kernel's     *)
(* pipes and overlapped I/O (Kernel...), and gdb itself (Gdb...), which    *)
(* answers commands one at a time, reads nothing while the program it      *)
(* debugs runs, and reads nothing while it has output left to write.       *)
(*                                                                         *)
(* Bytes are abstracted to pieces: every gdb output (its records up to and *)
(* including the "(gdb)" prompt) is written as a body and an end, and a    *)
(* read may return any number of pieces from 1 to ReadMax.                 *)
(***************************************************************************)
EXTENDS DebugCoreGdb, Integers, FiniteSets

CONSTANTS Requests,     \* the requests the UI posts to the BACKEND thread
          MaxCommands,  \* no request runs once this many commands were sent
          MaxStops,     \* bound on the number of times the debuggee stops
          InCapacity,   \* commands gdb's input pipe holds
          OutCapacity,  \* pieces gdb's output pipe holds
          ReadMax       \* pieces one ReadFile may return

ASSUME BoundsAssumption ==
  /\ MaxCommands \in Nat
  /\ MaxStops \in Nat
  /\ InCapacity \in Nat \ {0}
  /\ OutCapacity \in Nat \ {0}
  /\ ReadMax \in Nat \ {0}

NoToken == -1

ASSUME RequestsAssumption ==
  \A r \in Requests : r.method \in Methods

VARIABLES
  phase,      \* "alive", "closing" (in the destructor) or "gone"
  terminating,\* terminating_
  writeState, \* write_state_: "idle" iff not is_pending
  inWrite,    \* write_state_.buffer: <<>> or the one command being written
  pending,    \* pending_writes_
  readState,  \* read_state_: "idle" iff not is_pending
  readBuf,    \* read_state_.buffer, as the pieces the kernel put there
  unused,     \* unused_read_data_
  handlers,   \* handler_for_result_
  nextToken,  \* DebugCoreGdb::token_
  frames,     \* stack_without_arguments_, as the stop it describes
  gotFrames,  \* got_stack_frames_waiting_for_arguments_
  posted,     \* every notification posted to the UI thread
  failed      \* a DCHECK of a handler has fired

VARIABLES
  gdbIn,      \* gdb's input pipe
  gdbOut,     \* gdb's output pipe
  gdbRest,    \* what gdb still has to write before it reads again
  gdbState,   \* "dead" (no program), "stopped" or "running"
  stops       \* how many times the debuggee has stopped

VARIABLES
  submitted,  \* history: every command given to SendString
  received,   \* history: every command gdb read
  emitted,    \* history: every output gdb produced
  dispatched  \* history: every output given to SendNotifications

ioVars      == <<phase, terminating, writeState, inWrite, pending,
                 readState, readBuf, unused>>
notifyVars  == <<handlers, frames, gotFrames, posted, failed>>
gdbVars     == <<gdbIn, gdbOut, gdbRest, gdbState, stops>>
historyVars == <<submitted, received, emitted, dispatched>>
vars        == <<ioVars, notifyVars, nextToken, gdbVars, historyVars>>
-----------------------------------------------------------------------------
(* Commands and outputs.                                                   *)

IoStates == {"idle", "posted", "done", "cancelled"}

WritePending == writeState # "idle"
ReadPending  == readState # "idle"

\* Mutations of Tagged: one token for all commands of a request; the
\* arguments of the stack requested before its frames.
TaggedOnce(request) ==
  LET cmds == Commands(request)
  IN  [k \in DOMAIN cmds |->
         [op  |-> cmds[k].op,
          tok |-> IF HasHandler(cmds[k].op) THEN nextToken ELSE NoToken]]

TaggedBackwards(request) ==
  LET cmds == Commands(request)
      n    == Len(cmds)
  IN  [k \in DOMAIN cmds |->
         [op  |-> cmds[n + 1 - k].op,
          tok |-> IF HasHandler(cmds[k].op) THEN nextToken + k - 1 ELSE NoToken]]

\* The command lines of a request, with NewToken() for those that have a
\* handler.  (In one request either all commands have a handler or none.)
Tagged(request) ==
  LET cmds == Commands(request)
  IN  [k \in DOMAIN cmds |->
         [op  |-> cmds[k].op,
          tok |-> IF HasHandler(cmds[k].op) THEN nextToken + k - 1 ELSE NoToken]]

TokensOf(cmds) == {cmds[k].tok : k \in DOMAIN cmds} \ {NoToken}

OutputOf(class, cmd, at) ==
  [class |-> class, op |-> cmd.op, tok |-> cmd.tok, at |-> at]

AsyncOutput(class, at) == OutputOf(class, [op |-> "async", tok |-> NoToken], at)

\* The pieces of a sequence of outputs: odd ones are bodies, even ones ends.
Pieces(outputs) ==
  [k \in 1..(2 * Len(outputs)) |->
     [out |-> outputs[(k + 1) \div 2], end |-> k % 2 = 0]]

-----------------------------------------------------------------------------
(* SendString: the first command goes to WriteFile if no write is pending, *)
(* every other one to the back of pending_writes_.                         *)

\* Mutations: waiting commands are put in front of the queue; a command is
\* copied into the buffer of a pending write.
SendStringsInFront(cmds) ==
  /\ IF WritePending \/ cmds = <<>>
     THEN pending' = cmds \o pending /\ UNCHANGED <<writeState, inWrite>>
     ELSE /\ writeState' = "posted" /\ inWrite' = <<Head(cmds)>>
          /\ pending' = Tail(cmds) \o pending
  /\ submitted' = submitted \o cmds

SendStringsUnguarded(cmds) ==
  /\ writeState' = IF cmds = <<>> THEN writeState ELSE "posted"
  /\ inWrite' = inWrite \o cmds
  /\ submitted' = submitted \o cmds
  /\ UNCHANGED pending

SendStrings(cmds) ==
  /\ IF WritePending \/ cmds = <<>>
     THEN /\ pending' = pending \o cmds
          /\ UNCHANGED <<writeState, inWrite>>
     ELSE /\ writeState' = "posted"
          /\ inWrite' = <<Head(cmds)>>
          /\ pending' = pending \o Tail(cmds)
  /\ submitted' = submitted \o cmds

\* A task posted by the UI thread runs: DebugCoreGdb's method hands its
\* commands to the ReaderWriter and registers their handlers.
RunRequest(request) ==
  /\ phase = "alive"
  /\ Len(submitted) < MaxCommands
  /\ LET cmds == Tagged(request)
     IN  /\ SendStrings(cmds)
         /\ nextToken' = nextToken + Cardinality(TokensOf(cmds))
         /\ handlers' = [t \in DOMAIN handlers \cup TokensOf(cmds) |->
              IF t \in TokensOf(cmds)
              THEN Handler[cmds[t - nextToken + 1].op]
              ELSE handlers[t]]
  /\ UNCHANGED <<phase, terminating, readState, readBuf, unused, frames,
                 gotFrames, posted, failed, gdbVars, received, emitted, dispatched>>

-----------------------------------------------------------------------------
(* Completions, run by the BACKEND thread's message loop while alive and by *)
(* the destructor's WaitForIOCompletion loop while closing.                *)

\* Mutation: the next waiting command is not sent.
CompleteWriteOnly ==
  /\ phase # "gone"
  /\ writeState \in {"done", "cancelled"}
  /\ writeState' = "idle" /\ inWrite' = <<>>
  /\ UNCHANGED <<phase, terminating, pending, readState, readBuf, unused,
                 notifyVars, nextToken, gdbVars, historyVars>>

\* OnIOCompleted for the write, then CompleteWrite.
CompleteWrite ==
  /\ phase # "gone"
  /\ writeState \in {"done", "cancelled"}
  /\ IF pending = <<>>
     THEN writeState' = "idle" /\ inWrite' = <<>> /\ UNCHANGED pending
     ELSE /\ writeState' = "posted"
          /\ inWrite' = <<Head(pending)>>
          /\ pending' = Tail(pending)
  /\ UNCHANGED <<phase, terminating, readState, readBuf, unused,
                 notifyVars, nextToken, gdbVars, historyVars>>

\* SendNotifications for one output: a "done" result goes to the handler its
\* token is registered for, a stop to the matching notification; everything
\* else (errors, ^running, unhandled results) is only logged.
Notify(event, framesOf, argsOf) ==
  posted' = Append(posted, [event |-> event, frames |-> framesOf, args |-> argsOf])

SendNotifications(o) ==
  LET handler == IF o.class = "done" /\ o.tok \in DOMAIN handlers
                 THEN handlers[o.tok] ELSE "none"
  IN  /\ failed' = \/ failed
                   \/ handler # "none" /\ handler # Handler[o.op]
                   \/ handler = "HandlerStackArgs" /\ ~gotFrames
      /\ frames' = IF handler = "HandlerStack" THEN o.at ELSE frames
      /\ gotFrames' = CASE handler = "HandlerStack"     -> TRUE
                        [] handler = "HandlerStackArgs" -> FALSE
                        [] OTHER                        -> gotFrames
      /\ CASE handler = "HandlerStackArgs" -> Notify("OnRetrievedStack", frames, o.at)
           [] handler \notin {"none", "HandlerStack", "HandlerStackArgs"} ->
                Notify(handler, o.at, o.at)
           [] o.class = "stopped" -> Notify("OnStopped", o.at, o.at)
           [] OTHER -> UNCHANGED posted

\* GdbMiReader::Parse consumes the first complete output of the data: the
\* pieces up to and including the first end.
FirstEnd(pieces, n) == pieces[n].end /\ \A j \in 1..(n - 1) : ~pieces[j].end

\* Mutation: unused_read_data_ is cleared when an output has been parsed.
NothingAfter(pieces, n) == <<>>

\* What remains in unused_read_data_ when n pieces have been consumed.
After(pieces, n) == SubSeq(pieces, n + 1, Len(pieces))

\* Mutation: no read is queued while a write is pending.
NextReadUnlessWriting == IF terminating \/ WritePending THEN "idle" ELSE "posted"

\* StartRead, unless terminating_.
NextRead == IF terminating THEN "idle" ELSE "posted"

\* OnIOCompleted for the read, then CompleteRead: append the bytes, parse at
\* most ONE output, and queue the next read unless terminating_.
CompleteRead ==
  /\ phase # "gone"
  /\ readState \in {"done", "cancelled"}
  /\ LET data == unused \o readBuf
     IN  \/ /\ \A n \in DOMAIN data : ~data[n].end
            /\ unused' = data
            /\ UNCHANGED <<frames, gotFrames, posted, failed, dispatched>>
         \/ \E n \in DOMAIN data :
              /\ FirstEnd(data, n)
              /\ unused' = After(data, n)
              /\ SendNotifications(data[n].out)
              /\ dispatched' = Append(dispatched, data[n].out)
  /\ readBuf' = <<>>
  /\ readState' = NextRead
  /\ UNCHANGED <<phase, terminating, writeState, inWrite, pending, handlers,
                 nextToken, gdbVars, submitted, received, emitted>>

-----------------------------------------------------------------------------
(* DeleteSelf: ~DebugCoreGdb destroys the ReaderWriter, which drops what   *)
(* has not been written, cancels both operations, and waits until the      *)
(* kernel has handed both back; then gdb is terminated.                    *)

Cancelled(ioState) == IF ioState = "posted" THEN "cancelled" ELSE ioState

\* Mutation: pending_writes_ is not cleared.
BeginDestroyKeepsWrites ==
  /\ phase = "alive"
  /\ phase' = "closing" /\ terminating' = TRUE
  /\ writeState' = Cancelled(writeState)
  /\ readState' = Cancelled(readState)
  /\ UNCHANGED <<inWrite, pending, readBuf, unused, notifyVars, nextToken,
                 gdbVars, historyVars>>

BeginDestroy ==
  /\ phase = "alive"
  /\ phase' = "closing"
  /\ terminating' = TRUE
  /\ pending' = <<>>
  /\ writeState' = Cancelled(writeState)
  /\ readState' = Cancelled(readState)
  /\ UNCHANGED <<inWrite, readBuf, unused, notifyVars, nextToken, gdbVars, historyVars>>

EndDestroy ==
  /\ phase = "closing"
  /\ ~ReadPending /\ ~WritePending
  /\ phase' = "gone"
  /\ UNCHANGED <<terminating, writeState, inWrite, pending, readState, readBuf,
                 unused, notifyVars, nextToken, gdbVars, historyVars>>

-----------------------------------------------------------------------------
(* External: the kernel.                                                   *)

KernelWrite ==
  /\ writeState = "posted"
  /\ Len(gdbIn) < InCapacity
  /\ gdbIn' = gdbIn \o inWrite
  /\ writeState' = "done"
  /\ UNCHANGED <<phase, terminating, inWrite, pending, readState, readBuf, unused,
                 notifyVars, nextToken, gdbOut, gdbRest, gdbState, stops, historyVars>>

KernelRead ==
  /\ readState = "posted"
  /\ \E k \in 1..ReadMax :
       /\ k <= Len(gdbOut)
       /\ readBuf' = SubSeq(gdbOut, 1, k)
       /\ gdbOut' = SubSeq(gdbOut, k + 1, Len(gdbOut))
  /\ readState' = "done"
  /\ UNCHANGED <<phase, terminating, writeState, inWrite, pending, unused, notifyVars,
                 nextToken, gdbIn, gdbRest, gdbState, stops, historyVars>>

-----------------------------------------------------------------------------
(* External: gdb.                                                          *)

Emit(output) ==
  /\ emitted' = Append(emitted, output)
  /\ gdbRest' = Pieces(<<output>>)

\* gdb reads one command and answers it.  It has a stack to list only while
\* there is a stopped program; the other commands succeed or fail as gdb
\* pleases.
GdbReadCommand ==
  /\ phase # "gone"
  /\ gdbRest = <<>> /\ gdbState # "running" /\ gdbIn # <<>>
  /\ LET cmd   == Head(gdbIn)
         stack == cmd.op \in {"stack-list-frames", "stack-list-arguments"}
         runs  == /\ RunsDebuggee(cmd.op)
                  /\ stops < MaxStops
                  /\ cmd.op = "exec-run" \/ gdbState = "stopped"
     IN  /\ received' = Append(received, cmd)
         /\ \E class \in {"done", "error", "running"} :
              /\ runs <=> class = "running"
              /\ stack => (class = "done" <=> gdbState = "stopped")
              /\ Emit(OutputOf(class, cmd, stops))
              /\ gdbState' = CASE runs -> "running"
                               [] cmd.op = "exec-abort" /\ class = "done" -> "dead"
                               [] OTHER -> gdbState
  /\ gdbIn' = Tail(gdbIn)
  /\ UNCHANGED <<ioVars, notifyVars, nextToken, gdbOut, stops, submitted, dispatched>>

\* The debuggee stops, at a breakpoint or after stepping, or exits.
GdbStops ==
  /\ phase # "gone"
  /\ gdbState = "running" /\ gdbRest = <<>>
  /\ stops' = stops + 1
  /\ \/ gdbState' = "stopped" /\ Emit(AsyncOutput("stopped", stops + 1))
     \/ gdbState' = "dead" /\ Emit(AsyncOutput("exited", stops + 1))
  /\ UNCHANGED <<ioVars, notifyVars, nextToken, gdbIn, gdbOut, submitted,
                 received, dispatched>>

GdbWrite ==
  /\ phase # "gone"
  /\ gdbRest # <<>>
  /\ Len(gdbOut) < OutCapacity
  /\ gdbOut' = Append(gdbOut, Head(gdbRest))
  /\ gdbRest' = Tail(gdbRest)
  /\ UNCHANGED <<ioVars, notifyVars, nextToken, gdbIn, gdbState, stops, historyVars>>
-----------------------------------------------------------------------------
\* The constructor queues the first read; DebugCoreGdb's sends
\* -enable-pretty-printing at once.
Init ==
  /\ phase = "alive" /\ terminating = FALSE
  /\ LET first == [op |-> "enable-pretty-printing", tok |-> NoToken]
     IN  inWrite = <<first>> /\ submitted = <<first>>
  /\ writeState = "posted" /\ pending = <<>>
  /\ readState = "posted" /\ readBuf = <<>> /\ unused = <<>>
  /\ handlers = [t \in {} |-> "none"] /\ nextToken = 0
  /\ frames = 0 /\ gotFrames = FALSE /\ posted = <<>> /\ failed = FALSE
  /\ gdbIn = <<>> /\ gdbOut = <<>> /\ gdbRest = <<>>
  /\ gdbState = "dead" /\ stops = 0
  /\ received = <<>> /\ emitted = <<>> /\ dispatched = <<>>

Next ==
  \/ \E request \in Requests : RunRequest(request)
  \/ CompleteRead
  \/ CompleteWrite
  \/ BeginDestroy
  \/ EndDestroy
  \/ KernelRead
  \/ KernelWrite
  \/ GdbReadCommand
  \/ GdbStops
  \/ GdbWrite

Spec == Init /\ [][Next]_vars

\* The message loop delivers every completion, the kernel finishes every
\* operation that can finish, gdb keeps reading and writing, and the program
\* under debug reaches its next stop.  Nothing forces a request or DeleteSelf.
Fairness ==
  /\ WF_vars(CompleteRead) /\ WF_vars(CompleteWrite) /\ WF_vars(EndDestroy)
  /\ WF_vars(KernelRead) /\ WF_vars(KernelWrite)
  /\ WF_vars(GdbReadCommand) /\ WF_vars(GdbStops) /\ WF_vars(GdbWrite)

FairSpec == Spec /\ Fairness

-----------------------------------------------------------------------------
(* Properties.                                                             *)

\* What the pipeline between SendString and gdb still holds, oldest first.
\* A write that the kernel has carried out is already in gdb's pipe.
InFlight    == IF writeState = "posted" THEN inWrite ELSE <<>>
Outstanding == gdbIn \o InFlight \o pending

Command == [op : AllOps, tok : Int]
Output  == [class : {"done", "error", "running", "stopped", "exited"},
            op : AllOps \cup {"async"}, tok : Int, at : Nat]
Piece   == [out : Output, end : BOOLEAN]
Notification == [event : {Handler[op] : op \in HandledOps} \cup {"OnRetrievedStack", "OnStopped"},
                 frames : Nat, args : Nat]

\* Type invariant: the ranges of the fields of ReaderWriter, of the pipes and
\* of the histories; the write buffer holds at most one command (SendString).
TypeOK ==
  /\ phase \in {"alive", "closing", "gone"} /\ terminating \in BOOLEAN
  /\ writeState \in IoStates /\ inWrite \in Seq(Command) /\ Len(inWrite) <= 1
  /\ pending \in Seq(Command)
  /\ readState \in IoStates /\ readBuf \in Seq(Piece) /\ unused \in Seq(Piece)
  /\ DOMAIN handlers \subseteq Nat
  /\ \A t \in DOMAIN handlers : \E op \in HandledOps : handlers[t] = Handler[op]
  /\ nextToken \in Nat /\ frames \in Nat /\ gotFrames \in BOOLEAN
  /\ posted \in Seq(Notification) /\ failed \in BOOLEAN
  /\ gdbIn \in Seq(Command) /\ gdbOut \in Seq(Piece) /\ gdbRest \in Seq(Piece)
  /\ gdbState \in {"dead", "stopped", "running"} /\ stops \in Nat
  /\ submitted \in Seq(Command) /\ received \in Seq(Command)
  /\ emitted \in Seq(Output) /\ dispatched \in Seq(Output)

\* Commands reach gdb in the order in which the tasks of the BACKEND thread
\* sent them, none lost, repeated or overtaken, although a command may wait in
\* pending_writes_ while later ones arrive (SendString, CompleteWrite).
Channel == INSTANCE CommandChannel WITH Message <- Command
CommandsInOrder == Channel!Spec

\* A command waiting in pending_writes_ always has a pending write ahead of it,
\* whose completion will send it: no interleaving strands the queue.
NoStrandedWrite == pending # <<>> => WritePending

\* Between two steps of the BACKEND thread a live ReaderWriter has a read queued
\* on gdb's output ("we keep an async read always queued", debug_core_gdb.h:21).
ReadAlwaysQueued == phase = "alive" => ReadPending

\* What gdb has written is dispatched in order, and every byte not dispatched is
\* still in gdb, in the pipe, in the read buffer or in unused_read_data_: parsing
\* out of partial and coalesced reads neither drops nor reorders an output.
OutputsInOrder ==
  Pieces(emitted) = Pieces(dispatched) \o unused \o readBuf \o gdbOut \o gdbRest

\* No DCHECK of a handler fires: each result record reaches the handler of the
\* command it answers, and the arguments of a stack arrive only after its frames
\* (debug_core_gdb.cc:144).
HandlersMatch == ~failed

\* A stack posted to the UI merges the frames and the arguments of one and the
\* same stop of the program.
StackOfOneStop ==
  \A k \in DOMAIN posted : posted[k].frames = posted[k].args

\* "We can assume there's no need to coordinate with the output it's giving us"
\* (debug_core_gdb.h:22-24): even when both pipes are full and gdb will not read
\* while it has output to write, every command is read by gdb in the end, unless
\* the ReaderWriter is destroyed.
EveryCommandDelivered ==
  \A n \in 1..(MaxCommands + 1) :
    (Len(submitted) >= n) ~> (Len(received) >= n \/ phase # "alive")

\* The destructor's loop ends: cancelling both operations, dropping
\* pending_writes_ and not restarting the read is enough for both completions
\* to arrive and for no new operation to start.
DestructorFinishes == (phase = "closing") ~> (phase = "gone")

\* "Process the records as it sends them" (debug_core_gdb.h:22): every output gdb
\* has produced is handed to SendNotifications in the end, without gdb having to
\* say anything more.
EveryOutputProcessed ==
  \A n \in 1..(MaxCommands + 1 + MaxStops) :
    (Len(emitted) >= n) ~> (Len(dispatched) >= n \/ phase # "alive")
=============================================================================
