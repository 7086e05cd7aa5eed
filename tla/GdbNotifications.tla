-------------------------- MODULE GdbNotifications --------------------------
(***************************************************************************)
(* The way of gdb's output from the pipe to the UI thread: reads, the      *)
(* parser, and ReaderWriter::SendNotifications (backend/debug_core_gdb.cc) *)
(* with its handlers and the conversions they call.                        *)
(***************************************************************************)
EXTENDS GdbMiReader, GdbToGenericConverter, FiniteSets, SequencesExt

CONSTANTS
  Handlers,        \* handler_for_result_: the handler bound to each token
  OutputsIn        \* the outputs in a stream as gdb means them: each has the
                   \* length of its text, whether it ends in a line feed, its
                   \* records, the notifications it stands for, and whether it
                   \* leaves out what a conversion insists on

VARIABLES
  next,       \* index of the record that SendNotifications is at
  frames,     \* stack_without_arguments_
  posted      \* the notifications posted to the UI thread

allVars == <<vars, next, frames, posted>>

NoFrames == [got |-> FALSE, frames |-> <<>>]
NInit == Init /\ next = 1 /\ frames = NoFrames /\ posted = <<>>

\* Mutation: the loop over the records starts at the wrong index.
NCompleteReadFromZero(n) == CompleteRead(n) /\ next' = 0 /\ UNCHANGED <<frames, posted>>
NCompleteRead(n) == CompleteRead(n) /\ next' = 1 /\ UNCHANGED <<frames, posted>>
NParse == Parse /\ UNCHANGED <<next, frames, posted>>

---------------------------------------------------------------------------
Record == output[next]
Results == Record.results
Notifying == phase = "notify" /\ next <= Len(output)
OneResult(name) == Len(Results) = 1 /\ Results[1].name = name
OnlyValue == Results[1].value

Answers(handler) ==
  /\ Notifying /\ Record.type = "^" /\ Record.id = "done"
  /\ Record.token \in DOMAIN Handlers
  /\ Handlers[Record.token].handler = handler

\* A handler either fails one of its CHECKs, which ends the program, or posts.
Continue == next' = next + 1 /\ UNCHANGED vars
Post(name, d) == posted' = Append(posted, [name |-> name, data |-> d])
StopUnless(checks) == ~checks /\ Stop /\ UNCHANGED <<next, frames, posted>>
PostIf(checks, name, d) ==
  \/ checks /\ Post(name, d) /\ Continue /\ UNCHANGED frames
  \/ StopUnless(checks)

HandlerStack ==
  LET checks == OneResult("stack") /\ RetrievedStackChecks(OnlyValue)
  IN /\ Answers("HandlerStack")
     /\ \/ checks /\ frames' = [got |-> TRUE, frames |-> RetrievedStack(OnlyValue)] /\ Continue /\ UNCHANGED posted
        \/ StopUnless(checks)

HandlerStackArgs ==
  LET checks == OneResult("stack-args") /\ frames.got /\ MergeArgumentsChecks(frames.frames, OnlyValue)
  IN /\ Answers("HandlerStackArgs")
     /\ \/ /\ checks
           /\ Post("OnRetrievedStack", MergeArguments(frames.frames, OnlyValue))
           /\ frames' = [frames EXCEPT !.got = FALSE]
           /\ Continue
        \/ StopUnless(checks)

HandlerVariables ==
  /\ Answers("HandlerVariables")
  /\ PostIf(OneResult("variables") /\ RetrievedLocalsChecks(OnlyValue), "OnRetrievedLocals", RetrievedLocals(OnlyValue))

HandlerCreateVariable ==
  /\ Answers("HandlerCreateVariable")
  /\ PostIf(WatchCreatedChecks(Results), "OnWatchCreated", WatchCreated(Results))

NothingChanged == OneResult("changelist") /\ OnlyValue = ListValue(<<>>)
HandlerVariableUpdates ==
  /\ Answers("HandlerVariableUpdates")
  /\ \/ NothingChanged /\ Continue /\ UNCHANGED <<frames, posted>>
     \/ /\ ~NothingChanged
        /\ PostIf(OneResult("changelist") /\ WatchesUpdatedChecks(OnlyValue), "OnWatchesUpdated", WatchesUpdated(OnlyValue))

HandlerVariableListChildren ==
  /\ Answers("HandlerVariableListChildren")
  /\ PostIf(ChildListChecks(Results), "OnWatchChildList",
            [parent |-> Handlers[Record.token].parent, children |-> WatchesChildList(Results)])

---------------------------------------------------------------------------
Stopped == Notifying /\ Record.type = "*" /\ Record.id = "stopped"
HasReason == Finds(Results, "reason", "string")
Reason == FindString(Results, "reason")
Breakpoint == {<<"breakpoint-hit">>}
Stepping == {<<"end-stepping-range">>, <<"function-finished">>}
StoppedFor(reasons) == Stopped /\ HasReason /\ Reason \in reasons

StoppedAtBreakpoint ==
  StoppedFor(Breakpoint) /\ PostIf(StoppedChecks(Results), "OnStoppedAtBreakpoint", StoppedFrame(Results))
StoppedAfterStepping ==
  StoppedFor(Stepping) /\ PostIf(StoppedChecks(Results), "OnStoppedAfterStepping", StoppedFrame(Results))
StoppedWithoutReason == Stopped /\ StopUnless(HasReason)

LibraryIsLoaded ==
  /\ Notifying /\ Record.type = "=" /\ Record.id = "library-loaded"
  /\ PostIf(LibraryLoadedChecks(Results), "OnLibraryLoaded", LibraryLoaded(Results))

TextNotification == "~" :> "OnConsoleOutput" @@ "&" :> "OnInternalDebugOutput"
Text ==
  /\ Notifying /\ Record.type \in DOMAIN TextNotification
  /\ Post(TextNotification[Record.type], Record.id)
  /\ Continue
  /\ UNCHANGED frames

\* Errors, answers that nobody waits for, other events, the end of the debuggee
\* (after a message box): NOTIMPLEMENTED writes a line to the log.
NotImplemented ==
  /\ Notifying
  /\ \/ Record.type \in {"+", "@"}
     \/ Record.type = "^" /\ (Record.id # "done" \/ Record.token \notin DOMAIN Handlers)
     \/ Record.type = "*" /\ Record.id # "stopped"
     \/ Stopped /\ HasReason /\ Reason \notin Breakpoint \cup Stepping
     \/ Record.type = "=" /\ Record.id # "library-loaded"
  /\ Continue
  /\ UNCHANGED <<frames, posted>>

StartRead ==
  /\ phase = "notify" /\ next > Len(output)
  /\ phase' = "read"
  /\ UNCHANGED <<stream, pipe, data, consumed, parserVars, next, frames, posted>>

SendNotifications ==
  \/ HandlerStack \/ HandlerStackArgs \/ HandlerVariables
  \/ HandlerCreateVariable \/ HandlerVariableUpdates \/ HandlerVariableListChildren
  \/ StoppedAtBreakpoint \/ StoppedAfterStepping \/ StoppedWithoutReason
  \/ LibraryIsLoaded \/ Text \/ NotImplemented \/ StartRead

NNext == (\E n \in 1..Len(pipe) : NCompleteRead(n)) \/ NParse \/ SendNotifications

\* The BACKEND thread goes on with what it is doing; gdb may stop writing.
Fairness == WF_allVars(NParse) /\ WF_allVars(SendNotifications)
Spec == NInit /\ [][NNext]_allVars /\ Fairness
---------------------------------------------------------------------------
(***************************************************************************)
(* Properties.                                                             *)
(***************************************************************************)
StopKinds == {"read", "parse", "notify", "stopped"}

\* Type invariant: positions, flags and the phase have their ranges, and the
\* reader's buffers are pieces of gdb's stream.
TypeOK ==
  /\ {stream, pipe, data, consumed} \subseteq Seq(Chars)
  /\ phase \in StopKinds
  /\ pos \in Nat
  /\ {error, found} \subseteq BOOLEAN
  /\ next \in Nat \ {0}

\* No byte of gdb's is lost, repeated or parsed twice: what outputs were made
\* of, what waits for more and what is still in the pipe are the whole stream,
\* however reads tear it and however often a parse starts over
\* (debug_core_gdb.cc 77-101, gdb_mi_parse.cc 406-431).
BytesConserved == stream = consumed \o data \o pipe

Starts(i) == FoldLeftDomain(LAMBDA sum, j : IF j < i THEN sum + OutputsIn[stream][j].length ELSE sum, 0, OutputsIn[stream])
\* The last output returned.
Handled == Cardinality({i \in DOMAIN OutputsIn[stream] : Starts(i) < Len(consumed)})
Current == OutputsIn[stream][Handled]
\* Outputs that can be recognised once n bytes have been read: a line feed
\* after the last carriage return may come later.
Complete(n) ==
  Cardinality({i \in DOMAIN OutputsIn[stream] :
     Starts(i) + OutputsIn[stream][i].length - (IF OutputsIn[stream][i].lf THEN 1 ELSE 0) <= n})

\* What the reader returns is what gdb wrote: the records of the next output,
\* with every token, name, string and nesting, and nothing of its neighbours.
OutputIsWhatGdbWrote == phase = "notify" => output = Current.records

\* A read that completes an output makes the parser return one: NULL means that
\* none is complete.  Otherwise the answer to a command would stay in the buffer
\* although it has arrived.
NothingOverlooked == phase = "read" /\ ~found => Complete(Len(consumed) + Len(data)) = Handled

Occurrences(c, i, j) == Cardinality({k \in i..j : data[k] = c})
\* The data ends inside a list whose elements are results, like stack=[frame={...
EndsInListOfResults ==
  \E i \in DOMAIN data :
    /\ data[i] = "["
    /\ CharAt(i + 1, Names)
    /\ \A j \in i..Len(data) : Occurrences("[", i, j) > Occurrences("]", i, j)

\* A number that the debuggee printed, in front of a line of gdb's.
NumberBeforeText ==
  \E i \in DOMAIN data : data[i] \in Numbers /\ CharAt(i + 1, StreamTypes \cup {Terminator})

\* The parser follows a null pointer only there, or fails its CHECK on a token
\* that gdb never wrote: torn data is harmless anywhere else (gdb_mi_parse.cc
\* 318 and 347 test error_, 340-344 does not; 109-127).
ParserStopsOnlyThere == phase = "stopped" /\ ~found => EndsInListOfResults \/ NumberBeforeText

\* Every notification says what gdb said, in order: whatever the order of the
\* fields, with arguments only in the stack they were asked for.
NotificationsSayWhatGdbSaid ==
  phase = "read" => posted = FlattenSeq([i \in 1..Handled |-> OutputsIn[stream][i].says])

\* A CHECK of a conversion stops the program only where gdb leaves out a value
\* that the conversion insists on, or gives an address that does not fit.
ChecksFailOnlyOnMissingData == phase = "stopped" /\ found => Current.unconvertible

\* The front end survives whatever part of an output a read returns: the test
\* gdb_mi_parse_test.cc:129 expects NULL for an output that is not complete.
TornOutputIsKept == phase # "stopped"

\* The parser always ends, at the end of data, at an error or with an output.
ParseEnds == phase = "parse" ~> phase # "parse"
=============================================================================
