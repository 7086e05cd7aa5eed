---------------------------- MODULE Application ----------------------------
(***************************************************************************)
(* The life of the program (main_win.cc): MainLoop starts and stops the    *)
(* threads, Application connects the debugger, and in between the UI       *)
(* thread shows sources (SourceView) and output (ScrollingOutputView).     *)
(* A text is set on the UI thread, made into tokens on the FILE thread,    *)
(* and comes back as lines; every change asks for a picture.               *)
(***************************************************************************)
EXTENDS AppThread, Lexer, ScrollHelper, Subprocess, SequencesExt

CONSTANTS
  Greetings,    \* what DebugPresenter::SetDisplay may show
  StopLines,    \* the lines, from one, at which gdb may stop
  MaxStops, MaxOutputs, MaxInputs   \* bounds on what gdb and the user do

FILE == 1
BACKEND == 2
AUX == 3
Empty == <<>>       \* ReadFileOnFILE leaves the text empty: its body is compiled out
Kinds == {"create", "connect", "notify", "load", "passive", "stopped", "output",
          "lost", "read", "loaded", "highlight", "commit"}
Task(kind, text, lines) == [kind |-> kind, text |-> text, lines |-> lines]
Plain(kind) == Task(kind, Empty, Empty)
To(thread, task) == [to |-> thread, task |-> task]

ASSUME ApplicationAssumption ==
  /\ ThreadCount = 4
  /\ CanPost = {<<UI, FILE>>, <<UI, BACKEND>>, <<BACKEND, UI>>}
  /\ Greetings \subseteq Seq(Symbols) /\ IsFiniteSet(Greetings)
  /\ StopLines \subseteq Nat \ {0}
  /\ {MaxStops, MaxOutputs, MaxInputs} \subseteq Nat

VARIABLES
  phase,       \* where RunMain is
  source,      \* SourceView: its lines, their text, the line of the program counter, its scrolling
  output,      \* ScrollingOutputView: how many lines, its scrolling
  text,        \* history: the text that was set last
  paints,      \* delayed tasks of the UI thread: ApplicationWindow::Paint
  picture,     \* what SourceView::Render drew last
  core,        \* what DebugCoreGdb did last to get ready: none, create, notify, load
  stops, outputs, inputs    \* how many there have been

viewVars == <<source, output, text, paints, picture>>
boundVars == <<stops, outputs, inputs>>
appVars == <<phase, viewVars, core, boundVars>>
vars == <<threadVars, subprocessVars, appVars>>

Fragment(type, value) == [type |-> type, text |-> value]
Loading == <<Fragment("Text", <<"Loading...">>)>>
NoText == <<"no text">>
NoPicture == [lines |-> <<>>, offset |-> 0, counter |-> -1]

Init ==
  /\ ThreadInit /\ SInit
  /\ phase = "start"
  /\ source = [lines |-> <<>>, from |-> Empty, counter |-> -1, scroll |-> NewScroll]
  /\ output = [lines |-> 0, scroll |-> NewScroll]
  /\ text \in Greetings
  /\ paints = 0
  /\ picture = NoPicture
  /\ core = "none"
  /\ stops = 0 /\ outputs = 0 /\ inputs = 0

Others == UNCHANGED subprocessVars
Alive == started # "failed" /\ phase # "crashed"
In(p) == phase = p /\ Alive

---------------------------------------------------------------------------
(***************************************************************************)
(* The highlighter.                                                        *)
(***************************************************************************)
\* Mutation: a // comment does not end its line.
PutTokenSameLine(h) ==
  LET token == Head(h.tokens)
      line == Append(h.line, Fragment(token.type, token.value))
  IN IF token.value = <<"nl">>
     THEN [tokens |-> Tail(h.tokens), lines |-> Append(h.lines, h.line), line |-> <<>>]
     ELSE [tokens |-> Tail(h.tokens), lines |-> h.lines, line |-> line]
\* A // comment contains its line feed.
PutToken(h) ==
  LET token == Head(h.tokens)
      line == Append(h.line, Fragment(token.type, token.value))
      rest == Tail(h.tokens)
  IN CASE token.value = <<"nl">> -> [tokens |-> rest, lines |-> Append(h.lines, h.line), line |-> <<>>]
       [] token.value # <<"nl">> /\ token.type = "CommentSingle" ->
            [tokens |-> rest, lines |-> Append(h.lines, line), line |-> <<>>]
       [] OTHER -> [tokens |-> rest, lines |-> h.lines, line |-> line]
\* What follows the last line is dropped.
Tokens == [type : TokenTypes, value : Seq(Symbols)]
Line == Seq([type : TokenTypes, text : Seq(Symbols)])
Lines[h \in [tokens : Seq(Tokens), lines : Seq(Line), line : Line]] ==
  IF h.tokens = <<>> THEN h.lines ELSE Lines[PutToken(h)]
SyntaxHighlight(t) == Lines[[tokens |-> GetTokensUnprocessed(t), lines |-> <<>>, line |-> <<>>]]

Highlighted ==
  {[text |-> t, ends |-> LexEnds(t), lines |-> SyntaxHighlight(t)] : t \in Greetings \cup {Empty}}

\* The closures that the program posts; a commit only once the lexer is done.
Closures ==
  {Plain(kind) : kind \in Kinds}
  \cup {Task("highlight", t, Empty) : t \in Greetings \cup {Empty}}
  \cup {Task("commit", h.text, h.lines) : h \in {g \in Highlighted : g.ends}}
ASSUME TasksAssumption == Closures \subseteq Tasks

---------------------------------------------------------------------------
(***************************************************************************)
(* SourceView and ScrollingOutputView.  Invalidate posts a delayed Paint   *)
(* to the UI thread itself.                                                *)
(***************************************************************************)
Invalidate(n) == paints' = paints + n

SetData(t) ==
  /\ source' = [source EXCEPT !.lines = <<Loading>>, !.from = NoText]
  /\ text' = t
  /\ Invalidate(1)

\* Mutation: the lines are dropped while "Loading..." is shown.
CommitEarlierLines(task) == IF source.from = NoText THEN source ELSE [source EXCEPT !.lines = task.lines, !.from = task.text]
Committed(task) == [source EXCEPT !.lines = task.lines, !.from = task.text]

SourceSize == ContentSize(Len(source.lines))
OutputSize == ContentSize(output.lines)
Draw(view) ==
  [lines |-> [i \in LinesDrawn(view.scroll, Len(view.lines)) |-> view.lines[i + 1]],
   offset |-> view.scroll.offset,
   counter |-> IF LineInView(view.scroll, view.counter) THEN view.counter ELSE -1]

\* AddText leaves the picture as it is.
Added(n) ==
  LET longer == [output EXCEPT !.lines = @ + n]
  IN IF ContentSize(longer.lines) > ScreenHeight
     THEN [longer EXCEPT !.scroll = ScrollToEnd(@, ContentSize(longer.lines))]
     ELSE longer

---------------------------------------------------------------------------
(***************************************************************************)
(* RunMain on the UI thread.                                               *)
(***************************************************************************)
MainMessageLoopStart == In("start") /\ StartMain /\ phase' = "threads" /\ Others /\ UNCHANGED <<viewVars, core, boundVars>>

CreateThread(id) ==
  /\ In("threads")
  /\ Initialize(id) \/ StartWithOptions(id)
  /\ Others /\ UNCHANGED appVars

SetDisplay == SetData(text)     \* DebugPresenter greets the user

\* Application::Application, down to the post of DebugCoreGdb::Create.
CreateApplication ==
  /\ In("threads") /\ message_loop[AUX]
  /\ phase' = "run"
  /\ SetDisplay
  /\ RunMessage(UI, <<To(FILE, Task("highlight", text, Empty)), To(BACKEND, Plain("create"))>>)
  /\ Others /\ UNCHANGED <<output, picture, core, boundVars>>

Close ==        \* WM_CLOSE: QuitNow
  /\ In("run")
  /\ phase' = "shutdown"
  /\ RunMessage(UI, <<>>)
  /\ Others /\ UNCHANGED <<viewVars, core, boundVars>>

ShutdownThread(id) ==
  /\ In("shutdown")
  /\ Stop(id) \/ Joined(id)
  /\ Others /\ UNCHANGED appVars

DestroyApplication ==
  /\ In("shutdown")
  /\ Free(UI) /\ \A id \in IDs \ {UI} : ~threads[id]
  /\ phase' = "destroyed"
  /\ Others /\ UNCHANGED <<threadVars, viewVars, core, boundVars>>

DestroyMainLoop ==
  /\ In("destroyed")
  /\ EndMain
  /\ phase' = "done"
  /\ Others /\ UNCHANGED <<viewVars, core, boundVars>>

---------------------------------------------------------------------------
(***************************************************************************)
(* Tasks and messages of the UI thread.                                    *)
(***************************************************************************)
First(t, kind) == queue[t] # <<>> /\ Head(queue[t]).kind = kind
UIRuns(kind, posts) == In("run") /\ First(UI, kind) /\ RunTask(UI, posts, <<>>) /\ Others /\ UNCHANGED <<phase, core, boundVars>>

ConnectDebugCore ==     \* and DebugPresenter::SetDebugCore
  /\ UIRuns("connect", <<To(BACKEND, Plain("notify")), To(BACKEND, Plain("load"))>>)
  /\ UNCHANGED viewVars

\* Mutation: the line changes, the picture stays.
SetProgramCounterLineOnly(line) == source' = [source EXCEPT !.counter = line - 1] /\ UNCHANGED paints
SetProgramCounterLine(line) == source' = [source EXCEPT !.counter = line - 1] /\ Invalidate(1)

\* GetStack, GetLocals and UpdateWatches.
UpdatePassiveDisplays == <<To(BACKEND, Plain("passive")), To(BACKEND, Plain("passive")), To(BACKEND, Plain("passive"))>>

OnStoppedAtBreakpoint ==
  /\ UIRuns("stopped", <<To(FILE, Plain("read"))>> \o UpdatePassiveDisplays)
  /\ \E line \in StopLines : SetProgramCounterLine(line)
  /\ UNCHANGED <<output, text, picture>>

FileLoadCompleted ==
  /\ UIRuns("loaded", <<To(FILE, Task("highlight", Head(queue[UI]).text, Empty))>>)
  /\ SetData(Head(queue[UI]).text)
  /\ UNCHANGED <<output, picture>>

CommitAfterHighlight ==
  /\ UIRuns("commit", <<>>)
  /\ source' = Committed(Head(queue[UI]))
  /\ Invalidate(1)
  /\ UNCHANGED <<output, text, picture>>

AddText ==
  /\ UIRuns("output", <<>>)
  /\ output' = Added(1)
  /\ UNCHANGED <<source, text, paints, picture>>

\* OnConsoleOutput of a null receiver: the program crashes.
CallThroughNull ==
  /\ In("run") /\ First(UI, "lost") /\ Free(UI)
  /\ phase' = "crashed"
  /\ Others /\ UNCHANGED <<threadVars, viewVars, core, boundVars>>

\* Both views are drawn in one picture; each that still moves asks for another.
Asks(scroll) == IF NeedsMore(scroll) THEN 1 ELSE 0
Render(tasks) ==
  LET shown == [source EXCEPT !.scroll = Update(@)]
      below == [output EXCEPT !.scroll = Update(@)]
  IN /\ source' = shown
     /\ output' = below
     /\ picture' = Draw(shown)
     /\ paints' = paints - tasks + Asks(shown.scroll) + Asks(below.scroll)

Paint ==
  /\ In("run") /\ paints > 0
  /\ RunMessage(UI, <<>>)
  /\ Render(1)
  /\ Others /\ UNCHANGED <<phase, text, core, boundVars>>

Input ==
  /\ In("run") /\ inputs < MaxInputs
  /\ inputs' = inputs + 1
  /\ RunMessage(UI, <<>>)
  /\ Others /\ UNCHANGED <<phase, text, core, stops, outputs>>

Scrolled(view, size) ==     \* by CommonNotifyKey or CommonMouseWheel
  {[view EXCEPT !.scroll = CommonNotifyKey(@, key, size)] : key \in Keys} \cup
  {[view EXCEPT !.scroll = CommonMouseWheel(@, delta, size)] : delta \in {-2 * LineHeight, 2 * LineHeight}}

ScrollSource == Input /\ source' \in Scrolled(source, SourceSize) /\ Invalidate(1) /\ UNCHANGED <<output, picture>>
ScrollOutput == Input /\ output' \in Scrolled(output, OutputSize) /\ Invalidate(1) /\ UNCHANGED <<source, picture>>
Expose == Input /\ Render(0)    \* WM_PAINT

---------------------------------------------------------------------------
(***************************************************************************)
(* Tasks of the FILE and BACKEND threads, and gdb.                         *)
(***************************************************************************)
ReadFileOnFILE ==
  /\ Alive /\ First(FILE, "read")
  /\ RunTask(FILE, <<>>, <<Plain("loaded")>>)
  /\ Others /\ UNCHANGED appVars

\* HighlightOnFILE returns when the lexer does.
HighlightOnFILE ==
  /\ Alive /\ First(FILE, "highlight")
  /\ \E h \in Highlighted :
       /\ h.text = Head(queue[FILE]).text /\ h.ends
       /\ RunTask(FILE, <<>>, <<Task("commit", h.text, h.lines)>>)
  /\ Others /\ UNCHANGED appVars

\* The constructor of DebugCoreGdb; if gdb cannot be started a CHECK ends the
\* program.
Create ==
  /\ Alive /\ First(BACKEND, "create")
  /\ \/ StartSubprocess /\ UNCHANGED <<threadVars, core>>
     \/ started = "started" /\ RunTask(BACKEND, <<>>, <<Plain("connect")>>) /\ core' = "create" /\ Others
  /\ UNCHANGED <<phase, viewVars, boundVars>>

BackendRuns ==
  /\ Alive
  /\ \E kind \in {"notify", "load", "passive"} :
       First(BACKEND, kind) /\ core' = IF kind = "passive" THEN core ELSE kind
  /\ RunTask(BACKEND, <<>>, <<>>)
  /\ Others /\ UNCHANGED <<phase, viewVars, boundVars>>

\* Completions of reads: gdb reports a stop of the process it has loaded, or
\* prints a line.  It may print as soon as it is read from; what it prints
\* before SetDebugNotification is posted to a null receiver.
GdbStops ==
  /\ Alive /\ core = "load" /\ stops < MaxStops
  /\ stops' = stops + 1
  /\ RunMessage(BACKEND, <<To(UI, Plain("stopped"))>>)
  /\ Others /\ UNCHANGED <<phase, viewVars, core, outputs, inputs>>

GdbPrints ==
  /\ Alive /\ core # "none" /\ outputs < MaxOutputs
  /\ outputs' = outputs + 1
  /\ RunMessage(BACKEND, <<To(UI, Plain(IF core = "create" THEN "lost" ELSE "output"))>>)
  /\ Others /\ UNCHANGED <<phase, viewVars, core, stops, inputs>>

Helper(t) == Alive /\ PostTaskHelper(t) /\ Others /\ UNCHANGED appVars
Quits(t) == Alive /\ Quit(t) /\ Others /\ UNCHANGED appVars

MainThread ==
  \/ MainMessageLoopStart \/ (\E id \in IDs : CreateThread(id)) \/ CreateApplication
  \/ (\E id \in IDs : ShutdownThread(id)) \/ DestroyApplication \/ DestroyMainLoop
  \/ ConnectDebugCore \/ OnStoppedAtBreakpoint \/ FileLoadCompleted \/ CommitAfterHighlight \/ AddText
  \/ CallThroughNull \/ Paint
OtherThreads ==
  \/ ReadFileOnFILE \/ HighlightOnFILE \/ Create \/ BackendRuns
  \/ \E t \in IDs : Quits(t)
AnyThread == MainThread \/ OtherThreads \/ \E t \in IDs : Helper(t)
UserAndGdb == ScrollSource \/ ScrollOutput \/ Expose \/ Close \/ GdbStops \/ GdbPrints
Next == AnyThread \/ UserAndGdb

\* While a thread has something to do, some thread does something: less than a
\* scheduler that is fair to each of the four.  Nothing is asked of gdb and the
\* user.
Fairness == WF_vars(AnyThread)
Spec == Init /\ [][Next]_vars /\ Fairness
---------------------------------------------------------------------------
(***************************************************************************)
(* Properties.                                                             *)
(***************************************************************************)
ScrollOK(scroll, lines) ==
  /\ scroll.offset \in -LineHeight .. LineHeight * lines
  /\ scroll.target \in -LineHeight .. LineHeight * lines
  /\ scroll.ticks \in Nat
MostLines == Max({Len(t) : t \in Greetings}) + 1

\* Type invariant: also, no offset leaves the text that it was clamped to, nor
\* goes further up than one line above an empty one.
TypeOK ==
  /\ \A t \in IDs : queue[t] \in Seq(Tasks) /\ outbox[t] \in Seq(Posts)
  /\ phase \in {"start", "threads", "run", "shutdown", "destroyed", "done", "crashed"}
  /\ ScrollOK(source.scroll, MostLines) /\ ScrollOK(output.scroll, MaxOutputs)
  /\ paints \in Nat

InQueues(kinds) ==
  \E t \in IDs : \/ \E i \in DOMAIN queue[t] : queue[t][i].kind \in kinds
                 \/ \E i \in DOMAIN outbox[t] : outbox[t][i].task.kind \in kinds

\* Once no highlighting is under way the lines are those of the text that was
\* set last, however many were set while earlier ones were being highlighted
\* (source_view.cc 63-93): the late lines of an earlier text never stay.
SourceShowsLastText ==
  phase = "run" /\ ~InQueues({"highlight", "commit"}) => source.from = text

Shown(line) ==
  FlattenSeq([i \in DOMAIN line |-> line[i].text]) \o
  (IF line # <<>> /\ line[Len(line)].type = "CommentSingle" THEN <<>> ELSE <<"nl">>)
HasNewline(t) == \E i \in DOMAIN t : t[i] = "nl"
\* Line feeds that a longer token takes with it.
TakesNewline(t) ==
  \E i \in DOMAIN t :
    \/ t[i] = "#if0"
    \/ i < Len(t) /\ SubSeq(t, i, i + 1) \in {<<"blank", "nl">>, <<"bs", "nl">>, <<Slash, Star>>}

\* The lines shown are the text, symbol by symbol, up to its last line feed;
\* only what follows it is dropped (source_view.cc 24), and more only where a
\* token takes the line feed with it.
LinesAreTheText ==
  source.from # NoText =>
    LET lines == FlattenSeq([i \in DOMAIN source.lines |-> Shown(source.lines[i])])
        rest == SubSeq(source.from, Len(lines) + 1, Len(source.from))
    IN source.from = lines \o rest /\ (HasNewline(rest) => TakesNewline(source.from))

\* If no picture is on its way, the last one shows the source view as it is,
\* and its scrolling has come to rest: nothing that changes it forgets to ask
\* for a picture, and no animation stops before it ends.
PictureCurrent ==
  phase = "run" /\ paints = 0 =>
    picture = Draw(source) /\ source.scroll.offset = source.scroll.target

\* Once the user has closed the window the program ends, whatever is queued,
\* being read or being highlighted, unless gdb cannot be started.
ShutdownEnds == phase = "shutdown" ~> phase = "done" \/ started = "failed"
=============================================================================
