# Seaborgium in TLA+

Seaborgium is a graphical debugger: a Windows front end that drives gdb through
its machine interface (GDB/MI). This directory specifies its core logic in TLA+,
checks it with TLC on small instances and proves parts of it with TLAPS for all
instances. Paths below are relative to `src/sg/` unless they say otherwise.

## 1. The system

### Threads

`main_loop.cc` starts four threads, `UI` (the main one), `FILE`, `BACKEND` and
`AUX`. They share almost nothing: each has a task queue, and they work by posting
closures to each other with `AppThread::PostTask` (`app_thread.cc`). Within a
thread, tasks and I/O completions run one at a time.

    keyboard, mouse                                       disk
         |                                                  |
      UI thread ---- PostTaskAndReply --------------->  FILE thread
      Workspace, LocalsView, DebugPresenter
         |   ^
         |   |  notifications (tasks)
         v   |  requests (tasks bound to a WeakPtr)
      BACKEND thread
      DebugCoreGdb, ReaderWriter
         |   ^
         v   |  pipes, overlapped I/O
        gdb process ---- the program being debugged

### Components

| Component | State | Operations | What makes it correct |
|---|---|---|---|
| `DebugCoreGdb` (`backend/debug_core_gdb.cc` 344-561) | token counter, gdb process | one method per request of the UI; each sends one or two commands | the commands of a request are sent in order, each with the handler of its answer |
| `ReaderWriter` (`backend/debug_core_gdb.cc` 32-342) | one overlapped read, one overlapped write, `pending_writes_`, `unused_read_data_`, `handler_for_result_`, the half-merged stack | `SendString`, `OnIOCompleted`, record handlers, destructor | commands delivered in order and eventually; outputs dispatched once and in order; no deadlock with gdb; shutdown ends |
| `GdbMiReader` (`backend/gdb_mi_parse.cc`) | none between calls; position, error flag and call stack within one | `Parse(data)` gives one output and the bytes consumed, or nothing | consumes exactly up to the prompt, whatever the split into reads; the records are what gdb wrote; always ends |
| `gdb_to_generic_converter.cc` | none | records to notification structs | says what gdb said; tolerates what gdb leaves out |
| `DebugPresenter` (`debug_presenter.cc`) | `running_`, `variable_counter_`, `local_to_backend_` | keys, expansion, one method per notification | names, rows and gdb's variable objects stay in step; the display converges to the last stop |
| `LocalsView`, `TreeViewHelper` (`locals_view.cc`, `ui/tree_view_helper.cc`) | `children_`, `node_data_`, buttons of the last picture | add, set, remove, expand, render, click | the tree is consistent; its assertions hold |
| `AppThread`, `MainLoop` (`app_thread.cc`, `main_loop.cc`) | global array of threads under a lock | start, post, reply, stop | nothing is posted to a dead thread, with the lock or without; threads die in reverse order; the program ends |
| `ConcurrentQueue`, `MessageLoopX` (`basex/`) | queue, mutex, condition variable | `Push`, `Wait` | every item is taken once; nobody sleeps beside a full queue |
| Docking (`ui/docking_*.cc`, `ui/tool_window_dragger.cc`) | binary tree of containers, a drag in progress with the pointers it remembers | split, release, replace, resize, drag, cancel | owning and parent pointers match; no window or container is lost; rectangles are current; cancelling restores the layout; a drag never follows a dangling pointer |
| `Workspace` (`workspace.cc`) | focus, hover, current drag | input dispatch, layout, delayed repaint | input goes to what is on the screen |
| `SourceView`, lexer (`source_view.cc`, `lexer.cc`, `cpp_lexer.cc`) | lines, program counter, stack of lexer states | `SetData`, highlight on `FILE`, commit on `UI` | the lines belong to the last text and are that text; the picture is current |
| Scrolling (`ui/scroll_helper.cc`, `ui/scrolling_output_view.cc`) | offset, target, ticks since it stopped | keys, wheel, clamp, one step per picture | position within the content; the animation comes to rest there |
| `Subprocess` (`backend/subprocess_win.cc`) | pipe handles, gdb's process | create the pipes, start gdb | each end of a pipe has one holder once gdb runs |
| native backend, rendering, `third_party`, `art` | | | not modelled, see section 6 |

### What is hard here

Nothing is locked across two operations of the session, so what goes wrong goes
wrong between steps: commands queued while an I/O operation is pending, reads that
split and join gdb's outputs, a destructor that runs completions, answers that
arrive when the user has gone on, names that leave and re-enter the scope while
their creation or deletion is still on its way. In the window layout everything runs
on one thread, and what is hard is the protocol: a drag keeps plain pointers into a
tree that it rebuilds at every move, and relies on the window system to tell it
when it ends. Between the threads it is the locking that is left out: a post skips
the lock of the array of threads when the target lives longer, which is right only
while threads start, post and die in the order of their identifiers; results of the
FILE thread arrive when the text has been replaced; and the window may be closed in
the middle of anything. PROJECT.json lists these hazards
by line with the properties aimed at each.

## 2. The modules

| Module | Models | Theorems |
|---|---|---|
| `DebugCoreGdb` | the commands of every request and the handler of each command | |
| `ReaderWriter` | the `ReaderWriter`, the kernel's pipes and gdb at the level of bytes moving | `ReaderWriterProofs` |
| `CommandChannel` | abstract: an ordered, lossless link | (implemented by `ReaderWriter`) |
| `LocalsView` | the tree of watches as operators | |
| `DebugSession` | `DebugPresenter`, the view, the user and gdb at the level of requests and answers | `DebugSessionProofs` |
| `WatchLedger` | abstract: names, identifiers, creations and deletions | `WatchLedgerProofs` |
| `DockingTree` | the tree of docked windows as a value, its operations as operators | `DockingTreeProofs` |
| `Docking` | `Workspace`, `ToolWindowDragger`, `DockingResizer`: the mouse and the tree | `DockingProofs` |
| `GdbMiReader` | the parser as a stack of calls, restarted on the data that is left | `GdbNotificationsProofs` |
| `GdbToGenericConverter` | the conversions as operators, each with the condition that its CHECKs state | |
| `GdbNotifications` | composes both: reads, parse, conversion, notifications posted | `GdbNotificationsProofs` |
| `AppThread` | threads, loops, the array and its lock, the steps of `PostTaskHelper` | `AppThreadProofs` |
| `Lexer` | `Lexer::GetTokensUnprocessed` with the rules of the C++ lexer | in `ApplicationProofs` |
| `ScrollHelper` | one scroll position as a value | in `ApplicationProofs` |
| `Subprocess` | the handles of the pipes while gdb is started | |
| `Application` | composes the last four with `MainLoop`, `SourceView` and `ScrollingOutputView` | `ApplicationProofs` |
| `MCReaderWriter`, `MCDebugSession`, `MCDocking`, `MCGdbNotifications`, `MCApplication` | the instances for TLC | |

`ReaderWriter` and `DebugSession` are layers of one system. `ReaderWriter` shows that
commands travel to gdb in order, unaltered and in the end (`CommandsInOrder`,
`EveryCommandDelivered`); `DebugSession` relies on that and replaces the whole path
from `PostTask` to gdb by one queue, `toGdb`. Both take the requests and their
commands from `DebugCoreGdb`.

### ReaderWriter

Variables carry the source's members: `pending` is `pending_writes_`, `unused` is
`unused_read_data_`, `frames` and `gotFrames` are `stack_without_arguments_` and
its flag. An I/O `State` becomes `idle` (not pending), `posted` (with the kernel),
`done` or `cancelled` (handed back, completion not yet run). Actions: `RunRequest`
(a task), `CompleteRead` and `CompleteWrite` (`OnIOCompleted` with everything it
calls, including the next `StartRead` or `SendString`), `BeginDestroy` and
`EndDestroy` (the two ends of the destructor, between which its own loop runs
completions). Outside the repository: `KernelRead`, `KernelWrite`,
`GdbReadCommand`, `GdbWrite`, `GdbStops`. An output of gdb, up to its prompt, is
two pieces, a body and an end, so that a read can tear it or join it to the next.
It stands for one record; lines that only carry text to a log are left out.

### DebugSession

`toGdb` are the requests on their way, `toUI` the notifications, `loads` the
replies due from the FILE thread. Each `On...` action is one method of
`DebugPresenter`, with the calls it makes into the view. `Click` is the chain from
`TreeViewHelper::NotifyMouseButton` to `NotifyVariableExpansionStateChanged`;
`Paint` is the delayed repaint, until which clicks go to the buttons of the old
picture. A failed assertion ends the session: `failed` names it. `program` and
`objects` are gdb's: the stop the program is at, what is in scope there, and the
variable objects. Values, types and stack frames are data; a stop is a number, and
what is displayed is the number of the stop that it shows.

### DockingTree and Docking

A tree is a record of functions: `left`, `right`, `direction` and `fraction` of each
container, `parent` and `rect` of each node. `Root` is the container that
`DockingWorkspace` keeps as `root_`; the others are taken from a pool
(`MaxContainers`), and one that has been deleted has no children and no parent. The
operators are the methods of `DockingSplitContainer`, each returning the tree it
leaves, rectangles included: `SplitChild`, `ReleaseChild` (with the `Replace` it
calls on the grandparent, which deletes the container), `SetFraction`,
`SetScreenRect`. Rectangles are symbolic: the size of the workspace followed by a
direction, a fraction and a side for each container on the way down. Two windows
whose expressions are equal have equal rectangles, so "is where it was" and "is up
to date" can be stated without pixels; rounding cannot.

`Docking` has `tree` (`main_area_`) and `draggable` (`draggable_`, with the fields
of the dragger). `Press`, `Release` and `Move` are the mouse messages with all that
`NotifyMouseButton` and `NotifyMouseMoved` do; `Press` chooses among what can be
under the pointer, a title bar (`PickUp`), a splitter (`GrabSplitter`) or contents
(`ClickContents`), and a `Move` with a window in hand among no target and each of
the indicators. `ResetDraggable` is `draggable_.reset(...)`, whose argument is
constructed before the old object is destroyed: this order is the finding. `Resize`
is WM_SIZE, at any time. `captured` and `inside` say whether the program gets the
next message. `before` and `without` are history variables: the layout when the
last window was picked up, and the one without it. A call through a null or dead
pointer ends the program: `stopped` names it.

### GdbMiReader, GdbToGenericConverter and GdbNotifications

The parser is a recursive descent in C++; here `stack` holds the calls, each a record
with its locals, and `returned` the value on its way to the caller. Every action is
one decision of one `Consume...` function: what it tests, how far `pos` moves, what
it calls or returns. That makes visible what a recursive definition would hide: a
function that returns NULL without setting `error_` at the end of the data
(`DataEnds`), a caller that tests `error_` (`ElementFails`) and one that does not
(`NullDereference`). `CompleteRead` appends any part of the pipe to `data` and starts
the parse again, as `ReaderWriter` does; `TerminatorRecord` takes the bytes of an
output off. `ReaderWriter` (above) abstracts all this by "the first prompt ends an
output".

For each conversion X, `XChecks` is the conjunction of its CHECKs and `X` the data
it returns; which texts fit an int, as addresses or numbers, are the constants
`IntAddresses` and `IntTexts`. `GdbNotifications` has one action per branch of `SendNotifications` and
per handler; a failing CHECK leads to `phase = "stopped"`. `OutputsIn` says what a
stream means. `MCGdbNotifications` writes each stream and its meaning together, from
combinators (`Str`, `Tuple`, `List`, `Named`) that give a text and a value, so the
parser is checked against a printer and not against itself.

### AppThread, Lexer, ScrollHelper, Subprocess and Application

`threads[t]` says whether the array has an entry, `message_loop[t]` whether that
thread's loop is there; base::Thread clears the second without the array's lock. A
task leaves what it posts in `outbox`, and `PostTaskHelper` takes it from there in
the steps of the code: one entry of the array at a time (`Scan`), the lock or not
(`Acquire`), the pointer (`ReadLoop`), the post (`Deliver`). Everything else may
happen between these steps. `CanPost` says who posts to whom; the assumption on it
is what the code relies on and `Application` meets it. `ThreadSpec` is any collection
of threads that keep to `CanPost`; `Application` is shown to be one.

In `Lexer` a regular expression becomes the length that it matches, and a text is a
sequence of symbols that no rule breaks up: a word is one, and so is `#if 0`, which
every rule takes whole or not at all; `#` and the word after it are two. `LexRound` is one round of the loop.
`ScrollHelper` keeps the integer arithmetic of the code, truncation included.
`Subprocess` has one action per Win32 call that makes or closes handles.

`Application` is the program from `RunMain` to its end. Actions are tasks and
messages of the four threads, each built from an action of `AppThread` (`RunTask`,
`RunMessage`), so a task runs, posts and replies as threads do. `source` and
`output` are the two views; `paints` counts the delayed `Paint` tasks, one per
`Invalidate`; `picture` is what `SourceView::Render` drew last; `text` and
`source.from` are history variables: the text set last, and the one whose lines are
shown. `core` is how far `DebugCoreGdb` has come (created, `SetDebugNotification`,
`LoadProcess`); gdb may print from the first on and stop from the last on. What it
prints before `SetDebugNotification` is posted with a null receiver, and the program
ends when the UI thread calls it (`CallThroughNull`, phase `crashed`).

## 3. The runs

All runs finish in about two minutes or less with two workers.

| Run | Instance | Shows |
|---|---|---|
| `reader_writer` | 3 kinds of request, at most 4 commands beyond the first, 1 stop, gdb's input pipe holds 1 command and its output pipe 3 pieces, a read returns 1 to 3 pieces | `TypeOK`; `NoStrandedWrite`; `ReadAlwaysQueued`; `OutputsInOrder`; `HandlersMatch`; `StackOfOneStop`; `CommandsInOrder`; `EveryCommandDelivered`; `DestructorFinishes` |
| `reader_writer_coalesced` | the same, smaller | finding: `EveryOutputProcessed` is violated |
| `debug_session` | a local with two fields and one without, in scope together or the first alone; F10 and C-S-F5, 3 keys, 2 clicks, 3 stops | `TypeOK`; `ViewMatchesMap`; `QuiescentDisplay`; `NoWatchLeak`; `WatchesAreALedger`; `Settles` |
| `debug_session_expand_twice` | one local with a field, 4 clicks | finding: `RemovedNodeIsInItsParent` is violated |
| `debug_session_collapsed` | one local with a field, 2 clicks, 2 stops | finding: `UpdatedNodeExists` is violated |
| `debug_session_backend_variable` | one local that is in scope at some stops | finding: `EveryLocalHasABackendVariable` is violated |
| `debug_session_restart` | one local, C-S-F5 then F10 | finding: `F10Steps` is violated |
| `docking` | the seven windows in both initial layouts, left button, 2 sizes, one splitter position, at most 2 drags or resizings | `TypeOK`; `TreeLinked`; `NoWindowLost`; `NoContainerLeaked`; `RectsCurrent`; `HoverLeavesNoTrace`; `HoverMovesTargetOnly`; `RememberedInTree`; `NeverStopped`; `CancelRestores` |
| `docking_capture_lost` | portrait layout, two buttons, 2 drags | finding: `CancelFindsSibling` is violated |
| `gdb_mi` | 15 conversations of one to three outputs, every answer and event the front end handles, read in any pieces | `TypeOK`; `BytesConserved`; `OutputIsWhatGdbWrote`; `NothingOverlooked`; `ParserStopsOnlyThere`; `NotificationsSayWhatGdbSaid`; `ChecksFailOnlyOnMissingData`; `ParseEnds` |
| `gdb_mi_torn_list` | one answer with a stack of frames, read in any pieces | finding: `TornOutputIsKept` is violated |
| `app` | four threads, two texts, one stop, one line of output, one scroll or repaint, the window closed at any time | `TypeOK`; `NoDanglingUse`; `SourceShowsLastText`; `LinesAreTheText`; `PictureCurrent`; `PipesHeldByTheirEnds`; `ShutdownEnds` |

Bounds. A command can be in four places at once: being written, in gdb's pipe, in
gdb, or waiting. Five commands fill all of them with the pipe at its limit; an
output pipe of three pieces cannot hold two outputs, so gdb blocks half way through
one, and a read of three pieces returns one output and half of the next. One stop
is enough to have a program running while commands wait. In the session, three
stops with two scopes let a name leave, return and leave while its creation or
deletion is still on its way; two clicks expand and collapse; three keys allow a
step or a restart while the answers of the previous stop are under way. The
counters that a bound stops (`keys`, `clicks`, `program.stops`, `Len(submitted)`,
`stops`) are inputs: when they are used up the system just receives no more, so
deadlock is not checked.

In `docking` the windows are those of the program and six containers are all that
seven windows need (`DockingAssumption`), so this bound is none. `MaxGestures`
counts drags started and resizings, not moves: in one drag a window may hover at any
number of targets, and every order of targets is explored. Two gestures give a drag
in a tree that another drag has rearranged, and a resizing in the middle of a
drag. The two sizes are symmetric. Splitters move to one fraction that differs from every other in use. The
invariants about pointers are proved without these bounds.

In `gdb_mi` a character stands for an identifier, a number or a run of text, so
reads tear records everywhere except inside one of these, where the parser takes
characters alike; tearing a string between two characters is included. Each
conversation needs at least one thing the others lack: a frame without symbols, a
depth that does not match, an escape, a carriage return whose line feed comes with
the next read, text of the debuggee on the same pipe. In `app` the two texts reach
every state of the lexer; `StopLines` puts the program counter on a line that a
scroll can hide. The source text changes twice, by the greeting and by the file of
the stop, so that one highlighting overtakes the other text. `LineHeight` 5 keeps the
factor 0.2 exact; the offset still takes several pictures to arrive. The indicators
fade in one tick instead of 120, which shortens the animation and nothing else. One
task per kind is enough for the array and the lock: what the number of threads
changes is proved.

Fairness. In `ReaderWriter` each completion, the kernel, gdb and the program under
debug are weakly fair: the message loop delivers completions, the kernel finishes
operations that can finish, gdb reads whenever it has nothing to write. Requests
and the destructor are not forced. In `DebugSession` one condition covers the
message loops and gdb: as long as something is enabled there (`~Idle`), something
happens; the user is not forced to do anything. `Docking` states no liveness: nothing
happens there unless the user acts. In `GdbNotifications` the BACKEND thread goes on
with a parse and with the notifications it has begun; gdb may stop writing. In
`Application` there is one condition again (`AnyThread`): while some thread has
something to do, some thread does something. This is less than a scheduler fair to
each of the four, and enough for `ShutdownEnds` because the work that is left when
the window closes is finite.

## 4. The findings

Seven runs end in a counterexample; each states what a comment, the help text or an
assertion of the code says.

- `EveryOutputProcessed`: `CompleteRead` parses one output per completion. When a
  read returns two, the second waits in `unused_read_data_` until gdb writes again,
  for instance a stop that the user does not see until the next key.
- `RemovedNodeIsInItsParent`: expand, collapse, expand before gdb answers; the
  children are added twice and the next collapse fails `locals_view.cc:64`.
- `UpdatedNodeExists`: collapsing a variable leaves its children in gdb; after the
  next step gdb reports one and `locals_view.cc:39` fails. The comment at
  `debug_presenter.cc:207` expects this for names that leave the scope; no name
  does here.
- `EveryLocalHasABackendVariable`: a creation carried out at a later stop, where the
  name is not in scope, fails; the name stays in the map and its row has no value.
- `F10Steps`: after C-S-F5 the first F10 starts the program again.
- `CancelFindsSibling`: pick up a window with the left button; press and release the
  right one, which releases the capture; leave the window, release the left button
  outside, where the release is lost; come back and press the left button on the
  title bar of the former neighbour. The new dragger takes the neighbour out of the
  tree, then `draggable_.reset` destroys the old one, whose `CancelDrag` calls
  `cancel_sibling_->parent()->SplitChild`: the parent is null, or, when the sibling was the
  container that has just been deleted, the sibling itself is freed memory.

- `TornOutputIsKept`: a read that ends inside a list of results, as in
  `stack=[frame={addr="0x4`, makes `ConsumeResult` return NULL, and `ConsumeList`
  (`gdb_mi_parse.cc:344`) uses it; the program ends instead of waiting for the rest.
  Torn data is harmless anywhere else (`ParserStopsOnlyThere`, `NothingOverlooked`),
  as the test of incremental parsing expects.

Modelling the parser and the program also showed what no line of documentation
contradicts; the passing properties name these cases.

- `-stack-list-arguments --simple-values` prints no value for a struct, and
  `gdb_to_generic_converter.cc:106` CHECKs that there is one; line 63 CHECKs that an
  address fits an int (`ChecksFailOnlyOnMissingData`).
- The debuggee writes to the pipe gdb writes to. The parser cannot tell an error
  from data that is not complete, so after a stray line it waits for ever, and a
  number in front of a line of text fails `CHECK_EQ` (`gdb_mi_parse.cc:112`,
  `NumberBeforeText`).
- A symbol that no rule of the lexer takes, e.g. `@` or an open quote, is only
  NOTREACHED (`lexer.cc:104`): in a release build the FILE thread loops for ever and
  the join at shutdown never returns. Out of reach today, because the body of
  `ReadFileOnFILE` is compiled out and every file is shown empty. Tokens of several
  lines swallow line feeds, so that line numbers would shift; `LinesAreTheText`
  allows for that (`TakesNewline`).
- What gdb prints before `SetDebugNotification` is bound to a null receiver
  (`debug_core_gdb.cc:245`). The task that sets it is posted by the UI thread once it
  hears that `DebugCoreGdb` exists, so a quick line of gdb may come first. Nothing
  says that gdb waits; `CallThroughNull` has the case.
- With two buttons a press can reach the program from outside its window: the right
  one takes the capture inside, the pointer leaves, and the left press finds no target,
  on which `workspace.cc:258` calls a method. `NeverStopped` and the theorem about it are
  claimed for the left button alone.
- `AddText` scrolls without `Invalidate`: new output is drawn when something else
  asks for a picture. `PictureCurrent` is therefore about the source view alone.
- Each `Invalidate` posts a `Paint` of its own and nothing joins them.
- Without content the scroll target is one line above the top, and `LineInView(-1)`
  then draws an indicator although there is no program counter.
- The comment at `app_thread.cc:31` asks for the lock at every access to the array;
  lines 162 and 299 go without. It is right nevertheless (`NoDanglingUse`), and the
  lock would not help: a loop goes away without it.

The passing properties of `DebugSession` hold up to such an assertion (`Going`):
the code ends there, and the model stops with it.

## 5. What is proved

`ReaderWriterProofs`, for all values of the constants that satisfy
`BoundsAssumption` and `RequestsAssumption` (the capacities are positive, requests
use existing methods):

- `TypeCorrect`, `NoStrandedWriteHolds`, `ReadAlwaysQueuedHolds`: invariants of `Spec`.
- `ReaderWriterIsAChannel`: `Spec` implements `CommandChannel`.
- `OutputsInOrderHolds`, `HandlersMatchHolds`, `StackOfOneStopHolds`: the other
  three invariants of the run, so every invariant of `ReaderWriter` is proved.

None of these is inductive. `IInv` adds `IoInv` (what the I/O states say about
the buffers and about `terminating_`, e.g. that a pending write has its command in
the buffer) and `OrderInv`: what gdb has received, then its pipe, then the buffer of
a write still posted, then `pending_writes_`, is a prefix of what was submitted,
and all of it while the ReaderWriter lives. The prefix is needed because the
destructor drops `pending_writes_`. The proof has a lemma per action, and
preservation of `OrderInv` moves the boundary between two neighbouring segments.
For the way back, `OutInv` says the same of gdb's output: what was notified, then the
posted tasks, then the read buffer, then the pipe. `HandlersMatch` needs that the token of every command and of every record is
registered with the handler of its command or has none (`TokensInv`). `StackInv` joins
all of these for `StackOfOneStop`: the arguments of a stack are always requested right
after its frames, and gdb does not resume the program between the two (`AskedInv`); so
both are answered for the same stop, and when the arguments are next to be dispatched
the frames that were kept are those of that stop (`AnsweredInv`).

`WatchLedgerProofs`, for every set of names: `NoLeakHolds` and `NoCollisionHolds`.
The inductive invariant adds that a creation still on its way whose watch is no
longer shown has its deletion behind it (`CreationsInv`): without that a creation
carried out late would leak.

`DebugSessionProofs`, from `SessionAssumption` alone, for any finite set of local
names, any scopes and fields, and any number of keys, clicks and stops:

- `SessionTyped`, `RowsAreTheMap`, `NoWatchLeaks`, `DisplayCatchesUp`: the invariants
  `TypeOK`, `ViewMatchesMap`, `NoWatchLeak` and `QuiescentDisplay` of the run.
- `SessionKeepsTheLedger`: `Spec` implements `WatchLedger` (`WatchesAreALedger`).
- `IdentifiersAreUsedOnce`: `NoCollision` of `WatchLedger`, carried over to the session
  by the refinement.

The invariants build on each other. `TypeInv` says that an identifier found anywhere,
in the map, the view, the buttons of the last picture, gdb's objects or anything on its
way, has been handed out, or is a field of one that has. That is more than
types: it is why `NewIds` cannot meet an old row, a late creation or a late answer.
`MapInv` adds `MapAgrees`: rows and map are both injective and have the same
identifiers. The work is in `OnRetrievedLocals` (`LocalsMap`, `RemoveNodesIn`), whose
loops over names, rows and removed nodes are recursive functions. As with `Given` below,
each first has to be shown to exist (`RoundsExist`), and what it returns follows by
induction over its rounds (`Rounds`).
`LeakInv` adds `Covered`: a creation on its way whose identifier the map no longer has
is followed by its deletion, and an object that the map does not know has its own on the
way. The order in `toGdb` is what decides, since a creation may be carried out stops after the name
left the scope. `DisplayInv` follows each of line, stack, file and names backwards
(`Latest`): the last notification of its kind on its way is that of the last stop, or
there is none and what is displayed is already right, or (stack and names) it has yet to
be asked for: the announcement of a stop or the request is on its way. Older answers
may come in any number before it.
For the refinement, `OnRetrievedLocals` is `Show`, carrying out a `CreateWatch` or
`DeleteWatch` is `Execute`, and all else is a stutter. `MapInv` and what follows hold
up to a failed assertion (`Going`), where the session ends; types and refinement need no
such condition.

`DockingTreeProofs` and `DockingProofs`, for every set of buttons, sizes and
fractions and any number of gestures, from `TreeAssumption` (leaves, containers and
null are different things) and `DockingAssumption` (seven different windows, and as
many containers as they need):

- `TreeStaysLinked`, `WindowsKept`, `ContainersKept`, `RememberedKept`: invariants
  of `Spec`.
- `DockingTyped`, `RectsStayCurrent`: `TypeOK` and `RectsCurrent`. Every node has the
  rectangle that the layout of its parent gives it, after every drag, undock and move.
- `OneButtonNeverStops`: with `Buttons = {0}`, also `NeverStopped`. The assumption is
  needed: the finding is its counterexample for two buttons.
- `NoTraceLeft`, `OnlyTargetMoves`, `CancelPutsBack`: with `Buttons = {0}`, hovering
  over targets and leaving them restores the layout, hovering moves no window but the
  target and the dragged one, and a cancelled drag puts every window back where it was.
  A second button can disturb the gesture of the first, as the finding shows, so the
  three are claimed for one button only.

A tree is `WellFormed` when it is `Shaped` (the fields have their ranges), `Linked`
(owning and parent pointers agree), `Ranked` (some rank grows from parent to child,
so there is no cycle) and `Counted` (one container fewer than windows). `SplitWellFormed`
and `ReleaseWellFormed` show that the two operations keep this, and exactly which
nodes enter and leave. The rank is what makes taking a window out possible: only a
tree with one window has a leaf directly under the root (`NotUnderRoot`, by descent
along ranks from the other window), and the source view cannot be picked up.
The count shows that an unused container is left whenever a window is out
(`RoomLeft`). `DragOK` adds what a drag knows: what it remembers is in the tree, the
dragged window is not among it, and while it hovers, neither is the container made
for it, so undocking deletes nothing that is remembered. `OneButton` adds that a drag lasts
no longer than the capture, and the capture no longer than the press.

`SetScreenRect` walks down the tree, so nothing about rectangles follows from one
unfolding of it. It is written as a recursive function on the nodes (`Given`), and a
recursive function is a CHOOSE: before anything can be said of it, one has to exist
(`GivenExists`). That, and every later fact about layout, goes by induction on the rank
of a node, stated as sets of naturals because the library's induction theorems
cannot be instantiated (`NatInd`, `LeastNat`, `LeastRank`). `RectInv` is then: the
tree is well formed, its root has the frame of the screen, and each child's
rectangle is the one its parent gives (`Placed`). For hovering, two trees are
compared: nodes lie in the same places when the ways down to them are `Alike`
(`SamePlaces`), whichever container objects these ways lead through. `SplitMovesOne`
shows that a split leaves all windows but its target in place, `OutAndBack` and
`InAndOut` that taking a window out and putting it back, and the reverse, change no
place. `HoverInv` says that at every moment of a drag undocking gives the layout
`without` the window, and cancelling after that the layout `before` the drag.

`GdbNotificationsProofs`, for every set of streams (`StreamsAssumption`) and every way
to cut them into reads: `BytesConservedAlways` and `ReaderTypes`. `Inv` joins the
ranges of the buffers and positions with `BytesConserved`; only `NCompleteRead` and
`TerminatorRecord` move bytes, from the pipe to the data and from the data to what is
consumed, and both cut one sequence where they join it to the other (`Cut`).

`AppThreadProofs`, for any number of threads and any posts that `CanPostAssumption`
allows: `NoDanglingUseAlways`. The inductive invariant says that the threads which
exist are a prefix of the identifiers and all but the last have loops (`Nested`);
who posts has a loop and posts where it may (`Posting`); a thread that is joined is the
last one, and the UI thread does nothing but wait for it (`Ending`); only the UI
thread takes the lock, and the search of the array ends at the thread itself
(`PlacesInOrder`); a loop that was read is still there (`LoopsRead`). A target
without the lock is older than a living thread and so lives.

`ApplicationProofs`, for all texts and bounds, from `ApplicationAssumption` and
`TasksAssumption` (`Tasks` has room for what the program posts; finitely many texts, where
the code has one, and bounds that are numbers): `ProgramIsThreads`,
`Spec` implements `ThreadSpec`, and with it `NoDanglingUseInProgram`, the property
that the run `app` checks of the instance. Every action of the program is built from
one of `AppThread`, so what has to be shown is what it posts. `ClosuresInv` says that
the queues and outboxes hold closures of the program only; `TextInv` that the text is
one that was set. The first is needed where `FileLoadCompleted` takes the text to
highlight from the closure it finds in the queue.
The other invariants of the run are proved as well, so that `app` leaves only its
liveness to TLC. `PipesHeldByTheirEndsHolds` follows the
handles of `Subprocess` through creation and inheritance (`PipesInv`).
`PictureCurrentHolds`: a picture that differs from what it shows has a `Paint` queued
or is still moving (`PaintInv`). `SourceShowsLastTextHolds`: the text loaded last is
shown, or is on its way and nothing older is behind it. `ChainInv` says where:
the last of the closures to highlight and to commit on their way from the UI thread to
FILE and back is that of the text, because every hop keeps the order of posting
(`OutboxInv`), and no thread ends before the window is closed (`LifeInv`).

`LinesAreTheTextHolds`: the lines shown are the text, symbol by symbol, for every text
that the lexer gets through. Nothing but the lexer and `SyntaxHighlight` decides that, and
both are loops over a text. They are written as recursive functions of the form "stop
here, or go on from `step[d]`", and a recursive function is a CHOOSE. `TailRecursion`
shows once that such a function exists: its value at `d` is that of a place to stop which
lies in every set that contains `d` and is closed under steps. `TailRecursionStops`
gives the rule for using it: where a measure goes down (every round of the lexer that
changes anything takes a symbol, `RoundShrinks`), the function stops in any set `J` that
the steps stay in, so `J` is the invariant of the loop. For the lexer this is `LexInv`:
the tokens are the text cut into pieces at rising positions (`Cuts`), what is left is the
rest of it, and a token with a line feed inside is a `//` comment, the line feed alone, or
one that the text itself announces (`TakesNewline`); each rule of each state is shown to
keep it (`RootRulesGood`, `If0RulesGood`, `MacroRulesGood`, `StringRulesGood`). For the
highlighter it is `LinesInv`: after some tokens, finished lines and the line begun are
together what was cut so far. `SourceInv` carries this through the program: every commit
that is posted shows its text (`CommitShows`), and between a commit and the next
`SetData` nothing touches the lines.

`TypeOKHolds`: the queues hold tasks and outboxes posts, and both views stay within what
they have shown. `ViewsInv` bounds offset and target by the longest text and by
`MaxOutputs`. A scroll stops at the end of the present content, so two more facts are needed:
no lines shown are more than the longest text has symbols (from `LinesInv`), and the output
view never has more lines than gdb has printed. The second is about lines on their way:
`OutputInv` says that one can number the places of the UI thread's queue from the lines
shown to the lines printed, rising at each `output` (`Counts`), less the one that may still
be in the outbox of BACKEND (`PrintInv`).

Of `ScrollHelper`, also in `ApplicationProofs`, for all sizes: `UpdateComesNearer` (every picture brings the
offset nearer without passing the target, or arrives), `RestsAtTarget`,
`TargetStaysInText`. With the first two, `PictureCurrent` and `TypeOK` of the run do not
hang on its small distances.

Only model-checked:

- Everything under fairness (`EveryCommandDelivered`, `DestructorFinishes`, `Settles`,
  `ParseEnds`, `ShutdownEnds`), which the proof system does not handle.
- What parser and conversions compute (`OutputIsWhatGdbWrote`, `NothingOverlooked`,
  `ParserStopsOnlyThere`, `NotificationsSayWhatGdbSaid`, `ChecksFailOnlyOnMissingData`).
  These are false of arbitrary bytes: a list such as `[a]`, which gdb does not write, makes the
  parser follow a null pointer anywhere. They hold of the outputs that gdb's grammar
  allows, and a theorem would need that grammar as its assumption; the run has
  instances of it, with their meaning, in `OutputsIn`.

## 6. What is not modelled

- Rendering, skin, window system, SDL: output only. `StackView` draws the rows it was
  given last.
- `ConcurrentQueue` and `MessageLoopX`: used by their tests alone.
- `Subprocess::Terminate`, `Finish` and the destructor: `DebugCoreGdb` is created and
  never deleted, so the program does not reach them; gdb ends when its pipe breaks.
- The native Windows backend: a stub that `Application` does not use.
- `third_party`, `gdb_win_binaries`, `art`, `build`: not this program's logic.
- gdb exiting by itself (the next read then fails a CHECK) and the modal box shown
  when the debuggee exits (it delays the BACKEND thread until it is dismissed).
- In the docking: pixels and rounding, `DeleteChild` (called by tests alone),
  `DockingResizer::CancelDrag` (called by nothing), cursors and focus.
- In `Application`: the exchange with gdb beyond the start, one stop and a line of
  output (that is `DebugSession`), the keys that drive the debugger, delays.
- In `Subprocess`: calls that fail. `PipesHeldByTheirEnds` says nothing of what they
  leave open.
- The source of `base/` is not in the repository: a debug build of it may check more
  than the CHECKs modelled here, a NULL value in a list for instance.
- Lengths of commands: one longer than 4 KiB fails a CHECK in `SendString`.

## 7. What could come next

1. `DockingGeometry`: the integer arithmetic of `SetScreenRect` and
   `DockingResizer`: children tile their container, fractions stay in range.
2. gdb exiting, with the failing reads and writes that follow, in `ReaderWriter`.
3. A theorem about the parser: gdb's grammar as an assumption on the streams, and with it
   `OutputIsWhatGdbWrote`, by induction over a stream as those over a text are here.
