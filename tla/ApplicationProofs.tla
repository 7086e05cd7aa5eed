------------------------- MODULE ApplicationProofs -------------------------
(***************************************************************************)
(* The program is made of threads that behave as AppThread says, so what   *)
(* is proved of every such collection of threads holds for it.  All that   *)
(* has to be shown of its actions is what they post, and to whom.          *)
(* Then the pipes, the picture, the texts on their way, scrolling, and the *)
(* lexer and highlighter with what they make of the source view.           *)
(***************************************************************************)
EXTENDS Application, AppThreadProofs, SequenceTheorems, WellFoundedInduction

ProgramPosts == [to : IDs, task : Closures]

\* Every queue holds closures of the program, and the text is one that was set.
ClosuresInv ==
  /\ queue \in [IDs -> Seq(Closures)]
  /\ outbox \in [IDs -> Seq(ProgramPosts)]
TextInv == text \in Greetings \cup {Empty}
ProgramInv == ClosuresInv /\ TextInv

---------------------------------------------------------------------------
LEMMA FourThreads == IDs = 0 .. 3 /\ UI \in IDs /\ FILE \in IDs /\ BACKEND \in IDs /\ UI # BACKEND /\ UI # FILE
  BY ApplicationAssumption DEF IDs, UI, FILE, BACKEND

LEMMA PlainClosure == ASSUME NEW kind \in Kinds PROVE Plain(kind) \in Closures
  BY DEF Closures

LEMMA TypedPosts ==
  /\ Seq(ProgramPosts) \subseteq Seq(Posts)
  /\ Seq(Closures) \subseteq Seq(Tasks)
  <1>1. Closures \subseteq Tasks /\ ProgramPosts \subseteq Posts
    BY TasksAssumption DEF ProgramPosts, Posts
  <1>2. QED BY <1>1

LEMMA PostClosure ==
  ASSUME NEW t \in IDs, NEW c \in Closures
  PROVE  To(t, c) \in ProgramPosts
  BY DEF To, ProgramPosts

LEMMA ShortSeqs ==
  ASSUME NEW S
  PROVE  /\ <<>> \in Seq(S)
         /\ \A a \in S : <<a>> \in Seq(S)
         /\ \A a, b \in S : <<a, b>> \in Seq(S)
  OBVIOUS

---------------------------------------------------------------------------
(***************************************************************************)
(* The actions of AppThread keep the queues, and are steps of its Next.    *)
(***************************************************************************)
LEMMA RunTaskStep ==
  ASSUME ClosuresInv, NEW t \in IDs, NEW posts \in Seq(ProgramPosts), NEW replies \in Seq(Closures),
         RunTask(t, posts, replies)
  PROVE  ClosuresInv' /\ ThreadNext
  <1>1. queue[t] \in Seq(Closures) /\ queue[t] # <<>> /\ queue[UI] \in Seq(Closures)
    BY FourThreads DEF ClosuresInv, RunTask
  <1>2. Tail(queue[t]) \in Seq(Closures)
    BY <1>1, HeadTailProperties
  <1>3. queue' \in [IDs -> Seq(Closures)]
    <2>1. CASE t = UI
      <3>1. queue' = [queue EXCEPT ![UI] = Tail(queue[UI])]
        BY <2>1 DEF RunTask, ClosuresInv
      <3>2. QED BY <1>2, <2>1, <3>1 DEF ClosuresInv
    <2>2. CASE t # UI
      <3>1. queue' = [queue EXCEPT ![t] = Tail(queue[t]), ![UI] = queue[UI] \o replies]
        BY <2>2 DEF RunTask, ClosuresInv
      <3>2. queue[UI] \o replies \in Seq(Closures)
        BY <1>1, ConcatProperties
      <3>3. QED BY <1>2, <3>1, <3>2 DEF ClosuresInv
    <2>3. QED BY <2>1, <2>2
  <1>4. outbox' \in [IDs -> Seq(ProgramPosts)]
    BY DEF RunTask, ClosuresInv
  <1>5. posts \in Seq(Posts) /\ replies \in Seq(Tasks)
    BY TypedPosts
  <1>6. ThreadNext
    BY <1>5 DEF ThreadNext
  <1>7. QED BY <1>3, <1>4, <1>6 DEF ClosuresInv

LEMMA RunMessageStep ==
  ASSUME ClosuresInv, NEW t \in IDs, NEW posts \in Seq(ProgramPosts), RunMessage(t, posts)
  PROVE  ClosuresInv' /\ ThreadNext
  <1>1. ClosuresInv'
    BY DEF RunMessage, ClosuresInv
  <1>2. posts \in Seq(Posts)
    BY TypedPosts
  <1>3. QED BY <1>1, <1>2 DEF ThreadNext

LEMMA DeliverStep ==
  ASSUME ClosuresInv, NEW t \in IDs, Deliver(t), outbox[t] # <<>>
  PROVE  ClosuresInv'
  <1>1. outbox[t] \in Seq(ProgramPosts)
    BY DEF ClosuresInv
  <1>2. Head(outbox[t]) \in ProgramPosts /\ Tail(outbox[t]) \in Seq(ProgramPosts)
    BY <1>1, HeadTailProperties
  <1>3. Target(t) \in IDs /\ Head(outbox[t]).task \in Closures
    BY <1>2 DEF Target, ProgramPosts
  <1>4. Append(queue[Target(t)], Head(outbox[t]).task) \in Seq(Closures)
    BY <1>3, AppendProperties DEF ClosuresInv
  <1>5. queue' \in [IDs -> Seq(Closures)]
    BY <1>4 DEF Deliver, ClosuresInv
  <1>6. outbox' \in [IDs -> Seq(ProgramPosts)]
    BY <1>2 DEF Deliver, ClosuresInv
  <1>7. QED BY <1>5, <1>6 DEF ClosuresInv

LEMMA HelperStep ==
  ASSUME Inv, ClosuresInv, NEW t \in IDs, PostTaskHelper(t)
  PROVE  ClosuresInv' /\ ThreadNext
  <1>1. CASE Deliver(t)
    <2>1. outbox[t] # <<>>
      BY <1>1 DEF Deliver, Inv, Posting
    <2>2. QED BY <1>1, <2>1, DeliverStep DEF ThreadNext
  <1>2. CASE ~Deliver(t)
    <2>1. UNCHANGED <<queue, outbox>>
      BY <1>2 DEF PostTaskHelper, BeginPost, Scan, Acquire, ReadLoop
    <2>2. QED BY <2>1 DEF ClosuresInv, ThreadNext
  <1>3. QED BY <1>1, <1>2

LEMMA LifeStep ==
  ASSUME ClosuresInv, NEW id \in IDs,
         StartMain \/ Initialize(id) \/ StartWithOptions(id) \/ Stop(id) \/ Quit(id) \/ Joined(id)
  PROVE  ClosuresInv' /\ ThreadNext
  <1>1. UNCHANGED <<queue, outbox>>
    BY DEF StartMain, Initialize, StartWithOptions, Stop, Quit, Joined
  <1>2. QED BY <1>1 DEF ClosuresInv, ThreadNext

LEMMA EndMainStep ==
  ASSUME ClosuresInv, EndMain
  PROVE  ClosuresInv' /\ ThreadNext
  <1>1. <<>> \in Seq(Closures)
    BY ShortSeqs
  <1>2. QED BY <1>1 DEF EndMain, ClosuresInv, ThreadNext

---------------------------------------------------------------------------
(***************************************************************************)
(* What the tasks of the program post.                                     *)
(***************************************************************************)
LEMMA HighlightClosure == ASSUME NEW t \in Greetings \cup {Empty} PROVE Task("highlight", t, Empty) \in Closures
  BY DEF Closures

LEMMA CommitClosure == ASSUME NEW h \in Highlighted, h.ends PROVE Task("commit", h.text, h.lines) \in Closures
  BY DEF Closures

LEMMA LoadedText ==
  ASSUME ClosuresInv, First(UI, "loaded")
  PROVE  Head(queue[UI]).text \in Greetings \cup {Empty}
  <1>1. queue[UI] \in Seq(Closures) /\ queue[UI] # <<>> /\ Head(queue[UI]).kind = "loaded"
    BY FourThreads DEF ClosuresInv, First
  <1>2. Head(queue[UI]) \in Closures
    BY <1>1, HeadTailProperties
  <1>3. \A kind \in Kinds : Plain(kind).text = Empty
    BY DEF Plain, Task
  <1>4. \A t, l : Task("highlight", t, l).kind = "highlight" /\ Task("commit", t, l).kind = "commit"
    BY DEF Task
  <1>5. QED BY <1>1, <1>2, <1>3, <1>4 DEF Closures

LEMMA NoPosts == <<>> \in Seq(ProgramPosts) /\ <<>> \in Seq(Closures)
  BY ShortSeqs

LEMMA OnePost ==
  ASSUME NEW t \in IDs, NEW c \in Closures
  PROVE  <<To(t, c)>> \in Seq(ProgramPosts)
  BY PostClosure, ShortSeqs

LEMMA TwoPosts ==
  ASSUME NEW t \in IDs, NEW c \in Closures, NEW u \in IDs, NEW d \in Closures
  PROVE  <<To(t, c), To(u, d)>> \in Seq(ProgramPosts)
  BY PostClosure, ShortSeqs

\* What OnStoppedAtBreakpoint posts.
StopPosts == <<To(FILE, Plain("read"))>> \o UpdatePassiveDisplays

LEMMA StopPostsPlain ==
  /\ StopPosts \in Seq(ProgramPosts)
  /\ StopPosts # <<>> /\ \A i \in 1 .. Len(StopPosts) : StopPosts[i].task.kind \in {"read", "passive"}
  <1> DEFINE r == To(FILE, Plain("read"))
             p == To(BACKEND, Plain("passive"))
  <1>1. r \in ProgramPosts /\ p \in ProgramPosts
    BY PlainClosure, PostClosure, FourThreads DEF Kinds
  <1>2. r.task.kind = "read" /\ p.task.kind = "passive"
    BY DEF To, Plain, Task
  <1>3. StopPosts = <<r>> \o <<p, p, p>>
    BY DEF StopPosts, UpdatePassiveDisplays
  <1> HIDE DEF r, p
  <1>4. <<r>> \in Seq(ProgramPosts) /\ Len(<<r>>) = 1 /\ <<r>>[1] = r
    BY <1>1
  <1>5. <<p, p, p>> \in Seq(ProgramPosts) /\ Len(<<p, p, p>>) = 3
    BY <1>1
  <1>6. \A i \in 1 .. 3 : <<p, p, p>>[i] = p
    OBVIOUS
  <1>7. StopPosts \in Seq(ProgramPosts) /\ Len(StopPosts) = 4
    BY <1>3, <1>4, <1>5, ConcatProperties
  <1>8. \A i \in 1 .. 4 : StopPosts[i] = IF i <= 1 THEN r ELSE p
    <2> SUFFICES ASSUME NEW i \in 1 .. 4
                 PROVE  StopPosts[i] = IF i <= 1 THEN r ELSE p
      OBVIOUS
    <2>1. StopPosts[i] = IF i <= 1 THEN <<r>>[i] ELSE <<p, p, p>>[i - 1]
      BY <1>3, <1>4, <1>5, ConcatProperties
    <2>2. QED BY <2>1, <1>4, <1>6
  <1>9. QED BY <1>2, <1>7, <1>8

---------------------------------------------------------------------------
(***************************************************************************)
(* Every action of the program is a step of AppThread, or none of its      *)
(* variables changes.                                                      *)
(***************************************************************************)
Good == ProgramInv' /\ (ThreadNext \/ UNCHANGED threadVars)

LEMMA SameText ==
  ASSUME ProgramInv, UNCHANGED text, ClosuresInv', ThreadNext
  PROVE  Good
  BY DEF ProgramInv, TextInv, Good

LEMMA LifeGood ==
  ASSUME ProgramInv,
         MainMessageLoopStart \/ (\E id \in IDs : CreateThread(id) \/ ShutdownThread(id) \/ Quits(id)) \/ DestroyMainLoop
  PROVE  Good
  <1>1. UNCHANGED text
    BY DEF MainMessageLoopStart, CreateThread, ShutdownThread, Quits, DestroyMainLoop, appVars, viewVars
  <1>2. ClosuresInv' /\ ThreadNext
    BY FourThreads, LifeStep, EndMainStep
    DEF ProgramInv, MainMessageLoopStart, CreateThread, ShutdownThread, Quits, DestroyMainLoop
  <1>3. QED BY <1>1, <1>2, SameText

LEMMA CreateApplicationGood == ASSUME ProgramInv, CreateApplication PROVE Good
  <1> DEFINE posts == <<To(FILE, Task("highlight", text, Empty)), To(BACKEND, Plain("create"))>>
  <1>1. RunMessage(UI, posts) /\ UNCHANGED text
    BY DEF CreateApplication, SetDisplay, SetData
  <1>2. Task("highlight", text, Empty) \in Closures /\ Plain("create") \in Closures
    BY HighlightClosure, PlainClosure DEF ProgramInv, TextInv, Kinds
  <1>3. posts \in Seq(ProgramPosts)
    BY <1>2, TwoPosts, FourThreads
  <1> HIDE DEF posts
  <1>4. ClosuresInv' /\ ThreadNext
    BY <1>1, <1>3, RunMessageStep, FourThreads DEF ProgramInv
  <1>5. QED BY <1>1, <1>4, SameText

LEMMA QuietMessageGood ==
  ASSUME ProgramInv, Close \/ Paint \/ ScrollSource \/ ScrollOutput \/ Expose
  PROVE  Good
  <1>1. RunMessage(UI, <<>>) /\ UNCHANGED text
    BY DEF Close, Paint, ScrollSource, ScrollOutput, Expose, Input, viewVars
  <1>2. ClosuresInv' /\ ThreadNext
    BY <1>1, NoPosts, RunMessageStep, FourThreads DEF ProgramInv
  <1>3. QED BY <1>1, <1>2, SameText

LEMMA GdbGood == ASSUME ProgramInv, GdbStops \/ GdbPrints PROVE Good
  <1>1. \E kind \in {"stopped", "output", "lost"} : RunMessage(BACKEND, <<To(UI, Plain(kind))>>)
    BY DEF GdbStops, GdbPrints
  <1>2. UNCHANGED text
    BY DEF GdbStops, GdbPrints, viewVars
  <1>3. PICK kind \in Kinds : RunMessage(BACKEND, <<To(UI, Plain(kind))>>)
    BY <1>1 DEF Kinds
  <1>4. <<To(UI, Plain(kind))>> \in Seq(ProgramPosts)
    BY PlainClosure, OnePost, FourThreads
  <1>5. ClosuresInv' /\ ThreadNext
    BY <1>3, <1>4, RunMessageStep, FourThreads DEF ProgramInv
  <1>6. QED BY <1>2, <1>5, SameText

LEMMA UITaskGood ==
  ASSUME ProgramInv, ConnectDebugCore \/ OnStoppedAtBreakpoint \/ FileLoadCompleted \/ CommitAfterHighlight \/ AddText
  PROVE  Good
  <1>1. CASE ConnectDebugCore
    <2>1. RunTask(UI, <<To(BACKEND, Plain("notify")), To(BACKEND, Plain("load"))>>, <<>>) /\ UNCHANGED text
      BY <1>1 DEF ConnectDebugCore, UIRuns, viewVars
    <2>2. Plain("notify") \in Closures /\ Plain("load") \in Closures
      BY PlainClosure DEF Kinds
    <2>3. <<To(BACKEND, Plain("notify")), To(BACKEND, Plain("load"))>> \in Seq(ProgramPosts)
      BY <2>2, TwoPosts, FourThreads
    <2>4. ClosuresInv' /\ ThreadNext
      BY <2>1, <2>3, NoPosts, RunTaskStep, FourThreads DEF ProgramInv
    <2>5. QED BY <2>1, <2>4, SameText
  <1>2. CASE OnStoppedAtBreakpoint
    <2>1. RunTask(UI, StopPosts, <<>>) /\ UNCHANGED text
      BY <1>2 DEF OnStoppedAtBreakpoint, UIRuns, StopPosts
    <2>2. ClosuresInv' /\ ThreadNext
      BY <2>1, StopPostsPlain, NoPosts, RunTaskStep, FourThreads DEF ProgramInv
    <2>3. QED BY <2>1, <2>2, SameText
  <1>3. CASE FileLoadCompleted
    <2> DEFINE new == Head(queue[UI]).text
               posts == <<To(FILE, Task("highlight", new, Empty))>>
    <2>1. RunTask(UI, posts, <<>>) /\ text' = new /\ First(UI, "loaded")
      BY <1>3 DEF FileLoadCompleted, UIRuns, SetData
    <2>2. new \in Greetings \cup {Empty}
      BY <2>1, LoadedText DEF ProgramInv
    <2>3. Task("highlight", new, Empty) \in Closures
      BY <2>2, HighlightClosure
    <2>4. posts \in Seq(ProgramPosts)
      BY <2>3, OnePost, FourThreads
    <2> HIDE DEF new, posts
    <2>5. ClosuresInv' /\ ThreadNext
      BY <2>1, <2>4, NoPosts, RunTaskStep, FourThreads DEF ProgramInv
    <2>6. QED BY <2>1, <2>2, <2>5 DEF Good, ProgramInv, TextInv
  <1>4. CASE CommitAfterHighlight \/ AddText
    <2>1. RunTask(UI, <<>>, <<>>) /\ UNCHANGED text
      BY <1>4 DEF CommitAfterHighlight, AddText, UIRuns
    <2>2. ClosuresInv' /\ ThreadNext
      BY <2>1, NoPosts, RunTaskStep, FourThreads DEF ProgramInv
    <2>3. QED BY <2>1, <2>2, SameText
  <1>5. QED BY <1>1, <1>2, <1>3, <1>4

LEMMA OtherThreadGood ==
  ASSUME ProgramInv, ReadFileOnFILE \/ HighlightOnFILE \/ Create \/ BackendRuns
  PROVE  Good
  <1>1. CASE ReadFileOnFILE
    <2>1. RunTask(FILE, <<>>, <<Plain("loaded")>>) /\ UNCHANGED text
      BY <1>1 DEF ReadFileOnFILE, appVars, viewVars
    <2>2. Plain("loaded") \in Closures
      BY PlainClosure DEF Kinds
    <2>3. <<Plain("loaded")>> \in Seq(Closures)
      BY <2>2, ShortSeqs
    <2>4. ClosuresInv' /\ ThreadNext
      BY <2>1, <2>3, NoPosts, RunTaskStep, FourThreads DEF ProgramInv
    <2>5. QED BY <2>1, <2>4, SameText
  <1>2. CASE HighlightOnFILE
    <2>1. UNCHANGED text
      BY <1>2 DEF HighlightOnFILE, appVars, viewVars
    <2>2. PICK h \in Highlighted : h.ends /\ RunTask(FILE, <<>>, <<Task("commit", h.text, h.lines)>>)
      BY <1>2 DEF HighlightOnFILE
    <2>3. Task("commit", h.text, h.lines) \in Closures
      BY <2>2, CommitClosure
    <2>4. <<Task("commit", h.text, h.lines)>> \in Seq(Closures)
      BY <2>3, ShortSeqs
    <2>5. ClosuresInv' /\ ThreadNext
      BY <2>2, <2>4, NoPosts, RunTaskStep, FourThreads DEF ProgramInv
    <2>6. QED BY <2>1, <2>5, SameText
  <1>3. CASE Create
    <2>1. UNCHANGED text
      BY <1>3 DEF Create, appVars, viewVars
    <2>2. CASE UNCHANGED threadVars
      BY <2>1, <2>2 DEF Good, ProgramInv, TextInv, ClosuresInv, threadVars
    <2>3. CASE RunTask(BACKEND, <<>>, <<Plain("connect")>>)
      <3>1. Plain("connect") \in Closures
        BY PlainClosure DEF Kinds
      <3>2. <<Plain("connect")>> \in Seq(Closures)
        BY <3>1, ShortSeqs
      <3>3. ClosuresInv' /\ ThreadNext
        BY <2>3, <3>2, NoPosts, RunTaskStep, FourThreads DEF ProgramInv
      <3>4. QED BY <2>1, <3>3, SameText
    <2>4. QED BY <1>3, <2>2, <2>3 DEF Create
  <1>4. CASE BackendRuns
    <2>1. RunTask(BACKEND, <<>>, <<>>) /\ UNCHANGED text
      BY <1>4 DEF BackendRuns, viewVars
    <2>2. ClosuresInv' /\ ThreadNext
      BY <2>1, NoPosts, RunTaskStep, FourThreads DEF ProgramInv
    <2>3. QED BY <2>1, <2>2, SameText
  <1>5. QED BY <1>1, <1>2, <1>3, <1>4

LEMMA HelperGood ==
  ASSUME Inv, ProgramInv, NEW t \in IDs, Helper(t)
  PROVE  Good
  <1>1. PostTaskHelper(t) /\ UNCHANGED text
    BY DEF Helper, appVars, viewVars
  <1>2. ClosuresInv' /\ ThreadNext
    BY <1>1, HelperStep DEF ProgramInv
  <1>3. QED BY <1>1, <1>2, SameText

\* Destroying Application changes no thread, nor does a crash, and a stutter nothing.
LEMMA NoThreadGood ==
  ASSUME ProgramInv, DestroyApplication \/ CallThroughNull \/ UNCHANGED vars
  PROVE  Good
  <1>1. UNCHANGED threadVars /\ UNCHANGED text
    BY DEF DestroyApplication, CallThroughNull, vars, appVars, viewVars
  <1>2. QED BY <1>1 DEF Good, ProgramInv, TextInv, ClosuresInv, threadVars

---------------------------------------------------------------------------
LEMMA ProgramInit == Init => ThreadInit /\ Inv /\ ProgramInv
  <1> SUFFICES ASSUME Init PROVE ThreadInit /\ Inv /\ ProgramInv
    OBVIOUS
  <1>1. ThreadInit /\ Inv
    BY InitInv DEF Init
  <1>2. ClosuresInv
    BY <1>1, NoPosts DEF ThreadInit, ClosuresInv
  <1>3. QED BY <1>1, <1>2 DEF Init, ProgramInv, TextInv

LEMMA ProgramStep == Inv /\ ProgramInv /\ [Next]_vars => Good
  <1> SUFFICES ASSUME Inv, ProgramInv, [Next]_vars PROVE Good
    OBVIOUS
  <1>1. CASE MainThread
    BY <1>1, LifeGood, CreateApplicationGood, NoThreadGood, UITaskGood, QuietMessageGood DEF MainThread
  <1>2. CASE OtherThreads
    BY <1>2, OtherThreadGood, LifeGood DEF OtherThreads
  <1>3. CASE \E t \in IDs : Helper(t)
    BY <1>3, HelperGood
  <1>4. CASE UserAndGdb
    BY <1>4, QuietMessageGood, GdbGood DEF UserAndGdb
  <1>5. CASE UNCHANGED vars
    BY <1>5, NoThreadGood
  <1>6. QED BY <1>1, <1>2, <1>3, <1>4, <1>5 DEF Next, AnyThread

LEMMA ProgramNextInv == Inv /\ ProgramInv /\ [Next]_vars => Inv' /\ ProgramInv' /\ [ThreadNext]_threadVars
  BY ProgramStep, NextInv DEF Good

\* The program implements AppThread: of all that its threads do, RunMain,
\* Application, SourceView, the backend and the user's input (main_win.cc,
\* application.cc, source_view.cc) do nothing to the array, the loops, the
\* lock and the queues but what AppThread allows.
THEOREM ProgramIsThreads == Spec => ThreadSpec
  <1>1. Spec => [](Inv /\ ProgramInv) /\ [][ThreadNext]_threadVars
    <2>1. Init => Inv /\ ProgramInv
      BY ProgramInit
    <2>2. QED BY <2>1, ProgramNextInv, PTL DEF Spec
  <1>2. Init => ThreadInit
    BY ProgramInit
  <1>3. QED BY <1>1, <1>2, PTL DEF Spec, ThreadSpec

\* In the program, whatever texts are shown and wherever gdb stops, from its
\* start to its end: no thread uses an entry of the array or a loop that may go
\* meanwhile (app_thread.cc 139-176 and 288-308).
THEOREM NoDanglingUseInProgram == Spec => []NoDanglingUse
  BY ProgramIsThreads, NoDanglingUseAlways, PTL
---------------------------------------------------------------------------
(***************************************************************************)
(* The pipes to gdb.                                                       *)
(***************************************************************************)
Temporaries == {Handle("input_temp", "from_child: read", TRUE), Handle("output_temp", "to_child: write", TRUE)}
ChildEnds == {Handle("child_output_pipe_", "from_child: write", TRUE),
              Handle("child_input_pipe_", "to_child: read", TRUE),
              Handle("child_error_pipe_", "from_child: write", TRUE)}
OurEnds == {Handle("input_pipe_", "from_child: read", FALSE), Handle("output_pipe_", "to_child: write", FALSE)}

\* What is open after each step of Init and Start.
PipesInv ==
  /\ started = "none" => handles = {}
  /\ started = "pipes" => handles = Temporaries
  /\ started = "child ends" => handles = Temporaries \cup ChildEnds
  /\ started = "ours" => handles = Temporaries \cup ChildEnds \cup OurEnds
  /\ started \in {"ready", "running"} => handles = ChildEnds \cup OurEnds
  /\ started = "started" => handles = OurEnds
  /\ started \in {"running", "started"} => gdbs = {"from_child: write", "to_child: read"}

LEMMA HandlesOpen ==
  /\ \A h \in Temporaries : h.name \in {"input_temp", "output_temp"}
  /\ \A h \in ChildEnds : h.name \in {"child_output_pipe_", "child_input_pipe_", "child_error_pipe_"} /\ h.inherit = TRUE
  /\ \A h \in OurEnds : h.name \in {"input_pipe_", "output_pipe_"} /\ h.inherit = FALSE
  /\ {h.end : h \in ChildEnds} = {"from_child: write", "to_child: read"}
  /\ {h.end : h \in OurEnds} = {"from_child: read", "to_child: write"}
  <1> DEFINE temp1 == Handle("input_temp", "from_child: read", TRUE)
             temp2 == Handle("output_temp", "to_child: write", TRUE)
             child1 == Handle("child_output_pipe_", "from_child: write", TRUE)
             child2 == Handle("child_input_pipe_", "to_child: read", TRUE)
             child3 == Handle("child_error_pipe_", "from_child: write", TRUE)
             own1 == Handle("input_pipe_", "from_child: read", FALSE)
             own2 == Handle("output_pipe_", "to_child: write", FALSE)
  <1>1. Temporaries = {temp1, temp2} /\ ChildEnds = {child1, child2, child3} /\ OurEnds = {own1, own2}
    BY Zenon DEF Temporaries, ChildEnds, OurEnds
  <1>2. temp1.name = "input_temp" /\ temp2.name = "output_temp"
    BY DEF Handle
  <1>3. child1.name = "child_output_pipe_" /\ child2.name = "child_input_pipe_" /\ child3.name = "child_error_pipe_"
    BY DEF Handle
  <1>4. child1.end = "from_child: write" /\ child2.end = "to_child: read" /\ child3.end = "from_child: write"
    BY DEF Handle
  <1>5. child1.inherit = TRUE /\ child2.inherit = TRUE /\ child3.inherit = TRUE
    BY DEF Handle
  <1>6. own1.name = "input_pipe_" /\ own2.name = "output_pipe_"
    BY DEF Handle
  <1>7. own1.end = "from_child: read" /\ own2.end = "to_child: write"
    BY DEF Handle
  <1>8. own1.inherit = FALSE /\ own2.inherit = FALSE
    BY DEF Handle
  <1> HIDE DEF temp1, temp2, child1, child2, child3, own1, own2
  <1>9. QED BY <1>1, <1>2, <1>3, <1>4, <1>5, <1>6, <1>7, <1>8

LEMMA ClosedTemporaries ==
  ASSUME handles = Temporaries \cup ChildEnds \cup OurEnds
  PROVE  Without({"input_temp", "output_temp"}) = ChildEnds \cup OurEnds
  BY HandlesOpen DEF Without

LEMMA ClosedChildEnds ==
  ASSUME handles = ChildEnds \cup OurEnds
  PROVE  Without({"child_output_pipe_", "child_input_pipe_", "child_error_pipe_"}) = OurEnds
  BY HandlesOpen DEF Without

LEMMA InheritedEnds ==
  ASSUME handles = ChildEnds \cup OurEnds
  PROVE  {h.end : h \in {k \in handles : k.inherit}} = {"from_child: write", "to_child: read"}
  <1>1. {k \in handles : k.inherit} = ChildEnds
    BY HandlesOpen, Zenon
  <1>2. QED BY <1>1, HandlesOpen

LEMMA PipesStep ==
  ASSUME PipesInv, StartSubprocess
  PROVE  PipesInv'
  <1>1. CASE CreateNamedPipes
    BY <1>1 DEF CreateNamedPipes, Step, PipesInv, Temporaries
  <1>2. CASE OpenChildEnds
    BY <1>2 DEF OpenChildEnds, Step, PipesInv, ChildEnds
  <1>3. CASE DuplicateOwnEnds
    BY <1>3 DEF DuplicateOwnEnds, Step, PipesInv, OurEnds
  <1>4. CASE CloseTemporaries
    BY <1>4, ClosedTemporaries DEF CloseTemporaries, Step, PipesInv
  <1>5. CASE CreateProcess
    BY <1>5, InheritedEnds DEF CreateProcess, Step, PipesInv
  <1>6. CASE CreateProcessFails
    BY <1>6 DEF CreateProcessFails, Step, PipesInv
  <1>7. CASE CloseChildEnds
    BY <1>7, ClosedChildEnds DEF CloseChildEnds, Step, PipesInv
  <1>8. QED BY <1>1, <1>2, <1>3, <1>4, <1>5, <1>6, <1>7 DEF StartSubprocess

LEMMA PipesImply == PipesInv => PipesHeldByTheirEnds
  BY HandlesOpen DEF PipesInv, PipesHeldByTheirEnds

\* Only the constructor of DebugCoreGdb opens and closes handles.
LEMMA OnlyCreate ==
  ASSUME [Next]_vars
  PROVE  StartSubprocess \/ UNCHANGED subprocessVars
  <1>1. CASE MainThread
    BY <1>1 DEF MainThread, MainMessageLoopStart, CreateThread, CreateApplication, ShutdownThread, DestroyApplication, CallThroughNull,
                DestroyMainLoop, ConnectDebugCore, OnStoppedAtBreakpoint, FileLoadCompleted, CommitAfterHighlight,
                AddText, Paint, UIRuns, Others
  <1>2. CASE OtherThreads
    BY <1>2 DEF OtherThreads, ReadFileOnFILE, HighlightOnFILE, Create, BackendRuns, Quits, Others
  <1>3. CASE \E t \in IDs : Helper(t)
    BY <1>3 DEF Helper, Others
  <1>4. CASE UserAndGdb
    BY <1>4 DEF UserAndGdb, ScrollSource, ScrollOutput, Expose, Input, Close, GdbStops, GdbPrints, Others
  <1>5. CASE UNCHANGED vars
    BY <1>5 DEF vars
  <1>6. QED BY <1>1, <1>2, <1>3, <1>4, <1>5 DEF Next, AnyThread

\* Once gdb runs each end of its two pipes has one holder (subprocess_win.cc
\* 91-104 and 156-166): whoever ends breaks what the other one waits for.
THEOREM PipesHeldByTheirEndsHolds == Spec => []PipesHeldByTheirEnds
  <1>1. Init => PipesInv
    BY DEF Init, SInit, PipesInv
  <1>2. PipesInv /\ [Next]_vars => PipesInv'
    <2> SUFFICES ASSUME PipesInv, [Next]_vars PROVE PipesInv'
      OBVIOUS
    <2>1. CASE UNCHANGED subprocessVars
      BY <2>1 DEF subprocessVars, PipesInv
    <2>2. QED BY <2>1, OnlyCreate, PipesStep
  <1>3. QED BY <1>1, <1>2, PipesImply, PTL DEF Spec

---------------------------------------------------------------------------
(***************************************************************************)
(* The picture of the source view.                                         *)
(***************************************************************************)
ScrollShape(s) == s = [offset |-> s.offset, target |-> s.target, ticks |-> s.ticks]
ViewShape(v) ==
  /\ v = [lines |-> v.lines, from |-> v.from, counter |-> v.counter, scroll |-> v.scroll]
  /\ ScrollShape(v.scroll)
\* No type says more of the view than this has to be known for its picture.
PaintInv == paints \in Nat /\ ViewShape(source) /\ PictureCurrent

LEMMA ScrollShapes ==
  ASSUME NEW s, ScrollShape(s)
  PROVE  /\ ScrollShape(Update(s))
         /\ ~NeedsMore(Update(s)) => Update(s).offset = Update(s).target
  <1>1. CASE Nearer(s) = s.offset
    <2>1. Update(s) = [offset |-> s.target, target |-> s.target, ticks |-> s.ticks + 1]
      BY <1>1 DEF Update, ScrollShape
    <2>2. QED BY <2>1 DEF ScrollShape
  <1>2. CASE Nearer(s) # s.offset
    <2>1. Update(s) = [offset |-> Nearer(s), target |-> s.target, ticks |-> 0]
      BY <1>2 DEF Update, ScrollShape
    <2>2. NeedsMore(Update(s))
      BY <2>1, SizesAssumption DEF NeedsMore
    <2>3. QED BY <2>1, <2>2 DEF ScrollShape
  <1>3. QED BY <1>1, <1>2

LEMMA MovedShapes ==
  ASSUME NEW s, ScrollShape(s), NEW content
  PROVE  /\ \A key \in Keys : ScrollShape(CommonNotifyKey(s, key, content))
         /\ \A delta : ScrollShape(CommonMouseWheel(s, delta, content))
  <1>1. \A t : ScrollShape([s EXCEPT !.target = t])
    BY DEF ScrollShape
  <1>2. ASSUME NEW u, ScrollShape(u)
        PROVE  ScrollShape(ClampScrollTarget(u, content))
    <2>1. ASSUME NEW t
          PROVE  ScrollShape([u EXCEPT !.target = t, !.ticks = 0])
      <3> DEFINE w == [u EXCEPT !.target = t]
      <3>1. [u EXCEPT !.target = t, !.ticks = 0] = [w EXCEPT !.ticks = 0]
        BY <1>2 DEF ScrollShape
      <3>2. w = [offset |-> u.offset, target |-> t, ticks |-> u.ticks]
        BY <1>2 DEF ScrollShape
      <3> HIDE DEF w
      <3>3. [w EXCEPT !.ticks = 0] = [offset |-> u.offset, target |-> t, ticks |-> 0]
        BY <3>2
      <3>4. QED BY <3>1, <3>3 DEF ScrollShape
    <2>2. QED BY <2>1 DEF ClampScrollTarget
  <1>3. \A x : ScrollShape(ScrollPixels(s, x, content))
    BY <1>1, <1>2 DEF ScrollPixels
  <1>4. /\ ScrollShape(ScrollToBeginning(s, content)) /\ ScrollShape(ScrollToEnd(s, content))
        /\ \A d : ScrollShape(ScrollLines(s, d, content)) /\ ScrollShape(ScrollPages(s, d, content))
    BY <1>1, <1>2, <1>3 DEF ScrollToBeginning, ScrollToEnd, ScrollLines, ScrollPages
  <1>5. \A key \in Keys : ScrollShape(CommonNotifyKey(s, key, content))
    BY <1>4 DEF Keys, CommonNotifyKey
  <1>6. \A delta : ScrollShape(CommonMouseWheel(s, delta, content))
    BY <1>3 DEF CommonMouseWheel
  <1>7. QED BY <1>5, <1>6

LEMMA ViewShapes ==
  ASSUME NEW v, ViewShape(v)
  PROVE  /\ \A l, f : ViewShape([v EXCEPT !.lines = l, !.from = f])
         /\ \A c : ViewShape([v EXCEPT !.counter = c])
         /\ \A s : ScrollShape(s) => ViewShape([v EXCEPT !.scroll = s]) /\ [v EXCEPT !.scroll = s].scroll = s
  <1>1. ASSUME NEW l, NEW f
        PROVE  ViewShape([v EXCEPT !.lines = l, !.from = f])
    <2> DEFINE w == [v EXCEPT !.lines = l]
    <2>1. [v EXCEPT !.lines = l, !.from = f] = [w EXCEPT !.from = f]
      BY DEF ViewShape
    <2>2. w = [lines |-> l, from |-> v.from, counter |-> v.counter, scroll |-> v.scroll]
      BY DEF ViewShape
    <2> HIDE DEF w
    <2>3. [w EXCEPT !.from = f] = [lines |-> l, from |-> f, counter |-> v.counter, scroll |-> v.scroll]
      BY <2>2
    <2>4. QED BY <2>1, <2>3 DEF ViewShape
  <1>2. ASSUME NEW c
        PROVE  ViewShape([v EXCEPT !.counter = c])
    <2>1. [v EXCEPT !.counter = c] = [lines |-> v.lines, from |-> v.from, counter |-> c, scroll |-> v.scroll]
      BY DEF ViewShape
    <2>2. QED BY <2>1 DEF ViewShape
  <1>3. ASSUME NEW s, ScrollShape(s)
        PROVE  ViewShape([v EXCEPT !.scroll = s]) /\ [v EXCEPT !.scroll = s].scroll = s
    <2>1. [v EXCEPT !.scroll = s] = [lines |-> v.lines, from |-> v.from, counter |-> v.counter, scroll |-> s]
      BY DEF ViewShape
    <2>2. QED BY <1>3, <2>1 DEF ViewShape
  <1>4. QED BY <1>1, <1>2, <1>3

\* What changes the view asks for a picture.
LEMMA AskedPicture ==
  ASSUME PaintInv, ViewShape(source'), paints' = paints + 1
  PROVE  PaintInv'
  <1>1. paints' \in Nat /\ paints' # 0
    BY DEF PaintInv
  <1>2. QED BY <1>1 DEF PaintInv, PictureCurrent

LEMMA SamePicture ==
  ASSUME PaintInv, UNCHANGED <<source, paints, picture>>, phase' = phase \/ phase' # "run"
  PROVE  PaintInv'
  BY DEF PaintInv, PictureCurrent, ViewShape, Draw

LEMMA RenderPicture ==
  ASSUME PaintInv, NEW n \in {0, 1}, n = 1 => paints > 0, Render(n)
  PROVE  PaintInv'
  <1> DEFINE moved == Update(source.scroll)
             shown == [source EXCEPT !.scroll = Update(source.scroll)]
             below == Update(output.scroll)
  <1>1. source' = shown /\ picture' = Draw(shown)
    BY DEF Render
  <1>2. ScrollShape(moved) /\ (~NeedsMore(moved) => moved.offset = moved.target)
    BY ScrollShapes DEF PaintInv, ViewShape
  <1>3. ViewShape(shown) /\ shown.scroll = moved
    BY <1>2, ViewShapes DEF PaintInv
  <1>4. \E b \in {0, 1} : paints' = paints - n + Asks(moved) + b
    BY <1>3 DEF Render, Asks
  <1> HIDE DEF shown, moved
  <1>5. paints \in Nat /\ paints - n \in Nat
    BY DEF PaintInv
  <1>6. paints' \in Nat /\ (paints' = 0 => ~NeedsMore(moved))
    BY <1>4, <1>5 DEF Asks
  <1>7. PictureCurrent'
    BY <1>1, <1>2, <1>3, <1>6 DEF PictureCurrent, Draw
  <1>8. QED BY <1>1, <1>3, <1>6, <1>7 DEF PaintInv, ViewShape

LEMMA PaintStep ==
  ASSUME PaintInv, [Next]_vars
  PROVE  PaintInv'
  <1>1. CASE MainThread
    <2>1. CASE MainMessageLoopStart \/ (\E id \in IDs : CreateThread(id) \/ ShutdownThread(id))
               \/ DestroyApplication \/ CallThroughNull \/ DestroyMainLoop
      BY <2>1, SamePicture DEF MainMessageLoopStart, CreateThread, ShutdownThread, DestroyApplication, CallThroughNull, DestroyMainLoop,
                               appVars, viewVars
    <2>2. CASE CreateApplication \/ FileLoadCompleted
      <3>1. source' = [source EXCEPT !.lines = <<Loading>>, !.from = NoText] /\ paints' = paints + 1
        BY <2>2 DEF CreateApplication, SetDisplay, FileLoadCompleted, SetData, Invalidate
      <3>2. ViewShape(source')
        BY <3>1, ViewShapes, Zenon DEF PaintInv
      <3>3. QED BY <3>1, <3>2, AskedPicture
    <2>3. CASE ConnectDebugCore \/ AddText
      BY <2>3, SamePicture DEF ConnectDebugCore, AddText, UIRuns, viewVars
    <2>4. CASE OnStoppedAtBreakpoint
      <3>1. PICK line \in StopLines : SetProgramCounterLine(line)
        BY <2>4 DEF OnStoppedAtBreakpoint
      <3>2. ViewShape(source') /\ paints' = paints + 1
        BY <3>1, ViewShapes DEF SetProgramCounterLine, Invalidate, PaintInv
      <3>3. QED BY <3>2, AskedPicture
    <2>5. CASE CommitAfterHighlight
      BY <2>5, AskedPicture, ViewShapes DEF CommitAfterHighlight, Committed, Invalidate, PaintInv
    <2>6. CASE Paint
      BY <2>6, RenderPicture DEF Paint
    <2>7. QED BY <1>1, <2>1, <2>2, <2>3, <2>4, <2>5, <2>6 DEF MainThread
  <1>2. CASE OtherThreads
    BY <1>2, SamePicture DEF OtherThreads, ReadFileOnFILE, HighlightOnFILE, Create, BackendRuns, Quits, appVars, viewVars
  <1>3. CASE \E t \in IDs : Helper(t)
    BY <1>3, SamePicture DEF Helper, appVars, viewVars
  <1>4. CASE UserAndGdb
    <2>1. CASE ScrollSource
      <3>1. PICK s : ScrollShape(s) /\ source' = [source EXCEPT !.scroll = s]
        <4>1. /\ \A key \in Keys : ScrollShape(CommonNotifyKey(source.scroll, key, SourceSize))
              /\ \A delta : ScrollShape(CommonMouseWheel(source.scroll, delta, SourceSize))
          BY MovedShapes DEF PaintInv, ViewShape
        <4>2. QED BY <2>1, <4>1 DEF ScrollSource, Scrolled
      <3>2. ViewShape(source')
        BY <3>1, ViewShapes DEF PaintInv
      <3>3. paints' = paints + 1
        BY <2>1 DEF ScrollSource, Invalidate
      <3>4. QED BY <3>2, <3>3, AskedPicture
    <2>2. CASE ScrollOutput
      BY <2>2, AskedPicture DEF ScrollOutput, Invalidate, PaintInv, ViewShape
    <2>3. CASE Expose
      BY <2>3, RenderPicture DEF Expose
    <2>4. CASE Close \/ GdbStops \/ GdbPrints
      BY <2>4, SamePicture DEF Close, GdbStops, GdbPrints, viewVars
    <2>5. QED BY <1>4, <2>1, <2>2, <2>3, <2>4 DEF UserAndGdb
  <1>5. CASE UNCHANGED vars
    BY <1>5, SamePicture DEF vars, appVars, viewVars
  <1>6. QED BY <1>1, <1>2, <1>3, <1>4, <1>5 DEF Next, AnyThread

\* If no picture is on its way the last one shows the view as it is, at rest
\* (source_view.cc 95-187, scroll_helper.cc 34-46): whatever the texts, the
\* sizes and what the user and gdb do, nothing forgets to ask for a picture.
THEOREM PictureCurrentHolds == Spec => []PictureCurrent
  <1>1. Init => PaintInv
    BY DEF Init, PaintInv, ViewShape, ScrollShape, NewScroll, PictureCurrent
  <1>2. PaintInv /\ [Next]_vars => PaintInv'
    BY PaintStep
  <1>3. PaintInv => PictureCurrent
    BY DEF PaintInv
  <1>4. QED BY <1>1, <1>2, <1>3, PTL DEF Spec

---------------------------------------------------------------------------
(***************************************************************************)
(* The text that was set last, on its way: a highlight in the outbox of    *)
(* the UI thread, then in the queue of FILE, then a commit in the queue of *)
(* the UI thread, then the lines of the view.                              *)
(***************************************************************************)
NoneOf(q, kind) == \A i \in 1 .. Len(q) : q[i].kind # kind
LastOf(q, kind, t) ==
  \A i \in 1 .. Len(q) :
    q[i].kind = kind /\ (\A j \in 1 .. Len(q) : j > i => q[j].kind # kind) => q[i].text = t
Highlights(posts) == posts # <<>> /\ posts[1].task.kind = "highlight"

Chain(posts, file, ui, from, t) ==
  /\ Highlights(posts) => posts[1].task.text = t
  /\ ~Highlights(posts) => LastOf(file, "highlight", t)
  /\ ~Highlights(posts) /\ NoneOf(file, "highlight") => LastOf(ui, "commit", t)
  /\ ~Highlights(posts) /\ NoneOf(file, "highlight") /\ NoneOf(ui, "commit") => from = t

\* Only the UI thread asks for highlighting, first of all that it posts, and
\* commits come as replies only.
PostsInOrder(t, posts) ==
  \A i \in 1 .. Len(posts) :
    /\ posts[i].task.kind # "commit"
    /\ posts[i].task.kind = "highlight" => t = UI /\ i = 1 /\ posts[i].to = FILE
OutboxInv == \A t \in IDs : PostsInOrder(t, outbox[t])

\* No thread ends before the window is closed, so nothing posted is lost.
LifeInv ==
  /\ phase \in {"start", "threads"} => core = "none" /\ \A t \in IDs : queue[t] = <<>> /\ outbox[t] = <<>>
  /\ phase \in {"start", "threads", "run"} => joining = Nobody
  /\ phase = "run" =>
       \A t \in IDs : threads[t] /\ message_loop[t] /\ (post[t].at = "post" => post[t].loop)
ChainInv == phase = "run" => Chain(outbox[UI], queue[FILE], queue[UI], source.from, text)

---------------------------------------------------------------------------
LEMMA TailIsShifted ==
  ASSUME NEW S, NEW q \in Seq(S), q # <<>>
  PROVE  /\ Len(q) \in Nat /\ Len(q) >= 1 /\ Len(Tail(q)) = Len(q) - 1
         /\ Tail(q) \in Seq(S)
         /\ \A i \in 1 .. Len(Tail(q)) : Tail(q)[i] = q[i + 1] /\ i + 1 \in 1 .. Len(q)
         /\ Head(q) = q[1] /\ 1 \in 1 .. Len(q)
  OBVIOUS

LEMMA AppendIsLonger ==
  ASSUME NEW S, NEW q \in Seq(S), NEW x \in S
  PROVE  /\ Len(q) \in Nat /\ Len(Append(q, x)) = Len(q) + 1
         /\ Append(q, x) \in Seq(S)
         /\ \A i \in 1 .. Len(q) : Append(q, x)[i] = q[i] /\ i \in 1 .. Len(q) + 1
         /\ Append(q, x)[Len(q) + 1] = x /\ Len(q) + 1 \in 1 .. Len(q) + 1
         /\ \A i \in 1 .. Len(q) + 1 : i \in 1 .. Len(q) \/ i = Len(q) + 1
  BY AppendProperties

LEMMA NoneOfTail ==
  ASSUME NEW S, NEW q \in Seq(S), q # <<>>, NEW kind, Head(q).kind # kind
  PROVE  NoneOf(Tail(q), kind) <=> NoneOf(q, kind)
  <1>1. ASSUME NoneOf(q, kind) PROVE NoneOf(Tail(q), kind)
    BY <1>1, TailIsShifted DEF NoneOf
  <1>2. ASSUME NoneOf(Tail(q), kind), NEW i \in 1 .. Len(q) PROVE q[i].kind # kind
    <2>1. CASE i = 1
      BY <2>1, TailIsShifted
    <2>2. CASE i # 1
      <3>1. i - 1 \in 1 .. Len(Tail(q)) /\ i - 1 + 1 = i
        BY <2>2, TailIsShifted
      <3>2. QED BY <1>2, <3>1, TailIsShifted DEF NoneOf
    <2>3. QED BY <2>1, <2>2
  <1>3. QED BY <1>1, <1>2 DEF NoneOf

\* What is last in the tail is last, and what is at the head is last if no
\* other is in the tail.
LEMMA LastOfTail ==
  ASSUME NEW S, NEW q \in Seq(S), q # <<>>, NEW kind, NEW t, LastOf(q, kind, t)
  PROVE  /\ LastOf(Tail(q), kind, t)
         /\ Head(q).kind = kind /\ NoneOf(Tail(q), kind) => Head(q).text = t
  <1> DEFINE r == Tail(q)
  <1>1. /\ Len(q) \in Nat /\ Len(q) >= 1 /\ Len(r) = Len(q) - 1
        /\ \A i \in 1 .. Len(r) : r[i] = q[i + 1] /\ i + 1 \in 1 .. Len(q)
        /\ Head(q) = q[1] /\ 1 \in 1 .. Len(q)
    BY TailIsShifted
  <1>2. \A j \in 1 .. Len(q) : j > 1 => j - 1 \in 1 .. Len(r) /\ q[j] = r[j - 1]
    BY <1>1
  <1> HIDE DEF r
  <1>3. ASSUME NEW i \in 1 .. Len(r), r[i].kind = kind, \A j \in 1 .. Len(r) : j > i => r[j].kind # kind
        PROVE  r[i].text = t
    <2>1. q[i + 1].kind = kind /\ i + 1 \in 1 .. Len(q)
      BY <1>1, <1>3
    <2>2. ASSUME NEW j \in 1 .. Len(q), j > i + 1 PROVE q[j].kind # kind
      <3>1. j - 1 > i /\ j - 1 \in 1 .. Len(r) /\ q[j] = r[j - 1]
        BY <1>1, <1>2, <2>2
      <3>2. QED BY <1>3, <3>1
    <2>3. q[i + 1].text = t
      BY <2>1, <2>2 DEF LastOf
    <2>4. QED BY <1>1, <2>3
  <1>4. LastOf(r, kind, t)
    BY <1>3 DEF LastOf
  <1>5. ASSUME Head(q).kind = kind, NoneOf(r, kind) PROVE Head(q).text = t
    <2>1. \A j \in 1 .. Len(q) : j > 1 => q[j].kind # kind
      BY <1>2, <1>5 DEF NoneOf
    <2>2. QED BY <1>1, <1>5, <2>1 DEF LastOf
  <1>6. QED BY <1>4, <1>5 DEF r

LEMMA OtherAppended ==
  ASSUME NEW S, NEW q \in Seq(S), NEW x \in S, NEW kind, x.kind # kind
  PROVE  /\ NoneOf(Append(q, x), kind) <=> NoneOf(q, kind)
         /\ \A t : LastOf(q, kind, t) => LastOf(Append(q, x), kind, t)
  <1> DEFINE r == Append(q, x)
  <1>1. /\ Len(q) \in Nat /\ Len(r) = Len(q) + 1
        /\ \A i \in 1 .. Len(q) : r[i] = q[i] /\ i \in 1 .. Len(r)
        /\ r[Len(r)] = x
        /\ \A i \in 1 .. Len(r) : i \in 1 .. Len(q) \/ i = Len(r)
    BY AppendIsLonger
  <1> HIDE DEF r
  <1>2. NoneOf(r, kind) <=> NoneOf(q, kind)
    BY <1>1 DEF NoneOf
  <1>3. ASSUME NEW t, LastOf(q, kind, t) PROVE LastOf(r, kind, t)
    BY <1>1, <1>3 DEF LastOf
  <1>4. QED BY <1>2, <1>3 DEF r

LEMMA ThisAppended ==
  ASSUME NEW S, NEW q \in Seq(S), NEW x \in S
  PROVE  LastOf(Append(q, x), x.kind, x.text) /\ ~NoneOf(Append(q, x), x.kind)
  <1> DEFINE r == Append(q, x)
  <1>1. /\ Len(q) \in Nat /\ Len(r) = Len(q) + 1 /\ Len(r) \in 1 .. Len(r)
        /\ r[Len(r)] = x
        /\ \A i \in 1 .. Len(r) : Len(r) > i \/ i = Len(r)
    BY AppendIsLonger
  <1> HIDE DEF r
  <1>2. LastOf(r, x.kind, x.text)
    BY <1>1 DEF LastOf
  <1>3. ~NoneOf(r, x.kind)
    BY <1>1 DEF NoneOf
  <1>4. QED BY <1>2, <1>3 DEF r

---------------------------------------------------------------------------
(***************************************************************************)
(* How the chain moves on.                                                 *)
(***************************************************************************)
LEMMA ChainMoves ==
  ASSUME NEW S, NEW file \in Seq(S), NEW ui \in Seq(S), NEW posts, NEW from, NEW t,
         Chain(posts, file, ui, from, t)
  PROVE  /\ \A new : ~Highlights(posts) /\ ~Highlights(new) => Chain(new, file, ui, from, t)
         /\ ui # <<>> /\ Head(ui).kind # "commit" => Chain(posts, file, Tail(ui), from, t)
         /\ ui # <<>> /\ Head(ui).kind = "commit" => Chain(posts, file, Tail(ui), Head(ui).text, t)
         /\ file # <<>> /\ Head(file).kind # "highlight" => Chain(posts, Tail(file), ui, from, t)
         /\ \A c \in S : c.kind # "commit" => Chain(posts, file, Append(ui, c), from, t)
         /\ \A c \in S : c.kind # "highlight" => Chain(posts, Append(file, c), ui, from, t)
  <1>1. ASSUME NEW new, ~Highlights(posts), ~Highlights(new)
        PROVE  Chain(new, file, ui, from, t)
    BY <1>1 DEF Chain
  <1>2. ASSUME ui # <<>>, Head(ui).kind # "commit"
        PROVE  Chain(posts, file, Tail(ui), from, t)
    BY <1>2, NoneOfTail, LastOfTail DEF Chain
  <1>3. ASSUME ui # <<>>, Head(ui).kind = "commit"
        PROVE  Chain(posts, file, Tail(ui), Head(ui).text, t)
    BY <1>3, LastOfTail DEF Chain
  <1>4. ASSUME file # <<>>, Head(file).kind # "highlight"
        PROVE  Chain(posts, Tail(file), ui, from, t)
    BY <1>4, NoneOfTail, LastOfTail DEF Chain
  <1>5. ASSUME NEW c \in S, c.kind # "commit"
        PROVE  Chain(posts, file, Append(ui, c), from, t)
    BY <1>5, OtherAppended DEF Chain
  <1>6. ASSUME NEW c \in S, c.kind # "highlight"
        PROVE  Chain(posts, Append(file, c), ui, from, t)
    BY <1>6, OtherAppended DEF Chain
  <1>7. QED BY <1>1, <1>2, <1>3, <1>4, <1>5, <1>6

\* HighlightOnFILE: if no later highlight waits, its commit is the last.
LEMMA ChainHighlighted ==
  ASSUME NEW S, NEW file \in Seq(S), NEW ui \in Seq(S), NEW posts, NEW from, NEW t, NEW c \in S,
         Chain(posts, file, ui, from, t),
         file # <<>>, Head(file).kind = "highlight", c.kind = "commit", c.text = Head(file).text
  PROVE  Chain(posts, Tail(file), Append(ui, c), from, t)
  <1>1. LastOf(Append(ui, c), "commit", Head(file).text) /\ ~NoneOf(Append(ui, c), "commit")
    BY ThisAppended
  <1>2. LastOf(file, "highlight", t) =>
          /\ LastOf(Tail(file), "highlight", t)
          /\ NoneOf(Tail(file), "highlight") => Head(file).text = t
    BY LastOfTail
  <1>3. QED BY <1>1, <1>2 DEF Chain

\* PostTaskHelper hands the highlight to FILE.
LEMMA ChainDelivered ==
  ASSUME NEW S, NEW file \in Seq(S), NEW ui, NEW posts, NEW new, NEW from, NEW t,
         Chain(posts, file, ui, from, t), Highlights(posts), ~Highlights(new), posts[1].task \in S
  PROVE  Chain(new, Append(file, posts[1].task), ui, from, t)
  <1> DEFINE c == posts[1].task
  <1>1. c.kind = "highlight" /\ c.text = t
    BY DEF Chain, Highlights
  <1>2. LastOf(Append(file, c), c.kind, c.text) /\ ~NoneOf(Append(file, c), c.kind)
    BY ThisAppended
  <1>3. QED BY <1>1, <1>2 DEF Chain

---------------------------------------------------------------------------
(***************************************************************************)
(* The outboxes.                                                           *)
(***************************************************************************)
LEMMA ClosureKinds ==
  /\ \A kind : Plain(kind).kind = kind
  /\ \A t : Task("highlight", t, Empty).kind = "highlight" /\ Task("highlight", t, Empty).text = t
  /\ \A t, l : Task("commit", t, l).kind = "commit" /\ Task("commit", t, l).text = t
  /\ \A t, c : To(t, c).to = t /\ To(t, c).task = c
  BY DEF Plain, Task, To

LEMMA NothingPosted == \A t : PostsInOrder(t, <<>>) /\ ~Highlights(<<>>)
  BY DEF PostsInOrder, Highlights

LEMMA PlainPosts ==
  ASSUME NEW t \in IDs, NEW a, NEW b, NEW u, NEW w, a \notin {"highlight", "commit"}, b \notin {"highlight", "commit"}
  PROVE  /\ PostsInOrder(t, <<To(u, Plain(a))>>) /\ ~Highlights(<<To(u, Plain(a))>>)
         /\ PostsInOrder(t, <<To(u, Plain(a)), To(w, Plain(b))>>)
         /\ ~Highlights(<<To(u, Plain(a)), To(w, Plain(b))>>)
  <1>1. To(u, Plain(a)).task.kind = a /\ To(w, Plain(b)).task.kind = b
    BY ClosureKinds
  <1>2. QED BY <1>1 DEF PostsInOrder, Highlights

LEMMA StopPostsInOrder == PostsInOrder(UI, StopPosts) /\ ~Highlights(StopPosts)
  BY StopPostsPlain DEF PostsInOrder, Highlights

LEMMA HighlightPost ==
  ASSUME NEW x, NEW posts, posts = <<To(FILE, Task("highlight", x, Empty))>>
  PROVE  PostsInOrder(UI, posts) /\ Highlights(posts) /\ posts[1].task.text = x
  <1> DEFINE c == To(FILE, Task("highlight", x, Empty))
  <1>1. c.to = FILE /\ c.task.kind = "highlight" /\ c.task.text = x /\ posts = <<c>>
    BY ClosureKinds
  <1> HIDE DEF c
  <1>2. QED BY <1>1 DEF PostsInOrder, Highlights

LEMMA HighlightPosts ==
  ASSUME NEW x, NEW posts, posts = <<To(FILE, Task("highlight", x, Empty)), To(BACKEND, Plain("create"))>>
  PROVE  PostsInOrder(UI, posts) /\ Highlights(posts) /\ posts[1].task.text = x
  <1> DEFINE c == To(FILE, Task("highlight", x, Empty))
             d == To(BACKEND, Plain("create"))
  <1>1. c.to = FILE /\ c.task.kind = "highlight" /\ c.task.text = x /\ d.task.kind = "create" /\ posts = <<c, d>>
    BY ClosureKinds
  <1> HIDE DEF c, d
  <1>2. QED BY <1>1 DEF PostsInOrder, Highlights

LEMMA TailInOrder ==
  ASSUME NEW t \in IDs, NEW posts \in Seq(ProgramPosts), posts # <<>>, PostsInOrder(t, posts)
  PROVE  PostsInOrder(t, Tail(posts)) /\ ~Highlights(Tail(posts))
  <1> DEFINE rest == Tail(posts)
  <1>1. /\ Len(rest) \in Nat /\ rest \in Seq(ProgramPosts)
        /\ \A i \in 1 .. Len(rest) : rest[i] = posts[i + 1] /\ i + 1 \in 1 .. Len(posts) /\ i + 1 # 1
    BY TailIsShifted
  <1> HIDE DEF rest
  <1>2. \A i \in 1 .. Len(rest) : rest[i].task.kind \notin {"commit", "highlight"}
    BY <1>1 DEF PostsInOrder
  <1>3. PostsInOrder(t, rest)
    BY <1>2 DEF PostsInOrder
  <1>4. rest # <<>> => 1 \in 1 .. Len(rest)
    BY <1>1
  <1>5. QED BY <1>2, <1>3, <1>4 DEF Highlights, rest

\* What each of the actions of AppThread does to the outboxes.
LEMMA NewOutbox ==
  ASSUME ClosuresInv, OutboxInv, NEW t \in IDs, NEW posts, PostsInOrder(t, posts),
         outbox' = [outbox EXCEPT ![t] = posts]
  PROVE  OutboxInv'
  <1>1. \A u \in IDs : outbox'[u] = IF u = t THEN posts ELSE outbox[u]
    BY DEF ClosuresInv
  <1>2. QED BY <1>1 DEF OutboxInv, PostsInOrder

LEMMA RunsInOrder ==
  ASSUME ClosuresInv, OutboxInv, NEW t \in IDs, NEW posts, PostsInOrder(t, posts),
         RunMessage(t, posts) \/ \E replies : RunTask(t, posts, replies)
  PROVE  OutboxInv'
  <1>1. outbox' = [outbox EXCEPT ![t] = posts]
    BY DEF RunMessage, RunTask
  <1>2. QED BY <1>1, NewOutbox

LEMMA HelperInOrder ==
  ASSUME Inv, ClosuresInv, OutboxInv, NEW t \in IDs, PostTaskHelper(t)
  PROVE  OutboxInv'
  <1>1. CASE Deliver(t)
    <2>1. outbox[t] # <<>> /\ outbox[t] \in Seq(ProgramPosts)
      BY <1>1 DEF Deliver, Inv, Posting, ClosuresInv
    <2>2. PostsInOrder(t, Tail(outbox[t]))
      BY <2>1, TailInOrder DEF OutboxInv
    <2>3. outbox' = [outbox EXCEPT ![t] = Tail(outbox[t])]
      BY <1>1 DEF Deliver
    <2>4. QED BY <2>2, <2>3, NewOutbox
  <1>2. CASE ~Deliver(t)
    <2>1. UNCHANGED outbox
      BY <1>2 DEF PostTaskHelper, BeginPost, Scan, Acquire, ReadLoop
    <2>2. QED BY <2>1 DEF OutboxInv, PostsInOrder
  <1>3. QED BY <1>1, <1>2

LEMMA SameOutboxes ==
  ASSUME OutboxInv, UNCHANGED outbox
  PROVE  OutboxInv'
  BY DEF OutboxInv, PostsInOrder

LEMMA OutboxStep ==
  ASSUME Inv, ProgramInv, OutboxInv, [Next]_vars
  PROVE  OutboxInv'
  <1> USE FourThreads DEF ProgramInv
  <1>1. CASE MainThread
    <2>1. CASE MainMessageLoopStart \/ (\E id \in IDs : CreateThread(id) \/ ShutdownThread(id))
               \/ DestroyApplication \/ CallThroughNull \/ DestroyMainLoop
      BY <2>1, SameOutboxes DEF MainMessageLoopStart, CreateThread, ShutdownThread, DestroyApplication, CallThroughNull, DestroyMainLoop,
           StartMain, Initialize, StartWithOptions, Stop, Joined, EndMain, threadVars
    <2>2. CASE CreateApplication
      <3>1. PostsInOrder(UI, <<To(FILE, Task("highlight", text, Empty)), To(BACKEND, Plain("create"))>>)
        BY HighlightPosts
      <3>2. QED BY <2>2, <3>1, RunsInOrder DEF CreateApplication
    <2>3. CASE ConnectDebugCore
      <3>1. PostsInOrder(UI, <<To(BACKEND, Plain("notify")), To(BACKEND, Plain("load"))>>)
        BY PlainPosts
      <3>2. QED BY <2>3, <3>1, RunsInOrder DEF ConnectDebugCore, UIRuns
    <2>4. CASE OnStoppedAtBreakpoint
      <3>1. PostsInOrder(UI, StopPosts)
        BY StopPostsInOrder
      <3>2. QED BY <2>4, <3>1, RunsInOrder DEF OnStoppedAtBreakpoint, UIRuns, StopPosts
    <2>5. CASE FileLoadCompleted
      <3>1. PostsInOrder(UI, <<To(FILE, Task("highlight", Head(queue[UI]).text, Empty))>>)
        BY HighlightPost
      <3>2. QED BY <2>5, <3>1, RunsInOrder DEF FileLoadCompleted, UIRuns
    <2>6. CASE CommitAfterHighlight \/ AddText \/ Paint
      <3>1. PostsInOrder(UI, <<>>)
        BY NothingPosted
      <3>2. RunMessage(UI, <<>>) \/ RunTask(UI, <<>>, <<>>)
        BY <2>6 DEF CommitAfterHighlight, AddText, Paint, UIRuns
      <3>3. QED BY <3>1, <3>2, RunsInOrder
    <2>7. QED BY <1>1, <2>1, <2>2, <2>3, <2>4, <2>5, <2>6 DEF MainThread
  <1>2. CASE OtherThreads
    <2>1. CASE UNCHANGED threadVars \/ \E t \in IDs : Quits(t)
      BY <2>1, SameOutboxes DEF Quits, Quit, threadVars
    <2>2. CASE \E t \in {FILE, BACKEND} : \E replies : RunTask(t, <<>>, replies)
      BY <2>2, NothingPosted, RunsInOrder
    <2>3. QED BY <1>2, <2>1, <2>2 DEF OtherThreads, ReadFileOnFILE, HighlightOnFILE, Create, BackendRuns
  <1>3. CASE \E t \in IDs : Helper(t)
    BY <1>3, HelperInOrder DEF Helper
  <1>4. CASE UserAndGdb
    <2>1. CASE ScrollSource \/ ScrollOutput \/ Expose \/ Close
      <3>1. PostsInOrder(UI, <<>>)
        BY NothingPosted
      <3>2. RunMessage(UI, <<>>)
        BY <2>1 DEF ScrollSource, ScrollOutput, Expose, Input, Close
      <3>3. QED BY <3>1, <3>2, RunsInOrder
    <2>2. CASE GdbStops \/ GdbPrints
      <3>1. \A kind : kind \notin {"highlight", "commit"} => PostsInOrder(BACKEND, <<To(UI, Plain(kind))>>)
        BY PlainPosts
      <3>2. PostsInOrder(BACKEND, <<To(UI, Plain("stopped"))>>) /\ PostsInOrder(BACKEND, <<To(UI, Plain("output"))>>)
            /\ PostsInOrder(BACKEND, <<To(UI, Plain("lost"))>>)
        BY <3>1
      <3>3. QED BY <2>2, <3>2, RunsInOrder DEF GdbStops, GdbPrints
    <2>3. QED BY <1>4, <2>1, <2>2 DEF UserAndGdb
  <1>5. CASE UNCHANGED vars
    BY <1>5, SameOutboxes DEF vars, threadVars
  <1>6. QED BY <1>1, <1>2, <1>3, <1>4, <1>5 DEF Next, AnyThread

---------------------------------------------------------------------------
(***************************************************************************)
(* The threads, until the window is closed.                                *)
(***************************************************************************)
Early == phase \in {"start", "threads"}

LEMMA SameLife ==
  ASSUME LifeInv, UNCHANGED <<phase, threads, message_loop, post, joining>>,
         Early => UNCHANGED <<core, queue, outbox>>
  PROVE  LifeInv'
  BY DEF LifeInv, Early

LEMMA BusyIsNotEarly ==
  ASSUME Inv, LifeInv, NEW t \in IDs, queue[t] # <<>> \/ post[t].at # "idle" \/ outbox[t] # <<>> \/ core # "none" \/ joining # Nobody
  PROVE  ~Early
  BY DEF LifeInv, Early, Inv, Posting

LEMMA HelperAlive ==
  ASSUME Inv, LifeInv, NEW t \in IDs, Helper(t)
  PROVE  LifeInv'
  <1>1. UNCHANGED <<phase, core, threads, message_loop, joining>>
    BY DEF Helper, appVars, PostTaskHelper, BeginPost, Scan, Acquire, ReadLoop, Deliver
  <1>2. ~Early
    <2>1. post[t].at # "idle" \/ outbox[t] # <<>>
      BY DEF Helper, PostTaskHelper, BeginPost, Scan, Acquire, ReadLoop, Deliver
    <2>2. QED BY <2>1, BusyIsNotEarly
  <1>3. ASSUME phase = "run", NEW u \in IDs, post'[u].at = "post"
        PROVE  post'[u].loop
    <2>1. CASE ReadLoop(t)
      <3>1. Target(t) \in IDs
        BY <2>1, Targets DEF ReadLoop
      <3>2. threads[Target(t)] /\ message_loop[Target(t)]
        BY <1>3, <3>1 DEF LifeInv
      <3>3. \A v \in IDs : post'[v] = IF v = t THEN At("post", 0, post[t].outlives, threads[Target(t)] /\ message_loop[Target(t)])
                                              ELSE post[v]
        BY <2>1 DEF ReadLoop, Moves, Inv, TypeInv
      <3>4. CASE u = t
        <4>1. post'[u].loop = (threads[Target(t)] /\ message_loop[Target(t)])
          BY <3>3, <3>4 DEF At
        <4>2. QED BY <3>2, <4>1
      <3>5. CASE u # t
        BY <1>3, <3>3, <3>5 DEF LifeInv
      <3>6. QED BY <3>4, <3>5
    <2>2. CASE ~ReadLoop(t)
      <3>1. \A v \in IDs : v # t => post'[v] = post[v]
        BY DEF Helper, PostTaskHelper, BeginPost, Scan, Acquire, ReadLoop, Deliver, Moves, Inv, TypeInv
      <3>2. post'[t].at # "post"
        BY <2>2 DEF Helper, PostTaskHelper, BeginPost, Scan, Acquire, Deliver, Moves, At, Idle, Inv, TypeInv
      <3>3. QED BY <1>3, <3>1, <3>2 DEF LifeInv
    <2>3. QED BY <2>1, <2>2
  <1>4. QED BY <1>1, <1>2, <1>3 DEF LifeInv, Early

LEMMA StartAlive ==
  ASSUME Inv, LifeInv, MainMessageLoopStart \/ (\E id \in IDs : CreateThread(id)) \/ CreateApplication
  PROVE  LifeInv'
  <1>1. CASE MainMessageLoopStart
    BY <1>1 DEF MainMessageLoopStart, In, StartMain, LifeInv
  <1>2. CASE \E id \in IDs : CreateThread(id)
    BY <1>2 DEF CreateThread, In, Initialize, StartWithOptions, appVars, LifeInv
  <1>3. CASE CreateApplication
    <2>1. /\ phase = "threads" /\ phase' = "run" /\ message_loop[AUX] /\ joining = Nobody
          /\ UNCHANGED <<threads, message_loop, post, joining>>
      BY <1>3 DEF CreateApplication, In, RunMessage, Free
    <2>2. \A t \in IDs : threads[t] /\ message_loop[t]
      <3>1. AUX \in IDs /\ \A t \in IDs : t = AUX \/ t < AUX
        BY FourThreads DEF AUX
      <3>2. threads[AUX]
        BY <2>1, <3>1 DEF Inv, Nested
      <3>3. QED BY <2>1, <3>1, <3>2 DEF Inv, Nested
    <2>3. \A t \in IDs : post[t].at = "idle"
      BY <2>1 DEF LifeInv, Inv, Posting
    <2>4. QED BY <2>1, <2>2, <2>3 DEF LifeInv
  <1>4. QED BY <1>1, <1>2, <1>3

LEMMA AliveStep ==
  ASSUME Inv, LifeInv, [Next]_vars
  PROVE  LifeInv'
  <1> USE FourThreads
  <1>1. CASE MainThread
    <2>1. CASE MainMessageLoopStart \/ (\E id \in IDs : CreateThread(id)) \/ CreateApplication
      BY <2>1, StartAlive
    <2>2. CASE (\E id \in IDs : ShutdownThread(id)) \/ DestroyApplication \/ CallThroughNull \/ DestroyMainLoop
      <3>1. phase' \in {"shutdown", "destroyed", "done", "crashed"}
        BY <2>2 DEF ShutdownThread, DestroyApplication, CallThroughNull, DestroyMainLoop, In, appVars
      <3>2. QED BY <3>1 DEF LifeInv
    <2>3. CASE ConnectDebugCore \/ OnStoppedAtBreakpoint \/ FileLoadCompleted \/ CommitAfterHighlight \/ AddText \/ Paint
      <3>1. UNCHANGED <<phase, threads, message_loop, post, joining>> /\ phase = "run"
        BY <2>3 DEF ConnectDebugCore, OnStoppedAtBreakpoint, FileLoadCompleted, CommitAfterHighlight, AddText, Paint,
                    UIRuns, In, RunTask, RunMessage
      <3>2. QED BY <3>1, SameLife DEF Early
    <2>4. QED BY <1>1, <2>1, <2>2, <2>3 DEF MainThread
  <1>2. CASE OtherThreads
    <2>1. CASE ReadFileOnFILE \/ HighlightOnFILE \/ Create \/ BackendRuns
      <3>1. UNCHANGED <<phase, threads, message_loop, post, joining>>
        BY <2>1 DEF ReadFileOnFILE, HighlightOnFILE, Create, BackendRuns, RunTask, threadVars, appVars
      <3>2. queue[FILE] # <<>> \/ queue[BACKEND] # <<>>
        BY <2>1 DEF ReadFileOnFILE, HighlightOnFILE, Create, BackendRuns, First
      <3>3. QED BY <3>1, <3>2, SameLife, BusyIsNotEarly
    <2>2. CASE \E t \in IDs : Quits(t)
      <3>1. joining # Nobody /\ UNCHANGED <<phase, joining>>
        BY <2>2, Identifiers DEF Quits, Quit, appVars
      <3>2. phase \notin {"start", "threads", "run"}
        BY <3>1 DEF LifeInv
      <3>3. QED BY <3>1, <3>2 DEF LifeInv
    <2>3. QED BY <1>2, <2>1, <2>2 DEF OtherThreads
  <1>3. CASE \E t \in IDs : Helper(t)
    BY <1>3, HelperAlive
  <1>4. CASE UserAndGdb
    <2>1. CASE ScrollSource \/ ScrollOutput \/ Expose
      <3>1. UNCHANGED <<phase, threads, message_loop, post, joining>> /\ phase = "run"
        BY <2>1 DEF ScrollSource, ScrollOutput, Expose, Input, In, RunMessage
      <3>2. QED BY <3>1, SameLife DEF Early
    <2>2. CASE Close
      BY <2>2 DEF Close, LifeInv
    <2>3. CASE GdbStops \/ GdbPrints
      <3>1. UNCHANGED <<phase, threads, message_loop, post, joining>> /\ core # "none"
        BY <2>3 DEF GdbStops, GdbPrints, RunMessage
      <3>2. QED BY <3>1, SameLife, BusyIsNotEarly
    <2>4. QED BY <1>4, <2>1, <2>2, <2>3 DEF UserAndGdb
  <1>5. CASE UNCHANGED vars
    BY <1>5, SameLife DEF vars, threadVars, appVars
  <1>6. QED BY <1>1, <1>2, <1>3, <1>4, <1>5 DEF Next, AnyThread

---------------------------------------------------------------------------
(***************************************************************************)
(* The chain in the program.                                               *)
(***************************************************************************)
NextChain == Chain(outbox'[UI], queue'[FILE], queue'[UI], source'.from, text')

LEMMA ChainIs == ASSUME NextChain PROVE ChainInv'
  BY DEF NextChain, ChainInv, Chain, Highlights, LastOf, NoneOf

LEMMA TheQueues ==
  ASSUME ClosuresInv
  PROVE  /\ queue[UI] \in Seq(Closures) /\ queue[FILE] \in Seq(Closures) /\ outbox[UI] \in Seq(ProgramPosts)
         /\ \A t \in IDs : queue[t] \in Seq(Closures)
  BY FourThreads DEF ClosuresInv

\* A message of the UI thread that posts no highlighting.
LEMMA MessageChain ==
  ASSUME ClosuresInv, Chain(outbox[UI], queue[FILE], queue[UI], source.from, text),
         NEW t \in IDs, NEW posts, RunMessage(t, posts), ~Highlights(posts),
         source'.from = source.from, UNCHANGED text
  PROVE  NextChain
  <1>1. queue' = queue /\ outbox[t] = <<>> /\ outbox'[UI] = IF t = UI THEN posts ELSE outbox[UI]
    BY FourThreads DEF RunMessage, Free, ClosuresInv
  <1>2. Chain(outbox'[UI], queue[FILE], queue[UI], source.from, text)
    <2>1. CASE t = UI
      <3>1. ~Highlights(outbox[UI])
        BY <1>1, <2>1, NothingPosted
      <3>2. outbox'[UI] = posts
        BY <1>1, <2>1
      <3>3. QED BY <3>1, <3>2, TheQueues, ChainMoves
    <2>2. CASE t # UI
      BY <1>1, <2>2
    <2>3. QED BY <2>1, <2>2
  <1>3. QED BY <1>1, <1>2 DEF NextChain

\* A task of the UI thread that posts no highlighting.
LEMMA TaskChain ==
  ASSUME ClosuresInv, Chain(outbox[UI], queue[FILE], queue[UI], source.from, text),
         NEW posts, RunTask(UI, posts, <<>>), ~Highlights(posts), UNCHANGED text,
         IF Head(queue[UI]).kind = "commit" THEN source'.from = Head(queue[UI]).text ELSE source'.from = source.from
  PROVE  NextChain
  <1> DEFINE ui == queue[UI]
             file == queue[FILE]
  <1>1. outbox[UI] = <<>> /\ outbox'[UI] = posts /\ ui # <<>> /\ queue'[UI] = Tail(ui) /\ queue'[FILE] = file
    BY FourThreads DEF RunTask, ClosuresInv
  <1>2. ui \in Seq(Closures) /\ file \in Seq(Closures)
    BY TheQueues
  <1>3. ~Highlights(outbox[UI])
    BY <1>1, NothingPosted
  <1>4. Chain(outbox[UI], file, ui, source.from, text)
    OBVIOUS
  <1> HIDE DEF ui, file
  <1>5. Chain(posts, file, ui, source.from, text)
    BY <1>2, <1>3, <1>4, ChainMoves
  <1>6. Chain(posts, file, Tail(ui), source'.from, text)
    <2>1. CASE Head(ui).kind = "commit"
      <3>1. source'.from = Head(ui).text
        BY <2>1 DEF ui
      <3>2. QED BY <1>1, <1>2, <1>5, <2>1, <3>1, ChainMoves
    <2>2. CASE Head(ui).kind # "commit"
      <3>1. source'.from = source.from
        BY <2>2 DEF ui
      <3>2. QED BY <1>1, <1>2, <1>5, <2>2, <3>1, ChainMoves
    <2>3. QED BY <2>1, <2>2
  <1>7. QED BY <1>1, <1>6 DEF NextChain

\* A task of another thread, with a reply or without; only HighlightOnFILE
\* replies with a commit.
LEMMA ReplyChain ==
  ASSUME ClosuresInv, Chain(outbox[UI], queue[FILE], queue[UI], source.from, text),
         NEW t \in IDs, t # UI, NEW c \in Closures, RunTask(t, <<>>, <<c>>), UNCHANGED <<source, text>>,
         IF t = FILE /\ Head(queue[FILE]).kind = "highlight"
         THEN c.kind = "commit" /\ c.text = Head(queue[FILE]).text ELSE c.kind # "commit"
  PROVE  NextChain
  <1> DEFINE ui == queue[UI]
             file == queue[FILE]
  <1>1. ui \in Seq(Closures) /\ file \in Seq(Closures) /\ queue[t] # <<>>
    BY TheQueues DEF RunTask
  <1>2. ui \o <<c>> = Append(ui, c)
    BY <1>1, AppendIsConcat
  <1>3. queue' = [queue EXCEPT ![t] = Tail(queue[t]), ![UI] = ui \o <<c>>]
    BY DEF RunTask, ClosuresInv
  <1>4. queue'[UI] = Append(ui, c) /\ queue'[FILE] = IF t = FILE THEN Tail(file) ELSE file
    BY <1>2, <1>3, FourThreads DEF ClosuresInv
  <1>5. outbox'[UI] = outbox[UI]
    BY FourThreads DEF RunTask, ClosuresInv
  <1>6. Chain(outbox[UI], file, ui, source.from, text)
    OBVIOUS
  <1>7. /\ t = FILE => file # <<>>
        /\ IF t = FILE /\ Head(file).kind = "highlight" THEN c.kind = "commit" /\ c.text = Head(file).text
                                                       ELSE c.kind # "commit"
    BY <1>1
  <1> HIDE DEF ui, file
  <1>8. Chain(outbox[UI], IF t = FILE THEN Tail(file) ELSE file, Append(ui, c), source.from, text)
    <2>1. CASE t = FILE /\ Head(file).kind = "highlight"
      <3>1. c.kind = "commit" /\ c.text = Head(file).text /\ file # <<>>
        BY <1>7, <2>1
      <3>2. Chain(outbox[UI], Tail(file), Append(ui, c), source.from, text)
        BY <1>1, <1>6, <2>1, <3>1, ChainHighlighted
      <3>3. QED BY <2>1, <3>2
    <2>2. CASE t = FILE /\ Head(file).kind # "highlight"
      <3>1. c.kind # "commit" /\ file # <<>>
        BY <1>7, <2>2
      <3>2. Chain(outbox[UI], Tail(file), ui, source.from, text)
        BY <1>1, <1>6, <2>2, <3>1, ChainMoves
      <3>3. Tail(file) \in Seq(Closures)
        BY <1>1, <3>1, TailIsShifted
      <3>4. Chain(outbox[UI], Tail(file), Append(ui, c), source.from, text)
        BY <1>1, <3>1, <3>2, <3>3, ChainMoves
      <3>5. QED BY <2>2, <3>4
    <2>3. CASE t # FILE
      <3>1. c.kind # "commit"
        BY <1>7, <2>3
      <3>2. Chain(outbox[UI], file, Append(ui, c), source.from, text)
        BY <1>1, <1>6, <3>1, ChainMoves
      <3>3. QED BY <2>3, <3>2
    <2>4. QED BY <2>1, <2>2, <2>3
  <1>9. QED BY <1>4, <1>5, <1>8 DEF NextChain

\* What the BACKEND thread runs without a reply leaves the other queues alone.
LEMMA SilentChain ==
  ASSUME ClosuresInv, Chain(outbox[UI], queue[FILE], queue[UI], source.from, text),
         RunTask(BACKEND, <<>>, <<>>), UNCHANGED <<source, text>>
  PROVE  NextChain
  <1>1. queue[UI] \o <<>> = queue[UI]
    BY TheQueues, ConcatEmptySeq
  <1>2. queue' = [queue EXCEPT ![BACKEND] = Tail(queue[BACKEND]), ![UI] = queue[UI]]
    BY <1>1, FourThreads DEF RunTask, ClosuresInv
  <1>3. queue'[UI] = queue[UI] /\ queue'[FILE] = queue[FILE]
    BY <1>2, FourThreads DEF ClosuresInv, FILE, BACKEND
  <1>4. outbox'[UI] = outbox[UI]
    BY FourThreads DEF RunTask, ClosuresInv
  <1>5. QED BY <1>3, <1>4 DEF NextChain

LEMMA HelperChain ==
  ASSUME Inv, ClosuresInv, OutboxInv, LifeInv, phase = "run",
         Chain(outbox[UI], queue[FILE], queue[UI], source.from, text), NEW t \in IDs, Helper(t)
  PROVE  NextChain
  <1>1. UNCHANGED <<source, text>> /\ PostTaskHelper(t)
    BY DEF Helper, appVars, viewVars
  <1>2. CASE ~Deliver(t)
    <2>1. UNCHANGED <<queue, outbox>>
      BY <1>1, <1>2 DEF PostTaskHelper, BeginPost, Scan, Acquire, ReadLoop
    <2>2. QED BY <1>1, <2>1 DEF NextChain
  <1>3. CASE Deliver(t)
    <2> DEFINE posts == outbox[t]
               c == Head(posts).task
               to == Target(t)
    <2>1. posts # <<>> /\ posts \in Seq(ProgramPosts) /\ post[t].loop
      BY <1>3 DEF Deliver, Inv, Posting, ClosuresInv, LifeInv
    <2>2. Head(posts) = posts[1] /\ posts[1] \in ProgramPosts /\ 1 \in 1 .. Len(posts)
      BY <2>1
    <2>3. c \in Closures /\ to \in IDs /\ to = posts[1].to /\ c = posts[1].task
      BY <2>2 DEF Target, ProgramPosts
    <2>4. /\ queue' = [queue EXCEPT ![to] = Append(queue[to], c)]
          /\ outbox' = [outbox EXCEPT ![t] = Tail(posts)]
      BY <1>3, <2>1 DEF Deliver
    <2>5. PostsInOrder(t, posts) /\ ~Highlights(Tail(posts))
      BY <2>1, TailInOrder DEF OutboxInv
    <2>6. outbox'[UI] = IF t = UI THEN Tail(posts) ELSE outbox[UI]
      BY <2>4, FourThreads DEF ClosuresInv
    <2>7. /\ queue'[UI] = IF to = UI THEN Append(queue[UI], c) ELSE queue[UI]
          /\ queue'[FILE] = IF to = FILE THEN Append(queue[FILE], c) ELSE queue[FILE]
      BY <2>4, FourThreads DEF ClosuresInv
    <2>8. /\ c.kind # "commit"
          /\ c.kind = "highlight" => t = UI /\ to = FILE
      BY <2>2, <2>3, <2>5 DEF PostsInOrder
    <2>9. Highlights(posts) <=> c.kind = "highlight"
      BY <2>1, <2>3 DEF Highlights
    <2> HIDE DEF c, to
    <2>10. CASE c.kind = "highlight"
      <3>1. Chain(Tail(posts), Append(queue[FILE], c), queue[UI], source.from, text)
        BY <2>3, <2>5, <2>8, <2>9, <2>10, TheQueues, ChainDelivered
      <3>2. QED BY <1>1, <2>6, <2>7, <2>8, <2>10, <3>1, FourThreads DEF NextChain
    <2>11. CASE c.kind # "highlight"
      <3> DEFINE file == IF to = FILE THEN Append(queue[FILE], c) ELSE queue[FILE]
                 ui == IF to = UI THEN Append(queue[UI], c) ELSE queue[UI]
      <3>1. Chain(outbox[UI], file, queue[UI], source.from, text)
        BY <2>3, <2>11, TheQueues, ChainMoves
      <3>2. file \in Seq(Closures)
        BY <2>3, TheQueues, AppendProperties
      <3>3. Chain(outbox[UI], file, ui, source.from, text)
        <4> HIDE DEF file
        <4>1. CASE to = UI
          BY <2>3, <2>8, <3>1, <3>2, <4>1, TheQueues, ChainMoves
        <4>2. CASE to # UI
          BY <3>1, <4>2
        <4>3. QED BY <4>1, <4>2
      <3>4. ui \in Seq(Closures)
        BY <2>3, TheQueues, AppendProperties
      <3>5. queue'[FILE] = file /\ queue'[UI] = ui
        BY <2>7
      <3> HIDE DEF file, ui
      <3>6. Chain(outbox'[UI], file, ui, source.from, text)
        <4>1. CASE t = UI
          <5>1. ~Highlights(outbox[UI]) /\ outbox'[UI] = Tail(posts)
            BY <2>6, <2>9, <2>11, <4>1
          <5>2. QED BY <2>5, <3>2, <3>3, <3>4, <5>1, ChainMoves
        <4>2. CASE t # UI
          BY <2>6, <3>3, <4>2
        <4>3. QED BY <4>1, <4>2
      <3>7. QED BY <1>1, <3>5, <3>6 DEF NextChain
    <2>12. QED BY <2>10, <2>11
  <1>4. QED BY <1>2, <1>3


\* Scrolling and the line of the program counter leave the text.
LEMMA FromStays ==
  ASSUME NEW v, ViewShape(v)
  PROVE  (\A s : [v EXCEPT !.scroll = s].from = v.from) /\ (\A c : [v EXCEPT !.counter = c].from = v.from)
  BY DEF ViewShape

\* The text set last leaves for FILE at once.
LEMMA SetDataChain ==
  ASSUME ClosuresInv, NEW posts, outbox' = [outbox EXCEPT ![UI] = posts], Highlights(posts), posts[1].task.text = text'
  PROVE  NextChain
  <1>1. outbox'[UI] = posts
    BY FourThreads DEF ClosuresInv
  <1>2. QED BY <1>1 DEF NextChain, Chain

ChainTask == ConnectDebugCore \/ OnStoppedAtBreakpoint \/ CommitAfterHighlight \/ AddText

LEMMA UITaskChain ==
  ASSUME ClosuresInv, ViewShape(source), Chain(outbox[UI], queue[FILE], queue[UI], source.from, text), ChainTask
  PROVE  NextChain
  <1> DEFINE connects == <<To(BACKEND, Plain("notify")), To(BACKEND, Plain("load"))>>
  <1>1. ~Highlights(connects) /\ ~Highlights(StopPosts) /\ ~Highlights(<<>>)
    BY PlainPosts, StopPostsInOrder, NothingPosted, FourThreads
  <1>2. CASE ConnectDebugCore
    <2>1. RunTask(UI, connects, <<>>) /\ Head(queue[UI]).kind = "connect" /\ UNCHANGED <<source, text>>
      BY <1>2 DEF ConnectDebugCore, UIRuns, First, viewVars
    <2> HIDE DEF connects
    <2>2. QED BY <1>1, <2>1, TaskChain
  <1>3. CASE OnStoppedAtBreakpoint
    <2>1. RunTask(UI, StopPosts, <<>>) /\ Head(queue[UI]).kind = "stopped" /\ UNCHANGED text
      BY <1>3 DEF OnStoppedAtBreakpoint, UIRuns, First, StopPosts
    <2>2. source'.from = source.from
      BY <1>3, FromStays DEF OnStoppedAtBreakpoint, SetProgramCounterLine
    <2>3. QED BY <1>1, <2>1, <2>2, TaskChain
  <1>4. CASE CommitAfterHighlight
    <2>1. RunTask(UI, <<>>, <<>>) /\ Head(queue[UI]).kind = "commit" /\ UNCHANGED text
      BY <1>4 DEF CommitAfterHighlight, UIRuns, First
    <2>2. source'.from = Head(queue[UI]).text
      <3>1. source' = [source EXCEPT !.lines = Head(queue[UI]).lines, !.from = Head(queue[UI]).text]
        BY <1>4 DEF CommitAfterHighlight, Committed
      <3>2. source = [lines |-> source.lines, from |-> source.from, counter |-> source.counter, scroll |-> source.scroll]
        BY DEF ViewShape
      <3>3. QED BY <3>1, <3>2
    <2>3. QED BY <1>1, <2>1, <2>2, TaskChain
  <1>5. CASE AddText
    <2>1. RunTask(UI, <<>>, <<>>) /\ Head(queue[UI]).kind = "output" /\ UNCHANGED <<source, text>>
      BY <1>5 DEF AddText, UIRuns, First
    <2>2. QED BY <1>1, <2>1, TaskChain
  <1>6. QED BY <1>2, <1>3, <1>4, <1>5 DEF ChainTask

LEMMA FileTaskChain ==
  ASSUME ClosuresInv, Chain(outbox[UI], queue[FILE], queue[UI], source.from, text),
         ReadFileOnFILE \/ HighlightOnFILE \/ Create \/ BackendRuns
  PROVE  NextChain
  <1>1. UNCHANGED <<source, text>>
    BY DEF ReadFileOnFILE, HighlightOnFILE, Create, BackendRuns, appVars, viewVars
  <1>2. CASE ReadFileOnFILE
    <2>1. Plain("loaded") \in Closures /\ Plain("loaded").kind = "loaded"
      BY PlainClosure, ClosureKinds DEF Kinds
    <2>2. RunTask(FILE, <<>>, <<Plain("loaded")>>) /\ Head(queue[FILE]).kind = "read"
      BY <1>2 DEF ReadFileOnFILE, First
    <2>3. QED BY <1>1, <2>1, <2>2, FourThreads, ReplyChain
  <1>3. CASE HighlightOnFILE
    <2>1. Head(queue[FILE]).kind = "highlight"
      BY <1>3 DEF HighlightOnFILE, First
    <2>2. PICK h \in Highlighted :
            /\ h.text = Head(queue[FILE]).text /\ h.ends
            /\ RunTask(FILE, <<>>, <<Task("commit", h.text, h.lines)>>)
      BY <1>3 DEF HighlightOnFILE
    <2> DEFINE c == Task("commit", h.text, h.lines)
    <2>3. c \in Closures /\ c.kind = "commit" /\ c.text = Head(queue[FILE]).text
      BY <2>2, CommitClosure, ClosureKinds
    <2>4. RunTask(FILE, <<>>, <<c>>)
      BY <2>2
    <2> HIDE DEF c
    <2>5. QED BY <1>1, <2>1, <2>3, <2>4, FourThreads, ReplyChain
  <1>4. CASE Create
    <2>1. CASE UNCHANGED threadVars
      BY <1>1, <2>1 DEF threadVars, NextChain
    <2>2. CASE RunTask(BACKEND, <<>>, <<Plain("connect")>>)
      <3>1. Plain("connect") \in Closures /\ Plain("connect").kind = "connect"
        BY PlainClosure, ClosureKinds DEF Kinds
      <3>2. BACKEND # FILE
        BY DEF BACKEND, FILE
      <3>3. QED BY <1>1, <2>2, <3>1, <3>2, FourThreads, ReplyChain
    <2>3. QED BY <1>4, <2>1, <2>2 DEF Create
  <1>5. CASE BackendRuns
    BY <1>1, <1>5, SilentChain DEF BackendRuns
  <1>6. QED BY <1>2, <1>3, <1>4, <1>5

LEMMA MessagesChain ==
  ASSUME ClosuresInv, ViewShape(source), Chain(outbox[UI], queue[FILE], queue[UI], source.from, text),
         Paint \/ Expose \/ ScrollSource \/ ScrollOutput \/ GdbStops \/ GdbPrints
  PROVE  NextChain
  <1>1. source'.from = source.from /\ UNCHANGED text
    <2>1. CASE Paint \/ Expose
      <3>1. \E s : source' = [source EXCEPT !.scroll = s]
        BY <2>1 DEF Paint, Expose, Render
      <3>2. QED BY <2>1, <3>1, FromStays DEF Paint, Expose, Input
    <2>2. CASE ScrollSource
      <3>1. \E s : source' = [source EXCEPT !.scroll = s]
        BY <2>2 DEF ScrollSource, Scrolled
      <3>2. QED BY <2>2, <3>1, FromStays DEF ScrollSource, Input
    <2>3. CASE ScrollOutput \/ GdbStops \/ GdbPrints
      BY <2>3 DEF ScrollOutput, Input, GdbStops, GdbPrints, viewVars
    <2>4. QED BY <2>1, <2>2, <2>3
  <1>2. \A kind : kind \notin {"highlight", "commit"} => ~Highlights(<<To(UI, Plain(kind))>>)
    BY PlainPosts, FourThreads
  <1>3. \E t \in IDs : \E posts : RunMessage(t, posts) /\ ~Highlights(posts)
    <2>1. CASE Paint \/ Expose \/ ScrollSource \/ ScrollOutput
      BY <2>1, NothingPosted, FourThreads DEF Paint, Expose, ScrollSource, ScrollOutput, Input
    <2>2. CASE GdbStops
      <3>1. ~Highlights(<<To(UI, Plain("stopped"))>>)
        BY <1>2
      <3>2. QED BY <2>2, <3>1, FourThreads DEF GdbStops
    <2>3. CASE GdbPrints
      <3>1. ~Highlights(<<To(UI, Plain("output"))>>) /\ ~Highlights(<<To(UI, Plain("lost"))>>)
        BY <1>2
      <3>2. QED BY <2>3, <3>1, FourThreads DEF GdbPrints
    <2>4. QED BY <2>1, <2>2, <2>3
  <1>4. QED BY <1>1, <1>3, MessageChain

LEMMA ChainStep ==
  ASSUME Inv, ProgramInv, PaintInv, OutboxInv, LifeInv, ChainInv, [Next]_vars
  PROVE  ChainInv'
  <1> SUFFICES ASSUME phase' = "run" PROVE ChainInv'
    BY DEF ChainInv
  <1>1. ClosuresInv /\ ViewShape(source)
    BY DEF ProgramInv, PaintInv
  <1>2. CASE CreateApplication \/ FileLoadCompleted
    <2>1. \E posts : outbox' = [outbox EXCEPT ![UI] = posts] /\ Highlights(posts) /\ posts[1].task.text = text'
      <3>1. CASE CreateApplication
        <4> DEFINE posts == <<To(FILE, Task("highlight", text, Empty)), To(BACKEND, Plain("create"))>>
        <4>1. Highlights(posts) /\ posts[1].task.text = text
          BY HighlightPosts
        <4>2. outbox' = [outbox EXCEPT ![UI] = posts] /\ text' = text
          BY <3>1 DEF CreateApplication, RunMessage, SetDisplay, SetData
        <4>3. QED BY <4>1, <4>2
      <3>2. CASE FileLoadCompleted
        <4> DEFINE posts == <<To(FILE, Task("highlight", Head(queue[UI]).text, Empty))>>
        <4>1. Highlights(posts) /\ posts[1].task.text = Head(queue[UI]).text
          BY HighlightPost
        <4>2. outbox' = [outbox EXCEPT ![UI] = posts] /\ text' = Head(queue[UI]).text
          BY <3>2 DEF FileLoadCompleted, UIRuns, RunTask, SetData
        <4>3. QED BY <4>1, <4>2
      <3>3. QED BY <1>2, <3>1, <3>2
    <2>2. QED BY <1>1, <2>1, SetDataChain, ChainIs
  <1>3. CASE ~(CreateApplication \/ FileLoadCompleted)
    <2>1. phase = "run"
      <3>1. CASE MainThread
        BY <1>3, <3>1 DEF MainThread, MainMessageLoopStart, CreateThread, ShutdownThread, DestroyApplication, CallThroughNull,
           DestroyMainLoop, ConnectDebugCore, OnStoppedAtBreakpoint, CommitAfterHighlight, AddText, Paint, UIRuns, In, appVars
      <3>2. CASE OtherThreads \/ \E t \in IDs : Helper(t)
        BY <3>2 DEF OtherThreads, ReadFileOnFILE, HighlightOnFILE, Create, BackendRuns, Quits, Helper, appVars
      <3>3. CASE UserAndGdb
        BY <3>3 DEF UserAndGdb, ScrollSource, ScrollOutput, Expose, Input, In, Close, GdbStops, GdbPrints
      <3>4. CASE UNCHANGED vars
        BY <3>4 DEF vars, appVars
      <3>5. QED BY <3>1, <3>2, <3>3, <3>4 DEF Next, AnyThread
    <2>2. Chain(outbox[UI], queue[FILE], queue[UI], source.from, text)
      BY <2>1 DEF ChainInv
    <2>3. CASE ChainTask
      BY <1>1, <2>2, <2>3, UITaskChain, ChainIs
    <2>4. CASE ReadFileOnFILE \/ HighlightOnFILE \/ Create \/ BackendRuns
      BY <1>1, <2>2, <2>4, FileTaskChain, ChainIs
    <2>5. CASE Paint \/ Expose \/ ScrollSource \/ ScrollOutput \/ GdbStops \/ GdbPrints
      BY <1>1, <2>2, <2>5, MessagesChain, ChainIs
    <2>6. CASE \E t \in IDs : Helper(t)
      BY <1>1, <2>1, <2>2, <2>6, HelperChain, ChainIs
    <2>7. CASE UNCHANGED vars
      <3>1. NextChain
        BY <2>2, <2>7 DEF vars, threadVars, appVars, viewVars, NextChain
      <3>2. QED BY <3>1, ChainIs
    <2>8. ASSUME MainMessageLoopStart \/ (\E id \in IDs : CreateThread(id) \/ ShutdownThread(id)) \/ Close
                 \/ DestroyApplication \/ CallThroughNull \/ DestroyMainLoop
          PROVE  FALSE
      BY <2>1, <2>8 DEF MainMessageLoopStart, CreateThread, ShutdownThread, Close, DestroyApplication, CallThroughNull, DestroyMainLoop, In
    <2>9. ASSUME NEW t \in IDs, Quits(t)
          PROVE  FALSE
      BY <2>1, <2>9, Identifiers DEF Quits, Quit, LifeInv
    <2>10. QED BY <1>3, <2>3, <2>4, <2>5, <2>6, <2>7, <2>8, <2>9
               DEF Next, AnyThread, MainThread, OtherThreads, UserAndGdb, ChainTask
  <1>4. QED BY <1>2, <1>3

LEMMA ChainImplies ==
  ASSUME ClosuresInv, ChainInv
  PROVE  SourceShowsLastText
  <1> SUFFICES ASSUME phase = "run", ~InQueues({"highlight", "commit"}) PROVE source.from = text
    BY DEF SourceShowsLastText
  <1>1. /\ \A i \in DOMAIN queue[FILE] : queue[FILE][i].kind # "highlight"
        /\ \A i \in DOMAIN queue[UI] : queue[UI][i].kind # "commit"
        /\ \A i \in DOMAIN outbox[UI] : outbox[UI][i].task.kind # "highlight"
    BY FourThreads DEF InQueues
  <1>2. NoneOf(queue[FILE], "highlight") /\ NoneOf(queue[UI], "commit")
    BY <1>1, TheQueues DEF NoneOf
  <1>3. ~Highlights(outbox[UI])
    <2>1. outbox[UI] # <<>> => 1 \in DOMAIN outbox[UI]
      BY TheQueues
    <2>2. QED BY <1>1, <2>1 DEF Highlights
  <1>4. QED BY <1>2, <1>3 DEF ChainInv, Chain

\* Once no highlighting is under way, the lines are those of the text set last
\* (source_view.cc 63-93), for any number of texts, set at any time, and any
\* interleaving of the threads: posting keeps the order, so the commit of an
\* earlier text is never the last.
THEOREM SourceShowsLastTextHolds == Spec => []SourceShowsLastText
  <1> DEFINE All == Inv /\ ProgramInv /\ PaintInv /\ OutboxInv /\ LifeInv /\ ChainInv
  <1>1. Init => All
    <2> SUFFICES ASSUME Init PROVE All
      OBVIOUS
    <2>1. Inv /\ ProgramInv
      BY ProgramInit
    <2>2. PaintInv
      BY DEF Init, PaintInv, ViewShape, ScrollShape, NewScroll, PictureCurrent
    <2>3. OutboxInv
      BY NothingPosted DEF Init, ThreadInit, OutboxInv
    <2>4. LifeInv /\ ChainInv
      BY DEF Init, ThreadInit, LifeInv, ChainInv
    <2>5. QED BY <2>1, <2>2, <2>3, <2>4
  <1>2. All /\ [Next]_vars => All'
    BY ProgramNextInv, PaintStep, OutboxStep, AliveStep, ChainStep
  <1>3. All => SourceShowsLastText
    BY ChainImplies DEF ProgramInv
  <1>4. QED BY <1>1, <1>2, <1>3, PTL DEF Spec
-----------------------------------------------------------------------------
(* The scrolling of a view comes to rest where it should, for every height *)
(* of a line, of the screen and of the text.                               *)

Scrolls == [offset : Int, target : Int, ticks : Nat]
Distance(a, b) == IF a <= b THEN b - a ELSE a - b
Clamped(content) == -LineHeight .. Greater(0, content - LineHeight)

LEMMA Sizes == LineHeight \in Nat /\ LineHeight > 0 /\ ScreenHeight \in Nat /\ FadeTicks \in Nat /\ FadeTicks > 0
  BY SizesAssumption

\* A fifth of the way, truncated towards zero, does not lead past the target,
\* nor back.
LEMMA NearerBetween ==
  ASSUME NEW s \in Scrolls
  PROVE  /\ Nearer(s) \in Int
         /\ s.offset <= s.target => s.offset <= Nearer(s) /\ Nearer(s) <= s.target
         /\ s.target <= s.offset => s.target <= Nearer(s) /\ Nearer(s) <= s.offset
  <1> DEFINE o == s.offset
             t == s.target
             n == 4 * o + t
  <1>1. o \in Int /\ t \in Int /\ n \in Int
    BY DEF Scrolls
  <1>2. Nearer(s) = IF n >= 0 THEN n \div 5 ELSE -((-n) \div 5)
    BY DEF Nearer, Truncated
  <1> HIDE DEF o, t, n
  <1>3. n = 4 * o + t
    BY DEF o, t, n
  <1>4. CASE n >= 0
    <2> DEFINE q == n \div 5
    <2>1. q \in Int /\ 5 * q <= n /\ n < 5 * q + 5
      BY <1>1, <1>4
    <2>2. Nearer(s) = q
      BY <1>2, <1>4
    <2> HIDE DEF q
    <2>3. (o <= t => o <= q /\ q <= t) /\ (t <= o => t <= q /\ q <= o)
      BY <1>1, <1>3, <2>1
    <2>4. QED BY <2>1, <2>2, <2>3 DEF o, t
  <1>5. CASE n < 0
    <2> DEFINE q == (-n) \div 5
    <2>1. q \in Int /\ 5 * q <= -n /\ -n < 5 * q + 5
      BY <1>1, <1>5
    <2>2. Nearer(s) = -q
      BY <1>1, <1>2, <1>5
    <2> HIDE DEF q
    <2>3. (o <= t => o <= -q /\ -q <= t) /\ (t <= o => t <= -q /\ -q <= o)
      BY <1>1, <1>3, <2>1
    <2>4. QED BY <2>1, <2>2, <2>3 DEF o, t
  <1>6. QED BY <1>1, <1>4, <1>5

\* Every picture brings the offset nearer to its target or finds it there
\* (scroll_helper.cc 34-46): the animation ends, whatever the distance.
THEOREM UpdateComesNearer ==
  ASSUME NEW s \in Scrolls
  PROVE  /\ Update(s) \in Scrolls
         /\ \/ Update(s).offset = s.target
            \/ Distance(Update(s).offset, s.target) < Distance(s.offset, s.target)
  <1>1. s.offset \in Int /\ s.target \in Int /\ s.ticks \in Nat
    BY DEF Scrolls
  <1>2. s = [offset |-> s.offset, target |-> s.target, ticks |-> s.ticks]
    BY DEF Scrolls
  <1>3. CASE Nearer(s) = s.offset
    <2>1. Update(s) = [offset |-> s.target, target |-> s.target, ticks |-> s.ticks + 1]
      BY <1>2, <1>3 DEF Update
    <2>2. QED BY <1>1, <2>1 DEF Scrolls
  <1>4. CASE Nearer(s) # s.offset
    <2>1. Update(s) = [offset |-> Nearer(s), target |-> s.target, ticks |-> 0]
      BY <1>2, <1>4 DEF Update
    <2>2. Nearer(s) \in Int
      BY NearerBetween
    <2>3. Distance(Nearer(s), s.target) < Distance(s.offset, s.target)
      BY <1>1, <1>4, NearerBetween DEF Distance
    <2>4. QED BY <1>1, <2>1, <2>2, <2>3 DEF Scrolls
  <1>5. QED BY <1>3, <1>4

\* When Update asks for no further picture the offset has arrived
\* (scroll_helper.cc 34-46): no animation stops half way.
THEOREM RestsAtTarget ==
  ASSUME NEW s \in Scrolls, ~NeedsMore(Update(s))
  PROVE  Update(s).offset = Update(s).target
  <1>1. s = [offset |-> s.offset, target |-> s.target, ticks |-> s.ticks]
    BY DEF Scrolls
  <1>2. CASE Nearer(s) = s.offset
    BY <1>1, <1>2 DEF Update
  <1>3. CASE Nearer(s) # s.offset
    <2>1. Update(s) = [offset |-> Nearer(s), target |-> s.target, ticks |-> 0]
      BY <1>1, <1>3 DEF Update
    <2>2. NeedsMore(Update(s))
      BY <2>1, Sizes DEF NeedsMore
    <2>3. QED BY <2>2
  <1>4. QED BY <1>2, <1>3

\* Whatever moves the target, it stays within the text, or one line above the
\* top when there is no text (scroll_helper.cc 95-132).
THEOREM TargetStaysInText ==
  ASSUME NEW s \in Scrolls, NEW content \in Nat, NEW d \in Int, NEW key \in Keys
  PROVE  /\ CommonNotifyKey(s, key, content).target \in Clamped(content)
         /\ CommonMouseWheel(s, d, content).target \in Clamped(content)
  <1>1. ASSUME NEW u \in Scrolls
        PROVE  ClampScrollTarget(u, content).target \in Clamped(content)
    <2>1. u.target \in Int /\ u = [offset |-> u.offset, target |-> u.target, ticks |-> u.ticks]
      BY DEF Scrolls
    <2>2. ClampScrollTarget(u, content).target = Lesser(content - LineHeight, Greater(0, u.target))
      BY <2>1 DEF ClampScrollTarget
    <2>3. Lesser(content - LineHeight, Greater(0, u.target)) \in Clamped(content)
      BY <2>1, Sizes DEF Lesser, Greater, Clamped
    <2>4. QED BY <2>2, <2>3
  <1>2. ASSUME NEW x \in Int
        PROVE  [s EXCEPT !.target = x] \in Scrolls
    BY DEF Scrolls
  <1>3. ASSUME NEW x \in Int
        PROVE  ScrollPixels(s, x, content).target \in Clamped(content)
    <2>1. s.target \in Int /\ s.target + x \in Int
      BY DEF Scrolls
    <2>2. QED BY <1>1, <1>2, <2>1 DEF ScrollPixels
  <1>4. /\ 1 * LineHeight \in Int /\ (-1) * LineHeight \in Int
        /\ 1 * ScreenHeight - LineHeight \in Int /\ (-1) * ScreenHeight - LineHeight \in Int
        /\ content - LineHeight \in Int
    BY Sizes
  <1>5. /\ ScrollLines(s, 1, content).target \in Clamped(content)
        /\ ScrollLines(s, -1, content).target \in Clamped(content)
        /\ ScrollPages(s, 1, content).target \in Clamped(content)
        /\ ScrollPages(s, -1, content).target \in Clamped(content)
    BY <1>3, <1>4 DEF ScrollLines, ScrollPages
  <1>6. /\ ScrollToBeginning(s, content).target \in Clamped(content)
        /\ ScrollToEnd(s, content).target \in Clamped(content)
    BY <1>1, <1>2, <1>4 DEF ScrollToBeginning, ScrollToEnd
  <1>7. CommonNotifyKey(s, key, content).target \in Clamped(content)
    BY <1>5, <1>6 DEF CommonNotifyKey, Keys
  <1>8. Truncated(-d, 2) \in Int
    BY DEF Truncated
  <1>9. CommonMouseWheel(s, d, content).target \in Clamped(content)
    BY <1>3, <1>8 DEF CommonMouseWheel
  <1>10. QED BY <1>7, <1>9

\* A set of naturals has a least element.
LEMMA LeastNat ==
  ASSUME NEW T \in SUBSET Nat, T # {}
  PROVE  \E m \in T : \A k \in T : m <= k
  <1>1. PICK m \in T : \A k \in T : ~(<<k, m>> \in OpToRel(<, Nat))
    BY NatLessThanWellFounded, WFMin
  <1>2. \A k \in T : ~(k < m)
    BY <1>1 DEF OpToRel
  <1>3. QED BY <1>2

\* Induction over the numbers, for a property given as a set.
LEMMA NatInd ==
  ASSUME NEW P, 0 \in P, \A n \in Nat : n \in P => n + 1 \in P
  PROVE  Nat \subseteq P
  <1>1. SUFFICES ASSUME Nat \ P # {} PROVE FALSE
    OBVIOUS
  <1>2. PICK m \in Nat \ P : \A k \in Nat \ P : m <= k
    BY <1>1, LeastNat
  <1>3. m # 0 /\ m - 1 \in Nat
    BY <1>2
  <1>4. m - 1 \in P
    BY <1>2, <1>3
  <1>5. QED BY <1>3, <1>4

-----------------------------------------------------------------------------
(* The rules of the lexer: what they take and leave.                       *)

LEMMA LeastEnd ==
  ASSUME NEW n \in Nat, NEW ends \in SUBSET (1 .. n)
  PROVE  LET m == IF ends = {} THEN 0 ELSE CHOOSE e \in ends : \A f \in ends : e <= f
         IN  m \in 0 .. n /\ (m > 0 => m \in ends)
  <1>1. CASE ends # {}
    <2> DEFINE Least(e) == \A f \in ends : e <= f
    <2>1. \E e \in ends : Least(e)
      BY <1>1, LeastNat
    <2> HIDE DEF Least
    <2>2. (CHOOSE e \in ends : Least(e)) \in ends
      BY <2>1
    <2>3. (CHOOSE e \in ends : \A f \in ends : e <= f) \in ends
      BY ONLY <2>2 DEF Least
    <2> DEFINE m == CHOOSE e \in ends : \A f \in ends : e <= f
    <2>4. m \in ends
      BY <2>3
    <2> HIDE DEF m
    <2>5. m \in 0 .. n /\ (m > 0 => m \in ends)
      BY <2>4
    <2>6. QED BY <1>1, <2>5 DEF m
  <1>2. QED BY <1>1

LEMMA ThroughNewlineTakes ==
  ASSUME NEW in \in Seq(Symbols)
  PROVE  ThroughNewline(in) \in 0 .. Len(in)
  <1> DEFINE ends == {n \in 1 .. Len(in) : Upto(in, n)[Len(Upto(in, n))] = "nl"}
  <1>1. ThroughNewline(in) = IF ends = {} THEN 0 ELSE CHOOSE n \in ends : \A m \in ends : n <= m
    BY DEF ThroughNewline, Shortest
  <1>2. ends \in SUBSET (1 .. Len(in)) /\ Len(in) \in Nat
    OBVIOUS
  <1> HIDE DEF ends
  <1>3. QED BY <1>1, <1>2, LeastEnd

LEMMA SingleCommentTakes ==
  ASSUME NEW in \in Seq(Symbols)
  PROVE  SingleComment(in) \in 0 .. Len(in)
  <1> DEFINE o == Opening(in, Slash)
             ends == {n \in 1 .. Len(in) :
                        /\ Len(Upto(in, n)) > o /\ Upto(in, n)[Len(Upto(in, n))] = "nl"
                        /\ Len(Upto(in, n)) = o + 1 \/ Upto(in, n)[Len(Upto(in, n)) - 1] # "bs"}
  <1>1. SingleComment(in) = IF o = 0 THEN 0 ELSE IF ends = {} THEN 0 ELSE CHOOSE n \in ends : \A m \in ends : n <= m
    BY DEF SingleComment, Shortest
  <1>2. ends \in SUBSET (1 .. Len(in)) /\ Len(in) \in Nat
    OBVIOUS
  <1> HIDE DEF ends, o
  <1>3. QED BY <1>1, <1>2, LeastEnd

LEMMA MultiCommentTakes ==
  ASSUME NEW in \in Seq(Symbols), NEW o, NEW closing
  PROVE  /\ MultiComment(in, o, closing) \in 0 .. Len(in)
         /\ o = 0 => MultiComment(in, o, closing) = 0
  <1> DEFINE ends == {n \in 1 .. Len(in) :
                        \E c \in closing : Len(Upto(in, n)) >= o + Len(c) /\ Ends(Upto(in, n), c)}
  <1>1. MultiComment(in, o, closing) =
          IF o = 0 THEN 0 ELSE IF ends = {} THEN 0 ELSE CHOOSE n \in ends : \A m \in ends : n <= m
    BY DEF MultiComment, Shortest
  <1>2. ends \in SUBSET (1 .. Len(in)) /\ Len(in) \in Nat
    OBVIOUS
  <1> HIDE DEF ends
  <1>3. QED BY <1>1, <1>2, LeastEnd

LEMMA RunTakes ==
  ASSUME NEW in \in Seq(Symbols), NEW S
  PROVE  /\ Run(in, S) \in 0 .. Len(in)
         /\ \A k \in 1 .. Run(in, S) : in[k] \in S
  <1> DEFINE ends == {k \in Nat : k < Len(in) => in[k + 1] \notin S}
             IsRun(n) == (\A k \in 1 .. n : in[k] \in S) /\ (n < Len(in) => in[n + 1] \notin S)
  <1>1. Len(in) \in ends
    OBVIOUS
  <1>2. PICK n \in ends : \A k \in ends : n <= k
    BY <1>1, LeastNat
  <1>3. n \in 0 .. Len(in)
    BY <1>1, <1>2
  <1>4. ASSUME NEW k \in 1 .. n PROVE in[k] \in S
    <2>1. k - 1 \in Nat /\ k - 1 \notin ends
      BY <1>2, <1>4
    <2>2. QED BY <2>1
  <1>5. IsRun(n)
    BY <1>2, <1>4
  <1>6. Run(in, S) = CHOOSE m \in 0 .. Len(in) : IsRun(m)
    BY DEF Run
  <1>7. Run(in, S) \in 0 .. Len(in) /\ IsRun(Run(in, S))
    <2> HIDE DEF IsRun
    <2>1. QED BY <1>3, <1>5, <1>6
  <1>8. QED BY <1>7

LEMMA DirectiveTakes ==
  ASSUME NEW in \in Seq(Symbols), NEW words
  PROVE  Directive(in, words) \in 0 .. Len(in)
  <1> DEFINE b == Run(in, Blanks)
             rest == SubSeq(in, b + 1, Len(in))
  <1>1. b \in 0 .. Len(in) /\ Len(in) \in Nat
    BY RunTakes
  <1>2. rest \in Seq(Symbols) /\ Len(rest) = Len(in) - b
    BY <1>1
  <1>3. ThroughNewline(rest) \in 0 .. Len(in) - b
    BY <1>2, ThroughNewlineTakes
  <1>4. Directive(in, words) \in {0, b + ThroughNewline(rest)}
    BY DEF Directive
  <1>5. QED BY <1>1, <1>3, <1>4

LEMMA If0Takes ==
  ASSUME NEW in \in Seq(Symbols)
  PROVE  If0(in) \in 0 .. Len(in) /\ (If0(in) > 0 => in # <<>> /\ in[1] = "#if0")
  <1>1. CASE in # <<>> /\ in[1] = "#if0"
    <2>1. Tail(in) \in Seq(Symbols) /\ Len(Tail(in)) = Len(in) - 1 /\ Len(in) \in Nat
      BY <1>1
    <2>2. Run(Tail(in), Blanks) \in 0 .. Len(in) - 1
      BY <2>1, RunTakes
    <2>3. If0(in) = 1 + Run(Tail(in), Blanks)
      BY <1>1 DEF If0, One
    <2>4. QED BY <1>1, <2>1, <2>2, <2>3
  <1>2. CASE ~(in # <<>> /\ in[1] = "#if0")
    BY <1>2 DEF If0, One
  <1>3. QED BY <1>1, <1>2

LEMMA OneTakes ==
  ASSUME NEW in \in Seq(Symbols), NEW S
  PROVE  One(in, S) \in 0 .. Len(in) /\ One(in, S) \in {0, 1} /\ (One(in, S) > 0 => in[1] \in S)
  BY DEF One

LEMMA TwoTakes ==
  ASSUME NEW in \in Seq(Symbols), NEW s, NEW S
  PROVE  /\ Two(in, s, S) \in 0 .. Len(in) /\ Two(in, s, S) \in {0, 2}
         /\ Two(in, s, S) > 0 => Len(in) >= 2 /\ in[1] = s /\ in[2] \in S
  BY DEF Two

\* A rule that takes a line feed with other text.
NewlineIn(in, n) == \E k \in 1 .. n : in[k] = "nl"
Swallowing == {<<"blank", "nl">>, <<"bs", "nl">>, <<Slash, Star>>}

LEMMA UptoNewline ==
  ASSUME NEW in \in Seq(Symbols), NEW n \in 0 .. Len(in)
  PROVE  /\ Upto(in, n) \in Seq(Symbols) /\ Len(Upto(in, n)) = n
         /\ HasNewline(Upto(in, n)) <=> NewlineIn(in, n)
  <1>1. /\ Upto(in, n) \in Seq(Symbols) /\ Len(Upto(in, n)) = n /\ DOMAIN Upto(in, n) = 1 .. n
        /\ \A k \in 1 .. n : Upto(in, n)[k] = in[k]
    BY DEF Upto
  <1>2. QED BY <1>1 DEF HasNewline, NewlineIn

LEMMA SwallowedPair ==
  ASSUME NEW in \in Seq(Symbols), NEW i \in 1 .. Len(in), i < Len(in), <<in[i], in[i + 1]>> \in Swallowing
  PROVE  TakesNewline(in)
  <1> DEFINE pair == SubSeq(in, i, i + 1)
             both == <<in[i], in[i + 1]>>
  <1>1. /\ pair \in Seq(Symbols) /\ Len(pair) = 2 /\ pair[1] = in[i] /\ pair[2] = in[i + 1]
        /\ i \in DOMAIN in
    OBVIOUS
  <1>2. both \in Seq(Symbols) /\ Len(both) = 2 /\ both[1] = in[i] /\ both[2] = in[i + 1]
    OBVIOUS
  <1>3. pair = both
    <2> HIDE DEF pair, both
    <2>1. \A k \in 1 .. Len(pair) : pair[k] = both[k]
      BY <1>1, <1>2
    <2>2. QED BY <1>1, <1>2, <2>1, SeqEqual
  <1>4. pair \in {<<"blank", "nl">>, <<"bs", "nl">>, <<Slash, Star>>}
    BY <1>3 DEF Swallowing
  <1> HIDE DEF pair
  <1>5. i < Len(in) /\ pair \in {<<"blank", "nl">>, <<"bs", "nl">>, <<Slash, Star>>}
    BY <1>4
  <1>6. QED BY <1>1, <1>5, Zenon DEF TakesNewline, pair

LEMMA BlanksWithNewline ==
  ASSUME NEW in \in Seq(Symbols), NEW n \in 1 .. Len(in), \A k \in 1 .. n : in[k] \in Blanks,
         in[1] # "nl", NewlineIn(in, n)
  PROVE  TakesNewline(in)
  <1> DEFINE nls == {k \in 1 .. n : in[k] = "nl"}
  <1>1. PICK k \in nls : \A j \in nls : k <= j
    <2>1. nls # {} /\ nls \in SUBSET Nat
      BY DEF NewlineIn
    <2>2. QED BY <2>1, LeastNat
  <1>2. k \in 2 .. n /\ in[k] = "nl"
    BY <1>1
  <1>3. k - 1 \in 1 .. n /\ in[k - 1] # "nl"
    BY <1>1, <1>2
  <1>4. in[k - 1] = "blank"
    BY <1>3 DEF Blanks
  <1>5. k - 1 \in 1 .. Len(in) /\ k - 1 < Len(in) /\ (k - 1) + 1 = k
    BY <1>2
  <1>6. QED BY <1>2, <1>4, <1>5, SwallowedPair DEF Swallowing

LEMMA SlashStarSwallows ==
  ASSUME NEW in \in Seq(Symbols), Two(in, Slash, {Star}) = 2
  PROVE  TakesNewline(in)
  <1>1. Len(in) >= 2 /\ in[1] = Slash /\ in[2] = Star
    BY DEF Two
  <1>2. 1 \in 1 .. Len(in) /\ 1 < Len(in) /\ 1 + 1 = 2
    BY <1>1
  <1>3. QED BY <1>1, <1>2, SwallowedPair DEF Swallowing

LEMMA EscapedNewline ==
  ASSUME NEW in \in Seq(Symbols), Len(in) >= 2, in[1] = "bs", in[2] = "nl"
  PROVE  TakesNewline(in)
  <1>1. 1 \in 1 .. Len(in) /\ 1 < Len(in) /\ 1 + 1 = 2
    OBVIOUS
  <1>2. QED BY <1>1, SwallowedPair DEF Swallowing

LEMMA OpeningSwallows ==
  ASSUME NEW in \in Seq(Symbols), Opening(in, Star) # 0
  PROVE  TakesNewline(in)
  <1>1. CASE Two(in, Slash, {Star}) = 2
    BY <1>1, SlashStarSwallows
  <1>2. CASE Len(in) >= 4 /\ Upto(in, 4) = <<Slash, "bs", "nl", Star>>
    <2>1. in[2] = "bs" /\ in[3] = "nl"
      <3>1. Upto(in, 4)[2] = in[2] /\ Upto(in, 4)[3] = in[3]
        BY <1>2 DEF Upto
      <3>2. QED BY <1>2, <3>1
    <2>2. 2 \in 1 .. Len(in) /\ 2 < Len(in) /\ 2 + 1 = 3
      BY <1>2
    <2>3. QED BY <2>1, <2>2, SwallowedPair DEF Swallowing
  <1>3. QED BY <1>1, <1>2 DEF Opening

\* What every rule takes is some text in front, not more than there is; no rule
\* of "root" pops, "if0" is entered at an #if0, and a line feed is a token of
\* its own, ends a // comment, or is one of those that TakesNewline names.
KeepsLines(in, state, r) ==
  NewlineIn(in, r.length) =>
    (r.length = 1 /\ in[1] = "nl") \/ r.type = "CommentSingle" \/ state = "if0" \/ TakesNewline(in)
GoodRule(in, state, r) ==
  /\ r.length \in 1 .. Len(in)
  /\ r.type \in TokenTypes
  /\ r.new \in {Stay, Push, Pop} \cup States
  /\ r.new = Pop => state # "root"
  /\ r.new = "if0" => in[1] = "#if0"
  /\ KeepsLines(in, state, r)
FirstMatch(rules, i) ==
  /\ i \in DOMAIN rules /\ rules[i].length > 0
  /\ \A j \in DOMAIN rules : j < i => ~(rules[j].length > 0)

LEMMA If0RulesGood ==
  ASSUME NEW in \in Seq(Symbols), NEW i, FirstMatch(If0Rules(in), i)
  PROVE  GoodRule(in, "if0", If0Rules(in)[i])
  <1> DEFINE r == If0Rules(in)[i]
  <1>1. DOMAIN If0Rules(in) = 1 .. 3
    BY DEF If0Rules
  <1>2. i \in 1 .. 3 /\ r.length > 0
    BY <1>1 DEF FirstMatch
  <1>3. /\ r.length \in {Directive(in, {<<"#", "if">>, <<"#if0">>}), Directive(in, {<<"#", "endif">>}), ThroughNewline(in)}
        /\ r.type \in TokenTypes /\ r.new \in {Push, Pop, Stay}
    <2>1. CASE i = 1
      BY <2>1 DEF If0Rules, Rule, TokenTypes
    <2>2. CASE i = 2
      BY <2>2 DEF If0Rules, Rule, TokenTypes
    <2>3. CASE i = 3
      BY <2>3 DEF If0Rules, Rule, TokenTypes
    <2>4. QED BY <1>2, <2>1, <2>2, <2>3
  <1>4. r.length \in 0 .. Len(in)
    BY <1>3, DirectiveTakes, ThroughNewlineTakes
  <1> HIDE DEF r
  <1>5. r.length \in 1 .. Len(in)
    BY <1>2, <1>4
  <1>6. r.new # "if0"
    BY <1>3 DEF Push, Pop, Stay
  <1>7. GoodRule(in, "if0", r)
    BY <1>3, <1>5, <1>6 DEF GoodRule, KeepsLines
  <1>8. QED BY <1>7 DEF r

LEMMA MacroRulesGood ==
  ASSUME NEW in \in Seq(Symbols), NEW i, FirstMatch(MacroRules(in), i)
  PROVE  GoodRule(in, "macro", MacroRules(in)[i])
  <1> DEFINE r == MacroRules(in)[i]
  <1>1. DOMAIN MacroRules(in) = 1 .. 5
    BY DEF MacroRules
  <1>2. i \in 1 .. 5 /\ r.length > 0
    BY <1>1 DEF FirstMatch
  <1>3. r.type \in TokenTypes /\ r.new \in {Pop, Stay} /\ r.new # "if0" /\ Len(in) \in Nat
    <2>1. CASE i = 1
      BY <2>1 DEF MacroRules, Rule, TokenTypes, Stay
    <2>2. CASE i = 2
      BY <2>2 DEF MacroRules, Rule, TokenTypes, Stay
    <2>3. CASE i = 3
      BY <2>3 DEF MacroRules, Rule, TokenTypes, Pop
    <2>4. CASE i = 4
      BY <2>4 DEF MacroRules, Rule, TokenTypes, Stay
    <2>5. CASE i = 5
      BY <2>5 DEF MacroRules, Rule, TokenTypes, Pop
    <2>6. QED BY <1>2, <2>1, <2>2, <2>3, <2>4, <2>5
  <1>4. SUFFICES r.length \in 0 .. Len(in) /\ KeepsLines(in, "macro", r)
    <2> HIDE DEF r
    <2>1. r.length \in 0 .. Len(in) /\ KeepsLines(in, "macro", r) => GoodRule(in, "macro", r)
      BY <1>2, <1>3 DEF GoodRule
    <2>2. QED BY <2>1 DEF r
  <1>5. CASE i = 1
    <2> DEFINE others == Symbols \ {Slash, "nl"}
    <2>1. r.length = Run(in, others)
      BY <1>5 DEF MacroRules, Rule
    <2>2. "nl" \notin others
      OBVIOUS
    <2> HIDE DEF others, r
    <2>3. QED BY <2>1, <2>2, RunTakes DEF KeepsLines, NewlineIn
  <1>6. CASE i = 2
    <2>1. r.length = MultiComment(in, Two(in, Slash, {Star}), {<<Star, Slash>>})
      BY <1>6 DEF MacroRules, Rule
    <2>2. r.length \in 0 .. Len(in) /\ Two(in, Slash, {Star}) # 0
      BY <1>2, <2>1, MultiCommentTakes
    <2>3. Two(in, Slash, {Star}) = 2
      BY <2>2, TwoTakes
    <2>4. TakesNewline(in)
      BY <2>3, SlashStarSwallows
    <2>5. QED BY <2>2, <2>4 DEF KeepsLines
  <1>7. CASE i = 3
    <2>1. r.length \in {0, ThroughNewline(in)} /\ r.type = "CommentSingle"
      BY <1>7 DEF MacroRules, Rule
    <2> HIDE DEF r
    <2>2. QED BY <2>1, <1>3, ThroughNewlineTakes DEF KeepsLines
  <1>8. CASE i = 4
    <2>1. r.length = One(in, {Slash})
      BY <1>8 DEF MacroRules, Rule
    <2>2. r.length = 1 /\ in[1] = Slash /\ r.length \in 0 .. Len(in)
      BY <1>2, <2>1, OneTakes
    <2>3. QED BY <2>2 DEF KeepsLines, NewlineIn, Slash
  <1>9. CASE i = 5
    <2>1. r.length = One(in, {"nl"})
      BY <1>9 DEF MacroRules, Rule
    <2>2. r.length = 1 /\ in[1] = "nl" /\ r.length \in 0 .. Len(in)
      BY <1>2, <2>1, OneTakes
    <2>3. QED BY <2>2 DEF KeepsLines
  <1>10. QED BY <1>2, <1>5, <1>6, <1>7, <1>8, <1>9

LEMMA StringRulesGood ==
  ASSUME NEW in \in Seq(Symbols), NEW i, FirstMatch(StringRules(in), i)
  PROVE  GoodRule(in, "string", StringRules(in)[i])
  <1> DEFINE r == StringRules(in)[i]
  <1>1. DOMAIN StringRules(in) = 1 .. 5
    BY DEF StringRules
  <1>2. i \in 1 .. 5 /\ r.length > 0
    BY <1>1 DEF FirstMatch
  <1>3. r.type \in TokenTypes /\ r.new \in {Pop, Stay} /\ r.new # "if0" /\ Len(in) \in Nat
    <2>1. CASE i = 1
      BY <2>1 DEF StringRules, Rule, TokenTypes, Pop
    <2>2. CASE i = 2
      BY <2>2 DEF StringRules, Rule, TokenTypes, Stay
    <2>3. CASE i = 3
      BY <2>3 DEF StringRules, Rule, TokenTypes, Stay
    <2>4. CASE i = 4
      BY <2>4 DEF StringRules, Rule, TokenTypes, Stay
    <2>5. CASE i = 5
      BY <2>5 DEF StringRules, Rule, TokenTypes, Stay
    <2>6. QED BY <1>2, <2>1, <2>2, <2>3, <2>4, <2>5
  <1>4. SUFFICES r.length \in 0 .. Len(in) /\ KeepsLines(in, "string", r)
    <2> HIDE DEF r
    <2>1. r.length \in 0 .. Len(in) /\ KeepsLines(in, "string", r) => GoodRule(in, "string", r)
      BY <1>2, <1>3 DEF GoodRule
    <2>2. QED BY <2>1 DEF r
  <1>5. CASE i = 1
    <2>1. r.length = One(in, {"quote"})
      BY <1>5 DEF StringRules, Rule
    <2>2. r.length = 1 /\ in[1] = "quote" /\ r.length \in 0 .. Len(in)
      BY <1>2, <2>1, OneTakes
    <2>3. QED BY <2>2 DEF KeepsLines, NewlineIn
  <1>6. CASE i = 2
    <2>1. r.length = Two(in, "bs", {"bs", "quote", "oct"})
      BY <1>6 DEF StringRules, Rule
    <2>2. r.length = 2 /\ in[1] # "nl" /\ in[2] # "nl" /\ r.length \in 0 .. Len(in)
      BY <1>2, <2>1, TwoTakes
    <2>3. QED BY <2>2 DEF KeepsLines, NewlineIn
  <1>7. CASE i = 3
    <2> DEFINE others == Symbols \ {"bs", "quote", "nl"}
    <2>1. r.length = Run(in, others)
      BY <1>7 DEF StringRules, Rule
    <2>2. "nl" \notin others
      OBVIOUS
    <2> HIDE DEF others, r
    <2>3. QED BY <2>1, <2>2, RunTakes DEF KeepsLines, NewlineIn
  <1>8. CASE i = 4
    <2>1. r.length = Two(in, "bs", {"nl"})
      BY <1>8 DEF StringRules, Rule
    <2>2. r.length = 2 /\ in[1] = "bs" /\ in[2] = "nl" /\ r.length \in 0 .. Len(in) /\ Len(in) >= 2
      BY <1>2, <2>1, TwoTakes
    <2>3. TakesNewline(in)
      BY <2>2, EscapedNewline
    <2>4. QED BY <2>2, <2>3 DEF KeepsLines
  <1>9. CASE i = 5
    <2>1. r.length = One(in, {"bs"})
      BY <1>9 DEF StringRules, Rule
    <2>2. r.length = 1 /\ in[1] = "bs" /\ r.length \in 0 .. Len(in)
      BY <1>2, <2>1, OneTakes
    <2>3. QED BY <2>2 DEF KeepsLines, NewlineIn
  <1>10. QED BY <1>2, <1>5, <1>6, <1>7, <1>8, <1>9

LEMMA Words ==
  /\ "nl" \notin DOMAIN WordType
  /\ \A w \in DOMAIN WordType : WordType[w] \in TokenTypes
  /\ "Operator" \in TokenTypes
  <1>1. "nl" \notin DOMAIN WordType /\ "op" \in DOMAIN WordType /\ WordType["op"] = "Operator"
    BY DEF WordType
  <1>2. \A w \in DOMAIN WordType : WordType[w] \in TokenTypes
    BY DEF TokenTypes
  <1>3. "Operator" \in TokenTypes
    BY <1>1, <1>2
  <1>4. QED BY <1>1, <1>2, <1>3

LEMMA RootRows ==
  ASSUME NEW in
  PROVE  /\ RootRules(in)[1] = Rule(If0(in), "CommentPreproc", "if0")
         /\ RootRules(in)[2] = Rule(One(in, {"#"}), "CommentPreproc", "macro")
         /\ RootRules(in)[3] = Rule(One(in, {"nl"}), "Text", Stay)
         /\ RootRules(in)[4] = Rule(Run(in, Blanks), "Text", Stay)
         /\ RootRules(in)[5] = Rule(Two(in, "bs", {"nl"}), "Text", Stay)
         /\ RootRules(in)[6] = Rule(SingleComment(in), "CommentSingle", Stay)
         /\ RootRules(in)[7] = Rule(MultiComment(in, Opening(in, Star), Closing), "CommentMultiline", Stay)
         /\ RootRules(in)[8] = Rule(One(in, {"quote"}), "LiteralString", "string")
         /\ RootRules(in)[9] = Rule(Two(in, Star, {Slash}), "Error", Stay)
         /\ RootRules(in)[10] = Rule(One(in, {Slash, Star}), "Operator", Stay)
         /\ RootRules(in)[11] = Rule(One(in, DOMAIN WordType),
              IF One(in, DOMAIN WordType) = 1 THEN WordType[in[1]] ELSE "Text", Stay)
         /\ DOMAIN RootRules(in) = 1 .. 11
  BY DEF RootRules

LEMMA RootLengths ==
  ASSUME NEW in
  PROVE  /\ RootRules(in)[1].length = If0(in)
         /\ RootRules(in)[2].length = One(in, {"#"})
         /\ RootRules(in)[3].length = One(in, {"nl"})
         /\ RootRules(in)[4].length = Run(in, Blanks)
         /\ RootRules(in)[5].length = Two(in, "bs", {"nl"})
         /\ RootRules(in)[6].length = SingleComment(in)
         /\ RootRules(in)[7].length = MultiComment(in, Opening(in, Star), Closing)
         /\ RootRules(in)[8].length = One(in, {"quote"})
         /\ RootRules(in)[9].length = Two(in, Star, {Slash})
         /\ RootRules(in)[10].length = One(in, {Slash, Star})
         /\ RootRules(in)[11].length = One(in, DOMAIN WordType)
         /\ RootRules(in)[6].type = "CommentSingle"
  <1>1. RootRules(in)[1].length = If0(in)
    BY DEF RootRules, Rule
  <1>2. RootRules(in)[2].length = One(in, {"#"})
    BY DEF RootRules, Rule
  <1>3. RootRules(in)[3].length = One(in, {"nl"})
    BY DEF RootRules, Rule
  <1>4. RootRules(in)[4].length = Run(in, Blanks)
    BY DEF RootRules, Rule
  <1>5. RootRules(in)[5].length = Two(in, "bs", {"nl"})
    BY DEF RootRules, Rule
  <1>6. RootRules(in)[6].length = SingleComment(in)
    BY DEF RootRules, Rule
  <1>7. RootRules(in)[7].length = MultiComment(in, Opening(in, Star), Closing)
    BY DEF RootRules, Rule
  <1>8. RootRules(in)[8].length = One(in, {"quote"})
    BY DEF RootRules, Rule
  <1>9. RootRules(in)[9].length = Two(in, Star, {Slash})
    BY DEF RootRules, Rule
  <1>10. RootRules(in)[10].length = One(in, {Slash, Star})
    BY DEF RootRules, Rule
  <1>11. RootRules(in)[11].length = One(in, DOMAIN WordType)
    BY DEF RootRules, Rule
  <1>12. RootRules(in)[6].type = "CommentSingle"
    BY DEF RootRules, Rule
  <1>13. QED BY <1>1, <1>2, <1>3, <1>4, <1>5, <1>6, <1>7, <1>8, <1>9, <1>10, <1>11, <1>12

LEMMA RootTypes ==
  ASSUME NEW in \in Seq(Symbols), NEW i \in 1 .. 11
  PROVE  LET r == RootRules(in)[i]
         IN  /\ r.type \in TokenTypes
             /\ r.new \in {Stay, "if0", "macro", "string"}
             /\ r.new = "if0" => i = 1
  <1> DEFINE r == RootRules(in)[i]
             word == IF One(in, DOMAIN WordType) = 1 THEN WordType[in[1]] ELSE "Text"
  <1>1. \A l, t, n : Rule(l, t, n).type = t /\ Rule(l, t, n).new = n
    BY DEF Rule
  <1>2. CASE i = 11
    <2>1. r = Rule(One(in, DOMAIN WordType), word, Stay)
      BY <1>2, RootRows
    <2>2. One(in, DOMAIN WordType) = 1 => in[1] \in DOMAIN WordType
      BY OneTakes
    <2>3. word \in TokenTypes
      BY <2>2, Words DEF TokenTypes
    <2> HIDE DEF word, r
    <2>4. r.type = word /\ r.new = Stay
      BY <1>1, <2>1
    <2>5. QED BY <1>2, <2>3, <2>4 DEF r, Stay
  <1>3. CASE i # 11
    <2>1. \E l, t, n :
            /\ r = Rule(l, t, n)
            /\ t \in {"CommentPreproc", "Text", "CommentSingle", "CommentMultiline", "LiteralString", "Error", "Operator"}
            /\ n \in {Stay, "if0", "macro", "string"} /\ (i = 1 \/ n # "if0")
      <3>1. Stay # "if0"
        BY DEF Stay
      <3>2. CASE i \in 1 .. 5
        BY <3>1, <3>2, RootRows
      <3>3. CASE i \in 6 .. 10
        BY <3>1, <3>3, RootRows
      <3>4. QED BY <1>3, <3>2, <3>3
    <2> HIDE DEF r
    <2>2. PICK l, t, n :
            /\ r = Rule(l, t, n)
            /\ t \in {"CommentPreproc", "Text", "CommentSingle", "CommentMultiline", "LiteralString", "Error", "Operator"}
            /\ n \in {Stay, "if0", "macro", "string"} /\ (i = 1 \/ n # "if0")
      BY <2>1
    <2>3. r.type = t /\ r.new = n
      BY <1>1, <2>2
    <2>4. t \in TokenTypes
      BY <2>2, Words DEF TokenTypes
    <2>5. QED BY <2>2, <2>3, <2>4 DEF r
  <1>4. QED BY <1>2, <1>3

LEMMA RootRulesGood ==
  ASSUME NEW in \in Seq(Symbols), NEW i, FirstMatch(RootRules(in), i)
  PROVE  GoodRule(in, "root", RootRules(in)[i])
  <1> DEFINE r == RootRules(in)[i]
  <1>1. i \in 1 .. 11 /\ r.length > 0 /\ Len(in) \in Nat
    BY RootRows DEF FirstMatch
  <1>2. /\ r.type \in TokenTypes
        /\ r.new \in {Stay, "if0", "macro", "string"}
        /\ r.new = "if0" => i = 1
    BY <1>1, RootTypes
  <1>3. r.new \in {Stay, Push, Pop} \cup States /\ r.new # Pop
    BY <1>2 DEF Stay, Push, Pop, States
  <1>4. SUFFICES r.length \in 0 .. Len(in) /\ KeepsLines(in, "root", r) /\ (i = 1 => in[1] = "#if0")
    <2> HIDE DEF r
    <2>1. r.length \in 0 .. Len(in) /\ KeepsLines(in, "root", r) /\ (i = 1 => in[1] = "#if0")
          => GoodRule(in, "root", r)
      BY <1>1, <1>2, <1>3 DEF GoodRule
    <2>2. QED BY <2>1 DEF r
  <1>5. CASE i = 1
    <2>1. r.length = If0(in)
      BY <1>5, RootLengths
    <2>2. r.length \in 0 .. Len(in) /\ in # <<>> /\ in[1] = "#if0"
      BY <1>1, <2>1, If0Takes
    <2>3. TakesNewline(in)
      BY <2>2 DEF TakesNewline
    <2>4. QED BY <2>2, <2>3 DEF KeepsLines
  <1>6. CASE i \in {2, 3, 8, 10, 11}
    <2>1. PICK S : r.length = One(in, S) /\ ("nl" \in S => i = 3)
      <3>1. CASE i = 2
        <4>1. r.length = One(in, {"#"})
          BY <3>1, RootLengths
        <4>2. QED BY <4>1, <3>1
      <3>2. CASE i = 3
        BY <3>2, RootLengths
      <3>3. CASE i = 8
        <4>1. r.length = One(in, {"quote"})
          BY <3>3, RootLengths
        <4>2. QED BY <4>1, <3>3
      <3>4. CASE i = 10
        <4>1. r.length = One(in, {Slash, Star})
          BY <3>4, RootLengths
        <4>2. QED BY <4>1, <3>4 DEF Slash, Star
      <3>5. CASE i = 11
        <4>1. r.length = One(in, DOMAIN WordType)
          BY <3>5, RootLengths
        <4>2. QED BY <4>1, Words
      <3>6. QED BY <1>6, <3>1, <3>2, <3>3, <3>4, <3>5
    <2>2. r.length = 1 /\ in[1] \in S /\ r.length \in 0 .. Len(in)
      BY <1>1, <2>1, OneTakes
    <2>3. QED BY <1>6, <2>1, <2>2 DEF KeepsLines, NewlineIn
  <1>7. CASE i = 4
    <2>1. r.length = Run(in, Blanks) /\ RootRules(in)[3].length = One(in, {"nl"})
      BY <1>7, RootLengths
    <2>2. ~(One(in, {"nl"}) > 0)
      BY <1>7, <2>1, RootRows DEF FirstMatch
    <2>3. r.length \in 1 .. Len(in) /\ \A k \in 1 .. r.length : in[k] \in Blanks
      BY <1>1, <2>1, RunTakes
    <2>4. in[1] # "nl"
      BY <2>2, <2>3 DEF One
    <2> HIDE DEF r
    <2>5. NewlineIn(in, r.length) => TakesNewline(in)
      BY <2>3, <2>4, BlanksWithNewline
    <2>6. QED BY <1>7, <2>3, <2>5 DEF KeepsLines
  <1>8. CASE i = 5
    <2>1. r.length = Two(in, "bs", {"nl"})
      BY <1>8, RootLengths
    <2>2. r.length = 2 /\ in[1] = "bs" /\ in[2] = "nl" /\ r.length \in 0 .. Len(in) /\ Len(in) >= 2
      BY <1>1, <2>1, TwoTakes
    <2>3. TakesNewline(in)
      BY <2>2, EscapedNewline
    <2>4. QED BY <1>8, <2>2, <2>3 DEF KeepsLines
  <1>9. CASE i = 6
    <2>1. r.length = SingleComment(in) /\ r.type = "CommentSingle"
      BY <1>9, RootLengths
    <2> HIDE DEF r
    <2>2. QED BY <1>9, <2>1, SingleCommentTakes DEF KeepsLines
  <1>10. CASE i = 7
    <2>1. r.length = MultiComment(in, Opening(in, Star), Closing)
      BY <1>10, RootLengths
    <2>2. r.length \in 0 .. Len(in) /\ Opening(in, Star) # 0
      BY <1>1, <2>1, MultiCommentTakes
    <2>3. TakesNewline(in)
      BY <2>2, OpeningSwallows
    <2> HIDE DEF r
    <2>4. QED BY <1>10, <2>2, <2>3 DEF KeepsLines
  <1>11. CASE i = 9
    <2>1. r.length = Two(in, Star, {Slash})
      BY <1>11, RootLengths
    <2>2. r.length = 2 /\ in[1] # "nl" /\ in[2] # "nl" /\ r.length \in 0 .. Len(in)
      BY <1>1, <2>1, TwoTakes DEF Star, Slash
    <2>3. QED BY <1>11, <2>2 DEF KeepsLines, NewlineIn
  <1>12. i \in {1} \cup {2, 3, 8, 10, 11} \cup {4, 5, 6, 7, 9}
    BY <1>1
  <1>13. QED BY <1>5, <1>6, <1>7, <1>8, <1>9, <1>10, <1>11, <1>12

LEMMA RulesGood ==
  ASSUME NEW in \in Seq(Symbols), NEW state \in States, NEW i, FirstMatch(Rules(state, in), i)
  PROVE  GoodRule(in, state, Rules(state, in)[i])
  <1>1. CASE state = "root"
    BY <1>1, RootRulesGood DEF Rules
  <1>2. CASE state = "if0"
    BY <1>2, If0RulesGood DEF Rules
  <1>3. CASE state = "macro"
    BY <1>3, MacroRulesGood DEF Rules
  <1>4. CASE state = "string"
    BY <1>4, StringRulesGood DEF Rules
  <1>5. QED BY <1>1, <1>2, <1>3, <1>4 DEF States

-----------------------------------------------------------------------------
(* A function that goes on from d to step[d] until it can stop, and returns *)
(* what out makes of the place where it stopped: there is such a function,  *)
(* and where every step goes down it stops at a place that the steps reach. *)
TailRecursive(f, D, step, halt, out) == f = [d \in D |-> IF d \in halt THEN out[d] ELSE f[step[d]]]

LEMMA TailRecursion ==
  ASSUME NEW D, NEW step \in [D -> D], NEW halt \in SUBSET D, NEW out
  PROVE  \E f : TailRecursive(f, D, step, halt, out)
  <1> DEFINE Closed(J) == \A d \in J \ halt : step[d] \in J
             Stops(d) == {e \in halt : \A J \in SUBSET D : d \in J /\ Closed(J) => e \in J}
             Some(S) == CHOOSE e : e \in S
             f == [d \in D |-> out[Some(Stops(d))]]
  <1>1. ASSUME NEW d \in halt PROVE Stops(d) = {d}
    <2>1. {d} \in SUBSET D /\ Closed({d})
      BY <1>1
    <2>2. QED BY <2>1
  <1>2. ASSUME NEW d \in D \ halt PROVE Stops(d) = Stops(step[d])
    <2>1. step[d] \in D
      OBVIOUS
    <2>2. ASSUME NEW e \in Stops(step[d]) PROVE e \in Stops(d)
      BY <2>2
    <2>3. ASSUME NEW e \in Stops(d) PROVE e \in Stops(step[d])
      <3>1. ASSUME NEW J \in SUBSET D, step[d] \in J, Closed(J) PROVE e \in J
        <4>1. J \cup {d} \in SUBSET D /\ Closed(J \cup {d})
          BY <3>1
        <4>2. e \in J \cup {d} /\ e \in halt
          BY <2>3, <4>1
        <4>3. QED BY <4>2
      <3>2. QED BY <2>3, <3>1
    <2>4. QED BY <2>2, <2>3
  <1>3. ASSUME NEW d \in D PROVE f[d] = IF d \in halt THEN out[d] ELSE f[step[d]]
    <2>1. CASE d \in halt
      <3>1. Some(Stops(d)) = d
        BY <1>1, <2>1
      <3> HIDE DEF Stops, Some
      <3>2. QED BY <2>1, <3>1
    <2>2. CASE d \notin halt
      <3>1. Stops(d) = Stops(step[d]) /\ step[d] \in D
        BY <1>2, <2>2
      <3> HIDE DEF Stops, Some
      <3>2. QED BY <2>2, <3>1
    <2>3. QED BY <2>1, <2>2
  <1>4. f = [d \in D |-> IF d \in halt THEN out[d] ELSE f[step[d]]]
    <2>1. f = [d \in D |-> f[d]]
      OBVIOUS
    <2> HIDE DEF f
    <2>2. QED BY <1>3, <2>1
  <1> HIDE DEF f
  <1>5. QED BY <1>4 DEF TailRecursive

GoesDown(D, step, halt, size, J) ==
  /\ step \in [D -> D] /\ halt \in SUBSET D /\ size \in [D -> Nat] /\ J \in SUBSET D
  /\ \A d \in D \ halt : size[step[d]] < size[d]
  /\ \A d \in J \ halt : step[d] \in J
LEMMA TailRecursionStops ==
  ASSUME NEW D, NEW step, NEW halt, NEW out, NEW f, TailRecursive(f, D, step, halt, out),
         NEW size, NEW J, GoesDown(D, step, halt, size, J)
  PROVE  \A d \in J : \E e \in J \cap halt : f[d] = out[e]
  <1> USE DEF GoesDown
  <1> DEFINE Returns(d) == \E e \in J \cap halt : f[d] = out[e]
             bad == {d \in J : ~Returns(d)}
             sizes == {size[d] : d \in bad}
  <1>1. SUFFICES ASSUME bad # {} PROVE FALSE
    OBVIOUS
  <1>2. sizes \in SUBSET Nat /\ sizes # {}
    BY <1>1
  <1>3. PICK m \in sizes : \A k \in sizes : m <= k
    BY <1>2, LeastNat
  <1>4. PICK d \in bad : m = size[d]
    BY <1>3
  <1>5. d \in J /\ d \in D /\ ~Returns(d)
    BY <1>4
  <1>6. d \notin halt
    BY <1>5 DEF TailRecursive
  <1>7. step[d] \in J /\ step[d] \in D /\ size[step[d]] < size[d] /\ f[d] = f[step[d]]
    BY <1>5, <1>6 DEF TailRecursive
  <1>8. step[d] \notin bad
    <2>1. step[d] \in bad => size[step[d]] \in sizes
      OBVIOUS
    <2>2. step[d] \in bad => m <= size[step[d]]
      BY <1>3, <2>1
    <2>3. size[step[d]] \in Nat /\ size[d] \in Nat
      BY <1>5, <1>7
    <2> HIDE DEF bad, sizes
    <2>4. QED BY <1>4, <1>7, <2>2, <2>3
  <1>9. Returns(step[d])
    BY <1>7, <1>8
  <1>10. QED BY <1>5, <1>7, <1>9

-----------------------------------------------------------------------------
(* One round of the lexer.                                                  *)
HasIf0(stack) == \E i \in DOMAIN stack : stack[i] = "if0"

LEMMA TransitionStacks ==
  ASSUME NEW stack \in Stacks, NEW new \in {Stay, Push, Pop} \cup States,
         new = Pop => stack[Len(stack)] # "root"
  PROVE  /\ Transition(stack, new) \in Stacks
         /\ HasIf0(Transition(stack, new)) => HasIf0(stack) \/ new = "if0"
  <1>1. stack \in Seq(States) /\ Len(stack) \in Nat /\ Len(stack) > 0 /\ stack[1] = "root"
        /\ stack[Len(stack)] \in States
    BY DEF Stacks
  <1>2. ASSUME NEW s \in States
        PROVE  /\ Append(stack, s) \in Stacks
               /\ HasIf0(Append(stack, s)) => HasIf0(stack) \/ s = "if0"
    <2>1. /\ Append(stack, s) \in Seq(States) /\ Append(stack, s)[1] = "root"
          /\ Append(stack, s) # <<>>
      BY <1>1
    <2>2. \A i \in DOMAIN Append(stack, s) : Append(stack, s)[i] = s \/ (i \in DOMAIN stack /\ Append(stack, s)[i] = stack[i])
      BY <1>1
    <2>3. QED BY <2>1, <2>2 DEF Stacks, HasIf0
  <1>3. CASE new = Stay
    <2>1. Transition(stack, new) = stack
      BY <1>3 DEF Transition, Stay, Push, Pop
    <2>2. QED BY <2>1
  <1>4. CASE new = Push
    <2>1. Transition(stack, new) = Append(stack, stack[Len(stack)])
      BY <1>4 DEF Transition, Stay, Push, Pop
    <2>2. stack[Len(stack)] = "if0" => HasIf0(stack)
      BY <1>1 DEF HasIf0
    <2>3. QED BY <1>1, <1>2, <2>1, <2>2
  <1>5. CASE new = Pop
    <2> DEFINE shorter == SubSeq(stack, 1, Len(stack) - 1)
    <2>1. Transition(stack, new) = shorter
      BY <1>5 DEF Transition, Stay, Push, Pop
    <2>2. Len(stack) > 1
      BY <1>1, <1>5
    <2>3. shorter \in Seq(States) /\ Len(shorter) = Len(stack) - 1 /\ \A i \in 1 .. Len(stack) - 1 : shorter[i] = stack[i]
      BY <1>1, <2>2
    <2> HIDE DEF shorter
    <2>4. shorter \in Stacks
      BY <1>1, <2>2, <2>3 DEF Stacks
    <2>5. HasIf0(shorter) => HasIf0(stack)
      BY <1>1, <2>3 DEF HasIf0
    <2>6. QED BY <2>1, <2>4, <2>5
  <1>6. CASE new \in States
    <2>1. Transition(stack, new) = Append(stack, new)
      BY <1>6 DEF Transition, Stay, Push, Pop, States
    <2>2. QED BY <1>2, <1>6, <2>1
  <1>7. QED BY <1>3, <1>4, <1>5, <1>6

\* What a round leaves when it took n symbols as a token.
Taken(l, n, type, stack) ==
  [stack |-> stack, input |-> Rest(l, n), tokens |-> Append(l.tokens, Token(type, Upto(l.input, n)))]
Takes(l, n, type, stack) ==
  /\ LexRound(l) = Taken(l, n, type, stack)
  /\ HasIf0(stack) => HasIf0(l.stack) \/ l.input[1] = "#if0"
  /\ NewlineIn(l.input, n) =>
       (n = 1 /\ l.input[1] = "nl") \/ type = "CommentSingle" \/ HasIf0(l.stack) \/ TakesNewline(l.input)

LEMMA RuleDomains == ASSUME NEW in, NEW state \in States PROVE DOMAIN Rules(state, in) \in SUBSET Nat
  <1>1. CASE state = "root"
    BY <1>1, RootRows DEF Rules
  <1>2. CASE state = "if0"
    BY <1>2 DEF Rules, If0Rules
  <1>3. CASE state = "macro"
    BY <1>3 DEF Rules, MacroRules
  <1>4. CASE state = "string"
    BY <1>4 DEF Rules, StringRules
  <1>5. QED BY <1>1, <1>2, <1>3, <1>4 DEF States

LEMMA RoundTakes ==
  ASSUME NEW l \in Lexings, LexRound(l) # l
  PROVE  \E n \in 1 .. Len(l.input), type \in TokenTypes, stack \in Stacks : Takes(l, n, type, stack)
  <1> DEFINE in == l.input
             rules == Rules(State(l), in)
             matching == {i \in DOMAIN rules : rules[i].length > 0}
             least == CHOOSE i \in matching : \A j \in matching : i <= j
  <1>1. /\ l.stack \in Stacks /\ in \in Seq(Symbols) /\ Len(in) \in Nat
        /\ State(l) \in States /\ State(l) = l.stack[Len(l.stack)] /\ Len(l.stack) \in DOMAIN l.stack
    BY DEF Lexings, Stacks, State
  <1>2. CASE matching # {}
    <2>1. least \in matching /\ \A j \in matching : least <= j
      <3> DEFINE Least(i) == \A j \in matching : i <= j
      <3>1. \E i \in matching : Least(i)
        <4>1. matching \in SUBSET Nat
          BY <1>1, RuleDomains
        <4> HIDE DEF matching
        <4>2. QED BY <1>2, <4>1, LeastNat
      <3>2. least = CHOOSE i \in matching : Least(i)
        OBVIOUS
      <3> HIDE DEF Least, least, matching
      <3>3. least \in matching /\ Least(least)
        BY <3>1, <3>2
      <3>4. QED BY <3>3 DEF Least
    <2> DEFINE r == rules[least]
    <2>2. LexRound(l) = Taken(l, r.length, r.type, Transition(l.stack, r.new))
      BY <1>2 DEF LexRound, Taken
    <2>3. FirstMatch(rules, least)
      <3>1. ASSUME NEW j \in DOMAIN rules, j < least PROVE ~(rules[j].length > 0)
        <4>1. DOMAIN rules \in SUBSET Nat
          BY <1>1, RuleDomains
        <4> HIDE DEF rules, least
        <4>2. j \in matching => least <= j
          BY <2>1
        <4>3. j \in Nat /\ least \in Nat
          BY <2>1, <4>1
        <4>4. j \notin matching
          BY <3>1, <4>2, <4>3
        <4>5. QED BY <4>4
      <3> HIDE DEF rules, least
      <3>2. QED BY <2>1, <3>1 DEF FirstMatch
    <2>4. GoodRule(in, State(l), r)
      <3> HIDE DEF least
      <3>1. QED BY <1>1, <2>3, RulesGood
    <2> HIDE DEF r, matching, least
    <2>5. /\ Transition(l.stack, r.new) \in Stacks
          /\ HasIf0(Transition(l.stack, r.new)) => HasIf0(l.stack) \/ r.new = "if0"
      BY <1>1, <2>4, TransitionStacks DEF GoodRule
    <2>6. State(l) = "if0" => HasIf0(l.stack)
      BY <1>1 DEF HasIf0
    <2>7. Takes(l, r.length, r.type, Transition(l.stack, r.new))
      BY <2>2, <2>4, <2>5, <2>6 DEF Takes, GoodRule, KeepsLines
    <2>8. QED BY <2>4, <2>5, <2>7 DEF GoodRule
  <1>3. CASE matching = {} /\ One(in, {"nl"}) = 1
    <2>1. LexRound(l) = [stack |-> <<"root">>, input |-> Rest(l, 1), tokens |-> Append(l.tokens, Token("Text", <<"nl">>))]
      BY <1>3 DEF LexRound
    <2>2. in # <<>> /\ in[1] = "nl"
      BY <1>3 DEF One
    <2>3. Upto(in, 1) = <<"nl">> /\ 1 \in 1 .. Len(in)
      <3>1. Upto(in, 1) \in Seq(Symbols) /\ Len(Upto(in, 1)) = 1 /\ Upto(in, 1)[1] = "nl" /\ 1 \in 1 .. Len(in)
        BY <1>1, <2>2 DEF Upto
      <3>2. QED BY <3>1
    <2>4. <<"root">> \in Stacks /\ ~HasIf0(<<"root">>)
      BY DEF Stacks, States, HasIf0
    <2>5. LexRound(l) = Taken(l, 1, "Text", <<"root">>)
      BY <2>1, <2>3 DEF Taken
    <2>6. Takes(l, 1, "Text", <<"root">>)
      BY <2>2, <2>4, <2>5 DEF Takes
    <2>7. "Text" \in TokenTypes
      BY DEF TokenTypes
    <2>8. QED BY <2>3, <2>4, <2>6, <2>7
  <1>4. CASE matching = {} /\ One(in, {"nl"}) # 1
    BY <1>4 DEF LexRound
  <1>5. QED BY <1>2, <1>3, <1>4

-----------------------------------------------------------------------------
(* The tokens are the text, cut at the positions c, and none is empty.     *)
Cuts(t, tokens, c) ==
  /\ c \in [0 .. Len(tokens) -> 0 .. Len(t)]
  /\ c[0] = 0
  /\ \A i \in 0 .. Len(tokens) : i <= c[i]
  /\ \A i \in 1 .. Len(tokens) : c[i - 1] <= c[i] /\ tokens[i].value = SubSeq(t, c[i - 1] + 1, c[i])
\* Only these tokens contain a line feed.
KeepsToken(t, token) ==
  HasNewline(token.value) => token.value = <<"nl">> \/ token.type = "CommentSingle" \/ TakesNewline(t)
LexInv(t, l) ==
  /\ l \in Lexings
  /\ HasIf0(l.stack) => TakesNewline(t)
  /\ \A i \in 1 .. Len(l.tokens) : KeepsToken(t, l.tokens[i])
  /\ \E c : /\ Cuts(t, l.tokens, c)
            /\ l.input = SubSeq(t, c[Len(l.tokens)] + 1, Len(t))

LEMMA Suffix ==
  ASSUME NEW t \in Seq(Symbols)
  PROVE  \A p \in 0 .. Len(t) : \A in : in = SubSeq(t, p + 1, Len(t)) => \A k \in 0 .. Len(in) :
           /\ Len(in) = Len(t) - p /\ Upto(in, k) = SubSeq(t, p + 1, p + k)
           /\ SubSeq(in, k + 1, Len(in)) = SubSeq(t, p + k + 1, Len(t))
  <1> TAKE p \in 0 .. Len(t)
  <1> TAKE in
  <1> HAVE in = SubSeq(t, p + 1, Len(t))
  <1> TAKE k \in 0 .. Len(in)
  <1>1. /\ in \in Seq(Symbols) /\ Len(in) = Len(t) - p /\ Len(t) \in Nat
        /\ \A i \in 1 .. Len(in) : in[i] = t[p + i]
    OBVIOUS
  <1>2. k \in Nat /\ p \in Nat /\ k <= Len(t) - p
    BY <1>1
  <1>3. Upto(in, k) = SubSeq(t, p + 1, p + k)
    <2> DEFINE x == SubSeq(in, 1, k)
               y == SubSeq(t, p + 1, p + k)
    <2>1. x \in Seq(Symbols) /\ Len(x) = k /\ \A i \in 1 .. k : x[i] = t[p + i]
      BY <1>1, <1>2
    <2>2. y \in Seq(Symbols) /\ Len(y) = k /\ \A i \in 1 .. k : y[i] = t[p + i]
      BY <1>2
    <2> HIDE DEF x, y
    <2>3. x = y
      BY <2>1, <2>2, SeqEqual
    <2>4. QED BY <2>3 DEF x, y, Upto
  <1>4. SubSeq(in, k + 1, Len(in)) = SubSeq(t, p + k + 1, Len(t))
    <2> DEFINE x == SubSeq(in, k + 1, Len(in))
               y == SubSeq(t, p + k + 1, Len(t))
    <2>1. x \in Seq(Symbols) /\ Len(x) = Len(in) - k /\ \A i \in 1 .. Len(in) - k : x[i] = in[k + i]
      BY <1>1, <1>2
    <2>2. y \in Seq(Symbols) /\ Len(y) = Len(in) - k /\ \A i \in 1 .. Len(in) - k : y[i] = t[p + k + i]
      BY <1>1, <1>2
    <2>3. \A i \in 1 .. Len(in) - k : k + i \in 1 .. Len(in) /\ p + (k + i) = p + k + i
      BY <1>1, <1>2
    <2> HIDE DEF x, y
    <2>4. \A i \in 1 .. Len(in) - k : x[i] = y[i]
      BY <1>1, <2>1, <2>2, <2>3
    <2>5. x = y
      BY <2>1, <2>2, <2>4, SeqEqual
    <2>6. QED BY <2>5 DEF x, y
  <1>5. QED BY <1>1, <1>3, <1>4

LEMMA Pair == ASSUME NEW S, NEW s \in Seq(S), Len(s) = 2 PROVE s = <<s[1], s[2]>>
  <1>1. s[1] \in S /\ s[2] \in S
    <2>1. 1 \in 1 .. Len(s) /\ 2 \in 1 .. Len(s)
      OBVIOUS
    <2>2. QED BY <2>1, ElementOfSeq
  <1>2. <<s[1], s[2]>> \in Seq(S) /\ Len(<<s[1], s[2]>>) = 2
    BY <1>1
  <1>3. \A k \in 1 .. Len(s) : s[k] = <<s[1], s[2]>>[k]
    <2>1. ASSUME NEW k \in 1 .. Len(s) PROVE s[k] = <<s[1], s[2]>>[k]
      <3>1. k = 1 \/ k = 2
        OBVIOUS
      <3>2. CASE k = 1
        BY <3>2
      <3>3. CASE k = 2
        BY <3>3
      <3>4. QED BY <3>1, <3>2, <3>3
    <2>2. QED BY <2>1
  <1>4. QED BY <1>2, <1>3, SeqEqual

LEMMA SuffixTakes ==
  ASSUME NEW t \in Seq(Symbols), NEW p \in 0 .. Len(t),
         NEW in, in = SubSeq(t, p + 1, Len(t)),
         TakesNewline(in) \/ (in # <<>> /\ in[1] = "#if0")
  PROVE  TakesNewline(t)
  <1>1. /\ in \in Seq(Symbols) /\ Len(in) = Len(t) - p /\ Len(t) \in Nat /\ p \in Nat
        /\ \A i \in 1 .. Len(in) : in[i] = t[p + i]
    OBVIOUS
  <1>2. ASSUME NEW i \in 1 .. Len(in), in[i] = "#if0" PROVE TakesNewline(t)
    <2>1. p + i \in DOMAIN t /\ t[p + i] = "#if0"
      BY <1>1, <1>2
    <2>2. QED BY <2>1 DEF TakesNewline
  <1>3. ASSUME NEW i \in 1 .. Len(in), i < Len(in), SubSeq(in, i, i + 1) \in Swallowing PROVE TakesNewline(t)
    <2> DEFINE pair == SubSeq(in, i, i + 1)
    <2>1. pair[1] = in[i] /\ pair[2] = in[i + 1] /\ Len(pair) = 2 /\ pair \in Seq(Symbols)
      BY <1>1, <1>3
    <2>2. pair = <<t[p + i], t[(p + i) + 1]>>
      <3>1. t[p + i] = in[i] /\ t[(p + i) + 1] = in[i + 1]
        BY <1>1, <1>3
      <3> HIDE DEF pair
      <3>2. pair = <<pair[1], pair[2]>>
        BY <2>1, Pair
      <3>3. QED BY <2>1, <3>1, <3>2
    <2>3. p + i \in 1 .. Len(t) /\ p + i < Len(t)
      BY <1>1, <1>3
    <2>4. QED BY <1>3, <2>2, <2>3, SwallowedPair
  <1>4. CASE TakesNewline(in)
    <2>1. PICK i \in 1 .. Len(in) : in[i] = "#if0" \/ (i < Len(in) /\ SubSeq(in, i, i + 1) \in Swallowing)
      BY <1>1, <1>4, SMTT(60) DEF TakesNewline, Swallowing
    <2>2. QED BY <1>2, <1>3, <2>1
  <1>5. CASE in # <<>> /\ in[1] = "#if0"
    BY <1>1, <1>2, <1>5
  <1>6. QED BY <1>4, <1>5

LEMMA RoundKeeps ==
  ASSUME NEW t \in Seq(Symbols), NEW l, LexInv(t, l), LexRound(l) # l
  PROVE  LexInv(t, LexRound(l)) /\ Len(LexRound(l).input) < Len(l.input)
  <1> DEFINE in == l.input
             m == Len(l.tokens)
  <1>1. l \in Lexings /\ in \in Seq(Symbols) /\ m \in Nat /\ Len(in) \in Nat /\ Len(t) \in Nat
        /\ l.tokens \in Seq([type : TokenTypes, value : Seq(Symbols)])
    <2>1. l \in Lexings
      BY DEF LexInv
    <2>2. in \in Seq(Symbols) /\ l.tokens \in Seq([type : TokenTypes, value : Seq(Symbols)])
      BY <2>1 DEF Lexings
    <2> HIDE DEF in
    <2>3. QED BY <2>1, <2>2 DEF in
  <1>2. PICK n \in 1 .. Len(in), type \in TokenTypes, stack \in Stacks : Takes(l, n, type, stack)
    BY <1>1, RoundTakes
  <1>3. PICK c : Cuts(t, l.tokens, c) /\ in = SubSeq(t, c[m] + 1, Len(t))
    BY DEF LexInv
  <1> DEFINE p == c[m]
             token == Token(type, Upto(in, n))
             tokens == Append(l.tokens, token)
             cc == [i \in 0 .. m + 1 |-> IF i = m + 1 THEN p + n ELSE c[i]]
             r == Taken(l, n, type, stack)
  <1>4. p \in 0 .. Len(t) /\ m <= p
    <2>1. m \in 0 .. m
      BY <1>1
    <2>2. c \in [0 .. m -> 0 .. Len(t)] /\ \A i \in 0 .. m : i <= c[i]
      BY <1>3 DEF Cuts
    <2> HIDE DEF m
    <2>3. QED BY <2>1, <2>2
  <1>5. /\ Len(in) = Len(t) - p
        /\ Upto(in, n) = SubSeq(t, p + 1, p + n)
        /\ Rest(l, n) = SubSeq(t, p + n + 1, Len(t))
    <2>1. n \in 0 .. Len(in)
      <3> HIDE DEF in
      <3>1. QED BY <1>1
    <2>3. in = SubSeq(t, p + 1, Len(t))
      BY <1>3
    <2>2. Rest(l, n) = SubSeq(in, n + 1, Len(in))
      BY DEF Rest
    <2> HIDE DEF p, in
    <2>4. /\ Len(in) = Len(t) - p /\ Upto(in, n) = SubSeq(t, p + 1, p + n)
          /\ SubSeq(in, n + 1, Len(in)) = SubSeq(t, p + n + 1, Len(t))
      <3>1. \A y : y = SubSeq(t, p + 1, Len(t)) => \A k \in 0 .. Len(y) :
              /\ Len(y) = Len(t) - p /\ Upto(y, k) = SubSeq(t, p + 1, p + k)
              /\ SubSeq(y, k + 1, Len(y)) = SubSeq(t, p + k + 1, Len(t))
        BY <1>4, Suffix, Zenon
      <3>2. \A k \in 0 .. Len(in) :
              /\ Len(in) = Len(t) - p /\ Upto(in, k) = SubSeq(t, p + 1, p + k)
              /\ SubSeq(in, k + 1, Len(in)) = SubSeq(t, p + k + 1, Len(t))
        BY <2>3, <3>1, Zenon
      <3>3. QED BY <2>1, <3>2, Zenon
    <2>5. QED BY <2>2, <2>4
  <1>6. TakesNewline(in) \/ in[1] = "#if0" => TakesNewline(t)
    <2> HIDE DEF p
    <2>1. in # <<>>
      BY <1>1
    <2>2. QED BY <1>3, <1>4, <2>1, SuffixTakes DEF p
  <1>7. Upto(in, n) \in Seq(Symbols) /\ Len(Upto(in, n)) = n /\ (HasNewline(Upto(in, n)) <=> NewlineIn(in, n))
    BY <1>1, UptoNewline
  <1>8. token \in [type : TokenTypes, value : Seq(Symbols)] /\ token.type = type /\ token.value = Upto(in, n)
    BY <1>7 DEF Token
  <1>9. KeepsToken(t, token)
    <2>1. CASE n = 1 /\ in[1] = "nl"
      <3>1. Upto(in, n)[1] = "nl"
        BY <1>1, <2>1 DEF Upto
      <3>2. Upto(in, n) = <<"nl">>
        BY <1>7, <2>1, <3>1
      <3>3. QED BY <1>8, <3>2 DEF KeepsToken
    <2>2. CASE ~(n = 1 /\ in[1] = "nl")
      <3>1. NewlineIn(in, n) => type = "CommentSingle" \/ TakesNewline(t)
        BY <1>2, <1>6, <2>2 DEF Takes, LexInv
      <3> HIDE DEF token
      <3>2. QED BY <1>7, <1>8, <3>1 DEF KeepsToken
    <2>3. QED BY <2>1, <2>2
  <1> HIDE DEF token
  <1>10. /\ tokens \in Seq([type : TokenTypes, value : Seq(Symbols)])
         /\ Len(tokens) = m + 1 /\ tokens[m + 1] = token
         /\ \A i \in 1 .. m : tokens[i] = l.tokens[i]
    BY <1>1, <1>8
  <1> HIDE DEF tokens
  <1>11. Cuts(t, tokens, cc)
    <2>1. p + n \in 0 .. Len(t) /\ m + 1 <= p + n /\ p <= p + n
      <3>1. n \in 1 .. Len(in) /\ Len(in) = Len(t) - p /\ Len(t) \in Nat /\ m \in Nat
        BY <1>1, <1>5
      <3> HIDE DEF p, in, m
      <3>2. QED BY <1>4, <3>1
    <2>2. c \in [0 .. m -> 0 .. Len(t)] /\ c[0] = 0 /\ (\A i \in 0 .. m : i <= c[i])
          /\ \A i \in 1 .. m : c[i - 1] <= c[i] /\ l.tokens[i].value = SubSeq(t, c[i - 1] + 1, c[i])
      BY <1>3 DEF Cuts
    <2>3. \A i \in 0 .. m : cc[i] = c[i]
      BY <1>1
    <2>4. cc[m + 1] = p + n /\ cc[m] = p
      BY <1>1
    <2>5. cc \in [0 .. m + 1 -> 0 .. Len(t)]
      BY <1>1, <2>1, <2>2
    <2> HIDE DEF cc, p
    <2>6. ASSUME NEW i \in 0 .. m + 1 PROVE i <= cc[i]
      <3>1. CASE i = m + 1
        BY <2>1, <2>4, <3>1
      <3>2. CASE i # m + 1
        <4>1. i \in 0 .. m
          BY <1>1, <3>2
        <4>2. QED BY <2>2, <2>3, <4>1
      <3>3. QED BY <3>1, <3>2
    <2>7. ASSUME NEW i \in 1 .. m + 1
          PROVE  cc[i - 1] <= cc[i] /\ tokens[i].value = SubSeq(t, cc[i - 1] + 1, cc[i])
      <3>1. CASE i = m + 1
        <4>1. i - 1 = m
          BY <1>1, <3>1
        <4>2. QED BY <1>5, <1>8, <1>10, <2>1, <2>4, <3>1, <4>1
      <3>2. CASE i # m + 1
        <4>1. i \in 1 .. m /\ i - 1 \in 0 .. m /\ i \in 0 .. m
          BY <1>1, <3>2
        <4>2. QED BY <1>10, <2>2, <2>3, <4>1
      <3>3. QED BY <3>1, <3>2
    <2>8. 0 \in 0 .. m
      BY <1>1
    <2>9. QED BY <1>10, <2>2, <2>3, <2>5, <2>6, <2>7, <2>8 DEF Cuts
  <1>12. r = [stack |-> stack, input |-> Rest(l, n), tokens |-> tokens] /\ LexRound(l) = r
    BY <1>2 DEF Taken, Takes, token, tokens
  <1>13. cc[m + 1] = p + n
    BY <1>1
  <1> HIDE DEF r, cc, p
  <1>14. r.stack = stack /\ r.input = Rest(l, n) /\ r.tokens = tokens
    BY <1>12
  <1>15. Rest(l, n) \in Seq(Symbols) /\ Len(Rest(l, n)) = Len(in) - n
    BY <1>1 DEF Rest
  <1>16. r \in Lexings
    BY <1>10, <1>12, <1>15 DEF Lexings
  <1>17. HasIf0(r.stack) => TakesNewline(t)
    <2>1. HasIf0(stack) => HasIf0(l.stack) \/ in[1] = "#if0"
      BY <1>2 DEF Takes
    <2>2. HasIf0(l.stack) => TakesNewline(t)
      BY DEF LexInv
    <2>3. QED BY <1>6, <1>14, <2>1, <2>2
  <1>18. \A i \in 1 .. Len(r.tokens) : KeepsToken(t, r.tokens[i])
    <2>1. ASSUME NEW i \in 1 .. m + 1 PROVE KeepsToken(t, tokens[i])
      <3>1. CASE i = m + 1
        BY <1>9, <1>10, <3>1
      <3>2. CASE i # m + 1
        <4>1. i \in 1 .. m
          BY <1>1, <3>2
        <4>2. KeepsToken(t, l.tokens[i])
          BY <4>1 DEF LexInv
        <4>3. QED BY <1>10, <4>1, <4>2
      <3>3. QED BY <3>1, <3>2
    <2>2. QED BY <1>10, <1>14, <2>1
  <1>19. Cuts(t, r.tokens, cc) /\ r.input = SubSeq(t, cc[Len(r.tokens)] + 1, Len(t))
    <2>1. Cuts(t, r.tokens, cc)
      BY <1>11, <1>14
    <2>2. cc[Len(r.tokens)] = p + n
      BY <1>10, <1>13, <1>14
    <2> HIDE DEF m
    <2>3. QED BY <1>5, <1>14, <2>1, <2>2
  <1>20. LexInv(t, r)
    BY <1>16, <1>17, <1>18, <1>19 DEF LexInv
  <1>21. Len(r.input) < Len(in)
    BY <1>1, <1>14, <1>15
  <1>22. QED BY <1>12, <1>20, <1>21

-----------------------------------------------------------------------------
(* The lexer as a function of where it starts.                              *)
LEMMA RoundShrinks ==
  ASSUME NEW l \in Lexings, LexRound(l) # l
  PROVE  LexRound(l) \in Lexings /\ Len(LexRound(l).input) < Len(l.input)
  <1> DEFINE in == l.input
  <1>1. /\ in \in Seq(Symbols) /\ Len(in) \in Nat
        /\ l.tokens \in Seq([type : TokenTypes, value : Seq(Symbols)])
    BY DEF Lexings
  <1>2. PICK n \in 1 .. Len(in), type \in TokenTypes, stack \in Stacks : Takes(l, n, type, stack)
    BY <1>1, RoundTakes
  <1>3. LexRound(l) = [stack |-> stack, input |-> Rest(l, n), tokens |-> Append(l.tokens, Token(type, Upto(in, n)))]
    BY <1>2 DEF Takes, Taken
  <1>4. Rest(l, n) \in Seq(Symbols) /\ Len(Rest(l, n)) = Len(in) - n
    BY <1>1 DEF Rest
  <1>5. Upto(in, n) \in Seq(Symbols)
    BY <1>1, UptoNewline
  <1> DEFINE token == Token(type, Upto(in, n))
  <1>6. token \in [type : TokenTypes, value : Seq(Symbols)]
    BY <1>5 DEF Token
  <1> HIDE DEF token
  <1>7. Append(l.tokens, token) \in Seq([type : TokenTypes, value : Seq(Symbols)])
    BY <1>1, <1>6
  <1> HIDE DEF in
  <1>8. LexRound(l) = [stack |-> stack, input |-> Rest(l, n), tokens |-> Append(l.tokens, token)]
    BY <1>3 DEF token
  <1>9. LexRound(l) \in Lexings
    BY <1>4, <1>7, <1>8 DEF Lexings
  <1>10. LexRound(l).input = Rest(l, n)
    BY <1>8
  <1>11. Len(LexRound(l).input) < Len(in)
    BY <1>1, <1>4, <1>10
  <1>12. QED BY <1>9, <1>11 DEF in

LEMMA LexKeeps == ASSUME NEW t \in Seq(Symbols) PROVE LexInv(t, Lex[LexStart(t)])
  <1> DEFINE step == [l \in Lexings |-> LexRound(l)]
             halt == {l \in Lexings : LexRound(l) = l}
             out == [l \in Lexings |-> l]
             size == [l \in Lexings |-> Len(l.input)]
             J == {l \in Lexings : LexInv(t, l)}
             Is(f) == f = [l \in Lexings |-> IF LexRound(l) = l THEN l ELSE f[LexRound(l)]]
  <1>1. step \in [Lexings -> Lexings]
    BY RoundShrinks
  <1>2. \E f : TailRecursive(f, Lexings, step, halt, out)
    <2>1. halt \in SUBSET Lexings
      OBVIOUS
    <2> HIDE DEF step, halt, out
    <2>2. QED BY <1>1, <2>1, TailRecursion
  <1>3. ASSUME NEW f PROVE TailRecursive(f, Lexings, step, halt, out) <=> Is(f)
    BY DEF TailRecursive
  <1>4. \E f : Is(f)
    BY <1>2, <1>3
  <1>5. Lex = CHOOSE f : Is(f)
    BY DEF Lex
  <1> HIDE DEF Is
  <1>6. Is(Lex)
    BY <1>4, <1>5
  <1>7. TailRecursive(Lex, Lexings, step, halt, out)
    BY <1>3, <1>6
  <1>8. size \in [Lexings -> Nat]
    BY DEF Lexings
  <1>9. \A l \in Lexings \ halt : size[step[l]] < size[l]
    BY RoundShrinks
  <1>10. \A l \in J \ halt : step[l] \in J
    BY RoundKeeps, RoundShrinks
  <1>11. LexStart(t) \in J
    <2> DEFINE l == LexStart(t)
               c == [i \in 0 .. 0 |-> 0]
    <2>1. l.stack = <<"root">> /\ l.input = t /\ l.tokens = <<>> /\ l = [stack |-> <<"root">>, input |-> t, tokens |-> <<>>]
      BY DEF LexStart
    <2>2. <<"root">> \in Stacks /\ ~HasIf0(<<"root">>)
      BY DEF Stacks, States, HasIf0
    <2>3. l \in Lexings
      BY <2>1, <2>2 DEF Lexings
    <2>4. Cuts(t, <<>>, c) /\ c[0] = 0
      BY DEF Cuts
    <2>5. SubSeq(t, 1, Len(t)) = t
      OBVIOUS
    <2> HIDE DEF c, l
    <2>6. LexInv(t, l)
      BY <2>1, <2>2, <2>3, <2>4, <2>5 DEF LexInv
    <2>7. QED BY <2>3, <2>6 DEF l
  <1>12. \A l \in J : \E e \in J \cap halt : Lex[l] = out[e]
    <2>1. J \in SUBSET Lexings /\ halt \in SUBSET Lexings
      OBVIOUS
    <2> HIDE DEF J, halt, out, step, size
    <2>2. GoesDown(Lexings, step, halt, size, J)
      BY <1>1, <1>8, <1>9, <1>10, <2>1 DEF GoesDown
    <2>3. QED BY <1>7, <2>2, TailRecursionStops
  <1>13. PICK e \in J : Lex[LexStart(t)] = out[e]
    BY <1>11, <1>12
  <1>14. QED BY <1>13

-----------------------------------------------------------------------------
(* FlattenSeq.                                                              *)
LEMMA Joined2 ==
  ASSUME NEW S, NEW t \in Seq(S), NEW a \in Nat, NEW b \in Nat, NEW d \in Nat, a <= b, b <= d, d <= Len(t)
  PROVE  SubSeq(t, a + 1, b) \o SubSeq(t, b + 1, d) = SubSeq(t, a + 1, d)
  <1> DEFINE x == SubSeq(t, a + 1, b)
             y == SubSeq(t, b + 1, d)
             z == SubSeq(t, a + 1, d)
             xy == x \o y
  <1>1. x \in Seq(S) /\ Len(x) = b - a /\ \A i \in 1 .. b - a : x[i] = t[a + i]
    OBVIOUS
  <1>2. y \in Seq(S) /\ Len(y) = d - b /\ \A i \in 1 .. d - b : y[i] = t[b + i]
    OBVIOUS
  <1>3. z \in Seq(S) /\ Len(z) = d - a /\ \A i \in 1 .. d - a : z[i] = t[a + i]
    OBVIOUS
  <1> HIDE DEF x, y, z
  <1>4. /\ xy \in Seq(S) /\ Len(xy) = Len(x) + Len(y)
        /\ \A i \in 1 .. Len(x) + Len(y) : xy[i] = IF i <= Len(x) THEN x[i] ELSE y[i - Len(x)]
    BY <1>1, <1>2, ConcatProperties
  <1> HIDE DEF xy
  <1>5. ASSUME NEW i \in 1 .. d - a PROVE xy[i] = z[i]
    <2>1. Len(x) + Len(y) = d - a
      BY <1>1, <1>2
    <2>2. i \in 1 .. Len(x) + Len(y)
      BY <2>1
    <2>3. CASE i <= b - a
      <3>1. i \in 1 .. b - a
        BY <2>3
      <3>2. xy[i] = x[i]
        BY <1>1, <1>4, <2>2, <2>3
      <3>3. QED BY <1>1, <1>3, <3>1, <3>2
    <2>4. CASE ~(i <= b - a)
      <3>1. xy[i] = y[i - (b - a)]
        BY <1>1, <1>4, <2>2, <2>4
      <3>2. i - (b - a) \in 1 .. d - b /\ b + (i - (b - a)) = a + i
        BY <2>4
      <3>3. QED BY <1>2, <1>3, <3>1, <3>2
    <2>5. QED BY <2>3, <2>4
  <1>6. Len(xy) = d - a
    BY <1>1, <1>2, <1>4
  <1>7. \A i \in 1 .. Len(xy) : xy[i] = z[i]
    BY <1>5, <1>6
  <1>8. xy = z
    BY <1>3, <1>4, <1>6, <1>7, SeqEqual
  <1>9. QED BY <1>8 DEF x, y, z, xy

FlatTo(f, s, n) == f = [i \in 1 .. n |-> IF i = 1 THEN s[i] ELSE f[i - 1] \o s[i]]

LEMMA FlatExists == ASSUME NEW s, NEW n \in Nat PROVE \E f : FlatTo(f, s, n)
  <1> DEFINE P == {k \in Nat : \E f : FlatTo(f, s, k)}
  <1>1. 0 \in P
    <2> DEFINE f == [i \in 1 .. 0 |-> 0]
    <2>1. FlatTo(f, s, 0)
      BY DEF FlatTo
    <2>2. QED BY <2>1
  <1>2. ASSUME NEW k \in Nat, k \in P PROVE k + 1 \in P
    <2>1. PICK f : FlatTo(f, s, k)
      BY <1>2
    <2> DEFINE last == IF k = 0 THEN s[1] ELSE f[k] \o s[k + 1]
               g == [i \in 1 .. k + 1 |-> IF i = k + 1 THEN last ELSE f[i]]
               Next1(i) == IF i = 1 THEN s[i] ELSE g[i - 1] \o s[i]
    <2>2. ASSUME NEW i \in 1 .. k + 1 PROVE g[i] = Next1(i)
      <3>1. CASE i = k + 1
        <4>1. g[i] = last
          BY <3>1
        <4>2. CASE k = 0
          BY <3>1, <4>1, <4>2
        <4>3. CASE k # 0
          <5>1. i - 1 = k /\ i # 1 /\ k \in 1 .. k + 1 /\ k # k + 1
            BY <3>1, <4>3
          <5>2. g[k] = f[k]
            BY <5>1
          <5> HIDE DEF g
          <5>3. QED BY <3>1, <4>1, <4>3, <5>1, <5>2
        <4>4. QED BY <4>2, <4>3
      <3>2. CASE i # k + 1
        <4>1. i \in 1 .. k /\ g[i] = f[i]
          BY <3>2
        <4>2. f[i] = IF i = 1 THEN s[i] ELSE f[i - 1] \o s[i]
          BY <2>1, <4>1 DEF FlatTo
        <4>3. i # 1 => g[i - 1] = f[i - 1]
          BY <4>1
        <4> HIDE DEF g
        <4>4. QED BY <4>1, <4>2, <4>3
      <3>3. QED BY <3>1, <3>2
    <2>3. g = [i \in 1 .. k + 1 |-> g[i]]
      OBVIOUS
    <2>4. [i \in 1 .. k + 1 |-> g[i]] = [i \in 1 .. k + 1 |-> Next1(i)]
      <3> HIDE DEF g, Next1
      <3>1. QED BY <2>2
    <2>5. FlatTo(g, s, k + 1)
      <3> HIDE DEF g
      <3>1. QED BY <2>3, <2>4 DEF FlatTo
    <2> HIDE DEF g
    <2>6. QED BY <1>2, <2>5
  <1> HIDE DEF P
  <1>3. n \in P
    BY <1>1, <1>2, NatInd
  <1>4. QED BY <1>3 DEF P

Agree(f, g, k) == \A i \in 1 .. k : f[i] = g[i]

LEMMA FlatSame ==
  ASSUME NEW s, NEW r, NEW n \in Nat, NEW m \in Nat, NEW k \in Nat, k <= n, k <= m,
         Agree(s, r, k), NEW f, FlatTo(f, s, n), NEW g, FlatTo(g, r, m)
  PROVE  Agree(f, g, k)
  <1> DEFINE P == {j \in Nat : j \in 1 .. k => f[j] = g[j]}
  <1>1. 0 \in P
    OBVIOUS
  <1>2. ASSUME NEW j \in Nat, j \in P PROVE j + 1 \in P
    <2>1. ASSUME j + 1 \in 1 .. k PROVE f[j + 1] = g[j + 1]
      <3>1. j + 1 \in 1 .. n /\ j + 1 \in 1 .. m
        BY <2>1
      <3>2. f[j + 1] = IF j + 1 = 1 THEN s[j + 1] ELSE f[(j + 1) - 1] \o s[j + 1]
        BY <3>1 DEF FlatTo
      <3>3. g[j + 1] = IF j + 1 = 1 THEN r[j + 1] ELSE g[(j + 1) - 1] \o r[j + 1]
        BY <3>1 DEF FlatTo
      <3>4. s[j + 1] = r[j + 1]
        BY <2>1 DEF Agree
      <3>5. CASE j = 0
        BY <3>2, <3>3, <3>4, <3>5
      <3>6. CASE j # 0
        <4>1. (j + 1) - 1 = j /\ j \in 1 .. k /\ j + 1 # 1
          BY <2>1, <3>6
        <4>2. f[j] = g[j]
          BY <1>2, <4>1
        <4>3. QED BY <3>2, <3>3, <3>4, <4>1, <4>2
      <3>7. QED BY <3>5, <3>6
    <2>2. QED BY <1>2, <2>1
  <1> HIDE DEF P
  <1>3. Nat \subseteq P
    BY <1>1, <1>2, NatInd
  <1>4. QED BY <1>3 DEF P, Agree

LEMMA FlattenIs ==
  ASSUME NEW S, NEW s \in Seq(S)
  PROVE  \E f : FlatTo(f, s, Len(s)) /\ FlattenSeq(s) = IF Len(s) = 0 THEN s ELSE f[Len(s)]
  <1> DEFINE F == CHOOSE f : FlatTo(f, s, Len(s))
  <1>1. Len(s) \in Nat
    OBVIOUS
  <1>2. \E f : FlatTo(f, s, Len(s))
    BY <1>1, FlatExists
  <1>3. FlatTo(F, s, Len(s))
    BY <1>2
  <1>4. FlattenSeq(s) = IF Len(s) = 0 THEN s ELSE F[Len(s)]
    BY DEF FlattenSeq, FlatTo
  <1> HIDE DEF F
  <1>5. QED BY <1>3, <1>4

LEMMA FlattenEmpty == FlattenSeq(<<>>) = <<>>
  BY DEF FlattenSeq

LEMMA FlattenAppend ==
  ASSUME NEW S, NEW s \in Seq(Seq(S)), NEW x \in Seq(S)
  PROVE  FlattenSeq(Append(s, x)) = FlattenSeq(s) \o x
  <1> DEFINE n == Len(s)
             sx == Append(s, x)
  <1>1. sx \in Seq(Seq(S)) /\ Len(sx) = n + 1 /\ sx[n + 1] = x /\ n \in Nat /\ \A i \in 1 .. n : sx[i] = s[i]
    OBVIOUS
  <1>2. PICK f : FlatTo(f, s, n) /\ FlattenSeq(s) = IF n = 0 THEN s ELSE f[n]
    BY FlattenIs
  <1> HIDE DEF sx
  <1>3. PICK g : FlatTo(g, sx, Len(sx)) /\ FlattenSeq(sx) = IF Len(sx) = 0 THEN sx ELSE g[Len(sx)]
    BY <1>1, FlattenIs
  <1> HIDE DEF n
  <1>4. FlatTo(g, sx, n + 1) /\ FlattenSeq(sx) = g[n + 1]
    BY <1>1, <1>3
  <1>5. g[n + 1] = IF n + 1 = 1 THEN sx[n + 1] ELSE g[(n + 1) - 1] \o sx[n + 1]
    <2>1. n + 1 \in 1 .. n + 1
      BY <1>1
    <2>2. QED BY <1>4, <2>1 DEF FlatTo
  <1>6. CASE n = 0
    <2>1. FlattenSeq(sx) = x
      BY <1>1, <1>4, <1>5, <1>6
    <2>2. FlattenSeq(s) = s /\ s = <<>>
      BY <1>2, <1>6 DEF n
    <2>3. <<>> \o x = x
      OBVIOUS
    <2>4. QED BY <2>1, <2>2, <2>3 DEF sx
  <1>7. CASE n # 0
    <2>1. (n + 1) - 1 = n /\ n + 1 # 1 /\ n \in 1 .. n
      BY <1>1, <1>7
    <2>2. n + 1 \in Nat /\ n <= n + 1 /\ n <= n
      BY <1>1
    <2>3. \A i \in 1 .. n : g[i] = f[i]
      <3>1. Agree(sx, s, n)
        BY <1>1 DEF Agree
      <3>2. FlatTo(g, sx, n + 1)
        BY <1>4
      <3>3. FlatTo(f, s, n)
        BY <1>2
      <3>4. n \in Nat
        BY <1>1
      <3>5. Agree(g, f, n)
        BY <2>2, <3>1, <3>2, <3>3, <3>4, FlatSame
      <3>6. QED BY <3>5 DEF Agree
    <2>4. g[n] = f[n]
      BY <2>1, <2>3
    <2>5. g[n + 1] = f[n] \o x
      BY <1>1, <1>5, <2>1, <2>4
    <2>6. QED BY <1>2, <1>4, <1>7, <2>5 DEF sx
  <1>8. QED BY <1>6, <1>7

\* The texts of a line, and what is shown of a list of lines.
Texts(line) == [i \in DOMAIN line |-> line[i].text]
ShownAll(lines) == [i \in DOMAIN lines |-> Shown(lines[i])]

LEMMA TextsAppend ==
  ASSUME NEW line \in Line, NEW type \in TokenTypes, NEW value \in Seq(Symbols)
  PROVE  /\ Texts(line) \in Seq(Seq(Symbols))
         /\ Append(line, Fragment(type, value)) \in Line
         /\ Texts(Append(line, Fragment(type, value))) = Append(Texts(line), value)
  <1> DEFINE fragment == Fragment(type, value)
             F == [type : TokenTypes, text : Seq(Symbols)]
             longer == Append(line, fragment)
             a == Texts(longer)
             b == Append(Texts(line), value)
  <1>1. fragment \in F /\ fragment.text = value
    BY DEF Fragment
  <1>2. line \in Seq(F) /\ Len(line) \in Nat
    BY DEF Line
  <1> HIDE DEF fragment
  <1>3. /\ longer \in Seq(F) /\ DOMAIN longer = 1 .. Len(line) + 1 /\ longer[Len(line) + 1] = fragment
        /\ \A i \in 1 .. Len(line) : longer[i] = line[i]
    BY <1>1, <1>2
  <1>4. Texts(line) \in Seq(Seq(Symbols)) /\ Len(Texts(line)) = Len(line)
        /\ \A i \in 1 .. Len(line) : Texts(line)[i] = line[i].text
    <2>1. \A i \in 1 .. Len(line) : line[i] \in F
      BY <1>2, ElementOfSeq
    <2>2. \A i \in 1 .. Len(line) : line[i].text \in Seq(Symbols)
      BY <2>1 DEF F
    <2>3. Texts(line) = [i \in 1 .. Len(line) |-> line[i].text]
      BY <1>2 DEF Texts
    <2>4. QED BY <1>2, <2>2, <2>3
  <1> HIDE DEF longer, F
  <1>5. a \in Seq(Seq(Symbols)) /\ Len(a) = Len(line) + 1
        /\ \A i \in 1 .. Len(line) + 1 : a[i] = longer[i].text
    <2>1. \A i \in 1 .. Len(line) + 1 : longer[i] \in F
      BY <1>3, ElementOfSeq
    <2>2. \A i \in 1 .. Len(line) + 1 : longer[i].text \in Seq(Symbols)
      BY <2>1 DEF F
    <2>3. a = [i \in 1 .. Len(line) + 1 |-> longer[i].text]
      BY <1>3 DEF Texts
    <2> HIDE DEF a
    <2>4. QED BY <1>2, <2>2, <2>3
  <1>6. /\ b \in Seq(Seq(Symbols)) /\ Len(b) = Len(line) + 1 /\ b[Len(line) + 1] = value
        /\ \A i \in 1 .. Len(line) : b[i] = line[i].text
    BY <1>2, <1>4
  <1> HIDE DEF a, b
  <1>7. \A i \in 1 .. Len(a) : a[i] = b[i]
    <2>1. ASSUME NEW i \in 1 .. Len(line) + 1 PROVE a[i] = b[i]
      <3>1. CASE i = Len(line) + 1
        BY <1>1, <1>3, <1>5, <1>6, <3>1
      <3>2. CASE i # Len(line) + 1
        <4>1. i \in 1 .. Len(line)
          BY <1>2, <3>2
        <4>2. QED BY <1>3, <1>5, <1>6, <4>1
      <3>3. QED BY <3>1, <3>2
    <2>2. QED BY <1>5, <2>1
  <1>8. a = b
    BY <1>5, <1>6, <1>7, SeqEqual
  <1>9. QED BY <1>3, <1>4, <1>8 DEF a, b, longer, fragment, F, Line

LEMMA ShownAppend ==
  ASSUME NEW lines \in Seq(Line), NEW line \in Line
  PROVE  ShownAll(Append(lines, line)) = Append(ShownAll(lines), Shown(line))
  <1> DEFINE longer == Append(lines, line)
             n == Len(lines)
             U == {Shown(l) : l \in Line}
             a == ShownAll(longer)
             b == Append(ShownAll(lines), Shown(line))
  <1>1. /\ longer \in Seq(Line) /\ DOMAIN longer = 1 .. n + 1 /\ longer[n + 1] = line /\ n \in Nat
        /\ DOMAIN lines = 1 .. n /\ \A i \in 1 .. n : longer[i] = lines[i] /\ lines[i] \in Line
    OBVIOUS
  <1> HIDE DEF longer
  <1>2. \A i \in 1 .. n + 1 : longer[i] \in Line
    BY <1>1
  <1>3. a \in Seq(U) /\ Len(a) = n + 1 /\ \A i \in 1 .. n + 1 : a[i] = Shown(longer[i])
    <2>1. \A i \in 1 .. n + 1 : Shown(longer[i]) \in U
      BY <1>2
    <2>2. a = [i \in 1 .. n + 1 |-> Shown(longer[i])]
      BY <1>1 DEF ShownAll
    <2> HIDE DEF U, a, n
    <2>3. QED BY <1>1, <2>1, <2>2
  <1>4. ShownAll(lines) \in Seq(U) /\ Len(ShownAll(lines)) = n /\ \A i \in 1 .. n : ShownAll(lines)[i] = Shown(lines[i])
    <2>1. \A i \in 1 .. n : Shown(lines[i]) \in U
      BY <1>1
    <2>2. ShownAll(lines) = [i \in 1 .. n |-> Shown(lines[i])]
      BY <1>1 DEF ShownAll
    <2> HIDE DEF U, n
    <2>3. QED BY <1>1, <2>1, <2>2
  <1>5. Shown(line) \in U
    OBVIOUS
  <1> HIDE DEF U, n
  <1>6. b \in Seq(U) /\ Len(b) = n + 1 /\ b[n + 1] = Shown(line) /\ \A i \in 1 .. n : b[i] = Shown(lines[i])
    BY <1>1, <1>4, <1>5
  <1> HIDE DEF a, b
  <1>7. \A i \in 1 .. Len(a) : a[i] = b[i]
    <2>1. ASSUME NEW i \in 1 .. n + 1 PROVE a[i] = b[i]
      <3>1. CASE i = n + 1
        BY <1>1, <1>3, <1>6, <3>1
      <3>2. CASE i # n + 1
        <4>1. i \in 1 .. n
          BY <1>1, <3>2
        <4>2. QED BY <1>1, <1>3, <1>6, <4>1
      <3>3. QED BY <3>1, <3>2
    <2>2. QED BY <1>3, <2>1
  <1>8. a = b
    BY <1>3, <1>6, <1>7, SeqEqual
  <1>9. QED BY <1>8 DEF a, b, longer

-----------------------------------------------------------------------------
(* The highlighter: after j tokens, the lines show what k of them hold, and *)
(* the line that is being put together the rest.                            *)
Highlightings == [tokens : Seq(Tokens), lines : Seq(Line), line : Line]
CutLines(t, toks, c, h, k, j) ==
  /\ h.tokens = SubSeq(toks, j + 1, Len(toks))
  /\ Len(h.lines) <= k /\ c[k] <= c[j]
  /\ ShownAll(h.lines) \in Seq(Seq(Symbols))
  /\ FlattenSeq(ShownAll(h.lines)) = SubSeq(t, 1, c[k])
  /\ FlattenSeq(Texts(h.line)) = SubSeq(t, c[k] + 1, c[j])
  /\ h.line # <<>> => h.line[Len(h.line)].type # "CommentSingle"
  /\ HasNewline(SubSeq(t, c[k] + 1, c[j])) => TakesNewline(t)
LinesInv(t, toks, c, h) ==
  h \in Highlightings /\ \E k \in 0 .. Len(toks) : \E j \in k .. Len(toks) : CutLines(t, toks, c, h, k, j)

LEMMA PutTypes ==
  ASSUME NEW h \in Highlightings, h.tokens # <<>>
  PROVE  /\ Head(h.tokens) \in Tokens /\ Tail(h.tokens) \in Seq(Tokens)
         /\ Len(Tail(h.tokens)) = Len(h.tokens) - 1
         /\ PutToken(h) \in Highlightings /\ PutToken(h).tokens = Tail(h.tokens)
         /\ Append(h.line, Fragment(Head(h.tokens).type, Head(h.tokens).value)) \in Line
  <1> DEFINE token == Head(h.tokens)
             rest == Tail(h.tokens)
             line == Append(h.line, Fragment(token.type, token.value))
  <1>1. h.tokens \in Seq(Tokens) /\ h.lines \in Seq(Line) /\ h.line \in Line
    BY DEF Highlightings
  <1>2. token \in Tokens /\ rest \in Seq(Tokens) /\ Len(rest) = Len(h.tokens) - 1
    BY <1>1
  <1>3. token.type \in TokenTypes /\ token.value \in Seq(Symbols)
    BY <1>2 DEF Tokens
  <1>4. line \in Line
    <2> HIDE DEF token
    <2>1. QED BY <1>1, <1>3, TextsAppend
  <1>5. <<>> \in Line
    BY DEF Line
  <1>6. Append(h.lines, h.line) \in Seq(Line) /\ Append(h.lines, line) \in Seq(Line)
    <2> HIDE DEF line
    <2>1. QED BY <1>1, <1>4
  <1>7. PutToken(h) = CASE token.value = <<"nl">> -> [tokens |-> rest, lines |-> Append(h.lines, h.line), line |-> <<>>]
                        [] token.value # <<"nl">> /\ token.type = "CommentSingle" ->
                             [tokens |-> rest, lines |-> Append(h.lines, line), line |-> <<>>]
                        [] OTHER -> [tokens |-> rest, lines |-> h.lines, line |-> line]
    BY DEF PutToken
  <1> HIDE DEF token, rest, line
  <1>8. PutToken(h) \in Highlightings /\ PutToken(h).tokens = rest
    <2>1. CASE token.value = <<"nl">>
      <3>1. PutToken(h) = [tokens |-> rest, lines |-> Append(h.lines, h.line), line |-> <<>>]
        BY <1>7, <2>1
      <3>2. QED BY <1>2, <1>5, <1>6, <3>1 DEF Highlightings
    <2>2. CASE token.value # <<"nl">> /\ token.type = "CommentSingle"
      <3>1. PutToken(h) = [tokens |-> rest, lines |-> Append(h.lines, line), line |-> <<>>]
        BY <1>7, <2>2
      <3>2. QED BY <1>2, <1>5, <1>6, <3>1 DEF Highlightings
    <2>3. CASE token.value # <<"nl">> /\ token.type # "CommentSingle"
      <3>1. PutToken(h) = [tokens |-> rest, lines |-> h.lines, line |-> line]
        BY <1>7, <2>3
      <3>2. QED BY <1>1, <1>2, <1>4, <3>1 DEF Highlightings
    <2>4. QED BY <2>1, <2>2, <2>3
  <1>9. QED BY <1>2, <1>4, <1>8 DEF token, rest, line

LEMMA NewlineJoins ==
  ASSUME NEW x \in Seq(Symbols), NEW y \in Seq(Symbols), HasNewline(x \o y)
  PROVE  HasNewline(x) \/ HasNewline(y)
  <1>1. PICK i \in 1 .. Len(x) + Len(y) : (x \o y)[i] = "nl"
    BY DEF HasNewline
  <1>2. CASE i <= Len(x)
    BY <1>1, <1>2 DEF HasNewline
  <1>3. CASE ~(i <= Len(x))
    <2>1. i - Len(x) \in 1 .. Len(y) /\ (x \o y)[i] = y[i - Len(x)]
      BY <1>3
    <2>2. i - Len(x) \in DOMAIN y /\ y[i - Len(x)] = "nl"
      BY <1>1, <2>1
    <2>3. QED BY <2>2 DEF HasNewline
  <1>4. QED BY <1>2, <1>3

LEMMA ShownIs ==
  ASSUME NEW line \in Line
  PROVE  /\ line # <<>> /\ line[Len(line)].type = "CommentSingle" => Shown(line) = FlattenSeq(Texts(line)) \o <<>>
         /\ ~(line # <<>> /\ line[Len(line)].type = "CommentSingle") => Shown(line) = FlattenSeq(Texts(line)) \o <<"nl">>
  BY DEF Shown, Texts

LEMMA PutKeeps ==
  ASSUME NEW t \in Seq(Symbols), NEW toks \in Seq(Tokens), NEW c, Cuts(t, toks, c),
         \A i \in 1 .. Len(toks) : KeepsToken(t, toks[i]),
         NEW h, LinesInv(t, toks, c, h), h.tokens # <<>>
  PROVE  LinesInv(t, toks, c, PutToken(h))
  <1> DEFINE n == Len(toks)
             token == Head(h.tokens)
             rest == Tail(h.tokens)
             line == Append(h.line, Fragment(token.type, token.value))
             g == PutToken(h)
  <1>1. h \in Highlightings /\ h.lines \in Seq(Line) /\ h.line \in Line /\ h.tokens \in Seq(Tokens)
    BY DEF LinesInv, Highlightings
  <1>0. PICK k \in 0 .. n : \E j \in k .. n : CutLines(t, toks, c, h, k, j)
    BY DEF LinesInv
  <1>2. PICK j \in k .. n : CutLines(t, toks, c, h, k, j)
    BY <1>0
  <1>3. /\ token \in Tokens /\ rest \in Seq(Tokens) /\ g \in Highlightings /\ g.tokens = rest /\ line \in Line
        /\ token.type \in TokenTypes /\ token.value \in Seq(Symbols)
    <2>1. token \in Tokens /\ rest \in Seq(Tokens) /\ g \in Highlightings /\ g.tokens = rest /\ line \in Line
      BY <1>1, PutTypes
    <2> HIDE DEF token
    <2>2. QED BY <2>1 DEF Tokens
  <1>4. n \in Nat /\ k \in Nat /\ j \in Nat /\ k <= j /\ j + 1 <= n
    <2>1. n \in Nat /\ h.tokens = SubSeq(toks, j + 1, n)
      BY <1>2 DEF CutLines
    <2>2. j + 1 <= n
      BY <2>1
    <2>3. QED BY <2>1, <2>2
  <1>5. token = toks[j + 1] /\ rest = SubSeq(toks, (j + 1) + 1, n)
    <2>1. h.tokens = SubSeq(toks, j + 1, n)
      BY <1>2 DEF CutLines
    <2>2. token = toks[j + 1]
      BY <1>4, <2>1
    <2>3. rest = SubSeq(toks, (j + 1) + 1, n)
      <3> DEFINE x == SubSeq(toks, j + 1, n)
                 y == SubSeq(toks, (j + 1) + 1, n)
                 z == Tail(x)
      <3>1. x \in Seq(Tokens) /\ Len(x) = n - j /\ \A i \in 1 .. n - j : x[i] = toks[j + i]
        BY <1>4
      <3>2. y \in Seq(Tokens) /\ Len(y) = (n - j) - 1 /\ \A i \in 1 .. (n - j) - 1 : y[i] = toks[(j + 1) + i]
        BY <1>4
      <3> HIDE DEF x, y, n
      <3>3. z \in Seq(Tokens) /\ Len(z) = (n - j) - 1 /\ \A i \in 1 .. (n - j) - 1 : z[i] = x[i + 1]
        BY <1>4, <3>1
      <3> HIDE DEF z
      <3>4. ASSUME NEW i \in 1 .. Len(z) PROVE z[i] = y[i]
        <4>1. i \in 1 .. (n - j) - 1 /\ i + 1 \in 1 .. n - j /\ j + (i + 1) = (j + 1) + i
          BY <1>4, <3>3
        <4>2. QED BY <3>1, <3>2, <3>3, <4>1
      <3>5. z = y
        BY <3>2, <3>3, <3>4, SeqEqual
      <3>6. QED BY <2>1, <3>5 DEF x, y, z, n
    <2>4. QED BY <2>2, <2>3
  <1> DEFINE a == c[k]
             b == c[j]
             d == c[j + 1]
             old == SubSeq(t, a + 1, b)
             new == SubSeq(t, b + 1, d)
  <1>6. /\ a \in 0 .. Len(t) /\ b \in 0 .. Len(t) /\ d \in 0 .. Len(t) /\ a <= b /\ b <= d
        /\ token.value = new /\ KeepsToken(t, token)
    <2>1. k \in 0 .. n /\ j \in 0 .. n /\ j + 1 \in 0 .. n /\ j + 1 \in 1 .. n /\ (j + 1) - 1 = j
      BY <1>4
    <2>2. c \in [0 .. n -> 0 .. Len(t)]
      BY DEF Cuts
    <2>3. c[(j + 1) - 1] <= c[j + 1] /\ toks[j + 1].value = SubSeq(t, c[(j + 1) - 1] + 1, c[j + 1])
      BY <2>1 DEF Cuts
    <2>4. a <= b
      BY <1>2 DEF CutLines
    <2>5. KeepsToken(t, toks[j + 1])
      BY <2>1
    <2> HIDE DEF n
    <2>6. a \in 0 .. Len(t) /\ b \in 0 .. Len(t) /\ d \in 0 .. Len(t)
      BY <2>1, <2>2
    <2> HIDE DEF token
    <2>7. QED BY <1>5, <2>1, <2>3, <2>4, <2>5, <2>6
  <1>7. /\ old \in Seq(Symbols) /\ new \in Seq(Symbols)
        /\ old \o new = SubSeq(t, a + 1, d)
        /\ SubSeq(t, 1, a) \in Seq(Symbols)
        /\ SubSeq(t, 1, a) \o SubSeq(t, a + 1, d) = SubSeq(t, 1, d)
    <2>1. a \in Nat /\ b \in Nat /\ d \in Nat /\ a <= b /\ b <= d /\ a <= d /\ d <= Len(t) /\ Len(t) \in Nat /\ 0 <= a
      BY <1>6
    <2> HIDE DEF a, b, d
    <2>2. old \o new = SubSeq(t, a + 1, d)
      BY <2>1, Joined2
    <2>3. SubSeq(t, 0 + 1, a) \o SubSeq(t, a + 1, d) = SubSeq(t, 0 + 1, d)
      BY <2>1, Joined2
    <2>4. 0 + 1 = 1
      OBVIOUS
    <2>5. old \in Seq(Symbols) /\ new \in Seq(Symbols) /\ SubSeq(t, 1, a) \in Seq(Symbols)
      BY <2>1
    <2>6. QED BY <2>2, <2>3, <2>4, <2>5
  <1>8. /\ Len(h.lines) <= k /\ ShownAll(h.lines) \in Seq(Seq(Symbols))
        /\ FlattenSeq(ShownAll(h.lines)) = SubSeq(t, 1, a)
        /\ FlattenSeq(Texts(h.line)) = old
        /\ h.line # <<>> => h.line[Len(h.line)].type # "CommentSingle"
        /\ HasNewline(old) => TakesNewline(t)
    BY <1>2 DEF CutLines
  <1>9. Len(h.lines) \in Nat
    BY <1>1
  <1> HIDE DEF a, b, d, old, new
  <1>10. /\ Texts(line) = Append(Texts(h.line), token.value)
         /\ Texts(h.line) \in Seq(Seq(Symbols))
         /\ line # <<>> /\ line[Len(line)].type = token.type
    <2>1. line # <<>> /\ line[Len(line)] = Fragment(token.type, token.value)
      <3>1. Line = Seq([type : TokenTypes, text : Seq(Symbols)])
        BY DEF Line
      <3>2. h.line \in Seq([type : TokenTypes, text : Seq(Symbols)])
        BY <1>1, <3>1
      <3>3. Fragment(token.type, token.value) \in [type : TokenTypes, text : Seq(Symbols)]
        BY <1>3 DEF Fragment
      <3> DEFINE f == Fragment(token.type, token.value)
      <3> HIDE DEF f, token
      <3>4. Append(h.line, f) # <<>> /\ Append(h.line, f)[Len(Append(h.line, f))] = f
        <4> DEFINE F == [type : TokenTypes, text : Seq(Symbols)]
        <4>1. h.line \in Seq(F) /\ f \in F
          BY <3>2, <3>3 DEF f
        <4> HIDE DEF F
        <4>2. QED BY <4>1, AppendProperties
      <3>5. QED BY <3>4 DEF f
    <2> HIDE DEF token
    <2>2. line[Len(line)].type = token.type
      BY <2>1 DEF Fragment
    <2>3. QED BY <1>1, <1>3, <2>1, <2>2, TextsAppend
  <1>11. FlattenSeq(Texts(line)) = SubSeq(t, a + 1, d)
    <2>1. FlattenSeq(Texts(line)) = FlattenSeq(Texts(h.line)) \o token.value
      <3> HIDE DEF line, token
      <3>1. QED BY <1>3, <1>10, FlattenAppend
    <2>2. QED BY <1>6, <1>7, <1>8, <2>1
  <1>12. g = CASE token.value = <<"nl">> -> [tokens |-> rest, lines |-> Append(h.lines, h.line), line |-> <<>>]
               [] token.value # <<"nl">> /\ token.type = "CommentSingle" ->
                    [tokens |-> rest, lines |-> Append(h.lines, line), line |-> <<>>]
               [] OTHER -> [tokens |-> rest, lines |-> h.lines, line |-> line]
    BY DEF PutToken
  <1> HIDE DEF token, rest, line, g, n
  <1>13. ASSUME NEW l \in Line, Shown(l) = SubSeq(t, a + 1, d),
                g.tokens = rest, g.lines = Append(h.lines, l), g.line = <<>>
         PROVE  LinesInv(t, toks, c, g)
    <2>1. ShownAll(Append(h.lines, l)) = Append(ShownAll(h.lines), Shown(l))
      BY <1>1, ShownAppend
    <2>2. Shown(l) \in Seq(Symbols)
      <3>1. old \o new \in Seq(Symbols)
        BY <1>7, ConcatProperties
      <3>2. QED BY <1>7, <1>13, <3>1
    <2>3. FlattenSeq(ShownAll(Append(h.lines, l))) = SubSeq(t, 1, d)
      <3>1. FlattenSeq(Append(ShownAll(h.lines), Shown(l))) = FlattenSeq(ShownAll(h.lines)) \o Shown(l)
        BY <1>8, <2>2, FlattenAppend
      <3>2. QED BY <1>7, <1>8, <1>13, <2>1, <3>1
    <2>4. g.tokens = rest /\ g.lines = Append(h.lines, l) /\ g.line = <<>>
      BY <1>13
    <2>5. Len(g.lines) <= j + 1
      <3>1. Len(Append(h.lines, l)) = Len(h.lines) + 1
        BY <1>1
      <3>2. QED BY <1>4, <1>8, <1>9, <2>4, <3>1
    <2>6. ShownAll(g.lines) \in Seq(Seq(Symbols))
      <3>1. Append(ShownAll(h.lines), Shown(l)) \in Seq(Seq(Symbols))
        BY <1>8, <2>2, AppendProperties
      <3>2. QED BY <2>1, <2>4, <3>1
    <2>7. Texts(g.line) = <<>> /\ FlattenSeq(Texts(g.line)) = <<>>
      <3>1. Texts(<<>>) = <<>>
        BY DEF Texts
      <3>2. QED BY <2>4, <3>1, FlattenEmpty
    <2>8. SubSeq(t, d + 1, d) = <<>> /\ ~HasNewline(<<>>)
      BY <1>6 DEF HasNewline
    <2>9. CutLines(t, toks, c, g, j + 1, j + 1)
      <3>1. d <= d
        BY <1>6
      <3>2. QED BY <1>5, <2>3, <2>4, <2>5, <2>6, <2>7, <2>8, <3>1 DEF CutLines, d, n
    <2>10. j + 1 \in 0 .. n /\ j + 1 \in j + 1 .. n
      BY <1>4
    <2>11. QED BY <1>3, <2>9, <2>10 DEF LinesInv, n
  <1>14. CASE token.value = <<"nl">>
    <2>1. g = [tokens |-> rest, lines |-> Append(h.lines, h.line), line |-> <<>>]
      BY <1>12, <1>14
    <2>2. Shown(h.line) = old \o <<"nl">>
      BY <1>1, <1>8, ShownIs
    <2>3. Shown(h.line) = SubSeq(t, a + 1, d)
      BY <1>6, <1>7, <1>14, <2>2
    <2>4. g.tokens = rest /\ g.lines = Append(h.lines, h.line) /\ g.line = <<>>
      BY <2>1
    <2>5. QED BY <1>1, <1>13, <2>3, <2>4 DEF g
  <1>15. CASE token.value # <<"nl">> /\ token.type = "CommentSingle"
    <2>1. g = [tokens |-> rest, lines |-> Append(h.lines, line), line |-> <<>>]
      BY <1>12, <1>15
    <2>2. Shown(line) = FlattenSeq(Texts(line)) \o <<>>
      BY <1>3, <1>10, <1>15, ShownIs
    <2>3. SubSeq(t, a + 1, d) \in Seq(Symbols)
      BY <1>6, <1>7 
    <2>4. Shown(line) = SubSeq(t, a + 1, d)
      BY <1>11, <2>2, <2>3
    <2>5. g.tokens = rest /\ g.lines = Append(h.lines, line) /\ g.line = <<>>
      BY <2>1
    <2>6. QED BY <1>3, <1>13, <2>4, <2>5 DEF g
  <1>16. CASE token.value # <<"nl">> /\ token.type # "CommentSingle"
    <2>1. g = [tokens |-> rest, lines |-> h.lines, line |-> line]
      BY <1>12, <1>16
    <2>2. g.tokens = rest /\ g.lines = h.lines /\ g.line = line
      BY <2>1
    <2>3. HasNewline(new) => TakesNewline(t)
      BY <1>6, <1>16 DEF KeepsToken
    <2>4. HasNewline(SubSeq(t, a + 1, d)) => TakesNewline(t)
      BY <1>7, <1>8, <2>3, NewlineJoins
    <2>5. a <= d
      BY <1>6
    <2>6. CutLines(t, toks, c, g, k, j + 1)
      <3>1. line # <<>> => line[Len(line)].type # "CommentSingle"
        BY <1>10, <1>16
      <3>2. g.tokens = SubSeq(toks, (j + 1) + 1, Len(toks))
        BY <1>5, <2>2 DEF n
      <3>3. Len(g.lines) <= k /\ ShownAll(g.lines) \in Seq(Seq(Symbols)) /\ FlattenSeq(ShownAll(g.lines)) = SubSeq(t, 1, c[k])
        BY <1>8, <2>2 DEF a
      <3>4. FlattenSeq(Texts(g.line)) = SubSeq(t, c[k] + 1, c[j + 1])
        BY <1>11, <2>2 DEF a, d
      <3>5. c[k] <= c[j + 1] /\ (HasNewline(SubSeq(t, c[k] + 1, c[j + 1])) => TakesNewline(t))
        BY <2>4, <2>5 DEF a, d
      <3>6. QED BY <2>2, <3>1, <3>2, <3>3, <3>4, <3>5 DEF CutLines
    <2>7. k \in 0 .. n /\ j + 1 \in k .. n
      BY <1>4
    <2>8. \E i \in k .. n : CutLines(t, toks, c, g, k, i)
      BY <2>6, <2>7
    <2>9. QED BY <1>3, <2>7, <2>8 DEF LinesInv, n, g
  <1>17. QED BY <1>14, <1>15, <1>16 DEF g

\* lines shows t: symbol by symbol up to its last line feed.
ShowsText(t, lines) ==
  LET shown == FlattenSeq(ShownAll(lines))
      rest == SubSeq(t, Len(shown) + 1, Len(t))
  IN t = shown \o rest /\ (HasNewline(rest) => TakesNewline(t))

LEMMA HighlightShows ==
  ASSUME NEW t \in Seq(Symbols), LexEnds(t)
  PROVE  /\ ShowsText(t, SyntaxHighlight(t))
         /\ SyntaxHighlight(t) \in Seq(Line) /\ Len(SyntaxHighlight(t)) <= Len(t)
  <1> DEFINE l == Lex[LexStart(t)]
             toks == l.tokens
             n == Len(toks)
             start == [tokens |-> toks, lines |-> <<>>, line |-> <<>>]
             step == [h \in Highlightings |-> IF h.tokens = <<>> THEN h ELSE PutToken(h)]
             halt == {h \in Highlightings : h.tokens = <<>>}
             out == [h \in Highlightings |-> h.lines]
             size == [h \in Highlightings |-> Len(h.tokens)]
             Is(f) == f = [h \in Highlightings |-> IF h.tokens = <<>> THEN h.lines ELSE f[PutToken(h)]]
  <1>1. LexInv(t, l) /\ l.input = <<>> /\ SyntaxHighlight(t) = Lines[start]
    BY LexKeeps DEF LexEnds, SyntaxHighlight, GetTokensUnprocessed
  <1>2. toks \in Seq(Tokens) /\ n \in Nat /\ \A i \in 1 .. n : KeepsToken(t, toks[i])
    <2>1. l \in Lexings /\ \A i \in 1 .. n : KeepsToken(t, toks[i])
      BY <1>1 DEF LexInv
    <2> HIDE DEF l
    <2>2. toks \in Seq(Tokens)
      BY <2>1 DEF Lexings, Tokens
    <2>3. QED BY <2>1, <2>2
  <1>3. PICK c : Cuts(t, toks, c) /\ <<>> = SubSeq(t, c[n] + 1, Len(t))
    BY <1>1 DEF LexInv
  <1> DEFINE J == {h \in Highlightings : LinesInv(t, toks, c, h)}
  <1> HIDE DEF l
  <1>4. step \in [Highlightings -> Highlightings]
    BY PutTypes
  <1>5. \E f : TailRecursive(f, Highlightings, step, halt, out)
    <2>1. halt \in SUBSET Highlightings
      OBVIOUS
    <2> HIDE DEF step, halt, out
    <2>2. QED BY <1>4, <2>1, TailRecursion
  <1>6. ASSUME NEW f PROVE TailRecursive(f, Highlightings, step, halt, out) <=> Is(f)
    BY DEF TailRecursive
  <1>7. \E f : Is(f)
    BY <1>5, <1>6
  <1>8. Lines = CHOOSE f : Is(f)
    BY DEF Lines, Highlightings
  <1> HIDE DEF Is
  <1>9. Is(Lines)
    BY <1>7, <1>8
  <1>10. TailRecursive(Lines, Highlightings, step, halt, out)
    BY <1>6, <1>9
  <1>11. size \in [Highlightings -> Nat]
    BY DEF Highlightings
  <1>12. \A h \in Highlightings \ halt : size[step[h]] < size[h]
    <2>1. ASSUME NEW h \in Highlightings, h.tokens # <<>> PROVE size[step[h]] < size[h]
      <3>1. PutToken(h) \in Highlightings /\ Len(PutToken(h).tokens) = Len(h.tokens) - 1
        BY <2>1, PutTypes
      <3>2. size[step[h]] = Len(PutToken(h).tokens) /\ size[h] = Len(h.tokens) /\ Len(h.tokens) \in Nat
        BY <2>1, <3>1 DEF Highlightings
      <3>3. QED BY <3>1, <3>2
    <2>2. QED BY <2>1
  <1>13. \A h \in J \ halt : step[h] \in J
    <2>1. ASSUME NEW h \in J, h.tokens # <<>> PROVE PutToken(h) \in J
      <3> HIDE DEF n, toks
      <3>1. LinesInv(t, toks, c, PutToken(h))
        BY <1>2, <1>3, <2>1, PutKeeps DEF n
      <3>2. QED BY <2>1, <3>1, PutTypes
    <2>2. QED BY <2>1
  <1>14. start \in J
    <2>1. start \in Highlightings
      BY <1>2 DEF Highlightings, Line
    <2>2. ShownAll(<<>>) = <<>> /\ Texts(<<>>) = <<>> /\ ~HasNewline(<<>>)
      BY DEF ShownAll, Texts, HasNewline
    <2>3. c[0] = 0 /\ Len(t) \in Nat
      BY <1>3 DEF Cuts
    <2>4. SubSeq(t, 1, 0) = <<>> /\ SubSeq(t, 0 + 1, 0) = <<>>
      OBVIOUS
    <2>5. start.tokens = toks /\ start.lines = <<>> /\ start.line = <<>>
      OBVIOUS
    <2>6. SubSeq(toks, 0 + 1, Len(toks)) = toks
      BY <1>2
    <2> HIDE DEF start, toks, n
    <2>7. CutLines(t, toks, c, start, 0, 0)
      <3>1. start.tokens = SubSeq(toks, 0 + 1, Len(toks))
        BY <2>5, <2>6
      <3>2. Len(start.lines) <= 0 /\ c[0] <= c[0]
        BY <2>3, <2>5
      <3>3. ShownAll(start.lines) \in Seq(Seq(Symbols)) /\ FlattenSeq(ShownAll(start.lines)) = SubSeq(t, 1, c[0])
        <4>1. ShownAll(start.lines) = <<>> /\ SubSeq(t, 1, c[0]) = <<>>
          BY <2>2, <2>3, <2>4, <2>5
        <4>2. <<>> \in Seq(Seq(Symbols))
          OBVIOUS
        <4>3. QED BY <4>1, <4>2, FlattenEmpty
      <3>4. SubSeq(t, c[0] + 1, c[0]) = <<>>
        BY <2>3, <2>4
      <3>5. FlattenSeq(Texts(start.line)) = SubSeq(t, c[0] + 1, c[0])
        BY <2>2, <2>5, <3>4, FlattenEmpty
      <3>6. QED BY <2>2, <2>5, <3>1, <3>2, <3>3, <3>4, <3>5 DEF CutLines
    <2>8. 0 \in 0 .. Len(toks) /\ 0 \in 0 .. 0
      BY <1>2 DEF n
    <2>9. QED BY <2>1, <2>7, <2>8 DEF LinesInv
  <1>15. \A h \in J : \E e \in J \cap halt : Lines[h] = out[e]
    <2>1. J \in SUBSET Highlightings /\ halt \in SUBSET Highlightings
      OBVIOUS
    <2> HIDE DEF J, halt, out, step, size
    <2>2. GoesDown(Highlightings, step, halt, size, J)
      BY <1>4, <1>11, <1>12, <1>13, <2>1 DEF GoesDown
    <2>3. QED BY <1>10, <2>2, TailRecursionStops
  <1>16. PICK e \in J \cap halt : Lines[start] = out[e]
    BY <1>14, <1>15
  <1>17. e \in Highlightings /\ e.tokens = <<>> /\ LinesInv(t, toks, c, e) /\ SyntaxHighlight(t) = e.lines
    BY <1>1, <1>16
  <1> HIDE DEF J, halt, out, step, size, start
  <1>18. PICK k \in 0 .. n : \E i \in k .. n : CutLines(t, toks, c, e, k, i)
    BY <1>17 DEF LinesInv
  <1>19. PICK j \in k .. n : CutLines(t, toks, c, e, k, j)
    BY <1>18
  <1> HIDE DEF toks, n
  <1>20. j = n
    <2>1. e.tokens = SubSeq(toks, j + 1, n)
      BY <1>19 DEF CutLines, n
    <2>2. j \in Nat /\ k \in Nat /\ j <= n
      BY <1>2
    <2>3. Len(SubSeq(toks, j + 1, n)) = n - j
      BY <1>2, <2>2 DEF n
    <2>4. n - j = 0
      <3>1. SubSeq(toks, j + 1, n) = <<>>
        BY <1>17, <2>1
      <3>2. Len(<<>>) = 0
        OBVIOUS
      <3>3. QED BY <2>3, <3>1, <3>2
    <2>5. QED BY <1>2, <2>2, <2>4
  <1>21. /\ c[k] \in 0 .. Len(t) /\ c[n] \in 0 .. Len(t) /\ k <= c[k] /\ k \in Nat
    <2>1. k \in 0 .. n /\ n \in 0 .. n
      BY <1>2
    <2>2. c \in [0 .. n -> 0 .. Len(t)] /\ \A i \in 0 .. n : i <= c[i]
      BY <1>3 DEF Cuts, n
    <2>3. QED BY <2>1, <2>2
  <1>22. c[n] = Len(t)
    <2>1. Len(SubSeq(t, c[n] + 1, Len(t))) = Len(t) - c[n]
      BY <1>21
    <2>2. Len(t) - c[n] = 0
      BY <1>3, <2>1
    <2>3. QED BY <1>21, <2>2
  <1>23. /\ Len(e.lines) <= k
         /\ FlattenSeq(ShownAll(e.lines)) = SubSeq(t, 1, c[k])
         /\ HasNewline(SubSeq(t, c[k] + 1, Len(t))) => TakesNewline(t)
    BY <1>19, <1>20, <1>22 DEF CutLines
  <1>24. e.lines \in Seq(Line) /\ Len(e.lines) \in Nat
    BY <1>17 DEF Highlightings
  <1>25. Len(e.lines) <= Len(t)
    BY <1>21, <1>23, <1>24
  <1>26. ShowsText(t, e.lines)
    <2> DEFINE a == c[k]
    <2>1. a \in Nat /\ a <= Len(t) /\ Len(t) \in Nat /\ 0 \in Nat /\ 0 <= a /\ Len(t) <= Len(t)
      BY <1>21
    <2> HIDE DEF a
    <2>2. Len(SubSeq(t, 1, a)) = a
      BY <2>1
    <2>3. SubSeq(t, 0 + 1, a) \o SubSeq(t, a + 1, Len(t)) = SubSeq(t, 0 + 1, Len(t))
      BY <2>1, Joined2
    <2>4. SubSeq(t, 0 + 1, Len(t)) = t /\ 0 + 1 = 1
      OBVIOUS
    <2>5. t = SubSeq(t, 1, a) \o SubSeq(t, a + 1, Len(t))
      BY <2>3, <2>4
    <2>6. QED BY <1>23, <2>2, <2>5 DEF ShowsText, a
  <1>27. QED BY <1>17, <1>24, <1>25, <1>26

-----------------------------------------------------------------------------
(* The lines of the source view: "Loading...", or those that the lexer made *)
(* of a text.                                                               *)
LEMMA NewView ==
  ASSUME NEW v, ViewShape(v)
  PROVE  /\ \A l, f : [v EXCEPT !.lines = l, !.from = f].lines = l /\ [v EXCEPT !.lines = l, !.from = f].from = f
                      /\ [v EXCEPT !.lines = l, !.from = f].scroll = v.scroll
         /\ \A c : /\ [v EXCEPT !.counter = c].lines = v.lines /\ [v EXCEPT !.counter = c].from = v.from
                   /\ [v EXCEPT !.counter = c].scroll = v.scroll
         /\ \A s : [v EXCEPT !.scroll = s].lines = v.lines /\ [v EXCEPT !.scroll = s].from = v.from
  <1>1. ASSUME NEW l, NEW f
        PROVE  /\ [v EXCEPT !.lines = l, !.from = f].lines = l /\ [v EXCEPT !.lines = l, !.from = f].from = f
               /\ [v EXCEPT !.lines = l, !.from = f].scroll = v.scroll
    <2> DEFINE w == [v EXCEPT !.lines = l]
    <2>1. [v EXCEPT !.lines = l, !.from = f] = [w EXCEPT !.from = f]
      BY DEF ViewShape
    <2>2. w = [lines |-> l, from |-> v.from, counter |-> v.counter, scroll |-> v.scroll]
      BY DEF ViewShape
    <2> HIDE DEF w
    <2>3. [w EXCEPT !.from = f] = [lines |-> l, from |-> f, counter |-> v.counter, scroll |-> v.scroll]
      BY <2>2
    <2>4. QED BY <2>1, <2>3
  <1>2. ASSUME NEW c
        PROVE  /\ [v EXCEPT !.counter = c].lines = v.lines /\ [v EXCEPT !.counter = c].from = v.from
               /\ [v EXCEPT !.counter = c].scroll = v.scroll
    BY DEF ViewShape
  <1>3. ASSUME NEW s
        PROVE  [v EXCEPT !.scroll = s].lines = v.lines /\ [v EXCEPT !.scroll = s].from = v.from
    BY DEF ViewShape
  <1>4. QED BY <1>1, <1>2, <1>3

ShowsLines(from, lines) ==
  /\ Len(lines) \in Nat /\ Len(lines) <= MostLines
  /\ from # NoText => ShowsText(from, lines)
SourceInv == ShowsLines(source.from, source.lines)

\* The longest text there is.
LEMMA LongestText == Greetings # {} => MostLines \in Nat /\ \A t \in Greetings : Len(t) + 1 <= MostLines
  <1> SUFFICES ASSUME Greetings # {} PROVE MostLines \in Nat /\ \A t \in Greetings : Len(t) + 1 <= MostLines
    OBVIOUS
  <1> DEFINE S == {Len(t) : t \in Greetings}
             Longest(m) == \A k \in S : m >= k
  <1>1. PICK seq \in Seq(Greetings) : \A t \in Greetings : \E n \in 1 .. Len(seq) : seq[n] = t
    BY ApplicationAssumption DEF IsFiniteSet
  <1>2. S \in SUBSET Nat /\ S # {} /\ Len(seq) \in Nat
    <2>1. \A t \in Greetings : t \in Seq(Symbols)
      BY ApplicationAssumption
    <2>2. \A t \in Greetings : Len(t) \in Nat
      BY <2>1
    <2>3. S \in SUBSET Nat /\ S # {}
      BY <2>2
    <2>4. QED BY <2>3
  <1>3. \A i \in 1 .. Len(seq) : seq[i] \in Greetings /\ Len(seq[i]) \in S /\ Len(seq[i]) \in Nat
    BY <1>1, <1>2, ElementOfSeq
  <1> DEFINE Tops(k) == {m \in S : \A i \in 1 .. k : Len(seq[i]) <= m}
             P == {k \in Nat : k <= Len(seq) => Tops(k) # {}}
  <1>4. 0 \in P
    <2>1. Tops(0) = S
      OBVIOUS
    <2>2. QED BY <1>2, <2>1
  <1>5. ASSUME NEW k \in Nat, k \in P PROVE k + 1 \in P
    <2>1. SUFFICES ASSUME k + 1 <= Len(seq) PROVE Tops(k + 1) # {}
      OBVIOUS
    <2>2. PICK m \in S : \A i \in 1 .. k : Len(seq[i]) <= m
      BY <1>2, <1>5, <2>1
    <2> DEFINE l == Len(seq[k + 1])
    <2>3. l \in S /\ l \in Nat /\ m \in Nat
      BY <1>2, <1>3, <2>1
    <2>4. \A i \in 1 .. k + 1 : i \in 1 .. k \/ i = k + 1
      OBVIOUS
    <2>5. CASE l <= m
      <3>1. m \in Tops(k + 1)
        BY <2>2, <2>4, <2>5
      <3>2. QED BY <3>1
    <2>6. CASE ~(l <= m)
      <3>1. \A i \in 1 .. k : Len(seq[i]) <= l
        <4>1. \A i \in 1 .. k : Len(seq[i]) \in Nat
          BY <1>2, <1>3, <2>1
        <4> HIDE DEF l
        <4>2. QED BY <2>2, <2>3, <2>6, <4>1
      <3>2. l \in Tops(k + 1)
        BY <2>3, <2>4, <3>1
      <3>3. QED BY <3>2
    <2>7. QED BY <2>5, <2>6
  <1> HIDE DEF P
  <1>6. Len(seq) \in P
    BY <1>2, <1>4, <1>5, NatInd
  <1>7. \E m \in S : Longest(m)
    <2>1. PICK m \in S : \A i \in 1 .. Len(seq) : Len(seq[i]) <= m
      BY <1>2, <1>6 DEF P
    <2>2. ASSUME NEW t \in Greetings PROVE m >= Len(t)
      <3>1. PICK i \in 1 .. Len(seq) : seq[i] = t
        BY <1>1
      <3>2. Len(t) <= m /\ Len(t) \in Nat /\ m \in Nat
        BY <1>2, <1>3, <2>1, <3>1
      <3>3. QED BY <3>2
    <2>3. Longest(m)
      BY <2>2
    <2>4. QED BY <2>3
  <1>8. Max(S) = CHOOSE m \in S : Longest(m)
    BY DEF Max
  <1> HIDE DEF Longest
  <1>9. Max(S) \in S /\ Longest(Max(S))
    BY <1>7, <1>8
  <1>10. MostLines = Max(S) + 1
    BY DEF MostLines
  <1>11. \A t \in Greetings : Len(t) \in S /\ Max(S) >= Len(t)
    BY <1>9 DEF Longest
  <1>12. \A t \in Greetings : Len(t) \in Nat
    BY ApplicationAssumption
  <1>13. Max(S) \in Nat
    BY <1>2, <1>9
  <1> HIDE DEF S
  <1>14. QED BY <1>10, <1>11, <1>12, <1>13

\* What is posted to be committed shows its text.
LEMMA CommitShows ==
  ASSUME NEW c \in Closures, c.kind = "commit", Greetings # {}
  PROVE  ShowsLines(c.text, c.lines)
  <1>1. ShowsLines(<<>>, <<>>)
    <2>1. ShownAll(<<>>) = <<>> /\ ~HasNewline(<<>>)
      BY DEF ShownAll, HasNewline
    <2>2. FlattenSeq(ShownAll(<<>>)) = <<>>
      BY <2>1, FlattenEmpty
    <2>3. SubSeq(<<>>, Len(<<>>) + 1, Len(<<>>)) = <<>> /\ <<>> \o <<>> = <<>>
      OBVIOUS
    <2>4. ShowsText(<<>>, <<>>)
      BY <2>1, <2>2, <2>3 DEF ShowsText
    <2>5. Len(<<>>) = 0 /\ 0 \in Nat /\ MostLines \in Nat
      BY LongestText
    <2>6. 0 <= MostLines
      BY <2>5
    <2>7. QED BY <2>4, <2>5, <2>6 DEF ShowsLines
  <1>2. ASSUME NEW t \in Greetings \cup {Empty}, LexEnds(t)
        PROVE  ShowsLines(t, SyntaxHighlight(t))
    <2>1. t \in Seq(Symbols)
      <3>1. Greetings \subseteq Seq(Symbols)
        BY ApplicationAssumption
      <3>2. Empty \in Seq(Symbols)
        BY DEF Empty
      <3>3. QED BY <3>1, <3>2
    <2>2. /\ ShowsText(t, SyntaxHighlight(t))
          /\ SyntaxHighlight(t) \in Seq(Line) /\ Len(SyntaxHighlight(t)) <= Len(t)
      BY <1>2, <2>1, HighlightShows
    <2> DEFINE n == Len(SyntaxHighlight(t))
    <2>3. n \in Nat /\ n <= Len(t) /\ Len(t) \in Nat
      BY <2>1, <2>2
    <2>4. MostLines \in Nat /\ Len(t) <= MostLines
      <3>1. CASE t \in Greetings
        BY <2>3, <3>1, LongestText
      <3>2. CASE t = Empty
        <4>1. Len(t) = 0
          BY <3>2 DEF Empty
        <4>2. QED BY <4>1, LongestText
      <3>3. QED BY <3>1, <3>2
    <2> HIDE DEF n
    <2>5. n <= MostLines
      BY <2>3, <2>4
    <2>6. QED BY <2>2, <2>3, <2>5 DEF n, ShowsLines
  <1>3. CASE \E kind \in Kinds : c = Plain(kind)
    <2>1. c.text = <<>> /\ c.lines = <<>>
      BY <1>3 DEF Plain, Task, Empty
    <2>2. QED BY <1>1, <2>1
  <1>4. CASE \E t \in Greetings \cup {Empty} : c = Task("highlight", t, Empty)
    BY <1>4 DEF Task
  <1>5. CASE \E h \in {g \in Highlighted : g.ends} : c = Task("commit", h.text, h.lines)
    <2>1. PICK h \in Highlighted : h.ends /\ c = Task("commit", h.text, h.lines)
      BY <1>5
    <2>2. PICK t \in Greetings \cup {Empty} : h = [text |-> t, ends |-> LexEnds(t), lines |-> SyntaxHighlight(t)]
      BY DEF Highlighted
    <2>3. LexEnds(t) /\ c.text = t /\ c.lines = SyntaxHighlight(t)
      BY <2>1, <2>2 DEF Task
    <2>4. QED BY <1>2, <2>3
  <1>6. QED BY <1>3, <1>4, <1>5 DEF Closures

LEMMA SourceInit == Init => SourceInv
  <1> SUFFICES ASSUME Init PROVE SourceInv
    OBVIOUS
  <1>1. Greetings # {}
    BY DEF Init
  <1>2. Plain("commit") \in Closures
    BY PlainClosure DEF Kinds
  <1>3. Plain("commit").kind = "commit" /\ Plain("commit").text = <<>> /\ Plain("commit").lines = <<>>
    BY DEF Plain, Task, Empty
  <1>4. source.lines = <<>> /\ source.from = <<>>
    BY DEF Init, Empty
  <1>5. QED BY <1>1, <1>2, <1>3, <1>4, CommitShows DEF SourceInv

LEMMA SourceStep ==
  ASSUME Greetings # {}, ClosuresInv, PaintInv, SourceInv, [Next]_vars
  PROVE  SourceInv'
  <1>1. ASSUME UNCHANGED source PROVE SourceInv'
    BY <1>1 DEF SourceInv
  <1>2. ASSUME NEW s, source' = [source EXCEPT !.scroll = s] PROVE SourceInv'
    BY <1>2, NewView DEF SourceInv, PaintInv
  <1>3. CASE MainThread
    <2>1. CASE MainMessageLoopStart \/ (\E id \in IDs : CreateThread(id) \/ ShutdownThread(id))
               \/ DestroyApplication \/ CallThroughNull \/ DestroyMainLoop
      BY <1>1, <2>1 DEF MainMessageLoopStart, CreateThread, ShutdownThread, DestroyApplication, CallThroughNull, DestroyMainLoop, appVars, viewVars
    <2>2. CASE CreateApplication \/ FileLoadCompleted
      <3>1. source' = [source EXCEPT !.lines = <<Loading>>, !.from = NoText]
        BY <2>2 DEF CreateApplication, SetDisplay, FileLoadCompleted, SetData
      <3>2. source'.lines = <<Loading>> /\ source'.from = NoText
        BY <3>1, NewView DEF PaintInv
      <3>3. Len(<<Loading>>) = 1 /\ 1 \in Nat
        OBVIOUS
      <3>4. 1 <= MostLines
        <4>1. PICK t \in Greetings : TRUE
          OBVIOUS
        <4>2. Len(t) \in Nat /\ Len(t) + 1 <= MostLines /\ MostLines \in Nat
          BY LongestText, ApplicationAssumption
        <4>3. QED BY <4>2
      <3>5. QED BY <3>2, <3>3, <3>4 DEF SourceInv, ShowsLines
    <2>3. CASE ConnectDebugCore \/ AddText
      BY <1>1, <2>3 DEF ConnectDebugCore, AddText, viewVars
    <2>4. CASE OnStoppedAtBreakpoint
      <3>1. PICK line \in StopLines : source' = [source EXCEPT !.counter = line - 1]
        BY <2>4 DEF OnStoppedAtBreakpoint, SetProgramCounterLine
      <3>2. source'.lines = source.lines /\ source'.from = source.from
        BY <3>1, NewView DEF PaintInv
      <3>3. QED BY <3>2 DEF SourceInv
    <2>5. CASE CommitAfterHighlight
      <3> DEFINE c == Head(queue[UI])
      <3>1. source' = [source EXCEPT !.lines = c.lines, !.from = c.text] /\ queue[UI] # <<>> /\ c.kind = "commit"
        BY <2>5 DEF CommitAfterHighlight, Committed, UIRuns, First
      <3>2. c \in Closures
        BY <3>1, FourThreads, HeadTailProperties DEF ClosuresInv
      <3> HIDE DEF c
      <3>3. source'.lines = c.lines /\ source'.from = c.text
        BY <3>1, NewView DEF PaintInv
      <3>4. QED BY <3>1, <3>2, <3>3, CommitShows DEF SourceInv
    <2>6. CASE Paint
      BY <1>2, <2>6 DEF Paint, Render
    <2>7. QED BY <1>3, <2>1, <2>2, <2>3, <2>4, <2>5, <2>6 DEF MainThread
  <1>4. CASE OtherThreads
    BY <1>1, <1>4 DEF OtherThreads, ReadFileOnFILE, HighlightOnFILE, Create, BackendRuns, Quits, appVars, viewVars
  <1>5. CASE \E t \in IDs : Helper(t)
    BY <1>1, <1>5 DEF Helper, appVars, viewVars
  <1>6. CASE UserAndGdb
    <2>1. CASE ScrollSource
      BY <1>2, <2>1 DEF ScrollSource, Scrolled
    <2>2. CASE Expose
      BY <1>2, <2>2 DEF Expose, Render
    <2>3. CASE ScrollOutput \/ Close \/ GdbStops \/ GdbPrints
      BY <1>1, <2>3 DEF ScrollOutput, Close, GdbStops, GdbPrints, viewVars
    <2>4. QED BY <1>6, <2>1, <2>2, <2>3 DEF UserAndGdb
  <1>7. CASE UNCHANGED vars
    BY <1>1, <1>7 DEF vars, appVars, viewVars
  <1>8. QED BY <1>3, <1>4, <1>5, <1>6, <1>7 DEF Next, AnyThread

\* The lines shown are the text, symbol by symbol, up to its last line feed
\* (lexer.cc, source_view.cc 24-60), for every text that the lexer gets through
\* and however commits and new texts interleave: the tokens are the text, cut
\* into pieces, and a line feed ends a line unless a longer token takes it.
THEOREM LinesAreTheTextHolds == Spec => []LinesAreTheText
  <1> DEFINE All == Greetings # {} /\ Inv /\ ProgramInv /\ PaintInv /\ SourceInv
  <1>1. Init => All
    <2> SUFFICES ASSUME Init PROVE All
      OBVIOUS
    <2>1. Inv /\ ProgramInv
      BY ProgramInit
    <2>2. PaintInv
      BY DEF Init, PaintInv, ViewShape, ScrollShape, NewScroll, PictureCurrent
    <2>3. Greetings # {}
      BY DEF Init
    <2>4. SourceInv
      BY SourceInit
    <2>5. QED BY <2>1, <2>2, <2>3, <2>4
  <1>2. All /\ [Next]_vars => All'
    BY ProgramNextInv, PaintStep, SourceStep DEF ProgramInv
  <1>3. All => LinesAreTheText
    BY DEF SourceInv, ShowsLines, ShowsText, ShownAll, LinesAreTheText
  <1>4. QED BY <1>1, <1>2, <1>3, PTL DEF Spec

-----------------------------------------------------------------------------
(* The lines of the output view: those that gdb printed, less those that    *)
(* are on their way.                                                        *)
Counts(q, a, b) ==
  \E g \in [0 .. Len(q) -> a .. b] :
    /\ \A i, j \in 0 .. Len(q) : i <= j => g[i] <= g[j]
    /\ \A i \in 1 .. Len(q) : q[i].kind = "output" => g[i - 1] < g[i]
PrintsFirst(t, posts) == \A i \in 1 .. Len(posts) : posts[i].task.kind = "output" => t = BACKEND /\ i = 1
Printing(posts) == IF posts # <<>> /\ posts[1].task.kind = "output" THEN 1 ELSE 0
PrintInv == \A t \in IDs : PrintsFirst(t, outbox[t])
OutputInv ==
  /\ output = [lines |-> output.lines, scroll |-> output.scroll] /\ output.lines \in Nat
  /\ outputs \in Nat /\ outputs <= MaxOutputs
  /\ Counts(queue[UI], output.lines, outputs - Printing(outbox[BACKEND]))

LEMMA CountsBounds ==
  ASSUME NEW S, NEW q \in Seq(S), NEW a \in Int, NEW b \in Int, Counts(q, a, b)
  PROVE  a <= b
  <1>1. PICK g : g \in [0 .. Len(q) -> a .. b]
    BY DEF Counts
  <1>2. 0 \in 0 .. Len(q)
    OBVIOUS
  <1>3. g[0] \in a .. b
    BY <1>1, <1>2
  <1>4. QED BY <1>3

LEMMA CountsNothing == ASSUME NEW a \in Int, NEW b \in Int, a <= b PROVE Counts(<<>>, a, b)
  <1> DEFINE g == [i \in 0 .. 0 |-> a]
  <1>1. g \in [0 .. 0 -> a .. b] /\ g[0] = a /\ Len(<<>>) = 0
    OBVIOUS
  <1>2. \A i, j \in 0 .. 0 : g[i] <= g[j]
    BY <1>1
  <1> HIDE DEF g
  <1>3. QED BY <1>1, <1>2 DEF Counts

LEMMA CountsTail ==
  ASSUME NEW S, NEW q \in Seq(S), q # <<>>, NEW a \in Int, NEW b \in Int, Counts(q, a, b),
         NEW c \in Int, c <= a \/ (Head(q).kind = "output" /\ c = a + 1)
  PROVE  Counts(Tail(q), c, b)
  <1> DEFINE n == Len(q)
             rest == Tail(q)
             m == Len(rest)
  <1>1. /\ n \in Nat /\ n >= 1 /\ m = n - 1 /\ Head(q) = q[1]
        /\ \A i \in 1 .. m : rest[i] = q[i + 1] /\ i + 1 \in 1 .. n
    BY TailIsShifted
  <1>2. PICK g \in [0 .. n -> a .. b] :
          /\ \A i, j \in 0 .. n : i <= j => g[i] <= g[j]
          /\ \A i \in 1 .. n : q[i].kind = "output" => g[i - 1] < g[i]
    BY DEF Counts
  <1> DEFINE h == [i \in 0 .. m |-> g[i + 1]]
  <1> HIDE DEF rest, n, m
  <1>3. \A i \in 0 .. m : i + 1 \in 0 .. n /\ i + 1 >= 1 /\ 1 \in 0 .. n /\ 0 \in 0 .. n /\ h[i] = g[i + 1]
    BY <1>1
  <1>4. \A i \in 0 .. m : g[1] <= g[i + 1] /\ g[0] <= g[1] /\ g[i + 1] \in a .. b /\ g[0] \in a .. b /\ g[1] \in a .. b
    BY <1>2, <1>3
  <1>5. Head(q).kind = "output" => g[0] < g[1]
    <2>1. 1 \in 1 .. n /\ 1 - 1 = 0
      BY <1>1
    <2>2. QED BY <1>1, <1>2, <2>1
  <1>6. \A i \in 0 .. m : g[i + 1] \in c .. b
    BY <1>4, <1>5
  <1>7. h \in [0 .. m -> c .. b]
    BY <1>6
  <1>8. ASSUME NEW i \in 0 .. m, NEW j \in 0 .. m, i <= j PROVE h[i] <= h[j]
    <2>1. i + 1 \in 0 .. n /\ j + 1 \in 0 .. n /\ i + 1 <= j + 1
      BY <1>3, <1>8
    <2>2. QED BY <1>2, <1>3, <2>1
  <1>9. ASSUME NEW i \in 1 .. m, rest[i].kind = "output" PROVE h[i - 1] < h[i]
    <2>1. i \in 0 .. m /\ i - 1 \in 0 .. m /\ (i - 1) + 1 = i /\ (i + 1) - 1 = i
      BY <1>1
    <2>2. i + 1 \in 1 .. n /\ q[i + 1].kind = "output"
      BY <1>1, <1>9
    <2>3. g[(i + 1) - 1] < g[i + 1]
      BY <1>2, <2>2
    <2>4. h[i - 1] = g[(i - 1) + 1] /\ h[i] = g[i + 1]
      BY <1>3, <2>1
    <2>5. QED BY <2>1, <2>3, <2>4
  <1> HIDE DEF h
  <1>10. QED BY <1>7, <1>8, <1>9 DEF Counts, m, rest

LEMMA CountsMore ==
  ASSUME NEW S, NEW q \in Seq(S), NEW a \in Int, NEW b \in Int, Counts(q, a, b), NEW c \in Int, b <= c
  PROVE  /\ Counts(q, a, c)
         /\ \A x \in S : b < c \/ x.kind # "output" => Counts(Append(q, x), a, c)
  <1> DEFINE n == Len(q)
  <1>1. n \in Nat
    OBVIOUS
  <1>2. PICK g \in [0 .. n -> a .. b] :
          /\ \A i, j \in 0 .. n : i <= j => g[i] <= g[j]
          /\ \A i \in 1 .. n : q[i].kind = "output" => g[i - 1] < g[i]
    BY DEF Counts
  <1>3. \A i \in 0 .. n : g[i] \in a .. b /\ g[i] \in a .. c
    BY <1>2
  <1>4. Counts(q, a, c)
    <2>1. g \in [0 .. n -> a .. c]
      BY <1>2, <1>3
    <2>2. QED BY <1>2, <2>1 DEF Counts
  <1>5. ASSUME NEW x \in S, b < c \/ x.kind # "output" PROVE Counts(Append(q, x), a, c)
    <2> DEFINE p == Append(q, x)
               h == [i \in 0 .. n + 1 |-> IF i = n + 1 THEN c ELSE g[i]]
    <2>1. /\ Len(p) = n + 1 /\ p[n + 1] = x /\ \A i \in 1 .. n : p[i] = q[i]
          /\ \A i \in 1 .. n + 1 : i \in 1 .. n \/ i = n + 1
      BY AppendIsLonger
    <2>2. 0 \in 0 .. n
      BY <1>1
    <2>3. a <= c
      BY <1>3, <2>2
    <2> HIDE DEF n
    <2>4. h[n + 1] = c /\ \A i \in 0 .. n : h[i] = g[i]
      BY <1>1
    <2>5. \A i \in 0 .. n + 1 : i \in 0 .. n \/ i = n + 1
      BY <1>1
    <2>6. h \in [0 .. n + 1 -> a .. c]
      BY <1>1, <1>3, <2>3, <2>5
    <2> HIDE DEF h, p
    <2>7. ASSUME NEW i \in 0 .. n + 1, NEW j \in 0 .. n + 1, i <= j PROVE h[i] <= h[j]
      <3>1. CASE j = n + 1
        BY <2>3, <2>4, <2>6, <3>1
      <3>2. CASE j # n + 1
        <4>1. i \in 0 .. n /\ j \in 0 .. n
          BY <1>1, <2>7, <3>2
        <4>2. QED BY <1>2, <2>4, <2>7, <4>1
      <3>3. QED BY <3>1, <3>2
    <2>8. ASSUME NEW i \in 1 .. n + 1, p[i].kind = "output" PROVE h[i - 1] < h[i]
      <3>1. CASE i = n + 1
        <4>1. b < c /\ i - 1 = n /\ n \in 0 .. n
          BY <1>1, <1>5, <2>1, <2>8, <3>1
        <4>2. h[i - 1] = g[n] /\ g[n] \in a .. b /\ h[i] = c
          BY <1>3, <2>4, <3>1, <4>1
        <4>3. QED BY <4>1, <4>2
      <3>2. CASE i # n + 1
        <4>1. i \in 1 .. n /\ i \in 0 .. n /\ i - 1 \in 0 .. n
          BY <1>1, <3>2
        <4>2. q[i].kind = "output"
          BY <2>1, <2>8, <4>1
        <4>3. QED BY <1>2, <2>4, <4>1, <4>2
      <3>3. QED BY <3>1, <3>2
    <2>9. QED BY <2>1, <2>6, <2>7, <2>8 DEF Counts, p
  <1>6. QED BY <1>4, <1>5

\* What each of the actions of AppThread does to the posts and the count.
LEMMA NothingPrinted ==
  /\ Printing(<<>>) = 0 /\ \A t : PrintsFirst(t, <<>>)
  /\ \A posts : Printing(posts) \in {0, 1}
  BY DEF Printing, PrintsFirst

LEMMA PlainPrints ==
  ASSUME NEW t, NEW a, NEW u, a = "output" => t = BACKEND
  PROVE  /\ PrintsFirst(t, <<To(u, Plain(a))>>)
         /\ Printing(<<To(u, Plain(a))>>) = IF a = "output" THEN 1 ELSE 0
  <1>1. To(u, Plain(a)).task.kind = a
    BY ClosureKinds
  <1>2. QED BY <1>1 DEF PrintsFirst, Printing

LEMMA OtherPrints ==
  ASSUME NEW t, NEW u, NEW w, NEW c, NEW d, c.kind # "output", d.kind # "output"
  PROVE  /\ PrintsFirst(t, <<To(u, c)>>) /\ PrintsFirst(t, <<To(u, c), To(w, d)>>)
         /\ Printing(<<To(u, c)>>) = 0 /\ Printing(<<To(u, c), To(w, d)>>) = 0
  <1>1. To(u, c).task = c /\ To(w, d).task = d
    BY ClosureKinds
  <1> DEFINE x == To(u, c)
             y == To(w, d)
  <1> HIDE DEF x, y
  <1>2. x.task.kind # "output" /\ y.task.kind # "output"
    BY <1>1 DEF x, y
  <1>3. /\ PrintsFirst(t, <<x>>) /\ PrintsFirst(t, <<x, y>>)
        /\ Printing(<<x>>) = 0 /\ Printing(<<x, y>>) = 0
    BY <1>2 DEF PrintsFirst, Printing
  <1>4. QED BY <1>3 DEF x, y

LEMMA StopPostsPrint == PrintsFirst(UI, StopPosts) /\ Printing(StopPosts) = 0
  BY StopPostsPlain DEF PrintsFirst, Printing

LEMMA NewPosts ==
  ASSUME ClosuresInv, PrintInv, NEW t \in IDs, NEW posts, PrintsFirst(t, posts),
         outbox' = [outbox EXCEPT ![t] = posts]
  PROVE  PrintInv'
  <1>1. \A u \in IDs : outbox'[u] = IF u = t THEN posts ELSE outbox[u]
    BY DEF ClosuresInv
  <1>2. QED BY <1>1 DEF PrintInv, PrintsFirst

OutputIs(lines, posted, q, posts) ==
  /\ output' = [lines |-> output'.lines, scroll |-> output'.scroll] /\ output'.lines = lines
  /\ outputs' = posted /\ outputs' \in Nat /\ outputs' <= MaxOutputs
  /\ queue'[UI] = q /\ outbox'[BACKEND] = posts

LEMMA OutputCounted ==
  ASSUME NEW lines, NEW posted, NEW q, NEW posts, OutputIs(lines, posted, q, posts),
         lines \in Nat, Counts(q, lines, posted - Printing(posts))
  PROVE  OutputInv'
  <1>1. Printing(posts) = Printing(outbox'[BACKEND])
    BY DEF OutputIs
  <1>2. Printing(outbox'[BACKEND]) = Printing(outbox[BACKEND])'
    BY DEF Printing
  <1>3. Counts(queue'[UI], output'.lines, outputs' - Printing(outbox[BACKEND])')
    BY <1>1, <1>2 DEF OutputIs
  <1>4. Counts(queue[UI], output.lines, outputs - Printing(outbox[BACKEND]))'
    BY <1>3 DEF Counts
  <1>5. QED BY <1>4 DEF OutputInv, OutputIs

\* Nothing is printed and nothing shown.
LEMMA SameCount ==
  ASSUME OutputInv, NEW s, output' = output \/ output' = [output EXCEPT !.scroll = s],
         UNCHANGED outputs, queue'[UI] = queue[UI], Printing(outbox'[BACKEND]) = Printing(outbox[BACKEND])
  PROVE  OutputInv'
  <1>1. output' = [lines |-> output'.lines, scroll |-> output'.scroll] /\ output'.lines = output.lines
    BY DEF OutputInv
  <1>2. OutputIs(output.lines, outputs, queue[UI], outbox'[BACKEND])
    BY <1>1 DEF OutputIs, OutputInv
  <1>3. QED BY <1>2, OutputCounted DEF OutputInv

LEMMA MessageCount ==
  ASSUME ClosuresInv, PrintInv, OutputInv, NEW t \in IDs, NEW posts, PrintsFirst(t, posts), RunMessage(t, posts),
         Printing(posts) = 0, NEW s, output' = output \/ output' = [output EXCEPT !.scroll = s], UNCHANGED outputs
  PROVE  PrintInv' /\ OutputInv'
  <1>1. queue' = queue /\ outbox[t] = <<>> /\ outbox' = [outbox EXCEPT ![t] = posts]
    BY DEF RunMessage, Free
  <1>2. PrintInv'
    BY <1>1, NewPosts
  <1>3. outbox'[BACKEND] = IF t = BACKEND THEN posts ELSE outbox[BACKEND]
    BY <1>1, FourThreads DEF ClosuresInv
  <1>4. Printing(outbox'[BACKEND]) = Printing(outbox[BACKEND])
    BY <1>1, <1>3, NothingPrinted
  <1>5. QED BY <1>1, <1>2, <1>4, SameCount

LEMMA PrintCount ==
  ASSUME ClosuresInv, PrintInv, OutputInv, GdbPrints
  PROVE  PrintInv' /\ OutputInv'
  <1> DEFINE kind == IF core = "create" THEN "lost" ELSE "output"
             posts == <<To(UI, Plain(kind))>>
  <1>1. RunMessage(BACKEND, posts) /\ UNCHANGED output /\ outputs' = outputs + 1 /\ outputs < MaxOutputs
    BY DEF GdbPrints, viewVars
  <1>2. PrintsFirst(BACKEND, posts) /\ Printing(posts) \in {0, 1}
    BY PlainPrints, NothingPrinted
  <1> HIDE DEF kind, posts
  <1>3. queue' = queue /\ outbox[BACKEND] = <<>> /\ outbox' = [outbox EXCEPT ![BACKEND] = posts]
    BY <1>1 DEF RunMessage, Free
  <1>4. PrintInv'
    BY <1>2, <1>3, FourThreads, NewPosts
  <1>5. outbox'[BACKEND] = posts
    BY <1>3, FourThreads DEF ClosuresInv
  <1>6. /\ outputs \in Nat /\ MaxOutputs \in Nat /\ output.lines \in Nat /\ Counts(queue[UI], output.lines, outputs - 0)
        /\ queue[UI] \in Seq(Closures)
    BY <1>3, NothingPrinted, TheQueues, ApplicationAssumption DEF OutputInv
  <1>7. /\ outputs + 1 \in Nat /\ outputs + 1 <= MaxOutputs
        /\ (outputs + 1) - Printing(posts) \in Int /\ outputs - 0 <= (outputs + 1) - Printing(posts) /\ outputs - 0 \in Int
    BY <1>1, <1>2, <1>6
  <1>8. OutputIs(output.lines, outputs + 1, queue[UI], posts)
    BY <1>1, <1>3, <1>5, <1>7 DEF OutputIs, OutputInv
  <1>9. Counts(queue[UI], output.lines, (outputs + 1) - Printing(posts))
    BY <1>6, <1>7, CountsMore
  <1>10. QED BY <1>4, <1>6, <1>8, <1>9, OutputCounted

\* A task of the UI thread: one that shows a line is the next to be counted.
LEMMA UITaskCount ==
  ASSUME ClosuresInv, PrintInv, OutputInv, NEW posts, PrintsFirst(UI, posts), RunTask(UI, posts, <<>>), UNCHANGED outputs,
         \/ UNCHANGED output
         \/ Head(queue[UI]).kind = "output" /\ output'.lines = output.lines + 1
            /\ output' = [lines |-> output'.lines, scroll |-> output'.scroll]
  PROVE  PrintInv' /\ OutputInv'
  <1> DEFINE ui == queue[UI]
             b == outputs - Printing(outbox[BACKEND])
  <1>1. outbox' = [outbox EXCEPT ![UI] = posts] /\ ui # <<>> /\ queue'[UI] = Tail(ui) /\ ui \in Seq(Closures)
    BY FourThreads DEF RunTask, ClosuresInv
  <1>2. PrintInv'
    BY <1>1, FourThreads, NewPosts
  <1>3. outbox'[BACKEND] = outbox[BACKEND]
    BY <1>1, FourThreads DEF ClosuresInv
  <1>4. output.lines \in Nat /\ outputs \in Nat /\ b \in Int /\ Counts(ui, output.lines, b)
    BY NothingPrinted DEF OutputInv
  <1> DEFINE c == output'.lines
  <1>5. /\ output' = [lines |-> output'.lines, scroll |-> output'.scroll]
        /\ c \in Nat /\ (c <= output.lines \/ (Head(ui).kind = "output" /\ c = output.lines + 1))
    BY <1>4 DEF OutputInv
  <1> HIDE DEF ui, b, c
  <1>6. Counts(Tail(ui), c, b)
    BY <1>1, <1>4, <1>5, CountsTail
  <1>7. OutputIs(c, outputs, Tail(ui), outbox[BACKEND])
    BY <1>1, <1>3, <1>5 DEF OutputIs, OutputInv, c
  <1>8. OutputInv'
    BY <1>5, <1>6, <1>7, OutputCounted DEF b
  <1>9. QED BY <1>2, <1>8

\* A task of another thread.
LEMMA ReplyCount ==
  ASSUME ClosuresInv, PrintInv, OutputInv, NEW t \in IDs, t # UI, NEW replies, RunTask(t, <<>>, replies),
         replies = <<>> \/ \E c \in Closures : c.kind # "output" /\ replies = <<c>>, UNCHANGED <<output, outputs>>
  PROVE  PrintInv' /\ OutputInv'
  <1> DEFINE ui == queue[UI]
             b == outputs - Printing(outbox[BACKEND])
  <1>1. /\ outbox[t] = <<>> /\ outbox' = [outbox EXCEPT ![t] = <<>>] /\ ui \in Seq(Closures)
        /\ queue' = [queue EXCEPT ![t] = Tail(queue[t]), ![UI] = ui \o replies]
    BY TheQueues DEF RunTask, ClosuresInv
  <1>2. PrintInv'
    BY <1>1, NothingPrinted, NewPosts
  <1>3. outbox'[BACKEND] = outbox[BACKEND]
    BY <1>1, FourThreads DEF ClosuresInv
  <1>4. queue'[UI] = ui \o replies
    BY <1>1, FourThreads DEF ClosuresInv
  <1>5. output.lines \in Nat /\ outputs \in Nat /\ b \in Int /\ Counts(ui, output.lines, b)
    BY NothingPrinted DEF OutputInv
  <1> HIDE DEF ui, b
  <1>6. Counts(ui \o replies, output.lines, b)
    <2>1. CASE replies = <<>>
      BY <1>1, <1>5, <2>1, ConcatEmptySeq
    <2>2. CASE \E c \in Closures : c.kind # "output" /\ replies = <<c>>
      <3>1. PICK c \in Closures : c.kind # "output" /\ replies = <<c>>
        BY <2>2
      <3>2. ui \o <<c>> = Append(ui, c)
        BY <1>1, AppendIsConcat
      <3>3. b <= b
        BY <1>5
      <3>4. Counts(Append(ui, c), output.lines, b)
        BY <1>1, <1>5, <3>1, <3>3, CountsMore
      <3>5. QED BY <3>1, <3>2, <3>4
    <2>3. QED BY <2>1, <2>2
  <1>7. OutputIs(output.lines, outputs, ui \o replies, outbox[BACKEND])
    BY <1>3, <1>4 DEF OutputIs, OutputInv
  <1>8. OutputInv'
    BY <1>5, <1>6, <1>7, OutputCounted DEF b
  <1>9. QED BY <1>2, <1>8

LEMMA HelperCount ==
  ASSUME Inv, ClosuresInv, PrintInv, OutputInv, NEW t \in IDs, Helper(t)
  PROVE  PrintInv' /\ OutputInv'
  <1>1. PostTaskHelper(t) /\ UNCHANGED <<output, outputs>>
    BY DEF Helper, appVars, viewVars, boundVars
  <1>2. CASE ~Deliver(t)
    <2>1. UNCHANGED <<queue, outbox>>
      BY <1>1, <1>2 DEF PostTaskHelper, BeginPost, Scan, Acquire, ReadLoop
    <2>2. PrintInv'
      BY <2>1 DEF PrintInv, PrintsFirst
    <2>3. QED BY <1>1, <2>1, <2>2, SameCount
  <1>3. CASE Deliver(t)
    <2> DEFINE posts == outbox[t]
               x == Head(posts).task
               rest == Tail(posts)
               ui == queue[UI]
               b == outputs - Printing(outbox[BACKEND])
               c == outputs - Printing(outbox'[BACKEND])
    <2>1. posts # <<>> /\ posts \in Seq(ProgramPosts) /\ outbox' = [outbox EXCEPT ![t] = rest] /\ PrintsFirst(t, posts)
      BY <1>3 DEF Deliver, Inv, Posting, ClosuresInv, PrintInv
    <2>2. ui \in Seq(Closures) /\ outbox'[BACKEND] = IF t = BACKEND THEN rest ELSE outbox[BACKEND]
      BY <2>1, TheQueues, FourThreads DEF ClosuresInv
    <2>3. output.lines \in Nat /\ outputs \in Nat /\ b \in Int /\ c \in Int /\ Counts(ui, output.lines, b)
      BY NothingPrinted DEF OutputInv
    <2>4. Head(posts) \in ProgramPosts /\ x \in Closures /\ Head(posts).to \in IDs
      <3>1. Head(posts) \in ProgramPosts
        BY <2>1, HeadTailProperties
      <3>2. QED BY <3>1 DEF ProgramPosts
    <2>5. queue'[UI] = ui \/ queue'[UI] = Append(ui, x)
      BY <1>3, <2>4, FourThreads DEF Deliver, Target, ClosuresInv
    <2>6. /\ Head(posts) = posts[1] /\ 1 \in 1 .. Len(posts)
          /\ \A i \in 1 .. Len(rest) : rest[i] = posts[i + 1] /\ i + 1 \in 1 .. Len(posts)
          /\ rest \in Seq(ProgramPosts)
      BY <2>1, TailIsShifted
    <2> HIDE DEF posts, rest, ui
    <2>7. \A i \in 1 .. Len(rest) : rest[i].task.kind # "output"
      <3>1. ASSUME NEW i \in 1 .. Len(rest) PROVE rest[i].task.kind # "output"
        <4>1. i + 1 # 1
          BY <2>6
        <4>2. QED BY <2>1, <2>6, <4>1 DEF PrintsFirst
      <3>2. QED BY <3>1
    <2>8. PrintsFirst(t, rest) /\ Printing(rest) = 0
      <3>1. rest # <<>> => 1 \in 1 .. Len(rest)
        BY <2>6
      <3>2. QED BY <2>7, <3>1 DEF PrintsFirst, Printing
    <2>9. PrintInv'
      BY <2>1, <2>8, NewPosts
    <2>10. b <= c /\ (b < c \/ x.kind # "output")
      <3>1. CASE t = BACKEND
        <4>1. b = outputs - Printing(posts) /\ c = outputs - 0
          BY <2>2, <2>8, <3>1 DEF posts
        <4>2. x.kind = "output" => Printing(posts) = 1
          BY <2>1, <2>6 DEF Printing
        <4>3. Printing(posts) \in {0, 1}
          BY NothingPrinted
        <4> HIDE DEF b, c, x
        <4>4. QED BY <2>3, <4>1, <4>2, <4>3
      <3>2. CASE t # BACKEND
        <4>1. b = c
          BY <2>2, <3>2
        <4>2. x.kind # "output"
          BY <2>1, <2>6, <3>2 DEF PrintsFirst
        <4> HIDE DEF b, c, x
        <4>3. QED BY <2>3, <4>1, <4>2
      <3>3. QED BY <3>1, <3>2
    <2> HIDE DEF x, b
    <2>11. Counts(queue'[UI], output.lines, c)
      <3> HIDE DEF c
      <3>1. output.lines \in Int
        BY <2>3
      <3>2. Counts(ui, output.lines, c) /\ (b < c \/ x.kind # "output" => Counts(Append(ui, x), output.lines, c))
        BY <2>2, <2>3, <2>4, <2>10, <3>1, CountsMore
      <3>3. QED BY <2>5, <2>10, <3>2
    <2>12. OutputIs(output.lines, outputs, queue'[UI], outbox'[BACKEND])
      BY <1>1 DEF OutputIs, OutputInv
    <2>13. OutputInv'
      BY <2>3, <2>11, <2>12, OutputCounted
    <2>14. QED BY <2>9, <2>13
  <1>4. QED BY <1>2, <1>3

LEMMA OutputStep ==
  ASSUME Inv, ProgramInv, PrintInv, OutputInv, [Next]_vars
  PROVE  PrintInv' /\ OutputInv'
  <1> USE FourThreads
  <1>0. ClosuresInv
    BY DEF ProgramInv
  <1>1. ASSUME UNCHANGED <<queue, outbox, output, outputs>> PROVE PrintInv' /\ OutputInv'
    <2>1. PrintInv'
      BY <1>1 DEF PrintInv, PrintsFirst
    <2>2. QED BY <1>1, <2>1, SameCount
  <1>2. ASSUME NEW posts, PrintsFirst(UI, posts), Printing(posts) = 0,
               RunMessage(UI, posts) \/ (RunTask(UI, posts, <<>>) /\ UNCHANGED output),
               NEW s, output' = output \/ output' = [output EXCEPT !.scroll = s], UNCHANGED outputs
        PROVE  PrintInv' /\ OutputInv'
    BY <1>0, <1>2, MessageCount, UITaskCount
  <1>3. CASE MainThread
    <2>1. CASE MainMessageLoopStart \/ (\E id \in IDs : CreateThread(id) \/ ShutdownThread(id)) \/ DestroyApplication \/ CallThroughNull
      BY <1>1, <2>1 DEF MainMessageLoopStart, CreateThread, ShutdownThread, DestroyApplication, CallThroughNull,
           StartMain, Initialize, StartWithOptions, Stop, Joined, threadVars, appVars, viewVars, boundVars
    <2>2. CASE DestroyMainLoop
      <3>1. outbox' = outbox /\ queue' = [queue EXCEPT ![UI] = <<>>] /\ UNCHANGED <<output, outputs>>
        BY <2>2 DEF DestroyMainLoop, EndMain, viewVars, boundVars
      <3>2. PrintInv'
        BY <3>1 DEF PrintInv, PrintsFirst
      <3>3. queue'[UI] = <<>>
        BY <1>0, <3>1 DEF ClosuresInv
      <3> DEFINE b == outputs - Printing(outbox[BACKEND])
      <3>4. b \in Int /\ output.lines \in Nat /\ Counts(queue[UI], output.lines, b)
        BY NothingPrinted DEF OutputInv
      <3> HIDE DEF b
      <3>5. queue[UI] \in Seq(Closures)
        BY <1>0, TheQueues
      <3>6. output.lines <= b
        BY <3>4, <3>5, CountsBounds
      <3>7. Counts(<<>>, output.lines, b)
        BY <3>4, <3>6, CountsNothing
      <3>8. OutputIs(output.lines, outputs, <<>>, outbox[BACKEND])
        BY <3>1, <3>3 DEF OutputIs, OutputInv
      <3>9. OutputInv'
        BY <3>4, <3>7, <3>8, OutputCounted DEF b
      <3>10. QED BY <3>2, <3>9
    <2>3. CASE CreateApplication
      <3>1. RunMessage(UI, <<To(FILE, Task("highlight", text, Empty)), To(BACKEND, Plain("create"))>>)
            /\ UNCHANGED <<output, outputs>>
        BY <2>3 DEF CreateApplication, boundVars
      <3>2. Task("highlight", text, Empty).kind # "output" /\ Plain("create").kind # "output"
        BY ClosureKinds
      <3>3. QED BY <1>2, <3>1, <3>2, OtherPrints
    <2>4. CASE ConnectDebugCore
      <3>1. RunTask(UI, <<To(BACKEND, Plain("notify")), To(BACKEND, Plain("load"))>>, <<>>) /\ UNCHANGED <<output, outputs>>
        BY <2>4 DEF ConnectDebugCore, UIRuns, viewVars, boundVars
      <3>2. Plain("notify").kind # "output" /\ Plain("load").kind # "output"
        BY ClosureKinds
      <3>3. QED BY <1>2, <3>1, <3>2, OtherPrints
    <2>5. CASE OnStoppedAtBreakpoint
      <3>1. RunTask(UI, StopPosts, <<>>) /\ UNCHANGED <<output, outputs>>
        BY <2>5 DEF OnStoppedAtBreakpoint, UIRuns, boundVars, StopPosts
      <3>2. QED BY <1>2, <3>1, StopPostsPrint
    <2>6. CASE FileLoadCompleted
      <3> DEFINE c == Task("highlight", Head(queue[UI]).text, Empty)
      <3>1. RunTask(UI, <<To(FILE, c)>>, <<>>) /\ UNCHANGED <<output, outputs>>
        BY <2>6 DEF FileLoadCompleted, UIRuns, boundVars
      <3>2. c.kind # "output"
        BY ClosureKinds
      <3> HIDE DEF c
      <3>3. QED BY <1>2, <3>1, <3>2, OtherPrints
    <2>7. CASE CommitAfterHighlight
      <3>1. RunTask(UI, <<>>, <<>>) /\ UNCHANGED <<output, outputs>>
        BY <2>7 DEF CommitAfterHighlight, UIRuns, boundVars
      <3>2. QED BY <1>2, <3>1, NothingPrinted
    <2>8. CASE AddText
      <3>1. /\ RunTask(UI, <<>>, <<>>) /\ UNCHANGED outputs /\ Head(queue[UI]).kind = "output" /\ output' = Added(1)
        BY <2>8 DEF AddText, UIRuns, First, boundVars
      <3>2. output'.lines = output.lines + 1 /\ output' = [lines |-> output'.lines, scroll |-> output'.scroll]
        <4> DEFINE longer == [output EXCEPT !.lines = @ + 1]
        <4>1. longer = [lines |-> output.lines + 1, scroll |-> output.scroll]
          BY DEF OutputInv
        <4> HIDE DEF longer
        <4>2. \E s : output' = longer \/ output' = [longer EXCEPT !.scroll = s]
          BY <3>1 DEF Added, longer
        <4>3. QED BY <4>1, <4>2
      <3>3. QED BY <1>0, <3>1, <3>2, NothingPrinted, UITaskCount
    <2>9. CASE Paint
      <3>1. RunMessage(UI, <<>>) /\ output' = [output EXCEPT !.scroll = Update(output.scroll)] /\ UNCHANGED outputs
        BY <2>9 DEF Paint, Render, boundVars
      <3>2. QED BY <1>2, <3>1, NothingPrinted
    <2>10. QED BY <1>3, <2>1, <2>2, <2>3, <2>4, <2>5, <2>6, <2>7, <2>8, <2>9 DEF MainThread
  <1>4. CASE OtherThreads
    <2>1. UNCHANGED <<output, outputs>>
      BY <1>4 DEF OtherThreads, ReadFileOnFILE, HighlightOnFILE, Create, BackendRuns, Quits, appVars, viewVars, boundVars
    <2>2. CASE UNCHANGED threadVars \/ \E t \in IDs : Quits(t)
      BY <1>1, <2>1, <2>2 DEF Quits, Quit, threadVars
    <2>3. CASE \E t \in {FILE, BACKEND} : \E replies :
                 RunTask(t, <<>>, replies) /\ (replies = <<>> \/ \E c \in Closures : c.kind # "output" /\ replies = <<c>>)
      BY <1>0, <2>1, <2>3, ReplyCount
    <2>4. \A kind \in Kinds : Plain(kind) \in Closures /\ Plain(kind).kind = kind
      BY PlainClosure, ClosureKinds
    <2>5. CASE ReadFileOnFILE
      <3>1. Plain("loaded") \in Closures /\ Plain("loaded").kind # "output"
        BY <2>4 DEF Kinds
      <3>2. QED BY <2>3, <2>5, <3>1 DEF ReadFileOnFILE
    <2>6. CASE HighlightOnFILE
      <3>1. PICK h \in Highlighted : h.ends /\ RunTask(FILE, <<>>, <<Task("commit", h.text, h.lines)>>)
        BY <2>6 DEF HighlightOnFILE
      <3> DEFINE c == Task("commit", h.text, h.lines)
      <3>2. c \in Closures /\ c.kind # "output"
        BY <3>1, CommitClosure, ClosureKinds
      <3> HIDE DEF c
      <3>3. RunTask(FILE, <<>>, <<c>>)
        BY <3>1 DEF c
      <3>4. QED BY <2>3, <3>2, <3>3
    <2>7. CASE Create \/ BackendRuns
      <3>1. Plain("connect") \in Closures /\ Plain("connect").kind # "output"
        BY <2>4 DEF Kinds
      <3>2. QED BY <2>2, <2>3, <2>7, <3>1 DEF Create, BackendRuns
    <2>8. QED BY <1>4, <2>2, <2>5, <2>6, <2>7 DEF OtherThreads
  <1>5. CASE \E t \in IDs : Helper(t)
    BY <1>0, <1>5, HelperCount
  <1>6. CASE UserAndGdb
    <2>1. CASE ScrollSource \/ ScrollOutput \/ Expose \/ Close
      <3>1. RunMessage(UI, <<>>) /\ UNCHANGED outputs
        BY <2>1 DEF ScrollSource, ScrollOutput, Expose, Input, Close, boundVars
      <3>2. \E s : output' = output \/ output' = [output EXCEPT !.scroll = s]
        BY <2>1 DEF ScrollSource, ScrollOutput, Expose, Close, Render, Scrolled, viewVars
      <3>3. QED BY <1>2, <3>1, <3>2, NothingPrinted
    <2>2. CASE GdbStops
      <3>1. RunMessage(BACKEND, <<To(UI, Plain("stopped"))>>) /\ UNCHANGED <<output, outputs>>
        BY <2>2 DEF GdbStops, viewVars
      <3> DEFINE posts == <<To(UI, Plain("stopped"))>>
      <3>2. PrintsFirst(BACKEND, posts) /\ Printing(posts) = 0
        BY PlainPrints
      <3> HIDE DEF posts
      <3>3. RunMessage(BACKEND, posts)
        BY <3>1 DEF posts
      <3>4. QED BY <1>0, <3>1, <3>2, <3>3, MessageCount
    <2>3. CASE GdbPrints
      BY <1>0, <2>3, PrintCount
    <2>4. QED BY <1>6, <2>1, <2>2, <2>3 DEF UserAndGdb
  <1>7. CASE UNCHANGED vars
    BY <1>1, <1>7 DEF vars, threadVars, appVars, viewVars, boundVars
  <1>8. QED BY <1>3, <1>4, <1>5, <1>6, <1>7 DEF Next, AnyThread

-----------------------------------------------------------------------------
(* Where the views are scrolled to.                                         *)
Within(s, n) ==
  /\ s \in Scrolls
  /\ s.offset \in -LineHeight .. LineHeight * n /\ s.target \in -LineHeight .. LineHeight * n
ViewsInv == Within(source.scroll, MostLines) /\ Within(output.scroll, MaxOutputs)

LEMMA LinesHeight ==
  ASSUME NEW k \in Nat, NEW n \in Nat, k <= n
  PROVE  /\ ContentSize(k) \in Nat /\ LineHeight * n \in Nat /\ ContentSize(k) <= LineHeight * n
  <1>1. n - k \in Nat /\ LineHeight \in Nat
    BY Sizes
  <1>2. LineHeight * (n - k) \in Nat /\ LineHeight * k \in Nat /\ LineHeight * n \in Nat
    <2>1. \A x, y \in Nat : x * y \in Nat
      OBVIOUS
    <2>2. QED BY <1>1, <2>1
  <1>3. LineHeight * n = LineHeight * k + LineHeight * (n - k)
    <2>1. \A x, y, z \in Int : x * (y + z) = x * y + x * z
      OBVIOUS
    <2>2. n = k + (n - k) /\ k \in Int /\ n - k \in Int /\ LineHeight \in Int
      BY <1>1
    <2>3. QED BY <2>1, <2>2
  <1>4. QED BY <1>2, <1>3 DEF ContentSize

LEMMA WithinUpdate == ASSUME NEW n \in Nat, NEW s, Within(s, n) PROVE Within(Update(s), n)
  <1> DEFINE top == LineHeight * n
  <1>1. s \in Scrolls /\ s.offset \in -LineHeight .. top /\ s.target \in -LineHeight .. top
    BY DEF Within
  <1>2. top \in Int /\ LineHeight \in Int
    BY LinesHeight, Sizes
  <1> HIDE DEF top
  <1>3. s.offset \in Int /\ s.target \in Int /\ s = [offset |-> s.offset, target |-> s.target, ticks |-> s.ticks]
    BY <1>1 DEF Scrolls
  <1>4. Nearer(s) \in -LineHeight .. top
    <2>1. /\ Nearer(s) \in Int
          /\ s.offset <= s.target => s.offset <= Nearer(s) /\ Nearer(s) <= s.target
          /\ s.target <= s.offset => s.target <= Nearer(s) /\ Nearer(s) <= s.offset
      BY <1>1, NearerBetween
    <2>2. QED BY <1>1, <1>2, <1>3, <2>1
  <1>5. Update(s) \in Scrolls
    BY <1>1, UpdateComesNearer
  <1>6. CASE Nearer(s) = s.offset
    <2>1. Update(s) = [offset |-> s.target, target |-> s.target, ticks |-> s.ticks + 1]
      BY <1>3, <1>6 DEF Update
    <2>2. QED BY <1>1, <1>5, <2>1 DEF Within, top
  <1>7. CASE Nearer(s) # s.offset
    <2>1. Update(s) = [offset |-> Nearer(s), target |-> s.target, ticks |-> 0]
      BY <1>3, <1>7 DEF Update
    <2>2. QED BY <1>1, <1>4, <1>5, <2>1 DEF Within, top
  <1>8. QED BY <1>6, <1>7

\* A move sets the target, and leaves the offset to the next picture.
Moved(s, m) == m \in Scrolls /\ m.offset = s.offset
LEMMA MovesKeepOffset ==
  ASSUME NEW s \in Scrolls, NEW content \in Nat
  PROVE  /\ \A key \in Keys : Moved(s, CommonNotifyKey(s, key, content))
         /\ \A d \in Int : Moved(s, CommonMouseWheel(s, d, content))
         /\ Moved(s, ScrollToEnd(s, content)) /\ ScrollToEnd(s, content).target \in Clamped(content)
  <1>1. ASSUME NEW u \in Scrolls
        PROVE  Moved(u, ClampScrollTarget(u, content)) /\ ClampScrollTarget(u, content).target \in Clamped(content)
    <2> DEFINE t == Lesser(content - LineHeight, Greater(0, u.target))
    <2>1. u.target \in Int /\ u.offset \in Int /\ u = [offset |-> u.offset, target |-> u.target, ticks |-> u.ticks]
      BY DEF Scrolls
    <2>2. ClampScrollTarget(u, content) = [offset |-> u.offset, target |-> t, ticks |-> 0]
      <3> HIDE DEF t
      <3> DEFINE w == [u EXCEPT !.target = t]
      <3>1. ClampScrollTarget(u, content) = [w EXCEPT !.ticks = 0]
        BY DEF ClampScrollTarget, t
      <3>2. w = [offset |-> u.offset, target |-> t, ticks |-> u.ticks]
        BY <2>1
      <3> HIDE DEF w
      <3>3. [w EXCEPT !.ticks = 0] = [offset |-> u.offset, target |-> t, ticks |-> 0]
        BY <3>2
      <3>4. QED BY <3>1, <3>3
    <2>3. t \in Clamped(content) /\ t \in Int
      BY <2>1, Sizes DEF Lesser, Greater, Clamped
    <2> HIDE DEF t
    <2>4. QED BY <2>1, <2>2, <2>3 DEF Moved, Scrolls
  <1>2. ASSUME NEW x \in Int
        PROVE  Moved(s, [s EXCEPT !.target = x]) /\ s.target \in Int
    BY DEF Scrolls, Moved
  <1>3. ASSUME NEW x \in Int
        PROVE  /\ Moved(s, ClampScrollTarget([s EXCEPT !.target = x], content))
               /\ ClampScrollTarget([s EXCEPT !.target = x], content).target \in Clamped(content)
    <2> DEFINE u == [s EXCEPT !.target = x]
    <2>1. u \in Scrolls /\ u.offset = s.offset
      BY <1>2 DEF Moved
    <2> HIDE DEF u
    <2>2. /\ Moved(s, ClampScrollTarget(u, content))
          /\ ClampScrollTarget(u, content).target \in Clamped(content)
      BY <1>1, <2>1 DEF Moved
    <2>3. QED BY <2>2 DEF u
  <1>4. ASSUME NEW x \in Int PROVE Moved(s, ScrollPixels(s, x, content))
    <2>1. s.target + x \in Int
      BY DEF Scrolls
    <2>2. QED BY <1>3, <2>1 DEF ScrollPixels
  <1>5. /\ 1 * LineHeight \in Int /\ (-1) * LineHeight \in Int
        /\ 1 * ScreenHeight - LineHeight \in Int /\ (-1) * ScreenHeight - LineHeight \in Int
        /\ content - LineHeight \in Int
    BY Sizes
  <1>6. /\ Moved(s, ScrollLines(s, 1, content)) /\ Moved(s, ScrollLines(s, -1, content))
        /\ Moved(s, ScrollPages(s, 1, content)) /\ Moved(s, ScrollPages(s, -1, content))
    BY <1>4, <1>5 DEF ScrollLines, ScrollPages
  <1>7. /\ Moved(s, ScrollToBeginning(s, content))
        /\ Moved(s, ScrollToEnd(s, content)) /\ ScrollToEnd(s, content).target \in Clamped(content)
    BY <1>3, <1>5 DEF ScrollToBeginning, ScrollToEnd
  <1>8. \A key \in Keys : Moved(s, CommonNotifyKey(s, key, content))
    BY <1>6, <1>7 DEF CommonNotifyKey, Keys
  <1>9. ASSUME NEW d \in Int PROVE Moved(s, CommonMouseWheel(s, d, content))
    <2>1. Truncated(-d, 2) \in Int
      BY DEF Truncated
    <2>2. QED BY <1>4, <2>1 DEF CommonMouseWheel
  <1>10. QED BY <1>7, <1>8, <1>9

LEMMA WithinMoved ==
  ASSUME NEW n \in Nat, NEW s, Within(s, n), NEW k \in Nat, k <= n, NEW m, Moved(s, m), m.target \in Clamped(ContentSize(k))
  PROVE  Within(m, n)
  <1>1. ContentSize(k) \in Nat /\ LineHeight * n \in Nat /\ ContentSize(k) <= LineHeight * n
    BY LinesHeight
  <1> DEFINE top == LineHeight * n
             content == ContentSize(k)
  <1> HIDE DEF top, content
  <1>2. m.target \in -LineHeight .. top
    <2>1. content \in Nat /\ top \in Nat /\ content <= top /\ m.target \in Clamped(content)
      BY <1>1 DEF top, content
    <2>2. QED BY <2>1, Sizes DEF Clamped, Greater
  <1>3. m.offset \in -LineHeight .. top
    BY DEF Within, Moved, top
  <1>4. QED BY <1>2, <1>3 DEF Within, Moved, top

LEMMA WithinScrolled ==
  ASSUME NEW n \in Nat, NEW s, Within(s, n), NEW k \in Nat, k <= n
  PROVE  /\ \A key \in Keys : Within(CommonNotifyKey(s, key, ContentSize(k)), n)
         /\ \A d \in Int : Within(CommonMouseWheel(s, d, ContentSize(k)), n)
         /\ Within(ScrollToEnd(s, ContentSize(k)), n)
  <1> DEFINE content == ContentSize(k)
  <1>1. s \in Scrolls /\ content \in Nat
    BY LinesHeight DEF Within
  <1> HIDE DEF content
  <1>2. ASSUME NEW m, Moved(s, m), m.target \in Clamped(content) PROVE Within(m, n)
    BY <1>2, WithinMoved DEF content
  <1>3. ASSUME NEW key \in Keys PROVE Within(CommonNotifyKey(s, key, content), n)
    <2>1. CommonNotifyKey(s, key, content).target \in Clamped(content)
      <3>1. 0 \in Int
        OBVIOUS
      <3>2. QED BY <1>1, <3>1, TargetStaysInText
    <2>2. QED BY <1>1, <1>2, <2>1, MovesKeepOffset
  <1>4. ASSUME NEW d \in Int PROVE Within(CommonMouseWheel(s, d, content), n)
    <2>1. CommonMouseWheel(s, d, content).target \in Clamped(content)
      <3>1. "kUp" \in Keys
        BY DEF Keys
      <3>2. QED BY <1>1, <3>1, TargetStaysInText
    <2>2. QED BY <1>1, <1>2, <2>1, MovesKeepOffset
  <1>5. Within(ScrollToEnd(s, content), n)
    BY <1>1, <1>2, MovesKeepOffset
  <1>6. QED BY <1>3, <1>4, <1>5 DEF content

LEMMA OutputBounds ==
  ASSUME ClosuresInv, OutputInv
  PROVE  /\ MaxOutputs \in Nat /\ output.lines \in Nat /\ output.lines <= MaxOutputs
         /\ queue[UI] # <<>> /\ Head(queue[UI]).kind = "output" => output.lines + 1 <= MaxOutputs
  <1> DEFINE b == outputs - Printing(outbox[BACKEND])
             a == output.lines
  <1>1. a \in Nat /\ outputs \in Nat /\ MaxOutputs \in Nat /\ b \in Int /\ Counts(queue[UI], a, b) /\ b <= MaxOutputs
    <2>1. Printing(outbox[BACKEND]) \in {0, 1}
      BY NothingPrinted
    <2>2. QED BY <2>1, ApplicationAssumption DEF OutputInv
  <1>2. queue[UI] \in Seq(Closures)
    BY TheQueues
  <1> HIDE DEF a, b
  <1>3. a <= b
    BY <1>1, <1>2, CountsBounds
  <1>4. ASSUME queue[UI] # <<>>, Head(queue[UI]).kind = "output" PROVE a + 1 <= b
    <2>1. Tail(queue[UI]) \in Seq(Closures) /\ a + 1 \in Int
      BY <1>1, <1>2, <1>4, TailIsShifted
    <2>2. Counts(Tail(queue[UI]), a + 1, b)
      BY <1>1, <1>2, <1>4, <2>1, CountsTail
    <2>3. QED BY <1>1, <2>1, <2>2, CountsBounds
  <1>5. a <= MaxOutputs
    BY <1>1, <1>3
  <1>6. ASSUME queue[UI] # <<>>, Head(queue[UI]).kind = "output" PROVE a + 1 <= MaxOutputs
    BY <1>1, <1>4, <1>6
  <1>7. QED BY <1>1, <1>5, <1>6 DEF a

\* What an input makes of a view.
LEMMA InputWithin ==
  ASSUME NEW n \in Nat, NEW k \in Nat, k <= n, NEW view, Within(view.scroll, n),
         NEW moved \in Scrolled(view, ContentSize(k))
  PROVE  \E s : moved = [view EXCEPT !.scroll = s] /\ Within(s, n)
  <1> DEFINE size == ContentSize(k)
  <1>1. /\ \A key \in Keys : Within(CommonNotifyKey(view.scroll, key, size), n)
        /\ \A d \in Int : Within(CommonMouseWheel(view.scroll, d, size), n)
    BY WithinScrolled
  <1> HIDE DEF size
  <1>2. -2 * LineHeight \in Int /\ 2 * LineHeight \in Int
    BY Sizes
  <1>3. moved \in Scrolled(view, size)
    BY DEF size
  <1>4. CASE \E key \in Keys : moved = [view EXCEPT !.scroll = CommonNotifyKey(view.scroll, key, size)]
    BY <1>1, <1>4
  <1>5. CASE \E d \in {-2 * LineHeight, 2 * LineHeight} :
               moved = [view EXCEPT !.scroll = CommonMouseWheel(view.scroll, d, size)]
    <2>1. PICK d \in Int : moved = [view EXCEPT !.scroll = CommonMouseWheel(view.scroll, d, size)]
      BY <1>2, <1>5
    <2>2. QED BY <1>1, <2>1
  <1>6. QED BY <1>3, <1>4, <1>5 DEF Scrolled

LEMMA ViewsStep ==
  ASSUME Greetings # {}, ClosuresInv, PaintInv, SourceInv, OutputInv, ViewsInv, [Next]_vars
  PROVE  ViewsInv'
  <1>1. /\ MostLines \in Nat /\ Len(source.lines) \in Nat /\ Len(source.lines) <= MostLines
        /\ MaxOutputs \in Nat /\ output.lines \in Nat /\ output.lines <= MaxOutputs
    BY LongestText, OutputBounds DEF SourceInv, ShowsLines
  <1>2. \A s : [source EXCEPT !.scroll = s].scroll = s /\ [output EXCEPT !.scroll = s].scroll = s
    BY DEF PaintInv, ViewShape, OutputInv
  <1>3. ASSUME source'.scroll = source.scroll \/ \E s : source' = [source EXCEPT !.scroll = s] /\ Within(s, MostLines),
               output'.scroll = output.scroll \/ \E s : output' = [output EXCEPT !.scroll = s] /\ Within(s, MaxOutputs)
        PROVE  ViewsInv'
    <2>1. Within(source'.scroll, MostLines) /\ Within(output'.scroll, MaxOutputs)
      BY <1>2, <1>3 DEF ViewsInv
    <2>2. QED BY <2>1 DEF ViewsInv, Within, MostLines
  <1>4. ASSUME source' = [source EXCEPT !.scroll = Update(source.scroll)],
               output' = [output EXCEPT !.scroll = Update(output.scroll)]
        PROVE  ViewsInv'
    <2>1. Within(Update(source.scroll), MostLines) /\ Within(Update(output.scroll), MaxOutputs)
      BY <1>1, WithinUpdate DEF ViewsInv
    <2>2. QED BY <1>3, <1>4, <2>1
  <1>5. CASE MainThread
    <2>1. CASE MainMessageLoopStart \/ (\E id \in IDs : CreateThread(id) \/ ShutdownThread(id))
               \/ DestroyApplication \/ CallThroughNull \/ DestroyMainLoop \/ ConnectDebugCore
      <3>1. UNCHANGED <<source, output>>
        BY <2>1 DEF MainMessageLoopStart, CreateThread, ShutdownThread, DestroyApplication, CallThroughNull, DestroyMainLoop,
             ConnectDebugCore, appVars, viewVars
      <3>2. QED BY <1>3, <3>1
    <2>2. CASE CreateApplication \/ FileLoadCompleted
      <3>1. source' = [source EXCEPT !.lines = <<Loading>>, !.from = NoText] /\ output' = output
        BY <2>2 DEF CreateApplication, SetDisplay, FileLoadCompleted, SetData
      <3>2. source'.scroll = source.scroll
        BY <3>1, NewView DEF PaintInv
      <3>3. QED BY <1>3, <3>1, <3>2
    <2>3. CASE OnStoppedAtBreakpoint
      <3>1. output' = output /\ \E line \in StopLines : source' = [source EXCEPT !.counter = line - 1]
        BY <2>3 DEF OnStoppedAtBreakpoint, SetProgramCounterLine
      <3>2. source'.scroll = source.scroll
        BY <3>1, NewView DEF PaintInv
      <3>3. QED BY <1>3, <3>1, <3>2
    <2>4. CASE CommitAfterHighlight
      <3>1. output' = output /\ source' = Committed(Head(queue[UI]))
        BY <2>4 DEF CommitAfterHighlight
      <3>2. source'.scroll = source.scroll
        BY <3>1, NewView DEF PaintInv, Committed
      <3>3. QED BY <1>3, <3>1, <3>2
    <2>5. CASE AddText
      <3>1. source' = source /\ output' = Added(1) /\ queue[UI] # <<>> /\ Head(queue[UI]).kind = "output"
        BY <2>5 DEF AddText, UIRuns, First
      <3> DEFINE n == output.lines + 1
                 longer == [output EXCEPT !.lines = @ + 1]
                 s == ScrollToEnd(output.scroll, ContentSize(n))
      <3>2. n \in Nat /\ n <= MaxOutputs
        BY <1>1, <3>1, OutputBounds
      <3>3. longer = [lines |-> n, scroll |-> output.scroll]
        BY DEF OutputInv
      <3> HIDE DEF longer, n
      <3>4. longer.lines = n /\ longer.scroll = output.scroll
        BY <3>3
      <3>5. Within(s, MaxOutputs)
        BY <1>1, <3>2, WithinScrolled DEF ViewsInv
      <3> HIDE DEF s
      <3>6. output' = longer \/ output' = [longer EXCEPT !.scroll = s]
        BY <3>1, <3>4 DEF Added, longer, s
      <3>7. output'.scroll = output.scroll \/ output'.scroll = s
        BY <3>3, <3>6
      <3>8. Within(output'.scroll, MaxOutputs) /\ Within(source'.scroll, MostLines)
        BY <3>1, <3>5, <3>7 DEF ViewsInv
      <3>9. QED BY <3>8 DEF ViewsInv, Within, MostLines
    <2>6. CASE Paint
      BY <1>4, <2>6 DEF Paint, Render
    <2>7. QED BY <1>5, <2>1, <2>2, <2>3, <2>4, <2>5, <2>6 DEF MainThread
  <1>6. CASE OtherThreads
    <2>1. UNCHANGED <<source, output>>
      BY <1>6 DEF OtherThreads, ReadFileOnFILE, HighlightOnFILE, Create, BackendRuns, Quits, appVars, viewVars
    <2>2. QED BY <1>3, <2>1
  <1>7. CASE \E t \in IDs : Helper(t)
    <2>1. UNCHANGED <<source, output>>
      BY <1>7 DEF Helper, appVars, viewVars
    <2>2. QED BY <1>3, <2>1
  <1>8. CASE UserAndGdb
    <2>1. CASE ScrollSource
      <3>1. output' = output /\ source' \in Scrolled(source, ContentSize(Len(source.lines)))
        BY <2>1 DEF ScrollSource, SourceSize
      <3>2. \E s : source' = [source EXCEPT !.scroll = s] /\ Within(s, MostLines)
        BY <1>1, <3>1, InputWithin DEF ViewsInv
      <3>3. QED BY <1>3, <3>1, <3>2
    <2>2. CASE ScrollOutput
      <3>1. source' = source /\ output' \in Scrolled(output, ContentSize(output.lines))
        BY <2>2 DEF ScrollOutput, OutputSize
      <3>2. \E s : output' = [output EXCEPT !.scroll = s] /\ Within(s, MaxOutputs)
        BY <1>1, <3>1, InputWithin DEF ViewsInv
      <3>3. QED BY <1>3, <3>1, <3>2
    <2>3. CASE Expose
      BY <1>4, <2>3 DEF Expose, Render
    <2>4. CASE Close \/ GdbStops \/ GdbPrints
      <3>1. UNCHANGED <<source, output>>
        BY <2>4 DEF Close, GdbStops, GdbPrints, viewVars
      <3>2. QED BY <1>3, <3>1
    <2>5. QED BY <1>8, <2>1, <2>2, <2>3, <2>4 DEF UserAndGdb
  <1>9. CASE UNCHANGED vars
    <2>1. UNCHANGED <<source, output>>
      BY <1>9 DEF vars, appVars, viewVars
    <2>2. QED BY <1>3, <2>1
  <1>10. QED BY <1>5, <1>6, <1>7, <1>8, <1>9 DEF Next, AnyThread

Phases == {"start", "threads", "run", "shutdown", "destroyed", "done", "crashed"}
LEMMA PhaseStep == ASSUME phase \in Phases, [Next]_vars PROVE phase' \in Phases
  <1>1. CASE MainThread
    BY <1>1 DEF MainThread, MainMessageLoopStart, CreateThread, CreateApplication, ShutdownThread, DestroyApplication, CallThroughNull,
         DestroyMainLoop, ConnectDebugCore, OnStoppedAtBreakpoint, FileLoadCompleted, CommitAfterHighlight, AddText,
         UIRuns, Paint, Phases, appVars
  <1>2. CASE OtherThreads
    BY <1>2 DEF OtherThreads, ReadFileOnFILE, HighlightOnFILE, Create, BackendRuns, Quits, appVars
  <1>3. CASE \E t \in IDs : Helper(t)
    BY <1>3 DEF Helper, appVars
  <1>4. CASE UserAndGdb
    BY <1>4 DEF UserAndGdb, ScrollSource, ScrollOutput, Expose, Input, Close, GdbStops, GdbPrints, Phases
  <1>5. CASE UNCHANGED vars
    BY <1>5 DEF vars, appVars
  <1>6. QED BY <1>1, <1>2, <1>3, <1>4, <1>5 DEF Next, AnyThread

\* The queues and outboxes hold tasks, and neither view is ever scrolled out of
\* what it has shown (scroll_helper.cc 27-80): the source view not beyond the
\* longest text, although a shorter one may be set while it moves, and the
\* output view not beyond the lines that gdb has printed, although AddText
\* scrolls to the end of what came in while others are still on their way.
THEOREM TypeOKHolds == Spec => []TypeOK
  <1> DEFINE All == /\ Greetings # {} /\ Inv /\ ProgramInv /\ PaintInv /\ SourceInv
                    /\ PrintInv /\ OutputInv /\ ViewsInv /\ phase \in Phases
  <1>1. Init => All
    <2> SUFFICES ASSUME Init PROVE All
      OBVIOUS
    <2>1. Inv /\ ProgramInv /\ Greetings # {} /\ phase \in Phases
      BY ProgramInit DEF Init, Phases
    <2>2. PaintInv
      BY DEF Init, PaintInv, ViewShape, ScrollShape, NewScroll, PictureCurrent
    <2>3. SourceInv
      BY SourceInit
    <2>4. \A t \in IDs : queue[t] = <<>> /\ outbox[t] = <<>>
      BY DEF Init, ThreadInit
    <2>5. PrintInv /\ Printing(outbox[BACKEND]) = 0
      BY <2>4, NothingPrinted, FourThreads DEF PrintInv
    <2>6. MaxOutputs \in Nat /\ MostLines \in Nat
      BY <2>1, LongestText, ApplicationAssumption
    <2>7. OutputInv
      <3>1. output = [lines |-> 0, scroll |-> NewScroll] /\ outputs = 0
        BY DEF Init
      <3>2. output = [lines |-> output.lines, scroll |-> output.scroll] /\ output.lines = 0 /\ output.lines \in Nat
        BY <3>1
      <3>3. Counts(<<>>, 0, 0)
        BY CountsNothing
      <3>4. outputs - Printing(outbox[BACKEND]) = 0 /\ outputs \in Nat /\ outputs <= MaxOutputs
        BY <2>5, <2>6, <3>1
      <3>5. queue[UI] = <<>>
        BY <2>4, FourThreads
      <3>6. QED BY <3>2, <3>3, <3>4, <3>5 DEF OutputInv
    <2>8. ViewsInv
      <3>1. ASSUME NEW n \in Nat PROVE Within(NewScroll, n)
        <4>1. 0 \in -LineHeight .. LineHeight * n
          <5>1. LineHeight * n \in Nat
            BY LinesHeight
          <5>2. QED BY <5>1, Sizes
        <4>2. NewScroll \in Scrolls /\ NewScroll.offset = 0 /\ NewScroll.target = 0
          BY Sizes DEF NewScroll, Scrolls
        <4>3. QED BY <4>1, <4>2 DEF Within
      <3>2. source.scroll = NewScroll /\ output.scroll = NewScroll
        BY DEF Init
      <3>3. QED BY <2>6, <3>1, <3>2 DEF ViewsInv
    <2>9. QED BY <2>1, <2>2, <2>3, <2>5, <2>7, <2>8
  <1>2. All /\ [Next]_vars => All'
    <2> SUFFICES ASSUME All, [Next]_vars PROVE All'
      OBVIOUS
    <2>1. Inv' /\ ProgramInv' /\ PaintInv'
      BY ProgramNextInv, PaintStep
    <2>2. ClosuresInv
      BY DEF ProgramInv
    <2>3. SourceInv' /\ PrintInv' /\ OutputInv'
      BY <2>2, SourceStep, OutputStep
    <2>4. ViewsInv' /\ phase' \in Phases
      BY <2>2, ViewsStep, PhaseStep
    <2>5. QED BY <2>1, <2>3, <2>4
  <1>3. All => TypeOK
    <2> SUFFICES ASSUME All PROVE TypeOK
      OBVIOUS
    <2>1. ClosuresInv /\ paints \in Nat /\ phase \in Phases
      BY DEF ProgramInv, PaintInv
    <2>2. \A t \in IDs : queue[t] \in Seq(Tasks) /\ outbox[t] \in Seq(Posts)
      BY <2>1, TypedPosts DEF ClosuresInv
    <2>3. ASSUME NEW s, NEW n, Within(s, n) PROVE ScrollOK(s, n)
      BY <2>3 DEF Within, Scrolls, ScrollOK
    <2>4. QED BY <2>1, <2>2, <2>3 DEF ViewsInv, Phases, TypeOK
  <1>4. QED BY <1>1, <1>2, <1>3, PTL DEF Spec
=============================================================================
