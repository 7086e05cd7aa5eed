------------------------- MODULE ReaderWriterProofs -------------------------
(***************************************************************************)
(* Theorems about ReaderWriter for every set of requests and every bound.  *)
(***************************************************************************)
EXTENDS ReaderWriter, FiniteSetTheorems, SequenceTheorems, TLAPS

\* Short literal sequences are sequences over any set that has their elements.
LEMMA SeqOf0 == ASSUME NEW S PROVE <<>> \in Seq(S)
  OBVIOUS

LEMMA SeqOf1 == ASSUME NEW S, NEW a \in S PROVE <<a>> \in Seq(S)
  OBVIOUS

LEMMA SeqOf2 == ASSUME NEW S, NEW a \in S, NEW b \in S PROVE <<a, b>> \in Seq(S)
  OBVIOUS

\* Every method of DebugCoreGdb sends a finite sequence of operations.
LEMMA OperationsType ==
  ASSUME NEW m \in Methods
  PROVE  Operations[m] \in Seq(AllOps)
<1>1. Operations[m] \in
        {<<>>} \cup {<<op>> : op \in AllOps} \cup {<<op1, op2>> : op1, op2 \in AllOps}
  BY DEF Methods, Operations, AllOps, HandledOps, UnhandledOps
<1>2. CASE Operations[m] = <<>>
  BY <1>2, SeqOf0
<1>3. ASSUME NEW op \in AllOps, Operations[m] = <<op>>
      PROVE  Operations[m] \in Seq(AllOps)
  BY <1>3, SeqOf1
<1>4. ASSUME NEW op1 \in AllOps, NEW op2 \in AllOps, Operations[m] = <<op1, op2>>
      PROVE  Operations[m] \in Seq(AllOps)
  BY <1>4, SeqOf2
<1>5. QED
  BY ONLY <1>1, <1>2, <1>3, <1>4

\* A request becomes a finite sequence of commands, each with a token or none.
LEMMA TaggedType ==
  ASSUME NEW request \in Requests, nextToken \in Nat
  PROVE  /\ Tagged(request) \in Seq(Command)
         /\ Len(Tagged(request)) = Len(Operations[request.method])
<1> DEFINE ops == Operations[request.method]
<1>1. ops \in Seq(AllOps)
  BY RequestsAssumption, OperationsType
<1>2. /\ DOMAIN Commands(request) = 1..Len(ops)
      /\ \A k \in 1..Len(ops) : Commands(request)[k].op = ops[k]
  BY DEF Commands
<1>3. DOMAIN Tagged(request) = 1..Len(ops)
  BY <1>2 DEF Tagged
<1>4. \A k \in 1..Len(ops) : Tagged(request)[k] \in Command
  BY <1>1, <1>2 DEF Tagged, Command, NoToken
<1>5. QED
  <2>1. Tagged(request) = [k \in 1..Len(ops) |-> Tagged(request)[k]]
    BY <1>2 DEF Tagged
  <2>2. QED BY <1>1, <1>4, <2>1

\* Tokens are handed out consecutively, one per command, so the token of a
\* command says which command of its request it belongs to.
LEMMA TokensType ==
  ASSUME NEW request \in Requests, nextToken \in Nat
  PROVE  LET cmds == Tagged(request)
         IN  /\ Cardinality(TokensOf(cmds)) \in Nat
             /\ \A t \in TokensOf(cmds) : /\ t \in Nat
                                         /\ cmds[t - nextToken + 1].op \in HandledOps
<1> DEFINE cmds == Tagged(request)
           n    == Len(Operations[request.method])
<1>1. /\ n \in Nat
      /\ DOMAIN cmds = 1..n
  BY TaggedType, RequestsAssumption, OperationsType
<1>2. ASSUME NEW t \in TokensOf(cmds)
      PROVE  /\ t \in nextToken..(nextToken + n)
             /\ cmds[t - nextToken + 1].op \in HandledOps
  <2>1. PICK k \in 1..n : t = cmds[k].tok /\ t # NoToken
    BY <1>1, <1>2 DEF TokensOf
  <2>2. DOMAIN Commands(request) = 1..n
    BY <1>1 DEF Commands
  <2>3. /\ Commands(request)[k].op \in HandledOps
        /\ t = nextToken + k - 1
        /\ cmds[k].op = Commands(request)[k].op
    BY <2>1, <2>2 DEF Tagged, HasHandler
  <2>4. t - nextToken + 1 = k
    BY <2>3
  <2>5. QED BY <1>1, <2>1, <2>3, <2>4
<1>3. Cardinality(TokensOf(cmds)) \in Nat
  <2>1. TokensOf(cmds) \in SUBSET (nextToken..(nextToken + n))
    BY <1>2
  <2>2. IsFiniteSet(nextToken..(nextToken + n))
    BY <1>1, FS_Interval
  <2>3. QED BY <2>1, <2>2, FS_Subset, FS_CardinalityType
<1>4. QED BY <1>2, <1>3

\* One output of gdb is written as two pieces.
LEMMA PiecesType ==
  ASSUME NEW output \in Output
  PROVE  Pieces(<<output>>) \in Seq(Piece)
<1>1. Pieces(<<output>>) = [k \in 1..2 |-> [out |-> <<output>>[(k + 1) \div 2], end |-> k % 2 = 0]]
  BY DEF Pieces
<1>2. \A k \in 1..2 : (k + 1) \div 2 = 1
  OBVIOUS
<1>3. \A k \in 1..2 : [out |-> <<output>>[(k + 1) \div 2], end |-> k % 2 = 0] \in Piece
  BY <1>2 DEF Piece
<1>4. QED BY SMTT(60), <1>1, <1>3

-----------------------------------------------------------------------------
(* Type correctness.                                                       *)

LEMMA InitTypeOK == Init => TypeOK
<1> SUFFICES ASSUME Init PROVE TypeOK
  OBVIOUS
<1>1. [op |-> "enable-pretty-printing", tok |-> NoToken] \in Command
  BY DEF Command, AllOps, UnhandledOps, NoToken
<1>2. inWrite \in Seq(Command) /\ Len(inWrite) <= 1 /\ submitted \in Seq(Command)
  BY <1>1, SeqOf1 DEF Init
<1>3. /\ \A S : <<>> \in Seq(S)
      /\ DOMAIN handlers = {}
  BY SeqOf0 DEF Init
<1>4. QED
  BY <1>2, <1>3 DEF Init, TypeOK, IoStates

LEMMA RunRequestTypeOK ==
  ASSUME TypeOK, NEW request \in Requests, RunRequest(request)
  PROVE  TypeOK'
<1> DEFINE cmds == Tagged(request)
<1>1. cmds \in Seq(Command)
  BY TaggedType DEF TypeOK
<1>2. /\ Cardinality(TokensOf(cmds)) \in Nat
      /\ \A t \in TokensOf(cmds) : t \in Nat /\ cmds[t - nextToken + 1].op \in HandledOps
  BY TokensType DEF TypeOK
<1>3. SendStrings(cmds)
  BY DEF RunRequest
<1>4. /\ writeState' \in IoStates /\ inWrite' \in Seq(Command) /\ Len(inWrite') <= 1
      /\ pending' \in Seq(Command) /\ submitted' \in Seq(Command)
  <2>1. CASE WritePending \/ cmds = <<>>
    <3>1. /\ pending' = pending \o cmds /\ submitted' = submitted \o cmds
          /\ writeState' = writeState /\ inWrite' = inWrite
      BY <1>3, <2>1, Zenon DEF SendStrings
    <3>2. QED BY <1>1, <3>1, ConcatProperties DEF TypeOK
  <2>2. CASE ~(WritePending \/ cmds = <<>>)
    <3>1. Head(cmds) \in Command /\ Tail(cmds) \in Seq(Command)
      BY <1>1, <2>2, HeadTailProperties
    <3>2. <<Head(cmds)>> \in Seq(Command) /\ Len(<<Head(cmds)>>) = 1
      BY <3>1, SeqOf1
    <3>3. /\ pending' = pending \o Tail(cmds) /\ submitted' = submitted \o cmds
          /\ writeState' = "posted" /\ inWrite' = <<Head(cmds)>>
      BY <1>3, <2>2, Zenon DEF SendStrings
    <3>4. QED
      BY <1>1, <3>1, <3>2, <3>3, ConcatProperties DEF TypeOK, IoStates
  <2>3. QED BY <2>1, <2>2
<1>5. nextToken' \in Nat
  BY SMTT(60), <1>2 DEF RunRequest, TypeOK
<1>6. /\ DOMAIN handlers' \subseteq Nat
      /\ \A t \in DOMAIN handlers' : \E op \in HandledOps : handlers'[t] = Handler[op]
  <2>1. handlers' = [t \in DOMAIN handlers \cup TokensOf(cmds) |->
                       IF t \in TokensOf(cmds)
                       THEN Handler[cmds[t - nextToken + 1].op]
                       ELSE handlers[t]]
    BY DEF RunRequest
  <2>2. QED BY <1>2, <2>1 DEF TypeOK
<1>7. QED
  BY <1>4, <1>5, <1>6 DEF RunRequest, TypeOK, gdbVars

LEMMA CompleteWriteTypeOK == TypeOK /\ CompleteWrite => TypeOK'
<1> SUFFICES ASSUME TypeOK, CompleteWrite PROVE TypeOK'
  OBVIOUS
<1>1. /\ writeState' \in IoStates /\ inWrite' \in Seq(Command) /\ Len(inWrite') <= 1
      /\ pending' \in Seq(Command)
  <2>1. CASE pending = <<>>
    BY <2>1, SeqOf0 DEF CompleteWrite, TypeOK, IoStates
  <2>2. CASE pending # <<>>
    <3>1. Head(pending) \in Command /\ Tail(pending) \in Seq(Command)
      BY <2>2, HeadTailProperties DEF TypeOK
    <3>2. <<Head(pending)>> \in Seq(Command) /\ Len(<<Head(pending)>>) = 1
      BY <3>1, SeqOf1
    <3>3. writeState' = "posted" /\ inWrite' = <<Head(pending)>> /\ pending' = Tail(pending)
      BY <2>2, Zenon DEF CompleteWrite
    <3>4. QED BY <3>1, <3>2, <3>3 DEF IoStates
  <2>3. QED BY <2>1, <2>2
<1>2. QED
  BY <1>1 DEF TypeOK, CompleteWrite, notifyVars, gdbVars, historyVars

LEMMA DestroyTypeOK == TypeOK /\ (BeginDestroy \/ EndDestroy) => TypeOK'
<1> SUFFICES ASSUME TypeOK, BeginDestroy \/ EndDestroy PROVE TypeOK'
  OBVIOUS
<1>1. CASE BeginDestroy
  <2>1. pending' \in Seq(Command) /\ writeState' \in IoStates /\ readState' \in IoStates
    BY <1>1, SeqOf0 DEF BeginDestroy, Cancelled, TypeOK, IoStates
  <2>2. QED
    BY <1>1, <2>1 DEF BeginDestroy, TypeOK, notifyVars, gdbVars, historyVars
<1>2. CASE EndDestroy
  BY <1>2 DEF EndDestroy, TypeOK, notifyVars, gdbVars, historyVars
<1>3. QED BY <1>1, <1>2

LEMMA KernelTypeOK == TypeOK /\ (KernelWrite \/ KernelRead) => TypeOK'
<1> SUFFICES ASSUME TypeOK, KernelWrite \/ KernelRead PROVE TypeOK'
  OBVIOUS
<1>1. CASE KernelWrite
  BY <1>1 DEF TypeOK, KernelWrite, notifyVars, historyVars, IoStates
<1>2. CASE KernelRead
  <2>1. PICK k \in 1..ReadMax :
          /\ k <= Len(gdbOut)
          /\ readBuf' = SubSeq(gdbOut, 1, k)
          /\ gdbOut' = SubSeq(gdbOut, k + 1, Len(gdbOut))
    BY <1>2 DEF KernelRead
  <2>2. readBuf' \in Seq(Piece) /\ gdbOut' \in Seq(Piece)
    <3>1. k \in Int /\ k >= 1 /\ gdbOut \in Seq(Piece) /\ Len(gdbOut) \in Nat
      BY BoundsAssumption DEF TypeOK
    <3>2. \A i \in 1..Len(gdbOut) : gdbOut[i] \in Piece
      BY <3>1
    <3>3. QED BY <2>1, <3>1, <3>2, SubSeqProperties
  <2>3. QED BY <1>2, <2>2 DEF TypeOK, KernelRead, notifyVars, historyVars, IoStates
<1>3. QED BY <1>1, <1>2

LEMMA GdbTypeOK == TypeOK /\ (GdbReadCommand \/ GdbStops \/ GdbWrite) => TypeOK'
<1> SUFFICES ASSUME TypeOK, GdbReadCommand \/ GdbStops \/ GdbWrite PROVE TypeOK'
  OBVIOUS
<1>1. CASE GdbReadCommand
  <2>1. Head(gdbIn) \in Command /\ Tail(gdbIn) \in Seq(Command)
    BY <1>1, HeadTailProperties DEF TypeOK, GdbReadCommand
  <2>2. PICK class \in {"done", "error", "running"} :
          Emit(OutputOf(class, Head(gdbIn), stops))
    BY <1>1 DEF GdbReadCommand
  <2>3. OutputOf(class, Head(gdbIn), stops) \in Output
    BY <2>1, <2>2 DEF OutputOf, Output, Command, TypeOK
  <2>4. emitted' \in Seq(Output) /\ gdbRest' \in Seq(Piece)
    BY <2>2, <2>3, PiecesType DEF Emit, TypeOK
  <2>5. received' \in Seq(Command) /\ gdbIn' \in Seq(Command)
    BY <1>1, <2>1 DEF GdbReadCommand, TypeOK
  <2>6. gdbState' \in {"dead", "stopped", "running"}
    BY <1>1 DEF GdbReadCommand, TypeOK
  <2>7. QED BY <1>1, <2>4, <2>5, <2>6 DEF GdbReadCommand, TypeOK, ioVars, notifyVars
<1>2. CASE GdbStops
  <2>1. \A class \in {"stopped", "exited"} : AsyncOutput(class, stops + 1) \in Output
    BY DEF AsyncOutput, OutputOf, Output, NoToken, TypeOK
  <2>2. emitted' \in Seq(Output) /\ gdbRest' \in Seq(Piece) /\ gdbState' \in {"dead", "stopped"}
    <3>1. PICK class \in {"stopped", "exited"} : Emit(AsyncOutput(class, stops + 1))
      BY <1>2 DEF GdbStops
    <3>2. AsyncOutput(class, stops + 1) \in Output
      BY <2>1, <3>1
    <3>3. emitted' \in Seq(Output) /\ gdbRest' \in Seq(Piece)
      BY <3>1, <3>2, PiecesType DEF Emit, TypeOK
    <3>4. QED BY <1>2, <3>3 DEF GdbStops
  <2>3. QED BY SMTT(60), <1>2, <2>2 DEF GdbStops, TypeOK, ioVars, notifyVars
<1>3. CASE GdbWrite
  BY <1>3 DEF GdbWrite, TypeOK, ioVars, notifyVars, historyVars
<1>4. QED BY <1>1, <1>2, <1>3

LEMMA CompleteReadTypeOK == TypeOK /\ CompleteRead => TypeOK'
<1> SUFFICES ASSUME TypeOK, CompleteRead PROVE TypeOK'
  OBVIOUS
<1> DEFINE data == unused \o readBuf
<1>1. data \in Seq(Piece)
  BY DEF TypeOK
<1>2. readBuf' = <<>> /\ readState' \in IoStates
  BY DEF CompleteRead, NextRead, IoStates
<1>3. CASE /\ unused' = data
           /\ UNCHANGED <<frames, gotFrames, posted, failed, dispatched>>
  BY <1>1, <1>2, <1>3 DEF CompleteRead, TypeOK, gdbVars
<1>4. ASSUME NEW n \in DOMAIN data,
             unused' = After(data, n),
             SendNotifications(data[n].out),
             dispatched' = Append(dispatched, data[n].out)
      PROVE  TypeOK'
  <2> DEFINE o == data[n].out
  <2>1. o \in Output
    <3>1. data[n] \in Piece
      BY <1>1, ElementOfSeq
    <3>2. QED BY <3>1 DEF Piece
  <2>2. unused' \in Seq(Piece)
    BY <1>1, <1>4, SubSeqProperties DEF After
  <2>3. frames' \in Nat
    BY <1>4, <2>1 DEF SendNotifications, TypeOK, Output
  <2>4. gotFrames' \in BOOLEAN
    BY <1>4, ZenonT(30) DEF SendNotifications, TypeOK
  <2>5. failed' \in BOOLEAN
    BY <1>4 DEF SendNotifications, TypeOK
  <2>6. posted' \in Seq(Notification)
    <3> DEFINE handler == IF o.class = "done" /\ o.tok \in DOMAIN handlers
                          THEN handlers[o.tok] ELSE "none"
    <3>1. handler = "none" \/ \E op \in HandledOps : handler = Handler[op]
      BY DEF TypeOK
    <3>2. \/ posted' = posted
          \/ \E event \in {handler, "OnRetrievedStack", "OnStopped"}, f \in {o.at, frames} :
               /\ event # "none"
               /\ Notify(event, f, o.at)
      BY <1>4 DEF SendNotifications
    <3>3. o.at \in Nat /\ frames \in Nat /\ posted \in Seq(Notification)
      BY <2>1 DEF TypeOK, Output
    <3>4. CASE posted' = posted
      BY <3>3, <3>4
    <3>5. ASSUME NEW event \in {handler, "OnRetrievedStack", "OnStopped"},
                 NEW f \in {o.at, frames}, event # "none", Notify(event, f, o.at)
          PROVE  posted' \in Seq(Notification)
      <4>1. event \in {Handler[op] : op \in HandledOps} \cup {"OnRetrievedStack", "OnStopped"}
        BY <3>1, <3>5
      <4>2. [event |-> event, frames |-> f, args |-> o.at] \in Notification
        BY <3>3, <4>1 DEF Notification
      <4>3. QED BY <3>3, <3>5, <4>2 DEF Notify
    <3>6. QED BY <3>2, <3>4, <3>5
  <2>7. QED BY SMTT(60), <1>2, <1>4, <2>1, <2>2, <2>3, <2>4, <2>5, <2>6 DEF CompleteRead, TypeOK, gdbVars
<1>5. QED BY <1>3, <1>4 DEF CompleteRead

LEMMA TypeOKStep == TypeOK /\ [Next]_vars => TypeOK'
<1> SUFFICES ASSUME TypeOK, [Next]_vars PROVE TypeOK'
  OBVIOUS
<1>1. CASE UNCHANGED vars
  BY <1>1 DEF vars, ioVars, notifyVars, gdbVars, historyVars, TypeOK
<1>2. ASSUME NEW request \in Requests, RunRequest(request) PROVE TypeOK'
  BY <1>2, RunRequestTypeOK
<1>3. QED
  BY <1>1, <1>2, CompleteReadTypeOK, CompleteWriteTypeOK, DestroyTypeOK,
     KernelTypeOK, GdbTypeOK DEF Next

\* Every field of ReaderWriter keeps its range, the write buffer never holds
\* two commands, and handler_for_result_ only holds handlers that exist.
THEOREM TypeCorrect == Spec => []TypeOK
<1>1. QED BY InitTypeOK, TypeOKStep, PTL DEF Spec

-----------------------------------------------------------------------------
(* The order of commands.                                                  *)

\* The commands of seq are those submitted after the first n, in order.
Segment(seq, n) ==
  /\ n + Len(seq) <= Len(submitted)
  /\ \A i \in 1..Len(seq) : seq[i] = submitted[n + i]

\* The two operations and the flags that guard them.
IoInv ==
  /\ WritePending => Len(inWrite) = 1
  /\ ~WritePending => inWrite = <<>> /\ pending = <<>>
  /\ phase = "alive" => ~terminating /\ ReadPending
  /\ phase # "alive" => writeState # "posted" /\ pending = <<>>

\* Where each submitted command is: read by gdb, in its pipe, in the write
\* the kernel works on, or waiting.  From the destructor on, what is in
\* neither of the first two places is dropped.
AtGdb   == Len(received) + Len(gdbIn)

OrderInv ==
  /\ Segment(received, 0)
  /\ Segment(gdbIn, Len(received))
  /\ phase = "alive" =>
       /\ Segment(InFlight, AtGdb)
       /\ Segment(pending, AtGdb + Len(InFlight))
       /\ AtGdb + Len(InFlight) + Len(pending) = Len(submitted)

IInv == TypeOK /\ IoInv /\ OrderInv

LEMMA InitIInv == Init => IInv
<1> SUFFICES ASSUME Init PROVE IInv
  OBVIOUS
<1>1. TypeOK
  BY InitTypeOK
<1>2. IoInv
  BY DEF Init, IoInv, WritePending, ReadPending
<1>3. OrderInv
  BY DEF Init, OrderInv, Segment, InFlight, AtGdb
<1>4. QED BY <1>1, <1>2, <1>3 DEF IInv

\* What SendString does, by cases.
LEMMA SendStringsCases ==
  ASSUME NEW cmds, SendStrings(cmds)
  PROVE  /\ submitted' = submitted \o cmds
         /\ WritePending \/ cmds = <<>> =>
              /\ pending' = pending \o cmds
              /\ writeState' = writeState /\ inWrite' = inWrite
         /\ ~WritePending /\ cmds # <<>> =>
              /\ pending' = pending \o Tail(cmds)
              /\ writeState' = "posted" /\ inWrite' = <<Head(cmds)>>
  BY Zenon DEF SendStrings

LEMMA CompleteWriteCases ==
  ASSUME CompleteWrite
  PROVE  /\ pending = <<>> => writeState' = "idle" /\ inWrite' = <<>> /\ pending' = <<>>
         /\ pending # <<>> => /\ writeState' = "posted" /\ inWrite' = <<Head(pending)>>
                              /\ pending' = Tail(pending)
         /\ writeState \in {"done", "cancelled"}
  BY Zenon DEF CompleteWrite

LEMMA IoStep == ASSUME IInv, Next PROVE IoInv'
<1> USE DEF IoInv, WritePending, ReadPending
<1>1. IoInv /\ TypeOK
  BY DEF IInv
<1>2. ASSUME NEW request \in Requests, RunRequest(request) PROVE IoInv'
  <2>1. SendStrings(Tagged(request))
    BY <1>2 DEF RunRequest
  <2>2. Tagged(request) \in Seq(Command)
    BY <1>1, TaggedType DEF TypeOK
  <2>3. phase' = phase /\ terminating' = terminating /\ readState' = readState /\ phase = "alive"
    BY <1>2 DEF RunRequest
  <2>4. CASE WritePending
    BY <1>1, <2>1, <2>3, <2>4, SendStringsCases
  <2>5. CASE ~WritePending
    <3>1. CASE Tagged(request) = <<>>
      BY <1>1, <2>1, <2>3, <2>5, <3>1, SendStringsCases
    <3>2. CASE Tagged(request) # <<>>
      BY <1>1, <2>1, <2>3, <2>5, <3>2, SendStringsCases
    <3>3. QED BY <3>1, <3>2
  <2>6. QED BY <2>4, <2>5
<1>3. CASE CompleteRead
  BY <1>1, <1>3 DEF CompleteRead, NextRead
<1>4. CASE CompleteWrite
  <2>1. phase' = phase /\ terminating' = terminating /\ readState' = readState
    BY <1>4 DEF CompleteWrite
  <2>2. CASE pending = <<>>
    BY <1>1, <1>4, <2>1, <2>2, CompleteWriteCases
  <2>3. CASE pending # <<>>
    BY <1>1, <1>4, <2>1, <2>3, CompleteWriteCases
  <2>4. QED BY <2>2, <2>3
<1>5. CASE BeginDestroy
  BY <1>1, <1>5 DEF BeginDestroy, Cancelled
<1>6. CASE EndDestroy
  BY <1>1, <1>6 DEF EndDestroy
<1>7. CASE KernelRead
  BY <1>1, <1>7 DEF KernelRead
<1>8. CASE KernelWrite
  BY <1>1, <1>8 DEF KernelWrite
<1>9. CASE GdbReadCommand \/ GdbStops \/ GdbWrite
  BY <1>1, <1>9 DEF GdbReadCommand, GdbStops, GdbWrite, ioVars
<1>10. QED
  BY <1>2, <1>3, <1>4, <1>5, <1>6, <1>7, <1>8, <1>9 DEF Next

\* OrderInv holds after a step that leaves a commands at gdb, g being written.
LEMMA OrderInvNext ==
  ASSUME NEW a \in Nat, NEW g \in Seq(Command),
         AtGdb' = a, InFlight' = g,
         Segment(received, 0)', Segment(gdbIn, Len(received))',
         a + Len(g) + Len(pending') = Len(submitted'),
         a + Len(g) <= Len(submitted'),
         \A i \in 1..Len(g) : g[i] = submitted'[a + i],
         \A i \in 1..Len(pending') : pending'[i] = submitted'[a + Len(g) + i]
  PROVE  OrderInv'
  BY DEF OrderInv, Segment

\* A request is submitted behind everything that is still on its way.
LEMMA RunRequestOrder ==
  ASSUME IInv, NEW request \in Requests, RunRequest(request)
  PROVE  OrderInv'
<1> DEFINE cmds == Tagged(request)
<1>1. /\ phase = "alive" /\ phase' = phase /\ SendStrings(cmds)
      /\ received' = received /\ gdbIn' = gdbIn
  BY DEF RunRequest, gdbVars
<1>2. /\ cmds \in Seq(Command) /\ submitted \in Seq(Command) /\ pending \in Seq(Command)
      /\ received \in Seq(Command) /\ gdbIn \in Seq(Command) /\ inWrite \in Seq(Command)
  BY TaggedType DEF IInv, TypeOK
<1>3. IoInv /\ OrderInv
  BY DEF IInv
<1>4. /\ submitted' = submitted \o cmds
      /\ Len(submitted') = Len(submitted) + Len(cmds)
      /\ \A i \in 1..Len(submitted) : submitted'[i] = submitted[i]
      /\ \A i \in 1..Len(cmds) : submitted'[Len(submitted) + i] = cmds[i]
  BY <1>1, <1>2, SendStringsCases, ConcatProperties
<1> HIDE DEF cmds
<1>5. ASSUME NEW seq \in Seq(Command), NEW n \in Nat, Segment(seq, n)
      PROVE  /\ n + Len(seq) <= Len(submitted')
             /\ \A i \in 1..Len(seq) : seq[i] = submitted'[n + i]
  BY SMTT(60), <1>2, <1>4, <1>5 DEF Segment
<1> DEFINE a == AtGdb
           f == InFlight
<1>6. /\ a \in Nat /\ AtGdb' = a
      /\ f \in Seq(Command) /\ Len(f) \in Nat
      /\ Segment(f, a) /\ Segment(pending, a + Len(f))
      /\ a + Len(f) + Len(pending) = Len(submitted)
  <2>1. a \in Nat /\ AtGdb' = a
    BY <1>1, <1>2 DEF AtGdb
  <2>2. f \in Seq(Command) /\ Len(f) \in Nat
    BY <1>2 DEF InFlight
  <2>3. QED BY <1>1, <1>3, <2>1, <2>2 DEF OrderInv
<1>7. Segment(received, 0)' /\ Segment(gdbIn, Len(received))'
  <2>1. Segment(received, 0) /\ Segment(gdbIn, Len(received))
    BY <1>3 DEF OrderInv
  <2>2. 0 \in Nat /\ Len(received) \in Nat
    BY <1>2
  <2>3. /\ 0 + Len(received) <= Len(submitted')
        /\ \A i \in 1..Len(received) : received[i] = submitted'[0 + i]
    BY <1>2, <1>5, <2>1, <2>2
  <2>4. /\ Len(received) + Len(gdbIn) <= Len(submitted')
        /\ \A i \in 1..Len(gdbIn) : gdbIn[i] = submitted'[Len(received) + i]
    BY <1>2, <1>5, <2>1, <2>2
  <2>5. QED BY <1>1, <2>3, <2>4 DEF Segment
<1> HIDE DEF a, f
<1>8. a \in Nat /\ Len(f) \in Nat /\ a + Len(f) + Len(pending) = Len(submitted)
  BY <1>6
<1> Len(pending) \in Nat /\ Len(submitted) \in Nat /\ Len(cmds) \in Nat
  BY <1>2
<1>9. CASE WritePending
  <2>1. InFlight' = f /\ pending' = pending \o cmds
    BY <1>1, <1>9, SendStringsCases DEF InFlight, f
  <2>2. /\ Len(pending') = Len(pending) + Len(cmds)
        /\ \A i \in 1..Len(pending') :
             pending'[i] = IF i <= Len(pending) THEN pending[i] ELSE cmds[i - Len(pending)]
    BY <1>2, <2>1, ConcatProperties
  <2>3. \A i \in 1..Len(pending') : pending'[i] = submitted'[a + Len(f) + i]
    <3>1. ASSUME NEW i \in 1..Len(pending), i <= Len(pending)
          PROVE  pending[i] = submitted'[a + Len(f) + i]
      BY <1>2, <1>5, <1>6
    <3>2. ASSUME NEW i \in 1..Len(pending'), ~(i <= Len(pending))
          PROVE  cmds[i - Len(pending)] = submitted'[a + Len(f) + i]
      <4>1. i - Len(pending) \in 1..Len(cmds)
        BY <1>2, <2>2, <3>2
      <4>2. a + Len(f) + i = Len(submitted) + (i - Len(pending))
        <5>1. i \in Int
          BY <2>2
        <5>2. QED BY <1>6, <5>1
      <4>3. QED BY <1>4, <4>1, <4>2
    <3>3. ASSUME NEW i \in 1..Len(pending') PROVE pending'[i] = submitted'[a + Len(f) + i]
      <4>1. CASE i <= Len(pending)
        BY <2>2, <3>1, <4>1
      <4>2. CASE ~(i <= Len(pending))
        BY <2>2, <3>2, <4>2
      <4>3. QED BY <4>1, <4>2
    <3>4. QED BY <3>3
  <2>4. a + Len(f) + Len(pending') = Len(submitted')
    BY <1>4, <1>8, <2>2
  <2>5. /\ a + Len(f) <= Len(submitted')
        /\ \A i \in 1..Len(f) : f[i] = submitted'[a + i]
    BY <1>5, <1>6
  <2>6. QED BY <1>6, <1>7, <2>1, <2>3, <2>4, <2>5, OrderInvNext
<1>10. CASE ~WritePending /\ cmds = <<>>
  <2>1. InFlight' = f /\ pending' = pending /\ submitted' = submitted
    BY <1>1, <1>2, <1>4, <1>10, SendStringsCases, ConcatEmptySeq DEF InFlight, f
  <2>2. QED BY <1>6, <1>7, <2>1, OrderInvNext DEF Segment
<1>11. CASE ~WritePending /\ cmds # <<>>
  <2>1. pending = <<>> /\ f = <<>>
    BY <1>3, <1>11 DEF IoInv, WritePending, InFlight, f
  <2>2. InFlight' = <<Head(cmds)>> /\ pending' = Tail(cmds)
    BY <1>1, <1>2, <1>11, <2>1, SendStringsCases, HeadTailProperties, ConcatEmptySeq DEF InFlight
  <2>3. /\ Len(cmds) \in Nat /\ Len(cmds) > 0 /\ Head(cmds) = cmds[1]
        /\ Len(Tail(cmds)) = Len(cmds) - 1
        /\ \A i \in 1..(Len(cmds) - 1) : Tail(cmds)[i] = cmds[i + 1]
        /\ <<Head(cmds)>> \in Seq(Command)
    BY <1>2, <1>11, HeadTailProperties
  <2>4. a = Len(submitted)
    BY <1>2, <1>6, <2>1
  <2>5. \A i \in 1..(Len(cmds) - 1) : Tail(cmds)[i] = submitted'[a + 1 + i]
    <3>1. ASSUME NEW i \in 1..(Len(cmds) - 1)
          PROVE  Tail(cmds)[i] = submitted'[a + 1 + i]
      <4>1. i + 1 \in 1..Len(cmds) /\ a + 1 + i = Len(submitted) + (i + 1)
        BY <1>6, <2>4
      <4>2. QED BY <1>4, <2>3, <4>1
    <3>2. QED BY <3>1
  <2>6. /\ Len(<<Head(cmds)>>) = 1 /\ <<Head(cmds)>>[1] = submitted'[a + 1]
        /\ a + 1 <= Len(submitted') /\ a + 1 + (Len(cmds) - 1) = Len(submitted')
    BY <1>4, <2>3, <2>4
  <2> DEFINE g == <<Head(cmds)>>
  <2>7. Len(g) = 1 /\ \A i \in 1..Len(g) : i = 1
    OBVIOUS
  <2>8. /\ InFlight' = g /\ g \in Seq(Command) /\ g[1] = submitted'[a + 1]
        /\ pending' = Tail(cmds) /\ Len(pending') = Len(cmds) - 1
    BY <2>2, <2>3, <2>6
  <2> HIDE DEF g
  <2>9. /\ a + Len(g) + Len(pending') = Len(submitted') /\ a + Len(g) <= Len(submitted')
        /\ \A i \in 1..Len(g) : g[i] = submitted'[a + i]
        /\ \A i \in 1..Len(pending') : pending'[i] = submitted'[a + Len(g) + i]
    BY <2>5, <2>6, <2>7, <2>8
  <2>10. QED BY <1>6, <1>7, <2>8, <2>9, OrderInvNext
<1>12. QED BY <1>9, <1>10, <1>11

LEMMA CompleteWriteOrder == ASSUME IInv, CompleteWrite PROVE OrderInv'
<1>1. /\ phase' = phase /\ received' = received /\ gdbIn' = gdbIn /\ submitted' = submitted
  BY DEF CompleteWrite, gdbVars, historyVars
<1>2. /\ submitted \in Seq(Command) /\ pending \in Seq(Command)
      /\ received \in Seq(Command) /\ gdbIn \in Seq(Command)
  BY DEF IInv, TypeOK
<1>3. IoInv /\ OrderInv
  BY DEF IInv
<1>4. CASE pending = <<>>
  BY <1>1, <1>2, <1>3, <1>4, CompleteWriteCases DEF OrderInv, Segment, InFlight, AtGdb
<1>5. CASE pending # <<>>
  <2>1. /\ phase = "alive" /\ InFlight = <<>>
        /\ InFlight' = <<Head(pending)>> /\ pending' = Tail(pending)
    BY <1>3, <1>5, CompleteWriteCases DEF IoInv, InFlight
  <2>2. /\ Len(pending) > 0 /\ Head(pending) = pending[1] /\ Len(Tail(pending)) = Len(pending) - 1
        /\ \A i \in 1..(Len(pending) - 1) : Tail(pending)[i] = pending[i + 1]
    BY <1>2, <1>5, HeadTailProperties
  <2>3. PICK a \in Nat :
          /\ AtGdb' = a /\ a + Len(pending) = Len(submitted)
          /\ \A i \in 1..Len(pending) : pending[i] = submitted[a + i]
    BY <1>1, <1>2, <1>3, <2>1 DEF OrderInv, AtGdb, Segment
  <2>4. \A i \in 1..Len(Tail(pending)) : Tail(pending)[i] = submitted[a + 1 + i]
    BY <1>2, <2>2, <2>3
  <2>5. /\ Segment(received, 0)' /\ Segment(gdbIn, Len(received))'
    BY <1>1, <1>3 DEF OrderInv, Segment
  <2> DEFINE g == <<Head(pending)>>
  <2>6. g \in Seq(Command) /\ Len(g) = 1 /\ \A i \in 1..Len(g) : i = 1
    BY <1>2, <1>5, HeadTailProperties
  <2>7. g[1] = submitted[a + 1] /\ Len(pending) \in Nat /\ Len(submitted) \in Nat
    BY <1>2, <2>2, <2>3
  <2>8. InFlight' = g /\ pending' = Tail(pending) /\ Len(pending') = Len(pending) - 1
    BY <2>1, <2>2
  <2> HIDE DEF g
  <2>9. /\ a + Len(g) + Len(pending') = Len(submitted) /\ a + Len(g) <= Len(submitted)
        /\ \A i \in 1..Len(g) : g[i] = submitted[a + i]
        /\ \A i \in 1..Len(pending') : pending'[i] = submitted[a + Len(g) + i]
    <3>1. a + Len(g) + Len(pending') = Len(submitted) /\ a + Len(g) <= Len(submitted)
      <4>1. Len(g) = 1 /\ Len(pending') = Len(pending) - 1 /\ Len(pending) > 0
        BY <2>2, <2>6, <2>8
      <4>2. a \in Nat /\ a + Len(pending) = Len(submitted) /\ Len(pending) \in Nat
        BY <2>3, <2>7
      <4>3. QED BY <4>1, <4>2
    <3>2. \A i \in 1..Len(g) : g[i] = submitted[a + i]
      BY <2>6, <2>7
    <3>3. \A i \in 1..Len(pending') : pending'[i] = submitted[a + Len(g) + i]
      BY <2>4, <2>6, <2>8
    <3>4. QED BY <3>1, <3>2, <3>3
  <2>10. QED BY <1>1, <2>3, <2>5, <2>6, <2>8, <2>9, OrderInvNext
<1>6. QED BY <1>4, <1>5

\* The kernel moves the command being written to the end of gdb's pipe.
LEMMA KernelWriteOrder == ASSUME IInv, KernelWrite PROVE OrderInv'
<1>1. /\ phase' = phase /\ received' = received /\ submitted' = submitted
      /\ pending' = pending /\ writeState = "posted" /\ writeState' = "done"
      /\ gdbIn' = gdbIn \o inWrite
  BY DEF KernelWrite, historyVars
<1>2. /\ submitted \in Seq(Command) /\ pending \in Seq(Command) /\ inWrite \in Seq(Command)
      /\ received \in Seq(Command) /\ gdbIn \in Seq(Command)
  BY DEF IInv, TypeOK
<1>3. IoInv /\ OrderInv
  BY DEF IInv
<1>4. phase = "alive"
  BY <1>1, <1>3 DEF IoInv
<1>5. QED
  BY SMTT(60), <1>1, <1>2, <1>3, <1>4, ConcatProperties DEF OrderInv, Segment, InFlight, AtGdb

\* gdb reads the oldest command that it has not read.
LEMMA GdbReadOrder ==
  ASSUME IInv, GdbReadCommand
  PROVE  /\ OrderInv'
         /\ Len(received) < Len(submitted)
         /\ received' = Append(received, submitted[Len(received) + 1])
<1>1. /\ phase' = phase /\ submitted' = submitted /\ pending' = pending
      /\ writeState' = writeState /\ inWrite' = inWrite
      /\ gdbIn # <<>> /\ gdbIn' = Tail(gdbIn) /\ received' = Append(received, Head(gdbIn))
  BY DEF GdbReadCommand, ioVars
<1>2. /\ submitted \in Seq(Command) /\ pending \in Seq(Command) /\ inWrite \in Seq(Command)
      /\ received \in Seq(Command) /\ gdbIn \in Seq(Command)
  BY DEF IInv, TypeOK
<1>3. OrderInv
  BY DEF IInv
<1>4. /\ Len(gdbIn) > 0 /\ Head(gdbIn) = gdbIn[1] /\ Len(Tail(gdbIn)) = Len(gdbIn) - 1
      /\ \A i \in 1..(Len(gdbIn) - 1) : Tail(gdbIn)[i] = gdbIn[i + 1]
  BY <1>1, <1>2, HeadTailProperties
<1>5. Head(gdbIn) = submitted[Len(received) + 1] /\ Len(received) < Len(submitted)
  BY <1>2, <1>3, <1>4 DEF OrderInv, Segment
<1>6. Len(received') = Len(received) + 1 /\ AtGdb' = AtGdb
  BY <1>1, <1>2, <1>4 DEF AtGdb
<1>7. Segment(received, 0)' /\ Segment(gdbIn, Len(received))'
  BY <1>1, <1>2, <1>3, <1>4, <1>5, <1>6 DEF OrderInv, Segment
<1>8. InFlight' = InFlight
  BY <1>1 DEF InFlight
<1>9. OrderInv'
  BY <1>1, <1>3, <1>6, <1>7, <1>8 DEF OrderInv, Segment
<1>10. QED BY <1>1, <1>5, <1>9

\* The other steps move no command; the destructor drops what waits.
LEMMA OtherOrder ==
  ASSUME IInv,
         CompleteRead \/ BeginDestroy \/ EndDestroy \/ KernelRead \/ GdbStops \/ GdbWrite
  PROVE  OrderInv' /\ UNCHANGED <<submitted, received>>
<1>1. OrderInv
  BY DEF IInv
<1>2. CASE BeginDestroy
  BY <1>1, <1>2 DEF BeginDestroy, OrderInv, Segment, gdbVars, historyVars
<1>3. CASE EndDestroy
  BY <1>1, <1>3 DEF EndDestroy, OrderInv, Segment, gdbVars, historyVars
<1>4. CASE CompleteRead \/ KernelRead \/ GdbStops \/ GdbWrite
  BY <1>1, <1>4 DEF CompleteRead, KernelRead, GdbStops, GdbWrite, OrderInv, Segment,
     InFlight, AtGdb, ioVars, gdbVars, historyVars
<1>5. QED BY <1>2, <1>3, <1>4

LEMMA IInvStep == IInv /\ [Next]_vars => IInv'
<1> SUFFICES ASSUME IInv, [Next]_vars PROVE IInv'
  OBVIOUS
<1>1. CASE UNCHANGED vars
  BY <1>1 DEF vars, ioVars, notifyVars, gdbVars, historyVars, IInv, TypeOK, IoInv, OrderInv,
     Segment, InFlight, AtGdb, WritePending, ReadPending
<1>2. CASE Next
  <2>1. TypeOK'
    BY TypeOKStep DEF IInv
  <2>2. IoInv'
    BY <1>2, IoStep
  <2>3. OrderInv'
    BY <1>2, RunRequestOrder, CompleteWriteOrder, KernelWriteOrder, GdbReadOrder, OtherOrder
       DEF Next
  <2>4. QED BY <2>1, <2>2, <2>3 DEF IInv
<1>3. QED BY <1>1, <1>2

\* No interleaving of tasks, completions and the destructor leaves a command
\* in pending_writes_ without a pending write that will send it.
THEOREM NoStrandedWriteHolds == Spec => []NoStrandedWrite
<1>1. IInv => NoStrandedWrite
  BY DEF IInv, IoInv, NoStrandedWrite
<1>2. QED BY <1>1, InitIInv, IInvStep, PTL DEF Spec

\* A ReaderWriter that is not being destroyed always has a read queued.
THEOREM ReadAlwaysQueuedHolds == Spec => []ReadAlwaysQueued
<1>1. IInv => ReadAlwaysQueued
  BY DEF IInv, IoInv, ReadAlwaysQueued
<1>2. QED BY <1>1, InitIInv, IInvStep, PTL DEF Spec

\* The initial state and every step of ReaderWriter map to CommandChannel.
LEMMA ChannelInit == Init => Channel!Init
<1> SUFFICES ASSUME Init PROVE Channel!Init
  OBVIOUS
<1>1. submitted \in Seq(Command)
  BY InitTypeOK DEF TypeOK
<1>2. QED BY <1>1 DEF Init, Channel!Init

LEMMA ChannelStep == IInv /\ [Next]_vars => [Channel!Next]_(Channel!channelVars)
<1> SUFFICES ASSUME IInv, [Next]_vars
             PROVE  Channel!Next \/ UNCHANGED <<submitted, received>>
  BY DEF Channel!channelVars
<1>1. ASSUME NEW request \in Requests, RunRequest(request)
      PROVE  Channel!Next \/ UNCHANGED <<submitted, received>>
  <2> DEFINE cmds == Tagged(request)
  <2>1. cmds \in Seq(Command) /\ submitted \in Seq(Command)
    BY TaggedType DEF IInv, TypeOK
  <2>2. SendStrings(cmds) /\ received' = received
    BY <1>1 DEF RunRequest
  <2>3. submitted' = submitted \o cmds
    BY <2>2, SendStringsCases
  <2> HIDE DEF cmds
  <2>4. CASE cmds = <<>>
    BY <2>1, <2>2, <2>3, <2>4, ConcatEmptySeq
  <2>5. CASE cmds # <<>>
    <3>1. submitted' \in Seq(Command) /\ Len(submitted') > Len(submitted)
      BY <2>1, <2>3, <2>5, ConcatProperties, EmptySeq
    <3>2. SubSeq(submitted', 1, Len(submitted)) = submitted
      BY <2>1, <2>3, SubSeqOfConcat1, SubSeqFull
    <3>3. QED BY <2>2, <3>1, <3>2 DEF Channel!Next, Channel!Submit
  <2>6. QED BY <2>4, <2>5
<1>2. CASE CompleteWrite \/ KernelWrite
  BY <1>2 DEF CompleteWrite, KernelWrite, historyVars
<1>3. CASE GdbReadCommand
  BY <1>3, GdbReadOrder DEF GdbReadCommand, Channel!Next, Channel!Deliver
<1>4. CASE UNCHANGED vars
  BY <1>4 DEF vars, historyVars
<1>5. QED
  BY <1>1, <1>2, <1>3, <1>4, OtherOrder DEF Next

\* ReaderWriter implements CommandChannel: gdb reads exactly the commands that
\* were submitted, in that order, whatever the pipes and completions do.
THEOREM ReaderWriterIsAChannel == Spec => CommandsInOrder
<1>1. QED
  BY InitIInv, IInvStep, ChannelInit, ChannelStep, PTL DEF Spec, CommandsInOrder, Channel!Spec
-----------------------------------------------------------------------------
(* The order of outputs.                                                   *)

\* A read that the kernel has not completed has put nothing in its buffer.
BuffersInv == readState # "done" => readBuf = <<>>

\* The pieces of outputs: two for each, the body and the end.
LEMMA PiecesShape ==
  ASSUME NEW outs \in Seq(Output)
  PROVE  /\ Pieces(outs) \in Seq(Piece)
         /\ Len(Pieces(outs)) = 2 * Len(outs)
         /\ \A k \in 1..(2 * Len(outs)) :
              Pieces(outs)[k] = [out |-> outs[(k + 1) \div 2], end |-> k % 2 = 0]
<1>1. Len(outs) \in Nat /\ 2 * Len(outs) \in Nat
  OBVIOUS
<1>2. \A k \in 1..(2 * Len(outs)) : (k + 1) \div 2 \in 1..Len(outs)
  BY <1>1
<1>3. \A k \in 1..(2 * Len(outs)) : outs[(k + 1) \div 2] \in Output
  BY <1>2
<1>4. Pieces(outs) = [k \in 1..(2 * Len(outs)) |-> [out |-> outs[(k + 1) \div 2], end |-> k % 2 = 0]]
  BY DEF Pieces
<1>5. \A k \in 1..(2 * Len(outs)) : Pieces(outs)[k] \in Piece
  BY <1>3, <1>4 DEF Piece
<1>6. Pieces(outs) \in [1..(2 * Len(outs)) -> Piece]
  BY <1>4, <1>5
<1>7. Pieces(outs) \in Seq(Piece)
  BY <1>1, <1>6
<1>8. Len(Pieces(outs)) = 2 * Len(outs)
  BY <1>1, <1>4, <1>7
<1>9. QED BY <1>4, <1>7, <1>8

\* One output is a body and an end.
LEMMA PiecesOfOne ==
  ASSUME NEW o \in Output
  PROVE  /\ Pieces(<<o>>) \in Seq(Piece) /\ Len(Pieces(<<o>>)) = 2
         /\ Pieces(<<o>>)[1] = [out |-> o, end |-> FALSE]
         /\ Pieces(<<o>>)[2] = [out |-> o, end |-> TRUE]
<1> DEFINE s == <<o>>
<1>1. s \in Seq(Output) /\ Len(s) = 1 /\ s[1] = o
  BY SeqOf1
<1> HIDE DEF s
<1>2. /\ Pieces(s) \in Seq(Piece) /\ Len(Pieces(s)) = 2 * Len(s)
      /\ \A k \in 1..(2 * Len(s)) :
           Pieces(s)[k] = [out |-> s[(k + 1) \div 2], end |-> k % 2 = 0]
  BY <1>1, PiecesShape
<1>3. /\ 1 \in 1..(2 * Len(s)) /\ 2 \in 1..(2 * Len(s)) /\ 2 * Len(s) = 2
      /\ (1 + 1) \div 2 = 1 /\ (2 + 1) \div 2 = 1
  BY <1>1
<1>4. (1 % 2 = 0) = FALSE /\ (2 % 2 = 0) = TRUE
  OBVIOUS
<1>5. Pieces(s)[1] = [out |-> s[(1 + 1) \div 2], end |-> 1 % 2 = 0]
  BY <1>2, <1>3
<1>6. Pieces(s)[2] = [out |-> s[(2 + 1) \div 2], end |-> 2 % 2 = 0]
  BY <1>2, <1>3
<1>7. QED BY <1>1, <1>2, <1>3, <1>4, <1>5, <1>6 DEF s

\* The elements of a concatenation of pieces, which is associative.
LEMMA ConcatAt ==
  ASSUME NEW s \in Seq(Piece), NEW t \in Seq(Piece)
  PROVE  /\ s \o t \in Seq(Piece) /\ Len(s \o t) = Len(s) + Len(t)
         /\ \A i \in 1..Len(s) : (s \o t)[i] = s[i]
         /\ \A i \in 1..Len(t) : (s \o t)[Len(s) + i] = t[i]
  OBVIOUS

\* Concatenation of these three may be grouped either way.
Regrouped(s, t, u) == s \o (t \o u) = (s \o t) \o u

LEMMA PiecesAssociative ==
  ASSUME NEW s \in Seq(Piece), NEW t \in Seq(Piece), NEW u \in Seq(Piece)
  PROVE  Regrouped(s, t, u)
  BY ConcatAssociative DEF Regrouped

\* One more output adds its two pieces at the end.
LEMMA PiecesAppend ==
  ASSUME NEW outs \in Seq(Output), NEW o \in Output
  PROVE  Pieces(Append(outs, o)) = Pieces(outs) \o Pieces(<<o>>)
<1> DEFINE n == Len(outs)
           m == Append(outs, o)
           p == Pieces(outs)
           q == Pieces(<<o>>)
           l == Pieces(m)
           r == p \o q
<1>1. /\ n \in Nat /\ m \in Seq(Output) /\ Len(m) = n + 1
      /\ \A i \in 1..n : m[i] = outs[i]
      /\ m[n + 1] = o
  BY AppendProperties
<1> HIDE DEF m
<1>2. /\ q \in Seq(Piece) /\ Len(q) = 2
      /\ q[1] = [out |-> o, end |-> FALSE] /\ q[2] = [out |-> o, end |-> TRUE]
  BY PiecesOfOne
<1>3. /\ l \in Seq(Piece) /\ Len(l) = 2 * Len(m)
      /\ \A k \in 1..(2 * Len(m)) : l[k] = [out |-> m[(k + 1) \div 2], end |-> k % 2 = 0]
  BY <1>1, PiecesShape
<1>4. /\ p \in Seq(Piece) /\ Len(p) = 2 * n
      /\ \A k \in 1..(2 * n) : p[k] = [out |-> outs[(k + 1) \div 2], end |-> k % 2 = 0]
  BY PiecesShape
<1> HIDE DEF p, q, n
<1>5. /\ r \in Seq(Piece) /\ Len(r) = Len(p) + Len(q)
      /\ \A k \in 1..Len(p) : r[k] = p[k]
      /\ \A k \in 1..Len(q) : r[Len(p) + k] = q[k]
  BY <1>2, <1>4, ConcatAt
<1> HIDE DEF l, r
<1>6. ASSUME NEW k \in 1..(2 * n + 2) PROVE l[k] = r[k]
  <2> k \in 1..(2 * Len(m))
    BY <1>1
  <2>0. l[k] = [out |-> m[(k + 1) \div 2], end |-> k % 2 = 0]
    BY <1>3
  <2>1. CASE k \in 1..(2 * n)
    <3>1. (k + 1) \div 2 \in 1..n
      BY <1>1, <2>1
    <3>2. m[(k + 1) \div 2] = outs[(k + 1) \div 2]
      BY <1>1, <3>1
    <3>3. r[k] = p[k] /\ p[k] = [out |-> outs[(k + 1) \div 2], end |-> k % 2 = 0]
      BY <1>4, <1>5, <2>1
    <3>4. QED BY <2>0, <3>2, <3>3
  <2>2. CASE k = 2 * n + 1
    <3>1. (k + 1) \div 2 = n + 1 /\ (k % 2 = 0) = FALSE
      BY <1>1, <2>2
    <3>2. l[k] = [out |-> o, end |-> FALSE]
      BY <1>1, <2>0, <3>1
    <3>3. r[Len(p) + 1] = q[1] /\ Len(p) + 1 = k
      <4>1. 1 \in 1..Len(q) /\ Len(p) + 1 = k
        BY <1>1, <1>2, <1>4, <2>2
      <4>2. QED BY <1>5, <4>1
    <3>4. QED BY <1>2, <3>2, <3>3
  <2>3. CASE k = 2 * n + 2
    <3>1. (k + 1) \div 2 = n + 1 /\ (k % 2 = 0) = TRUE
      BY <1>1, <2>3
    <3>2. l[k] = [out |-> o, end |-> TRUE]
      BY <1>1, <2>0, <3>1
    <3>3. r[Len(p) + 2] = q[2] /\ Len(p) + 2 = k
      <4>1. 2 \in 1..Len(q) /\ Len(p) + 2 = k
        BY <1>1, <1>2, <1>4, <2>3
      <4>2. QED BY <1>5, <4>1
    <3>4. QED BY <1>2, <3>2, <3>3
  <2>4. QED BY <1>1, <1>6, <2>1, <2>2, <2>3
<1>7. Len(l) = 2 * n + 2 /\ Len(r) = 2 * n + 2
  BY <1>1, <1>2, <1>3, <1>4, <1>5
<1>8. l = r
  BY <1>3, <1>5, <1>6, <1>7, SeqEqual
<1>9. QED BY <1>8 DEF l, r, m, p, q

\* The first output that is complete in the data of a read is the oldest one
\* not dispatched, it is two pieces long, and the rest of the data is kept.
LEMMA FirstOutput ==
  ASSUME NEW em \in Seq(Output), NEW di \in Seq(Output),
         NEW data \in Seq(Piece), NEW rest \in Seq(Piece),
         Pieces(em) = Pieces(di) \o (data \o rest),
         NEW n \in DOMAIN data, FirstEnd(data, n)
  PROVE  /\ Len(di) < Len(em)
         /\ data[n].out = em[Len(di) + 1]
         /\ Pieces(em) = Pieces(Append(di, data[n].out)) \o (After(data, n) \o rest)
<1> DEFINE d == Len(di)
           e == Len(em)
           p == Pieces(em)
           q == Pieces(di)
<1>1. d \in Nat /\ e \in Nat /\ Len(data) \in Nat /\ Len(rest) \in Nat
  OBVIOUS
<1>2. /\ p \in Seq(Piece) /\ Len(p) = 2 * e
      /\ \A k \in 1..(2 * e) : p[k] = [out |-> em[(k + 1) \div 2], end |-> k % 2 = 0]
  BY PiecesShape
<1>3. q \in Seq(Piece) /\ Len(q) = 2 * d
  BY PiecesShape
<1>4. /\ data \o rest \in Seq(Piece) /\ Len(data \o rest) = Len(data) + Len(rest)
      /\ \A i \in 1..Len(data) : (data \o rest)[i] = data[i]
  BY ConcatProperties
<1>5. /\ 2 * e = 2 * d + Len(data) + Len(rest)
      /\ \A i \in 1..Len(data) : p[2 * d + i] = data[i]
  <2> DEFINE t == data \o rest
  <2>1. p = q \o t /\ t \in Seq(Piece) /\ Len(t) = Len(data) + Len(rest)
        /\ \A i \in 1..Len(data) : t[i] = data[i]
    BY <1>4
  <2> HIDE DEF p, q, t
  <2>2. /\ Len(p) = Len(q) + Len(t)
        /\ \A i \in 1..Len(t) : p[Len(q) + i] = t[i]
    BY <1>3, <2>1, ConcatAt
  <2>3. 2 * e = 2 * d + Len(data) + Len(rest)
    BY <1>1, <1>2, <1>3, <2>1, <2>2
  <2>4. \A i \in 1..Len(data) : p[2 * d + i] = data[i]
    BY SMTT(60), <1>1, <1>3, <2>1, <2>2
  <2>5. QED BY <2>3, <2>4
<1> HIDE DEF p, q, d, e
<1>6. ASSUME NEW i \in 1..Len(data)
      PROVE  data[i] = [out |-> em[(2 * d + i + 1) \div 2], end |-> (2 * d + i) % 2 = 0]
  <2>1. 2 * d + i \in 1..(2 * e)
    BY <1>1, <1>5
  <2>2. QED BY <1>2, <1>5, <2>1
<1>7. n \in 1..Len(data) /\ data[n].end /\ \A j \in 1..(n - 1) : ~data[j].end
  BY DEF FirstEnd
<1>8. n # 1
  <2>1. SUFFICES ASSUME n = 1 PROVE FALSE
    OBVIOUS
  <2>2. ((2 * d + 1) % 2 = 0) = FALSE
    BY <1>1
  <2>3. 1 \in 1..Len(data) /\ data[1].end
    BY <1>7, <2>1
  <2>4. data[1] = [out |-> em[(2 * d + 1 + 1) \div 2], end |-> (2 * d + 1) % 2 = 0]
    BY <1>6, <2>3
  <2> DEFINE c == (2 * d + 1) % 2 = 0
             f == em[(2 * d + 1 + 1) \div 2]
  <2>5. c = FALSE /\ data[1] = [out |-> f, end |-> c]
    BY <2>2, <2>4
  <2> HIDE DEF c, f
  <2>6. data[1] = [out |-> f, end |-> FALSE]
    BY ONLY <2>5
  <2>7. QED BY <2>3, <2>6
<1>9. 2 \in 1..Len(data) /\ 1 \in 1..Len(data)
  BY <1>1, <1>7, <1>8
<1>10. /\ ((2 * d + 2) % 2 = 0) = TRUE /\ ((2 * d + 1) % 2 = 0) = FALSE
       /\ (2 * d + 2 + 1) \div 2 = d + 1 /\ (2 * d + 1 + 1) \div 2 = d + 1
  BY <1>1
<1>11. /\ data[1] = [out |-> em[d + 1], end |-> FALSE]
       /\ data[2] = [out |-> em[d + 1], end |-> TRUE]
  <2>1. data[1] = [out |-> em[(2 * d + 1 + 1) \div 2], end |-> (2 * d + 1) % 2 = 0]
    BY <1>6, <1>9
  <2>2. data[2] = [out |-> em[(2 * d + 2 + 1) \div 2], end |-> (2 * d + 2) % 2 = 0]
    BY <1>6, <1>9
  <2>3. QED BY <1>10, <2>1, <2>2
<1>12. n = 2
  BY <1>7, <1>8, <1>9, <1>11
<1>13. d < e
  BY <1>1, <1>5, <1>9
<1>14. data[n].out = em[d + 1] /\ em[d + 1] \in Output
  <2>1. d + 1 \in 1..e
    BY <1>1, <1>13
  <2>2. em[d + 1] \in Output
    BY <2>1 DEF e
  <2>3. QED BY <1>11, <1>12, <2>2
<1> DEFINE o == data[n].out
<1>15. Pieces(<<o>>) = SubSeq(data, 1, 2)
  <2> DEFINE x == Pieces(<<o>>)
             y == SubSeq(data, 1, 2)
  <2>1. /\ x \in Seq(Piece) /\ Len(x) = 2
        /\ x[1] = [out |-> o, end |-> FALSE] /\ x[2] = [out |-> o, end |-> TRUE]
    BY <1>14, PiecesOfOne
  <2>2. y \in Seq(Piece) /\ Len(y) = 2 /\ y[1] = data[1] /\ y[2] = data[2]
    BY <1>9
  <2> HIDE DEF x, y
  <2>3. x[1] = y[1] /\ x[2] = y[2]
    BY <1>11, <1>14, <2>1, <2>2
  <2>4. \A k \in 1..Len(x) : x[k] = y[k]
    BY <2>1, <2>3
  <2>5. x = y
    BY <2>1, <2>2, <2>4, SeqEqual
  <2>6. QED BY <2>5 DEF x, y
<1>16. After(data, n) = SubSeq(data, 3, Len(data)) /\ After(data, n) \in Seq(Piece)
  BY <1>1, <1>9, <1>12, SubSeqProperties DEF After
<1>17. data = SubSeq(data, 1, 2) \o SubSeq(data, 3, Len(data))
  BY <1>1, <1>9
<1>18. data = Pieces(<<o>>) \o After(data, n)
  BY <1>15, <1>16, <1>17
<1>19. Pieces(Append(di, o)) = q \o Pieces(<<o>>) /\ Pieces(<<o>>) \in Seq(Piece)
  BY <1>14, PiecesAppend, PiecesType DEF q
<1>20. q \o (data \o rest) = (q \o Pieces(<<o>>)) \o (After(data, n) \o rest)
  <2> DEFINE x == Pieces(<<o>>)
             y == After(data, n)
  <2>1. x \in Seq(Piece) /\ y \in Seq(Piece) /\ data = x \o y
    BY <1>16, <1>18, <1>19
  <2> HIDE DEF x, y
  <2>2. y \o rest \in Seq(Piece)
    BY <2>1, ConcatAt
  <2>5. data \o rest = x \o (y \o rest)
    <3>1. Regrouped(x, y, rest)
      BY ONLY <2>1, PiecesAssociative
    <3>2. x \o (y \o rest) = (x \o y) \o rest
      BY ONLY <3>1 DEF Regrouped
    <3>3. QED BY ONLY <2>1, <3>2, Zenon
  <2>3. q \o (x \o (y \o rest)) = (q \o x) \o (y \o rest)
    <3>1. Regrouped(q, x, y \o rest)
      BY ONLY <1>3, <2>1, <2>2, PiecesAssociative
    <3>2. QED BY ONLY <3>1 DEF Regrouped
  <2>4. QED BY <2>5, <2>3 DEF x, y
<1>21. p = (q \o Pieces(<<o>>)) \o (After(data, n) \o rest)
  BY <1>20 DEF p, q
<1>22. Len(di) < Len(em) /\ data[n].out = em[Len(di) + 1]
  BY <1>13, <1>14 DEF d, e
<1>23. p = Pieces(Append(di, o)) \o (After(data, n) \o rest)
  BY <1>19, <1>21
<1>24. QED BY <1>22, <1>23 DEF p

\* OutputsInOrder, with what has not been dispatched grouped behind what has.
ArePieces(p, u, b, o, g) ==
  /\ p \in Seq(Piece) /\ u \in Seq(Piece) /\ b \in Seq(Piece)
  /\ o \in Seq(Piece) /\ g \in Seq(Piece)

LEMMA Grouped ==
  ASSUME NEW p, NEW u, NEW b, NEW o, NEW g, ArePieces(p, u, b, o, g)
  PROVE  p \o u \o b \o o \o g = p \o ((u \o b) \o (o \o g))
<1> DEFINE c == p \o u
           d == c \o b
           w == u \o b
           z == o \o g
<1>p. p \in Seq(Piece) BY DEF ArePieces
<1>u. u \in Seq(Piece) BY DEF ArePieces
<1>b. b \in Seq(Piece) BY DEF ArePieces
<1>o. o \in Seq(Piece) BY DEF ArePieces
<1>g. g \in Seq(Piece) BY DEF ArePieces
<1>1. z \in Seq(Piece) BY ONLY <1>o, <1>g, ConcatAt
<1>2. w \in Seq(Piece) BY ONLY <1>u, <1>b, ConcatAt
<1>3. c \in Seq(Piece) BY ONLY <1>p, <1>u, ConcatAt
<1>4. d = p \o w
  <2>1. Regrouped(p, u, b)
    BY ONLY <1>p, <1>u, <1>b, PiecesAssociative
  <2>2. QED BY ONLY <2>1 DEF Regrouped
<1>5. d \in Seq(Piece)
  <2> HIDE DEF c
  <2>1. QED BY ONLY <1>3, <1>b, ConcatAt
<1>6. d \o z = (d \o o) \o g
  <2> HIDE DEF d
  <2>1. QED
    <3>1. Regrouped(d, o, g)
      BY ONLY <1>5, <1>o, <1>g, PiecesAssociative
    <3>2. QED BY ONLY <3>1 DEF Regrouped
<1>7. p \o (w \o z) = (p \o w) \o z
  <2> HIDE DEF w, z
  <2>1. QED
    <3>1. Regrouped(p, w, z)
      BY ONLY <1>p, <1>1, <1>2, PiecesAssociative
    <3>2. QED BY ONLY <3>1 DEF Regrouped
<1> HIDE DEF d, w, z
<1>8. d \o o \o g = p \o (w \o z)
  BY ONLY <1>4, <1>6, <1>7
<1>9. QED BY <1>8 DEF c, d, w, z

\* The inductive invariant for OutputsInOrder.
OutInv == TypeOK /\ BuffersInv /\ OutputsInOrder

\* The stations of an output on its way to SendNotifications.
LEMMA PipelineType ==
  ASSUME TypeOK
  PROVE  /\ emitted \in Seq(Output) /\ dispatched \in Seq(Output)
         /\ Pieces(emitted) \in Seq(Piece) /\ Pieces(dispatched) \in Seq(Piece)
         /\ unused \in Seq(Piece) /\ readBuf \in Seq(Piece)
         /\ gdbOut \in Seq(Piece) /\ gdbRest \in Seq(Piece)
  BY PiecesShape DEF TypeOK

\* One completed read dispatches at most the next output that gdb emitted.
LEMMA CompleteReadOutputs ==
  ASSUME OutInv, CompleteRead
  PROVE  /\ OutputsInOrder'
         /\ \/ UNCHANGED <<frames, gotFrames, posted, failed, dispatched>>
            \/ /\ Len(dispatched) < Len(emitted)
               /\ SendNotifications(emitted[Len(dispatched) + 1])
               /\ dispatched' = Append(dispatched, emitted[Len(dispatched) + 1])
<1> DEFINE data == unused \o readBuf
           rest == gdbOut \o gdbRest
<1>1. /\ emitted \in Seq(Output) /\ dispatched \in Seq(Output)
      /\ Pieces(emitted) \in Seq(Piece) /\ Pieces(dispatched) \in Seq(Piece)
      /\ unused \in Seq(Piece) /\ readBuf \in Seq(Piece)
      /\ gdbOut \in Seq(Piece) /\ gdbRest \in Seq(Piece)
  BY PipelineType DEF OutInv
<1>2. data \in Seq(Piece) /\ rest \in Seq(Piece)
  BY <1>1, ConcatAt
<1>3. Pieces(emitted) = Pieces(dispatched) \o (data \o rest)
  <2> DEFINE a == Pieces(dispatched)
  <2>1. Pieces(emitted) = a \o unused \o readBuf \o gdbOut \o gdbRest /\ a \in Seq(Piece)
    BY <1>1 DEF OutInv, OutputsInOrder
  <2> HIDE DEF a, data, rest
  <2>2. Pieces(emitted) = a \o (data \o rest)
    <3>1. ArePieces(a, unused, readBuf, gdbOut, gdbRest)
      BY <1>1, <2>1 DEF ArePieces
    <3>2. a \o unused \o readBuf \o gdbOut \o gdbRest
            = a \o ((unused \o readBuf) \o (gdbOut \o gdbRest))
      BY ONLY <3>1, Grouped, SMTT(60)
    <3>3. QED BY ONLY <2>1, <3>2 DEF data, rest
  <2>3. QED BY <2>2 DEF a
<1>4. /\ emitted' = emitted /\ gdbOut' = gdbOut /\ gdbRest' = gdbRest /\ readBuf' = <<>>
  BY DEF CompleteRead, gdbVars
<1>5. <<>> \in Seq(Piece)
  BY SeqOf0
<1>6. CASE /\ unused' = data
           /\ UNCHANGED <<frames, gotFrames, posted, failed, dispatched>>
  <2>1. Pieces(emitted') = Pieces(emitted) /\ Pieces(dispatched') = Pieces(dispatched)
    BY <1>4, <1>6
  <2> HIDE DEF data
  <2>2. data \o <<>> = data
    BY <1>2, ConcatEmptySeq
  <2>3. Pieces(dispatched) \o data \o <<>> \o gdbOut \o gdbRest
          = Pieces(dispatched) \o ((data \o <<>>) \o rest)
    <3> DEFINE a == Pieces(dispatched)
               e == <<>>
    <3>1. a \in Seq(Piece) /\ e \in Seq(Piece)
      BY <1>1, <1>5
    <3> HIDE DEF a, e
    <3>2. a \o data \o e \o gdbOut \o gdbRest = a \o ((data \o e) \o rest)
      <4>1. ArePieces(a, data, e, gdbOut, gdbRest)
        BY <1>1, <1>2, <3>1 DEF ArePieces
      <4>2. QED BY ONLY <4>1, Grouped, SMTT(60)
    <3>3. QED BY <3>2 DEF a, e
  <2>4. OutputsInOrder'
    BY <1>3, <1>4, <1>6, <2>1, <2>2, <2>3 DEF OutputsInOrder
  <2>5. QED BY <1>6, <2>4
<1>7. ASSUME NEW n \in DOMAIN data, FirstEnd(data, n),
             unused' = After(data, n),
             SendNotifications(data[n].out),
             dispatched' = Append(dispatched, data[n].out)
      PROVE  /\ OutputsInOrder'
             /\ Len(dispatched) < Len(emitted)
             /\ SendNotifications(emitted[Len(dispatched) + 1])
             /\ dispatched' = Append(dispatched, emitted[Len(dispatched) + 1])
  <2> HIDE DEF data, rest
  <2>1. /\ Len(dispatched) < Len(emitted)
        /\ data[n].out = emitted[Len(dispatched) + 1]
        /\ Pieces(emitted) = Pieces(Append(dispatched, data[n].out)) \o (After(data, n) \o rest)
    <3>1. /\ emitted \in Seq(Output) /\ dispatched \in Seq(Output)
          /\ data \in Seq(Piece) /\ rest \in Seq(Piece)
          /\ Pieces(emitted) = Pieces(dispatched) \o (data \o rest)
          /\ n \in DOMAIN data /\ FirstEnd(data, n)
      BY <1>1, <1>2, <1>3, <1>7
    <3>2. QED BY ONLY <3>1, FirstOutput
  <2> DEFINE d == Append(dispatched, data[n].out)
             u == After(data, n)
  <2>2. d \in Seq(Output)
    <3>1. data[n] \in Piece
      BY <1>2, ElementOfSeq
    <3>2. data[n].out \in Output
      BY <3>1 DEF Piece
    <3>3. QED BY <1>1, <3>2, AppendProperties
  <2>3. u \in Seq(Piece)
    BY <1>2, SubSeqProperties DEF After
  <2>4. Pieces(d) \in Seq(Piece)
    BY <2>2, PiecesShape
  <2>5. Pieces(emitted') = Pieces(emitted) /\ dispatched' = d /\ unused' = u
    BY <1>4, <1>7
  <2>6. Pieces(emitted) = Pieces(d) \o (u \o rest)
    BY <2>1
  <2> HIDE DEF d, u
  <2>7. u \o <<>> = u
    BY <2>3, ConcatEmptySeq
  <2>8. Pieces(d) \o u \o <<>> \o gdbOut \o gdbRest = Pieces(d) \o ((u \o <<>>) \o rest)
    <3> DEFINE a == Pieces(d)
               e == <<>>
    <3>1. a \in Seq(Piece) /\ e \in Seq(Piece)
      BY <1>5, <2>4
    <3> HIDE DEF a, e
    <3>2. a \o u \o e \o gdbOut \o gdbRest = a \o ((u \o e) \o rest)
      <4>1. ArePieces(a, u, e, gdbOut, gdbRest)
        BY <1>1, <2>3, <3>1 DEF ArePieces
      <4>2. QED BY ONLY <4>1, Grouped, SMTT(60) DEF rest
    <3>3. QED BY <3>2 DEF a, e
  <2>9. Pieces(emitted') = Pieces(dispatched') \o unused' \o readBuf' \o gdbOut' \o gdbRest'
    BY <1>4, <2>5, <2>6, <2>7, <2>8
  <2>10. OutputsInOrder'
    BY <2>9 DEF OutputsInOrder
  <2>11. SendNotifications(emitted[Len(dispatched) + 1])
    BY <1>7, <2>1
  <2>12. dispatched' = Append(dispatched, emitted[Len(dispatched) + 1])
    BY <1>7, <2>1
  <2>13. QED BY <2>1, <2>10, <2>11, <2>12
<1>8. QED BY <1>6, <1>7 DEF CompleteRead

\* gdb starts to write an output when it has written all before it.
LEMMA EmitOutputs ==
  ASSUME OutInv, NEW o \in Output, gdbRest = <<>>, Emit(o),
         UNCHANGED <<dispatched, unused, readBuf, gdbOut>>
  PROVE  OutputsInOrder'
<1>1. /\ emitted \in Seq(Output)
      /\ Pieces(emitted) \in Seq(Piece) /\ Pieces(dispatched) \in Seq(Piece)
      /\ unused \in Seq(Piece) /\ readBuf \in Seq(Piece)
      /\ gdbOut \in Seq(Piece)
  BY PipelineType DEF OutInv
<1> DEFINE x == Pieces(<<o>>)
           p == Pieces(dispatched) \o unused \o readBuf \o gdbOut
<1>2. x \in Seq(Piece)
  BY PiecesType
<1>3. p \in Seq(Piece)
  <2>1. Pieces(dispatched) \o unused \in Seq(Piece)
    BY <1>1, ConcatAt
  <2>2. Pieces(dispatched) \o unused \o readBuf \in Seq(Piece)
    BY <1>1, <2>1, ConcatAt
  <2>3. QED BY <1>1, <2>2, ConcatAt
<1>4. Pieces(emitted') = Pieces(emitted) \o x /\ gdbRest' = x
  BY <1>1, PiecesAppend DEF Emit
<1>5. Pieces(emitted) = p \o <<>>
  BY DEF OutInv, OutputsInOrder
<1>6. Pieces(dispatched') = Pieces(dispatched)
  OBVIOUS
<1>7. p \o <<>> = p
  <2> HIDE DEF p
  <2>1. QED BY <1>3, ConcatEmptySeq
<1>8. QED BY <1>4, <1>5, <1>6, <1>7 DEF OutputsInOrder

\* gdb writes a piece into the pipe, and the kernel takes pieces out of it.
LEMMA MoveOutputs ==
  ASSUME OutInv, GdbWrite \/ KernelRead
  PROVE  OutputsInOrder'
<1>1. /\ Pieces(dispatched) \in Seq(Piece)
      /\ unused \in Seq(Piece) /\ readBuf \in Seq(Piece)
      /\ gdbOut \in Seq(Piece) /\ gdbRest \in Seq(Piece)
  BY PipelineType DEF OutInv
<1>2. UNCHANGED <<emitted, dispatched, unused>>
  BY DEF GdbWrite, KernelRead, ioVars, historyVars
<1> DEFINE a == Pieces(dispatched)
<1>3. Pieces(emitted') = Pieces(emitted) /\ Pieces(dispatched') = a
  BY <1>2
<1>4. a \in Seq(Piece)
  BY <1>1
<1>5. Pieces(emitted) = a \o unused \o readBuf \o gdbOut \o gdbRest
  BY DEF OutInv, OutputsInOrder
<1> HIDE DEF a
<1>6. CASE GdbWrite
  <2>1. readBuf' = readBuf /\ gdbOut' = Append(gdbOut, Head(gdbRest)) /\ gdbRest' = Tail(gdbRest)
        /\ gdbRest # <<>>
    BY <1>6 DEF GdbWrite, ioVars
  <2> DEFINE h == Head(gdbRest)
             t == Tail(gdbRest)
  <2>2. h \in Piece /\ t \in Seq(Piece) /\ <<h>> \in Seq(Piece)
    BY <1>1, <2>1, HeadTailProperties, SeqOf1
  <2>3. gdbRest = <<h>> \o t /\ Append(gdbOut, h) = gdbOut \o <<h>>
    <3>1. gdbRest = <<h>> \o t
      BY <1>1, <2>1
    <3>2. QED BY <1>1, <2>2, <3>1, AppendIsConcat
  <2> HIDE DEF h, t
  <2> DEFINE x == <<h>>
  <2>4. gdbOut \o (x \o t) = (gdbOut \o x) \o t
    <3>1. Regrouped(gdbOut, x, t)
      BY ONLY <1>1, <2>2, PiecesAssociative
    <3>2. QED BY ONLY <3>1 DEF Regrouped
  <2>5. a \o unused \o readBuf \in Seq(Piece)
    <3>1. a \o unused \in Seq(Piece)
      BY <1>1, <1>4, ConcatAt
    <3>2. QED BY <1>1, <3>1, ConcatAt
  <2>6. gdbOut \o x \in Seq(Piece)
    BY <1>1, <2>2, ConcatAt
  <2> DEFINE b == a \o unused \o readBuf
  <2>7. gdbRest = x \o t /\ gdbOut' = gdbOut \o x /\ gdbRest' = t /\ x \in Seq(Piece)
        /\ b \in Seq(Piece)
    BY <2>1, <2>2, <2>3, <2>5 DEF h, t
  <2> HIDE DEF x, b
  <2>8. b \o gdbOut \o (x \o t) = b \o (gdbOut \o (x \o t))
    <3> DEFINE w == x \o t
    <3>1. w \in Seq(Piece)
      BY <2>2, <2>7, ConcatAt
    <3> HIDE DEF w
    <3>2. b \o gdbOut \o w = b \o (gdbOut \o w)
      <4>1. b \in Seq(Piece) /\ gdbOut \in Seq(Piece)
        BY <1>1, <2>7
      <4>2. QED
        <5>1. Regrouped(b, gdbOut, w)
          BY ONLY <3>1, <4>1, PiecesAssociative
        <5>2. QED BY ONLY <5>1 DEF Regrouped
    <3>3. QED BY <3>2 DEF w
  <2>9. b \o (gdbOut \o x) \o t = b \o ((gdbOut \o x) \o t)
    <3>1. Regrouped(b, gdbOut \o x, t)
      BY ONLY <2>2, <2>6, <2>7, PiecesAssociative
    <3>2. QED BY ONLY <3>1 DEF Regrouped
  <2>10. Pieces(emitted) = b \o (gdbOut \o x) \o t
    BY <1>5, <2>4, <2>7, <2>8, <2>9 DEF b
  <2>11. QED BY <1>2, <1>3, <2>1, <2>7, <2>10 DEF OutputsInOrder, b
<1>7. CASE KernelRead
  <2>1. PICK k \in 1..ReadMax :
          /\ k <= Len(gdbOut)
          /\ readBuf' = SubSeq(gdbOut, 1, k)
          /\ gdbOut' = SubSeq(gdbOut, k + 1, Len(gdbOut))
    BY <1>7 DEF KernelRead
  <2>2. readBuf = <<>> /\ gdbRest' = gdbRest
    BY <1>7 DEF KernelRead, OutInv, BuffersInv
  <2> DEFINE x == SubSeq(gdbOut, 1, k)
             y == SubSeq(gdbOut, k + 1, Len(gdbOut))
  <2>3. k \in Nat /\ Len(gdbOut) \in Nat
    BY <1>1, BoundsAssumption
  <2>4. x \in Seq(Piece) /\ y \in Seq(Piece)
    BY <1>1, <2>1, <2>3, SubSeqProperties
  <2>5. gdbOut = x \o y
    BY <1>1, <2>1, <2>3
  <2>6. <<>> \in Seq(Piece) /\ readBuf' = x /\ gdbOut' = y
    BY <2>1, SeqOf0
  <2> HIDE DEF x, y
  <2>7. unused \o <<>> = unused
    BY <1>1, ConcatEmptySeq
  <2>8. a \o unused \o readBuf \o gdbOut \o gdbRest = a \o (unused \o ((x \o y) \o gdbRest))
    <3> DEFINE e == <<>>
    <3>1. a \o unused \o e \o gdbOut \o gdbRest = a \o ((unused \o e) \o (gdbOut \o gdbRest))
      <4>1. e \in Seq(Piece)
        BY <2>6
      <4> HIDE DEF e
      <4>2. ArePieces(a, unused, e, gdbOut, gdbRest)
        BY <1>1, <1>4, <4>1 DEF ArePieces
      <4>3. QED BY ONLY <4>2, Grouped, SMTT(60)
    <3>2. QED BY <2>2, <2>5, <2>7, <3>1
  <2>9. a \o unused \o x \o y \o gdbRest = a \o ((unused \o x) \o (y \o gdbRest))
    <3>1. ArePieces(a, unused, x, y, gdbRest)
      BY <1>1, <1>4, <2>4 DEF ArePieces
    <3>2. QED BY ONLY <3>1, Grouped, SMTT(60)
  <2>10. (unused \o x) \o (y \o gdbRest) = unused \o ((x \o y) \o gdbRest)
    <3>1. y \o gdbRest \in Seq(Piece)
      BY <1>1, <2>4, ConcatAt
    <3>2. (unused \o x) \o (y \o gdbRest) = unused \o (x \o (y \o gdbRest))
      <4> DEFINE z == y \o gdbRest
      <4>1. z \in Seq(Piece)
        BY <3>1
      <4> HIDE DEF z
      <4>2. (unused \o x) \o z = unused \o (x \o z)
        <5>1. unused \in Seq(Piece) /\ x \in Seq(Piece)
          BY <1>1, <2>4
        <5>2. QED
          <6>1. Regrouped(unused, x, z)
            BY ONLY <4>1, <5>1, PiecesAssociative
          <6>2. QED BY ONLY <6>1 DEF Regrouped
      <4>3. QED BY <4>2 DEF z
    <3>3. x \o (y \o gdbRest) = (x \o y) \o gdbRest
      <4>1. x \in Seq(Piece) /\ y \in Seq(Piece) /\ gdbRest \in Seq(Piece)
        BY <1>1, <2>4
      <4>2. QED
        <5>1. Regrouped(x, y, gdbRest)
          BY ONLY <4>1, PiecesAssociative
        <5>2. QED BY ONLY <5>1 DEF Regrouped
    <3>4. QED BY <3>2, <3>3
  <2>11. QED BY <1>2, <1>3, <1>5, <2>2, <2>6, <2>8, <2>9, <2>10 DEF OutputsInOrder
<1>8. QED BY <1>6, <1>7

LEMMA InitOutInv == Init => OutInv
<1> SUFFICES ASSUME Init PROVE OutInv
  OBVIOUS
<1>1. TypeOK
  BY InitTypeOK
<1>2. OutputsInOrder
  <2> DEFINE f == <<>>
             e == Pieces(f)
  <2>1. f \in Seq(Output) /\ Len(f) = 0
    BY SeqOf0
  <2> HIDE DEF f
  <2>2. e \in Seq(Piece) /\ Len(e) = 0
    <3>1. e \in Seq(Piece) /\ Len(e) = 2 * Len(f)
      BY <2>1, PiecesShape
    <3>2. QED BY <2>1, <3>1
  <2> HIDE DEF e
  <2>3. e \o <<>> = e
    BY <2>2, ConcatEmptySeq
  <2>4. e = e \o <<>> \o <<>> \o <<>> \o <<>>
    BY <2>3
  <2>5. QED BY <2>4 DEF Init, OutputsInOrder, e, f
<1>3. QED BY <1>1, <1>2 DEF Init, OutInv, BuffersInv

LEMMA OutInvStep == OutInv /\ [Next]_vars => OutInv'
<1> SUFFICES ASSUME OutInv, [Next]_vars PROVE OutInv'
  OBVIOUS
<1>1. CASE UNCHANGED vars
  BY <1>1 DEF vars, ioVars, notifyVars, gdbVars, historyVars, OutInv, TypeOK, BuffersInv, OutputsInOrder
<1>2. CASE Next
  <2>1. TypeOK'
    BY TypeOKStep DEF OutInv
  <2>2. BuffersInv'
    BY <1>2 DEF Next, OutInv, BuffersInv, RunRequest, CompleteRead, CompleteWrite, BeginDestroy,
       Cancelled, EndDestroy, KernelRead, KernelWrite, GdbReadCommand, GdbStops, GdbWrite, ioVars
  <2>3. OutputsInOrder'
    <3>1. CASE \/ \E request \in Requests : RunRequest(request)
               \/ CompleteWrite \/ BeginDestroy \/ EndDestroy \/ KernelWrite
      <4>1. UNCHANGED <<emitted, dispatched, unused, readBuf, gdbOut, gdbRest>>
        BY <3>1 DEF RunRequest, CompleteWrite, BeginDestroy, EndDestroy, KernelWrite,
           gdbVars, historyVars
      <4>2. QED BY <4>1 DEF OutInv, OutputsInOrder
    <3>2. CASE GdbReadCommand
      <4>1. Head(gdbIn) \in Command
        BY <3>2, HeadTailProperties DEF OutInv, TypeOK, GdbReadCommand
      <4>2. PICK class \in {"done", "error", "running"} : Emit(OutputOf(class, Head(gdbIn), stops))
        BY <3>2 DEF GdbReadCommand
      <4>3. OutputOf(class, Head(gdbIn), stops) \in Output
        BY <4>1 DEF OutputOf, Output, Command, OutInv, TypeOK
      <4>4. gdbRest = <<>> /\ UNCHANGED <<dispatched, unused, readBuf, gdbOut>>
        BY <3>2 DEF GdbReadCommand, ioVars
      <4>5. QED BY <4>2, <4>3, <4>4, EmitOutputs
    <3>3. CASE GdbStops
      <4>1. PICK class \in {"stopped", "exited"} : Emit(AsyncOutput(class, stops + 1))
        BY <3>3 DEF GdbStops
      <4>2. AsyncOutput(class, stops + 1) \in Output
        BY DEF AsyncOutput, OutputOf, Output, NoToken, OutInv, TypeOK
      <4>3. gdbRest = <<>> /\ UNCHANGED <<dispatched, unused, readBuf, gdbOut>>
        BY <3>3 DEF GdbStops, ioVars
      <4>4. QED BY <4>1, <4>2, <4>3, EmitOutputs
    <3>4. QED
      BY <1>2, <3>1, <3>2, <3>3, CompleteReadOutputs, MoveOutputs DEF Next
  <2>4. QED BY <2>1, <2>2, <2>3 DEF OutInv
<1>3. QED BY <1>1, <1>2

\* Whatever sizes the reads have, no output of gdb is lost, repeated or
\* overtaken on its way through the pipe, the read buffer and unused_read_data_.
THEOREM OutputsInOrderHolds == Spec => []OutputsInOrder
<1>1. OutInv => OutputsInOrder
  BY DEF OutInv
<1>2. QED BY <1>1, InitOutInv, OutInvStep, PTL DEF Spec

-----------------------------------------------------------------------------
(* Handlers and the stack.                                                 *)

\* The token of a command or of its result record leads to its handler.
Answerable(h, c) ==
  IF c.op \in HandledOps
  THEN c.tok \in DOMAIN h /\ h[c.tok] = Handler[c.op]
  ELSE c.tok = NoToken

TokensInv ==
  /\ \A t \in DOMAIN handlers : t < nextToken
  /\ \A i \in 1..Len(submitted) : Answerable(handlers, submitted[i])
  /\ \A i \in 1..Len(emitted) : Answerable(handlers, emitted[i])

FramesOf(o)    == o.op = "stack-list-frames" /\ o.class = "done"
ArgumentsOf(o) == o.op = "stack-list-arguments" /\ o.class = "done"

\* The arguments of a stack are always requested right after its frames, and
\* gdb does not resume the program between the two.
AskedInv ==
  /\ \A i \in 1..Len(submitted) :
       submitted[i].op = "stack-list-arguments" =>
         i > 1 /\ submitted[i - 1].op = "stack-list-frames"
  /\ (Len(received) > 0 /\ received[Len(received)].op = "stack-list-frames") =>
       /\ Len(emitted) > 0 /\ gdbState # "running"
       /\ emitted[Len(emitted)].op = "stack-list-frames"
       /\ emitted[Len(emitted)].at = stops
       /\ emitted[Len(emitted)].class = "done" <=> gdbState = "stopped"

\* So they are answered for the same stop, and when the arguments are next to
\* be dispatched the frames waiting for them are those of that stop.
AnsweredInv ==
  /\ Len(dispatched) <= Len(emitted)
  /\ \A i \in 1..Len(emitted) :
       ArgumentsOf(emitted[i]) =>
         i > 1 /\ FramesOf(emitted[i - 1]) /\ emitted[i - 1].at = emitted[i].at
  /\ (Len(dispatched) > 0 /\ FramesOf(emitted[Len(dispatched)])) =>
       gotFrames /\ frames = emitted[Len(dispatched)].at

\* The inductive invariant for both properties.
StackInv ==
  IInv /\ OutInv /\ TokensInv /\ AskedInv /\ AnsweredInv /\ HandlersMatch /\ StackOfOneStop

\* In one request either every command has a handler or none, and the
\* arguments of a stack follow its frames.
LEMMA OperationsShape ==
  ASSUME NEW m \in Methods
  PROVE  /\ \/ \A k \in 1..Len(Operations[m]) : Operations[m][k] \in HandledOps
            \/ \A k \in 1..Len(Operations[m]) : Operations[m][k] \notin HandledOps
         /\ \A k \in 1..Len(Operations[m]) :
              Operations[m][k] = "stack-list-arguments" =>
                k > 1 /\ Operations[m][k - 1] = "stack-list-frames"
<1> DEFINE s == Operations[m]
<1>1. \/ s = <<>>
      \/ \E op \in HandledOps \ {"stack-list-arguments"} : s = <<op>>
      \/ \E op \in UnhandledOps : s = <<op>>
      \/ s = <<"break-insert", "exec-run">>
      \/ s = <<"stack-list-frames", "stack-list-arguments">>
  BY DEF Methods, Operations, HandledOps, UnhandledOps
<1> HIDE DEF s
<1>2. SUFFICES /\ \/ \A k \in 1..Len(s) : s[k] \in HandledOps
                  \/ \A k \in 1..Len(s) : s[k] \notin HandledOps
               /\ \A k \in 1..Len(s) : s[k] = "stack-list-arguments" =>
                    k > 1 /\ s[k - 1] = "stack-list-frames"
  BY DEF s
<1>3. CASE s = <<>>
  BY <1>3
<1>4. ASSUME NEW op \in HandledOps \ {"stack-list-arguments"}, s = <<op>>
      PROVE  (\A k \in 1..Len(s) : s[k] \in HandledOps)
             /\ \A k \in 1..Len(s) : s[k] # "stack-list-arguments"
  <2>1. Len(s) = 1 /\ s[1] = op
    BY <1>4
  <2>2. QED BY <2>1
<1>5. ASSUME NEW op \in UnhandledOps, s = <<op>>
      PROVE  (\A k \in 1..Len(s) : s[k] \notin HandledOps)
             /\ \A k \in 1..Len(s) : s[k] # "stack-list-arguments"
  <2>1. Len(s) = 1 /\ s[1] = op
    BY <1>5
  <2>2. op \notin HandledOps /\ op # "stack-list-arguments"
    BY DEF UnhandledOps, HandledOps
  <2>3. QED BY <2>1, <2>2
<1>6. CASE s = <<"break-insert", "exec-run">>
  <2>1. Len(s) = 2 /\ s[1] = "break-insert" /\ s[2] = "exec-run"
    BY <1>6
  <2>2. \A k \in 1..Len(s) : k = 1 \/ k = 2
    BY <2>1
  <2>3. \A k \in 1..Len(s) : s[k] \notin HandledOps /\ s[k] # "stack-list-arguments"
    BY <2>1, <2>2 DEF HandledOps
  <2>4. QED BY <2>3
<1>7. CASE s = <<"stack-list-frames", "stack-list-arguments">>
  <2>1. Len(s) = 2 /\ s[1] = "stack-list-frames" /\ s[2] = "stack-list-arguments"
    BY <1>7
  <2>2. \A k \in 1..Len(s) : k = 1 \/ k = 2
    BY <2>1
  <2>3. \A k \in 1..Len(s) : s[k] \in HandledOps
    BY <2>1, <2>2 DEF HandledOps
  <2>4. \A k \in 1..Len(s) : s[k] = "stack-list-arguments" =>
          k > 1 /\ s[k - 1] = "stack-list-frames"
    BY <2>1, <2>2
  <2>5. QED BY <2>3, <2>4
<1>8. QED BY <1>1, <1>3, <1>4, <1>5, <1>6, <1>7

\* The commands of a request, one by one.
LEMMA TaggedShape ==
  ASSUME NEW request \in Requests, nextToken \in Nat
  PROVE  LET cmds == Tagged(request)
         IN  /\ cmds \in Seq(Command)
             /\ \A k \in 1..Len(cmds) :
                  /\ cmds[k].op \in HandledOps => cmds[k].tok = nextToken + k - 1
                  /\ cmds[k].op \notin HandledOps => cmds[k].tok = NoToken
                  /\ cmds[k].op = "stack-list-arguments" =>
                       k > 1 /\ cmds[k - 1].op = "stack-list-frames"
             /\ \A t \in TokensOf(cmds) : /\ t \in Nat /\ t >= nextToken
                                          /\ t < nextToken + Cardinality(TokensOf(cmds))
             /\ Cardinality(TokensOf(cmds)) \in Nat
<1> DEFINE cmds == Tagged(request)
           ops  == Operations[request.method]
           n    == Len(ops)
<1>1. /\ cmds \in Seq(Command) /\ Len(cmds) = n /\ n \in Nat
  BY TaggedType, RequestsAssumption, OperationsType
<1>2. \A k \in 1..n :
        /\ cmds[k].op = ops[k]
        /\ cmds[k].tok = IF ops[k] \in HandledOps THEN nextToken + k - 1 ELSE NoToken
  <2>1. /\ DOMAIN Commands(request) = 1..n
        /\ \A k \in 1..n : Commands(request)[k].op = ops[k]
    BY DEF Commands
  <2>2. QED BY <2>1 DEF Tagged, HasHandler
<1>3. /\ \/ \A k \in 1..n : ops[k] \in HandledOps
         \/ \A k \in 1..n : ops[k] \notin HandledOps
      /\ \A k \in 1..n : ops[k] = "stack-list-arguments" =>
           k > 1 /\ ops[k - 1] = "stack-list-frames"
  BY OperationsShape, RequestsAssumption
<1> HIDE DEF cmds, ops, n
<1>4. DOMAIN cmds = 1..n
  BY <1>1
<1>5. CASE \A k \in 1..n : ops[k] \in HandledOps
  <2>1. \A k \in 1..n : cmds[k].tok = nextToken + k - 1
    BY <1>2, <1>5
  <2>2. TokensOf(cmds) = nextToken..(nextToken + n - 1)
    <3>1. ASSUME NEW t \in nextToken..(nextToken + n - 1) PROVE t \in TokensOf(cmds)
      <4>1. t - nextToken + 1 \in 1..n /\ nextToken + (t - nextToken + 1) - 1 = t
        BY <1>1
      <4>2. cmds[t - nextToken + 1].tok = t
        BY <2>1, <4>1
      <4>3. t # NoToken
        BY DEF NoToken
      <4>4. QED BY <1>4, <4>1, <4>2, <4>3 DEF TokensOf
    <3>2. ASSUME NEW t \in TokensOf(cmds) PROVE t \in nextToken..(nextToken + n - 1)
      <4>1. PICK k \in 1..n : t = cmds[k].tok
        BY <1>4 DEF TokensOf
      <4>2. QED BY <1>1, <2>1, <4>1
    <3>3. QED BY <3>1, <3>2
  <2>3. Cardinality(TokensOf(cmds)) = n
    BY <1>1, <2>2, FS_Interval
  <2>4. QED
    <3>1. \A t \in TokensOf(cmds) : t \in Nat /\ t >= nextToken /\ t < nextToken + n
      BY <1>1, <2>2
    <3>2. \A k \in 1..n : cmds[k].op \in HandledOps
      BY <1>2, <1>5
    <3>3. \A k \in 1..n : cmds[k].op = "stack-list-arguments" =>
                       k > 1 /\ cmds[k - 1].op = "stack-list-frames"
      <4>1. ASSUME NEW k \in 1..n, k > 1 PROVE k - 1 \in 1..n
        BY <1>1, <4>1
      <4>2. QED BY <1>2, <1>3, <4>1
    <3>4. QED BY <1>1, <2>1, <2>3, <3>1, <3>2, <3>3 DEF cmds
<1>6. CASE \A k \in 1..n : ops[k] \notin HandledOps
  <2>1. \A k \in 1..n : cmds[k].tok = NoToken /\ cmds[k].op \notin HandledOps
    BY <1>2, <1>6
  <2>2. TokensOf(cmds) = {}
    BY <1>4, <2>1 DEF TokensOf
  <2>3. Cardinality(TokensOf(cmds)) = 0
    BY <2>2, FS_EmptySet
  <2>4. \A k \in 1..n : cmds[k].op # "stack-list-arguments"
    BY <2>1 DEF HandledOps
  <2>5. QED BY <1>1, <2>1, <2>2, <2>3, <2>4 DEF cmds
<1>7. QED BY <1>3, <1>5, <1>6

\* A request adds commands with new tokens, whose handlers are registered in
\* the same task; it leaves every token handed out before as it was.
LEMMA RunRequestTokens ==
  ASSUME StackInv, NEW request \in Requests, RunRequest(request)
  PROVE  TokensInv' /\ AskedInv'
<1> DEFINE cmds == Tagged(request)
           toks == TokensOf(cmds)
<1>1. /\ nextToken \in Nat /\ submitted \in Seq(Command) /\ emitted \in Seq(Output)
      /\ DOMAIN handlers \subseteq Nat
  BY DEF StackInv, IInv, TypeOK
<1>2. /\ cmds \in Seq(Command)
      /\ \A k \in 1..Len(cmds) :
           /\ cmds[k].op \in HandledOps => cmds[k].tok = nextToken + k - 1
           /\ cmds[k].op \notin HandledOps => cmds[k].tok = NoToken
           /\ cmds[k].op = "stack-list-arguments" =>
                k > 1 /\ cmds[k - 1].op = "stack-list-frames"
      /\ \A t \in toks : t \in Nat /\ t >= nextToken /\ t < nextToken + Cardinality(toks)
      /\ Cardinality(toks) \in Nat
  BY <1>1, TaggedShape
<1>3. /\ nextToken' = nextToken + Cardinality(toks)
      /\ handlers' = [t \in DOMAIN handlers \cup toks |->
                        IF t \in toks THEN Handler[cmds[t - nextToken + 1].op] ELSE handlers[t]]
      /\ SendStrings(cmds)
      /\ UNCHANGED <<received, emitted, gdbState, stops>>
  BY DEF RunRequest, gdbVars
<1>4. submitted' = submitted \o cmds
  BY <1>3, SendStringsCases
<1>5. /\ TokensInv /\ AskedInv
  BY DEF StackInv
<1> HIDE DEF cmds
<1>6. /\ Len(submitted) \in Nat /\ Len(cmds) \in Nat
      /\ Len(submitted') = Len(submitted) + Len(cmds)
      /\ \A i \in 1..Len(submitted) : submitted'[i] = submitted[i]
      /\ \A k \in 1..Len(cmds) : submitted'[Len(submitted) + k] = cmds[k]
  BY <1>1, <1>2, <1>4, ConcatProperties
<1>7. ASSUME NEW i \in 1..Len(submitted'), i \notin 1..Len(submitted)
      PROVE  /\ i - Len(submitted) \in 1..Len(cmds)
             /\ submitted'[i] = cmds[i - Len(submitted)]
  <2>1. i - Len(submitted) \in 1..Len(cmds) /\ Len(submitted) + (i - Len(submitted)) = i
    BY <1>6, <1>7
  <2>2. QED BY <1>6, <2>1
<1>8. ASSUME NEW k \in 1..Len(cmds), cmds[k].op \in HandledOps
      PROVE  cmds[k].tok \in toks
  <2>1. cmds[k].tok \in Nat
    BY <1>1, <1>2, <1>8
  <2>2. cmds[k].tok # NoToken
    BY <2>1 DEF NoToken
  <2>3. k \in DOMAIN cmds
    BY <1>2
  <2>4. QED BY <2>2, <2>3 DEF TokensOf
<1> HIDE DEF toks
<1>9. ASSUME NEW t \in DOMAIN handlers
      PROVE  t \in DOMAIN handlers' /\ handlers'[t] = handlers[t] /\ t < nextToken'
  <2>1. t \in Nat /\ t < nextToken
    BY <1>1, <1>5 DEF TokensInv
  <2>2. t \notin toks
    BY <1>1, <1>2, <2>1
  <2>3. QED BY <1>1, <1>2, <1>3, <2>1, <2>2
<1>10. ASSUME NEW c, Answerable(handlers, c) PROVE Answerable(handlers', c)
  BY <1>9, <1>10 DEF Answerable
<1>11. ASSUME NEW k \in 1..Len(cmds) PROVE Answerable(handlers', cmds[k])
  <2>1. CASE cmds[k].op \in HandledOps
    <3>1. cmds[k].tok = nextToken + k - 1 /\ cmds[k].tok \in toks
      BY <1>2, <1>8, <2>1
    <3>2. cmds[k].tok - nextToken + 1 = k
      BY <1>1, <3>1
    <3>3. handlers'[cmds[k].tok] = Handler[cmds[k].op] /\ cmds[k].tok \in DOMAIN handlers'
      BY <1>3, <3>1, <3>2
    <3>4. QED BY <2>1, <3>3 DEF Answerable
  <2>2. CASE cmds[k].op \notin HandledOps
    BY <1>2, <2>2 DEF Answerable
  <2>3. QED BY <2>1, <2>2
<1>12. \A t \in DOMAIN handlers' : t < nextToken'
  BY <1>1, <1>2, <1>3, <1>9
<1>13. \A i \in 1..Len(submitted') : Answerable(handlers', submitted'[i])
  BY <1>5, <1>6, <1>7, <1>10, <1>11 DEF TokensInv
<1>14. \A i \in 1..Len(emitted') : Answerable(handlers', emitted'[i])
  BY <1>3, <1>5, <1>10 DEF TokensInv
<1>15. TokensInv'
  BY <1>12, <1>13, <1>14 DEF TokensInv
<1>16. \A i \in 1..Len(submitted') :
         submitted'[i].op = "stack-list-arguments" =>
           i > 1 /\ submitted'[i - 1].op = "stack-list-frames"
  <2> SUFFICES ASSUME NEW i \in 1..Len(submitted'), submitted'[i].op = "stack-list-arguments"
               PROVE  i > 1 /\ submitted'[i - 1].op = "stack-list-frames"
    OBVIOUS
  <2>1. CASE i \in 1..Len(submitted)
    <3>1. i > 1 /\ submitted[i - 1].op = "stack-list-frames"
      BY <1>5, <1>6, <2>1 DEF AskedInv
    <3>2. i - 1 \in 1..Len(submitted)
      BY <1>6, <2>1, <3>1
    <3>3. QED BY <1>6, <3>1, <3>2
  <2>2. CASE i \notin 1..Len(submitted)
    <3> DEFINE k == i - Len(submitted)
    <3>1. k \in 1..Len(cmds) /\ submitted'[i] = cmds[k]
      BY <1>7, <2>2
    <3>2. k > 1 /\ cmds[k - 1].op = "stack-list-frames"
      BY <1>2, <3>1
    <3>3. k - 1 \in 1..Len(cmds) /\ i - 1 = Len(submitted) + (k - 1) /\ i > 1
      BY <1>6, <3>1, <3>2
    <3>4. QED BY <1>6, <3>2, <3>3
  <2>3. QED BY <2>1, <2>2
<1>17. AskedInv'
  BY <1>3, <1>5, <1>16 DEF AskedInv
<1>18. QED BY <1>15, <1>17

\* gdb answers a command with the command's own token; it has a stack to list
\* only at a stop, and the frames were listed at the same one.
LEMMA GdbReadAnswers ==
  ASSUME StackInv, GdbReadCommand
  PROVE  TokensInv' /\ AskedInv' /\ AnsweredInv'
<1> DEFINE r   == Len(received)
           e   == Len(emitted)
           cmd == submitted[r + 1]
<1>1. /\ received \in Seq(Command) /\ submitted \in Seq(Command) /\ emitted \in Seq(Output)
      /\ dispatched \in Seq(Output)
      /\ r \in Nat /\ e \in Nat /\ Len(dispatched) \in Nat
  BY DEF StackInv, IInv, TypeOK
<1>2. r < Len(submitted) /\ received' = Append(received, cmd) /\ r + 1 \in 1..Len(submitted)
  BY <1>1, GdbReadOrder DEF StackInv
<1>3. /\ cmd = Head(gdbIn)
      /\ UNCHANGED <<handlers, nextToken, submitted, dispatched, stops, frames, gotFrames>>
      /\ gdbState # "running"
  <2>1. received' = Append(received, Head(gdbIn))
    BY DEF GdbReadCommand
  <2>2. Append(received, cmd)[r + 1] = cmd /\ Append(received, Head(gdbIn))[r + 1] = Head(gdbIn)
    BY <1>1
  <2>3. QED BY <1>2, <2>1, <2>2 DEF GdbReadCommand, notifyVars
<1>4. PICK class \in {"done", "error", "running"} :
        /\ cmd.op \in {"stack-list-frames", "stack-list-arguments"} =>
             (class = "done" <=> gdbState = "stopped")
        /\ Emit(OutputOf(class, cmd, stops))
        /\ cmd.op = "stack-list-frames" => gdbState' = gdbState
  BY <1>3 DEF GdbReadCommand, RunsDebuggee
<1> DEFINE o == OutputOf(class, cmd, stops)
<1>5. emitted' = Append(emitted, o)
  BY <1>4 DEF Emit
<1>6. /\ o.op = cmd.op /\ o.tok = cmd.tok /\ o.class = class /\ o.at = stops
  BY DEF OutputOf
<1>7. TokensInv /\ AskedInv /\ AnsweredInv /\ OrderInv
  BY DEF StackInv, IInv
<1> HIDE DEF cmd, o, r, e
<1>8. /\ Len(emitted') = e + 1 /\ emitted'[e + 1] = o
      /\ \A i \in 1..e : emitted'[i] = emitted[i]
  BY <1>1, <1>5, AppendProperties DEF e
<1>9. /\ Len(received') = r + 1 /\ received'[r + 1] = cmd
  BY <1>1, <1>2, AppendProperties DEF r
<1>10. Answerable(handlers, o)
  <2>1. Answerable(handlers, cmd)
    BY <1>2, <1>7 DEF TokensInv, cmd
  <2>2. QED BY <1>6, <2>1 DEF Answerable
<1>11. TokensInv'
  <2>1. \A i \in 1..(e + 1) : Answerable(handlers, emitted'[i])
    <3>1. ASSUME NEW i \in 1..(e + 1) PROVE Answerable(handlers, emitted'[i])
      <4>1. CASE i \in 1..e
        BY <1>7, <1>8, <4>1 DEF TokensInv, e
      <4>2. CASE i = e + 1
        BY <1>8, <1>10, <4>2
      <4>3. QED BY <1>1, <3>1, <4>1, <4>2
    <3>2. QED BY <3>1
  <2>2. QED BY <1>3, <1>7, <1>8, <2>1 DEF TokensInv
<1>12. AskedInv'
  <2>1. \A i \in 1..Len(submitted') :
          submitted'[i].op = "stack-list-arguments" =>
            i > 1 /\ submitted'[i - 1].op = "stack-list-frames"
    BY <1>3, <1>7 DEF AskedInv
  <2>2. ASSUME received'[Len(received')].op = "stack-list-frames"
        PROVE  /\ Len(emitted') > 0 /\ gdbState' # "running"
               /\ emitted'[Len(emitted')].op = "stack-list-frames"
               /\ emitted'[Len(emitted')].at = stops'
               /\ emitted'[Len(emitted')].class = "done" <=> gdbState' = "stopped"
    <3>1. cmd.op = "stack-list-frames"
      BY <1>9, <2>2
    <3>2. gdbState' = gdbState /\ (o.class = "done" <=> gdbState' = "stopped")
      BY <1>4, <1>6, <3>1
    <3>3. emitted'[Len(emitted')] = o /\ Len(emitted') > 0
      BY <1>1, <1>8
    <3>4. QED BY <1>3, <1>6, <3>1, <3>2, <3>3
  <2>3. QED BY <2>1, <2>2 DEF AskedInv
<1>13. ASSUME ArgumentsOf(o)
       PROVE  e > 0 /\ FramesOf(emitted[e]) /\ emitted[e].at = o.at
  <2>1. cmd.op = "stack-list-arguments" /\ class = "done" /\ gdbState = "stopped"
    BY <1>4, <1>6, <1>13 DEF ArgumentsOf
  <2>2. r > 0 /\ submitted[r].op = "stack-list-frames"
    <3> DEFINE i == r + 1
    <3>1. i \in 1..Len(submitted) /\ submitted[i].op = "stack-list-arguments"
      BY <1>2, <2>1 DEF cmd
    <3>5. i = r + 1 /\ r \in Nat
      BY <1>1
    <3> HIDE DEF i
    <3>2. i > 1 /\ submitted[i - 1].op = "stack-list-frames"
      BY <1>7, <3>1 DEF AskedInv
    <3>3. i - 1 = r /\ r > 0
      BY <3>5, <3>2
    <3>4. QED BY <3>2, <3>3
  <2>3. r > 0 /\ received[r].op = "stack-list-frames"
    <3>1. r > 0 /\ r \in 1..Len(received)
      BY <1>1, <2>2 DEF r
    <3>2. received[r] = submitted[0 + r] /\ 0 + r = r
      BY <1>7, <3>1 DEF OrderInv, Segment
    <3>3. QED BY <2>2, <3>1, <3>2
  <2>4. QED BY <1>6, <1>7, <2>1, <2>3 DEF AskedInv, FramesOf, r, e
<1>14. AnsweredInv'
  <2>1. Len(dispatched') <= Len(emitted') /\ Len(dispatched) <= e
    BY <1>1, <1>3, <1>7, <1>8 DEF AnsweredInv, e
  <2>2. ASSUME NEW i \in 1..(e + 1), ArgumentsOf(emitted'[i])
        PROVE  i > 1 /\ FramesOf(emitted'[i - 1]) /\ emitted'[i - 1].at = emitted'[i].at
    <3>1. CASE i \in 1..e
      <4>1. i > 1 /\ FramesOf(emitted[i - 1]) /\ emitted[i - 1].at = emitted[i].at
        BY <1>7, <1>8, <2>2, <3>1 DEF AnsweredInv, e
      <4>2. i - 1 \in 1..e
        BY <1>1, <3>1, <4>1
      <4>3. QED BY <1>8, <3>1, <4>1, <4>2
    <3>2. CASE i = e + 1
      <4>1. e > 0 /\ FramesOf(emitted[e]) /\ emitted[e].at = o.at
        BY <1>8, <1>13, <2>2, <3>2
      <4>2. e \in 1..e /\ i - 1 = e
        BY <1>1, <3>2, <4>1
      <4>3. QED BY <1>8, <3>2, <4>1, <4>2
    <3>3. QED BY <1>1, <2>2, <3>1, <3>2
  <2>3. ASSUME Len(dispatched) > 0
        PROVE  emitted'[Len(dispatched)] = emitted[Len(dispatched)]
    BY <1>1, <1>8, <2>1, <2>3
  <2>4. QED BY <1>3, <1>7, <1>8, <2>1, <2>2, <2>3 DEF AnsweredInv
<1>15. QED BY <1>11, <1>12, <1>14

\* The program stops only while it runs, so never between the frames and the
\* arguments of a stack.
LEMMA GdbStopsAnswers ==
  ASSUME StackInv, GdbStops
  PROVE  TokensInv' /\ AskedInv' /\ AnsweredInv'
<1> DEFINE e == Len(emitted)
<1>1. /\ emitted \in Seq(Output) /\ dispatched \in Seq(Output)
      /\ e \in Nat /\ Len(dispatched) \in Nat
  BY DEF StackInv, IInv, TypeOK
<1>2. PICK class \in {"stopped", "exited"} : Emit(AsyncOutput(class, stops + 1))
  BY DEF GdbStops
<1> DEFINE o == AsyncOutput(class, stops + 1)
<1>3. /\ o.op = "async" /\ o.tok = NoToken /\ o.class # "done"
      /\ emitted' = Append(emitted, o)
  BY <1>2 DEF AsyncOutput, OutputOf, Emit
<1>4. /\ UNCHANGED <<handlers, nextToken, submitted, received, dispatched, frames, gotFrames>>
      /\ gdbState = "running"
  BY DEF GdbStops, notifyVars
<1>5. TokensInv /\ AskedInv /\ AnsweredInv
  BY DEF StackInv
<1> HIDE DEF o, e
<1>6. /\ Len(emitted') = e + 1 /\ emitted'[e + 1] = o
      /\ \A i \in 1..e : emitted'[i] = emitted[i]
  BY <1>1, <1>3, AppendProperties DEF e
<1>7. Answerable(handlers, o)
  BY <1>3 DEF Answerable, HandledOps
<1>8. TokensInv'
  <2>1. ASSUME NEW i \in 1..(e + 1) PROVE Answerable(handlers, emitted'[i])
    <3>1. CASE i \in 1..e
      BY <1>5, <1>6, <3>1 DEF TokensInv, e
    <3>2. CASE i = e + 1
      BY <1>6, <1>7, <3>2
    <3>3. QED BY <1>1, <2>1, <3>1, <3>2
  <2>2. QED BY <1>4, <1>5, <1>6, <2>1 DEF TokensInv
<1>9. AskedInv'
  BY <1>4, <1>5 DEF AskedInv
<1>10. AnsweredInv'
  <2>1. Len(dispatched') <= Len(emitted') /\ Len(dispatched) <= e
    BY <1>1, <1>4, <1>5, <1>6 DEF AnsweredInv, e
  <2>2. ASSUME NEW i \in 1..(e + 1), ArgumentsOf(emitted'[i])
        PROVE  i > 1 /\ FramesOf(emitted'[i - 1]) /\ emitted'[i - 1].at = emitted'[i].at
    <3>1. CASE i \in 1..e
      <4>1. i > 1 /\ FramesOf(emitted[i - 1]) /\ emitted[i - 1].at = emitted[i].at
        BY <1>5, <1>6, <2>2, <3>1 DEF AnsweredInv, e
      <4>2. i - 1 \in 1..e
        BY <1>1, <3>1, <4>1
      <4>3. QED BY <1>6, <3>1, <4>1, <4>2
    <3>2. CASE i = e + 1
      BY <1>3, <1>6, <2>2, <3>2 DEF ArgumentsOf
    <3>3. QED BY <1>1, <2>2, <3>1, <3>2
  <2>3. ASSUME Len(dispatched) > 0
        PROVE  emitted'[Len(dispatched)] = emitted[Len(dispatched)]
    BY <1>1, <1>6, <2>1, <2>3
  <2>4. QED BY <1>4, <1>5, <1>6, <2>1, <2>2, <2>3 DEF AnsweredInv
<1>11. QED BY <1>8, <1>9, <1>10

\* The handlers of two operations differ.
LEMMA HandlersDiffer ==
  ASSUME NEW op \in HandledOps
  PROVE  /\ Handler[op] # "none"
         /\ Handler[op] = "HandlerStack" <=> op = "stack-list-frames"
         /\ Handler[op] = "HandlerStackArgs" <=> op = "stack-list-arguments"
  BY DEF Handler, HandledOps

\* An output goes to the handler of the operation it answers, the arguments
\* of a stack find its frames, and what is posted is about one stop.
LEMMA DispatchAnswers ==
  ASSUME StackInv, Len(dispatched) < Len(emitted),
         SendNotifications(emitted[Len(dispatched) + 1]),
         dispatched' = Append(dispatched, emitted[Len(dispatched) + 1]),
         UNCHANGED <<emitted, handlers>>
  PROVE  AnsweredInv' /\ HandlersMatch' /\ StackOfOneStop'
<1> DEFINE d == Len(dispatched)
           o == emitted[d + 1]
           handler == IF o.class = "done" /\ o.tok \in DOMAIN handlers
                      THEN handlers[o.tok] ELSE "none"
<1>1. /\ emitted \in Seq(Output) /\ dispatched \in Seq(Output) /\ posted \in Seq(Notification)
      /\ d \in Nat /\ Len(emitted) \in Nat /\ d + 1 \in 1..Len(emitted)
      /\ DOMAIN handlers \subseteq Nat
  BY DEF StackInv, IInv, TypeOK
<1>2. TokensInv /\ AnsweredInv /\ ~failed /\ StackOfOneStop
  BY DEF StackInv, HandlersMatch
<1>3. Answerable(handlers, o)
  BY <1>1, <1>2 DEF TokensInv
<1>4. /\ handler # "none" => handler = Handler[o.op]
      /\ handler = "HandlerStack" <=> FramesOf(o)
      /\ handler = "HandlerStackArgs" <=> ArgumentsOf(o)
  <2> HIDE DEF d, o
  <2>1. CASE o.class = "done" /\ o.op \in HandledOps
    <3>1. handler = Handler[o.op]
      BY <1>3, <2>1 DEF Answerable
    <3>2. /\ handler # "none"
          /\ handler = "HandlerStack" <=> FramesOf(o)
          /\ handler = "HandlerStackArgs" <=> ArgumentsOf(o)
      BY <2>1, <3>1, HandlersDiffer DEF FramesOf, ArgumentsOf
    <3> HIDE DEF handler
    <3>3. QED BY <3>1, <3>2
  <2>2. CASE ~(o.class = "done" /\ o.op \in HandledOps)
    <3>1. handler = "none"
      BY <1>1, <1>3, <2>2 DEF Answerable, NoToken
    <3>2. ~FramesOf(o) /\ ~ArgumentsOf(o)
      BY <2>2 DEF FramesOf, ArgumentsOf, HandledOps
    <3> HIDE DEF handler
    <3>3. QED BY <3>1, <3>2
  <2>3. QED BY <2>1, <2>2
<1>5. ASSUME ArgumentsOf(o)
      PROVE  gotFrames /\ frames = o.at
  <2>1. d + 1 > 1 /\ FramesOf(emitted[d + 1 - 1]) /\ emitted[d + 1 - 1].at = emitted[d + 1].at
    BY <1>1, <1>2, <1>5 DEF AnsweredInv
  <2>2. d + 1 - 1 = d /\ d > 0
    BY <1>1, <2>1
  <2>3. FramesOf(emitted[d]) /\ emitted[d].at = o.at
    BY <2>1, <2>2
  <2>4. QED BY <1>2, <2>2, <2>3 DEF AnsweredInv
<1>6. /\ failed' = \/ failed
                   \/ handler # "none" /\ handler # Handler[o.op]
                   \/ handler = "HandlerStackArgs" /\ ~gotFrames
      /\ frames' = IF handler = "HandlerStack" THEN o.at ELSE frames
      /\ gotFrames' = CASE handler = "HandlerStack"     -> TRUE
                        [] handler = "HandlerStackArgs" -> FALSE
                        [] OTHER                        -> gotFrames
      /\ CASE handler = "HandlerStackArgs" -> Notify("OnRetrievedStack", frames, o.at)
           [] handler \notin {"none", "HandlerStack", "HandlerStackArgs"} ->
                Notify(handler, o.at, o.at)
           [] o.class = "stopped" -> Notify("OnStopped", o.at, o.at)
           [] OTHER -> UNCHANGED posted
  BY DEF SendNotifications
<1>7. dispatched' = Append(dispatched, o)
  OBVIOUS
<1> HIDE DEF handler, o, d
<1>8. ~failed'
  <2>1. ~(handler # "none" /\ handler # Handler[o.op])
    BY <1>4
  <2>2. ~(handler = "HandlerStackArgs" /\ ~gotFrames)
    BY <1>4, <1>5
  <2>3. QED BY <1>2, <1>6, <2>1, <2>2
<1>9. StackOfOneStop'
  <2>1. \/ posted' = posted
        \/ \E event, f : Notify(event, f, o.at) /\ f = o.at
    <3>1. handler = "HandlerStackArgs" => frames = o.at
      BY <1>4, <1>5
    <3>2. QED BY <1>6, <3>1
  <2>2. CASE posted' = posted
    BY <1>2, <2>2 DEF StackOfOneStop
  <2>3. ASSUME NEW event, Notify(event, o.at, o.at)
        PROVE  StackOfOneStop'
    <3> DEFINE n == [event |-> event, frames |-> o.at, args |-> o.at]
    <3>1. posted' = Append(posted, n) /\ n.frames = n.args
      BY <2>3 DEF Notify
    <3> HIDE DEF n
    <3>2. /\ Len(posted) \in Nat /\ DOMAIN posted' = 1..(Len(posted) + 1)
          /\ DOMAIN posted = 1..Len(posted)
          /\ posted'[Len(posted) + 1] = n
          /\ \A k \in 1..Len(posted) : posted'[k] = posted[k]
      BY <1>1, <3>1
    <3>3. QED BY <1>2, <3>1, <3>2 DEF StackOfOneStop
  <2>4. QED BY <2>1, <2>2, <2>3
<1>10. Len(dispatched') = d + 1 /\ emitted' = emitted /\ d + 1 > 0
  BY <1>1, <1>7, AppendProperties DEF d
<1>11. ASSUME FramesOf(o) PROVE gotFrames' /\ frames' = o.at
  BY <1>4, <1>6, <1>11
<1>12. AnsweredInv'
  <2>1. d + 1 <= Len(emitted)
    BY <1>1
  <2>2. emitted[d + 1] = o
    BY DEF o
  <2>3. QED BY <1>2, <1>10, <1>11, <2>1, <2>2 DEF AnsweredInv
<1>13. QED BY <1>8, <1>9, <1>12 DEF HandlersMatch

LEMMA InitStackInv == Init => StackInv
<1> SUFFICES ASSUME Init PROVE StackInv
  OBVIOUS
<1>1. IInv /\ OutInv
  BY InitIInv, InitOutInv
<1>2. TokensInv
  <2>1. /\ Len(submitted) = 1 /\ submitted[1].op = "enable-pretty-printing"
        /\ submitted[1].tok = NoToken /\ Len(emitted) = 0 /\ DOMAIN handlers = {}
    BY DEF Init
  <2>2. Answerable(handlers, submitted[1])
    BY <2>1 DEF Answerable, HandledOps
  <2>3. QED BY <2>1, <2>2 DEF TokensInv
<1>3. AskedInv
  <2>1. Len(submitted) = 1 /\ submitted[1].op = "enable-pretty-printing" /\ Len(received) = 0
    BY DEF Init
  <2>2. QED BY <2>1 DEF AskedInv
<1>4. AnsweredInv
  BY DEF Init, AnsweredInv
<1>5. HandlersMatch /\ StackOfOneStop
  BY DEF Init, HandlersMatch, StackOfOneStop
<1>6. QED BY <1>1, <1>2, <1>3, <1>4, <1>5 DEF StackInv

LEMMA StackInvStep == StackInv /\ [Next]_vars => StackInv'
<1> SUFFICES ASSUME StackInv, [Next]_vars PROVE StackInv'
  OBVIOUS
<1>1. IInv' /\ OutInv'
  BY IInvStep, OutInvStep DEF StackInv
<1>2. TokensInv /\ AskedInv /\ AnsweredInv /\ HandlersMatch /\ StackOfOneStop
  BY DEF StackInv
<1> SUFFICES TokensInv' /\ AskedInv' /\ AnsweredInv' /\ HandlersMatch' /\ StackOfOneStop'
  BY <1>1 DEF StackInv
<1>3. ASSUME /\ handlers' = handlers /\ nextToken' = nextToken /\ submitted' = submitted
             /\ received' = received /\ emitted' = emitted /\ gdbState' = gdbState
             /\ stops' = stops
      PROVE  TokensInv' /\ AskedInv'
  BY <1>2, <1>3 DEF TokensInv, AskedInv
<1>4. ASSUME /\ emitted' = emitted /\ dispatched' = dispatched /\ frames' = frames
             /\ gotFrames' = gotFrames /\ posted' = posted /\ failed' = failed
      PROVE  AnsweredInv' /\ HandlersMatch' /\ StackOfOneStop'
  BY <1>2, <1>4 DEF AnsweredInv, HandlersMatch, StackOfOneStop
<1>5. ASSUME posted' = posted /\ failed' = failed
      PROVE  HandlersMatch' /\ StackOfOneStop'
  BY <1>2, <1>5 DEF HandlersMatch, StackOfOneStop
<1>6. CASE UNCHANGED vars
  BY <1>3, <1>4, <1>6 DEF vars, notifyVars, gdbVars, historyVars
<1>7. CASE CompleteWrite \/ BeginDestroy \/ EndDestroy \/ KernelRead \/ KernelWrite \/ GdbWrite
  <2>1. /\ UNCHANGED <<handlers, nextToken, submitted, received, emitted, gdbState, stops>>
        /\ UNCHANGED <<emitted, dispatched, frames, gotFrames, posted, failed>>
    BY <1>7 DEF CompleteWrite, BeginDestroy, EndDestroy, KernelRead, KernelWrite, GdbWrite,
       notifyVars, gdbVars, historyVars
  <2>2. QED BY <1>3, <1>4, <2>1
<1>8. ASSUME NEW request \in Requests, RunRequest(request)
      PROVE  TokensInv' /\ AskedInv' /\ AnsweredInv' /\ HandlersMatch' /\ StackOfOneStop'
  <2>1. UNCHANGED <<emitted, dispatched, frames, gotFrames, posted, failed>>
    BY <1>8 DEF RunRequest
  <2>2. QED BY <1>4, <1>8, <2>1, RunRequestTokens
<1>9. CASE GdbReadCommand \/ GdbStops
  <2>1. UNCHANGED <<posted, failed>>
    BY <1>9 DEF GdbReadCommand, GdbStops, notifyVars
  <2>2. QED BY <1>5, <1>9, <2>1, GdbReadAnswers, GdbStopsAnswers
<1>10. CASE CompleteRead
  <2>1. UNCHANGED <<handlers, nextToken, submitted, received, emitted, gdbState, stops>>
    BY <1>10 DEF CompleteRead, gdbVars
  <2>2. \/ UNCHANGED <<frames, gotFrames, posted, failed, dispatched>>
        \/ /\ Len(dispatched) < Len(emitted)
           /\ SendNotifications(emitted[Len(dispatched) + 1])
           /\ dispatched' = Append(dispatched, emitted[Len(dispatched) + 1])
    BY <1>10, CompleteReadOutputs DEF StackInv
  <2>3. QED BY <1>3, <1>4, <2>1, <2>2, DispatchAnswers
<1>11. QED
  BY <1>6, <1>7, <1>8, <1>9, <1>10 DEF Next

\* No DCHECK of a handler fires: a token is handed out once, its handler is
\* registered before gdb can answer, and the frames of a stack are dispatched
\* just before its arguments.
THEOREM HandlersMatchHolds == Spec => []HandlersMatch
<1>1. StackInv => HandlersMatch
  BY DEF StackInv
<1>2. QED BY <1>1, InitStackInv, StackInvStep, PTL DEF Spec

\* The frames and the arguments merged into one stack are those of one stop,
\* although the program may be resumed and stop again between two requests.
THEOREM StackOfOneStopHolds == Spec => []StackOfOneStop
<1>1. StackInv => StackOfOneStop
  BY DEF StackInv
<1>2. QED BY <1>1, InitStackInv, StackInvStep, PTL DEF Spec
=============================================================================
