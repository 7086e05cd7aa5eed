----------------------- MODULE GdbNotificationsProofs -----------------------
(***************************************************************************)
(* What holds of the reader for every stream that gdb may write, in pieces *)
(* of every length.                                                        *)
(***************************************************************************)
EXTENDS GdbNotifications, SequenceTheorems, TLAPS

Buffers == stream \in Seq(Chars) /\ pipe \in Seq(Chars) /\ data \in Seq(Chars) /\ consumed \in Seq(Chars)
Scalars == phase \in StopKinds /\ pos \in Nat /\ error \in BOOLEAN /\ found \in BOOLEAN /\ next \in Nat \ {0}

Inv == Buffers /\ Scalars /\ BytesConserved

---------------------------------------------------------------------------
\* Cutting a sequence loses nothing.
LEMMA Cut ==
  ASSUME NEW S, NEW s \in Seq(S), NEW n \in Nat, n <= Len(s)
  PROVE  /\ SubSeq(s, 1, n) \in Seq(S) /\ SubSeq(s, n + 1, Len(s)) \in Seq(S)
         /\ SubSeq(s, 1, n) \o SubSeq(s, n + 1, Len(s)) = s
  <1>1. Len(s) \in Nat /\ \A i \in 1 .. Len(s) : s[i] \in S
    OBVIOUS
  <1>2. SubSeq(s, 1, n) \in Seq(S)
    BY <1>1, SubSeqProperties
  <1>3. SubSeq(s, n + 1, Len(s)) \in Seq(S)
    BY <1>1, SubSeqProperties
  <1>4. SubSeq(s, 1, n) \o SubSeq(s, n + 1, Len(s)) = SubSeq(s, 1, Len(s))
    <2>1. 1 \in 1 .. Len(s) + 1 /\ n \in 1 - 1 .. Len(s) /\ Len(s) \in n .. Len(s)
      BY <1>1
    <2>2. QED BY <2>1, ConcatAdjacentSubSeq
  <1>5. SubSeq(s, 1, Len(s)) = s
    BY SubSeqFull
  <1>6. QED BY <1>2, <1>3, <1>4, <1>5

\* Concatenation of these three may be grouped either way.
Regrouped(s, t, u) == (s \o t) \o u = s \o (t \o u)

LEMMA Regroup ==
  ASSUME NEW S, NEW s \in Seq(S), NEW t \in Seq(S), NEW u \in Seq(S)
  PROVE  Regrouped(s, t, u)
  BY ConcatAssociative DEF Regrouped

LEMMA NewlineRange ==
  ASSUME NEW i \in Nat
  PROVE  /\ NewlineLength(i) \in Nat
         /\ NewlineLength(i) > 0 => i + NewlineLength(i) - 1 <= Len(data) \/ Len(data) \notin Nat
  <1>1. CASE CharAt(i, {"cr"}) /\ CharAt(i + 1, {"lf"})
    BY <1>1 DEF NewlineLength, CharAt
  <1>2. CASE CharAt(i, {"cr"}) /\ ~CharAt(i + 1, {"lf"})
    BY <1>2 DEF NewlineLength, CharAt
  <1>3. CASE ~CharAt(i, {"cr"})
    BY <1>3 DEF NewlineLength
  <1>4. QED BY <1>1, <1>2, <1>3

LEMMA Lengths ==
  ASSUME Inv
  PROVE  /\ TokenLength \in Nat /\ TypeAt \in Nat
         /\ \A i : IdentifierLength(i) \in Nat
         /\ \A d : SkippedLineFeed(d) \in Nat
  BY DEF Inv, Scalars, TokenLength, TypeAt, IdentifierLength, SkippedLineFeed

\* The parser's steps but for the one that ends an output.
Within ==
  /\ phase' \in StopKinds /\ pos' \in Nat /\ error' \in BOOLEAN /\ found' \in BOOLEAN
  /\ UNCHANGED <<stream, pipe, data, consumed>>

LEMMA FailsWithin == ASSUME Inv, ParseFails PROVE Within
  BY DEF ParseFails, Within, Inv, Scalars, StopKinds
LEMMA StopWithin == ASSUME Inv, Stop PROVE Within
  BY DEF Stop, Within, Inv, Scalars, StopKinds, parserVars
LEMMA Moves ==
  ASSUME Inv, InParser, pos' \in Nat, error' \in BOOLEAN
  PROVE  Within
  BY DEF InParser, Within, Inv, Scalars
LEMMA Consumes == ASSUME Inv, NEW n \in Nat, Consume(n) PROVE pos' \in Nat
  BY DEF Consume, Inv, Scalars
LEMMA ErrorOrNot == ASSUME Inv, ReportError \/ UNCHANGED error PROVE error' \in BOOLEAN
  BY DEF ReportError, Inv, Scalars
LEMMA StaysAt == ASSUME Inv, UNCHANGED pos PROVE pos' \in Nat
  BY DEF Inv, Scalars
LEMMA SkipsComma == ASSUME Inv, SkipComma PROVE pos' \in Nat
  <1>1. (IF Is(",") THEN 1 ELSE 0) \in Nat
    OBVIOUS
  <1>2. QED BY <1>1, Consumes DEF SkipComma
LEMMA CallResultWithin == ASSUME Inv, NEW skip \in Nat, CallConsumeResult(skip), InParser PROVE Within
  <1> DEFINE n == skip + IdentifierLength(pos + skip + 1) + 1
  <1>1. n \in Nat
    BY Lengths
  <1>2. (Consume(n) /\ UNCHANGED error) \/ (ReportError /\ UNCHANGED pos)
    BY DEF CallConsumeResult
  <1> HIDE DEF n
  <1>3. QED BY <1>1, <1>2, Moves, Consumes, ErrorOrNot, StaysAt
LEMMA CallValueWithin == ASSUME Inv, CallConsumeValue, InParser PROVE Within
  <1>1. (Consume(1) /\ UNCHANGED error) \/ (ReportError /\ UNCHANGED pos)
    BY DEF CallConsumeValue
  <1>2. 1 \in Nat
    OBVIOUS
  <1>3. QED BY <1>1, <1>2, Moves, Consumes, ErrorOrNot, StaysAt

LEMMA RecordWithin ==
  ASSUME Inv, StreamRecord \/ AsyncOrResultRecord \/ TokenCheckFails \/ NoRecord \/ FinishRecord
  PROVE  Within
  <1> USE DEF Inv, Scalars, Within
  <1>1. CASE StreamRecord
    BY <1>1, Lengths DEF StreamRecord, InParser
  <1>2. CASE AsyncOrResultRecord
    BY <1>2, Lengths DEF AsyncOrResultRecord, InParser
  <1>3. CASE TokenCheckFails \/ NoRecord \/ RecordGetsError \/ NoEndOfRecord
    BY <1>3, FailsWithin, StopWithin DEF TokenCheckFails, NoRecord, RecordGetsError, NoEndOfRecord
  <1>4. CASE RecordGetsString
    BY <1>4 DEF RecordGetsString, InParser
  <1>5. CASE RecordGetsResult
    BY <1>5 DEF RecordGetsResult, InParser
  <1>6. CASE EndRecord
    <2>1. NewlineLength(pos + 1) \in Nat
      BY NewlineRange
    <2>2. QED BY <1>6, <2>1 DEF EndRecord, Consume
  <1>7. QED BY <1>1, <1>2, <1>3, <1>4, <1>5, <1>6 DEF FinishRecord

LEMMA ValueWithin ==
  ASSUME Inv, ParseResult \/ ParseString \/ ParseTuple \/ ParseList \/ DataEnds \/ ElementFails
  PROVE  Within
  <1>1. CASE ParseResult
    <2>1. CASE NextResult
      BY <2>1, CallResultWithin DEF NextResult
    <2>2. CASE ResultValue
      BY <2>2, CallValueWithin DEF ResultValue
    <2>3. CASE ResultReturns
      BY <2>3 DEF ResultReturns, InParser, Inv, Scalars, Within
    <2>4. QED BY <1>1, <2>1, <2>2, <2>3 DEF ParseResult
  <1>2. CASE ParseString
    <2>1. InParser /\ (ReportError \/ UNCHANGED error)
      BY <1>2 DEF ParseString, PlainChar, EscapedChar, OctalChar, EndString, BadString
    <2>2. Consume(1) \/ Consume(2) \/ Consume(4) \/ UNCHANGED pos
      BY <1>2 DEF ParseString, PlainChar, EscapedChar, OctalChar, EndString, BadString
    <2>3. 1 \in Nat /\ 2 \in Nat /\ 4 \in Nat
      OBVIOUS
    <2>4. QED BY <2>1, <2>2, <2>3, Moves, Consumes, ErrorOrNot, StaysAt
  <1>3. CASE ParseTuple
    <2>1. CASE TupleElement
      BY <2>1, CallResultWithin DEF TupleElement
    <2>2. CASE TupleGetsResult \/ EndTuple
      <3>1. InParser /\ UNCHANGED error
        BY <2>2 DEF TupleGetsResult, EndTuple
      <3>2. SkipComma \/ Consume(1)
        BY <2>2 DEF TupleGetsResult, EndTuple
      <3>3. 1 \in Nat
        OBVIOUS
      <3>4. QED BY <3>1, <3>2, <3>3, Moves, Consumes, SkipsComma, ErrorOrNot
    <2>3. QED BY <1>3, <2>1, <2>2 DEF ParseTuple
  <1>4. CASE ParseList
    <2>1. CASE ListResult
      BY <2>1, CallResultWithin DEF ListResult
    <2>2. CASE ListValueElement
      BY <2>2, CallValueWithin DEF ListValueElement
    <2>3. CASE ListGetsElement \/ EndList
      <3>1. InParser /\ UNCHANGED error
        BY <2>3 DEF ListGetsElement, EndList
      <3>2. SkipComma \/ Consume(1)
        BY <2>3 DEF ListGetsElement, EndList
      <3>3. 1 \in Nat
        OBVIOUS
      <3>4. QED BY <3>1, <3>2, <3>3, Moves, Consumes, SkipsComma, ErrorOrNot
    <2>4. CASE NullDereference
      BY <2>4, StopWithin DEF NullDereference
    <2>5. QED BY <1>4, <2>1, <2>2, <2>3, <2>4 DEF ParseList
  <1>5. CASE DataEnds \/ ElementFails
    BY <1>5 DEF DataEnds, ElementFails, InParser, Inv, Scalars, Within
  <1>6. QED BY <1>1, <1>2, <1>3, <1>4, <1>5

---------------------------------------------------------------------------
LEMMA InitInv == NInit => Inv
  <1> SUFFICES ASSUME NInit PROVE Inv
    OBVIOUS
  <1>1. stream \in Seq(Chars)
    BY StreamsAssumption DEF NInit, Init
  <1>2. Buffers
    BY <1>1 DEF NInit, Init, Buffers
  <1>3. Scalars
    <2>1. phase = "read" /\ pos = 0 /\ error = FALSE /\ found = FALSE /\ next = 1
      BY DEF NInit, Init
    <2>2. pos \in Nat /\ next \in Nat \ {0}
      BY <2>1
    <2>3. error \in BOOLEAN /\ found \in BOOLEAN
      BY <2>1
    <2>4. phase \in StopKinds
      BY <2>1 DEF StopKinds
    <2>5. QED BY <2>2, <2>3, <2>4 DEF Scalars
  <1>4. <<>> \o <<>> = <<>> /\ <<>> \o stream = stream
    BY <1>1, ConcatEmptySeq
  <1>5. BytesConserved
    BY <1>4 DEF NInit, Init, BytesConserved
  <1>6. QED BY <1>2, <1>3, <1>5 DEF Inv

\* A read moves the front of the pipe to the end of the data.
LEMMA CompleteReadInv == ASSUME Inv, NEW n \in 1 .. Len(pipe), NCompleteRead(n) PROVE Inv'
  <1> DEFINE front == SubSeq(pipe, 1, n)
             rest == SubSeq(pipe, n + 1, Len(pipe))
  <1>1. front \in Seq(Chars) /\ rest \in Seq(Chars) /\ front \o rest = pipe
    BY Cut DEF Inv, Buffers
  <1>2. data' = data \o front /\ pipe' = rest /\ UNCHANGED <<stream, consumed>>
    BY DEF NCompleteRead, CompleteRead
  <1> HIDE DEF front, rest
  <1>3. Buffers'
    BY <1>1, <1>2, ConcatProperties DEF Inv, Buffers
  <1>4. Scalars'
    <2>1. SkippedLineFeed(data') \in Nat
      BY Lengths
    <2>2. phase' = "parse" /\ pos' = SkippedLineFeed(data') /\ error' = FALSE /\ found' = FALSE /\ next' = 1
      BY DEF NCompleteRead, CompleteRead
    <2>3. pos' \in Nat /\ next' \in Nat \ {0}
      BY <2>1, <2>2
    <2>4. error' \in BOOLEAN /\ found' \in BOOLEAN
      BY <2>2
    <2>5. phase' \in StopKinds
      BY <2>2 DEF StopKinds
    <2>6. QED BY <2>3, <2>4, <2>5 DEF Scalars
  <1>5. consumed \o (data \o front) \in Seq(Chars) /\ consumed \o data \in Seq(Chars)
    BY <1>1, ConcatProperties DEF Inv, Buffers
  <1>6. (consumed \o (data \o front)) \o rest = (consumed \o data) \o pipe
    <2>1. consumed \o (data \o front) = (consumed \o data) \o front
      <3>1. consumed \in Seq(Chars) /\ data \in Seq(Chars)
        BY DEF Inv, Buffers
      <3>2. front \in Seq(Chars)
        BY <1>1
      <3>3. QED
        <4>1. Regrouped(consumed, data, front)
          BY ONLY <3>1, <3>2, Regroup
        <4>2. QED BY ONLY <4>1 DEF Regrouped
    <2>2. front \in Seq(Chars) /\ rest \in Seq(Chars) /\ consumed \o data \in Seq(Chars)
      BY <1>1, <1>5
    <2>3. ((consumed \o data) \o front) \o rest = (consumed \o data) \o (front \o rest)
      <3>1. Regrouped(consumed \o data, front, rest)
        BY ONLY <2>2, Regroup
      <3>2. QED BY ONLY <3>1 DEF Regrouped
    <2>4. QED BY <1>1, <2>1, <2>3
  <1>7. BytesConserved'
    BY <1>2, <1>6 DEF Inv, BytesConserved
  <1>8. QED BY <1>3, <1>4, <1>7 DEF Inv

\* The end of an output lies within the data, and the data is cut there.
LEMMA TerminatorInv == ASSUME Inv, TerminatorRecord, UNCHANGED next PROVE Inv'
  <1> DEFINE end == TypeAt + 1 + NewlineLength(TypeAt + 2)
             front == SubSeq(data, 1, end)
             rest == SubSeq(data, end + 1, Len(data))
  <1>1. TypeAt \in Nat /\ Len(data) \in Nat
    BY Lengths DEF Inv, Buffers
  <1>2. end \in Nat /\ end <= Len(data)
    <2>1. NewlineLength(TypeAt + 2) > 0
      BY DEF TerminatorRecord, EndsOutput
    <2>2. TypeAt + 2 \in Nat
      BY <1>1
    <2>3. NewlineLength(TypeAt + 2) \in Nat /\ TypeAt + 2 + NewlineLength(TypeAt + 2) - 1 <= Len(data)
      BY <1>1, <2>1, <2>2, NewlineRange
    <2>4. QED BY <1>1, <2>3
  <1>3. front \in Seq(Chars) /\ rest \in Seq(Chars) /\ front \o rest = data
    BY <1>2, Cut DEF Inv, Buffers
  <1>4. /\ pos' = end /\ consumed' = consumed \o front /\ data' = rest
        /\ phase' = "notify" /\ found' = TRUE /\ UNCHANGED <<stream, pipe, error>>
    BY DEF TerminatorRecord
  <1> HIDE DEF end, front, rest
  <1>5. Buffers'
    BY <1>3, <1>4, ConcatProperties DEF Inv, Buffers
  <1>6. Scalars'
    BY <1>2, <1>4 DEF Inv, Scalars, StopKinds
  <1>7. (consumed \o front) \o rest = consumed \o data
    <2>1. consumed \in Seq(Chars)
      BY DEF Inv, Buffers
    <2>2. front \in Seq(Chars) /\ rest \in Seq(Chars)
      BY <1>3
    <2>3. (consumed \o front) \o rest = consumed \o (front \o rest)
      <3>1. Regrouped(consumed, front, rest)
        BY ONLY <2>1, <2>2, Regroup
      <3>2. QED BY ONLY <3>1 DEF Regrouped
    <2>4. QED BY <1>3, <2>3
  <1>8. BytesConserved'
    BY <1>4, <1>7 DEF Inv, BytesConserved
  <1>9. QED BY <1>5, <1>6, <1>8 DEF Inv

LEMMA ParseInv == ASSUME Inv, NParse PROVE Inv'
  <1>1. CASE TerminatorRecord
    BY <1>1, TerminatorInv DEF NParse
  <1>2. CASE Within
    BY <1>2 DEF NParse, Within, Inv, Buffers, Scalars, BytesConserved
  <1>3. QED BY <1>1, <1>2, RecordWithin, ValueWithin DEF NParse, Parse, ParseRecord

\* What a handler does to the reader: go on to the next record, or stop.
Handles ==
  /\ UNCHANGED <<stream, pipe, data, consumed, parserVars>>
  /\ phase' \in StopKinds
  /\ next' \in {next, next + 1}

LEMMA PostHandles == ASSUME Inv, NEW checks, NEW name, NEW d, PostIf(checks, name, d) PROVE Handles
  BY DEF PostIf, StopUnless, Continue, Stop, Handles, Inv, Scalars, StopKinds, vars
LEMMA ContinueHandles == ASSUME Inv, Continue PROVE Handles
  BY DEF Continue, Handles, Inv, Scalars, vars
LEMMA StopHandles == ASSUME Inv, NEW checks, StopUnless(checks) PROVE Handles
  BY DEF StopUnless, Stop, Handles, StopKinds

LEMMA NotificationHandles == ASSUME Inv, SendNotifications PROVE Handles
  <1>1. CASE HandlerStack
    BY <1>1, ContinueHandles, StopHandles DEF HandlerStack
  <1>2. CASE HandlerStackArgs
    BY <1>2, ContinueHandles, StopHandles DEF HandlerStackArgs
  <1>3. CASE HandlerVariables \/ HandlerCreateVariable \/ HandlerVariableListChildren
    BY <1>3, PostHandles DEF HandlerVariables, HandlerCreateVariable, HandlerVariableListChildren
  <1>4. CASE HandlerVariableUpdates
    BY <1>4, PostHandles, ContinueHandles DEF HandlerVariableUpdates
  <1>5. CASE StoppedAtBreakpoint \/ StoppedAfterStepping \/ LibraryIsLoaded
    BY <1>5, PostHandles DEF StoppedAtBreakpoint, StoppedAfterStepping, LibraryIsLoaded
  <1>6. CASE StoppedWithoutReason \/ Text \/ NotImplemented
    BY <1>6, StopHandles, ContinueHandles DEF StoppedWithoutReason, Text, NotImplemented
  <1>7. CASE StartRead
    BY <1>7 DEF StartRead, Handles, StopKinds
  <1>8. QED BY <1>1, <1>2, <1>3, <1>4, <1>5, <1>6, <1>7 DEF SendNotifications

LEMMA NextInv == Inv /\ [NNext]_allVars => Inv'
  <1> SUFFICES ASSUME Inv, [NNext]_allVars PROVE Inv'
    OBVIOUS
  <1>1. CASE \E n \in 1 .. Len(pipe) : NCompleteRead(n)
    BY <1>1, CompleteReadInv
  <1>2. CASE NParse
    BY <1>2, ParseInv
  <1>3. CASE SendNotifications
    <2>1. Handles
      BY <1>3, NotificationHandles
    <2>2. QED BY <2>1 DEF Handles, parserVars, Inv, Buffers, Scalars, BytesConserved
  <1>4. CASE UNCHANGED allVars
    BY <1>4 DEF allVars, vars, parserVars, Inv, Buffers, Scalars, BytesConserved
  <1>5. QED BY <1>1, <1>2, <1>3, <1>4 DEF NNext

LEMMA InvAlways == Spec => []Inv
  BY InitInv, NextInv, PTL DEF Spec

\* Whatever gdb writes and however reads tear it, no byte of it is lost,
\* repeated or parsed twice (debug_core_gdb.cc 77-101, gdb_mi_parse.cc 406-431).
THEOREM BytesConservedAlways == Spec => []BytesConserved
  <1>1. Inv => BytesConserved
    BY DEF Inv
  <1>2. QED BY <1>1, InvAlways, PTL

\* The reader's buffers are pieces of gdb's output and its position a number.
THEOREM ReaderTypes == Spec => []TypeOK
  <1>1. Inv => TypeOK
    BY DEF Inv, Buffers, Scalars, TypeOK
  <1>2. QED BY <1>1, InvAlways, PTL
=============================================================================
