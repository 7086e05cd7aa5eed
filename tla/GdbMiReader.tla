---------------------------- MODULE GdbMiReader ----------------------------
(***************************************************************************)
(* GdbMiReader and GdbMiParser (backend/gdb_mi_parse.cc): the recursive    *)
(* descent over what gdb has written so far, run again from the start of   *)
(* the unparsed data after every read.                                     *)
(*                                                                         *)
(* The parser is a stack of the functions that have been called, each with *)
(* its locals; `returned' is what the last one to return gave its caller.  *)
(* An identifier, a number and a run of plain text are one character each. *)
(***************************************************************************)
EXTENDS Naturals, Sequences

CONSTANTS
  Chars,          \* what gdb's stream is made of
  Names,          \* identifiers (runs of IsIdentifierChar)
  Numbers,        \* runs of digits
  Streams         \* what gdb may write: sequences of characters

ASSUME StreamsAssumption == Streams \subseteq Seq(Chars)

VARIABLES
  stream,    \* all that gdb writes
  pipe,      \* the part of it that no read has returned
  data,      \* ReaderWriter::unused_read_data_
  consumed,  \* history: the part of the stream that outputs were made of
  phase,     \* "read", "parse", "notify" or "stopped"
  pos,       \* GdbMiParser::pos_, from the start of data
  error,     \* GdbMiParser::error_
  stack,     \* the calls of the parser
  returned,  \* the value on its way to the caller
  output,    \* records of the GdbOutput being built, then of the one returned
  found      \* did the last parse return an output?

parserVars == <<pos, error, stack, returned, output, found>>
vars == <<stream, pipe, data, consumed, phase, parserVars>>

Nothing == [kind |-> "nothing"]         \* no function has just returned
NullValue == [kind |-> "null"]          \* NULL for a base::Value
NullResult == [kind |-> "null result"]  \* NULL for a GdbRecordResult
StringValue(s) == [kind |-> "string", chars |-> s]
TupleValue(d) == [kind |-> "tuple", dict |-> d]
ListValue(l) == [kind |-> "list", items |-> l]
ResultOf(name, v) == [kind |-> "result", name |-> name, value |-> v]

StreamTypes == {"~", "@", "&"}
AsyncAndResultTypes == {"^", "*", "+", "="}
Terminator == "("
Escapes == [quote |-> "quote", backslash |-> "backslash", slash |-> "slash", b |-> "bs",
            f |-> "ff", n |-> "lf", r |-> "cr", t |-> "tab", v |-> "vt"]
NoToken == "no token"
NoName == "no name"
Octal == {"0", "1", "2", "3", "4", "5", "6", "7", "8", "9"}
Wide == "wide"     \* whatever an octal escape is decoded to

CanConsume(n) == pos + n <= Len(data)
CharAt(i, S) == i <= Len(data) /\ data[i] \in S
Is(c) == CharAt(pos + 1, {c})

Frame == stack[Len(stack)]
Running(fn) == phase = "parse" /\ stack # <<>> /\ Frame.fn = fn
InLoop(fn) == Running(fn) /\ returned = Nothing       \* fn itself goes on
Receives(fn) == Running(fn) /\ returned # Nothing     \* what fn called has returned

Consume(n) == pos' = pos + n
Call(f) == stack' = Append(stack, f) /\ returned' = Nothing
Update(f) == stack' = [stack EXCEPT ![Len(stack)] = f] /\ returned' = Nothing
Return(v) == stack' = SubSeq(stack, 1, Len(stack) - 1) /\ returned' = v
ReportError == error' = TRUE

InParser == UNCHANGED <<stream, pipe, data, consumed, phase, output, found>>

Init ==
  /\ stream \in Streams
  /\ pipe = stream
  /\ data = <<>>
  /\ consumed = <<>>
  /\ phase = "read"
  /\ pos = 0
  /\ error = FALSE
  /\ stack = <<>>
  /\ returned = Nothing
  /\ output = <<>>
  /\ found = FALSE

(***************************************************************************)
(* A read completes with any part of what gdb has written, and all data    *)
(* not yet consumed is parsed.  A line feed in front belongs to the end of *)
(* the previous output.                                                    *)
(***************************************************************************)
\* Mutation: the line feed is not skipped.
NoSkippedLineFeed(d) == 0
SkippedLineFeed(d) == IF d[1] = "lf" THEN 1 ELSE 0

CompleteRead(n) ==
  /\ phase = "read"
  /\ n \in 1..Len(pipe)
  /\ data' = data \o SubSeq(pipe, 1, n)
  /\ pipe' = SubSeq(pipe, n + 1, Len(pipe))
  /\ phase' = "parse"
  /\ pos' = SkippedLineFeed(data')
  /\ error' = FALSE
  /\ output' = <<>>
  /\ found' = FALSE
  /\ UNCHANGED <<stream, consumed, stack, returned>>

ParseFails ==       \* NULL, and no bytes consumed
  /\ phase' = "read"
  /\ error' = TRUE
  /\ stack' = <<>>
  /\ returned' = Nothing
  /\ output' = <<>>
  /\ UNCHANGED <<stream, pipe, data, consumed, pos, found>>

Stop ==             \* the process ends
  /\ phase' = "stopped"
  /\ UNCHANGED <<stream, pipe, data, consumed, parserVars>>

NewlineLength(i) ==    \* what ConsumeNewline consumes at i: CR, or CR and LF
  IF CharAt(i, {"cr"}) THEN IF CharAt(i + 1, {"lf"}) THEN 2 ELSE 1 ELSE 0

---------------------------------------------------------------------------
(***************************************************************************)
(* One record: an optional token, the character that gives its type, and   *)
(* what the type calls for.                                                *)
(***************************************************************************)
AtRecord == phase = "parse" /\ stack = <<>>
TokenLength == IF CharAt(pos + 1, Numbers) THEN 1 ELSE 0
Token == IF TokenLength = 1 THEN data[pos + 1] ELSE NoToken
TypeAt == pos + TokenLength + 1
Typed(S) == AtRecord /\ CharAt(TypeAt, S)

IdentifierLength(i) == IF CharAt(i, Names) THEN 1 ELSE 0
IdentifierEnds(i) == i + IdentifierLength(i) <= Len(data)
Identifier(i) == IF CharAt(i, Names) THEN data[i] ELSE NoName

NewRecord(id) == [fn |-> "Parse", type |-> data[TypeAt], token |-> Token, id |-> id, results |-> <<>>]
NewString == [fn |-> "ConsumeString", chars |-> <<>>]

StartsText == Typed(StreamTypes) /\ CharAt(TypeAt + 1, {"quote"})
StartsClass == Typed(AsyncAndResultTypes) /\ IdentifierEnds(TypeAt + 1)
EndsOutput == Typed({Terminator}) /\ CharAt(TypeAt + 1, {"gdb) "}) /\ NewlineLength(TypeAt + 2) > 0
TokenForbidden == Typed(StreamTypes \cup {Terminator}) /\ Token # NoToken

StreamRecord ==
  /\ StartsText /\ ~TokenForbidden
  /\ pos' = TypeAt + 1
  /\ stack' = <<NewRecord(<<>>), NewString>>
  /\ UNCHANGED <<error, returned>>
  /\ InParser

AsyncOrResultRecord ==
  /\ StartsClass
  /\ pos' = TypeAt + IdentifierLength(TypeAt + 1)
  /\ stack' = <<NewRecord(Identifier(TypeAt + 1))>>
  /\ UNCHANGED <<error, returned>>
  /\ InParser

\* Mutation: bytes_consumed counts from behind the line feed that was skipped.
TerminatorRecordWithoutSkipped ==
  /\ EndsOutput /\ ~TokenForbidden
  /\ LET end == TypeAt + 1 + NewlineLength(TypeAt + 2) - SkippedLineFeed(data)
     IN /\ pos' = end
        /\ consumed' = consumed \o SubSeq(data, 1 + SkippedLineFeed(data), end)
        /\ data' = SubSeq(data, end + 1, Len(data))
  /\ phase' = "notify"
  /\ found' = TRUE
  /\ UNCHANGED <<stream, pipe, error, stack, returned, output>>

\* The prompt ends the output: GdbMiReader::Parse returns it, and ReaderWriter
\* takes the bytes it was made of off its data.
TerminatorRecord ==
  /\ EndsOutput /\ ~TokenForbidden
  /\ LET end == TypeAt + 1 + NewlineLength(TypeAt + 2)
     IN /\ pos' = end
        /\ consumed' = consumed \o SubSeq(data, 1, end)
        /\ data' = SubSeq(data, end + 1, Len(data))
  /\ phase' = "notify"
  /\ found' = TRUE
  /\ UNCHANGED <<stream, pipe, error, stack, returned, output>>

TokenCheckFails == TokenForbidden /\ Stop     \* CHECK_EQ(0, token.size())

NoRecord == AtRecord /\ ~(StartsText \/ StartsClass \/ EndsOutput \/ TokenForbidden) /\ ParseFails

RecordGetsString ==
  /\ Receives("Parse") /\ returned.kind = "string"
  /\ Update([Frame EXCEPT !.id = returned.chars])
  /\ UNCHANGED <<pos, error>>
  /\ InParser

RecordGetsResult ==
  /\ Receives("Parse") /\ returned.kind = "result"
  /\ Update([Frame EXCEPT !.results = Append(@, returned)])
  /\ UNCHANGED <<pos, error>>
  /\ InParser

RecordGetsError ==
  /\ Receives("Parse") /\ error
  /\ ParseFails

MoreResults == Frame.type \in AsyncAndResultTypes /\ Is(",")

EndRecord ==
  /\ InLoop("Parse") /\ ~MoreResults
  /\ NewlineLength(pos + 1) > 0
  /\ Consume(NewlineLength(pos + 1))
  /\ output' = Append(output, [type |-> Frame.type, token |-> Frame.token, id |-> Frame.id, results |-> Frame.results])
  /\ stack' = <<>>
  /\ UNCHANGED <<stream, pipe, data, consumed, phase, error, returned, found>>

NoEndOfRecord ==
  /\ InLoop("Parse") /\ ~MoreResults
  /\ NewlineLength(pos + 1) = 0
  /\ ParseFails

---------------------------------------------------------------------------
(***************************************************************************)
(* ConsumeResult: identifier, "=", value.  Called at offset `skip' from    *)
(* pos: after the comma of a record, in front of an element of a tuple or  *)
(* of a list.                                                              *)
(***************************************************************************)
ResultStarts(i) == IdentifierEnds(i) /\ CharAt(i + IdentifierLength(i), {"="})

CallConsumeResult(skip) ==
  LET i == pos + skip + 1
  IN \/ /\ ResultStarts(i)
        /\ Consume(skip + IdentifierLength(i) + 1)
        /\ Call([fn |-> "ConsumeResult", name |-> Identifier(i)])
        /\ UNCHANGED error
     \/ /\ ~ResultStarts(i)
        /\ ReportError
        /\ returned' = NullResult
        /\ UNCHANGED <<pos, stack>>

NextResult == InLoop("Parse") /\ MoreResults /\ CallConsumeResult(1) /\ InParser

NewTuple == [fn |-> "ConsumeTuple", dict |-> << >>]
NewList == [fn |-> "ConsumeList", items |-> << >>]

CallConsumeValue ==     \* ConsumeValue
  \/ /\ CharAt(pos + 1, {"quote", "{", "["})
     /\ Consume(1)
     /\ Call(CASE Is("quote") -> NewString [] Is("{") -> NewTuple [] Is("[") -> NewList)
     /\ UNCHANGED error
  \/ /\ ~CharAt(pos + 1, {"quote", "{", "["})
     /\ ReportError
     /\ returned' = NullValue
     /\ UNCHANGED <<pos, stack>>

ResultValue == InLoop("ConsumeResult") /\ CallConsumeValue /\ InParser

\* A NULL value without an error is taken: the data ended inside it.
ResultReturns ==
  /\ Receives("ConsumeResult")
  /\ Return(IF error THEN NullResult ELSE ResultOf(Frame.name, returned))
  /\ UNCHANGED <<pos, error>>
  /\ InParser

---------------------------------------------------------------------------
(***************************************************************************)
(* Strings.                                                                *)
(***************************************************************************)
Escaped == IF CharAt(pos + 2, DOMAIN Escapes \cup Octal) THEN data[pos + 2] ELSE NoName

PlainChar ==
  /\ InLoop("ConsumeString") /\ CanConsume(1)
  /\ ~CharAt(pos + 1, {"quote", "backslash"})
  /\ Consume(1)
  /\ Update([Frame EXCEPT !.chars = Append(@, data[pos + 1])])
  /\ UNCHANGED error
  /\ InParser

EscapedChar ==
  /\ InLoop("ConsumeString") /\ Is("backslash")
  /\ Escaped \in DOMAIN Escapes
  /\ Consume(2)
  /\ Update([Frame EXCEPT !.chars = Append(@, Escapes[Escaped])])
  /\ UNCHANGED error
  /\ InParser

\* Three digits are taken without a test that there are three.
OctalChar ==
  /\ InLoop("ConsumeString") /\ Is("backslash")
  /\ Escaped \in Octal
  /\ Consume(4)
  /\ Update([Frame EXCEPT !.chars = Append(@, Wide)])
  /\ UNCHANGED error
  /\ InParser

EndString ==
  /\ InLoop("ConsumeString") /\ Is("quote")
  /\ Consume(1)
  /\ Return(StringValue(Frame.chars))
  /\ UNCHANGED error
  /\ InParser

BadString ==
  /\ InLoop("ConsumeString")
  /\ \/ ~CanConsume(1)
     \/ Is("backslash") /\ Escaped = NoName
  /\ ReportError
  /\ Return(NullValue)
  /\ UNCHANGED pos
  /\ InParser

---------------------------------------------------------------------------
(***************************************************************************)
(* Tuples and lists: elements until the bracket that closes them.  A comma *)
(* between elements is skipped, not required.  At the end of the data both *)
(* return NULL without an error.                                           *)
(***************************************************************************)
SkipComma == Consume(IF Is(",") THEN 1 ELSE 0)

TupleElement == InLoop("ConsumeTuple") /\ CanConsume(1) /\ ~Is("}") /\ CallConsumeResult(0) /\ InParser

TupleGetsResult ==
  /\ Receives("ConsumeTuple") /\ ~error
  /\ Update([Frame EXCEPT !.dict = [n \in DOMAIN @ \cup {returned.name} |-> IF n = returned.name THEN returned.value ELSE @[n]]])
  /\ SkipComma
  /\ UNCHANGED error
  /\ InParser

EndTuple ==
  /\ InLoop("ConsumeTuple") /\ Is("}")
  /\ Consume(1)
  /\ Return(TupleValue(Frame.dict))
  /\ UNCHANGED error
  /\ InParser

ListResult == InLoop("ConsumeList") /\ CharAt(pos + 1, Names) /\ CallConsumeResult(0) /\ InParser

ListValueElement ==
  InLoop("ConsumeList") /\ CanConsume(1) /\ ~CharAt(pos + 1, Names \cup {"]"}) /\ CallConsumeValue /\ InParser

\* Mutation: the value alone.
ListItemUnnamed(v) == IF v.kind = "result" THEN v.value ELSE v

\* A result in a list becomes a dictionary of one entry.
ListItem(v) == IF v.kind = "result" THEN TupleValue([n \in {v.name} |-> v.value]) ELSE v

ListGetsElement ==
  /\ Receives("ConsumeList") /\ ~error
  /\ Update([Frame EXCEPT !.items = Append(@, ListItem(returned))])
  /\ SkipComma
  /\ UNCHANGED error
  /\ InParser

EndList ==
  /\ InLoop("ConsumeList") /\ Is("]")
  /\ Consume(1)
  /\ Return(ListValue(Frame.items))
  /\ UNCHANGED error
  /\ InParser

\* Mutation: the loops do not test for the end of the data.
DataEndsUnnoticed == FALSE

DataEnds ==
  /\ \/ InLoop("ConsumeTuple")
     \/ InLoop("ConsumeList")
  /\ ~CanConsume(1)
  /\ Return(NullValue)
  /\ UNCHANGED <<pos, error>>
  /\ InParser

ElementFails ==     \* error_ is tested
  /\ error
  /\ \/ Receives("ConsumeTuple")
     \/ Receives("ConsumeList") /\ returned # NullResult
  /\ Return(NullValue)
  /\ UNCHANGED <<pos, error>>
  /\ InParser

\* Mutation: ConsumeTuple does not test error_ either.
NullDereferenceInTuple ==
  /\ \/ Receives("ConsumeList")
     \/ Receives("ConsumeTuple")
  /\ returned = NullResult
  /\ Stop

NullDereference ==  \* sub_result->variable() without a test of error_
  /\ Receives("ConsumeList") /\ returned = NullResult
  /\ Stop

---------------------------------------------------------------------------
ParseRecord == StreamRecord \/ AsyncOrResultRecord \/ TerminatorRecord \/ TokenCheckFails \/ NoRecord
FinishRecord == RecordGetsString \/ RecordGetsResult \/ RecordGetsError \/ EndRecord \/ NoEndOfRecord
ParseResult == NextResult \/ ResultValue \/ ResultReturns
ParseString == PlainChar \/ EscapedChar \/ OctalChar \/ EndString \/ BadString
ParseTuple == TupleElement \/ TupleGetsResult \/ EndTuple
ParseList == ListResult \/ ListValueElement \/ ListGetsElement \/ EndList \/ NullDereference
Parse == ParseRecord \/ FinishRecord \/ ParseResult \/ ParseString \/ ParseTuple \/ ParseList \/ DataEnds \/ ElementFails
=============================================================================
