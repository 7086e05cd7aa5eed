------------------------- MODULE MCGdbNotifications -------------------------
(***************************************************************************)
(* Instances of GdbNotifications for TLC: what gdb prints for each kind of *)
(* answer and event, with the values the text stands for, and the          *)
(* conversations made of them.  A printed value is a text and a value.     *)
(***************************************************************************)
EXTENDS GdbNotifications

Commas(texts) == IF texts = <<>> THEN <<>> ELSE Tail(FlattenSeq([i \in DOMAIN texts |-> <<",">> \o texts[i]]))
Texts(printed) == [i \in DOMAIN printed |-> printed[i].text]
Values(printed) == [i \in DOMAIN printed |-> printed[i].value]

Str(s) == [text |-> <<"quote">> \o s \o <<"quote">>, value |-> StringValue(s)]
Named(name, v) == [text |-> <<name, "=">> \o v.text, value |-> ResultOf(name, v.value)]
Tuple(rs) ==
  [text |-> <<"{">> \o Commas(Texts(rs)) \o <<"}">>,
   value |-> TupleValue([n \in {rs[i].value.name : i \in DOMAIN rs} |->
                           rs[CHOOSE i \in DOMAIN rs : rs[i].value.name = n].value.value])]
List(items) ==
  [text |-> <<"[">> \o Commas(Texts(items)) \o <<"]">>, value |-> ListValue(Values(items))]
ListOfResults(rs) ==
  [List(rs) EXCEPT !.value = ListValue([i \in DOMAIN rs |-> Tuple(<<rs[i]>>).value])]
F(name, s) == Named(name, Str(s))
S(name, word) == F(name, <<word>>)

CRLF == <<"cr", "lf">>
Line(token, type, class, rs) ==
  [text |-> (IF token = NoToken THEN <<>> ELSE <<token>>) \o <<type, class>>
            \o (IF rs = <<>> THEN <<>> ELSE <<",">> \o Commas(Texts(rs))) \o CRLF,
   value |-> [type |-> type, token |-> token, id |-> class, results |-> Values(rs)]]
TextLine(type, s, decoded) ==
  [text |-> <<type, "quote">> \o s \o <<"quote">> \o CRLF,
   value |-> [type |-> type, token |-> NoToken, id |-> decoded, results |-> <<>>]]
Done(token, rs) == Line(token, "^", "done", rs)
Prompt(lf) == <<"(", "gdb) ", "cr">> \o (IF lf THEN <<"lf">> ELSE <<>>)

Note(name, d) == [name |-> name, data |-> d]
Out(lines, says) == [text |-> FlattenSeq(Texts(lines)) \o Prompt(TRUE), lf |-> TRUE, records |-> Values(lines),
                     says |-> says, unconvertible |-> FALSE]
Unconvertible(o) == [o EXCEPT !.unconvertible = TRUE]
OnlyCR(o) == [o EXCEPT !.text = SubSeq(@, 1, Len(@) - 1), !.lf = FALSE]

---------------------------------------------------------------------------
\* The commands that have been sent, by token.
MCHandlers ==
  "10" :> [handler |-> "HandlerStack"] @@ "11" :> [handler |-> "HandlerStackArgs"]
  @@ "12" :> [handler |-> "HandlerVariables"] @@ "13" :> [handler |-> "HandlerCreateVariable"]
  @@ "14" :> [handler |-> "HandlerVariableUpdates"] @@ "15" :> [handler |-> "HandlerVariableListChildren", parent |-> "V1"]

FrameFields(addr) == <<S("addr", addr), S("func", "main"), S("file", "a.cc"), S("line", "7")>>
FrameMeant(addr) == [address |-> <<addr>>, function |-> <<"main">>, filename |-> <<"a.cc">>, line |-> <<"7">>, arguments |-> <<>>]
Bare == <<S("addr", "0x1"), S("func", "f")>>      \* no symbols
BareMeant == [address |-> <<"0x1">>, function |-> <<"f">>, filename |-> <<>>, line |-> Zero, arguments |-> <<>>]
Argument(value) == Tuple(<<S("name", "x"), S("type", "int")>> \o value)
ArgumentMeant == [n \in {"name", "type", "value"} |-> CASE n = "name" -> <<"x">> [] n = "type" -> <<"int">> [] OTHER -> <<"5">>]

StackLine(addr) == Done("10", <<Named("stack", ListOfResults(<<Named("frame", Tuple(FrameFields(addr))), Named("frame", Tuple(Bare))>>))>>)
ArgsLine(fs) == Done("11", <<Named("stack-args", ListOfResults([i \in DOMAIN fs |-> Named("frame", Tuple(<<Named("args", List(fs[i]))>>))]))>>)

Stack == Out(<<StackLine("0x1")>>, <<>>)
FarStack == Unconvertible(Out(<<StackLine("0xffffffff")>>, <<>>))
Args == Out(<<ArgsLine(<< <<Argument(<<S("value", "5")>>)>>, <<>> >>)>>,
            <<Note("OnRetrievedStack", <<[FrameMeant("0x1") EXCEPT !.arguments = <<ArgumentMeant>>], BareMeant>>)>>)
OtherDepth == Out(<<ArgsLine(<< <<Argument(<<>>)>> >>)>>, <<Note("OnRetrievedStack", <<FrameMeant("0x1"), BareMeant>>)>>)
\* --simple-values prints no value for a struct.
Struct == Unconvertible(Out(<<ArgsLine(<< <<Argument(<<>>)>>, <<>> >>)>>, <<>>))
Locals == Out(<<Done("12", <<Named("variables", List(<<Tuple(<<S("name", "a")>>), Tuple(<<S("name", "x")>>)>>))>>)>>,
              <<Note("OnRetrievedLocals", << <<"a">>, <<"x">> >>)>>)
Created == Out(<<Done("13", <<S("name", "V1"), S("numchild", "0"), S("value", "5"), S("type", "int"), S("has_more", "1")>>)>>,
               <<Note("OnWatchCreated", [variable_id |-> <<"V1">>, has_children |-> TRUE, value |-> <<"5">>, type |-> <<"int">>])>>)
Unchanged == Out(<<Done("14", <<Named("changelist", List(<<>>))>>)>>, <<>>)
OctalText == <<"backslash", "3", "6", "0">>
Updated ==
  Out(<<Done("14", <<Named("changelist", List(<<Tuple(<<S("name", "V1"),
              [F("value", OctalText) EXCEPT !.value.value = StringValue(<<Wide>>)],
              S("type_changed", "false"), S("has_more", "0")>>)>>))>>)>>,
      <<Note("OnWatchesUpdated", <<[variable_id |-> <<"V1">>, value |-> <<Wide>>, type_changed |-> FALSE, has_children |-> FALSE]>>)>>)
ChildMeant(name, type, more) ==
  [variable_id |-> <<name>>, expression |-> <<name>>, value |-> <<>>, type |-> type, has_children |-> more]
Children ==
  Out(<<Done("15", <<S("numchild", "2"), Named("children", ListOfResults(<<
          Named("child", Tuple(<<S("name", "a"), S("exp", "a"), S("numchild", "0"), S("type", "int")>>)),
          Named("child", Tuple(<<S("name", "public"), S("exp", "public"), S("numchild", "2")>>))>>))>>)>>,
      <<Note("OnWatchChildList", [parent |-> "V1", children |-> <<ChildMeant("a", <<"int">>, FALSE), ChildMeant("public", <<>>, TRUE)>>])>>)
NoChild == Out(<<Done("15", <<S("numchild", "0"), S("has_more", "0")>>)>>, <<Note("OnWatchChildList", [parent |-> "V1", children |-> <<>>])>>)
Failed == Out(<<Line("13", "^", "error", <<S("msg", "x")>>)>>, <<>>)

StopLine(reason, addr) == Line(NoToken, "*", "stopped", <<S("reason", reason), Named("frame", Tuple(FrameFields(addr)))>>)
Breaks == Out(<<TextLine("~", <<"x", "backslash", "n">>, <<"x", "lf">>), StopLine("breakpoint-hit", "0x1")>>,
              <<Note("OnConsoleOutput", <<"x", "lf">>), Note("OnStoppedAtBreakpoint", FrameMeant("0x1"))>>)
Steps == Out(<<Line(NoToken, "*", "running", <<S("thread-id", "1")>>), StopLine("end-stepping-range", "0x1"), TextLine("&", <<"x">>, <<"x">>)>>,
             <<Note("OnStoppedAfterStepping", FrameMeant("0x1")), Note("OnInternalDebugOutput", <<"x">>)>>)
Exits == Out(<<Line(NoToken, "*", "stopped", <<S("reason", "exited-normally")>>)>>, <<>>)
Attaches == Unconvertible(Out(<<Line(NoToken, "*", "stopped", <<>>)>>, <<>>))
Loads == Out(<<Line(NoToken, "=", "library-loaded", <<S("id", "x"), S("target-name", "a"), S("host-name", "a"),
                                                     S("symbols-loaded", "0"), S("thread-group", "1")>>)>>,
             <<Note("OnLibraryLoaded", [target_path |-> <<"a">>, host_path |-> <<"a">>, thread_id |-> <<"1">>, symbols_loaded |-> FALSE])>>)

\* What the debuggee prints, on the pipe it shares with gdb: a word, or a number
\* in front of a line of gdb's.  Nothing after it is understood.
Word == [text |-> <<"main">> \o CRLF, lf |-> TRUE, stray |-> TRUE]
Number == [text |-> <<"5">> \o Breaks.text, lf |-> TRUE, stray |-> TRUE]
BadEscape == [text |-> <<"~", "quote", "backslash", "x">> \o CRLF, lf |-> TRUE, stray |-> TRUE]

---------------------------------------------------------------------------
\* The constants of the specification.
Conversations ==
  {<<Stack, Args>>, <<Stack, OtherDepth>>, <<OnlyCR(Stack), Struct>>, <<FarStack>>, <<Locals, Created>>, <<Failed, Locals>>,
   <<Unchanged, OnlyCR(Updated), Children>>, <<Children, NoChild>>, <<OnlyCR(Breaks), Steps>>, <<Loads, Exits>>,
   <<Steps, Attaches>>, <<Word, Exits>>, <<Exits, Word, Locals>>, <<Exits, Number>>, <<BadEscape, Exits>>}
StackConversation == {<<Stack>>}
StreamOf(c) == FlattenSeq([i \in DOMAIN c |-> c[i].text])
AllStreams == {StreamOf(c) : c \in Conversations}
StackStreams == {StreamOf(c) : c \in StackConversation}

IsStray(o) == "stray" \in DOMAIN o
BeforeStray(c) == SubSeq(c, 1, IF \E i \in DOMAIN c : IsStray(c[i]) THEN (CHOOSE i \in DOMAIN c : IsStray(c[i]) /\ \A j \in 1..i-1 : ~IsStray(c[j])) - 1 ELSE Len(c))
MeantBy == [s \in AllStreams |->
  LET outs == BeforeStray(CHOOSE c \in Conversations : StreamOf(c) = s)
  IN [i \in DOMAIN outs |-> [length |-> Len(outs[i].text), lf |-> outs[i].lf, records |-> outs[i].records,
                             says |-> outs[i].says, unconvertible |-> outs[i].unconvertible]]]
MCOutputsIn == MeantBy

Addresses == {<<"0x1">>}
Words == {"done", "error", "stopped", "running", "library-loaded", "stack", "stack-args", "variables", "changelist", "frame",
          "args", "addr", "func", "file", "line", "name", "type", "value", "exp", "child", "children", "numchild", "has_more",
          "type_changed", "msg", "reason", "id", "target-name", "host-name", "symbols-loaded", "thread-group", "thread-id", "main", "x"}
Digits == {"0", "1", "2", "5", "7", "10", "11", "12", "13", "14", "15"}
DigitTexts == {<<d>> : d \in Digits}
AllChars == UNION {{s[i] : i \in DOMAIN s} : s \in AllStreams}
=============================================================================
