----------------------- MODULE GdbToGenericConverter -----------------------
(***************************************************************************)
(* backend/gdb_to_generic_converter.cc: from the values of a parsed record *)
(* to the data of a notification (backend/backend.h).  For each conversion *)
(* XChecks says that none of its CHECKs (or NOTREACHED) fails, and X is    *)
(* what it returns then.  Texts stay texts; base::StringToInt, which is    *)
(* outside src/, gives 0 for a text that is missing or no number.          *)
(***************************************************************************)
EXTENDS Naturals, Sequences

CONSTANTS
  IntAddresses,   \* the hexadecimal texts that fit in an int
  IntTexts        \* the decimal texts that fit in an int

Has(d, name, kind) == name \in DOMAIN d /\ d[name].kind = kind
Field(d, name) == IF Has(d, name, "string") THEN d[name].chars ELSE <<>>
HasFields(d, names) == \A n \in names : Has(d, n, "string")
AllTuples(list) == \A i \in DOMAIN list : list[i].kind = "tuple"

Zero == <<"0">>
\* Mutation: a text that is missing counts as a number above zero.
PositiveUnlessZero(text) == text # Zero
Positive(text) == text \notin {<<>>, Zero}      \* base::StringToInt(text) > 0

\* FindStringValue, FindDictionaryValue, FindListValue: the first result of
\* that name and kind; NOTREACHED if there is none.
Matching(results, name, kind) == {i \in DOMAIN results : results[i].name = name /\ results[i].value.kind = kind}
Finds(results, name, kind) == Matching(results, name, kind) # {}
Find(results, name, kind) ==
  LET found == Matching(results, name, kind)
  IN results[CHOOSE i \in found : \A j \in found : i <= j].value
FindString(results, name) == Find(results, name, "string").chars
FindsStrings(results, names) == \A n \in names : Finds(results, n, "string")

\* Without symbols gdb gives neither file nor line.
\* Mutation: the file is insisted on.
FrameChecksFile(d) == HasFields(d, {"addr", "func", "file"}) /\ d["addr"].chars \in IntAddresses
FrameChecks(d) == HasFields(d, {"addr", "func"}) /\ d["addr"].chars \in IntAddresses
FrameData(d) ==
  [address |-> Field(d, "addr"), function |-> Field(d, "func"), filename |-> Field(d, "file"),
   line |-> IF Field(d, "line") = <<>> THEN Zero ELSE Field(d, "line"), arguments |-> <<>>]

\* StoppedAtBreakpointDataFromRecordResults and its twin for steps.
StoppedChecks(results) == Finds(results, "frame", "tuple") /\ FrameChecks(Find(results, "frame", "tuple").dict)
StoppedFrame(results) == FrameData(Find(results, "frame", "tuple").dict)

FramesOf(list) == [i \in DOMAIN list |-> list[i].dict["frame"].dict]
FrameListChecks(value) ==
  /\ value.kind = "list" /\ AllTuples(value.items)
  /\ \A i \in DOMAIN value.items : Has(value.items[i].dict, "frame", "tuple")

RetrievedStackChecks(value) ==
  /\ FrameListChecks(value)
  /\ \A i \in DOMAIN value.items : FrameChecks(FramesOf(value.items)[i])
RetrievedStack(value) == [i \in DOMAIN value.items |-> FrameData(FramesOf(value.items)[i])]

TypeNameValueChecks(d) == HasFields(d, {"name", "type", "value"})
TypeNameValue(d) == [n \in {"name", "type", "value"} |-> Field(d, n)]

ArgumentsChecks(frame) ==
  /\ Has(frame, "args", "list") /\ AllTuples(frame["args"].items)
  /\ \A j \in DOMAIN frame["args"].items : TypeNameValueChecks(frame["args"].items[j].dict)
Arguments(frame) == [j \in DOMAIN frame["args"].items |-> TypeNameValue(frame["args"].items[j].dict)]

\* MergeArgumentsIntoStackFrameData: as many frames on both sides, or none is touched.
SameDepth(stack, value) == Len(value.items) = Len(stack)
MergeArgumentsChecks(stack, value) ==
  /\ value.kind = "list"
  /\ SameDepth(stack, value) =>
       FrameListChecks(value) /\ \A i \in DOMAIN value.items : ArgumentsChecks(FramesOf(value.items)[i])
MergeArguments(stack, value) ==
  IF SameDepth(stack, value)
  THEN [i \in DOMAIN stack |-> [stack[i] EXCEPT !.arguments = @ \o Arguments(FramesOf(value.items)[i])]]
  ELSE stack

RetrievedLocalsChecks(value) ==
  /\ value.kind = "list" /\ AllTuples(value.items)
  /\ \A i \in DOMAIN value.items : HasFields(value.items[i].dict, {"name"})
RetrievedLocals(value) == [i \in DOMAIN value.items |-> Field(value.items[i].dict, "name")]

LibraryLoadedChecks(results) ==
  /\ FindsStrings(results, {"target-name", "host-name", "thread-group", "symbols-loaded"})
  /\ FindString(results, "symbols-loaded") \in IntTexts
LibraryLoaded(results) ==
  [target_path |-> FindString(results, "target-name"), host_path |-> FindString(results, "host-name"),
   thread_id |-> FindString(results, "thread-group"), symbols_loaded |-> Positive(FindString(results, "symbols-loaded"))]

WatchCreatedChecks(results) == FindsStrings(results, {"name", "numchild", "has_more", "value", "type"})
WatchCreated(results) ==
  [variable_id |-> FindString(results, "name"), value |-> FindString(results, "value"), type |-> FindString(results, "type"),
   has_children |-> Positive(FindString(results, "numchild")) \/ Positive(FindString(results, "has_more"))]

WatchesUpdatedChecks(value) ==
  /\ value.kind = "list" /\ AllTuples(value.items)
  /\ \A i \in DOMAIN value.items : HasFields(value.items[i].dict, {"name", "type_changed"})
WatchUpdate(d) ==
  [variable_id |-> Field(d, "name"), value |-> Field(d, "value"), type_changed |-> Field(d, "type_changed") = <<"true">>,
   has_children |-> Field(d, "has_more") = <<"1">> \/ Positive(Field(d, "numchild"))]
WatchesUpdated(value) == [i \in DOMAIN value.items |-> WatchUpdate(value.items[i].dict)]

\* Members such as "public" have no type, and complex ones no value.
NoChildren(results) == FindString(results, "numchild") = Zero
ChildrenOf(results) == Find(results, "children", "list").items
ChildOf(item) == item.dict["child"].dict
ChildListChecks(results) ==
  /\ Finds(results, "numchild", "string")
  /\ NoChildren(results) \/
       /\ Finds(results, "children", "list") /\ AllTuples(ChildrenOf(results))
       /\ \A i \in DOMAIN ChildrenOf(results) :
            /\ Has(ChildrenOf(results)[i].dict, "child", "tuple")
            /\ HasFields(ChildOf(ChildrenOf(results)[i]), {"name", "exp", "numchild"})
Child(d) ==
  [variable_id |-> Field(d, "name"), expression |-> Field(d, "exp"), value |-> Field(d, "value"), type |-> Field(d, "type"),
   has_children |-> Positive(Field(d, "numchild")) \/ Positive(Field(d, "has_more"))]
WatchesChildList(results) ==
  IF NoChildren(results) THEN <<>>
  ELSE [i \in DOMAIN ChildrenOf(results) |-> Child(ChildOf(ChildrenOf(results)[i]))]
=============================================================================
