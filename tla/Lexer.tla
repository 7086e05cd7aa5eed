------------------------------- MODULE Lexer -------------------------------
(***************************************************************************)
(* Lexer::GetTokensUnprocessed (lexer.cc) with the rules of the C++ lexer  *)
(* (cpp_lexer.cc): a stack of states, each an ordered list of rules; the   *)
(* first rule that matches in front takes its text and may push or pop a   *)
(* state.  A rule's regular expression becomes the length it matches.      *)
(*                                                                         *)
(* A text is a sequence of symbols: an identifier, a keyword, a number, a  *)
(* blank, an operator are one each, since no rule breaks them up.          *)
(* #if 0 is one symbol, which rules take whole or not at all.              *)
(***************************************************************************)
EXTENDS Naturals, Sequences

\* Symbols that one rule of "root" takes whole, with their token type.
WordType ==
  [name |-> "Name", endif |-> "Name", keyword |-> "Keyword", if |-> "Keyword", type |-> "KeywordType", reserved |-> "KeywordReserved",
   pseudo |-> "KeywordPseudo", true |-> "KeywordConstant", NULL |-> "NameBuiltin",
   float |-> "LiteralNumberFloat", hex |-> "LiteralNumberHex", oct |-> "LiteralNumberOct",
   int |-> "LiteralNumberInteger", char |-> "LiteralStringChar",
   brace |-> "Punctuation", punct |-> "Punctuation", op |-> "Operator"]
\* What the rules make of a symbol, a comment, a string or an error.
TokenTypes == {WordType[w] : w \in DOMAIN WordType} \cup
  {"Text", "CommentPreproc", "Comment", "CommentMultiline", "CommentSingle", "LiteralString", "LiteralStringEscape", "Error"}
Slash == "/"
Star == "*"
Blanks == {"blank", "nl"}
Hashes == {"#", "#if0"}
Symbols == DOMAIN WordType \cup Blanks \cup Hashes \cup {Slash, Star, "quote", "bs"}

Upto(in, n) == SubSeq(in, 1, n)
One(in, S) == IF in # <<>> /\ in[1] \in S THEN 1 ELSE 0
Two(in, s, S) == IF Len(in) >= 2 /\ in[1] = s /\ in[2] \in S THEN 2 ELSE 0
\* The greedy S*, and the shortest text that has the property.
Run(in, S) ==
  CHOOSE n \in 0..Len(in) : (\A k \in 1..n : in[k] \in S) /\ (n < Len(in) => in[n + 1] \notin S)
Shortest(in, P(_)) ==
  LET ends == {n \in 1..Len(in) : P(Upto(in, n))}
  IN IF ends = {} THEN 0 ELSE CHOOSE n \in ends : \A m \in ends : n <= m
ThroughNewline(in) == Shortest(in, LAMBDA p : p[Len(p)] = "nl")

\* A backslash and a line feed may come between the two characters that open
\* or close a comment.
Opening(in, c) ==
  CASE Two(in, Slash, {c}) = 2 -> 2
    [] Len(in) >= 4 /\ Upto(in, 4) = <<Slash, "bs", "nl", c>> -> 4
    [] OTHER -> 0
Ends(p, s) == Len(p) >= Len(s) /\ SubSeq(p, Len(p) - Len(s) + 1, Len(p)) = s
Closing == {<<Star, Slash>>, <<Star, "bs", "nl", Slash>>}
SingleComment(in) ==
  LET o == Opening(in, Slash)
  IN IF o = 0 THEN 0
     ELSE Shortest(in, LAMBDA p : /\ Len(p) > o /\ p[Len(p)] = "nl"
                                  /\ Len(p) = o + 1 \/ p[Len(p) - 1] # "bs")
MultiComment(in, o, closing) ==
  IF o = 0 THEN 0
  ELSE Shortest(in, LAMBDA p : \E c \in closing : Len(p) >= o + Len(c) /\ Ends(p, c))
StartsWith(in, s) == Len(in) >= Len(s) /\ Upto(in, Len(s)) = s
Directive(in, words) ==
  LET b == Run(in, Blanks)
      rest == SubSeq(in, b + 1, Len(in))
  IN IF \E w \in words : StartsWith(rest, w) THEN b + ThroughNewline(rest) ELSE 0

Rule(length, type, new) == [length |-> length, type |-> type, new |-> new]
Stay == "stay"
Push == "!<push>"
Pop == "!<pop>"

If0Rules(in) == <<
  Rule(Directive(in, {<<"#", "if">>, <<"#if0">>}), "CommentPreproc", Push),
  Rule(Directive(in, {<<"#", "endif">>}), "CommentPreproc", Pop),
  Rule(ThroughNewline(in), "Comment", Stay) >>

MacroRules(in) == <<
  Rule(Run(in, Symbols \ {Slash, "nl"}), "CommentPreproc", Stay),
  Rule(MultiComment(in, Two(in, Slash, {Star}), {<<Star, Slash>>}), "CommentMultiline", Stay),
  Rule(IF Two(in, Slash, {Slash}) = 2 THEN ThroughNewline(in) ELSE 0, "CommentSingle", Pop),
  Rule(One(in, {Slash}), "CommentPreproc", Stay),
  Rule(One(in, {"nl"}), "CommentPreproc", Pop) >>

If0(in) == IF One(in, {"#if0"}) = 1 THEN 1 + Run(Tail(in), Blanks) ELSE 0
RootRules(in) == <<
  Rule(If0(in), "CommentPreproc", "if0"),
  Rule(One(in, {"#"}), "CommentPreproc", "macro"),
  Rule(One(in, {"nl"}), "Text", Stay),
  Rule(Run(in, Blanks), "Text", Stay),
  Rule(Two(in, "bs", {"nl"}), "Text", Stay),
  Rule(SingleComment(in), "CommentSingle", Stay),
  Rule(MultiComment(in, Opening(in, Star), Closing), "CommentMultiline", Stay),
  Rule(One(in, {"quote"}), "LiteralString", "string"),
  Rule(Two(in, Star, {Slash}), "Error", Stay),
  Rule(One(in, {Slash, Star}), "Operator", Stay),
  Rule(One(in, DOMAIN WordType), IF One(in, DOMAIN WordType) = 1 THEN WordType[in[1]] ELSE "Text", Stay) >>

StringRules(in) == <<
  Rule(One(in, {"quote"}), "LiteralString", Pop),
  Rule(Two(in, "bs", {"bs", "quote", "oct"}), "LiteralStringEscape", Stay),
  Rule(Run(in, Symbols \ {"bs", "quote", "nl"}), "LiteralString", Stay),
  Rule(Two(in, "bs", {"nl"}), "LiteralString", Stay),
  Rule(One(in, {"bs"}), "LiteralString", Stay) >>

\* Mutation: the rules of "root" end before the one for single operators.
RulesWithoutWords(state, in) ==
  CASE state = "root" -> SubSeq(RootRules(in), 1, 9)
    [] state = "if0" -> If0Rules(in)
    [] state = "macro" -> MacroRules(in)
    [] state = "string" -> StringRules(in)
Rules(state, in) ==
  CASE state = "root" -> RootRules(in)
    [] state = "if0" -> If0Rules(in)
    [] state = "macro" -> MacroRules(in)
    [] state = "string" -> StringRules(in)

---------------------------------------------------------------------------
\* Where GetTokensUnprocessed is: its stack, the text left, the tokens so far.
LexStart(symbols) == [stack |-> <<"root">>, input |-> symbols, tokens |-> <<>>]
State(l) == l.stack[Len(l.stack)]
Token(type, value) == [type |-> type, value |-> value]
Rest(l, n) == SubSeq(l.input, n + 1, Len(l.input))

Transition(stack, new) ==
  CASE new = Stay -> stack
    [] new = Push -> Append(stack, stack[Len(stack)])
    [] new = Pop -> SubSeq(stack, 1, Len(stack) - 1)
    [] OTHER -> Append(stack, new)

\* One round of the loop.  A line feed that no rule takes resets the stack.
\* Anything else that no rule takes is only NOTREACHED: nothing changes.
LexRound(l) ==
  LET rules == Rules(State(l), l.input)
      matching == {i \in DOMAIN rules : rules[i].length > 0}
      first == rules[CHOOSE i \in matching : \A j \in matching : i <= j]
  IN CASE matching # {} ->
            [stack |-> Transition(l.stack, first.new), input |-> Rest(l, first.length),
             tokens |-> Append(l.tokens, Token(first.type, Upto(l.input, first.length)))]
       [] matching = {} /\ One(l.input, {"nl"}) = 1 ->
            [stack |-> <<"root">>, input |-> Rest(l, 1), tokens |-> Append(l.tokens, Token("Text", <<"nl">>))]
       [] OTHER -> l

\* Every round that changes something takes a symbol: the loop ends, or goes
\* round for ever where a round changes nothing.
States == {"root", "if0", "macro", "string"}
\* No rule of root leaves it.
Stacks == {stack \in Seq(States) : stack # <<>> /\ stack[1] = "root"}
Lexings == [stack : Stacks, input : Seq(Symbols), tokens : Seq([type : TokenTypes, value : Seq(Symbols)])]
Lex[l \in Lexings] == IF LexRound(l) = l THEN l ELSE Lex[LexRound(l)]
LexEnds(symbols) == Lex[LexStart(symbols)].input = <<>>
GetTokensUnprocessed(symbols) == Lex[LexStart(symbols)].tokens
=============================================================================
