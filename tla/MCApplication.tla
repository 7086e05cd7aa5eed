--------------------------- MODULE MCApplication ---------------------------
(***************************************************************************)
(* An instance of Application for TLC: four threads, two texts that reach  *)
(* every state of the lexer.                                               *)
(***************************************************************************)
EXTENDS Application

MCCanPost == {<<0, 1>>, <<0, 2>>, <<2, 0>>}

Code == <<"#", "op", "nl", "keyword", "quote", "bs", "quote", "quote", "blank", Slash, Slash, "name", "nl", "name">>
Comments == <<"#if0", "nl", "#", "if", "nl", "#", "endif", "nl", "#", "endif", "nl", Slash, Star, "nl", Star, Slash, "op", "nl", "nl">>
MCGreetings == {Code, Comments}

Fragments == [type : TokenTypes, text : Seq(Symbols)]
MCTasks == [kind : Kinds, text : MCGreetings \cup {Empty}, lines : Seq(Seq(Fragments))]
=============================================================================
