---------------------------- MODULE MCDebugSession ----------------------------
(***************************************************************************)
(* Instances of DebugSession for TLC.                                      *)
(***************************************************************************)
EXTENDS DebugSession

\* A local with a field and one without, in scope together or not.
TwoLocals  == [x |-> 2, y |-> 0]
TwoScopes  == {<<"x">>, <<"y", "x">>}

\* One local that is in scope at some stops.
OneLocal   == [x |-> 0]
SomeScopes == {<<"x">>, <<>>}
OneField   == [x |-> 1]
OneScope   == {<<"x">>}
=============================================================================
