--------------------------- MODULE CommandChannel ---------------------------
(***************************************************************************)
(* What the asynchronous link to gdb promises its user, without buffers,   *)
(* pipes or I/O completions: commands reach gdb one at a time, in the      *)
(* order they were submitted, none lost, none twice, none altered.         *)
(*                                                                         *)
(* debug_core_gdb.h: "design the visible interface from this level to be   *)
(* async, so when we write commands to gdb we can assume there's no need   *)
(* to coordinate with the output it's giving us."                          *)
(***************************************************************************)
EXTENDS Naturals, Sequences

CONSTANT Message

VARIABLES submitted,  \* every command handed to the link, in order
          received    \* every command gdb has read, in order

channelVars == <<submitted, received>>

\* Opening the link may already submit commands of its own.
Init == submitted \in Seq(Message) /\ received = <<>>

\* A task of the BACKEND thread hands over one or more commands at once.
Submit ==
  /\ submitted' \in Seq(Message)
  /\ Len(submitted') > Len(submitted)
  /\ SubSeq(submitted', 1, Len(submitted)) = submitted
  /\ UNCHANGED received

Deliver ==
  /\ Len(received) < Len(submitted)
  /\ received' = Append(received, submitted[Len(received) + 1])
  /\ UNCHANGED submitted

Next == Submit \/ Deliver

Spec == Init /\ [][Next]_channelVars
=============================================================================
