----------------------------- MODULE MCChatTurn -----------------------------
(***************************************************************************)
(* ChatTurn with two overlapping turns, one of them small talk, on an      *)
(* empty chat, a chat with an opening message and a chat long enough to be *)
(* summarised.                                                             *)
(*                                                                         *)
(* While a turn gathers, streams or records, each of its steps changes     *)
(* only its own record and reads nothing another turn writes, so it can be *)
(* moved before the steps of the others: MCNext takes such steps first.    *)
(***************************************************************************)
EXTENDS ChatTurn

CONSTANTS t1, t2

Alone(t) == turn[t].pc \in Gathering \union
                {"folded", "prompted", "streaming", "stored", "record", "recorded", "closing"}

Own(t) == Gather(t) \/ RecordFold(t) \/ Reply(t) \/ Fail(t) \/ Abort(t)

MCNext ==
    \/ \E t \in Turns : Alone(t) /\ Own(t)
    \/ (\A t \in Turns : ~Alone(t)) /\ Next

MCSpec == Init /\ [][MCNext]_vars /\ Fairness

\* POST /answer and the turns it starts; nobody edits or regenerates.
AnswersOnly == Init /\ [][\E t \in Turns : Answer(t) \/ Gather(t) \/ Assemble(t) \/ Reply(t)]_vars
=============================================================================
