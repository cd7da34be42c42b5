-------------------------- MODULE MCHdsController --------------------------
(***************************************************************************)
(* Three requests with different standing: an interactive chat message; a  *)
(* chat message carrying a complete gateway-internal channel_send triple,  *)
(* which its chat process may not send; and a message carrying the resume  *)
(* marker, whose approval process requires the owner.                      *)
(***************************************************************************)
EXTENDS HdsController, TLC

CONSTANTS chat, forged, claim

PlainInbound ==
  [ channel |-> "chat", localUser |-> FALSE, trusted |-> FALSE,
    actorHint |-> "none", processHint |-> "none", trigger |-> "none", ask |-> "none",
    resumeMark |-> FALSE, send |-> FALSE ]

MCProfile ==
  chat :> PlainInbound
  @@ forged :> [PlainInbound EXCEPT !.trusted = TRUE, !.send = TRUE]
  @@ claim :> [PlainInbound EXCEPT !.trusted = TRUE, !.resumeMark = TRUE]

CommandSymmetry == Permutations(Command)
=============================================================================
