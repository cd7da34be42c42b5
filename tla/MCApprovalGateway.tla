------------------------ MODULE MCApprovalGateway ------------------------
(***************************************************************************)
(* Two file writes to the same path, and a command under final review,     *)
(* the creation of a schedule.  Alice sends all of them; in                *)
(* MCOtherRequester Bob sends the second write.  The grant file is empty,  *)
(* or forbids Alice's writes, or grants her full access.                   *)
(***************************************************************************)
EXTENDS ApprovalGateway, TLC

CONSTANTS write1, write2, reviewed

ToolRequest(tool) ==
  [ channel |-> "chat", localUser |-> FALSE, trusted |-> FALSE,
    actorHint |-> "none", processHint |-> "none", trigger |-> "none", ask |-> tool,
    resumeMark |-> FALSE, send |-> FALSE ]

Writes == write1 :> ToolRequest("file_write") @@ write2 :> ToolRequest("file_write")
MCScheduleProfile == [r \in Request |-> (Writes @@ reviewed :> ToolRequest("schedule_create"))[r]]

MCRequester      == [r \in Request |-> "alice"]
MCOtherRequester == [r \in Request |-> IF r = write2 THEN "bob" ELSE "alice"]
MCTarget         == [r \in Request |-> IF r = reviewed THEN "task" ELSE "notes"]

Denial ==
  [ from |-> "boot",
    grant |-> [ operation |-> "tool.file.write", scope |-> "*", target |-> "none",
                isPath |-> FALSE, risk |-> "*", actor |-> "alice", caps |-> {},
                decision |-> "deny", expires |-> Never ] ]
MCBootGrants == { << >>, << Denial >> }

(* Or it holds what an approval remembered as full access left there before
   the gateway was last started.                                            *)
FullAccess ==
  [ from |-> "boot",
    grant |-> [ operation |-> "*", scope |-> "*", target |-> "none",
                isPath |-> FALSE, risk |-> "*", actor |-> "alice", caps |-> {},
                decision |-> "allow", expires |-> Never ] ]
MCFullAccessGrants == { << >>, << FullAccess >> }

CommandSymmetry == Permutations(Command)
=============================================================================
