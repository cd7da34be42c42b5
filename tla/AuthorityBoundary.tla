------------------------- MODULE AuthorityBoundary -------------------------
(***************************************************************************)
(* What the authority plane promises about each command, whatever tokens,  *)
(* queues and awaits lie in between: a command starts to run at most once; *)
(* one that needs final review runs only by way of waiting for a human and *)
(* that human's approval; and what was refused or has run stays so.        *)
(***************************************************************************)
CONSTANT Command

VARIABLES
  status,   \* Command -> Status
  final     \* commands whose running needs their own final review

Status == {"idle", "waiting", "running", "finished", "refused"}

TypeOK == status \in [Command -> Status] /\ final \subseteq Command

Init == status = [c \in Command |-> "idle"] /\ final = {}

Move(c, from, to) == status[c] = from /\ status' = [status EXCEPT ![c] = to]

(* A new command is settled by policy on the spot, which may let it run only
   if it needs no final review, or is put to a human.                       *)
Clear(c) == Move(c, "idle", "running") /\ UNCHANGED final
Hold(c)  == /\ Move(c, "idle", "waiting") \/ Move(c, "idle", "refused")
            /\ final' \in {final, final \cup {c}}

(* The human's verdict, and the end of a run.                               *)
Judge(c)  == /\ Move(c, "waiting", "running") \/ Move(c, "waiting", "refused")
             /\ UNCHANGED final
Finish(c) == Move(c, "running", "finished") /\ UNCHANGED final

Next == \E c \in Command : Clear(c) \/ Hold(c) \/ Judge(c) \/ Finish(c)

Spec == Init /\ [][Next]_<<status, final>>
=============================================================================
