--------------------------- MODULE ExecutorProofs ---------------------------
(***************************************************************************)
(* What the executor reports is so, and its tools stay where they may be,  *)
(* for every set of commands and adapters, any number of redirects and     *)
(* retries, and whatever names resolve to, services answer and timers do.  *)
(*                                                                         *)
(* The checks of a tool are sequences of pairs, and Passes says that each  *)
(* of them holds (SaysFacts).  A step of an invocation moves that one only *)
(* and keeps it Sound, which is shown tool by tool from a few forms of a   *)
(* step: it is refused, settles, goes on, or visits a place.  The sends    *)
(* count their copies against their attempts, and the invariant of the     *)
(* executor relates feedback to both.                                      *)
(***************************************************************************)
EXTENDS Executor, SequenceTheorems, WellFoundedInduction, TLAPS

-----------------------------------------------------------------------------
(* Checks: does it pass, and what does its error say of a mutation?         *)
Check == BOOLEAN \X {"invalid", "unsent"}

(* A pair of a truth value and a word is a check. *)
LEMMA Pairs ==
  ASSUME NEW b \in BOOLEAN, NEW word \in {"invalid", "unsent"}
  PROVE  <<b, word>> \in Check /\ (<<b, word>>[1] <=> b)
BY DEF Check

(* Each check of ToolChecks is one. *)
LEMMA ArgumentChecks ==
  ASSUME NEW names, NEW args
  PROVE  /\ Needs(names, args) \in Check
         /\ Fits(args) \in Check
<1>1. Needs(names, args) \in Check
  <2>1. PICK b \in BOOLEAN : b = (names \subseteq args)
    OBVIOUS
  <2> QED BY <2>1, Pairs DEF Needs
<1>2. Fits(args) \in Check
  <2>1. PICK b \in BOOLEAN : b = ("misfit" \notin args)
    OBVIOUS
  <2> QED BY <2>1, Pairs DEF Fits
<1> QED BY <1>1, <1>2

(* The checks of paths are checks. *)
LEMMA PlaceChecks ==
  ASSUME NEW root, NEW p
  PROVE  /\ SandboxRootFromEnv(root) \in Check
         /\ ShellRootFromEnv(root) \in Check
         /\ ResolveFileSearchRoot(p) \in Check
         /\ ResolveParent(p) \in Check
         /\ ResolveShellCwd(p) \in Check
<1>1. SandboxRootFromEnv(root) \in Check
  <2>1. PICK b \in BOOLEAN : b = (root = "directory")
    OBVIOUS
  <2> QED BY <2>1, Pairs DEF SandboxRootFromEnv
<1>2. ShellRootFromEnv(root) \in Check
  <2>1. PICK b \in BOOLEAN : b = (root = "directory")
    OBVIOUS
  <2> QED BY <2>1, Pairs DEF ShellRootFromEnv
<1>3. ResolveFileSearchRoot(p) \in Check
  <2>1. PICK b \in BOOLEAN : b = (p.named = "inside" /\ p.leads = "inside")
    OBVIOUS
  <2> QED BY <2>1, Pairs DEF ResolveFileSearchRoot
<1>4. ResolveParent(p) \in Check
  <2>1. PICK b \in BOOLEAN : b = (p.named = "inside" /\ p.leads # "outside")
    OBVIOUS
  <2> QED BY <2>1, Pairs DEF ResolveParent
<1>5. ResolveShellCwd(p) \in Check
  <2>1. PICK b \in BOOLEAN : b = (p.named # "outside" /\ p.leads # "outside" /\ p.kind = "dir")
    OBVIOUS
  <2> QED BY <2>1, Pairs DEF ResolveShellCwd
<1> QED BY <1>1, <1>2, <1>3, <1>4, <1>5

(* A few checks in a row are a sequence of checks. *)
LEMMA TuplesOfChecks ==
  ASSUME NEW c1 \in Check, NEW c2 \in Check, NEW c3 \in Check,
         NEW c4 \in Check, NEW c5 \in Check, NEW c6 \in Check
  PROVE  /\ <<c1>> \in Seq(Check)
         /\ <<c1, c2>> \in Seq(Check)
         /\ <<c1, c2, c3>> \in Seq(Check)
         /\ <<c1, c2, c3, c4>> \in Seq(Check)
         /\ <<c1, c2, c3, c4, c5>> \in Seq(Check)
         /\ <<c1, c2, c3, c4, c5, c6>> \in Seq(Check)
OBVIOUS

(* What a path that passes is. *)
LEMMA PathsThatPass ==
  ASSUME NEW p
  PROVE  /\ ResolveFileSearchRoot(p)[1] => p.leads = "inside"
         /\ ResolveParent(p)[1] => p.leads # "outside"
         /\ ResolveShellCwd(p)[1] => p.leads # "outside"
<1>1. ResolveFileSearchRoot(p)[1] => p.leads = "inside"
  BY DEF ResolveFileSearchRoot
<1>2. ResolveParent(p)[1] => p.leads # "outside"
  BY DEF ResolveParent
<1>3. ResolveShellCwd(p)[1] => p.leads # "outside"
  BY DEF ResolveShellCwd
<1> QED BY <1>1, <1>2, <1>3

(* The first check that fails is there, and throws. *)
LEMMA SaysFacts ==
  ASSUME NEW checks \in Seq(Check)
  PROVE  /\ Says(checks) \in {"pass", "invalid", "unsent"}
         /\ Passes(checks) <=> \A i \in 1..Len(checks) : checks[i][1]
<1>1. DOMAIN checks = 1..Len(checks) /\ Len(checks) \in Nat
      /\ \A i \in 1..Len(checks) : checks[i] \in Check
  BY ElementOfSeq, LenProperties
<1>2. CASE \A i \in 1..Len(checks) : checks[i][1]
  <2>1. Says(checks) = "pass"
    BY <1>1, <1>2 DEF Says
  <2> QED BY <1>2, <2>1 DEF Passes
<1>3. CASE ~ \A i \in 1..Len(checks) : checks[i][1]
  <2> DEFINE T == {i \in 1..Len(checks) : ~checks[i][1]}
  <2>1. T \in SUBSET Nat
    OBVIOUS
  <2>2. T # {}
    BY <1>3
  <2>3. PICK m \in T : \A k \in T : ~(<<k, m>> \in OpToRel(<, Nat))
    BY <2>1, <2>2, NatLessThanWellFounded, WFMin
  <2>4. \A k \in T : ~(k < m)
    BY <2>1, <2>3 DEF OpToRel
  <2>5. m \in DOMAIN checks /\ ~checks[m][1] /\ \A j \in 1..(m - 1) : checks[j][1]
    BY <1>1, <2>1, <2>4
  <2>6. PICK n : n = CHOOSE i \in DOMAIN checks :
                         ~checks[i][1] /\ \A j \in 1..(i - 1) : checks[j][1]
    OBVIOUS
  <2>7. n \in DOMAIN checks
    BY <2>5, <2>6
  <2>8. Says(checks) = checks[n][2]
    BY <1>1, <1>3, <2>6 DEF Says
  <2>9. checks[n][2] \in {"invalid", "unsent"}
    BY <1>1, <2>7 DEF Check
  <2> QED BY <1>3, <2>8, <2>9 DEF Passes
<1> QED BY <1>2, <1>3

-----------------------------------------------------------------------------
(* Invocations.                                                             *)

(* Where a tool may go, and where the path it follows may lead: astray only
   if that was changed under it. *)
StaysWithin(t, visit) ==
  /\ t \in Fetches => AssertPublicAddress(visit.to)
  /\ t \notin Fetches => visit.moved \/ visit.to # "outside"
  /\ t = "file_search" => visit.moved \/ visit.to # "secret"

PathTools == {"file_search", "file_write", "file_edit", "shell_exec"}

(* A path that passed a look at it; a link in a directory has not yet. *)
Trusted == OnTheWay \ {"link"}

WayKept(r) ==
  /\ r.moved \/ r.way # "outside"
  /\ r.tool = "file_search" => r.moved \/ r.way # "secret"

(* What one invocation may be, with what it did and where it was. *)
Sound(r, done, places) ==
  /\ r.pc = "idle" <=> r.tool = "none"
  /\ r.out = "none" <=> r.pc # "settled"
  /\ r.pc \in {"idle", "start"} => done = 0 /\ ~r.inFlight /\ places = {}
  /\ r.inFlight => r.tool \in Mutators /\ done = 0
  /\ r.tool \in Mutators => /\ r.out = "ok" => done = 1
                            /\ r.out = "unsent" => done = 0 /\ ~r.inFlight
  /\ r.tool \in Fetches /\ r.pc = "resolved" => AssertPublicAddress(r.host)
  /\ r.pc \in Trusted => WayKept(r)
  /\ \A visit \in places : StaysWithin(r.tool, visit)

ToolTypes ==
  /\ run \in [Cmd -> Invocation]
  /\ file \in [there : BOOLEAN, text : SUBSET Text]
  /\ applied \in [Cmd -> 0..1]
  /\ reached \in [Cmd -> SUBSET Visit]

ToolInv == ToolTypes /\ \A c \in Cmd : Sound(run[c], applied[c], reached[c])

(* A step of an invocation: it stays what it is, and settles once. *)
Stepped(c) ==
  /\ ToolInv'
  /\ \A d \in Cmd \ {c} : run'[d] = run[d]
  /\ run'[c].tool = run[c].tool /\ run[c].pc # "idle" /\ run'[c].pc # "idle"
  /\ run[c].pc = "settled" => run'[c].pc = "settled" /\ run'[c].out = run[c].out

(* To see that one invocation moves soundly it is enough to look at it. *)
LEMMA StepsSoundly ==
  ASSUME ToolInv, NEW c \in Cmd, NEW q \in Invocation, run' = [run EXCEPT ![c] = q],
         q.tool = run[c].tool, q.pc # "idle", run[c].pc # "idle",
         run[c].pc = "settled" => q.pc = "settled" /\ q.out = run[c].out,
         file' \in [there : BOOLEAN, text : SUBSET Text],
         NEW n \in 0..1, applied' = [applied EXCEPT ![c] = n],
         NEW P \in SUBSET Visit, reached' = [reached EXCEPT ![c] = P],
         Sound(q, n, P)
  PROVE  Stepped(c)
<1>1. /\ run'[c] = q /\ \A d \in Cmd \ {c} : run'[d] = run[d]
      /\ applied'[c] = n /\ \A d \in Cmd \ {c} : applied'[d] = applied[d]
      /\ reached'[c] = P /\ \A d \in Cmd \ {c} : reached'[d] = reached[d]
  BY DEF ToolInv, ToolTypes
<1>2. ToolTypes'
  BY DEF ToolInv, ToolTypes
<1>3. ToolInv'
  BY <1>1, <1>2 DEF ToolInv
<1> QED BY <1>1, <1>3 DEF Stepped

(* A step of a tool that changes nothing outside the gateway. *)
LEMMA OrdinaryStep ==
  ASSUME ToolInv, NEW c \in Cmd, NEW q \in Invocation, run' = [run EXCEPT ![c] = q],
         q.tool = run[c].tool, run[c].tool \notin Mutators, q.inFlight = run[c].inFlight,
         run[c].pc \notin {"idle", "settled"}, q.pc \notin {"idle", "start"},
         q.out = "none" <=> q.pc # "settled",
         run[c].tool \in Fetches /\ q.pc = "resolved" => AssertPublicAddress(q.host),
         q.pc \in Trusted => WayKept(q),
         file' \in [there : BOOLEAN, text : SUBSET Text], applied' = applied,
         NEW P \in SUBSET Visit, reached' = [reached EXCEPT ![c] = @ \cup P],
         \A visit \in P : StaysWithin(run[c].tool, visit)
  PROVE  Stepped(c)
<1>1. PICK n \in 0..1, R \in SUBSET Visit : n = applied[c] /\ R = reached[c] \cup P
  BY DEF ToolInv, ToolTypes
<1>2. applied' = [applied EXCEPT ![c] = n] /\ reached' = [reached EXCEPT ![c] = R]
  BY <1>1 DEF ToolInv, ToolTypes
<1>3. Sound(run[c], applied[c], reached[c])
  BY DEF ToolInv
<1>4. Sound(q, n, R)
  BY <1>1, <1>3 DEF Sound, Invocation
<1> QED BY <1>2, <1>4, StepsSoundly

(* Where nothing was visited. *)
LEMMA QuietStep ==
  ASSUME ToolInv, NEW c \in Cmd, NEW q \in Invocation, run' = [run EXCEPT ![c] = q],
         q.tool = run[c].tool, run[c].tool \notin Mutators, q.inFlight = run[c].inFlight,
         run[c].pc \notin {"idle", "settled"}, q.pc \notin {"idle", "start"},
         q.out = "none" <=> q.pc # "settled",
         run[c].tool \in Fetches /\ q.pc = "resolved" => AssertPublicAddress(q.host),
         q.pc \in Trusted => WayKept(q),
         file' \in [there : BOOLEAN, text : SUBSET Text], applied' = applied, reached' = reached
  PROVE  Stepped(c)
<1>1. PICK P \in SUBSET Visit : P = {}
  OBVIOUS
<1>2. reached' = [reached EXCEPT ![c] = @ \cup P]
  BY <1>1 DEF ToolInv, ToolTypes
<1> QED BY <1>1, <1>2, OrdinaryStep

(* The forms of a step. *)
LEMMA SettlesForm ==
  ASSUME ToolInv, NEW c \in Cmd, NEW out \in Outcome, Settles(c, out)
  PROVE  \E q \in Invocation :
           /\ run' = [run EXCEPT ![c] = q] /\ q.tool = run[c].tool /\ q.inFlight = run[c].inFlight
           /\ q.pc = "settled" /\ q.out = out
<1>1. PICK r \in Invocation : r = run[c]
  BY DEF ToolInv, ToolTypes
<1>2. PICK q : q = [r EXCEPT !.pc = "settled", !.out = out]
  OBVIOUS
<1>3. /\ q \in Invocation /\ q.tool = r.tool /\ q.inFlight = r.inFlight
      /\ q.pc = "settled" /\ q.out = out
  BY <1>2 DEF Invocation, Stage
<1>4. run' = [run EXCEPT ![c] = q]
  BY <1>1, <1>2 DEF Settles, ToolInv, ToolTypes
<1> QED BY <1>1, <1>3, <1>4

(* An invocation that goes on keeps its tool, its request, its address and
   its path. *)
LEMMA GoesForm ==
  ASSUME ToolInv, NEW c \in Cmd, NEW pc \in Stage, Goes(c, pc)
  PROVE  \E q \in Invocation :
           /\ run' = [run EXCEPT ![c] = q] /\ q.tool = run[c].tool /\ q.inFlight = run[c].inFlight
           /\ q.pc = pc /\ q.out = run[c].out /\ q.host = run[c].host
           /\ q.way = run[c].way /\ q.moved = run[c].moved
<1>1. PICK r \in Invocation : r = run[c]
  BY DEF ToolInv, ToolTypes
<1>2. PICK q : q = [r EXCEPT !.pc = pc]
  OBVIOUS
<1>3. /\ q \in Invocation /\ q.tool = r.tool /\ q.inFlight = r.inFlight
      /\ q.pc = pc /\ q.out = r.out /\ q.host = r.host
      /\ q.way = r.way /\ q.moved = r.moved
  BY <1>2 DEF Invocation
<1>4. run' = [run EXCEPT ![c] = q]
  BY <1>1, <1>2 DEF Goes, ToolInv, ToolTypes
<1> QED BY <1>1, <1>3, <1>4

(* Which tools the kinds are. *)
LEMMA Kinds ==
  /\ Mutators = {"github_write", "gmail_write", "calendar_write", "drive_write"}
  /\ DOMAIN GoogleWriteCaps = {"gmail_write", "calendar_write", "drive_write"}
  /\ GoogleReads = {"gmail_read", "calendar_read", "drive_read"}
  /\ DOMAIN ScheduleToolCaps =
       {"schedule_list", "schedule_create", "schedule_update", "schedule_delete"}
BY DEF Mutators, GoogleReads, GoogleReadCaps, GoogleWriteCaps, ScheduleToolCaps

(* A tool that mutates nothing settles. *)
LEMMA SettlesQuietly ==
  ASSUME ToolInv, NEW c \in Cmd, NEW out \in Outcome, Settles(c, out),
         run[c].tool \notin Mutators, run[c].pc \notin {"idle", "settled"},
         file' \in [there : BOOLEAN, text : SUBSET Text], applied' = applied, reached' = reached
  PROVE  Stepped(c)
<1>1. PICK q \in Invocation :
        /\ run' = [run EXCEPT ![c] = q] /\ q.tool = run[c].tool /\ q.inFlight = run[c].inFlight
        /\ q.pc = "settled" /\ q.out = out
  BY SettlesForm
<1>2. out # "none" /\ "settled" \notin Trusted
  BY DEF Outcome, Trusted, OnTheWay
<1> QED BY <1>1, <1>2, QuietStep

(* The stages at which nothing was looked at that is yet to be used. *)
Further == {"walk", "write", "resolve", "await", "answered", "details", "page", "child"}

(* They are stages. *)
LEMMA FurtherStages ==
  Further \subseteq Stage \ ({"idle", "start", "settled", "resolved"} \cup Trusted)
BY DEF Further, Stage, Trusted, OnTheWay

(* A tool that mutates nothing goes on, and goes nowhere. *)
LEMMA GoesQuietly ==
  ASSUME ToolInv, NEW c \in Cmd, NEW pc \in Further,
         Goes(c, pc), run[c].tool \notin Mutators, run[c].pc \notin {"idle", "settled"}, Rest
  PROVE  Stepped(c)
<1>1. PICK q \in Invocation :
        /\ run' = [run EXCEPT ![c] = q] /\ q.tool = run[c].tool /\ q.inFlight = run[c].inFlight
        /\ q.pc = pc /\ q.out = run[c].out /\ q.host = run[c].host
  BY FurtherStages, GoesForm
<1>2. q.out = "none" /\ q.pc \notin {"idle", "start", "settled", "resolved"} \cup Trusted
  BY <1>1, FurtherStages DEF ToolInv, Sound
<1>3. file' \in [there : BOOLEAN, text : SUBSET Text] /\ applied' = applied /\ reached' = reached
  BY DEF Rest, ToolInv, ToolTypes
<1> QED BY <1>1, <1>2, <1>3, QuietStep

(* A refusal comes before anything was touched. *)
LEMMA RefusedStep ==
  ASSUME ToolInv, NEW c \in Cmd, NEW checks \in Seq(Check), Refused(c, checks),
         run[c].pc = "start"
           \/ (run[c].tool \notin Mutators /\ run[c].pc \notin {"idle", "settled"})
  PROVE  Stepped(c)
<1>1. PICK out \in {"invalid", "unsent"} : Settles(c, out)
  BY SaysFacts DEF Refused, Passes
<1>2. PICK q \in Invocation :
        /\ run' = [run EXCEPT ![c] = q] /\ q.tool = run[c].tool /\ q.inFlight = run[c].inFlight
        /\ q.pc = "settled" /\ q.out = out
  BY <1>1, SettlesForm DEF Outcome
<1>3. PICK n \in 0..1, P \in SUBSET Visit : n = applied[c] /\ P = reached[c]
  BY DEF ToolInv, ToolTypes
<1>4. /\ applied' = [applied EXCEPT ![c] = n] /\ reached' = [reached EXCEPT ![c] = P]
      /\ file' \in [there : BOOLEAN, text : SUBSET Text]
  BY <1>3 DEF Refused, Rest, ToolInv, ToolTypes
<1>5. Sound(run[c], n, P)
  BY <1>3 DEF ToolInv
<1>6. Sound(q, n, P)
  <2>1. "settled" \notin Trusted
    BY DEF Trusted, OnTheWay
  <2> QED BY <1>2, <1>5, <2>1 DEF Sound
<1> QED BY <1>2, <1>4, <1>6, StepsSoundly

-----------------------------------------------------------------------------
(* The tools one by one. *)
LEMMA AnswersAtOnce ==
  ASSUME ToolInv, NEW c \in Cmd, Echo(c) \/ ScheduleTool(c) PROVE Stepped(c)
<1>1. run[c].tool \notin Mutators /\ run[c].pc = "start" /\ Rest
  BY Kinds DEF Echo, ScheduleTool, At
<1>2. PICK out \in {"ok", "invalid"} : Settles(c, out)
  BY DEF Echo, ScheduleTool
<1>3. file' \in [there : BOOLEAN, text : SUBSET Text] /\ applied' = applied /\ reached' = reached
  BY <1>1 DEF Rest, ToolInv, ToolTypes
<1> QED BY <1>1, <1>2, <1>3, SettlesQuietly DEF Outcome

(* A step of a tool that follows a path: it goes, if anywhere, where a path
   leads that it had looked at. *)
LEMMA PathStep ==
  ASSUME ToolInv, NEW c \in Cmd, run[c].tool \in PathTools,
         run[c].pc \notin {"idle", "settled"},
         NEW q \in Invocation, run' = [run EXCEPT ![c] = q],
         q.tool = run[c].tool, q.inFlight = run[c].inFlight, q.pc \notin {"idle", "start"},
         q.out = "none" <=> q.pc # "settled", q.pc \in Trusted => WayKept(q),
         file' \in [there : BOOLEAN, text : SUBSET Text], applied' = applied,
         (FollowsPath(c) /\ run[c].pc \in Trusted) \/ UNCHANGED reached
  PROVE  Stepped(c)
<1>1. run[c].tool \notin Fetches /\ run[c].tool \notin Mutators
  BY Kinds DEF PathTools, Fetches
<1>2. CASE UNCHANGED reached
  BY <1>1, <1>2, QuietStep
<1>3. CASE FollowsPath(c) /\ run[c].pc \in Trusted
  <2>1. PICK r \in Invocation : r = run[c]
    BY DEF ToolInv, ToolTypes
  <2>2. PICK visit \in Visit : visit = [to |-> r.way, moved |-> r.moved]
    BY DEF Visit, Invocation
  <2>3. PICK P \in SUBSET Visit : P = {visit}
    OBVIOUS
  <2>4. reached' = [reached EXCEPT ![c] = @ \cup P]
    BY <1>3, <2>1, <2>2, <2>3 DEF FollowsPath, Visits
  <2>5. WayKept(r)
    BY <1>3, <2>1 DEF ToolInv, Sound
  <2>6. visit.to = r.way /\ visit.moved = r.moved
    BY <2>2
  <2>7. StaysWithin(r.tool, visit)
    BY <1>1, <2>1, <2>5, <2>6 DEF StaysWithin, WayKept
  <2>8. \A v \in P : StaysWithin(run[c].tool, v)
    BY <2>1, <2>3, <2>7
  <2> QED BY <1>1, <2>4, <2>8, OrdinaryStep
<1> QED BY <1>2, <1>3

(* Such a tool settles. *)
LEMMA PathSettles ==
  ASSUME ToolInv, NEW c \in Cmd, run[c].tool \in PathTools,
         run[c].pc \notin {"idle", "settled"}, NEW out \in Outcome, Settles(c, out),
         file' \in [there : BOOLEAN, text : SUBSET Text], applied' = applied,
         (FollowsPath(c) /\ run[c].pc \in Trusted) \/ UNCHANGED reached
  PROVE  Stepped(c)
<1>1. PICK q \in Invocation :
        /\ run' = [run EXCEPT ![c] = q] /\ q.tool = run[c].tool /\ q.inFlight = run[c].inFlight
        /\ q.pc = "settled" /\ q.out = out
  BY SettlesForm
<1>2. out # "none" /\ "settled" \notin Trusted
  BY DEF Outcome, Trusted, OnTheWay
<1> QED BY <1>1, <1>2, PathStep

(* It goes on with the path it has. *)
LEMMA PathGoes ==
  ASSUME ToolInv, NEW c \in Cmd, run[c].tool \in PathTools,
         run[c].pc \notin {"idle", "settled"},
         NEW pc \in Further \cup Trusted, Goes(c, pc),
         pc \in Trusted => run[c].pc \in Trusted, UNCHANGED <<file, applied>>,
         (FollowsPath(c) /\ run[c].pc \in Trusted) \/ UNCHANGED reached
  PROVE  Stepped(c)
<1>1. pc \in Stage /\ pc \notin {"idle", "start", "settled"}
  BY DEF Further, Trusted, OnTheWay, Stage
<1>2. PICK q \in Invocation :
        /\ run' = [run EXCEPT ![c] = q] /\ q.tool = run[c].tool /\ q.inFlight = run[c].inFlight
        /\ q.pc = pc /\ q.out = run[c].out /\ q.way = run[c].way /\ q.moved = run[c].moved
  BY <1>1, GoesForm
<1>3. q.out = "none" /\ (q.pc \in Trusted => WayKept(q))
  BY <1>2 DEF ToolInv, Sound, WayKept
<1>4. file' \in [there : BOOLEAN, text : SUBSET Text] /\ applied' = applied
  BY DEF ToolInv, ToolTypes
<1> QED BY <1>1, <1>2, <1>3, <1>4, PathStep

(* It sets out on a path it has looked at. *)
LEMMA PathSetsOut ==
  ASSUME ToolInv, NEW c \in Cmd, run[c].tool \in PathTools,
         run[c].pc \notin {"idle", "settled"},
         NEW pc \in OnTheWay, NEW leads \in Place, SetsOut(c, pc, leads), Rest,
         pc \in Trusted => /\ leads # "outside"
                           /\ run[c].tool = "file_search" => leads # "secret"
  PROVE  Stepped(c)
<1>1. PICK r \in Invocation : r = run[c]
  BY DEF ToolInv, ToolTypes
<1>2. PICK q : q = [r EXCEPT !.pc = pc, !.way = leads, !.moved = FALSE]
  OBVIOUS
<1>3. pc \in Stage /\ pc \notin {"idle", "start", "settled"}
  BY DEF OnTheWay, Stage
<1>4. /\ q \in Invocation /\ q.tool = r.tool /\ q.inFlight = r.inFlight
      /\ q.pc = pc /\ q.out = r.out /\ q.way = leads
  BY <1>2, <1>3 DEF Invocation
<1>5. run' = [run EXCEPT ![c] = q]
  BY <1>1, <1>2 DEF SetsOut, ToolInv, ToolTypes
<1>6. q.out = "none"
  BY <1>1, <1>4 DEF ToolInv, Sound
<1>7. q.pc \in Trusted => WayKept(q)
  BY <1>1, <1>4 DEF WayKept
<1>8. file' \in [there : BOOLEAN, text : SUBSET Text] /\ applied' = applied /\ UNCHANGED reached
  BY DEF Rest, ToolInv, ToolTypes
<1> QED BY <1>1, <1>3, <1>4, <1>5, <1>6, <1>7, <1>8, PathStep

(* What another program changes under a path is known to have been moved. *)
LEMMA RelinkSteps == ASSUME ToolInv, NEW c \in Cmd, Relink(c) PROVE Stepped(c)
<1>1. PICK leads \in Place : run' = [run EXCEPT ![c].way = leads, ![c].moved = TRUE]
  BY DEF Relink
<1>2. PICK r \in Invocation : r = run[c]
  BY DEF ToolInv, ToolTypes
<1>3. PICK q : q = [r EXCEPT !.way = leads, !.moved = TRUE]
  OBVIOUS
<1>4. /\ q \in Invocation /\ q.tool = r.tool /\ q.inFlight = r.inFlight
      /\ q.pc = r.pc /\ q.out = r.out /\ q.moved /\ q.host = r.host
  BY <1>3 DEF Invocation
<1>5. run' = [run EXCEPT ![c] = q]
  BY <1>1, <1>2, <1>3 DEF ToolInv, ToolTypes
<1>6. r.pc \notin {"idle", "start", "settled", "resolved"}
  BY <1>2 DEF Relink, OnTheWay
<1>7. PICK n \in 0..1, P \in SUBSET Visit : n = applied[c] /\ P = reached[c]
  BY DEF ToolInv, ToolTypes
<1>8. applied' = [applied EXCEPT ![c] = n] /\ reached' = [reached EXCEPT ![c] = P]
  BY <1>7 DEF Relink, ToolInv, ToolTypes
<1>9. file' \in [there : BOOLEAN, text : SUBSET Text]
  <2>1. {{}, {Base}} \subseteq SUBSET Text
    BY DEF Text
  <2> QED BY <2>1 DEF Relink
<1>10. Sound(r, n, P)
  BY <1>2, <1>7 DEF ToolInv
<1>11. Sound(q, n, P)
  BY <1>4, <1>6, <1>10 DEF Sound, WayKept
<1> QED BY <1>2, <1>4, <1>5, <1>6, <1>8, <1>9, <1>11, StepsSoundly

(* The search begins at a root inside. *)
LEMMA FileSearchSteps == ASSUME ToolInv, NEW c \in Cmd, FileSearch(c) PROVE Stepped(c)
<1>1. run[c].tool = "file_search" /\ run[c].pc = "start" /\ run[c].tool \in PathTools
  BY DEF FileSearch, At, PathTools
<1>2. PICK root \in RootSetting, p \in Path, args \in SUBSET {"root", "query", "misfit"} :
        LET checks == FileSearchChecks(root, p, args)
        IN \/ Refused(c, checks)
           \/ Passes(checks) /\ SetsOut(c, "found", p.leads) /\ Rest
  BY DEF FileSearch
<1>3. PICK checks \in Seq(Check) : checks = FileSearchChecks(root, p, args)
  <2>1. PICK b \in BOOLEAN : b = (p.kind = "dir")
    OBVIOUS
  <2>2. <<p.kind = "dir", "invalid">> \in Check
    BY <2>1, Pairs
  <2>3. PICK c1 \in Check, c2 \in Check, c3 \in Check, c4 \in Check, c5 \in Check, c6 \in Check :
          /\ c1 = SandboxRootFromEnv(root) /\ c2 = Needs({"root"}, args)
          /\ c3 = ResolveFileSearchRoot(p) /\ c4 = Needs({"query"}, args)
          /\ c5 = Fits(args) /\ c6 = <<p.kind = "dir", "invalid">>
    BY <2>2, ArgumentChecks, PlaceChecks
  <2>4. FileSearchChecks(root, p, args) = <<c1, c2, c3, c4, c5, c6>>
    BY <2>3 DEF FileSearchChecks
  <2> QED BY <2>4, TuplesOfChecks
<1>4. CASE Refused(c, checks)
  BY <1>1, <1>3, <1>4, RefusedStep
<1>5. CASE Passes(checks) /\ SetsOut(c, "found", p.leads) /\ Rest
  <2>1. p.leads = "inside"
    <3>1. Len(checks) = 6 /\ checks[3] = ResolveFileSearchRoot(p)
      BY <1>3 DEF FileSearchChecks
    <3>2. checks[3][1]
      BY <1>5, <3>1, SaysFacts
    <3> QED BY <3>1, <3>2, PathsThatPass
  <2>2. "found" \in OnTheWay /\ p.leads \in Place
    BY <2>1 DEF OnTheWay, Place
  <2> QED BY <1>1, <1>5, <2>1, <2>2, PathSetsOut
<1> QED BY <1>2, <1>3, <1>4, <1>5

(* An entry that is read was inside, and its name looks like no secret. *)
LEMMA WalkSteps ==
  ASSUME ToolInv, NEW c \in Cmd, Walk(c) \/ WalkResolves(c) \/ WalkVisits(c) \/ WalkEnds(c)
  PROVE  Stepped(c)
<1>1. run[c].tool = "file_search" /\ run[c].tool \in PathTools
      /\ run[c].pc \notin {"idle", "settled"}
  BY DEF Walk, WalkResolves, WalkVisits, WalkEnds, At, PathTools
<1>2. ASSUME NEW out \in Outcome, Settles(c, out), Rest PROVE Stepped(c)
  <2>1. file' \in [there : BOOLEAN, text : SUBSET Text] /\ applied' = applied /\ UNCHANGED reached
    BY <1>2 DEF Rest, ToolInv, ToolTypes
  <2> QED BY <1>1, <1>2, <2>1, PathSettles
<1>3. CASE Walk(c)
  <2>1. PICK entry \in Entry :
          /\ ~WalkSkips(entry) /\ Rest
          /\ SetsOut(c, IF entry.kind = "symlink" THEN "link" ELSE "entry", entry.leads)
    BY <1>3 DEF Walk
  <2>2. entry.leads \in Place /\ (entry.kind # "symlink" => entry.leads = "inside")
    BY <2>1 DEF WalkSkips, Entry, Path, Place
  <2>3. "link" \in OnTheWay \ Trusted /\ "entry" \in OnTheWay
    BY DEF OnTheWay, Trusted
  <2> QED BY <1>1, <2>1, <2>2, <2>3, PathSetsOut
<1>4. CASE WalkResolves(c)
  <2>1. \/ \E out \in {"lost", "invalid"} : Settles(c, out)
        \/ run[c].pc = "entry" /\ Goes(c, "found")
        \/ Goes(c, "walk")
    BY <1>4 DEF WalkResolves
  <2>2. Rest
    BY <1>4 DEF WalkResolves
  <2>3. /\ "walk" \in Further /\ "walk" \notin Trusted
        /\ "found" \in Trusted /\ "entry" \in Trusted
    BY DEF Further, Trusted, OnTheWay
  <2>4. CASE \E out \in {"lost", "invalid"} : Settles(c, out)
    BY <1>2, <2>2, <2>4 DEF Outcome
  <2>5. CASE run[c].pc = "entry" /\ Goes(c, "found")
    BY <1>1, <2>2, <2>3, <2>5, PathGoes DEF Rest
  <2>6. CASE Goes(c, "walk")
    BY <1>1, <2>2, <2>3, <2>6, PathGoes DEF Rest
  <2> QED BY <2>1, <2>4, <2>5, <2>6
<1>5. CASE WalkVisits(c)
  <2>1. "walk" \in Further /\ "walk" \notin Trusted /\ "found" \in Trusted
    BY DEF Further, Trusted, OnTheWay
  <2>2. /\ run[c].pc = "found" /\ Goes(c, "walk") /\ FollowsPath(c)
        /\ UNCHANGED <<file, applied>>
    BY <1>5 DEF WalkVisits, At
  <2> QED BY <1>1, <2>1, <2>2, PathGoes
<1>6. CASE WalkEnds(c)
  BY <1>2, <1>6 DEF WalkEnds, Outcome
<1> QED BY <1>3, <1>4, <1>5, <1>6

(* What the first look at a path says of where it leads. *)
LEMMA PathChecks ==
  ASSUME NEW root, NEW p, NEW args
  PROVE  /\ ParentChecks(root, p, args) \in Seq(Check)
         /\ ShellExecChecks(root, p, args) \in Seq(Check)
         /\ Passes(ParentChecks(root, p, args)) => p.leads # "outside"
         /\ Passes(ShellExecChecks(root, p, args)) => p.leads # "outside"
<1>1. /\ ParentChecks(root, p, args) \in Seq(Check) /\ Len(ParentChecks(root, p, args)) = 3
      /\ ParentChecks(root, p, args)[3] = ResolveParent(p)
  <2>1. PICK c1 \in Check, c2 \in Check, c3 \in Check :
          /\ c1 = SandboxRootFromEnv(root) /\ c2 = Needs({"path"}, args)
          /\ c3 = ResolveParent(p)
    BY ArgumentChecks, PlaceChecks
  <2>2. ParentChecks(root, p, args) = <<c1, c2, c3>>
    BY <2>1 DEF ParentChecks
  <2> QED BY <2>1, <2>2, TuplesOfChecks
<1>2. /\ ShellExecChecks(root, p, args) \in Seq(Check) /\ Len(ShellExecChecks(root, p, args)) = 4
      /\ ShellExecChecks(root, p, args)[2] = ResolveShellCwd(p)
  <2>1. PICK c1 \in Check, c2 \in Check, c3 \in Check, c4 \in Check :
          /\ c1 = ShellRootFromEnv(root) /\ c2 = ResolveShellCwd(p)
          /\ c3 = Needs({"cmd"}, args) /\ c4 = Fits(args)
    BY ArgumentChecks, PlaceChecks
  <2>2. ShellExecChecks(root, p, args) = <<c1, c2, c3, c4>>
    BY <2>1 DEF ShellExecChecks
  <2> QED BY <2>1, <2>2, TuplesOfChecks
<1>3. ASSUME Passes(ParentChecks(root, p, args)) PROVE p.leads # "outside"
  <2>1. PICK checks \in Seq(Check) : checks = ParentChecks(root, p, args)
    BY <1>1
  <2>2. Passes(checks)
    BY <1>3, <2>1
  <2>3. Len(checks) = 3
    BY <1>1, <2>1
  <2>4. 3 \in 1..Len(checks)
    BY <2>3
  <2>5. checks[3][1]
    BY <2>2, <2>4, SaysFacts
  <2> QED BY <1>1, <2>1, <2>5, PathsThatPass
<1>4. ASSUME Passes(ShellExecChecks(root, p, args)) PROVE p.leads # "outside"
  <2>1. PICK checks \in Seq(Check) : checks = ShellExecChecks(root, p, args)
    BY <1>2
  <2>2. Passes(checks)
    BY <1>4, <2>1
  <2>3. Len(checks) = 4
    BY <1>2, <2>1
  <2>4. 2 \in 1..Len(checks)
    BY <2>3
  <2>5. checks[2][1]
    BY <2>2, <2>4, SaysFacts
  <2> QED BY <1>2, <2>1, <2>5, PathsThatPass
<1> QED BY <1>1, <1>2, <1>3, <1>4

(* The second look keeps the path of the first, or refuses. *)
LEMMA ResolvingSteps ==
  ASSUME ToolInv, NEW c \in Cmd, ResolvesParent(c) \/ ResolvesFile(c) \/ FileFails(c)
  PROVE  Stepped(c)
<1>1. /\ run[c].tool \in {"file_write", "file_edit"} /\ run[c].pc \notin {"idle", "settled"}
      /\ run[c].tool \in PathTools /\ run[c].tool \notin Mutators
  BY Kinds DEF ResolvesParent, ResolvesFile, FileFails, At, PathTools
<1>2. CASE ResolvesParent(c)
  <2>1. PICK root \in RootSetting, p \in Path, args \in SUBSET {"path"} :
          LET checks == ParentChecks(root, p, args)
          IN \/ Refused(c, checks)
             \/ Passes(checks) /\ SetsOut(c, "parent", p.leads) /\ Rest
    BY <1>2 DEF ResolvesParent
  <2>2. PICK checks \in Seq(Check) :
          checks = ParentChecks(root, p, args) /\ (Passes(checks) => p.leads # "outside")
    BY PathChecks
  <2>3. CASE Refused(c, checks)
    BY <1>1, <2>3, RefusedStep
  <2>4. CASE Passes(checks) /\ SetsOut(c, "parent", p.leads) /\ Rest
    <3>1. "parent" \in OnTheWay /\ p.leads \in Place
      BY DEF OnTheWay, Path
    <3>2. run[c].tool # "file_search"
      BY <1>1
    <3> QED BY <1>1, <2>2, <2>4, <3>1, <3>2, PathSetsOut
  <2> QED BY <2>1, <2>2, <2>3, <2>4
<1>3. CASE ResolvesFile(c)
  <2>1. PICK names, kind, args :
          LET checks == FileChecks(kind, run[c].way, file.there, names, args)
          IN Refused(c, checks) \/ (Passes(checks) /\ Goes(c, "checked") /\ Rest)
    BY <1>3 DEF ResolvesFile
  <2>2. PICK checks \in Seq(Check) :
          checks = FileChecks(kind, run[c].way, file.there, names, args)
    <3>1. PICK b \in BOOLEAN : b = (kind # "symlink" /\ (file.there => run[c].way # "outside"))
      OBVIOUS
    <3>2. PICK c1 \in Check, c2 \in Check, c3 \in Check :
            /\ c1 = ResolveFile(kind, run[c].way, file.there)
            /\ c2 = Needs(names, args) /\ c3 = Fits(args)
      BY <3>1, Pairs, ArgumentChecks DEF ResolveFile
    <3>3. FileChecks(kind, run[c].way, file.there, names, args) = <<c1, c2, c3>>
      BY <3>2 DEF FileChecks
    <3> QED BY <3>3, TuplesOfChecks
  <2>3. CASE Refused(c, checks)
    BY <1>1, <2>3, RefusedStep
  <2>4. CASE Goes(c, "checked") /\ Rest
    <3>1. "checked" \in Trusted /\ run[c].pc \in Trusted
      BY <1>3 DEF ResolvesFile, At, Trusted, OnTheWay
    <3> QED BY <1>1, <2>4, <3>1, PathGoes DEF Rest
  <2> QED BY <2>1, <2>2, <2>3, <2>4
<1>4. CASE FileFails(c)
  <2>1. /\ Settles(c, "lost") /\ "lost" \in Outcome /\ applied' = applied
        /\ UNCHANGED reached /\ file' \in [there : BOOLEAN, text : SUBSET Text]
    BY <1>4 DEF FileFails, Rest, Outcome, ToolInv, ToolTypes
  <2> QED BY <1>1, <2>1, PathSettles
<1> QED BY <1>2, <1>3, <1>4

(* Opening a file to write. *)
LEMMA OpensForm ==
  ASSUME ToolInv, NEW c \in Cmd, NEW words \in SUBSET Text, OpenToWrite(c, words)
  PROVE  /\ file' \in [there : BOOLEAN, text : SUBSET Text]
         /\ \E q \in Invocation :
              /\ run' = [run EXCEPT ![c] = q]
              /\ q.tool = run[c].tool /\ q.inFlight = run[c].inFlight
              /\ q.pc = "write" /\ q.out = run[c].out
<1>1. PICK r \in Invocation : r = run[c]
  BY DEF ToolInv, ToolTypes
<1>2. PICK q : q = [r EXCEPT !.pc = "write", !.text = words]
  OBVIOUS
<1>3. /\ q \in Invocation /\ q.tool = r.tool /\ q.inFlight = r.inFlight
      /\ q.pc = "write" /\ q.out = r.out
  BY <1>2 DEF Invocation, Stage
<1>4. run' = [run EXCEPT ![c] = q]
  BY <1>1, <1>2 DEF OpenToWrite, ToolInv, ToolTypes
<1>5. file' \in [there : BOOLEAN, text : SUBSET Text]
  BY DEF OpenToWrite
<1> QED BY <1>1, <1>3, <1>4, <1>5

(* A file tool opens its file to write. *)
LEMMA FileOpens ==
  ASSUME ToolInv, NEW c \in Cmd, run[c].tool \in PathTools, run[c].pc \in Trusted,
         NEW words \in SUBSET Text, OpenToWrite(c, words),
         applied' = applied, FollowsPath(c)
  PROVE  Stepped(c)
<1>1. PICK q \in Invocation :
        /\ run' = [run EXCEPT ![c] = q] /\ q.tool = run[c].tool /\ q.inFlight = run[c].inFlight
        /\ q.pc = "write" /\ q.out = run[c].out
  BY OpensForm
<1>2. "write" \notin Trusted /\ run[c].pc \notin {"idle", "settled"}
  BY DEF Trusted, OnTheWay
<1>3. q.out = "none"
  BY <1>1, <1>2 DEF ToolInv, Sound
<1>4. file' \in [there : BOOLEAN, text : SUBSET Text]
  BY OpensForm
<1> QED BY <1>1, <1>2, <1>3, <1>4, PathStep

(* A file is written where the path leads that was looked at. *)
LEMMA FileWriteSteps == ASSUME ToolInv, NEW c \in Cmd, FileWrite(c) PROVE Stepped(c)
<1>1. /\ run[c].tool \in PathTools /\ run[c].pc \in Trusted
      /\ run[c].pc \notin {"idle", "settled"} /\ FollowsPath(c) /\ applied' = applied
  BY DEF FileWrite, At, PathTools, Trusted, OnTheWay
<1>2. {c} \in SUBSET Text /\ "ok" \in Outcome /\ file \in [there : BOOLEAN, text : SUBSET Text]
  BY DEF Text, Outcome, ToolInv, ToolTypes
<1>3. CASE OpenToWrite(c, {c})
  BY <1>1, <1>2, <1>3, FileOpens
<1>4. CASE file' = [there |-> TRUE, text |-> file.text \cup {c}] /\ Settles(c, "ok")
  <2>1. file' \in [there : BOOLEAN, text : SUBSET Text]
    BY <1>2, <1>4
  <2> QED BY <1>1, <1>2, <1>4, <2>1, PathSettles
<1> QED BY <1>3, <1>4 DEF FileWrite

(* A file is read where the path leads that was looked at. *)
LEMMA FileEditSteps == ASSUME ToolInv, NEW c \in Cmd, FileEdit(c) PROVE Stepped(c)
<1>1. /\ run[c].tool \in PathTools /\ run[c].pc \in Trusted
      /\ run[c].pc \notin {"idle", "settled"} /\ FollowsPath(c) /\ applied' = applied
      /\ file' \in [there : BOOLEAN, text : SUBSET Text]
      /\ file \in [there : BOOLEAN, text : SUBSET Text] /\ "invalid" \in Outcome
  BY DEF FileEdit, At, PathTools, Trusted, OnTheWay, Outcome, ToolInv, ToolTypes
<1>2. CASE Settles(c, "invalid")
  BY <1>1, <1>2, PathSettles
<1>3. ASSUME NEW search \in file.text,
             run' = [run EXCEPT ![c].pc = "edit", ![c].text = (file.text \ {search}) \cup {c}]
      PROVE  Stepped(c)
  <2>1. PICK r \in Invocation : r = run[c]
    BY DEF ToolInv, ToolTypes
  <2>2. PICK words \in SUBSET Text : words = (file.text \ {search}) \cup {c}
    BY <1>1 DEF Text
  <2>3. PICK q : q = [r EXCEPT !.pc = "edit", !.text = words]
    OBVIOUS
  <2>4. /\ q \in Invocation /\ q.tool = r.tool /\ q.inFlight = r.inFlight
        /\ q.pc = "edit" /\ q.out = r.out /\ q.way = r.way /\ q.moved = r.moved
    BY <2>3 DEF Invocation, Stage, OnTheWay
  <2>5. run' = [run EXCEPT ![c] = q]
    BY <1>3, <2>1, <2>2, <2>3 DEF ToolInv, ToolTypes
  <2>6. q.out = "none" /\ WayKept(q)
    BY <1>1, <2>1, <2>4 DEF ToolInv, Sound, WayKept
  <2> QED BY <1>1, <2>1, <2>4, <2>5, <2>6, PathStep
<1> QED BY <1>2, <1>3 DEF FileEdit

(* What was read is written back where the name leads by then. *)
LEMMA EditAndWriteSteps ==
  ASSUME ToolInv, NEW c \in Cmd, EditOpens(c) \/ WriteEnds(c) PROVE Stepped(c)
<1>1. PICK words \in SUBSET Text : words = run[c].text
  BY DEF ToolInv, ToolTypes, Invocation
<1>2. CASE EditOpens(c)
  <2>1. /\ run[c].tool \in PathTools /\ run[c].pc \in Trusted
        /\ OpenToWrite(c, words) /\ FollowsPath(c) /\ applied' = applied
    BY <1>1, <1>2 DEF EditOpens, At, PathTools, Trusted, OnTheWay
  <2> QED BY <2>1, FileOpens
<1>3. CASE WriteEnds(c)
  <2>1. /\ run[c].tool \in PathTools /\ run[c].pc \notin {"idle", "settled"}
        /\ {"ok", "lost"} \subseteq Outcome /\ applied' = applied /\ UNCHANGED reached
        /\ file \in [there : BOOLEAN, text : SUBSET Text]
    BY <1>3 DEF WriteEnds, At, PathTools, Outcome, ToolInv, ToolTypes
  <2>2. CASE Settles(c, "ok") /\ file' = [file EXCEPT !.text = words]
    <3>1. file' \in [there : BOOLEAN, text : SUBSET Text]
      BY <2>1, <2>2
    <3> QED BY <2>1, <2>2, <3>1, PathSettles
  <2>3. CASE Settles(c, "lost") /\ UNCHANGED file
    BY <2>1, <2>3, PathSettles
  <2> QED BY <1>1, <1>3, <2>2, <2>3 DEF WriteEnds
<1> QED BY <1>2, <1>3

(* A child process starts in the directory that was looked at. *)
LEMMA ShellSteps ==
  ASSUME ToolInv, NEW c \in Cmd, ShellExec(c) \/ ChildStarts(c) \/ ChildEnds(c) PROVE Stepped(c)
<1>1. /\ run[c].tool = "shell_exec" /\ run[c].pc \notin {"idle", "settled"}
      /\ run[c].tool \in PathTools /\ run[c].tool \notin Mutators
  BY Kinds DEF ShellExec, ChildStarts, ChildEnds, At, PathTools
<1>2. CASE ShellExec(c)
  <2>1. PICK root \in RootSetting, p \in Path, args \in SUBSET {"cmd", "misfit"} :
          LET checks == ShellExecChecks(root, p, args)
          IN \/ Refused(c, checks)
             \/ Passes(checks) /\ SetsOut(c, "cwd", p.leads) /\ Rest
    BY <1>2 DEF ShellExec
  <2>2. PICK checks \in Seq(Check) :
          checks = ShellExecChecks(root, p, args) /\ (Passes(checks) => p.leads # "outside")
    BY PathChecks
  <2>3. CASE Refused(c, checks)
    BY <1>1, <2>3, RefusedStep
  <2>4. CASE Passes(checks) /\ SetsOut(c, "cwd", p.leads) /\ Rest
    <3>1. "cwd" \in OnTheWay /\ p.leads \in Place /\ run[c].tool # "file_search"
      BY <1>1 DEF OnTheWay, Path
    <3> QED BY <1>1, <2>2, <2>4, <3>1, PathSetsOut
  <2> QED BY <2>1, <2>2, <2>3, <2>4
<1>3. CASE ChildStarts(c)
  <2>1. "child" \in Further /\ "child" \notin Trusted /\ "cwd" \in Trusted
    BY DEF Further, Trusted, OnTheWay
  <2>2. /\ run[c].pc = "cwd" /\ Goes(c, "child") /\ FollowsPath(c)
        /\ UNCHANGED <<file, applied>>
    BY <1>3 DEF ChildStarts, At
  <2> QED BY <1>1, <2>1, <2>2, PathGoes
<1>4. CASE ChildEnds(c)
  <2>1. PICK out \in {"ok", "lost"} : Settles(c, out) /\ Rest
    BY <1>4 DEF ChildEnds
  <2>2. file' \in [there : BOOLEAN, text : SUBSET Text] /\ applied' = applied /\ UNCHANGED reached
    BY <2>1 DEF Rest, ToolInv, ToolTypes
  <2> QED BY <1>1, <2>1, <2>2, PathSettles DEF Outcome
<1> QED BY <1>2, <1>3, <1>4

(* After its checks a tool is refused, or goes on. *)
LEMMA ChecksThenGoes ==
  ASSUME ToolInv, NEW c \in Cmd, NEW checks \in Seq(Check), run[c].pc = "start",
         run[c].tool \notin Mutators, NEW pc \in {"resolve", "await"},
         Refused(c, checks) \/ (Passes(checks) /\ Goes(c, pc) /\ Rest)
  PROVE  Stepped(c)
<1>1. CASE Refused(c, checks)
  BY <1>1, RefusedStep
<1>2. CASE Goes(c, pc) /\ Rest
  <2>1. pc \in Further
    BY DEF Further
  <2> QED BY <1>2, <2>1, GoesQuietly
<1> QED BY <1>1, <1>2

(* A fetch begins with a name. *)
LEMMA FetchSteps ==
  ASSUME ToolInv, NEW c \in Cmd, HttpFetch(c) \/ WebSearch(c) PROVE Stepped(c)
<1>1. run[c].tool \notin Mutators /\ run[c].pc = "start"
  BY Kinds DEF HttpFetch, WebSearch, At
<1>2. CASE HttpFetch(c)
  <2>1. PICK args \in FetchArgs :
          LET checks == <<Needs({"url"}, args), Fits(args)>>
          IN \/ Refused(c, checks)
             \/ Passes(checks) /\ Goes(c, "resolve") /\ Rest
    BY <1>2 DEF HttpFetch
  <2>2. PICK checks \in Seq(Check) : checks = <<Needs({"url"}, args), Fits(args)>>
    BY ArgumentChecks, TuplesOfChecks
  <2> QED BY <1>1, <2>1, <2>2, ChecksThenGoes
<1>3. CASE WebSearch(c)
  <2>1. PICK args \in SUBSET {"query", "misfit"}, endpoint \in {"unset", "blank", "url"} :
          LET checks == <<Needs({"query"}, args), Fits(args), WebSearchEndpoint(endpoint)>>
          IN \/ Refused(c, checks)
             \/ Passes(checks) /\ Goes(c, "resolve") /\ Rest
    BY <1>3 DEF WebSearch
  <2>2. PICK b \in BOOLEAN : b = (endpoint = "url")
    OBVIOUS
  <2>3. WebSearchEndpoint(endpoint) \in Check
    BY <2>2, Pairs DEF WebSearchEndpoint
  <2>4. PICK checks \in Seq(Check) :
          checks = <<Needs({"query"}, args), Fits(args), WebSearchEndpoint(endpoint)>>
    BY <2>3, ArgumentChecks, TuplesOfChecks
  <2> QED BY <1>1, <2>1, <2>4, ChecksThenGoes
<1> QED BY <1>2, <1>3

(* The checks of the two previews. *)
LEMMA PreviewChecks ==
  ASSUME NEW action, NEW switch \in BOOLEAN, NEW args
  PROVE  /\ BrowserSnapshotChecks(switch, args) \in Seq(Check)
         /\ BrowserAutomationChecks(action, switch, args) \in Seq(Check)
<1>1. PICK b1 \in BOOLEAN, b2 \in BOOLEAN, b3 \in BOOLEAN :
        b1 = ("credentials" \notin args) /\ b2 = (action # "other") /\ b3 = (action = "navigate")
  OBVIOUS
<1>2. PICK c1 \in Check, c2 \in Check, c3 \in Check, c4 \in Check, c5 \in Check, c6 \in Check :
        /\ c1 = BrowserAutomationEnabled(switch) /\ c2 = AssertNoBrowserCredentialUse(args)
        /\ c3 = Needs({"url"}, args) /\ c4 = Fits(args)
        /\ c5 = <<action # "other", "invalid">> /\ c6 = <<action = "navigate", "unsent">>
  <2>1. BrowserAutomationEnabled(switch) \in Check
    BY Pairs DEF BrowserAutomationEnabled
  <2>2. AssertNoBrowserCredentialUse(args) \in Check
    BY <1>1, Pairs DEF AssertNoBrowserCredentialUse
  <2>3. <<action # "other", "invalid">> \in Check /\ <<action = "navigate", "unsent">> \in Check
    BY <1>1, Pairs
  <2> QED BY <2>1, <2>2, <2>3, ArgumentChecks
<1>3. PICK shared \in Seq(Check) : 
        shared = <<c1, c2, c3, c4>> /\ BrowserSnapshotChecks(switch, args) = shared
  BY <1>2, TuplesOfChecks DEF BrowserSnapshotChecks
<1>4. PICK first \in Seq(Check) : first = <<c5, c1, c2, c6>>
  BY TuplesOfChecks
<1>5. BrowserAutomationChecks(action, switch, args) = first \o shared
  BY <1>2, <1>3, <1>4 DEF BrowserAutomationChecks
<1> QED BY <1>3, <1>5, ConcatProperties

(* The previews, after their switch and their arguments were looked at. *)
LEMMA BrowserSteps ==
  ASSUME ToolInv, NEW c \in Cmd, BrowserSnapshot(c) \/ BrowserAutomation(c) PROVE Stepped(c)
<1>1. run[c].tool \notin Mutators /\ run[c].pc = "start"
  BY Kinds DEF BrowserSnapshot, BrowserAutomation, At
<1>2. CASE BrowserSnapshot(c)
  <2>1. PICK args \in SUBSET {"url", "misfit", "credentials"}, switch \in BOOLEAN :
          LET checks == BrowserSnapshotChecks(switch, args)
          IN \/ Refused(c, checks)
             \/ Passes(checks) /\ Goes(c, "resolve") /\ Rest
    BY <1>2 DEF BrowserSnapshot
  <2>2. PICK checks \in Seq(Check) : checks = BrowserSnapshotChecks(switch, args)
    BY PreviewChecks
  <2> QED BY <1>1, <2>1, <2>2, ChecksThenGoes
<1>3. CASE BrowserAutomation(c)
  <2>1. PICK args \in SUBSET {"url", "misfit", "credentials"}, switch \in BOOLEAN,
             action \in BrowserAction :
          LET checks == BrowserAutomationChecks(action, switch, args)
          IN \/ action = "smoke" /\ Settles(c, "ok") /\ Rest
             \/ action # "smoke" /\ Refused(c, checks)
             \/ action # "smoke" /\ Passes(checks) /\ Goes(c, "resolve") /\ Rest
    BY <1>3 DEF BrowserAutomation
  <2>2. PICK checks \in Seq(Check) : checks = BrowserAutomationChecks(action, switch, args)
    BY PreviewChecks
  <2>3. CASE Settles(c, "ok") /\ Rest
    <3>1. /\ file' \in [there : BOOLEAN, text : SUBSET Text]
          /\ applied' = applied /\ reached' = reached
      BY <2>3 DEF Rest, ToolInv, ToolTypes
    <3>2. run[c].pc \notin {"idle", "settled"} /\ "ok" \in Outcome
      BY <1>1 DEF Outcome
    <3> QED BY <1>1, <2>3, <3>1, <3>2, SettlesQuietly
  <2> QED BY <1>1, <2>1, <2>2, <2>3, ChecksThenGoes
<1> QED BY <1>2, <1>3

(* What a fetch may connect to was checked when its name was resolved. *)
LEMMA ResolveSteps == ASSUME ToolInv, NEW c \in Cmd, Resolve(c) PROVE Stepped(c)
<1>1. /\ run[c].tool \in Fetches \cup Previews /\ run[c].pc = "resolve"
      /\ run[c].tool \notin Mutators /\ Previews \cap Fetches = {}
  BY Kinds DEF Resolve, At, Fetches, Previews
<1>2. PICK u \in Url, listing \in BOOLEAN, answer \in Answer :
        LET checks == TargetChecks(u, listing, answer)
        IN \/ Refused(c, checks)
           \/ /\ Passes(checks)
              /\ \E first \in answer :
                   run' = [run EXCEPT ![c].host = first,
                             ![c].pc = IF run[c].tool \in Previews THEN "page" ELSE "resolved"]
              /\ Rest
  BY <1>1 DEF Resolve
<1>3. PICK checks \in Seq(Check) :
        checks = TargetChecks(u, listing, answer) /\ (Passes(checks) => Accepted(answer))
  <2>1. PICK b1 \in BOOLEAN, b2 \in BOOLEAN, b3 \in BOOLEAN, b4 \in BOOLEAN :
          /\ b1 = (u.http /\ ~u.credentials) /\ b2 = (u.host # "localhost")
          /\ b3 = (listing => u.host = "listed") /\ b4 = Accepted(answer)
    BY DEF Accepted
  <2>2. PICK c1 \in Check, c2 \in Check, c3 \in Check, c4 \in Check :
          /\ c1 = ParseHttpUrl(u) /\ c2 = HostnameFor(u)
          /\ c3 = EnforceHttpAllowlist(u, listing) /\ c4 = <<b4, "invalid">>
    <3>1. ParseHttpUrl(u) \in Check
      BY <2>1, Pairs DEF ParseHttpUrl
    <3>2. HostnameFor(u) \in Check
      BY <2>1, Pairs DEF HostnameFor
    <3>3. EnforceHttpAllowlist(u, listing) \in Check
      BY <2>1, Pairs DEF EnforceHttpAllowlist
    <3>4. <<b4, "invalid">> \in Check
      BY Pairs
    <3> QED BY <3>1, <3>2, <3>3, <3>4
  <2>3. PICK checks \in Seq(Check) : checks = <<c1, c2, c3, c4>>
    BY TuplesOfChecks
  <2>4. checks = TargetChecks(u, listing, answer)
    BY <2>1, <2>2, <2>3 DEF TargetChecks
  <2>5. ASSUME Passes(checks) PROVE Accepted(answer)
    <3>1. Len(checks) = 4 /\ checks[4] = c4
      BY <2>3
    <3>2. 4 \in 1..Len(checks)
      BY <3>1
    <3>3. checks[4][1]
      BY <2>5, <3>2, SaysFacts
    <3>4. c4[1] <=> b4
      BY <2>2, Pairs
    <3> QED BY <2>1, <3>1, <3>3, <3>4
  <2> QED BY <2>4, <2>5
<1>4. CASE Refused(c, checks)
  BY <1>1, <1>4, RefusedStep
<1>5. ASSUME Passes(checks), NEW first \in answer, Rest,
             run' = [run EXCEPT ![c].host = first,
                       ![c].pc = IF run[c].tool \in Previews THEN "page" ELSE "resolved"]
      PROVE  Stepped(c)
  <2>1. AssertPublicAddress(first) /\ first \in Address
    BY <1>3, <1>5 DEF Accepted, Answer
  <2>2. PICK r \in Invocation : r = run[c]
    BY DEF ToolInv, ToolTypes
  <2>3. PICK pc \in {"page", "resolved"} :
          pc = IF run[c].tool \in Previews THEN "page" ELSE "resolved"
    OBVIOUS
  <2>4. PICK q : q = [r EXCEPT !.host = first, !.pc = pc]
    OBVIOUS
  <2>5. /\ q \in Invocation /\ q.tool = r.tool /\ q.inFlight = r.inFlight
        /\ q.pc = pc /\ q.out = r.out /\ q.host = first
    BY <2>1, <2>4 DEF Invocation, Stage
  <2>6. run' = [run EXCEPT ![c] = q]
    BY <1>5, <2>2, <2>3, <2>4 DEF ToolInv, ToolTypes
  <2>7. q.out = "none"
    BY <1>1, <2>2, <2>5 DEF ToolInv, Sound
  <2>8. file' \in [there : BOOLEAN, text : SUBSET Text] /\ applied' = applied /\ reached' = reached
    BY <1>5 DEF Rest, ToolInv, ToolTypes
  <2>9. q.pc \notin Trusted
    BY <2>5 DEF Trusted, OnTheWay
  <2> QED BY <1>1, <2>1, <2>2, <2>5, <2>6, <2>7, <2>8, <2>9, QuietStep
<1> QED BY <1>2, <1>3, <1>4, <1>5

(* The request goes to the address that was checked. *)
LEMMA ConnectSteps == ASSUME ToolInv, NEW c \in Cmd, Connect(c) PROVE Stepped(c)
<1>1. run[c].tool \in Fetches /\ run[c].pc = "resolved" /\ run[c].tool \notin Mutators
  BY Kinds DEF Connect, At, Fetches
<1>2. AssertPublicAddress(run[c].host)
  BY <1>1 DEF ToolInv, Sound
<1>3. PICK place \in Address : place = run[c].host
  BY <1>2 DEF AssertPublicAddress, Address
<1>4. PICK q \in Invocation :
        /\ run' = [run EXCEPT ![c] = q] /\ q.tool = run[c].tool /\ q.inFlight = run[c].inFlight
        /\ q.pc = "await" /\ q.out = run[c].out /\ q.host = run[c].host
  BY FurtherStages, GoesForm DEF Connect, Further
<1>5. q.out = "none" /\ q.pc \notin {"idle", "start", "settled", "resolved"} \cup Trusted
  BY <1>1, <1>4, FurtherStages DEF ToolInv, Sound, Further
<1>6. PICK P \in SUBSET Visit : P = {[to |-> place, moved |-> FALSE]}
  <2>1. PICK visit \in Visit : visit = [to |-> place, moved |-> FALSE]
    BY DEF Visit
  <2> QED BY <2>1
<1>7. reached' = [reached EXCEPT ![c] = @ \cup P]
  BY <1>3, <1>6 DEF Connect, Visits
<1>8. \A visit \in P : StaysWithin(run[c].tool, visit)
  BY <1>1, <1>2, <1>3, <1>6 DEF StaysWithin, Fetches
<1>9. file' \in [there : BOOLEAN, text : SUBSET Text] /\ applied' = applied
  BY DEF Connect, ToolInv, ToolTypes
<1> QED BY <1>1, <1>4, <1>5, <1>7, <1>8, <1>9, OrdinaryStep

(* A redirect starts from the name again. *)
LEMMA RedirectSteps == ASSUME ToolInv, NEW c \in Cmd, Redirect(c) PROVE Stepped(c)
<1>1. run[c].tool \in Fetches /\ run[c].pc = "answered" /\ run[c].tool \notin Mutators
  BY Kinds DEF Redirect, At, Fetches
<1>2. file' \in [there : BOOLEAN, text : SUBSET Text] /\ applied' = applied /\ reached' = reached
  BY DEF Redirect, Rest, ToolInv, ToolTypes
<1>3. CASE run[c].hops >= RedirectLimit
  BY <1>1, <1>2, <1>3, SettlesQuietly DEF Redirect, Outcome
<1>4. CASE ~(run[c].hops >= RedirectLimit)
  <2>1. PICK r \in Invocation : r = run[c]
    BY DEF ToolInv, ToolTypes
  <2>2. PICK h \in 0..RedirectLimit : h = r.hops + 1
    BY <1>4, <2>1, ToolRunsAssumption DEF Invocation
  <2>3. PICK q : q = [r EXCEPT !.pc = "resolve", !.hops = h]
    OBVIOUS
  <2>4. /\ q \in Invocation /\ q.tool = r.tool /\ q.inFlight = r.inFlight
        /\ q.pc = "resolve" /\ q.out = r.out
    BY <2>3 DEF Invocation, Stage
  <2>5. run' = [run EXCEPT ![c] = q]
    BY <1>4, <2>1, <2>2, <2>3 DEF Redirect, ToolInv, ToolTypes
  <2>6. q.out = "none"
    BY <1>1, <2>1, <2>4 DEF ToolInv, Sound
  <2>7. q.pc \notin Trusted
    BY <2>4 DEF Trusted, OnTheWay
  <2> QED BY <1>1, <1>2, <2>1, <2>4, <2>5, <2>6, <2>7, QuietStep
<1> QED BY <1>3, <1>4

(* Answers that settle an invocation, or lead to the next stage. *)
LEMMA AnswerSteps ==
  ASSUME ToolInv, NEW c \in Cmd,
         \/ FetchAnswered(c) \/ FetchEnds(c) \/ WebSearchEnds(c) \/ BrowserReadEnds(c)
         \/ PageEnds(c)
         \/ GithubReadEnds(c) \/ GmailReadEnds(c) \/ CalendarReadEnds(c) \/ DriveReadEnds(c)
  PROVE  Stepped(c)
<1>1. /\ run[c].tool \notin Mutators /\ run[c].pc \notin {"idle", "settled"} /\ Rest
  BY Kinds DEF FetchAnswered, FetchEnds, WebSearchEnds, BrowserReadEnds, PageEnds, GithubReadEnds,
       GmailReadEnds, CalendarReadEnds, DriveReadEnds, At, Fetches, Previews
<1>2. (\E out \in Outcome : Settles(c, out)) \/ \E pc \in {"answered", "details"} : Goes(c, pc)
  BY DEF FetchAnswered, FetchEnds, WebSearchEnds, BrowserReadEnds, PageEnds, GithubReadEnds,
       GmailReadEnds, CalendarReadEnds, DriveReadEnds, GoogleFails, Outcome
<1>3. file' \in [there : BOOLEAN, text : SUBSET Text] /\ applied' = applied /\ reached' = reached
  BY <1>1 DEF Rest, ToolInv, ToolTypes
<1>4. ASSUME NEW out \in Outcome, Settles(c, out) PROVE Stepped(c)
  BY <1>1, <1>3, <1>4, SettlesQuietly
<1>5. ASSUME NEW pc \in {"answered", "details"}, Goes(c, pc) PROVE Stepped(c)
  <2>1. pc \in Further
    BY DEF Further
  <2> QED BY <1>1, <1>5, <2>1, GoesQuietly
<1> QED BY <1>2, <1>4, <1>5

(* Reads of an API. *)
LEMMA ReadSteps ==
  ASSUME ToolInv, NEW c \in Cmd, GithubRead(c) \/ \E tool \in GoogleReads : GoogleRead(c, tool)
  PROVE  Stepped(c)
<1>1. run[c].tool \notin Mutators /\ run[c].pc = "start"
  BY Kinds DEF GithubRead, GoogleRead, At
<1>2. CASE GithubRead(c)
  <2>1. PICK resource \in GithubResource, args \in SUBSET {"owner", "repo", "number", "misfit"} :
          LET checks == GithubPath(resource, args)
          IN \/ Refused(c, checks)
             \/ Passes(checks) /\ Goes(c, "await") /\ Rest
    BY <1>2 DEF GithubRead
  <2>2. PICK b \in BOOLEAN : b = (resource = "repo")
    OBVIOUS
  <2>3. PICK last \in Check :
          last = CASE resource \in {"issue", "pr"}   -> Needs({"number"}, args)
                   [] resource \in {"issues", "prs"} -> Fits(args)
                   [] OTHER                          -> <<resource = "repo", "invalid">>
    BY <2>2, Pairs, ArgumentChecks
  <2>4. PICK checks \in Seq(Check) : checks = GithubPath(resource, args)
    BY <2>3, ArgumentChecks, TuplesOfChecks DEF GithubPath
  <2> QED BY <1>1, <2>1, <2>4, ChecksThenGoes
<1>3. ASSUME NEW tool \in GoogleReads, GoogleRead(c, tool) PROVE Stepped(c)
  <2>1. PICK args \in SUBSET {"misfit"}, token \in BOOLEAN :
          LET checks == GoogleReadChecks(args, token)
          IN \/ Refused(c, checks)
             \/ Passes(checks) /\ Goes(c, "await") /\ Rest
    BY <1>3 DEF GoogleRead
  <2>2. GoogleReadToken(token) \in Check
    BY Pairs DEF GoogleReadToken
  <2>3. PICK checks \in Seq(Check) : checks = GoogleReadChecks(args, token)
    BY <2>2, ArgumentChecks, TuplesOfChecks DEF GoogleReadChecks
  <2> QED BY <1>1, <2>1, <2>3, ChecksThenGoes
<1> QED BY <1>2, <1>3

-----------------------------------------------------------------------------
(* Writes. *)

(* One request leaves, after all the checks. *)
LEMMA SendsOnceStep ==
  ASSUME ToolInv, NEW c \in Cmd, NEW checks \in Seq(Check), SendsOnce(c, checks),
         run[c].pc = "start", run[c].tool \in Mutators
  PROVE  Stepped(c)
<1>1. CASE Refused(c, checks)
  BY <1>1, RefusedStep
<1>2. CASE run' = [run EXCEPT ![c].pc = "await", ![c].inFlight = TRUE] /\ Rest
  <2>1. PICK r \in Invocation : r = run[c]
    BY DEF ToolInv, ToolTypes
  <2>2. PICK q : q = [r EXCEPT !.pc = "await", !.inFlight = TRUE]
    OBVIOUS
  <2>3. /\ q \in Invocation /\ q.tool = r.tool /\ q.inFlight /\ q.pc = "await" /\ q.out = r.out
    BY <2>2 DEF Invocation, Stage
  <2>4. run' = [run EXCEPT ![c] = q]
    BY <1>2, <2>1, <2>2 DEF ToolInv, ToolTypes
  <2>5. PICK n \in 0..1, P \in SUBSET Visit : n = applied[c] /\ P = reached[c]
    BY DEF ToolInv, ToolTypes
  <2>6. /\ applied' = [applied EXCEPT ![c] = n] /\ reached' = [reached EXCEPT ![c] = P]
        /\ file' \in [there : BOOLEAN, text : SUBSET Text]
    BY <1>2, <2>5 DEF Rest, ToolInv, ToolTypes
  <2>7. Sound(run[c], n, P)
    BY <2>5 DEF ToolInv
  <2>8. r.tool \notin Fetches /\ q.pc \notin Trusted
    BY <2>1, <2>3, Kinds DEF Fetches, Trusted, OnTheWay
  <2>9. Sound(q, n, P)
    BY <2>1, <2>3, <2>7, <2>8 DEF Sound
  <2> QED BY <2>1, <2>3, <2>4, <2>6, <2>9, StepsSoundly
<1> QED BY <1>1, <1>2 DEF SendsOnce

(* The checks of the writes. *)
LEMMA GithubChecks ==
  ASSUME NEW operation, NEW args, NEW repos, NEW token \in BOOLEAN
  PROVE  GithubWriteChecks(operation, args, repos, token) \in Seq(Check)
<1>1. PICK b1 \in BOOLEAN, b2 \in BOOLEAN :
        /\ b1 = ("number" \in args /\ args \cap {"title", "body"} # {}) /\ b2 = (repos = "listed")
  OBVIOUS
<1>2. PICK last \in Check :
        last = CASE operation = "issue.create" -> Needs({"title"}, args)
                 [] operation \in {"issue.comment.create", "pr.comment.create"} ->
                      Needs({"number", "body"}, args)
                 [] operation = "issue.update" ->
                      <<"number" \in args /\ args \cap {"title", "body"} # {}, "invalid">>
                 [] operation = "pr.create"    -> Needs({"title", "branches"}, args)
                 [] OTHER                      -> <<FALSE, "invalid">>
  <2>1. <<b1, "invalid">> \in Check /\ <<FALSE, "invalid">> \in Check
    BY Pairs
  <2>2. <<"number" \in args /\ args \cap {"title", "body"} # {}, "invalid">> \in Check
    BY <1>1, <2>1
  <2> QED BY <2>1, <2>2, ArgumentChecks
<1>3. PICK route \in Seq(Check) : route = GithubWriteRoute(operation, args)
  BY <1>2, ArgumentChecks, TuplesOfChecks DEF GithubWriteRoute
<1>4. PICK first \in Seq(Check) : first = <<Fits(args)>>
  BY ArgumentChecks, TuplesOfChecks
<1>5. AssertGitHubRepoAllowed(repos) \in Check /\ GithubWriteToken(token) \in Check
  BY <1>1, Pairs DEF AssertGitHubRepoAllowed, GithubWriteToken
<1>6. PICK rest \in Seq(Check) : rest = <<AssertGitHubRepoAllowed(repos), GithubWriteToken(token)>>
  BY <1>5, TuplesOfChecks
<1>7. first \o route \in Seq(Check) /\ (first \o route) \o rest \in Seq(Check)
  BY ConcatProperties
<1> QED BY <1>3, <1>4, <1>6, <1>7 DEF GithubWriteChecks

(* What every write to Google begins with. *)
LEMMA GoogleFirstChecks ==
  ASSUME NEW operation, NEW allowed, NEW args, NEW token \in BOOLEAN
  PROVE  <<OperationArg(operation, allowed), Fits(args), GoogleWriteToken(token)>> \in Seq(Check)
<1>1. PICK b \in BOOLEAN : b = (operation \in allowed)
  <2>1. \E b \in BOOLEAN : b <=> (operation \in allowed)
    OBVIOUS
  <2> QED BY <2>1
<1>2. OperationArg(operation, allowed) \in Check /\ GoogleWriteToken(token) \in Check
  BY <1>1, Pairs DEF OperationArg, GoogleWriteToken
<1> QED BY <1>2, ArgumentChecks, TuplesOfChecks

(* Those of Gmail. *)
LEMMA GmailChecks ==
  ASSUME NEW operation, NEW args, NEW token \in BOOLEAN
  PROVE  GmailWriteChecks(operation, args, token) \in Seq(Check)
<1>1. PICK first \in Seq(Check) :
        first = <<OperationArg(operation, GmailOperation \ {"other"}), Fits(args),
                  GoogleWriteToken(token)>>
  BY GoogleFirstChecks
<1>2. PICK b1 \in BOOLEAN, b2 \in BOOLEAN :
        b1 = ("broken_to" \notin args) /\ b2 = ("broken_header" \notin args)
  OBVIOUS
<1>3. PICK c1 \in Check, c2 \in Check :
        c1 = <<"broken_to" \notin args, "unsent">> /\ c2 = <<"broken_header" \notin args, "unsent">>
  BY <1>2, Pairs
<1>4. EncodedMimeMessage(args) \in Seq(Check) /\ <<Needs({"draft_id"}, args)>> \in Seq(Check)
  BY <1>3, ArgumentChecks, TuplesOfChecks DEF EncodedMimeMessage
<1>5. PICK rest \in Seq(Check) :
        rest = IF operation = "draft.send" THEN <<Needs({"draft_id"}, args)>>
                                           ELSE EncodedMimeMessage(args)
  BY <1>4
<1>6. first \o rest \in Seq(Check)
  BY ConcatProperties
<1> QED BY <1>1, <1>5, <1>6 DEF GmailWriteChecks

(* Those of the calendar. *)
LEMMA CalendarChecks ==
  ASSUME NEW operation, NEW args, NEW token \in BOOLEAN
  PROVE  CalendarWriteChecks(operation, args, token) \in Seq(Check)
<1>1. PICK first \in Seq(Check) :
        first = <<OperationArg(operation, CalendarOperation \ {"other"}), Fits(args),
                  GoogleWriteToken(token)>>
  BY GoogleFirstChecks
<1>2. PICK b1 \in BOOLEAN, b2 \in BOOLEAN :
        b1 = ("attendees" \notin args) /\ b2 = (args \cap {"summary", "times"} # {})
  OBVIOUS
<1>3. PICK c1 \in Check, c2 \in Check :
        /\ c1 = <<"attendees" \notin args, "unsent">>
        /\ c2 = <<args \cap {"summary", "times"} # {}, "unsent">>
  BY <1>2, Pairs
<1>4. PICK created \in Seq(Check) : created = CalendarEventBody(args, TRUE)
  BY <1>3, ArgumentChecks, TuplesOfChecks DEF CalendarEventBody
<1>5. PICK updated \in Seq(Check) : updated = CalendarEventBody(args, FALSE)
  BY <1>3, ArgumentChecks, TuplesOfChecks DEF CalendarEventBody
<1>6. PICK named \in Seq(Check), some \in Seq(Check) :
        /\ named = <<Needs({"event_id"}, args)>>
        /\ some = << <<args \cap {"summary", "times"} # {}, "unsent">> >>
  BY <1>3, ArgumentChecks, TuplesOfChecks
<1>7. (named \o updated) \o some \in Seq(Check)
  BY ConcatProperties
<1>8. PICK rest \in Seq(Check) :
        rest = CASE operation = "event.create" -> created
                 [] operation = "event.update" -> (named \o updated) \o some
                 [] OTHER -> named
  BY <1>7
<1>9. first \o rest \in Seq(Check)
  BY ConcatProperties
<1> QED BY <1>1, <1>4, <1>5, <1>6, <1>8, <1>9 DEF CalendarWriteChecks

(* Those of Drive. *)
LEMMA DriveChecks ==
  ASSUME NEW operation, NEW args, NEW token \in BOOLEAN
  PROVE  DriveWriteChecks(operation, args, token) \in Seq(Check)
<1>1. PICK first \in Seq(Check) :
        first = <<OperationArg(operation, DriveOperation \ {"other"}), Fits(args),
                  GoogleWriteToken(token)>>
  BY GoogleFirstChecks
<1>2. PICK b1 \in BOOLEAN, b2 \in BOOLEAN :
        /\ b1 = (~({"content", "oversized"} \subseteq args))
        /\ b2 = (args \cap {"name", "content"} # {})
  OBVIOUS
<1>3. PICK c1 \in Check, c2 \in Check :
        /\ c1 = <<~({"content", "oversized"} \subseteq args), "unsent">>
        /\ c2 = <<args \cap {"name", "content"} # {}, "unsent">>
  BY <1>2, Pairs
<1>4. PICK full \in Seq(Check), part \in Seq(Check) :
        full = BoundedContent(args, TRUE) /\ part = BoundedContent(args, FALSE)
  BY <1>3, ArgumentChecks, TuplesOfChecks DEF BoundedContent
<1>5. PICK titled \in Seq(Check), untitled \in Seq(Check) :
        titled = DriveMetadata(args, TRUE) /\ untitled = DriveMetadata(args, FALSE)
  BY ArgumentChecks, TuplesOfChecks DEF DriveMetadata
<1>6. PICK named \in Seq(Check), some \in Seq(Check) :
        /\ named = <<Needs({"file_id"}, args)>>
        /\ some = << <<args \cap {"name", "content"} # {}, "unsent">> >>
  BY <1>3, ArgumentChecks, TuplesOfChecks
<1>7. titled \o full \in Seq(Check) /\ ((named \o untitled) \o part) \o some \in Seq(Check)
  BY ConcatProperties
<1>8. PICK rest \in Seq(Check) :
        rest = IF operation = "file.create" THEN titled \o full
                                            ELSE ((named \o untitled) \o part) \o some
  BY <1>7
<1>9. first \o rest \in Seq(Check)
  BY ConcatProperties
<1> QED BY <1>1, <1>4, <1>5, <1>6, <1>8, <1>9 DEF DriveWriteChecks

(* All four writes send once. *)
LEMMA WriteSteps ==
  ASSUME ToolInv, NEW c \in Cmd,
         GithubWrite(c) \/ GmailWrite(c) \/ CalendarWrite(c) \/ DriveWrite(c)
  PROVE  Stepped(c)
<1>1. run[c].tool \in Mutators /\ run[c].pc = "start"
  BY Kinds DEF GithubWrite, GmailWrite, CalendarWrite, DriveWrite, At
<1>2. PICK checks \in Seq(Check) : SendsOnce(c, checks)
  <2>1. CASE GithubWrite(c)
    BY <2>1, GithubChecks DEF GithubWrite
  <2>2. CASE GmailWrite(c)
    BY <2>2, GmailChecks DEF GmailWrite
  <2>3. CASE CalendarWrite(c)
    BY <2>3, CalendarChecks DEF CalendarWrite
  <2>4. CASE DriveWrite(c)
    BY <2>4, DriveChecks DEF DriveWrite
  <2> QED BY <2>1, <2>2, <2>3, <2>4
<1> QED BY <1>1, <1>2, SendsOnceStep

(* What was sent is performed once, although nobody may wait for it. *)
LEMMA PerformSteps == ASSUME ToolInv, NEW c \in Cmd, Perform(c) PROVE Stepped(c)
<1>1. PICK r \in Invocation : r = run[c]
  BY DEF ToolInv, ToolTypes
<1>2. PICK P \in SUBSET Visit : P = reached[c]
  BY DEF ToolInv, ToolTypes
<1>3. /\ r.inFlight /\ applied[c] = 0 /\ r.tool \in Mutators /\ Sound(r, 0, P)
  BY <1>1, <1>2 DEF Perform, ToolInv, Sound
<1>4. PICK q : q = [r EXCEPT !.inFlight = FALSE]
  OBVIOUS
<1>5. /\ q \in Invocation /\ q.tool = r.tool /\ ~q.inFlight /\ q.pc = r.pc /\ q.out = r.out
      /\ q.way = r.way /\ q.moved = r.moved
  BY <1>4 DEF Invocation
<1>6. run' = [run EXCEPT ![c] = q]
  BY <1>1, <1>4 DEF Perform, ToolInv, ToolTypes
<1>7. PICK n \in 0..1 : n = applied[c] + 1
  BY <1>3
<1>8. /\ applied' = [applied EXCEPT ![c] = n] /\ reached' = [reached EXCEPT ![c] = P]
      /\ file' \in [there : BOOLEAN, text : SUBSET Text]
  BY <1>2, <1>7 DEF Perform, ToolInv, ToolTypes
<1>9. r.tool \notin Fetches /\ r.tool # "none"
  BY <1>3, Kinds DEF Fetches
<1>10. Sound(q, n, P) /\ r.pc # "idle" /\ n = 1
  BY <1>3, <1>5, <1>7, <1>9 DEF Sound, WayKept
<1> QED BY <1>1, <1>5, <1>6, <1>8, <1>10, StepsSoundly

(* An answer that confirms comes from a service that performed it. *)
LEMMA ConfirmSteps ==
  ASSUME ToolInv, NEW c \in Cmd, GithubWriteEnds(c) \/ GoogleWriteEnds(c) PROVE Stepped(c)
<1>1. run[c].tool \in Mutators /\ run[c].pc = "await" /\ Rest
  BY Kinds DEF GithubWriteEnds, GoogleWriteEnds, At
<1>2. PICK out \in {"ok", "unconfirmed", "lost"} :
        Settles(c, out) /\ (out = "ok" => applied[c] > 0)
  BY DEF GithubWriteEnds, GoogleWriteEnds, MutationResult, GoogleWriteUnconfirmed
<1>3. out \in Outcome
  BY DEF Outcome
<1>4. PICK q \in Invocation :
        /\ run' = [run EXCEPT ![c] = q] /\ q.tool = run[c].tool /\ q.inFlight = run[c].inFlight
        /\ q.pc = "settled" /\ q.out = out
  BY <1>2, <1>3, SettlesForm
<1>5. PICK n \in 0..1, P \in SUBSET Visit : n = applied[c] /\ P = reached[c]
  BY DEF ToolInv, ToolTypes
<1>6. /\ applied' = [applied EXCEPT ![c] = n] /\ reached' = [reached EXCEPT ![c] = P]
      /\ file' \in [there : BOOLEAN, text : SUBSET Text]
  BY <1>1, <1>5 DEF Rest, ToolInv, ToolTypes
<1>7. Sound(run[c], n, P) /\ (out = "ok" => n = 1)
  BY <1>2, <1>5 DEF ToolInv
<1>8. run[c].tool \notin Fetches /\ "settled" \notin Trusted
  BY <1>1, Kinds DEF Fetches, Trusted, OnTheWay
<1>9. Sound(q, n, P)
  BY <1>1, <1>2, <1>4, <1>7, <1>8 DEF Sound
<1> QED BY <1>1, <1>4, <1>6, <1>9, StepsSoundly

(* Whatever a tool does. *)
LEMMA ToolSteps == ASSUME ToolInv, NEW c \in Cmd, ToolStep(c) PROVE Stepped(c)
BY AnswersAtOnce, RelinkSteps, FileSearchSteps, WalkSteps, ResolvingSteps, FileWriteSteps,
   FileEditSteps, EditAndWriteSteps, ShellSteps, FetchSteps, BrowserSteps, ResolveSteps, ConnectSteps, RedirectSteps, AnswerSteps,
   ReadSteps, WriteSteps, PerformSteps, ConfirmSteps DEF ToolStep

-----------------------------------------------------------------------------
(* Sends. *)

(* What a send may be: what was delivered was posted. *)
SentWell(m) ==
  /\ DOMAIN m = {"chan", "pc", "attempt", "posted", "copies", "pause", "out"}
  /\ m.attempt \in 0..MaxRetries /\ (m.chan = "telegram" => m.attempt = 0)
  /\ m.copies \in 0..(m.attempt + 1)
  /\ m.pc \in {"calling", "sleeping"} \/ (m.pc = "waiting" /\ ~m.posted) => m.copies <= m.attempt
  /\ m.posted \/ m.out = "delivered" => m.copies > 0

SendInv == DOMAIN send = Send /\ \A s \in Send : SentWell(send[s])

SentOn(s) ==
  /\ SendInv'
  /\ \A other \in Send \ {s} : send'[other] = send[other]
  /\ send[s].pc \notin {"idle", "settled"} /\ send'[s].pc # "idle"

(* To see that one send moves well it is enough to look at it. *)
LEMMA SendsWell ==
  ASSUME SendInv, NEW s \in Send, NEW m, SentWell(m), send' = [send EXCEPT ![s] = m],
         m.pc # "idle", send[s].pc \notin {"idle", "settled"}
  PROVE  SentOn(s)
<1>1. /\ DOMAIN send' = Send /\ send'[s] = m
      /\ \A other \in Send \ {s} : send'[other] = send[other]
  BY DEF SendInv
<1> QED BY <1>1 DEF SendInv, SentOn

(* After an attempt that delivered only what was posted. *)
LEMMA AfterStep ==
  ASSUME SendInv, NEW s \in Send, NEW signal, After(s, signal),
         send[s].pc \notin {"idle", "settled"},
         signal = "ok" => send[s].posted
  PROVE  SentOn(s)
<1>1. PICK m : m = send[s] /\ SentWell(m)
  BY DEF SendInv
<1>2. ASSUME NEW n, n = m.attempt + 1, n <= MaxRetries, m.chan # "telegram", NEW d,
             send' = [send EXCEPT ![s].pc = "sleeping", ![s].attempt = n, ![s].pause = d]
      PROVE  SentOn(s)
  <2>1. PICK q : q = [m EXCEPT !.pc = "sleeping", !.attempt = n, !.pause = d]
    OBVIOUS
  <2>2. SentWell(q) /\ q.pc = "sleeping"
    BY <1>1, <1>2, <2>1, ChannelSendsAssumption DEF SentWell
  <2>3. send' = [send EXCEPT ![s] = q]
    BY <1>1, <1>2, <2>1 DEF SendInv
  <2> QED BY <2>2, <2>3, SendsWell
<1>3. ASSUME NEW out, Ends(s, out), out = "delivered" => send[s].posted PROVE SentOn(s)
  <2>1. PICK q : q = [m EXCEPT !.pc = "settled", !.out = out]
    OBVIOUS
  <2>2. SentWell(q) /\ q.pc = "settled"
    BY <1>1, <1>3, <2>1 DEF SentWell
  <2>3. send' = [send EXCEPT ![s] = q]
    BY <1>1, <1>3, <2>1 DEF SendInv, Ends
  <2> QED BY <2>2, <2>3, SendsWell
<1>4. PICK out \in {"delivered", "failed"} : out = IF signal = "ok" THEN "delivered" ELSE "failed"
  OBVIOUS
<1>5. \/ Ends(s, out)
      \/ \E n, d :
           /\ n = m.attempt + 1 /\ n <= MaxRetries /\ m.chan # "telegram"
           /\ send' = [send EXCEPT ![s].pc = "sleeping", ![s].attempt = n, ![s].pause = d]
  BY <1>1, <1>4 DEF After
<1> QED BY <1>2, <1>3, <1>4, <1>5

(* Whatever a send does. *)
LEMMA SendSteps == ASSUME SendInv, NEW s \in Send, SendStep(s) PROVE SentOn(s)
<1>1. PICK m : m = send[s] /\ SentWell(m)
  BY DEF SendInv
<1>2. CASE CallOnce(s)
  <2>1. send[s].pc = "calling"
    BY <1>2 DEF CallOnce
  <2>2. CASE send' = [send EXCEPT ![s].pc = "waiting", ![s].posted = FALSE]
    <3>1. PICK q : q = [m EXCEPT !.pc = "waiting", !.posted = FALSE]
      OBVIOUS
    <3>2. SentWell(q) /\ q.pc = "waiting"
      BY <1>1, <2>1, <3>1 DEF SentWell
    <3>3. send' = [send EXCEPT ![s] = q]
      BY <1>1, <2>2, <3>1 DEF SendInv
    <3> QED BY <2>1, <3>2, <3>3, SendsWell
  <2>3. \/ After(s, "refused") \/ After(s, "throw_other")
        \/ send' = [send EXCEPT ![s].pc = "waiting", ![s].posted = FALSE]
    BY <1>2 DEF CallOnce
  <2> QED BY <2>1, <2>2, <2>3, AfterStep
<1>3. CASE Post(s)
  <2>1. PICK q : q = [m EXCEPT !.posted = TRUE, !.copies = m.copies + 1]
    OBVIOUS
  <2>2. SentWell(q) /\ q.pc = "waiting"
    BY <1>1, <1>3, <2>1 DEF SentWell, Post
  <2>3. send' = [send EXCEPT ![s] = q]
    BY <1>1, <1>3, <2>1 DEF SendInv, Post
  <2> QED BY <1>3, <2>2, <2>3, SendsWell DEF Post
<1>4. CASE Answered(s)
  BY <1>4, AfterStep DEF Answered
<1>5. CASE Wake(s)
  <2>1. PICK q : q = [m EXCEPT !.pc = "calling", !.pause = 0]
    OBVIOUS
  <2>2. SentWell(q) /\ q.pc = "calling"
    BY <1>1, <1>5, <2>1 DEF SentWell, Wake
  <2>3. send' = [send EXCEPT ![s] = q]
    BY <1>1, <1>5, <2>1 DEF SendInv, Wake
  <2> QED BY <1>5, <2>2, <2>3, SendsWell DEF Wake
<1> QED BY <1>2, <1>3, <1>4, <1>5 DEF SendStep

(* A send begins with no copy. *)
LEMMA DispatchStep ==
  ASSUME SendInv, NEW s \in Send, NEW a, Dispatch(s, a)
  PROVE  /\ SendInv' /\ send[s].pc = "idle" /\ send'[s].pc # "idle"
         /\ \A other \in Send \ {s} : send'[other] = send[other]
<1>1. PICK m : send' = [send EXCEPT ![s] = m] /\ SentWell(m) /\ m.pc # "idle"
  <2>1. PICK up : up = [NoSend EXCEPT !.chan = a, !.pc = "calling"]
    OBVIOUS
  <2>2. PICK down : down = [NoSend EXCEPT !.chan = a, !.pc = "settled", !.out = "failed"]
    OBVIOUS
  <2>3. SentWell(up) /\ SentWell(down) /\ up.pc # "idle" /\ down.pc # "idle"
    BY <2>1, <2>2, ChannelSendsAssumption DEF SentWell, NoSend
  <2>4. send' = [send EXCEPT ![s] = up] \/ send' = [send EXCEPT ![s] = down]
    BY <2>1, <2>2 DEF Dispatch
  <2> QED BY <2>3, <2>4
<1>2. /\ DOMAIN send' = Send /\ send'[s] = m
      /\ \A other \in Send \ {s} : send'[other] = send[other]
  BY <1>1 DEF SendInv
<1> QED BY <1>1, <1>2 DEF SendInv, Dispatch

-----------------------------------------------------------------------------
(* The executor. *)

(* A command is a tool call or a send, and what was reported of it is how it
   settled, or that it took too long. *)
ReportedWell(c) ==
  /\ run[c].pc = "idle" \/ send[c].pc = "idle"
  /\ feedback[c] = "success" =>
       \/ run[c].pc = "settled" /\ run[c].out = "ok"
       \/ send[c].pc = "settled" /\ send[c].out = "delivered"
  /\ feedback[c] = "unsent" => run[c].pc = "settled" /\ run[c].out = "unsent"

EffectsInv ==
  /\ ToolInv /\ SendInv
  /\ feedback \in [Cmd -> Feedback] /\ timer \in [Cmd -> BOOLEAN]
  /\ \A c \in Cmd : ReportedWell(c)

(* An invocation may be none. *)
LEMMA NoRunIsOne == NoRun \in Invocation
BY ToolRunsAssumption DEF NoRun, Invocation, Stage, Place

(* At first nothing was started. *)
LEMMA EffectsInvInit == EffectsInit => EffectsInv
<1> SUFFICES ASSUME EffectsInit PROVE EffectsInv
  OBVIOUS
<1>1. NoRun \in Invocation
  BY NoRunIsOne
<1>2. ToolTypes
  <2>1. run \in [Cmd -> Invocation]
    BY <1>1 DEF EffectsInit, ToolInit
  <2>2. file \in [there : BOOLEAN, text : SUBSET Text]
    <3>1. PICK none \in SUBSET Text, base \in SUBSET Text : none = {} /\ base = {Base}
      BY DEF Text
    <3>2. /\ [there |-> FALSE, text |-> none] \in [there : BOOLEAN, text : SUBSET Text]
          /\ [there |-> TRUE, text |-> base] \in [there : BOOLEAN, text : SUBSET Text]
      OBVIOUS
    <3> QED BY <3>1, <3>2 DEF EffectsInit, ToolInit
  <2>3. applied \in [Cmd -> 0..1]
    BY DEF EffectsInit, ToolInit
  <2>4. reached \in [Cmd -> SUBSET Visit]
    BY DEF EffectsInit, ToolInit
  <2> QED BY <2>1, <2>2, <2>3, <2>4 DEF ToolTypes
<1>3. \A c \in Cmd : Sound(run[c], applied[c], reached[c])
  BY Kinds DEF EffectsInit, ToolInit, Sound, NoRun, Fetches, Trusted, OnTheWay
<1>4. SendInv
  BY ChannelSendsAssumption DEF EffectsInit, SendInit, SendInv, SentWell, NoSend
<1>5. feedback \in [Cmd -> Feedback] /\ timer \in [Cmd -> BOOLEAN]
  BY DEF EffectsInit, Feedback
<1>6. \A c \in Cmd : ReportedWell(c)
  BY DEF EffectsInit, ToolInit, ReportedWell, NoRun
<1> QED BY <1>2, <1>3, <1>4, <1>5, <1>6 DEF EffectsInv, ToolInv

(* An invocation starts where nothing was done. *)
LEMMA InvokeStep ==
  ASSUME ToolInv, NEW c \in Cmd, NEW t \in Tool, t # "none", Invoke(c, t)
  PROVE  /\ ToolInv' /\ run[c].pc = "idle" /\ run'[c].pc = "start"
         /\ \A d \in Cmd \ {c} : run'[d] = run[d]
<1>1. PICK q : q = [NoRun EXCEPT !.tool = t, !.pc = "start"]
  OBVIOUS
<1>2. q \in Invocation
  <2>1. PICK r \in Invocation : r = NoRun
    BY NoRunIsOne
  <2>2. q = [r EXCEPT !.tool = t, !.pc = "start"]
    BY <1>1, <2>1
  <2> QED BY <2>2 DEF Invocation, Stage
<1>3. /\ q.tool = t /\ q.pc = "start" /\ q.out = "none" /\ ~q.inFlight
  BY <1>1 DEF NoRun
<1>4. run' = [run EXCEPT ![c] = q] /\ Rest /\ run[c].pc = "idle"
  BY <1>1 DEF Invoke
<1>5. /\ run'[c] = q /\ \A d \in Cmd \ {c} : run'[d] = run[d]
  BY <1>4 DEF ToolInv, ToolTypes
<1>6. ToolTypes'
  BY <1>2, <1>4 DEF ToolInv, ToolTypes, Rest
<1>7. applied[c] = 0 /\ reached[c] = {}
  BY <1>4 DEF ToolInv, Sound
<1>8. Sound(q, applied[c], reached[c])
  BY <1>3, <1>7 DEF Sound, Trusted, OnTheWay
<1>9. ToolInv'
  BY <1>4, <1>5, <1>6, <1>8 DEF ToolInv, Rest
<1> QED BY <1>3, <1>4, <1>5, <1>9

(* Every tool has a name. *)
LEMMA NoToolIsNone == \A t \in Tool : t # "none"
BY DEF Tool, ToolCaps

(* The invocation and the send of a command stay as they were, when they had
   settled. *)
LEMMA ReportsStay ==
  ASSUME EffectsInv, NEW c \in Cmd, UNCHANGED feedback,
         run'[c].pc = "idle" \/ send'[c].pc = "idle",
         run[c].pc = "settled" => run'[c].pc = "settled" /\ run'[c].out = run[c].out,
         send[c].pc = "settled" => send'[c] = send[c]
  PROVE  ReportedWell(c)'
BY DEF EffectsInv, ReportedWell

(* Each step of the executor, the tools and the sends keeps the
   invariant. *)
LEMMA EffectsInvStep == EffectsInv /\ [EffectsNext]_effectVars => EffectsInv'
<1> SUFFICES ASSUME EffectsInv, [EffectsNext]_effectVars PROVE EffectsInv'
  OBVIOUS
<1>a. /\ ToolInv /\ SendInv /\ feedback \in [Cmd -> Feedback] /\ timer \in [Cmd -> BOOLEAN]
      /\ \A c \in Cmd : ReportedWell(c)
  BY DEF EffectsInv
<1>b. ASSUME UNCHANGED toolVars PROVE ToolInv'
  BY <1>a, <1>b DEF toolVars, ToolInv, ToolTypes
<1>c. ASSUME UNCHANGED sendVars PROVE SendInv'
  BY <1>a, <1>c DEF sendVars, SendInv
<1>d. ASSUME UNCHANGED <<toolVars, sendVars, feedback>>, timer' \in [Cmd -> BOOLEAN]
      PROVE  EffectsInv'
  <2>1. \A c \in Cmd : ReportedWell(c)'
    BY <1>a, <1>d DEF toolVars, sendVars, ReportedWell
  <2> QED BY <1>a, <1>b, <1>c, <1>d, <2>1 DEF EffectsInv
<1>e. ASSUME NEW c \in Cmd, NEW f \in Feedback, Reports(c, f), UNCHANGED <<toolVars, sendVars>>,
             timer' \in [Cmd -> BOOLEAN],
             f = "success" => \/ run[c].pc = "settled" /\ run[c].out = "ok"
                              \/ send[c].pc = "settled" /\ send[c].out = "delivered",
             f = "unsent" => run[c].pc = "settled" /\ run[c].out = "unsent"
      PROVE  EffectsInv'
  <2>1. /\ feedback' \in [Cmd -> Feedback] /\ feedback'[c] = f
        /\ \A d \in Cmd \ {c} : feedback'[d] = feedback[d]
    BY <1>a, <1>e DEF Reports
  <2>2. \A d \in Cmd : ReportedWell(d)'
    BY <1>a, <1>e, <2>1 DEF toolVars, sendVars, ReportedWell
  <2> QED BY <1>a, <1>b, <1>c, <1>e, <2>1, <2>2 DEF EffectsInv
<1>1. ASSUME NEW c \in Cmd, NEW t \in Offered, ExecuteTool(c, t) PROVE EffectsInv'
  <2>1. CASE Invoke(c, t) /\ UNCHANGED <<sendVars, feedback>>
    <3>1. /\ ToolInv' /\ run[c].pc = "idle" /\ run'[c].pc = "start"
          /\ \A d \in Cmd \ {c} : run'[d] = run[d]
      BY <1>a, <2>1, InvokeStep, NoToolIsNone, ToolRunsAssumption
    <3>2. \A d \in Cmd : ReportedWell(d)'
      <4> TAKE d \in Cmd
      <4>1. send'[c].pc = "idle" /\ UNCHANGED <<send, feedback>>
        BY <1>1, <2>1 DEF ExecuteTool, sendVars
      <4>2. CASE d = c
        BY <1>a, <3>1, <4>1, <4>2, ReportsStay
      <4>3. CASE d # c
        BY <1>a, <3>1, <4>1, <4>3 DEF ReportedWell
      <4> QED BY <4>2, <4>3
    <3>3. timer' \in [Cmd -> BOOLEAN]
      <4>1. timer' = timer \/ \E b \in BOOLEAN : timer' = [timer EXCEPT ![c] = b]
        BY <1>1 DEF ExecuteTool
      <4> QED BY <1>a, <4>1
    <3> QED BY <1>a, <1>c, <2>1, <3>1, <3>2, <3>3 DEF EffectsInv
  <2>2. CASE Reports(c, "denied") /\ UNCHANGED <<toolVars, sendVars, timer>>
    BY <1>a, <1>e, <2>2 DEF Feedback
  <2> QED BY <1>1, <2>1, <2>2 DEF ExecuteTool
<1>2. ASSUME NEW c \in Cmd, ToolStep(c), UNCHANGED <<sendVars, feedback, timer>> PROVE EffectsInv'
  <2>1. Stepped(c)
    BY <1>a, <1>2, ToolSteps
  <2>2. \A d \in Cmd : ReportedWell(d)'
    <3> TAKE d \in Cmd
    <3>1. UNCHANGED <<send, feedback>> /\ run[c].pc # "idle"
      BY <1>2, <2>1 DEF sendVars, Stepped
    <3>2. send[c].pc = "idle"
      BY <1>a, <3>1 DEF ReportedWell
    <3>3. CASE d = c
      BY <2>1, <3>1, <3>2, <3>3, ReportsStay DEF Stepped
    <3>4. CASE d # c
      BY <1>a, <2>1, <3>1, <3>4 DEF Stepped, ReportedWell
    <3> QED BY <3>3, <3>4
  <2> QED BY <1>a, <1>c, <1>2, <2>1, <2>2 DEF EffectsInv, Stepped
<1>3. ASSUME NEW c \in Cmd, ToolSettles(c) PROVE EffectsInv'
  <2>1. PICK f : f = IF run[c].out = "ok" THEN "success" ELSE run[c].out
    OBVIOUS
  <2>2. /\ run[c].pc = "settled" /\ Reports(c, f) /\ UNCHANGED <<toolVars, sendVars, timer>>
    BY <1>3, <2>1 DEF ToolSettles
  <2>3. run[c].out \in Outcome
    BY <1>a, <2>2 DEF ToolInv, ToolTypes, Invocation, Sound
  <2>4. /\ f \in Feedback /\ (f = "success" => run[c].out = "ok")
        /\ f = "unsent" => run[c].out = "unsent"
    BY <2>1, <2>3 DEF Feedback, Outcome
  <2> QED BY <1>a, <1>e, <2>2, <2>4
<1>4. ASSUME NEW c \in Cmd, TimerExpires(c) PROVE EffectsInv'
  <2>1. timer' \in [Cmd -> BOOLEAN] /\ UNCHANGED <<toolVars, sendVars>>
    BY <1>a, <1>4 DEF TimerExpires
  <2>2. Reports(c, "timeout") \/ UNCHANGED feedback
    BY <1>4 DEF TimerExpires
  <2>3. "timeout" \in Feedback
    BY DEF Feedback
  <2> QED BY <1>d, <1>e, <2>1, <2>2, <2>3
<1>5. ASSUME NEW s \in Send, NEW a, ExecuteSend(s, a) PROVE EffectsInv'
  <2>1. /\ SendInv' /\ send[s].pc = "idle" /\ run[s].pc = "idle"
        /\ \A other \in Send \ {s} : send'[other] = send[other]
        /\ UNCHANGED <<toolVars, feedback, timer>>
    BY <1>a, <1>5, DispatchStep DEF ExecuteSend
  <2>2. \A d \in Cmd : ReportedWell(d)'
    <3> TAKE d \in Cmd
    <3>1. UNCHANGED <<run, feedback>> /\ Cmd = Send
      BY <2>1, ExecutorAssumption DEF toolVars
    <3>2. CASE d = s
      BY <2>1, <3>1, <3>2, ReportsStay
    <3>3. CASE d # s
      BY <1>a, <2>1, <3>1, <3>3 DEF ReportedWell
    <3> QED BY <3>2, <3>3
  <2> QED BY <1>a, <1>b, <2>1, <2>2 DEF EffectsInv
<1>6. ASSUME NEW s \in Send, SendStep(s), UNCHANGED <<toolVars, feedback, timer>> PROVE EffectsInv'
  <2>1. SentOn(s)
    BY <1>a, <1>6, SendSteps
  <2>2. \A d \in Cmd : ReportedWell(d)'
    <3> TAKE d \in Cmd
    <3>1. UNCHANGED <<run, feedback>> /\ Cmd = Send /\ send[s].pc \notin {"idle", "settled"}
      BY <1>6, <2>1, ExecutorAssumption DEF toolVars, SentOn
    <3>2. run[s].pc = "idle"
      BY <1>a, <3>1 DEF ReportedWell
    <3>3. CASE d = s
      BY <3>1, <3>2, <3>3, ReportsStay
    <3>4. CASE d # s
      BY <1>a, <2>1, <3>1, <3>4 DEF SentOn, ReportedWell
    <3> QED BY <3>3, <3>4
  <2> QED BY <1>a, <1>b, <1>6, <2>1, <2>2 DEF EffectsInv, SentOn
<1>7. ASSUME NEW s \in Send, SendSettles(s) PROVE EffectsInv'
  <2>1. PICK f \in {"success", "failed"} :
          f = IF send[s].out = "delivered" THEN "success" ELSE "failed"
    OBVIOUS
  <2>2. send[s].pc = "settled" /\ Reports(s, f) /\ UNCHANGED <<toolVars, sendVars, timer>>
    BY <1>7, <2>1 DEF SendSettles
  <2>3. f \in Feedback /\ f # "unsent" /\ s \in Cmd
    BY ExecutorAssumption DEF Feedback
  <2> QED BY <1>a, <1>e, <2>1, <2>2, <2>3
<1>8. ASSUME AdapterStep, UNCHANGED <<toolVars, feedback, timer>> PROVE EffectsInv'
  <2>1. UNCHANGED send
    BY <1>8 DEF AdapterStep, StartAdapter, AdapterStarted, AdapterFails, StopAdapter, AdapterStopped
  <2>2. SendInv'
    BY <1>a, <2>1 DEF SendInv
  <2>3. \A d \in Cmd : ReportedWell(d)'
    BY <1>a, <1>8, <2>1 DEF ReportedWell, toolVars
  <2> QED BY <1>a, <1>b, <1>8, <2>2, <2>3 DEF EffectsInv
<1>9. CASE UNCHANGED effectVars
  BY <1>a, <1>d, <1>9 DEF effectVars
<1> QED BY <1>1, <1>2, <1>3, <1>4, <1>5, <1>6, <1>7, <1>8, <1>9
    DEF EffectsNext, ToolsNext, SendsNext

(* The executor keeps its invariant. *)
THEOREM EffectsAreConsistent == EffectsSpec => []EffectsInv
BY EffectsInvInit, EffectsInvStep, PTL DEF EffectsSpec

(* Whatever the network, the timers and the platforms do, a feedback of
   success is about a mutation that was performed or a message that was
   posted, and one that says unsent is about a mutation that is not
   performed, then or later: execute() reports what the promise settled
   with, and the tools settle so (executor.ts, google_write.ts,
   builtin.ts). *)
THEOREM ReportsStayTrue == EffectsSpec => []ReportsAreTrue
<1>1. EffectsInv => ReportsAreTrue
  <2> SUFFICES ASSUME EffectsInv PROVE ReportsAreTrue
    OBVIOUS
  <2>1. ASSUME NEW c \in Cmd, run[c].tool \in Mutators
        PROVE  /\ feedback[c] = "success" => applied[c] = 1
               /\ feedback[c] = "unsent" => applied[c] = 0 /\ ~run[c].inFlight
    <3>1. Sound(run[c], applied[c], reached[c]) /\ ReportedWell(c)
      BY DEF EffectsInv, ToolInv
    <3>2. run[c].pc # "idle"
      BY <2>1, <3>1, Kinds DEF Sound
    <3> QED BY <2>1, <3>1, <3>2 DEF Sound, ReportedWell
  <2>2. ASSUME NEW s \in Send, send[s].pc # "idle", feedback[s] = "success"
        PROVE  send[s].copies > 0
    <3>1. SentWell(send[s]) /\ ReportedWell(s)
      BY ExecutorAssumption DEF EffectsInv, SendInv
    <3> QED BY <2>2, <3>1 DEF SentWell, ReportedWell
  <2> QED BY <2>1, <2>2 DEF ReportsAreTrue
<1> QED BY <1>1, EffectsAreConsistent, PTL

(* However names resolve and requests are redirected, a fetch connects to
   addresses that were found public; a file tool or a search reaches outside
   its root, and a child starts outside its own, only on a path that was
   changed after the first look at it (builtin.ts: resolvePublicTarget,
   resolveSandboxFilePath, walkFiles, resolveShellCwd). *)
THEOREM ToolsKeepInBounds == EffectsSpec => []ToolsStayInBounds
<1>1. EffectsInv => ToolsStayInBounds
  BY DEF EffectsInv, ToolInv, Sound, StaysWithin, ToolsStayInBounds
<1> QED BY <1>1, EffectsAreConsistent, PTL

(* A message is posted once per attempt at most, and by Telegram, which does
   not retry, once. *)
CopiesWithinAttempts ==
  \A s \in Send : /\ send[s].copies <= MaxRetries + 1
                   /\ send[s].chan = "telegram" => send[s].copies <= 1

(* However often answers are lost and attempts are repeated, nobody gets more
   copies of a message than there were attempts (withRetryBackoff, and
   TelegramAdapter.send without it). *)
THEOREM CopiesStayWithinAttempts == EffectsSpec => []CopiesWithinAttempts
<1>1. EffectsInv => CopiesWithinAttempts
  <2> SUFFICES ASSUME EffectsInv, NEW s \in Send
               PROVE  /\ send[s].copies <= MaxRetries + 1
                      /\ send[s].chan = "telegram" => send[s].copies <= 1
    BY DEF CopiesWithinAttempts
  <2>1. SentWell(send[s])
    BY DEF EffectsInv, SendInv
  <2> QED BY <2>1, ChannelSendsAssumption DEF SentWell
<1> QED BY <1>1, EffectsAreConsistent, PTL

-----------------------------------------------------------------------------
(* The types of adapters and sends. *)

(* A pause is the hint or the backoff, capped and then jittered. *)
LEMMA PausesAreCapped ==
  ASSUME NEW n \in 1..MaxRetries, NEW signal, NEW d \in Pauses(n, signal)
  PROVE  d \in 0..((MaxDelay * 12) \div 10)
<1>1. BaseDelay \in Nat /\ MaxDelay \in Nat /\ MaxRetries \in Nat
  BY ChannelSendsAssumption
<1>2. n - 1 \in 0..MaxRetries
  BY <1>1
<1>3. PICK power \in Nat : power = 2 ^ (n - 1)
  BY <1>2, PowersAssumption
<1>4. BaseDelay * power \in Nat
  BY <1>1, <1>3
<1>5. Backoff(n) \in 0..MaxDelay
  BY <1>1, <1>3, <1>4 DEF Backoff
<1>6. PICK raw \in 0..MaxDelay : d \in Jittered(raw)
  BY <1>1, <1>5 DEF Pauses
<1>7. PICK j \in 8..12 : d = (raw * j) \div 10
  BY <1>6 DEF Jittered
<1>8. raw * j \in Nat /\ raw * j <= MaxDelay * 12
  <2>1. j = 8 \/ j = 9 \/ j = 10 \/ j = 11 \/ j = 12
    BY <1>7
  <2> QED BY <1>1, <1>6, <2>1
<1>9. PICK x \in Nat : x = raw * j
  BY <1>8
<1>10. PICK y \in Nat : y = MaxDelay * 12 /\ x <= y
  BY <1>1, <1>8, <1>9
<1>11. x \div 10 \in 0..(y \div 10)
  BY <1>10
<1> QED BY <1>7, <1>9, <1>10, <1>11

SendTypes ==
  /\ adapter \in [Configured -> AdapterState]
  /\ send \in [Send -> SendState]

LEMMA NoPause == 0 \in 0..((MaxDelay * 12) \div 10)
<1>1. PICK y \in Nat : y = MaxDelay * 12
  BY ChannelSendsAssumption
<1>2. y \div 10 \in Nat
  OBVIOUS
<1> QED BY <1>1, <1>2

LEMMA SendTypesInit == EffectsInit => SendTypes
<1> SUFFICES ASSUME EffectsInit PROVE SendTypes
  OBVIOUS
<1>1. adapter \in [Configured -> AdapterState]
  BY DEF EffectsInit, SendInit, AdapterState
<1>2. send = [s \in Send |-> NoSend]
  BY DEF EffectsInit, SendInit
<1>3. NoSend \in SendState
  BY NoPause, ChannelSendsAssumption DEF NoSend, SendState
<1> QED BY <1>1, <1>2, <1>3 DEF SendTypes

(* To see that the sends stay typed it is enough to look at the one that moved. *)
LEMMA TypedSends ==
  ASSUME SendTypes, adapter' = adapter, NEW s \in Send, NEW m \in SendState,
         send' = [send EXCEPT ![s] = m]
  PROVE  SendTypes'
  BY DEF SendTypes

LEMMA AfterIsTyped ==
  ASSUME SendInv, SendTypes, adapter' = adapter, NEW s \in Send, NEW signal, After(s, signal)
  PROVE  SendTypes'
<1>1. PICK m : m = send[s] /\ SentWell(m) /\ m \in SendState
  BY DEF SendInv, SendTypes
<1>2. ASSUME NEW n, n = m.attempt + 1, n <= MaxRetries, NEW d \in Pauses(n, signal),
             send' = [send EXCEPT ![s].pc = "sleeping", ![s].attempt = n, ![s].pause = d]
      PROVE  SendTypes'
  <2>1. PICK q : q = [m EXCEPT !.pc = "sleeping", !.attempt = n, !.pause = d]
    OBVIOUS
  <2>2. n \in 1..MaxRetries
    BY <1>1, <1>2, ChannelSendsAssumption DEF SentWell
  <2>3. d \in 0..((MaxDelay * 12) \div 10)
    BY <1>2, <2>2, PausesAreCapped
  <2>4. n \in 0..MaxRetries
    BY <2>2, ChannelSendsAssumption
  <2>5. q \in SendState
    BY <1>1, <2>1, <2>3, <2>4 DEF SendState
  <2>6. send' = [send EXCEPT ![s] = q]
    BY <1>1, <1>2, <2>1 DEF SendInv
  <2> QED BY <2>5, <2>6, TypedSends
<1>3. ASSUME NEW out \in {"delivered", "failed"}, Ends(s, out) PROVE SendTypes'
  <2>1. PICK q : q = [m EXCEPT !.pc = "settled", !.out = out]
    OBVIOUS
  <2>2. q \in SendState
    BY <1>1, <2>1 DEF SendState
  <2>3. send' = [send EXCEPT ![s] = q]
    BY <1>1, <1>3, <2>1 DEF SendInv, Ends
  <2> QED BY <2>2, <2>3, TypedSends
<1>4. PICK out \in {"delivered", "failed"} : out = IF signal = "ok" THEN "delivered" ELSE "failed"
  OBVIOUS
<1>5. \/ Ends(s, out)
      \/ \E n : \E d \in Pauses(n, signal) :
           /\ n = m.attempt + 1 /\ n <= MaxRetries
           /\ send' = [send EXCEPT ![s].pc = "sleeping", ![s].attempt = n, ![s].pause = d]
  BY <1>1, <1>4 DEF After
<1> QED BY <1>2, <1>3, <1>5

LEMMA SendStepIsTyped ==
  ASSUME SendInv, SendTypes, NEW s \in Send, SendStep(s)
  PROVE  SendTypes'
<1>0. adapter' = adapter
  BY DEF SendStep, CallOnce, Post, Answered, Wake
<1>1. PICK m : m = send[s] /\ SentWell(m) /\ m \in SendState
  BY DEF SendInv, SendTypes
<1>2. CASE CallOnce(s)
  <2>1. CASE send' = [send EXCEPT ![s].pc = "waiting", ![s].posted = FALSE]
    <3>1. PICK q : q = [m EXCEPT !.pc = "waiting", !.posted = FALSE]
      OBVIOUS
    <3>2. q \in SendState
      BY <1>1, <3>1 DEF SendState
    <3>3. send' = [send EXCEPT ![s] = q]
      BY <1>1, <2>1, <3>1 DEF SendInv
    <3> QED BY <1>0, <3>2, <3>3, TypedSends
  <2>2. \/ After(s, "refused") \/ After(s, "throw_other")
        \/ send' = [send EXCEPT ![s].pc = "waiting", ![s].posted = FALSE]
    BY <1>2 DEF CallOnce
  <2> QED BY <1>0, <2>1, <2>2, AfterIsTyped
<1>3. CASE Post(s)
  <2>1. PICK q : q = [m EXCEPT !.posted = TRUE, !.copies = m.copies + 1]
    OBVIOUS
  <2>2. m.copies + 1 \in 0..(MaxRetries + 1)
    BY <1>1, <1>3, ChannelSendsAssumption DEF SentWell, Post
  <2>3. q \in SendState
    BY <1>1, <2>1, <2>2 DEF SendState
  <2>4. send' = [send EXCEPT ![s] = q]
    BY <1>1, <1>3, <2>1 DEF SendInv, Post
  <2> QED BY <1>0, <2>3, <2>4, TypedSends
<1>4. CASE Answered(s)
  BY <1>0, <1>4, AfterIsTyped DEF Answered
<1>5. CASE Wake(s)
  <2>1. PICK q : q = [m EXCEPT !.pc = "calling", !.pause = 0]
    OBVIOUS
  <2>2. q \in SendState
    BY <1>1, <2>1, NoPause DEF SendState
  <2>3. send' = [send EXCEPT ![s] = q]
    BY <1>1, <1>5, <2>1 DEF SendInv, Wake
  <2> QED BY <1>0, <2>2, <2>3, TypedSends
<1> QED BY <1>2, <1>3, <1>4, <1>5 DEF SendStep

LEMMA DispatchIsTyped ==
  ASSUME SendInv, SendTypes, NEW s \in Send, NEW a \in Configured \cup {"other"}, Dispatch(s, a)
  PROVE  SendTypes'
<1>1. PICK up : up = [NoSend EXCEPT !.chan = a, !.pc = "calling"]
  OBVIOUS
<1>2. PICK down : down = [NoSend EXCEPT !.chan = a, !.pc = "settled", !.out = "failed"]
  OBVIOUS
<1>3. up \in SendState /\ down \in SendState
  <2>1. NoSend \in SendState
    BY NoPause, ChannelSendsAssumption DEF NoSend, SendState
  <2>2. up \in SendState
    BY <1>1, <2>1 DEF SendState
  <2>3. down \in SendState
    BY <1>2, <2>1 DEF SendState
  <2> QED BY <2>2, <2>3
<1>4. /\ adapter' = adapter
      /\ send' = [send EXCEPT ![s] = up] \/ send' = [send EXCEPT ![s] = down]
  BY <1>1, <1>2 DEF Dispatch
<1> QED BY <1>3, <1>4, TypedSends

(* An adapter starts, falls silent and stops. *)
LEMMA AdaptersAreTyped == ASSUME SendTypes, AdapterStep PROVE SendTypes'
<1>1. PICK a \in Configured :
        StartAdapter(a) \/ AdapterStarted(a) \/ AdapterFails(a) \/ StopAdapter(a) \/ AdapterStopped(a)
  BY DEF AdapterStep
<1>2. send' = send
  BY <1>1 DEF StartAdapter, AdapterStarted, AdapterFails, StopAdapter, AdapterStopped
<1>3. \E state \in AdapterState : adapter' = [adapter EXCEPT ![a] = state]
  <2>1. CASE StopAdapter(a)
    <3>1. PICK stage \in {"stopping", "stopped"} :
            stage = IF adapter[a].transport THEN "stopping" ELSE "stopped"
      OBVIOUS
    <3>2. PICK old \in AdapterState : old = adapter[a]
      BY DEF SendTypes
    <3>3. [old EXCEPT !.stage = stage] \in AdapterState
      BY <3>1, <3>2 DEF AdapterState
    <3>4. adapter' = [adapter EXCEPT ![a] = [old EXCEPT !.stage = stage]]
      BY <2>1, <3>1, <3>2 DEF StopAdapter
    <3> QED BY <3>3, <3>4
  <2>2. CASE StartAdapter(a)
    <3>1. [stage |-> "starting", transport |-> TRUE, client |-> a \notin Capturing] \in AdapterState
      BY DEF AdapterState
    <3> QED BY <2>2, <3>1 DEF StartAdapter
  <2>3. CASE AdapterStarted(a) \/ AdapterFails(a) \/ AdapterStopped(a)
    BY <2>3 DEF AdapterStarted, AdapterFails, AdapterStopped, AdapterState
  <2> QED BY <1>1, <2>1, <2>2, <2>3
<1>4. adapter' \in [Configured -> AdapterState]
  BY <1>3 DEF SendTypes
<1> QED BY <1>2, <1>4 DEF SendTypes

LEMMA SendTypesStep == EffectsInv /\ SendTypes /\ [EffectsNext]_effectVars => SendTypes'
<1> SUFFICES ASSUME EffectsInv, SendTypes, [EffectsNext]_effectVars PROVE SendTypes'
  OBVIOUS
<1>0. SendInv
  BY DEF EffectsInv
<1>1. CASE UNCHANGED sendVars
  BY <1>1 DEF sendVars, SendTypes
<1>2. ASSUME NEW s \in Send, NEW a \in Configured \cup {"other"}, ExecuteSend(s, a) PROVE SendTypes'
  BY <1>0, <1>2, DispatchIsTyped DEF ExecuteSend
<1>3. ASSUME NEW s \in Send, SendStep(s) PROVE SendTypes'
  BY <1>0, <1>3, SendStepIsTyped
<1>4. CASE AdapterStep
  BY <1>4, AdaptersAreTyped
<1>5. \/ UNCHANGED sendVars \/ AdapterStep
      \/ \E s \in Send : SendStep(s) \/ \E a \in Configured \cup {"other"} : ExecuteSend(s, a)
  BY DEF EffectsNext, ToolsNext, SendsNext, effectVars, ExecuteTool, ToolSettles, TimerExpires,
         SendSettles
<1> QED BY <1>1, <1>2, <1>3, <1>4, <1>5

(* EffectsTypeOK: one invocation per command, one post per attempt, and no
   pause longer than the cap and its jitter (rate_limit.ts:227). *)
THEOREM EffectTypes == EffectsSpec => []EffectsTypeOK
<1>1. EffectsInv /\ SendTypes => EffectsTypeOK
  <2> SUFFICES ASSUME EffectsInv, SendTypes PROVE EffectsTypeOK
    OBVIOUS
  <2> QED BY DEF EffectsInv, ToolInv, ToolTypes, SendTypes, EffectsTypeOK
<1> QED BY <1>1, EffectsAreConsistent, SendTypesInit, SendTypesStep, PTL DEF EffectsSpec
=============================================================================
