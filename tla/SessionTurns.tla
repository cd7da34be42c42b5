---------------------------- MODULE SessionTurns ----------------------------
(***************************************************************************)
(* LLM commands of one session in the executor (executeLLMCall,            *)
(* withTimeout) and the session's file in JsonFileSessionStore.  Sessions  *)
(* share neither file nor promise chain.                                   *)
(*                                                                         *)
(* A turn reads the history, awaits the LLM against a timeout, and then    *)
(* appends its question and its answer, one append after the other.  The   *)
(* appends of all turns go through one promise chain: ops holds them in    *)
(* order and its head runs, from one await to the next: append the line,   *)
(* cut an overlong file (read it, keep the last cap lines, rename).        *)
(***************************************************************************)
EXTENDS Naturals, SequencesExt, Subsequences

CONSTANTS
  Turn,            \* commands of this session
  Cap,             \* BLUE_TANUKI_SESSION_CAP
  Size,            \* the sizes a line may have
  CutSize,         \* cap * 1024, in the same unit
  DiskMayFail,     \* may a write of the session directory throw?
  ProcessMayDie,
  TornLine             \* a line that JSON.parse rejects

ASSUME SessionAssumption ==
  /\ Cap \in Nat \ {0} /\ CutSize \in Nat /\ Size \subseteq Nat
  /\ DiskMayFail \in BOOLEAN /\ ProcessMayDie \in BOOLEAN
  /\ TornLine \notin [turn: Turn, role: {"user", "assistant"}]

VARIABLES
  phase,     \* [Turn -> where its executeLLMCall stands]
  seen,      \* [Turn -> the history its LLM call was given]
  earlier,   \* [Turn -> the turns that had succeeded when it began]
  ops,       \* the promise chain: appends under way or queued
  lines,     \* the session's file
  all        \* every line it ever had, evicted ones included

turnVars == <<phase, seen, earlier, ops, lines, all>>

Question(t) == [turn |-> t, role |-> "user"]
Answer(t)   == [turn |-> t, role |-> "assistant"]
Message     == [turn: Turn, role: {"user", "assistant"}]

Phase == {"idle", "reading", "calling", "appending", "success", "failed",
          "timed_out", "lost"}
Ended == {"success", "failed", "timed_out", "lost"}

Line(text, size, ended) == [text |-> text, size |-> size, ended |-> ended]
LastN(s, n) == IF Len(s) <= n THEN s ELSE SubSeq(s, Len(s) - n + 1, Len(s))

TurnsInit ==
  /\ phase = [t \in Turn |-> "idle"]
  /\ seen = [t \in Turn |-> << >>]
  /\ earlier = [t \in Turn |-> {}]
  /\ ops = << >> /\ lines = << >> /\ all = << >>

-----------------------------------------------------------------------------
(* executeLLMCall up to the appends.                                        *)

Begin(t) ==
  /\ phase[t] = "idle"
  /\ phase' = [phase EXCEPT ![t] = "reading"]
  /\ earlier' = [earlier EXCEPT ![t] = {u \in Turn : phase[u] = "success"}]
  /\ UNCHANGED <<seen, ops, lines, all>>

(* getMessages: not in the chain; malformed lines are skipped.              *)
Texts(ls) == [i \in DOMAIN ls |-> ls[i].text]
Readable(ls) == Subsequence(Texts(ls), {i \in DOMAIN ls : ls[i].text # TornLine})

GetMessages(t) ==
  /\ phase[t] = "reading"
  /\ seen' = [seen EXCEPT ![t] = LastN(Readable(lines), Cap)]
  /\ phase' = [phase EXCEPT ![t] = "calling"]
  /\ UNCHANGED <<earlier, ops, lines, all>>

(* The LLM call rejects, or the timer of the race fires first.              *)
CallEndsBadly(t) ==
  /\ phase[t] = "calling"
  /\ \E end \in {"failed", "timed_out"} : phase' = [phase EXCEPT ![t] = end]
  /\ UNCHANGED <<seen, earlier, ops, lines, all>>

Queued(message) == [message |-> message, stage |-> "append", kept |-> << >>]

(* The LLM answers.  Once the race is lost nobody awaits the answer.        *)
CallReturns(t) ==
  /\ phase[t] = "calling"
  /\ phase' = [phase EXCEPT ![t] = "appending"]
  /\ ops' = Append(ops, Queued(Question(t)))
  /\ UNCHANGED <<seen, earlier, lines, all>>

-----------------------------------------------------------------------------
(* The appends.                                                             *)

RunsAnyOp(i) == TRUE     \* defective: ops do not wait for one another
Runs(i) == i = 1

(* An append resolves: the turn queues its answer, or has succeeded.        *)
Resolve(i) ==
  LET message == ops[i].message
  IN IF message.role = "user"
     THEN /\ ops' = Append(RemoveAt(ops, i), Queued(Answer(message.turn)))
          /\ UNCHANGED phase
     ELSE /\ ops' = RemoveAt(ops, i)
          /\ phase' = [phase EXCEPT ![message.turn] = "success"]

(* Defective: the error never reaches the turn that awaits the append.      *)
RejectUnheard(i) == ops' = RemoveAt(ops, i) /\ UNCHANGED phase

(* The chain swallows the error, the turn does not.                         *)
Reject(i) ==
  /\ ops' = RemoveAt(ops, i)
  /\ phase' = [phase EXCEPT ![ops[i].message.turn] = "failed"]

(* What is appended joins a line that has no newline yet.                   *)
Put(ls, line) ==
  IF ls # << >> /\ ~Last(ls).ended
  THEN Append(Front(ls), Line(TornLine, Last(ls).size + line.size, line.ended))
  ELSE Append(ls, line)

Grow(line) == lines' = Put(lines, line) /\ all' = Put(all, line)

FileSize(ls) == FoldLeft(LAMBDA sum, l : sum + l.size, 0, ls)

AppendLine(i) ==
  /\ Runs(i) /\ ops[i].stage = "append"
  /\ \E size \in Size : Grow(Line(ops[i].message, size, TRUE))
  /\ \/ /\ FileSize(lines') > CutSize
        /\ ops' = [ops EXCEPT ![i].stage = "read"]
        /\ UNCHANGED phase
     \/ /\ FileSize(lines') <= CutSize \/ DiskMayFail     \* stat() is caught
        /\ Resolve(i)
  /\ UNCHANGED <<seen, earlier>>

(* appendFile throws; a part of the line may be in the file.                *)
AppendFails(i) ==
  /\ DiskMayFail
  /\ Runs(i) /\ ops[i].stage = "append"
  /\ \/ UNCHANGED <<lines, all>>
     \/ \E text \in {TornLine, ops[i].message}, size \in Size : Grow(Line(text, size, FALSE))
  /\ Reject(i)
  /\ UNCHANGED <<seen, earlier>>

(* truncateToCap: read the file ...                                         *)
ReadForCut(i) ==
  /\ Runs(i) /\ ops[i].stage = "read"
  /\ IF Len(lines) <= Cap THEN Resolve(i)
     ELSE /\ ops' = [ops EXCEPT ![i].stage = "swap", ![i].kept = LastN(lines, Cap)]
          /\ UNCHANGED phase
  /\ UNCHANGED <<seen, earlier, lines, all>>

(* ... and rename what is kept over it.  Its last line gets its newline.    *)
Swap(i) ==
  /\ Runs(i) /\ ops[i].stage = "swap"
  /\ lines' = ops[i].kept
  /\ Resolve(i)
  /\ UNCHANGED <<seen, earlier, all>>

CutFails(i) ==
  /\ DiskMayFail
  /\ Runs(i) /\ ops[i].stage \in {"read", "swap"}
  /\ IF ops[i].stage = "read" THEN Resolve(i) ELSE Reject(i)
  /\ UNCHANGED <<seen, earlier, lines, all>>

(* The process dies, perhaps in the middle of a write, and is started again:
   the file is what it was, the turns are gone.                             *)
Die ==
  /\ ProcessMayDie
  /\ \/ UNCHANGED <<lines, all>>
     \/ /\ ops # << >> /\ ops[1].stage = "append"
        /\ \E text \in {TornLine, ops[1].message}, ended \in BOOLEAN, size \in Size :
             /\ ended => text # TornLine
             /\ Grow(Line(text, size, ended))
  /\ ops' = << >>
  /\ phase' = [t \in Turn |-> IF phase[t] \in {"reading", "calling", "appending"}
                              THEN "lost" ELSE phase[t]]
  /\ phase' # phase
  /\ UNCHANGED <<seen, earlier>>

RunOp ==
  \E i \in DOMAIN ops :
    AppendLine(i) \/ AppendFails(i) \/ ReadForCut(i) \/ Swap(i) \/ CutFails(i)

TurnsNext ==
  \/ \E t \in Turn : Begin(t) \/ GetMessages(t) \/ CallEndsBadly(t) \/ CallReturns(t)
  \/ RunOp
  \/ Die

TurnsSpec == TurnsInit /\ [][TurnsNext]_turnVars

(* File operations end, and withTimeout ends a call whatever the LLM does.  *)
TurnFairness ==
  /\ WF_turnVars(RunOp)
  /\ \A t \in Turn : WF_turnVars(GetMessages(t)) /\ WF_turnVars(CallEndsBadly(t))

FairTurnsSpec == TurnsSpec /\ TurnFairness

-----------------------------------------------------------------------------
(* Properties.                                                              *)

SessionTypeOK ==
  /\ phase \in [Turn -> Phase]
  /\ \A t \in Turn : Len(seen[t]) <= Cap /\ ToSet(seen[t]) \subseteq Message
  /\ \A i \in DOMAIN ops : phase[ops[i].message.turn] = "appending"
  /\ \A i \in DOMAIN lines : lines[i].text = TornLine \/ lines[i].text \in Message

(* Cutting a file never costs more than its oldest lines: whatever order
   turns append in while another's append reads and replaces the file, it
   holds the last lines of the session, at least cap of them (serialize,
   truncateToCap, contract 4 of SessionStore).                              *)
KeepsTheLastLines ==
  \E n \in 0 .. Len(all) :
    /\ n >= Cap \/ n = Len(all)
    /\ Texts(lines) = Texts(LastN(all, n))

(* A user who waits for an answer before asking again finds it in the
   context of the next question: what had succeeded when a turn began is in
   the history it was given, unless cap newer lines pushed it out or its own
   line was spoilt by a torn one (executeLLMCall, getMessages).             *)
AnswersAreRemembered ==
  \A t \in Turn : phase[t] = "calling" =>
    \A u \in earlier[t] :
      \/ Answer(u) \in ToSet(seen[t])
      \/ \A i \in DOMAIN all : all[i].text = Answer(u) => i <= Len(all) - Cap

(* The answer to a call that timed out is nowhere: it is no part of the
   session, however late it comes (withTimeout, executeLLMCall).            *)
LateAnswersAreForgotten ==
  \A t \in Turn : phase[t] = "timed_out" =>
    \A i \in DOMAIN all : all[i].text \notin {Question(t), Answer(t)}

(* The history a turn is given is what was answered before it: turns that
   overlap, files that are cut, answers that come too late and writes that
   fail cost it nothing but old lines, and add nothing nobody was told
   (executeLLMCall, serialize, truncateToCap).                              *)
HistoryIsTheAnswered == KeepsTheLastLines /\ AnswersAreRemembered /\ LateAnswersAreForgotten

(* Every turn comes to an end, although it waits for an LLM and then for the
   appends of all turns before it, any of which may fail.                   *)
TurnsEnd == \A t \in Turn : (phase[t] = "reading") ~> (phase[t] \in Ended)

(* packages/blue-tanuki/src/executor.ts:109: the question is appended only
   on success, together with the answer, so that failed calls don't pollute
   the history (executeLLMCall).                                            *)
FailedCallsLeaveNoHistory ==
  \A t \in Turn : phase[t] = "failed" =>
    \A i \in DOMAIN lines : lines[i].text \notin {Question(t), Answer(t)}
=============================================================================
