----------------------------- MODULE EdgeProofs -----------------------------
(***************************************************************************)
(* What the edges of the gateway promise those who talk to it.             *)
(*                                                                         *)
(* Rate limits: the bucket that is refilled on use and forgotten when idle *)
(* and full implements the one that is refilled all the time, for every    *)
(* capacity, rate and set of keys.                                         *)
(*                                                                         *)
(* The poller of Telegram: no update is lost, and none is handled twice by *)
(* one start, for every number of updates, of starts, and size of a batch. *)
(* That the Bot API drops only what the handler has returned from is not   *)
(* inductive: it drops what lies under the offset, and the offset moves    *)
(* before the handler is called.  PollInv says what the offset and the     *)
(* batch have behind them, BootInv what they have before them.             *)
(*                                                                         *)
(* The WebChat server: who may do what, what a stop loses and what becomes *)
(* of a ticket, for every set of requests, tokens and tickets.  What was   *)
(* done was done for a request whose token had been looked at, and no two  *)
(* tokens are alike; a request is read only while the handler is set, and  *)
(* a socket is open only before the stop; a ticket that is in the store    *)
(* was issued once and has opened no socket.                               *)
(*                                                                         *)
(* The lanes of MCEdges: every behaviour of the edges side by side is one  *)
(* of each, so that what is proved of each holds of all of them.           *)
(***************************************************************************)
EXTENDS MCEdges, ExecutorProofs, CronSchedulerProofs, SubsequenceTheorems, TLAPS

-----------------------------------------------------------------------------
(* Rate limits.                                                             *)


(* What is there is at most the capacity, and what was there at least. *)
LEMMA RefilledBounds ==
  ASSUME NEW b \in Bucket
  PROVE  /\ Refilled(b) \in 0..Capacity
         /\ b.idle = 0 => Refilled(b) = b.tokens
<1>1. b.idle * Rate \in Nat /\ (b.idle = 0 => b.idle * Rate = 0)
  BY RateLimitsAssumption DEF Bucket
<1>2. QED
  BY <1>1, RateLimitsAssumption DEF Bucket, Refilled, Least

LEMMA FullIsBucket ==
  /\ Full \in Bucket /\ ~Full.known /\ Refilled(Full) = Capacity
  /\ Capacity \in Nat /\ 0 \in 0..MaxIdle
<1>1. Full \in Bucket /\ Full.idle = 0 /\ Full.tokens = Capacity /\ ~Full.known
  BY RateLimitsAssumption DEF Full, Bucket
<1>2. QED
  BY <1>1, RefilledBounds, RateLimitsAssumption

(* A type invariant of one bucket at a time. *)
LEMMA TypedBuckets ==
  ASSUME NEW b, b \in [Key -> Bucket], NEW w, w \in [Key -> Nat],
         bucket' = b, wait' = w, \A k \in Key : b[k].known \/ b[k] = Full
  PROVE  RateTypeOK'
  BY DEF RateTypeOK, Full, Bucket

LEMMA WaitIsNat ==
  ASSUME NEW have \in 0..Capacity, have < Cost
  PROVE  RetryAfter(have) \in Nat
<1>1. Cost - have + Rate - 1 \in Nat /\ Rate \in Nat /\ Rate > 0
  BY RateLimitsAssumption
<1>2. QED
  BY <1>1 DEF RetryAfter

(* A known bucket that waits one tick more holds Rate more, up to the cap. *)
LEMMA TimePassesRefills ==
  ASSUME NEW b \in Bucket
  PROVE  Refilled([b EXCEPT !.idle = @ + 1]) = Least(Capacity, Refilled(b) + Rate)
<1> DEFINE earned == b.idle * Rate
<1>1. earned \in Nat /\ (b.idle + 1) * Rate = earned + Rate
  BY RateLimitsAssumption DEF Bucket
<1>2. Refilled([b EXCEPT !.idle = @ + 1]) = Least(Capacity, b.tokens + (earned + Rate))
  BY <1>1 DEF Bucket, Refilled
<1>3. Refilled(b) = Least(Capacity, b.tokens + earned)
  BY DEF Refilled
<1> HIDE DEF earned
<1>4. QED
  BY <1>1, <1>2, <1>3, RateLimitsAssumption DEF Bucket, Least

(* The typing of the buckets is inductive: the sweep leaves only what is
   still limited, and no refill exceeds the capacity. *)
THEOREM RateTypeCorrect == RateSpec => []RateTypeOK
<1>1. RateInit => RateTypeOK
  BY RateLimitsAssumption DEF RateInit, RateTypeOK, Full, Bucket
<1>2. RateTypeOK /\ [RateNext]_rateVars => RateTypeOK'
  <2> SUFFICES ASSUME RateTypeOK, [RateNext]_rateVars PROVE RateTypeOK'
    OBVIOUS
  <2>1. CASE TimePasses
    BY <2>1, RateLimitsAssumption DEF RateTypeOK, TimePasses, Full, Bucket
  <2>2. CASE Prune
    <3>1. bucket' \in [Key -> Bucket] /\ \A k \in Key : bucket'[k].known \/ bucket'[k] = Full
      BY <2>2, FullIsBucket DEF RateTypeOK, Prune
    <3>2. QED
      BY <2>2, <3>1, TypedBuckets DEF RateTypeOK, Prune
  <2>3. ASSUME NEW k \in Key, Consume(k) PROVE RateTypeOK'
    <3> DEFINE have == Refilled(bucket[k])
    <3>1. have \in 0..Capacity
      BY RefilledBounds DEF RateTypeOK
    <3> HIDE DEF have
    <3>2. CASE have >= Cost
      <4>1. bucket' = [bucket EXCEPT ![k] = [known |-> TRUE, tokens |-> have - Cost, idle |-> 0]]
            /\ wait' = [wait EXCEPT ![k] = 0]
        BY <2>3, <3>2 DEF Consume, Left, have
      <4>2. have - Cost \in 0..Capacity
        BY <3>1, <3>2, RateLimitsAssumption
      <4>3. QED
        <5> DEFINE new == [known |-> TRUE, tokens |-> have - Cost, idle |-> 0]
        <5>1. new \in Bucket /\ new.known
          BY <3>1, <4>2, FullIsBucket DEF Bucket
        <5> HIDE DEF new
        <5>2. bucket' = [bucket EXCEPT ![k] = new]
          BY <4>1 DEF new
        <5>3. wait' \in [Key -> Nat]
          BY <4>1, <4>2 DEF RateTypeOK
        <5>4. bucket' \in [Key -> Bucket] /\ \A j \in Key : bucket'[j].known \/ bucket'[j] = Full
          BY <5>1, <5>2 DEF RateTypeOK
        <5>5. QED
          BY <5>3, <5>4, TypedBuckets
    <3>3. CASE have < Cost
      <4>1. bucket' = [bucket EXCEPT ![k] = [known |-> TRUE, tokens |-> have, idle |-> 0]]
            /\ wait' = [wait EXCEPT ![k] = RetryAfter(have)]
        BY <2>3, <3>1, <3>3, RateLimitsAssumption DEF Consume, Left, have
      <4>2. RetryAfter(have) \in Nat
        BY <3>1, <3>3, WaitIsNat
      <4>3. QED
        <5> DEFINE new == [known |-> TRUE, tokens |-> have, idle |-> 0]
        <5>1. new \in Bucket /\ new.known
          BY <3>1, <4>2, FullIsBucket DEF Bucket
        <5> HIDE DEF new
        <5>2. bucket' = [bucket EXCEPT ![k] = new]
          BY <4>1 DEF new
        <5>3. wait' \in [Key -> Nat]
          BY <4>1, <4>2 DEF RateTypeOK
        <5>4. bucket' \in [Key -> Bucket] /\ \A j \in Key : bucket'[j].known \/ bucket'[j] = Full
          BY <5>1, <5>2 DEF RateTypeOK
        <5>5. QED
          BY <5>3, <5>4, TypedBuckets
    <3>4. QED
      BY <3>1, <3>2, <3>3, RateLimitsAssumption
  <2>4. CASE UNCHANGED rateVars
    BY <2>4 DEF RateTypeOK, rateVars
  <2>5. QED
    BY <2>1, <2>2, <2>3, <2>4 DEF RateNext
<1>3. QED
  BY <1>1, <1>2, PTL DEF RateSpec

(* A step of the lazy bucket is a step of the eager one, or none of it: the
   sweep is a stutter, because what it forgets was full. *)
LEMMA StepKeepsTheRate ==
  ASSUME RateTypeOK, RateTypeOK', [RateNext]_rateVars
  PROVE  [Eager!EagerNext]_(Eager!eagerVars)
<1> DEFINE credit == [k \in Key |-> Refilled(bucket[k])]
<1>0. credit' = [k \in Key |-> Refilled(bucket'[k])]
  BY DEF Refilled, Least
<1>1. CASE TimePasses
  <2>1. ASSUME NEW k \in Key PROVE Refilled(bucket'[k]) = Least(Capacity, credit[k] + Rate)
    <3>1. CASE bucket[k].known
      BY <1>1, <3>1, TimePassesRefills DEF TimePasses, RateTypeOK
    <3>2. CASE ~bucket[k].known
      <4>1. bucket[k] = Full /\ bucket'[k] = Full /\ Full \in Bucket
        BY <1>1, <3>2, RateLimitsAssumption DEF TimePasses, RateTypeOK, Full, Bucket
      <4>2. Refilled(Full) = Capacity
        BY <4>1, RefilledBounds DEF Full
      <4>3. QED
        BY <4>1, <4>2, RateLimitsAssumption DEF Least
    <3>3. QED
      BY <3>1, <3>2
  <2>2. Eager!Grow
    BY <1>0, <1>1, <2>1 DEF Eager!Grow, Eager!Least, Least, TimePasses
  <2>3. QED
    BY <2>2 DEF Eager!EagerNext
<1>2. CASE Prune
  <2>1. ASSUME NEW k \in Key PROVE Refilled(bucket'[k]) = credit[k]
    <3>1. CASE Prunable(bucket[k])
      <4>1. bucket'[k] = Full /\ Full \in Bucket /\ bucket[k] \in Bucket
        BY <1>2, <3>1, RateLimitsAssumption DEF Prune, RateTypeOK, Full, Bucket
      <4>2. Refilled(Full) = Capacity /\ Refilled(bucket[k]) = Capacity
        BY <3>1, <4>1, RefilledBounds, RateLimitsAssumption DEF Full, Prunable
      <4>3. QED
        BY <4>1, <4>2
    <3>2. CASE ~Prunable(bucket[k])
      BY <1>2, <3>2 DEF Prune
    <3>3. QED
      BY <3>1, <3>2
  <2>2. UNCHANGED Eager!eagerVars
    BY <1>0, <1>2, <2>1 DEF Eager!eagerVars, Prune
  <2>3. QED
    BY <2>2
<1>3. ASSUME NEW k \in Key, Consume(k) PROVE Eager!EagerNext
  <2>1. credit[k] \in 0..Capacity /\ Cost \in Nat /\ credit \in [Key -> 0..Capacity]
    BY RefilledBounds, RateLimitsAssumption DEF RateTypeOK
  <2>2. \A j \in Key \ {k} : bucket'[j] = bucket[j]
    BY <1>3 DEF Consume, Left, RateTypeOK
  <2>3. CASE credit[k] >= Cost
    <3>1. bucket'[k] = [known |-> TRUE, tokens |-> credit[k] - Cost, idle |-> 0]
          /\ wait' = [wait EXCEPT ![k] = 0]
      BY <1>3, <2>3 DEF Consume, Left, RateTypeOK
    <3>2. Refilled(bucket'[k]) = credit[k] - Cost
      <4>1. bucket'[k] \in Bucket
        BY DEF RateTypeOK
      <4>2. bucket'[k].idle = 0 /\ bucket'[k].tokens = credit[k] - Cost
        BY <3>1
      <4>3. QED
        BY <4>1, <4>2, RefilledBounds
    <3>3. Eager!Admit(k)
      BY <1>0, <2>1, <2>2, <2>3, <3>1, <3>2 DEF Eager!Admit
    <3>4. QED
      BY <3>3 DEF Eager!EagerNext
  <2>4. CASE credit[k] < Cost
    <3>1. bucket'[k] = [known |-> TRUE, tokens |-> credit[k], idle |-> 0]
          /\ wait' = [wait EXCEPT ![k] = RetryAfter(credit[k])]
      BY <1>3, <2>1, <2>4 DEF Consume, Left, RateTypeOK
    <3>2. Refilled(bucket'[k]) = credit[k]
      BY <3>1, RefilledBounds DEF RateTypeOK
    <3>3. Eager!Refuse(k)
      BY <1>0, <2>1, <2>2, <2>4, <3>1, <3>2 DEF Eager!Refuse, Eager!WaitFor, RetryAfter
    <3>4. QED
      BY <3>3 DEF Eager!EagerNext
  <2>5. QED
    BY <2>1, <2>3, <2>4
<1>4. CASE UNCHANGED rateVars
  BY <1>0, <1>4 DEF rateVars, Eager!eagerVars
<1>5. QED
  BY <1>1, <1>2, <1>3, <1>4 DEF RateNext

(* The refinement: neither laziness nor forgetting ever admits a call the
   rate does not allow, refuses one it does, or promises a wrong wait. *)
THEOREM LazyKeepsTheRate == RateSpec => KeepsTheRate
<1>1. RateInit => Eager!EagerInit
  <2> SUFFICES ASSUME RateInit PROVE Eager!EagerInit
    OBVIOUS
  <2>1. Full \in Bucket
    BY RateLimitsAssumption DEF Full, Bucket
  <2>2. Refilled(Full) = Capacity
    BY <2>1, RefilledBounds DEF Full
  <2>3. QED
    BY <2>2 DEF RateInit, Eager!EagerInit
<1>2. QED
  BY <1>1, RateTypeCorrect, StepKeepsTheRate, PTL DEF RateSpec, KeepsTheRate, Eager!EagerSpec

-----------------------------------------------------------------------------
(* The poller.                                                              *)


Handled(u)   == u \in Ignored \/ done[u] > 0
InHand(u)    == loop.stage = "handling" /\ u = loop.batch[1]
HasBatch     == loop.stage \in {"batch", "handling"}

PollTyped ==
  /\ sent \in Nat /\ confirmed \in Nat /\ confirmed <= sent /\ sent <= MaxUpdates
  /\ loop \in [stage : {"none", "request", "answer", "batch", "handling", "pause", "ended"},
               offset : Nat, batch : Seq(Update)]
  /\ loop.offset <= sent + 1
  /\ done \in [Update -> Nat]

(* Everything under the offset was handled, but for the update in hand. *)
OffsetIsBehind == \A u \in 1..(loop.offset - 1) : Handled(u) \/ InHand(u)

(* A batch has no gaps, and everything before it was handled. *)
BatchIsNext ==
  HasBatch =>
    /\ \A i \in 1..Len(loop.batch) : loop.batch[i] = loop.batch[1] + i - 1 /\ loop.batch[i] <= sent
    /\ loop.batch # << >> => \A u \in 1..(loop.batch[1] - 1) : Handled(u)
    /\ loop.stage = "handling" => loop.batch # << >>

PollInv == PollTyped /\ DroppedWasHandled /\ OffsetIsBehind /\ BatchIsNext

(* A start hands an update to the handler once: it takes them in order, and
   what is under the offset it has behind it. *)
BootInv ==
  /\ boots \in 0..MaxBoots /\ stopped \in BOOLEAN /\ begun \in [Update -> Nat]
  /\ \A u \in Update : done[u] <= begun[u] /\ begun[u] <= boots
  /\ loop.stage # "none" => \A u \in Update : u >= loop.offset => begun[u] < boots
  /\ loop.stage = "answer" => loop.offset <= confirmed + 1
  /\ loop.stage = "batch" /\ loop.batch # << >> => loop.offset <= loop.batch[1]
  /\ loop.stage = "handling" => /\ loop.offset <= loop.batch[1] + 1
                                /\ done[loop.batch[1]] < begun[loop.batch[1]]

USE PollerAssumption

LEMMA Updates == ASSUME NEW u PROVE u \in Update <=> u \in Nat /\ 1 <= u /\ u <= MaxUpdates
BY DEF Update

LEMMA PollInitHolds == PollInit => PollInv
BY DEF PollInit, Idle, PollInv, PollTyped, DroppedWasHandled, OffsetIsBehind, BatchIsNext, HasBatch

(* The steps that leave the updates where they are. *)
LEMMA LoopStepsKeep ==
  ASSUME PollInv, UserSends \/ StartPolling \/ PollFails \/ PollWakes \/ BatchEnds \/ StopPolling \/ ProcessEnds
  PROVE  PollInv'
<1>1. done' = done /\ confirmed' = confirmed
  BY DEF UserSends, StartPolling, PollFails, PollWakes, BatchEnds, StopPolling, ProcessEnds
<1>2. CASE UserSends \/ StopPolling
  <2>1. loop' = loop
    BY <1>2 DEF UserSends, StopPolling
  <2>2. PollTyped'
    BY <1>1, <1>2, <2>1 DEF UserSends, StopPolling, PollInv, PollTyped
  <2>3. DroppedWasHandled' /\ OffsetIsBehind'
    BY <1>1, <2>1 DEF PollInv, DroppedWasHandled, OffsetIsBehind, Handled, InHand
  <2>4. \A x \in Nat : x <= sent => x <= sent'
    BY <1>2 DEF UserSends, StopPolling, PollInv, PollTyped
  <2>5. \A i \in 1..Len(loop.batch) : loop.batch[i] \in Nat
    BY Updates DEF PollInv, PollTyped
  <2>6. BatchIsNext'
    BY <1>1, <2>1, <2>4, <2>5 DEF PollInv, BatchIsNext, HasBatch, Handled
  <2>7. QED
    BY <2>2, <2>3, <2>6 DEF PollInv
<1>3. CASE StartPolling \/ ProcessEnds
  <2>1. loop'.offset = 0 /\ loop'.batch = << >> /\ loop'.stage \in {"none", "request"} /\ sent' = sent
        /\ loop' \in [stage : {"none", "request"}, offset : Nat, batch : Seq(Update)]
    <3>1. loop' \in {[stage |-> "none", offset |-> 0, batch |-> << >>],
                     [stage |-> "request", offset |-> 0, batch |-> << >>]} /\ sent' = sent
      <4>1. CASE StartPolling
        BY <4>1 DEF StartPolling, Idle
      <4>2. CASE ProcessEnds
        BY <4>2 DEF ProcessEnds, Idle
      <4>3. QED
        BY <1>3, <4>1, <4>2
    <3>2. << >> \in Seq(Update)
      OBVIOUS
    <3>3. CASE loop' = [stage |-> "none", offset |-> 0, batch |-> << >>]
      BY <3>1, <3>2, <3>3
    <3>4. CASE loop' = [stage |-> "request", offset |-> 0, batch |-> << >>]
      BY <3>1, <3>2, <3>4
    <3>5. QED
      BY <3>1, <3>3, <3>4
  <2>2. PollTyped'
    BY <1>1, <2>1 DEF PollInv, PollTyped
  <2>3. QED
    BY <1>1, <2>1, <2>2 DEF PollInv, DroppedWasHandled, OffsetIsBehind, BatchIsNext, HasBatch, Handled, InHand
<1>4. CASE PollFails \/ PollWakes \/ BatchEnds
  <2>1. /\ loop'.offset = loop.offset /\ loop'.stage \in {"pause", "ended", "request"} /\ sent' = sent
        /\ loop' \in [stage : {"pause", "ended", "request"}, offset : Nat, batch : Seq(Update)]
        /\ loop.stage # "handling"
    BY <1>4 DEF PollFails, PollWakes, BatchEnds, Again, PollInv, PollTyped
  <2>2. PollTyped'
    BY <1>1, <2>1 DEF PollInv, PollTyped
  <2>3. OffsetIsBehind'
    BY <1>1, <2>1 DEF PollInv, OffsetIsBehind, Handled, InHand
  <2>4. QED
    BY <1>1, <2>1, <2>2, <2>3 DEF PollInv, DroppedWasHandled, BatchIsNext, HasBatch
<1>5. QED
  BY <1>2, <1>3, <1>4

(* What is dropped lies under an offset that has nothing in hand. *)
LEMMA GetUpdatesKeeps == ASSUME PollInv, GetUpdates PROVE PollInv'
<1>1. /\ loop'.offset = loop.offset /\ loop'.stage = "answer" /\ done' = done /\ sent' = sent
      /\ loop' \in [stage : {"answer"}, offset : Nat, batch : Seq(Update)]
      /\ loop.stage = "request"
  BY DEF GetUpdates, PollInv, PollTyped
<1>2. \A u \in 1..(loop.offset - 1) : Handled(u)
  BY <1>1 DEF PollInv, OffsetIsBehind, InHand
<1>3. confirmed' = IF loop.offset > confirmed + 1 THEN loop.offset - 1 ELSE confirmed
  BY DEF GetUpdates
<1>4. confirmed' \in Nat /\ confirmed' <= sent
  BY <1>3 DEF PollInv, PollTyped
<1>5. DroppedWasHandled'
  BY <1>1, <1>2, <1>3, <1>4 DEF PollInv, PollTyped, DroppedWasHandled, Handled
<1>6. PollTyped'
  BY <1>1, <1>4 DEF PollInv, PollTyped
<1>7. OffsetIsBehind' /\ BatchIsNext'
  BY <1>1, <1>2 DEF OffsetIsBehind, BatchIsNext, HasBatch, Handled, InHand
<1>8. QED
  BY <1>5, <1>6, <1>7 DEF PollInv

(* An answer goes on from what was dropped. *)
LEMMA AnswerKeeps == ASSUME PollInv, PollAnswered PROVE PollInv'
<1>1. PICK n \in 0..Batch : confirmed + n <= sent
                           /\ loop' = [loop EXCEPT !.stage = "batch", !.batch = Unconfirmed(n)]
  BY DEF PollAnswered
<1>2. UNCHANGED <<sent, confirmed, done>> /\ loop.stage = "answer"
  BY DEF PollAnswered
<1>3. /\ Unconfirmed(n) \in Seq(Update) /\ Len(Unconfirmed(n)) = n
      /\ \A i \in 1..n : Unconfirmed(n)[i] = confirmed + i
  <2>1. n \in Nat /\ confirmed \in Nat /\ confirmed + n <= MaxUpdates
    BY <1>1 DEF PollInv, PollTyped
  <2>2. \A i \in 1..n : confirmed + i \in Update
    BY <2>1, Updates
  <2>3. QED
    BY <2>1, <2>2 DEF Unconfirmed
<1>4. /\ loop'.offset = loop.offset /\ loop'.stage = "batch" /\ loop'.batch = Unconfirmed(n)
      /\ loop' \in [stage : {"batch"}, offset : Nat, batch : Seq(Update)]
  BY <1>1, <1>3 DEF PollInv, PollTyped
<1>5. PollTyped'
  BY <1>2, <1>4 DEF PollInv, PollTyped
<1>6. DroppedWasHandled' /\ OffsetIsBehind'
  BY <1>2, <1>4 DEF PollInv, DroppedWasHandled, OffsetIsBehind, Handled, InHand
<1>7. BatchIsNext'
  <2>0. confirmed \in Nat /\ sent \in Nat /\ n \in Nat
    BY <1>1 DEF PollInv, PollTyped
  <2>1. ASSUME NEW i \in 1..n PROVE Unconfirmed(n)[i] = Unconfirmed(n)[1] + i - 1 /\ Unconfirmed(n)[i] <= sent
    <3>1. Unconfirmed(n)[i] = confirmed + i /\ Unconfirmed(n)[1] = confirmed + 1
      BY <1>3, <2>0, <2>1
    <3>2. QED
      BY <1>1, <2>0, <2>1, <3>1
  <2>2. ASSUME Unconfirmed(n) # << >>, NEW u \in 1..(Unconfirmed(n)[1] - 1) PROVE Handled(u)
    <3>1. n > 0
      BY <1>3, <2>0, <2>2
    <3>2. u \in 1..confirmed
      <4>1. Unconfirmed(n)[1] = confirmed + 1
        BY <1>3, <2>0, <3>1
      <4>2. QED
        BY <2>0, <2>2, <4>1
    <3>3. QED
      BY <3>2 DEF PollInv, DroppedWasHandled, Handled
  <2>3. \A u : Handled(u)' <=> Handled(u)
    BY <1>2 DEF Handled
  <2>4. QED
    BY <1>2, <1>3, <1>4, <2>1, <2>2, <2>3 DEF BatchIsNext
<1>8. QED
  BY <1>5, <1>6, <1>7 DEF PollInv

(* The first of a batch: nothing lies between it and what was handled. *)
LEMMA HeadOfBatch ==
  ASSUME PollInv, HasBatch, loop.batch # << >>
  PROVE  /\ Head(loop.batch) = loop.batch[1] /\ loop.batch[1] \in Update /\ loop.batch[1] <= sent
         /\ Tail(loop.batch) \in Seq(Update) /\ Len(Tail(loop.batch)) = Len(loop.batch) - 1
         /\ \A i \in 1..Len(Tail(loop.batch)) :
              Tail(loop.batch)[i] = loop.batch[1] + i /\ Tail(loop.batch)[i] <= sent
         /\ Len(loop.batch) \in Nat /\ Len(loop.batch) > 0
<1>1. /\ loop.batch \in Seq(Update) /\ sent \in Nat
      /\ \A i \in 1..Len(loop.batch) : loop.batch[i] = loop.batch[1] + i - 1 /\ loop.batch[i] <= sent
  BY DEF PollInv, PollTyped, BatchIsNext
<1>2. /\ Len(loop.batch) \in Nat /\ Len(loop.batch) > 0 /\ Head(loop.batch) = loop.batch[1]
      /\ Tail(loop.batch) \in Seq(Update) /\ Len(Tail(loop.batch)) = Len(loop.batch) - 1
      /\ \A i \in 1..Len(Tail(loop.batch)) : Tail(loop.batch)[i] = loop.batch[i + 1]
      /\ \A i \in 1..Len(loop.batch) : loop.batch[i] \in Update
  <2> DEFINE s == loop.batch
  <2>1. s \in Seq(Update) /\ s # << >>
    BY <1>1
  <2> HIDE DEF s
  <2>2. /\ Len(s) \in Nat /\ Len(s) > 0 /\ Head(s) = s[1]
        /\ Tail(s) \in Seq(Update) /\ Len(Tail(s)) = Len(s) - 1
    BY <2>1
  <2>3. \A i \in 1..Len(Tail(s)) : Tail(s)[i] = s[i + 1]
    BY <2>1, <2>2
  <2>4. \A i \in 1..Len(s) : s[i] \in Update
    BY <2>1
  <2>5. QED
    BY <2>2, <2>3, <2>4 DEF s
<1>3. \A i \in 1..Len(Tail(loop.batch)) : i + 1 \in 1..Len(loop.batch)
  BY <1>2
<1>4. loop.batch[1] \in Update
  BY <1>2
<1>5. \A i \in 1..Len(Tail(loop.batch)) :
        Tail(loop.batch)[i] = loop.batch[1] + i /\ Tail(loop.batch)[i] <= sent
  BY <1>1, <1>2, <1>3, <1>4
<1>6. loop.batch[1] <= sent
  BY <1>1, <1>2
<1>7. QED
  BY <1>2, <1>4, <1>5, <1>6

(* What comes after the head, once the head is handled. *)
LEMMA RestIsNext ==
  ASSUME PollInv, HasBatch, loop.batch # << >>, sent' = sent,
         \A u \in 1..loop.batch[1] : Handled(u)',
         loop'.stage = "batch", loop'.batch = Tail(loop.batch)
  PROVE  BatchIsNext'
<1>1. \A i \in 1..Len(Tail(loop.batch)) :
        Tail(loop.batch)[i] = Tail(loop.batch)[1] + i - 1 /\ Tail(loop.batch)[i] <= sent
  <2> DEFINE s == loop.batch
             rest == Tail(s)
  <2>1. /\ s[1] \in Update /\ Len(rest) \in Nat
        /\ \A i \in 1..Len(rest) : rest[i] = s[1] + i /\ rest[i] <= sent
    BY HeadOfBatch
  <2> HIDE DEF s, rest
  <2>2. s[1] \in Nat
    BY <2>1, Updates
  <2>3. ASSUME NEW i \in 1..Len(rest) PROVE rest[i] = rest[1] + i - 1
    <3>1. 1 \in 1..Len(rest) /\ i \in Nat
      BY <2>1
    <3>2. rest[1] = s[1] + 1 /\ rest[i] = s[1] + i
      BY <2>1, <3>1
    <3>3. QED
      BY <2>2, <3>1, <3>2
  <2>4. QED
    BY <2>1, <2>3 DEF s, rest
<1>2. Tail(loop.batch) # << >> => Tail(loop.batch)[1] = loop.batch[1] + 1
  BY HeadOfBatch
<1>3. ASSUME Tail(loop.batch) # << >>, NEW u \in 1..(Tail(loop.batch)[1] - 1) PROVE Handled(u)'
  <2>1. loop.batch[1] \in Nat
    BY HeadOfBatch, Updates
  <2>2. u \in 1..loop.batch[1]
    BY <1>2, <1>3, <2>1
  <2>3. QED
    BY <2>2
<1>4. QED
  BY <1>1, <1>3 DEF BatchIsNext

(* The offset goes past an update that nothing comes before. *)
LEMMA TakeKeeps == ASSUME PollInv, TakeUpdate PROVE PollInv'
<1> DEFINE u == loop.batch[1]
<1>1. HasBatch /\ loop.stage = "batch" /\ loop.batch # << >> /\ UNCHANGED <<sent, confirmed, done>>
  BY DEF TakeUpdate, HasBatch
<1>2. u = Head(loop.batch) /\ u \in Update /\ u <= sent /\ Tail(loop.batch) \in Seq(Update)
  BY <1>1, HeadOfBatch
<1>3. loop' = [loop EXCEPT !.offset = Past(u),
                           !.stage = IF u \in Ignored THEN "batch" ELSE "handling",
                           !.batch = IF u \in Ignored THEN Tail(@) ELSE @]
  BY <1>2 DEF TakeUpdate
<1>4. /\ \A v \in 1..(loop.offset - 1) : Handled(v)
      /\ \A v \in 1..(u - 1) : Handled(v)
  BY <1>1 DEF PollInv, OffsetIsBehind, InHand, BatchIsNext
<1> HIDE DEF u
<1>5. /\ Past(u) \in Nat /\ Past(u) <= sent + 1
      /\ \A v \in 1..(Past(u) - 1) : v = u \/ Handled(v)
  <2>1. u \in Nat /\ u <= sent /\ sent \in Nat /\ loop.offset \in Nat /\ loop.offset <= sent + 1
    BY <1>2, Updates DEF PollInv, PollTyped
  <2>2. QED
    BY <2>1, <1>4 DEF Past
<1>6. \A v : Handled(v)' <=> Handled(v)
  BY <1>1 DEF Handled
<1>7. CASE u \in Ignored
  <2>1. /\ loop'.offset = Past(u) /\ loop'.stage = "batch" /\ loop'.batch = Tail(loop.batch)
        /\ loop' \in [stage : {"batch"}, offset : Nat, batch : Seq(Update)]
    BY <1>2, <1>3, <1>5, <1>7 DEF PollInv, PollTyped
  <2>2. Handled(u)
    BY <1>7 DEF Handled
  <2>3. PollTyped' /\ DroppedWasHandled'
    BY <1>1, <1>5, <2>1 DEF PollInv, PollTyped, DroppedWasHandled
  <2>4. OffsetIsBehind'
    BY <1>5, <1>6, <2>1, <2>2 DEF OffsetIsBehind
  <2>5. \A v \in 1..u : Handled(v)'
    <3>1. u \in Nat
      BY <1>2, Updates
    <3>2. \A v \in 1..u : v = u \/ v \in 1..(u - 1)
      BY <3>1
    <3>3. QED
      BY <1>4, <1>6, <2>2, <3>2
  <2>6. BatchIsNext'
    BY <1>1, <2>1, <2>5, RestIsNext DEF u
  <2>7. QED
    BY <2>3, <2>4, <2>6 DEF PollInv
<1>8. CASE u \notin Ignored
  <2>1. /\ loop'.offset = Past(u) /\ loop'.stage = "handling" /\ loop'.batch = loop.batch
        /\ loop' \in [stage : {"handling"}, offset : Nat, batch : Seq(Update)]
    BY <1>3, <1>5, <1>8 DEF PollInv, PollTyped
  <2>2. PollTyped' /\ DroppedWasHandled'
    BY <1>1, <1>5, <2>1 DEF PollInv, PollTyped, DroppedWasHandled
  <2>3. OffsetIsBehind'
    BY <1>5, <1>6, <2>1 DEF OffsetIsBehind, InHand, u
  <2>4. BatchIsNext'
    BY <1>1, <1>6, <2>1 DEF PollInv, BatchIsNext, HasBatch
  <2>5. QED
    BY <2>2, <2>3, <2>4 DEF PollInv
<1>9. QED
  BY <1>7, <1>8

(* The update in hand is handled now. *)
LEMMA ReturnKeeps == ASSUME PollInv, HandlerReturns PROVE PollInv'
<1> DEFINE u == loop.batch[1]
<1>1. loop.stage = "handling" /\ HasBatch /\ loop.batch # << >> /\ UNCHANGED <<sent, confirmed>>
  BY DEF HandlerReturns, HasBatch, PollInv, BatchIsNext
<1>2. u = Head(loop.batch) /\ u \in Update /\ Tail(loop.batch) \in Seq(Update)
  BY <1>1, HeadOfBatch
<1>3. /\ done' = [done EXCEPT ![u] = @ + 1]
      /\ loop' = [loop EXCEPT !.stage = "batch", !.batch = Tail(@)]
  BY <1>2 DEF HandlerReturns
<1>4. \A v \in 1..(loop.offset - 1) : Handled(v) \/ v = u
  BY <1>1 DEF PollInv, OffsetIsBehind, InHand
<1>5. \A v \in 1..(u - 1) : Handled(v)
  BY <1>1 DEF PollInv, BatchIsNext
<1> HIDE DEF u
<1>6. done' \in [Update -> Nat] /\ done'[u] > 0 /\ \A v \in Update : Handled(v) => (v \in Ignored \/ done'[v] > 0)
  BY <1>2, <1>3 DEF PollInv, PollTyped, Handled
<1>7. /\ loop'.offset = loop.offset /\ loop'.stage = "batch" /\ loop'.batch = Tail(loop.batch)
      /\ loop' \in [stage : {"batch"}, offset : Nat, batch : Seq(Update)]
  BY <1>2, <1>3 DEF PollInv, PollTyped
<1>8. PollTyped'
  BY <1>1, <1>6, <1>7 DEF PollInv, PollTyped
<1>9. DroppedWasHandled'
  <2>1. confirmed \in Nat /\ confirmed <= MaxUpdates
    BY DEF PollInv, PollTyped
  <2>2. \A v \in 1..confirmed : v \in Update /\ Handled(v)
    BY <2>1, Updates DEF PollInv, DroppedWasHandled, Handled
  <2>3. QED
    BY <1>1, <1>6, <2>2 DEF DroppedWasHandled
<1>10. OffsetIsBehind'
  <2>1. loop.offset \in Nat /\ loop.offset - 1 <= MaxUpdates
    BY DEF PollInv, PollTyped
  <2>2. \A v \in 1..(loop.offset - 1) : v \in Update
    BY <2>1, Updates
  <2>3. \A v \in 1..(loop.offset - 1) : v \in Ignored \/ done'[v] > 0
    BY <1>4, <1>6, <2>2
  <2>4. QED
    BY <1>7, <2>3 DEF OffsetIsBehind, Handled
<1>11. BatchIsNext'
  <2>1. \A v \in 1..u : v \in Update /\ (v = u \/ v \in 1..(u - 1))
    <3>1. u \in Nat /\ u <= MaxUpdates
      BY <1>2, Updates
    <3>2. QED
      BY <3>1, Updates
  <2>2. \A v \in 1..u : Handled(v)'
    BY <1>5, <1>6, <2>1 DEF Handled
  <2>3. QED
    BY <1>1, <1>7, <2>2, RestIsNext DEF u
<1>12. QED
  BY <1>8, <1>9, <1>10, <1>11 DEF PollInv

LEMMA PollStepKeeps == PollInv /\ [PollNext]_pollVars => PollInv'
<1> SUFFICES ASSUME PollInv, [PollNext]_pollVars PROVE PollInv'
  OBVIOUS
<1>1. CASE UNCHANGED pollVars
  BY <1>1 DEF pollVars, PollInv, PollTyped, DroppedWasHandled, OffsetIsBehind, BatchIsNext,
              HasBatch, Handled, InHand
<1>2. CASE PollNext
  BY <1>2, LoopStepsKeep, GetUpdatesKeeps, AnswerKeeps, TakeKeeps, ReturnKeeps DEF PollNext, PollStep
<1>3. QED
  BY <1>1, <1>2

(* When the Bot API drops an update the handler has returned from it,
   wherever requests and answers get lost, the poller is stopped or the
   process dies (telegram.ts:132). *)
THEOREM NoUpdateIsLost == PollSpec => []DroppedWasHandled
<1>1. PollInv => DroppedWasHandled
  BY DEF PollInv
<1>2. QED
  BY PollInitHolds, PollStepKeeps, <1>1, PTL DEF PollSpec

LEMMA BootInvInit == PollInit => BootInv
<1> SUFFICES ASSUME PollInit PROVE BootInv
  OBVIOUS
<1>1. boots = 0 /\ stopped = FALSE /\ loop.stage = "none" /\ \A u \in Update : begun[u] = 0 /\ done[u] = 0
  BY DEF PollInit, Idle
<1>2. boots \in 0..MaxBoots
  BY <1>1
<1>3. begun \in [Update -> Nat] /\ stopped \in BOOLEAN
  BY <1>1 DEF PollInit
<1>4. \A u \in Update : done[u] <= begun[u] /\ begun[u] <= boots
  BY <1>1
<1> QED BY <1>1, <1>2, <1>3, <1>4 DEF BootInv

(* What the loop does between updates, and what starts and ends it. *)
LEMMA BootsStay ==
  ASSUME PollInv, BootInv,
         \/ UserSends \/ StartPolling \/ GetUpdates \/ PollAnswered \/ PollFails \/ PollWakes
         \/ BatchEnds \/ StopPolling \/ ProcessEnds
  PROVE  BootInv'
<1>1. done' = done /\ begun' = begun
  BY DEF UserSends, StartPolling, GetUpdates, PollAnswered, PollFails, PollWakes, BatchEnds,
         StopPolling, ProcessEnds
<1>2. /\ boots \in Nat /\ MaxBoots \in Nat /\ confirmed \in Nat
      /\ loop \in [stage : {"none", "request", "answer", "batch", "handling", "pause", "ended"},
                   offset : Nat, batch : Seq(Update)]
      /\ \A u \in Update : begun[u] \in Nat /\ done[u] \in Nat
  BY DEF BootInv, PollInv, PollTyped
<1>3. CASE UserSends \/ StopPolling
  BY <1>1, <1>3 DEF UserSends, StopPolling, BootInv
<1>4. CASE StartPolling
  <2>1. /\ boots' = boots + 1 /\ boots < MaxBoots /\ stopped' = FALSE
        /\ loop'.stage = "request"
    BY <1>4 DEF StartPolling, Idle
  <2>2. \A u \in Update : begun[u] <= boots /\ begun[u] <= boots + 1 /\ begun[u] < boots + 1
    BY <1>2 DEF BootInv
  <2>3. boots' \in 0..MaxBoots
    BY <1>2, <2>1
  <2> QED BY <1>1, <2>1, <2>2, <2>3 DEF BootInv
<1>5. CASE ProcessEnds
  <2>1. boots' = boots /\ stopped' = FALSE /\ loop'.stage = "none"
    BY <1>5 DEF ProcessEnds, Idle
  <2> QED BY <1>1, <2>1 DEF BootInv
<1>6. CASE GetUpdates
  <2>1. /\ boots' = boots /\ stopped' = stopped /\ loop'.stage = "answer" /\ loop.stage = "request"
        /\ loop'.offset = loop.offset
        /\ confirmed' = IF loop.offset > confirmed + 1 THEN loop.offset - 1 ELSE confirmed
    BY <1>2, <1>6 DEF GetUpdates
  <2>2. loop'.offset <= confirmed' + 1
    BY <1>2, <2>1
  <2> QED BY <1>1, <2>1, <2>2 DEF BootInv
<1>7. CASE PollAnswered
  <2>1. PICK n \in 0..Batch : loop' = [loop EXCEPT !.stage = "batch", !.batch = Unconfirmed(n)]
    BY <1>7 DEF PollAnswered
  <2>2. /\ boots' = boots /\ stopped' = stopped /\ loop'.stage = "batch" /\ loop.stage = "answer"
        /\ loop'.offset = loop.offset /\ loop'.batch = Unconfirmed(n)
    BY <1>2, <1>7, <2>1 DEF PollAnswered
  <2>3. loop'.batch # << >> => loop'.batch[1] = confirmed + 1
    <3>1. n \in Nat
      OBVIOUS
    <3>2. n = 0 => loop'.batch = << >>
      BY <2>2 DEF Unconfirmed
    <3>3. n > 0 => 1 \in 1..n
      BY <3>1
    <3> QED BY <2>2, <3>1, <3>2, <3>3 DEF Unconfirmed
  <2>4. loop.offset <= confirmed + 1
    BY <2>2 DEF BootInv
  <2> QED BY <1>1, <2>2, <2>3, <2>4 DEF BootInv
<1>8. CASE PollFails \/ PollWakes \/ BatchEnds
  <2>1. /\ boots' = boots /\ stopped' = stopped /\ loop'.stage \in {"pause", "ended", "request"}
        /\ loop'.offset = loop.offset /\ loop.stage # "none"
    BY <1>2, <1>8 DEF PollFails, PollWakes, BatchEnds, Again
  <2> QED BY <1>1, <2>1 DEF BootInv
<1> QED BY <1>3, <1>4, <1>5, <1>6, <1>7, <1>8

(* The next of a batch is an update this start has not handled yet. *)
LEMMA TakingIsOnce == ASSUME PollInv, BootInv, TakeUpdate PROVE BootInv'
<1> DEFINE u == loop.batch[1]
<1>1. HasBatch /\ loop.stage = "batch" /\ loop.batch # << >> /\ UNCHANGED <<boots, stopped, done>>
  BY DEF TakeUpdate, HasBatch
<1>2. u = Head(loop.batch) /\ u \in Update /\ Tail(loop.batch) \in Seq(Update)
  BY <1>1, HeadOfBatch
<1>3. /\ loop' = [loop EXCEPT !.offset = Past(u),
                              !.stage = IF u \in Ignored THEN "batch" ELSE "handling",
                              !.batch = IF u \in Ignored THEN Tail(@) ELSE @]
      /\ begun' = IF u \in Ignored THEN begun ELSE [begun EXCEPT ![u] = @ + 1]
  BY <1>2 DEF TakeUpdate
<1>4. loop.offset <= u
  BY <1>1 DEF BootInv
<1>5. Tail(loop.batch) # << >> => Tail(loop.batch)[1] = u + 1
  <2>1. /\ Tail(loop.batch) # << >> => 1 \in 1..Len(Tail(loop.batch))
        /\ \A i \in 1..Len(Tail(loop.batch)) : Tail(loop.batch)[i] = u + i
    BY <1>1, <1>2, HeadOfBatch
  <2> QED BY <2>1
<1>6. u <= MaxUpdates /\ u \in Nat /\ \A v \in Update : v \in Nat
  BY <1>2, Updates
<1>7. /\ boots \in 0..MaxBoots /\ loop.offset \in Nat
      /\ \A v \in Update : begun[v] \in Nat /\ done[v] \in Nat /\ done[v] <= begun[v] /\ begun[v] <= boots
      /\ \A v \in Update : v >= loop.offset => begun[v] < boots
  BY <1>1 DEF BootInv, PollInv, PollTyped
<1> HIDE DEF u
<1>8. Past(u) = u + 1
  BY <1>4, <1>6, <1>7 DEF Past
<1>9. CASE u \in Ignored
  <2>1. /\ loop'.offset = u + 1 /\ loop'.stage = "batch" /\ loop'.batch = Tail(loop.batch)
        /\ begun' = begun
    BY <1>3, <1>8, <1>9 DEF PollInv, PollTyped
  <2>2. \A v \in Update : v >= u + 1 => begun[v] < boots
    BY <1>4, <1>6, <1>7
  <2>3. loop'.batch # << >> => loop'.offset <= loop'.batch[1]
    BY <1>5, <1>6, <2>1
  <2> QED BY <1>1, <2>1, <2>2, <2>3 DEF BootInv
<1>10. CASE u \notin Ignored
  <2>1. /\ loop'.offset = u + 1 /\ loop'.stage = "handling" /\ loop'.batch = loop.batch
        /\ begun' = [begun EXCEPT ![u] = @ + 1]
    BY <1>3, <1>8, <1>10 DEF PollInv, PollTyped
  <2>2. begun[u] < boots /\ begun \in [Update -> Nat]
    <3>1. u >= loop.offset
      BY <1>4, <1>6, <1>7
    <3> QED BY <1>2, <1>7, <3>1 DEF BootInv
  <2>3. /\ begun' \in [Update -> Nat] /\ begun'[u] = begun[u] + 1
        /\ \A v \in Update : v # u => begun'[v] = begun[v]
    BY <1>2, <2>1, <2>2
  <2>4. \A v \in Update : done[v] <= begun'[v] /\ begun'[v] <= boots
    <3>1. boots \in Nat /\ begun[u] \in Nat /\ done[u] \in Nat /\ done[u] <= begun[u]
      BY <1>2, <1>7
    <3>2. done[u] <= begun[u] + 1 /\ begun[u] + 1 <= boots
      BY <2>2, <3>1
    <3>3. \A v \in Update : v # u => done[v] <= begun'[v] /\ begun'[v] <= boots
      BY <1>7, <2>3
    <3> QED BY <2>3, <3>2, <3>3
  <2>5. \A v \in Update : v >= u + 1 => begun'[v] < boots
    BY <1>4, <1>6, <1>7, <2>3
  <2>6. loop'.offset <= loop'.batch[1] + 1 /\ done[loop'.batch[1]] < begun'[loop'.batch[1]]
    BY <1>2, <1>6, <1>7, <2>1, <2>3 DEF u
  <2> QED BY <1>1, <1>7, <2>1, <2>3, <2>4, <2>5, <2>6 DEF BootInv
<1> QED BY <1>9, <1>10

LEMMA ReturningIsOnce == ASSUME PollInv, BootInv, HandlerReturns PROVE BootInv'
<1> DEFINE u == loop.batch[1]
<1>1. /\ loop.stage = "handling" /\ HasBatch /\ loop.batch # << >>
      /\ UNCHANGED <<boots, stopped, begun>>
  BY DEF HandlerReturns, HasBatch, PollInv, BatchIsNext
<1>2. u = Head(loop.batch) /\ u \in Update
  BY <1>1, HeadOfBatch
<1>3. /\ done' = [done EXCEPT ![u] = @ + 1]
      /\ loop' = [loop EXCEPT !.stage = "batch", !.batch = Tail(@)]
  BY <1>2 DEF HandlerReturns
<1>4. Tail(loop.batch) # << >> => Tail(loop.batch)[1] = u + 1
  <2>1. /\ Tail(loop.batch) # << >> => 1 \in 1..Len(Tail(loop.batch))
        /\ \A i \in 1..Len(Tail(loop.batch)) : Tail(loop.batch)[i] = u + i
    BY <1>1, <1>2, HeadOfBatch
  <2> QED BY <2>1
<1>5. loop.offset <= u + 1 /\ done[u] < begun[u]
  BY <1>1 DEF BootInv
<1> HIDE DEF u
<1>6. loop'.offset = loop.offset /\ loop'.stage = "batch" /\ loop'.batch = Tail(loop.batch)
  BY <1>3 DEF PollInv, PollTyped
<1>7. \A v \in Update : done'[v] = IF v = u THEN done[u] + 1 ELSE done[v]
  BY <1>2, <1>3 DEF PollInv, PollTyped
<1>8. \A v \in Update : done[v] \in Nat /\ begun[v] \in Nat /\ done[v] <= begun[v]
  BY DEF BootInv, PollInv, PollTyped
<1>9. \A v \in Update : done'[v] <= begun[v]
  BY <1>2, <1>5, <1>7, <1>8
<1> QED BY <1>1, <1>4, <1>5, <1>6, <1>9 DEF BootInv

LEMMA BootStepKeeps == PollInv /\ BootInv /\ [PollNext]_pollVars => BootInv'
<1> SUFFICES ASSUME PollInv, BootInv, [PollNext]_pollVars PROVE BootInv'
  OBVIOUS
<1>1. CASE UNCHANGED pollVars
  BY <1>1 DEF pollVars, BootInv
<1>2. CASE PollNext
  BY <1>2, BootsStay, TakingIsOnce, ReturningIsOnce DEF PollNext, PollStep
<1> QED BY <1>1, <1>2

LEMMA PollInvTypes == PollInv /\ BootInv => PollTypeOK
<1> SUFFICES ASSUME PollInv, BootInv PROVE PollTypeOK
  OBVIOUS
<1>1. {sent, confirmed} \subseteq 0..MaxUpdates /\ confirmed <= sent
  BY DEF PollInv, PollTyped
<1>2. loop.offset \in 0..(MaxUpdates + 1)
  BY DEF PollInv, PollTyped
<1>3. \A u \in Update : begun[u] \in 0..MaxBoots /\ done[u] \in 0..MaxBoots
  BY DEF PollInv, PollTyped, BootInv
<1>4. begun \in [Update -> 0..MaxBoots] /\ done \in [Update -> 0..MaxBoots]
  BY <1>3 DEF PollInv, PollTyped, BootInv
<1> QED BY <1>1, <1>2, <1>4 DEF PollInv, PollTyped, BootInv, PollTypeOK

(* The types of the poller, the Bot API and the handler's calls. *)
THEOREM PollTypes == PollSpec => []PollTypeOK
BY PollInitHolds, PollStepKeeps, BootInvInit, BootStepKeeps, PollInvTypes, PTL DEF PollSpec

OncePerStart == \A u \in Update : begun[u] <= boots

(* The handler gets an update at most as often as the poller was started,
   whatever answers are lost and however often a poll is repeated: what comes
   twice came before a restart (telegram.ts:132). *)
THEOREM HandedOncePerStart == PollSpec => []OncePerStart
<1>1. BootInv => OncePerStart
  BY DEF BootInv, OncePerStart
<1> QED BY <1>1, PollInitHolds, PollStepKeeps, BootInvInit, BootStepKeeps, PTL DEF PollSpec

HIDE PollerAssumption

-----------------------------------------------------------------------------
(* The WebChat server.                                                      *)

(* What was routed and what was done had the token its endpoint asks for. *)
Admitted ==
  /\ http \in [Http -> [at : DOMAIN Endpoint, bearer : Secret \cup {Unset},
                        pc : {"new", "body", "refused", "declined", "served", "accepted"},
                        did : {"none", "answer", "ticket", "message", "verdict", "config"}]]
  /\ \A r \in Http : http[r].pc = "body" \/ http[r].did # "none" =>
                       Authorised(http[r].at, http[r].bearer)

Tokens == token \in [TokenKind -> Secret \cup {Unset}] /\ Constructible(token)

TokensInv == Tokens /\ Admitted

(* The handler is set, and requests are read, from the start until stop() is
   through; the sockets are told of it before. *)
Attended ==
  /\ server \in {"down", "up", "draining", "closing", "stopped"}
  /\ handler <=> server \in {"up", "draining", "closing"}
  /\ \A r \in Http : /\ http[r].pc = "body" => handler
                     /\ http[r].pc = "accepted" => http[r].did = "message"

Told ==
  /\ socket \in [Ticket -> [user : WebUser \cup {"nobody"},
                            state : {"none", "open", "closing", "closed"}]]
  /\ ticket \in [Ticket -> [user : WebUser \cup {"nobody"}, stale : BOOLEAN]]
  /\ \A k \in Ticket :
       /\ socket[k].state = "open" => server = "up"
       /\ server \in {"closing", "stopped"} => socket[k].state \in {"none", "closed"}

StopInv == Admitted /\ Attended /\ Told

USE WebChatAssumption, CalledAssumption

LEMMA KeysAreKinds == ASSUME NEW e \in DOMAIN Endpoint PROVE Endpoint[e].key \in TokenKind \cup {"none"}
BY DEF Endpoint, TokenKind

-----------------------------------------------------------------------------
LEMMA InitTokens == WebInit => TokensInv
BY DEF WebInit, TokensInv, Tokens, Admitted, NoHttp, Endpoint

(* A request comes to be read only with the token of its endpoint. *)
LEMMA ArrivalIsAdmitted ==
  ASSUME Admitted, NEW r \in Http, NEW e \in Called, NEW s \in Secret \cup {Unset}, Arrive(r, e, s)
  PROVE  Admitted'
<1> DEFINE h == [at |-> e, bearer |-> s, did |-> "none",
                 pc |-> IF Authorised(e, s) THEN "body" ELSE "refused"]
<1>1. http' = [http EXCEPT ![r] = h] /\ token' = token
  BY DEF Arrive
<1>2. /\ h \in [at : DOMAIN Endpoint, bearer : Secret \cup {Unset},
                pc : {"new", "body", "refused", "declined", "served", "accepted"},
                did : {"none", "answer", "ticket", "message", "verdict", "config"}]
      /\ h.pc = "body" \/ h.did # "none" => Authorised(h.at, h.bearer)
  OBVIOUS
<1> HIDE DEF h
<1>3. \A q \in Http : http'[q] = IF q = r THEN h ELSE http[q]
  BY <1>1 DEF Admitted
<1>4. \A d, b : Authorised(d, b)' <=> Authorised(d, b)
  BY <1>1 DEF Authorised
<1>5. QED
  BY <1>1, <1>2, <1>3, <1>4 DEF Admitted

(* A reply to a request that was read. *)
LEMMA RepliesKeep ==
  ASSUME Admitted, NEW r \in Http, http[r].pc = "body", token' = token,
         NEW pc \in {"declined", "served", "accepted"},
         NEW did \in {"none", "answer", "ticket", "message", "verdict", "config"}, Replies(r, pc, did)
  PROVE  /\ Admitted'
         /\ \A q \in Http : q # r => http'[q] = http[q]
         /\ http'[r].pc = pc /\ http'[r].did = did
<1>1. http' = [http EXCEPT ![r] = [http[r] EXCEPT !.pc = pc, !.did = did]]
  BY DEF Replies, Admitted
<1>2. /\ http' \in [Http -> [at : DOMAIN Endpoint, bearer : Secret \cup {Unset},
                        pc : {"new", "body", "refused", "declined", "served", "accepted"},
                        did : {"none", "answer", "ticket", "message", "verdict", "config"}]]
      /\ \A q \in Http : http'[q].at = http[q].at /\ http'[q].bearer = http[q].bearer
      /\ \A q \in Http : q # r => http'[q] = http[q]
      /\ http'[r].pc = pc /\ http'[r].did = did
  BY <1>1 DEF Admitted
<1>3. \A d, b : Authorised(d, b)' <=> Authorised(d, b)
  BY DEF Authorised
<1>4. QED
  BY <1>2, <1>3 DEF Admitted

(* What an endpoint does is one of the effects. *)
LEMMA EffectsAreKnown ==
  ASSUME NEW e \in DOMAIN Endpoint
  PROVE  Endpoint[e].does \in {"none", "answer", "ticket", "message", "verdict", "config"}
BY DEF Endpoint

LEMMA AdmittedStays == Admitted /\ [WebNext]_webVars => Admitted'
<1> SUFFICES ASSUME Admitted, [WebNext]_webVars PROVE Admitted'
  OBVIOUS
<1>1. CASE UNCHANGED <<http, token>>
  BY <1>1 DEF Admitted, Authorised
<1>2. ASSUME NEW r \in Http, NEW e \in Called, NEW s \in Secret \cup {Unset}, Arrive(r, e, s) PROVE Admitted'
  BY <1>2, ArrivalIsAdmitted
<1>3. ASSUME NEW r \in Http, Decline(r) PROVE Admitted'
  BY <1>3, RepliesKeep DEF Decline
<1>4. ASSUME NEW r \in Http, Serve(r) PROVE Admitted'
  <2>1. Endpoint[http[r].at].does \in {"answer", "verdict", "config"}
    BY <1>4 DEF Serve
  <2>2. QED
    BY <1>4, <2>1, RepliesKeep DEF Serve
<1>5. ASSUME NEW r \in Http, Accept(r) PROVE Admitted'
  <2>1. http[r].pc = "body" /\ token' = token
        /\ (Replies(r, "accepted", "message") \/ Replies(r, "accepted", "none"))
    BY <1>5 DEF Accept
  <2>2. QED
    BY <2>1, RepliesKeep
<1>6. ASSUME NEW r \in Http, NEW k \in Ticket, NEW u \in WebUser, IssueTicket(r, k, u) PROVE Admitted'
  BY <1>6, RepliesKeep DEF IssueTicket
<1>7. QED
  BY <1>1, <1>2, <1>3, <1>4, <1>5, <1>6
     DEF WebNext, webVars, Listen, StopServer, SocketsGone, Closed, TicketExpires, Upgrade, Hangup

LEMMA TokensStay == Tokens /\ [WebNext]_webVars => Tokens'
<1> SUFFICES ASSUME Tokens, [WebNext]_webVars PROVE Tokens'
  OBVIOUS
<1>1. token' = token
  BY DEF WebNext, webVars, Listen, StopServer, SocketsGone, Closed, TicketExpires, Upgrade, Hangup,
         Arrive, Decline, Serve, Accept, IssueTicket
<1>2. QED
  BY <1>1 DEF Tokens, Constructible

(* Whatever tokens the constructor lets through, the token of one kind gets
   nothing done that another kind is for (webchat.ts:403, :964). *)
THEOREM TokensOpen == WebSpec => []TokensOpenTheirOwn
<1>1. TokensInv /\ [WebNext]_webVars => TokensInv'
  BY AdmittedStays, TokensStay DEF TokensInv
<1>2. TokensInv => TokensOpenTheirOwn
  <2> SUFFICES ASSUME TokensInv, NEW r \in Http, http[r].did # "none", NEW k \in TokenKind,
                      token[k] # Unset, http[r].bearer = token[k]
               PROVE  Endpoint[http[r].at].key \in {k, "none"}
    BY DEF TokensOpenTheirOwn
  <2> DEFINE l == Endpoint[http[r].at].key
  <2>1. l \in TokenKind \cup {"none"}
    BY KeysAreKinds DEF TokensInv, Admitted
  <2>2. l = "none" \/ (token[l] # Unset /\ http[r].bearer = token[l])
    BY DEF TokensInv, Admitted, Authorised
  <2> HIDE DEF l
  <2>3. l \in {k, "none"}
    BY <2>1, <2>2 DEF TokensInv, Tokens, Constructible
  <2>4. QED
    BY <2>3 DEF l
<1>3. QED
  BY InitTokens, <1>1, <1>2, PTL DEF WebSpec

-----------------------------------------------------------------------------
LEMMA InitStop == WebInit => StopInv
<1> SUFFICES ASSUME WebInit PROVE StopInv
  OBVIOUS
<1>1. Admitted
  BY InitTokens DEF TokensInv
<1>2. Attended
  BY DEF WebInit, Attended, NoHttp
<1>3. Told
  BY DEF WebInit, Told, NoSocket, NoTicket
<1>4. QED
  BY <1>1, <1>2, <1>3 DEF StopInv

(* One request moves on. *)
LEMMA OneMovesOn ==
  ASSUME Attended, server' = server, handler' <=> handler, NEW r \in Http,
         \A q \in Http : q # r => http'[q] = http[q],
         http'[r].pc = "body" => handler, http'[r].pc = "accepted" => http'[r].did = "message"
  PROVE  Attended'
<1>1. \A q \in Http : /\ http'[q].pc = "body" => handler
                      /\ http'[q].pc = "accepted" => http'[q].did = "message"
  <2> SUFFICES ASSUME NEW q \in Http
               PROVE  /\ http'[q].pc = "body" => handler
                      /\ http'[q].pc = "accepted" => http'[q].did = "message"
    OBVIOUS
  <2>1. CASE q = r
    BY <2>1
  <2>2. CASE q # r
    BY <2>2 DEF Attended
  <2>3. QED
    BY <2>1, <2>2
<1>2. (handler' <=> handler) /\ server' = server
  OBVIOUS
<1>3. QED
  BY <1>1, <1>2 DEF Attended

(* Requests come only while there is a handler, and it goes when none is read. *)
LEMMA AttendedStays == Admitted /\ Attended /\ [WebNext]_webVars => Attended'
<1> SUFFICES ASSUME Admitted, Attended, [WebNext]_webVars PROVE Attended'
  OBVIOUS
<1>1. CASE UNCHANGED <<server, handler, http>>
  BY <1>1 DEF Attended
<1>2. ASSUME NEW r \in Http, NEW e \in Called, NEW s \in Secret \cup {Unset}, Arrive(r, e, s) PROVE Attended'
  <2>1. /\ server' = server /\ (handler' <=> handler) /\ handler
        /\ \A q \in Http : q # r => http'[q] = http[q]
        /\ http'[r].pc # "accepted"
    BY <1>2 DEF Arrive, Accepting, Attended, Admitted
  <2>2. QED
    BY <2>1, OneMovesOn
<1>3. ASSUME NEW r \in Http, Decline(r) \/ Serve(r) PROVE Attended'
  <2>1. /\ server' = server /\ (handler' <=> handler)
        /\ \A q \in Http : q # r => http'[q] = http[q]
        /\ http'[r].pc # "accepted" /\ http'[r].pc # "body"
    BY <1>3 DEF Decline, Serve, Replies, Admitted
  <2>2. QED
    BY <2>1, OneMovesOn
<1>4. ASSUME NEW r \in Http, Accept(r) PROVE Attended'
  <2>1. /\ server' = server /\ (handler' <=> handler) /\ handler /\ http[r].pc = "body" /\ token' = token
        /\ Replies(r, "accepted", "message")
    BY <1>4 DEF Accept, Attended
  <2>2. /\ \A q \in Http : q # r => http'[q] = http[q]
        /\ http'[r].pc = "accepted" /\ http'[r].did = "message"
    BY <2>1, RepliesKeep
  <2>3. QED
    BY <2>1, <2>2, OneMovesOn
<1>5. ASSUME NEW r \in Http, NEW k \in Ticket, NEW u \in WebUser, IssueTicket(r, k, u) PROVE Attended'
  <2>1. /\ server' = server /\ (handler' <=> handler)
        /\ \A q \in Http : q # r => http'[q] = http[q]
        /\ http'[r].pc # "accepted" /\ http'[r].pc # "body"
    BY <1>5 DEF IssueTicket, Replies, Admitted
  <2>2. QED
    BY <2>1, OneMovesOn
<1>6. CASE Listen \/ StopServer \/ SocketsGone \/ Closed
  BY <1>6 DEF Listen, StopServer, SocketsGone, Closed, Attended
<1>7. QED
  BY <1>1, <1>2, <1>3, <1>4, <1>5, <1>6 DEF WebNext, webVars, TicketExpires, Upgrade, Hangup

(* A socket opens only before the stop, which tells the open ones. *)
LEMMA ToldStays == Told /\ Attended /\ [WebNext]_webVars => Told'
<1> SUFFICES ASSUME Told, Attended, [WebNext]_webVars PROVE Told'
  OBVIOUS
<1>1. CASE UNCHANGED <<server, socket, ticket>>
  BY <1>1 DEF Told
<1>2. CASE Listen
  BY <1>2 DEF Listen, Told
<1>3. CASE StopServer
  <2>1. \A k \in Ticket : socket'[k] = IF socket[k].state = "open"
                                         THEN [socket[k] EXCEPT !.state = "closing"] ELSE socket[k]
    BY <1>3 DEF StopServer, Closing
  <2>2. socket' \in [Ticket -> [user : WebUser \cup {"nobody"}, state : {"none", "open", "closing", "closed"}]]
    BY <1>3 DEF StopServer, Closing, Told
  <2>3. QED
    BY <1>3, <2>1, <2>2 DEF StopServer, Told
<1>4. CASE SocketsGone \/ Closed
  BY <1>4 DEF SocketsGone, Closed, Told
<1>5. ASSUME NEW r \in Http, NEW k \in Ticket, NEW u \in WebUser, IssueTicket(r, k, u) PROVE Told'
  BY <1>5 DEF IssueTicket, Told
<1>6. ASSUME NEW k \in Ticket, TicketExpires(k) PROVE Told'
  BY <1>6 DEF TicketExpires, Told
<1>7. ASSUME NEW k \in Ticket, Upgrade(k) PROVE Told'
  <2>1. CASE Fresh(k) /\ server = "up"
    BY <1>7, <2>1 DEF Upgrade, Opens, Told
  <2>2. CASE ~(Fresh(k) /\ server = "up")
    BY <1>7, <2>2 DEF Upgrade, Told
  <2>3. QED
    BY <2>1, <2>2
<1>8. ASSUME NEW k \in Ticket, Hangup(k) PROVE Told'
  BY <1>8 DEF Hangup, Told
<1>9. QED
  BY <1>1, <1>2, <1>3, <1>4, <1>5, <1>6, <1>7, <1>8
     DEF WebNext, webVars, Arrive, Decline, Serve, Accept

(* A message answered with 202 was handed to the handler, whenever the stop
   came, and no socket outlives the port (webchat.ts:586). *)
THEOREM StopLoses == WebSpec => []StopLosesNothing
<1>1. StopInv /\ [WebNext]_webVars => StopInv'
  BY AdmittedStays, AttendedStays, ToldStays DEF StopInv
<1>2. StopInv => StopLosesNothing
  BY DEF StopInv, Attended, Told, StopLosesNothing
<1>3. QED
  BY InitStop, <1>1, <1>2, PTL DEF WebSpec

-----------------------------------------------------------------------------
(* The tickets of the store were issued and have opened no socket; a socket is
   that of an issued ticket.  So no ticket is issued that is in the store, or
   in a socket, already. *)
TicketInv ==
  /\ issued \in Seq(Ticket) /\ Len(issued) <= TicketCap
  /\ \A k \in Ticket : Held(k) => ticket[k] # NoTicket /\ socket[k].state = "none"
  /\ \A k \in Ticket : socket[k].state # "none" => ticket[k] # NoTicket

LEMMA InitTickets == WebInit => TicketInv
BY DEF WebInit, TicketInv, Held, NoSocket

(* The loop over the map keeps some of its tickets and brings none. *)
LEMMA KeptWereHeld ==
  ASSUME issued \in Seq(Ticket), NEW places \in SUBSET (DOMAIN issued)
  PROVE  /\ Subsequence(issued, places) \in Seq(Ticket)
         /\ Len(Subsequence(issued, places)) <= Len(issued)
         /\ \A n \in 1..Len(Subsequence(issued, places)) :
              \E i \in places : Subsequence(issued, places)[n] = issued[i]
<1>1. DOMAIN issued = 1..Len(issued)
  OBVIOUS
<1>2. places \in SUBSET (1..Len(issued))
  BY <1>1
<1> QED BY <1>2, SubsequenceProperties

(* After the collection there is room for one more, and nothing is new. *)
LEMMA RoomForOne ==
  ASSUME issued \in Seq(Ticket), Len(issued) <= TicketCap
  PROVE  /\ Room(Unexpired) \in Seq(Ticket) /\ Len(Room(Unexpired)) < TicketCap
         /\ \A n \in 1..Len(Room(Unexpired)) : Held(Room(Unexpired)[n])
<1>1. PICK kept : kept = Unexpired
  OBVIOUS
<1>2. kept \in Seq(Ticket) /\ Len(kept) <= Len(issued) /\ \A n \in 1..Len(kept) : Held(kept[n])
  <2>1. {i \in DOMAIN issued : Fresh(issued[i])} \in SUBSET (DOMAIN issued)
    OBVIOUS
  <2>2. /\ kept \in Seq(Ticket) /\ Len(kept) <= Len(issued)
        /\ \A n \in 1..Len(kept) : \E i \in DOMAIN issued : kept[n] = issued[i]
    BY <1>1, <2>1, KeptWereHeld DEF Unexpired
  <2>3. DOMAIN issued = 1..Len(issued)
    OBVIOUS
  <2> QED BY <2>2, <2>3 DEF Held
<1>3. PICK m \in Nat : m = Len(kept)
  BY <1>2
<1>4. CASE m >= TicketCap
  <2>1. m = TicketCap /\ m > 0
    BY <1>2, <1>3, <1>4
  <2>2. kept # << >> /\ Room(kept) = Tail(kept)
    BY <1>2, <1>3, <1>4, <2>1 DEF Room
  <2>3. PICK rest : rest = Tail(kept)
    OBVIOUS
  <2>4. rest \in Seq(Ticket) /\ Len(rest) = m - 1 /\ \A n \in 1..(m - 1) : rest[n] = kept[n + 1]
    BY <1>2, <1>3, <2>2, <2>3
  <2>5. \A n \in 1..(m - 1) : n + 1 \in 1..m
    OBVIOUS
  <2>6. \A n \in 1..(m - 1) : Held(rest[n])
    BY <1>2, <1>3, <2>4, <2>5
  <2> QED BY <1>1, <2>1, <2>2, <2>3, <2>4, <2>6
<1>5. CASE ~(m >= TicketCap)
  BY <1>1, <1>2, <1>3, <1>5 DEF Room
<1> QED BY <1>4, <1>5

LEMMA IssueKeepsTickets ==
  ASSUME Told, TicketInv, NEW r \in Http, NEW k \in Ticket, NEW u \in WebUser, IssueTicket(r, k, u)
  PROVE  TicketInv'
<1>1. PICK kept : kept = Room(Unexpired)
  OBVIOUS
<1>2. kept \in Seq(Ticket) /\ Len(kept) < TicketCap /\ \A n \in 1..Len(kept) : Held(kept[n])
  BY <1>1, RoomForOne DEF TicketInv
<1>3. /\ issued' = Append(kept, k) /\ socket' = socket /\ ticket[k] = NoTicket
      /\ ticket' = [ticket EXCEPT ![k] = [user |-> u, stale |-> FALSE]]
  BY <1>1 DEF IssueTicket
<1>4. PICK m \in Nat : m = Len(kept)
  BY <1>2
<1>5. /\ issued' \in Seq(Ticket) /\ Len(issued') = m + 1 /\ issued'[m + 1] = k
      /\ \A n \in 1..m : issued'[n] = kept[n]
  BY <1>2, <1>3, <1>4, AppendProperties
<1>6. /\ ticket'[k] # NoTicket
      /\ \A j \in Ticket \ {k} : ticket'[j] = ticket[j]
  <2>1. ticket'[k] = [user |-> u, stale |-> FALSE]
    BY <1>3 DEF Told
  <2>2. ticket'[k].user = u /\ NoTicket.user = "nobody"
    BY <2>1 DEF NoTicket
  <2> QED BY <1>3, <2>2 DEF Told
<1>7. socket[k].state = "none"
  BY <1>3 DEF TicketInv
<1>8. ASSUME NEW j \in Ticket, Held(j)' PROVE ticket'[j] # NoTicket /\ socket'[j].state = "none"
  <2>1. PICK n \in 1..(m + 1) : issued'[n] = j
    BY <1>5, <1>8 DEF Held
  <2>2. CASE n = m + 1
    BY <1>3, <1>5, <1>6, <1>7, <2>1, <2>2
  <2>3. CASE n # m + 1
    <3>1. n \in 1..m
      BY <2>3
    <3>2. Held(j)
      BY <1>2, <1>4, <1>5, <2>1, <3>1
    <3>3. ticket[j] # NoTicket /\ socket[j].state = "none" /\ j # k
      BY <1>3, <3>2 DEF TicketInv
    <3> QED BY <1>3, <1>6, <3>3
  <2> QED BY <2>2, <2>3
<1>9. ASSUME NEW j \in Ticket, socket'[j].state # "none" PROVE ticket'[j] # NoTicket
  BY <1>3, <1>6, <1>9 DEF TicketInv
<1> QED BY <1>2, <1>4, <1>5, <1>8, <1>9 DEF TicketInv

(* A ticket leaves the store before anything comes of it. *)
LEMMA UpgradeKeepsTickets ==
  ASSUME Told, TicketInv, NEW k \in Ticket, Upgrade(k)
  PROVE  TicketInv' /\ \A j \in Ticket \ {k} : socket'[j] = socket[j]
<1>1. PICK kept : kept = Subsequence(issued, {i \in DOMAIN issued : issued[i] # k})
  OBVIOUS
<1>2. issued' = kept /\ ticket' = ticket /\ Held(k) /\ (Opens(k) \/ socket' = socket)
  BY <1>1 DEF Upgrade
<1>3. /\ kept \in Seq(Ticket) /\ Len(kept) <= Len(issued)
      /\ \A n \in 1..Len(kept) : \E i \in DOMAIN issued : kept[n] = issued[i] /\ issued[i] # k
  <2>1. {i \in DOMAIN issued : issued[i] # k} \in SUBSET (DOMAIN issued)
    OBVIOUS
  <2> QED BY <1>1, <2>1, KeptWereHeld DEF TicketInv
<1>4. issued' \in Seq(Ticket) /\ Len(issued') <= TicketCap
  <2>1. PICK m \in Nat, n \in Nat : m = Len(kept) /\ n = Len(issued)
    BY <1>3 DEF TicketInv
  <2> QED BY <1>2, <1>3, <2>1 DEF TicketInv
<1>5. \A j \in Ticket \ {k} : socket'[j] = socket[j]
  BY <1>2 DEF Opens, Told
<1>6. ASSUME NEW j \in Ticket, Held(j)' PROVE ticket'[j] # NoTicket /\ socket'[j].state = "none"
  <2>1. PICK n \in 1..Len(kept) : kept[n] = j
    BY <1>2, <1>6 DEF Held
  <2>2. PICK i \in DOMAIN issued : issued[i] = j /\ j # k
    BY <1>3, <2>1
  <2>3. DOMAIN issued = 1..Len(issued)
    BY DEF TicketInv
  <2>4. Held(j)
    BY <2>2, <2>3 DEF Held
  <2> QED BY <1>2, <1>5, <2>2, <2>4 DEF TicketInv
<1>7. ASSUME NEW j \in Ticket, socket'[j].state # "none" PROVE ticket'[j] # NoTicket
  <2>1. CASE j = k
    BY <1>2, <2>1 DEF TicketInv
  <2>2. CASE j # k
    BY <1>2, <1>5, <1>7, <2>2 DEF TicketInv
  <2> QED BY <2>1, <2>2
<1> QED BY <1>4, <1>5, <1>6, <1>7 DEF TicketInv

(* Nothing is taken from or put into the store, no ticket becomes none, and a
   socket that is none stays none. *)
LEMMA TicketsRest ==
  ASSUME TicketInv, issued' = issued,
         \A j \in Ticket : ticket[j] # NoTicket => ticket'[j] # NoTicket,
         \A j \in Ticket : socket'[j].state = "none" <=> socket[j].state = "none"
  PROVE  TicketInv'
<1>1. \A j : Held(j)' <=> Held(j)
  BY DEF Held
<1> QED BY <1>1 DEF TicketInv

(* What a hangup, a stop and a clock do to sockets and tickets. *)
LEMMA QuietStepsKeepTickets ==
  ASSUME Told, TicketInv, [WebNext]_webVars,
         \A r \in Http, k \in Ticket, u \in WebUser : ~IssueTicket(r, k, u),
         \A k \in Ticket : ~Upgrade(k)
  PROVE  /\ TicketInv'
         /\ \A k \in Ticket : socket'[k].state = "open" => socket[k].state = "open"
<1>1. CASE UNCHANGED <<issued, ticket, socket>>
  BY <1>1, TicketsRest
<1>2. CASE StopServer
  <2>1. \A k \in Ticket : socket'[k] = IF socket[k].state = "open"
                                         THEN [socket[k] EXCEPT !.state = "closing"] ELSE socket[k]
    BY <1>2 DEF StopServer, Closing
  <2>2. \A k \in Ticket : socket'[k].state = IF socket[k].state = "open" THEN "closing"
                                                                         ELSE socket[k].state
    BY <2>1 DEF Told
  <2>3. issued' = issued /\ ticket' = ticket
    BY <1>2 DEF StopServer
  <2> QED BY <2>2, <2>3, TicketsRest
<1>3. ASSUME NEW k \in Ticket, TicketExpires(k)
      PROVE  TicketInv' /\ socket' = socket
  <2>1. ticket' = [ticket EXCEPT ![k] = [ticket[k] EXCEPT !.stale = TRUE]] /\ ticket[k] # NoTicket
        /\ issued' = issued /\ socket' = socket
    BY <1>3 DEF TicketExpires
  <2>2. ticket'[k].stale = TRUE /\ \A j \in Ticket \ {k} : ticket'[j] = ticket[j]
    BY <2>1 DEF Told
  <2>3. ticket'[k] # NoTicket
    BY <2>2 DEF NoTicket
  <2> QED BY <2>1, <2>2, <2>3, TicketsRest
<1>4. ASSUME NEW k \in Ticket, Hangup(k)
      PROVE  TicketInv' /\ \A j \in Ticket : socket'[j].state = "open" => socket[j].state = "open"
  <2>1. /\ socket[k].state \in {"open", "closing"} /\ issued' = issued /\ ticket' = ticket
        /\ socket' = [socket EXCEPT ![k] = [socket[k] EXCEPT !.state = "closed"]]
    BY <1>4 DEF Hangup
  <2>2. socket'[k].state = "closed" /\ \A j \in Ticket \ {k} : socket'[j] = socket[j]
    BY <2>1 DEF Told
  <2>3. \A j \in Ticket : socket'[j].state = IF j = k THEN "closed" ELSE socket[j].state
    BY <2>2
  <2> QED BY <2>1, <2>3, TicketsRest
<1> QED BY <1>1, <1>2, <1>3, <1>4
        DEF WebNext, webVars, Listen, SocketsGone, Closed, Arrive, Decline, Serve, Accept

LEMMA TicketsStay == Told /\ TicketInv /\ [WebNext]_webVars => TicketInv'
BY IssueKeepsTickets, UpgradeKeepsTickets, QuietStepsKeepTickets

(* Where a socket opens. *)
LEMMA OneSocketOpens ==
  ASSUME Told, TicketInv, [WebNext]_webVars, NEW k \in Ticket,
         socket'[k].state = "open", socket[k].state # "open"
  PROVE  socket[k].state = "none" /\ ~ticket[k].stale /\ socket'[k].user = ticket[k].user
<1>1. Upgrade(k)
  <2>1. PICK j \in Ticket : Upgrade(j)
    <3>1. ASSUME NEW r \in Http, NEW j \in Ticket, NEW u \in WebUser, IssueTicket(r, j, u) PROVE FALSE
      BY <3>1 DEF IssueTicket
    <3> QED BY <3>1, QuietStepsKeepTickets
  <2> QED BY <2>1, UpgradeKeepsTickets
<1>2. Opens(k) /\ Fresh(k) /\ Held(k)
  BY <1>1 DEF Upgrade
<1>3. socket[k].state = "none"
  BY <1>2 DEF TicketInv
<1>4. socket'[k] = [user |-> ticket[k].user, state |-> "open"]
  BY <1>2 DEF Opens, Told
<1> QED BY <1>2, <1>3, <1>4 DEF Fresh

(* A ticket becomes one socket, its user's, while it is fresh, however many
   upgrades come with it and whatever the collection and the cap take out of
   the store (issue, consume and gc of MemoryTicketStore). *)
THEOREM TicketsOpenOne == WebSpec => TicketsOpenOneSocket
<1>1. StopInv /\ [WebNext]_webVars => StopInv'
  BY AdmittedStays, AttendedStays, ToldStays DEF StopInv
<1>2. StopInv => Told
  BY DEF StopInv
<1>3. Told /\ TicketInv /\ [WebNext]_webVars
        => [\A k \in Ticket : socket'[k].state = "open" /\ socket[k].state # "open" =>
              /\ socket[k].state = "none"
              /\ ~ticket[k].stale
              /\ socket'[k].user = ticket[k].user]_webVars
  BY OneSocketOpens
<1> QED BY InitStop, InitTickets, <1>1, <1>2, <1>3, TicketsStay, PTL DEF WebSpec, TicketsOpenOneSocket

HandlerTyped == handler \in BOOLEAN

(* WebTypeOK: in particular the store never holds more than its cap
   (ticket_store.ts). *)
THEOREM WebTypes == WebSpec => []WebTypeOK
<1>1. StopInv /\ [WebNext]_webVars => StopInv'
  BY AdmittedStays, AttendedStays, ToldStays DEF StopInv
<1>2. StopInv => Told
  BY DEF StopInv
<1>3. WebInit => Tokens
  BY InitTokens DEF TokensInv
<1>4. WebInit => HandlerTyped
  BY DEF WebInit, HandlerTyped
<1>5. HandlerTyped /\ [WebNext]_webVars => HandlerTyped'
  BY DEF HandlerTyped, WebNext, webVars, Listen, StopServer, SocketsGone, Closed, TicketExpires,
         Upgrade, Hangup, Arrive, Decline, Serve, Accept, IssueTicket
<1>6. HandlerTyped /\ Tokens /\ StopInv /\ TicketInv => WebTypeOK
  BY DEF HandlerTyped, Tokens, StopInv, Admitted, Attended, Told, TicketInv, WebTypeOK
<1> QED BY InitStop, InitTickets, <1>1, <1>2, <1>3, <1>4, <1>5, <1>6, TicketsStay, TokensStay,
           PTL DEF WebSpec

HIDE CalledAssumption
HIDE WebChatAssumption

-----------------------------------------------------------------------------
(* The edges side by side.                                                  *)

(* What the poller does, without what it must do in the end. *)
Polling == PollInit /\ [][PollNext]_pollVars

(* A step of the composed edges is a step of one of them and leaves the others
   alone, so what is proved of each carries over to the composition. *)
THEOREM EdgesAreApart == EdgesSpec => EffectsSpec /\ WebSpec /\ Polling /\ RateSpec /\ CronSpec
<1>1. EdgesInit => EffectsInit /\ WebInit /\ PollInit /\ RateInit /\ CronInit
  BY DEF EdgesInit
<1>2. [EdgesNext]_edgeVars => /\ [EffectsNext]_effectVars /\ [WebNext]_webVars /\ [PollNext]_pollVars
                              /\ [RateNext]_rateVars /\ [CronNext]_cronVars
  BY DEF EdgesNext, Alone, edgeVars, EffectsNext
<1> QED BY <1>1, <1>2, PTL DEF EdgesSpec, EffectsSpec, WebSpec, Polling, RateSpec, CronSpec

(* EdgesTypeOK: no pause is longer than its cap, no store of tickets or
   bucket fuller than it may be, no update given twice by one start. *)
THEOREM EdgeTypes == EdgesSpec => []EdgesTypeOK
<1>1. Polling => []PollTypeOK
  BY PollInitHolds, PollStepKeeps, BootInvInit, BootStepKeeps, PollInvTypes, PTL DEF Polling
<1>2. EffectsTypeOK /\ WebTypeOK /\ PollTypeOK /\ RateTypeOK /\ CronTypeOK => EdgesTypeOK
  BY DEF EdgesTypeOK
<1> QED BY <1>1, <1>2, EdgesAreApart, EffectTypes, WebTypes, RateTypeCorrect, CronTypes, PTL

(* What holds of each edge holds in the composition: the safety properties
   the run of MCEdges checks, and that the bucket keeps the rate. *)
THEOREM EdgesKeepTheirWord ==
  EdgesSpec => /\ [](/\ ReportsAreTrue /\ ToolsStayInBounds /\ TokensOpenTheirOwn
                     /\ StopLosesNothing /\ TimersFollowTasks /\ DroppedWasHandled)
               /\ TicketsOpenOneSocket /\ KeepsTheRate
<1>1. Polling => []DroppedWasHandled
  <2>1. PollInv => DroppedWasHandled
    BY DEF PollInv
  <2> QED BY PollInitHolds, PollStepKeeps, <2>1, PTL DEF Polling
<1> QED BY <1>1, EdgesAreApart, ReportsStayTrue, ToolsKeepInBounds, TokensOpen, StopLoses,
           TimersFollow, TicketsOpenOne, LazyKeepsTheRate, PTL
=============================================================================
