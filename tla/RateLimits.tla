----------------------------- MODULE RateLimits -----------------------------
(***************************************************************************)
(* TokenBucket (packages/channel-base/src/rate_limit.ts), which the WebChat *)
(* endpoints ask before they do anything: a bucket is refilled only when   *)
(* it is used, and a periodic sweep forgets the buckets that are idle and  *)
(* full.  Tokens are counted in units, Cost of them to a token, so that    *)
(* Rate units come back in one tick of the clock, which does not step back.*)
(***************************************************************************)
EXTENDS Naturals

CONSTANTS Key,        \* user, or endpoint and user
          Capacity, Cost, Rate,
          IdleTicks,  \* rate_limit_prune_idle_ms
          MaxIdle     \* bound: how long a bucket is watched between two uses

ASSUME RateLimitsAssumption ==
  /\ {Capacity, Cost, Rate} \subseteq Nat \ {0} /\ Cost <= Capacity
  /\ {IdleTicks, MaxIdle} \subseteq Nat

VARIABLES bucket,   \* per key: what the state map holds
          wait      \* per key: the answer to its last call, 0 when admitted

rateVars == <<bucket, wait>>

Full == [known |-> FALSE, tokens |-> Capacity, idle |-> 0]

Bucket == [known : BOOLEAN, tokens : 0..Capacity, idle : 0..MaxIdle]

Least(a, b) == IF a <= b THEN a ELSE b

(* What is there when it is looked at. *)
Refilled(b) == Least(Capacity, b.tokens + b.idle * Rate)

RetryAfter(have) == (Cost - have + Rate - 1) \div Rate

RateInit ==
  /\ bucket = [k \in Key |-> Full]
  /\ wait = [k \in Key |-> 0]

TimePasses ==
  /\ \A k \in Key : bucket[k].idle < MaxIdle
  /\ bucket' = [k \in Key |-> IF bucket[k].known THEN [bucket[k] EXCEPT !.idle = @ + 1] ELSE Full]
  /\ UNCHANGED wait

Left(k, have) == bucket' = [bucket EXCEPT ![k] = [known |-> TRUE, tokens |-> have, idle |-> 0]]

Consume(k) ==
  LET have == Refilled(bucket[k])
  IN IF have >= Cost
       THEN /\ Left(k, have - Cost)
            /\ wait' = [wait EXCEPT ![k] = 0]
       ELSE /\ Left(k, have)
            /\ wait' = [wait EXCEPT ![k] = RetryAfter(have)]

(* Defective: whatever is idle is forgotten, full or not. *)
PrunableIdle(b) == b.known /\ b.idle >= IdleTicks

Prunable(b) == b.known /\ b.idle >= IdleTicks /\ Refilled(b) >= Capacity

Prune ==
  /\ bucket' = [k \in Key |-> IF Prunable(bucket[k]) THEN Full ELSE bucket[k]]
  /\ UNCHANGED wait

RateNext == TimePasses \/ Prune \/ \E k \in Key : Consume(k)

RateSpec == RateInit /\ [][RateNext]_rateVars

-----------------------------------------------------------------------------
RateTypeOK ==
  /\ bucket \in [Key -> Bucket]
  /\ wait \in [Key -> Nat]
  /\ \A k \in Key : ~bucket[k].known => bucket[k] = Full

(* The bucket that is refilled when it is used and forgotten when it is idle
   and full admits and refuses what the one refilled all the time would, and
   promises the same waits (rate_limit.ts:54, :115): neither the sweep nor a
   refused call gives anybody more than the rate. *)
Eager == INSTANCE EagerBucket
           WITH credit <- [k \in Key |-> Refilled(bucket[k])], answer <- wait

KeepsTheRate == Eager!EagerSpec
=============================================================================
