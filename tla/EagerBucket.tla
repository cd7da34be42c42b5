---------------------------- MODULE EagerBucket ----------------------------
(***************************************************************************)
(* What a rate limit promises: every key has a credit that grows with time *)
(* up to the capacity; a call is admitted exactly when the credit covers   *)
(* it, and a refused caller is told after how long one would be.           *)
(***************************************************************************)
EXTENDS Naturals

CONSTANTS Key, Capacity, Cost, Rate

VARIABLES credit, answer

eagerVars == <<credit, answer>>

Least(a, b) == IF a <= b THEN a ELSE b

(* Wait covers what is missing and no more. *)
WaitFor(have) == (Cost - have + Rate - 1) \div Rate

EagerInit ==
  /\ credit = [k \in Key |-> Capacity]
  /\ answer = [k \in Key |-> 0]

Grow ==
  /\ credit' = [k \in Key |-> Least(Capacity, credit[k] + Rate)]
  /\ UNCHANGED answer

Admit(k) ==
  /\ credit[k] >= Cost
  /\ credit' = [credit EXCEPT ![k] = @ - Cost]
  /\ answer' = [answer EXCEPT ![k] = 0]

Refuse(k) ==
  /\ credit[k] < Cost
  /\ answer' = [answer EXCEPT ![k] = WaitFor(credit[k])]
  /\ UNCHANGED credit

EagerNext == Grow \/ \E k \in Key : Admit(k) \/ Refuse(k)

EagerSpec == EagerInit /\ [][EagerNext]_eagerVars
=============================================================================
