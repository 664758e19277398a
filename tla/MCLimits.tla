------------------------------ MODULE MCLimits ------------------------------
(***************************************************************************)
(* Instances of Limits: two instances of a batch and one of another, from  *)
(* one source to one target.                                               *)
(***************************************************************************)
EXTENDS Limits

CONSTANTS i1, i2, i3, b1, b2, s1, t1

TwoBatches == [i \in Instance |-> IF i = i3 THEN b2 ELSE b1]
OneSource == [i \in Instance |-> s1]
OneTarget == [i \in Instance |-> t1]

NoSourceLimit == [s \in Source |-> 0]
OneByOne == [t \in Target |-> 1]
TwoAtOnce == [t \in Target |-> 2]
OneSync == [b \in Batch |-> IF b = b1 THEN 1 ELSE 0]
=============================================================================
