---------------------------- MODULE MCMigration ----------------------------
(***************************************************************************)
(* Instances of Migration for TLC.                                         *)
(***************************************************************************)
EXTENDS MigrationProperties

CONSTANTS i1, i2, b1, b2, w1, w2

TwoWindows == [b \in Batch |-> [w \in {w1, w2} |->
    IF w = w1 THEN [start |-> 1, end |-> 4, lockout |-> 3, capacity |-> 0]
              ELSE [start |-> 5, end |-> 0, lockout |-> 0, capacity |-> 0]]]

LongWindow == [b \in Batch |-> [w \in {w1} |->
    [start |-> 0, end |-> 9, lockout |-> 0, capacity |-> 1]]]

ScarceWindows == [b \in Batch |-> [w \in {w1, w2} |->
    IF w = w1 THEN [start |-> 0, end |-> 3, lockout |-> 0, capacity |-> 1]
              ELSE [start |-> 3, end |-> 0, lockout |-> 0, capacity |-> 1]]]

AllAssigned == [b \in Batch |-> Instance]
NoLimit == [b \in Batch |-> 0]
OneAtATime == [b \in Batch |-> 1]
StoppedAfterwards == [i \in Instance |-> "stopped"]
NoOverride == [i \in Instance |-> "none"]
=============================================================================
