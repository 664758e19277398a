------------------------------ MODULE MCBatches ------------------------------
(***************************************************************************)
(* Small instances of Batches for TLC.                                     *)
(***************************************************************************)
EXTENDS Batches, TLC

CONSTANTS i1, i2, w1

W(start, end, capacity) ==
    [start |-> start, end |-> end, lockout |-> NoTime, capacity |-> capacity]

One(config) == [w \in WindowName |-> IF w = w1 THEN config ELSE NoWindow]

MCExpressions == {Instance, {i1}}

\* No window, one without an end that has a place for all or for one, and one
\* that ends.
MCSchedules == {One(NoWindow), One(W(1, 0, 0)), One(W(1, 0, 1)), One(W(1, 2, 0))}

JustOne == <<[expr |-> Instance, max |-> 1, boot |-> 0]>>
OneOrAny == {<<>>, JustOne}

Symmetry == Permutations(Batch)
=============================================================================
