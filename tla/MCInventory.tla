----------------------------- MODULE MCInventory -----------------------------
(***************************************************************************)
(* Instances of Inventory: two sources whose networks have different       *)
(* names, one of them with two networks and all the VMs at first, one of   *)
(* which may be off.                                                       *)
(***************************************************************************)
EXTENDS Inventory

CONSTANTS s1, s2, n1, n2, n3

OwnNetworks == [s \in Source |-> IF s = s1 THEN {n1, n2} ELSE {n3}]

At1(n, on) == [source |-> s1, net |-> n, ip |-> on]
SameSource == {[v \in VM |-> At1(n1, TRUE)],
               [v \in VM |-> IF v = 1 THEN At1(n1, TRUE) ELSE At1(n2, FALSE)]}
============================================================================
