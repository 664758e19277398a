------------------------------ MODULE Cutover ------------------------------
(***************************************************************************)
(* What a migration promises the owner of a machine, with no queue, task   *)
(* or worker in sight: the machine runs at its source until it is shut     *)
(* down there, it may be copied while it is down, and it is handed over to *)
(* the target only with a finished copy, after which it never comes back.  *)
(***************************************************************************)
CONSTANT Machine

VARIABLES
    place,  \* where the machine is: "source", "down" or "target"
    copy    \* whether the target holds a finished copy of the machine

Place == {"source", "down", "target"}

CutoverTypeOK == place \in [Machine -> Place] /\ copy \in [Machine -> BOOLEAN]

CutoverInit == place \in [Machine -> {"source", "down"}] /\ copy = [m \in Machine |-> FALSE]

\* What one step may do to machine m: from the place and copy of before to
\* those of after.
ShutDown(p, c, q, d) == p = "source" /\ q = "down" /\ ~d
TakeCopy(p, c, q, d) == p = "down" /\ q = "down" /\ d
DropCopy(p, c, q, d) == p # "target" /\ q = p /\ ~d
RollBack(p, c, q, d) == p = "down" /\ q = "source" /\ ~d
HandOver(p, c, q, d) == p = "down" /\ q = "target" /\ c /\ d
Rest(p, c, q, d)     == q = p /\ d = c

Moves(p, c, q, d) ==
    \/ ShutDown(p, c, q, d) \/ TakeCopy(p, c, q, d) \/ DropCopy(p, c, q, d)
    \/ RollBack(p, c, q, d) \/ HandOver(p, c, q, d) \/ Rest(p, c, q, d)

CutoverNext ==
    /\ place' \in [Machine -> Place] /\ copy' \in [Machine -> BOOLEAN]
    /\ \A m \in Machine : Moves(place[m], copy[m], place'[m], copy'[m])

CutoverSpec == CutoverInit /\ [][CutoverNext]_<<place, copy>>
=============================================================================
