------------------------------ MODULE Windows ------------------------------
(***************************************************************************)
(* Migration windows: the periods in which a source VM may be powered off. *)
(* A window is a record of times (natural numbers, the zero time.Time is   *)
(* NoTime) and a capacity (zero is unlimited).  One unit of time is at     *)
(* least a minute, the margin the code keeps to revert a migration.        *)
(***************************************************************************)
EXTENDS Naturals

NoTime == 0
RevertMargin == 1

WindowConfig == [start : Nat, end : Nat, lockout : Nat, capacity : Nat]

IsEmpty(w) == w.start = NoTime /\ w.end = NoTime /\ w.lockout = NoTime

Begun(w, now) == w.start = NoTime \/ w.start < now
Ended(w, now) == w.end # NoTime /\ w.end < now
Locked(w, now) == Ended(w, now) \/ (w.lockout # NoTime /\ w.lockout < now)

\* A zero end time is before every lockout time: a window without an end
\* that has a lockout is never valid.
Valid(w, now) ==
    /\ (w.start # NoTime /\ w.end # NoTime) => w.start <= w.end
    /\ ~Ended(w, now)
    /\ w.lockout # NoTime => w.start <= w.lockout /\ w.lockout <= w.end

FitsDuration(w, duration, now) ==
    /\ Valid(w, now)
    /\ ~Locked(w, now)
    /\ \/ w.end = NoTime
       \/ LET from == IF w.start < now THEN now ELSE w.start
          IN  from + duration + RevertMargin < w.end

(***************************************************************************)
(* The names of the windows GetEarliest may return among the windows       *)
(* `names' of the schedule `sched' (a function from names to windows): the *)
(* earliest one that fits, in the order the database listed equal starts.  *)
(***************************************************************************)
Earliest(sched, names, duration, now) ==
    LET fitting == {w \in names : FitsDuration(sched[w], duration, now)}
    IN  {w \in fitting : \A v \in fitting : sched[w].start <= sched[v].start}

HasValidWindow(sched, now) ==
    DOMAIN sched = {} \/ \E w \in DOMAIN sched : Valid(sched[w], now)
=============================================================================
