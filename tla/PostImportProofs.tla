-------------------------- MODULE PostImportProofs --------------------------
(***************************************************************************)
(* Proofs about PostImport, for any guests and any number of kills: the    *)
(* scripts of a task write where they are meant to, nothing that is left   *)
(* behind does harm, and what a dry run has let pass does not fail for the *)
(* guest's layout.                                                         *)
(*                                                                         *)
(* The first part is about the programs of the tasks: every part of one is *)
(* shown to have the properties that are asked of a program (Program,      *)
(* Fits, Flagged), which the concatenation of parts and the steps taken    *)
(* keep.  The second part is the inductive invariant Inv, with a lemma per *)
(* conjunct that every action preserves it.                                *)
(***************************************************************************)
EXTENDS PostImport, SequenceTheorems, FiniteSetTheorems, WellFoundedInduction, TLAPS

-----------------------------------------------------------------------------
(* What the programs look like *)

\* The steps of looking at the disks, and those of working on them.
LookOf(os) ==
    IF os = "windows" THEN {<<"found">>}
    ELSE {<<"enter">>, <<"leave">>, <<"found">>, <<"activate">>,
          <<"mount", "target", "root">>, <<"mount", "target", "extra">>}
         \cup (IF os = "linux" THEN {<<"fstab">>} ELSE {})
WorkOf(os) ==
    {<<"match">>, <<"ensure">>} \cup
    (IF os = "linux"
     THEN {<<"mount", "target", "root">>, <<"mount", "target/extra", "extra">>, <<"scripts">>}
     ELSE IF os = "windows"
     THEN {<<"mount", "drivers", "none">>, <<"unlock">>, <<"mount", "dislocker", "root">>,
           <<"mount", "win_main", "root">>, <<"mount", "win_recovery", "extra">>, <<"scripts">>}
     ELSE {<<"replace">>})
StepsOf(os) == LookOf(os) \cup {<<"clean">>, <<"clone">>} \cup WorkOf(os)

Within(t, s) == \E n \in 1 .. Len(t) : t[n] = s

\* What is mounted, read or unlocked is used by the next step: nothing else is
\* deferred before that.
Opens == {<<"mount", p, f>> : p \in Path, f \in FileSystem \cup {"none"}}
             \cup {<<"fstab">>, <<"unlock">>}
Follows == {<<"leave">>, <<"fstab">>, <<"unlock">>, <<"scripts">>,
            <<"mount", "target/extra", "extra">>, <<"mount", "dislocker", "root">>,
            <<"mount", "win_main", "root">>, <<"mount", "win_recovery", "extra">>}
Chain(t) == \A n \in 1 .. Len(t) : t[n] \in Opens => n < Len(t) /\ t[n + 1] \in Follows

\* The functions entered are left again: with l steps left, D[l] are entered.
Deeper(s, i, j) ==
    IF s = <<"enter">> THEN j = i + 1
    ELSE IF s = <<"leave">> THEN i = j + 1
    ELSE i = j /\ (s = <<"clean">> => i = 0)
Levels(t, D) == \A n \in 1 .. Len(t) : Deeper(t[n], D[Len(t) + 1 - n], D[Len(t) - n])
Nested(t, i, j) == \E D \in [Nat -> Nat] : D[Len(t)] = i /\ D[0] = j /\ Levels(t, D)

OnRoot(t) == \A n \in 2 .. Len(t) :
    t[n] = <<"mount", "target/extra", "extra">> => t[n - 1] = <<"mount", "target", "root">>
ClonesLast(t, os) == \A n \in 1 .. Len(t) : t[n] = <<"clone">> =>
    /\ n < Len(t) /\ t[n + 1] = <<"match">>
    /\ \A m \in n + 1 .. Len(t) : t[m] \in WorkOf(os)
    /\ \A m \in 1 .. n - 1 : t[m] \in LookOf(os) \cup {<<"clean">>}
WorksLast(t) == \A n \in 1 .. Len(t) : t[n] \in {<<"scripts">>, <<"replace">>} => n = Len(t)
CleansFirst(t) == \A n \in 1 .. Len(t) : t[n] = <<"clean">> => n = 1

MountStep(os, f) ==
    IF os = "linux"
    THEN IF f = "root" THEN <<"mount", "target", "root">>
         ELSE <<"mount", "target/extra", "extra">>
    ELSE IF f = "root" THEN <<"mount", "win_main", "root">>
         ELSE <<"mount", "win_recovery", "extra">>
Stays(t, g) == \A n \in 1 .. Len(t) : t[n] \in {<<"leave">>, <<"clean">>} =>
    \A f \in FileSystem : Has(g, f) =>
        \E m \in n + 1 .. Len(t) : t[m] = MountStep(g.os, f)

Program(t, g, c) ==
    /\ t \in Seq(StepsOf(g.os))
    /\ Chain(t) /\ OnRoot(t) /\ ClonesLast(t, g.os) /\ WorksLast(t)
    /\ \E i \in Nat : Nested(t, i, 0)
    /\ g.os # "fortigate" => CleansFirst(t) /\ Stays(t, g)
    /\ c = "post" => ~Within(t, <<"clone">>) /\ ~Within(t, <<"match">>)

-----------------------------------------------------------------------------
(* Sequences of steps *)

LEMMA Cat ==
    ASSUME NEW S, NEW a \in Seq(S), NEW b \in Seq(S)
    PROVE  /\ a \o b \in Seq(S) /\ Len(a) \in Nat /\ Len(b) \in Nat
           /\ Len(a \o b) = Len(a) + Len(b)
           /\ \A n \in 1 .. Len(a) : (a \o b)[n] = a[n]
           /\ \A n \in 1 .. Len(b) : (a \o b)[Len(a) + n] = b[n]
           /\ \A n \in 1 .. Len(a) + Len(b) :
                \/ n \in 1 .. Len(a) /\ (a \o b)[n] = a[n]
                \/ n - Len(a) \in 1 .. Len(b) /\ (a \o b)[n] = b[n - Len(a)]
<1>1. PICK la \in Nat, lb \in Nat : la = Len(a) /\ lb = Len(b) BY LenProperties
<1>2. /\ a \o b \in Seq(S) /\ Len(a \o b) = la + lb
      /\ \A n \in 1 .. la + lb : (a \o b)[n] = IF n <= la THEN a[n] ELSE b[n - la]
  BY <1>1, ConcatProperties
<1> DEFINE t == a \o b
<1>3. t \in Seq(S) /\ Len(t) = la + lb BY <1>2
<1>4. \A n \in 1 .. la + lb : t[n] = IF n <= la THEN a[n] ELSE b[n - la] BY <1>2
<1> HIDE DEF t
<1>5. \A n \in 1 .. la : t[n] = a[n] BY <1>4
<1>6. \A n \in 1 .. lb : t[la + n] = b[n]
  <2> TAKE n \in 1 .. lb
  <2>1. la + n \in 1 .. la + lb /\ ~(la + n <= la) /\ (la + n) - la = n OBVIOUS
  <2> QED BY <2>1, <1>4
<1>7. \A n \in 1 .. la + lb : \/ n \in 1 .. la /\ t[n] = a[n]
                              \/ n - la \in 1 .. lb /\ t[n] = b[n - la]
  BY <1>4
<1> QED BY <1>1, <1>3, <1>5, <1>6, <1>7 DEF t

LEMMA Shorter ==
    ASSUME NEW S, NEW t \in Seq(S), t # <<>>
    PROVE  /\ Len(t) \in Nat /\ Len(t) > 0 /\ Head(t) = t[1]
           /\ Tail(t) \in Seq(S) /\ Len(Tail(t)) = Len(t) - 1
           /\ \A n \in 1 .. Len(t) - 1 : Tail(t)[n] = t[n + 1] /\ n + 1 \in 2 .. Len(t)
           /\ \A n \in 2 .. Len(t) : Tail(t)[n - 1] = t[n] /\ n - 1 \in 1 .. Len(t) - 1
<1>1. PICK l \in Nat : l = Len(t) BY LenProperties
<1>2. l > 0 /\ Head(t) = t[1] BY <1>1, EmptySeq
<1>3. Tail(t) \in Seq(S) /\ Len(Tail(t)) = l - 1 BY <1>1, HeadTailProperties
<1>4. \A n \in 1 .. l - 1 : Tail(t)[n] = t[n + 1] /\ n + 1 \in 2 .. l
  BY <1>1, <1>3, HeadTailProperties
<1>5. \A n \in 2 .. l : Tail(t)[n - 1] = t[n] /\ n - 1 \in 1 .. l - 1
  <2> TAKE n \in 2 .. l
  <2>1. n - 1 \in 1 .. l - 1 /\ (n - 1) + 1 = n BY <1>2
  <2> QED BY <2>1, <1>4
<1> QED BY <1>1, <1>2, <1>3, <1>4, <1>5

LEMMA Glue ==
    ASSUME NEW A \in [Nat -> Nat], NEW B \in [Nat -> Nat], NEW m \in Nat, A[0] = B[m]
    PROVE  \E D \in [Nat -> Nat] : /\ \A l \in 0 .. m : D[l] = B[l]
                                   /\ \A l \in Nat : D[m + l] = A[l]
<1> DEFINE D == [l \in Nat |-> IF l <= m THEN B[l] ELSE A[l - m]]
<1>1. D \in [Nat -> Nat] OBVIOUS
<1>2. \A l \in 0 .. m : D[l] = B[l] OBVIOUS
<1>3. ASSUME NEW l \in Nat PROVE D[m + l] = A[l]
  <2>1. CASE l = 0 BY <2>1, <1>2
  <2>2. CASE l > 0
    <3>1. m + l \in Nat /\ ~(m + l <= m) /\ (m + l) - m = l BY <2>2
    <3> QED BY <3>1
  <2> QED BY <2>1, <2>2
<1> HIDE DEF D
<1> QED BY <1>1, <1>2, <1>3

LEMMA NestedCat ==
    ASSUME NEW S, NEW a \in Seq(S), NEW b \in Seq(S), NEW i, NEW j, NEW k,
           Nested(a, i, j), Nested(b, j, k)
    PROVE  Nested(a \o b, i, k)
<1>1. PICK A \in [Nat -> Nat] : A[Len(a)] = i /\ A[0] = j /\ Levels(a, A) BY DEF Nested
<1>2. PICK B \in [Nat -> Nat] : B[Len(b)] = j /\ B[0] = k /\ Levels(b, B) BY DEF Nested
<1> DEFINE t == a \o b
<1>3. /\ Len(a) \in Nat /\ Len(b) \in Nat /\ Len(t) = Len(a) + Len(b)
      /\ \A n \in 1 .. Len(t) : t[n] = IF n <= Len(a) THEN a[n] ELSE b[n - Len(a)]
  BY ConcatProperties, LenProperties
<1> HIDE DEF t
<1>4. PICK la \in Nat, lb \in Nat : la = Len(a) /\ lb = Len(b) BY <1>3
<1>5. PICK D \in [Nat -> Nat] : /\ \A l \in 0 .. lb : D[l] = B[l]
                                /\ \A l \in Nat : D[lb + l] = A[l]
  <2>1. A[0] = B[lb] BY <1>1, <1>2, <1>4
  <2> QED BY Glue, <2>1
<1>7. \A n \in 1 .. la + lb : t[n] = IF n <= la THEN a[n] ELSE b[n - la] BY <1>3, <1>4
<1>8. Len(t) = la + lb BY <1>3, <1>4
<1>9. D[Len(t)] = i /\ D[0] = k
  <2>1. D[lb + la] = A[la] /\ D[0] = B[0]
    <3>1. 0 \in 0 .. lb OBVIOUS
    <3>2. D[0] = B[0] BY <3>1, <1>5
    <3>3. D[lb + la] = A[la] BY <1>5
    <3> QED BY <3>2, <3>3
  <2>2. Len(t) = lb + la BY <1>8
  <2> QED BY <1>1, <1>2, <1>4, <2>1, <2>2
<1>10. Levels(t, D)
  <2> SUFFICES ASSUME NEW n \in 1 .. la + lb
               PROVE  Deeper(t[n], D[la + lb + 1 - n], D[la + lb - n])
    BY <1>8 DEF Levels
  <2>1. CASE n <= la
    <3>1. t[n] = a[n] BY <2>1, <1>7
    <3>2. D[la + lb + 1 - n] = A[la + 1 - n] /\ D[la + lb - n] = A[la - n]
      <4>1. la + 1 - n \in Nat /\ la - n \in Nat BY <2>1
      <4>2. lb + (la + 1 - n) = la + lb + 1 - n /\ lb + (la - n) = la + lb - n OBVIOUS
      <4> QED BY <4>1, <4>2, <1>5
    <3>3. Deeper(a[n], A[la + 1 - n], A[la - n]) BY <2>1, <1>1, <1>4 DEF Levels
    <3> QED BY <3>1, <3>2, <3>3
  <2>2. CASE n > la
    <3> DEFINE m == n - la
    <3>1. m \in 1 .. lb /\ la + lb + 1 - n = lb + 1 - m /\ la + lb - n = lb - m BY <2>2
    <3>2. t[n] = b[m] BY <2>2, <1>7
    <3> HIDE DEF m
    <3>3. Deeper(b[m], B[lb + 1 - m], B[lb - m]) BY <3>1, <1>2, <1>4 DEF Levels
    <3>4. lb + 1 - m \in 0 .. lb /\ lb - m \in 0 .. lb BY <3>1
    <3>5. D[lb + 1 - m] = B[lb + 1 - m] /\ D[lb - m] = B[lb - m] BY <3>4, <1>5
    <3> QED BY <3>1, <3>2, <3>3, <3>5
  <2> QED BY <2>1, <2>2
<1> QED BY <1>5, <1>9, <1>10 DEF Nested, t

LEMMA ChainCat ==
    ASSUME NEW S, NEW a \in Seq(S), NEW b \in Seq(S), Chain(a), Chain(b)
    PROVE  Chain(a \o b)
<1> DEFINE t == a \o b
<1>1. PICK la \in Nat, lb \in Nat : la = Len(a) /\ lb = Len(b) BY LenProperties
<1>2. /\ Len(t) = la + lb
      /\ \A n \in 1 .. la : t[n] = a[n]
      /\ \A n \in 1 .. lb : t[la + n] = b[n]
      /\ \A n \in 1 .. la + lb : \/ n \in 1 .. la /\ t[n] = a[n]
                                 \/ n - la \in 1 .. lb /\ t[n] = b[n - la]
  BY <1>1, Cat
<1> HIDE DEF t
<1> SUFFICES ASSUME NEW n \in 1 .. la + lb, t[n] \in Opens
             PROVE  n < la + lb /\ t[n + 1] \in Follows
  BY <1>2 DEF Chain, t
<1>3. CASE n \in 1 .. la /\ t[n] = a[n]
  <2>1. n < la /\ a[n + 1] \in Follows BY <1>1, <1>3 DEF Chain
  <2>2. n + 1 \in 1 .. la BY <2>1
  <2> QED BY <2>1, <2>2, <1>2
<1>4. CASE n - la \in 1 .. lb /\ t[n] = b[n - la]
  <2> DEFINE m == n - la
  <2>1. m < lb /\ b[m + 1] \in Follows BY <1>1, <1>4 DEF Chain
  <2>2. m + 1 \in 1 .. lb /\ la + (m + 1) = n + 1 BY <2>1, <1>4
  <2> QED BY <2>1, <2>2, <1>2
<1> QED BY <1>2, <1>3, <1>4

\* One step of a program leaves the rest of it.
LEMMA NestedTail ==
    ASSUME NEW S, NEW t \in Seq(S), t # <<>>, NEW i \in Nat, Nested(t, i, 0)
    PROVE  \E j \in Nat : Deeper(Head(t), i, j) /\ Nested(Tail(t), j, 0)
<1>1. PICK D \in [Nat -> Nat] : D[Len(t)] = i /\ D[0] = 0 /\ Levels(t, D) BY DEF Nested
<1>2. PICK l \in Nat : l = Len(t) /\ l > 0 /\ Head(t) = t[1] BY Shorter
<1> DEFINE u == Tail(t)
<1>3. Len(u) = l - 1 /\ \A n \in 1 .. l - 1 : u[n] = t[n + 1] BY <1>2, Shorter
<1> HIDE DEF u
<1>4. Deeper(t[1], D[l], D[l - 1])
  <2>1. 1 \in 1 .. l /\ l + 1 - 1 = l BY <1>2
  <2> QED BY <2>1, <1>1, <1>2 DEF Levels
<1>5. Levels(u, D)
  <2> SUFFICES ASSUME NEW n \in 1 .. l - 1
               PROVE  Deeper(u[n], D[(l - 1) + 1 - n], D[(l - 1) - n])
    BY <1>3 DEF Levels
  <2>1. n + 1 \in 1 .. l /\ l + 1 - (n + 1) = (l - 1) + 1 - n /\ l - (n + 1) = (l - 1) - n
    BY <1>2
  <2>2. Deeper(t[n + 1], D[l + 1 - (n + 1)], D[l - (n + 1)]) BY <2>1, <1>1, <1>2 DEF Levels
  <2> QED BY <2>1, <2>2, <1>3
<1>6. l - 1 \in Nat BY <1>2
<1>7. D[l - 1] \in Nat BY <1>6
<1>8. Nested(u, D[l - 1], 0) BY <1>1, <1>3, <1>5, <1>6 DEF Nested
<1> QED BY <1>1, <1>2, <1>4, <1>7, <1>8 DEF u

LEMMA NestedFlat ==
    ASSUME NEW t, Len(t) \in Nat, NEW i \in Nat,
           \A n \in 1 .. Len(t) : t[n] \notin {<<"enter">>, <<"leave">>}
                                    /\ (t[n] = <<"clean">> => i = 0)
    PROVE  Nested(t, i, i)
<1> DEFINE D == [l \in Nat |-> i]
<1>1. PICK l \in Nat : l = Len(t) OBVIOUS
<1>2. D \in [Nat -> Nat] /\ D[l] = i /\ D[0] = i OBVIOUS
<1>3. Levels(t, D)
  <2> SUFFICES ASSUME NEW n \in 1 .. l PROVE Deeper(t[n], D[l + 1 - n], D[l - n])
    BY <1>1 DEF Levels
  <2>1. l + 1 - n \in Nat /\ l - n \in Nat OBVIOUS
  <2>2. D[l + 1 - n] = i /\ D[l - n] = i BY <2>1
  <2> HIDE DEF D
  <2> QED BY <2>2, <1>1 DEF Deeper
<1> HIDE DEF D
<1> QED BY <1>1, <1>2, <1>3 DEF Nested

-----------------------------------------------------------------------------
(* The parts of the programs *)

\* A part of a program that looks at the disks, entered at depth i and left at j.
Part(t, K, i, j) == t \in Seq(K) /\ Chain(t) /\ Nested(t, i, j)

LEMMA PartCat ==
    ASSUME NEW K, NEW a, NEW b, NEW i, NEW j, NEW k, Part(a, K, i, j), Part(b, K, j, k)
    PROVE  Part(a \o b, K, i, k)
BY Cat, ChainCat, NestedCat DEF Part

LEMMA PartEmpty ==
    ASSUME NEW K, NEW i \in Nat PROVE Part(<<>>, K, i, i)
<1>1. <<>> \in Seq(K) /\ Len(<<>>) = 0 BY EmptySeq
<1> DEFINE t == <<>>
<1>2. Len(t) \in Nat /\ \A n \in 1 .. Len(t) : FALSE BY <1>1
<1> HIDE DEF t
<1>3. Nested(t, i, i) BY <1>2, NestedFlat
<1> QED BY <1>1, <1>3 DEF Part, Chain, t

LEMMA LookSteps ==
    ASSUME NEW os \in {"linux", "fortigate"}
    PROVE  /\ <<"enter">> \in LookOf(os) /\ <<"leave">> \in LookOf(os)
           /\ <<"found">> \in LookOf(os) /\ <<"activate">> \in LookOf(os)
           /\ <<"mount", "target", "root">> \in LookOf(os)
           /\ <<"mount", "target", "extra">> \in LookOf(os)
           /\ os = "linux" => <<"fstab">> \in LookOf(os)
BY DEF LookOf

LEMMA PartEnter ==
    ASSUME NEW os \in {"linux", "fortigate"}, NEW i \in Nat
    PROVE  Part(<<<<"enter">>>>, LookOf(os), i, i + 1)
<1> DEFINE t == <<<<"enter">>>>  D == [l \in Nat |-> IF l = 0 THEN i + 1 ELSE i]
<1>1. t \in Seq(LookOf(os)) BY LookSteps
<1>2. Chain(t) BY DEF Chain, Opens
<1>3. D \in [Nat -> Nat] /\ D[1] = i /\ D[0] = i + 1 OBVIOUS
<1>4. Len(t) = 1 /\ t[1] = <<"enter">> OBVIOUS
<1> HIDE DEF D, t
<1>5. Levels(t, D) BY <1>3, <1>4 DEF Levels, Deeper
<1> QED BY <1>1, <1>2, <1>3, <1>4, <1>5 DEF Part, Nested, t

LEMMA PartProbe ==
    ASSUME NEW os \in {"linux", "fortigate"}, NEW i \in Nat, NEW f \in FileSystem
    PROVE  Part(Probe(f), LookOf(os), i, i)
<1> DEFINE t == Probe(f)  D == [l \in Nat |-> IF l \in {1, 2} THEN i + 1 ELSE i]
<1>1. t \in Seq(LookOf(os)) BY LookSteps DEF Probe, FileSystem
<1>2. Chain(t) BY DEF Chain, Opens, Follows, Probe, FileSystem, Path
<1>3. D \in [Nat -> Nat] /\ D[3] = i /\ D[2] = i + 1 /\ D[1] = i + 1 /\ D[0] = i OBVIOUS
<1>4. Len(t) = 3 /\ t[1] = <<"enter">> /\ t[2] = <<"mount", "target", f>> /\ t[3] = <<"leave">>
  BY DEF Probe
<1> HIDE DEF D, t
<1>5. Levels(t, D)
  <2> SUFFICES ASSUME NEW n \in 1 .. 3 PROVE Deeper(t[n], D[4 - n], D[3 - n])
    BY <1>4 DEF Levels
  <2> QED BY <1>3, <1>4 DEF Deeper
<1> QED BY <1>1, <1>2, <1>3, <1>4, <1>5 DEF Part, Nested, t

LEMMA PartOne ==
    ASSUME NEW K, NEW i \in Nat, NEW s \in K, s \notin Opens,
           s \notin {<<"enter">>, <<"leave">>, <<"clean">>}
    PROVE  Part(<<s>>, K, i, i)
<1> DEFINE t == <<s>>
<1>1. t \in Seq(K) /\ Len(t) = 1 /\ t[1] = s OBVIOUS
<1> HIDE DEF t
<1>2. Chain(t) BY <1>1 DEF Chain
<1>3. /\ Len(t) \in Nat
      /\ \A n \in 1 .. Len(t) : t[n] \notin {<<"enter">>, <<"leave">>}
                                   /\ (t[n] = <<"clean">> => i = 0)
  BY <1>1
<1>4. Nested(t, i, i) BY <1>3, NestedFlat, Zenon
<1> QED BY <1>1, <1>2, <1>4 DEF Part, t

\* The last steps of a function that looks for something.
LEMMA PartLeave ==
    ASSUME NEW os \in {"linux", "fortigate"}, NEW i \in Nat, NEW t,
           \/ t = <<<<"found">>, <<"leave">>>>
           \/ t = <<<<"mount", "target", "root">>, <<"leave">>>>
           \/ t = <<<<"mount", "target", "root">>, <<"fstab">>, <<"leave">>>> /\ os = "linux"
    PROVE  Part(t, LookOf(os), i + 1, i)
<1> DEFINE D == [l \in Nat |-> IF l = 0 THEN i ELSE i + 1]
<1>1. t \in Seq(LookOf(os))
  <2>1. CASE t = <<<<"found">>, <<"leave">>>> BY <2>1, LookSteps
  <2>2. CASE t = <<<<"mount", "target", "root">>, <<"leave">>>> BY <2>2, LookSteps
  <2>3. CASE t = <<<<"mount", "target", "root">>, <<"fstab">>, <<"leave">>>> /\ os = "linux"
    BY <2>3, LookSteps
  <2> QED BY <2>1, <2>2, <2>3
<1>2. Chain(t) BY DEF Chain, Opens, Follows, FileSystem, Path
<1>3. D \in [Nat -> Nat] /\ D[3] = i + 1 /\ D[2] = i + 1 /\ D[1] = i + 1 /\ D[0] = i OBVIOUS
<1> HIDE DEF D
<1>4. Levels(t, D)
  <2>1. CASE t = <<<<"found">>, <<"leave">>>> BY <2>1, <1>3 DEF Levels, Deeper
  <2>2. CASE t = <<<<"mount", "target", "root">>, <<"leave">>>>
    BY <2>2, <1>3 DEF Levels, Deeper
  <2>3. CASE t = <<<<"mount", "target", "root">>, <<"fstab">>, <<"leave">>>>
    BY <2>3, <1>3 DEF Levels, Deeper
  <2> QED BY <2>1, <2>2, <2>3
<1>5. D[Len(t)] = i + 1 BY <1>3
<1> QED BY <1>1, <1>2, <1>3, <1>4, <1>5 DEF Part, Nested

LEMMA PartActivate ==
    ASSUME NEW os \in {"linux", "fortigate"}, NEW i \in Nat, NEW c \in BOOLEAN
    PROVE  Part(When(c, <<<<"activate">>>>), LookOf(os), i, i)
<1>1. Part(<<<<"activate">>>>, LookOf(os), i, i)
  <2>1. <<"activate">> \notin Opens BY DEF Opens
  <2> QED BY <2>1, LookSteps, PartOne
<1> QED BY <1>1, PartEmpty DEF When

LEMMA PartDetermine ==
    ASSUME NEW g \in GuestOS, g.os \in {"linux", "fortigate"}, NEW i \in Nat
    PROVE  Part(DetermineRootPartition(g), LookOf(g.os), i, i)
<1> DEFINE K == LookOf(g.os)
           a == When(InVG(g) # {}, <<<<"activate">>>>)
           b == When(g.extra = "lvm", Probe("extra"))
           c == When(g.root = "lvm", Probe("root"))
           d == When(g.root # "lvm" /\ g.extra = "plain", Probe("extra"))
           e == When(g.root = "plain", Probe("root"))
           l == <<<<"found">>, <<"leave">>>>
<1>1. i + 1 \in Nat /\ "extra" \in FileSystem /\ "root" \in FileSystem BY DEF FileSystem
<1>2. Part(<<<<"enter">>>>, K, i, i + 1) BY PartEnter
<1>3. Part(a, K, i + 1, i + 1) BY <1>1, PartActivate
<1>4. Part(b, K, i + 1, i + 1) BY <1>1, PartProbe, PartEmpty DEF When
<1>5. Part(c, K, i + 1, i + 1) BY <1>1, PartProbe, PartEmpty DEF When
<1>6. Part(d, K, i + 1, i + 1) BY <1>1, PartProbe, PartEmpty DEF When
<1>7. Part(e, K, i + 1, i + 1) BY <1>1, PartProbe, PartEmpty DEF When
<1>8. Part(l, K, i + 1, i) BY PartLeave
<1> HIDE DEF K, a, b, c, d, e, l
<1>9. Part(<<<<"enter">>>> \o a \o b \o c, K, i, i + 1) BY <1>2, <1>3, <1>4, <1>5, PartCat
<1>10. Part(<<<<"enter">>>> \o a \o b \o c \o d \o e \o l, K, i, i)
  BY <1>9, <1>6, <1>7, <1>8, PartCat
<1> QED BY <1>10 DEF DetermineRootPartition, K, a, b, c, d, e, l

LEMMA PartRequired ==
    ASSUME NEW g \in GuestOS, g.os = "linux"
    PROVE  Part(GetRequiredMounts(g), LookOf(g.os), 0, 0)
<1> DEFINE K == LookOf(g.os)
           r == DetermineRootPartition(g)
           a == When(InVG(g) # {}, <<<<"activate">>>>)
           l == <<<<"mount", "target", "root">>, <<"fstab">>, <<"leave">>>>
<1>1. Part(<<<<"enter">>>>, K, 0, 1) BY PartEnter
<1>2. Part(r, K, 1, 1) BY PartDetermine
<1>3. Part(a, K, 1, 1) BY PartActivate
<1>4. Part(l, K, 1, 0) BY PartLeave
<1> HIDE DEF K, r, a, l
<1>5. Part(<<<<"enter">>>> \o r \o a \o l, K, 0, 0) BY <1>1, <1>2, <1>3, <1>4, PartCat
<1> QED BY <1>5 DEF GetRequiredMounts, K, r, a, l

LEMMA PartVersion ==
    ASSUME NEW g \in GuestOS, g.os = "fortigate"
    PROVE  Part(DetermineFortigateVersion(g), LookOf(g.os), 0, 0)
<1> DEFINE K == LookOf(g.os)
           r == DetermineRootPartition(g)
           a == When(g.root = "lvm", <<<<"activate">>>>)
           l == <<<<"mount", "target", "root">>, <<"leave">>>>
<1>1. Part(<<<<"enter">>>>, K, 0, 1) BY PartEnter
<1>2. Part(r, K, 1, 1) BY PartDetermine
<1>3. Part(a, K, 1, 1) BY PartActivate
<1>4. Part(l, K, 1, 0) BY PartLeave
<1> HIDE DEF K, r, a, l
<1>5. Part(<<<<"enter">>>> \o r \o a \o l, K, 0, 0) BY <1>1, <1>2, <1>3, <1>4, PartCat
<1> QED BY <1>5 DEF DetermineFortigateVersion, K, r, a, l

-----------------------------------------------------------------------------
(* The whole programs: they look, and then they work *)

LookPart(t, os) ==
    /\ t \in Seq(LookOf(os) \cup {<<"clean">>})
    /\ Chain(t) /\ Nested(t, 0, 0)
    /\ os # "fortigate" => CleansFirst(t)

WorkPart(t, g) ==
    /\ t \in Seq({<<"clone">>} \cup WorkOf(g.os)) /\ t # <<>>
    /\ Chain(t) /\ OnRoot(t) /\ t[1] # <<"mount", "target/extra", "extra">>
    /\ \A n \in 1 .. Len(t) : t[n] = <<"clone">> => n = 1 /\ Len(t) > 1 /\ t[2] = <<"match">>
    /\ WorksLast(t)
    /\ g.os # "fortigate" => \A f \in FileSystem : Has(g, f) => Within(t, MountStep(g.os, f))

\* The last steps: the mounts and the scripts, or the boot partition's replacement.
LinuxWork(g) ==
    <<<<"mount", "target", "root">>>>
    \o When(g.extra # "none", <<<<"mount", "target/extra", "extra">>>>)
    \o <<<<"scripts">>>>
WindowsWork(g) ==
    <<<<"mount", "drivers", "none">>, <<"unlock">>>>
    \o When(g.bitlocker = "clearkey", <<<<"mount", "dislocker", "root">>>>)
    \o <<<<"mount", "win_main", "root">>>>
    \o When(g.extra # "none", <<<<"mount", "win_recovery", "extra">>>>)
    \o <<<<"scripts">>>>

LEMMA Snoc1 ==
    ASSUME NEW a, NEW b
    PROVE  <<a>> \o <<b>> = <<a, b>>
<1> DEFINE S == {a, b}  t == <<a>> \o <<b>>
<1>1. t \in Seq(S) /\ Len(t) = 2 /\ t[1] = a /\ t[2] = b
  OBVIOUS
<1> HIDE DEF t
<1>2. t = <<a, b>> BY <1>1
<1> QED BY <1>2 DEF t

LEMMA Snoc2 ==
    ASSUME NEW a, NEW b, NEW c
    PROVE  <<a, b>> \o <<c>> = <<a, b, c>>
<1> DEFINE S == {a, b, c}  t == <<a, b>> \o <<c>>
<1>1. t \in Seq(S) /\ Len(t) = 3 /\ t[1] = a /\ t[2] = b /\ t[3] = c
  OBVIOUS
<1> HIDE DEF t
<1>2. t = <<a, b, c>> BY <1>1
<1> QED BY <1>2 DEF t

LEMMA Snoc3 ==
    ASSUME NEW a, NEW b, NEW c, NEW d
    PROVE  <<a, b, c>> \o <<d>> = <<a, b, c, d>>
<1> DEFINE S == {a, b, c, d}  t == <<a, b, c>> \o <<d>>
<1>1. t \in Seq(S) /\ Len(t) = 4 /\ t[1] = a /\ t[2] = b /\ t[3] = c /\ t[4] = d
  OBVIOUS
<1> HIDE DEF t
<1>2. t = <<a, b, c, d>> BY <1>1
<1> QED BY <1>2 DEF t

LEMMA Snoc4 ==
    ASSUME NEW a, NEW b, NEW c, NEW d, NEW e
    PROVE  <<a, b, c, d>> \o <<e>> = <<a, b, c, d, e>>
<1> DEFINE S == {a, b, c, d, e}  t == <<a, b, c, d>> \o <<e>>
<1>1. t \in Seq(S) /\ Len(t) = 5 /\ t[1] = a /\ t[2] = b /\ t[3] = c /\ t[4] = d /\ t[5] = e
  OBVIOUS
<1> HIDE DEF t
<1>2. t = <<a, b, c, d, e>> BY <1>1
<1> QED BY <1>2 DEF t

LEMMA Snoc5 ==
    ASSUME NEW a, NEW b, NEW c, NEW d, NEW e, NEW f
    PROVE  <<a, b, c, d, e>> \o <<f>> = <<a, b, c, d, e, f>>
<1> DEFINE S == {a, b, c, d, e, f}  t == <<a, b, c, d, e>> \o <<f>>
<1>1. t \in Seq(S) /\ Len(t) = 6 /\ t[1] = a /\ t[2] = b /\ t[3] = c /\ t[4] = d /\ t[5] = e /\ t[6] = f
  OBVIOUS
<1> HIDE DEF t
<1>2. t = <<a, b, c, d, e, f>> BY <1>1
<1> QED BY <1>2 DEF t

LEMMA AddNone ==
    ASSUME NEW S, NEW t \in Seq(S) PROVE t \o <<>> = t /\ <<>> \o t = t
BY ConcatEmptySeq

\* The work of a guest's task, step by step.
LEMMA LinuxWorkIs ==
    ASSUME NEW g \in GuestOS
    PROVE  LinuxWork(g) =
               IF g.extra = "none" THEN <<<<"mount", "target", "root">>, <<"scripts">>>>
               ELSE <<<<"mount", "target", "root">>, <<"mount", "target/extra", "extra">>,
                      <<"scripts">>>>
<1> DEFINE m == <<"mount", "target", "root">>
           x == <<"mount", "target/extra", "extra">>
           s == <<"scripts">>
<1>1. <<m>> \in Seq({m}) OBVIOUS
<1>2. <<m>> \o <<>> = <<m>> BY <1>1, AddNone
<1>3. <<m>> \o <<s>> = <<m, s>> BY Snoc1
<1>4. <<m>> \o <<x>> = <<m, x>> BY Snoc1
<1>5. <<m, x>> \o <<s>> = <<m, x, s>> BY Snoc2
<1>6. LinuxWork(g) = (<<m>> \o When(g.extra # "none", <<x>>)) \o <<s>> BY DEF LinuxWork
<1>7. LinuxWork(g) = IF g.extra = "none" THEN <<m, s>> ELSE <<m, x, s>>
  <2> HIDE DEF m, x, s
  <2> QED BY <1>2, <1>3, <1>4, <1>5, <1>6 DEF When
<1> QED BY <1>7

LEMMA WindowsWorkIs ==
    ASSUME NEW g \in GuestOS
    PROVE  LET p == <<"mount", "drivers", "none">>
               u == <<"unlock">>
               q == <<"mount", "dislocker", "root">>
               m == <<"mount", "win_main", "root">>
               x == <<"mount", "win_recovery", "extra">>
               s == <<"scripts">>
           IN  WindowsWork(g) =
                   IF g.bitlocker = "clearkey"
                   THEN IF g.extra = "none" THEN <<p, u, q, m, s>> ELSE <<p, u, q, m, x, s>>
                   ELSE IF g.extra = "none" THEN <<p, u, m, s>> ELSE <<p, u, m, x, s>>
<1> DEFINE p == <<"mount", "drivers", "none">>
           u == <<"unlock">>
           q == <<"mount", "dislocker", "root">>
           m == <<"mount", "win_main", "root">>
           x == <<"mount", "win_recovery", "extra">>
           s == <<"scripts">>
<1>1. WindowsWork(g) =
        (((<<p, u>> \o When(g.bitlocker = "clearkey", <<q>>)) \o <<m>>)
           \o When(g.extra # "none", <<x>>)) \o <<s>>
  BY DEF WindowsWork
<1> SUFFICES WindowsWork(g) =
                   IF g.bitlocker = "clearkey"
                   THEN IF g.extra = "none" THEN <<p, u, q, m, s>> ELSE <<p, u, q, m, x, s>>
                   ELSE IF g.extra = "none" THEN <<p, u, m, s>> ELSE <<p, u, m, x, s>>
  OBVIOUS
<1> HIDE DEF p, u, q, m, x, s
<1>2. /\ <<p, u>> \o <<>> = <<p, u>>
      /\ <<p, u, m>> \o <<>> = <<p, u, m>>
      /\ <<p, u, q, m>> \o <<>> = <<p, u, q, m>>
  <2>1. /\ <<p, u>> \in Seq({p, u, q, m}) /\ <<p, u, m>> \in Seq({p, u, q, m})
        /\ <<p, u, q, m>> \in Seq({p, u, q, m})
    OBVIOUS
  <2> QED BY <2>1, AddNone
<1>3. /\ <<p, u>> \o <<q>> = <<p, u, q>> /\ <<p, u>> \o <<m>> = <<p, u, m>>
      /\ <<p, u, q>> \o <<m>> = <<p, u, q, m>>
      /\ <<p, u, m>> \o <<x>> = <<p, u, m, x>> /\ <<p, u, m>> \o <<s>> = <<p, u, m, s>>
      /\ <<p, u, m, x>> \o <<s>> = <<p, u, m, x, s>>
      /\ <<p, u, q, m>> \o <<x>> = <<p, u, q, m, x>>
      /\ <<p, u, q, m>> \o <<s>> = <<p, u, q, m, s>>
      /\ <<p, u, q, m, x>> \o <<s>> = <<p, u, q, m, x, s>>
  BY Snoc2, Snoc3, Snoc4, Snoc5
<1>4. CASE g.bitlocker = "clearkey" BY <1>1, <1>2, <1>3, <1>4 DEF When
<1>5. CASE g.bitlocker # "clearkey" BY <1>1, <1>2, <1>3, <1>5 DEF When
<1> QED BY <1>4, <1>5

\* Work on the disks themselves: no clones.
TailPart(t, g) ==
    /\ WorkPart(t, g)
    /\ \A n \in 1 .. Len(t) : t[n] \notin {<<"clone">>, <<"match">>}

LEMMA LinuxTail ==
    ASSUME NEW g \in GuestOS, g.os = "linux"
    PROVE  TailPart(LinuxWork(g), g)
<1> DEFINE m == <<"mount", "target", "root">>
           x == <<"mount", "target/extra", "extra">>
           s == <<"scripts">>
           t == LinuxWork(g)
<1>1. m \in WorkOf(g.os) /\ x \in WorkOf(g.os) /\ s \in WorkOf(g.os) BY DEF WorkOf
<1>2. m \in Opens /\ x \in Opens /\ s \notin Opens BY DEF Opens, Path, FileSystem
<1>3. x \in Follows /\ s \in Follows BY DEF Follows
<1>4. /\ m # x /\ s \notin {m, x, <<"replace">>, <<"clone">>, <<"match">>}
      /\ m \notin {<<"clone">>, <<"match">>, <<"scripts">>, <<"replace">>}
      /\ x \notin {<<"clone">>, <<"match">>, <<"scripts">>, <<"replace">>}
  OBVIOUS
<1>5. MountStep(g.os, "root") = m /\ MountStep(g.os, "extra") = x BY DEF MountStep
<1>6. \A f \in FileSystem : Has(g, f) => f = "root" \/ (f = "extra" /\ g.extra # "none")
  BY DEF Has, FileSystem
<1>7. CASE g.extra = "none"
  <2>1. t = <<m, s>> BY <1>7, LinuxWorkIs
  <2> HIDE DEF m, x, s, t
  <2>2. Len(t) = 2 /\ t[1] = m /\ t[2] = s /\ t # <<>> BY <2>1
  <2>3. t \in Seq({<<"clone">>} \cup WorkOf(g.os)) BY <2>1, <1>1
  <2>4. Chain(t) BY <2>2, <1>2, <1>3 DEF Chain
  <2>5. OnRoot(t) /\ WorksLast(t) BY <2>2, <1>4 DEF OnRoot, WorksLast, m, x, s
  <2>6. \A f \in FileSystem : Has(g, f) => Within(t, MountStep(g.os, f))
    BY <2>2, <1>5, <1>6, <1>7 DEF Within
  <2>7. \A n \in 1 .. Len(t) : t[n] \notin {<<"clone">>, <<"match">>} BY <2>2, <1>4
  <2>8. t[1] # <<"mount", "target/extra", "extra">> BY <2>2, <1>4 DEF x
  <2> QED BY <2>2, <2>3, <2>4, <2>5, <2>6, <2>7, <2>8 DEF TailPart, WorkPart, t
<1>8. CASE g.extra # "none"
  <2>1. t = <<m, x, s>> BY <1>8, LinuxWorkIs
  <2> HIDE DEF m, x, s, t
  <2>2. Len(t) = 3 /\ t[1] = m /\ t[2] = x /\ t[3] = s /\ t # <<>> BY <2>1
  <2>3. t \in Seq({<<"clone">>} \cup WorkOf(g.os)) BY <2>1, <1>1
  <2>4. Chain(t) BY <2>2, <1>2, <1>3 DEF Chain
  <2>5. OnRoot(t) /\ WorksLast(t) BY <2>2, <1>4 DEF OnRoot, WorksLast, m, x, s
  <2>6. \A f \in FileSystem : Has(g, f) => Within(t, MountStep(g.os, f))
    BY <2>2, <1>5, <1>6 DEF Within
  <2>7. \A n \in 1 .. Len(t) : t[n] \notin {<<"clone">>, <<"match">>} BY <2>2, <1>4
  <2>8. t[1] # <<"mount", "target/extra", "extra">> BY <2>2, <1>4 DEF x
  <2> QED BY <2>2, <2>3, <2>4, <2>5, <2>6, <2>7, <2>8 DEF TailPart, WorkPart, t
<1> QED BY <1>7, <1>8 DEF t

LEMMA WindowsTail ==
    ASSUME NEW g \in GuestOS, g.os = "windows"
    PROVE  TailPart(WindowsWork(g), g)
<1> DEFINE p == <<"mount", "drivers", "none">>
           u == <<"unlock">>
           q == <<"mount", "dislocker", "root">>
           m == <<"mount", "win_main", "root">>
           x == <<"mount", "win_recovery", "extra">>
           s == <<"scripts">>
           W == {p, u, q, m, x, s}
           t == WindowsWork(g)
<1>1. W \subseteq WorkOf(g.os) BY DEF WorkOf
<1>2. W \ {s} \subseteq Opens /\ s \notin Opens BY DEF Opens, Path, FileSystem
<1>3. W \ {p} \subseteq Follows BY DEF Follows
<1>4. /\ \A w \in W : w \notin {<<"clone">>, <<"match">>, <<"mount", "target/extra", "extra">>}
      /\ \A w \in W : w \in {<<"scripts">>, <<"replace">>} => w = s
      /\ s \notin {p, u, q, m, x} /\ p \notin {u, q, m, x, s}
  OBVIOUS
<1>5. MountStep(g.os, "root") = m /\ MountStep(g.os, "extra") = x BY DEF MountStep
<1>6. \A f \in FileSystem : Has(g, f) => f = "root" \/ (f = "extra" /\ g.extra # "none")
  BY DEF Has, FileSystem
<1>7. /\ t \in Seq(W) /\ Len(t) \in Nat /\ Len(t) > 1 /\ t[Len(t)] = s /\ t[1] = p
      /\ \A n \in 1 .. Len(t) - 1 : t[n] # s
      /\ \A n \in 2 .. Len(t) : t[n] # p
      /\ Within(t, m) /\ (g.extra # "none" => Within(t, x))
  <2>1. \/ g.extra = "none" /\ t = <<p, u, q, m, s>>
        \/ g.extra # "none" /\ t = <<p, u, q, m, x, s>>
        \/ g.extra = "none" /\ t = <<p, u, m, s>>
        \/ g.extra # "none" /\ t = <<p, u, m, x, s>>
    BY WindowsWorkIs
  <2> HIDE DEF p, u, q, m, x, s, t
  <2>2. CASE g.extra = "none" /\ t = <<p, u, q, m, s>>
    <3>1. Len(t) = 5 /\ t[1] = p /\ t[2] = u /\ t[3] = q /\ t[4] = m /\ t[5] = s BY <2>2
    <3>2. t \in Seq(W) BY <2>2
    <3> QED BY <3>1, <3>2, <2>2, <1>4 DEF Within
  <2>3. CASE g.extra # "none" /\ t = <<p, u, q, m, x, s>>
    <3>1. Len(t) = 6 /\ t[1] = p /\ t[2] = u /\ t[3] = q /\ t[4] = m /\ t[5] = x /\ t[6] = s
      BY <2>3
    <3>2. t \in Seq(W) BY <2>3
    <3> QED BY <3>1, <3>2, <2>3, <1>4 DEF Within
  <2>4. CASE g.extra = "none" /\ t = <<p, u, m, s>>
    <3>1. Len(t) = 4 /\ t[1] = p /\ t[2] = u /\ t[3] = m /\ t[4] = s BY <2>4
    <3>2. t \in Seq(W) BY <2>4
    <3> QED BY <3>1, <3>2, <2>4, <1>4 DEF Within
  <2>5. CASE g.extra # "none" /\ t = <<p, u, m, x, s>>
    <3>1. Len(t) = 5 /\ t[1] = p /\ t[2] = u /\ t[3] = m /\ t[4] = x /\ t[5] = s BY <2>5
    <3>2. t \in Seq(W) BY <2>5
    <3> QED BY <3>1, <3>2, <2>5, <1>4 DEF Within
  <2> QED BY <2>1, <2>2, <2>3, <2>4, <2>5
<1>8. \A n \in 1 .. Len(t) : t[n] \in W BY <1>7, ElementOfSeq
<1> HIDE DEF p, u, q, m, x, s, t, W
<1>9. t \in Seq({<<"clone">>} \cup WorkOf(g.os)) /\ t # <<>>
  <2>1. W \subseteq {<<"clone">>} \cup WorkOf(g.os) BY <1>1
  <2> QED BY <2>1, <1>7, SeqMonotonic, EmptySeq
<1>10. Chain(t)
  <2> SUFFICES ASSUME NEW n \in 1 .. Len(t), t[n] \in Opens
               PROVE  n < Len(t) /\ t[n + 1] \in Follows
    BY DEF Chain
  <2>1. n # Len(t) BY <1>2, <1>7
  <2>2. n + 1 \in 2 .. Len(t) /\ n + 1 \in 1 .. Len(t) BY <2>1, <1>7
  <2> QED BY <2>2, <1>3, <1>7, <1>8
<1>11. OnRoot(t)
  <2> SUFFICES ASSUME NEW n \in 2 .. Len(t) PROVE t[n] # <<"mount", "target/extra", "extra">>
    BY DEF OnRoot
  <2>1. n \in 1 .. Len(t) BY <1>7
  <2> QED BY <2>1, <1>4, <1>8
<1>12. WorksLast(t)
  <2> SUFFICES ASSUME NEW n \in 1 .. Len(t), t[n] \in {<<"scripts">>, <<"replace">>}
               PROVE  n = Len(t)
    BY DEF WorksLast
  <2>1. t[n] = s BY <1>4, <1>8
  <2> QED BY <2>1, <1>7
<1>13. \A f \in FileSystem : Has(g, f) => Within(t, MountStep(g.os, f)) BY <1>5, <1>6, <1>7
<1>14. \A n \in 1 .. Len(t) : t[n] \notin {<<"clone">>, <<"match">>} BY <1>4, <1>8
<1>15. t[1] # <<"mount", "target/extra", "extra">>
  <2>1. 1 \in 1 .. Len(t) BY <1>7
  <2> QED BY <2>1, <1>4, <1>8
<1> QED BY <1>9, <1>10, <1>11, <1>12, <1>13, <1>14, <1>15 DEF TailPart, WorkPart, t

LEMMA FortigateTail ==
    ASSUME NEW g \in GuestOS, g.os = "fortigate"
    PROVE  TailPart(<<<<"replace">>>>, g)
<1> DEFINE s == <<"replace">>  t == <<s>>
<1>1. t \in Seq({<<"clone">>} \cup WorkOf(g.os)) /\ t # <<>> /\ Len(t) = 1 /\ t[1] = s
  BY DEF WorkOf
<1>2. s \notin Opens /\ s \notin {<<"clone">>, <<"match">>, <<"mount", "target/extra", "extra">>}
  BY DEF Opens
<1> HIDE DEF s, t
<1> QED BY <1>1, <1>2 DEF TailPart, WorkPart, Chain, OnRoot, WorksLast, t, s

\* The work on clones begins with making them.
LEMMA CloneTail ==
    ASSUME NEW g \in GuestOS, NEW t, TailPart(t, g)
    PROVE  WorkPart(SetupDiskClone \o t, g)
<1> DEFINE S == {<<"clone">>} \cup WorkOf(g.os)
           k == <<"clone">>
           m == <<"match">>
           e == <<"ensure">>
           x == <<"mount", "target/extra", "extra">>
           c == SetupDiskClone
           w == c \o t
<1>1. c \in Seq(S) BY DEF SetupDiskClone, WorkOf
<1>2. Len(c) = 3 /\ c[1] = k /\ c[2] = m /\ c[3] = e BY DEF SetupDiskClone
<1>3. t \in Seq(S) /\ Chain(t) /\ Len(t) \in Nat BY LenProperties DEF TailPart, WorkPart
<1> DEFINE o == {<<"scripts">>, <<"replace">>, x}
<1>0. k \notin o /\ m \notin o /\ e \notin o /\ m # k /\ e # k OBVIOUS
<1> HIDE DEF S, c, k, m, e, x, o
<1>4. Chain(c)
  <2>1. k \notin Opens /\ m \notin Opens /\ e \notin Opens BY DEF Opens, k, m, e
  <2> QED BY <2>1, <1>2 DEF Chain
<1>5. PICK l \in Nat : l = Len(t) /\ l > 0 BY <1>3, EmptySeq DEF TailPart, WorkPart
<1>6. w \in Seq(S) /\ Chain(w) BY <1>1, <1>3, <1>4, Cat, ChainCat
<1>7. Len(w) = 3 + l
  <2>1. Len(w) = Len(c) + Len(t) BY <1>1, <1>3, Cat
  <2> QED BY <2>1, <1>2, <1>5
<1>8. w[1] = k /\ w[2] = m /\ w[3] = e
  <2>1. \A n \in 1 .. Len(c) : w[n] = c[n] BY <1>1, <1>3, Cat
  <2> HIDE DEF w
  <2> QED BY <2>1, <1>2
<1>9. \A n \in 1 .. l : w[3 + n] = t[n]
  <2>1. \A n \in 1 .. Len(t) : (c \o t)[Len(c) + n] = t[n] BY <1>1, <1>3, Cat
  <2> HIDE DEF w
  <2> QED BY <2>1, <1>2, <1>5 DEF w
<1> HIDE DEF w
<1>10. \A n \in 1 .. 3 + l : n \in 1 .. 3 \/ \E i \in 1 .. l : n = 3 + i /\ w[n] = t[i]
  <2> TAKE n \in 1 .. 3 + l
  <2>1. CASE n \in 1 .. 3 BY <2>1
  <2>2. CASE n \notin 1 .. 3
    <3>1. PICK i \in 1 .. l : n = 3 + i
      <4>1. n - 3 \in 1 .. l /\ n = 3 + (n - 3) BY <2>2
      <4> QED BY <4>1
    <3> QED BY <3>1, <1>9
  <2> QED BY <2>1, <2>2
<1>11. \A n \in 1 .. 3 : w[n] = k => n = 1 BY <1>0, <1>8
<1>12. \A n \in 1 .. 3 : w[n] \notin o BY <1>0, <1>8
<1>13. w # <<>>
  <2>1. Len(w) # 0 BY <1>7
  <2> QED BY <2>1, EmptySeq
<1>14. OnRoot(w)
  <2> SUFFICES ASSUME NEW n \in 2 .. 3 + l, w[n] = x
               PROVE  w[n - 1] = <<"mount", "target", "root">>
    BY <1>7 DEF OnRoot, x
  <2>1. n \notin 1 .. 3 BY <1>12 DEF o
  <2>2. PICK i \in 1 .. l : n = 3 + i /\ w[n] = t[i] BY <2>1, <1>10
  <2>3. i # 1 BY <2>2 DEF TailPart, WorkPart, x
  <2>4. i \in 2 .. Len(t) BY <2>2, <2>3, <1>5
  <2>5. t[i - 1] = <<"mount", "target", "root">> BY <2>2, <2>4 DEF TailPart, WorkPart, OnRoot, x
  <2>6. i - 1 \in 1 .. l /\ 3 + (i - 1) = n - 1 BY <2>2, <2>3
  <2>7. w[3 + (i - 1)] = t[i - 1] BY <2>6, <1>9
  <2> QED BY <2>5, <2>6, <2>7
<1>15. \A n \in 1 .. 3 + l : w[n] = k => n = 1
  <2> SUFFICES ASSUME NEW n \in 1 .. 3 + l, w[n] = k PROVE n = 1 OBVIOUS
  <2>1. \A i \in 1 .. l : t[i] # k BY <1>5 DEF TailPart, k
  <2>2. n \in 1 .. 3 BY <2>1, <1>10
  <2> QED BY <2>2, <1>11
<1>16. WorksLast(w)
  <2> SUFFICES ASSUME NEW n \in 1 .. 3 + l, w[n] \in {<<"scripts">>, <<"replace">>}
               PROVE  n = 3 + l
    BY <1>7 DEF WorksLast
  <2>1. n \notin 1 .. 3 BY <1>12 DEF o
  <2>2. PICK i \in 1 .. l : n = 3 + i /\ w[n] = t[i] BY <2>1, <1>10
  <2>3. i = l BY <2>2, <1>5 DEF TailPart, WorkPart, WorksLast
  <2> QED BY <2>2, <2>3
<1>17. ASSUME g.os # "fortigate", NEW f \in FileSystem, Has(g, f)
       PROVE  Within(w, MountStep(g.os, f))
  <2>1. PICK n \in 1 .. l : t[n] = MountStep(g.os, f)
    BY <1>5, <1>17 DEF TailPart, WorkPart, Within
  <2>2. 3 + n \in 1 .. 3 + l /\ w[3 + n] = MountStep(g.os, f) BY <2>1, <1>9
  <2> QED BY <2>2, <1>7 DEF Within
<1>18. w[1] # x /\ 3 + l > 1
  <2>1. 1 \in 1 .. 3 OBVIOUS
  <2> QED BY <2>1, <1>12 DEF o
<1> QED BY <1>6, <1>7, <1>8, <1>13, <1>14, <1>15, <1>16, <1>17, <1>18 
  DEF WorkPart, w, c, S, k, m, x

\* The steps of looking are none of those of work that matter here.
LEMMA Apart ==
    ASSUME NEW os \in {"linux", "windows", "fortigate"}
    PROVE  /\ \A s \in LookOf(os) \cup {<<"clean">>} :
                 s \notin {<<"clone">>, <<"match">>, <<"ensure">>, <<"scripts">>, <<"replace">>,
                           <<"mount", "target/extra", "extra">>}
           /\ \A s \in {<<"clone">>} \cup WorkOf(os) :
                 s \notin {<<"enter">>, <<"leave">>, <<"clean">>, <<"found">>, <<"activate">>}
           /\ <<"clean">> \notin LookOf(os)
<1>1. CASE os = "linux" BY <1>1 DEF LookOf, WorkOf
<1>2. CASE os = "windows" BY <1>2 DEF LookOf, WorkOf
<1>3. CASE os = "fortigate" BY <1>3 DEF LookOf, WorkOf
<1> QED BY <1>1, <1>2, <1>3

LEMMA Join ==
    ASSUME NEW g \in GuestOS, NEW a, NEW b, NEW c, LookPart(a, g.os), WorkPart(b, g),
           c = "post" => TailPart(b, g)
    PROVE  Program(a \o b, g, c)
<1> DEFINE os == g.os
           S == StepsOf(os)
           L == LookOf(os) \cup {<<"clean">>}
           W == {<<"clone">>} \cup WorkOf(os)
           k == <<"clone">>
           m == <<"match">>
           x == <<"mount", "target/extra", "extra">>
           e == {<<"leave">>, <<"clean">>}
           o == {<<"scripts">>, <<"replace">>}
           t == a \o b
<1>1. os \in {"linux", "windows", "fortigate"} BY DEF GuestOS
<1>2. /\ L \cap W \subseteq S /\ L \subseteq S /\ W \subseteq S
      /\ \A s \in L : s \notin {k, m, x} \cup o
      /\ \A s \in W : s \notin e
  BY <1>1, Apart DEF StepsOf
<1>3. a \in Seq(L) /\ Chain(a) /\ Nested(a, 0, 0) BY DEF LookPart
<1>4. b \in Seq(W) /\ Chain(b) BY DEF WorkPart
<1>5. a \in Seq(S) /\ b \in Seq(S)
  <2> HIDE DEF L, W, S
  <2> QED BY <1>2, <1>3, <1>4, SeqMonotonic
<1>6. PICK la \in Nat, lb \in Nat : la = Len(a) /\ lb = Len(b) /\ lb > 0
  BY <1>3, <1>4, LenProperties, EmptySeq DEF WorkPart
<1> HIDE DEF L, W, S
<1>7. (\A n \in 1 .. la : a[n] \in L) /\ (\A n \in 1 .. lb : b[n] \in W)
  BY <1>3, <1>4, <1>6, ElementOfSeq
<1>8. /\ t \in Seq(S) /\ Len(t) = la + lb
      /\ \A n \in 1 .. la : t[n] = a[n]
      /\ \A n \in 1 .. lb : t[la + n] = b[n]
  BY <1>5, <1>6, Cat
<1>9. Chain(t) BY <1>3, <1>4, <1>5, ChainCat
<1>10. Nested(t, 0, 0)
  <2>1. \A n \in 1 .. Len(b) : b[n] \notin {<<"enter">>, <<"leave">>}
                                  /\ (b[n] = <<"clean">> => 0 = 0)
    BY <1>6, <1>7, <1>1, Apart DEF W
  <2>2. 0 \in Nat /\ Len(b) \in Nat BY <1>6
  <2>3. Nested(b, 0, 0) BY <2>1, <2>2, NestedFlat
  <2> QED BY <1>3, <1>5, <2>3, NestedCat
<1> HIDE DEF t, k, m, x, e, o
<1>11. \A n \in 1 .. la + lb : n \in 1 .. la \/ \E i \in 1 .. lb : n = la + i
  <2> TAKE n \in 1 .. la + lb
  <2>1. CASE n \in 1 .. la BY <2>1
  <2>2. CASE n \notin 1 .. la
    <3>1. n - la \in 1 .. lb /\ n = la + (n - la) BY <2>2
    <3> QED BY <3>1
  <2> QED BY <2>1, <2>2
<1>12. OnRoot(t)
  <2> SUFFICES ASSUME NEW n \in 2 .. la + lb, t[n] = x
               PROVE  t[n - 1] = <<"mount", "target", "root">>
    BY <1>8 DEF OnRoot, x
  <2>1. n \notin 1 .. la BY <1>2, <1>7, <1>8
  <2>2. n \in 1 .. la + lb OBVIOUS
  <2>3. PICK i \in 1 .. lb : n = la + i BY <1>11, <2>1, <2>2
  <2>4. b[i] = x /\ i # 1 BY <2>3, <1>8 DEF WorkPart, x
  <2>5. i \in 2 .. Len(b) /\ i - 1 \in 1 .. lb /\ la + (i - 1) = n - 1 BY <2>3, <2>4, <1>6
  <2>6. b[i - 1] = <<"mount", "target", "root">> BY <2>4, <2>5 DEF WorkPart, OnRoot, x
  <2>7. t[la + (i - 1)] = b[i - 1] BY <2>5, <1>8
  <2> QED BY <2>5, <2>6, <2>7
<1>13. \A i \in 1 .. lb : b[i] = k => i = 1 /\ lb > 1 /\ b[2] = m
  BY <1>6 DEF WorkPart, k, m
<1>14. ClonesLast(t, os)
  <2> SUFFICES ASSUME NEW n \in 1 .. la + lb, t[n] = k
               PROVE  /\ n < la + lb /\ t[n + 1] = m
                      /\ \A j \in n + 1 .. la + lb : t[j] \in WorkOf(os)
                      /\ \A j \in 1 .. n - 1 : t[j] \in L
    BY <1>8 DEF ClonesLast, L, k, m
  <2>1. n \notin 1 .. la BY <1>2, <1>7, <1>8
  <2>2. PICK i \in 1 .. lb : n = la + i BY <1>11, <2>1
  <2>3. b[i] = k BY <2>2, <1>8
  <2>4. n = la + 1 /\ lb > 1 /\ b[2] = m BY <2>2, <2>3, <1>13
  <2>5. t[n + 1] = m
    <3>1. 2 \in 1 .. lb /\ la + 2 = n + 1 BY <2>4
    <3>2. t[la + 2] = b[2] BY <3>1, <1>8
    <3> QED BY <3>1, <3>2, <2>4
  <2>6. ASSUME NEW j \in n + 1 .. la + lb PROVE t[j] \in WorkOf(os)
    <3>1. j \in 1 .. la + lb /\ j \notin 1 .. la BY <2>4
    <3>2. PICK h \in 1 .. lb : j = la + h BY <3>1, <1>11
    <3>3. h # 1 BY <3>2, <2>4
    <3>4. b[h] # k /\ b[h] \in W BY <3>3, <1>13, <1>7
    <3>5. t[j] = b[h] BY <3>2, <1>8
    <3> QED BY <3>4, <3>5 DEF W, k
  <2>7. ASSUME NEW j \in 1 .. n - 1 PROVE t[j] \in L
    <3>1. j \in 1 .. la BY <2>4
    <3> QED BY <3>1, <1>7, <1>8
  <2> QED BY <2>4, <2>5, <2>6, <2>7
<1>15. WorksLast(t)
  <2> SUFFICES ASSUME NEW n \in 1 .. la + lb, t[n] \in o PROVE n = la + lb
    BY <1>8 DEF WorksLast, o
  <2>1. n \notin 1 .. la BY <1>2, <1>7, <1>8
  <2>2. PICK i \in 1 .. lb : n = la + i BY <1>11, <2>1
  <2>3. b[i] \in o BY <2>2, <1>8
  <2>4. i = lb BY <2>3, <1>6 DEF WorkPart, WorksLast, o
  <2> QED BY <2>2, <2>4
<1>16. ASSUME os # "fortigate" PROVE CleansFirst(t)
  <2> SUFFICES ASSUME NEW n \in 1 .. la + lb, t[n] = <<"clean">> PROVE n = 1
    BY <1>8 DEF CleansFirst
  <2>1. n \in 1 .. la
    <3> SUFFICES ASSUME n \notin 1 .. la PROVE FALSE OBVIOUS
    <3>1. PICK i \in 1 .. lb : n = la + i BY <1>11
    <3>2. b[i] = <<"clean">> BY <3>1, <1>8
    <3>3. b[i] \in e BY <3>2 DEF e
    <3> QED BY <3>3, <1>2, <1>7
  <2>2. CleansFirst(a) BY <1>16 DEF LookPart
  <2> QED BY <2>1, <2>2, <1>6, <1>8 DEF CleansFirst
<1>17. ASSUME os # "fortigate" PROVE Stays(t, g)
  <2> SUFFICES ASSUME NEW n \in 1 .. la + lb, t[n] \in e,
                      NEW f \in FileSystem, Has(g, f)
               PROVE  \E j \in n + 1 .. la + lb : t[j] = MountStep(g.os, f)
    BY <1>8 DEF Stays, e
  <2>1. n \in 1 .. la
    <3> SUFFICES ASSUME n \notin 1 .. la PROVE FALSE OBVIOUS
    <3>1. PICK i \in 1 .. lb : n = la + i BY <1>11
    <3>2. b[i] \in e BY <3>1, <1>8
    <3> QED BY <3>2, <1>2, <1>7
  <2>2. PICK i \in 1 .. lb : b[i] = MountStep(g.os, f)
    BY <1>17, <1>6 DEF WorkPart, Within
  <2>3. t[la + i] = MountStep(g.os, f) /\ la + i \in n + 1 .. la + lb BY <2>1, <2>2, <1>8
  <2> QED BY <2>3
<1>18. ASSUME c = "post" PROVE ~Within(t, k) /\ ~Within(t, m)
  <2> SUFFICES ASSUME NEW n \in 1 .. la + lb PROVE t[n] # k /\ t[n] # m
    BY <1>8 DEF Within
  <2>1. CASE n \in 1 .. la BY <2>1, <1>2, <1>7, <1>8
  <2>2. CASE n \notin 1 .. la
    <3>1. PICK i \in 1 .. lb : n = la + i BY <2>2, <1>11
    <3>2. b[i] # k /\ b[i] # m BY <1>18, <1>6 DEF TailPart, k, m
    <3> QED BY <3>1, <3>2, <1>8
  <2> QED BY <2>1, <2>2
<1>19. 0 \in Nat OBVIOUS
<1> QED BY <1>8, <1>9, <1>10, <1>12, <1>14, <1>15, <1>16, <1>17, <1>18, <1>19
        DEF Program, t, S, k, m

\* How a task begins and what it contains.
Begins(t, g, c) ==
    /\ t # <<>> /\ Within(t, <<"clean">>)
    /\ g.os # "fortigate" => t[1] = <<"clean">>
    /\ Within(t, IF g.os = "fortigate" THEN <<"replace">> ELSE <<"scripts">>)
    /\ c = "import" => Within(t, <<"clone">>)

LEMMA WithinCat ==
    ASSUME NEW S, NEW a \in Seq(S), NEW b \in Seq(S), NEW s
    PROVE  Within(a \o b, s) <=> Within(a, s) \/ Within(b, s)
<1> DEFINE t == a \o b
<1>1. PICK la \in Nat, lb \in Nat : la = Len(a) /\ lb = Len(b) BY LenProperties
<1>2. /\ Len(t) = la + lb
      /\ \A n \in 1 .. la : t[n] = a[n]
      /\ \A n \in 1 .. lb : t[la + n] = b[n]
  BY <1>1, Cat
<1> HIDE DEF t
<1>3. ASSUME NEW n \in 1 .. la + lb, t[n] = s PROVE Within(a, s) \/ Within(b, s)
  <2>1. CASE n \in 1 .. la BY <2>1, <1>1, <1>2, <1>3 DEF Within
  <2>2. CASE n \notin 1 .. la
    <3>1. n - la \in 1 .. lb /\ la + (n - la) = n BY <2>2
    <3>2. t[la + (n - la)] = b[n - la] BY <3>1, <1>2
    <3> QED BY <3>1, <3>2, <1>1, <1>3 DEF Within
  <2> QED BY <2>1, <2>2
<1>4. ASSUME NEW n \in 1 .. la, a[n] = s PROVE Within(t, s)
  <2>1. n \in 1 .. la + lb OBVIOUS
  <2> QED BY <2>1, <1>2, <1>4 DEF Within
<1>5. ASSUME NEW n \in 1 .. lb, b[n] = s PROVE Within(t, s)
  <2>1. la + n \in 1 .. la + lb OBVIOUS
  <2> QED BY <2>1, <1>2, <1>5 DEF Within
<1> QED BY <1>1, <1>2, <1>3, <1>4, <1>5 DEF Within, t

LEMMA BeginCat ==
    ASSUME NEW S, NEW a \in Seq(S), NEW b \in Seq(S), a # <<>>
    PROVE  a \o b # <<>> /\ (a \o b)[1] = a[1]
<1>1. PICK la \in Nat, lb \in Nat : la = Len(a) /\ lb = Len(b) BY LenProperties
<1>2. la > 0 BY <1>1, EmptySeq
<1>3. Len(a \o b) = la + lb /\ a \o b \in Seq(S) BY <1>1, Cat
<1>4. 1 \in 1 .. la BY <1>2
<1>5. (a \o b)[1] = a[1] BY <1>1, <1>4, Cat
<1>6. Len(a \o b) # 0 BY <1>2, <1>3
<1> QED BY <1>3, <1>5, <1>6, EmptySeq

\* A cleanup and what is looked at after it.
LEMMA LookClean ==
    ASSUME NEW os \in {"linux", "fortigate", "windows"}, NEW r, Part(r, LookOf(os), 0, 0)
    PROVE  LookPart(<<<<"clean">>>> \o r, os)
<1> DEFINE k == <<"clean">>
           a == <<k>>
           L == LookOf(os) \cup {k}
           t == a \o r
<1>1. a \in Seq(L) /\ Len(a) = 1 /\ a[1] = k OBVIOUS
<1>2. r \in Seq(LookOf(os)) /\ Chain(r) /\ Nested(r, 0, 0) BY DEF Part
<1>3. r \in Seq(L) BY <1>2, SeqMonotonic
<1>4. k \notin LookOf(os) /\ k \notin Opens /\ k \notin {<<"enter">>, <<"leave">>}
  <2>1. k \notin LookOf(os) BY Apart
  <2>2. k \notin Opens BY DEF Opens
  <2>3. k \notin {<<"enter">>, <<"leave">>} OBVIOUS
  <2> QED BY <2>1, <2>2, <2>3
<1>5. PICK l \in Nat : l = Len(r) BY <1>2, LenProperties
<1>6. \A n \in 1 .. l : r[n] \in LookOf(os) BY <1>2, <1>5, ElementOfSeq
<1> HIDE DEF k, a
<1>7. Chain(a) BY <1>1, <1>4 DEF Chain
<1>8. Nested(a, 0, 0)
  <2>1. \A n \in 1 .. Len(a) : a[n] \notin {<<"enter">>, <<"leave">>}
                                 /\ (a[n] = <<"clean">> => 0 = 0)
    BY <1>1, <1>4
  <2>2. 0 \in Nat /\ Len(a) \in Nat BY <1>1
  <2> QED BY <2>1, <2>2, NestedFlat
<1>9. t \in Seq(L) /\ Chain(t) /\ Nested(t, 0, 0)
  <2> HIDE DEF L
  <2> QED BY <1>1, <1>2, <1>3, <1>7, <1>8, Cat, ChainCat, NestedCat
<1>10. CleansFirst(t)
  <2>1. Len(t) = 1 + l
    <3>0. a \in Seq(L) /\ r \in Seq(L) BY <1>1, <1>3
    <3>1. Len(a \o r) = Len(a) + Len(r)
      <4> HIDE DEF L
      <4> QED BY <3>0, ConcatProperties
    <3> QED BY <3>1, <1>1, <1>5
  <2>2. \A n \in 1 .. l : t[1 + n] = r[n]
    <3>1. \A n \in 1 .. Len(r) : (a \o r)[Len(a) + n] = r[n] BY <1>1, <1>3, Cat
    <3>2. Len(a) = 1 BY <1>1
    <3> HIDE DEF t
    <3> QED BY <3>1, <3>2, <1>5 DEF t
  <2> HIDE DEF t
  <2> SUFFICES ASSUME NEW n \in 1 .. 1 + l, n # 1 PROVE t[n] # k
    BY <2>1 DEF CleansFirst, k
  <2>3. n - 1 \in 1 .. l /\ 1 + (n - 1) = n OBVIOUS
  <2>4. t[1 + (n - 1)] = r[n - 1] BY <2>2, <2>3
  <2> QED BY <2>3, <2>4, <1>4, <1>6
<1> QED BY <1>9, <1>10 DEF LookPart, t, a, k, L

\* A concatenation by name, so that its parts can be regrouped.
Then(a, b) == a \o b

LEMMA ThenIn ==
    ASSUME NEW S, NEW a \in Seq(S), NEW b \in Seq(S) PROVE Then(a, b) \in Seq(S)
BY ConcatProperties DEF Then

LEMMA ThenAssoc ==
    ASSUME NEW S, NEW a \in Seq(S), NEW b \in Seq(S), NEW c \in Seq(S)
    PROVE  Then(Then(a, b), c) = Then(a, Then(b, c))
BY ConcatAssociative DEF Then

LEMMA RegroupReal ==
    ASSUME NEW S, NEW k \in Seq(S), NEW d \in Seq(S), NEW v \in Seq(S), NEW m \in Seq(S),
           NEW w \in Seq(S), NEW s \in Seq(S)
    PROVE  Then(Then(Then(Then(Then(k, d), v), m), w), s)
             = Then(Then(k, Then(d, v)), Then(Then(m, w), s))
<1>1. Then(d, v) \in Seq(S) /\ Then(m, w) \in Seq(S) BY ThenIn
<1>2. Then(k, Then(d, v)) \in Seq(S) BY <1>1, ThenIn
<1>3. Then(Then(k, d), v) = Then(k, Then(d, v)) BY ThenAssoc
<1>4. Then(Then(Then(k, Then(d, v)), m), w) = Then(Then(k, Then(d, v)), Then(m, w))
  BY <1>2, ThenAssoc
<1>5. Then(Then(Then(k, Then(d, v)), Then(m, w)), s)
        = Then(Then(k, Then(d, v)), Then(Then(m, w), s))
  BY <1>1, <1>2, ThenAssoc
<1> QED BY <1>3, <1>4, <1>5

LEMMA RegroupClone ==
    ASSUME NEW S, NEW k \in Seq(S), NEW d \in Seq(S), NEW q \in Seq(S), NEW z \in Seq(S),
           NEW l \in Seq(S)
    PROVE  Then(Then(k, Then(d, Then(q, z))), l) = Then(Then(k, Then(d, q)), Then(z, l))
<1>4. Then(d, q) \in Seq(S) BY ThenIn
<1>5. Then(d, Then(q, z)) = Then(Then(d, q), z) BY ThenAssoc
<1>6. Then(k, Then(Then(d, q), z)) = Then(Then(k, Then(d, q)), z) BY <1>4, ThenAssoc
<1>7. Then(k, Then(d, q)) \in Seq(S) BY <1>4, ThenIn
<1>8. Then(Then(Then(k, Then(d, q)), z), l) = Then(Then(k, Then(d, q)), Then(z, l))
  BY <1>7, ThenAssoc
<1> QED BY <1>5, <1>6, <1>8

LEMMA LinuxSteps ==
    ASSUME NEW g \in GuestOS, g.os = "linux"
    PROVE  LET S == StepsOf(g.os)
           IN  /\ <<<<"clean">>>> \in Seq(S) /\ DetermineRootPartition(g) \in Seq(S)
               /\ GetRequiredMounts(g) \in Seq(S) /\ SetupDiskClone \in Seq(S)
               /\ When(g.root = "lvm", <<<<"activate">>>>) \in Seq(S)
               /\ <<<<"mount", "target", "root">>>> \in Seq(S)
               /\ When(g.extra # "none", <<<<"mount", "target/extra", "extra">>>>) \in Seq(S)
               /\ <<<<"scripts">>>> \in Seq(S)
<1> DEFINE S == StepsOf(g.os)
<1>1. LookOf(g.os) \subseteq S BY DEF StepsOf
<1>2. /\ DetermineRootPartition(g) \in Seq(LookOf(g.os))
      /\ GetRequiredMounts(g) \in Seq(LookOf(g.os))
      /\ When(g.root = "lvm", <<<<"activate">>>>) \in Seq(LookOf(g.os))
  BY PartDetermine, PartRequired, PartActivate DEF Part
<1> DEFINE k == <<"clean">>
           h == <<"clone">>
           i == <<"match">>
           j == <<"ensure">>
           m == <<"mount", "target", "root">>
           x == <<"mount", "target/extra", "extra">>
           s == <<"scripts">>
<1>3. k \in S /\ h \in S /\ i \in S /\ j \in S /\ m \in S /\ x \in S /\ s \in S
  BY DEF StepsOf, WorkOf
<1> HIDE DEF S, k, h, i, j, m, x, s
<1>4. /\ DetermineRootPartition(g) \in Seq(S) /\ GetRequiredMounts(g) \in Seq(S)
      /\ When(g.root = "lvm", <<<<"activate">>>>) \in Seq(S)
  BY <1>1, <1>2, SeqMonotonic
<1>5. /\ <<k>> \in Seq(S) /\ <<m>> \in Seq(S) /\ <<x>> \in Seq(S) /\ <<s>> \in Seq(S)
      /\ <<>> \in Seq(S) /\ <<h, i, j>> \in Seq(S)
  BY <1>3
<1>6. SetupDiskClone \in Seq(S) BY <1>5 DEF SetupDiskClone, h, i, j
<1>7. When(g.extra # "none", <<<<"mount", "target/extra", "extra">>>>) \in Seq(S)
  BY <1>5 DEF When, x
<1> QED BY <1>4, <1>5, <1>6, <1>7 DEF S, k, m, s

LEMMA LinuxTasks ==
    ASSUME NEW g \in GuestOS, g.os = "linux"
    PROVE  LET k == <<<<"clean">>>>
               d == DetermineRootPartition(g)
               v == When(g.root = "lvm", <<<<"activate">>>>)
               q == GetRequiredMounts(g)
           IN  /\ PostImportTasks(g, TRUE) = (k \o (d \o q)) \o (SetupDiskClone \o LinuxWork(g))
               /\ PostImportTasks(g, FALSE) = (k \o (d \o v)) \o LinuxWork(g)
<1> DEFINE k == <<<<"clean">>>>
           d == DetermineRootPartition(g)
           v == When(g.root = "lvm", <<<<"activate">>>>)
           q == GetRequiredMounts(g)
           z == SetupDiskClone
           m == <<<<"mount", "target", "root">>>>
           w == When(g.extra # "none", <<<<"mount", "target/extra", "extra">>>>)
           s == <<<<"scripts">>>>
           l == LinuxWork(g)
           t == PostImportTasks(g, TRUE)
           u == PostImportTasks(g, FALSE)
           S == StepsOf(g.os)
<1>1. /\ k \in Seq(S) /\ d \in Seq(S) /\ v \in Seq(S) /\ q \in Seq(S) /\ z \in Seq(S)
      /\ m \in Seq(S) /\ w \in Seq(S) /\ s \in Seq(S)
  BY LinuxSteps
<1>2. /\ t = ((((k \o d) \o (q \o z)) \o m) \o w) \o s
      /\ u = ((((k \o d) \o v) \o m) \o w) \o s
  BY DEF PostImportTasks, LinuxDoPostMigrationConfig
<1>3. l = (m \o w) \o s BY DEF LinuxWork
<1> HIDE DEF k, l, d, v, q, z, m, w, s, t, u, S
<1>4. l = Then(Then(m, w), s) /\ l \in Seq(S)
  <2>1. Then(m, w) \in Seq(S) BY <1>1, ThenIn
  <2>2. Then(Then(m, w), s) \in Seq(S) BY <1>1, <2>1, ThenIn
  <2> QED BY <1>3, <2>2 DEF Then
<1>5. t = (k \o (d \o q)) \o (z \o l)
  <2>1. t = Then(Then(Then(Then(Then(k, d), Then(q, z)), m), w), s) BY <1>2 DEF Then
  <2>2. t = Then(Then(k, Then(d, Then(q, z))), l)
    <3> DEFINE y == Then(q, z)
    <3>1. y \in Seq(S) BY <1>1, ThenIn
    <3>2. k \in Seq(S) /\ d \in Seq(S) /\ m \in Seq(S) /\ w \in Seq(S) /\ s \in Seq(S) BY <1>1
    <3> HIDE DEF y
    <3>3. Then(Then(Then(Then(Then(k, d), y), m), w), s)
            = Then(Then(k, Then(d, y)), Then(Then(m, w), s))
      BY <3>1, <3>2, RegroupReal
    <3> QED BY <2>1, <3>3, <1>4 DEF y
  <2>3. Then(Then(k, Then(d, Then(q, z))), l) = Then(Then(k, Then(d, q)), Then(z, l))
    <3>1. k \in Seq(S) /\ d \in Seq(S) /\ q \in Seq(S) /\ z \in Seq(S) /\ l \in Seq(S)
      BY <1>1, <1>4
    <3> QED BY <3>1, RegroupClone
  <2> QED BY <2>2, <2>3 DEF Then
<1>6. u = (k \o (d \o v)) \o l
  <2>1. u = Then(Then(Then(Then(Then(k, d), v), m), w), s) BY <1>2 DEF Then
  <2>2. /\ k \in Seq(S) /\ d \in Seq(S) /\ v \in Seq(S) /\ m \in Seq(S)
        /\ w \in Seq(S) /\ s \in Seq(S)
    BY <1>1
  <2>3. Then(Then(Then(Then(Then(k, d), v), m), w), s)
          = Then(Then(k, Then(d, v)), Then(Then(m, w), s))
    BY <2>2, RegroupReal
  <2>4. u = Then(Then(k, Then(d, v)), l) BY <2>1, <2>3, <1>4
  <2> QED BY <2>4 DEF Then
<1> QED BY <1>5, <1>6 DEF k, l, d, v, q, z, t, u

LEMMA BeginsWith ==
    ASSUME NEW g \in GuestOS, NEW r, NEW b, NEW c,
           r \in Seq(StepsOf(g.os)), b \in Seq(StepsOf(g.os)),
           Within(b, IF g.os = "fortigate" THEN <<"replace">> ELSE <<"scripts">>),
           c = "import" => Within(b, <<"clone">>)
    PROVE  Begins((<<<<"clean">>>> \o r) \o b, g, c)
<1> DEFINE S == StepsOf(g.os)
           a == <<<<"clean">>>>
<1>1. a \in Seq(S) /\ a # <<>> /\ a[1] = <<"clean">> BY DEF StepsOf
<1>2. Within(a, <<"clean">>) BY <1>1 DEF Within
<1> HIDE DEF S, a
<1>3. r \in Seq(S) /\ b \in Seq(S) BY DEF S
<1>4. /\ a \o r \in Seq(S) /\ a \o r # <<>> /\ (a \o r)[1] = <<"clean">>
      /\ Within(a \o r, <<"clean">>)
  BY <1>1, <1>2, <1>3, Cat, BeginCat, WithinCat
<1>5. /\ (a \o r) \o b # <<>> /\ ((a \o r) \o b)[1] = <<"clean">>
      /\ Within((a \o r) \o b, <<"clean">>)
  BY <1>3, <1>4, BeginCat, WithinCat
<1>6. \A s : Within(b, s) => Within((a \o r) \o b, s) BY <1>3, <1>4, WithinCat
<1> QED BY <1>5, <1>6 DEF Begins, a

LEMMA LinuxPrograms ==
    ASSUME NEW g \in GuestOS, g.os = "linux", NEW c \in {"import", "post"}
    PROVE  LET t == PostImportTasks(g, c = "import")
           IN  Program(t, g, c) /\ Begins(t, g, c)
<1> DEFINE k == <<<<"clean">>>>
           d == DetermineRootPartition(g)
           v == When(g.root = "lvm", <<<<"activate">>>>)
           q == GetRequiredMounts(g)
           z == SetupDiskClone
           l == LinuxWork(g)
           t == PostImportTasks(g, c = "import")
           S == StepsOf(g.os)
<1>1. k \in Seq(S) /\ d \in Seq(S) /\ v \in Seq(S) /\ q \in Seq(S) /\ z \in Seq(S)
  BY LinuxSteps
<1>2. /\ c = "import" => t = (k \o (d \o q)) \o (z \o l)
      /\ c = "post" => t = (k \o (d \o v)) \o l
  <2>1. CASE c = "import"
    <3>1. (c = "import") = TRUE BY <2>1
    <3> QED BY <2>1, <3>1, LinuxTasks
  <2>2. CASE c = "post"
    <3>1. (c = "import") = FALSE BY <2>2
    <3> QED BY <2>2, <3>1, LinuxTasks
  <2> QED BY <2>1, <2>2
<1>3. l \in Seq(S) /\ Within(l, <<"scripts">>)
  <2> DEFINE m == <<<<"mount", "target", "root">>>>
             w == When(g.extra # "none", <<<<"mount", "target/extra", "extra">>>>)
             s == <<<<"scripts">>>>
  <2>1. m \in Seq(S) /\ w \in Seq(S) /\ s \in Seq(S) BY LinuxSteps
  <2>2. l = (m \o w) \o s BY DEF LinuxWork
  <2>3. Within(s, <<"scripts">>) BY DEF Within
  <2> HIDE DEF m, w, s, l, S
  <2>4. m \o w \in Seq(S) BY <2>1, ConcatProperties
  <2> QED BY <2>1, <2>2, <2>3, <2>4, ConcatProperties, WithinCat
<1>4. Within(z, <<"clone">>)
  <2>1. Len(z) = 3 /\ z[1] = <<"clone">> BY DEF SetupDiskClone
  <2> HIDE DEF z
  <2> QED BY <2>1 DEF Within
<1>6. Part(d, LookOf(g.os), 0, 0) /\ Part(v, LookOf(g.os), 0, 0) /\ Part(q, LookOf(g.os), 0, 0)
  BY PartDetermine, PartActivate, PartRequired
<1>7. TailPart(l, g) BY LinuxTail
<1> HIDE DEF k, l, d, v, q, z, t, S
<1>10. CASE c = "import"
  <2>2. LookPart(k \o (d \o q), g.os) BY <1>6, PartCat, LookClean DEF k
  <2>3. WorkPart(z \o l, g) BY <1>7, CloneTail DEF z
  <2>4. Program(t, g, c) BY <1>2, <2>2, <2>3, <1>10, Join
  <2>5. d \o q \in Seq(S) /\ z \o l \in Seq(S) BY <1>1, <1>3, ConcatProperties
  <2>6. Within(z \o l, <<"scripts">>) /\ Within(z \o l, <<"clone">>)
    BY <1>1, <1>3, <1>4, WithinCat
  <2>7. Begins(t, g, c) BY <1>2, <1>10, <2>5, <2>6, BeginsWith DEF S, k
  <2> QED BY <2>4, <2>7 DEF t
<1>11. CASE c = "post"
  <2>2. LookPart(k \o (d \o v), g.os) BY <1>6, PartCat, LookClean DEF k
  <2>3. WorkPart(l, g) BY <1>7 DEF TailPart
  <2>4. Program(t, g, c) BY <1>2, <1>11, <2>2, <2>3, <1>7, Join
  <2>5. d \o v \in Seq(S) BY <1>1, ConcatProperties
  <2>6. Begins(t, g, c) BY <1>2, <1>3, <1>11, <2>5, BeginsWith DEF S, k
  <2> QED BY <2>4, <2>6 DEF t
<1> QED BY <1>10, <1>11

LEMMA PushOne ==
    ASSUME NEW S, NEW a \in Seq(S), NEW b \in Seq(S), NEW c \in Seq(S)
    PROVE  Then(Then(a, b), c) = Then(a, Then(b, c)) /\ Then(b, c) \in Seq(S)
BY ThenAssoc, ThenIn

LEMMA RegroupWindows ==
    ASSUME NEW S, NEW a \in Seq(S), NEW p \in Seq(S), NEW q \in Seq(S), NEW m \in Seq(S),
           NEW x \in Seq(S), NEW s \in Seq(S)
    PROVE  Then(Then(Then(Then(Then(a, p), q), m), x), s)
             = Then(a, Then(Then(Then(Then(p, q), m), x), s))
<1>1. Then(Then(a, p), q) = Then(a, Then(p, q)) /\ Then(p, q) \in Seq(S) BY PushOne
<1> DEFINE i == Then(p, q)
           j == Then(i, m)
           k == Then(j, x)
<1> HIDE DEF i, j, k
<1>2. i \in Seq(S) BY <1>1 DEF i
<1>3. Then(Then(a, i), m) = Then(a, j) /\ j \in Seq(S) BY <1>2, PushOne DEF j
<1>4. Then(Then(a, j), x) = Then(a, k) /\ k \in Seq(S) BY <1>3, PushOne DEF k
<1>5. Then(Then(a, k), s) = Then(a, Then(k, s)) BY <1>4, PushOne
<1> QED BY <1>1, <1>3, <1>4, <1>5 DEF i, j, k

LEMMA WindowsTasks ==
    ASSUME NEW g \in GuestOS, g.os = "windows", NEW c \in {"import", "post"}
    PROVE  LET S == StepsOf(g.os)
               y == When(c = "import", SetupDiskClone)
               l == WindowsWork(g)
           IN  /\ PostImportTasks(g, c = "import")
                     = (<<<<"clean">>>> \o <<<<"found">>>>) \o (y \o l)
               /\ <<<<"clean">>>> \in Seq(S) /\ <<<<"found">>>> \in Seq(S) /\ y \in Seq(S)
               /\ SetupDiskClone \in Seq(S) /\ l \in Seq(S) /\ Within(l, <<"scripts">>)
<1> DEFINE k == <<<<"clean">>>>
           r == <<<<"found">>>>
           z == SetupDiskClone
           p == <<<<"mount", "drivers", "none">>, <<"unlock">>>>
           q == When(g.bitlocker = "clearkey", <<<<"mount", "dislocker", "root">>>>)
           m == <<<<"mount", "win_main", "root">>>>
           x == When(g.extra # "none", <<<<"mount", "win_recovery", "extra">>>>)
           s == <<<<"scripts">>>>
           l == WindowsWork(g)
           y == When(c = "import", z)
           t == PostImportTasks(g, c = "import")
           S == StepsOf(g.os)
<1>1. <<<<"clean">>, <<"found">>>> = k \o r BY Snoc1
<1>2. t = (((((k \o r) \o y) \o p) \o q) \o m) \o x \o s
  BY <1>1 DEF PostImportTasks, WindowsInjectDrivers
<1>3. l = (((p \o q) \o m) \o x) \o s BY DEF WindowsWork
<1>4. /\ k \in Seq(S) /\ r \in Seq(S)
  BY DEF StepsOf, LookOf
<1>5. /\ p \in Seq(S) /\ m \in Seq(S) /\ s \in Seq(S)
  BY DEF StepsOf, WorkOf
<1>6. q \in Seq(S) /\ x \in Seq(S)
  <2> DEFINE h == <<"mount", "dislocker", "root">>
             i == <<"mount", "win_recovery", "extra">>
  <2>1. h \in S /\ i \in S BY DEF StepsOf, WorkOf
  <2> HIDE DEF h, i, S
  <2>2. <<h>> \in Seq(S) /\ <<i>> \in Seq(S) /\ <<>> \in Seq(S) BY <2>1
  <2>3. q = When(g.bitlocker = "clearkey", <<h>>) /\ x = When(g.extra # "none", <<i>>)
    BY DEF h, i
  <2> HIDE DEF q, x
  <2> QED BY <2>2, <2>3 DEF When
<1>7. z \in Seq(S)
  <2> DEFINE h == <<"clone">>
             i == <<"match">>
             j == <<"ensure">>
  <2>1. h \in S /\ i \in S /\ j \in S BY DEF StepsOf, WorkOf
  <2>2. z = <<h, i, j>> BY DEF SetupDiskClone
  <2> HIDE DEF h, i, j, S, z
  <2> QED BY <2>1, <2>2
<1>8. y \in Seq(S)
  <2>1. <<>> \in Seq(S) OBVIOUS
  <2> HIDE DEF z, S
  <2> QED BY <2>1, <1>7 DEF When
<1>9. Within(s, <<"scripts">>) BY DEF Within
<1> HIDE DEF k, r, z, p, q, m, x, s, l, y, t, S
<1>13. /\ l = Then(Then(Then(Then(p, q), m), x), s)
       /\ t = Then(Then(Then(Then(Then(Then(Then(k, r), y), p), q), m), x), s)
  BY <1>2, <1>3 DEF Then
<1>14. Then(Then(Then(p, q), m), x) \in Seq(S)
  <2>1. Then(p, q) \in Seq(S) BY <1>5, <1>6, ThenIn
  <2>2. Then(Then(p, q), m) \in Seq(S) BY <1>5, <2>1, ThenIn
  <2> QED BY <1>6, <2>2, ThenIn
<1>15. l \in Seq(S) /\ Within(l, <<"scripts">>)
  <2> DEFINE i == Then(Then(Then(p, q), m), x)
  <2>1. l = i \o s BY <1>13 DEF Then
  <2>2. i \in Seq(S) BY <1>14
  <2> HIDE DEF i
  <2> QED BY <2>1, <2>2, <1>5, <1>9, ConcatProperties, WithinCat
<1>16. t = (k \o r) \o (y \o l)
  <2>1. Then(k, r) \in Seq(S) BY <1>4, ThenIn
  <2>2. Then(Then(k, r), y) \in Seq(S) BY <2>1, <1>8, ThenIn
  <2>3. t = Then(Then(Then(k, r), y), l)
    <3> DEFINE a == Then(Then(k, r), y)
    <3>1. a \in Seq(S) BY <2>2
    <3> HIDE DEF a
    <3>2. Then(Then(Then(Then(Then(a, p), q), m), x), s) = Then(a, l)
      BY <3>1, <1>5, <1>6, <1>13, RegroupWindows
    <3> QED BY <3>2, <1>13 DEF a
  <2>4. Then(Then(Then(k, r), y), l) = Then(Then(k, r), Then(y, l))
    BY <2>1, <1>8, <1>15, ThenAssoc
  <2> QED BY <2>3, <2>4 DEF Then
<1> QED BY <1>4, <1>7, <1>8, <1>15, <1>16 DEF k, r, z, l, y, t, S

LEMMA WindowsPrograms ==
    ASSUME NEW g \in GuestOS, g.os = "windows", NEW c \in {"import", "post"}
    PROVE  LET t == PostImportTasks(g, c = "import")
           IN  Program(t, g, c) /\ Begins(t, g, c)
<1> DEFINE k == <<<<"clean">>>>
           r == <<<<"found">>>>
           z == SetupDiskClone
           l == WindowsWork(g)
           y == When(c = "import", z)
           t == PostImportTasks(g, c = "import")
           S == StepsOf(g.os)
<1>8. k \in Seq(S) /\ r \in Seq(S) /\ y \in Seq(S) /\ z \in Seq(S) BY WindowsTasks
<1>15. l \in Seq(S) /\ Within(l, <<"scripts">>) BY WindowsTasks
<1>16. t = (k \o r) \o (y \o l) BY WindowsTasks
<1>10. Within(z, <<"clone">>)
  <2>1. Len(z) = 3 /\ z[1] = <<"clone">> BY DEF SetupDiskClone
  <2> HIDE DEF z
  <2> QED BY <2>1 DEF Within
<1>11. LookPart(k \o r, g.os)
  <2>1. <<"found">> \in LookOf(g.os) BY DEF LookOf
  <2>2. <<"found">> \notin Opens BY DEF Opens
  <2>3. 0 \in Nat /\ <<"found">> \notin {<<"enter">>, <<"leave">>, <<"clean">>} OBVIOUS
  <2>4. Part(r, LookOf(g.os), 0, 0) BY <2>1, <2>2, <2>3, PartOne
  <2> QED BY <2>4, LookClean
<1>12. TailPart(l, g) BY WindowsTail
<1> HIDE DEF k, r, z, l, y, t, S
<1>17. y \o l \in Seq(S) /\ Within(y \o l, <<"scripts">>)
         /\ (Within(y, <<"clone">>) => Within(y \o l, <<"clone">>))
  BY <1>8, <1>15, ConcatProperties, WithinCat
<1>18. c = "import" => y = z BY DEF y, When
<1>19. c = "post" => y \o l = l
  <2>1. c = "post" => y = <<>> BY DEF y, When
  <2> QED BY <2>1, <1>15, AddNone
<1>20. WorkPart(y \o l, g)
  <2>1. CASE c = "import" BY <2>1, <1>12, <1>18, CloneTail DEF z
  <2>2. CASE c = "post" BY <2>2, <1>12, <1>19 DEF TailPart
  <2> QED BY <2>1, <2>2
<1>21. c = "post" => TailPart(y \o l, g) BY <1>12, <1>19
<1>22. Program(t, g, c) BY <1>11, <1>16, <1>20, <1>21, Join
<1>23. Begins(t, g, c)
  <2>1. c = "import" => Within(y \o l, <<"clone">>) BY <1>10, <1>17, <1>18
  <2> QED BY <1>8, <1>16, <1>17, <2>1, BeginsWith DEF S, k
<1> QED BY <1>22, <1>23 DEF t

LEMMA FortigateSteps ==
    ASSUME NEW g \in GuestOS, g.os = "fortigate"
    PROVE  LET S == StepsOf(g.os)
           IN  /\ <<<<"clean">>>> \in Seq(S) /\ <<<<"replace">>>> \in Seq(S)
               /\ DetermineRootPartition(g) \in Seq(S) /\ SetupDiskClone \in Seq(S)
               /\ DetermineFortigateVersion(g) \in Seq(S)
               /\ When(g.root = "lvm", <<<<"activate">>>>) \in Seq(S)
<1> DEFINE S == StepsOf(g.os)
           n == DetermineFortigateVersion(g)
           d == DetermineRootPartition(g)
           v == When(g.root = "lvm", <<<<"activate">>>>)
           z == SetupDiskClone
<1>1. <<<<"clean">>>> \in Seq(S) /\ <<<<"replace">>>> \in Seq(S) BY DEF StepsOf, WorkOf
<1>2. LookOf(g.os) \subseteq S BY DEF StepsOf
<1>3. z \in Seq(S)
  <2> DEFINE h == <<"clone">>
             i == <<"match">>
             j == <<"ensure">>
  <2>1. h \in S /\ i \in S /\ j \in S BY DEF StepsOf, WorkOf
  <2>2. z = <<h, i, j>> BY DEF SetupDiskClone
  <2> HIDE DEF h, i, j, S, z
  <2> QED BY <2>1, <2>2
<1>4. n \in Seq(LookOf(g.os)) /\ d \in Seq(LookOf(g.os)) /\ v \in Seq(LookOf(g.os))
  BY PartVersion, PartDetermine, PartActivate DEF Part
<1> HIDE DEF n, d, v, z, S
<1>5. n \in Seq(S) /\ d \in Seq(S) /\ v \in Seq(S) BY <1>2, <1>4, SeqMonotonic
<1> QED BY <1>1, <1>3, <1>5 DEF n, d, v, z, S

LEMMA FortigateTasks ==
    ASSUME NEW g \in GuestOS, g.os = "fortigate"
    PROVE  LET n == DetermineFortigateVersion(g)
               k == <<<<"clean">>>>
               d == DetermineRootPartition(g)
               v == When(g.root = "lvm", <<<<"activate">>>>)
               s == <<<<"replace">>>>
           IN  /\ PostImportTasks(g, TRUE) = (n \o (k \o d)) \o (SetupDiskClone \o s)
               /\ PostImportTasks(g, FALSE) = (n \o (k \o (d \o v))) \o s
<1> DEFINE k == <<<<"clean">>>>
           n == DetermineFortigateVersion(g)
           d == DetermineRootPartition(g)
           v == When(g.root = "lvm", <<<<"activate">>>>)
           z == SetupDiskClone
           s == <<<<"replace">>>>
           S == StepsOf(g.os)
           t == PostImportTasks(g, TRUE)
           u == PostImportTasks(g, FALSE)
<1>1. t = n \o (((k \o d) \o z) \o s) /\ u = n \o (((k \o d) \o v) \o s)
  BY DEF PostImportTasks, ReplaceFortigateBoot
<1>2. /\ k \in Seq(S) /\ n \in Seq(S) /\ d \in Seq(S) /\ v \in Seq(S) /\ z \in Seq(S)
      /\ s \in Seq(S)
  BY FortigateSteps
<1> HIDE DEF k, n, d, v, z, s, S, t, u
<1>3. t = (n \o (k \o d)) \o (z \o s)
  <2>1. t = Then(n, Then(Then(Then(k, d), z), s)) BY <1>1 DEF Then
  <2>2. Then(k, d) \in Seq(S) BY <1>2, ThenIn
  <2>3. Then(Then(Then(k, d), z), s) = Then(Then(k, d), Then(z, s)) /\ Then(z, s) \in Seq(S)
    BY <1>2, <2>2, PushOne
  <2>4. Then(Then(n, Then(k, d)), Then(z, s)) = Then(n, Then(Then(k, d), Then(z, s)))
    BY <1>2, <2>2, <2>3, ThenAssoc
  <2> QED BY <2>1, <2>3, <2>4 DEF Then
<1>4. u = (n \o (k \o (d \o v))) \o s
  <2>1. u = Then(n, Then(Then(Then(k, d), v), s)) BY <1>1 DEF Then
  <2>2. Then(Then(k, d), v) = Then(k, Then(d, v)) /\ Then(d, v) \in Seq(S)
    BY <1>2, PushOne
  <2>3. Then(k, Then(d, v)) \in Seq(S) BY <1>2, <2>2, ThenIn
  <2>4. Then(Then(n, Then(k, Then(d, v))), s) = Then(n, Then(Then(k, Then(d, v)), s))
    BY <1>2, <2>3, ThenAssoc
  <2> QED BY <2>1, <2>2, <2>4 DEF Then
<1> QED BY <1>3, <1>4 DEF k, n, d, v, z, s, t, u

LEMMA FortigatePrograms ==
    ASSUME NEW g \in GuestOS, g.os = "fortigate", NEW c \in {"import", "post"}
    PROVE  LET t == PostImportTasks(g, c = "import")
           IN  Program(t, g, c) /\ Begins(t, g, c)
<1> DEFINE k == <<<<"clean">>>>
           n == DetermineFortigateVersion(g)
           d == DetermineRootPartition(g)
           v == When(g.root = "lvm", <<<<"activate">>>>)
           z == SetupDiskClone
           s == <<<<"replace">>>>
           t == PostImportTasks(g, c = "import")
           S == StepsOf(g.os)
           L == LookOf(g.os) \cup {<<"clean">>}
<1>2. Part(n, LookOf(g.os), 0, 0) /\ Part(d, LookOf(g.os), 0, 0) /\ Part(v, LookOf(g.os), 0, 0)
  BY PartVersion, PartDetermine, PartActivate
<1>3. /\ k \in Seq(S) /\ n \in Seq(S) /\ d \in Seq(S) /\ v \in Seq(S) /\ z \in Seq(S)
      /\ s \in Seq(S)
  BY FortigateSteps
<1>4. LookOf(g.os) \subseteq S /\ LookOf(g.os) \subseteq L /\ L \subseteq S BY DEF StepsOf
<1>6. Within(s, <<"replace">>) BY DEF Within
<1>7. Within(z, <<"clone">>)
  <2>1. Len(z) = 3 /\ z[1] = <<"clone">> BY DEF SetupDiskClone
  <2> HIDE DEF z
  <2> QED BY <2>1 DEF Within
<1>8. TailPart(s, g) BY FortigateTail
<1>9. Within(k, <<"clean">>) BY DEF Within
<1>16. /\ c = "import" => t = (n \o (k \o d)) \o (z \o s)
       /\ c = "post" => t = (n \o (k \o (d \o v))) \o s
  <2>1. CASE c = "import"
    <3>1. (c = "import") = TRUE BY <2>1
    <3> QED BY <2>1, <3>1, FortigateTasks
  <2>2. CASE c = "post"
    <3>1. (c = "import") = FALSE BY <2>2
    <3> QED BY <2>2, <3>1, FortigateTasks
  <2> QED BY <2>1, <2>2
<1> HIDE DEF k, n, d, v, z, s, t, S, L
<1>10. n \in Seq(S) /\ d \in Seq(S) /\ v \in Seq(S) /\ n \in Seq(L)
  <2>1. n \in Seq(LookOf(g.os)) BY <1>2 DEF Part
  <2> QED BY <2>1, <1>3, <1>4, SeqMonotonic
<1>11. ASSUME NEW r, Part(r, LookOf(g.os), 0, 0)
       PROVE  LookPart(n \o (k \o r), g.os)
  <2>1. LookPart(k \o r, g.os) BY <1>11, LookClean DEF k
  <2> DEFINE w == k \o r
  <2>2. w \in Seq(L) /\ Chain(w) /\ Nested(w, 0, 0) BY <2>1 DEF LookPart, L
  <2> HIDE DEF w
  <2>3. Chain(n) /\ Nested(n, 0, 0) BY <1>2 DEF Part
  <2>4. n \o w \in Seq(L) /\ Chain(n \o w) /\ Nested(n \o w, 0, 0)
    BY <1>10, <2>2, <2>3, Cat, ChainCat, NestedCat
  <2> QED BY <2>4 DEF LookPart, L, w
<1>12. ASSUME NEW r \in Seq(S) PROVE Within(n \o (k \o r), <<"clean">>) /\ n \o (k \o r) \in Seq(S)
  <2> DEFINE w == k \o r
  <2>1. w \in Seq(S) /\ Within(w, <<"clean">>) BY <1>3, <1>9, ConcatProperties, WithinCat
  <2> HIDE DEF w
  <2>2. Within(n \o w, <<"clean">>) /\ n \o w \in Seq(S)
    BY <2>1, <1>10, ConcatProperties, WithinCat
  <2> QED BY <2>2 DEF w
<1>13. ASSUME NEW a \in Seq(S), NEW b \in Seq(S), Within(a, <<"clean">>),
              Within(b, <<"replace">>), c = "import" => Within(b, <<"clone">>)
       PROVE  Begins(a \o b, g, c)
  <2>1. Within(a \o b, <<"clean">>) /\ Within(a \o b, <<"replace">>)
          /\ (c = "import" => Within(a \o b, <<"clone">>))
    BY <1>13, WithinCat
  <2>2. a # <<>> BY <1>13, EmptySeq DEF Within
  <2>3. a \o b # <<>> BY <2>2, BeginCat
  <2> QED BY <2>1, <2>3 DEF Begins
<1>14. CASE c = "import"
  <2>1. t = (n \o (k \o d)) \o (z \o s) BY <1>14, <1>16
  <2>2. LookPart(n \o (k \o d), g.os) BY <1>2, <1>11
  <2>3. WorkPart(z \o s, g) BY <1>8, CloneTail DEF z
  <2>4. Program(t, g, c) BY <2>1, <2>2, <2>3, <1>14, Join
  <2>5. z \o s \in Seq(S) /\ Within(z \o s, <<"replace">>) /\ Within(z \o s, <<"clone">>)
    BY <1>3, <1>6, <1>7, ConcatProperties, WithinCat
  <2>6. Begins(t, g, c) BY <2>1, <2>5, <1>10, <1>12, <1>13
  <2> QED BY <2>4, <2>6 DEF t
<1>15. CASE c = "post"
  <2>1. t = (n \o (k \o (d \o v))) \o s BY <1>15, <1>16
  <2>2. Part(d \o v, LookOf(g.os), 0, 0) BY <1>2, PartCat
  <2>3. LookPart(n \o (k \o (d \o v)), g.os) BY <2>2, <1>11
  <2>4. Program(t, g, c) BY <2>1, <2>3, <1>8, Join DEF TailPart
  <2>5. d \o v \in Seq(S) BY <1>10, ConcatProperties
  <2>6. Begins(t, g, c) BY <2>1, <2>5, <1>3, <1>6, <1>12, <1>13, <1>15
  <2> QED BY <2>4, <2>6 DEF t
<1> QED BY <1>14, <1>15

\* Every task of every guest is such a program.
LEMMA Programs ==
    ASSUME NEW g \in GuestOS, NEW c \in {"import", "post"}
    PROVE  /\ Program(PostImportTasks(g, c = "import"), g, c)
           /\ Begins(PostImportTasks(g, c = "import"), g, c)
<1>1. g.os \in {"linux", "windows", "fortigate"} BY DEF GuestOS
<1> QED BY <1>1, LinuxPrograms, WindowsPrograms, FortigatePrograms

-----------------------------------------------------------------------------
(* Where the volume group of the root file system is active *)

\* With the root in the volume group, what is known of it before a step: it is
\* perhaps not active, it is active, or it is active and the next deferred calls
\* are those of a function that only probes a file system.
Flag == {"off", "on", "entered", "mounted"}
Frame == {<<"enter">>, <<"leave">>, <<"clean">>}
Starts == {<<"activate">>, <<"clone">>}
RootUse == {<<"mount", "target", "root">>, <<"mount", "target/extra", "extra">>, <<"replace">>}
Turns(s, i, j) ==
    /\ s \in RootUse => i # "off"
    /\ \/ j = "off"
       \/ s = <<"enter">> /\ i = "on" /\ j = "entered"
       \/ s[1] = "mount" /\ i = "entered" /\ j = "mounted"
       \/ s = <<"leave">> /\ i = "mounted" /\ j = "on"
       \/ s \in Starts /\ j = "on"
       \/ s \notin Frame /\ i = "on" /\ j = "on"
Flags(t, F) == \A n \in 1 .. Len(t) : Turns(t[n], F[Len(t) + 1 - n], F[Len(t) - n])
Flagged(t, i, j) == \E F \in [Nat -> Flag] : F[Len(t)] = i /\ F[0] = j /\ Flags(t, F)

LEMMA GlueFlags ==
    ASSUME NEW A \in [Nat -> Flag], NEW B \in [Nat -> Flag], NEW m \in Nat, A[0] = B[m]
    PROVE  \E D \in [Nat -> Flag] : /\ \A l \in 0 .. m : D[l] = B[l]
                                   /\ \A l \in Nat : D[m + l] = A[l]
<1> DEFINE D == [l \in Nat |-> IF l <= m THEN B[l] ELSE A[l - m]]
<1>1. D \in [Nat -> Flag] OBVIOUS
<1>2. \A l \in 0 .. m : D[l] = B[l] OBVIOUS
<1>3. ASSUME NEW l \in Nat PROVE D[m + l] = A[l]
  <2>1. CASE l = 0 BY <2>1, <1>2
  <2>2. CASE l > 0
    <3>1. m + l \in Nat /\ ~(m + l <= m) /\ (m + l) - m = l BY <2>2
    <3> QED BY <3>1
  <2> QED BY <2>1, <2>2
<1> HIDE DEF D
<1> QED BY <1>1, <1>2, <1>3

LEMMA FlaggedCat ==
    ASSUME NEW S, NEW a \in Seq(S), NEW b \in Seq(S), NEW i, NEW j, NEW k,
           Flagged(a, i, j), Flagged(b, j, k)
    PROVE  Flagged(a \o b, i, k)
<1>1. PICK A \in [Nat -> Flag] : A[Len(a)] = i /\ A[0] = j /\ Flags(a, A) BY DEF Flagged
<1>2. PICK B \in [Nat -> Flag] : B[Len(b)] = j /\ B[0] = k /\ Flags(b, B) BY DEF Flagged
<1> DEFINE t == a \o b
<1>3. /\ Len(a) \in Nat /\ Len(b) \in Nat /\ Len(t) = Len(a) + Len(b)
      /\ \A n \in 1 .. Len(t) : t[n] = IF n <= Len(a) THEN a[n] ELSE b[n - Len(a)]
  BY ConcatProperties, LenProperties
<1> HIDE DEF t
<1>4. PICK la \in Nat, lb \in Nat : la = Len(a) /\ lb = Len(b) BY <1>3
<1>5. PICK D \in [Nat -> Flag] : /\ \A l \in 0 .. lb : D[l] = B[l]
                                 /\ \A l \in Nat : D[lb + l] = A[l]
  <2>1. A[0] = B[lb] BY <1>1, <1>2, <1>4
  <2> QED BY GlueFlags, <2>1
<1>7. \A n \in 1 .. la + lb : t[n] = IF n <= la THEN a[n] ELSE b[n - la] BY <1>3, <1>4
<1>8. Len(t) = la + lb BY <1>3, <1>4
<1>9. D[Len(t)] = i /\ D[0] = k
  <2>1. D[lb + la] = A[la] /\ D[0] = B[0]
    <3>1. 0 \in 0 .. lb OBVIOUS
    <3>2. D[0] = B[0] BY <3>1, <1>5
    <3>3. D[lb + la] = A[la] BY <1>5
    <3> QED BY <3>2, <3>3
  <2>2. Len(t) = lb + la BY <1>8
  <2> QED BY <1>1, <1>2, <1>4, <2>1, <2>2
<1>10. Flags(t, D)
  <2> SUFFICES ASSUME NEW n \in 1 .. la + lb
               PROVE  Turns(t[n], D[la + lb + 1 - n], D[la + lb - n])
    BY <1>8 DEF Flags
  <2>1. CASE n <= la
    <3>1. t[n] = a[n] BY <2>1, <1>7
    <3>2. D[la + lb + 1 - n] = A[la + 1 - n] /\ D[la + lb - n] = A[la - n]
      <4>1. la + 1 - n \in Nat /\ la - n \in Nat BY <2>1
      <4>2. lb + (la + 1 - n) = la + lb + 1 - n /\ lb + (la - n) = la + lb - n OBVIOUS
      <4> QED BY <4>1, <4>2, <1>5
    <3>3. Turns(a[n], A[la + 1 - n], A[la - n]) BY <2>1, <1>1, <1>4 DEF Flags
    <3> QED BY <3>1, <3>2, <3>3
  <2>2. CASE n > la
    <3> DEFINE m == n - la
    <3>1. m \in 1 .. lb /\ la + lb + 1 - n = lb + 1 - m /\ la + lb - n = lb - m BY <2>2
    <3>2. t[n] = b[m] BY <2>2, <1>7
    <3> HIDE DEF m
    <3>3. Turns(b[m], B[lb + 1 - m], B[lb - m]) BY <3>1, <1>2, <1>4 DEF Flags
    <3>4. lb + 1 - m \in 0 .. lb /\ lb - m \in 0 .. lb BY <3>1
    <3>5. D[lb + 1 - m] = B[lb + 1 - m] /\ D[lb - m] = B[lb - m] BY <3>4, <1>5
    <3> QED BY <3>1, <3>2, <3>3, <3>5
  <2> QED BY <2>1, <2>2
<1> QED BY <1>5, <1>9, <1>10 DEF Flagged, t

LEMMA FlaggedTail ==
    ASSUME NEW S, NEW t \in Seq(S), t # <<>>, NEW i, NEW k, Flagged(t, i, k)
    PROVE  \E j \in Flag : Turns(Head(t), i, j) /\ Flagged(Tail(t), j, k)
<1>1. PICK D \in [Nat -> Flag] : D[Len(t)] = i /\ D[0] = k /\ Flags(t, D) BY DEF Flagged
<1>2. PICK l \in Nat : l = Len(t) /\ l > 0 /\ Head(t) = t[1] BY Shorter
<1> DEFINE u == Tail(t)
<1>3. Len(u) = l - 1 /\ \A n \in 1 .. l - 1 : u[n] = t[n + 1] BY <1>2, Shorter
<1> HIDE DEF u
<1>4. Turns(t[1], D[l], D[l - 1])
  <2>1. 1 \in 1 .. l /\ l + 1 - 1 = l BY <1>2
  <2> QED BY <2>1, <1>1, <1>2 DEF Flags
<1>5. Flags(u, D)
  <2> SUFFICES ASSUME NEW n \in 1 .. l - 1
               PROVE  Turns(u[n], D[l - 1 + 1 - n], D[l - 1 - n])
    BY <1>3 DEF Flags
  <2>1. n + 1 \in 1 .. l /\ l + 1 - (n + 1) = l - 1 + 1 - n /\ l - (n + 1) = l - 1 - n
    BY <1>2
  <2>2. Turns(t[n + 1], D[l + 1 - (n + 1)], D[l - (n + 1)]) BY <2>1, <1>1, <1>2 DEF Flags
  <2> QED BY <2>1, <2>2, <1>3
<1>6. l - 1 \in Nat BY <1>2
<1> QED BY <1>1, <1>2, <1>3, <1>4, <1>5, <1>6 DEF Flagged, u

LEMMA FlagsOff ==
    ASSUME NEW t, Len(t) \in Nat, \A n \in 1 .. Len(t) : t[n] \notin RootUse
    PROVE  Flagged(t, "off", "off")
<1> DEFINE F == [l \in Nat |-> "off"]
<1>1. PICK l \in Nat : l = Len(t) OBVIOUS
<1>2. F \in [Nat -> Flag] /\ F[l] = "off" /\ F[0] = "off" BY DEF Flag
<1>3. Flags(t, F)
  <2> SUFFICES ASSUME NEW n \in 1 .. l PROVE Turns(t[n], F[l + 1 - n], F[l - n])
    BY <1>1 DEF Flags
  <2>1. l + 1 - n \in Nat /\ l - n \in Nat OBVIOUS
  <2>2. F[l - n] = "off" BY <2>1
  <2> HIDE DEF F
  <2> QED BY <2>2, <1>1 DEF Turns
<1> HIDE DEF F
<1> QED BY <1>1, <1>2, <1>3 DEF Flagged

LEMMA FlagsOn ==
    ASSUME NEW t, Len(t) \in Nat, NEW i \in {"off", "on"}, NEW j \in {"off", "on"},
           Len(t) > 0,
           \A n \in 2 .. Len(t) - 1 : t[n] \notin Frame,
           j = "on" => t[Len(t)] \notin Frame,
           i = "off" => t[1] \in Starts,
           (i = "on" /\ Len(t) > 1) => t[1] \notin Frame
    PROVE  Flagged(t, i, j)
<1>1. PICK l \in Nat : l = Len(t) /\ l > 0 OBVIOUS
<1> DEFINE F == [n \in Nat |-> IF n = l THEN i ELSE IF n = 0 THEN j ELSE "on"]
<1>2. F \in [Nat -> Flag] /\ F[l] = i /\ F[0] = j BY <1>1 DEF Flag
<1>3. Flags(t, F)
  <2> SUFFICES ASSUME NEW n \in 1 .. l PROVE Turns(t[n], F[l + 1 - n], F[l - n])
    BY <1>1 DEF Flags
  <2>1. l + 1 - n \in Nat /\ l - n \in Nat OBVIOUS
  <2>2. /\ n = 1 => F[l + 1 - n] = i
        /\ n # 1 => F[l + 1 - n] = "on"
        /\ n = l => F[l - n] = j
        /\ n # l => F[l - n] = "on"
    BY <2>1, <1>1
  <2> HIDE DEF F
  <2>3. t[1] \in Starts =>
           t[1] \notin RootUse \cup Frame
    BY DEF RootUse, Frame, Starts
  <2>4. CASE n = 1
    <3>1. t[n] \in RootUse => i # "off" BY <2>3, <2>4
    <3>2. CASE l = 1 BY <2>2, <2>3, <2>4, <3>1, <3>2, <1>1 DEF Turns
    <3>3. CASE l # 1 BY <2>2, <2>3, <2>4, <3>1, <3>3, <1>1 DEF Turns
    <3> QED BY <3>2, <3>3
  <2>5. CASE n # 1 /\ n = l BY <2>2, <2>5, <1>1 DEF Turns
  <2>6. CASE n # 1 /\ n # l
    <3>1. n \in 2 .. l - 1 BY <2>6
    <3> QED BY <3>1, <2>2, <2>6, <1>1 DEF Turns
  <2> QED BY <2>4, <2>5, <2>6
<1> HIDE DEF F
<1> QED BY <1>1, <1>2, <1>3 DEF Flagged

LEMMA FlagsUp ==
    ASSUME NEW t, Len(t) \in Nat, Len(t) > 0, t[1] \in Starts,
           \A n \in 2 .. Len(t) : t[n] \notin Frame
    PROVE  Flagged(t, "off", "on")
<1> DEFINE e == Frame
<1>1. "off" \in {"off", "on"} /\ "on" \in {"off", "on"} OBVIOUS
<1>2. t[1] \notin e BY DEF Starts, Frame
<1> HIDE DEF e
<1>3. \A n \in 2 .. Len(t) - 1 : t[n] \notin e BY DEF e
<1>4. t[Len(t)] \notin e
  <2>1. CASE Len(t) = 1 BY <2>1, <1>2
  <2>2. CASE Len(t) # 1
    <3>1. PICK l \in Nat : l = Len(t) /\ l > 0 /\ l # 1 BY <2>2
    <3>2. l \in 2 .. l BY <3>1
    <3> QED BY <3>1, <3>2 DEF e
  <2> QED BY <2>1, <2>2
<1>5. "off" # "on" OBVIOUS
<1> QED BY <1>1, <1>3, <1>4, <1>5, FlagsOn DEF e

LEMMA FlagsDown ==
    ASSUME NEW t, Len(t) \in Nat, Len(t) > 1,
           \A n \in 1 .. Len(t) - 1 : t[n] \notin Frame
    PROVE  Flagged(t, "on", "off")
<1> DEFINE e == Frame
<1>1. "off" \in {"off", "on"} /\ "on" \in {"off", "on"} /\ "on" # "off" OBVIOUS
<1> HIDE DEF e
<1>2. \A n \in 2 .. Len(t) - 1 : t[n] \notin e BY DEF e
<1>3. t[1] \notin e
  <2>1. 1 \in 1 .. Len(t) - 1 OBVIOUS
  <2> QED BY <2>1 DEF e
<1> QED BY <1>1, <1>2, <1>3, FlagsOn DEF e

LEMMA FlagsNone ==
    ASSUME NEW i \in Flag PROVE Flagged(<<>>, i, i)
<1> DEFINE t == <<>>  F == [l \in Nat |-> i]
<1>1. Len(t) = 0 /\ F \in [Nat -> Flag] /\ F[0] = i OBVIOUS
<1> HIDE DEF t, F
<1>2. Flags(t, F) BY <1>1 DEF Flags
<1> QED BY <1>1, <1>2 DEF Flagged, t

LEMMA FlagsProbe ==
    ASSUME NEW f \in FileSystem PROVE Flagged(Probe(f), "on", "on")
<1> DEFINE t == Probe(f)
           F == [l \in Nat |-> IF l = 2 THEN "entered" ELSE IF l = 1 THEN "mounted" ELSE "on"]
<1>1. F \in [Nat -> Flag] /\ F[3] = "on" /\ F[2] = "entered" /\ F[1] = "mounted" /\ F[0] = "on"
  BY DEF Flag
<1>2. Len(t) = 3 /\ t[1] = <<"enter">> /\ t[2] = <<"mount", "target", f>> /\ t[3] = <<"leave">>
  BY DEF Probe
<1>3. <<"enter">> \notin RootUse /\ <<"leave">> \notin RootUse BY DEF RootUse
<1>4. <<"mount", "target", f>>[1] = "mount" OBVIOUS
<1> HIDE DEF F, t
<1>5. Flags(t, F)
  <2> SUFFICES ASSUME NEW n \in 1 .. 3 PROVE Turns(t[n], F[4 - n], F[3 - n])
    BY <1>2 DEF Flags
  <2>1. CASE n = 1 BY <2>1, <1>1, <1>2, <1>3 DEF Turns
  <2>2. CASE n = 2 BY <2>2, <1>1, <1>2, <1>4 DEF Turns
  <2>3. CASE n = 3 BY <2>3, <1>1, <1>2, <1>3 DEF Turns
  <2> QED BY <2>1, <2>2, <2>3
<1> QED BY <1>1, <1>2, <1>5 DEF Flagged, t

\* A part of a program for a root in the volume group.
FlagPart(t, K, i, j) == t \in Seq(K) /\ Flagged(t, i, j)

LEMMA FlagCat ==
    ASSUME NEW K, NEW a, NEW b, NEW i, NEW j, NEW k, FlagPart(a, K, i, j), FlagPart(b, K, j, k)
    PROVE  FlagPart(a \o b, K, i, k)
BY Cat, FlaggedCat DEF FlagPart

LEMMA FlagWhen ==
    ASSUME NEW K, NEW c \in BOOLEAN, NEW a, NEW i \in Flag, c => FlagPart(a, K, i, i)
    PROVE  FlagPart(When(c, a), K, i, i)
<1>1. FlagPart(<<>>, K, i, i) BY FlagsNone DEF FlagPart
<1>2. CASE c BY <1>2 DEF When
<1>3. CASE ~c BY <1>1, <1>3 DEF When
<1> QED BY <1>2, <1>3

LEMMA FlagDetermine ==
    ASSUME NEW g \in GuestOS, g.os \in {"linux", "fortigate"}, g.root = "lvm"
    PROVE  FlagPart(DetermineRootPartition(g), LookOf(g.os), "off", "off")
<1> DEFINE K == LookOf(g.os)
           o == <<<<"enter">>>>
           a == When(InVG(g) # {}, <<<<"activate">>>>)
           b == When(g.extra = "lvm", Probe("extra"))
           c == When(g.root = "lvm", Probe("root"))
           d == When(g.root # "lvm" /\ g.extra = "plain", Probe("extra"))
           e == When(g.root = "plain", Probe("root"))
           l == <<<<"found">>, <<"leave">>>>
<1>1. "on" \in Flag /\ "off" \in Flag /\ "extra" \in FileSystem /\ "root" \in FileSystem
  BY DEF Flag, FileSystem
<1>2. FlagPart(o, K, "off", "off")
  <2>1. o \in Seq(K) BY LookSteps
  <2>2. Len(o) = 1 /\ o[1] = <<"enter">> OBVIOUS
  <2>3. <<"enter">> \notin RootUse BY DEF RootUse
  <2> HIDE DEF o
  <2>4. Len(o) \in Nat /\ \A n \in 1 .. Len(o) : o[n] \notin RootUse BY <2>2, <2>3
  <2> QED BY <2>1, <2>4, FlagsOff DEF FlagPart
<1>3. FlagPart(a, K, "off", "on")
  <2>1. InVG(g) # {} BY <1>1 DEF InVG
  <2> DEFINE s == <<"activate">>  t == <<s>>
  <2>2. a = t BY <2>1 DEF When
  <2>3. t \in Seq(K) BY LookSteps
  <2>4. Len(t) = 1 /\ t[1] = s OBVIOUS
  <2> HIDE DEF s, t
  <2>6. \A n \in 2 .. Len(t) : FALSE BY <2>4
  <2>7. t[1] \in Starts BY <2>4 DEF s, Starts
  <2>8. Flagged(t, "off", "on") BY <2>4, <2>6, <2>7, FlagsUp
  <2> QED BY <2>2, <2>3, <2>8 DEF FlagPart
<1>4. ASSUME NEW f \in FileSystem PROVE FlagPart(Probe(f), K, "on", "on")
  <2>1. Probe(f) \in Seq(K) BY PartProbe DEF Part
  <2> QED BY <2>1, FlagsProbe DEF FlagPart
<1>5. FlagPart(b, K, "on", "on") BY <1>1, <1>4, FlagWhen
<1>6. FlagPart(c, K, "on", "on") BY <1>1, <1>4, FlagWhen
<1>7. FlagPart(d, K, "on", "on") BY <1>1, <1>4, FlagWhen
<1>8. FlagPart(e, K, "on", "on") BY <1>1, <1>4, FlagWhen
<1>9. FlagPart(l, K, "on", "off")
  <2>1. l \in Seq(K) BY LookSteps
  <2>2. Len(l) = 2 /\ l[1] = <<"found">> OBVIOUS
  <2>3. <<"found">> \notin Frame BY DEF Frame
  <2> HIDE DEF l
  <2>4. \A n \in 1 .. Len(l) - 1 : l[n] \notin Frame
    BY <2>2, <2>3
  <2>5. Len(l) \in Nat /\ Len(l) > 1 BY <2>2
  <2>6. Flagged(l, "on", "off") BY <2>4, <2>5, FlagsDown
  <2> QED BY <2>1, <2>6 DEF FlagPart
<1> HIDE DEF K, a, b, c, d, e, l, o
<1>10. FlagPart(o \o a \o b \o c, K, "off", "on") BY <1>2, <1>3, <1>5, <1>6, FlagCat
<1>11. FlagPart(o \o a \o b \o c \o d \o e \o l, K, "off", "off")
  BY <1>10, <1>7, <1>8, <1>9, FlagCat
<1> QED BY <1>11 DEF DetermineRootPartition, K, a, b, c, d, e, l, o

\* What enters, looks for the root, activates the group, mounts and leaves.
LEMMA FlagLooking ==
    ASSUME NEW g \in GuestOS, g.root = "lvm", NEW l, NEW c \in BOOLEAN, c = TRUE,
           \/ l = <<<<"mount", "target", "root">>, <<"leave">>>> /\ g.os = "fortigate"
           \/ l = <<<<"mount", "target", "root">>, <<"fstab">>, <<"leave">>>> /\ g.os = "linux"
    PROVE  FlagPart(<<<<"enter">>>> \o DetermineRootPartition(g)
                        \o When(c, <<<<"activate">>>>) \o l, LookOf(g.os), "off", "off")
<1> DEFINE K == LookOf(g.os)
           o == <<<<"enter">>>>
           r == DetermineRootPartition(g)
           s == <<"activate">>
           t == <<s>>
           m == <<"mount", "target", "root">>
<1>1. FlagPart(o, K, "off", "off")
  <2>1. o \in Seq(K) BY LookSteps
  <2>2. Len(o) = 1 /\ o[1] = <<"enter">> OBVIOUS
  <2>3. <<"enter">> \notin RootUse BY DEF RootUse
  <2> HIDE DEF o
  <2>4. Len(o) \in Nat /\ \A n \in 1 .. Len(o) : o[n] \notin RootUse BY <2>2, <2>3
  <2> QED BY <2>1, <2>4, FlagsOff DEF FlagPart
<1>2. FlagPart(r, K, "off", "off") BY FlagDetermine
<1>3. FlagPart(t, K, "off", "on")
  <2>3. t \in Seq(K) BY LookSteps
  <2>4. Len(t) = 1 /\ t[1] = s OBVIOUS
  <2> HIDE DEF s, t
  <2>6. \A n \in 2 .. Len(t) : FALSE BY <2>4
  <2>7. t[1] \in Starts BY <2>4 DEF s, Starts
  <2>8. Flagged(t, "off", "on") BY <2>4, <2>6, <2>7, FlagsUp
  <2> QED BY <2>3, <2>8 DEF FlagPart
<1>4. FlagPart(l, K, "on", "off")
  <2>1. m \notin Frame BY DEF Frame
  <2>2. CASE l = <<m, <<"leave">>>> /\ g.os = "fortigate"
    <3>1. l \in Seq(K) BY <2>2, LookSteps
    <3>2. Len(l) = 2 /\ l[1] = m BY <2>2
    <3> HIDE DEF m
    <3>3. \A n \in 1 .. Len(l) - 1 : l[n] \notin Frame
      BY <2>1, <3>2
    <3>5. Len(l) \in Nat /\ Len(l) > 1 BY <3>2
    <3>4. Flagged(l, "on", "off") BY <3>3, <3>5, FlagsDown
    <3> QED BY <3>1, <3>4 DEF FlagPart
  <2>3. CASE l = <<m, <<"fstab">>, <<"leave">>>> /\ g.os = "linux"
    <3>1. l \in Seq(K) BY <2>3, LookSteps
    <3>2. Len(l) = 3 /\ l[1] = m /\ l[2] = <<"fstab">> BY <2>3
    <3>3. <<"fstab">> \notin Frame BY DEF Frame
    <3> HIDE DEF m
    <3>4. \A n \in 1 .. Len(l) - 1 : l[n] \notin Frame
      BY <2>1, <3>2, <3>3
    <3>5. Len(l) \in Nat /\ Len(l) > 1 BY <3>2
    <3>6. Flagged(l, "on", "off") BY <3>4, <3>5, FlagsDown
    <3> QED BY <3>1, <3>6 DEF FlagPart
  <2> QED BY <2>2, <2>3
<1>5. When(c, <<<<"activate">>>>) = t BY DEF When
<1> HIDE DEF K, o, r, t
<1>6. FlagPart(o \o r \o t \o l, K, "off", "off") BY <1>1, <1>2, <1>3, <1>4, FlagCat
<1> QED BY <1>5, <1>6 DEF K, o, r

\* The work, with the volume group active on the disks or with clones of them.
LEMMA FlagWork ==
    ASSUME NEW g \in GuestOS, g.os \in {"linux", "fortigate"}, NEW l, TailPart(l, g),
           NEW z, z \in {<<<<"activate">>>>, SetupDiskClone}
    PROVE  Flagged(l, "on", "on") /\ Flagged(z, "off", "on")
<1>1. Flagged(z, "off", "on")
  <2>1. CASE z = <<<<"activate">>>>
    <3> DEFINE s == <<"activate">>
    <3>1. Len(z) = 1 /\ z[1] = s BY <2>1
    <3> HIDE DEF s
    <3>3. \A n \in 2 .. Len(z) : FALSE BY <3>1
    <3>4. z[1] \in Starts BY <3>1 DEF s, Starts
    <3> QED BY <3>1, <3>3, <3>4, FlagsUp
  <2>2. CASE z = SetupDiskClone
    <3> DEFINE h == <<"clone">>
               i == <<"match">>
               j == <<"ensure">>
               e == Frame
    <3>1. Len(z) = 3 /\ z[1] = h /\ z[2] = i /\ z[3] = j BY <2>2 DEF SetupDiskClone
    <3>2. i \notin e /\ j \notin e BY DEF Frame
    <3> HIDE DEF h, i, j, e
    <3>3. \A n \in 2 .. Len(z) : z[n] \notin e BY <3>1, <3>2
    <3>4. z[1] \in Starts BY <3>1 DEF h, Starts
    <3> QED BY <3>1, <3>3, <3>4, FlagsUp DEF e
  <2> QED BY <2>1, <2>2
<1>2. Flagged(l, "on", "on")
  <2> DEFINE W == {<<"clone">>} \cup WorkOf(g.os)
             e == Frame
  <2>1. l \in Seq(W) /\ l # <<>> BY DEF TailPart, WorkPart
  <2>2. \A s \in W : s \notin e
    <3>1. g.os \in {"linux", "windows", "fortigate"} OBVIOUS
    <3> QED BY <3>1, Apart DEF Frame
  <2> HIDE DEF W, e
  <2>3. Len(l) \in Nat /\ Len(l) > 0 BY <2>1, Shorter
  <2>4. \A n \in 1 .. Len(l) : l[n] \notin e BY <2>1, <2>2, ElementOfSeq
  <2>5. /\ \A n \in 2 .. Len(l) - 1 : l[n] \notin e
        /\ l[Len(l)] \notin e /\ l[1] \notin e
    BY <2>3, <2>4
  <2> QED BY <2>3, <2>5, FlagsOn DEF e
<1> QED BY <1>1, <1>2

LEMMA FlagPrograms ==
    ASSUME NEW g \in GuestOS, NEW c \in {"import", "post"}, g.root = "lvm"
    PROVE  \E j \in Flag : Flagged(PostImportTasks(g, c = "import"), "off", j)
<1> DEFINE S == StepsOf(g.os)
           K == LookOf(g.os)
           k == <<<<"clean">>>>
           d == DetermineRootPartition(g)
           v == When(g.root = "lvm", <<<<"activate">>>>)
           q == GetRequiredMounts(g)
           n == DetermineFortigateVersion(g)
           z == SetupDiskClone
           w == LinuxWork(g)
           r == <<<<"replace">>>>
           t == PostImportTasks(g, c = "import")
<1>1. g.os \in {"linux", "fortigate"} BY DEF GuestOS
<1>2. v = <<<<"activate">>>> BY DEF When
<1>3. K \subseteq S BY DEF StepsOf
<1>4. Flagged(v, "off", "on") /\ Flagged(z, "off", "on")
  <2>1. CASE g.os = "linux" BY <2>1, <1>2, LinuxTail, FlagWork
  <2>2. CASE g.os = "fortigate" BY <2>2, <1>2, FortigateTail, FlagWork
  <2> QED BY <1>1, <2>1, <2>2
<1>5. FlagPart(k, S, "off", "off")
  <2>1. k \in Seq(S) BY DEF StepsOf
  <2>2. Len(k) = 1 /\ k[1] = <<"clean">> OBVIOUS
  <2>3. <<"clean">> \notin RootUse BY DEF RootUse
  <2> HIDE DEF k, S
  <2>4. Len(k) \in Nat /\ \A i \in 1 .. Len(k) : k[i] \notin RootUse BY <2>2, <2>3
  <2> QED BY <2>1, <2>4, FlagsOff DEF FlagPart
<1>6. FlagPart(d, K, "off", "off") BY <1>1, FlagDetermine
<1>7. /\ g.os = "linux" => FlagPart(q, K, "off", "off")
      /\ g.os = "fortigate" => FlagPart(n, K, "off", "off")
  <2>1. CASE g.os = "linux"
    <3>1. "root" \in InVG(g) BY DEF InVG, FileSystem
    <3>2. (InVG(g) # {}) = TRUE BY <3>1
    <3> QED BY <2>1, <3>2, FlagLooking DEF GetRequiredMounts
  <2>2. CASE g.os = "fortigate"
    <3>2. (g.root = "lvm") = TRUE OBVIOUS
    <3> QED BY <2>2, <3>2, FlagLooking DEF DetermineFortigateVersion
  <2> QED BY <1>1, <2>1, <2>2
<1>8. "on" \in Flag BY DEF Flag
<1>9. /\ g.os = "linux" => v \in Seq(S) /\ z \in Seq(S) /\ w \in Seq(S) /\ Flagged(w, "on", "on")
      /\ g.os = "fortigate" => v \in Seq(S) /\ z \in Seq(S) /\ r \in Seq(S) /\ Flagged(r, "on", "on")
  <2>1. CASE g.os = "linux"
    <3>1. TailPart(w, g) BY <2>1, LinuxTail
    <3>2. {<<"clone">>} \cup WorkOf(g.os) \subseteq S BY DEF StepsOf
    <3>3. w \in Seq({<<"clone">>} \cup WorkOf(g.os)) BY <3>1 DEF TailPart, WorkPart
    <3>4. v \in Seq(S) /\ z \in Seq(S) BY <2>1, LinuxSteps
    <3>5. w \in Seq(S)
      <4> HIDE DEF S, w
      <4> QED BY <3>2, <3>3, SeqMonotonic
    <3>6. Flagged(w, "on", "on") BY <2>1, <3>1, FlagWork
    <3> QED BY <2>1, <3>4, <3>5, <3>6
  <2>2. CASE g.os = "fortigate"
    <3>1. TailPart(r, g) BY <2>2, FortigateTail
    <3>2. v \in Seq(S) /\ z \in Seq(S) /\ r \in Seq(S) BY <2>2, FortigateSteps
    <3>3. Flagged(r, "on", "on") BY <2>2, <3>1, FlagWork
    <3> QED BY <2>2, <3>2, <3>3
  <2> QED BY <1>1, <2>1, <2>2
<1>10. /\ g.os = "linux" => IF c = "import" THEN t = (k \o (d \o q)) \o (z \o w)
                            ELSE t = (k \o (d \o v)) \o w
       /\ g.os = "fortigate" => IF c = "import" THEN t = (n \o (k \o d)) \o (z \o r)
                                ELSE t = (n \o (k \o (d \o v))) \o r
  <2>1. CASE c = "import"
    <3>1. (c = "import") = TRUE BY <2>1
    <3> QED BY <2>1, <3>1, LinuxTasks, FortigateTasks
  <2>2. CASE c # "import"
    <3>1. (c = "import") = FALSE BY <2>2
    <3> QED BY <2>2, <3>1, LinuxTasks, FortigateTasks
  <2> QED BY <2>1, <2>2
<1> HIDE DEF k, d, v, q, n, z, w, r, t, S, K
<1>11. FlagPart(d, S, "off", "off")
  <2>1. d \in Seq(S) BY <1>3, <1>6, SeqMonotonic DEF FlagPart
  <2> QED BY <2>1, <1>6 DEF FlagPart
<1>13. CASE g.os = "linux"
  <2>1. FlagPart(q, S, "off", "off")
    <3>1. q \in Seq(S) BY <1>3, <1>7, <1>13, SeqMonotonic DEF FlagPart
    <3> QED BY <3>1, <1>7, <1>13 DEF FlagPart
  <2>2. /\ FlagPart(v, S, "off", "on") /\ FlagPart(z, S, "off", "on")
        /\ FlagPart(w, S, "on", "on")
    BY <1>4, <1>9, <1>13 DEF FlagPart
  <2>3. CASE c = "import"
    <3>1. FlagPart(k \o (d \o q), S, "off", "off") BY <1>5, <1>11, <2>1, FlagCat
    <3>2. FlagPart(z \o w, S, "off", "on") BY <2>2, FlagCat
    <3>3. FlagPart(t, S, "off", "on") BY <1>10, <1>13, <2>3, <3>1, <3>2, FlagCat
    <3> QED BY <3>3, <1>8 DEF FlagPart, t
  <2>4. CASE c # "import"
    <3>1. FlagPart(k \o (d \o v), S, "off", "on") BY <1>5, <1>11, <2>2, FlagCat
    <3>2. FlagPart(t, S, "off", "on") BY <1>10, <1>13, <2>2, <2>4, <3>1, FlagCat
    <3> QED BY <3>2, <1>8 DEF FlagPart, t
  <2> QED BY <2>3, <2>4
<1>14. CASE g.os = "fortigate"
  <2>1. FlagPart(n, S, "off", "off")
    <3>1. n \in Seq(S) BY <1>3, <1>7, <1>14, SeqMonotonic DEF FlagPart
    <3> QED BY <3>1, <1>7, <1>14 DEF FlagPart
  <2>2. /\ FlagPart(v, S, "off", "on") /\ FlagPart(z, S, "off", "on")
        /\ FlagPart(r, S, "on", "on")
    BY <1>4, <1>9, <1>14 DEF FlagPart
  <2>3. CASE c = "import"
    <3>1. FlagPart(n \o (k \o d), S, "off", "off") BY <1>5, <1>11, <2>1, FlagCat
    <3>2. FlagPart(z \o r, S, "off", "on") BY <2>2, FlagCat
    <3>3. FlagPart(t, S, "off", "on") BY <1>10, <1>14, <2>3, <3>1, <3>2, FlagCat
    <3> QED BY <3>3, <1>8 DEF FlagPart, t
  <2>4. CASE c # "import"
    <3>1. FlagPart(n \o (k \o (d \o v)), S, "off", "on") BY <1>5, <1>11, <2>1, <2>2, FlagCat
    <3>2. FlagPart(t, S, "off", "on") BY <1>10, <1>14, <2>2, <2>4, <3>1, FlagCat
    <3> QED BY <3>2, <1>8 DEF FlagPart, t
  <2> QED BY <2>3, <2>4
<1> QED BY <1>1, <1>13, <1>14

-----------------------------------------------------------------------------
(* Which steps the programs have, and in which order *)

\* Only a dry run clones, and only an additional file system is mounted as such.
Fits(g, c) == {s \in StepsOf(g.os) :
    /\ c = "post" => s \notin {<<"clone">>, <<"match">>, <<"ensure">>}
    /\ g.extra = "none" => s \notin {<<"mount", "target/extra", "extra">>,
                                     <<"mount", "win_recovery", "extra">>}}
MainOnce(t) == \A n \in 1 .. Len(t) : t[n] = <<"mount", "win_main", "root">> =>
    \A m \in n + 1 .. Len(t) : t[m] # <<"mount", "win_main", "root">>
FstabFirst(t) == \A n \in 1 .. Len(t) : t[n] = <<"clone">> =>
    \E m \in 1 .. n - 1 : t[m] = <<"fstab">>

LEMMA LookFits ==
    ASSUME NEW g \in GuestOS, NEW c
    PROVE  /\ LookOf(g.os) \cup {<<"clean">>} \subseteq Fits(g, c)
           /\ c = "import" => {<<"clone">>, <<"match">>, <<"ensure">>} \subseteq Fits(g, c)
<1>1. g.os \in {"linux", "windows", "fortigate"} BY DEF GuestOS
<1>2. LookOf(g.os) \cup {<<"clean">>} \subseteq StepsOf(g.os) BY DEF StepsOf
<1>3. \A s \in LookOf(g.os) \cup {<<"clean">>} :
        s \notin {<<"clone">>, <<"match">>, <<"ensure">>, <<"mount", "target/extra", "extra">>}
  BY <1>1, Apart
<1>4. \A s \in LookOf(g.os) \cup {<<"clean">>} : s # <<"mount", "win_recovery", "extra">>
  BY <1>1 DEF LookOf
<1>5. {<<"clone">>, <<"match">>, <<"ensure">>} \subseteq StepsOf(g.os) BY DEF StepsOf, WorkOf
<1> DEFINE x == {<<"mount", "target/extra", "extra">>, <<"mount", "win_recovery", "extra">>}
<1>6. <<"clone">> \notin x /\ <<"match">> \notin x /\ <<"ensure">> \notin x OBVIOUS
<1> QED BY <1>2, <1>3, <1>4, <1>5, <1>6 DEF Fits

LEMMA WhenIn ==
    ASSUME NEW S, NEW c \in BOOLEAN, NEW a, c => a \in Seq(S) PROVE When(c, a) \in Seq(S)
<1>1. <<>> \in Seq(S) BY EmptySeq
<1> QED BY <1>1 DEF When

LEMMA CloneFits ==
    ASSUME NEW g \in GuestOS PROVE SetupDiskClone \in Seq(Fits(g, "import"))
<1> DEFINE F == Fits(g, "import")
           h == <<"clone">>
           i == <<"match">>
           j == <<"ensure">>
<1>1. h \in F /\ i \in F /\ j \in F BY LookFits
<1>2. SetupDiskClone = <<h, i, j>> BY DEF SetupDiskClone
<1> HIDE DEF F, h, i, j
<1>3. <<h, i, j>> \in Seq(F) BY <1>1
<1> QED BY <1>2, <1>3 DEF F

LEMMA LookSeqFits ==
    ASSUME NEW g \in GuestOS, NEW c, NEW a, a \in Seq(LookOf(g.os)) PROVE a \in Seq(Fits(g, c))
<1>1. LookOf(g.os) \subseteq Fits(g, c) BY LookFits
<1> QED BY <1>1, SeqMonotonic

LEMMA LinuxFits ==
    ASSUME NEW g \in GuestOS, g.os = "linux", NEW c \in {"import", "post"}
    PROVE  /\ LinuxWork(g) \in Seq(Fits(g, c))
           /\ PostImportTasks(g, c = "import") \in Seq(Fits(g, c))
<1> DEFINE F == Fits(g, c)
           k == <<"clean">>
           m == <<"mount", "target", "root">>
           x == <<"mount", "target/extra", "extra">>
           s == <<"scripts">>
           w == When(g.extra # "none", <<x>>)
           l == LinuxWork(g)
           d == DetermineRootPartition(g)
           v == When(g.root = "lvm", <<<<"activate">>>>)
           q == GetRequiredMounts(g)
           z == SetupDiskClone
           t == PostImportTasks(g, c = "import")
<1>1. k \in F BY LookFits
<1>2. m \in F /\ s \in F /\ (g.extra # "none" => x \in F)
  <2>1. m \in StepsOf(g.os) /\ s \in StepsOf(g.os) /\ x \in StepsOf(g.os) BY DEF StepsOf, WorkOf
  <2>2. {m, s, x} \cap {<<"clone">>, <<"match">>, <<"ensure">>} = {} OBVIOUS
  <2>3. {m, s} \cap {x, <<"mount", "win_recovery", "extra">>} = {} OBVIOUS
  <2> QED BY <2>1, <2>2, <2>3 DEF Fits
<1>3. d \in Seq(F) /\ v \in Seq(F) /\ q \in Seq(F)
  <2>1. d \in Seq(LookOf(g.os)) /\ q \in Seq(LookOf(g.os)) /\ v \in Seq(LookOf(g.os))
    BY PartDetermine, PartRequired, PartActivate DEF Part
  <2> QED BY <2>1, LookSeqFits
<1>4. c = "import" => z \in Seq(F) BY CloneFits
<1>5. l = (<<m>> \o w) \o <<s>> BY DEF LinuxWork
<1>6. IF c = "import" THEN t = (<<k>> \o (d \o q)) \o (z \o l)
      ELSE t = (<<k>> \o (d \o v)) \o l
  <2>1. CASE c = "import"
    <3>1. (c = "import") = TRUE BY <2>1
    <3> QED BY <2>1, <3>1, LinuxTasks
  <2>2. CASE c # "import"
    <3>1. (c = "import") = FALSE BY <2>2
    <3> QED BY <2>2, <3>1, LinuxTasks
  <2> QED BY <2>1, <2>2
<1> HIDE DEF F, k, m, x, s, l, d, v, q, z, t
<1>7. <<k>> \in Seq(F) /\ <<m>> \in Seq(F) /\ <<s>> \in Seq(F) BY <1>1, <1>2
<1>8. w \in Seq(F)
  <2>1. (g.extra # "none") => <<x>> \in Seq(F) BY <1>2
  <2>2. (g.extra # "none") \in BOOLEAN OBVIOUS
  <2> QED BY <2>1, <2>2, WhenIn
<1> HIDE DEF w
<1>9. l \in Seq(F)
  <2>1. <<m>> \o w \in Seq(F) BY <1>7, <1>8, ConcatProperties
  <2> QED BY <1>5, <1>7, <2>1, ConcatProperties
<1>10. t \in Seq(F)
  <2>1. CASE c = "import"
    <3>1. d \o q \in Seq(F) /\ z \o l \in Seq(F) BY <1>3, <1>4, <1>9, <2>1, ConcatProperties
    <3>2. <<k>> \o (d \o q) \in Seq(F) BY <3>1, <1>7, ConcatProperties
    <3> QED BY <1>6, <2>1, <3>1, <3>2, ConcatProperties
  <2>2. CASE c # "import"
    <3>1. d \o v \in Seq(F) BY <1>3, ConcatProperties
    <3>2. <<k>> \o (d \o v) \in Seq(F) BY <3>1, <1>7, ConcatProperties
    <3> QED BY <1>6, <1>9, <2>2, <3>2, ConcatProperties
  <2> QED BY <2>1, <2>2
<1> QED BY <1>9, <1>10 DEF F, l, t

LEMMA FortigateFits ==
    ASSUME NEW g \in GuestOS, g.os = "fortigate", NEW c \in {"import", "post"}
    PROVE  PostImportTasks(g, c = "import") \in Seq(Fits(g, c))
<1> DEFINE F == Fits(g, c)
           k == <<"clean">>
           r == <<"replace">>
           n == DetermineFortigateVersion(g)
           d == DetermineRootPartition(g)
           v == When(g.root = "lvm", <<<<"activate">>>>)
           z == SetupDiskClone
           t == PostImportTasks(g, c = "import")
<1>1. k \in F BY LookFits
<1>2. r \in F
  <2>1. r \in StepsOf(g.os) BY DEF StepsOf, WorkOf
  <2>2. r \notin {<<"clone">>, <<"match">>, <<"ensure">>} OBVIOUS
  <2>3. r \notin {<<"mount", "target/extra", "extra">>, <<"mount", "win_recovery", "extra">>}
    OBVIOUS
  <2> QED BY <2>1, <2>2, <2>3 DEF Fits
<1>3. d \in Seq(F) /\ v \in Seq(F) /\ n \in Seq(F)
  <2>1. d \in Seq(LookOf(g.os)) /\ n \in Seq(LookOf(g.os)) /\ v \in Seq(LookOf(g.os))
    BY PartDetermine, PartVersion, PartActivate DEF Part
  <2> QED BY <2>1, LookSeqFits
<1>4. c = "import" => z \in Seq(F) BY CloneFits
<1>6. IF c = "import" THEN t = (n \o (<<k>> \o d)) \o (z \o <<r>>)
      ELSE t = (n \o (<<k>> \o (d \o v))) \o <<r>>
  <2>1. CASE c = "import"
    <3>1. (c = "import") = TRUE BY <2>1
    <3> QED BY <2>1, <3>1, FortigateTasks
  <2>2. CASE c # "import"
    <3>1. (c = "import") = FALSE BY <2>2
    <3> QED BY <2>2, <3>1, FortigateTasks
  <2> QED BY <2>1, <2>2
<1> HIDE DEF F, k, r, n, d, v, z, t
<1>7. <<k>> \in Seq(F) /\ <<r>> \in Seq(F) BY <1>1, <1>2
<1>8. CASE c = "import"
  <2>1. <<k>> \o d \in Seq(F) /\ z \o <<r>> \in Seq(F) BY <1>3, <1>4, <1>7, <1>8, ConcatProperties
  <2>2. n \o (<<k>> \o d) \in Seq(F) BY <1>3, <2>1, ConcatProperties
  <2>3. (n \o (<<k>> \o d)) \o (z \o <<r>>) \in Seq(F) BY <2>1, <2>2, ConcatProperties
  <2>4. t \in Seq(F) BY <1>6, <1>8, <2>3
  <2> QED BY <2>4 DEF t, F
<1>9. CASE c # "import"
  <2>1. d \o v \in Seq(F) BY <1>3, ConcatProperties
  <2>2. <<k>> \o (d \o v) \in Seq(F) BY <2>1, <1>7, ConcatProperties
  <2>3. n \o (<<k>> \o (d \o v)) \in Seq(F) BY <1>3, <2>2, ConcatProperties
  <2> QED BY <1>6, <1>7, <1>9, <2>3, ConcatProperties DEF t, F
<1> QED BY <1>8, <1>9

LEMMA WindowsFits ==
    ASSUME NEW g \in GuestOS, g.os = "windows", NEW c \in {"import", "post"}
    PROVE  /\ WindowsWork(g) \in Seq(Fits(g, c))
           /\ MainOnce(WindowsWork(g)) /\ Within(WindowsWork(g), <<"unlock">>)
           /\ PostImportTasks(g, c = "import") \in Seq(Fits(g, c))
<1> DEFINE F == Fits(g, c)
           p == <<"mount", "drivers", "none">>
           u == <<"unlock">>
           q == <<"mount", "dislocker", "root">>
           m == <<"mount", "win_main", "root">>
           x == <<"mount", "win_recovery", "extra">>
           s == <<"scripts">>
           l == WindowsWork(g)
           k == <<<<"clean">>>>
           r == <<<<"found">>>>
           z == SetupDiskClone
           y == When(c = "import", z)
           t == PostImportTasks(g, c = "import")
<1>1. p \in F /\ u \in F /\ q \in F /\ m \in F /\ s \in F /\ (g.extra # "none" => x \in F)
  <2>1. {p, u, q, m, s, x} \subseteq StepsOf(g.os) BY DEF StepsOf, WorkOf
  <2>2. {p, u, q, m, s, x} \cap {<<"clone">>, <<"match">>, <<"ensure">>} = {} OBVIOUS
  <2>3. {p, u, q, m, s} \cap {<<"mount", "target/extra", "extra">>, x} = {} OBVIOUS
  <2>4. x # <<"mount", "target/extra", "extra">> OBVIOUS
  <2> QED BY <2>1, <2>2, <2>3, <2>4 DEF Fits
<1>2. m # x /\ m # s /\ m # p /\ m # u /\ m # q OBVIOUS
<1>3. \/ g.extra = "none" /\ l = <<p, u, q, m, s>>
      \/ g.extra # "none" /\ l = <<p, u, q, m, x, s>>
      \/ g.extra = "none" /\ l = <<p, u, m, s>>
      \/ g.extra # "none" /\ l = <<p, u, m, x, s>>
  BY WindowsWorkIs
<1>4. k \in Seq(F) /\ r \in Seq(F) /\ (c = "import" => z \in Seq(F))
  <2>1. <<"clean">> \in F BY LookFits
  <2>2. <<"found">> \in F
    <3>1. <<"found">> \in LookOf(g.os) BY DEF LookOf
    <3> QED BY <3>1, LookFits
  <2>3. c = "import" => z \in Seq(F) BY CloneFits
  <2> HIDE DEF F
  <2> QED BY <2>1, <2>2, <2>3
<1>5. t = (k \o r) \o (y \o l) BY WindowsTasks
<1> HIDE DEF F, k, r, z, t
<1>6. y \in Seq(F)
  <2>1. (c = "import") \in BOOLEAN OBVIOUS
  <2> QED BY <2>1, <1>4, WhenIn
<1> HIDE DEF y, l
<1>7. l \in Seq(F) /\ Within(l, u) /\ \A i, j \in 1 .. Len(l) : l[i] = m /\ l[j] = m => i = j
  <2> HIDE DEF p, u, q, m, x, s
  <2>2. CASE g.extra = "none" /\ l = <<p, u, q, m, s>>
    <3>1. Len(l) = 5 /\ l[1] = p /\ l[2] = u /\ l[3] = q /\ l[4] = m /\ l[5] = s BY <2>2
    <3>2. l \in Seq(F) BY <2>2, <1>1
    <3> QED BY <3>1, <3>2, <1>2 DEF Within
  <2>3. CASE g.extra # "none" /\ l = <<p, u, q, m, x, s>>
    <3>1. Len(l) = 6 /\ l[1] = p /\ l[2] = u /\ l[3] = q /\ l[4] = m /\ l[5] = x /\ l[6] = s
      BY <2>3
    <3>2. l \in Seq(F) BY <2>3, <1>1
    <3> QED BY <3>1, <3>2, <1>2 DEF Within
  <2>4. CASE g.extra = "none" /\ l = <<p, u, m, s>>
    <3>1. Len(l) = 4 /\ l[1] = p /\ l[2] = u /\ l[3] = m /\ l[4] = s BY <2>4
    <3>2. l \in Seq(F) BY <2>4, <1>1
    <3> QED BY <3>1, <3>2, <1>2 DEF Within
  <2>5. CASE g.extra # "none" /\ l = <<p, u, m, x, s>>
    <3>1. Len(l) = 5 /\ l[1] = p /\ l[2] = u /\ l[3] = m /\ l[4] = x /\ l[5] = s BY <2>5
    <3>2. l \in Seq(F) BY <2>5, <1>1
    <3> QED BY <3>1, <3>2, <1>2 DEF Within
  <2> QED BY <1>3, <2>2, <2>3, <2>4, <2>5
<1>8. MainOnce(l)
  <2> HIDE DEF m
  <2>1. PICK n \in Nat : n = Len(l) BY <1>7, LenProperties
  <2> SUFFICES ASSUME NEW i \in 1 .. n, l[i] = m, NEW j \in i + 1 .. n PROVE l[j] # m
    BY <2>1 DEF MainOnce, m
  <2>2. j \in 1 .. n /\ i # j OBVIOUS
  <2> QED BY <2>1, <2>2, <1>7
<1>9. t \in Seq(F)
  <2>1. k \o r \in Seq(F) BY <1>4, ConcatProperties
  <2>2. y \o l \in Seq(F) BY <1>6, <1>7, ConcatProperties
  <2> QED BY <1>5, <2>1, <2>2, ConcatProperties
<1> QED BY <1>7, <1>8, <1>9 DEF F, l, t, u

LEMMA MainOnceCat ==
    ASSUME NEW S, NEW a \in Seq(S), NEW b \in Seq(S), MainOnce(b),
           \A n \in 1 .. Len(a) : a[n] # <<"mount", "win_main", "root">>
    PROVE  MainOnce(a \o b)
<1> DEFINE t == a \o b
           s == <<"mount", "win_main", "root">>
<1>1. PICK la \in Nat, lb \in Nat : la = Len(a) /\ lb = Len(b) BY LenProperties
<1>2. /\ Len(t) = la + lb
      /\ \A n \in 1 .. la : t[n] = a[n]
      /\ \A n \in 1 .. lb : t[la + n] = b[n]
  BY <1>1, Cat
<1> HIDE DEF t, s
<1>3. SUFFICES ASSUME NEW n \in 1 .. la + lb, t[n] = s, NEW m \in n + 1 .. la + lb
               PROVE  t[m] # s
  BY <1>2 DEF MainOnce, s, t
<1>4. n \notin 1 .. la BY <1>1, <1>2, <1>3 DEF s
<1>5. PICK i \in 1 .. lb : n = la + i
  <2>1. n - la \in 1 .. lb /\ n = la + (n - la) BY <1>4
  <2> QED BY <2>1
<1>6. PICK j \in 1 .. lb : m = la + j /\ j \in i + 1 .. lb
  <2>1. m - la \in 1 .. lb /\ m = la + (m - la) /\ m - la \in i + 1 .. lb BY <1>5
  <2> QED BY <2>1
<1>7. b[i] = s BY <1>2, <1>3, <1>5
<1>8. b[j] # s BY <1>1, <1>6, <1>7 DEF MainOnce, s
<1> QED BY <1>2, <1>6, <1>8

LEMMA FstabFirstCat ==
    ASSUME NEW S, NEW a \in Seq(S), NEW b \in Seq(S), Within(a, <<"fstab">>),
           \A n \in 1 .. Len(a) : a[n] # <<"clone">>
    PROVE  FstabFirst(a \o b)
<1> DEFINE t == a \o b
           s == <<"clone">>
           f == <<"fstab">>
<1>1. PICK la \in Nat, lb \in Nat : la = Len(a) /\ lb = Len(b) BY LenProperties
<1>2. Len(t) = la + lb /\ \A n \in 1 .. la : t[n] = a[n]
  BY <1>1, Cat
<1> HIDE DEF t, s, f
<1>3. SUFFICES ASSUME NEW n \in 1 .. la + lb, t[n] = s
               PROVE  \E m \in 1 .. n - 1 : t[m] = f
  BY <1>2 DEF FstabFirst, s, t, f
<1>4. n \notin 1 .. la BY <1>1, <1>2, <1>3 DEF s
<1>5. PICK i \in 1 .. la : a[i] = f BY <1>1 DEF Within, f
<1>6. i \in 1 .. n - 1 BY <1>4
<1> QED BY <1>2, <1>5, <1>6

\* The partitions are looked at, and fstab is read, before anything is cloned.
LEMMA LooksFor ==
    ASSUME NEW g \in GuestOS, g.os \in {"linux", "fortigate"}
    PROVE  /\ Within(DetermineRootPartition(g), <<"found">>)
           /\ g.os = "linux" => Within(GetRequiredMounts(g), <<"fstab">>)
<1> DEFINE K == LookOf(g.os)
           o == <<<<"enter">>>>
           a == When(InVG(g) # {}, <<<<"activate">>>>)
           b == When(g.extra = "lvm", Probe("extra"))
           c == When(g.root = "lvm", Probe("root"))
           d == When(g.root # "lvm" /\ g.extra = "plain", Probe("extra"))
           e == When(g.root = "plain", Probe("root"))
           l == <<<<"found">>, <<"leave">>>>
           r == DetermineRootPartition(g)
           f == <<<<"mount", "target", "root">>, <<"fstab">>, <<"leave">>>>
<1>1. "extra" \in FileSystem /\ "root" \in FileSystem BY DEF FileSystem
<1>2. \A h \in FileSystem : Probe(h) \in Seq(K)
  <2> TAKE h \in FileSystem
  <2>1. Part(Probe(h), K, 0, 0) BY PartProbe
  <2> QED BY <2>1 DEF Part
<1>3. o \in Seq(K) /\ a \in Seq(K)
  <2>1. Part(o, K, 0, 0 + 1) BY PartEnter
  <2>2. Part(a, K, 0, 0) BY PartActivate
  <2> QED BY <2>1, <2>2 DEF Part
<1>4. b \in Seq(K) /\ c \in Seq(K) /\ d \in Seq(K) /\ e \in Seq(K)
  BY <1>1, <1>2, WhenIn
<1>5. l \in Seq(K) /\ Within(l, <<"found">>)
  <2>1. Part(l, K, 1, 0) BY PartLeave
  <2> QED BY <2>1 DEF Part, Within
<1>6. r \in Seq(K)
  <2>1. Part(r, K, 0, 0) BY PartDetermine
  <2> QED BY <2>1 DEF Part
<1>7. r = o \o a \o b \o c \o d \o e \o l BY DEF DetermineRootPartition
<1>8. g.os = "linux" => /\ GetRequiredMounts(g) = o \o r \o a \o f
                        /\ f \in Seq(K) /\ Within(f, <<"fstab">>)
  <2>1. SUFFICES ASSUME g.os = "linux"
                 PROVE  f \in Seq(K) /\ Within(f, <<"fstab">>)
    BY DEF GetRequiredMounts
  <2>2. Part(f, K, 1, 0) BY <2>1, PartLeave
  <2>3. Len(f) = 3 /\ f[2] = <<"fstab">> OBVIOUS
  <2> HIDE DEF f
  <2>4. Within(f, <<"fstab">>) BY <2>3 DEF Within
  <2> QED BY <2>2, <2>4 DEF Part
<1> HIDE DEF K, o, a, b, c, d, e, l, r, f
<1>9. o \o a \o b \o c \o d \o e \in Seq(K) BY <1>3, <1>4, ConcatProperties
<1>10. Within(r, <<"found">>) BY <1>5, <1>7, <1>9, WithinCat
<1>11. ASSUME g.os = "linux" PROVE Within(GetRequiredMounts(g), <<"fstab">>)
  <2>1. o \o r \o a \in Seq(K) BY <1>3, <1>6, ConcatProperties
  <2> DEFINE p == o \o r \o a
  <2>2. p \in Seq(K) BY <2>1
  <2> HIDE DEF p
  <2>3. Within(p \o f, <<"fstab">>) BY <1>8, <1>11, <2>2, WithinCat
  <2> QED BY <1>8, <1>11, <2>3 DEF p
<1> QED BY <1>10, <1>11 DEF r

\* What else the dry run and the real run of a guest have in them.
Contains(t, g, c) ==
    /\ t \in Seq(Fits(g, c)) /\ MainOnce(t)
    /\ Within(t, <<"found">>)
    /\ g.os = "windows" => Within(t, <<"unlock">>)
    /\ (g.os = "linux" /\ c = "import") => Within(t, <<"fstab">>) /\ FstabFirst(t)

LEMMA NoMain ==
    ASSUME NEW g \in GuestOS, g.os # "windows", NEW c, NEW t \in Seq(Fits(g, c))
    PROVE  MainOnce(t)
<1> DEFINE m == <<"mount", "win_main", "root">>
<1>1. g.os \in {"linux", "fortigate"} BY DEF GuestOS
<1>2. m \notin StepsOf(g.os)
  <2>1. CASE g.os = "linux" BY <2>1 DEF StepsOf, LookOf, WorkOf
  <2>2. CASE g.os = "fortigate" BY <2>2 DEF StepsOf, LookOf, WorkOf
  <2> QED BY <1>1, <2>1, <2>2
<1>3. m \notin Fits(g, c) BY <1>2 DEF Fits
<1> HIDE DEF m
<1>4. \A n \in 1 .. Len(t) : t[n] # m BY <1>3, ElementOfSeq
<1> QED BY <1>4 DEF MainOnce, m

LEMMA LinuxContains ==
    ASSUME NEW g \in GuestOS, g.os = "linux", NEW c \in {"import", "post"}
    PROVE  Contains(PostImportTasks(g, c = "import"), g, c)
<1> DEFINE S == StepsOf(g.os)
           L == LookOf(g.os) \cup {<<"clean">>}
           k == <<<<"clean">>>>
           d == DetermineRootPartition(g)
           v == When(g.root = "lvm", <<<<"activate">>>>)
           q == GetRequiredMounts(g)
           z == SetupDiskClone
           l == LinuxWork(g)
           t == PostImportTasks(g, c = "import")
           f == <<"found">>
<1>1. t \in Seq(Fits(g, c)) /\ l \in Seq(Fits(g, c)) BY LinuxFits
<1>2. MainOnce(t) BY <1>1, NoMain
<1>3. Fits(g, c) \subseteq S BY DEF Fits
<1>4. k \in Seq(S) /\ d \in Seq(S) /\ v \in Seq(S) /\ q \in Seq(S) /\ z \in Seq(S)
  BY LinuxSteps
<1>5. k \in Seq(L) /\ d \in Seq(L) /\ q \in Seq(L)
  <2>1. d \in Seq(LookOf(g.os)) /\ q \in Seq(LookOf(g.os)) BY PartDetermine, PartRequired DEF Part
  <2>2. LookOf(g.os) \subseteq L OBVIOUS
  <2>3. k \in Seq(L) OBVIOUS
  <2> HIDE DEF L
  <2> QED BY <2>1, <2>2, <2>3, SeqMonotonic
<1>6. Within(d, f) /\ Within(q, <<"fstab">>) BY LooksFor
<1>7. L \subseteq S BY DEF StepsOf
<1>8. \A s \in L : s # <<"clone">> BY Apart
<1>9. IF c = "import" THEN t = (k \o (d \o q)) \o (z \o l)
      ELSE t = (k \o (d \o v)) \o l
  <2>1. CASE c = "import"
    <3>1. (c = "import") = TRUE BY <2>1
    <3> QED BY <2>1, <3>1, LinuxTasks
  <2>2. CASE c # "import"
    <3>1. (c = "import") = FALSE BY <2>2
    <3> QED BY <2>2, <3>1, LinuxTasks
  <2> QED BY <2>1, <2>2
<1> HIDE DEF S, L, k, d, v, q, z, l, t, f
<1>10. l \in Seq(S) BY <1>1, <1>3, SeqMonotonic
<1>11. CASE c = "import"
  <2> DEFINE a == k \o (d \o q)  b == z \o l
  <2>1. d \o q \in Seq(L) /\ Within(d \o q, f) /\ Within(d \o q, <<"fstab">>)
    BY <1>5, <1>6, ConcatProperties, WithinCat
  <2>2. a \in Seq(L) /\ Within(a, f) /\ Within(a, <<"fstab">>)
    BY <1>5, <2>1, ConcatProperties, WithinCat
  <2>3. b \in Seq(S) BY <1>4, <1>10, ConcatProperties
  <2> HIDE DEF a, b
  <2>4. a \in Seq(S) BY <1>7, <2>2, SeqMonotonic
  <2>5. \A n \in 1 .. Len(a) : a[n] # <<"clone">> BY <1>8, <2>2, ElementOfSeq
  <2>6. FstabFirst(a \o b) BY <2>2, <2>3, <2>4, <2>5, FstabFirstCat
  <2>7. Within(a \o b, f) /\ Within(a \o b, <<"fstab">>) BY <2>2, <2>3, <2>4, WithinCat
  <2>8. t = a \o b BY <1>9, <1>11 DEF a, b
  <2> QED BY <1>1, <1>2, <2>6, <2>7, <2>8 DEF Contains, t, f
<1>12. CASE c # "import"
  <2>1. d \o v \in Seq(S) /\ Within(d \o v, f) BY <1>4, <1>6, ConcatProperties, WithinCat
  <2>2. k \o (d \o v) \in Seq(S) /\ Within(k \o (d \o v), f)
    BY <1>4, <2>1, ConcatProperties, WithinCat
  <2> DEFINE p == k \o (d \o v)
  <2>3. p \in Seq(S) /\ Within(p, f) /\ t = p \o l BY <1>9, <1>12, <2>2
  <2> HIDE DEF p
  <2>4. Within(p \o l, f) BY <1>10, <2>3, WithinCat
  <2>5. Within(t, f) BY <2>3, <2>4
  <2> QED BY <1>1, <1>2, <1>12, <2>5 DEF Contains, t, f
<1> QED BY <1>11, <1>12

LEMMA WindowsContains ==
    ASSUME NEW g \in GuestOS, g.os = "windows", NEW c \in {"import", "post"}
    PROVE  Contains(PostImportTasks(g, c = "import"), g, c)
<1> DEFINE S == StepsOf(g.os)
           k == <<<<"clean">>>>
           r == <<<<"found">>>>
           y == When(c = "import", SetupDiskClone)
           l == WindowsWork(g)
           t == PostImportTasks(g, c = "import")
           m == <<"mount", "win_main", "root">>
           F == Fits(g, c)
<1>1. /\ k \in Seq(S) /\ r \in Seq(S) /\ y \in Seq(S) /\ l \in Seq(S)
      /\ t = (k \o r) \o (y \o l)
  BY WindowsTasks
<1>2. t \in Seq(F) /\ l \in Seq(F) /\ MainOnce(l) /\ Within(l, <<"unlock">>)
  BY WindowsFits
<1>3. Within(r, <<"found">>) BY DEF Within
<1>4. \A n \in 1 .. Len(y) : y[n] # m
  <2> DEFINE h == <<"clone">>
             i == <<"match">>
             j == <<"ensure">>
  <2>1. m # h /\ m # i /\ m # j OBVIOUS
  <2>2. y = <<>> \/ y = <<h, i, j>> BY DEF When, SetupDiskClone
  <2> HIDE DEF h, i, j, m, y
  <2>3. CASE y = <<>> BY <2>3
  <2>4. CASE y = <<h, i, j>>
    <3>1. Len(y) = 3 /\ y[1] = h /\ y[2] = i /\ y[3] = j BY <2>4
    <3> QED BY <2>1, <3>1
  <2> QED BY <2>2, <2>3, <2>4
<1>5. \A n \in 1 .. Len(k \o r) : (k \o r)[n] # m
  <2> DEFINE h == <<"clean">>
             i == <<"found">>
             w == k \o r
  <2>1. m # h /\ m # i OBVIOUS
  <2>2. w = <<h, i>> BY Snoc1
  <2> HIDE DEF h, i, m, w
  <2>3. Len(w) = 2 /\ w[1] = h /\ w[2] = i BY <2>2
  <2>4. \A n \in 1 .. Len(w) : w[n] # m BY <2>1, <2>3
  <2> QED BY <2>4 DEF w
<1> HIDE DEF S, k, r, y, l, t, m, F
<1>6. k \o r \in Seq(S) /\ Within(k \o r, <<"found">>) BY <1>1, <1>3, ConcatProperties, WithinCat
<1>7. y \o l \in Seq(S) /\ Within(y \o l, <<"unlock">>)
  BY <1>1, <1>2, ConcatProperties, WithinCat
<1>8. MainOnce(y \o l) BY <1>1, <1>2, <1>4, MainOnceCat DEF m
<1>9. Within(t, <<"found">>) /\ Within(t, <<"unlock">>) BY <1>1, <1>6, <1>7, WithinCat
<1>10. MainOnce(t)
  <2> DEFINE a == k \o r  b == y \o l
  <2>1. a \in Seq(S) /\ b \in Seq(S) /\ MainOnce(b) /\ \A n \in 1 .. Len(a) : a[n] # m
    BY <1>5, <1>6, <1>7, <1>8
  <2> HIDE DEF a, b
  <2>2. MainOnce(a \o b) BY <2>1, MainOnceCat DEF m
  <2> QED BY <2>2, <1>1 DEF a, b
<1> QED BY <1>2, <1>9, <1>10 DEF Contains, t, F

LEMMA FortigateContains ==
    ASSUME NEW g \in GuestOS, g.os = "fortigate", NEW c \in {"import", "post"}
    PROVE  Contains(PostImportTasks(g, c = "import"), g, c)
<1> DEFINE S == StepsOf(g.os)
           k == <<<<"clean">>>>
           n == DetermineFortigateVersion(g)
           d == DetermineRootPartition(g)
           v == When(g.root = "lvm", <<<<"activate">>>>)
           z == SetupDiskClone
           r == <<<<"replace">>>>
           t == PostImportTasks(g, c = "import")
           f == <<"found">>
<1>1. t \in Seq(Fits(g, c)) BY FortigateFits
<1>2. MainOnce(t) BY <1>1, NoMain
<1>3. /\ k \in Seq(S) /\ n \in Seq(S) /\ d \in Seq(S) /\ v \in Seq(S) /\ z \in Seq(S)
      /\ r \in Seq(S)
  BY FortigateSteps
<1>4. Within(d, f) BY LooksFor
<1>5. IF c = "import" THEN t = (n \o (k \o d)) \o (z \o r)
      ELSE t = (n \o (k \o (d \o v))) \o r
  <2>1. CASE c = "import"
    <3>1. (c = "import") = TRUE BY <2>1
    <3> QED BY <2>1, <3>1, FortigateTasks
  <2>2. CASE c # "import"
    <3>1. (c = "import") = FALSE BY <2>2
    <3> QED BY <2>2, <3>1, FortigateTasks
  <2> QED BY <2>1, <2>2
<1> HIDE DEF S, k, n, d, v, z, r, t, f
<1>6. ASSUME NEW w \in Seq(S), Within(w, f)
      PROVE  n \o (k \o w) \in Seq(S) /\ Within(n \o (k \o w), f)
  <2>1. k \o w \in Seq(S) /\ Within(k \o w, f) BY <1>3, <1>6, ConcatProperties, WithinCat
  <2> QED BY <1>3, <2>1, ConcatProperties, WithinCat
<1>7. CASE c = "import"
  <2>1. n \o (k \o d) \in Seq(S) /\ Within(n \o (k \o d), f) BY <1>3, <1>4, <1>6
  <2>2. z \o r \in Seq(S) BY <1>3, ConcatProperties
  <2> DEFINE p == n \o (k \o d)
  <2>3. p \in Seq(S) /\ Within(p, f) /\ t = p \o (z \o r) BY <1>5, <1>7, <2>1
  <2> HIDE DEF p
  <2>4. Within(p \o (z \o r), f) BY <2>2, <2>3, WithinCat
  <2>5. Within(t, f) BY <2>3, <2>4
  <2> QED BY <1>1, <1>2, <2>5 DEF Contains, t, f
<1>8. CASE c # "import"
  <2>1. d \o v \in Seq(S) /\ Within(d \o v, f) BY <1>3, <1>4, ConcatProperties, WithinCat
  <2>2. n \o (k \o (d \o v)) \in Seq(S) /\ Within(n \o (k \o (d \o v)), f) BY <2>1, <1>6
  <2> DEFINE p == n \o (k \o (d \o v))
  <2>3. p \in Seq(S) /\ Within(p, f) /\ t = p \o r BY <1>5, <1>8, <2>2
  <2> HIDE DEF p
  <2>4. Within(p \o r, f) BY <1>3, <2>3, WithinCat
  <2>5. Within(t, f) BY <2>3, <2>4
  <2> QED BY <1>1, <1>2, <2>5 DEF Contains, t, f
<1> QED BY <1>7, <1>8

LEMMA ProgramsContain ==
    ASSUME NEW g \in GuestOS, NEW c \in {"import", "post"}
    PROVE  /\ Contains(PostImportTasks(g, c = "import"), g, c)
           /\ g.root = "lvm" => \E j \in Flag : Flagged(PostImportTasks(g, c = "import"), "off", j)
<1>1. g.os \in {"linux", "windows", "fortigate"} BY DEF GuestOS
<1> QED BY <1>1, LinuxContains, WindowsContains, FortigateContains, FlagPrograms

-----------------------------------------------------------------------------
(* The inductive invariant *)

Busy == command \in {"import", "post"}
Going == Busy /\ mode # "fail"
Left(s) == Within(todo, s)

\* A Linux guest's tasks clean up first; another's leave nothing if not killed.
Tidy == guest.os = "linux" \/ kills = 0
Clean == mounts = <<>> /\ vg = "off" /\ clones = {}
AllOf == {f \in FileSystem : Has(guest, f)}

Placed == {m \in Mount : m.fs = "none" => m.at \in {"drivers", "backup"}}
Call == {<<"mark">>, <<"clean">>, <<"deactivate">>} \cup {<<"unmount", p>> : p \in Path}

Types ==
    /\ TypeOK /\ guest \in GuestOS
    /\ mounts \in Seq(Placed) /\ deferred \in Seq(Call)

Control ==
    /\ Program(todo, guest, command) /\ todo \in Seq(Fits(guest, command)) /\ MainOnce(todo)
    /\ mode = "fail" => todo = <<>>
    /\ ~Busy => todo = <<>> /\ deferred = <<>>
    /\ command = "post" => foretold
    /\ command = "failed" => mode = "fail"

\* The last k mounts are those that the deferred calls unmount, the last of them
\* first; the mounts below are leftovers.
Stacked(d, ms, k) ==
    /\ k <= Len(ms) /\ k <= Len(d)
    /\ \A j \in 1 .. k : d[j] = <<"unmount", ms[Len(ms) + 1 - j].at>>
    /\ \A j \in k + 1 .. Len(d) : d[j][1] # "unmount"
Foreign(m) == m.on # "clone" /\ (m.fs # "none" => guest[m.fs] # "lvm")
Base(k) ==
    /\ Tidy => (guest.os = "linux" /\ Left(<<"clean">>)) \/ k = Len(mounts)
    /\ command = "import" /\ ~Left(<<"clone">>) /\ mode # "fail" =>
         \A n \in 1 .. Len(mounts) - k : Foreign(mounts[n])
    /\ k > 0 /\ mode = "run" /\ todo # <<>> => Head(todo) \in Follows
StackFits == Busy /\ (mode # "fail" \/ guest.os # "fortigate") =>
    \E k \in Nat : Stacked(deferred, mounts, k) /\ Base(k)

\* A cleanup is among the deferred calls, n functions were entered since.
Up(d, n) ==
    \E c \in 1 .. Len(d), E \in [Nat -> Nat] :
        /\ d[Len(d) + 1 - c] = <<"clean">>
        /\ E[c] = 0 /\ E[Len(d)] = n
        /\ \A i \in c + 1 .. Len(d) :
             E[i] = E[i - 1] + (IF d[Len(d) + 1 - i] = <<"mark">> THEN 1 ELSE 0)

Cleaned == /\ Tidy => Clean
           /\ command = "import" => clones = {} /\ vg # "clone"
Balance == Going =>
    \E m \in Nat :
        /\ Nested(todo, m, 0)
        /\ \/ Left(<<"clean">>)
           \/ Up(deferred, IF mode = "leave" THEN m + 1 ELSE m)
           \/ todo = <<>> /\ mode = "run" /\ Cleaned
FailFits == Busy /\ mode = "fail" /\ guest.os # "fortigate" =>
    (\E n \in 1 .. Len(deferred) : deferred[n] = <<"clean">>) \/ (Tidy => Clean)
Idle ==
    /\ ~Busy /\ (guest.os = "linux" \/ (kills = 0 /\ (command = "none" \/ guest.os = "windows")))
         => Clean
    /\ command \in {"none", "post"} => clones = {} /\ vg # "clone"
    /\ command = "post" => rootAt = "disk"

PlanFits ==
    /\ Busy /\ guest.root = "lvm" => "root" \in plan
    /\ Going /\ command = "import" /\ guest.os = "linux" => plan = AllOf \/ FstabFirst(todo)

ClonesFit ==
    /\ guest.root = "lvm" => vg = "clone"
    /\ guest.os # "fortigate" =>
         /\ guest.extra = "lvm" => vg = "clone"
         /\ guest.extra = "plain" => "extra" \in clones
    /\ guest.root = "plain" => rootAt = "clone" \/ Head(todo) = <<"match">>
ClonesReady == Going /\ command = "import" =>
    \/ Left(<<"clone">>)
    \/ /\ mode = "run"
       /\ \A n \in 1 .. Len(todo) : todo[n] \in WorkOf(guest.os)
       /\ todo # <<>> => ClonesFit

Shaped(ms) ==
    /\ ms # <<>> => ms[1].at = "target"
    /\ \A n \in 2 .. Len(ms) : ms[n].at = "target/extra"
Shape == guest.os = "linux" =>
    /\ Shaped(mounts)
    /\ todo # <<>> /\ Head(todo) = <<"mount", "target/extra", "extra">> =>
         mode = "run" /\ mounts # <<>>

Spared(ms) == \A n \in 1 .. Len(ms) : ms[n].fs # "none" => ms[n].on # "disk"
SparesDisk ==
    /\ Going /\ command = "import" /\ guest.os # "fortigate" /\ ~Left(<<"clone">>) => Spared(mounts)
    /\ guest.os = "windows" /\ command \in {"none", "import"} => Spared(mounts)

Mounted(f) == \E n \in 1 .. Len(mounts) :
    mounts[n] = [at |-> MountStep(guest.os, f)[2], fs |-> f, on |-> "disk"]
Prepared == \A f \in FileSystem :
    Has(guest, f) /\ (guest.os = "fortigate" => f = "root") => <<"post", f, "disk">> \in written
Prepares ==
    /\ Going /\ command = "post" =>
         Left(IF guest.os = "fortigate" THEN <<"replace">> ELSE <<"scripts">>) \/ Prepared
    /\ command = "done" => Prepared
    /\ Going /\ command = "post" /\ guest.os # "fortigate" /\ todo # <<>> =>
         \A f \in FileSystem : Has(guest, f) =>
             Left(MountStep(guest.os, f)) \/ (mode = "run" /\ Mounted(f))

\* What the deferred calls are like when a flag is what is known of the volume group.
Knows(f) ==
    /\ f # "off" => vg # "off"
    /\ f = "entered" => deferred # <<>> /\ deferred[1] = <<"mark">>
    /\ f = "mounted" =>
         Len(deferred) > 1 /\ deferred[1][1] = "unmount" /\ deferred[2] = <<"mark">>
    /\ mode = "leave" =>
         /\ f \in {"off", "on"}
         /\ f = "on" => \/ deferred # <<>> /\ deferred[1] = <<"mark">>
                        \/ /\ Len(deferred) > 1 /\ deferred[1][1] = "unmount"
                           /\ deferred[2] = <<"mark">>
VGFits == Going /\ guest.root = "lvm" =>
    \E f \in Flag, j \in Flag : Flagged(todo, f, j) /\ Knows(f)

\* What the steps of a task have found out of the guest.
Supported ==
    /\ Has(guest, "root")
    /\ guest.os = "linux" => guest.extra # "unknown"
    /\ guest.os = "windows" => guest.bitlocker # "locked"
Learns ==
    /\ Going => Has(guest, "root") \/ Left(<<"found">>)
    /\ Going /\ guest.os = "windows" => guest.bitlocker # "locked" \/ Left(<<"unlock">>)
    /\ Going /\ command = "import" /\ guest.os = "linux" =>
         guest.extra # "unknown" \/ Left(<<"fstab">>)
    /\ foretold => Supported

MainFits == Busy /\ guest.os = "windows" /\ kills = 0 =>
    MountsAt("win_main") = {} \/ ~Left(<<"mount", "win_main", "root">>)
ActivateFits == Going /\ Tidy /\ Left(<<"activate">>) =>
    clones = {} \/ (guest.os = "linux" /\ Head(todo) = <<"clean">>)

Reason ==
    \/ ~Has(guest, "root")
    \/ guest.os = "linux" /\ guest.extra = "unknown"
    \/ guest.os = "windows" /\ guest.bitlocker = "locked"
    \/ guest.os = "linux" /\ OnlyExtraInVG /\ foretold
WhyFails == Tidy /\ mode = "fail" /\ ~faulty => Reason

-----------------------------------------------------------------------------
(* What is left of a program after a step *)

\* The empty program, when there is nothing to do.
LEMMA ProgramNone ==
    ASSUME NEW g \in GuestOS, NEW c
    PROVE  Program(<<>>, g, c) /\ <<>> \in Seq(Fits(g, c)) /\ MainOnce(<<>>)
<1> DEFINE t == <<>>
<1>1. t \in Seq(StepsOf(g.os)) /\ t \in Seq(Fits(g, c)) /\ Len(t) = 0 BY EmptySeq
<1>2. \A n \in 1 .. Len(t) : FALSE BY <1>1
<1>3. \A n \in 2 .. Len(t) : FALSE BY <1>1
<1> HIDE DEF t
<1>4. 0 \in Nat /\ Len(t) \in Nat BY <1>1
<1>5. Nested(t, 0, 0) BY <1>2, <1>4, NestedFlat
<1>6. Chain(t) /\ WorksLast(t) /\ CleansFirst(t) /\ MainOnce(t) /\ Stays(t, g)
  BY <1>2 DEF Chain, WorksLast, CleansFirst, MainOnce, Stays
<1>7. OnRoot(t) BY <1>3 DEF OnRoot
<1>8. ClonesLast(t, g.os) BY <1>2 DEF ClonesLast
<1>9. \A s : ~Within(t, s) BY <1>2 DEF Within
<1> QED BY <1>1, <1>4, <1>5, <1>6, <1>7, <1>8, <1>9 DEF Program, t

LEMMA WithinTail ==
    ASSUME NEW S, NEW t \in Seq(S), t # <<>>, NEW s
    PROVE  /\ Within(Tail(t), s) => Within(t, s)
           /\ Within(t, s) => Head(t) = s \/ Within(Tail(t), s)
           /\ Within(t, Head(t))
<1> DEFINE u == Tail(t)
<1>1. PICK l \in Nat : l = Len(t) /\ l > 0 /\ Head(t) = t[1] BY Shorter
<1>2. /\ Len(u) = l - 1 /\ \A n \in 1 .. l - 1 : u[n] = t[n + 1] /\ n + 1 \in 2 .. l
      /\ \A n \in 2 .. l : u[n - 1] = t[n] /\ n - 1 \in 1 .. l - 1
  BY <1>1, Shorter
<1> HIDE DEF u
<1>3. ASSUME NEW n \in 1 .. l - 1, u[n] = s PROVE Within(t, s)
  <2>1. n + 1 \in 1 .. l /\ t[n + 1] = s BY <1>2, <1>3
  <2> QED BY <2>1, <1>1 DEF Within
<1>4. ASSUME NEW n \in 1 .. l, t[n] = s PROVE t[1] = s \/ Within(u, s)
  <2>1. CASE n = 1 BY <2>1, <1>4
  <2>2. CASE n # 1
    <3>1. n \in 2 .. l BY <2>2
    <3>2. u[n - 1] = s /\ n - 1 \in 1 .. l - 1 BY <3>1, <1>2, <1>4
    <3> QED BY <3>2, <1>2 DEF Within
  <2> QED BY <2>1, <2>2
<1>5. 1 \in 1 .. l BY <1>1
<1> QED BY <1>1, <1>2, <1>3, <1>4, <1>5 DEF Within, u

\* The steps after the first one are still a program.
LEMMA ProgramTail ==
    ASSUME NEW g \in GuestOS, NEW c, NEW t, Program(t, g, c), t # <<>>
    PROVE  Program(Tail(t), g, c)
<1> DEFINE u == Tail(t)
           S == StepsOf(g.os)
<1>1. t \in Seq(S) BY DEF Program
<1>2. PICK l \in Nat : l = Len(t) /\ l > 0 /\ Head(t) = t[1] BY <1>1, Shorter
<1>3. /\ u \in Seq(S) /\ Len(u) = l - 1
      /\ \A n \in 1 .. l - 1 : u[n] = t[n + 1]
  BY <1>1, <1>2, Shorter
<1>4. \E j \in Nat : Nested(u, j, 0) BY <1>1, NestedTail DEF Program
<1>5. \A s : Within(u, s) => Within(t, s) BY <1>1, WithinTail
<1> HIDE DEF u, S
<1>6. \A n \in 1 .. l - 1 : n + 1 \in 1 .. l /\ n + 1 \in Nat BY <1>2
<1>7. Chain(u)
  <2> SUFFICES ASSUME NEW n \in 1 .. l - 1, u[n] \in Opens
               PROVE  n < l - 1 /\ u[n + 1] \in Follows
    BY <1>3 DEF Chain
  <2>1. n + 1 < l /\ t[(n + 1) + 1] \in Follows BY <1>2, <1>3, <1>6 DEF Chain, Program
  <2>2. n + 1 \in 1 .. l - 1 BY <2>1
  <2> QED BY <2>1, <2>2, <1>3
<1>8. OnRoot(u)
  <2> SUFFICES ASSUME NEW n \in 2 .. l - 1, u[n] = <<"mount", "target/extra", "extra">>
               PROVE  u[n - 1] = <<"mount", "target", "root">>
    BY <1>3 DEF OnRoot
  <2>1. n + 1 \in 2 .. l /\ n \in 1 .. l - 1 /\ n - 1 \in 1 .. l - 1 OBVIOUS
  <2>2. t[(n + 1) - 1] = <<"mount", "target", "root">> BY <2>1, <1>2, <1>3 DEF OnRoot, Program
  <2>3. (n + 1) - 1 = n /\ (n - 1) + 1 = n OBVIOUS
  <2>4. u[n - 1] = t[(n - 1) + 1] BY <2>1, <1>3
  <2> QED BY <2>2, <2>3, <2>4
<1>9. ClonesLast(u, g.os)
  <2> SUFFICES ASSUME NEW n \in 1 .. l - 1, u[n] = <<"clone">>
               PROVE  /\ n < l - 1 /\ u[n + 1] = <<"match">>
                      /\ \A m \in n + 1 .. l - 1 : u[m] \in WorkOf(g.os)
                      /\ \A m \in 1 .. n - 1 : u[m] \in LookOf(g.os) \cup {<<"clean">>}
    BY <1>3 DEF ClonesLast
  <2>1. t[n + 1] = <<"clone">> /\ n + 1 \in 1 .. l BY <1>3, <1>6
  <2>2. /\ n + 1 < l /\ t[(n + 1) + 1] = <<"match">>
        /\ \A m \in (n + 1) + 1 .. l : t[m] \in WorkOf(g.os)
        /\ \A m \in 1 .. (n + 1) - 1 : t[m] \in LookOf(g.os) \cup {<<"clean">>}
    BY <2>1, <1>2 DEF ClonesLast, Program
  <2>3. n + 1 \in 1 .. l - 1 BY <2>2
  <2>4. u[n + 1] = <<"match">> BY <2>2, <2>3, <1>3
  <2>5. ASSUME NEW m \in n + 1 .. l - 1 PROVE u[m] \in WorkOf(g.os)
    <3>1. m \in 1 .. l - 1 /\ m + 1 \in (n + 1) + 1 .. l OBVIOUS
    <3> QED BY <3>1, <2>2, <1>3
  <2>6. ASSUME NEW m \in 1 .. n - 1 PROVE u[m] \in LookOf(g.os) \cup {<<"clean">>}
    <3>1. m \in 1 .. l - 1 /\ m + 1 \in 1 .. (n + 1) - 1 OBVIOUS
    <3> QED BY <3>1, <2>2, <1>3
  <2> QED BY <2>2, <2>4, <2>5, <2>6
<1>10. WorksLast(u)
  <2> SUFFICES ASSUME NEW n \in 1 .. l - 1, u[n] \in {<<"scripts">>, <<"replace">>}
               PROVE  n = l - 1
    BY <1>3 DEF WorksLast
  <2>1. n + 1 = l BY <1>2, <1>3, <1>6 DEF WorksLast, Program
  <2> QED BY <2>1
<1>11. ASSUME g.os # "fortigate" PROVE CleansFirst(u) /\ Stays(u, g)
  <2>1. CleansFirst(t) /\ Stays(t, g) BY <1>11 DEF Program
  <2>2. ASSUME NEW n \in 1 .. l - 1, u[n] = <<"clean">> PROVE n = 1
    <3>1. n + 1 = 1 BY <1>2, <1>3, <1>6, <2>1, <2>2 DEF CleansFirst
    <3> QED BY <3>1
  <2>3. ASSUME NEW n \in 1 .. l - 1, u[n] \in {<<"leave">>, <<"clean">>},
               NEW f \in FileSystem, Has(g, f)
        PROVE  \E m \in n + 1 .. l - 1 : u[m] = MountStep(g.os, f)
    <3>1. t[n + 1] \in {<<"leave">>, <<"clean">>} /\ n + 1 \in 1 .. l BY <1>3, <1>6, <2>3
    <3>2. PICK m \in (n + 1) + 1 .. l : t[m] = MountStep(g.os, f)
      BY <1>2, <2>1, <2>3, <3>1 DEF Stays
    <3>3. m - 1 \in n + 1 .. l - 1 /\ m - 1 \in 1 .. l - 1 /\ (m - 1) + 1 = m OBVIOUS
    <3>4. u[m - 1] = t[(m - 1) + 1] BY <3>3, <1>3
    <3> QED BY <3>2, <3>3, <3>4
  <2> QED BY <2>2, <2>3, <1>3 DEF CleansFirst, Stays
<1> QED BY <1>3, <1>4, <1>5, <1>7, <1>8, <1>9, <1>10, <1>11 DEF Program, u, S

LEMMA MainOnceTail ==
    ASSUME NEW S, NEW t \in Seq(S), t # <<>>, MainOnce(t)
    PROVE  /\ MainOnce(Tail(t))
           /\ Head(t) = <<"mount", "win_main", "root">> =>
                ~Within(Tail(t), <<"mount", "win_main", "root">>)
<1> DEFINE u == Tail(t)
           s == <<"mount", "win_main", "root">>
<1>1. PICK l \in Nat : l = Len(t) /\ l > 0 /\ Head(t) = t[1] BY Shorter
<1>2. Len(u) = l - 1 /\ \A n \in 1 .. l - 1 : u[n] = t[n + 1] BY <1>1, Shorter
<1>3. \A n \in 1 .. l : t[n] = s => \A m \in n + 1 .. l : t[m] # s BY <1>1 DEF MainOnce
<1> HIDE DEF u, s
<1>4. ASSUME NEW n \in 1 .. l - 1, u[n] = s, NEW m \in n + 1 .. l - 1 PROVE u[m] # s
  <2>1. /\ n + 1 \in 1 .. l /\ m + 1 \in (n + 1) + 1 .. l /\ m \in 1 .. l - 1
    OBVIOUS
  <2> QED BY <2>1, <1>2, <1>3, <1>4
<1>5. ASSUME t[1] = s, NEW n \in 1 .. l - 1 PROVE u[n] # s
  <2>1. 1 \in 1 .. l /\ n + 1 \in 1 + 1 .. l BY <1>1
  <2> QED BY <2>1, <1>2, <1>3, <1>5
<1> QED BY <1>1, <1>2, <1>4, <1>5 DEF MainOnce, Within, u, s

LEMMA FstabTail ==
    ASSUME NEW S, NEW t \in Seq(S), t # <<>>, FstabFirst(t)
    PROVE  /\ Head(t) # <<"clone">>
           /\ Head(t) # <<"fstab">> => FstabFirst(Tail(t))
<1> DEFINE u == Tail(t)
           s == <<"clone">>
           f == <<"fstab">>
<1>1. PICK l \in Nat : l = Len(t) /\ l > 0 /\ Head(t) = t[1] BY Shorter
<1>2. Len(u) = l - 1 /\ \A n \in 1 .. l - 1 : u[n] = t[n + 1] BY <1>1, Shorter
<1>3. \A n \in 1 .. l : t[n] = s => \E m \in 1 .. n - 1 : t[m] = f BY <1>1 DEF FstabFirst
<1> HIDE DEF u, s, f
<1>4. t[1] # s
  <2>1. 1 \in 1 .. l /\ ~\E m \in 1 .. 1 - 1 : TRUE BY <1>1
  <2> QED BY <2>1, <1>3
<1>5. ASSUME t[1] # f, NEW n \in 1 .. l - 1, u[n] = s PROVE \E m \in 1 .. n - 1 : u[m] = f
  <2>1. n + 1 \in 1 .. l /\ t[n + 1] = s BY <1>2, <1>5
  <2>2. PICK m \in 1 .. (n + 1) - 1 : t[m] = f BY <2>1, <1>3
  <2>3. m # 1 BY <2>2, <1>5
  <2>4. m - 1 \in 1 .. n - 1 /\ m - 1 \in 1 .. l - 1 /\ (m - 1) + 1 = m BY <2>3
  <2>5. u[m - 1] = t[(m - 1) + 1] BY <2>4, <1>2
  <2> QED BY <2>2, <2>4, <2>5
<1> QED BY <1>1, <1>2, <1>4, <1>5 DEF FstabFirst, u, s, f

\* What the next step tells of the ones after it.
LEMMA NextStep ==
    ASSUME NEW g \in GuestOS, NEW c, NEW t, Program(t, g, c), t # <<>>
    PROVE  /\ Head(t) \in StepsOf(g.os)
           /\ Head(t) \in Opens => Tail(t) # <<>> /\ Head(Tail(t)) \in Follows
           /\ Tail(t) # <<>> /\ Head(Tail(t)) = <<"mount", "target/extra", "extra">>
                => Head(t) = <<"mount", "target", "root">>
           /\ Head(t) \in {<<"scripts">>, <<"replace">>} => Tail(t) = <<>>
<1> DEFINE u == Tail(t)
           S == StepsOf(g.os)
<1>1. t \in Seq(S) BY DEF Program
<1>2. PICK l \in Nat : l = Len(t) /\ l > 0 /\ Head(t) = t[1] BY <1>1, Shorter
<1>3. /\ u \in Seq(S) /\ Len(u) = l - 1
      /\ \A n \in 1 .. l - 1 : u[n] = t[n + 1]
  BY <1>1, <1>2, Shorter
<1> HIDE DEF u
<1>4. l > 1 => u # <<>> /\ Head(u) = t[2]
  <2>1. SUFFICES ASSUME l > 1 PROVE u # <<>> /\ Head(u) = t[2] OBVIOUS
  <2>2. 1 \in 1 .. l - 1 /\ 1 + 1 = 2 BY <2>1
  <2>3. u[1] = t[2] BY <2>2, <1>3
  <2>4. Len(u) # 0 BY <2>1, <1>3
  <2>5. u # <<>> BY <2>4, <1>3, EmptySeq
  <2> QED BY <2>3, <2>5, <1>3, Shorter
<1>5. ~(l > 1) => u = <<>>
  <2>1. ~(l > 1) => Len(u) = 0 BY <1>2, <1>3
  <2> QED BY <2>1, <1>3, EmptySeq
<1>6. 1 \in 1 .. l BY <1>2
<1>7. t[1] \in S BY <1>1, <1>2, <1>6, ElementOfSeq
<1>8. t[1] \in Opens => 1 < l /\ t[1 + 1] \in Follows BY <1>2, <1>6 DEF Program, Chain
<1>9. l > 1 /\ t[2] = <<"mount", "target/extra", "extra">> => t[1] = <<"mount", "target", "root">>
  <2>1. SUFFICES ASSUME l > 1, t[2] = <<"mount", "target/extra", "extra">>
                 PROVE  t[1] = <<"mount", "target", "root">>
    OBVIOUS
  <2>2. 2 \in 2 .. l /\ 2 - 1 = 1 BY <2>1
  <2>3. t[2 - 1] = <<"mount", "target", "root">> BY <2>1, <2>2, <1>2 DEF Program, OnRoot
  <2> QED BY <2>2, <2>3
<1>10. t[1] \in {<<"scripts">>, <<"replace">>} => 1 = l BY <1>2, <1>6 DEF Program, WorksLast
<1>11. 1 = l => ~(l > 1) OBVIOUS
<1>12. 1 + 1 = 2 /\ (1 < l => l > 1) BY <1>2
<1> QED BY <1>2, <1>4, <1>5, <1>7, <1>8, <1>9, <1>10, <1>11, <1>12 DEF u

LEMMA CleanStep ==
    ASSUME NEW g \in GuestOS, g.os # "fortigate", NEW c, NEW t, Program(t, g, c), t # <<>>
    PROVE  /\ Within(t, <<"clean">>) => Head(t) = <<"clean">>
           /\ ~Within(Tail(t), <<"clean">>)
           /\ Head(t) \in {<<"leave">>, <<"clean">>} =>
                \A f \in FileSystem : Has(g, f) => Within(Tail(t), MountStep(g.os, f))
<1> DEFINE u == Tail(t)
           S == StepsOf(g.os)
           k == <<"clean">>
<1>1. t \in Seq(S) BY DEF Program
<1>2. PICK l \in Nat : l = Len(t) /\ l > 0 /\ Head(t) = t[1] BY <1>1, Shorter
<1>3. Len(u) = l - 1 /\ \A n \in 1 .. l - 1 : u[n] = t[n + 1]
  BY <1>1, <1>2, Shorter
<1>4. \A n \in 1 .. l : t[n] = k => n = 1 BY <1>2 DEF Program, CleansFirst
<1>5. Stays(t, g) BY DEF Program
<1> HIDE DEF u, k
<1>6. \A n \in 1 .. l - 1 : u[n] # k
  <2> SUFFICES ASSUME NEW n \in 1 .. l - 1, u[n] = k PROVE FALSE OBVIOUS
  <2>1. n + 1 \in 1 .. l /\ n + 1 # 1 OBVIOUS
  <2> QED BY <2>1, <1>3, <1>4
<1>7. Within(t, k) => t[1] = k BY <1>2, <1>4 DEF Within
<1>8. ASSUME t[1] \in {<<"leave">>, k}, NEW f \in FileSystem, Has(g, f)
      PROVE  Within(u, MountStep(g.os, f))
  <2>1. 1 \in 1 .. l BY <1>2
  <2>2. PICK m \in 1 + 1 .. l : t[m] = MountStep(g.os, f) BY <2>1, <1>2, <1>5, <1>8 DEF Stays, k
  <2>3. m - 1 \in 1 .. l - 1 /\ (m - 1) + 1 = m OBVIOUS
  <2>4. u[m - 1] = t[(m - 1) + 1] BY <2>3, <1>3
  <2> QED BY <2>2, <2>3, <2>4, <1>3 DEF Within
<1> QED BY <1>2, <1>3, <1>6, <1>7, <1>8 DEF Within, u, k

LEMMA CloneStep ==
    ASSUME NEW g \in GuestOS, NEW c, NEW t, Program(t, g, c), t # <<>>
    PROVE  /\ Head(t) = <<"clone">> =>
                /\ Tail(t) # <<>> /\ Head(Tail(t)) = <<"match">>
                /\ \A n \in 1 .. Len(Tail(t)) : Tail(t)[n] \in WorkOf(g.os)
           /\ Within(t, <<"clone">>) /\ Head(t) # <<"clone">> =>
                Head(t) \in LookOf(g.os) \cup {<<"clean">>} /\ Within(Tail(t), <<"clone">>)
           /\ (\A n \in 1 .. Len(t) : t[n] \in WorkOf(g.os)) =>
                /\ Head(t) \in WorkOf(g.os)
                /\ \A n \in 1 .. Len(Tail(t)) : Tail(t)[n] \in WorkOf(g.os)
<1> DEFINE u == Tail(t)
           S == StepsOf(g.os)
           h == <<"clone">>
<1>1. t \in Seq(S) BY DEF Program
<1>2. PICK l \in Nat : l = Len(t) /\ l > 0 /\ Head(t) = t[1] BY <1>1, Shorter
<1>3. /\ u \in Seq(S) /\ Len(u) = l - 1
      /\ \A n \in 1 .. l - 1 : u[n] = t[n + 1]
  BY <1>1, <1>2, Shorter
<1>4. \A n \in 1 .. l : t[n] = h =>
        /\ n < l /\ t[n + 1] = <<"match">>
        /\ \A m \in n + 1 .. l : t[m] \in WorkOf(g.os)
        /\ \A m \in 1 .. n - 1 : t[m] \in LookOf(g.os) \cup {<<"clean">>}
  BY <1>2 DEF Program, ClonesLast
<1>5. Within(t, h) /\ Head(t) # h => Within(u, h) BY <1>1, WithinTail
<1> HIDE DEF u, h, S
<1>6. 1 \in 1 .. l BY <1>2
<1>7. ASSUME t[1] = h
      PROVE  /\ u # <<>> /\ Head(u) = <<"match">>
             /\ \A n \in 1 .. l - 1 : u[n] \in WorkOf(g.os)
  <2>1. /\ 1 < l /\ t[1 + 1] = <<"match">>
        /\ \A m \in 1 + 1 .. l : t[m] \in WorkOf(g.os)
    BY <1>4, <1>6, <1>7
  <2>2. 1 \in 1 .. l - 1 /\ Len(u) # 0 BY <2>1, <1>3
  <2>3. u # <<>> BY <2>2, <1>3, EmptySeq
  <2>4. u[1] = <<"match">> BY <2>1, <2>2, <1>3
  <2>5. Head(u) = u[1] BY <2>3, <1>3, Shorter
  <2>6. ASSUME NEW n \in 1 .. l - 1 PROVE u[n] \in WorkOf(g.os)
    <3>1. n + 1 \in 1 + 1 .. l OBVIOUS
    <3> QED BY <3>1, <2>1, <1>3
  <2> QED BY <2>3, <2>4, <2>5, <2>6
<1>8. ASSUME NEW n \in 1 .. l, t[n] = h, t[1] # h
      PROVE  t[1] \in LookOf(g.os) \cup {<<"clean">>}
  <2>1. n # 1 BY <1>8
  <2>2. 1 \in 1 .. n - 1 BY <2>1
  <2> QED BY <2>2, <1>4, <1>8
<1>9. ASSUME \A n \in 1 .. l : t[n] \in WorkOf(g.os)
      PROVE  \A n \in 1 .. l - 1 : u[n] \in WorkOf(g.os)
  <2> TAKE n \in 1 .. l - 1
  <2>1. n + 1 \in 1 .. l OBVIOUS
  <2> QED BY <2>1, <1>3, <1>9
<1> QED BY <1>2, <1>3, <1>5, <1>6, <1>7, <1>8, <1>9 DEF Within, u, h

-----------------------------------------------------------------------------
(* What is mounted after some of it is unmounted *)

LEMMA SmallestNumber ==
    ASSUME NEW S \in SUBSET Nat, S # {}
    PROVE  \E n \in S : \A m \in S : n <= m
<1>1. \E R : IsWellFoundedOn(R, Nat) /\ \A m, n \in Nat : m < n => <<m, n>> \in R
  <2>1. \A m, n \in Nat : m < n => <<m, n>> \in OpToRel(<, Nat) BY DEF OpToRel
  <2> QED BY <2>1, NatLessThanWellFounded, Zenon
<1>2. PICK R : IsWellFoundedOn(R, Nat) /\ \A m, n \in Nat : m < n => <<m, n>> \in R
  BY <1>1, Zenon
<1>3. S \subseteq Nat /\ S # {} /\ IsWellFoundedOn(R, Nat) BY <1>2
<1>4. PICK n \in S : \A m \in S : ~ (<<m, n>> \in R) BY <1>3, WFMin
<1>5. ASSUME NEW m \in S PROVE n <= m
  <2>1. n \in Nat /\ m \in Nat OBVIOUS
  <2>2. ~(m < n) BY <2>1, <1>2, <1>4, Zenon
  <2> QED BY <2>1, <2>2
<1> QED BY <1>5

Below(S, k) == {m \in S : m < k}

LEMMA BelowFacts ==
    ASSUME NEW l \in Nat, NEW S \in SUBSET (1 .. l)
    PROVE  /\ IsFiniteSet(S) /\ Cardinality(S) \in Nat /\ Cardinality(S) <= l
           /\ \A k \in Nat : Cardinality(Below(S, k)) \in Nat
           /\ Cardinality(Below(S, 1)) = 0
           /\ Cardinality(Below(S, l + 1)) = Cardinality(S)
           /\ \A k \in 1 .. l : Cardinality(Below(S, k + 1)) =
                IF k \in S THEN Cardinality(Below(S, k)) + 1 ELSE Cardinality(Below(S, k))
<1>1. IsFiniteSet(1 .. l) /\ Cardinality(1 .. l) = l
  <2>1. 1 \in Int /\ l \in Int OBVIOUS
  <2>2. IsFiniteSet(1 .. l) /\ Cardinality(1 .. l) = IF 1 > l THEN 0 ELSE l - 1 + 1
    BY <2>1, FS_Interval
  <2> QED BY <2>2
<1>2. IsFiniteSet(S) /\ Cardinality(S) <= l BY <1>1, FS_Subset
<1>3. \A T \in SUBSET S : IsFiniteSet(T) /\ Cardinality(T) \in Nat
  BY <1>2, FS_Subset, FS_CardinalityType
<1>4. \A k \in Nat : Below(S, k) \in SUBSET S BY DEF Below
<1>5. Below(S, 1) = {} /\ Below(S, l + 1) = S
  <2>1. \A m \in S : m \in 1 .. l /\ ~(m < 1) /\ m < l + 1 OBVIOUS
  <2> QED BY <2>1 DEF Below
<1>6. ASSUME NEW k \in 1 .. l
      PROVE  Cardinality(Below(S, k + 1)) =
                IF k \in S THEN Cardinality(Below(S, k)) + 1 ELSE Cardinality(Below(S, k))
  <2>1. k \in Nat OBVIOUS
  <2>2. IsFiniteSet(Below(S, k)) BY <2>1, <1>3, <1>4
  <2>3. CASE k \in S
    <3>1. Below(S, k + 1) = Below(S, k) \cup {k}
      <4>1. \A m \in S : m < k + 1 <=> m < k \/ m = k
        <5> TAKE m \in S
        <5>1. m \in Nat /\ k \in Nat OBVIOUS
        <5> QED BY <5>1
      <4> QED BY <2>3, <4>1 DEF Below
    <3>2. k \notin Below(S, k) BY DEF Below
    <3> HIDE DEF Below
    <3>3. Cardinality(Below(S, k) \cup {k}) = Cardinality(Below(S, k)) + 1
      BY <2>2, <3>2, FS_AddElement
    <3> QED BY <2>3, <3>1, <3>3
  <2>4. CASE k \notin S
    <3>1. Below(S, k + 1) = Below(S, k)
      <4>1. \A m \in S : m < k + 1 <=> m < k
        <5> TAKE m \in S
        <5>1. m \in Nat /\ k \in Nat /\ m # k BY <2>4
        <5> QED BY <5>1
      <4> QED BY <4>1 DEF Below
    <3> QED BY <2>4, <3>1
  <2> QED BY <2>3, <2>4
<1>7. Cardinality(Below(S, 1)) = 0 BY <1>5, FS_EmptySet
<1> QED BY <1>2, <1>3, <1>4, <1>5, <1>6, <1>7

\* The n-th element of a set of numbers.
LEMMA NthOf ==
    ASSUME NEW l \in Nat, NEW S \in SUBSET (1 .. l), NEW n \in 1 .. Cardinality(S)
    PROVE  \E k \in S : Cardinality({m \in S : m < k}) = n - 1
<1> DEFINE C(k) == Cardinality(Below(S, k))
           T == {k \in Nat : k >= 1 /\ C(k) >= n}
<1>1. /\ Cardinality(S) \in Nat /\ \A k \in Nat : C(k) \in Nat
      /\ C(1) = 0 /\ C(l + 1) = Cardinality(S)
      /\ \A k \in 1 .. l : C(k + 1) = IF k \in S THEN C(k) + 1 ELSE C(k)
  BY BelowFacts
<1>2. n \in Nat /\ n >= 1 /\ n <= Cardinality(S) BY <1>1
<1> HIDE DEF C
<1>3. l + 1 \in T BY <1>1, <1>2
<1>4. T \in SUBSET Nat /\ T # {} BY <1>3
<1>5. PICK k \in T : \A m \in T : k <= m BY <1>4, SmallestNumber
<1>6. k \in Nat /\ k >= 1 /\ C(k) >= n /\ k <= l + 1 BY <1>3, <1>5
<1>7. k # 1
  <2>1. 0 \in Nat /\ ~(0 >= n) BY <1>2
  <2> QED BY <2>1, <1>1, <1>6
<1> DEFINE j == k - 1
<1>8. j \in 1 .. l /\ j + 1 = k /\ j \in Nat /\ j >= 1 /\ ~(k <= j) BY <1>6, <1>7
<1>9. ~(C(j) >= n) BY <1>5, <1>8
<1>10. C(j) \in Nat /\ C(j + 1) = IF j \in S THEN C(j) + 1 ELSE C(j) BY <1>1, <1>8
<1>11. C(j + 1) >= n BY <1>6, <1>8
<1> HIDE DEF j
<1>12. j \in S /\ C(j) = n - 1
  <2>1. PICK x \in Nat : x = C(j) BY <1>10
  <2>2. C(j + 1) = IF j \in S THEN x + 1 ELSE x BY <1>10, <2>1
  <2>3. ~(x >= n) BY <1>9, <2>1
  <2> QED BY <2>1, <2>2, <2>3, <1>2, <1>11
<1> QED BY <1>12 DEF C, Below

LEMMA SeqOfFun ==
    ASSUME NEW S, NEW n \in Nat, NEW f \in [1 .. n -> S]
    PROVE  f \in Seq(S) /\ Len(f) = n
OBVIOUS

LEMMA UnmountedSome ==
    ASSUME NEW S, mounts \in Seq(S), NEW gone
    PROVE  /\ Unmounted(gone) \in Seq(S)
           /\ \A n \in 1 .. Len(Unmounted(gone)) : \E k \in 1 .. Len(mounts) :
                Unmounted(gone)[n] = mounts[k] /\ k \notin gone
<1> DEFINE left == DOMAIN mounts \ gone
           c == Cardinality(left)
           w(n) == CHOOSE k \in left : Cardinality({m \in left : m < k}) = n - 1
           u == Unmounted(gone)
<1>1. PICK l \in Nat : l = Len(mounts) BY LenProperties
<1>2. left \in SUBSET (1 .. l) /\ left \cap gone = {} BY <1>1, LenProperties
<1>3. u = [n \in 1 .. c |-> mounts[w(n)]] BY DEF Unmounted
<1>4. c \in Nat BY <1>2, BelowFacts
<1> HIDE DEF left, c, u
<1>5. ASSUME NEW n \in 1 .. c PROVE w(n) \in left
  <2>1. n \in 1 .. Cardinality(left) BY DEF c
  <2>2. left \in SUBSET (1 .. l) BY <1>2
  <2>3. \E k \in left : Cardinality({m \in left : m < k}) = n - 1 BY <2>1, <2>2, NthOf, Zenon
  <2> QED BY <2>3
<1> HIDE DEF w
<1>6. \A n \in 1 .. c : w(n) \in 1 .. l /\ w(n) \notin gone BY <1>2, <1>5
<1>7. \A n \in 1 .. c : mounts[w(n)] \in S BY <1>1, <1>6, ElementOfSeq
<1>8. u \in [1 .. c -> S] BY <1>3, <1>7
<1>9. u \in Seq(S) /\ Len(u) = c BY <1>4, <1>8, SeqOfFun
<1>10. \A n \in 1 .. c : u[n] = mounts[w(n)] BY <1>3
<1> QED BY <1>1, <1>6, <1>9, <1>10 DEF u

LEMMA UnmountedAll ==
    ASSUME NEW S, mounts \in Seq(S), NEW gone, DOMAIN mounts \subseteq gone
    PROVE  Unmounted(gone) = <<>>
<1> DEFINE u == Unmounted(gone)
<1>1. u \in Seq(S) /\ \A n \in 1 .. Len(u) : \E k \in 1 .. Len(mounts) : k \notin gone
  BY UnmountedSome
<1>2. DOMAIN mounts = 1 .. Len(mounts) BY LenProperties
<1> HIDE DEF u
<1>3. PICK l \in Nat : l = Len(u) BY <1>1, LenProperties
<1>4. \A n \in 1 .. l : FALSE BY <1>1, <1>2, <1>3
<1>5. l = 0
  <2>1. l > 0 => 1 \in 1 .. l OBVIOUS
  <2> QED BY <2>1, <1>4
<1> QED BY <1>1, <1>3, <1>5, EmptySeq DEF u

LEMMA UnmountedLast ==
    ASSUME NEW S, mounts \in Seq(S), mounts # <<>>
    PROVE  /\ Unmounted({Len(mounts)}) \in Seq(S)
           /\ Len(Unmounted({Len(mounts)})) = Len(mounts) - 1
           /\ \A n \in 1 .. Len(mounts) - 1 : Unmounted({Len(mounts)})[n] = mounts[n]
<1>1. PICK l \in Nat : l = Len(mounts) /\ l > 0 BY Shorter
<1> DEFINE left == DOMAIN mounts \ {l}
           c == Cardinality(left)
           w(n) == CHOOSE k \in left : Cardinality({m \in left : m < k}) = n - 1
           u == Unmounted({l})
<1>2. left = 1 .. l - 1
  <2>1. DOMAIN mounts = 1 .. l BY <1>1, LenProperties
  <2>2. (1 .. l) \ {l} = 1 .. l - 1 BY <1>1
  <2> QED BY <2>1, <2>2
<1>3. \A i \in Nat : Cardinality(1 .. i) = i
  <2> TAKE i \in Nat
  <2>1. 1 \in Int /\ i \in Int OBVIOUS
  <2>2. Cardinality(1 .. i) = IF 1 > i THEN 0 ELSE i - 1 + 1 BY <2>1, FS_Interval
  <2> QED BY <2>2
<1>4. u = [n \in 1 .. c |-> mounts[w(n)]] BY DEF Unmounted
<1>5. c = l - 1
  <2>1. l - 1 \in Nat BY <1>1
  <2>2. Cardinality(1 .. l - 1) = l - 1 BY <2>1, <1>3
  <2> HIDE DEF left
  <2> QED BY <2>2, <1>2
<1> HIDE DEF c, u
<1>6. ASSUME NEW n \in 1 .. l - 1 PROVE w(n) = n
  <2>1. \A k \in left : {m \in left : m < k} = 1 .. k - 1 BY <1>1, <1>2
  <2>2. \A k \in left : Cardinality({m \in left : m < k}) = k - 1
    <3> TAKE k \in left
    <3>1. k - 1 \in Nat BY <1>2
    <3> QED BY <2>1, <3>1, <1>3
  <2>3. n \in left BY <1>2
  <2> HIDE DEF left
  <2>4. \A k \in left : Cardinality({m \in left : m < k}) = n - 1 <=> k = n
    <3> TAKE k \in left
    <3>1. k \in Nat BY <1>2
    <3> QED BY <2>2, <3>1
  <2> QED BY <2>3, <2>4
<1> HIDE DEF w, left
<1>7. \A n \in 1 .. l - 1 : u[n] = mounts[n] BY <1>4, <1>5, <1>6
<1>8. \A n \in 1 .. l - 1 : mounts[n] \in S
  <2> TAKE n \in 1 .. l - 1
  <2>1. n \in 1 .. l OBVIOUS
  <2> QED BY <2>1, <1>1, ElementOfSeq
<1>9. u \in [1 .. l - 1 -> S] BY <1>4, <1>5, <1>6, <1>8
<1>10. l - 1 \in Nat BY <1>1
<1>11. u \in Seq(S) /\ Len(u) = l - 1 BY <1>9, <1>10, SeqOfFun
<1> QED BY <1>1, <1>7, <1>11 DEF u

-----------------------------------------------------------------------------
(* The deferred calls *)

LEMMA Push ==
    ASSUME NEW S, NEW d \in Seq(S), NEW x \in S
    PROVE  /\ <<x>> \o d \in Seq(S) /\ <<x>> \o d # <<>>
           /\ Len(d) \in Nat /\ Len(<<x>> \o d) = Len(d) + 1
           /\ (<<x>> \o d)[1] = x
           /\ \A n \in 1 .. Len(d) : (<<x>> \o d)[n + 1] = d[n]
<1> DEFINE a == <<x>>  e == a \o d
<1>1. a \in Seq(S) /\ Len(a) = 1 /\ a[1] = x OBVIOUS
<1>2. PICK l \in Nat : l = Len(d) BY LenProperties
<1> HIDE DEF a
<1>3. /\ e \in Seq(S) /\ Len(e) = 1 + l
      /\ \A n \in 1 .. 1 : e[n] = a[n]
      /\ \A n \in 1 .. l : e[1 + n] = d[n]
  <2>1. /\ e \in Seq(S) /\ Len(e) = Len(a) + Len(d)
        /\ \A n \in 1 .. Len(a) : e[n] = a[n]
        /\ \A n \in 1 .. Len(d) : e[Len(a) + n] = d[n]
    <3>1. a \in Seq(S) /\ d \in Seq(S) BY <1>1
    <3>2. /\ a \o d \in Seq(S) /\ Len(a \o d) = Len(a) + Len(d)
          /\ \A n \in 1 .. Len(a) : (a \o d)[n] = a[n]
          /\ \A n \in 1 .. Len(d) : (a \o d)[Len(a) + n] = d[n]
      BY <3>1, Cat
    <3> QED BY <3>2
  <2> HIDE DEF e
  <2> QED BY <2>1, <1>1, <1>2
<1> HIDE DEF e
<1>4. e[1] = x
  <2>1. 1 \in 1 .. 1 OBVIOUS
  <2> QED BY <2>1, <1>1, <1>3
<1>5. \A n \in 1 .. l : e[n + 1] = d[n]
  <2> TAKE n \in 1 .. l
  <2>1. n + 1 = 1 + n OBVIOUS
  <2> QED BY <2>1, <1>3
<1>6. Len(e) = l + 1 /\ Len(e) # 0 BY <1>3
<1>7. e # <<>> BY <1>3, <1>6, EmptySeq
<1> QED BY <1>2, <1>3, <1>4, <1>5, <1>6, <1>7 DEF e, a

Marks(x) == IF x = <<"mark">> THEN 1 ELSE 0

LEMMA UpIs ==
    ASSUME NEW d, NEW n
    PROVE  Up(d, n) <=>
               \E c \in 1 .. Len(d), E \in [Nat -> Nat] :
                   /\ d[Len(d) + 1 - c] = <<"clean">>
                   /\ E[c] = 0 /\ E[Len(d)] = n
                   /\ \A i \in c + 1 .. Len(d) : E[i] = E[i - 1] + Marks(d[Len(d) + 1 - i])
BY DEF Up, Marks

LEMMA UpPush ==
    ASSUME NEW d \in Seq(Call), NEW n \in Nat, Up(d, n), NEW x \in Call
    PROVE  Up(<<x>> \o d, n + Marks(x))
<1> DEFINE e == <<x>> \o d
           k == <<"clean">>
<1>1. PICK l \in Nat : l = Len(d) BY LenProperties
<1>2. Len(e) = l + 1 /\ e[1] = x /\ \A i \in 1 .. l : e[i + 1] = d[i] BY <1>1, Push
<1>3. PICK c \in 1 .. l, E \in [Nat -> Nat] :
        /\ d[l + 1 - c] = k
        /\ E[c] = 0 /\ E[l] = n
        /\ \A i \in c + 1 .. l : E[i] = E[i - 1] + Marks(d[l + 1 - i])
  BY <1>1, UpIs
<1>4. n + Marks(x) \in Nat BY DEF Marks
<1> DEFINE y == n + Marks(x)
           F == [i \in Nat |-> IF i = l + 1 THEN y ELSE E[i]]
<1>5. F \in [Nat -> Nat] /\ F[l + 1] = y /\ \A i \in 0 .. l : F[i] = E[i]
  <2> HIDE DEF y
  <2>1. y \in Nat BY <1>4 DEF y
  <2>2. F \in [Nat -> Nat] BY <2>1
  <2>3. F[l + 1] = y OBVIOUS
  <2>4. \A i \in 0 .. l : i \in Nat /\ i # l + 1 OBVIOUS
  <2>5. \A i \in 0 .. l : F[i] = E[i] BY <2>4
  <2> QED BY <2>2, <2>3, <2>5
<1>6. y = n + Marks(x) OBVIOUS
<1> HIDE DEF e, F, y, k
<1>7. c \in 1 .. l + 1 /\ c \in 0 .. l /\ l \in 0 .. l OBVIOUS
<1>8. e[(l + 1) + 1 - c] = k
  <2>1. l + 1 - c \in 1 .. l /\ (l + 1 - c) + 1 = (l + 1) + 1 - c OBVIOUS
  <2>2. e[(l + 1 - c) + 1] = d[l + 1 - c] BY <2>1, <1>2
  <2> QED BY <2>1, <2>2, <1>3
<1>9. ASSUME NEW i \in c + 1 .. l + 1 PROVE F[i] = F[i - 1] + Marks(e[(l + 1) + 1 - i])
  <2>1. CASE i = l + 1
    <3>1. (l + 1) + 1 - i = 1 /\ i - 1 = l BY <2>1
    <3>2. F[i] = y /\ F[i - 1] = n BY <2>1, <3>1, <1>3, <1>5, <1>7
    <3> QED BY <3>1, <3>2, <1>2, <1>6
  <2>2. CASE i # l + 1
    <3>1. /\ i \in c + 1 .. l /\ i \in 0 .. l /\ i - 1 \in 0 .. l
          /\ l + 1 - i \in 1 .. l /\ (l + 1 - i) + 1 = (l + 1) + 1 - i
      BY <2>2
    <3>2. e[(l + 1 - i) + 1] = d[l + 1 - i] BY <3>1, <1>2
    <3>3. E[i] = E[i - 1] + Marks(d[l + 1 - i]) BY <3>1, <1>3
    <3>4. F[i] = E[i] /\ F[i - 1] = E[i - 1] BY <3>1, <1>5
    <3> QED BY <3>1, <3>2, <3>3, <3>4
  <2> QED BY <2>1, <2>2
<1>10. F[c] = 0 BY <1>3, <1>5, <1>7
<1>11. \E b \in 1 .. Len(e), G \in [Nat -> Nat] :
         /\ e[Len(e) + 1 - b] = k
         /\ G[b] = 0 /\ G[Len(e)] = y
         /\ \A i \in b + 1 .. Len(e) : G[i] = G[i - 1] + Marks(e[Len(e) + 1 - i])
  <2>1. /\ c \in 1 .. Len(e) /\ e[Len(e) + 1 - c] = k
        /\ F[c] = 0 /\ F[Len(e)] = y
    BY <1>2, <1>5, <1>7, <1>8, <1>10
  <2>2. \A i \in c + 1 .. Len(e) : F[i] = F[i - 1] + Marks(e[Len(e) + 1 - i])
    BY <1>2, <1>9
  <2> QED BY <2>1, <2>2, <1>5
<1>12. Up(e, y) BY <1>11, UpIs DEF k
<1> QED BY <1>12 DEF e, y

LEMMA UpClean ==
    ASSUME NEW d \in Seq(Call)
    PROVE  Up(<<<<"clean">>>> \o d, 0)
<1> DEFINE k == <<"clean">>
           e == <<k>> \o d
           E == [i \in Nat |-> 0]
<1>1. PICK l \in Nat : l = Len(d) BY LenProperties
<1>2. k \in Call BY DEF Call
<1> HIDE DEF k
<1>3. Len(e) = l + 1 /\ e[1] = k BY <1>1, <1>2, Push
<1>4. E \in [Nat -> Nat] /\ E[l + 1] = 0 OBVIOUS
<1> HIDE DEF e, E
<1>5. l + 1 \in 1 .. l + 1 /\ (l + 1) + 1 - (l + 1) = 1 OBVIOUS
<1>6. \A i \in (l + 1) + 1 .. l + 1 : FALSE OBVIOUS
<1>7. \E c \in 1 .. Len(e), F \in [Nat -> Nat] :
        /\ e[Len(e) + 1 - c] = k
        /\ F[c] = 0 /\ F[Len(e)] = 0
        /\ \A i \in c + 1 .. Len(e) : F[i] = F[i - 1] + Marks(e[Len(e) + 1 - i])
  BY <1>3, <1>4, <1>5, <1>6
<1> QED BY <1>7, UpIs DEF e, k

LEMMA UpPop ==
    ASSUME NEW d \in Seq(Call), NEW n, Up(d, n)
    PROVE  /\ d # <<>> /\ n \in Nat
           /\ \/ Head(d) = <<"clean">> /\ n = 0
              \/ Head(d) = <<"mark">> /\ n >= 1 /\ Up(Tail(d), n - 1)
              \/ Head(d) # <<"mark">> /\ Up(Tail(d), n)
<1> DEFINE k == <<"clean">>
           u == Tail(d)
<1>1. PICK l \in Nat : l = Len(d) BY LenProperties
<1>2. PICK c \in 1 .. l, E \in [Nat -> Nat] :
        /\ d[l + 1 - c] = k
        /\ E[c] = 0 /\ E[l] = n
        /\ \A i \in c + 1 .. l : E[i] = E[i - 1] + Marks(d[l + 1 - i])
  BY <1>1, UpIs
<1>3. l > 0 OBVIOUS
<1>4. d # <<>> /\ n \in Nat BY <1>1, <1>2, <1>3, EmptySeq
<1>5. Head(d) = d[1] /\ Len(u) = l - 1 /\ \A i \in 1 .. l - 1 : u[i] = d[i + 1]
  BY <1>1, <1>4, Shorter
<1> HIDE DEF k, u
<1>6. CASE c = l
  <2>1. l + 1 - c = 1 BY <1>6
  <2> QED BY <2>1, <1>2, <1>4, <1>5, <1>6 DEF k
<1>7. CASE c # l
  <2>1. l \in c + 1 .. l /\ l + 1 - l = 1 /\ l - 1 \in Nat BY <1>3, <1>7
  <2>2. E[l] = E[l - 1] + Marks(d[1])
    <3>1. E[l] = E[l - 1] + Marks(d[l + 1 - l]) BY <2>1, <1>2
    <3> QED BY <3>1, <2>1
  <2>3. PICK x \in Nat : x = E[l - 1] BY <2>1
  <2>4. n = x + Marks(d[1]) BY <2>2, <2>3, <1>2
  <2>5. c \in 1 .. l - 1 BY <1>7
  <2>6. \A i \in 1 .. l - 1 : u[(l - 1) + 1 - i] = d[l + 1 - i]
    <3> TAKE i \in 1 .. l - 1
    <3>1. (l - 1) + 1 - i \in 1 .. l - 1 /\ ((l - 1) + 1 - i) + 1 = l + 1 - i OBVIOUS
    <3>2. u[(l - 1) + 1 - i] = d[((l - 1) + 1 - i) + 1] BY <3>1, <1>5
    <3> QED BY <3>1, <3>2
  <2>7. \A i \in c + 1 .. l - 1 : E[i] = E[i - 1] + Marks(u[(l - 1) + 1 - i])
    <3> TAKE i \in c + 1 .. l - 1
    <3>1. i \in c + 1 .. l /\ i \in 1 .. l - 1 OBVIOUS
    <3> QED BY <3>1, <2>6, <1>2
  <2>8. Up(u, x)
    <3>1. c \in 1 .. Len(u) /\ u[Len(u) + 1 - c] = k /\ E[c] = 0 /\ E[Len(u)] = x
      BY <2>3, <2>5, <2>6, <1>2, <1>5
    <3>2. \A i \in c + 1 .. Len(u) : E[i] = E[i - 1] + Marks(u[Len(u) + 1 - i])
      BY <2>7, <1>5
    <3>3. \E b \in 1 .. Len(u), G \in [Nat -> Nat] :
            /\ u[Len(u) + 1 - b] = k
            /\ G[b] = 0 /\ G[Len(u)] = x
            /\ \A i \in b + 1 .. Len(u) : G[i] = G[i - 1] + Marks(u[Len(u) + 1 - i])
      BY <3>1, <3>2
    <3> QED BY <3>3, UpIs DEF k
  <2>9. CASE d[1] = <<"mark">>
    <3>1. n = x + 1 BY <2>4, <2>9 DEF Marks
    <3>2. n >= 1 /\ n - 1 = x BY <3>1
    <3> QED BY <3>2, <2>8, <2>9, <1>4, <1>5 DEF u
  <2>10. CASE d[1] # <<"mark">>
    <3>1. n = x BY <2>4, <2>10 DEF Marks
    <3> QED BY <3>1, <2>8, <2>10, <1>4, <1>5 DEF u
  <2> QED BY <2>9, <2>10
<1> QED BY <1>6, <1>7

LEMMA UpHas ==
    ASSUME NEW d \in Seq(Call), NEW n, Up(d, n)
    PROVE  \E i \in 1 .. Len(d) : d[i] = <<"clean">>
<1>1. PICK l \in Nat : l = Len(d) BY LenProperties
<1>2. PICK c \in 1 .. l : d[l + 1 - c] = <<"clean">> BY <1>1, UpIs
<1>3. l + 1 - c \in 1 .. l OBVIOUS
<1> QED BY <1>1, <1>2, <1>3

LEMMA StackMount ==
    ASSUME NEW d \in Seq(Call), NEW ms \in Seq(Mount), NEW m \in Mount, NEW k \in Nat,
           Stacked(d, ms, k)
    PROVE  Stacked(<<<<"unmount", m.at>>>> \o d, Append(ms, m), k + 1)
<1> DEFINE x == <<"unmount", m.at>>
           e == <<x>> \o d
           ns == Append(ms, m)
<1>1. PICK l \in Nat, h \in Nat : l = Len(d) /\ h = Len(ms) BY LenProperties
<1>2. x \in Call BY DEF Call, Mount
<1>3. Len(e) = l + 1 /\ e[1] = x /\ \A i \in 1 .. l : e[i + 1] = d[i]
  <2> HIDE DEF x
  <2> QED BY <1>1, <1>2, Push
<1>4. Len(ns) = h + 1 /\ ns[h + 1] = m /\ \A i \in 1 .. h : ns[i] = ms[i]
  BY <1>1, AppendProperties
<1> HIDE DEF e, ns
<1>5. /\ k <= h /\ k <= l
      /\ \A j \in 1 .. k : d[j] = <<"unmount", ms[h + 1 - j].at>>
      /\ \A j \in k + 1 .. l : d[j][1] # "unmount"
  BY <1>1 DEF Stacked
<1>6. ASSUME NEW j \in 1 .. k + 1 PROVE e[j] = <<"unmount", ns[(h + 1) + 1 - j].at>>
  <2>1. CASE j = 1
    <3>1. (h + 1) + 1 - j = h + 1 BY <2>1
    <3> QED BY <2>1, <3>1, <1>3, <1>4
  <2>2. CASE j # 1
    <3> DEFINE i == j - 1
    <3>1. /\ i \in 1 .. k /\ i \in 1 .. l /\ i + 1 = j
          /\ h + 1 - i \in 1 .. h /\ (h + 1) + 1 - j = h + 1 - i
      BY <2>2, <1>5
    <3> HIDE DEF i, x
    <3>2. e[i + 1] = d[i] /\ d[i] = <<"unmount", ms[h + 1 - i].at>> BY <3>1, <1>3, <1>5
    <3>3. ns[h + 1 - i] = ms[h + 1 - i] BY <3>1, <1>4
    <3> QED BY <3>1, <3>2, <3>3
  <2> QED BY <2>1, <2>2
<1> HIDE DEF x
<1>7. ASSUME NEW j \in k + 2 .. l + 1 PROVE e[j][1] # "unmount"
  <2> DEFINE i == j - 1
  <2>1. i \in k + 1 .. l /\ i \in 1 .. l /\ i + 1 = j OBVIOUS
  <2> HIDE DEF i
  <2>2. e[i + 1] = d[i] /\ d[i][1] # "unmount" BY <2>1, <1>3, <1>5
  <2> QED BY <2>1, <2>2
<1>8. (k + 1) + 1 = k + 2 /\ k + 1 <= h + 1 /\ k + 1 <= l + 1 BY <1>5
<1>9. Stacked(e, ns, k + 1) BY <1>3, <1>4, <1>6, <1>7, <1>8 DEF Stacked
<1> QED BY <1>9 DEF e, ns, x

LEMMA StackNone ==
    ASSUME NEW S, NEW ms \in Seq(S)
    PROVE  Stacked(<<>>, ms, 0)
<1>1. Len(ms) \in Nat BY LenProperties
<1>2. <<>> \in Seq(S) /\ Len(<<>>) = 0 BY EmptySeq
<1> DEFINE d == <<>>
<1>3. Len(d) = 0 BY <1>2
<1> HIDE DEF d
<1>4. Stacked(d, ms, 0) BY <1>1, <1>3 DEF Stacked
<1> QED BY <1>4 DEF d

LEMMA StackPush ==
    ASSUME NEW d \in Seq(Call), NEW S, NEW ms \in Seq(S), NEW T, NEW ns \in Seq(T),
           Stacked(d, ms, 0), NEW x \in Call, x[1] # "unmount"
    PROVE  Stacked(<<x>> \o d, ns, 0)
<1> DEFINE e == <<x>> \o d
<1>1. PICK l \in Nat, h \in Nat : l = Len(d) /\ h = Len(ns) BY LenProperties
<1>2. Len(e) = l + 1 /\ e[1] = x /\ \A i \in 1 .. l : e[i + 1] = d[i] BY <1>1, Push
<1> HIDE DEF e
<1>3. \A j \in 1 .. l : d[j][1] # "unmount"
  <2>1. \A j \in 0 + 1 .. l : d[j][1] # "unmount" BY <1>1 DEF Stacked
  <2> QED BY <2>1
<1>4. ASSUME NEW j \in 0 + 1 .. l + 1 PROVE e[j][1] # "unmount"
  <2>1. CASE j = 1 BY <2>1, <1>2
  <2>2. CASE j # 1
    <3> DEFINE i == j - 1
    <3>1. i \in 1 .. l /\ i + 1 = j BY <2>2
    <3> HIDE DEF i
    <3>2. e[i + 1] = d[i] BY <3>1, <1>2
    <3> QED BY <3>1, <3>2, <1>3
  <2> QED BY <2>1, <2>2
<1>5. \A j \in 1 .. 0 : FALSE OBVIOUS
<1>6. 0 <= h /\ 0 <= l + 1 OBVIOUS
<1>7. Stacked(e, ns, 0) BY <1>1, <1>2, <1>4, <1>5, <1>6 DEF Stacked
<1> QED BY <1>7 DEF e

\* A deferred call that is no unmount leaves the stack below it.
LEMMA StackPop ==
    ASSUME NEW d \in Seq(Call), d # <<>>, NEW S, NEW ms \in Seq(S), NEW T, NEW ns \in Seq(T),
           NEW k \in Nat, Stacked(d, ms, k)
    PROVE  /\ k = 0 => Head(d)[1] # "unmount" /\ Stacked(Tail(d), ns, 0)
           /\ k > 0 => ms # <<>> /\ Head(d) = <<"unmount", ms[Len(ms)].at>>
           /\ k > 0 /\ Len(ns) = Len(ms) - 1 /\ (\A n \in 1 .. Len(ms) - 1 : ns[n] = ms[n])
                => Stacked(Tail(d), ns, k - 1)
<1> DEFINE u == Tail(d)
<1>1. PICK l \in Nat, h \in Nat, i \in Nat : l = Len(d) /\ h = Len(ms) /\ i = Len(ns)
  BY LenProperties
<1>2. /\ l > 0 /\ Head(d) = d[1] /\ Len(u) = l - 1
      /\ \A n \in 1 .. l - 1 : u[n] = d[n + 1]
  BY <1>1, Shorter
<1> HIDE DEF u
<1>3. /\ k <= h /\ k <= l
      /\ \A j \in 1 .. k : d[j] = <<"unmount", ms[h + 1 - j].at>>
      /\ \A j \in k + 1 .. l : d[j][1] # "unmount"
  BY <1>1 DEF Stacked
<1>4. ASSUME k = 0 PROVE d[1][1] # "unmount" /\ Stacked(u, ns, 0)
  <2>1. \A j \in 1 .. l : d[j][1] # "unmount" BY <1>3, <1>4
  <2>2. ASSUME NEW j \in 0 + 1 .. l - 1 PROVE u[j][1] # "unmount"
    <3>1. j \in 1 .. l - 1 /\ j + 1 \in 1 .. l OBVIOUS
    <3> QED BY <3>1, <2>1, <1>2
  <2>3. 1 \in 1 .. l /\ 0 <= i /\ 0 <= l - 1 BY <1>2
  <2>4. \A j \in 1 .. 0 : FALSE OBVIOUS
  <2>5. Stacked(u, ns, 0) BY <2>2, <2>3, <2>4, <1>1, <1>2 DEF Stacked
  <2> QED BY <2>1, <2>3, <2>5
<1>5. ASSUME k > 0 PROVE ms # <<>> /\ d[1] = <<"unmount", ms[h].at>>
  <2>1. 1 \in 1 .. k /\ h + 1 - 1 = h /\ h # 0 BY <1>3, <1>5
  <2>2. d[1] = <<"unmount", ms[h + 1 - 1].at>> BY <2>1, <1>3
  <2>3. ms # <<>> BY <2>1, <1>1, EmptySeq
  <2> QED BY <2>1, <2>2, <2>3
<1>6. ASSUME k > 0, i = h - 1, \A n \in 1 .. h - 1 : ns[n] = ms[n]
      PROVE  Stacked(u, ns, k - 1)
  <2>1. ASSUME NEW j \in 1 .. k - 1 PROVE u[j] = <<"unmount", ns[(h - 1) + 1 - j].at>>
    <3>1. /\ j + 1 \in 1 .. k /\ j \in 1 .. l - 1 /\ h + 1 - (j + 1) = (h - 1) + 1 - j
          /\ (h - 1) + 1 - j \in 1 .. h - 1
      BY <1>3
    <3>2. u[j] = d[j + 1] BY <3>1, <1>2
    <3>3. d[j + 1] = <<"unmount", ms[h + 1 - (j + 1)].at>> BY <3>1, <1>3
    <3>4. ns[(h - 1) + 1 - j] = ms[(h - 1) + 1 - j] BY <3>1, <1>6
    <3> QED BY <3>1, <3>2, <3>3, <3>4
  <2>2. ASSUME NEW j \in (k - 1) + 1 .. l - 1 PROVE u[j][1] # "unmount"
    <3>1. j + 1 \in k + 1 .. l /\ j \in 1 .. l - 1 BY <1>6
    <3> QED BY <3>1, <1>2, <1>3
  <2>3. k - 1 <= h - 1 /\ k - 1 <= l - 1 BY <1>3
  <2> QED BY <2>1, <2>2, <2>3, <1>1, <1>2, <1>6 DEF Stacked
<1> QED BY <1>1, <1>2, <1>4, <1>5, <1>6 DEF u

\* The inductive invariant: what is left to do, what is deferred, what is mounted,
\* active and cloned, and what has been found out fit together.
Inv ==
    /\ Types /\ Control
    /\ StackFits /\ Balance /\ FailFits /\ Idle
    /\ PlanFits /\ ClonesReady /\ Shape /\ SparesDisk /\ DryRunSparesDisk /\ Prepares
    /\ VGFits /\ Learns /\ MainFits /\ ActivateFits /\ WhyFails

-----------------------------------------------------------------------------
(* What the actions do *)

Kept(ms, ns) == \A n \in 1 .. Len(ns) : \E k \in 1 .. Len(ms) : ns[n] = ms[k]

LEMMA KeptSame ==
    ASSUME NEW ms PROVE Kept(ms, ms)
BY DEF Kept

LEMMA KeptEmpty ==
    ASSUME NEW S, NEW ns \in Seq(S), Kept(<<>>, ns) PROVE ns = <<>>
<1>1. PICK l \in Nat : l = Len(ns) BY LenProperties
<1>2. <<>> \in Seq(S) /\ Len(<<>>) = 0 BY EmptySeq
<1> DEFINE ms == <<>>
<1>3. Len(ms) = 0 BY <1>2
<1> HIDE DEF ms
<1>4. \A n \in 1 .. l : \E k \in 1 .. 0 : ns[n] = ms[k] BY <1>1, <1>3 DEF Kept, ms
<1>5. \A n \in 1 .. l : FALSE BY <1>4
<1>6. l = 0
  <2>1. l > 0 => 1 \in 1 .. l OBVIOUS
  <2> QED BY <2>1, <1>5
<1> QED BY <1>1, <1>6, EmptySeq

\* What unmounting the target leaves.
LEMMA TargetGone ==
    ASSUME Types
    PROVE  /\ TargetUnmounted \in Seq(Placed) /\ Kept(mounts, TargetUnmounted)
           /\ mounts = <<>> => TargetUnmounted = <<>>
           /\ guest.os = "linux" /\ Shaped(mounts) => TargetUnmounted = <<>>
<1>1. mounts \in Seq(Placed) BY DEF Types
<1> DEFINE gone == {Uppermost("target")} \cup MountsAt("target/extra")
           u == TargetUnmounted
<1>2. u = IF MountsAt("target") = {} THEN mounts ELSE Unmounted(gone) BY DEF TargetUnmounted
<1>3. /\ Unmounted(gone) \in Seq(Placed)
      /\ \A n \in 1 .. Len(Unmounted(gone)) : \E k \in 1 .. Len(mounts) :
           Unmounted(gone)[n] = mounts[k] /\ k \notin gone
  BY <1>1, UnmountedSome
<1> HIDE DEF u
<1>4. Kept(mounts, u)
  <2>1. Kept(mounts, Unmounted(gone)) BY <1>3 DEF Kept
  <2> HIDE DEF gone
  <2> QED BY <2>1, <1>2, KeptSame
<1>5. u \in Seq(Placed) BY <1>1, <1>2, <1>3
<1>6. mounts = <<>> => u = <<>> BY <1>4, <1>5, KeptEmpty
<1>7. ASSUME Shaped(mounts) PROVE u = <<>>
  <2>1. CASE mounts = <<>> BY <2>1, <1>6
  <2>2. CASE mounts # <<>>
    <3>1. PICK l \in Nat : l = Len(mounts) /\ l > 0 BY <1>1, <2>2, Shorter
    <3>2. DOMAIN mounts = 1 .. l BY <3>1, <1>1, LenProperties
    <3>3. mounts[1].at = "target" /\ \A n \in 2 .. l : mounts[n].at = "target/extra"
      BY <1>7, <2>2, <3>1 DEF Shaped
    <3>4. 1 \in 1 .. l /\ \A n \in 1 .. l : n = 1 \/ n \in 2 .. l BY <3>1
    <3>5. MountsAt("target") = {1}
      <4>1. \A n \in 1 .. l : mounts[n].at = "target" <=> n = 1 BY <3>3, <3>4
      <4> QED BY <3>2, <3>4, <4>1 DEF MountsAt
    <3>6. Uppermost("target") = 1
      <4>1. Uppermost("target") \in MountsAt("target")
        <5>1. \E n \in MountsAt("target") : \A m \in MountsAt("target") : m <= n BY <3>5
        <5> QED BY <5>1 DEF Uppermost
      <4> QED BY <4>1, <3>5
    <3>7. DOMAIN mounts \subseteq gone
      <4>1. \A n \in 2 .. l : n \in MountsAt("target/extra")
        <5> TAKE n \in 2 .. l
        <5>1. n \in 1 .. l OBVIOUS
        <5> QED BY <5>1, <3>2, <3>3 DEF MountsAt
      <4> QED BY <3>2, <3>4, <3>6, <4>1
    <3> HIDE DEF gone
    <3>8. Unmounted(gone) = <<>> BY <3>7, <1>1, UnmountedAll
    <3>9. MountsAt("target") # {} BY <3>5
    <3> QED BY <3>8, <3>9, <1>2
  <2> QED BY <2>1, <2>2
<1> QED BY <1>4, <1>5, <1>6, <1>7 DEF u

LEMMA NothingOn ==
    ASSUME NEW ms \in Seq(Placed), \A n \in 1 .. Len(ms) : Foreign(ms[n])
    PROVE  ~OnVG(ms) /\ ~OnClone(ms)
<1>1. DOMAIN ms = 1 .. Len(ms) BY LenProperties
<1> QED BY <1>1 DEF OnVG, OnClone, Foreign

LEMMA CleanupIs ==
    ASSUME Types, CleanupClones
    PROVE  /\ mounts' \in Seq(Placed) /\ Kept(mounts, mounts')
           /\ vg' \in {vg, "off"} /\ clones' \in {clones, {}}
           /\ mounts = <<>> \/ (guest.os = "linux" /\ Shaped(mounts)) =>
                mounts' = <<>> /\ vg' = "off" /\ clones' = {}
           /\ (\A n \in 1 .. Len(mounts) : Foreign(mounts[n])) => vg' = "off" /\ clones' = {}
<1>1. /\ mounts' = TargetUnmounted /\ vg' = Deactivated(TargetUnmounted)
      /\ clones' = IF OnClone(TargetUnmounted) THEN clones ELSE {}
  BY DEF CleanupClones
<1> DEFINE u == TargetUnmounted
<1>2. /\ u \in Seq(Placed) /\ Kept(mounts, u)
      /\ mounts = <<>> \/ (guest.os = "linux" /\ Shaped(mounts)) => u = <<>>
  BY TargetGone
<1>3. mounts' = u /\ vg' = Deactivated(u) /\ clones' = IF OnClone(u) THEN clones ELSE {} BY <1>1
<1> HIDE DEF u
<1>4. vg' \in {vg, "off"} /\ clones' \in {clones, {}} BY <1>3 DEF Deactivated
<1>5. ASSUME \A n \in 1 .. Len(u) : Foreign(u[n]) PROVE vg' = "off" /\ clones' = {}
  <2>1. ~OnVG(u) /\ ~OnClone(u) BY <1>2, <1>5, NothingOn
  <2> QED BY <2>1, <1>3 DEF Deactivated
<1>6. ASSUME u = <<>> PROVE vg' = "off" /\ clones' = {}
  <2>1. Len(u) = 0 BY <1>2, <1>6, EmptySeq
  <2>2. \A n \in 1 .. Len(u) : Foreign(u[n]) BY <2>1
  <2> QED BY <2>2, <1>5
<1>7. ASSUME \A n \in 1 .. Len(mounts) : Foreign(mounts[n]) PROVE vg' = "off" /\ clones' = {}
  <2>1. \A n \in 1 .. Len(u) : Foreign(u[n]) BY <1>2, <1>7 DEF Kept
  <2> QED BY <2>1, <1>5
<1> QED BY <1>2, <1>3, <1>4, <1>6, <1>7

\* The steps that change neither the devices nor what is deferred.
QuietSteps == {<<"leave">>, <<"found">>, <<"fstab">>, <<"match">>, <<"ensure">>,
               <<"unlock">>, <<"scripts">>, <<"replace">>}
Works == RunScriptsInChroot \/ InjectDrivers \/ ReplaceBoot
Took ==
    /\ mode = "run" /\ todo # <<>> /\ todo' = Tail(todo)
    /\ guest' = guest /\ command' = command /\ foretold' = foretold /\ kills' = kills
    /\ faulty' = faulty
Untouched == mounts' = mounts /\ vg' = vg /\ clones' = clones
QuietStep ==
    /\ Took /\ Untouched /\ deferred' = deferred /\ Head(todo) \in QuietSteps
    /\ mode' = IF Head(todo) = <<"leave">> THEN "leave" ELSE "run"
    /\ plan' = IF Head(todo) = <<"fstab">> THEN AllOf ELSE plan
    /\ rootAt' = IF Head(todo) = <<"match">> /\ guest.root = "plain" THEN "clone" ELSE rootAt
    /\ Works \/ (written' = written /\ Head(todo) \notin {<<"scripts">>, <<"replace">>})
    /\ Head(todo) = <<"found">> => Has(guest, "root")
    /\ Head(todo) = <<"fstab">> => guest.extra # "unknown"
    /\ Head(todo) = <<"unlock">> => guest.bitlocker # "locked"
Still == mode' = "run" /\ plan' = plan /\ rootAt' = rootAt /\ written' = written

LEMMA QuietNames ==
    /\ <<"leave">> \in QuietSteps /\ <<"found">> \in QuietSteps /\ <<"fstab">> \in QuietSteps
    /\ <<"match">> \in QuietSteps /\ <<"ensure">> \in QuietSteps /\ <<"unlock">> \in QuietSteps
    /\ <<"scripts">> \in QuietSteps /\ <<"replace">> \in QuietSteps
BY DEF QuietSteps

LEMMA QuietIs ==
    ASSUME \/ Leave \/ FindRoot \/ ReadFstab \/ MatchPartition \/ EnsureMountIsLoop
           \/ DetectBitLocker \/ RunScriptsInChroot \/ InjectDrivers \/ ReplaceBoot
    PROVE  QuietStep
<1>1. CASE Leave
  <2>1. /\ Took /\ Untouched /\ deferred' = deferred /\ Head(todo) = <<"leave">>
        /\ mode' = "leave" /\ plan' = plan
        /\ rootAt' = rootAt
    BY <1>1 DEF Leave, Step, Took, Untouched, devices
  <2>2. written' = written /\ Head(todo) \notin {<<"scripts">>, <<"replace">>}
    BY <1>1, <2>1 DEF Leave
  <2>3. /\ Head(todo) # <<"found">> /\ Head(todo) # <<"fstab">> /\ Head(todo) # <<"match">>
        /\ Head(todo) # <<"unlock">>
    BY <2>1
  <2> QED BY <2>1, <2>2, <2>3, QuietNames DEF QuietStep
<1>2. CASE FindRoot
  <2>1. /\ Took /\ Untouched /\ deferred' = deferred /\ Head(todo) = <<"found">>
        /\ mode' = "run" /\ plan' = plan
        /\ rootAt' = rootAt
    BY <1>2 DEF FindRoot, Step, Took, Untouched, devices
  <2>2. written' = written /\ Head(todo) \notin {<<"scripts">>, <<"replace">>}
    BY <1>2, <2>1 DEF FindRoot
  <2>3. /\ Head(todo) # <<"leave">> /\ Head(todo) # <<"fstab">> /\ Head(todo) # <<"match">>
        /\ Head(todo) # <<"unlock">>
    BY <2>1
  <2>4. Has(guest, "root") BY <1>2 DEF FindRoot
  <2> QED BY <2>1, <2>2, <2>3, <2>4, QuietNames DEF QuietStep
<1>3. CASE ReadFstab
  <2>1. /\ Took /\ Untouched /\ deferred' = deferred /\ Head(todo) = <<"fstab">>
        /\ mode' = "run" /\ plan' = AllOf
        /\ rootAt' = rootAt
    BY <1>3 DEF ReadFstab, AllOf, Step, Took, Untouched, devices
  <2>2. written' = written /\ Head(todo) \notin {<<"scripts">>, <<"replace">>}
    BY <1>3, <2>1 DEF ReadFstab
  <2>3. /\ Head(todo) # <<"leave">> /\ Head(todo) # <<"found">> /\ Head(todo) # <<"match">>
        /\ Head(todo) # <<"unlock">>
    BY <2>1
  <2>4. guest.extra # "unknown" BY <1>3 DEF ReadFstab
  <2> QED BY <2>1, <2>2, <2>3, <2>4, QuietNames DEF QuietStep
<1>4. CASE MatchPartition
  <2>1. /\ Took /\ Untouched /\ deferred' = deferred /\ Head(todo) = <<"match">>
        /\ mode' = "run" /\ plan' = plan
        /\ rootAt' = (IF guest.root = "plain" THEN "clone" ELSE rootAt)
    BY <1>4 DEF MatchPartition, GetMatchingPartition, Step, Took, Untouched, devices
  <2>2. written' = written /\ Head(todo) \notin {<<"scripts">>, <<"replace">>}
    BY <1>4, <2>1 DEF MatchPartition
  <2>3. /\ Head(todo) # <<"leave">> /\ Head(todo) # <<"found">> /\ Head(todo) # <<"fstab">>
        /\ Head(todo) # <<"unlock">>
    BY <2>1
  <2> QED BY <2>1, <2>2, <2>3, QuietNames DEF QuietStep
<1>5. CASE EnsureMountIsLoop
  <2>1. /\ Took /\ Untouched /\ deferred' = deferred /\ Head(todo) = <<"ensure">>
        /\ mode' = "run" /\ plan' = plan
        /\ rootAt' = rootAt
    BY <1>5 DEF EnsureMountIsLoop, Step, Took, Untouched, devices
  <2>2. written' = written /\ Head(todo) \notin {<<"scripts">>, <<"replace">>}
    <3>1. written' = written BY <1>5 DEF EnsureMountIsLoop
    <3>2. Head(todo)[1] = "ensure" BY <2>1
    <3> QED BY <3>1, <3>2
  <2>3. /\ Head(todo) # <<"leave">> /\ Head(todo) # <<"found">> /\ Head(todo) # <<"fstab">>
        /\ Head(todo) # <<"match">> /\ Head(todo) # <<"unlock">>
    <3>1. Head(todo)[1] = "ensure" BY <2>1
    <3> QED BY <3>1
  <2> QED BY <2>1, <2>2, <2>3, QuietNames DEF QuietStep
<1>6. CASE DetectBitLocker
  <2>1. /\ Took /\ Untouched /\ deferred' = deferred /\ Head(todo) = <<"unlock">>
        /\ mode' = "run" /\ plan' = plan
        /\ rootAt' = rootAt
    BY <1>6 DEF DetectBitLocker, Step, Took, Untouched, devices
  <2>2. written' = written /\ Head(todo) \notin {<<"scripts">>, <<"replace">>}
    BY <1>6, <2>1 DEF DetectBitLocker
  <2>3. /\ Head(todo) # <<"leave">> /\ Head(todo) # <<"found">> /\ Head(todo) # <<"fstab">>
        /\ Head(todo) # <<"match">>
    BY <2>1
  <2>4. guest.bitlocker # "locked" BY <1>6 DEF DetectBitLocker
  <2> QED BY <2>1, <2>2, <2>3, <2>4, QuietNames DEF QuietStep
<1>7. CASE RunScriptsInChroot
  <2>1. /\ Took /\ Untouched /\ deferred' = deferred /\ Head(todo) = <<"scripts">>
        /\ mode' = "run" /\ plan' = plan
        /\ rootAt' = rootAt
    BY <1>7 DEF RunScriptsInChroot, Step, Took, Untouched, devices
  <2>2. Works BY <1>7 DEF Works
  <2>3. /\ Head(todo) # <<"leave">> /\ Head(todo) # <<"found">> /\ Head(todo) # <<"fstab">>
        /\ Head(todo) # <<"match">> /\ Head(todo) # <<"unlock">>
    BY <2>1
  <2> QED BY <2>1, <2>2, <2>3, QuietNames DEF QuietStep
<1>8. CASE InjectDrivers
  <2>1. /\ Took /\ Untouched /\ deferred' = deferred /\ Head(todo) = <<"scripts">>
        /\ mode' = "run" /\ plan' = plan
        /\ rootAt' = rootAt
    BY <1>8 DEF InjectDrivers, Step, Took, Untouched, devices
  <2>2. Works BY <1>8 DEF Works
  <2>3. /\ Head(todo) # <<"leave">> /\ Head(todo) # <<"found">> /\ Head(todo) # <<"fstab">>
        /\ Head(todo) # <<"match">> /\ Head(todo) # <<"unlock">>
    BY <2>1
  <2> QED BY <2>1, <2>2, <2>3, QuietNames DEF QuietStep
<1>9. CASE ReplaceBoot
  <2>1. /\ Took /\ Untouched /\ deferred' = deferred /\ Head(todo) = <<"replace">>
        /\ mode' = "run" /\ plan' = plan
        /\ rootAt' = rootAt
    BY <1>9 DEF ReplaceBoot, Step, Took, Untouched, devices
  <2>2. Works BY <1>9 DEF Works
  <2>3. /\ Head(todo) # <<"leave">> /\ Head(todo) # <<"found">> /\ Head(todo) # <<"fstab">>
        /\ Head(todo) # <<"match">> /\ Head(todo) # <<"unlock">>
    BY <2>1
  <2> QED BY <2>1, <2>2, <2>3, QuietNames DEF QuietStep
<1> QED BY <1>1, <1>2, <1>3, <1>4, <1>5, <1>6, <1>7, <1>8, <1>9

LEMMA EnterIs ==
    ASSUME Enter
    PROVE  /\ Took /\ Untouched /\ Still /\ Head(todo) = <<"enter">>
           /\ deferred' = <<<<"mark">>>> \o deferred
BY DEF Enter, Step, Defer, Took, Untouched, Still, devices

LEMMA CleanUpIs ==
    ASSUME CleanUp
    PROVE  /\ Took /\ Still /\ Head(todo) = <<"clean">> /\ CleanupClones
           /\ deferred' = <<<<"clean">>>> \o deferred
BY DEF CleanUp, Step, Defer, Took, Still

LEMMA ActivateIs ==
    ASSUME ActivateVG
    PROVE  /\ Took /\ Still /\ Head(todo) = <<"activate">>
           /\ vg = "off" => clones = {}
           /\ mounts' = mounts /\ vg' = (IF vg = "off" THEN "disk" ELSE vg) /\ clones' = clones
           /\ deferred' = <<<<"deactivate">>>> \o deferred
BY DEF ActivateVG, Step, Defer, Took, Still

LEMMA MountIs ==
    ASSUME DoMount
    PROVE  \E p \in Path, f \in FileSystem \cup {"none"} :
             /\ Took /\ Still /\ Head(todo) = <<"mount", p, f>>
             /\ MountExists(p, f)
             /\ mounts' = Append(mounts, [at |-> p, fs |-> f, on |-> DeviceOf(f)])
             /\ vg' = vg /\ clones' = clones
             /\ deferred' = <<<<"unmount", p>>>> \o deferred
BY DEF DoMount, Step, Defer, Took, Still

LEMMA CloneIs ==
    ASSUME SetUpClones
    PROVE  /\ Took /\ Still /\ Head(todo) = <<"clone">>
           /\ ~OnClone(TargetUnmounted) /\ ~OnVG(TargetUnmounted)
           /\ mounts' = TargetUnmounted
           /\ clones' = DisksOf(plan)
           /\ vg' = IF InVG(guest) \cap plan = {} THEN "off" ELSE "clone"
           /\ deferred' = IF guest.os = "windows" THEN deferred
                          ELSE <<<<"deactivate">>>> \o deferred
BY DEF SetUpClones, Step, Defer, Took, Still

LEMMA StepKinds ==
    ASSUME Steps
    PROVE  QuietStep \/ Enter \/ CleanUp \/ ActivateVG \/ DoMount \/ SetUpClones
BY QuietIs DEF Steps

\* A task begins, for the first time or after the worker was killed.
Begins0 ==
    /\ guest' = guest /\ written' = written /\ foretold' = foretold
    /\ command' \in {"import", "post"} /\ todo' = PostImportTasks(guest, command' = "import")
    /\ deferred' = <<>> /\ mode' = "run"
    /\ plan' = {"root"} /\ rootAt' = "disk" /\ faulty' = FALSE
Started == Begins0 /\ Untouched /\ kills' = kills /\ command = "none" /\ (command' = "post" => foretold)
Killed ==
    /\ Begins0 /\ command' = command /\ kills' = kills + 1 /\ kills < MaxKills
    /\ Untouched \/ (mode = "run" /\ todo # <<>> /\ LeftHalfway)

LEMMA StartedIs ==
    ASSUME ImportDisks \/ DoPostImportTasks PROVE Started
<1>1. CASE ImportDisks
  BY <1>1 DEF ImportDisks, Command, Started, Begins0, Untouched, devices
<1>2. CASE DoPostImportTasks
  BY <1>2 DEF DoPostImportTasks, Command, Started, Begins0, Untouched, devices
<1> QED BY <1>1, <1>2

LEMMA KilledIs ==
    ASSUME Kill PROVE Killed
BY DEF Kill, Command, Killed, Begins0, Untouched, devices

LEMMA BeginsIs ==
    ASSUME Types, Begins0
    PROVE  /\ Program(todo', guest', command') /\ todo' \in Seq(Fits(guest', command'))
           /\ MainOnce(todo') /\ todo' # <<>>
           /\ Left(<<"clean">>)' /\ (command' = "import" => Left(<<"clone">>)')
           /\ guest.os # "fortigate" => Head(todo') = <<"clean">>
           /\ Left(IF guest.os = "fortigate" THEN <<"replace">> ELSE <<"scripts">>)'
           /\ Left(<<"found">>)' /\ (guest.os = "windows" => Left(<<"unlock">>)')
           /\ guest.os = "linux" /\ command' = "import" => Left(<<"fstab">>)' /\ FstabFirst(todo')
           /\ guest.root = "lvm" => \E j \in Flag : Flagged(todo', "off", j)
<1> DEFINE c == command'  t == todo'
<1>1. /\ guest \in GuestOS /\ c \in {"import", "post"} /\ guest' = guest
      /\ t = PostImportTasks(guest, c = "import")
  BY DEF Types, Begins0
<1> HIDE DEF c, t
<1>2. Program(t, guest, c) /\ Begins(t, guest, c) BY <1>1, Programs
<1>3. /\ Contains(t, guest, c)
      /\ guest.root = "lvm" => \E j \in Flag : Flagged(t, "off", j)
  BY <1>1, ProgramsContain
<1>4. t \in Seq(Fits(guest, c)) /\ t # <<>> BY <1>2, <1>3 DEF Contains, Begins
<1>5. Head(t) = t[1] BY <1>4, Shorter
<1> QED BY <1>1, <1>2, <1>3, <1>4, <1>5 DEF Begins, Contains, Left, t, c

\* A step fails.
Failed ==
    /\ mode = "run" /\ todo # <<>> /\ mode' = "fail" /\ todo' = <<>>
    /\ Head(todo)[1] \notin {"enter", "leave", "clean"}
    /\ Head(todo) # <<"mount", "target", "extra">>
    /\ guest' = guest /\ command' = command /\ deferred' = deferred /\ plan' = plan
    /\ rootAt' = rootAt /\ written' = written /\ foretold' = foretold /\ kills' = kills
    /\ \/ Impossible /\ Untouched /\ faulty' = faulty
       \/ faulty' = TRUE /\ LeftHalfway

LEMMA FailedIs ==
    ASSUME Fail PROVE Failed
BY DEF Fail, Failed, Untouched, devices

Unwound ==
    /\ Busy /\ (mode \in {"leave", "fail"} \/ todo = <<>>) /\ deferred # <<>>
    /\ deferred' = Tail(deferred)
    /\ mode' = IF mode = "leave" /\ Head(deferred) = <<"mark">> THEN "run" ELSE mode
    /\ guest' = guest /\ command' = command /\ todo' = todo /\ plan' = plan /\ rootAt' = rootAt
    /\ written' = written /\ faulty' = faulty /\ foretold' = foretold /\ kills' = kills
Effect ==
    \/ Head(deferred) = <<"mark">> /\ Untouched
    \/ Head(deferred) = <<"clean">> /\ CleanupClones
    \/ /\ Head(deferred) = <<"deactivate">> /\ vg' = Deactivated(mounts)
       /\ mounts' = mounts /\ clones' = clones
    \/ /\ \E p \in Path : Head(deferred) = <<"unmount", p>>
       /\ DoUnmount(Head(deferred)[2]) /\ vg' = vg /\ clones' = clones

LEMMA UnwoundIs ==
    ASSUME Types, RunDeferred PROVE Unwound /\ Effect
<1>1. deferred \in Seq(Call) /\ deferred # <<>> BY DEF Types, RunDeferred
<1>2. Head(deferred) \in Call BY <1>1, HeadTailProperties
<1>3. Unwound BY DEF RunDeferred, Unwound, Unwinds, Busy
<1> DEFINE call == Head(deferred)
<1>4. (CASE call = <<"clean">>      -> CleanupClones
         [] call = <<"deactivate">> -> vg' = Deactivated(mounts) /\ UNCHANGED <<mounts, clones>>
         [] call[1] = "unmount"     -> DoUnmount(call[2]) /\ UNCHANGED <<vg, clones>>
         [] OTHER                   -> UNCHANGED devices)
  BY DEF RunDeferred
<1>5. call \in Call BY <1>2
<1> HIDE DEF call
<1>6. \/ call = <<"mark">> \/ call = <<"clean">> \/ call = <<"deactivate">>
      \/ \E p \in Path : call = <<"unmount", p>>
  BY <1>5 DEF Call
<1> SUFFICES Effect BY <1>3
<1>7. CASE call = <<"clean">> BY <1>4, <1>7 DEF Effect, call
<1>8. CASE call = <<"deactivate">>
  <2>1. call # <<"clean">> BY <1>8
  <2>2. vg' = Deactivated(mounts) /\ mounts' = mounts /\ clones' = clones BY <1>4, <1>8, <2>1
  <2> QED BY <1>8, <2>2 DEF Effect, call
<1>9. CASE \E p \in Path : call = <<"unmount", p>>
  <2>1. call # <<"clean">> /\ call # <<"deactivate">> /\ call[1] = "unmount" BY <1>9
  <2>2. DoUnmount(call[2]) /\ vg' = vg /\ clones' = clones BY <1>4, <2>1
  <2> QED BY <1>9, <2>2 DEF Effect, call
<1>10. CASE call = <<"mark">>
  <2>1. call # <<"clean">> /\ call # <<"deactivate">> /\ call[1] # "unmount" BY <1>10
  <2>2. Untouched BY <1>4, <2>1 DEF Untouched, devices
  <2> QED BY <1>10, <2>2 DEF Effect, call
<1> QED BY <1>3, <1>6, <1>7, <1>8, <1>9, <1>10

Responded ==
    /\ Busy /\ todo = <<>> /\ deferred = <<>> /\ Untouched
    /\ command' = IF mode = "fail" THEN "failed" ELSE IF command = "import" THEN "none" ELSE "done"
    /\ foretold' = (foretold \/ (mode = "run" /\ command = "import"))
    /\ guest' = guest /\ todo' = todo /\ deferred' = deferred /\ mode' = mode
    /\ plan' = plan /\ rootAt' = rootAt /\ faulty' = faulty
    /\ written' = written /\ kills' = kills

LEMMA RespondedIs ==
    ASSUME Respond PROVE Responded
<1>1. Busy /\ todo = <<>> /\ deferred = <<>> BY DEF Respond, Busy
<1>2. /\ Untouched /\ guest' = guest /\ todo' = todo /\ deferred' = deferred /\ mode' = mode
      /\ plan' = plan /\ rootAt' = rootAt /\ faulty' = faulty
      /\ written' = written /\ kills' = kills
  BY DEF Respond, Untouched, devices
<1>3. foretold' = (foretold \/ (mode = "run" /\ command = "import")) BY DEF Respond, DryRun
<1>4. command' = IF mode = "fail" THEN "failed" ELSE IF command = "import" THEN "none" ELSE "done"
  BY DEF Respond, DryRun
<1> QED BY <1>1, <1>2, <1>3, <1>4 DEF Responded

LEMMA NextKinds ==
    ASSUME Types, Next
    PROVE  \/ QuietStep \/ Enter \/ CleanUp \/ ActivateVG \/ DoMount \/ SetUpClones
           \/ Started \/ Killed \/ Failed \/ (Unwound /\ Effect) \/ Responded
BY StepKinds, StartedIs, KilledIs, FailedIs, UnwoundIs, RespondedIs DEF Next

-----------------------------------------------------------------------------
(* Types and the control *)

LEMMA TookFacts ==
    ASSUME Types, Control, Took
    PROVE  /\ Busy /\ Going /\ command \in {"import", "post"} /\ guest \in GuestOS
           /\ todo \in Seq(Fits(guest, command)) /\ Program(todo, guest, command)
           /\ Head(todo) \in Fits(guest, command)
           /\ Program(todo', guest', command') /\ todo' \in Seq(Fits(guest', command'))
           /\ MainOnce(todo')
           /\ Busy' /\ command' \in {"import", "post"}
           /\ deferred \in Seq(Call) /\ mounts \in Seq(Placed)
           /\ \A s : Left(s)' => Left(s)
           /\ \A s : Left(s) => Head(todo) = s \/ Left(s)'
           /\ Left(Head(todo))
<1>1. mode = "run" /\ todo # <<>> /\ todo' = Tail(todo) /\ guest' = guest /\ command' = command
  BY DEF Took
<1>2. Busy /\ Going BY <1>1 DEF Control, Going
<1>3. guest \in GuestOS /\ deferred \in Seq(Call) /\ mounts \in Seq(Placed) BY DEF Types
<1>4. /\ todo \in Seq(Fits(guest, command)) /\ Program(todo, guest, command)
      /\ MainOnce(todo)
  BY DEF Control
<1>5. Program(Tail(todo), guest, command) BY <1>1, <1>3, <1>4, ProgramTail
<1>6. Tail(todo) \in Seq(Fits(guest, command)) BY <1>1, <1>4, Shorter
<1>7. MainOnce(Tail(todo)) BY <1>1, <1>4, MainOnceTail
<1>8. \A s : Within(Tail(todo), s) => Within(todo, s) BY <1>1, <1>4, WithinTail
<1>9. \A s : Within(todo, s) => Head(todo) = s \/ Within(Tail(todo), s)
  BY <1>1, <1>4, WithinTail
<1>10. Within(todo, Head(todo)) BY <1>1, <1>4, WithinTail
<1>11. Head(todo) \in Fits(guest, command) BY <1>1, <1>4, HeadTailProperties
<1>12. Busy' /\ command' \in {"import", "post"} BY <1>1, <1>2 DEF Busy
<1> QED BY <1>1, <1>2, <1>3, <1>4, <1>5, <1>6, <1>7, <1>8, <1>9, <1>10, <1>11, <1>12
        DEF Left, Busy

\* The root file system as the boot partition's replacement finds it.
LEMMA RootDevice ==
    ASSUME Types, Control, ClonesReady, VGFits, Idle, Learns,
           mode = "run", todo # <<>>, Head(todo) = <<"replace">>
    PROVE  /\ DeviceOf("root") \in Side
           /\ command = "import" => DeviceOf("root") # "disk"
           /\ command = "post" => DeviceOf("root") = "disk"
<1>1. Head(todo) = <<"replace">> OBVIOUS
<1>2. /\ Going /\ command \in {"import", "post"} /\ guest \in GuestOS /\ todo # <<>>
      /\ todo \in Seq(Fits(guest, command)) /\ Program(todo, guest, command)
  BY DEF Types, Control, Busy, Going
<1>3. DeviceOf("root") = IF guest.root = "lvm" THEN vg ELSE rootAt BY DEF DeviceOf
<1>4. vg \in {"disk", "clone", "off"} /\ rootAt \in {"disk", "clone"} BY DEF Types, TypeOK, Side
<1>5. guest.os \in {"linux", "windows", "fortigate"} /\ guest.root \in {"none", "plain", "lvm"}
  BY <1>2 DEF GuestOS
<1>6. CASE command = "import"
  <2>1. ~Left(<<"clone">>)
    <3>1. Within(todo, <<"clone">>) /\ Head(todo) # <<"clone">> =>
            Head(todo) \in LookOf(guest.os) \cup {<<"clean">>}
      BY <1>2, CloneStep
    <3>2. Head(todo) # <<"clone">> BY <1>1
    <3>3. <<"replace">> \notin LookOf(guest.os) \cup {<<"clean">>} BY <1>5, Apart
    <3> QED BY <3>1, <3>2, <3>3, <1>1 DEF Left
  <2>2. ClonesFit BY <2>1, <1>2, <1>6 DEF ClonesReady
  <2>3. \A n \in 1 .. Len(todo) : todo[n] \in WorkOf(guest.os) BY <2>1, <1>2, <1>6 DEF ClonesReady
  <2>4. Has(guest, "root")
    <3>1. <<"found">> \notin WorkOf(guest.os) BY <1>5 DEF WorkOf
    <3>2. ~Left(<<"found">>) BY <2>3, <3>1 DEF Left, Within
    <3> QED BY <3>2, <1>2 DEF Learns
  <2>5. guest.root = "plain" \/ guest.root = "lvm" BY <2>4 DEF Has
  <2>6. Head(todo) # <<"match">> BY <1>1
  <2> QED BY <2>2, <2>5, <2>6, <1>3, <1>6 DEF ClonesFit, Side
<1>7. CASE command = "post"
  <2>1. vg # "clone" /\ rootAt = "disk" BY <1>7 DEF Idle
  <2>2. guest.root = "lvm" => vg # "off"
    <3>1. SUFFICES ASSUME guest.root = "lvm" PROVE vg # "off" OBVIOUS
    <3>2. PICK f \in Flag, j \in Flag : Flagged(todo, f, j) /\ Knows(f)
      BY <1>2, <3>1 DEF VGFits
    <3>3. \E i \in Flag : Turns(Head(todo), f, i) /\ Flagged(Tail(todo), i, j)
      BY <1>2, <3>2, FlaggedTail
    <3>4. Head(todo) \in RootUse BY <1>1 DEF RootUse
    <3>5. f # "off" BY <3>3, <3>4 DEF Turns
    <3> QED BY <3>2, <3>5 DEF Knows
  <2> QED BY <2>1, <2>2, <1>3, <1>4, <1>7 DEF Side
<1> QED BY <1>2, <1>6, <1>7

LEMMA WrittenStep ==
    ASSUME Types, Control, ClonesReady, VGFits, Idle, Learns, QuietStep
    PROVE  written' \subseteq {"import", "post"} \X FileSystem \X Side
<1>1. Took BY DEF QuietStep
<1>2. written \subseteq {"import", "post"} \X FileSystem \X Side /\ mounts \in Seq(Placed)
  BY DEF Types, TypeOK
<1>3. command \in {"import", "post"} BY <1>1, TookFacts
<1>4. ASSUME NEW paths, paths \cap {"drivers", "backup"} = {}, WrittenAt(paths)
      PROVE  written' \subseteq {"import", "post"} \X FileSystem \X Side
  <2>1. ASSUME NEW n \in DOMAIN mounts, mounts[n].at \in paths
        PROVE  mounts[n].fs \in FileSystem /\ mounts[n].on \in Side
    <3>1. n \in 1 .. Len(mounts) BY <1>2, LenProperties
    <3>2. mounts[n] \in Placed BY <1>2, <3>1, ElementOfSeq
    <3> QED BY <3>2, <2>1, <1>4 DEF Placed, Mount
  <2> QED BY <2>1, <1>2, <1>3, <1>4 DEF WrittenAt
<1>5. CASE RunScriptsInChroot
  <2>1. {"target", "target/extra"} \cap {"drivers", "backup"} = {} OBVIOUS
  <2> QED BY <2>1, <1>4, <1>5 DEF RunScriptsInChroot
<1>6. CASE InjectDrivers
  <2>1. {"win_main", "win_recovery"} \cap {"drivers", "backup"} = {} OBVIOUS
  <2> QED BY <2>1, <1>4, <1>6 DEF InjectDrivers
<1>7. CASE ReplaceBoot
  <2>0. mode = "run" /\ todo # <<>> /\ Head(todo) = <<"replace">> BY <1>7 DEF ReplaceBoot, Step
  <2>1. DeviceOf("root") \in Side BY <2>0, RootDevice
  <2>2. written' = written \cup {<<command, "root", DeviceOf("root")>>} BY <1>7 DEF ReplaceBoot
  <2>3. "root" \in FileSystem BY DEF FileSystem
  <2> QED BY <2>1, <2>2, <2>3, <1>2, <1>3
<1> QED BY <1>2, <1>5, <1>6, <1>7 DEF QuietStep, Works

LEMMA SeqPlaced ==
    ASSUME NEW ms \in Seq(Placed)
    PROVE  \A n \in DOMAIN ms : ms[n] \in Mount
<1>1. DOMAIN ms = 1 .. Len(ms) BY LenProperties
<1>2. \A n \in 1 .. Len(ms) : ms[n] \in Placed BY ElementOfSeq
<1> QED BY <1>1, <1>2 DEF Placed

LEMMA DisksType ==
    ASSUME Types PROVE DisksOf(plan) \subseteq FileSystem
BY DEF Types, TypeOK, DisksOf

\* What a step that ends halfway leaves.
LEMMA HalfwayIs ==
    ASSUME Types, Control, ClonesReady, VGFits, Idle, Learns, LeftHalfway,
           mode = "run", todo # <<>>
    PROVE  /\ mounts' \in Seq(Placed) /\ vg' \in {vg, "off"}
           /\ clones' \subseteq FileSystem
           /\ \/ Untouched
              \/ guest.os = "fortigate" /\ vg' = vg /\ clones' = clones
              \/ /\ Head(todo) = <<"clone">> /\ mounts' = TargetUnmounted
                 /\ command = "import"
<1>1. mounts \in Seq(Placed) /\ clones \subseteq FileSystem /\ guest \in GuestOS
  BY DEF Types, TypeOK
<1>2. Busy /\ Head(todo) \in Fits(guest, command)
  <2>1. Busy BY DEF Control
  <2>2. todo \in Seq(Fits(guest, command)) BY DEF Control
  <2> QED BY <2>1, <2>2, HeadTailProperties
<1>3. CASE UNCHANGED devices BY <1>1, <1>3 DEF Untouched, devices
<1>4. CASE /\ Head(todo) = <<"replace">> /\ MountsAt("backup") = {}
           /\ mounts' = mounts \o <<[at |-> "target", fs |-> "root", on |-> DeviceOf("root")],
                                    [at |-> "backup", fs |-> "none", on |-> "disk"]>>
           /\ UNCHANGED <<vg, clones>>
  <2> DEFINE a == [at |-> "target", fs |-> "root", on |-> DeviceOf("root")]
             b == [at |-> "backup", fs |-> "none", on |-> "disk"]
  <2>1. guest.os = "fortigate"
    <3>1. Head(todo) \in StepsOf(guest.os) BY <1>2 DEF Fits
    <3>2. guest.os \in {"linux", "windows", "fortigate"} BY <1>1 DEF GuestOS
    <3>3. <<"replace">> \notin StepsOf("linux") /\ <<"replace">> \notin StepsOf("windows")
      BY DEF StepsOf, LookOf, WorkOf
    <3> QED BY <3>1, <3>2, <3>3, <1>4
  <2>2. DeviceOf("root") \in Side BY <1>4, RootDevice
  <2>3. a \in Placed /\ b \in Placed BY <2>2 DEF Placed, Mount, Path, FileSystem, Side
  <2> HIDE DEF a, b
  <2>4. <<a, b>> \in Seq(Placed) BY <2>3
  <2>5. mounts \o <<a, b>> \in Seq(Placed) BY <2>4, <1>1, ConcatProperties
  <2> QED BY <2>1, <2>5, <1>1, <1>4 DEF a, b
<1>5. CASE /\ Head(todo) = <<"clone">> /\ ~OnClone(TargetUnmounted)
           /\ mounts' = TargetUnmounted
           /\ vg' = Deactivated(mounts')
           /\ clones' \in SUBSET DisksOf(plan)
  <2>1. TargetUnmounted \in Seq(Placed) BY TargetGone
  <2>2. vg' \in {vg, "off"} BY <1>5 DEF Deactivated
  <2>3. clones' \subseteq FileSystem BY <1>5, DisksType
  <2>4. command = "import"
    <3>1. command = "post" => Head(todo) \notin {<<"clone">>, <<"match">>, <<"ensure">>}
      BY <1>2 DEF Fits
    <3> QED BY <3>1, <1>2, <1>5 DEF Busy
  <2> QED BY <2>1, <2>2, <2>3, <2>4, <1>5
<1> QED BY <1>3, <1>4, <1>5 DEF LeftHalfway

\* What DoMount mounts belongs where it is mounted.
LEMMA MountTyped ==
    ASSUME Types, Control, DoMount
    PROVE  \E p \in Path, f \in FileSystem \cup {"none"} :
             /\ Took /\ Still /\ Head(todo) = <<"mount", p, f>> /\ MountExists(p, f)
             /\ mounts' = Append(mounts, [at |-> p, fs |-> f, on |-> DeviceOf(f)])
             /\ vg' = vg /\ clones' = clones
             /\ deferred' = <<<<"unmount", p>>>> \o deferred
             /\ [at |-> p, fs |-> f, on |-> DeviceOf(f)] \in Placed
<1>1. PICK p \in Path, f \in FileSystem \cup {"none"} :
        /\ Took /\ Still /\ Head(todo) = <<"mount", p, f>> /\ MountExists(p, f)
        /\ mounts' = Append(mounts, [at |-> p, fs |-> f, on |-> DeviceOf(f)])
        /\ vg' = vg /\ clones' = clones
        /\ deferred' = <<<<"unmount", p>>>> \o deferred
  BY MountIs
<1>2. guest \in GuestOS /\ Head(todo) \in StepsOf(guest.os)
  <2>1. Head(todo) \in Fits(guest, command) /\ guest \in GuestOS BY <1>1, TookFacts
  <2> QED BY <2>1 DEF Fits
<1>3. f = "none" => p = "drivers"
  <2>1. SUFFICES ASSUME f = "none" PROVE p = "drivers" OBVIOUS
  <2>2. <<"mount", p, "none">> \in StepsOf(guest.os) BY <1>1, <1>2, <2>1
  <2>3. guest.os \in {"linux", "windows", "fortigate"} BY <1>2 DEF GuestOS
  <2>4. ASSUME NEW s \in StepsOf(guest.os), s = <<"mount", p, "none">> PROVE p = "drivers"
    <3>1. \/ s = <<"mount", "drivers", "none">>
          \/ s[1] # "mount"
          \/ s[3] # "none"
      BY <2>3, <2>4 DEF StepsOf, LookOf, WorkOf
    <3> QED BY <3>1, <2>4
  <2> QED BY <2>2, <2>4
<1>4. DeviceOf(f) \in Side
  <2>1. f = "none" => DeviceOf(f) = "disk" BY DEF DeviceOf
  <2> QED BY <2>1, <1>1 DEF MountExists, Side
<1>5. [at |-> p, fs |-> f, on |-> DeviceOf(f)] \in Placed
  BY <1>3, <1>4 DEF Placed, Mount
<1> QED BY <1>1, <1>5

LEMMA Calls ==
    /\ <<"mark">> \in Call /\ <<"clean">> \in Call /\ <<"deactivate">> \in Call
    /\ \A p \in Path : <<"unmount", p>> \in Call
BY DEF Call

\* The unmounting of a deferred call.
LEMMA UnmountTyped ==
    ASSUME Types, NEW p, DoUnmount(p)
    PROVE  mounts' \in Seq(Placed) /\ Kept(mounts, mounts')
<1>1. mounts \in Seq(Placed) BY DEF Types
<1>2. mounts' = IF MountsAt(p) = {} THEN mounts ELSE Unmounted({Uppermost(p)}) BY DEF DoUnmount
<1> DEFINE gone == {Uppermost(p)}
<1>3. /\ Unmounted(gone) \in Seq(Placed)
      /\ \A n \in 1 .. Len(Unmounted(gone)) : \E k \in 1 .. Len(mounts) :
           Unmounted(gone)[n] = mounts[k] /\ k \notin gone
  BY <1>1, UnmountedSome
<1>4. Kept(mounts, Unmounted(gone)) BY <1>3 DEF Kept
<1> HIDE DEF gone
<1>5. Kept(mounts, mounts) BY KeptSame
<1> QED BY <1>1, <1>2, <1>3, <1>4, <1>5 DEF gone

LEMMA DevicesTyped ==
    ASSUME Inv, Next
    PROVE  /\ mounts' \in Seq(Placed) /\ deferred' \in Seq(Call)
           /\ vg' \in Side \cup {"off"} /\ clones' \subseteq FileSystem
<1>1. /\ Types /\ Control /\ ClonesReady /\ VGFits /\ Idle /\ Learns
      /\ mounts \in Seq(Placed) /\ deferred \in Seq(Call)
      /\ vg \in Side \cup {"off"} /\ clones \subseteq FileSystem
  BY DEF Inv, Types, TypeOK
<1>2. ASSUME NEW x \in Call PROVE <<x>> \o deferred \in Seq(Call) BY <1>1, <1>2, Push
<1>3. "disk" \in Side /\ "clone" \in Side BY DEF Side
<1>4. CASE QuietStep BY <1>1, <1>4 DEF QuietStep, Untouched
<1>5. CASE Enter
  <2>1. deferred' = <<<<"mark">>>> \o deferred BY <1>5, EnterIs
  <2> QED BY <2>1, <1>1, <1>2, <1>5, EnterIs, Calls DEF Untouched
<1>6. ASSUME CleanupClones
      PROVE  mounts' \in Seq(Placed) /\ vg' \in Side \cup {"off"} /\ clones' \subseteq FileSystem
  <2>1. mounts' \in Seq(Placed) /\ vg' \in {vg, "off"} /\ clones' \in {clones, {}}
    BY <1>1, <1>6, CleanupIs
  <2> QED BY <2>1, <1>1
<1>7. CASE CleanUp
  <2>1. CleanupClones /\ deferred' = <<<<"clean">>>> \o deferred BY <1>7, CleanUpIs
  <2> QED BY <2>1, <1>2, <1>6, Calls
<1>8. CASE ActivateVG
  <2>1. deferred' = <<<<"deactivate">>>> \o deferred BY <1>8, ActivateIs
  <2>2. deferred' \in Seq(Call) BY <2>1, <1>2, Calls
  <2> QED BY <2>2, <1>1, <1>3, <1>8, ActivateIs
<1>9. CASE DoMount
  <2>1. PICK p \in Path, f \in FileSystem \cup {"none"} :
             /\ mounts' = Append(mounts, [at |-> p, fs |-> f, on |-> DeviceOf(f)])
             /\ vg' = vg /\ clones' = clones
             /\ deferred' = <<<<"unmount", p>>>> \o deferred
             /\ [at |-> p, fs |-> f, on |-> DeviceOf(f)] \in Placed
    BY <1>1, <1>9, MountTyped
  <2>2. deferred' \in Seq(Call) BY <2>1, <1>2, Calls
  <2>3. mounts' \in Seq(Placed) BY <2>1, <1>1, AppendProperties
  <2> QED BY <2>1, <2>2, <2>3, <1>1
<1>10. CASE SetUpClones
  <2>1. /\ mounts' = TargetUnmounted
        /\ clones' = DisksOf(plan)
        /\ vg' = IF InVG(guest) \cap plan = {} THEN "off" ELSE "clone"
        /\ deferred' = IF guest.os = "windows" THEN deferred
                       ELSE <<<<"deactivate">>>> \o deferred
    BY <1>10, CloneIs
  <2>2. TargetUnmounted \in Seq(Placed) BY <1>1, TargetGone
  <2>3. DisksOf(plan) \subseteq FileSystem BY <1>1, DisksType
  <2>4. deferred' \in Seq(Call) BY <2>1, <1>1, <1>2, Calls
  <2> QED BY <2>1, <2>2, <2>3, <2>4, <1>3
<1>11. ASSUME mode = "run", todo # <<>>, LeftHalfway
       PROVE  mounts' \in Seq(Placed) /\ vg' \in Side \cup {"off"} /\ clones' \subseteq FileSystem
  <2>1. mounts' \in Seq(Placed) /\ vg' \in {vg, "off"} /\ clones' \subseteq FileSystem
    BY <1>1, <1>11, HalfwayIs
  <2> QED BY <2>1, <1>1
<1>12. <<>> \in Seq(Call) BY EmptySeq
<1>13. CASE Started BY <1>1, <1>12, <1>13 DEF Started, Begins0, Untouched
<1>14. CASE Killed
  <2>1. deferred' \in Seq(Call) BY <1>12, <1>14 DEF Killed, Begins0
  <2> QED BY <2>1, <1>1, <1>11, <1>14 DEF Killed, Untouched
<1>15. CASE Failed BY <1>1, <1>11, <1>15 DEF Failed, Untouched
<1>16. CASE Unwound /\ Effect
  <2>1. deferred' \in Seq(Call)
    <3>1. deferred' = Tail(deferred) /\ deferred # <<>> BY <1>16 DEF Unwound
    <3> QED BY <3>1, <1>1, HeadTailProperties
  <2>2. CASE Untouched BY <2>1, <2>2, <1>1 DEF Untouched
  <2>3. CASE CleanupClones BY <2>1, <2>3, <1>6
  <2>4. CASE vg' = Deactivated(mounts) /\ mounts' = mounts /\ clones' = clones
    BY <2>1, <2>4, <1>1 DEF Deactivated
  <2>5. CASE DoUnmount(Head(deferred)[2]) /\ vg' = vg /\ clones' = clones
    <3>1. mounts' \in Seq(Placed) BY <2>5, <1>1, UnmountTyped
    <3> QED BY <3>1, <2>1, <2>5, <1>1
  <2> QED BY <1>16, <2>2, <2>3, <2>4, <2>5 DEF Effect
<1>17. CASE Responded BY <1>1, <1>17 DEF Responded, Untouched
<1> QED BY <1>1, <1>4, <1>5, <1>7, <1>8, <1>9, <1>10, <1>13, <1>14, <1>15, <1>16, <1>17,
        NextKinds

LEMMA TypesStep ==
    ASSUME Inv, Next
    PROVE  Types'
<1>1. /\ Types /\ Control /\ ClonesReady /\ VGFits /\ Idle /\ Learns
      /\ guest \in Guest /\ guest \in GuestOS
      /\ command \in {"none", "import", "post", "failed", "done"}
      /\ mode \in {"run", "leave", "fail"}
      /\ plan \subseteq FileSystem /\ rootAt \in Side
      /\ written \subseteq {"import", "post"} \X FileSystem \X Side
      /\ faulty \in BOOLEAN /\ foretold \in BOOLEAN /\ kills \in 0 .. MaxKills
  BY DEF Inv, Types, TypeOK
<1>2. /\ mounts' \in Seq(Placed) /\ deferred' \in Seq(Call)
      /\ vg' \in Side \cup {"off"} /\ clones' \subseteq FileSystem
  BY DevicesTyped
<1>3. \A n \in DOMAIN mounts' : mounts'[n] \in Mount BY <1>2, SeqPlaced
<1> DEFINE Task ==
      /\ guest' = guest
      /\ command' \in {"none", "import", "post", "failed", "done"}
      /\ mode' \in {"run", "leave", "fail"}
      /\ plan' \subseteq FileSystem /\ rootAt' \in Side
      /\ written' \subseteq {"import", "post"} \X FileSystem \X Side
      /\ faulty' \in BOOLEAN /\ foretold' \in BOOLEAN /\ kills' \in 0 .. MaxKills
<1>4. SUFFICES Task BY <1>1, <1>2, <1>3 DEF Types, TypeOK
<1>5. "disk" \in Side /\ "clone" \in Side /\ AllOf \subseteq FileSystem /\ "root" \in FileSystem
  BY DEF Side, AllOf, FileSystem
<1>6. CASE QuietStep
  <2>1. written' \subseteq {"import", "post"} \X FileSystem \X Side BY <1>1, <1>6, WrittenStep
  <2>2. /\ guest' = guest /\ command' = command /\ foretold' = foretold /\ kills' = kills
        /\ faulty' = faulty
        /\ mode' = IF Head(todo) = <<"leave">> THEN "leave" ELSE "run"
        /\ plan' = IF Head(todo) = <<"fstab">> THEN AllOf ELSE plan
        /\ rootAt' = IF Head(todo) = <<"match">> /\ guest.root = "plain" THEN "clone" ELSE rootAt
    BY <1>6 DEF QuietStep, Took
  <2>3. mode' \in {"run", "leave", "fail"} BY <2>2
  <2>4. plan' \subseteq FileSystem BY <2>2, <1>1, <1>5
  <2>5. rootAt' \in Side BY <2>2, <1>1, <1>5
  <2> QED BY <2>1, <2>2, <2>3, <2>4, <2>5, <1>1
<1>7. ASSUME Took, Still PROVE Task BY <1>1, <1>7 DEF Took, Still
<1>8. CASE Enter \/ CleanUp \/ ActivateVG \/ DoMount \/ SetUpClones
  <2>1. Took /\ Still BY <1>8, EnterIs, CleanUpIs, ActivateIs, MountIs, CloneIs
  <2> QED BY <2>1, <1>7
<1>9. ASSUME Begins0, kills' \in 0 .. MaxKills PROVE Task BY <1>1, <1>5, <1>9 DEF Begins0
<1>10. CASE Started BY <1>1, <1>9, <1>10 DEF Started
<1>11. CASE Killed
  <2>1. kills' \in 0 .. MaxKills BY <1>1, <1>11, PostImportAssumption DEF Killed
  <2> QED BY <2>1, <1>9, <1>11 DEF Killed
<1>12. CASE Failed BY <1>1, <1>12 DEF Failed
<1>13. CASE Unwound /\ Effect BY <1>1, <1>13 DEF Unwound
<1>14. CASE Responded
  <2>1. command' \in {"none", "failed", "done"} BY <1>14 DEF Responded
  <2> QED BY <2>1, <1>1, <1>14 DEF Responded
<1> QED BY <1>1, <1>6, <1>8, <1>10, <1>11, <1>12, <1>13, <1>14, NextKinds

LEMMA ControlStep ==
    ASSUME Inv, Next
    PROVE  Control'
<1>1. Types /\ Control BY DEF Inv
<1>2. guest \in GuestOS BY <1>1 DEF Types
<1>3. /\ Program(todo, guest, command) /\ todo \in Seq(Fits(guest, command)) /\ MainOnce(todo)
      /\ mode = "fail" => todo = <<>>
      /\ ~Busy => todo = <<>> /\ deferred = <<>>
      /\ command = "post" => foretold
      /\ command = "failed" => mode = "fail"
  BY <1>1 DEF Control
<1>4. ASSUME Took, mode' # "fail" PROVE Control'
  <2>1. /\ Program(todo', guest', command') /\ todo' \in Seq(Fits(guest', command'))
        /\ MainOnce(todo') /\ Busy' /\ command' \in {"import", "post"}
    BY <1>1, <1>4, TookFacts
  <2>2. command' = command /\ foretold' = foretold BY <1>4 DEF Took
  <2> QED BY <2>1, <2>2, <1>3, <1>4 DEF Control
<1>5. CASE QuietStep
  <2>1. Took BY <1>5 DEF QuietStep
  <2>2. mode' # "fail" BY <1>5 DEF QuietStep
  <2> QED BY <2>1, <2>2, <1>4
<1>6. CASE Enter \/ CleanUp \/ ActivateVG \/ DoMount \/ SetUpClones
  <2>1. Took /\ Still BY <1>6, EnterIs, CleanUpIs, ActivateIs, MountIs, CloneIs
  <2> QED BY <2>1, <1>4 DEF Still
<1>7. ASSUME Begins0, command' = "post" => foretold PROVE Control'
  <2>1. /\ Program(todo', guest', command') /\ todo' \in Seq(Fits(guest', command'))
        /\ MainOnce(todo')
    BY <1>1, <1>7, BeginsIs
  <2>2. Busy' /\ mode' = "run" /\ command' \in {"import", "post"} /\ foretold' = foretold
    BY <1>7 DEF Begins0, Busy
  <2> QED BY <2>1, <2>2, <1>7 DEF Control
<1>8. CASE Started BY <1>7, <1>8 DEF Started
<1>9. CASE Killed BY <1>3, <1>7, <1>9 DEF Killed
<1>10. ASSUME todo' = <<>>, guest' = guest
       PROVE  /\ Program(todo', guest', command') /\ todo' \in Seq(Fits(guest', command'))
              /\ MainOnce(todo')
  BY <1>2, <1>10, ProgramNone
<1>11. CASE Failed
  <2>1. /\ todo' = <<>> /\ guest' = guest /\ command' = command /\ foretold' = foretold
        /\ mode' = "fail" /\ deferred' = deferred /\ todo # <<>>
    BY <1>11 DEF Failed
  <2>2. Busy' BY <2>1, <1>3 DEF Busy
  <2> QED BY <2>1, <2>2, <1>3, <1>10 DEF Control
<1>12. CASE Unwound /\ Effect
  <2>1. /\ Busy /\ todo' = todo /\ guest' = guest /\ command' = command /\ foretold' = foretold
        /\ mode' = IF mode = "leave" /\ Head(deferred) = <<"mark">> THEN "run" ELSE mode
    BY <1>12 DEF Unwound
  <2>2. Busy' BY <2>1 DEF Busy
  <2>3. mode' = "fail" => mode = "fail" BY <2>1
  <2>4. command' # "failed" BY <2>1 DEF Busy
  <2> QED BY <2>1, <2>2, <2>3, <2>4, <1>3 DEF Control
<1>13. CASE Responded
  <2>1. /\ todo' = <<>> /\ deferred' = <<>> /\ guest' = guest /\ mode' = mode
        /\ command' = IF mode = "fail" THEN "failed" ELSE IF command = "import" THEN "none" ELSE "done"
    BY <1>13 DEF Responded
  <2>2. command' = "failed" => mode' = "fail" BY <2>1
  <2>3. command' # "post" BY <2>1
  <2> QED BY <2>1, <2>2, <2>3, <1>10 DEF Control
<1> QED BY <1>1, <1>5, <1>6, <1>8, <1>9, <1>11, <1>12, <1>13, NextKinds

-----------------------------------------------------------------------------
(* The deferred calls and the mounts *)

LEMMA StackFrom ==
    ASSUME NEW k \in Nat, Stacked(deferred', mounts', k), guest' = guest,
           Tidy' => (guest.os = "linux" /\ Left(<<"clean">>)') \/ k = Len(mounts'),
           command' = "import" /\ ~Left(<<"clone">>)' /\ mode' # "fail" =>
               \A n \in 1 .. Len(mounts') - k : Foreign(mounts'[n]),
           k > 0 /\ mode' = "run" /\ todo' # <<>> => Head(todo') \in Follows
    PROVE  StackFits'
<1>1. Base(k)'
  <2>1. \A n \in 1 .. Len(mounts') - k : Foreign(mounts'[n]) <=> Foreign(mounts[n])'
    BY DEF Foreign
  <2> QED BY <2>1 DEF Base
<1>2. Stacked(deferred, mounts, k)' BY DEF Stacked
<1> QED BY <1>1, <1>2 DEF StackFits

LEMMA StackGet ==
    ASSUME Inv, Busy, mode # "fail" \/ guest.os # "fortigate"
    PROVE  \E k \in Nat :
             /\ Stacked(deferred, mounts, k)
             /\ Tidy => (guest.os = "linux" /\ Left(<<"clean">>)) \/ k = Len(mounts)
             /\ command = "import" /\ ~Left(<<"clone">>) /\ mode # "fail" =>
                  \A n \in 1 .. Len(mounts) - k : Foreign(mounts[n])
             /\ k > 0 /\ mode = "run" /\ todo # <<>> => Head(todo) \in Follows
BY DEF Inv, StackFits, Base

\* What does not follow a mount is done when nothing is deferred that unmounts.
LEMMA NotFollows ==
    /\ <<"enter">> \notin Follows /\ <<"clean">> \notin Follows /\ <<"activate">> \notin Follows
    /\ <<"clone">> \notin Follows /\ <<"found">> \notin Follows /\ <<"match">> \notin Follows
    /\ <<"ensure">> \notin Follows /\ <<"replace">> \notin Follows
    /\ <<"mount", "target", "root">> \notin Follows
BY DEF Follows

LEMMA StackZero ==
    ASSUME NEW d, NEW S, NEW ms \in Seq(S), NEW T, NEW ns \in Seq(T), Stacked(d, ms, 0),
           Len(d) \in Nat
    PROVE  Stacked(d, ns, 0)
<1>1. Len(ns) \in Nat /\ Len(ms) \in Nat BY LenProperties
<1>2. 0 <= Len(ns) /\ 0 <= Len(d) BY <1>1
<1>3. \A j \in 1 .. 0 : FALSE OBVIOUS
<1>4. \A j \in 0 + 1 .. Len(d) : d[j][1] # "unmount" BY DEF Stacked
<1> QED BY <1>2, <1>3, <1>4 DEF Stacked

LEMMA Emptied ==
    ASSUME Inv, CleanupClones \/ mounts' = TargetUnmounted,
           guest.os = "linux" \/ 0 = Len(mounts)
    PROVE  mounts' = <<>>
<1>1. Types /\ Shape /\ mounts \in Seq(Placed) BY DEF Inv, Types
<1>2. mounts' = TargetUnmounted BY DEF CleanupClones
<1>3. 0 = Len(mounts) => mounts = <<>> BY <1>1, EmptySeq
<1>4. guest.os = "linux" => Shaped(mounts) BY <1>1 DEF Shape
<1> QED BY <1>1, <1>2, <1>3, <1>4, TargetGone

LEMMA KeptForeign ==
    ASSUME Kept(mounts, mounts'), \A n \in 1 .. Len(mounts) : Foreign(mounts[n])
    PROVE  \A n \in 1 .. Len(mounts') : Foreign(mounts'[n])
BY DEF Kept

LEMMA NoMounts ==
    ASSUME NEW S, NEW ms \in Seq(S)
    PROVE  Len(ms) \in Nat /\ (ms = <<>> <=> 0 = Len(ms))
BY LenProperties, EmptySeq

\* The steps that do not unmount or clone.
LEMMA StackTook ==
    ASSUME Inv, Next, Took, mode' # "fail",
           \/ QuietStep
           \/ Enter \/ ActivateVG
    PROVE  StackFits'
<1>1. /\ Types /\ Control /\ mounts \in Seq(Placed) /\ deferred \in Seq(Call)
      /\ guest \in GuestOS
  BY DEF Inv, Types
<1>2. /\ Busy /\ Program(todo, guest, command) /\ mode = "run" /\ todo # <<>>
      /\ todo' = Tail(todo) /\ guest' = guest /\ command' = command /\ kills' = kills
      /\ \A s : Left(s)' => Left(s)
      /\ \A s : Left(s) => Head(todo) = s \/ Left(s)'
  BY <1>1, TookFacts DEF Took
<1>3. PICK k \in Nat :
        /\ Stacked(deferred, mounts, k)
        /\ Tidy => (guest.os = "linux" /\ Left(<<"clean">>)) \/ k = Len(mounts)
        /\ command = "import" /\ ~Left(<<"clone">>) /\ mode # "fail" =>
             \A n \in 1 .. Len(mounts) - k : Foreign(mounts[n])
        /\ k > 0 /\ mode = "run" /\ todo # <<>> => Head(todo) \in Follows
  BY <1>2, StackGet
<1>4. mounts' = mounts /\ Head(todo) # <<"clean">> /\ Head(todo) # <<"clone">>
  <2>1. CASE QuietStep
    <3>1. mounts' = mounts /\ Head(todo) \in QuietSteps BY <2>1 DEF QuietStep, Untouched
    <3>2. <<"clean">> \notin QuietSteps /\ <<"clone">> \notin QuietSteps BY DEF QuietSteps
    <3> QED BY <3>1, <3>2
  <2>2. CASE Enter
    <3>1. mounts' = mounts /\ Head(todo) = <<"enter">> BY <2>2, EnterIs DEF Untouched
    <3> QED BY <3>1
  <2>3. CASE ActivateVG
    <3>1. mounts' = mounts /\ Head(todo) = <<"activate">> BY <2>3, ActivateIs
    <3> QED BY <3>1
  <2> QED BY <2>1, <2>2, <2>3
<1>5. Tidy' => (guest.os = "linux" /\ Left(<<"clean">>)') \/ k = Len(mounts')
  <2>1. Tidy' <=> Tidy BY <1>2 DEF Tidy
  <2> QED BY <2>1, <1>2, <1>3, <1>4
<1>6. command' = "import" /\ ~Left(<<"clone">>)' /\ mode' # "fail" =>
        \A n \in 1 .. Len(mounts') - k : Foreign(mounts'[n])
  BY <1>2, <1>3, <1>4
<1>7. CASE QuietStep
  <2>1. Stacked(deferred', mounts', k) BY <1>3, <1>4, <1>7 DEF QuietStep
  <2>2. k > 0 /\ mode' = "run" /\ todo' # <<>> => Head(todo') \in Follows
    <3>1. SUFFICES ASSUME k > 0, mode' = "run", todo' # <<>> PROVE Head(todo') \in Follows
      OBVIOUS
    <3>2. Head(todo) \in Follows /\ Head(todo) \in QuietSteps /\ Head(todo) # <<"leave">>
      BY <1>2, <1>3, <1>7, <3>1 DEF QuietStep
    <3>3. Head(todo) \in {<<"fstab">>, <<"unlock">>, <<"scripts">>}
      BY <3>2, NotFollows DEF QuietSteps
    <3>4. Head(todo) # <<"scripts">> BY <1>1, <1>2, <3>1, NextStep
    <3>5. Head(todo) \in Opens BY <3>3, <3>4 DEF Opens
    <3> QED BY <3>5, <1>1, <1>2, NextStep
  <2> QED BY <2>1, <2>2, <1>2, <1>5, <1>6, StackFrom
<1>8. CASE Enter \/ ActivateVG
  <2>1. PICK x \in Call : x[1] # "unmount" /\ deferred' = <<x>> \o deferred
                          /\ Head(todo) \notin Follows
    <3>1. CASE Enter
      <4>1. <<"mark">> \in Call /\ <<"mark">>[1] # "unmount" BY Calls
      <4> QED BY <4>1, <3>1, EnterIs, NotFollows
    <3>2. CASE ActivateVG
      <4>1. <<"deactivate">> \in Call /\ <<"deactivate">>[1] # "unmount" BY Calls
      <4> QED BY <4>1, <3>2, ActivateIs, NotFollows
    <3> QED BY <1>8, <3>1, <3>2
  <2>2. k = 0 BY <2>1, <1>2, <1>3
  <2>3. Stacked(deferred', mounts', k) BY <1>1, <1>3, <1>4, <2>1, <2>2, StackPush
  <2> QED BY <2>2, <2>3, <1>2, <1>5, <1>6, StackFrom
<1> QED BY <1>7, <1>8

LEMMA OpensMount ==
    ASSUME NEW p \in Path, NEW f \in FileSystem \cup {"none"}
    PROVE  <<"mount", p, f>> \in Opens
<1> DEFINE M == {<<"mount", q, g>> : q \in Path, g \in FileSystem \cup {"none"}}
<1>1. \E q \in Path, g \in FileSystem \cup {"none"} : <<"mount", p, f>> = <<"mount", q, g>>
  OBVIOUS
<1>2. <<"mount", p, f>> \in M BY <1>1
<1> QED BY <1>2 DEF Opens

LEMMA StackMounted ==
    ASSUME Inv, Next, DoMount
    PROVE  StackFits'
<1>1. /\ Types /\ Control /\ mounts \in Seq(Placed) /\ deferred \in Seq(Call)
      /\ guest \in GuestOS
  BY DEF Inv, Types
<1>2. PICK p \in Path, f \in FileSystem \cup {"none"} :
        /\ Took /\ Still /\ Head(todo) = <<"mount", p, f>>
        /\ mounts' = Append(mounts, [at |-> p, fs |-> f, on |-> DeviceOf(f)])
        /\ deferred' = <<<<"unmount", p>>>> \o deferred
        /\ [at |-> p, fs |-> f, on |-> DeviceOf(f)] \in Placed
  BY <1>1, MountTyped
<1>3. /\ Busy /\ Program(todo, guest, command) /\ mode = "run" /\ todo # <<>>
      /\ todo' = Tail(todo) /\ guest' = guest /\ command' = command /\ kills' = kills
      /\ \A s : Left(s)' => Left(s)
      /\ \A s : Left(s) => Head(todo) = s \/ Left(s)'
  BY <1>1, <1>2, TookFacts DEF Took
<1>4. PICK k \in Nat :
        /\ Stacked(deferred, mounts, k)
        /\ Tidy => (guest.os = "linux" /\ Left(<<"clean">>)) \/ k = Len(mounts)
        /\ command = "import" /\ ~Left(<<"clone">>) /\ mode # "fail" =>
             \A n \in 1 .. Len(mounts) - k : Foreign(mounts[n])
  BY <1>3, StackGet
<1>5. Head(todo) # <<"clean">> /\ Head(todo) # <<"clone">>
  <2>1. Head(todo)[1] = "mount" BY <1>2
  <2> QED BY <2>1
<1>6. Head(todo') \in Follows
  <2>1. <<"mount", p, f>> \in Opens BY OpensMount
  <2>2. Head(todo) \in Opens BY <1>2, <2>1
  <2> QED BY <2>2, <1>1, <1>3, NextStep
<1> DEFINE m == [at |-> p, fs |-> f, on |-> DeviceOf(f)]
<1>7. m \in Placed /\ m.at = p /\ mounts' = Append(mounts, m) BY <1>2
<1> HIDE DEF m
<1>8. Stacked(deferred', mounts', k + 1)
  <2>1. m \in Mount /\ mounts \in Seq(Mount)
    <3>1. Placed \subseteq Mount BY DEF Placed
    <3>2. mounts \in Seq(Mount) BY <1>1, <3>1, SeqMonotonic
    <3> QED BY <3>1, <3>2, <1>7
  <2> QED BY <2>1, <1>1, <1>2, <1>4, <1>7, StackMount
<1>9. /\ Len(mounts) \in Nat /\ Len(mounts') = Len(mounts) + 1
      /\ \A n \in 1 .. Len(mounts) : mounts'[n] = mounts[n]
  BY <1>1, <1>7, AppendProperties, LenProperties
<1>10. Tidy' => (guest.os = "linux" /\ Left(<<"clean">>)') \/ k + 1 = Len(mounts')
  <2>1. Tidy' <=> Tidy BY <1>3 DEF Tidy
  <2> QED BY <2>1, <1>3, <1>4, <1>5, <1>9
<1>11. command' = "import" /\ ~Left(<<"clone">>)' /\ mode' # "fail" =>
        \A n \in 1 .. Len(mounts') - (k + 1) : Foreign(mounts'[n])
  <2>1. SUFFICES ASSUME command' = "import", ~Left(<<"clone">>)',
                        NEW n \in 1 .. Len(mounts') - (k + 1)
                 PROVE  Foreign(mounts'[n])
    OBVIOUS
  <2>2. n \in 1 .. Len(mounts) - k /\ n \in 1 .. Len(mounts) BY <1>9
  <2>3. Foreign(mounts[n]) BY <1>3, <1>4, <1>5, <2>1, <2>2
  <2> QED BY <2>2, <2>3, <1>9
<1>12. k + 1 \in Nat OBVIOUS
<1> QED BY <1>3, <1>6, <1>8, <1>10, <1>11, <1>12, StackFrom

LEMMA StackCleaned ==
    ASSUME Inv, Next, CleanUp \/ SetUpClones
    PROVE  StackFits'
<1>1. /\ Types /\ Control /\ mounts \in Seq(Placed) /\ deferred \in Seq(Call)
      /\ guest \in GuestOS /\ mounts' \in Seq(Placed)
  BY DevicesTyped DEF Inv, Types
<1>2. Took /\ Still BY CleanUpIs, CloneIs
<1>3. /\ Busy /\ mode = "run" /\ todo # <<>>
      /\ guest' = guest /\ command' = command /\ kills' = kills
      /\ \A s : Left(s) => Head(todo) = s \/ Left(s)'
  BY <1>1, <1>2, TookFacts DEF Took
<1>4. /\ Head(todo) = <<"clean">> \/ Head(todo) = <<"clone">>
      /\ CleanupClones \/ mounts' = TargetUnmounted
  BY CleanUpIs, CloneIs
<1>5. /\ Stacked(deferred, mounts, 0)
      /\ Tidy => (guest.os = "linux" /\ Left(<<"clean">>)) \/ 0 = Len(mounts)
      /\ command = "import" /\ ~Left(<<"clone">>) =>
             \A n \in 1 .. Len(mounts) - 0 : Foreign(mounts[n])
  <2>1. PICK k \in Nat :
          /\ Stacked(deferred, mounts, k)
          /\ Tidy => (guest.os = "linux" /\ Left(<<"clean">>)) \/ k = Len(mounts)
          /\ command = "import" /\ ~Left(<<"clone">>) /\ mode # "fail" =>
               \A n \in 1 .. Len(mounts) - k : Foreign(mounts[n])
          /\ k > 0 /\ mode = "run" /\ todo # <<>> => Head(todo) \in Follows
    BY <1>3, StackGet
  <2>2. Head(todo) \notin Follows BY <1>4, NotFollows
  <2>3. k = 0 BY <2>1, <2>2, <1>3
  <2> QED BY <2>1, <2>3, <1>3
<1>6. Tidy' => 0 = Len(mounts')
  <2>1. SUFFICES ASSUME Tidy' PROVE 0 = Len(mounts') OBVIOUS
  <2>2. guest.os = "linux" \/ 0 = Len(mounts) BY <2>1, <1>3, <1>5 DEF Tidy
  <2>3. mounts' = <<>> BY <2>2, <1>4, Emptied
  <2> QED BY <2>3, <1>1, NoMounts
<1>7. Stacked(deferred', mounts', 0)
  <2>1. CASE deferred' = deferred
    <3>1. Len(deferred) \in Nat BY <1>1, LenProperties
    <3> QED BY <3>1, <2>1, <1>1, <1>5, StackZero
  <2>2. CASE \E x \in Call : x[1] # "unmount" /\ deferred' = <<x>> \o deferred
    BY <2>2, <1>1, <1>5, StackPush
  <2>3. <<"clean">>[1] # "unmount" /\ <<"deactivate">>[1] # "unmount" OBVIOUS
  <2>4. CASE CleanUp
    <3>1. deferred' = <<<<"clean">>>> \o deferred BY <2>4, CleanUpIs
    <3> QED BY <3>1, <2>2, <2>3, Calls
  <2>5. CASE SetUpClones
    <3>1. deferred' = IF guest.os = "windows" THEN deferred
                      ELSE <<<<"deactivate">>>> \o deferred
      BY <2>5, CloneIs
    <3> QED BY <3>1, <2>1, <2>2, <2>3, Calls
  <2> QED BY <2>4, <2>5
<1>8. command' = "import" /\ ~Left(<<"clone">>)' /\ mode' # "fail" =>
        \A n \in 1 .. Len(mounts') - 0 : Foreign(mounts'[n])
  <2>1. SUFFICES ASSUME command' = "import", ~Left(<<"clone">>)'
                 PROVE  \A n \in 1 .. Len(mounts') : Foreign(mounts'[n])
    BY <1>1, NoMounts
  <2>2. CASE CleanUp
    <3>1. Head(todo) = <<"clean">> /\ CleanupClones BY <2>2, CleanUpIs
    <3>2. ~Left(<<"clone">>) BY <3>1, <2>1, <1>3
    <3>3. \A n \in 1 .. Len(mounts) : Foreign(mounts[n])
      BY <3>2, <2>1, <1>1, <1>3, <1>5, NoMounts
    <3>4. Kept(mounts, mounts') BY <3>1, <1>1, CleanupIs
    <3> QED BY <3>3, <3>4, KeptForeign
  <2>3. CASE SetUpClones
    <3>1. ~OnClone(mounts') /\ ~OnVG(mounts') BY <2>3, CloneIs
    <3>2. DOMAIN mounts' = 1 .. Len(mounts') BY <1>1, LenProperties
    <3> QED BY <3>1, <3>2 DEF OnClone, OnVG, Foreign
  <2> QED BY <2>2, <2>3
<1>9. 0 \in Nat /\ ~(0 > 0) OBVIOUS
<1> QED BY <1>3, <1>6, <1>7, <1>8, <1>9, StackFrom

LEMMA StackBegun ==
    ASSUME Inv, Next, Started \/ Killed
    PROVE  StackFits'
<1>1. Types /\ Idle /\ mounts \in Seq(Placed) /\ mounts' \in Seq(Placed)
  BY DevicesTyped DEF Inv, Types
<1>2. Begins0 BY DEF Started, Killed
<1>3. guest' = guest /\ deferred' = <<>> BY <1>2 DEF Begins0
<1>4. Left(<<"clean">>)' /\ (command' = "import" => Left(<<"clone">>)') BY <1>1, <1>2, BeginsIs
<1>5. Stacked(deferred', mounts', 0) BY <1>1, <1>3, StackNone
<1>6. Tidy' => (guest.os = "linux" /\ Left(<<"clean">>)') \/ 0 = Len(mounts')
  <2>1. SUFFICES ASSUME Tidy', guest.os # "linux" PROVE 0 = Len(mounts') BY <1>4
  <2>2. kills' = 0 BY <1>3, <2>1 DEF Tidy
  <2>3. ~Killed
    <3>1. kills \in Nat BY <1>1, PostImportAssumption DEF Types, TypeOK
    <3> QED BY <3>1, <2>2 DEF Killed
  <2>4. command = "none" /\ kills = 0 /\ mounts' = mounts
    BY <2>2, <2>3 DEF Started, Untouched
  <2>5. mounts = <<>> BY <2>4, <1>1 DEF Idle, Clean, Busy
  <2> QED BY <2>4, <2>5, <1>1, NoMounts
<1>7. command' = "import" /\ ~Left(<<"clone">>)' /\ mode' # "fail" =>
        \A n \in 1 .. Len(mounts') - 0 : Foreign(mounts'[n])
  BY <1>4
<1>8. 0 \in Nat /\ ~(0 > 0) OBVIOUS
<1> QED BY <1>3, <1>5, <1>6, <1>7, <1>8, StackFrom

LEMMA StackFailed ==
    ASSUME Inv, Next, Failed
    PROVE  StackFits'
<1> SUFFICES ASSUME guest.os # "fortigate" PROVE StackFits'
  BY DEF StackFits, Failed
<1>1. /\ Types /\ Control /\ ClonesReady /\ VGFits /\ Idle /\ Learns /\ guest \in GuestOS
      /\ mounts \in Seq(Placed) /\ mounts' \in Seq(Placed) /\ deferred \in Seq(Call)
  BY DevicesTyped DEF Inv, Types
<1>2. /\ mode = "run" /\ todo # <<>> /\ mode' = "fail" /\ todo' = <<>>
      /\ guest' = guest /\ command' = command /\ kills' = kills /\ deferred' = deferred
      /\ Head(todo)[1] # "clean"
      /\ Untouched \/ LeftHalfway
  BY DEF Failed
<1>3. Busy /\ Program(todo, guest, command) BY <1>1, <1>2 DEF Control
<1>4. ~Left(<<"clean">>)
  <2>1. Head(todo) # <<"clean">> BY <1>2
  <2> QED BY <2>1, <1>1, <1>2, <1>3, CleanStep DEF Left
<1>5. PICK k \in Nat :
        /\ Stacked(deferred, mounts, k)
        /\ Tidy => k = Len(mounts)
        /\ k > 0 => Head(todo) \in Follows
  BY <1>2, <1>3, <1>4, StackGet
<1>6. Tidy' <=> Tidy BY <1>2 DEF Tidy
<1>7. CASE mounts' = mounts
  <2>1. Stacked(deferred', mounts', k) BY <1>2, <1>5, <1>7
  <2>2. Tidy' => k = Len(mounts') BY <1>5, <1>6, <1>7
  <2> QED BY <2>1, <2>2, <1>2, StackFrom
<1>8. CASE Head(todo) = <<"clone">> /\ mounts' = TargetUnmounted
  <2>1. k = 0 BY <1>5, <1>8, NotFollows
  <2>2. Stacked(deferred', mounts', 0)
    <3>1. Len(deferred) \in Nat BY <1>1, LenProperties
    <3> QED BY <3>1, <2>1, <1>1, <1>2, <1>5, StackZero
  <2>3. Tidy' => 0 = Len(mounts')
    <3>1. SUFFICES ASSUME Tidy' PROVE 0 = Len(mounts') OBVIOUS
    <3>2. 0 = Len(mounts) BY <3>1, <2>1, <1>5, <1>6
    <3>3. mounts' = <<>> BY <3>2, <1>8, Emptied
    <3> QED BY <3>3, <1>1, NoMounts
  <2>4. 0 \in Nat /\ ~(0 > 0) OBVIOUS
  <2> QED BY <2>2, <2>3, <2>4, <1>2, StackFrom
<1>9. Untouched \/ (Head(todo) = <<"clone">> /\ mounts' = TargetUnmounted)
  <2>1. CASE LeftHalfway BY <2>1, <1>1, <1>2, HalfwayIs
  <2> QED BY <2>1, <1>2
<1> QED BY <1>7, <1>8, <1>9 DEF Untouched

\* A deferred unmount undoes the last mount.
LEMMA UnmountsLast ==
    ASSUME Types, NEW k \in Nat, Stacked(deferred, mounts, k), deferred # <<>>,
           NEW p \in Path, Head(deferred) = <<"unmount", p>>, DoUnmount(p)
    PROVE  /\ k > 0 /\ mounts # <<>> /\ mounts' = Unmounted({Len(mounts)})
           /\ Len(mounts') = Len(mounts) - 1 /\ p = mounts[Len(mounts)].at
           /\ \A n \in 1 .. Len(mounts) - 1 : mounts'[n] = mounts[n]
           /\ Stacked(Tail(deferred), mounts', k - 1)
<1>1. mounts \in Seq(Placed) /\ deferred \in Seq(Call) BY DEF Types
<1>2. k > 0
  <2>1. Head(deferred)[1] = "unmount" OBVIOUS
  <2>2. k = 0 => Head(deferred)[1] # "unmount" BY <1>1, StackPop
  <2> QED BY <2>1, <2>2
<1>3. mounts # <<>> /\ Head(deferred) = <<"unmount", mounts[Len(mounts)].at>>
  BY <1>1, <1>2, StackPop
<1>4. p = mounts[Len(mounts)].at
  <2>1. Head(deferred)[2] = p /\ Head(deferred)[2] = mounts[Len(mounts)].at BY <1>3
  <2> QED BY <2>1
<1>5. PICK l \in Nat : l = Len(mounts) /\ l > 0 BY <1>1, <1>3, Shorter
<1>6. DOMAIN mounts = 1 .. l BY <1>1, <1>5, LenProperties
<1>7. l \in MountsAt(p) /\ \A m \in MountsAt(p) : m <= l /\ m \in Nat
  BY <1>4, <1>5, <1>6 DEF MountsAt
<1>8. Uppermost(p) = l
  <2>1. \E n \in MountsAt(p) : \A m \in MountsAt(p) : m <= n BY <1>7
  <2>2. Uppermost(p) \in MountsAt(p) /\ \A m \in MountsAt(p) : m <= Uppermost(p)
    BY <2>1 DEF Uppermost
  <2>3. Uppermost(p) <= l /\ l <= Uppermost(p) /\ Uppermost(p) \in Nat BY <2>2, <1>7
  <2> QED BY <2>3
<1>9. mounts' = Unmounted({Len(mounts)})
  <2>1. MountsAt(p) # {} BY <1>7
  <2> QED BY <2>1, <1>5, <1>8 DEF DoUnmount
<1>10. /\ mounts' \in Seq(Placed) /\ Len(mounts') = Len(mounts) - 1
       /\ \A n \in 1 .. Len(mounts) - 1 : mounts'[n] = mounts[n]
  BY <1>1, <1>3, <1>9, UnmountedLast
<1>11. Stacked(Tail(deferred), mounts', k - 1) BY <1>1, <1>2, <1>10, StackPop
<1> QED BY <1>2, <1>3, <1>4, <1>9, <1>10, <1>11

LEMMA StackUnwound ==
    ASSUME Inv, Next, Unwound, Effect
    PROVE  StackFits'
<1> SUFFICES ASSUME mode' # "fail" \/ guest'.os # "fortigate" PROVE StackFits'
  BY DEF StackFits
<1>1. /\ Types /\ mounts \in Seq(Placed) /\ mounts' \in Seq(Placed) /\ deferred \in Seq(Call)
  BY DevicesTyped DEF Inv, Types
<1>2. /\ Busy
      /\ mode \in {"leave", "fail"} \/ todo = <<>>
      /\ deferred # <<>> /\ deferred' = Tail(deferred)
      /\ guest' = guest /\ command' = command /\ todo' = todo /\ kills' = kills
      /\ mode' = IF mode = "leave" /\ Head(deferred) = <<"mark">> THEN "run" ELSE mode
  BY DEF Unwound
<1>3. /\ mode' # "fail" => mode # "fail"
      /\ mode # "fail" \/ guest.os # "fortigate"
  BY <1>2
<1>4. PICK k \in Nat :
        /\ Stacked(deferred, mounts, k)
        /\ Tidy => (guest.os = "linux" /\ Left(<<"clean">>)) \/ k = Len(mounts)
        /\ command = "import" /\ ~Left(<<"clone">>) /\ mode # "fail" =>
             \A n \in 1 .. Len(mounts) - k : Foreign(mounts[n])
        /\ k > 0 /\ mode = "run" /\ todo # <<>> => Head(todo) \in Follows
  BY <1>2, <1>3, StackGet
<1>5. /\ Tidy' <=> Tidy
      /\ \A s : Left(s)' <=> Left(s)
  BY <1>2 DEF Tidy, Left
<1>6. Len(mounts) \in Nat /\ Len(mounts) - 0 = Len(mounts) /\ Len(mounts') \in Nat
      /\ Len(mounts') - 0 = Len(mounts')
  BY <1>1, NoMounts
<1>7. ASSUME Head(deferred)[1] # "unmount",
             Tidy /\ Len(mounts) = 0 => Len(mounts') = 0, Kept(mounts, mounts')
      PROVE  StackFits'
  <2>1. k = 0
    <3>1. k > 0 => Head(deferred) = <<"unmount", mounts[Len(mounts)].at>>
      BY <1>1, <1>2, <1>4, StackPop
    <3>2. k > 0 => Head(deferred)[1] = "unmount" BY <3>1
    <3> QED BY <3>2, <1>7
  <2>2. Stacked(deferred', mounts', 0) BY <1>1, <1>2, <1>4, <2>1, StackPop
  <2>3. Tidy' => (guest.os = "linux" /\ Left(<<"clean">>)') \/ 0 = Len(mounts')
    BY <1>4, <1>5, <1>7, <2>1
  <2>4. command' = "import" /\ ~Left(<<"clone">>)' /\ mode' # "fail" =>
          \A n \in 1 .. Len(mounts') - 0 : Foreign(mounts'[n])
    <3>1. SUFFICES ASSUME command' = "import", ~Left(<<"clone">>)', mode' # "fail"
                   PROVE  \A n \in 1 .. Len(mounts') : Foreign(mounts'[n])
      BY <1>6
    <3>2. \A n \in 1 .. Len(mounts) : Foreign(mounts[n])
      BY <3>1, <2>1, <1>2, <1>3, <1>4, <1>5, <1>6
    <3> QED BY <3>2, <1>7, KeptForeign
  <2>5. 0 \in Nat /\ ~(0 > 0) OBVIOUS
  <2> QED BY <2>2, <2>3, <2>4, <2>5, <1>2, StackFrom
<1>8. CASE Head(deferred) = <<"mark">> /\ Untouched
  <2>1. mounts' = mounts /\ Head(deferred)[1] # "unmount" BY <1>8 DEF Untouched
  <2> QED BY <2>1, <1>7, KeptSame
<1>9. CASE Head(deferred) = <<"clean">> /\ CleanupClones
  <2>1. Head(deferred)[1] # "unmount" BY <1>9
  <2>2. Kept(mounts, mounts') BY <1>1, <1>9, CleanupIs
  <2>3. Len(mounts) = 0 => Len(mounts') = 0
    <3>1. Len(mounts) = 0 => mounts' = <<>> BY <1>9, Emptied
    <3> QED BY <3>1, <1>1, NoMounts
  <2> QED BY <2>1, <2>2, <2>3, <1>7
<1>10. CASE Head(deferred) = <<"deactivate">> /\ mounts' = mounts
  <2>1. mounts' = mounts /\ Head(deferred)[1] # "unmount" BY <1>10
  <2> QED BY <2>1, <1>7, KeptSame
<1>11. CASE /\ \E p \in Path : Head(deferred) = <<"unmount", p>>
            /\ DoUnmount(Head(deferred)[2])
  <2>1. PICK p \in Path : Head(deferred) = <<"unmount", p>> BY <1>11
  <2>2. DoUnmount(p)
    <3>1. Head(deferred)[2] = p BY <2>1
    <3> QED BY <3>1, <1>11
  <2>3. /\ k > 0 /\ Len(mounts') = Len(mounts) - 1
        /\ \A n \in 1 .. Len(mounts) - 1 : mounts'[n] = mounts[n]
        /\ Stacked(Tail(deferred), mounts', k - 1)
    BY <1>1, <1>2, <1>4, <2>1, <2>2, UnmountsLast
  <2>4. k - 1 \in Nat /\ Stacked(deferred', mounts', k - 1) BY <2>3, <1>2
  <2>5. Tidy' => (guest.os = "linux" /\ Left(<<"clean">>)') \/ k - 1 = Len(mounts')
    BY <2>3, <1>4, <1>5, <1>6
  <2>6. command' = "import" /\ ~Left(<<"clone">>)' /\ mode' # "fail" =>
          \A n \in 1 .. Len(mounts') - (k - 1) : Foreign(mounts'[n])
    <3>1. SUFFICES ASSUME command' = "import", ~Left(<<"clone">>)', mode' # "fail",
                          NEW n \in 1 .. Len(mounts') - (k - 1)
                   PROVE  Foreign(mounts'[n])
      OBVIOUS
    <3>2. n \in 1 .. Len(mounts) - k /\ n \in 1 .. Len(mounts) - 1 BY <2>3, <1>6
    <3>3. Foreign(mounts[n]) BY <3>1, <3>2, <1>2, <1>3, <1>4, <1>5
    <3> QED BY <3>2, <3>3, <2>3
  <2>7. ~(mode' = "run" /\ todo' # <<>>)
    <3>1. Head(deferred) # <<"mark">>
      <4>1. Head(deferred)[1] = "unmount" BY <2>1
      <4> QED BY <4>1
    <3> QED BY <3>1, <1>2
  <2> QED BY <2>4, <2>5, <2>6, <2>7, <1>2, StackFrom
<1> QED BY <1>8, <1>9, <1>10, <1>11 DEF Effect

LEMMA StackFitsStep ==
    ASSUME Inv, Next
    PROVE  StackFits'
<1>1. Types BY DEF Inv
<1>2. CASE Responded
  <2>1. ~Busy' BY <1>2 DEF Responded, Busy
  <2> QED BY <2>1 DEF StackFits
<1>3. CASE QuietStep
  <2>1. Took /\ mode' # "fail" BY <1>3 DEF QuietStep
  <2> QED BY <2>1, <1>3, StackTook
<1>4. CASE Enter \/ ActivateVG
  <2>1. Took /\ mode' # "fail" BY <1>4, EnterIs, ActivateIs DEF Still
  <2> QED BY <2>1, <1>4, StackTook
<1> QED BY <1>1, <1>2, <1>3, <1>4, NextKinds, StackMounted, StackCleaned, StackBegun,
        StackFailed, StackUnwound

-----------------------------------------------------------------------------
(* The cleanup and the functions entered *)

LEMMA NothingLeft ==
    ASSUME todo = <<>>
    PROVE  \A s : ~Left(s)
<1>1. Len(<<>>) = 0 BY EmptySeq
<1>2. \A n \in 1 .. 0 : FALSE OBVIOUS
<1>3. Len(todo) = 0 BY <1>1
<1> QED BY <1>2, <1>3 DEF Left, Within

\* A deferred call makes nothing new.
LEMMA EffectIs ==
    ASSUME Inv, Unwound, Effect
    PROVE  /\ mounts' \in Seq(Placed) /\ Kept(mounts, mounts')
           /\ vg' \in {vg, "off"} /\ clones' \in {clones, {}}
           /\ Clean => Clean'
<1>1. Types /\ mounts \in Seq(Placed) BY DEF Inv, Types
<1>2. /\ mounts' \in Seq(Placed) /\ Kept(mounts, mounts')
      /\ vg' \in {vg, "off"} /\ clones' \in {clones, {}}
  <2>1. CASE Untouched BY <2>1, <1>1, KeptSame DEF Untouched
  <2>2. CASE CleanupClones BY <2>2, <1>1, CleanupIs
  <2>3. CASE vg' = Deactivated(mounts) /\ mounts' = mounts /\ clones' = clones
    <3>1. vg' \in {vg, "off"} BY <2>3 DEF Deactivated
    <3> QED BY <3>1, <2>3, <1>1, KeptSame
  <2>4. CASE DoUnmount(Head(deferred)[2]) /\ vg' = vg /\ clones' = clones
    <3>1. mounts' \in Seq(Placed) /\ Kept(mounts, mounts') BY <2>4, <1>1, UnmountTyped
    <3> QED BY <3>1, <2>4
  <2> QED BY <2>1, <2>2, <2>3, <2>4 DEF Effect
<1>3. ASSUME Clean PROVE Clean'
  <2>1. mounts = <<>> /\ vg = "off" /\ clones = {} BY <1>3 DEF Clean
  <2>2. mounts' = <<>> BY <1>2, <2>1, KeptEmpty
  <2> QED BY <1>2, <2>1, <2>2 DEF Clean
<1> QED BY <1>2, <1>3

\* The deferred cleanup finds nothing mounted but what it unmounts.
LEMMA CleanEffect ==
    ASSUME Inv, Unwound, CleanupClones, Head(deferred) = <<"clean">>, todo = <<>>,
           mode # "fail" \/ guest.os # "fortigate"
    PROVE  /\ Tidy => Clean'
           /\ mode # "fail" /\ command = "import" => clones' = {} /\ vg' # "clone"
<1>1. /\ Types /\ Shape /\ mounts \in Seq(Placed) /\ deferred \in Seq(Call) BY DEF Inv, Types
<1>2. Busy /\ deferred # <<>> BY DEF Unwound
<1>3. \A s : ~Left(s) BY NothingLeft
<1>4. PICK k \in Nat :
        /\ Stacked(deferred, mounts, k)
        /\ Tidy => (guest.os = "linux" /\ Left(<<"clean">>)) \/ k = Len(mounts)
        /\ command = "import" /\ ~Left(<<"clone">>) /\ mode # "fail" =>
             \A n \in 1 .. Len(mounts) - k : Foreign(mounts[n])
        /\ k > 0 /\ mode = "run" /\ todo # <<>> => Head(todo) \in Follows
  BY <1>2, StackGet
<1>5. k = 0
  <2>1. Head(deferred)[1] # "unmount" OBVIOUS
  <2>2. k > 0 => Head(deferred) = <<"unmount", mounts[Len(mounts)].at>>
    BY <1>1, <1>2, <1>4, StackPop
  <2>3. k > 0 => Head(deferred)[1] = "unmount" BY <2>2
  <2> QED BY <2>1, <2>3
<1>6. ASSUME Tidy PROVE Clean'
  <2>1. mounts = <<>> BY <1>1, <1>3, <1>4, <1>5, <1>6, NoMounts
  <2> QED BY <2>1, <1>1, CleanupIs DEF Clean
<1>7. ASSUME mode # "fail", command = "import" PROVE clones' = {} /\ vg' # "clone"
  <2>1. Len(mounts) - 0 = Len(mounts) BY <1>1, NoMounts
  <2>2. \A n \in 1 .. Len(mounts) : Foreign(mounts[n]) BY <1>3, <1>4, <1>5, <1>7, <2>1
  <2> QED BY <2>2, <1>1, CleanupIs
<1> QED BY <1>6, <1>7

LEMMA BalanceFrom ==
    ASSUME NEW m \in Nat, Nested(todo', m, 0),
           \/ Left(<<"clean">>)'
           \/ mode' = "leave" /\ Up(deferred', m + 1)
           \/ mode' # "leave" /\ Up(deferred', m)
           \/ todo' = <<>> /\ mode' = "run" /\ Cleaned'
    PROVE  Balance'
<1>1. Nested(todo, m, 0)' BY DEF Nested, Levels
<1>2. Left(<<"clean">>)' \/ (todo' = <<>> /\ mode' = "run" /\ Cleaned')
      \/ Up(deferred', IF mode' = "leave" THEN m + 1 ELSE m)
  OBVIOUS
<1>3. Up(deferred', IF mode' = "leave" THEN m + 1 ELSE m)
        <=> Up(deferred, IF mode = "leave" THEN m + 1 ELSE m)'
  BY DEF Up
<1> QED BY <1>1, <1>2, <1>3 DEF Balance

LEMMA BalanceTook ==
    ASSUME Inv, Took, QuietStep \/ Enter \/ CleanUp \/ ActivateVG \/ DoMount \/ SetUpClones
    PROVE  Balance'
<1>1. Types /\ Control /\ Balance /\ deferred \in Seq(Call) BY DEF Inv, Types
<1>2. /\ Going /\ mode = "run" /\ todo # <<>> /\ todo \in Seq(Fits(guest, command))
      /\ todo' = Tail(todo)
      /\ \A s : Left(s) => Head(todo) = s \/ Left(s)'
  BY <1>1, TookFacts DEF Took
<1>3. PICK m \in Nat : Nested(todo, m, 0) /\ (Left(<<"clean">>) \/ Up(deferred, m))
  BY <1>1, <1>2 DEF Balance
<1>4. PICK j \in Nat : Deeper(Head(todo), m, j) /\ Nested(todo', j, 0)
  BY <1>2, <1>3, NestedTail
<1>5. ASSUME Head(todo) # <<"enter">>, Head(todo) # <<"leave">> PROVE m = j
  BY <1>4, <1>5 DEF Deeper
<1>6. CASE QuietStep
  <2>1. deferred' = deferred /\ mode' = (IF Head(todo) = <<"leave">> THEN "leave" ELSE "run")
        /\ Head(todo) \in QuietSteps
    BY <1>6 DEF QuietStep
  <2>2. Head(todo) # <<"clean">> /\ Head(todo) # <<"enter">>
    <3>1. <<"clean">> \notin QuietSteps /\ <<"enter">> \notin QuietSteps BY DEF QuietSteps
    <3> QED BY <3>1, <2>1
  <2>3. Left(<<"clean">>)' \/ Up(deferred', m) BY <2>1, <2>2, <1>2, <1>3
  <2>4. CASE Head(todo) = <<"leave">>
    <3>1. m = j + 1
      <4>1. Head(todo) # <<"enter">> BY <2>4
      <4> QED BY <4>1, <2>4, <1>4 DEF Deeper
    <3>2. mode' = "leave" BY <2>1, <2>4
    <3> QED BY <3>1, <3>2, <2>3, <1>4, BalanceFrom
  <2>5. CASE Head(todo) # <<"leave">>
    <3>1. m = j /\ mode' # "leave" BY <2>1, <2>2, <2>5, <1>5
    <3> QED BY <3>1, <2>3, <1>4, BalanceFrom
  <2> QED BY <2>4, <2>5
<1>7. CASE Enter
  <2>1. /\ Head(todo) = <<"enter">> /\ deferred' = <<<<"mark">>>> \o deferred /\ mode' = "run"
    BY <1>7, EnterIs DEF Still
  <2>2. j = m + 1 BY <2>1, <1>4 DEF Deeper
  <2>3. Head(todo) # <<"clean">> BY <2>1
  <2>4. Up(deferred, m) => Up(deferred', m + Marks(<<"mark">>))
    BY <2>1, <1>1, UpPush, Calls
  <2>5. Marks(<<"mark">>) = 1 BY DEF Marks
  <2>6. Left(<<"clean">>)' \/ Up(deferred', j) BY <2>2, <2>3, <2>4, <2>5, <1>2, <1>3
  <2>7. mode' # "leave" BY <2>1
  <2> QED BY <2>6, <2>7, <1>4, BalanceFrom
<1>8. CASE CleanUp
  <2>1. Head(todo) = <<"clean">> /\ deferred' = <<<<"clean">>>> \o deferred /\ mode' = "run"
    BY <1>8, CleanUpIs DEF Still
  <2>2. j = 0
    <3>1. Head(todo) # <<"enter">> /\ Head(todo) # <<"leave">> BY <2>1
    <3> QED BY <3>1, <2>1, <1>4 DEF Deeper
  <2>3. Up(deferred', 0) BY <2>1, <1>1, UpClean
  <2>4. mode' # "leave" BY <2>1
  <2> QED BY <2>2, <2>3, <2>4, <1>4, BalanceFrom
<1>9. ASSUME NEW x \in Call, x[1] # "mark", deferred' = <<x>> \o deferred, mode' = "run",
             Head(todo)[1] \notin {"enter", "leave", "clean"}
      PROVE  Balance'
  <2>1. Head(todo) # <<"enter">> /\ Head(todo) # <<"leave">> /\ Head(todo) # <<"clean">>
    BY <1>9
  <2>2. m = j BY <2>1, <1>5
  <2>3. Up(deferred, m) => Up(deferred', m + Marks(x)) BY <1>1, <1>9, UpPush
  <2>4. Marks(x) = 0
    <3>1. x # <<"mark">> BY <1>9
    <3> QED BY <3>1 DEF Marks
  <2>5. m + 0 = j BY <2>2
  <2>6. Left(<<"clean">>)' \/ Up(deferred', j) BY <2>1, <2>3, <2>4, <2>5, <1>2, <1>3
  <2>7. mode' # "leave" BY <1>9
  <2> QED BY <2>6, <2>7, <1>4, BalanceFrom
<1>10. <<"deactivate">>[1] # "mark" /\ \A p \in Path : <<"unmount", p>>[1] # "mark" OBVIOUS
<1>11. CASE ActivateVG
  <2>1. Head(todo) = <<"activate">> /\ deferred' = <<<<"deactivate">>>> \o deferred
        /\ mode' = "run"
    BY <1>11, ActivateIs DEF Still
  <2>2. Head(todo)[1] \notin {"enter", "leave", "clean"} BY <2>1
  <2> QED BY <2>1, <2>2, <1>9, <1>10, Calls
<1>12. CASE DoMount
  <2>1. PICK p \in Path, f \in FileSystem \cup {"none"} :
           Head(todo) = <<"mount", p, f>> /\ deferred' = <<<<"unmount", p>>>> \o deferred
           /\ mode' = "run"
    BY <1>12, MountIs DEF Still
  <2>2. Head(todo)[1] \notin {"enter", "leave", "clean"} BY <2>1
  <2>3. <<"unmount", p>> \in Call /\ <<"unmount", p>>[1] # "mark" BY Calls
  <2> QED BY <2>1, <2>2, <2>3, <1>9
<1>13. CASE SetUpClones
  <2>1. /\ Head(todo) = <<"clone">> /\ mode' = "run"
        /\ deferred' = IF guest.os = "windows" THEN deferred
                       ELSE <<<<"deactivate">>>> \o deferred
    BY <1>13, CloneIs DEF Still
  <2>2. Head(todo)[1] \notin {"enter", "leave", "clean"} BY <2>1
  <2>3. CASE deferred' = <<<<"deactivate">>>> \o deferred
    BY <2>1, <2>2, <2>3, <1>9, <1>10, Calls
  <2>4. CASE deferred' = deferred
    <3>1. Head(todo) # <<"enter">> /\ Head(todo) # <<"leave">> /\ Head(todo) # <<"clean">>
      BY <2>1
    <3>2. m = j BY <3>1, <1>5
    <3>3. Left(<<"clean">>)' \/ Up(deferred', j) BY <3>1, <3>2, <2>4, <1>2, <1>3
    <3>4. mode' # "leave" BY <2>1
    <3> QED BY <3>3, <3>4, <1>4, BalanceFrom
  <2> QED BY <2>1, <2>3, <2>4
<1> QED BY <1>6, <1>7, <1>8, <1>11, <1>12, <1>13

LEMMA CleanedKept ==
    ASSUME Inv, Unwound, Effect, Cleaned PROVE Cleaned'
<1>1. Tidy' <=> Tidy BY DEF Unwound, Tidy
<1>2. command' = command BY DEF Unwound
<1>3. /\ vg' \in {vg, "off"} /\ clones' \in {clones, {}}
      /\ Clean => Clean'
  BY EffectIs
<1> QED BY <1>1, <1>2, <1>3 DEF Cleaned

LEMMA BalanceUnwound ==
    ASSUME Inv, Unwound, Effect
    PROVE  Balance'
<1> SUFFICES ASSUME Going' PROVE Balance' BY DEF Balance
<1>1. Types /\ Balance /\ deferred \in Seq(Call) BY DEF Inv, Types
<1>2. /\ Busy /\ deferred # <<>> /\ deferred' = Tail(deferred) /\ todo' = todo
      /\ mode \in {"leave", "fail"} \/ todo = <<>>
      /\ mode' = IF mode = "leave" /\ Head(deferred) = <<"mark">> THEN "run" ELSE mode
      /\ command' = command /\ guest' = guest /\ kills' = kills
  BY DEF Unwound
<1>3. Going /\ mode # "fail"
  <2>1. mode' # "fail" BY DEF Going
  <2>2. mode # "fail" BY <2>1, <1>2
  <2> QED BY <2>2, <1>2 DEF Going
<1>4. PICK m \in Nat :
        /\ Nested(todo, m, 0)
        /\ \/ Left(<<"clean">>)
           \/ Up(deferred, IF mode = "leave" THEN m + 1 ELSE m)
           \/ todo = <<>> /\ mode = "run" /\ Cleaned
  BY <1>1, <1>3 DEF Balance
<1>5. Nested(todo', m, 0) BY <1>2, <1>4
<1>6. CASE Left(<<"clean">>)
  <2>1. Left(<<"clean">>)' BY <1>2, <1>6 DEF Left
  <2> QED BY <2>1, <1>5, BalanceFrom
<1>7. CASE mode = "leave" /\ Up(deferred, m + 1)
  <2>1. \/ Head(deferred) = <<"clean">> /\ m + 1 = 0
        \/ Head(deferred) = <<"mark">> /\ m + 1 >= 1 /\ Up(Tail(deferred), (m + 1) - 1)
        \/ Head(deferred) # <<"mark">> /\ Up(Tail(deferred), m + 1)
    BY <1>1, <1>7, UpPop
  <2>2. m + 1 # 0 /\ (m + 1) - 1 = m OBVIOUS
  <2>3. \/ mode' # "leave" /\ Up(deferred', m)
        \/ mode' = "leave" /\ Up(deferred', m + 1)
    BY <2>1, <2>2, <1>2, <1>7
  <2> QED BY <2>3, <1>5, BalanceFrom
<1>8. CASE mode # "leave" /\ (Up(deferred, m) \/ (todo = <<>> /\ Cleaned))
  <2>1. todo' = <<>> /\ todo = <<>> /\ mode' = "run" /\ mode = "run"
    <3>1. mode = "run" BY <1>1, <1>3, <1>8 DEF Types, TypeOK
    <3> QED BY <3>1, <1>2
  <2>2. CASE Cleaned
    <3>1. Cleaned' BY <2>2, CleanedKept
    <3> QED BY <3>1, <2>1, <1>5, BalanceFrom
  <2>3. CASE Up(deferred, m) /\ Head(deferred) = <<"clean">>
    <3>1. CleanupClones
      <4>1. Head(deferred)[1] = "clean" BY <2>3
      <4> QED BY <4>1 DEF Effect
    <3>2. /\ Tidy => Clean'
          /\ mode # "fail" /\ command = "import" => clones' = {} /\ vg' # "clone"
      BY <3>1, <2>1, <2>3, <1>3, CleanEffect
    <3>3. Tidy' <=> Tidy BY <1>2 DEF Tidy
    <3>4. Cleaned' BY <3>2, <3>3, <1>2, <1>3 DEF Cleaned
    <3> QED BY <3>4, <2>1, <1>5, BalanceFrom
  <2>4. CASE Up(deferred, m) /\ Head(deferred) # <<"clean">>
    <3>1. m = 0
      <4>1. Len(<<>>) = 0 BY EmptySeq
      <4>2. Len(todo) = 0 BY <4>1, <2>1
      <4> QED BY <4>2, <1>4 DEF Nested
    <3>2. \/ Head(deferred) = <<"mark">> /\ m >= 1 /\ Up(Tail(deferred), m - 1)
          \/ Head(deferred) # <<"mark">> /\ Up(Tail(deferred), m)
      BY <2>4, <1>1, UpPop
    <3>3. Up(deferred', m) BY <3>1, <3>2, <1>2
    <3>4. mode' # "leave" BY <2>1
    <3> QED BY <3>3, <3>4, <1>5, BalanceFrom
  <2> QED BY <2>2, <2>3, <2>4, <1>8
<1>9. CASE mode = "leave" /\ todo = <<>> /\ mode = "run" BY <1>9
<1> QED BY <1>4, <1>6, <1>7, <1>8, <1>9

LEMMA BalanceStep ==
    ASSUME Inv, Next
    PROVE  Balance'
<1>1. Types BY DEF Inv
<1>2. ASSUME Begins0 PROVE Balance'
  <2>1. Left(<<"clean">>)' /\ Program(todo', guest', command') BY <1>1, <1>2, BeginsIs
  <2>2. PICK m \in Nat : Nested(todo', m, 0) BY <2>1 DEF Program
  <2> QED BY <2>1, <2>2, BalanceFrom
<1>3. CASE Started \/ Killed BY <1>2, <1>3 DEF Started, Killed
<1>4. CASE Failed
  <2>1. ~Going' BY <1>4 DEF Failed, Going
  <2> QED BY <2>1 DEF Balance
<1>5. CASE Responded
  <2>1. ~Going' BY <1>5 DEF Responded, Going, Busy
  <2> QED BY <2>1 DEF Balance
<1>6. CASE QuietStep \/ Enter \/ CleanUp \/ ActivateVG \/ DoMount \/ SetUpClones
  <2>1. Took BY <1>6, EnterIs, CleanUpIs, ActivateIs, MountIs, CloneIs DEF QuietStep
  <2> QED BY <2>1, <1>6, BalanceTook
<1> QED BY <1>1, <1>3, <1>4, <1>5, <1>6, NextKinds, BalanceUnwound

LEMMA FailFitsStep ==
    ASSUME Inv, Next
    PROVE  FailFits'
<1>1. Types /\ Control /\ Balance /\ FailFits /\ deferred \in Seq(Call) /\ guest \in GuestOS
  BY DEF Inv, Types
<1> SUFFICES ASSUME mode' = "fail", Busy', guest'.os # "fortigate"
             PROVE  (\E n \in 1 .. Len(deferred') : deferred'[n] = <<"clean">>)
                      \/ (Tidy' => Clean')
  BY DEF FailFits
<1>2. CASE QuietStep \/ Enter \/ CleanUp \/ ActivateVG \/ DoMount \/ SetUpClones
  <2>1. mode' # "fail"
    <3>1. CASE QuietStep BY <3>1 DEF QuietStep
    <3>2. CASE ~QuietStep BY <3>2, <1>2, EnterIs, CleanUpIs, ActivateIs, MountIs, CloneIs DEF Still
    <3> QED BY <3>1, <3>2
  <2> QED BY <2>1
<1>3. CASE Started \/ Killed
  <2>1. mode' # "fail" BY <1>3 DEF Started, Killed, Begins0
  <2> QED BY <2>1
<1>4. CASE Failed
  <2>1. /\ mode = "run" /\ todo # <<>> /\ guest' = guest /\ deferred' = deferred
        /\ Head(todo)[1] # "clean"
    BY <1>4 DEF Failed
  <2>2. Busy /\ Program(todo, guest, command) BY <2>1, <1>1 DEF Control
  <2>3. ~Left(<<"clean">>)
    <3>1. Head(todo) # <<"clean">> BY <2>1
    <3> QED BY <3>1, <2>1, <2>2, <1>1, CleanStep DEF Left
  <2>4. PICK m \in Nat : Up(deferred, m) BY <2>1, <2>2, <2>3, <1>1 DEF Balance, Going
  <2>5. \E i \in 1 .. Len(deferred) : deferred[i] = <<"clean">> BY <2>4, <1>1, UpHas
  <2> QED BY <2>1, <2>5
<1>5. CASE Unwound /\ Effect
  <2>1. /\ Busy /\ deferred # <<>> /\ deferred' = Tail(deferred) /\ todo' = todo
        /\ guest' = guest /\ kills' = kills /\ mode = "fail"
    BY <1>5 DEF Unwound
  <2>2. Tidy' <=> Tidy BY <2>1 DEF Tidy
  <2>3. todo = <<>> BY <2>1, <1>1 DEF Control
  <2>4. CASE Tidy => Clean BY <2>2, <2>4, <1>5, EffectIs
  <2>5. CASE Head(deferred) = <<"clean">>
    <3>1. CleanupClones
      <4>1. Head(deferred)[1] = "clean" BY <2>5
      <4> QED BY <4>1, <1>5 DEF Effect
    <3>2. Tidy => Clean' BY <3>1, <2>1, <2>3, <2>5, <1>5, CleanEffect
    <3> QED BY <3>2, <2>2
  <2>6. CASE Head(deferred) # <<"clean">> /\ \E n \in 1 .. Len(deferred) : deferred[n] = <<"clean">>
    <3> DEFINE u == Tail(deferred)
               k == <<"clean">>
    <3>1. PICK l \in Nat : l = Len(deferred) /\ l > 0 /\ Head(deferred) = deferred[1]
      BY <2>1, <1>1, Shorter
    <3>2. Len(u) = l - 1 /\ \A n \in 1 .. l - 1 : u[n] = deferred[n + 1]
      BY <3>1, <2>1, <1>1, Shorter
    <3> HIDE DEF u, k
    <3>3. PICK n \in 1 .. l : deferred[n] = k BY <2>6, <3>1 DEF k
    <3>4. n # 1 BY <2>6, <3>1, <3>3 DEF k
    <3>5. n - 1 \in 1 .. l - 1 /\ (n - 1) + 1 = n BY <3>4
    <3>6. u[n - 1] = k BY <3>2, <3>3, <3>5
    <3>7. deferred' = u BY <2>1 DEF u
    <3> QED BY <3>2, <3>5, <3>6, <3>7 DEF k
  <2> QED BY <2>1, <2>4, <2>5, <2>6, <1>1 DEF FailFits
<1>6. CASE Responded
  <2>1. ~Busy' BY <1>6 DEF Responded, Busy
  <2> QED BY <2>1
<1> QED BY <1>1, <1>2, <1>3, <1>4, <1>5, <1>6, NextKinds

\* When a task is over, it has cleaned up behind itself.
LEMMA Answered ==
    ASSUME Inv, Responded
    PROVE  /\ guest.os # "fortigate" \/ mode # "fail" => (Tidy => Clean)
           /\ mode # "fail" /\ command = "import" => clones = {} /\ vg # "clone"
<1>1. Types /\ Balance /\ FailFits /\ deferred \in Seq(Call) BY DEF Inv, Types
<1>2. Busy /\ todo = <<>> /\ deferred = <<>> BY DEF Responded
<1>3. CASE mode = "fail"
  <2>1. Len(<<>>) = 0 BY EmptySeq
  <2>2. Len(deferred) = 0 BY <2>1, <1>2
  <2>3. ~\E n \in 1 .. Len(deferred) : deferred[n] = <<"clean">> BY <2>2
  <2> QED BY <2>3, <1>1, <1>2, <1>3 DEF FailFits
<1>4. CASE mode # "fail"
  <2>1. ~Left(<<"clean">>) BY <1>2, NothingLeft
  <2>2. \A n : ~Up(deferred, n) BY <1>1, <1>2, UpPop
  <2>3. Cleaned BY <2>1, <2>2, <1>1, <1>2, <1>4 DEF Balance, Going
  <2> QED BY <2>3, <1>4 DEF Cleaned
<1> QED BY <1>3, <1>4

LEMMA IdleStep ==
    ASSUME Inv, Next
    PROVE  Idle'
<1>1. /\ Types /\ Control /\ ClonesReady /\ VGFits /\ Idle /\ Learns /\ guest \in GuestOS
  BY DEF Inv, Types
<1>2. /\ command \in {"none", "post"} => clones = {} /\ vg # "clone"
      /\ command = "post" => rootAt = "disk"
  BY <1>1 DEF Idle
<1>3. ASSUME Busy', command' = "post" => clones' = {} /\ vg' # "clone" /\ rootAt' = "disk"
      PROVE  Idle'
  <2>1. command' # "none" BY <1>3 DEF Busy
  <2> QED BY <2>1, <1>3 DEF Idle
<1>4. ASSUME Took PROVE Busy' /\ command' = command /\ Head(todo) \in Fits(guest, command)
  <2>1. Busy' /\ Head(todo) \in Fits(guest, command) BY <1>1, <1>4, TookFacts
  <2> QED BY <2>1, <1>4 DEF Took
<1>5. command = "post" => <<"clone">> \notin Fits(guest, command) /\ <<"match">> \notin Fits(guest, command)
  BY DEF Fits
<1>6. ASSUME vg' \in {vg, "off", "disk"}, clones' \in {clones, {}}, rootAt' = rootAt \/ rootAt' = "disk",
             Busy', command' = command
      PROVE  Idle'
  <2>1. command' = "post" => clones' = {} /\ vg' # "clone" /\ rootAt' = "disk" BY <1>2, <1>6
  <2> QED BY <2>1, <1>3, <1>6
<1>7. CASE QuietStep
  <2>1. /\ Took /\ vg' = vg /\ clones' = clones
        /\ rootAt' = IF Head(todo) = <<"match">> /\ guest.root = "plain" THEN "clone" ELSE rootAt
    BY <1>7 DEF QuietStep, Untouched
  <2>2. command = "post" => rootAt' = rootAt BY <2>1, <1>4, <1>5
  <2>3. command' = "post" => clones' = {} /\ vg' # "clone" /\ rootAt' = "disk"
    BY <2>1, <2>2, <1>2, <1>4
  <2> QED BY <2>1, <2>3, <1>3, <1>4
<1>8. CASE Enter
  <2>1. Took /\ vg' = vg /\ clones' = clones /\ rootAt' = rootAt
    BY <1>8, EnterIs DEF Untouched, Still
  <2> QED BY <2>1, <1>4, <1>6
<1>9. CASE CleanUp
  <2>1. Took /\ CleanupClones /\ rootAt' = rootAt BY <1>9, CleanUpIs DEF Still
  <2>2. vg' \in {vg, "off"} /\ clones' \in {clones, {}} BY <2>1, <1>1, CleanupIs
  <2> QED BY <2>1, <2>2, <1>4, <1>6
<1>10. CASE ActivateVG
  <2>1. Took /\ vg' \in {vg, "disk"} /\ clones' = clones /\ rootAt' = rootAt
    BY <1>10, ActivateIs DEF Still
  <2> QED BY <2>1, <1>4, <1>6
<1>11. CASE DoMount
  <2>1. Took /\ vg' = vg /\ clones' = clones /\ rootAt' = rootAt BY <1>11, MountIs DEF Still
  <2> QED BY <2>1, <1>4, <1>6
<1>12. CASE SetUpClones
  <2>1. Took /\ Head(todo) = <<"clone">> BY <1>12, CloneIs
  <2>2. command' # "post" BY <2>1, <1>4, <1>5
  <2> QED BY <2>1, <2>2, <1>3, <1>4
<1>13. CASE Started
  <2>1. Busy' /\ clones' = clones /\ vg' = vg /\ rootAt' = "disk" /\ command = "none"
    BY <1>13 DEF Started, Begins0, Untouched, Busy
  <2> QED BY <2>1, <1>2, <1>3
<1>14. ASSUME mode = "run", todo # <<>>, LeftHalfway, command = "post"
       PROVE  clones' = clones /\ vg' = vg
  <2>1. \/ Untouched
        \/ vg' = vg /\ clones' = clones
        \/ command = "import"
    BY <1>1, <1>14, HalfwayIs
  <2> QED BY <2>1, <1>14 DEF Untouched
<1>15. CASE Killed
  <2>1. Busy' /\ command' = command /\ rootAt' = "disk" BY <1>15 DEF Killed, Begins0, Busy
  <2>2. command = "post" => clones' = clones /\ vg' = vg
    BY <1>14, <1>15 DEF Killed, Untouched
  <2>3. command' = "post" => clones' = {} /\ vg' # "clone" /\ rootAt' = "disk"
    BY <2>1, <2>2, <1>2
  <2> QED BY <2>1, <2>3, <1>3
<1>16. CASE Failed
  <2>1. command' = command /\ rootAt' = rootAt /\ mode = "run" /\ todo # <<>>
    BY <1>16 DEF Failed
  <2>2. Busy' BY <2>1, <1>1 DEF Control, Busy
  <2>3. command = "post" => clones' = clones /\ vg' = vg
    BY <1>14, <1>16 DEF Failed, Untouched
  <2>4. command' = "post" => clones' = {} /\ vg' # "clone" /\ rootAt' = "disk"
    BY <2>1, <2>3, <1>2
  <2> QED BY <2>2, <2>4, <1>3
<1>17. CASE Unwound /\ Effect
  <2>1. Busy /\ command' = command /\ rootAt' = rootAt BY <1>17 DEF Unwound
  <2>2. Busy' BY <2>1 DEF Busy
  <2>3. vg' \in {vg, "off"} /\ clones' \in {clones, {}} BY <1>17, EffectIs
  <2> QED BY <2>1, <2>2, <2>3, <1>6
<1>18. CASE Responded
  <2>1. /\ guest' = guest /\ kills' = kills /\ mounts' = mounts /\ vg' = vg /\ clones' = clones
        /\ command' = IF mode = "fail" THEN "failed" ELSE IF command = "import" THEN "none" ELSE "done"
    BY <1>18 DEF Responded, Untouched
  <2>2. /\ guest.os # "fortigate" \/ mode # "fail" => (Tidy => Clean)
        /\ mode # "fail" /\ command = "import" => clones = {} /\ vg # "clone"
    BY <1>18, Answered
  <2>3. command' \notin {"post", "import"} BY <2>1
  <2>4. command' = "none" => clones' = {} /\ vg' # "clone" BY <2>1, <2>2
  <2>5. ASSUME guest.os = "linux" \/ (kills = 0 /\ (command' = "none" \/ guest.os = "windows"))
        PROVE  Clean'
    <3>1. Tidy BY <2>5 DEF Tidy
    <3>2. guest.os # "fortigate" \/ mode # "fail" BY <2>1, <2>5
    <3>3. Clean BY <3>1, <3>2, <2>2
    <3> QED BY <3>3, <2>1 DEF Clean
  <2> QED BY <2>1, <2>3, <2>4, <2>5 DEF Idle
<1> QED BY <1>1, <1>7, <1>8, <1>9, <1>10, <1>11, <1>12, <1>13, <1>15, <1>16, <1>17, <1>18,
        NextKinds

-----------------------------------------------------------------------------
(* The plan, the clones and what is mounted *)

LEMMA NothingGoes ==
    ASSUME Inv, Next, Failed \/ Responded
    PROVE  ~Going'
BY DEF Failed, Responded, Going, Busy

LEMMA GoesOn ==
    ASSUME Unwound, Going'
    PROVE  /\ Going /\ todo' = todo /\ command' = command /\ guest' = guest /\ kills' = kills
           /\ mode = "leave" \/ todo = <<>>
           /\ foretold' = foretold /\ plan' = plan /\ rootAt' = rootAt /\ written' = written
           /\ deferred # <<>> /\ deferred' = Tail(deferred)
           /\ mode' = IF mode = "leave" /\ Head(deferred) = <<"mark">> THEN "run" ELSE mode
BY DEF Unwound, Going, Busy

LEMMA MountNames ==
    ASSUME DoMount
    PROVE  Took /\ Still /\ Head(todo)[1] = "mount" /\ vg' = vg /\ clones' = clones
<1>1. PICK p \in Path, f \in FileSystem \cup {"none"} :
        Took /\ Still /\ Head(todo) = <<"mount", p, f>> /\ vg' = vg /\ clones' = clones
  BY MountIs
<1>2. Head(todo)[1] = "mount" BY <1>1
<1> QED BY <1>1, <1>2

LEMMA PlanFitsStep ==
    ASSUME Inv, Next
    PROVE  PlanFits'
<1>1. Types /\ Control /\ PlanFits /\ guest \in GuestOS BY DEF Inv, Types
<1>2. /\ Busy /\ guest.root = "lvm" => "root" \in plan
      /\ Going /\ command = "import" /\ guest.os = "linux" => plan = AllOf \/ FstabFirst(todo)
  BY <1>1 DEF PlanFits
<1>3. ASSUME Took, plan' = IF Head(todo) = <<"fstab">> THEN AllOf ELSE plan
      PROVE  PlanFits'
  <2>1. /\ Going /\ Busy /\ todo \in Seq(Fits(guest, command)) /\ todo # <<>>
        /\ todo' = Tail(todo) /\ guest' = guest /\ command' = command
    BY <1>1, <1>3, TookFacts DEF Took
  <2>2. guest.root = "lvm" => "root" \in AllOf BY DEF AllOf, Has, FileSystem
  <2>3. AllOf' = AllOf BY <2>1 DEF AllOf, Has
  <2>4. guest.root = "lvm" => "root" \in plan' BY <2>1, <2>2, <1>2, <1>3
  <2>5. FstabFirst(todo) /\ Head(todo) # <<"fstab">> => FstabFirst(todo') BY <2>1, FstabTail
  <2>6. command = "import" /\ guest.os = "linux" => plan' = AllOf \/ FstabFirst(todo')
    BY <2>1, <2>5, <1>2, <1>3
  <2>7. FstabFirst(todo') <=> FstabFirst(todo)' BY DEF FstabFirst
  <2> QED BY <2>1, <2>3, <2>4, <2>6, <2>7 DEF PlanFits
<1>4. CASE QuietStep BY <1>3, <1>4 DEF QuietStep
<1>5. CASE Enter \/ CleanUp \/ ActivateVG \/ DoMount \/ SetUpClones
  <2>1. Took /\ Still /\ Head(todo) # <<"fstab">>
    <3>1. CASE DoMount
      <4>1. Took /\ Still /\ Head(todo)[1] = "mount" BY <3>1, MountNames
      <4> QED BY <4>1
    <3>2. CASE ~DoMount
      <4>1. Head(todo) \in {<<"enter">>, <<"clean">>, <<"activate">>, <<"clone">>}
        BY <3>2, <1>5, EnterIs, CleanUpIs, ActivateIs, CloneIs
      <4>2. Head(todo) # <<"fstab">> BY <4>1
      <4> QED BY <4>2, <3>2, <1>5, EnterIs, CleanUpIs, ActivateIs, CloneIs
    <3> QED BY <3>1, <3>2
  <2> QED BY <2>1, <1>3 DEF Still
<1>6. ASSUME Begins0 PROVE PlanFits'
  <2>1. plan' = {"root"} /\ guest' = guest BY <1>6 DEF Begins0
  <2>2. guest.os = "linux" /\ command' = "import" => FstabFirst(todo')
    BY <1>1, <1>6, BeginsIs
  <2>3. FstabFirst(todo') <=> FstabFirst(todo)' BY DEF FstabFirst
  <2> QED BY <2>1, <2>2, <2>3 DEF PlanFits
<1>7. CASE Started \/ Killed BY <1>6, <1>7 DEF Started, Killed
<1>8. CASE Failed
  <2>1. /\ ~Going' /\ guest' = guest /\ plan' = plan /\ mode = "run" /\ todo # <<>>
    BY <1>8, NothingGoes DEF Failed
  <2>2. Busy BY <2>1, <1>1 DEF Control
  <2> QED BY <2>1, <2>2, <1>2 DEF PlanFits
<1>9. CASE Unwound /\ Effect
  <2>1. Busy /\ guest' = guest /\ plan' = plan BY <1>9 DEF Unwound
  <2>2. AllOf' = AllOf BY <2>1 DEF AllOf, Has
  <2>3. FstabFirst(todo') <=> FstabFirst(todo)' BY DEF FstabFirst
  <2>4. Going' /\ command' = "import" /\ guest.os = "linux" => plan' = AllOf \/ FstabFirst(todo')
    BY <2>1, <1>2, <1>9, GoesOn
  <2> QED BY <2>1, <2>2, <2>3, <2>4, <1>2 DEF PlanFits
<1>10. CASE Responded
  <2>1. ~Busy' /\ ~Going' BY <1>10 DEF Responded, Busy, Going
  <2> QED BY <2>1 DEF PlanFits
<1> QED BY <1>1, <1>4, <1>5, <1>7, <1>8, <1>9, <1>10, NextKinds

\* Once the clones are set up, the work is done on them.
LEMMA ReadyFor ==
    ASSUME Types, Control, ClonesReady, Took, command = "import", ~Left(<<"clone">>)
    PROVE  /\ ClonesFit /\ Head(todo) \in WorkOf(guest.os)
           /\ \A n \in 1 .. Len(todo') : todo'[n] \in WorkOf(guest.os)
<1>1. /\ Going /\ Program(todo, guest, command) /\ guest \in GuestOS /\ todo # <<>>
      /\ todo' = Tail(todo)
  BY TookFacts DEF Took
<1>2. ClonesFit /\ \A n \in 1 .. Len(todo) : todo[n] \in WorkOf(guest.os)
  BY <1>1 DEF ClonesReady
<1> QED BY <1>1, <1>2, CloneStep

\* What does not look at the disks is done after they are cloned.
LEMMA WorkBegins ==
    ASSUME Types, Control, Took,
           Head(todo) # <<"clone">>, Head(todo) \notin LookOf(guest.os) \cup {<<"clean">>}
    PROVE  ~Left(<<"clone">>)
<1>1. Program(todo, guest, command) /\ guest \in GuestOS /\ todo # <<>>
  BY TookFacts DEF Took
<1> QED BY <1>1, CloneStep DEF Left

LEMMA ClonesReadyFrom ==
    ASSUME \/ Left(<<"clone">>)'
           \/ /\ mode' = "run"
              /\ \A n \in 1 .. Len(todo') : todo'[n] \in WorkOf(guest.os)
              /\ guest' = guest
              /\ todo' = <<>> \/ ClonesFit'
    PROVE  ClonesReady'
<1>1. WorkOf(guest'.os) = WorkOf(guest.os)' BY DEF WorkOf
<1> QED BY <1>1 DEF ClonesReady

LEMMA ClonesReadyStep ==
    ASSUME Inv, Next
    PROVE  ClonesReady'
<1>1. /\ Types /\ Control /\ PlanFits /\ ClonesReady /\ guest \in GuestOS
      /\ guest.os \in {"linux", "windows", "fortigate"}
  BY DEF Inv, Types, GuestOS
<1>2. ASSUME Took, Head(todo) # <<"clone">>, Left(<<"clone">>) PROVE ClonesReady'
  BY <1>1, <1>2, TookFacts, ClonesReadyFrom
<1>3. ASSUME Took, command # "import" PROVE ClonesReady'
  <2>1. command' # "import" BY <1>3 DEF Took
  <2> QED BY <2>1 DEF ClonesReady
<1>4. CASE QuietStep
  <2>1. /\ Took /\ vg' = vg /\ clones' = clones /\ Head(todo) \in QuietSteps
        /\ mode' = IF Head(todo) = <<"leave">> THEN "leave" ELSE "run"
        /\ rootAt' = IF Head(todo) = <<"match">> /\ guest.root = "plain" THEN "clone" ELSE rootAt
        /\ guest' = guest
    BY <1>4 DEF QuietStep, Untouched, Took
  <2>2. Head(todo) # <<"clone">>
    <3>1. <<"clone">> \notin QuietSteps BY DEF QuietSteps
    <3> QED BY <3>1, <2>1
  <2>3. CASE command = "import" /\ ~Left(<<"clone">>)
    <3>1. /\ ClonesFit /\ Head(todo) \in WorkOf(guest.os)
          /\ \A n \in 1 .. Len(todo') : todo'[n] \in WorkOf(guest.os)
      BY <2>1, <2>3, <1>1, ReadyFor
    <3>2. Head(todo) # <<"leave">> BY <3>1, <1>1, Apart
    <3>3. ClonesFit' BY <2>1, <3>1 DEF ClonesFit
    <3>4. mode' = "run" BY <2>1, <3>2
    <3> QED BY <2>1, <3>1, <3>3, <3>4, ClonesReadyFrom
  <2> QED BY <2>1, <2>2, <2>3, <1>2, <1>3
<1>5. CASE Enter \/ CleanUp \/ ActivateVG
  <2>1. Took /\ Head(todo) \in {<<"enter">>, <<"clean">>, <<"activate">>}
    BY <1>5, EnterIs, CleanUpIs, ActivateIs
  <2>2. Head(todo) \notin WorkOf(guest.os) BY <2>1, <1>1, Apart
  <2>3. Head(todo) # <<"clone">> BY <2>1
  <2>4. command = "import" => Left(<<"clone">>) BY <2>1, <2>2, <1>1, ReadyFor
  <2> QED BY <2>1, <2>3, <2>4, <1>2, <1>3
<1>6. CASE DoMount
  <2>1. /\ Took /\ Still /\ Head(todo)[1] = "mount" /\ vg' = vg /\ clones' = clones
    BY <1>6, MountNames
  <2>2. Head(todo) # <<"clone">> /\ Head(todo) # <<"match">> BY <2>1
  <2>3. CASE command = "import" /\ ~Left(<<"clone">>)
    <3>1. /\ ClonesFit /\ \A n \in 1 .. Len(todo') : todo'[n] \in WorkOf(guest.os)
      BY <2>1, <2>3, <1>1, ReadyFor
    <3>2. rootAt' = rootAt /\ guest' = guest /\ mode' = "run" BY <2>1 DEF Still, Took
    <3>3. ClonesFit' BY <2>1, <2>2, <3>1, <3>2 DEF ClonesFit
    <3> QED BY <3>1, <3>2, <3>3, ClonesReadyFrom
  <2> QED BY <2>1, <2>2, <2>3, <1>2, <1>3
<1>7. CASE SetUpClones
  <2>1. /\ Took /\ Still /\ Head(todo) = <<"clone">> /\ clones' = DisksOf(plan)
        /\ vg' = IF InVG(guest) \cap plan = {} THEN "off" ELSE "clone"
    BY <1>7, CloneIs
  <2>2. /\ Going /\ Busy /\ Program(todo, guest, command) /\ todo # <<>> /\ todo' = Tail(todo)
        /\ guest' = guest /\ todo \in Seq(Fits(guest, command))
    BY <2>1, <1>1, TookFacts DEF Took
  <2>3. CASE command = "import"
    <3>1. /\ Head(todo') = <<"match">>
          /\ \A n \in 1 .. Len(todo') : todo'[n] \in WorkOf(guest.os)
      BY <2>1, <2>2, <1>1, CloneStep
    <3>2. guest.os = "linux" => plan = AllOf
      <4>1. ~FstabFirst(todo) BY <2>1, <2>2, FstabTail
      <4> QED BY <4>1, <2>2, <2>3, <1>1 DEF PlanFits
    <3>3. guest.root = "lvm" => vg' = "clone"
      <4>1. guest.root = "lvm" => "root" \in InVG(guest) \cap plan
        BY <2>2, <1>1 DEF PlanFits, InVG, FileSystem
      <4> QED BY <4>1, <2>1
    <3>4. guest.os # "fortigate" /\ guest.extra = "lvm" => vg' = "clone"
      <4>1. SUFFICES ASSUME guest.os # "fortigate", guest.extra = "lvm" PROVE vg' = "clone"
        OBVIOUS
      <4>2. guest.os = "linux" BY <4>1, <1>1 DEF GuestOS
      <4>3. "extra" \in InVG(guest) /\ "extra" \in AllOf
        BY <4>1 DEF InVG, AllOf, Has, FileSystem
      <4> QED BY <4>2, <4>3, <3>2, <2>1
    <3>5. guest.os # "fortigate" /\ guest.extra = "plain" => "extra" \in clones'
      <4>1. SUFFICES ASSUME guest.os # "fortigate", guest.extra = "plain" PROVE "extra" \in clones'
        OBVIOUS
      <4>2. "extra" \in AllOf BY <4>1 DEF AllOf, Has, FileSystem
      <4>3. guest.os = "linux" \/ guest.os = "windows" BY <4>1, <1>1
      <4>4. DisksOf(plan) = AllOf
        <5>1. guest.os = "windows" => DisksOf(plan) = AllOf BY DEF DisksOf, AllOf
        <5>2. guest.os = "linux" => DisksOf(plan) = plan BY DEF DisksOf
        <5> QED BY <5>1, <5>2, <4>3, <3>2
      <4> QED BY <4>2, <4>4, <2>1
    <3>6. ClonesFit' BY <2>2, <3>1, <3>3, <3>4, <3>5 DEF ClonesFit
    <3> QED BY <2>1, <2>2, <3>1, <3>6, ClonesReadyFrom DEF Still
  <2> QED BY <2>1, <2>3, <1>3
<1>8. ASSUME Begins0 PROVE ClonesReady'
  <2>1. command' = "import" => Left(<<"clone">>)' BY <1>1, <1>8, BeginsIs
  <2> QED BY <2>1 DEF ClonesReady
<1>9. CASE Started \/ Killed BY <1>8, <1>9 DEF Started, Killed
<1>10. CASE Failed \/ Responded
  <2>1. ~Going' BY <1>10, NothingGoes
  <2> QED BY <2>1 DEF ClonesReady
<1>11. CASE Unwound /\ Effect
  <2>1. SUFFICES ASSUME Going', command' = "import" PROVE ClonesReady' BY DEF ClonesReady
  <2>2. /\ Going /\ todo' = todo /\ command = "import" /\ guest' = guest
        /\ mode = "leave" \/ todo = <<>>
        /\ mode' = IF mode = "leave" /\ Head(deferred) = <<"mark">> THEN "run" ELSE mode
    BY <2>1, <1>11, GoesOn
  <2>3. CASE Left(<<"clone">>)
    <3>1. Left(<<"clone">>)' BY <2>2, <2>3 DEF Left
    <3> QED BY <3>1, ClonesReadyFrom
  <2>4. CASE mode = "run" /\ \A n \in 1 .. Len(todo) : todo[n] \in WorkOf(guest.os)
    <3>1. mode' = "run" /\ todo' = <<>> BY <2>2, <2>4
    <3>2. \A n \in 1 .. Len(todo') : todo'[n] \in WorkOf(guest.os) BY <2>2, <2>4
    <3> QED BY <2>2, <3>1, <3>2, ClonesReadyFrom
  <2> QED BY <2>2, <2>3, <2>4, <1>1 DEF ClonesReady
<1> QED BY <1>1, <1>4, <1>5, <1>6, <1>7, <1>9, <1>10, <1>11, NextKinds

\* Before the first mount of a look at the disks nothing is mounted.
LEMMA NothingMounted ==
    ASSUME Inv, mode = "run", todo # <<>>, guest.os # "fortigate", Tidy,
           Head(todo) \notin Follows, Head(todo) # <<"clean">>
    PROVE  mounts = <<>>
<1>1. Types /\ Control /\ guest \in GuestOS /\ mounts \in Seq(Placed) BY DEF Inv, Types
<1>2. Busy /\ Program(todo, guest, command) BY <1>1 DEF Control
<1>3. PICK k \in Nat :
        /\ Stacked(deferred, mounts, k)
        /\ Tidy => (guest.os = "linux" /\ Left(<<"clean">>)) \/ k = Len(mounts)
        /\ command = "import" /\ ~Left(<<"clone">>) /\ mode # "fail" =>
             \A n \in 1 .. Len(mounts) - k : Foreign(mounts[n])
        /\ k > 0 /\ mode = "run" /\ todo # <<>> => Head(todo) \in Follows
  BY <1>2, StackGet
<1>4. ~Left(<<"clean">>) BY <1>1, <1>2, CleanStep DEF Left
<1>5. k = 0 BY <1>3
<1> QED BY <1>1, <1>3, <1>4, <1>5, NoMounts

LEMMA ShapedNone == Shaped(<<>>)
<1>1. Len(<<>>) = 0 BY EmptySeq
<1>2. \A n \in 2 .. 0 : FALSE OBVIOUS
<1> QED BY <1>1, <1>2 DEF Shaped

LEMMA ShapedAppend ==
    ASSUME NEW ms \in Seq(Placed), Shaped(ms), NEW m \in Placed,
           m.at = IF ms = <<>> THEN "target" ELSE "target/extra"
    PROVE  Shaped(Append(ms, m)) /\ Append(ms, m) # <<>>
<1> DEFINE ns == Append(ms, m)
<1>1. PICK l \in Nat : l = Len(ms) BY LenProperties
<1>2. /\ ns \in Seq(Placed) /\ Len(ns) = l + 1 /\ ns[l + 1] = m
      /\ \A n \in 1 .. l : ns[n] = ms[n]
  BY <1>1, AppendProperties
<1> HIDE DEF ns
<1>3. ns # <<>> BY <1>2, NoMounts
<1>4. ns[1].at = "target"
  <2>1. CASE l = 0 BY <2>1, <1>1, <1>2, NoMounts
  <2>2. CASE l > 0
    <3>1. ms # <<>> /\ 1 \in 1 .. l BY <2>2, <1>1, NoMounts
    <3> QED BY <3>1, <1>2 DEF Shaped
  <2> QED BY <2>1, <2>2
<1>5. ASSUME NEW n \in 2 .. l + 1 PROVE ns[n].at = "target/extra"
  <2>1. CASE n \in 2 .. l
    <3>1. n \in 1 .. l /\ ms[n].at = "target/extra" BY <2>1, <1>1 DEF Shaped
    <3> QED BY <3>1, <1>2
  <2>2. CASE n = l + 1
    <3>1. l # 0 BY <2>2
    <3>2. ms # <<>> BY <3>1, <1>1, NoMounts
    <3> QED BY <3>2, <2>2, <1>2
  <2> QED BY <2>1, <2>2
<1> QED BY <1>2, <1>3, <1>4, <1>5 DEF Shaped, ns

LEMMA ShapeFrom ==
    ASSUME guest' = guest, guest.os = "linux" => Shaped(mounts'),
           guest.os = "linux" /\ todo' # <<>> /\ Head(todo') = <<"mount", "target/extra", "extra">>
               => mode' = "run" /\ mounts' # <<>>
    PROVE  Shape'
<1>1. Shaped(mounts') <=> Shaped(mounts)' BY DEF Shaped
<1> QED BY <1>1 DEF Shape

LEMMA ShapeStep ==
    ASSUME Inv, Next
    PROVE  Shape'
<1>1. /\ Types /\ Control /\ Shape /\ guest \in GuestOS /\ mounts \in Seq(Placed)
      /\ deferred \in Seq(Call) /\ mounts' \in Seq(Placed)
      /\ ClonesReady /\ VGFits /\ Idle /\ Learns
  BY DevicesTyped DEF Inv, Types
<1> DEFINE te == <<"mount", "target/extra", "extra">>
           tr == <<"mount", "target", "root">>
<1>2. guest.os = "linux" =>
        /\ Shaped(mounts)
        /\ todo # <<>> /\ Head(todo) = te => mode = "run" /\ mounts # <<>>
  BY <1>1 DEF Shape
<1>3. ASSUME Took, Head(todo) # tr PROVE todo' # <<>> => Head(todo') # te
  <2>1. Program(todo, guest, command) /\ todo # <<>> /\ todo' = Tail(todo)
    BY <1>1, <1>3, TookFacts DEF Took
  <2> QED BY <2>1, <1>1, <1>3, NextStep
<1>4. ASSUME Took, Head(todo)[1] # "mount", guest.os = "linux" => Shaped(mounts') PROVE Shape'
  <2>1. Head(todo) # tr BY <1>4
  <2>2. todo' # <<>> => Head(todo') # te BY <2>1, <1>3, <1>4
  <2> QED BY <2>2, <1>4, ShapeFrom DEF Took
<1>5. CASE QuietStep
  <2>1. Took /\ mounts' = mounts /\ Head(todo) \in QuietSteps BY <1>5 DEF QuietStep, Untouched
  <2>2. Head(todo)[1] # "mount"
    <3>1. \A s \in QuietSteps : s[1] # "mount" BY DEF QuietSteps
    <3> QED BY <3>1, <2>1
  <2> QED BY <2>1, <2>2, <1>2, <1>4
<1>6. CASE Enter \/ ActivateVG
  <2>1. Took /\ mounts' = mounts BY <1>6, EnterIs, ActivateIs DEF Untouched
  <2>2. Head(todo)[1] # "mount"
    <3>1. Head(todo) = <<"enter">> \/ Head(todo) = <<"activate">> BY <1>6, EnterIs, ActivateIs
    <3> QED BY <3>1
  <2> QED BY <2>1, <2>2, <1>2, <1>4
<1>7. CASE CleanUp \/ SetUpClones
  <2>1. Took /\ (CleanupClones \/ mounts' = TargetUnmounted) BY <1>7, CleanUpIs, CloneIs
  <2>2. Head(todo)[1] # "mount"
    <3>1. Head(todo) = <<"clean">> \/ Head(todo) = <<"clone">> BY <1>7, CleanUpIs, CloneIs
    <3> QED BY <3>1
  <2>3. guest.os = "linux" => mounts' = <<>> BY <2>1, Emptied
  <2> QED BY <2>1, <2>2, <2>3, <1>4, ShapedNone
<1>8. CASE DoMount
  <2>1. PICK p \in Path, f \in FileSystem \cup {"none"} :
          /\ Took /\ Still /\ Head(todo) = <<"mount", p, f>>
          /\ mounts' = Append(mounts, [at |-> p, fs |-> f, on |-> DeviceOf(f)])
          /\ [at |-> p, fs |-> f, on |-> DeviceOf(f)] \in Placed
    BY <1>1, <1>8, MountTyped
  <2>2. guest' = guest /\ mode' = "run" /\ mode = "run" /\ todo # <<>>
    BY <2>1 DEF Took, Still
  <2>3. SUFFICES ASSUME guest.os = "linux" PROVE Shaped(mounts') /\ mounts' # <<>>
    BY <2>2, ShapeFrom
  <2> DEFINE m == [at |-> p, fs |-> f, on |-> DeviceOf(f)]
  <2>4. m \in Placed /\ m.at = p /\ mounts' = Append(mounts, m) BY <2>1
  <2> HIDE DEF m
  <2>5. p = IF mounts = <<>> THEN "target" ELSE "target/extra"
    <3>1. Head(todo) \in StepsOf("linux")
      <4>1. Head(todo) \in Fits(guest, command) BY <2>1, <1>1, TookFacts
      <4> QED BY <4>1, <2>3 DEF Fits
    <3>2. Head(todo)[1] = "mount" /\ Head(todo)[2] = p BY <2>1
    <3>3. \/ Head(todo) = te
          \/ Head(todo) = tr
          \/ Head(todo) = <<"mount", "target", "extra">>
      <4>1. ASSUME NEW s \in StepsOf("linux"), s[1] = "mount"
            PROVE  s = te \/ s = tr \/ s = <<"mount", "target", "extra">>
        BY <4>1 DEF StepsOf, LookOf, WorkOf
      <4> QED BY <4>1, <3>1, <3>2
    <3>4. CASE Head(todo) = te
      <4>1. p = "target/extra" BY <3>2, <3>4
      <4> QED BY <4>1, <3>4, <2>2, <2>3, <1>2
    <3>5. CASE Head(todo) = tr \/ Head(todo) = <<"mount", "target", "extra">>
      <4>1. p = "target" BY <3>2, <3>5
      <4>2. Head(todo) \notin Follows
        <5>1. tr \notin Follows /\ <<"mount", "target", "extra">> \notin Follows BY DEF Follows
        <5> QED BY <5>1, <3>5
      <4>3. Head(todo) # <<"clean">> BY <3>2
      <4>4. mounts = <<>> BY <4>2, <4>3, <2>2, <2>3, NothingMounted DEF Tidy
      <4> QED BY <4>1, <4>4
    <3> QED BY <3>3, <3>4, <3>5
  <2> QED BY <2>3, <2>4, <2>5, <1>1, <1>2, ShapedAppend
<1>9. ASSUME mode = "run", todo # <<>>, Untouched \/ LeftHalfway, guest.os = "linux"
      PROVE  Shaped(mounts')
  <2>1. CASE Untouched BY <2>1, <1>2, <1>9 DEF Untouched
  <2>2. CASE LeftHalfway
    <3>1. \/ Untouched
          \/ guest.os = "fortigate"
          \/ mounts' = TargetUnmounted
      BY <2>2, <1>1, <1>9, HalfwayIs
    <3>2. CASE mounts' = TargetUnmounted
      <4>1. mounts' = <<>> BY <3>2, <1>9, Emptied
      <4> QED BY <4>1, ShapedNone
    <3> QED BY <3>1, <3>2, <2>1, <1>9
  <2> QED BY <2>1, <2>2, <1>9
<1>10. ASSUME Begins0, guest.os = "linux" => Shaped(mounts') PROVE Shape'
  <2>1. guest' = guest BY <1>10 DEF Begins0
  <2>2. guest.os = "linux" => Head(todo') # te
    <3>1. guest.os = "linux" => Head(todo') = <<"clean">>
      <4>1. guest.os # "fortigate" => Head(todo') = <<"clean">> BY <1>1, <1>10, BeginsIs
      <4> QED BY <4>1
    <3> QED BY <3>1
  <2> QED BY <2>1, <2>2, <1>10, ShapeFrom
<1>11. CASE Started BY <1>2, <1>10, <1>11 DEF Started, Untouched
<1>12. CASE Killed
  <2>1. guest.os = "linux" => Shaped(mounts') BY <1>2, <1>9, <1>12 DEF Killed, Untouched
  <2> QED BY <2>1, <1>10, <1>12 DEF Killed
<1>13. CASE Failed
  <2>1. guest.os = "linux" => Shaped(mounts') BY <1>9, <1>13 DEF Failed
  <2> QED BY <2>1, <1>13, ShapeFrom DEF Failed
<1>14. CASE Unwound /\ Effect
  <2>1. /\ Busy /\ guest' = guest /\ todo' = todo /\ deferred # <<>>
        /\ mode \in {"leave", "fail"} \/ todo = <<>>
    BY <1>14 DEF Unwound
  <2>2. SUFFICES ASSUME guest.os = "linux" PROVE Shaped(mounts') BY <2>1, <1>2, ShapeFrom
  <2>3. CASE mounts' = mounts BY <2>2, <2>3, <1>2
  <2>4. CASE CleanupClones
    <3>1. mounts' = <<>> BY <2>2, <2>4, Emptied
    <3> QED BY <3>1, ShapedNone
  <2>5. CASE /\ \E p \in Path : Head(deferred) = <<"unmount", p>>
             /\ DoUnmount(Head(deferred)[2])
    <3>1. PICK p \in Path : Head(deferred) = <<"unmount", p>> BY <2>5
    <3>2. DoUnmount(p)
      <4>1. Head(deferred)[2] = p BY <3>1
      <4> QED BY <4>1, <2>5
    <3>3. PICK k \in Nat : Stacked(deferred, mounts, k)
      <4>1. guest.os # "fortigate" BY <2>2
      <4> QED BY <4>1, <2>1, StackGet
    <3>4. /\ mounts # <<>> /\ Len(mounts') = Len(mounts) - 1
          /\ \A n \in 1 .. Len(mounts) - 1 : mounts'[n] = mounts[n]
      BY <1>1, <2>1, <3>1, <3>2, <3>3, UnmountsLast
    <3>5. PICK l \in Nat : l = Len(mounts) /\ l > 0 BY <3>4, <1>1, Shorter
    <3>6. mounts' # <<>> => mounts'[1].at = "target"
      <4>1. mounts' # <<>> => l - 1 > 0 BY <3>4, <3>5, <1>1, NoMounts
      <4>2. l - 1 > 0 => 1 \in 1 .. l - 1 OBVIOUS
      <4> QED BY <4>1, <4>2, <3>4, <3>5, <1>2, <2>2 DEF Shaped
    <3>7. ASSUME NEW n \in 2 .. l - 1 PROVE mounts'[n].at = "target/extra"
      <4>1. n \in 1 .. l - 1 /\ n \in 2 .. l OBVIOUS
      <4> QED BY <4>1, <3>4, <3>5, <1>2, <2>2 DEF Shaped
    <3> QED BY <3>4, <3>5, <3>6, <3>7 DEF Shaped
  <2> QED BY <2>3, <2>4, <2>5, <1>14 DEF Effect, Untouched
<1>15. CASE Responded
  <2>1. guest' = guest /\ mounts' = mounts /\ todo' = <<>> BY <1>15 DEF Responded, Untouched
  <2> QED BY <2>1, <1>2, ShapeFrom
<1> QED BY <1>1, <1>5, <1>6, <1>7, <1>8, <1>11, <1>12, <1>13, <1>14, <1>15, NextKinds

LEMMA KeptSpared ==
    ASSUME Kept(mounts, mounts'), Spared(mounts) PROVE Spared(mounts')
BY DEF Kept, Spared

\* What is kept of the mounts by a step that ends halfway, if nothing is added.
LEMMA HalfwayKept ==
    ASSUME Inv, Next, mode = "run", todo # <<>>, Untouched \/ LeftHalfway, guest.os # "fortigate"
    PROVE  Kept(mounts, mounts')
<1>1. /\ Types /\ Control /\ ClonesReady /\ VGFits /\ Idle /\ Learns BY DEF Inv
<1>2. \/ Untouched
      \/ mounts' = TargetUnmounted
  BY <1>1, HalfwayIs
<1>3. Untouched => Kept(mounts, mounts') BY KeptSame DEF Untouched
<1>4. mounts' = TargetUnmounted => Kept(mounts, mounts') BY <1>1, TargetGone
<1> QED BY <1>2, <1>3, <1>4

LEMMA SparedAppend ==
    ASSUME NEW ms \in Seq(Placed), Spared(ms), NEW m, m.fs # "none" => m.on # "disk"
    PROVE  Spared(Append(ms, m))
<1> DEFINE ns == Append(ms, m)
           T == Placed \cup {m}
<1>1. PICK l \in Nat : l = Len(ms) BY LenProperties
<1>2. ms \in Seq(T) /\ m \in T BY SeqMonotonic
<1> HIDE DEF T
<1>3. Len(ns) = l + 1 /\ ns[l + 1] = m /\ \A n \in 1 .. l : ns[n] = ms[n]
  BY <1>1, <1>2, AppendProperties
<1> HIDE DEF ns
<1>4. \A n \in 1 .. l + 1 : n = l + 1 \/ n \in 1 .. l OBVIOUS
<1> QED BY <1>1, <1>3, <1>4 DEF Spared, ns

\* A dry run mounts the clones.
LEMMA MountsClone ==
    ASSUME Types, Control, ClonesReady, Took, command = "import", ~Left(<<"clone">>),
           guest.os # "fortigate", NEW p, NEW f \in FileSystem, Head(todo) = <<"mount", p, f>>,
           MountExists(p, f)
    PROVE  DeviceOf(f) # "disk"
<1>1. ClonesFit BY ReadyFor
<1>2. Head(todo) # <<"match">>
  <2>1. Head(todo)[1] = "mount" OBVIOUS
  <2> QED BY <2>1
<1>3. f # "none" BY DEF FileSystem
<1>4. guest[f] \in {"plain", "lvm"} BY <1>3 DEF MountExists, Has
<1>5. CASE f = "root"
  <2>1. guest[f] = guest.root BY <1>5
  <2> QED BY <2>1, <1>1, <1>2, <1>3, <1>4, <1>5 DEF ClonesFit, DeviceOf
<1>6. CASE f = "extra"
  <2>1. guest[f] = guest.extra BY <1>6
  <2> QED BY <2>1, <1>1, <1>3, <1>4, <1>6 DEF ClonesFit, DeviceOf
<1> QED BY <1>5, <1>6 DEF FileSystem

LEMMA SparesFrom ==
    ASSUME guest' = guest,
           Going' /\ command' = "import" /\ guest.os # "fortigate" /\ ~Left(<<"clone">>)' =>
               Spared(mounts'),
           guest.os = "windows" /\ command' \in {"none", "import"} => Spared(mounts')
    PROVE  SparesDisk'
<1>1. Spared(mounts') <=> Spared(mounts)' BY DEF Spared
<1> QED BY <1>1 DEF SparesDisk

LEMMA SparesDiskStep ==
    ASSUME Inv, Next
    PROVE  SparesDisk'
<1>1. /\ Types /\ Control /\ ClonesReady /\ guest \in GuestOS /\ mounts \in Seq(Placed)
      /\ mounts' \in Seq(Placed)
  BY DevicesTyped DEF Inv, Types
<1>2. /\ Going /\ command = "import" /\ guest.os # "fortigate" /\ ~Left(<<"clone">>) =>
           Spared(mounts)
      /\ guest.os = "windows" /\ command \in {"none", "import"} => Spared(mounts)
  BY DEF Inv, SparesDisk
<1>3. ASSUME Took, Head(todo) # <<"clone">>, Kept(mounts, mounts') PROVE SparesDisk'
  <2>1. Going /\ guest' = guest /\ command' = command /\ (Left(<<"clone">>) => Left(<<"clone">>)')
    BY <1>1, <1>3, TookFacts DEF Took
  <2> QED BY <2>1, <1>2, <1>3, KeptSpared, SparesFrom
<1>4. CASE QuietStep
  <2>1. Took /\ mounts' = mounts /\ Head(todo) \in QuietSteps BY <1>4 DEF QuietStep, Untouched
  <2>2. Head(todo) # <<"clone">>
    <3>1. <<"clone">> \notin QuietSteps BY DEF QuietSteps
    <3> QED BY <3>1, <2>1
  <2> QED BY <2>1, <2>2, <1>3, KeptSame
<1>5. CASE Enter \/ CleanUp \/ ActivateVG
  <2>1. Took /\ Head(todo) \in {<<"enter">>, <<"clean">>, <<"activate">>}
    BY <1>5, EnterIs, CleanUpIs, ActivateIs
  <2>2. Head(todo) # <<"clone">> BY <2>1
  <2>3. Kept(mounts, mounts')
    <3>1. CASE CleanUp BY <3>1, <1>1, CleanUpIs, CleanupIs
    <3>2. CASE ~CleanUp
      <4>1. mounts' = mounts BY <3>2, <1>5, EnterIs, ActivateIs DEF Untouched
      <4> QED BY <4>1, KeptSame
    <3> QED BY <3>1, <3>2
  <2> QED BY <2>1, <2>2, <2>3, <1>3
<1>6. CASE DoMount
  <2>1. PICK p \in Path, f \in FileSystem \cup {"none"} :
          /\ Took /\ Still /\ Head(todo) = <<"mount", p, f>> /\ MountExists(p, f)
          /\ mounts' = Append(mounts, [at |-> p, fs |-> f, on |-> DeviceOf(f)])
    BY <1>1, <1>6, MountTyped
  <2>2. /\ Going /\ Busy /\ guest' = guest /\ command' = command
        /\ (Left(<<"clone">>) => Head(todo) = <<"clone">> \/ Left(<<"clone">>)')
        /\ Head(todo) \in Fits(guest, command)
    BY <2>1, <1>1, TookFacts DEF Took
  <2>3. Head(todo)[1] = "mount" BY <2>1
  <2> DEFINE m == [at |-> p, fs |-> f, on |-> DeviceOf(f)]
  <2>4. mounts' = Append(mounts, m) /\ m.fs = f /\ m.on = DeviceOf(f) BY <2>1
  <2> HIDE DEF m
  <2>5. ASSUME command = "import", guest.os # "fortigate", ~Left(<<"clone">>)
        PROVE  Spared(mounts')
    <3>1. m.fs # "none" => m.on # "disk" BY <2>1, <2>4, <2>5, <1>1, MountsClone
    <3>2. Spared(mounts) BY <2>2, <2>5, <1>2
    <3> QED BY <3>1, <3>2, <2>4, <1>1, SparedAppend
  <2>6. guest.os = "windows" => ~Left(<<"clone">>)
    <3>1. SUFFICES ASSUME guest.os = "windows" PROVE ~Left(<<"clone">>) OBVIOUS
    <3>2. Head(todo) \notin LookOf(guest.os) \cup {<<"clean">>}
      <4>1. \A s \in LookOf("windows") \cup {<<"clean">>} : s[1] # "mount" BY DEF LookOf
      <4> QED BY <4>1, <3>1, <2>3
    <3>3. Head(todo) # <<"clone">> BY <2>3
    <3> QED BY <3>2, <3>3, <2>1, <1>1, WorkBegins
  <2>7. command' \in {"none", "import"} => command = "import" BY <2>2 DEF Busy
  <2>8. Head(todo) # <<"clone">> BY <2>3
  <2>9. guest.os = "windows" => guest.os # "fortigate" OBVIOUS
  <2> QED BY <2>2, <2>5, <2>6, <2>7, <2>8, <2>9, SparesFrom
<1>7. CASE SetUpClones
  <2>1. Took /\ mounts' = TargetUnmounted /\ Head(todo) = <<"clone">> BY <1>7, CloneIs
  <2>2. guest' = guest /\ command' = command BY <2>1 DEF Took
  <2>3. Kept(mounts, mounts') BY <2>1, <1>1, TargetGone
  <2>4. guest.os = "windows" /\ command' \in {"none", "import"} => Spared(mounts')
    BY <2>2, <2>3, <1>2, KeptSpared
  <2>5. guest.os = "linux" => Spared(mounts')
    <3>1. guest.os = "linux" => mounts' = <<>> BY <2>1, Emptied
    <3>2. Spared(<<>>)
      <4>1. Len(<<>>) = 0 BY EmptySeq
      <4>2. \A n \in 1 .. 0 : FALSE OBVIOUS
      <4> QED BY <4>1, <4>2 DEF Spared
    <3> QED BY <3>1, <3>2
  <2>6. guest.os \in {"linux", "windows", "fortigate"} BY <1>1 DEF GuestOS
  <2> QED BY <2>2, <2>4, <2>5, <2>6, SparesFrom
<1>8. CASE Started
  <2>1. Begins0 /\ command = "none" /\ mounts' = mounts /\ guest' = guest
    BY <1>8 DEF Started, Begins0, Untouched
  <2>2. command' = "import" => Left(<<"clone">>)' BY <2>1, <1>1, BeginsIs
  <2> QED BY <2>1, <2>2, <1>2, SparesFrom
<1>9. CASE Killed
  <2>1. Begins0 /\ command' = command /\ guest' = guest BY <1>9 DEF Killed, Begins0
  <2>2. command' = "import" => Left(<<"clone">>)' BY <2>1, <1>1, BeginsIs
  <2>3. guest.os # "fortigate" => Kept(mounts, mounts')
    <3>1. CASE Untouched BY <3>1, KeptSame DEF Untouched
    <3>2. CASE mode = "run" /\ todo # <<>> /\ LeftHalfway BY <3>2, HalfwayKept
    <3> QED BY <3>1, <3>2, <1>9 DEF Killed
  <2>4. guest.os = "windows" => guest.os # "fortigate" OBVIOUS
  <2> QED BY <2>1, <2>2, <2>3, <2>4, <1>2, KeptSpared, SparesFrom
<1>10. CASE Failed
  <2>1. command' = command /\ guest' = guest /\ ~Going' BY <1>10, NothingGoes DEF Failed
  <2>2. guest.os # "fortigate" => Kept(mounts, mounts') BY <1>10, HalfwayKept DEF Failed
  <2>3. guest.os = "windows" => guest.os # "fortigate" OBVIOUS
  <2> QED BY <2>1, <2>2, <2>3, <1>2, KeptSpared, SparesFrom
<1>11. CASE Unwound /\ Effect
  <2>1. Kept(mounts, mounts') BY <1>11, EffectIs
  <2>2. guest' = guest /\ command' = command BY <1>11 DEF Unwound
  <2>3. Going' /\ ~Left(<<"clone">>)' => Going /\ ~Left(<<"clone">>)
    <3>1. ASSUME Going', Left(<<"clone">>) PROVE Left(<<"clone">>)'
      <4>1. todo' = todo BY <3>1, <1>11, GoesOn
      <4> QED BY <4>1, <3>1 DEF Left
    <3> QED BY <3>1, <1>11, GoesOn
  <2> QED BY <2>1, <2>2, <2>3, <1>2, KeptSpared, SparesFrom
<1>12. CASE Responded
  <2>1. ~Going' /\ guest' = guest /\ mounts' = mounts
    BY <1>12, NothingGoes DEF Responded, Untouched
  <2>2. command' \in {"none", "import"} => command = "import" BY <1>12 DEF Responded
  <2> QED BY <2>1, <2>2, <1>2, SparesFrom
<1> QED BY <1>1, <1>4, <1>5, <1>6, <1>7, <1>8, <1>9, <1>10, <1>11, <1>12, NextKinds

LEMMA ScriptsSpare ==
    ASSUME Inv, QuietStep, NEW paths, WrittenAt(paths), Head(todo) = <<"scripts">>,
           guest.os # "fortigate"
    PROVE  DryRunSparesDisk'
<1>1. /\ Types /\ Control /\ ClonesReady /\ SparesDisk /\ mounts \in Seq(Placed)
      /\ guest \in GuestOS /\ DryRunSparesDisk
  BY DEF Inv, Types
<1>2. Took BY DEF QuietStep
<1>3. Going BY <1>1, <1>2, TookFacts
<1>4. ~Left(<<"clone">>)
  <2>1. guest.os \in {"linux", "windows", "fortigate"} BY <1>1 DEF GuestOS
  <2>2. Head(todo) \notin LookOf(guest.os) \cup {<<"clean">>} BY <2>1, Apart
  <2>3. Head(todo) # <<"clone">> OBVIOUS
  <2> QED BY <2>2, <2>3, <1>1, <1>2, WorkBegins
<1>5. command = "import" => Spared(mounts) BY <1>1, <1>3, <1>4 DEF SparesDisk
<1>6. ASSUME NEW f \in FileSystem, <<"import", f, "disk">> \in written' PROVE FALSE
  <2>1. PICK n \in DOMAIN mounts :
          <<"import", f, "disk">> = <<command, mounts[n].fs, mounts[n].on>>
    BY <1>1, <1>6 DEF DryRunSparesDisk, WrittenAt
  <2>2. command = "import" /\ mounts[n].fs = f /\ mounts[n].on = "disk" BY <2>1
  <2>3. n \in 1 .. Len(mounts) BY <1>1, LenProperties
  <2>4. f # "none" BY DEF FileSystem
  <2> QED BY <2>2, <2>3, <2>4, <1>5 DEF Spared
<1> QED BY <1>6 DEF DryRunSparesDisk

LEMMA DryRunStep ==
    ASSUME Inv, Next
    PROVE  DryRunSparesDisk'
<1>1. /\ Types /\ Control /\ ClonesReady /\ VGFits /\ Idle /\ Learns /\ DryRunSparesDisk
  BY DEF Inv
<1>2. CASE written' = written BY <1>1, <1>2 DEF DryRunSparesDisk
<1>3. CASE QuietStep /\ Works
  <2>1. CASE RunScriptsInChroot
    <3>1. WrittenAt({"target", "target/extra"}) /\ Head(todo) = <<"scripts">> /\ guest.os = "linux"
      BY <2>1 DEF RunScriptsInChroot, Step
    <3>2. guest.os # "fortigate" BY <3>1
    <3> QED BY <3>1, <3>2, <1>3, ScriptsSpare
  <2>2. CASE InjectDrivers
    <3>1. WrittenAt({"win_main", "win_recovery"}) /\ Head(todo) = <<"scripts">> /\ guest.os = "windows"
      BY <2>2 DEF InjectDrivers, Step
    <3>2. guest.os # "fortigate" BY <3>1
    <3> QED BY <3>1, <3>2, <1>3, ScriptsSpare
  <2>3. CASE ReplaceBoot
    <3>1. /\ mode = "run" /\ todo # <<>> /\ Head(todo) = <<"replace">>
          /\ written' = written \cup {<<command, "root", DeviceOf("root")>>}
      BY <2>3 DEF ReplaceBoot, Step
    <3>2. command = "import" => DeviceOf("root") # "disk" BY <3>1, <1>1, RootDevice
    <3> QED BY <3>1, <3>2, <1>1 DEF DryRunSparesDisk
  <2> QED BY <2>1, <2>2, <2>3, <1>3 DEF Works
<1>4. written' = written \/ (QuietStep /\ Works)
  <2>1. CASE QuietStep BY <2>1 DEF QuietStep
  <2>2. CASE Enter \/ CleanUp \/ ActivateVG \/ DoMount \/ SetUpClones
    BY <2>2, EnterIs, CleanUpIs, ActivateIs, MountNames, CloneIs DEF Still
  <2>3. CASE Started \/ Killed BY <2>3 DEF Started, Killed, Begins0
  <2>4. CASE Failed BY <2>4 DEF Failed
  <2>5. CASE Unwound /\ Effect BY <2>5 DEF Unwound
  <2>6. CASE Responded BY <2>6 DEF Responded
  <2> QED BY <1>1, <2>1, <2>2, <2>3, <2>4, <2>5, <2>6, NextKinds
<1> QED BY <1>2, <1>3, <1>4

-----------------------------------------------------------------------------
(* What is prepared, and what is found out *)

\* Every step is one of these, with the programs' steps taken one by one.
LEMMA HeadKinds ==
    ASSUME QuietStep \/ Enter \/ CleanUp \/ ActivateVG \/ DoMount \/ SetUpClones
    PROVE  /\ Took
           /\ \/ QuietStep
              \/ Still /\ Head(todo)[1] \in {"enter", "clean", "activate", "mount", "clone"}
<1>1. CASE QuietStep BY <1>1 DEF QuietStep
<1>2. CASE DoMount BY <1>2, MountNames
<1>3. CASE Enter \/ CleanUp \/ ActivateVG \/ SetUpClones
  <2>1. /\ Took /\ Still
        /\ \/ Head(todo) = <<"enter">> \/ Head(todo) = <<"clean">>
           \/ Head(todo) = <<"activate">> \/ Head(todo) = <<"clone">>
    BY <1>3, EnterIs, CleanUpIs, ActivateIs, CloneIs
  <2>2. Head(todo)[1] \in {"enter", "clean", "activate", "mount", "clone"} BY <2>1
  <2> QED BY <2>1, <2>2
<1> QED BY <1>1, <1>2, <1>3

LEMMA LearnsStep ==
    ASSUME Inv, Next
    PROVE  Learns'
<1>1. Types /\ Control /\ Learns BY DEF Inv
<1>2. /\ Going => Has(guest, "root") \/ Left(<<"found">>)
      /\ Going /\ guest.os = "windows" => guest.bitlocker # "locked" \/ Left(<<"unlock">>)
      /\ Going /\ command = "import" /\ guest.os = "linux" =>
           guest.extra # "unknown" \/ Left(<<"fstab">>)
      /\ foretold => Supported
  BY <1>1 DEF Learns
<1>3. CASE QuietStep \/ Enter \/ CleanUp \/ ActivateVG \/ DoMount \/ SetUpClones
  <2>1. /\ Took /\ Going /\ guest' = guest /\ command' = command /\ foretold' = foretold
        /\ \A s : Left(s) => Head(todo) = s \/ Left(s)'
    BY <1>1, <1>3, HeadKinds, TookFacts DEF Took
  <2>2. /\ Head(todo) = <<"found">> => Has(guest, "root")
        /\ Head(todo) = <<"fstab">> => guest.extra # "unknown"
        /\ Head(todo) = <<"unlock">> => guest.bitlocker # "locked"
    <3>1. CASE QuietStep BY <3>1 DEF QuietStep
    <3>2. CASE Head(todo)[1] \in {"enter", "clean", "activate", "mount", "clone"}
      BY <3>2
    <3> QED BY <3>1, <3>2, <1>3, HeadKinds
  <2> QED BY <2>1, <2>2, <1>2 DEF Learns, Supported, Has
<1>4. ASSUME Begins0 PROVE Learns'
  <2>1. guest' = guest /\ foretold' = foretold BY <1>4 DEF Begins0
  <2>2. /\ Left(<<"found">>)' /\ (guest.os = "windows" => Left(<<"unlock">>)')
        /\ guest.os = "linux" /\ command' = "import" => Left(<<"fstab">>)'
    BY <1>1, <1>4, BeginsIs
  <2> QED BY <2>1, <2>2, <1>2 DEF Learns, Supported, Has
<1>5. CASE Started \/ Killed BY <1>4, <1>5 DEF Started, Killed
<1>6. CASE Failed
  <2>1. ~Going' /\ guest' = guest /\ foretold' = foretold BY <1>6, NothingGoes DEF Failed
  <2> QED BY <2>1, <1>2 DEF Learns, Supported, Has
<1>7. CASE Unwound /\ Effect
  <2>1. guest' = guest /\ foretold' = foretold /\ todo' = todo /\ command' = command
    BY <1>7 DEF Unwound
  <2>2. Going' => Going BY <1>7, GoesOn
  <2>3. \A s : Left(s)' <=> Left(s) BY <2>1 DEF Left
  <2> QED BY <2>1, <2>2, <2>3, <1>2 DEF Learns, Supported, Has
<1>8. CASE Responded
  <2>1. /\ ~Going' /\ guest' = guest /\ Busy /\ todo = <<>>
        /\ foretold' = (foretold \/ (mode = "run" /\ command = "import"))
    BY <1>8, NothingGoes DEF Responded
  <2>2. mode = "run" /\ command = "import" => Supported
    <3>1. \A s : ~Left(s) BY <2>1, NothingLeft
    <3> QED BY <3>1, <2>1, <1>2 DEF Going, Supported
  <2>3. foretold' => Supported BY <2>1, <2>2, <1>2
  <2>4. Supported' <=> Supported BY <2>1 DEF Supported, Has
  <2> QED BY <2>1, <2>3, <2>4 DEF Learns
<1> QED BY <1>1, <1>3, <1>5, <1>6, <1>7, <1>8, NextKinds

LEMMA KeptAt ==
    ASSUME Types, mounts' \in Seq(Placed), Kept(mounts, mounts'), NEW p, MountsAt(p) = {}
    PROVE  MountsAt(p)' = {}
<1>1. DOMAIN mounts = 1 .. Len(mounts) /\ DOMAIN mounts' = 1 .. Len(mounts')
  BY LenProperties DEF Types
<1>2. \A n \in 1 .. Len(mounts) : mounts[n].at # p BY <1>1 DEF MountsAt
<1>3. \A n \in 1 .. Len(mounts') : mounts'[n].at # p BY <1>2 DEF Kept
<1> QED BY <1>1, <1>3 DEF MountsAt

LEMMA MainFitsStep ==
    ASSUME Inv, Next
    PROVE  MainFits'
<1>1. /\ Types /\ Control /\ Idle /\ MainFits /\ guest \in GuestOS
      /\ mounts \in Seq(Placed) /\ mounts' \in Seq(Placed)
  BY DevicesTyped DEF Inv, Types
<1> DEFINE w == <<"mount", "win_main", "root">>
<1>2. Busy /\ guest.os = "windows" /\ kills = 0 => MountsAt("win_main") = {} \/ ~Left(w)
  BY <1>1 DEF MainFits
<1>3. SUFFICES ASSUME Busy', guest'.os = "windows", kills' = 0
               PROVE  MountsAt("win_main")' = {} \/ ~Left(w)'
  BY DEF MainFits
<1>4. ASSUME Busy, guest' = guest, kills' = kills, Left(w)' => Left(w), Kept(mounts, mounts')
      PROVE  MountsAt("win_main")' = {} \/ ~Left(w)'
  BY <1>1, <1>2, <1>3, <1>4, KeptAt
<1>5. ASSUME Took
      PROVE  /\ Busy /\ guest' = guest /\ kills' = kills /\ (Left(w)' => Left(w))
             /\ Head(todo) \in Fits(guest, command)
  BY <1>1, <1>5, TookFacts DEF Took
<1>6. CASE QuietStep
  <2>1. Took /\ mounts' = mounts BY <1>6 DEF QuietStep, Untouched
  <2> QED BY <2>1, <1>4, <1>5, KeptSame
<1>7. CASE Enter \/ ActivateVG
  <2>1. Took /\ mounts' = mounts BY <1>7, EnterIs, ActivateIs DEF Untouched
  <2> QED BY <2>1, <1>4, <1>5, KeptSame
<1>8. CASE CleanUp \/ SetUpClones
  <2>1. Took BY <1>8, CleanUpIs, CloneIs
  <2>2. Kept(mounts, mounts') BY <1>1, <1>8, CleanUpIs, CloneIs, CleanupIs, TargetGone
  <2> QED BY <2>1, <2>2, <1>4, <1>5
<1>9. CASE DoMount
  <2>1. PICK p \in Path, f \in FileSystem \cup {"none"} :
          /\ Took /\ Head(todo) = <<"mount", p, f>>
          /\ mounts' = Append(mounts, [at |-> p, fs |-> f, on |-> DeviceOf(f)])
          /\ [at |-> p, fs |-> f, on |-> DeviceOf(f)] \in Placed
    BY <1>1, <1>9, MountTyped
  <2>2. CASE p = "win_main"
    <3>1. Head(todo) \in StepsOf("windows")
      <4>1. guest.os = "windows" BY <2>1, <1>3, <1>5
      <4> QED BY <4>1, <2>1, <1>5 DEF Fits
    <3>2. Head(todo)[1] = "mount" /\ Head(todo)[2] = "win_main" BY <2>1, <2>2
    <3>3. ASSUME NEW s \in StepsOf("windows"), s[1] = "mount", s[2] = "win_main" PROVE s = w
      BY <3>3 DEF StepsOf, LookOf, WorkOf
    <3>4. Head(todo) = w BY <3>1, <3>2, <3>3
    <3>5. todo \in Seq(Fits(guest, command)) /\ MainOnce(todo) /\ todo # <<>> /\ todo' = Tail(todo)
      BY <2>1, <1>1 DEF Control, Took
    <3> QED BY <3>4, <3>5, MainOnceTail DEF Left
  <2>3. CASE p # "win_main"
    <3> DEFINE m == [at |-> p, fs |-> f, on |-> DeviceOf(f)]
    <3>1. m \in Placed /\ m.at = p /\ mounts' = Append(mounts, m) BY <2>1
    <3> HIDE DEF m
    <3>2. PICK l \in Nat : l = Len(mounts) BY <1>1, LenProperties
    <3>3. /\ Len(mounts') = l + 1 /\ mounts'[l + 1] = m
          /\ \A n \in 1 .. l : mounts'[n] = mounts[n]
      BY <3>1, <3>2, <1>1, AppendProperties
    <3>4. DOMAIN mounts = 1 .. l /\ DOMAIN mounts' = 1 .. l + 1
      BY <3>2, <3>3, <1>1, LenProperties
    <3>5. MountsAt("win_main") = {} => MountsAt("win_main")' = {}
      <4>1. SUFFICES ASSUME MountsAt("win_main") = {}, NEW n \in 1 .. l + 1
                     PROVE  mounts'[n].at # "win_main"
        BY <3>4 DEF MountsAt
      <4>2. CASE n = l + 1 BY <4>2, <3>1, <3>3, <2>3
      <4>3. CASE n \in 1 .. l BY <4>1, <4>3, <3>3, <3>4 DEF MountsAt
      <4> QED BY <4>2, <4>3
    <3> QED BY <3>5, <2>1, <1>2, <1>3, <1>5
  <2> QED BY <2>2, <2>3
<1>10. CASE Started
  <2>1. /\ command = "none" /\ kills = 0 /\ mounts' = mounts /\ guest' = guest
    BY <1>3, <1>10 DEF Started, Begins0, Untouched
  <2>2. mounts = <<>> BY <2>1, <1>1 DEF Idle, Clean, Busy
  <2>3. MountsAt("win_main") = {}
    <3>1. DOMAIN mounts = 1 .. 0 BY <2>2, <1>1, NoMounts, LenProperties
    <3> QED BY <3>1 DEF MountsAt
  <2>4. Kept(mounts, mounts') BY <2>1, KeptSame
  <2> QED BY <2>3, <2>4, <1>1, KeptAt
<1>11. CASE Killed
  <2>1. kills \in Nat BY <1>1, PostImportAssumption DEF Types, TypeOK
  <2> QED BY <2>1, <1>3, <1>11 DEF Killed
<1>12. CASE Failed
  <2>1. Len(todo') = 0
    <3>1. Len(<<>>) = 0 BY EmptySeq
    <3> QED BY <3>1, <1>12 DEF Failed
  <2>2. ~Left(w)' BY <2>1 DEF Left, Within
  <2> QED BY <2>2
<1>13. CASE Unwound /\ Effect
  <2>1. Busy /\ guest' = guest /\ kills' = kills /\ todo' = todo BY <1>13 DEF Unwound
  <2>2. Left(w)' => Left(w) BY <2>1 DEF Left
  <2>3. Kept(mounts, mounts') BY <1>13, EffectIs
  <2> QED BY <2>1, <2>2, <2>3, <1>4
<1>14. CASE Responded
  <2>1. ~Busy' BY <1>14 DEF Responded, Busy
  <2> QED BY <2>1, <1>3
<1> QED BY <1>1, <1>6, <1>7, <1>8, <1>9, <1>10, <1>11, <1>12, <1>13, <1>14, NextKinds

\* What is written stays written, and only scripts write.
LEMMA WrittenGrows ==
    ASSUME Inv, Next
    PROVE  /\ written \subseteq written' /\ guest' = guest
           /\ written' = written \/ (QuietStep /\ Works)
<1>1. Types BY DEF Inv
<1>2. CASE QuietStep
  <2>1. ASSUME Works PROVE written \subseteq written'
    BY <2>1 DEF Works, RunScriptsInChroot, InjectDrivers, ReplaceBoot, WrittenAt
  <2>2. guest' = guest BY <1>2 DEF QuietStep, Took
  <2> QED BY <2>1, <2>2, <1>2 DEF QuietStep
<1>3. CASE Enter \/ CleanUp \/ ActivateVG \/ DoMount \/ SetUpClones
  <2>1. Took /\ Still BY <1>3, EnterIs, CleanUpIs, ActivateIs, MountNames, CloneIs
  <2> QED BY <2>1 DEF Took, Still
<1>4. CASE Started \/ Killed BY <1>4 DEF Started, Killed, Begins0
<1>5. CASE Failed BY <1>5 DEF Failed
<1>6. CASE Unwound /\ Effect BY <1>6 DEF Unwound
<1>7. CASE Responded BY <1>7 DEF Responded
<1> QED BY <1>1, <1>2, <1>3, <1>4, <1>5, <1>6, <1>7, NextKinds

Final == IF guest.os = "fortigate" THEN <<"replace">> ELSE <<"scripts">>

LEMMA PreparesFrom ==
    ASSUME guest' = guest,
           Going' /\ command' = "post" => (\A s : s = Final => Left(s)') \/ Prepared',
           command' = "done" => Prepared',
           Going' /\ command' = "post" /\ guest.os # "fortigate" /\ todo' # <<>> =>
               \A f \in FileSystem : \A s : Has(guest, f) /\ s = MountStep(guest.os, f) =>
                   Left(s)' \/ (mode' = "run" /\ Mounted(f)')
    PROVE  Prepares'
<1>1. (\A s : s = Final => Left(s)') =>
        Left(IF guest.os = "fortigate" THEN <<"replace">> ELSE <<"scripts">>)'
  BY DEF Final, Left, Within
<1>2. \A f \in FileSystem : Has(guest, f)' <=> Has(guest, f) BY DEF Has
<1>3. ASSUME NEW f \in FileSystem, \A s : s = MountStep(guest.os, f) => Left(s)'
      PROVE  Left(MountStep(guest.os, f))'
  <2> DEFINE x == MountStep(guest.os, f)
  <2>1. x' = x BY DEF MountStep
  <2>2. \A s : s = x => Left(s)' BY <1>3
  <2> HIDE DEF x
  <2>3. Left(x)' BY <2>1, <2>2 DEF Left
  <2> QED BY <2>3 DEF x
<1> QED BY <1>1, <1>2, <1>3 DEF Prepares

LEMMA PreparesGet ==
    ASSUME Inv
    PROVE  /\ Going /\ command = "post" => Left(Final) \/ Prepared
           /\ command = "done" => Prepared
           /\ Going /\ command = "post" /\ guest.os # "fortigate" /\ todo # <<>> =>
               \A f \in FileSystem : Has(guest, f) =>
                   Left(MountStep(guest.os, f)) \/ (mode = "run" /\ Mounted(f))
BY DEF Inv, Prepares, Final

LEMMA PreparedStays ==
    ASSUME Inv, Next, Prepared
    PROVE  Prepared'
<1>1. written \subseteq written' /\ guest' = guest BY WrittenGrows
<1> QED BY <1>1 DEF Prepared, Has

LEMMA StepMounts ==
    ASSUME NEW os, NEW f \in FileSystem
    PROVE  /\ MountStep(os, f)[1] = "mount" /\ MountStep(os, f)[3] = f
           /\ os = "linux" => MountStep(os, f)[2] \in {"target", "target/extra"}
           /\ os # "linux" => MountStep(os, f)[2] \in {"win_main", "win_recovery"}
<1>1. CASE f = "root" /\ os = "linux"
  <2>1. MountStep(os, f) = <<"mount", "target", "root">> BY <1>1 DEF MountStep
  <2> QED BY <2>1, <1>1
<1>2. CASE f = "extra" /\ os = "linux"
  <2>1. MountStep(os, f) = <<"mount", "target/extra", "extra">> BY <1>2 DEF MountStep
  <2> QED BY <2>1, <1>2
<1>3. CASE f = "root" /\ os # "linux"
  <2>1. MountStep(os, f) = <<"mount", "win_main", "root">> BY <1>3 DEF MountStep
  <2> QED BY <2>1, <1>3
<1>4. CASE f = "extra" /\ os # "linux"
  <2>1. MountStep(os, f) = <<"mount", "win_recovery", "extra">> BY <1>4 DEF MountStep
  <2> QED BY <2>1, <1>4
<1> QED BY <1>1, <1>2, <1>3, <1>4 DEF FileSystem

\* The scripts of the post-import tasks run on all that is mounted.
LEMMA ScriptsPrepare ==
    ASSUME Inv, Next, QuietStep, command = "post", Head(todo) = Final
    PROVE  Prepared'
<1>1. /\ Types /\ Control /\ ClonesReady /\ VGFits /\ Idle /\ Learns /\ guest \in GuestOS
      /\ mounts \in Seq(Placed) /\ guest.os \in {"linux", "windows", "fortigate"}
  BY DEF Inv, Types, GuestOS
<1>2. /\ Took /\ mode = "run" /\ todo # <<>> /\ todo' = Tail(todo) /\ guest' = guest
  BY DEF QuietStep, Took
<1>3. /\ Going /\ Program(todo, guest, command)
      /\ \A s : Left(s) => Head(todo) = s \/ Left(s)'
  BY <1>1, <1>2, TookFacts
<1>4. CASE guest.os = "fortigate"
  <2>1. Head(todo) = <<"replace">> BY <1>4 DEF Final
  <2>2. ReplaceBoot
    <3>1. Works BY <2>1 DEF QuietStep
    <3>2. Head(todo) # <<"scripts">>
      <4>1. Head(todo)[1] = "replace" BY <2>1
      <4> QED BY <4>1
    <3> QED BY <3>1, <3>2 DEF Works, RunScriptsInChroot, InjectDrivers, Step
  <2>3. DeviceOf("root") = "disk" BY <2>1, <1>1, <1>2, RootDevice
  <2>4. <<"post", "root", "disk">> \in written' BY <2>2, <2>3 DEF ReplaceBoot
  <2> QED BY <2>4, <1>2, <1>4 DEF Prepared
<1>5. CASE guest.os # "fortigate"
  <2>1. Head(todo) = <<"scripts">> BY <1>5 DEF Final
  <2>2. todo' = <<>> BY <2>1, <1>1, <1>2, <1>3, NextStep
  <2>3. \A s : ~Left(s)'
    <3>1. Len(todo') = 0
      <4>1. Len(<<>>) = 0 BY EmptySeq
      <4> QED BY <4>1, <2>2
    <3>2. \A n \in 1 .. 0 : FALSE OBVIOUS
    <3> QED BY <3>1, <3>2 DEF Left, Within
  <2>4. ASSUME NEW f \in FileSystem, Has(guest, f)
        PROVE  Mounted(f)
    <3>1. Head(todo) # MountStep(guest.os, f)
      <4>1. Head(todo)[1] = "scripts" BY <2>1
      <4> QED BY <4>1, StepMounts
    <3>2. ~Left(MountStep(guest.os, f)) BY <3>1, <2>3, <1>3
    <3> QED BY <3>2, <2>4, <1>2, <1>3, <1>5, PreparesGet
  <2>5. CASE RunScriptsInChroot
    <3>1. guest.os = "linux" /\ WrittenAt({"target", "target/extra"})
      BY <2>5 DEF RunScriptsInChroot
    <3>2. ASSUME NEW f \in FileSystem, Has(guest, f)
          PROVE  <<"post", f, "disk">> \in written'
      <4>1. PICK n \in 1 .. Len(mounts) :
              mounts[n] = [at |-> MountStep(guest.os, f)[2], fs |-> f, on |-> "disk"]
        BY <2>4, <3>2 DEF Mounted
      <4>2. /\ mounts[n].at \in {"target", "target/extra"} /\ mounts[n].fs = f
            /\ mounts[n].on = "disk"
        BY <4>1, <3>1, StepMounts
      <4>3. n \in DOMAIN mounts BY <1>1, LenProperties
      <4>4. <<command, mounts[n].fs, mounts[n].on>> \in written'
        BY <4>2, <4>3, <3>1 DEF WrittenAt
      <4> QED BY <4>2, <4>4
    <3> QED BY <3>2, <1>2 DEF Prepared, Has
  <2>6. CASE InjectDrivers
    <3>1. guest.os = "windows" /\ WrittenAt({"win_main", "win_recovery"})
      BY <2>6 DEF InjectDrivers
    <3>2. ASSUME NEW f \in FileSystem, Has(guest, f)
          PROVE  <<"post", f, "disk">> \in written'
      <4>1. PICK n \in 1 .. Len(mounts) :
              mounts[n] = [at |-> MountStep(guest.os, f)[2], fs |-> f, on |-> "disk"]
        BY <2>4, <3>2 DEF Mounted
      <4>2. /\ mounts[n].at \in {"win_main", "win_recovery"} /\ mounts[n].fs = f
            /\ mounts[n].on = "disk"
        BY <4>1, <3>1, StepMounts
      <4>3. n \in DOMAIN mounts BY <1>1, LenProperties
      <4>4. <<command, mounts[n].fs, mounts[n].on>> \in written'
        BY <4>2, <4>3, <3>1 DEF WrittenAt
      <4> QED BY <4>2, <4>4
    <3> QED BY <3>2, <1>2 DEF Prepared, Has
  <2>7. RunScriptsInChroot \/ InjectDrivers
    <3>1. Works BY <2>1 DEF QuietStep
    <3>2. ~ReplaceBoot
      <4>1. Head(todo)[1] = "scripts" BY <2>1
      <4> QED BY <4>1 DEF ReplaceBoot, Step
    <3> QED BY <3>1, <3>2 DEF Works
  <2> QED BY <2>5, <2>6, <2>7
<1> QED BY <1>4, <1>5

\* The post-import tasks mount the disks.
LEMMA MountsDisk ==
    ASSUME Types, Idle, command = "post", NEW f \in FileSystem, MountExists("target", f)
    PROVE  DeviceOf(f) = "disk"
<1>1. clones = {} /\ vg # "clone" /\ rootAt = "disk" BY DEF Idle
<1>2. f # "none" BY DEF FileSystem
<1> QED BY <1>1, <1>2 DEF MountExists, DeviceOf, Side

LEMMA MountedAppend ==
    ASSUME Types, NEW m \in Placed, mounts' = Append(mounts, m), guest' = guest
    PROVE  /\ \A f \in FileSystem : Mounted(f) => Mounted(f)'
           /\ \A f \in FileSystem :
                m = [at |-> MountStep(guest.os, f)[2], fs |-> f, on |-> "disk"] => Mounted(f)'
<1>1. mounts \in Seq(Placed) BY DEF Types
<1>2. PICK l \in Nat : l = Len(mounts) BY <1>1, LenProperties
<1>3. Len(mounts') = l + 1 /\ mounts'[l + 1] = m /\ \A n \in 1 .. l : mounts'[n] = mounts[n]
  BY <1>1, <1>2, AppendProperties
<1>4. ASSUME NEW f \in FileSystem, Mounted(f) PROVE Mounted(f)'
  <2>1. PICK n \in 1 .. l :
          mounts[n] = [at |-> MountStep(guest.os, f)[2], fs |-> f, on |-> "disk"]
    BY <1>2, <1>4 DEF Mounted
  <2>2. n \in 1 .. l + 1 /\ mounts'[n] = mounts[n] BY <1>3
  <2>3. \E k \in 1 .. Len(mounts') :
          mounts'[k] = [at |-> MountStep(guest.os, f)[2], fs |-> f, on |-> "disk"]
    BY <2>1, <2>2, <1>3
  <2> QED BY <2>3 DEF Mounted, MountStep
<1>5. ASSUME NEW f \in FileSystem,
             m = [at |-> MountStep(guest.os, f)[2], fs |-> f, on |-> "disk"]
      PROVE  Mounted(f)'
  <2>1. l + 1 \in 1 .. l + 1 OBVIOUS
  <2>2. \E k \in 1 .. Len(mounts') :
          mounts'[k] = [at |-> MountStep(guest.os, f)[2], fs |-> f, on |-> "disk"]
    BY <2>1, <1>3, <1>5
  <2> QED BY <2>2 DEF Mounted, MountStep
<1> QED BY <1>4, <1>5

LEMMA MountedSame ==
    ASSUME mounts' = mounts, guest' = guest, NEW f \in FileSystem, Mounted(f)
    PROVE  Mounted(f)'
BY DEF Mounted, MountStep

\* What is still to be mounted, or mounted already, stays so.
LEMMA MountsStay ==
    ASSUME Inv, Next, Took, command = "post", guest.os # "fortigate",
           QuietStep \/ Enter \/ CleanUp \/ ActivateVG \/ DoMount \/ SetUpClones,
           NEW f \in FileSystem, Has(guest, f), NEW s, s = MountStep(guest.os, f)
    PROVE  Left(s)' \/ (mode' = "run" /\ Mounted(f)')
<1>1. /\ Types /\ Control /\ Idle /\ guest \in GuestOS BY DEF Inv, Types
<1>2. /\ Going /\ mode = "run" /\ todo # <<>> /\ todo' = Tail(todo) /\ guest' = guest
      /\ Program(todo, guest, command) /\ Head(todo) \in Fits(guest, command)
      /\ \A x : Left(x) => Head(todo) = x \/ Left(x)'
  BY <1>1, TookFacts DEF Took
<1>3. Left(s) \/ Mounted(f) BY <1>2, PreparesGet
<1>4. s[1] = "mount" /\ s[3] = f BY StepMounts
<1>5. ASSUME Head(todo)[1] # "mount", mode' = "run", mounts' = mounts
      PROVE  Left(s)' \/ (mode' = "run" /\ Mounted(f)')
  <2>1. Head(todo) # s BY <1>4, <1>5
  <2> QED BY <2>1, <1>2, <1>3, <1>5, MountedSame
<1>6. ASSUME Head(todo) \in {<<"leave">>, <<"clean">>} PROVE Left(s)'
  <2>1. Within(Tail(todo), MountStep(guest.os, f)) BY <1>1, <1>2, <1>6, CleanStep
  <2> QED BY <2>1, <1>2 DEF Left
<1>7. CASE QuietStep
  <2>1. /\ mounts' = mounts /\ Head(todo) \in QuietSteps
        /\ mode' = IF Head(todo) = <<"leave">> THEN "leave" ELSE "run"
    BY <1>7 DEF QuietStep, Untouched
  <2>2. \A x \in QuietSteps : x[1] # "mount" BY DEF QuietSteps
  <2> QED BY <2>1, <2>2, <1>5, <1>6
<1>8. CASE Enter \/ ActivateVG
  <2>1. mode' = "run" /\ mounts' = mounts /\ (Head(todo) = <<"enter">> \/ Head(todo) = <<"activate">>)
    BY <1>8, EnterIs, ActivateIs DEF Still, Untouched
  <2>2. Head(todo)[1] # "mount" BY <2>1
  <2> QED BY <2>1, <2>2, <1>5
<1>9. CASE CleanUp
  <2>1. Head(todo) = <<"clean">> BY <1>9, CleanUpIs
  <2>2. Head(todo) \in {<<"leave">>, <<"clean">>} BY <2>1
  <2> QED BY <2>2, <1>6
<1>10. CASE SetUpClones
  <2>1. Head(todo) = <<"clone">> BY <1>10, CloneIs
  <2> QED BY <2>1, <1>2 DEF Fits
<1>11. CASE DoMount
  <2>1. PICK p \in Path, g \in FileSystem \cup {"none"} :
          /\ Still /\ Head(todo) = <<"mount", p, g>> /\ MountExists(p, g)
          /\ mounts' = Append(mounts, [at |-> p, fs |-> g, on |-> DeviceOf(g)])
          /\ [at |-> p, fs |-> g, on |-> DeviceOf(g)] \in Placed
    BY <1>1, <1>11, MountTyped
  <2> DEFINE m == [at |-> p, fs |-> g, on |-> DeviceOf(g)]
  <2>2. m \in Placed /\ mounts' = Append(mounts, m) /\ mode' = "run" BY <2>1 DEF Still
  <2>3. CASE Head(todo) = s
    <3>1. g = f
      <4>1. Head(todo)[3] = g BY <2>1
      <4> QED BY <4>1, <2>3, <1>4
    <3>2. p = MountStep(guest.os, f)[2]
      <4>1. Head(todo)[2] = p BY <2>1
      <4> QED BY <4>1, <2>3
    <3>3. DeviceOf(f) = "disk"
      <4>1. MountExists("target", f) BY <2>1, <3>1 DEF MountExists
      <4> QED BY <4>1, <1>1, MountsDisk
    <3>4. m = [at |-> MountStep(guest.os, f)[2], fs |-> f, on |-> "disk"] BY <3>1, <3>2, <3>3
    <3> HIDE DEF m
    <3> QED BY <3>4, <2>2, <1>1, <1>2, MountedAppend
  <2>4. CASE Head(todo) # s
    <3> HIDE DEF m
    <3>1. Mounted(f) => Mounted(f)' BY <2>2, <1>1, <1>2, MountedAppend
    <3> QED BY <3>1, <2>2, <2>4, <1>2, <1>3
  <2> QED BY <2>3, <2>4
<1> QED BY <1>7, <1>8, <1>9, <1>10, <1>11

LEMMA PreparesStep ==
    ASSUME Inv, Next
    PROVE  Prepares'
<1>1. /\ Types /\ Control /\ Idle /\ guest \in GuestOS /\ guest' = guest
  BY WrittenGrows DEF Inv, Types
<1>2. CASE QuietStep \/ Enter \/ CleanUp \/ ActivateVG \/ DoMount \/ SetUpClones
  <2>1. Took BY <1>2, HeadKinds
  <2>2. /\ Going /\ mode = "run" /\ todo # <<>> /\ command' = command /\ Busy
        /\ \A x : Left(x) => Head(todo) = x \/ Left(x)'
    BY <2>1, <1>1, TookFacts DEF Took
  <2>3. command' # "done" BY <2>2 DEF Busy
  <2>4. SUFFICES ASSUME command = "post"
                 PROVE  /\ Left(Final) /\ ~Prepared' => \A s : s = Final => Left(s)'
                        /\ guest.os # "fortigate" =>
                             \A f \in FileSystem : \A s : Has(guest, f) /\ s = MountStep(guest.os, f) =>
                               Left(s)' \/ (mode' = "run" /\ Mounted(f)')
    BY <2>2, <2>3, <1>1, PreparesGet, PreparedStays, PreparesFrom
  <2>5. Head(todo) = Final => Prepared'
    <3>1. SUFFICES ASSUME Head(todo) = Final PROVE Prepared' OBVIOUS
    <3>2. QuietStep
      <4>1. Head(todo)[1] = "scripts" \/ Head(todo)[1] = "replace" BY <3>1 DEF Final
      <4> QED BY <4>1, <1>2, HeadKinds
    <3> QED BY <3>1, <3>2, <2>4, ScriptsPrepare
  <2> QED BY <2>1, <2>2, <2>4, <2>5, <1>2, MountsStay
<1>3. ASSUME Begins0 PROVE Prepares'
  <2>1. /\ Program(todo', guest', command') /\ todo' # <<>>
        /\ guest.os # "fortigate" => Head(todo') = <<"clean">>
        /\ Left(IF guest.os = "fortigate" THEN <<"replace">> ELSE <<"scripts">>)'
    BY <1>1, <1>3, BeginsIs
  <2>2. \A s : s = Final => Left(s)' BY <2>1, <1>1 DEF Final, Left, Within
  <2>3. ASSUME guest.os # "fortigate", NEW f \in FileSystem, Has(guest, f),
               NEW s, s = MountStep(guest.os, f)
        PROVE  Left(s)'
    <3> DEFINE t == todo'
               c == command'
    <3>1. /\ Program(t, guest, c) /\ t # <<>> /\ Head(t) = <<"clean">>
      BY <2>1, <2>3, <1>1
    <3> HIDE DEF t, c
    <3>2. Head(t) \in {<<"leave">>, <<"clean">>} BY <3>1
    <3>3. Within(Tail(t), s) BY <3>1, <3>2, <2>3, <1>1, CleanStep
    <3>4. t \in Seq(StepsOf(guest.os)) BY <3>1 DEF Program
    <3>5. Within(t, s) BY <3>1, <3>3, <3>4, WithinTail
    <3> QED BY <3>5 DEF Left, t
  <2>4. command' # "done" BY <1>3 DEF Begins0
  <2> QED BY <2>2, <2>3, <2>4, <1>1, PreparesFrom
<1>4. CASE Started \/ Killed BY <1>3, <1>4 DEF Started, Killed
<1>5. CASE Failed
  <2>1. ~Going' /\ command' = command /\ mode = "run" /\ todo # <<>>
    BY <1>5, NothingGoes DEF Failed
  <2>2. command' # "done" BY <2>1, <1>1 DEF Control, Busy
  <2> QED BY <2>1, <2>2, <1>1, PreparesFrom
<1>6. CASE Unwound /\ Effect
  <2>1. command' # "done" /\ todo' = todo /\ command' = command BY <1>6 DEF Unwound, Busy
  <2>2. \A s : Left(s)' <=> Left(s) BY <2>1 DEF Left
  <2>3. SUFFICES ASSUME Going', command' = "post"
                 PROVE  /\ (\A s : s = Final => Left(s)') \/ Prepared'
                        /\ guest.os # "fortigate" /\ todo' # <<>> =>
                             \A f \in FileSystem : \A s : Has(guest, f) /\ s = MountStep(guest.os, f) =>
                               Left(s)'
    BY <2>1, <1>1, PreparesFrom
  <2>4. Going /\ (mode = "leave" \/ todo = <<>>) BY <2>3, <1>6, GoesOn
  <2>5. Left(Final) \/ Prepared BY <2>1, <2>3, <2>4, PreparesGet
  <2>6. (\A s : s = Final => Left(s)') \/ Prepared' BY <2>2, <2>5, PreparedStays
  <2>7. ASSUME guest.os # "fortigate", todo' # <<>>, NEW f \in FileSystem, Has(guest, f)
        PROVE  Left(MountStep(guest.os, f))
    BY <2>1, <2>3, <2>4, <2>7, PreparesGet
  <2> QED BY <2>2, <2>6, <2>7
<1>7. CASE Responded
  <2>1. ~Going' BY <1>7, NothingGoes
  <2>2. command' = "done" => Prepared'
    <3>1. SUFFICES ASSUME command' = "done" PROVE Prepared' OBVIOUS
    <3>2. command = "post" /\ mode # "fail" /\ Busy /\ todo = <<>>
      BY <3>1, <1>7 DEF Responded, Busy
    <3>3. ~Left(Final) BY <3>2, NothingLeft
    <3>4. Prepared BY <3>2, <3>3, PreparesGet DEF Going
    <3> QED BY <3>4, PreparedStays
  <2> QED BY <2>1, <2>2, <1>1, PreparesFrom
<1> QED BY <1>1, <1>2, <1>4, <1>5, <1>6, <1>7, NextKinds

-----------------------------------------------------------------------------
(* The volume group *)

LEMMA VGFitsFrom ==
    ASSUME guest' = guest, NEW f \in Flag, NEW j \in Flag, Flagged(todo', f, j),
           f # "off" => vg' # "off",
           f = "entered" => deferred' # <<>> /\ deferred'[1] = <<"mark">>,
           f = "mounted" => Len(deferred') > 1 /\ deferred'[1][1] = "unmount"
                              /\ deferred'[2] = <<"mark">>,
           mode' = "leave" => f \in {"off", "on"},
           mode' = "leave" /\ f = "on" =>
               \/ deferred' # <<>> /\ deferred'[1] = <<"mark">>
               \/ /\ Len(deferred') > 1 /\ deferred'[1][1] = "unmount"
                  /\ deferred'[2] = <<"mark">>
    PROVE  VGFits'
<1>1. Flagged(todo', f, j) <=> Flagged(todo, f, j)' BY DEF Flagged, Flags, Turns
<1>2. Knows(f)' BY DEF Knows
<1> QED BY <1>1, <1>2 DEF VGFits

\* What a step does to what is known of the volume group.
LEMMA VGFitsTook ==
    ASSUME Inv, QuietStep \/ Enter \/ CleanUp \/ ActivateVG \/ DoMount \/ SetUpClones
    PROVE  VGFits'
<1>1. /\ Types /\ Control /\ PlanFits /\ guest \in GuestOS /\ deferred \in Seq(Call)
  BY DEF Inv, Types
<1>2. /\ Took /\ Going /\ Busy /\ mode = "run" /\ todo # <<>> /\ todo' = Tail(todo)
      /\ guest' = guest /\ todo \in Seq(Fits(guest, command))
  BY <1>1, HeadKinds, TookFacts DEF Took
<1>3. SUFFICES ASSUME guest.root = "lvm" PROVE VGFits'
  BY <1>2 DEF VGFits
<1>4. PICK f \in Flag, j \in Flag : Flagged(todo, f, j) /\ Knows(f)
  BY <1>2, <1>3 DEF Inv, VGFits
<1>5. PICK i \in Flag : Turns(Head(todo), f, i) /\ Flagged(todo', i, j)
  BY <1>2, <1>4, FlaggedTail
<1> DEFINE s == Head(todo)
<1>6. \/ i = "off"
      \/ s = <<"enter">> /\ f = "on" /\ i = "entered"
      \/ s[1] = "mount" /\ f = "entered" /\ i = "mounted"
      \/ s = <<"leave">> /\ f = "mounted" /\ i = "on"
      \/ s \in Starts /\ i = "on"
      \/ s \notin Frame /\ f = "on" /\ i = "on"
  BY <1>5 DEF Turns
<1>7. /\ f # "off" => vg # "off"
      /\ f = "entered" => deferred # <<>> /\ deferred[1] = <<"mark">>
      /\ f = "mounted" => Len(deferred) > 1 /\ deferred[1][1] = "unmount"
                            /\ deferred[2] = <<"mark">>
  BY <1>4 DEF Knows
<1> HIDE DEF s
<1>8. ASSUME i \in {"off", "on"}, mode' = "run", i = "on" => vg' # "off" PROVE VGFits'
  BY <1>2, <1>5, <1>8, VGFitsFrom
<1>9. CASE QuietStep
  <2>1. /\ vg' = vg /\ deferred' = deferred /\ s \in QuietSteps
        /\ mode' = IF s = <<"leave">> THEN "leave" ELSE "run"
    BY <1>9 DEF QuietStep, Untouched, s
  <2>2. \A x \in QuietSteps : x[1] # "enter" /\ x[1] # "mount" /\ x[1] # "activate" /\ x[1] # "clone"
    BY DEF QuietSteps
  <2>3. s[1] # "enter" /\ s[1] # "mount" /\ s[1] # "activate" /\ s[1] # "clone" BY <2>1, <2>2
  <2>4. s # <<"enter">> /\ s \notin Starts BY <2>3 DEF Starts
  <2>5. \/ i = "off"
        \/ s = <<"leave">> /\ f = "mounted" /\ i = "on"
        \/ s # <<"leave">> /\ f = "on" /\ i = "on"
    BY <1>6, <2>3, <2>4 DEF Frame
  <2>6. i = "on" => vg' # "off" BY <2>1, <2>5, <1>7
  <2>7. CASE s = <<"leave">>
    <3>1. mode' = "leave" /\ (i = "on" => f = "mounted") /\ i \in {"off", "on"}
      BY <2>1, <2>5, <2>7
    <3> QED BY <3>1, <2>1, <2>6, <1>2, <1>5, <1>7, VGFitsFrom
  <2>8. CASE s # <<"leave">>
    <3>1. mode' = "run" /\ i \in {"off", "on"} BY <2>1, <2>5, <2>8
    <3> QED BY <3>1, <2>6, <1>8
  <2> QED BY <2>7, <2>8
<1>10. CASE Enter
  <2>1. s = <<"enter">> /\ vg' = vg /\ mode' = "run" /\ deferred' = <<<<"mark">>>> \o deferred
    BY <1>10, EnterIs DEF Untouched, Still, s
  <2>2. s[1] # "mount" /\ s # <<"leave">> /\ s \notin Starts /\ s \in Frame
    <3>1. s[1] = "enter" /\ s \in Frame BY <2>1 DEF Frame
    <3> QED BY <3>1 DEF Starts
  <2>3. i = "off" \/ (f = "on" /\ i = "entered") BY <1>6, <2>2
  <2>4. deferred' # <<>> /\ deferred'[1] = <<"mark">> BY <2>1, <1>1, Push, Calls
  <2> QED BY <2>1, <2>3, <2>4, <1>2, <1>5, <1>7, VGFitsFrom
<1>11. CASE CleanUp
  <2>1. s = <<"clean">> /\ mode' = "run" BY <1>11, CleanUpIs DEF Still, s
  <2>2. s[1] # "mount" /\ s # <<"leave">> /\ s # <<"enter">> /\ s \notin Starts /\ s \in Frame
    <3>1. s[1] = "clean" /\ s \in Frame BY <2>1 DEF Frame
    <3> QED BY <3>1 DEF Starts
  <2> QED BY <2>1, <2>2, <1>6, <1>8
<1>12. CASE ActivateVG
  <2>1. /\ s = <<"activate">> /\ mode' = "run" /\ vg' = (IF vg = "off" THEN "disk" ELSE vg)
    BY <1>12, ActivateIs DEF Still, s
  <2>2. s[1] # "mount" /\ s # <<"leave">> /\ s # <<"enter">>
    <3>1. s[1] = "activate" BY <2>1
    <3> QED BY <3>1
  <2> QED BY <2>1, <2>2, <1>6, <1>8
<1>13. CASE SetUpClones
  <2>1. /\ s = <<"clone">> /\ mode' = "run"
        /\ vg' = IF InVG(guest) \cap plan = {} THEN "off" ELSE "clone"
    BY <1>13, CloneIs DEF Still, s
  <2>2. s[1] # "mount" /\ s # <<"leave">> /\ s # <<"enter">>
    <3>1. s[1] = "clone" BY <2>1
    <3> QED BY <3>1
  <2>3. "root" \in InVG(guest) \cap plan BY <1>1, <1>2, <1>3 DEF PlanFits, InVG, FileSystem
  <2> QED BY <2>1, <2>2, <2>3, <1>6, <1>8
<1>14. CASE DoMount
  <2>1. PICK p \in Path : s[1] = "mount" /\ vg' = vg /\ mode' = "run"
                            /\ deferred' = <<<<"unmount", p>>>> \o deferred
    <3>1. PICK p \in Path, g \in FileSystem \cup {"none"} :
            /\ Took /\ Still /\ Head(todo) = <<"mount", p, g>> /\ MountExists(p, g)
            /\ mounts' = Append(mounts, [at |-> p, fs |-> g, on |-> DeviceOf(g)])
            /\ vg' = vg /\ clones' = clones
            /\ deferred' = <<<<"unmount", p>>>> \o deferred
            /\ [at |-> p, fs |-> g, on |-> DeviceOf(g)] \in Placed
      BY <1>1, <1>14, MountTyped
    <3>2. Head(todo)[1] = "mount" BY <3>1
    <3> QED BY <3>1, <3>2 DEF Still, s
  <2>2. s # <<"enter">> /\ s # <<"leave">> /\ s \notin Starts BY <2>1 DEF Starts
  <2>3. \/ i = "off"
        \/ f = "entered" /\ i = "mounted"
        \/ f = "on" /\ i = "on"
    BY <1>6, <2>2
  <2>4. f = "entered" =>
          Len(deferred') > 1 /\ deferred'[1][1] = "unmount" /\ deferred'[2] = <<"mark">>
    <3>1. SUFFICES ASSUME f = "entered"
                   PROVE  /\ Len(deferred') > 1 /\ deferred'[1][1] = "unmount"
                          /\ deferred'[2] = <<"mark">>
      OBVIOUS
    <3>2. deferred # <<>> /\ deferred[1] = <<"mark">> BY <3>1, <1>7
    <3>3. PICK l \in Nat : l = Len(deferred) /\ l > 0 BY <3>2, <1>1, Shorter
    <3> DEFINE x == <<"unmount", p>>
    <3>4. x \in Call /\ x[1] = "unmount" BY Calls
    <3>5. deferred' = <<x>> \o deferred BY <2>1
    <3> HIDE DEF x
    <3>6. /\ Len(deferred') = l + 1 /\ deferred'[1] = x
          /\ \A n \in 1 .. l : deferred'[n + 1] = deferred[n]
      BY <3>3, <3>4, <3>5, <1>1, Push
    <3>7. 1 \in 1 .. l /\ 1 + 1 = 2 BY <3>3
    <3>8. deferred'[2] = deferred[1] BY <3>6, <3>7
    <3> QED BY <3>2, <3>3, <3>4, <3>6, <3>8
  <2> QED BY <2>1, <2>3, <2>4, <1>2, <1>5, <1>7, VGFitsFrom
<1> QED BY <1>9, <1>10, <1>11, <1>12, <1>13, <1>14

LEMMA VGFitsUnwound ==
    ASSUME Inv, Unwound, Effect
    PROVE  VGFits'
<1>1. /\ Types /\ Control /\ guest \in GuestOS /\ deferred \in Seq(Call) BY DEF Inv, Types
<1>2. SUFFICES ASSUME Going', guest.root = "lvm" PROVE VGFits'
  BY DEF VGFits, Unwound
<1>3. /\ Going /\ todo' = todo /\ guest' = guest
      /\ mode = "leave" \/ todo = <<>>
      /\ deferred # <<>> /\ deferred' = Tail(deferred)
      /\ mode' = IF mode = "leave" /\ Head(deferred) = <<"mark">> THEN "run" ELSE mode
  BY <1>2, GoesOn
<1>4. CASE mode # "leave"
  <2>1. todo' = <<>> /\ mode' # "leave" BY <1>3, <1>4
  <2>2. Flagged(todo', "off", "off") BY <2>1, FlagsNone DEF Flag
  <2> QED BY <2>1, <2>2, <1>3, VGFitsFrom DEF Flag
<1>5. CASE mode = "leave"
  <2>1. PICK f \in Flag, j \in Flag : Flagged(todo, f, j) /\ Knows(f)
    BY <1>2, <1>3 DEF Inv, VGFits
  <2>2. /\ f \in {"off", "on"} /\ (f # "off" => vg # "off")
        /\ f = "on" => \/ deferred # <<>> /\ deferred[1] = <<"mark">>
                       \/ /\ Len(deferred) > 1 /\ deferred[1][1] = "unmount"
                          /\ deferred[2] = <<"mark">>
    BY <2>1, <1>5 DEF Knows
  <2>3. PICK l \in Nat : l = Len(deferred) /\ l > 0 /\ Head(deferred) = deferred[1]
    BY <1>1, <1>3, Shorter
  <2>4. CASE f = "off" BY <2>1, <2>4, <1>3, VGFitsFrom
  <2>5. CASE f = "on" /\ deferred[1] = <<"mark">>
    <3>1. Head(deferred)[1] = "mark" BY <2>3, <2>5
    <3>2. mode' = "run" BY <1>3, <1>5, <2>3, <2>5
    <3>3. vg' = vg
      <4>1. /\ Head(deferred) # <<"clean">> /\ Head(deferred) # <<"deactivate">>
            /\ \A p \in Path : Head(deferred) # <<"unmount", p>>
        BY <3>1
      <4> QED BY <4>1 DEF Effect, Untouched
    <3> QED BY <3>2, <3>3, <2>1, <2>2, <2>5, <1>3, VGFitsFrom
  <2>6. CASE f = "on" /\ Len(deferred) > 1 /\ deferred[1][1] = "unmount" /\ deferred[2] = <<"mark">>
    <3>1. Head(deferred)[1] = "unmount" BY <2>3, <2>6
    <3>2. vg' = vg
      <4>1. /\ Head(deferred) # <<"clean">> /\ Head(deferred) # <<"deactivate">>
        BY <3>1
      <4> QED BY <4>1 DEF Effect, Untouched
    <3>3. deferred' # <<>> /\ deferred'[1] = <<"mark">>
      <4>1. /\ Tail(deferred) \in Seq(Call) /\ Len(Tail(deferred)) = l - 1
            /\ \A n \in 1 .. l - 1 : Tail(deferred)[n] = deferred[n + 1]
        BY <2>3, <1>1, <1>3, Shorter
      <4>2. 1 \in 1 .. l - 1 /\ 1 + 1 = 2 BY <2>3, <2>6
      <4>3. Tail(deferred)[1] = deferred[2] BY <4>1, <4>2
      <4>4. Tail(deferred) # <<>>
        <5>1. l - 1 # 0 BY <4>2
        <5> QED BY <5>1, <4>1, NoMounts
      <4> QED BY <4>3, <4>4, <2>6, <1>3
    <3> QED BY <3>2, <3>3, <2>1, <2>2, <2>6, <1>3, VGFitsFrom
  <2> QED BY <2>2, <2>4, <2>5, <2>6
<1> QED BY <1>4, <1>5

LEMMA VGFitsStep ==
    ASSUME Inv, Next
    PROVE  VGFits'
<1>1. /\ Types /\ Control BY DEF Inv
<1>2. ASSUME Begins0 PROVE VGFits'
  <2>1. guest' = guest /\ mode' = "run" BY <1>2 DEF Begins0
  <2>2. guest.root = "lvm" => \E j \in Flag : Flagged(todo', "off", j) BY <1>1, <1>2, BeginsIs
  <2>3. CASE guest.root = "lvm"
    <3>1. PICK j \in Flag : Flagged(todo', "off", j) BY <2>2, <2>3
    <3> QED BY <3>1, <2>1, VGFitsFrom DEF Flag
  <2>4. CASE guest.root # "lvm" BY <2>1, <2>4 DEF VGFits
  <2> QED BY <2>3, <2>4
<1>3. CASE Started \/ Killed BY <1>2, <1>3 DEF Started, Killed
<1>4. CASE Failed \/ Responded
  <2>1. ~Going' BY <1>4, NothingGoes
  <2> QED BY <2>1 DEF VGFits
<1> QED BY <1>1, <1>3, <1>4, VGFitsTook, VGFitsUnwound, NextKinds

\* An activation finds no clones, but for those that the cleanup takes away before.
LEMMA ActivateFitsStep ==
    ASSUME Inv, Next
    PROVE  ActivateFits'
<1> DEFINE a == <<"activate">>
<1>1. /\ Types /\ Control /\ Idle /\ Shape /\ ActivateFits /\ guest \in GuestOS
      /\ guest.os \in {"linux", "windows", "fortigate"} /\ kills \in Nat
  BY PostImportAssumption DEF Inv, Types, TypeOK, GuestOS
<1>2. Going /\ Tidy /\ Left(a) => clones = {} \/ (guest.os = "linux" /\ Head(todo) = <<"clean">>)
  BY <1>1 DEF ActivateFits
<1>3. SUFFICES ASSUME Going', Tidy', Left(a)'
               PROVE  clones' = {} \/ (guest'.os = "linux" /\ Head(todo') = <<"clean">>)
  BY DEF ActivateFits
<1>4. ASSUME Took
      PROVE  /\ clones = {} \/ (guest.os = "linux" /\ Head(todo) = <<"clean">>)
             /\ Program(todo, guest, command) /\ todo # <<>> /\ todo' = Tail(todo)
  <2>1. /\ Going /\ Left(a) /\ guest' = guest /\ kills' = kills
        /\ Program(todo, guest, command) /\ todo # <<>> /\ todo' = Tail(todo)
    BY <1>1, <1>3, <1>4, TookFacts DEF Took
  <2>2. Tidy BY <2>1, <1>3 DEF Tidy
  <2> QED BY <2>1, <2>2, <1>2
<1>5. ASSUME Took, clones' = clones, Head(todo)[1] # "clean" PROVE clones' = {}
  <2>1. Head(todo) # <<"clean">> BY <1>5
  <2> QED BY <2>1, <1>4, <1>5
<1>6. CASE QuietStep
  <2>1. Took /\ clones' = clones /\ Head(todo) \in QuietSteps BY <1>6 DEF QuietStep, Untouched
  <2>2. \A x \in QuietSteps : x[1] # "clean" BY DEF QuietSteps
  <2> QED BY <2>1, <2>2, <1>5
<1>7. CASE Enter \/ ActivateVG
  <2>1. /\ Took /\ clones' = clones
        /\ Head(todo) = <<"enter">> \/ Head(todo) = <<"activate">>
    BY <1>7, EnterIs, ActivateIs DEF Untouched
  <2>2. Head(todo)[1] # "clean" BY <2>1
  <2> QED BY <2>1, <2>2, <1>5
<1>8. CASE DoMount
  <2>1. Took /\ clones' = clones /\ Head(todo)[1] = "mount" BY <1>8, MountNames
  <2> QED BY <2>1, <1>5
<1>9. CASE CleanUp
  <2>1. Took /\ CleanupClones BY <1>9, CleanUpIs
  <2>2. /\ clones' \in {clones, {}}
        /\ guest.os = "linux" /\ Shaped(mounts) => clones' = {}
    BY <2>1, <1>1, CleanupIs
  <2> QED BY <2>1, <2>2, <1>1, <1>4 DEF Shape
<1>10. CASE SetUpClones
  <2>1. Took /\ Head(todo) = <<"clone">> BY <1>10, CloneIs
  <2>2. \A n \in 1 .. Len(todo') : todo'[n] \in WorkOf(guest.os)
    BY <2>1, <1>1, <1>4, CloneStep
  <2>3. a \notin WorkOf(guest.os) BY <1>1, Apart
  <2> HIDE DEF a
  <2>4. ~Left(a)' BY <2>2, <2>3 DEF Left, Within
  <2> QED BY <2>4, <1>3
<1>11. CASE Started
  <2>1. command = "none" /\ clones' = clones BY <1>11 DEF Started, Untouched
  <2> QED BY <2>1, <1>1 DEF Idle
<1>12. CASE Killed
  <2>1. Begins0 /\ guest' = guest /\ kills' = kills + 1 BY <1>12 DEF Killed, Begins0
  <2>2. guest.os = "linux" BY <2>1, <1>1, <1>3 DEF Tidy
  <2>3. guest.os # "fortigate" => Head(todo') = <<"clean">> BY <2>1, <1>1, BeginsIs
  <2> QED BY <2>1, <2>2, <2>3
<1>13. CASE Failed \/ Responded BY <1>3, <1>13, NothingGoes
<1>14. CASE Unwound /\ Effect
  <2>1. Going /\ todo' = todo /\ guest' = guest /\ kills' = kills BY <1>3, <1>14, GoesOn
  <2>2. Left(a) BY <2>1, <1>3 DEF Left
  <2>3. Tidy BY <2>1, <1>3 DEF Tidy
  <2>4. clones' \in {clones, {}} BY <1>14, EffectIs
  <2> QED BY <2>1, <2>2, <2>3, <2>4, <1>2
<1> QED BY <1>1, <1>6, <1>7, <1>8, <1>9, <1>10, <1>11, <1>12, <1>13, <1>14, NextKinds

-----------------------------------------------------------------------------
(* Why a step fails *)

LEMMA NothingUp ==
    ASSUME Inv, mode = "run", todo # <<>>, Tidy, Head(todo) \notin Follows, Head(todo) # <<"clean">>
    PROVE  mounts = <<>> /\ TargetUnmounted = <<>> /\ \A p : MountsAt(p) = {}
<1>1. Types /\ Control /\ mounts \in Seq(Placed) BY DEF Inv, Types
<1>2. mounts = <<>>
  <2>1. CASE guest.os = "fortigate"
    <3>1. Busy /\ mode # "fail" BY <1>1 DEF Control
    <3>2. PICK k \in Nat :
            /\ Stacked(deferred, mounts, k)
            /\ Tidy => (guest.os = "linux" /\ Left(<<"clean">>)) \/ k = Len(mounts)
            /\ command = "import" /\ ~Left(<<"clone">>) /\ mode # "fail" =>
                 \A n \in 1 .. Len(mounts) - k : Foreign(mounts[n])
            /\ k > 0 /\ mode = "run" /\ todo # <<>> => Head(todo) \in Follows
      BY <3>1, StackGet
    <3>3. k = 0 BY <3>2
    <3>4. k = Len(mounts) BY <3>2, <2>1
    <3> QED BY <3>3, <3>4, <1>1, NoMounts
  <2>2. CASE guest.os # "fortigate" BY <2>2, NothingMounted
  <2> QED BY <2>1, <2>2
<1>3. TargetUnmounted = <<>> BY <1>1, <1>2, TargetGone
<1>4. \A p : MountsAt(p) = {}
  <2>1. 0 = Len(mounts) BY <1>1, <1>2, NoMounts
  <2>2. DOMAIN mounts = 1 .. Len(mounts) BY <1>1, LenProperties
  <2>3. DOMAIN mounts = {} BY <2>1, <2>2
  <2> QED BY <2>3 DEF MountsAt
<1> QED BY <1>2, <1>3, <1>4

\* Once the clones are set up, they fit and the guest has been looked at.
LEMMA WorkFits ==
    ASSUME Types, Control, ClonesReady, Learns, Going, todo # <<>>, command = "import",
           Head(todo) # <<"clone">>, Head(todo) \notin LookOf(guest.os) \cup {<<"clean">>}
    PROVE  ClonesFit /\ Has(guest, "root")
<1>1. /\ Program(todo, guest, command) /\ guest \in GuestOS
      /\ guest.os \in {"linux", "windows", "fortigate"}
  BY DEF Types, Control, GuestOS
<1>2. ~Left(<<"clone">>) BY <1>1, CloneStep DEF Left
<1>3. ClonesFit /\ \A n \in 1 .. Len(todo) : todo[n] \in WorkOf(guest.os)
  BY <1>2 DEF ClonesReady
<1>4. <<"found">> \notin WorkOf(guest.os) BY <1>1, Apart
<1>5. ~Left(<<"found">>) BY <1>3, <1>4 DEF Left, Within
<1> QED BY <1>3, <1>5 DEF Learns

\* A root in the volume group is used while that is active.
LEMMA RootActive ==
    ASSUME Types, Control, VGFits, Going, todo # <<>>, guest.root = "lvm", Head(todo) \in RootUse
    PROVE  vg \in Side
<1>1. todo \in Seq(Fits(guest, command)) BY DEF Control
<1>2. PICK f \in Flag, j \in Flag : Flagged(todo, f, j) /\ Knows(f) BY DEF VGFits
<1>3. \E i \in Flag : Turns(Head(todo), f, i) /\ Flagged(Tail(todo), i, j)
  BY <1>1, <1>2, FlaggedTail
<1>4. f # "off" BY <1>3 DEF Turns
<1>5. vg # "off" BY <1>2, <1>4 DEF Knows
<1> QED BY <1>5 DEF Types, TypeOK

\* The mounts among the steps of a task.
LEMMA MountSteps ==
    ASSUME NEW g \in GuestOS, NEW c, NEW s \in Fits(g, c), s[1] = "mount",
           s # <<"mount", "target", "extra">>
    PROVE  \/ s = <<"mount", "target", "root">> /\ g.os # "windows"
           \/ s = <<"mount", "target/extra", "extra">> /\ g.os = "linux" /\ g.extra # "none"
           \/ s = <<"mount", "win_recovery", "extra">> /\ g.os = "windows" /\ g.extra # "none"
           \/ s = <<"mount", "win_main", "root">> /\ g.os = "windows"
           \/ s = <<"mount", "dislocker", "root">> /\ g.os = "windows"
           \/ s = <<"mount", "drivers", "none">> /\ g.os = "windows"
<1> DEFINE tr == <<"mount", "target", "root">>
           te == <<"mount", "target", "extra">>
           tx == <<"mount", "target/extra", "extra">>
           wr == <<"mount", "win_recovery", "extra">>
           wm == <<"mount", "win_main", "root">>
           dl == <<"mount", "dislocker", "root">>
           dn == <<"mount", "drivers", "none">>
<1>1. /\ s \in StepsOf(g.os) /\ (g.extra = "none" => s # tx /\ s # wr)
      /\ g.os \in {"linux", "windows", "fortigate"}
  BY DEF Fits, GuestOS
<1>2. \A x \in {"enter", "leave", "found", "activate", "fstab", "clean", "clone", "match", "ensure",
                "scripts", "unlock", "replace"} : s # <<x>>
  OBVIOUS
<1>3. CASE g.os = "linux"
  <2>1. s = tr \/ s = te \/ s = tx BY <1>1, <1>2, <1>3 DEF StepsOf, LookOf, WorkOf
  <2> QED BY <2>1, <1>1, <1>3
<1>4. CASE g.os = "windows"
  <2>1. s = wr \/ s = wm \/ s = dl \/ s = dn BY <1>1, <1>2, <1>4 DEF StepsOf, LookOf, WorkOf
  <2> QED BY <2>1, <1>1, <1>4
<1>5. CASE g.os = "fortigate"
  <2>1. s = tr \/ s = te BY <1>1, <1>2, <1>5 DEF StepsOf, LookOf, WorkOf
  <2> QED BY <2>1, <1>1, <1>5
<1> QED BY <1>1, <1>3, <1>4, <1>5

\* A mount that the guest or the devices do not let succeed.
LEMMA MountFails ==
    ASSUME Inv, Going, mode = "run", todo # <<>>, NEW s, s = Head(todo), s[1] = "mount",
           s # <<"mount", "target", "extra">>, ~MountExists(s[2], s[3])
    PROVE  Reason
<1>1. /\ Types /\ Control /\ ClonesReady /\ Learns /\ VGFits /\ guest \in GuestOS
      /\ vg \in {"disk", "clone", "off"} /\ rootAt \in {"disk", "clone"}
  BY DEF Inv, Types, TypeOK, Side
<1>2. s \in Fits(guest, command)
  <2>1. todo \in Seq(Fits(guest, command)) BY <1>1 DEF Control
  <2> QED BY <2>1, HeadTailProperties
<1>3. /\ guest.os \in {"linux", "windows", "fortigate"} /\ guest.root \in {"none", "plain", "lvm"}
      /\ guest.extra \in {"none", "plain", "lvm", "unknown"}
      /\ guest.os = "windows" => guest.root # "lvm" /\ guest.extra \in {"none", "plain"}
  BY <1>1 DEF GuestOS
<1>4. ASSUME s[3] = "root", guest.os # "windows" => s \in RootUse PROVE Reason
  <2>1. SUFFICES ASSUME Has(guest, "root") PROVE FALSE BY DEF Reason
  <2>2. DeviceOf("root") \notin Side BY <2>1, <1>4 DEF MountExists
  <2>3. DeviceOf("root") = IF guest.root = "lvm" THEN vg ELSE rootAt BY DEF DeviceOf
  <2>4. guest.root = "lvm" => vg \in Side BY <1>1, <1>3, <1>4, RootActive
  <2> QED BY <2>2, <2>3, <2>4, <1>1 DEF Side
<1>5. ASSUME s[3] = "extra", guest.extra # "none", guest.os = "windows" \/ guest.os = "linux",
             guest.os # "windows" => s \in RootUse,
             s \notin LookOf(guest.os) \cup {<<"clean">>}
      PROVE  Reason
  <2>1. SUFFICES ASSUME ~Reason PROVE FALSE OBVIOUS
  <2>2. guest.root \in {"plain", "lvm"} /\ (guest.os = "linux" => guest.extra # "unknown")
    BY <2>1 DEF Reason, Has
  <2>3. guest.extra \in {"plain", "lvm"} BY <2>2, <1>3, <1>5
  <2>4. DeviceOf("extra") \notin Side BY <2>3, <1>5 DEF MountExists, Has
  <2>5. guest.extra = "lvm" /\ vg \notin Side BY <2>3, <2>4 DEF DeviceOf, Side
  <2>6. guest.os = "linux" BY <2>5, <1>3, <1>5
  <2>7. guest.root = "plain" BY <2>2, <2>5, <2>6, <1>1, <1>5, RootActive
  <2>8. CASE command = "import"
    <3>1. s # <<"clone">> OBVIOUS
    <3>2. ClonesFit BY <3>1, <2>8, <1>1, <1>5, WorkFits
    <3> QED BY <3>2, <2>5, <2>6 DEF ClonesFit, Side
  <2>9. CASE command = "post"
    <3>1. foretold BY <2>9, <1>1 DEF Control
    <3> QED BY <3>1, <2>1, <2>5, <2>6, <2>7 DEF Reason, OnlyExtraInVG
  <2> QED BY <2>8, <2>9 DEF Going, Busy
<1>6. CASE s = <<"mount", "target", "root">> /\ guest.os # "windows"
  <2>1. s[3] = "root" /\ s \in RootUse BY <1>6 DEF RootUse
  <2> QED BY <2>1, <1>4
<1>7. CASE s = <<"mount", "target/extra", "extra">> /\ guest.os = "linux" /\ guest.extra # "none"
  <2>1. s[3] = "extra" /\ s \in RootUse BY <1>7 DEF RootUse
  <2>2. s \notin LookOf(guest.os) \cup {<<"clean">>} BY <1>3, <1>7, Apart
  <2> QED BY <2>1, <2>2, <1>5, <1>7
<1>8. CASE s = <<"mount", "win_recovery", "extra">> /\ guest.os = "windows" /\ guest.extra # "none"
  <2>1. s[3] = "extra" /\ s[1] = "mount" BY <1>8
  <2>2. s \notin LookOf(guest.os) \cup {<<"clean">>}
    <3>1. \A x \in LookOf("windows") \cup {<<"clean">>} : x[1] # "mount" BY DEF LookOf
    <3> QED BY <3>1, <2>1, <1>8
  <2> QED BY <2>1, <2>2, <1>5, <1>8
<1>9. CASE guest.os = "windows" /\ s \in {<<"mount", "win_main", "root">>, <<"mount", "dislocker", "root">>}
  <2>1. s[3] = "root" BY <1>9
  <2> QED BY <2>1, <1>4, <1>9
<1>10. CASE s = <<"mount", "drivers", "none">>
  <2>1. s[3] = "none" BY <1>10
  <2> QED BY <2>1 DEF MountExists
<1>11. \/ s = <<"mount", "target", "root">> /\ guest.os # "windows"
       \/ s = <<"mount", "target/extra", "extra">> /\ guest.os = "linux" /\ guest.extra # "none"
       \/ s = <<"mount", "win_recovery", "extra">> /\ guest.os = "windows" /\ guest.extra # "none"
       \/ s = <<"mount", "win_main", "root">> /\ guest.os = "windows"
       \/ s = <<"mount", "dislocker", "root">> /\ guest.os = "windows"
       \/ s = <<"mount", "drivers", "none">> /\ guest.os = "windows"
  BY <1>1, <1>2, MountSteps
<1> QED BY <1>6, <1>7, <1>8, <1>9, <1>10, <1>11

\* Whatever a tidy task cannot do has its reason in the guest.
LEMMA FailsFor ==
    ASSUME Inv, Tidy, mode = "run", todo # <<>>,
           Head(todo)[1] \notin {"enter", "leave", "clean"},
           Head(todo) # <<"mount", "target", "extra">>, Impossible
    PROVE  Reason
<1> DEFINE s == Head(todo)
<1>1. /\ Types /\ Control /\ ClonesReady /\ Learns /\ guest \in GuestOS
      /\ guest.os \in {"linux", "windows", "fortigate"} /\ Busy /\ Going /\ mounts \in Seq(Placed)
      /\ guest.root \in {"none", "plain", "lvm"} /\ todo \in Seq(Fits(guest, command))
  BY DEF Inv, Types, Control, GuestOS, Going
<1>2. s \in Fits(guest, command) /\ Left(s)
  <2>1. Within(todo, Head(todo)) BY <1>1, WithinTail
  <2> QED BY <2>1, <1>1, HeadTailProperties DEF Left
<1>3. s # <<"clean">>
  <2>1. s = <<"clean">> => s[1] = "clean" OBVIOUS
  <2> QED BY <2>1
<1>4. \/ s = <<"found">> /\ ~Has(guest, "root")
      \/ s = <<"fstab">> /\ guest.extra = "unknown"
      \/ s = <<"unlock">> /\ guest.bitlocker = "locked"
      \/ s = <<"activate">> /\ vg = "off" /\ clones # {}
      \/ s = <<"clone">> /\ (OnClone(TargetUnmounted) \/ OnVG(TargetUnmounted))
      \/ s = <<"ensure">> /\ (IF guest.root = "lvm" THEN vg ELSE rootAt) # "clone"
      \/ s = <<"replace">> /\ MountsAt("backup") # {}
      \/ /\ s[1] = "mount"
         /\ ~MountExists(s[2], s[3]) \/ (s[2] = "win_main" /\ MountsAt("win_main") # {})
  BY DEF Impossible
<1>5. CASE s = <<"found">> /\ ~Has(guest, "root") BY <1>5 DEF Reason
<1>6. CASE s = <<"fstab">> /\ guest.extra = "unknown"
  <2>1. s[1] = "fstab" /\ s \in StepsOf(guest.os) BY <1>2, <1>6 DEF Fits
  <2>2. \A x \in StepsOf("windows") \cup StepsOf("fortigate") : x[1] # "fstab"
    BY DEF StepsOf, LookOf, WorkOf
  <2> QED BY <2>1, <2>2, <1>1, <1>6 DEF Reason
<1>7. CASE s = <<"unlock">> /\ guest.bitlocker = "locked"
  <2>1. s[1] = "unlock" /\ s \in StepsOf(guest.os) BY <1>2, <1>7 DEF Fits
  <2>2. \A x \in StepsOf("linux") \cup StepsOf("fortigate") : x[1] # "unlock"
    BY DEF StepsOf, LookOf, WorkOf
  <2> QED BY <2>1, <2>2, <1>1, <1>7 DEF Reason
<1>8. CASE s = <<"activate">> /\ vg = "off" /\ clones # {}
  <2>1. Left(<<"activate">>) BY <1>2, <1>8
  <2> QED BY <2>1, <1>1, <1>3, <1>8 DEF Inv, ActivateFits
<1>9. CASE s = <<"clone">> /\ (OnClone(TargetUnmounted) \/ OnVG(TargetUnmounted))
  <2>1. TargetUnmounted = <<>> BY <1>3, <1>9, NothingUp, NotFollows
  <2>2. TargetUnmounted \in Seq(Placed) BY <1>1, TargetGone
  <2>3. \A n \in 1 .. Len(TargetUnmounted) : FALSE
    <3>1. 0 = Len(TargetUnmounted) BY <2>1, <2>2, NoMounts
    <3> QED BY <3>1
  <2>4. ~OnVG(TargetUnmounted) /\ ~OnClone(TargetUnmounted) BY <2>2, <2>3, NothingOn
  <2> QED BY <2>4, <1>9
<1>10. CASE s = <<"ensure">> /\ (IF guest.root = "lvm" THEN vg ELSE rootAt) # "clone"
  <2>1. command = "import" BY <1>1, <1>2, <1>10 DEF Fits, Busy
  <2>2. s[1] = "ensure" /\ s \notin LookOf(guest.os) \cup {<<"clean">>} BY <1>1, <1>10, Apart
  <2>3. s # <<"clone">> /\ s # <<"match">> BY <2>2
  <2>4. ClonesFit /\ Has(guest, "root") BY <2>1, <2>2, <2>3, <1>1, WorkFits
  <2> QED BY <2>3, <2>4, <1>1, <1>10 DEF ClonesFit, Has
<1>11. CASE s = <<"replace">> /\ MountsAt("backup") # {}
  BY <1>3, <1>11, NothingUp, NotFollows
<1>12. CASE s[1] = "mount" /\ ~MountExists(s[2], s[3])
  BY <1>1, <1>12, MountFails
<1>13. CASE s[1] = "mount" /\ s[2] = "win_main" /\ MountsAt("win_main") # {}
  <2> DEFINE w == <<"mount", "win_main", "root">>
  <2>1. s = w /\ guest.os = "windows"
    <3>1. \/ s = <<"mount", "target", "root">> /\ guest.os # "windows"
          \/ s = <<"mount", "target/extra", "extra">> /\ guest.os = "linux" /\ guest.extra # "none"
          \/ s = <<"mount", "win_recovery", "extra">> /\ guest.os = "windows" /\ guest.extra # "none"
          \/ s = <<"mount", "win_main", "root">> /\ guest.os = "windows"
          \/ s = <<"mount", "dislocker", "root">> /\ guest.os = "windows"
          \/ s = <<"mount", "drivers", "none">> /\ guest.os = "windows"
      BY <1>1, <1>2, <1>13, MountSteps
    <3> QED BY <3>1, <1>13
  <2>2. Left(w) BY <2>1, <1>2
  <2>3. kills = 0 BY <2>1 DEF Tidy
  <2> QED BY <2>1, <2>2, <2>3, <1>1, <1>13 DEF Inv, MainFits
<1> QED BY <1>4, <1>5, <1>6, <1>7, <1>8, <1>9, <1>10, <1>11, <1>12, <1>13

LEMMA ReasonStays ==
    ASSUME guest' = guest, foretold => foretold', Reason
    PROVE  Reason'
BY DEF Reason, Has, OnlyExtraInVG

LEMMA WhyFailsStep ==
    ASSUME Inv, Next
    PROVE  WhyFails'
<1>1. Types /\ Control /\ WhyFails BY DEF Inv
<1>2. SUFFICES ASSUME Tidy', mode' = "fail", ~faulty' PROVE Reason' BY DEF WhyFails
<1>3. CASE QuietStep \/ Enter \/ CleanUp \/ ActivateVG \/ DoMount \/ SetUpClones
  <2>1. mode' # "fail" BY <1>3, HeadKinds DEF QuietStep, Still
  <2> QED BY <2>1, <1>2
<1>4. CASE Started \/ Killed
  <2>1. mode' # "fail" BY <1>4 DEF Started, Killed, Begins0
  <2> QED BY <2>1, <1>2
<1>5. CASE Failed
  <2>1. /\ mode = "run" /\ todo # <<>> /\ guest' = guest /\ kills' = kills /\ foretold' = foretold
        /\ Head(todo)[1] \notin {"enter", "leave", "clean"}
        /\ Head(todo) # <<"mount", "target", "extra">> /\ Impossible
    BY <1>2, <1>5 DEF Failed
  <2>2. Tidy BY <2>1, <1>2 DEF Tidy
  <2> QED BY <2>1, <2>2, FailsFor, ReasonStays
<1>6. CASE (Unwound /\ Effect) \/ Responded
  <2>1. /\ guest' = guest /\ kills' = kills /\ faulty' = faulty /\ (foretold => foretold')
        /\ mode' = "fail" => mode = "fail"
    <3>1. CASE Unwound
      <4>1. mode' \in {"run", mode} BY <3>1 DEF Unwound
      <4> QED BY <3>1, <4>1 DEF Unwound
    <3>2. CASE Responded
      <4>1. foretold' = (foretold \/ (mode = "run" /\ command = "import")) BY <3>2 DEF Responded
      <4>2. guest' = guest /\ kills' = kills /\ faulty' = faulty /\ mode' = mode
        BY <3>2 DEF Responded
      <4> QED BY <4>1, <4>2
    <3> QED BY <3>1, <3>2, <1>6
  <2>2. Tidy BY <2>1, <1>2 DEF Tidy
  <2> QED BY <2>1, <2>2, <1>1, <1>2, ReasonStays DEF WhyFails
<1> QED BY <1>1, <1>3, <1>4, <1>5, <1>6, NextKinds

-----------------------------------------------------------------------------
(* The invariant holds *)

LEMMA InvBegins ==
    ASSUME Init
    PROVE  Inv
<1>1. /\ guest \in Guest /\ command = "none" /\ todo = <<>> /\ deferred = <<>> /\ mode = "run"
      /\ mounts = <<>> /\ vg = "off" /\ clones = {} /\ plan = {} /\ rootAt = "disk"
      /\ written = {} /\ faulty = FALSE /\ foretold = FALSE /\ kills = 0
  BY DEF Init
<1>2. guest \in GuestOS /\ MaxKills \in Nat BY <1>1, PostImportAssumption
<1>3. ~Busy /\ ~Going BY <1>1 DEF Busy, Going
<1>4. mounts \in Seq(Placed) /\ deferred \in Seq(Call) BY <1>1, EmptySeq
<1>5. Len(mounts) = 0 BY <1>1, EmptySeq
<1>6. Types
  <2>1. \A n \in DOMAIN mounts : mounts[n] \in Mount BY <1>4, SeqPlaced
  <2>2. kills \in 0 .. MaxKills BY <1>1, <1>2
  <2>3. TypeOK BY <1>1, <2>1, <2>2 DEF TypeOK, Side
  <2> QED BY <1>2, <1>4, <2>3 DEF Types
<1>7. Control BY <1>1, <1>2, <1>3, ProgramNone DEF Control
<1>8. StackFits /\ Balance /\ FailFits /\ PlanFits /\ ClonesReady /\ VGFits /\ ActivateFits
  BY <1>3 DEF StackFits, Balance, FailFits, PlanFits, ClonesReady, VGFits, ActivateFits, Going
<1>9. Idle /\ Learns /\ MainFits /\ WhyFails
  BY <1>1, <1>3 DEF Idle, Clean, Learns, MainFits, WhyFails
<1>10. Shape BY <1>1, ShapedNone DEF Shape
<1>11. SparesDisk
  <2>1. Spared(mounts) BY <1>5 DEF Spared
  <2> QED BY <1>3, <2>1 DEF SparesDisk
<1>12. DryRunSparesDisk /\ Prepares BY <1>1, <1>3 DEF DryRunSparesDisk, Prepares
<1> QED BY <1>6, <1>7, <1>8, <1>9, <1>10, <1>11, <1>12 DEF Inv

LEMMA InvStep ==
    ASSUME Inv, Next
    PROVE  Inv'
BY TypesStep, ControlStep, StackFitsStep, BalanceStep, FailFitsStep, IdleStep, PlanFitsStep,
   ClonesReadyStep, ShapeStep, SparesDiskStep, DryRunStep, PreparesStep, VGFitsStep, LearnsStep,
   MainFitsStep, ActivateFitsStep, WhyFailsStep
   DEF Inv

LEMMA InvStays ==
    ASSUME Inv, UNCHANGED vars
    PROVE  Inv'
<1>1. /\ guest' = guest /\ command' = command /\ todo' = todo /\ deferred' = deferred
      /\ mode' = mode /\ mounts' = mounts /\ vg' = vg /\ clones' = clones /\ plan' = plan
      /\ rootAt' = rootAt /\ written' = written /\ faulty' = faulty /\ foretold' = foretold
      /\ kills' = kills
  BY DEF vars, task, devices
<1>2. \A s : Left(s)' <=> Left(s) BY <1>1 DEF Left, Within
<1>3. (Busy' <=> Busy) /\ (Going' <=> Going) /\ (Tidy' <=> Tidy) /\ (Clean' <=> Clean)
  BY <1>1 DEF Busy, Going, Tidy, Clean
<1>4. Types' BY <1>1 DEF Inv, Types, TypeOK
<1>5. Control'
  <2>1. /\ Program(todo, guest, command) /\ todo \in Seq(Fits(guest, command)) /\ MainOnce(todo)
        /\ mode = "fail" => todo = <<>>
        /\ ~Busy => todo = <<>> /\ deferred = <<>>
        /\ command = "post" => foretold
        /\ command = "failed" => mode = "fail"
    BY DEF Inv, Control
  <2>2. /\ Program(todo', guest', command') /\ todo' \in Seq(Fits(guest', command'))
        /\ MainOnce(todo')
    BY <1>1, <2>1
  <2> QED BY <1>1, <1>3, <2>1, <2>2 DEF Control
<1>6. StackFits'
  <2>1. StackFits BY DEF Inv
  <2>2. ASSUME Busy, mode # "fail" \/ guest.os # "fortigate" PROVE StackFits'
    <3>1. PICK k \in Nat : Stacked(deferred, mounts, k) /\ Base(k) BY <2>1, <2>2 DEF StackFits
    <3>2. Stacked(deferred, mounts, k)' BY <1>1, <3>1 DEF Stacked
    <3>3. Base(k)' BY <1>1, <1>2, <1>3, <3>1 DEF Base, Foreign
    <3> QED BY <3>2, <3>3 DEF StackFits
  <2> QED BY <1>1, <1>3, <2>2 DEF StackFits
<1>7. Balance'
  <2>1. ASSUME Going PROVE Balance'
    <3>1. PICK m \in Nat :
            /\ Nested(todo, m, 0)
            /\ \/ Left(<<"clean">>)
               \/ Up(deferred, IF mode = "leave" THEN m + 1 ELSE m)
               \/ todo = <<>> /\ mode = "run" /\ Cleaned
      BY <2>1 DEF Inv, Balance
    <3>2. Nested(todo', m, 0) BY <1>1, <3>1
    <3>3. Cleaned' <=> Cleaned BY <1>1, <1>3 DEF Cleaned
    <3>4. Up(deferred', m + 1) /\ Up(deferred', m) <=> Up(deferred, m + 1) /\ Up(deferred, m)
      BY <1>1
    <3> QED BY <1>1, <1>2, <3>1, <3>2, <3>3, BalanceFrom
  <2> QED BY <1>3, <2>1 DEF Balance
<1>8. FailFits' /\ Idle' BY <1>1, <1>3 DEF Inv, FailFits, Idle
<1>9. PlanFits' BY <1>1, <1>3 DEF Inv, PlanFits, AllOf, Has, FstabFirst
<1>10. ClonesReady' BY <1>1, <1>2, <1>3 DEF Inv, ClonesReady, ClonesFit, WorkOf
<1>11. Shape' /\ SparesDisk' BY <1>1, <1>2, <1>3 DEF Inv, Shape, Shaped, SparesDisk, Spared
<1>12. DryRunSparesDisk' BY <1>1 DEF Inv, DryRunSparesDisk
<1>13. Prepares'
  BY <1>1, <1>2, <1>3 DEF Inv, Prepares, Prepared, Mounted, MountStep, Has
<1>14. VGFits'
  <2>1. ASSUME Going, guest.root = "lvm" PROVE VGFits'
    <3>1. PICK f \in Flag, j \in Flag : Flagged(todo, f, j) /\ Knows(f)
      BY <2>1 DEF Inv, VGFits
    <3>2. Flagged(todo', f, j) BY <1>1, <3>1
    <3> QED BY <1>1, <3>1, <3>2, VGFitsFrom DEF Knows
  <2> QED BY <1>1, <1>3, <2>1 DEF VGFits
<1>15. Learns' BY <1>1, <1>2, <1>3 DEF Inv, Learns, Supported, Has
<1>16. MainFits' BY <1>1, <1>2, <1>3 DEF Inv, MainFits, MountsAt
<1>17. ActivateFits' BY <1>1, <1>2, <1>3 DEF Inv, ActivateFits
<1>18. WhyFails' BY <1>1, <1>3 DEF Inv, WhyFails, Reason, Has, OnlyExtraInVG
<1> QED BY <1>4, <1>5, <1>6, <1>7, <1>8, <1>9, <1>10, <1>11, <1>12, <1>13, <1>14, <1>15, <1>16,
           <1>17, <1>18 DEF Inv

\* The steps that are left, the deferred calls, the mounts, the volume group and the
\* clones fit together at any time, also after a failure or a kill at any step.
THEOREM PostImportInvariant == Spec => []Inv
<1>1. Init => Inv BY InvBegins
<1>2. Inv /\ [Next]_vars => Inv' BY InvStep, InvStays
<1> QED BY <1>1, <1>2, PTL DEF Spec

\* The variables keep their types (TypeOK).
THEOREM PostImportTypes == Spec => []TypeOK
<1>1. Inv => TypeOK BY DEF Inv, Types
<1> QED BY <1>1, PostImportInvariant, PTL

\* Scripts write where they are meant to: a dry run's to the clones only, the
\* post-import tasks' to every file system on the disks before they are answered with
\* success (LinuxDoPostMigrationConfig and its like, ensureMountIsLoop).
THEOREM ScriptsHit == Spec => []ScriptsHitTheirDisks
<1>1. ASSUME Inv PROVE ScriptsHitTheirDisks
  <2>1. DryRunSparesDisk BY <1>1 DEF Inv
  <2>2. DoneMeansPrepared
    <3>1. command = "done" => Prepared BY <1>1, PreparesGet
    <3> QED BY <3>1 DEF Prepared, DoneMeansPrepared
  <2> QED BY <2>1, <2>2 DEF ScriptsHitTheirDisks
<1> QED BY <1>1, PostImportInvariant, PTL

\* Nothing that a failure or a kill leaves outlives the next task of a Linux guest or
\* keeps it from succeeding; a Windows guest's tasks leave nothing if not killed
\* (cleanupClones, setup-root-disk-clone.sh).
THEOREM LeftoversDoNoHarm == Spec => []LeftoversHarmless
<1>1. ASSUME Inv PROVE LeftoversHarmless
  <2>1. Types /\ Control /\ Idle /\ WhyFails /\ guest \in GuestOS BY <1>1 DEF Inv, Types
  <2>2. LinuxRetriesSucceed
    <3>1. SUFFICES ASSUME command = "failed", guest.os = "linux", ~faulty
                   PROVE  Unsupported \/ (OnlyExtraInVG /\ foretold)
      BY DEF LinuxRetriesSucceed
    <3>2. mode = "fail" /\ Tidy BY <2>1, <3>1 DEF Control, Tidy
    <3>3. Reason BY <2>1, <3>1, <3>2 DEF WhyFails
    <3>4. ~(guest.os = "windows") BY <3>1
    <3> QED BY <3>3, <3>4 DEF Reason, Unsupported
  <2>3. CleanAtEnd
    <3>1. SUFFICES ASSUME command \in {"none", "failed", "done"},
                          guest.os = "linux" \/ (guest.os = "windows" /\ kills = 0)
                   PROVE  Clean
      BY DEF CleanAtEnd, Clean
    <3>2. ~Busy BY <3>1 DEF Busy
    <3> QED BY <2>1, <3>1, <3>2 DEF Idle
  <2> QED BY <2>2, <2>3 DEF LeftoversHarmless
<1> QED BY <1>1, PostImportInvariant, PTL

\* A task of a guest whose dry run has succeeded fails, if no step of it fails by chance
\* and no worker is killed, only for an additional file system in a volume group that
\* the real run does not activate (importDisks, LinuxDoPostMigrationConfig).
THEOREM DryRunForetells == Spec => []DryRunTells
<1>1. ASSUME Inv PROVE DryRunTells
  <2>1. Types /\ Control /\ Learns /\ WhyFails BY <1>1 DEF Inv
  <2>2. SUFFICES ASSUME command = "failed", ~faulty, foretold, kills = 0 PROVE OnlyExtraInVG
    BY DEF DryRunTells
  <2>3. mode = "fail" /\ Tidy BY <2>1, <2>2 DEF Control, Tidy
  <2>4. Reason BY <2>1, <2>2, <2>3 DEF WhyFails
  <2>5. Supported BY <2>1, <2>2 DEF Learns
  <2> QED BY <2>4, <2>5 DEF Reason, Supported
<1> QED BY <1>1, PostImportInvariant, PTL
=============================================================================
