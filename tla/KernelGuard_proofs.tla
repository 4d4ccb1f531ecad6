------------------------- MODULE KernelGuard_proofs -------------------------
(***************************************************************************)
(* The safety of kernel processes and their guard, for any number of       *)
(* kernels, guards and process group ids, a pipe of any size, and ids given *)
(* again or not.                                                           *)
(*                                                                         *)
(* The argument has two sides.  The kernel side relates a kernel's task,   *)
(* its keeper and the `killed` flag to its process and its group; the      *)
(* guard side relates a guard's set and its pipe to the backend's set.     *)
(* They meet in `groups`.                                                  *)
(***************************************************************************)
EXTENDS KernelGuard, FiniteSetTheorems, SequenceTheorems, TLAPS

Unkept == {"none", "spawned", "starting", "abort", "abortReap", "abortUnregister", "failed"}
Aborted == {"abortReap", "abortUnregister", "failed"}
Exited == {"kill", "signal", "reap", "unregister", "done"}
Unreaped == {"spawned", "starting", "abort", "watch", "kill", "signal", "reap"}

(* A group's id is the kernel's until its leader is reaped and nothing     *)
(* else runs in it.                                                        *)
GroupIsHeld ==
  \A k \in Kernels :
    leader[k] \in {"up", "zombie"} \/ k \in members => gid[k] \in Gids /\ holder[gid[k]] = k

IdsOnce == ~recycles => \A j, k \in Kernels : gid[j] = gid[k] /\ gid[k] # NoGid => j = k

(* How far a kernel's task is says what its process may be.                *)
TaskOwns ==
  \A k \in Kernels :
    /\ task[k] = "none" => leader[k] = "none" /\ k \notin members /\ gid[k] = NoGid
    /\ task[k] \notin {"none", "lost"} => gid[k] \in Gids
    /\ task[k] = "lost" <=> backend # "up"
    /\ task[k] \in Unreaped /\ k \notin Blind => leader[k] \in {"up", "zombie"}
    /\ task[k] \in Aborted => ~Alive(k)
    /\ task[k] \in Exited => leader[k] # "up"

(* Whoever swaps `killed` signals: until then the group may run.           *)
KilledOnce ==
  \A k \in Kernels :
    /\ task[k] \in Unkept => keeper[k] = "none" /\ k \notin killed
    /\ task[k] \in {"signal", "reap", "unregister", "done"} => k \in killed
    /\ keeper[k] \in {"signal", "unregister", "drop", "gone"} => k \in killed
    /\ k \in killed /\ Alive(k) => SignalDue(k)

(* Once the exit has begun, what runs was just spawned or is about to get  *)
(* its signal.                                                             *)
FinishStops ==
  ~recycles /\ finishing /\ backend = "up" =>
    \A k \in Kernels : Alive(k) => task[k] = "spawned" \/ SignalDue(k)

KernelSide ==
  /\ GroupIsHeld /\ IdsOnce /\ TaskOwns /\ KilledOnce /\ FinishStops
  /\ AliveIsRegisteredFresh /\ TaskStrikesItsOwn /\ NoneOutlivesExit

(* A guard that was not started knows nothing; the one the pipe leads to   *)
(* ends only after the backend, and knows the backend's groups then.       *)
GuardsInOrder ==
  /\ \A g \in Guards : guard[g] = "none" => pipe[g] = <<>> /\ known[g] = {}
  /\ stdin # NoGuard => guard[stdin] # "none"
  /\ stdin # NoGuard /\ guard[stdin] \in {"ending", "done"} => backend # "up"
  /\ stdin # NoGuard /\ guard[stdin] = "ending" => known[stdin] = groups

GuardSide == GuardsInOrder /\ GuardKnowsGroups

IInv == TypeOK /\ KernelSide /\ GuardSide /\ GuardStopsAll
-----------------------------------------------------------------------------
(* The types, by the parts of the state.                                   *)

Strikers == {"guard", "finish", "register", "task", "blind task", "keeper"}
Lines == {"+", "-"} \X SUBSET Gids

OsTypes ==
  /\ recycles \in BOOLEAN
  /\ holder \in [Gids -> Kernels \cup {Other, Free}]
  /\ gid \in [Kernels -> Gids \cup {NoGid}]
  /\ leader \in [Kernels -> {"none", "up", "zombie", "reaped"}]
  /\ members \subseteq Kernels
  /\ struck \subseteq Strikers

TaskTypes ==
  /\ task \in [Kernels -> TaskPCs] /\ keeper \in [Kernels -> KeeperPCs]
  /\ killed \subseteq Kernels

StateTypes ==
  /\ started \in BOOLEAN /\ finishing \in BOOLEAN
  /\ stdin \in Guards \cup {NoGuard} /\ pid \in Guards \cup {NoGuard}
  /\ groups \subseteq Gids
  /\ respawns \in 0..RespawnMax

GuardTypes ==
  /\ guard \in [Guards -> {"none", "up", "ending", "done", "dead"}]
  /\ pipe \in [Guards -> Seq(Lines)]
  /\ known \in [Guards -> SUBSET Gids]

BackendTypes == backend \in {"up", "ended", "crashed"}

LEMMA Types == TypeOK <=> OsTypes /\ BackendTypes /\ TaskTypes /\ StateTypes /\ GuardTypes
BY DEF TypeOK, OsTypes, BackendTypes, TaskTypes, StateTypes, GuardTypes, Strikers, Lines

LEMMA TypesNext ==
  TypeOK' <=> OsTypes' /\ BackendTypes' /\ TaskTypes' /\ StateTypes' /\ GuardTypes'
BY DEF TypeOK, OsTypes, BackendTypes, TaskTypes, StateTypes, GuardTypes, Strikers, Lines

LEMMA Apart ==
  /\ NoGid \notin Gids /\ Free \notin Kernels /\ Other \notin Kernels /\ Free # Other
  /\ NoGuard \notin Guards
  /\ MaxGuards \in Nat /\ RespawnMax \in Nat /\ PipeSize \in Nat \ {0} /\ Recycling \subseteq BOOLEAN
BY GuardAssumption DEF NoGid, Free, Other, Guards, NoGuard
-----------------------------------------------------------------------------
(* What the steps of the system do.  Calm(R): no group comes to life and   *)
(* only the leaders of R are reaped.                                       *)

Calm(R) ==
  /\ UNCHANGED <<recycles, gid>>
  /\ OsTypes' /\ GroupIsHeld'
  /\ \A k \in Kernels : Alive(k)' => Alive(k)
  /\ \A k \in Kernels \ R : \/ leader'[k] = leader[k]
                            \/ leader[k] = "up" /\ leader'[k] = "zombie"
  /\ \A k \in Kernels : leader'[k] = "up" => leader[k] = "up"

(* A signal reaches every kernel that runs in one of the groups, and goes  *)
(* astray only where an id is not the meant group's.                       *)
LEMMA StrikeIsCalm ==
  ASSUME TypeOK, GroupIsHeld, NEW gs \in SUBSET Gids, NEW who \in Strikers, NEW meant,
         Strike(gs, who, meant)
  PROVE  /\ Calm({})
         /\ \A k \in Kernels : gid[k] \in gs => ~Alive(k)'
         /\ struck' = struck \/ struck' = struck \cup {who}
         /\ (\A g \in gs : holder[g] \in meant \cup {Free}) => struck' = struck
<1> DEFINE hit == {k \in Kernels : \E g \in gs : holder[g] = k}
           l == [k \in Kernels |-> IF k \in hit /\ leader[k] = "up" THEN "zombie" ELSE leader[k]]
           m == members \ hit
           astray == \E g \in gs : holder[g] \notin meant \cup {Free}
           left == HolderAfter(l, m)
<1>1. /\ leader' = l /\ members' = m
      /\ holder' = [g \in Gids |-> IF g \in gs /\ holder[g] = Other THEN Free ELSE left[g]]
      /\ struck' = IF astray THEN struck \cup {who} ELSE struck
      /\ UNCHANGED <<recycles, gid>>
  BY DEF Strike
<1>2. OsTypes
  BY Types
<1>3. \A k \in Kernels : l[k] = IF k \in hit /\ leader[k] = "up" THEN "zombie" ELSE leader[k]
  OBVIOUS
<1>4. \A g \in Gids : left[g] = IF holder[g] \in Kernels /\ Gone(holder[g], l, m) THEN Free
                                ELSE holder[g]
  BY DEF HolderAfter
<1>5. \A k \in Kernels : Alive(k)' => Alive(k)
  BY <1>1, <1>3 DEF Alive
<1>6. \A k \in Kernels : gid[k] \in gs => ~Alive(k)'
  <2> SUFFICES ASSUME NEW k \in Kernels, gid[k] \in gs, Alive(k)' PROVE FALSE
    OBVIOUS
  <2>1. holder[gid[k]] = k
    BY <1>5 DEF Alive, GroupIsHeld
  <2>2. k \in hit
    BY <2>1
  <2> QED
    BY <2>2, <1>1, <1>3 DEF Alive
<1>7. \A k \in Kernels : \/ leader'[k] = leader[k]
                         \/ leader[k] = "up" /\ leader'[k] = "zombie"
  BY <1>1, <1>3
<1>8. OsTypes'
  <2>1. holder' \in [Gids -> Kernels \cup {Other, Free}]
    BY <1>1, <1>2, <1>4 DEF OsTypes
  <2>2. leader' \in [Kernels -> {"none", "up", "zombie", "reaped"}]
    BY <1>1, <1>2, <1>3 DEF OsTypes
  <2> QED
    BY <1>1, <1>2, <2>1, <2>2 DEF OsTypes
<1>9. GroupIsHeld'
  <2> SUFFICES ASSUME NEW k \in Kernels, leader'[k] \in {"up", "zombie"} \/ k \in members'
               PROVE  gid'[k] \in Gids /\ holder'[gid'[k]] = k
    BY DEF GroupIsHeld
  <2>1. leader[k] \in {"up", "zombie"} \/ k \in members
    BY <1>1, <1>7
  <2>2. gid[k] \in Gids /\ holder[gid[k]] = k
    BY <2>1 DEF GroupIsHeld
  <2>3. ~Gone(k, l, m)
    BY <1>1, <1>7 DEF Gone
  <2> QED
    BY <2>2, <2>3, <1>1, <1>4, Apart
<1> QED
  <2> HIDE DEF l, m
  <2> QED
    BY <1>1, <1>5, <1>6, <1>7, <1>8, <1>9 DEF Calm

LEMMA ReapedIsCalm ==
  ASSUME TypeOK, GroupIsHeld, NEW k \in Kernels, leader[k] # "up", Reaped(k)
  PROVE  Calm({k}) /\ struck' = struck /\ leader'[k] = "reaped" /\ members' = members
<1>1. /\ leader' = [leader EXCEPT ![k] = "reaped"]
      /\ holder' = HolderAfter(leader', members)
      /\ UNCHANGED <<recycles, gid, members, struck>>
  BY DEF Reaped
<1>2. OsTypes
  BY Types
<1>3. \A g \in Gids : holder'[g] = IF holder[g] \in Kernels /\ Gone(holder[g], leader', members)
                                   THEN Free ELSE holder[g]
  BY <1>1 DEF HolderAfter
<1>4. leader' \in [Kernels -> {"none", "up", "zombie", "reaped"}] /\ leader'[k] = "reaped"
      /\ \A j \in Kernels \ {k} : leader'[j] = leader[j]
  BY <1>1, <1>2 DEF OsTypes
<1>5. holder' \in [Gids -> Kernels \cup {Other, Free}]
  <2>1. holder' = [g \in Gids |-> IF holder[g] \in Kernels /\ Gone(holder[g], leader', members)
                                  THEN Free ELSE holder[g]]
    BY <1>1 DEF HolderAfter
  <2> QED
    BY <2>1, <1>2 DEF OsTypes
<1>6. OsTypes'
  BY <1>1, <1>2, <1>4, <1>5 DEF OsTypes
<1>7. \A j \in Kernels : leader'[j] \in {"up", "zombie"} \/ j \in members =>
        leader[j] \in {"up", "zombie"} \/ j \in members
  BY <1>4
<1>8. GroupIsHeld'
  <2> SUFFICES ASSUME NEW j \in Kernels, leader'[j] \in {"up", "zombie"} \/ j \in members'
               PROVE  gid'[j] \in Gids /\ holder'[gid'[j]] = j
    BY DEF GroupIsHeld
  <2>1. gid[j] \in Gids /\ holder[gid[j]] = j
    BY <1>1, <1>7 DEF GroupIsHeld
  <2>2. ~Gone(j, leader', members)
    BY <1>1 DEF Gone
  <2> QED
    BY <2>1, <2>2, <1>1, <1>3
<1>9. \A j \in Kernels : Alive(j)' => Alive(j)
  BY <1>1, <1>4 DEF Alive
<1> QED
  BY <1>1, <1>4, <1>6, <1>8, <1>9 DEF Calm

LEMMA StillIsCalm ==
  ASSUME TypeOK, GroupIsHeld, UNCHANGED osVars
  PROVE  Calm({}) /\ struck' = struck
<1>1. UNCHANGED <<recycles, holder, gid, leader, members, struck>>
  BY DEF osVars
<1>2. OsTypes' /\ GroupIsHeld'
  BY <1>1, Types DEF OsTypes, GroupIsHeld
<1> QED
  BY <1>1, <1>2 DEF Calm, Alive
-----------------------------------------------------------------------------
(* What a guard will know, as lines are written, read, or given to a new   *)
(* guard.                                                                  *)

LEMMA LinesOf ==
  ASSUME GuardTypes, NEW g \in Guards
  PROVE  /\ pipe[g] \in Seq(Lines) /\ known[g] \subseteq Gids
         /\ \A i \in 1..Len(pipe[g]) : pipe[g][i] \in Lines
BY ElementOfSeq DEF GuardTypes

LEMMA AfterAppend ==
  ASSUME NEW ks \in SUBSET Gids, NEW p \in Seq(Lines),
         NEW sign \in {"+", "-"}, NEW gs \in SUBSET Gids
  PROVE  /\ sign = "+" => AfterReading(ks, Append(p, <<sign, gs>>)) = AfterReading(ks, p) \cup gs
         /\ sign = "-" => AfterReading(ks, Append(p, <<sign, gs>>)) = AfterReading(ks, p) \ gs
<1> DEFINE n == Len(p)
           q == Append(p, <<sign, gs>>)
           R == AfterReading(ks, p)
           S == AfterReading(ks, q)
<1>1. n \in Nat
  OBVIOUS
<1>2. /\ Len(q) = n + 1 /\ q[n + 1] = <<sign, gs>>
      /\ \A i \in 1..n : q[i] = p[i]
  <2>1. <<sign, gs>> \in Lines
    BY DEF Lines
  <2> QED
    BY <1>1, <2>1, AppendProperties
<1>3. \A i \in 1..n : \A x : Names(q[i], x) <=> Names(p[i], x)
  BY <1>2
<1>4. \A x : Names(q[n + 1], x) <=> x \in gs
  BY <1>2 DEF Names
<1> HIDE DEF n, q
<1>5. ASSUME NEW x \in Gids, x \in gs
      PROVE  x \in S <=> sign = "+"
  <2>1. n + 1 \in 1..Len(q) /\ Names(q[n + 1], x)
    BY <1>1, <1>2, <1>4, <1>5
  <2>2. \A i \in 1..Len(q) : i # n + 1 => n + 1 \in i+1..Len(q)
    BY <1>1, <1>2
  <2>3. (n + 1)+1..Len(q) = {}
    BY <1>1, <1>2
  <2>4. q[n + 1][1] = sign
    BY <1>2
  <2> QED
    BY <2>1, <2>2, <2>3, <2>4, <1>5 DEF AfterReading
<1>6. ASSUME NEW x \in Gids, x \notin gs
      PROVE  x \in S <=> x \in R
  <2>1. \A i \in 1..Len(q) : i \in 1..n \/ i = n + 1
    BY <1>1, <1>2
  <2>2. ~Names(q[n + 1], x)
    BY <1>4, <1>6
  <2>3. 1..n \subseteq 1..Len(q) /\ n + 1 \in 1..Len(q)
    BY <1>1, <1>2
  <2>4. (\A i \in 1..Len(q) : ~Names(q[i], x)) <=> \A i \in 1..n : ~Names(p[i], x)
    BY <2>1, <2>2, <2>3, <1>3
  <2>5. ASSUME NEW i \in 1..n
        PROVE  (\A j \in i+1..Len(q) : ~Names(q[j], x)) <=> \A j \in i+1..n : ~Names(p[j], x)
    <3>1. \A j \in i+1..Len(q) : j \in i+1..n \/ j = n + 1
      BY <1>1, <1>2
    <3>2. i+1..n \subseteq i+1..Len(q) /\ i+1..n \subseteq 1..n
      BY <1>1, <1>2
    <3> QED
      BY <3>1, <3>2, <2>2, <1>3
  <2>6. (\E i \in 1..Len(q) : /\ q[i][1] = "+" /\ Names(q[i], x)
                              /\ \A j \in i+1..Len(q) : ~Names(q[j], x))
        <=> \E i \in 1..n : /\ p[i][1] = "+" /\ Names(p[i], x)
                            /\ \A j \in i+1..n : ~Names(p[j], x)
    <3> DEFINE Last(i) == \A j \in i+1..Len(q) : ~Names(q[j], x)
               Latest(i) == \A j \in i+1..n : ~Names(p[j], x)
    <3>1. \A i \in 1..n : q[i][1] = p[i][1] /\ (Last(i) <=> Latest(i))
      BY <2>5, <1>2
    <3> HIDE DEF Last, Latest
    <3>2. (\E i \in 1..Len(q) : q[i][1] = "+" /\ Names(q[i], x) /\ Last(i))
          <=> \E i \in 1..n : p[i][1] = "+" /\ Names(p[i], x) /\ Latest(i)
      BY <3>1, <2>1, <2>2, <2>3, <1>3
    <3> QED
      BY <3>2 DEF Last, Latest
  <2> QED
    BY <2>4, <2>6 DEF AfterReading, n
<1>7. R \subseteq Gids /\ S \subseteq Gids
  BY DEF AfterReading
<1> HIDE DEF R, S
<1>8. CASE sign = "+"
  <2>1. S = R \cup gs
    BY <1>5, <1>6, <1>7, <1>8
  <2> QED
    BY <2>1, <1>8 DEF R, S, q
<1>9. CASE sign = "-"
  <2>1. S = R \ gs
    BY <1>5, <1>6, <1>7, <1>9
  <2> QED
    BY <2>1, <1>9 DEF R, S, q
<1> QED
  BY <1>8, <1>9

LEMMA AfterTail ==
  ASSUME NEW ks \in SUBSET Gids, NEW p \in Seq(Lines), p # <<>>
  PROVE  LET read == IF Head(p)[1] = "+" THEN ks \cup Head(p)[2] ELSE ks \ Head(p)[2]
         IN  AfterReading(read, Tail(p)) = AfterReading(ks, p)
<1> DEFINE read == IF Head(p)[1] = "+" THEN ks \cup Head(p)[2] ELSE ks \ Head(p)[2]
           n == Len(p)
           q == Tail(p)
           R == AfterReading(ks, p)
           S == AfterReading(read, q)
<1>1. n \in Nat \ {0} /\ Head(p) = p[1]
  BY EmptySeq
<1>2. Len(q) = n - 1 /\ \A i \in 1..n-1 : q[i] = p[i + 1]
  BY <1>1, HeadTailProperties
<1>3. \A x : x \in read <=> IF p[1][1] = "+" THEN x \in ks \/ Names(p[1], x)
                            ELSE x \in ks /\ ~Names(p[1], x)
  BY <1>1 DEF Names
<1>4. \A i \in 1..n-1 : \A x : Names(q[i], x) <=> Names(p[i + 1], x)
  BY <1>2
<1> HIDE DEF n, q
<1>5. ASSUME NEW x \in Gids
      PROVE  x \in S <=> x \in R
  <2> DEFINE After(i) == \A j \in i+1..n : ~Names(p[j], x)
  <2>1. \A i \in 2..n : i - 1 \in 1..n-1
    BY <1>1
  <2>2. \A i \in 1..n-1 : i + 1 \in 2..n
    BY <1>1
  <2>3. (\A i \in 1..Len(q) : ~Names(q[i], x)) <=> After(1)
    <3>1. \A i \in 1..n-1 : i + 1 \in 1+1..n
      BY <1>1
    <3>2. \A j \in 1+1..n : j - 1 \in 1..n-1 /\ (j - 1) + 1 = j
      BY <1>1
    <3> QED
      BY <3>1, <3>2, <1>2, <1>4
  <2>4. ASSUME NEW i \in 1..n-1
        PROVE  (\A j \in i+1..Len(q) : ~Names(q[j], x)) <=> After(i + 1)
    <3>1. \A j \in i+1..n-1 : j \in 1..n-1 /\ j + 1 \in (i+1)+1..n
      BY <1>1
    <3>2. \A j \in (i+1)+1..n : j - 1 \in i+1..n-1 /\ j - 1 \in 1..n-1 /\ (j - 1) + 1 = j
      BY <1>1
    <3> QED
      BY <3>1, <3>2, <1>2, <1>4
  <2>5. (\E i \in 1..Len(q) : /\ q[i][1] = "+" /\ Names(q[i], x)
                              /\ \A j \in i+1..Len(q) : ~Names(q[j], x))
        <=> \E i \in 2..n : p[i][1] = "+" /\ Names(p[i], x) /\ After(i)
    <3>1. ASSUME NEW i \in 1..n-1
          PROVE  (/\ q[i][1] = "+" /\ Names(q[i], x)
                  /\ \A j \in i+1..Len(q) : ~Names(q[j], x))
                 <=> p[i + 1][1] = "+" /\ Names(p[i + 1], x) /\ After(i + 1)
      BY <2>4, <1>2, <1>4
    <3>2. \A i \in 2..n : (i - 1) + 1 = i
      BY <1>1
    <3> HIDE DEF After
    <3> QED
      BY <3>1, <3>2, <2>1, <2>2, <1>2
  <2>6. (\A i \in 1..n : ~Names(p[i], x)) <=> ~Names(p[1], x) /\ After(1)
    <3>1. 1 \in 1..n /\ 1+1..n \subseteq 1..n /\ \A i \in 1..n : i = 1 \/ i \in 1+1..n
      BY <1>1
    <3> QED
      BY <3>1
  <2>7. (\E i \in 1..n : p[i][1] = "+" /\ Names(p[i], x) /\ After(i))
        <=> \/ p[1][1] = "+" /\ Names(p[1], x) /\ After(1)
            \/ \E i \in 2..n : p[i][1] = "+" /\ Names(p[i], x) /\ After(i)
    <3>1. 1 \in 1..n /\ 2..n \subseteq 1..n /\ \A i \in 1..n : i = 1 \/ i \in 2..n
      BY <1>1
    <3> HIDE DEF After
    <3> QED
      BY <3>1
  <2>8. x \in S <=>
          \/ x \in read /\ After(1)
          \/ \E i \in 2..n : p[i][1] = "+" /\ Names(p[i], x) /\ After(i)
    <3> HIDE DEF After
    <3> QED
      BY <2>3, <2>5 DEF AfterReading
  <2>9. x \in R <=>
          \/ x \in ks /\ ~Names(p[1], x) /\ After(1)
          \/ p[1][1] = "+" /\ Names(p[1], x) /\ After(1)
          \/ \E i \in 2..n : p[i][1] = "+" /\ Names(p[i], x) /\ After(i)
    <3>1. x \in R <=>
            \/ x \in ks /\ \A i \in 1..n : ~Names(p[i], x)
            \/ \E i \in 1..n : p[i][1] = "+" /\ Names(p[i], x) /\ After(i)
      BY DEF AfterReading, n
    <3> HIDE DEF After
    <3> QED
      BY <3>1, <2>6, <2>7
  <2> HIDE DEF After
  <2> QED
    BY <2>8, <2>9, <1>3
<1>6. R \subseteq Gids /\ S \subseteq Gids
  BY DEF AfterReading
<1> HIDE DEF R, S
<1>7. S = R
  BY <1>5, <1>6
<1> QED
  BY <1>7 DEF R, S, q

LEMMA AfterFirst ==
  ASSUME NEW gs \in SUBSET Gids
  PROVE  AfterReading({}, IF gs = {} THEN <<>> ELSE << <<"+", gs>> >>) = gs
<1> DEFINE p == IF gs = {} THEN <<>> ELSE << <<"+", gs>> >>
<1>1. CASE gs = {}
  <2>1. Len(p) = 0
    BY <1>1
  <2> QED
    BY <1>1, <2>1 DEF AfterReading
<1>2. CASE gs # {}
  <2>1. Len(p) = 1 /\ p[1] = <<"+", gs>>
    BY <1>2
  <2>2. 1..Len(p) = {1} /\ 1+1..Len(p) = {}
    BY <2>1
  <2>3. p[1][1] = "+" /\ \A x : Names(p[1], x) <=> x \in gs
    BY <2>1 DEF Names
  <2> HIDE DEF p
  <2>4. AfterReading({}, p) = gs
    BY <2>2, <2>3 DEF AfterReading
  <2> QED
    BY <2>4 DEF p
<1> QED
  BY <1>1, <1>2
-----------------------------------------------------------------------------
(* The guard side: each function on the State keeps the running guard's    *)
(* set and the backend's in step.                                          *)

LEMMA GuardSideStill ==
  ASSUME GuardSide, UNCHANGED <<stdin, groups, guardVars>>, backend # "up" => backend' # "up"
  PROVE  GuardSide'
<1>1. UNCHANGED <<guard, pipe, known>>
  BY DEF guardVars
<1>2. GuardKnowsGroups'
  BY <1>1 DEF GuardSide, GuardKnowsGroups, Replayed
<1> QED
  BY <1>1, <1>2 DEF GuardSide, GuardsInOrder

LEMMA SendKeeps ==
  ASSUME TypeOK, GuardSide, NEW sign \in {"+", "-"}, NEW gs \in SUBSET Gids, Send(sign, gs),
         backend = "up", UNCHANGED <<backend, guard, known>>,
         groups' = IF sign = "+" THEN groups \cup gs ELSE groups \ gs
  PROVE  /\ GuardSide' /\ GuardTypes'
         /\ stdin' \in Guards \cup {NoGuard}
<1>1. GuardTypes /\ stdin \in Guards \cup {NoGuard}
  BY Types DEF StateTypes
<1>2. CASE stdin # NoGuard /\ guard[stdin] = "up"
  <2>1. /\ stdin \in Guards /\ stdin' = stdin
        /\ pipe' = [pipe EXCEPT ![stdin] = Append(@, <<sign, gs>>)]
    BY <1>1, <1>2 DEF Send
  <2>2. pipe'[stdin] = Append(pipe[stdin], <<sign, gs>>)
        /\ \A g \in Guards \ {stdin} : pipe'[g] = pipe[g]
    BY <2>1, <1>1 DEF GuardTypes
  <2>3. AfterReading(known[stdin], pipe'[stdin]) =
          IF sign = "+" THEN Replayed(stdin) \cup gs ELSE Replayed(stdin) \ gs
    <3>1. known[stdin] \in SUBSET Gids /\ pipe[stdin] \in Seq(Lines)
      BY <2>1, <1>1, LinesOf
    <3>2. ASSUME NEW ks \in SUBSET Gids, NEW p \in Seq(Lines)
          PROVE  AfterReading(ks, Append(p, <<sign, gs>>)) =
                   IF sign = "+" THEN AfterReading(ks, p) \cup gs ELSE AfterReading(ks, p) \ gs
      <4>1. CASE sign = "+"
        BY <4>1, AfterAppend
      <4>2. CASE sign = "-"
        BY <4>2, AfterAppend
      <4> QED
        BY <4>1, <4>2
    <3> QED
      BY <3>1, <3>2, <2>2 DEF Replayed
  <2>5. GuardKnowsGroups'
    BY <2>1, <2>3, <1>2 DEF GuardSide, GuardKnowsGroups, Replayed
  <2>6. GuardsInOrder'
    BY <2>1, <2>2, <1>2 DEF GuardSide, GuardsInOrder
  <2>7. GuardTypes'
    <3>1. <<sign, gs>> \in Lines
      BY DEF Lines
    <3>2. Append(pipe[stdin], <<sign, gs>>) \in Seq(Lines)
      BY <3>1, <2>1, <1>1, LinesOf, AppendProperties
    <3> QED
      BY <3>2, <2>1, <1>1 DEF GuardTypes
  <2> QED
    BY <2>1, <2>5, <2>6, <2>7 DEF GuardSide
<1>3. CASE ~(stdin # NoGuard /\ guard[stdin] = "up")
  <2>1. stdin' = NoGuard /\ pipe' = pipe
    BY <1>3 DEF Send
  <2> QED
    BY <2>1, <1>1 DEF GuardSide, GuardsInOrder, GuardKnowsGroups, GuardTypes
<1> QED
  BY <1>2, <1>3

LEMMA SpawnGuardKeeps ==
  ASSUME TypeOK, GuardSide, backend = "up", UNCHANGED <<backend, known>>,
         \/ SpawnGuard(groups') /\ groups' \in SUBSET Gids
         \/ \E p \in Guards \cup {NoGuard} : SpawnFails(p)
  PROVE  /\ GuardSide' /\ GuardTypes'
         /\ stdin' \in Guards \cup {NoGuard} /\ pid' \in Guards \cup {NoGuard}
<1>1. GuardTypes
  BY Types
<1>2. ASSUME NEW p \in Guards \cup {NoGuard}, SpawnFails(p)
      PROVE  /\ GuardSide' /\ GuardTypes'
             /\ stdin' \in Guards \cup {NoGuard} /\ pid' \in Guards \cup {NoGuard}
  BY <1>1, <1>2 DEF SpawnFails, GuardSide, GuardsInOrder, GuardKnowsGroups, GuardTypes
<1>3. ASSUME SpawnGuard(groups'), groups' \in SUBSET Gids
      PROVE  /\ GuardSide' /\ GuardTypes'
             /\ stdin' \in Guards \cup {NoGuard} /\ pid' \in Guards \cup {NoGuard}
  <2>1. PICK g \in Guards :
          /\ guard[g] = "none"
          /\ guard' = [guard EXCEPT ![g] = "up"]
          /\ stdin' = g /\ pid' = g
          /\ pipe' = [pipe EXCEPT ![g] = IF groups' = {} THEN <<>> ELSE << <<"+", groups'>> >>]
    BY <1>3 DEF SpawnGuard
  <2>2. /\ guard'[g] = "up" /\ \A h \in Guards \ {g} : guard'[h] = guard[h]
        /\ pipe'[g] = IF groups' = {} THEN <<>> ELSE << <<"+", groups'>> >>
        /\ \A h \in Guards \ {g} : pipe'[h] = pipe[h]
    BY <2>1, <1>1 DEF GuardTypes
  <2>3. known'[g] = {}
    BY <2>1 DEF GuardSide, GuardsInOrder
  <2>4. AfterReading(known'[g], pipe'[g]) = groups'
    BY <2>2, <2>3, <1>3, AfterFirst
  <2>5. GuardKnowsGroups'
    BY <2>1, <2>4 DEF GuardKnowsGroups, Replayed
  <2>6. GuardsInOrder'
    BY <2>1, <2>2, Apart DEF GuardSide, GuardsInOrder
  <2>7. GuardTypes'
    <3>1. <<"+", groups'>> \in Lines
      BY <1>3 DEF Lines
    <3>2. pipe'[g] \in Seq(Lines)
      BY <3>1, <2>2, EmptySeq
    <3>3. pipe' \in [Guards -> Seq(Lines)]
      BY <3>2, <2>1, <2>2, <1>1 DEF GuardTypes
    <3> QED
      BY <3>3, <2>1, <1>1 DEF GuardTypes
  <2> QED
    BY <2>1, <2>5, <2>6, <2>7 DEF GuardSide
<1> QED
  BY <1>2, <1>3

(* register_in and unregister add the group, take it away, and say so.     *)
LEMMA RegisterInKeeps ==
  ASSUME TypeOK, GuardSide, NEW g \in Gids, RegisterIn(g), backend = "up",
         UNCHANGED <<backend, known, started, finishing>>
  PROVE  GuardSide' /\ GuardTypes' /\ StateTypes' /\ groups' = groups \cup {g}
<1>1. StateTypes /\ GuardTypes
  BY Types
<1>2. groups' = groups \cup {g} /\ groups' \in SUBSET Gids
  BY <1>1 DEF RegisterIn, StateTypes
<1>3. CASE g \in groups /\ UNCHANGED <<stdin, pid, respawns, guard, pipe>>
  <2>1. groups' = groups
    BY <1>2, <1>3
  <2> QED
    BY <2>1, <1>1, <1>3, GuardSideStill DEF StateTypes, GuardTypes, guardVars
<1>4. CASE Send("+", {g}) /\ UNCHANGED <<pid, respawns, guard>>
  <2>1. GuardSide' /\ GuardTypes' /\ stdin' \in Guards \cup {NoGuard}
    BY <1>2, <1>4, SendKeeps
  <2> QED
    BY <2>1, <1>1, <1>2, <1>4 DEF StateTypes
<1>5. CASE respawns < RespawnMax /\ respawns' = respawns + 1
           /\ (SpawnGuard(groups \cup {g}) \/ SpawnFails(pid))
  <2>1. /\ GuardSide' /\ GuardTypes'
        /\ stdin' \in Guards \cup {NoGuard} /\ pid' \in Guards \cup {NoGuard}
    BY <1>1, <1>2, <1>5, SpawnGuardKeeps DEF StateTypes
  <2>2. respawns' \in 0..RespawnMax
    BY <1>1, <1>5, Apart DEF StateTypes
  <2> QED
    BY <2>1, <2>2, <1>1, <1>2 DEF StateTypes
<1>6. CASE stdin = NoGuard /\ UNCHANGED <<stdin, pid, respawns, guard, pipe>>
  BY <1>1, <1>2, <1>6 DEF GuardSide, GuardsInOrder, GuardKnowsGroups, StateTypes, GuardTypes
<1> QED
  BY <1>2, <1>3, <1>4, <1>5, <1>6 DEF RegisterIn, MayRespawn

LEMMA UnregisterInKeeps ==
  ASSUME TypeOK, GuardSide, NEW g \in Gids, UnregisterIn(g), backend = "up", backend' = backend
  PROVE  /\ GuardSide' /\ GuardTypes' /\ StateTypes' /\ groups' = groups \ {g}
         /\ finishing' = finishing
<1>1. StateTypes /\ GuardTypes
  BY Types
<1>2. groups' = groups \ {g} /\ UNCHANGED <<started, pid, finishing, respawns, guard, known>>
  BY DEF UnregisterIn
<1>3. CASE g \in groups
  <2>1. Send("-", {g})
    BY <1>3 DEF UnregisterIn
  <2>2. GuardSide' /\ GuardTypes' /\ stdin' \in Guards \cup {NoGuard}
    BY <1>2, <2>1, SendKeeps
  <2> QED
    BY <2>2, <1>1, <1>2 DEF StateTypes
<1>4. CASE g \notin groups
  <2>1. groups' = groups /\ UNCHANGED <<stdin, pipe>>
    BY <1>2, <1>4 DEF UnregisterIn
  <2> QED
    BY <2>1, <1>1, <1>2, GuardSideStill DEF StateTypes, GuardTypes, guardVars
<1> QED
  BY <1>3, <1>4
-----------------------------------------------------------------------------
(* The kernel side, kernel by kernel: a step of one kernel's task or       *)
(* keeper leaves what is true of the others.                               *)

TaskOwnsOf(k) ==
  /\ task[k] = "none" => leader[k] = "none" /\ k \notin members /\ gid[k] = NoGid
  /\ task[k] \notin {"none", "lost"} => gid[k] \in Gids
  /\ task[k] = "lost" <=> backend # "up"
  /\ task[k] \in Unreaped /\ k \notin Blind => leader[k] \in {"up", "zombie"}
  /\ task[k] \in Aborted => ~Alive(k)
  /\ task[k] \in Exited => leader[k] # "up"

KilledOnceOf(k) ==
  /\ task[k] \in Unkept => keeper[k] = "none" /\ k \notin killed
  /\ task[k] \in {"signal", "reap", "unregister", "done"} => k \in killed
  /\ keeper[k] \in {"signal", "unregister", "drop", "gone"} => k \in killed
  /\ k \in killed /\ Alive(k) => SignalDue(k)

FinishStopsOf(k) ==
  ~recycles /\ finishing /\ Alive(k) => task[k] = "spawned" \/ SignalDue(k)

RegisteredOf(k) ==
  ~recycles /\ ~finishing /\ task[k] \notin {"none", "spawned", "lost"} /\ Alive(k) /\ ~SignalDue(k)
    => gid[k] \in groups

KernelOf(k) == TaskOwnsOf(k) /\ KilledOnceOf(k) /\ FinishStopsOf(k) /\ RegisteredOf(k)

LEMMA ByKernel ==
  ASSUME backend = "up"
  PROVE  KernelSide <=> /\ GroupIsHeld /\ IdsOnce /\ "task" \notin struck
                        /\ \A k \in Kernels : KernelOf(k)
BY DEF KernelSide, TaskOwns, KilledOnce, FinishStops, AliveIsRegisteredFresh, AliveIsRegistered,
       TaskStrikesItsOwn, NoneOutlivesExit, KernelOf, TaskOwnsOf, KilledOnceOf, FinishStopsOf,
       RegisteredOf

LEMMA ByKernelNext ==
  ASSUME backend' = "up"
  PROVE  KernelSide' <=> /\ GroupIsHeld' /\ IdsOnce' /\ "task" \notin struck'
                         /\ \A k \in Kernels : KernelOf(k)'
BY DEF KernelSide, TaskOwns, KilledOnce, FinishStops, AliveIsRegisteredFresh, AliveIsRegistered,
       TaskStrikesItsOwn, NoneOutlivesExit, KernelOf, TaskOwnsOf, KilledOnceOf, FinishStopsOf,
       RegisteredOf

LEMMA OneKernelMoves ==
  ASSUME TypeOK, KernelSide, backend = "up", UNCHANGED <<backend, finishing>>,
         NEW k \in Kernels, Calm({k}), "task" \notin struck',
         \A j \in Kernels \ {k} :
           /\ task'[j] = task[j] /\ keeper'[j] = keeper[j] /\ (j \in killed' <=> j \in killed),
         gid[k] \in Gids, groups \ {gid[k]} \subseteq groups', KernelOf(k)'
  PROVE  KernelSide'
<1>1. \A j \in Kernels : KernelOf(j)
  BY ByKernel
<1>2. IdsOnce
  BY ByKernel
<1>3. IdsOnce' /\ GroupIsHeld'
  BY <1>2 DEF IdsOnce, Calm
<1>4. ASSUME NEW j \in Kernels \ {k} PROVE KernelOf(j)'
  <2>1. /\ task'[j] = task[j] /\ keeper'[j] = keeper[j] /\ (j \in killed' <=> j \in killed)
        /\ gid'[j] = gid[j] /\ recycles' = recycles
        /\ leader'[j] = leader[j] \/ (leader[j] = "up" /\ leader'[j] = "zombie")
        /\ Alive(j)' => Alive(j)
    BY DEF Calm
  <2>2. SignalDue(j)' <=> SignalDue(j)
    BY <2>1 DEF SignalDue
  <2>3. TaskOwnsOf(j)'
    BY <1>1, <2>1 DEF KernelOf, TaskOwnsOf, Alive
  <2>4. KilledOnceOf(j)' /\ FinishStopsOf(j)'
    BY <1>1, <2>1, <2>2 DEF KernelOf, KilledOnceOf, FinishStopsOf
  <2>5. RegisteredOf(j)'
    <3>1. task[j] \notin {"none", "lost"} => gid[j] \in Gids
      BY <1>1 DEF KernelOf, TaskOwnsOf
    <3>2. ~recycles /\ task[j] \notin {"none", "lost"} => gid[j] # gid[k]
      BY <3>1, <1>2, Apart DEF IdsOnce
    <3> QED
      BY <3>2, <1>1, <2>1, <2>2 DEF KernelOf, RegisteredOf
  <2> QED
    BY <2>3, <2>4, <2>5 DEF KernelOf
<1> QED
  BY <1>3, <1>4, ByKernelNext

(* While the backend is up nothing is claimed of its end.                  *)
LEMMA UpIsEnough ==
  ASSUME OsTypes', TaskTypes', StateTypes', GuardTypes', backend' = "up",
         KernelSide', GuardSide'
  PROVE  IInv'
BY TypesNext DEF IInv, GuardStopsAll, BackendTypes

(* A group's signal from its own task meets its own group, or one that is  *)
(* gone.                                                                   *)
LEMMA OwnStrike ==
  ASSUME IInv, NEW k \in Kernels, backend = "up", task[k] \notin {"none"},
         NEW who \in Strikers, Strike({gid[k]}, who, {k}),
         who = "task" => leader[k] \in {"up", "zombie"}
  PROVE  Calm({k}) /\ ~Alive(k)' /\ "task" \notin struck' /\ gid[k] \in Gids
         /\ (leader'[k] \in {"up", "zombie"} <=> leader[k] \in {"up", "zombie"})
<1>1. TypeOK /\ GroupIsHeld /\ TaskOwns /\ "task" \notin struck
  BY DEF IInv, KernelSide, TaskStrikesItsOwn
<1>2. gid[k] \in Gids
  BY <1>1 DEF TaskOwns
<1>3. /\ Calm({}) /\ ~Alive(k)'
      /\ struck' = struck \/ struck' = struck \cup {who}
      /\ holder[gid[k]] \in {k} \cup {Free} => struck' = struck
  <2> DEFINE gs == {gid[k]}
  <2>1. gs \in SUBSET Gids /\ gid[k] \in gs
    BY <1>2
  <2>2. (\A g \in gs : holder[g] \in {k} \cup {Free}) <=> holder[gid[k]] \in {k} \cup {Free}
    OBVIOUS
  <2>3. Strike(gs, who, {k})
    OBVIOUS
  <2> HIDE DEF gs
  <2>4. /\ Calm({})
        /\ \A j \in Kernels : gid[j] \in gs => ~Alive(j)'
        /\ struck' = struck \/ struck' = struck \cup {who}
        /\ (\A g \in gs : holder[g] \in {k} \cup {Free}) => struck' = struck
    BY <2>1, <2>3, <1>1, StrikeIsCalm
  <2> QED
    BY <2>1, <2>2, <2>4
<1>4. who = "task" => holder[gid[k]] = k
  BY <1>1 DEF GroupIsHeld
<1>5. "task" \notin struck'
  BY <1>1, <1>3, <1>4
<1>6. leader'[k] \in {"up", "zombie"} <=> leader[k] \in {"up", "zombie"}
  BY <1>3 DEF Calm
<1> QED
  BY <1>2, <1>3, <1>5, <1>6 DEF Calm
-----------------------------------------------------------------------------
(* A kernel's start.                                                       *)

LEMMA AtFacts ==
  ASSUME IInv, NEW k \in Kernels, NEW from \in TaskPCs, NEW to \in TaskPCs, At(k, from, to),
         UNCHANGED <<backend, keeper, killed>>
  PROVE  /\ backend = "up" /\ backend' = "up" /\ task[k] = from /\ task'[k] = to
         /\ TaskTypes' /\ UNCHANGED keeper /\ UNCHANGED killed
         /\ \A j \in Kernels \ {k} :
              /\ task'[j] = task[j] /\ keeper'[j] = keeper[j] /\ (j \in killed' <=> j \in killed)
<1>1. TaskTypes
  BY Types DEF IInv
<1> QED
  BY <1>1 DEF At, Move, TaskTypes

LEMMA StillStates ==
  ASSUME IInv, UNCHANGED <<stateVars, guardVars, backend>>
  PROVE  StateTypes' /\ GuardTypes' /\ GuardSide' /\ groups' = groups /\ finishing' = finishing
<1>1. StateTypes /\ GuardTypes /\ GuardSide
  BY Types DEF IInv
<1>2. StateTypes' /\ GuardTypes'
  BY <1>1 DEF StateTypes, GuardTypes, stateVars, guardVars
<1>3. UNCHANGED <<stdin, groups, guardVars>> /\ finishing' = finishing
  BY DEF stateVars
<1> QED
  BY <1>1, <1>2, <1>3, GuardSideStill

LEMMA SpawnKeeps ==
  ASSUME IInv, NEW k \in Kernels, Spawn(k)
  PROVE  IInv'
<1>1. /\ backend = "up" /\ backend' = "up" /\ task[k] = "none" /\ task'[k] = "spawned"
      /\ TaskTypes' /\ keeper' = keeper /\ killed' = killed
      /\ \A j \in Kernels \ {k} : task'[j] = task[j]
  BY AtFacts DEF Spawn, TaskPCs
<1>2. StateTypes' /\ GuardTypes' /\ GuardSide' /\ groups' = groups /\ finishing' = finishing
  BY <1>1, StillStates DEF Spawn
<1>3. PICK g \in Gids :
        /\ holder[g] = Free /\ (recycles \/ \A j \in Kernels : gid[j] # g)
        /\ holder' = [holder EXCEPT ![g] = k]
        /\ gid' = [gid EXCEPT ![k] = g]
  BY DEF Spawn
<1>4. leader' = [leader EXCEPT ![k] = "up"] /\ UNCHANGED <<recycles, members, struck>>
  BY DEF Spawn
<1>5. OsTypes /\ GroupIsHeld /\ IdsOnce /\ "task" \notin struck /\ \A j \in Kernels : KernelOf(j)
  BY <1>1, Types, ByKernel DEF IInv
<1>6. /\ holder'[g] = k /\ \A h \in Gids \ {g} : holder'[h] = holder[h]
      /\ gid'[k] = g /\ \A j \in Kernels \ {k} : gid'[j] = gid[j]
      /\ leader'[k] = "up" /\ \A j \in Kernels \ {k} : leader'[j] = leader[j]
  BY <1>3, <1>4, <1>5 DEF OsTypes
<1>7. OsTypes'
  BY <1>3, <1>4, <1>5 DEF OsTypes
<1>8. GroupIsHeld'
  BY <1>3, <1>4, <1>5, <1>6, Apart DEF GroupIsHeld
<1>9. IdsOnce'
  BY <1>3, <1>4, <1>5, <1>6 DEF IdsOnce
<1>10. ASSUME NEW j \in Kernels \ {k} PROVE KernelOf(j)'
  <2>1. (Alive(j)' <=> Alive(j)) /\ (SignalDue(j)' <=> SignalDue(j))
    BY <1>1, <1>4, <1>6 DEF Alive, SignalDue
  <2>2. KernelOf(j) /\ task'[j] = task[j] /\ keeper'[j] = keeper[j] /\ killed' = killed
        /\ leader'[j] = leader[j] /\ gid'[j] = gid[j] /\ members' = members
        /\ recycles' = recycles /\ groups' = groups /\ finishing' = finishing /\ backend' = backend
    BY <1>1, <1>2, <1>4, <1>5, <1>6
  <2> QED
    BY <2>1, <2>2 DEF KernelOf, TaskOwnsOf, KilledOnceOf, FinishStopsOf, RegisteredOf
<1>11. KernelOf(k)'
  <2>1. KernelOf(k)
    BY <1>5
  <2> QED
    BY <2>1, <1>1, <1>6 DEF KernelOf, TaskOwnsOf, KilledOnceOf, FinishStopsOf, RegisteredOf,
      Unreaped, Aborted, Exited, Unkept, Alive
<1>12. KernelSide'
  BY <1>1, <1>4, <1>5, <1>8, <1>9, <1>10, <1>11, ByKernelNext
<1> QED
  BY <1>1, <1>2, <1>7, <1>12, UpIsEnough

(* What a step of kernel k's own has to show: its process and group are    *)
(* calm, its registration is the only one it may take away, and what its   *)
(* task and keeper stand for is so again.                                  *)
LEMMA OwnStepKeeps ==
  ASSUME IInv, NEW k \in Kernels, backend = "up", backend' = "up", finishing' = finishing,
         Calm({k}), "task" \notin struck', TaskTypes',
         \A j \in Kernels \ {k} :
           /\ task'[j] = task[j] /\ keeper'[j] = keeper[j] /\ (j \in killed' <=> j \in killed),
         task[k] # "none", groups \ {gid[k]} \subseteq groups', KernelOf(k)',
         StateTypes', GuardTypes', GuardSide'
  PROVE  IInv'
<1>1. gid[k] \in Gids
  BY DEF IInv, KernelSide, TaskOwns
<1>2. KernelSide'
  BY <1>1, OneKernelMoves DEF IInv
<1>3. OsTypes'
  BY DEF Calm
<1> QED
  BY <1>2, <1>3, UpIsEnough

LEMMA KernelFacts ==
  ASSUME IInv, backend = "up", NEW k \in Kernels
  PROVE  /\ KernelOf(k) /\ TypeOK /\ GroupIsHeld /\ GuardSide /\ "task" \notin struck
         /\ task[k] # "none" => gid[k] \in Gids
BY ByKernel DEF IInv, KernelSide, TaskOwns, TaskStrikesItsOwn

(* The system's part of a step that does nothing to it.                    *)
LEMMA StillFacts ==
  ASSUME IInv, NEW k \in Kernels, UNCHANGED osVars, backend = "up"
  PROVE  /\ Calm({k}) /\ "task" \notin struck' /\ (Alive(k)' <=> Alive(k))
         /\ leader' = leader /\ members' = members /\ gid' = gid /\ recycles' = recycles
BY StillIsCalm, KernelFacts DEF Calm, osVars, Alive

LEMMA RegisterKeeps ==
  ASSUME IInv, NEW k \in Kernels, Register(k)
  PROVE  IInv'
<1>1. /\ backend = "up" /\ backend' = "up" /\ task[k] = "spawned" /\ task'[k] = "starting"
      /\ TaskTypes' /\ keeper' = keeper /\ killed' = killed
      /\ \A j \in Kernels \ {k} :
           /\ task'[j] = task[j] /\ keeper'[j] = keeper[j] /\ (j \in killed' <=> j \in killed)
  BY AtFacts DEF Register, TaskPCs
<1>2. /\ KernelOf(k) /\ TypeOK /\ GroupIsHeld /\ GuardSide /\ gid[k] \in Gids
      /\ UNCHANGED <<backend, started, finishing, known>>
  BY <1>1, KernelFacts DEF Register
<1>3. CASE finishing /\ Strike({gid[k]}, "register", {k})
           /\ UNCHANGED <<stdin, pid, groups, respawns, guard, pipe>>
  <2>1. /\ Calm({k}) /\ ~Alive(k)' /\ "task" \notin struck'
        /\ (leader'[k] \in {"up", "zombie"} <=> leader[k] \in {"up", "zombie"})
    BY <1>1, <1>3, OwnStrike DEF Strikers
  <2>2. StateTypes' /\ GuardTypes' /\ GuardSide' /\ groups' = groups
    BY <1>1, <1>2, <1>3, StillStates DEF stateVars, guardVars
  <2>3. KernelOf(k)'
    BY <1>1, <1>2, <2>1 DEF Calm, KernelOf, TaskOwnsOf, KilledOnceOf, FinishStopsOf, RegisteredOf,
       Unreaped, Aborted, Exited, Unkept
  <2> QED
    BY <1>1, <1>2, <2>1, <2>2, <2>3, OwnStepKeeps
<1>4. CASE ~finishing /\ RegisterIn(gid[k]) /\ UNCHANGED osVars
  <2>1. StateTypes' /\ GuardTypes' /\ GuardSide' /\ groups' = groups \cup {gid[k]}
    BY <1>1, <1>2, <1>4, RegisterInKeeps
  <2>2. /\ Calm({k}) /\ "task" \notin struck' /\ (Alive(k)' <=> Alive(k))
        /\ leader' = leader /\ members' = members /\ gid' = gid
    BY <1>1, <1>4, StillFacts
  <2>3. KernelOf(k)'
    BY <1>1, <1>2, <1>4, <2>1, <2>2 DEF KernelOf, TaskOwnsOf, KilledOnceOf, FinishStopsOf,
       RegisteredOf, Unreaped, Aborted, Exited, Unkept
  <2> QED
    BY <1>1, <1>2, <2>1, <2>2, <2>3, OwnStepKeeps
<1> QED
  BY <1>3, <1>4 DEF Register

LEMMA LaunchedKeeps ==
  ASSUME IInv, NEW k \in Kernels, Launched(k)
  PROVE  IInv'
<1>1. /\ backend = "up" /\ backend' = "up" /\ task[k] = "starting"
      /\ task' = [task EXCEPT ![k] = "watch"] /\ keeper' = [keeper EXCEPT ![k] = "held"]
      /\ killed' = killed /\ UNCHANGED <<osVars, stateVars, guardVars, backend>>
  BY DEF Launched, At, Move
<1>2. KernelOf(k) /\ TaskTypes
  BY <1>1, KernelFacts, Types
<1>3. /\ task'[k] = "watch" /\ keeper'[k] = "held" /\ TaskTypes'
      /\ \A j \in Kernels \ {k} :
           /\ task'[j] = task[j] /\ keeper'[j] = keeper[j] /\ (j \in killed' <=> j \in killed)
  BY <1>1, <1>2 DEF TaskTypes, TaskPCs, KeeperPCs
<1>4. StateTypes' /\ GuardTypes' /\ GuardSide' /\ groups' = groups /\ finishing' = finishing
  BY <1>1, StillStates
<1>5. /\ Calm({k}) /\ "task" \notin struck' /\ (Alive(k)' <=> Alive(k)) /\ recycles' = recycles
      /\ leader' = leader /\ members' = members /\ gid' = gid
  BY <1>1, StillFacts
<1>6. KernelOf(k)'
  BY <1>1, <1>2, <1>3, <1>4, <1>5 DEF KernelOf, TaskOwnsOf, KilledOnceOf, FinishStopsOf,
     RegisteredOf, Unreaped, Aborted, Exited, Unkept, SignalDue
<1> QED
  BY <1>1, <1>3, <1>4, <1>5, <1>6, OwnStepKeeps

(* A step of k's task that may reap the process, whose exit was seen.      *)
LEMMA MaybeReaped ==
  ASSUME IInv, NEW k \in Kernels, backend = "up", Reaped(k) \/ UNCHANGED osVars,
         leader[k] # "up"
  PROVE  /\ Calm({k}) /\ "task" \notin struck' /\ (Alive(k)' <=> Alive(k)) /\ leader'[k] # "up"
         /\ members' = members /\ gid' = gid /\ recycles' = recycles
<1>1. CASE Reaped(k)
  <2>1. Calm({k}) /\ struck' = struck /\ leader'[k] = "reaped" /\ members' = members
    BY <1>1, ReapedIsCalm, KernelFacts
  <2> QED
    BY <2>1, KernelFacts DEF Calm, Alive
<1>2. CASE UNCHANGED osVars
  BY <1>2, StillFacts
<1> QED
  BY <1>1, <1>2

LEMMA StartFailsKeeps ==
  ASSUME IInv, NEW k \in Kernels, StartFails(k)
  PROVE  IInv'
<1>1. /\ backend = "up" /\ backend' = "up" /\ task[k] = "starting" /\ task'[k] = "abort"
      /\ TaskTypes' /\ keeper' = keeper /\ killed' = killed
      /\ \A j \in Kernels \ {k} :
           /\ task'[j] = task[j] /\ keeper'[j] = keeper[j] /\ (j \in killed' <=> j \in killed)
  BY AtFacts DEF StartFails, TaskPCs
<1>2. StateTypes' /\ GuardTypes' /\ GuardSide' /\ groups' = groups /\ finishing' = finishing
  BY <1>1, StillStates DEF StartFails
<1>3. /\ Calm({k}) /\ "task" \notin struck' /\ (Alive(k)' <=> Alive(k))
      /\ members' = members /\ gid' = gid /\ recycles' = recycles
      /\ k \notin Blind => leader' = leader
  <2>1. CASE k \in Blind /\ leader[k] = "zombie"
    BY <2>1, <1>1, MaybeReaped DEF StartFails
  <2>2. CASE ~(k \in Blind /\ leader[k] = "zombie")
    BY <2>2, <1>1, StillFacts DEF StartFails
  <2> QED
    BY <2>1, <2>2
<1>4. KernelOf(k)'
  BY <1>1, <1>2, <1>3, KernelFacts DEF KernelOf, TaskOwnsOf, KilledOnceOf, FinishStopsOf,
     RegisteredOf, Unreaped, Aborted, Exited, Unkept, SignalDue
<1> QED
  BY <1>1, <1>2, <1>3, <1>4, OwnStepKeeps

LEMMA AbortKillKeeps ==
  ASSUME IInv, NEW k \in Kernels, AbortKill(k)
  PROVE  IInv'
<1>1. /\ backend = "up" /\ backend' = "up" /\ task[k] = "abort" /\ task'[k] = "abortReap"
      /\ TaskTypes' /\ keeper' = keeper /\ killed' = killed
      /\ \A j \in Kernels \ {k} :
           /\ task'[j] = task[j] /\ keeper'[j] = keeper[j] /\ (j \in killed' <=> j \in killed)
  BY AtFacts DEF AbortKill, TaskPCs
<1>2. StateTypes' /\ GuardTypes' /\ GuardSide' /\ groups' = groups /\ finishing' = finishing
  BY <1>1, StillStates DEF AbortKill
<1>3. Calm({k}) /\ ~Alive(k)' /\ "task" \notin struck' /\ gid[k] \in Gids
  <2>1. Owner(k) \in Strikers /\ (Owner(k) = "task" => k \notin Blind)
    BY DEF Owner, Strikers
  <2>2. k \notin Blind => leader[k] \in {"up", "zombie"}
    BY <1>1, KernelFacts DEF KernelOf, TaskOwnsOf, Unreaped
  <2> QED
    BY <2>1, <2>2, <1>1, OwnStrike DEF AbortKill
<1>4. KernelOf(k)'
  BY <1>1, <1>2, <1>3, KernelFacts DEF Calm, KernelOf, TaskOwnsOf, KilledOnceOf, FinishStopsOf,
     RegisteredOf, Unreaped, Aborted, Exited, Unkept, SignalDue
<1> QED
  BY <1>1, <1>2, <1>3, <1>4, OwnStepKeeps

LEMMA AbortReapKeeps ==
  ASSUME IInv, NEW k \in Kernels, AbortReap(k)
  PROVE  IInv'
<1>1. /\ backend = "up" /\ backend' = "up" /\ task[k] = "abortReap"
      /\ task'[k] = "abortUnregister" /\ TaskTypes' /\ keeper' = keeper /\ killed' = killed
      /\ \A j \in Kernels \ {k} :
           /\ task'[j] = task[j] /\ keeper'[j] = keeper[j] /\ (j \in killed' <=> j \in killed)
  BY AtFacts DEF AbortReap, TaskPCs
<1>2. StateTypes' /\ GuardTypes' /\ GuardSide' /\ groups' = groups /\ finishing' = finishing
  BY <1>1, StillStates DEF AbortReap
<1>3. ~Alive(k)
  BY <1>1, KernelFacts DEF KernelOf, TaskOwnsOf, Aborted
<1>4. /\ Calm({k}) /\ "task" \notin struck' /\ (Alive(k)' <=> Alive(k))
      /\ members' = members /\ gid' = gid /\ recycles' = recycles
  BY <1>1, <1>3, MaybeReaped DEF AbortReap, Alive
<1>5. KernelOf(k)'
  BY <1>1, <1>2, <1>3, <1>4, KernelFacts DEF KernelOf, TaskOwnsOf, KilledOnceOf, FinishStopsOf,
     RegisteredOf, Unreaped, Aborted, Exited, Unkept, SignalDue
<1> QED
  BY <1>1, <1>2, <1>4, <1>5, OwnStepKeeps

LEMMA AbortUnregisterKeeps ==
  ASSUME IInv, NEW k \in Kernels, AbortUnregister(k)
  PROVE  IInv'
<1>1. /\ backend = "up" /\ backend' = "up" /\ task[k] = "abortUnregister" /\ task'[k] = "failed"
      /\ TaskTypes' /\ keeper' = keeper /\ killed' = killed
      /\ \A j \in Kernels \ {k} :
           /\ task'[j] = task[j] /\ keeper'[j] = keeper[j] /\ (j \in killed' <=> j \in killed)
  BY AtFacts DEF AbortUnregister, TaskPCs
<1>2. /\ StateTypes' /\ GuardTypes' /\ GuardSide' /\ groups' = groups \ {gid[k]}
      /\ finishing' = finishing
  BY <1>1, KernelFacts, UnregisterInKeeps DEF AbortUnregister
<1>3. /\ Calm({k}) /\ "task" \notin struck' /\ (Alive(k)' <=> Alive(k))
      /\ leader' = leader /\ members' = members /\ gid' = gid /\ recycles' = recycles
  BY <1>1, StillFacts DEF AbortUnregister
<1>4. KernelOf(k)'
  BY <1>1, <1>2, <1>3, KernelFacts DEF KernelOf, TaskOwnsOf, KilledOnceOf, FinishStopsOf,
     RegisteredOf, Unreaped, Aborted, Exited, Unkept, SignalDue
<1> QED
  BY <1>1, <1>2, <1>3, <1>4, OwnStepKeeps
-----------------------------------------------------------------------------
(* The task that owns a running kernel's process.                          *)

LEMMA SeeExitKeeps ==
  ASSUME IInv, NEW k \in Kernels, SeeExit(k)
  PROVE  IInv'
<1>1. /\ backend = "up" /\ backend' = "up" /\ task[k] = "watch" /\ task'[k] = "kill"
      /\ TaskTypes' /\ keeper' = keeper /\ killed' = killed
      /\ \A j \in Kernels \ {k} :
           /\ task'[j] = task[j] /\ keeper'[j] = keeper[j] /\ (j \in killed' <=> j \in killed)
  BY AtFacts DEF SeeExit, TaskPCs
<1>2. StateTypes' /\ GuardTypes' /\ GuardSide' /\ groups' = groups /\ finishing' = finishing
  BY <1>1, StillStates DEF SeeExit
<1>3. /\ Calm({k}) /\ "task" \notin struck' /\ (Alive(k)' <=> Alive(k)) /\ leader'[k] # "up"
      /\ members' = members /\ gid' = gid /\ recycles' = recycles
      /\ k \notin Blind => leader' = leader
  <2>1. leader[k] # "up"
    BY <1>1, KernelFacts DEF SeeExit, KernelOf, TaskOwnsOf, Exited
  <2> QED
    BY <1>1, <2>1, MaybeReaped, StillFacts DEF SeeExit
<1>4. KernelOf(k)'
  BY <1>1, <1>2, <1>3, KernelFacts DEF KernelOf, TaskOwnsOf, KilledOnceOf, FinishStopsOf,
     RegisteredOf, Unreaped, Aborted, Exited, Unkept, SignalDue, Alive
<1> QED
  BY <1>1, <1>2, <1>3, <1>4, OwnStepKeeps

LEMMA WatchKillKeeps ==
  ASSUME IInv, NEW k \in Kernels, WatchKill(k)
  PROVE  IInv'
<1>1. /\ backend = "up" /\ backend' = "up" /\ task[k] = "kill"
      /\ task' = [task EXCEPT ![k] = IF k \in killed THEN "reap" ELSE "signal"]
      /\ keeper' = keeper /\ killed' = killed \cup {k}
      /\ UNCHANGED <<osVars, stateVars, guardVars, backend>>
  BY DEF WatchKill, At, Move
<1>2. /\ task'[k] = (IF k \in killed THEN "reap" ELSE "signal") /\ TaskTypes'
      /\ \A j \in Kernels \ {k} :
           /\ task'[j] = task[j] /\ keeper'[j] = keeper[j] /\ (j \in killed' <=> j \in killed)
  BY <1>1, KernelFacts, Types DEF TaskTypes, TaskPCs
<1>3. StateTypes' /\ GuardTypes' /\ GuardSide' /\ groups' = groups /\ finishing' = finishing
  BY <1>1, StillStates
<1>4. /\ Calm({k}) /\ "task" \notin struck' /\ (Alive(k)' <=> Alive(k)) /\ recycles' = recycles
      /\ leader' = leader /\ members' = members /\ gid' = gid
  BY <1>1, StillFacts
<1>5. KernelOf(k)'
  BY <1>1, <1>2, <1>3, <1>4, KernelFacts DEF KernelOf, TaskOwnsOf, KilledOnceOf, FinishStopsOf,
     RegisteredOf, Unreaped, Aborted, Exited, Unkept, SignalDue
<1> QED
  BY <1>1, <1>2, <1>3, <1>4, <1>5, OwnStepKeeps

LEMMA WatchSignalKeeps ==
  ASSUME IInv, NEW k \in Kernels, WatchSignal(k)
  PROVE  IInv'
<1>1. /\ backend = "up" /\ backend' = "up" /\ task[k] = "signal" /\ task'[k] = "reap"
      /\ TaskTypes' /\ keeper' = keeper /\ killed' = killed
      /\ \A j \in Kernels \ {k} :
           /\ task'[j] = task[j] /\ keeper'[j] = keeper[j] /\ (j \in killed' <=> j \in killed)
  BY AtFacts DEF WatchSignal, TaskPCs
<1>2. StateTypes' /\ GuardTypes' /\ GuardSide' /\ groups' = groups /\ finishing' = finishing
  BY <1>1, StillStates DEF WatchSignal
<1>3. /\ Calm({k}) /\ ~Alive(k)' /\ leader'[k] # "up" /\ "task" \notin struck'
      /\ gid[k] \in Gids /\ gid' = gid /\ recycles' = recycles
      /\ (leader'[k] \in {"up", "zombie"} <=> leader[k] \in {"up", "zombie"})
  <2>1. Owner(k) \in Strikers /\ (Owner(k) = "task" => k \notin Blind)
    BY DEF Owner, Strikers
  <2>2. k \notin Blind => leader[k] \in {"up", "zombie"}
    BY <1>1, KernelFacts DEF KernelOf, TaskOwnsOf, Unreaped
  <2> QED
    BY <2>1, <2>2, <1>1, OwnStrike DEF WatchSignal, Calm, Alive
<1>4. KernelOf(k)'
  BY <1>1, <1>2, <1>3, KernelFacts DEF KernelOf, TaskOwnsOf, KilledOnceOf, FinishStopsOf,
     RegisteredOf, Unreaped, Aborted, Exited, Unkept, SignalDue, Alive
<1> QED
  BY <1>1, <1>2, <1>3, <1>4, OwnStepKeeps

LEMMA WatchReapKeeps ==
  ASSUME IInv, NEW k \in Kernels, WatchReap(k)
  PROVE  IInv'
<1>1. /\ backend = "up" /\ backend' = "up" /\ task[k] = "reap" /\ task'[k] = "unregister"
      /\ TaskTypes' /\ keeper' = keeper /\ killed' = killed
      /\ \A j \in Kernels \ {k} :
           /\ task'[j] = task[j] /\ keeper'[j] = keeper[j] /\ (j \in killed' <=> j \in killed)
  BY AtFacts DEF WatchReap, TaskPCs
<1>2. StateTypes' /\ GuardTypes' /\ GuardSide' /\ groups' = groups /\ finishing' = finishing
  BY <1>1, StillStates DEF WatchReap
<1>3. /\ Calm({k}) /\ "task" \notin struck' /\ (Alive(k)' <=> Alive(k)) /\ leader'[k] # "up"
      /\ members' = members /\ gid' = gid /\ recycles' = recycles
  <2>1. leader[k] # "up"
    BY <1>1, KernelFacts DEF WatchReap, KernelOf, TaskOwnsOf, Exited
  <2> QED
    BY <1>1, <2>1, MaybeReaped, StillFacts DEF WatchReap
<1>4. KernelOf(k)'
  BY <1>1, <1>2, <1>3, KernelFacts DEF KernelOf, TaskOwnsOf, KilledOnceOf, FinishStopsOf,
     RegisteredOf, Unreaped, Aborted, Exited, Unkept, SignalDue, Alive
<1> QED
  BY <1>1, <1>2, <1>3, <1>4, OwnStepKeeps

LEMMA WatchUnregisterKeeps ==
  ASSUME IInv, NEW k \in Kernels, WatchUnregister(k)
  PROVE  IInv'
<1>1. /\ backend = "up" /\ backend' = "up" /\ task[k] = "unregister" /\ task'[k] = "done"
      /\ TaskTypes' /\ keeper' = keeper /\ killed' = killed
      /\ \A j \in Kernels \ {k} :
           /\ task'[j] = task[j] /\ keeper'[j] = keeper[j] /\ (j \in killed' <=> j \in killed)
  BY AtFacts DEF WatchUnregister, TaskPCs
<1>2. /\ StateTypes' /\ GuardTypes' /\ GuardSide' /\ groups' = groups \ {gid[k]}
      /\ finishing' = finishing
  BY <1>1, KernelFacts, UnregisterInKeeps DEF WatchUnregister
<1>3. /\ Calm({k}) /\ "task" \notin struck' /\ (Alive(k)' <=> Alive(k))
      /\ leader' = leader /\ members' = members /\ gid' = gid /\ recycles' = recycles
  BY <1>1, StillFacts DEF WatchUnregister
<1>4. KernelOf(k)'
  BY <1>1, <1>2, <1>3, KernelFacts DEF KernelOf, TaskOwnsOf, KilledOnceOf, FinishStopsOf,
     RegisteredOf, Unreaped, Aborted, Exited, Unkept, SignalDue, Alive
<1> QED
  BY <1>1, <1>2, <1>3, <1>4, OwnStepKeeps

-----------------------------------------------------------------------------
(* Whoever holds the Kernel.                                               *)

LEMMA KeepFacts ==
  ASSUME IInv, NEW k \in Kernels, NEW from \in KeeperPCs, NEW to \in KeeperPCs, Keep(k, from, to),
         UNCHANGED <<backend, task>>, killed' = killed \/ killed' = killed \cup {k}
  PROVE  /\ backend = "up" /\ backend' = "up" /\ keeper[k] = from /\ keeper'[k] = to
         /\ TaskTypes' /\ UNCHANGED task
         /\ \A j \in Kernels \ {k} :
              /\ task'[j] = task[j] /\ keeper'[j] = keeper[j] /\ (j \in killed' <=> j \in killed)
<1>1. TaskTypes
  BY Types DEF IInv
<1> QED
  BY <1>1 DEF Keep, TaskTypes

(* A kernel has a keeper only once it was launched.                        *)
LEMMA KeptIsLaunched ==
  ASSUME IInv, NEW k \in Kernels, backend = "up", keeper[k] # "none"
  PROVE  task[k] \notin Unkept /\ task[k] # "none"
BY KernelFacts DEF KernelOf, KilledOnceOf, Unkept

LEMMA StopKeeps ==
  ASSUME IInv, NEW k \in Kernels, Stop(k)
  PROVE  IInv'
<1>1. /\ backend = "up" /\ backend' = "up" /\ keeper[k] = "held" /\ keeper'[k] = "kill"
      /\ TaskTypes' /\ task' = task /\ killed' = killed
      /\ \A j \in Kernels \ {k} :
           /\ task'[j] = task[j] /\ keeper'[j] = keeper[j] /\ (j \in killed' <=> j \in killed)
  BY KeepFacts DEF Stop, KeeperPCs
<1>0. task[k] \notin Unkept /\ task[k] # "none"
  BY <1>1, KeptIsLaunched
<1>2. StateTypes' /\ GuardTypes' /\ GuardSide' /\ groups' = groups /\ finishing' = finishing
  BY <1>1, StillStates DEF Stop
<1>3. /\ Calm({k}) /\ "task" \notin struck' /\ (Alive(k)' <=> Alive(k))
      /\ leader' = leader /\ members' = members /\ gid' = gid /\ recycles' = recycles
  BY <1>1, StillFacts DEF Stop
<1>4. KernelOf(k)'
  BY <1>0, <1>1, <1>2, <1>3, KernelFacts DEF KernelOf, TaskOwnsOf, KilledOnceOf, FinishStopsOf,
     RegisteredOf, Unreaped, Aborted, Exited, Unkept, SignalDue, Alive
<1> QED
  BY <1>0, <1>1, <1>2, <1>3, <1>4, OwnStepKeeps

LEMMA KillOnceKeeps ==
  ASSUME IInv, NEW k \in Kernels, KillOnce(k)
  PROVE  IInv'
<1>1. /\ backend = "up" /\ backend' = "up" /\ keeper[k] = "kill" /\ keeper'[k] = (IF k \in killed THEN "unregister" ELSE "signal")
      /\ TaskTypes' /\ task' = task /\ killed' = killed \cup {k}
      /\ \A j \in Kernels \ {k} :
           /\ task'[j] = task[j] /\ keeper'[j] = keeper[j] /\ (j \in killed' <=> j \in killed)
  BY KeepFacts DEF KillOnce, KeeperPCs
<1>0. task[k] \notin Unkept /\ task[k] # "none"
  BY <1>1, KeptIsLaunched
<1>2. StateTypes' /\ GuardTypes' /\ GuardSide' /\ groups' = groups /\ finishing' = finishing
  BY <1>1, StillStates DEF KillOnce
<1>3. /\ Calm({k}) /\ "task" \notin struck' /\ (Alive(k)' <=> Alive(k))
      /\ leader' = leader /\ members' = members /\ gid' = gid /\ recycles' = recycles
  BY <1>1, StillFacts DEF KillOnce
<1>4. KernelOf(k)'
  BY <1>0, <1>1, <1>2, <1>3, KernelFacts DEF KernelOf, TaskOwnsOf, KilledOnceOf, FinishStopsOf,
     RegisteredOf, Unreaped, Aborted, Exited, Unkept, SignalDue, Alive
<1> QED
  BY <1>0, <1>1, <1>2, <1>3, <1>4, OwnStepKeeps

LEMMA KillSignalKeeps ==
  ASSUME IInv, NEW k \in Kernels, KillSignal(k)
  PROVE  IInv'
<1>1. /\ backend = "up" /\ backend' = "up" /\ keeper[k] = "signal" /\ keeper'[k] = "unregister"
      /\ TaskTypes' /\ task' = task /\ killed' = killed
      /\ \A j \in Kernels \ {k} :
           /\ task'[j] = task[j] /\ keeper'[j] = keeper[j] /\ (j \in killed' <=> j \in killed)
  BY KeepFacts DEF KillSignal, KeeperPCs
<1>0. task[k] \notin Unkept /\ task[k] # "none"
  BY <1>1, KeptIsLaunched
<1>2. StateTypes' /\ GuardTypes' /\ GuardSide' /\ groups' = groups /\ finishing' = finishing
  BY <1>1, StillStates DEF KillSignal
<1>3. Calm({k}) /\ ~Alive(k)' /\ "task" \notin struck' /\ gid[k] \in Gids
      /\ leader'[k] # "up" /\ gid' = gid /\ recycles' = recycles
      /\ (leader'[k] \in {"up", "zombie"} <=> leader[k] \in {"up", "zombie"})
  BY <1>0, <1>1, OwnStrike DEF KillSignal, Strikers, Calm, Alive
<1>4. KernelOf(k)'
  BY <1>0, <1>1, <1>2, <1>3, KernelFacts DEF KernelOf, TaskOwnsOf, KilledOnceOf, FinishStopsOf,
     RegisteredOf, Unreaped, Aborted, Exited, Unkept, SignalDue, Alive
<1> QED
  BY <1>0, <1>1, <1>2, <1>3, <1>4, OwnStepKeeps

LEMMA KillUnregisterKeeps ==
  ASSUME IInv, NEW k \in Kernels, KillUnregister(k)
  PROVE  IInv'
<1>1. PICK to \in {"drop", "held", "gone"} : Keep(k, "unregister", to)
  BY DEF KillUnregister
<1>5. /\ backend = "up" /\ backend' = "up" /\ keeper[k] = "unregister" /\ keeper'[k] = to
      /\ TaskTypes' /\ task' = task /\ killed' = killed
      /\ \A j \in Kernels \ {k} :
           /\ task'[j] = task[j] /\ keeper'[j] = keeper[j] /\ (j \in killed' <=> j \in killed)
  BY <1>1, KeepFacts DEF KillUnregister, KeeperPCs
<1>0. task[k] \notin Unkept /\ task[k] # "none"
  BY <1>5, KeptIsLaunched
<1>2. /\ StateTypes' /\ GuardTypes' /\ GuardSide' /\ groups' = groups \ {gid[k]}
      /\ finishing' = finishing
  BY <1>0, <1>1, <1>5, KernelFacts, UnregisterInKeeps DEF KillUnregister
<1>3. /\ Calm({k}) /\ "task" \notin struck' /\ (Alive(k)' <=> Alive(k))
      /\ leader' = leader /\ members' = members /\ gid' = gid /\ recycles' = recycles
  BY <1>1, <1>5, StillFacts DEF KillUnregister
<1>4. KernelOf(k)'
  BY <1>0, <1>5, <1>2, <1>3, KernelFacts DEF KernelOf, TaskOwnsOf, KilledOnceOf, FinishStopsOf,
     RegisteredOf, Unreaped, Aborted, Exited, Unkept, SignalDue, Alive
<1> QED
  BY <1>0, <1>5, <1>2, <1>3, <1>4, OwnStepKeeps

LEMMA DropUnregisterKeeps ==
  ASSUME IInv, NEW k \in Kernels, DropUnregister(k)
  PROVE  IInv'
<1>1. /\ backend = "up" /\ backend' = "up" /\ keeper[k] = "drop" /\ keeper'[k] = "gone"
      /\ TaskTypes' /\ task' = task /\ killed' = killed
      /\ \A j \in Kernels \ {k} :
           /\ task'[j] = task[j] /\ keeper'[j] = keeper[j] /\ (j \in killed' <=> j \in killed)
  BY KeepFacts DEF DropUnregister, KeeperPCs
<1>0. task[k] \notin Unkept /\ task[k] # "none"
  BY <1>1, KeptIsLaunched
<1>2. /\ StateTypes' /\ GuardTypes' /\ GuardSide' /\ groups' = groups \ {gid[k]}
      /\ finishing' = finishing
  BY <1>0, <1>1, KernelFacts, UnregisterInKeeps DEF DropUnregister
<1>3. /\ Calm({k}) /\ "task" \notin struck' /\ (Alive(k)' <=> Alive(k))
      /\ leader' = leader /\ members' = members /\ gid' = gid /\ recycles' = recycles
  BY <1>1, StillFacts DEF DropUnregister
<1>4. KernelOf(k)'
  BY <1>0, <1>1, <1>2, <1>3, KernelFacts DEF KernelOf, TaskOwnsOf, KilledOnceOf, FinishStopsOf,
     RegisteredOf, Unreaped, Aborted, Exited, Unkept, SignalDue, Alive
<1> QED
  BY <1>0, <1>1, <1>2, <1>3, <1>4, OwnStepKeeps
-----------------------------------------------------------------------------
(* Steps of the system and of a guard: no task and no keeper moves.  R is  *)
(* the process init reaps, once the backend is gone.                       *)

LEMMA CalmKeeps ==
  ASSUME IInv, UNCHANGED <<backend, taskVars, groups, finishing>>,
         NEW R \in SUBSET Kernels, Calm(R), R = {} \/ backend # "up", "task" \notin struck'
  PROVE  KernelSide'
<1>1. /\ GroupIsHeld /\ IdsOnce /\ TaskOwns /\ KilledOnce /\ FinishStops
      /\ AliveIsRegisteredFresh /\ NoneOutlivesExit
  BY DEF IInv, KernelSide
<1>2. UNCHANGED <<backend, task, keeper, killed, groups, finishing, recycles, gid>>
  BY DEF taskVars, Calm
<1>3. /\ \A k \in Kernels : Alive(k)' => Alive(k)
      /\ \A k \in Kernels : SignalDue(k)' <=> SignalDue(k)
      /\ \A k \in Kernels \ R : leader'[k] = leader[k] \/ (leader[k] = "up" /\ leader'[k] = "zombie")
      /\ GroupIsHeld'
  BY <1>2 DEF Calm, SignalDue
<1>4. TaskOwns'
  <2> SUFFICES ASSUME NEW k \in Kernels PROVE TaskOwnsOf(k)'
    BY DEF TaskOwns, TaskOwnsOf
  <2>1. CASE backend # "up"
    <3>1. task'[k] = "lost" /\ backend' # "up"
      BY <2>1, <1>1, <1>2 DEF TaskOwns
    <3> QED
      BY <3>1 DEF TaskOwnsOf, Unreaped, Aborted, Exited
  <2>2. CASE backend = "up"
    <3>1. leader'[k] = leader[k] \/ (leader[k] = "up" /\ leader'[k] = "zombie")
      BY <2>2, <1>3
    <3>2. TaskOwnsOf(k)
      BY <1>1 DEF TaskOwns, TaskOwnsOf
    <3> QED
      BY <3>1, <3>2, <1>2, <1>3 DEF TaskOwnsOf, Alive
  <2> QED
    BY <2>1, <2>2
<1>5. IdsOnce' /\ KilledOnce'
  BY <1>1, <1>2, <1>3 DEF IdsOnce, KilledOnce
<1>6. FinishStops' /\ NoneOutlivesExit'
  BY <1>1, <1>2, <1>3 DEF FinishStops, NoneOutlivesExit
<1>7. AliveIsRegisteredFresh'
  BY <1>1, <1>2, <1>3 DEF AliveIsRegisteredFresh, AliveIsRegistered
<1> QED
  BY <1>3, <1>4, <1>5, <1>6, <1>7 DEF KernelSide, TaskStrikesItsOwn

LEMMA SystemKeeps ==
  ASSUME IInv, UNCHANGED <<backend, taskVars, stateVars, guardVars>>,
         NEW R \in SUBSET Kernels, Calm(R), R = {} \/ backend # "up", struck' = struck
  PROVE  IInv'
<1>1. KernelSide'
  BY CalmKeeps DEF stateVars, IInv, KernelSide, TaskStrikesItsOwn
<1>2. StateTypes' /\ GuardTypes' /\ GuardSide'
  BY StillStates
<1>3. TaskTypes' /\ BackendTypes' /\ OsTypes'
  BY Types DEF IInv, TaskTypes, BackendTypes, taskVars, Calm
<1>4. GuardStopsAll'
  BY DEF IInv, GuardStopsAll, Calm, stateVars, guardVars
<1> QED
  BY <1>1, <1>2, <1>3, <1>4, TypesNext DEF IInv

(* The system's own steps are calm: none brings a group to life.           *)
LEMMA GroupStepIsCalm ==
  ASSUME TypeOK, GroupIsHeld,
         \/ \E k \in Kernels : KernelExits(k) \/ MemberStarts(k) \/ MemberEnds(k)
         \/ \E g \in Gids : OtherStarts(g) \/ OtherEnds(g)
  PROVE  Calm({}) /\ struck' = struck
<1>1. OsTypes
  BY Types
<1>2. ASSUME NEW k \in Kernels, KernelExits(k)
      PROVE  Calm({}) /\ struck' = struck
  <2>1. /\ leader[k] = "up" /\ leader' = [leader EXCEPT ![k] = "zombie"]
        /\ UNCHANGED <<recycles, holder, gid, members, struck>>
    BY <1>2 DEF KernelExits
  <2> QED
    BY <2>1, <1>1 DEF Calm, OsTypes, GroupIsHeld, Alive
<1>3. ASSUME NEW k \in Kernels, MemberStarts(k)
      PROVE  Calm({}) /\ struck' = struck
  <2>1. /\ leader[k] = "up" /\ members' = members \cup {k}
        /\ UNCHANGED <<recycles, holder, gid, leader, struck>>
    BY <1>3 DEF MemberStarts
  <2> QED
    BY <2>1, <1>1 DEF Calm, OsTypes, GroupIsHeld, Alive
<1>4. ASSUME NEW k \in Kernels, MemberEnds(k)
      PROVE  Calm({}) /\ struck' = struck
  <2>1. /\ members' = members \ {k} /\ holder' = HolderAfter(leader', members')
        /\ UNCHANGED <<recycles, gid, leader, struck>>
    BY <1>4 DEF MemberEnds
  <2>2. holder' = [g \in Gids |-> IF holder[g] \in Kernels /\ Gone(holder[g], leader, members')
                                  THEN Free ELSE holder[g]]
    BY <2>1 DEF HolderAfter
  <2>3. OsTypes'
    BY <2>1, <2>2, <1>1 DEF OsTypes
  <2>4. GroupIsHeld'
    <3> SUFFICES ASSUME NEW j \in Kernels, leader'[j] \in {"up", "zombie"} \/ j \in members'
                 PROVE  gid'[j] \in Gids /\ holder'[gid'[j]] = j
      BY DEF GroupIsHeld
    <3>1. gid[j] \in Gids /\ holder[gid[j]] = j
      BY <2>1 DEF GroupIsHeld
    <3>2. ~Gone(j, leader, members')
      BY <2>1 DEF Gone
    <3> QED
      BY <3>1, <3>2, <2>1, <2>2
  <2> QED
    BY <2>1, <2>3, <2>4 DEF Calm, Alive
<1>5. ASSUME NEW g \in Gids, OtherStarts(g) \/ OtherEnds(g)
      PROVE  Calm({}) /\ struck' = struck
  <2>1. /\ holder[g] \in {Free, Other}
        /\ holder' = [holder EXCEPT ![g] = Other] \/ holder' = [holder EXCEPT ![g] = Free]
        /\ UNCHANGED <<recycles, gid, leader, members, struck>>
    BY <1>5 DEF OtherStarts, OtherEnds
  <2>2. OsTypes'
    BY <2>1, <1>1 DEF OsTypes
  <2>3. GroupIsHeld'
    BY <2>1, <1>1, Apart DEF OsTypes, GroupIsHeld
  <2> QED
    BY <2>1, <2>2, <2>3 DEF Calm, Alive
<1> QED
  BY <1>2, <1>3, <1>4, <1>5

LEMMA SystemStepKeeps ==
  ASSUME IInv, SystemStep
  PROVE  IInv'
<1>1. TypeOK /\ GroupIsHeld
  BY DEF IInv, KernelSide
<1>2. ASSUME \/ \E k \in Kernels : KernelExits(k) \/ MemberStarts(k) \/ MemberEnds(k)
             \/ \E g \in Gids : OtherStarts(g) \/ OtherEnds(g)
      PROVE  IInv'
  <2>1. UNCHANGED <<backend, taskVars, stateVars, guardVars>>
    BY <1>2 DEF KernelExits, MemberStarts, MemberEnds, OtherStarts, OtherEnds
  <2>2. Calm({}) /\ struck' = struck
    BY <1>1, <1>2, GroupStepIsCalm
  <2> QED
    BY <2>1, <2>2, SystemKeeps
<1>3. ASSUME NEW k \in Kernels, InitReaps(k)
      PROVE  IInv'
  <2>1. backend # "up" /\ UNCHANGED <<backend, taskVars, stateVars, guardVars>>
    BY <1>3 DEF InitReaps
  <2>2. Calm({k}) /\ struck' = struck
    BY <1>1, <1>3, ReapedIsCalm DEF InitReaps
  <2> QED
    BY <2>1, <2>2, SystemKeeps
<1> QED
  BY <1>2, <1>3 DEF SystemStep
-----------------------------------------------------------------------------
(* The guard processes.                                                    *)

LEMMA GuardReadsKeeps ==
  ASSUME IInv, NEW g \in Guards, GuardReads(g)
  PROVE  IInv'
<1>1. /\ guard[g] = "up" /\ pipe[g] # <<>>
      /\ pipe' = [pipe EXCEPT ![g] = Tail(@)]
      /\ known' = [known EXCEPT ![g] = IF Head(pipe[g])[1] = "+" THEN @ \cup Head(pipe[g])[2]
                                       ELSE @ \ Head(pipe[g])[2]]
      /\ UNCHANGED <<osVars, backend, taskVars, stateVars, guard>>
  BY DEF GuardReads
<1>2. TypeOK /\ GroupIsHeld /\ GuardTypes /\ "task" \notin struck /\ GuardSide
  BY Types DEF IInv, KernelSide, TaskStrikesItsOwn
<1>3. /\ pipe[g] \in Seq(Lines) /\ Head(pipe[g]) \in Lines /\ Tail(pipe[g]) \in Seq(Lines)
      /\ known[g] \in SUBSET Gids
  BY <1>1, <1>2, LinesOf, HeadTailProperties
<1>4. /\ pipe'[g] = Tail(pipe[g]) /\ \A h \in Guards \ {g} : pipe'[h] = pipe[h] /\ known'[h] = known[h]
      /\ known'[g] = IF Head(pipe[g])[1] = "+" THEN known[g] \cup Head(pipe[g])[2]
                     ELSE known[g] \ Head(pipe[g])[2]
  BY <1>1, <1>2 DEF GuardTypes
<1>5. GuardTypes'
  <2>1. Head(pipe[g])[2] \subseteq Gids
    BY <1>3 DEF Lines
  <2>2. known'[g] \in SUBSET Gids
    BY <1>3, <1>4, <2>1
  <2> QED
    BY <1>1, <1>2, <1>3, <1>4, <2>2 DEF GuardTypes
<1>6. AfterReading(known'[g], pipe'[g]) = AfterReading(known[g], pipe[g])
  <2>1. ASSUME NEW ks \in SUBSET Gids, NEW p \in Seq(Lines), p # <<>>, NEW read,
               read = IF Head(p)[1] = "+" THEN ks \cup Head(p)[2] ELSE ks \ Head(p)[2]
        PROVE  AfterReading(read, Tail(p)) = AfterReading(ks, p)
    BY <2>1, AfterTail
  <2> QED
    BY <2>1, <1>1, <1>3, <1>4
<1>7. GuardSide'
  <2>1. GuardKnowsGroups'
    <3>1. AfterReading(known'[stdin], pipe'[stdin]) = AfterReading(known[stdin], pipe[stdin])
          \/ stdin = NoGuard
      BY <1>2, <1>4, <1>6, Types DEF StateTypes
    <3> QED
      BY <3>1, <1>1, <1>2 DEF GuardSide, GuardKnowsGroups, Replayed, stateVars
  <2>2. GuardsInOrder'
    BY <1>1, <1>2, <1>4 DEF GuardSide, GuardsInOrder, stateVars
  <2> QED
    BY <2>1, <2>2 DEF GuardSide
<1>8. KernelSide' /\ OsTypes'
  <2>1. Calm({}) /\ struck' = struck
    BY <1>1, <1>2, StillIsCalm
  <2> QED
    BY <2>1, <1>1, <1>2, CalmKeeps DEF stateVars, Calm
<1>9. TaskTypes' /\ BackendTypes' /\ StateTypes'
  BY <1>1, Types DEF IInv, TaskTypes, BackendTypes, StateTypes, taskVars, stateVars
<1>10. GuardStopsAll'
  BY <1>1 DEF IInv, GuardStopsAll, stateVars, osVars, Alive
<1> QED
  BY <1>5, <1>7, <1>8, <1>9, <1>10, TypesNext DEF IInv

(* The end of input, and a guard's death.                                  *)
LEMMA GuardSeesEndKeeps ==
  ASSUME IInv, NEW g \in Guards, GuardSeesEnd(g)
  PROVE  IInv'
<1>1. /\ guard[g] = "up" /\ pipe[g] = <<>> /\ (backend # "up" \/ stdin # g)
      /\ guard' = [guard EXCEPT ![g] = "ending"]
      /\ UNCHANGED <<osVars, backend, taskVars, stateVars, pipe, known>>
  BY DEF GuardSeesEnd
<1>2. TypeOK /\ GroupIsHeld /\ GuardTypes /\ "task" \notin struck /\ GuardSide
  BY Types DEF IInv, KernelSide, TaskStrikesItsOwn
<1>3. guard'[g] = "ending" /\ \A h \in Guards \ {g} : guard'[h] = guard[h]
  BY <1>1, <1>2 DEF GuardTypes
<1>4. GuardTypes'
  BY <1>1, <1>2 DEF GuardTypes
<1>5. stdin \in Guards \cup {NoGuard} /\ groups \subseteq Gids /\ stdin' = stdin /\ groups' = groups
  BY <1>1, Types DEF IInv, StateTypes, stateVars
<1>6. stdin = g => known[g] = groups
  <2>1. Len(pipe[g]) = 0 /\ known[g] \subseteq Gids
    BY <1>1, <1>2, LinesOf
  <2>2. AfterReading(known[g], pipe[g]) = known[g]
    BY <2>1 DEF AfterReading
  <2> QED
    BY <2>2, <1>1, <1>2, Apart DEF GuardSide, GuardKnowsGroups, Replayed
<1>7. GuardSide'
  <2>1. GuardKnowsGroups'
    BY <1>1, <1>2, <1>3, <1>5 DEF GuardSide, GuardKnowsGroups, Replayed
  <2>2. GuardsInOrder'
    BY <1>1, <1>2, <1>3, <1>5, <1>6 DEF GuardSide, GuardsInOrder
  <2> QED
    BY <2>1, <2>2 DEF GuardSide
<1>8. KernelSide' /\ OsTypes'
  <2>1. Calm({}) /\ struck' = struck
    BY <1>1, <1>2, StillIsCalm
  <2> QED
    BY <2>1, <1>1, <1>2, CalmKeeps DEF stateVars, Calm
<1>9. TaskTypes' /\ BackendTypes' /\ StateTypes'
  BY <1>1, Types DEF IInv, TaskTypes, BackendTypes, StateTypes, taskVars, stateVars
<1>10. GuardStopsAll'
  <2> SUFFICES ASSUME backend' = "crashed", ~finishing', stdin' # NoGuard, guard'[stdin'] = "done",
                      NEW k \in Kernels, gid'[k] \in groups'
               PROVE  ~Alive(k)'
    BY DEF GuardStopsAll
  <2>1. UNCHANGED <<gid, leader, members, groups, finishing, stdin, backend>>
    BY <1>1 DEF osVars, stateVars
  <2>2. stdin # g /\ guard[stdin] = "done"
    BY <2>1, <1>3, <1>5
  <2> QED
    BY <2>1, <2>2 DEF IInv, GuardStopsAll, Alive
<1> QED
  BY <1>4, <1>7, <1>8, <1>9, <1>10, TypesNext DEF IInv

(* A guard that leaves, whether it signalled what it knows or not.         *)
LEMMA GuardLeavesKeeps ==
  ASSUME IInv, NEW g \in Guards, NEW how \in {"done", "dead"}, GuardLeaves(g, how),
         guard[g] \in {"up", "ending"}, Calm({}), "task" \notin struck',
         how = "done" => /\ guard[g] = "ending"
                         /\ \A k \in Kernels : gid[k] \in known[g] => ~Alive(k)'
  PROVE  IInv'
<1>1. /\ guard' = [guard EXCEPT ![g] = how]
      /\ pipe' = [pipe EXCEPT ![g] = <<>>] /\ known' = [known EXCEPT ![g] = {}]
      /\ UNCHANGED <<backend, taskVars, stateVars>>
  BY DEF GuardLeaves
<1>2. TypeOK /\ GuardTypes /\ GuardSide
  BY Types DEF IInv
<1>3. /\ guard'[g] = how /\ pipe'[g] = <<>> /\ known'[g] = {}
      /\ \A h \in Guards \ {g} :
           guard'[h] = guard[h] /\ pipe'[h] = pipe[h] /\ known'[h] = known[h]
  BY <1>1, <1>2 DEF GuardTypes
<1>4. GuardTypes'
  BY <1>1, <1>2, EmptySeq DEF GuardTypes
<1>5. stdin \in Guards \cup {NoGuard} /\ UNCHANGED <<stdin, groups, finishing>>
  BY <1>1, Types DEF IInv, StateTypes, stateVars
<1>6. GuardSide'
  <2>1. GuardKnowsGroups'
    BY <1>2, <1>3, <1>5 DEF GuardSide, GuardKnowsGroups, Replayed
  <2>2. GuardsInOrder'
    BY <1>1, <1>2, <1>3, <1>5 DEF GuardSide, GuardsInOrder
  <2> QED
    BY <2>1, <2>2 DEF GuardSide
<1>7. KernelSide' /\ OsTypes'
  <2>1. UNCHANGED <<backend, taskVars, groups, finishing>> /\ OsTypes'
    BY <1>1, <1>5 DEF Calm
  <2> QED
    BY <2>1, CalmKeeps
<1>8. TaskTypes' /\ BackendTypes' /\ StateTypes'
  BY <1>1, Types DEF IInv, TaskTypes, BackendTypes, StateTypes, taskVars, stateVars
<1>9. GuardStopsAll'
  <2> SUFFICES ASSUME backend' = "crashed", ~finishing', stdin' # NoGuard, guard'[stdin'] = "done",
                      NEW k \in Kernels, gid'[k] \in groups'
               PROVE  ~Alive(k)'
    BY DEF GuardStopsAll
  <2>1. gid'[k] = gid[k] /\ (Alive(k)' => Alive(k))
    BY DEF Calm
  <2>2. CASE stdin = g
    BY <2>1, <2>2, <1>2, <1>3, <1>5 DEF GuardSide, GuardsInOrder
  <2>3. CASE stdin # g
    <3>1. guard[stdin] = "done" /\ backend = "crashed"
      BY <2>3, <1>1, <1>3, <1>5
    <3> QED
      BY <3>1, <2>1, <1>5 DEF IInv, GuardStopsAll
  <2> QED
    BY <2>2, <2>3
<1> QED
  BY <1>4, <1>6, <1>7, <1>8, <1>9, TypesNext DEF IInv

LEMMA GuardKillsKeeps ==
  ASSUME IInv, NEW g \in Guards, GuardKills(g)
  PROVE  IInv'
<1>1. guard[g] = "ending" /\ GuardLeaves(g, "done") /\ Strike(known[g], "guard", Kernels)
  BY DEF GuardKills
<1>2. TypeOK /\ GroupIsHeld /\ "task" \notin struck
  BY DEF IInv, KernelSide, TaskStrikesItsOwn
<1>3. known[g] \in SUBSET Gids
  BY <1>2, Types, LinesOf
<1>4. /\ Calm({}) /\ \A k \in Kernels : gid[k] \in known[g] => ~Alive(k)'
      /\ struck' = struck \/ struck' = struck \cup {"guard"}
  BY <1>1, <1>2, <1>3, StrikeIsCalm DEF Strikers
<1> QED
  BY <1>1, <1>2, <1>4, GuardLeavesKeeps

LEMMA GuardDiesKeeps ==
  ASSUME IInv, NEW g \in Guards, GuardDies(g)
  PROVE  IInv'
<1>1. guard[g] \in {"up", "ending"} /\ GuardLeaves(g, "dead") /\ UNCHANGED osVars
  BY DEF GuardDies
<1>2. TypeOK /\ GroupIsHeld /\ "task" \notin struck
  BY DEF IInv, KernelSide, TaskStrikesItsOwn
<1>3. Calm({}) /\ struck' = struck
  BY <1>1, <1>2, StillIsCalm
<1> QED
  BY <1>1, <1>2, <1>3, GuardLeavesKeeps
-----------------------------------------------------------------------------
(* The backend's own steps.                                                *)

LEMMA NoKernelMoves ==
  ASSUME IInv, backend = "up", UNCHANGED <<osVars, backend, taskVars, groups, finishing>>,
         StateTypes', GuardTypes', GuardSide'
  PROVE  IInv'
<1>1. TypeOK /\ GroupIsHeld /\ "task" \notin struck
  BY DEF IInv, KernelSide, TaskStrikesItsOwn
<1>2. Calm({}) /\ struck' = struck
  BY <1>1, StillIsCalm
<1>3. KernelSide'
  BY <1>1, <1>2, CalmKeeps
<1>4. OsTypes' /\ TaskTypes'
  BY <1>2, Types DEF IInv, Calm, TaskTypes, taskVars
<1> QED
  BY <1>3, <1>4, UpIsEnough

LEMMA StartGuardKeeps ==
  ASSUME IInv, StartGuard \/ WindowPasses \/ (\E g \in Guards : OnGuardExit(g))
  PROVE  IInv'
<1>1. TypeOK /\ GuardSide /\ StateTypes /\ GuardTypes /\ groups \in SUBSET Gids
  BY Types DEF IInv, StateTypes
<1>2. CASE WindowPasses
  <2>1. /\ backend = "up" /\ respawns' = 0
        /\ UNCHANGED <<osVars, backend, taskVars, started, stdin, pid, groups, finishing, guardVars>>
    BY <1>2 DEF WindowPasses
  <2>2. StateTypes' /\ GuardTypes'
    BY <1>1, <2>1, Apart DEF StateTypes, GuardTypes, guardVars
  <2> QED
    BY <2>1, <2>2, <1>1, GuardSideStill, NoKernelMoves
<1>3. ASSUME StartGuard \/ \E g \in Guards : OnGuardExit(g)
      PROVE  IInv'
  <2>1. /\ backend = "up" /\ UNCHANGED <<osVars, backend, taskVars, groups, finishing, known>>
        /\ SpawnGuard(groups) \/ SpawnFails(pid) \/ SpawnFails(NoGuard)
        /\ started' \in BOOLEAN /\ respawns' \in 0..RespawnMax
    <3>1. CASE StartGuard
      BY <3>1, <1>1 DEF StartGuard, StateTypes
    <3>2. CASE \E g \in Guards : OnGuardExit(g)
      BY <3>2, <1>1, Apart DEF OnGuardExit, MayRespawn, StateTypes
    <3> QED
      BY <3>1, <3>2, <1>3
  <2>2. /\ GuardSide' /\ GuardTypes'
        /\ stdin' \in Guards \cup {NoGuard} /\ pid' \in Guards \cup {NoGuard}
    <3>1. SpawnGuard(groups') \/ SpawnFails(pid) \/ SpawnFails(NoGuard)
      <4>1. SpawnGuard(groups) => SpawnGuard(groups')
        BY <2>1 DEF SpawnGuard
      <4> QED
        BY <2>1, <4>1
    <3> QED
      BY <3>1, <2>1, <1>1, SpawnGuardKeeps DEF StateTypes
  <2>3. StateTypes'
    BY <2>1, <2>2, <1>1 DEF StateTypes
  <2> QED
    BY <2>1, <2>2, <2>3, NoKernelMoves
<1> QED
  BY <1>2, <1>3

(* The clean exit: what is registered is stopped, and what is not was just *)
(* spawned or has its signal on the way.                                   *)
LEMMA FinishKeeps ==
  ASSUME IInv, Finish
  PROVE  IInv'
<1>1. /\ backend = "up" /\ backend' = "up" /\ ~finishing /\ finishing' = TRUE /\ groups' = {}
      /\ Strike(groups, "finish", Kernels) /\ stdin' = NoGuard
      /\ UNCHANGED <<backend, taskVars, started, pid, respawns, guard, known>>
  BY DEF Finish
<1>2. /\ TypeOK /\ GroupIsHeld /\ IdsOnce /\ StateTypes /\ GuardTypes /\ GuardSide
      /\ "task" \notin struck /\ \A k \in Kernels : KernelOf(k)
  BY <1>1, Types, ByKernel DEF IInv
<1>3. /\ Calm({}) /\ \A k \in Kernels : gid[k] \in groups => ~Alive(k)'
      /\ "task" \notin struck'
  <2>1. groups \in SUBSET Gids /\ "finish" \in Strikers
    BY <1>2 DEF StateTypes, Strikers
  <2>2. /\ Calm({}) /\ \A k \in Kernels : gid[k] \in groups => ~Alive(k)'
        /\ struck' = struck \/ struck' = struck \cup {"finish"}
    BY <1>1, <1>2, <2>1, StrikeIsCalm
  <2> QED
    BY <2>2, <1>2
<1>4. GuardTypes' /\ GuardSide'
  <2>1. \/ pipe' = pipe
        \/ /\ stdin \in Guards /\ guard[stdin] = "up"
           /\ pipe' = [pipe EXCEPT ![stdin] = Append(@, <<"-", groups>>)]
    BY <1>2 DEF Finish, StateTypes
  <2>2. \A g \in Guards : pipe'[g] \in Seq(Lines) /\ (guard[g] = "none" => pipe'[g] = pipe[g])
    <3>1. CASE pipe' = pipe
      BY <3>1, <1>2 DEF GuardTypes
    <3>2. CASE /\ stdin \in Guards /\ guard[stdin] = "up"
               /\ pipe' = [pipe EXCEPT ![stdin] = Append(@, <<"-", groups>>)]
      <4>1. <<"-", groups>> \in Lines
        BY <1>2 DEF Lines, StateTypes
      <4>2. Append(pipe[stdin], <<"-", groups>>) \in Seq(Lines)
        BY <4>1, <3>2, <1>2, LinesOf, AppendProperties
      <4> QED
        BY <3>2, <4>2, <1>2 DEF GuardTypes
    <3> QED
      BY <2>1, <3>1, <3>2
  <2>3. pipe' \in [Guards -> Seq(Lines)]
    BY <2>1, <2>2, <1>2 DEF GuardTypes
  <2>4. GuardsInOrder' /\ GuardKnowsGroups'
    BY <1>1, <1>2, <2>2 DEF GuardSide, GuardsInOrder, GuardKnowsGroups
  <2> QED
    BY <2>3, <2>4, <1>1, <1>2 DEF GuardTypes, GuardSide
<1>5. StateTypes' /\ TaskTypes'
  BY <1>1, <1>2, Types DEF StateTypes, TaskTypes, taskVars
<1>6. ASSUME NEW k \in Kernels PROVE KernelOf(k)'
  <2>1. /\ task'[k] = task[k] /\ keeper'[k] = keeper[k] /\ killed' = killed /\ gid' = gid
        /\ recycles' = recycles /\ (SignalDue(k)' <=> SignalDue(k)) /\ (Alive(k)' => Alive(k))
        /\ leader'[k] = leader[k] \/ (leader[k] = "up" /\ leader'[k] = "zombie")
    BY <1>1, <1>3 DEF taskVars, Calm, SignalDue
  <2>2. TaskOwnsOf(k)' /\ KilledOnceOf(k)'
    BY <1>1, <1>2, <2>1 DEF KernelOf, TaskOwnsOf, KilledOnceOf, Alive
  <2>3. FinishStopsOf(k)'
    <3>1. ~recycles /\ Alive(k)' => task[k] \in {"none", "spawned", "lost"} \/ SignalDue(k)
      BY <1>1, <1>2, <1>3, <2>1 DEF KernelOf, RegisteredOf
    <3>2. Alive(k) => task[k] \notin {"none", "lost"}
      BY <1>1, <1>2 DEF KernelOf, TaskOwnsOf, Alive
    <3> QED
      BY <2>1, <3>1, <3>2 DEF FinishStopsOf
  <2>4. RegisteredOf(k)'
    BY <1>1 DEF RegisteredOf
  <2> QED
    BY <2>2, <2>3, <2>4 DEF KernelOf
<1>7. GroupIsHeld' /\ IdsOnce' /\ OsTypes'
  BY <1>2, <1>3 DEF Calm, IdsOnce
<1>8. KernelSide'
  BY <1>1, <1>3, <1>6, <1>7, ByKernelNext
<1> QED
  BY <1>1, <1>4, <1>5, <1>7, <1>8, UpIsEnough

(* The backend's end, either way: what its tasks held is gone.             *)
LEMMA BackendGoesKeeps ==
  ASSUME IInv, BackendEnds \/ BackendCrashes
  PROVE  IInv'
<1>1. /\ backend = "up" /\ backend' \in {"ended", "crashed"}
      /\ task' = [k \in Kernels |-> "lost"] /\ keeper' = [k \in Kernels |-> "none"]
      /\ killed' = {} /\ pid' = NoGuard /\ respawns' = 0
      /\ UNCHANGED <<osVars, started, stdin, groups, finishing, guardVars>>
  BY DEF BackendEnds, BackendCrashes, Vanish
<1>2. /\ TypeOK /\ GroupIsHeld /\ IdsOnce /\ StateTypes /\ GuardTypes /\ GuardSide
      /\ "task" \notin struck /\ FinishStops /\ GuardsInOrder
  BY Types DEF IInv, KernelSide, TaskStrikesItsOwn, GuardSide
<1>3. Calm({}) /\ struck' = struck
  BY <1>1, <1>2, StillIsCalm
<1>4. /\ UNCHANGED <<recycles, holder, gid, leader, members, struck>>
      /\ UNCHANGED <<guard, pipe, known>>
      /\ \A k \in Kernels : Alive(k)' <=> Alive(k)
  BY <1>1 DEF osVars, guardVars, Alive
<1>5. OsTypes' /\ BackendTypes' /\ TaskTypes' /\ StateTypes' /\ GuardTypes'
  BY <1>1, <1>2, <1>3, <1>4, Apart
     DEF Calm, BackendTypes, TaskTypes, StateTypes, GuardTypes, TaskPCs, KeeperPCs
<1>6. GuardSide'
  BY <1>1, <1>2, GuardSideStill
<1>7. TaskOwns' /\ KilledOnce'
  BY <1>1, <1>4 DEF TaskOwns, KilledOnce, Unreaped, Aborted, Exited, Unkept
<1>8. FinishStops' /\ AliveIsRegisteredFresh' /\ IdsOnce' /\ TaskStrikesItsOwn'
  BY <1>1, <1>2, <1>4
     DEF FinishStops, AliveIsRegisteredFresh, AliveIsRegistered, IdsOnce, TaskStrikesItsOwn
<1>9. NoneOutlivesExit'
  <2> SUFFICES ASSUME ~recycles', backend' = "ended", NEW k \in Kernels
               PROVE  ~Alive(k)'
    BY DEF NoneOutlivesExit
  <2>1. BackendEnds
    BY DEF BackendCrashes
  <2>2. finishing /\ task[k] # "spawned" /\ ~SignalDue(k)
    BY <2>1 DEF BackendEnds
  <2> QED
    BY <2>2, <1>1, <1>2, <1>4 DEF FinishStops
<1>10. GuardStopsAll'
  BY <1>1, <1>2, <1>4 DEF GuardsInOrder, GuardStopsAll
<1> QED
  BY <1>3, <1>5, <1>6, <1>7, <1>8, <1>9, <1>10, TypesNext DEF IInv, KernelSide, Calm
-----------------------------------------------------------------------------
LEMMA InitIInv == Init => IInv
<1> SUFFICES ASSUME Init PROVE IInv
  OBVIOUS
<1>1. /\ recycles \in Recycling /\ holder = [g \in Gids |-> Free]
      /\ gid = [k \in Kernels |-> NoGid] /\ leader = [k \in Kernels |-> "none"]
      /\ members = {} /\ struck = {} /\ backend = "up"
      /\ task = [k \in Kernels |-> "none"] /\ keeper = [k \in Kernels |-> "none"] /\ killed = {}
      /\ started = FALSE /\ stdin = NoGuard /\ pid = NoGuard
      /\ groups = {} /\ finishing = FALSE /\ respawns = 0
      /\ guard = [g \in Guards |-> "none"] /\ pipe = [g \in Guards |-> <<>>]
      /\ known = [g \in Guards |-> {}]
  BY DEF Init
<1>2. OsTypes /\ BackendTypes /\ TaskTypes /\ StateTypes
  <2>1. recycles \in BOOLEAN
    BY <1>1, Apart, Zenon
  <2>2. OsTypes
    BY <1>1, <2>1 DEF OsTypes
  <2>3. BackendTypes /\ TaskTypes
    BY <1>1 DEF BackendTypes, TaskTypes, TaskPCs, KeeperPCs
  <2>4. respawns \in 0..RespawnMax
    BY <1>1, Apart
  <2>5. started \in BOOLEAN /\ finishing \in BOOLEAN /\ groups \subseteq Gids
    BY <1>1
  <2>6. StateTypes
    BY <1>1, <2>4, <2>5 DEF StateTypes
  <2> QED
    BY <2>2, <2>3, <2>6
<1>3. GuardTypes
  BY <1>1, EmptySeq DEF GuardTypes
<1>4. GroupIsHeld /\ IdsOnce /\ TaskOwns /\ KilledOnce /\ FinishStops
  BY <1>1 DEF GroupIsHeld, IdsOnce, TaskOwns, KilledOnce, FinishStops, Alive, SignalDue,
              Unreaped, Aborted, Exited, Unkept
<1>5. AliveIsRegisteredFresh /\ TaskStrikesItsOwn /\ NoneOutlivesExit
  BY <1>1 DEF AliveIsRegisteredFresh, AliveIsRegistered, TaskStrikesItsOwn, NoneOutlivesExit
<1>6. GuardSide /\ GuardStopsAll
  BY <1>1 DEF GuardSide, GuardsInOrder, GuardKnowsGroups, GuardStopsAll
<1> QED
  BY <1>2, <1>3, <1>4, <1>5, <1>6, Types DEF IInv, KernelSide

LEMMA NextKeeps == IInv /\ [Next]_vars => IInv'
<1> SUFFICES ASSUME IInv, [Next]_vars PROVE IInv'
  OBVIOUS
<1>1. CASE SystemStep
  BY <1>1, SystemStepKeeps
<1>2. CASE BackendStep
  BY <1>2, StartGuardKeeps, FinishKeeps, BackendGoesKeeps DEF BackendStep
<1>3. ASSUME NEW k \in Kernels, StartStep(k) PROVE IInv'
  BY <1>3, SpawnKeeps, RegisterKeeps, LaunchedKeeps, StartFailsKeeps, AbortKillKeeps,
     AbortReapKeeps, AbortUnregisterKeeps DEF StartStep
<1>4. ASSUME NEW k \in Kernels, WatchStep(k) PROVE IInv'
  BY <1>4, SeeExitKeeps, WatchKillKeeps, WatchSignalKeeps, WatchReapKeeps, WatchUnregisterKeeps
     DEF WatchStep
<1>5. ASSUME NEW k \in Kernels, KeeperStep(k) PROVE IInv'
  BY <1>5, StopKeeps, KillOnceKeeps, KillSignalKeeps, KillUnregisterKeeps, DropUnregisterKeeps
     DEF KeeperStep
<1>6. ASSUME NEW g \in Guards, GuardStep(g) \/ GuardDies(g) PROVE IInv'
  BY <1>6, GuardReadsKeeps, GuardSeesEndKeeps, GuardKillsKeeps, GuardDiesKeeps DEF GuardStep
<1>7. CASE UNCHANGED vars
  <2>1. UNCHANGED <<osVars, backend, taskVars, stateVars, guardVars>>
    BY <1>7 DEF vars
  <2>2. Calm({}) /\ struck' = struck
    BY <2>1, StillIsCalm DEF IInv, KernelSide
  <2> QED
    BY <2>1, <2>2, SystemKeeps
<1> QED
  BY <1>1, <1>2, <1>3, <1>4, <1>5, <1>6, <1>7 DEF Next

(* When a process is reaped the rest of its group is gone, or about to get *)
(* the signal, because whoever set `killed` signals first.                 *)
LEMMA GroupEnds == IInv => GroupEndsWithLeader
<1> SUFFICES ASSUME IInv, NEW k \in Kernels, task[k] \in {"unregister", "done", "failed"},
                    k \in members
             PROVE  SignalDue(k)
  BY DEF GroupEndsWithLeader
<1>1. TaskOwns /\ KilledOnce
  BY DEF IInv, KernelSide
<1>2. Alive(k)
  BY DEF Alive
<1>3. task[k] # "failed"
  BY <1>1, <1>2 DEF TaskOwns, Aborted
<1>4. k \in killed
  BY <1>1, <1>3 DEF KilledOnce
<1> QED
  BY <1>1, <1>2, <1>4 DEF KilledOnce

LEMMA Inductive == Spec => []IInv
BY InitIInv, NextKeeps, PTL DEF Spec

(* The variables keep their types, the respawns within their limit, and no *)
(* kernel's group outlives its process but for a signal already on its     *)
(* way, whoever stops it and in whatever order (watch_exit, kill, abort).  *)
THEOREM KernelGroupsEnd == Spec => []GuardInv
<1>1. IInv => GuardInv
  BY GroupEnds DEF IInv, GuardInv
<1> QED
  BY <1>1, Inductive, PTL

(* The running guard, once it has read its pipe, knows the groups the      *)
(* backend has registered, and where ids are not given again those are all *)
(* the groups that run (register_in, unregister, on_exit_in).              *)
THEOREM GuardKnowsWhatRuns == Spec => []GuardKnows
<1>1. IInv => GuardKnows
  BY DEF IInv, KernelSide, GuardSide, GuardKnows
<1> QED
  BY <1>1, Inductive, PTL

(* A task that sees the exit before it reaps never signals a group that    *)
(* took over the id (Leader, kill_group_once).                             *)
THEOREM TasksStrikeTheirOwn == Spec => []TaskStrikesItsOwn
<1>1. IInv => TaskStrikesItsOwn
  BY DEF IInv, KernelSide
<1> QED
  BY <1>1, Inductive, PTL

(* No kernel outlives a clean exit, and a guard that ran to its end after  *)
(* the backend's crash left no registered group running (finish, serve).   *)
THEOREM NothingIsLeft == Spec => []NothingOutlives
<1>1. IInv => NothingOutlives
  BY DEF IInv, KernelSide, NothingOutlives
<1> QED
  BY <1>1, Inductive, PTL
=============================================================================
