-------------------------- MODULE WorkerPool_proofs --------------------------
(***************************************************************************)
(* Proofs about WorkerPool for any number of workers, callers, jobs and    *)
(* lanes.  IInv (WorkerPool) is inductive: each section below shows that a *)
(* step keeps one of its conjuncts.                                        *)
(***************************************************************************)
EXTENDS WorkerPool, FiniteSetTheorems, SequenceTheorems, TLAPS

LEMMA ReverseType ==
  ASSUME NEW S, NEW s \in Seq(S)
  PROVE  Reverse(s) \in Seq(S) /\ (Reverse(s) = <<>> <=> s = <<>>)
<1>1. Reverse(s) \in Seq(S)
  <2>1. \A i \in 1..Len(s) : s[Len(s) - i + 1] \in S
    BY ElementOfSeq
  <2> QED BY <2>1, IsASeq, LenProperties DEF Reverse
<1>2. Len(Reverse(s)) = Len(s)
  BY <1>1, LenProperties DEF Reverse
<1> QED BY <1>1, <1>2, EmptySeq, LenProperties

LEMMA RemoveAtType ==
  ASSUME NEW S, NEW s \in Seq(S), NEW i \in 1..Len(s)
  PROVE  RemoveAt(s, i) \in Seq(S)
<1>1. SubSeq(s, 1, i-1) \in Seq(S) /\ SubSeq(s, i+1, Len(s)) \in Seq(S)
  BY SubSeqProperties, LenProperties
<1> QED BY <1>1, ConcatProperties DEF RemoveAt

LEMMA PcType ==
  ASSUME TypeOK
  PROVE  /\ \A w \in Workers : pc[w] \in WorkerPCs /\ w \in Threads /\ w \notin Callers
         /\ \A c \in Callers : pc[c] \in CallerPCs /\ c \in Threads /\ c \notin Workers
         /\ UI \in Callers
BY PoolAssumption DEF TypeOK, Threads

LEMMA QueuedInType ==
  ASSUME NEW l
  PROVE  QueuedIn(l) \in Nat
<1>1. IsFiniteSet(Prios \X Jobs)
  <2>1. IsFiniteSet(Prios) /\ IsFiniteSet(Jobs)
    BY PoolAssumption, FS_Interval DEF Prios, Jobs
  <2> QED BY <2>1, FS_Product
<1>2. IsFiniteSet({q \in Prios \X Jobs : q[2] <= Len(l[q[1]])})
  BY <1>1, FS_Subset
<1> QED BY <1>2, FS_CardinalityType DEF QueuedIn

LEMMA ClaimableType ==
  ASSUME TypeOK, NEW n \in Nat
  PROVE  /\ Claimable(n) \in Nat
         /\ Claimable(n) > 0 => woken + Claimable(n) <= idle
         /\ Claimable(n) = 0 => n = 0 \/ idle <= woken
BY DEF TypeOK, Claimable

(* A node that is moved goes to the end of its lane.                       *)
LEMMA MovedType ==
  ASSUME TypeOK, MoveOldest, batch # <<>>
  PROVE  /\ Head(batch) \in Nodes /\ batch' \in Seq(Nodes)
         /\ lanes' \in [Prios -> Seq(Jobs)]
<1>1. batch \in Seq(Nodes) /\ lanes \in [Prios -> Seq(Jobs)]
  BY DEF TypeOK
<1>2. Head(batch) \in Nodes /\ Tail(batch) \in Seq(Nodes)
  BY <1>1, HeadTailProperties
<1> DEFINE p == Head(batch).prio
           j == Head(batch).job
<1>3. p \in Prios /\ j \in Jobs
  BY <1>2 DEF Nodes
<1>4. lanes' = [lanes EXCEPT ![p] = Append(@, j)] /\ batch' = Tail(batch)
  BY DEF MoveOldest
<1> HIDE DEF p, j
<1>5. Append(lanes[p], j) \in Seq(Jobs)
  BY <1>1, <1>3, AppendProperties
<1>6. lanes' = [lanes EXCEPT ![p] = Append(lanes[p], j)]
  BY <1>4
<1>7. lanes' \in [Prios -> Seq(Jobs)]
  BY <1>1, <1>3, <1>5, <1>6
<1> QED BY <1>2, <1>4, <1>7

(* A notify sends its thread on, and wakes one worker that waits, if any.  *)
LEMMA NotifyMoves ==
  ASSUME TypeOK, NEW t \in Threads, Notify(t)
  PROVE  /\ pc' \in [Threads -> WorkerPCs \cup CallerPCs]
         /\ t \in Workers => pc[t] = "notify" /\ pc'[t] \in {"notify", "run"}
         /\ t \in Callers => pc[t] = "submitNotify" /\ pc'[t] \in {"submitNotify", "idle"}
         /\ \A u \in Threads : u # t =>
              pc'[u] = pc[u] \/ (u \in Workers /\ pc[u] = "waiting" /\ pc'[u] = "woken")
<1>1. pc \in [Threads -> WorkerPCs \cup CallerPCs]
  BY DEF TypeOK
<1>2. /\ t \in Workers => t \notin Callers /\ pc[t] = "notify"
      /\ t \in Callers => t \notin Workers /\ pc[t] = "submitNotify"
  BY PcType DEF Notify, WorkerPCs, CallerPCs
<1> DEFINE to == IF notifies[t] > 1 THEN pc[t] ELSE IF t \in Workers THEN "run" ELSE "idle"
<1>3. NotifyOneThen(t, to)
  BY DEF Notify
<1>4. /\ t \in Workers => to \in {"notify", "run"}
      /\ t \in Callers => to \in {"submitNotify", "idle"}
  BY <1>2
<1>5. to \in WorkerPCs \cup CallerPCs
  BY <1>4 DEF Threads, WorkerPCs, CallerPCs
<1> HIDE DEF to
<1>6. CASE pc' = [pc EXCEPT ![t] = to]
  BY <1>1, <1>2, <1>4, <1>5, <1>6
<1>7. ASSUME NEW w \in Workers, pc[w] = "waiting", pc' = [pc EXCEPT ![w] = "woken", ![t] = to]
      PROVE  /\ pc' \in [Threads -> WorkerPCs \cup CallerPCs]
             /\ pc'[t] = to /\ (w # t => pc'[w] = "woken")
             /\ \A u \in Threads : u # t /\ u # w => pc'[u] = pc[u]
  BY <1>1, <1>5, <1>7 DEF Threads, WorkerPCs
<1>8. CASE \E w \in Waiting : pc' = [pc EXCEPT ![w] = "woken", ![t] = to]
  <2>1. PICK w \in Workers : pc[w] = "waiting" /\ pc' = [pc EXCEPT ![w] = "woken", ![t] = to]
    BY <1>8 DEF Waiting
  <2>2. /\ pc' \in [Threads -> WorkerPCs \cup CallerPCs]
        /\ pc'[t] = to /\ (w # t => pc'[w] = "woken")
        /\ \A u \in Threads : u # t /\ u # w => pc'[u] = pc[u]
    BY <1>7, <2>1
  <2> QED BY <1>2, <1>4, <2>1, <2>2
<1> QED BY <1>3, <1>6, <1>8 DEF NotifyOneThen, Goto
-----------------------------------------------------------------------------
(* Type correctness.                                                       *)

(* What a worker about to lower `idle`, or a thread about to notify, knows. *)
LEMMA IdleIsPositive ==
  ASSUME TypeOK, CountInv, NEW w \in Workers, w \in Idle
  PROVE  idle > 0
<1>1. IsFiniteSet(Idle)
  BY PoolAssumption, FS_Subset DEF Idle
<1>2. Cardinality(Idle) # 0 /\ Cardinality(Idle) \in Nat
  BY <1>1, FS_EmptySet, FS_CardinalityType
<1> QED BY <1>2 DEF CountInv, TypeOK

LEMMA WorkerTypeStep ==
  ASSUME TypeOK, CountInv, NotifyInv, HandInv, NEW w \in Workers,
         WorkerStep(w) \/ SpuriousWakeup(w)
  PROVE  TypeOK'
<1> USE PoolAssumption, PcType
    DEF Threads, WorkerPCs, CallerPCs, Statuses, queueVars, lockedVars, atomicVars,
        wakeVars, threadVars, loopVars, Goto, Step, Acquire, Release, Within, WhileFree
<1>1. CASE Exit(w)
  BY <1>1 DEF Exit, TypeOK
<1>2. CASE TakeInbox(w)
  BY <1>2, ReverseType DEF TakeInbox, DetachInbox, TypeOK
<1>3. CASE Move(w)
  <2>1. batch' \in Seq(Nodes) /\ lanes' \in [Prios -> Seq(Jobs)]
    BY <1>3, MovedType DEF Move
  <2> QED BY <1>3, <2>1 DEF Move, TypeOK
<1>4. CASE Pop(w)
  <2> DEFINE k == Claimable(QueuedIn(lanes'))
  <2>1. k \in Nat
    BY QueuedInType, ClaimableType
  <2>2. PICK p \in Prios :
          /\ lanes[p] # <<>>
          /\ lanes' = [lanes EXCEPT ![p] = Tail(@)]
          /\ job' = [job EXCEPT ![w] = Head(lanes[p])]
          /\ running' = running \cup {Head(lanes[p])}
    BY <1>4 DEF Pop, MostUrgent
  <2>3. lanes[p] \in Seq(Jobs) /\ Head(lanes[p]) \in Jobs /\ Tail(lanes[p]) \in Seq(Jobs)
    BY <2>2, HeadTailProperties DEF TypeOK
  <2>4. lanes' \in [Prios -> Seq(Jobs)] /\ job' \in [Threads -> Jobs \cup {NoJob}]
        /\ running' \in SUBSET Jobs
    BY <2>2, <2>3 DEF TypeOK
  <2>5. woken' = woken + k /\ waking' \in Nat /\ notifies' = [notifies EXCEPT ![w] = k]
        /\ pc' = [pc EXCEPT ![w] = IF k > 0 THEN "notify" ELSE "run"]
    BY <1>4, <2>1 DEF Pop, Claim, TypeOK
  <2>6. woken' \in Nat /\ notifies' \in [Threads -> Nat]
    BY <2>1, <2>5 DEF TypeOK
  <2>7. /\ pc' \in [Threads -> WorkerPCs \cup CallerPCs]
        /\ \A v \in Workers : pc'[v] \in WorkerPCs
        /\ \A c \in Callers : pc'[c] \in CallerPCs
    <3>1. PICK l \in {"notify", "run"} : pc' = [pc EXCEPT ![w] = l]
      BY <2>5
    <3>2. w \in Threads /\ l \in WorkerPCs /\ w \notin Callers
      BY PcType, PoolAssumption DEF WorkerPCs, Threads
    <3> QED BY <3>1, <3>2 DEF TypeOK
  <2>8. owner' \in Threads \cup {NoThread}
    BY <1>4 DEF Pop
  <2>9. UNCHANGED <<batch, inbox, idle, parked, shutdown, closed, next, flagged, done, pending, txOpen,
                    byte, status, scheduled, collected>>
    BY <1>4, <2>1 DEF Pop, Claim
  <2> HIDE DEF k
  <2> QED BY <2>4, <2>5, <2>6, <2>7, <2>8, <2>9 DEF TypeOK
<1>5. CASE Raise(w)
  BY <1>5 DEF Raise, TypeOK
<1>6. CASE LookAgain(w)
  <2>1. idle > 0 /\ parked = idle
    BY <1>6, IdleIsPositive DEF LookAgain, Idle, CountInv
  <2> QED BY <1>6, <2>1 DEF LookAgain, TypeOK
<1>7. CASE Wait(w)
  BY <1>7 DEF Wait, TypeOK
<1>8. CASE Unwait(w)
  <2>1. idle > 0 /\ parked = idle
    BY <1>8, IdleIsPositive DEF Unwait, Idle, CountInv
  <2> QED BY <1>8, <2>1 DEF Unwait, TypeOK
<1>9. CASE TakeUpWake(w)
  BY <1>9 DEF TakeUpWake, TypeOK
<1>10. CASE Notify(w)
  <2>1. notifies' \in [Threads -> Nat]
    BY <1>10 DEF Notify, NotifyInv, TypeOK
  <2>2. pc' \in [Threads -> WorkerPCs \cup CallerPCs]
        /\ (\A v \in Workers : pc'[v] \in WorkerPCs) /\ (\A c \in Callers : pc'[c] \in CallerPCs)
    BY <1>10, NotifyMoves
  <2> QED BY <1>10, <2>1, <2>2 DEF Notify, TypeOK
<1>11. CASE Run(w)
  BY <1>11 DEF Run, TypeOK
<1>12. CASE Unregister(w)
  BY <1>12 DEF Unregister, TypeOK
<1>13. CASE Publish(w)
  <2>1. job[w] \in Jobs
    BY <1>13 DEF Publish, HandInv, HandPCs
  <2>2. done' \in Seq(Completions)
    BY <1>13, <2>1, AppendProperties DEF Publish, TypeOK, Completions
  <2> QED BY <1>13, <2>2 DEF Publish, TypeOK
<1>14. CASE Signal(w)
  BY <1>14 DEF Signal, Home, TypeOK
<1>15. CASE Write(w)
  BY <1>15 DEF Write, Home, TypeOK
<1>16. CASE SpuriousWakeup(w)
  BY <1>16 DEF SpuriousWakeup, TypeOK
<1> QED
  BY <1>1, <1>2, <1>3, <1>4, <1>5, <1>6, <1>7, <1>8, <1>9, <1>10, <1>11, <1>12, <1>13,
     <1>14, <1>15, <1>16 DEF WorkerStep

LEMMA CallerTypeStep ==
  ASSUME TypeOK, NotifyInv, HandInv, NEW c \in Callers,
         CallerBegins(c) \/ CallerStep(c)
  PROVE  TypeOK'
<1> USE PoolAssumption, PcType
    DEF Threads, WorkerPCs, CallerPCs, Statuses, queueVars, lockedVars, atomicVars,
        wakeVars, threadVars, loopVars, Goto, Step, Acquire, Release, Within, WhileFree
<1>1. CASE BeginSubmit(c)
  <2>1. /\ next' \in 1..(MaxJobs + 1) /\ job' \in [Threads -> Jobs \cup {NoJob}]
    BY <1>1 DEF BeginSubmit, TypeOK, Jobs
  <2>2. pc' \in [Threads -> WorkerPCs \cup CallerPCs]
        /\ (\A v \in Workers : pc'[v] \in WorkerPCs) /\ (\A d \in Callers : pc'[d] \in CallerPCs)
    BY <1>1 DEF BeginSubmit, TypeOK
  <2> QED BY <1>1, <2>1, <2>2 DEF BeginSubmit, TypeOK
<1>2. CASE Push(c)
  <2>1. PICK p \in Prios : inbox' = <<[job |-> job[c], prio |-> p]>> \o inbox
    BY <1>2 DEF Push
  <2>2. <<[job |-> job[c], prio |-> p]>> \in Seq(Nodes)
    BY <1>2 DEF Push, HandInv, HandPCs, Nodes
  <2>3. inbox' \in Seq(Nodes)
    BY <2>1, <2>2, ConcatProperties DEF TypeOK
  <2> QED BY <1>2, <2>3 DEF Push, TypeOK
<1>3. CASE ReadParked(c)
  BY <1>3 DEF ReadParked, TypeOK
<1>4. CASE ReadWaking(c)
  BY <1>4 DEF ReadWaking, TypeOK
<1>5. CASE ClaimWake(c)
  <2> DEFINE k == IF woken = 0 THEN Claimable(1) ELSE 0
  <2>1. k \in Nat
    BY ClaimableType
  <2>2. woken' = woken + k /\ waking' \in Nat /\ notifies' = [notifies EXCEPT ![c] = k]
        /\ pc' = [pc EXCEPT ![c] = IF k > 0 THEN "submitNotify" ELSE "idle"]
    BY <1>5, <2>1 DEF ClaimWake, Claim, TypeOK
  <2>3. woken' \in Nat /\ notifies' \in [Threads -> Nat]
    BY <2>1, <2>2 DEF TypeOK
  <2> HIDE DEF k
  <2> QED BY <1>5, <2>2, <2>3 DEF ClaimWake, TypeOK
<1>6. CASE Notify(c)
  <2>1. notifies' \in [Threads -> Nat]
    BY <1>6 DEF Notify, NotifyInv, TypeOK
  <2>2. pc' \in [Threads -> WorkerPCs \cup CallerPCs]
        /\ (\A v \in Workers : pc'[v] \in WorkerPCs) /\ (\A d \in Callers : pc'[d] \in CallerPCs)
    BY <1>6, NotifyMoves
  <2> QED BY <1>6, <2>1, <2>2 DEF Notify, TypeOK
<1>7. ASSUME NEW j \in 1..(next - 1), BeginCancel(c, j)
      PROVE  TypeOK'
  <2>1. batch' \in Seq(Nodes) /\ inbox' \in Seq(Nodes)
    BY <1>7, ReverseType DEF BeginCancel, DetachInbox, TypeOK
  <2>2. j \in Jobs /\ job' = [job EXCEPT ![c] = j] /\ owner' = c
    BY <1>7 DEF BeginCancel, TypeOK, Jobs
  <2>3. pc' \in [Threads -> WorkerPCs \cup CallerPCs]
        /\ (\A v \in Workers : pc'[v] \in WorkerPCs) /\ (\A d \in Callers : pc'[d] \in CallerPCs)
    BY <1>7 DEF BeginCancel, TypeOK
  <2>4. job' \in [Threads -> Jobs \cup {NoJob}] /\ owner' \in Threads \cup {NoThread}
    BY <2>2 DEF TypeOK
  <2> QED BY <1>7, <2>1, <2>3, <2>4 DEF BeginCancel, TypeOK
<1>8. CASE Move(c)
  <2>1. batch' \in Seq(Nodes) /\ lanes' \in [Prios -> Seq(Jobs)]
    BY <1>8, MovedType DEF Move
  <2> QED BY <1>8, <2>1 DEF Move, TypeOK
<1>9. CASE CancelQueued(c)
  <2>1. PICK p \in Prios :
          \E i \in 1..Len(lanes[p]) : lanes' = [lanes EXCEPT ![p] = RemoveAt(@, i)]
    BY <1>9 DEF CancelQueued
  <2>2. lanes' \in [Prios -> Seq(Jobs)]
    BY <2>1, RemoveAtType DEF TypeOK
  <2> QED BY <1>9, <2>2 DEF CancelQueued, TypeOK
<1>10. CASE CancelOther(c)
  BY <1>10 DEF CancelOther, TypeOK
<1>11. CASE Publish(c)
  <2>1. job[c] \in Jobs
    BY <1>11 DEF Publish, HandInv, HandPCs
  <2>2. done' \in Seq(Completions)
    BY <1>11, <2>1, AppendProperties DEF Publish, TypeOK, Completions
  <2> QED BY <1>11, <2>2 DEF Publish, TypeOK
<1>12. CASE Signal(c)
  BY <1>12 DEF Signal, Home, TypeOK
<1>13. CASE Write(c)
  BY <1>13 DEF Write, Home, TypeOK
<1>14. CASE BeginClose(c)
  BY <1>14 DEF BeginClose, TypeOK
<1>15. CASE DropQueued(c)
  BY <1>15, EmptySeq DEF DropQueued, TypeOK
<1>16. CASE NotifyAll(c)
  BY <1>16 DEF NotifyAll, TypeOK
<1>17. CASE CloseWake(c)
  BY <1>17 DEF CloseWake, TypeOK
<1> QED
  BY <1>1, <1>2, <1>3, <1>4, <1>5, <1>6, <1>7, <1>8, <1>9, <1>10, <1>11, <1>12, <1>13,
     <1>14, <1>15, <1>16, <1>17 DEF CallerBegins, CallerStep

LEMMA PumpTypeStep ==
  ASSUME TypeOK, PumpStep
  PROVE  TypeOK'
<1> USE PoolAssumption, PcType
    DEF Threads, WorkerPCs, CallerPCs, Statuses, queueVars, lockedVars, atomicVars,
        wakeVars, threadVars, loopVars, Goto, Step
<1>1. CASE ReadWake
  BY <1>1 DEF ReadWake, TypeOK
<1>2. CASE StartPump
  BY <1>2 DEF StartPump, TypeOK
<1>3. CASE Reset
  BY <1>3 DEF Reset, TypeOK
<1>4. CASE Drain
  <2> DEFINE n == IF Len(done) < Batch THEN Len(done) ELSE Batch
  <2>1. n \in Nat /\ n <= Len(done) /\ Len(done) \in Nat
    BY LenProperties DEF TypeOK
  <2>2. SubSeq(done, 1, n) \in Seq(Completions) /\ SubSeq(done, n + 1, Len(done)) \in Seq(Completions)
    BY <2>1, SubSeqProperties DEF TypeOK
  <2>3. collected' \in Seq(Completions) /\ done' \in Seq(Completions)
    BY <1>4, <2>2, ConcatProperties DEF Drain, TypeOK
  <2>4. /\ pc' = [pc EXCEPT ![UI] = "idle"] \/ pc' = [pc EXCEPT ![UI] = "reset"]
        /\ scheduled' \in BOOLEAN
    BY <1>4 DEF Drain, TypeOK
  <2>5. UNCHANGED <<owner, queueVars, lockedVars, atomicVars, pending, txOpen, byte, threadVars>>
    BY <1>4 DEF Drain
  <2>6. pc' \in [Threads -> WorkerPCs \cup CallerPCs]
        /\ (\A v \in Workers : pc'[v] \in WorkerPCs) /\ (\A d \in Callers : pc'[d] \in CallerPCs)
    <3>1. pc \in [Threads -> WorkerPCs \cup CallerPCs]
      BY DEF TypeOK
    <3>2. PICK l \in {"idle", "reset"} : pc' = [pc EXCEPT ![UI] = l]
      BY <2>4
    <3>3. l \in CallerPCs /\ UI \in Threads
      BY <3>2
    <3>4. pc' \in [Threads -> WorkerPCs \cup CallerPCs]
      BY <3>1, <3>2, <3>3
    <3>5. \A t \in Threads : pc'[t] = IF t = UI THEN l ELSE pc[t]
      BY <3>1, <3>2
    <3> QED BY <3>3, <3>4, <3>5
  <2> QED BY <2>3, <2>4, <2>5, <2>6 DEF TypeOK
<1> QED BY <1>1, <1>2, <1>3, <1>4 DEF PumpStep
-----------------------------------------------------------------------------
(* The mutex: `owner` says which thread is inside a hold of `q`.           *)

(* What a step does to `pc` apart from notifies: one thread moves on.      *)
LEMMA LockStep ==
  ASSUME TypeOK, LockInv, Next
  PROVE  LockInv'
<1> USE PoolAssumption, PcType
    DEF LockInv, HoldingPCs, TypeOK, Threads, WorkerPCs, CallerPCs, Goto, Step, Acquire,
        Release, Within, WhileFree
<1>1. ASSUME NEW w \in Workers, Exit(w)
      PROVE  LockInv'
  BY <1>1 DEF Exit
<1>2. ASSUME NEW w \in Workers, TakeInbox(w)
      PROVE  LockInv'
  BY <1>2 DEF TakeInbox
<1>3. ASSUME NEW w \in Workers, Move(w)
      PROVE  LockInv'
  BY <1>3 DEF Move
<1>4. ASSUME NEW w \in Workers, Pop(w)
      PROVE  LockInv'
  BY <1>4 DEF Pop
<1>5. ASSUME NEW w \in Workers, Raise(w)
      PROVE  LockInv'
  BY <1>5 DEF Raise
<1>6. ASSUME NEW w \in Workers, LookAgain(w)
      PROVE  LockInv'
  BY <1>6 DEF LookAgain
<1>7. ASSUME NEW w \in Workers, Wait(w)
      PROVE  LockInv'
  BY <1>7 DEF Wait
<1>8. ASSUME NEW w \in Workers, Unwait(w)
      PROVE  LockInv'
  BY <1>8 DEF Unwait
<1>9. ASSUME NEW w \in Workers, TakeUpWake(w)
      PROVE  LockInv'
  BY <1>9 DEF TakeUpWake
<1>10. ASSUME NEW w \in Workers, Notify(w)
      PROVE  LockInv'
  <2>1. UNCHANGED <<owner, job>>
    BY <1>10 DEF Notify
  <2>2. pc[w] = "notify" /\ pc'[w] \in {"notify", "run"}
        /\ \A u \in Threads : u # w => pc'[u] = pc[u] \/ (pc[u] = "waiting" /\ pc'[u] = "woken")
    BY <1>10, NotifyMoves
  <2> QED BY <2>1, <2>2
<1>11. ASSUME NEW w \in Workers, Run(w)
      PROVE  LockInv'
  BY <1>11 DEF Run
<1>12. ASSUME NEW w \in Workers, Unregister(w)
      PROVE  LockInv'
  BY <1>12 DEF Unregister
<1>13. ASSUME NEW w \in Workers, Publish(w)
      PROVE  LockInv'
  BY <1>13 DEF Publish
<1>14. ASSUME NEW w \in Workers, Signal(w)
      PROVE  LockInv'
  BY <1>14 DEF Signal, Home
<1>15. ASSUME NEW w \in Workers, Write(w)
      PROVE  LockInv'
  BY <1>15 DEF Write, Home
<1>16. ASSUME NEW w \in Workers, SpuriousWakeup(w)
      PROVE  LockInv'
  BY <1>16 DEF SpuriousWakeup
<1>17. ASSUME NEW c \in Callers, BeginSubmit(c)
      PROVE  LockInv'
  BY <1>17 DEF BeginSubmit
<1>18. ASSUME NEW c \in Callers, Push(c)
      PROVE  LockInv'
  BY <1>18 DEF Push
<1>19. ASSUME NEW c \in Callers, ReadParked(c)
      PROVE  LockInv'
  BY <1>19 DEF ReadParked
<1>20. ASSUME NEW c \in Callers, ReadWaking(c)
      PROVE  LockInv'
  BY <1>20 DEF ReadWaking
<1>21. ASSUME NEW c \in Callers, ClaimWake(c)
      PROVE  LockInv'
  BY <1>21 DEF ClaimWake
<1>22. ASSUME NEW c \in Callers, Notify(c)
      PROVE  LockInv'
  <2>1. UNCHANGED <<owner, job>>
    BY <1>22 DEF Notify
  <2>2. pc[c] = "submitNotify" /\ pc'[c] \in {"submitNotify", "idle"}
        /\ \A u \in Threads : u # c => pc'[u] = pc[u] \/ (pc[u] = "waiting" /\ pc'[u] = "woken")
    BY <1>22, NotifyMoves
  <2> QED BY <2>1, <2>2
<1>23. ASSUME NEW c \in Callers, NEW j \in Jobs, BeginCancel(c, j)
      PROVE  LockInv'
  BY <1>23 DEF BeginCancel
<1>24. ASSUME NEW c \in Callers, Move(c)
      PROVE  LockInv'
  BY <1>24 DEF Move
<1>25. ASSUME NEW c \in Callers, CancelQueued(c)
      PROVE  LockInv'
  BY <1>25 DEF CancelQueued
<1>26. ASSUME NEW c \in Callers, CancelOther(c)
      PROVE  LockInv'
  BY <1>26 DEF CancelOther
<1>27. ASSUME NEW c \in Callers, Publish(c)
      PROVE  LockInv'
  BY <1>27 DEF Publish
<1>28. ASSUME NEW c \in Callers, Signal(c)
      PROVE  LockInv'
  BY <1>28 DEF Signal, Home
<1>29. ASSUME NEW c \in Callers, Write(c)
      PROVE  LockInv'
  BY <1>29 DEF Write, Home
<1>30. ASSUME NEW c \in Callers, BeginClose(c)
      PROVE  LockInv'
  BY <1>30 DEF BeginClose
<1>31. ASSUME NEW c \in Callers, DropQueued(c)
      PROVE  LockInv'
  BY <1>31 DEF DropQueued
<1>32. ASSUME NEW c \in Callers, NotifyAll(c)
      PROVE  LockInv'
  BY <1>32 DEF NotifyAll
<1>33. ASSUME NEW c \in Callers, CloseWake(c)
      PROVE  LockInv'
  BY <1>33 DEF CloseWake
<1>34. CASE ReadWake
  BY <1>34 DEF ReadWake
<1>35. CASE StartPump
  BY <1>35 DEF StartPump
<1>36. CASE Reset
  BY <1>36 DEF Reset
<1>37. CASE Drain
  BY <1>37 DEF Drain
<1> QED
  BY <1>1, <1>2, <1>3, <1>4, <1>5, <1>6, <1>7, <1>8, <1>9, <1>10, <1>11, <1>12, <1>13, <1>14, <1>15,
     <1>16, <1>17, <1>18, <1>19, <1>20, <1>21, <1>22, <1>23, <1>24, <1>25, <1>26, <1>27, <1>28, <1>29, <1>30, <1>31, <1>32, <1>33, <1>34, <1>35, <1>36, <1>37
     DEF Next, WorkerStep, CallerBegins, CallerStep, PumpStep, Jobs

LEMMA HandStep ==
  ASSUME TypeOK, HandInv, Next
  PROVE  HandInv'
<1> USE PoolAssumption, PcType
    DEF HandInv, HandPCs, TypeOK, Threads, WorkerPCs, CallerPCs, Goto, Step, Acquire, Release, Within,
        WhileFree, queueVars, threadVars
<1>1. ASSUME NEW w \in Workers, Exit(w)
      PROVE  HandInv'
  BY <1>1 DEF Exit
<1>2. ASSUME NEW w \in Workers, TakeInbox(w)
      PROVE  HandInv'
  BY <1>2 DEF TakeInbox
<1>3. ASSUME NEW w \in Workers, Move(w)
      PROVE  HandInv'
  BY <1>3 DEF Move
<1>4. ASSUME NEW w \in Workers, Pop(w)
      PROVE  HandInv'
  <2>1. PICK p \in Prios : lanes[p] # <<>> /\ job' = [job EXCEPT ![w] = Head(lanes[p])]
    BY <1>4 DEF Pop, MostUrgent
  <2>2. Head(lanes[p]) \in Jobs
    BY <2>1, HeadTailProperties
  <2> QED BY <1>4, <2>1, <2>2 DEF Pop
<1>5. ASSUME NEW w \in Workers, Raise(w)
      PROVE  HandInv'
  BY <1>5 DEF Raise
<1>6. ASSUME NEW w \in Workers, LookAgain(w)
      PROVE  HandInv'
  BY <1>6 DEF LookAgain
<1>7. ASSUME NEW w \in Workers, Wait(w)
      PROVE  HandInv'
  BY <1>7 DEF Wait
<1>8. ASSUME NEW w \in Workers, Unwait(w)
      PROVE  HandInv'
  BY <1>8 DEF Unwait
<1>9. ASSUME NEW w \in Workers, TakeUpWake(w)
      PROVE  HandInv'
  BY <1>9 DEF TakeUpWake
<1>10. ASSUME NEW w \in Workers, Notify(w)
      PROVE  HandInv'
  <2>1. UNCHANGED <<owner, job>>
    BY <1>10 DEF Notify
  <2>2. pc[w] = "notify" /\ pc'[w] \in {"notify", "run"}
        /\ \A u \in Threads : u # w => pc'[u] = pc[u] \/ (pc[u] = "waiting" /\ pc'[u] = "woken")
    BY <1>10, NotifyMoves
  <2> QED BY <2>1, <2>2
<1>11. ASSUME NEW w \in Workers, Run(w)
      PROVE  HandInv'
  BY <1>11 DEF Run
<1>12. ASSUME NEW w \in Workers, Unregister(w)
      PROVE  HandInv'
  BY <1>12 DEF Unregister
<1>13. ASSUME NEW w \in Workers, Publish(w)
      PROVE  HandInv'
  BY <1>13 DEF Publish
<1>14. ASSUME NEW w \in Workers, Signal(w)
      PROVE  HandInv'
  BY <1>14 DEF Signal, Home
<1>15. ASSUME NEW w \in Workers, Write(w)
      PROVE  HandInv'
  BY <1>15 DEF Write, Home
<1>16. ASSUME NEW w \in Workers, SpuriousWakeup(w)
      PROVE  HandInv'
  BY <1>16 DEF SpuriousWakeup
<1>17. ASSUME NEW c \in Callers, BeginSubmit(c)
      PROVE  HandInv'
  BY <1>17 DEF BeginSubmit
<1>18. ASSUME NEW c \in Callers, Push(c)
      PROVE  HandInv'
  BY <1>18 DEF Push
<1>19. ASSUME NEW c \in Callers, ReadParked(c)
      PROVE  HandInv'
  BY <1>19 DEF ReadParked
<1>20. ASSUME NEW c \in Callers, ReadWaking(c)
      PROVE  HandInv'
  BY <1>20 DEF ReadWaking
<1>21. ASSUME NEW c \in Callers, ClaimWake(c)
      PROVE  HandInv'
  BY <1>21 DEF ClaimWake
<1>22. ASSUME NEW c \in Callers, Notify(c)
      PROVE  HandInv'
  <2>1. UNCHANGED <<owner, job>>
    BY <1>22 DEF Notify
  <2>2. pc[c] = "submitNotify" /\ pc'[c] \in {"submitNotify", "idle"}
        /\ \A u \in Threads : u # c => pc'[u] = pc[u] \/ (pc[u] = "waiting" /\ pc'[u] = "woken")
    BY <1>22, NotifyMoves
  <2> QED BY <2>1, <2>2
<1>23. ASSUME NEW c \in Callers, NEW j \in Jobs, BeginCancel(c, j)
      PROVE  HandInv'
  BY <1>23 DEF BeginCancel
<1>24. ASSUME NEW c \in Callers, Move(c)
      PROVE  HandInv'
  BY <1>24 DEF Move
<1>25. ASSUME NEW c \in Callers, CancelQueued(c)
      PROVE  HandInv'
  BY <1>25 DEF CancelQueued
<1>26. ASSUME NEW c \in Callers, CancelOther(c)
      PROVE  HandInv'
  BY <1>26 DEF CancelOther
<1>27. ASSUME NEW c \in Callers, Publish(c)
      PROVE  HandInv'
  BY <1>27 DEF Publish
<1>28. ASSUME NEW c \in Callers, Signal(c)
      PROVE  HandInv'
  BY <1>28 DEF Signal, Home
<1>29. ASSUME NEW c \in Callers, Write(c)
      PROVE  HandInv'
  BY <1>29 DEF Write, Home
<1>30. ASSUME NEW c \in Callers, BeginClose(c)
      PROVE  HandInv'
  BY <1>30 DEF BeginClose
<1>31. ASSUME NEW c \in Callers, DropQueued(c)
      PROVE  HandInv'
  BY <1>31 DEF DropQueued
<1>32. ASSUME NEW c \in Callers, NotifyAll(c)
      PROVE  HandInv'
  BY <1>32 DEF NotifyAll
<1>33. ASSUME NEW c \in Callers, CloseWake(c)
      PROVE  HandInv'
  BY <1>33 DEF CloseWake
<1>34. CASE ReadWake
  BY <1>34 DEF ReadWake
<1>35. CASE StartPump
  BY <1>35 DEF StartPump
<1>36. CASE Reset
  BY <1>36 DEF Reset
<1>37. CASE Drain
  BY <1>37 DEF Drain
<1> QED
  BY <1>1, <1>2, <1>3, <1>4, <1>5, <1>6, <1>7, <1>8, <1>9, <1>10, <1>11, <1>12,
     <1>13, <1>14, <1>15, <1>16, <1>17, <1>18, <1>19, <1>20, <1>21, <1>22, <1>23, <1>24,
     <1>25, <1>26, <1>27, <1>28, <1>29, <1>30, <1>31, <1>32, <1>33, <1>34, <1>35, <1>36,
     <1>37
  DEF Next, WorkerStep, CallerBegins, CallerStep, PumpStep, Jobs, TypeOK

(* Nodes are outside inbox and lanes only while someone moves them, and a  *)
(* worker that counts itself idle has seen the lanes empty under `q`.      *)
LEMMA MovingStep ==
  ASSUME TypeOK, LockInv, MovingInv, Next
  PROVE  MovingInv'
<1> USE PoolAssumption, PcType
    DEF MovingInv, LanesEmpty, LockInv, HoldingPCs, TypeOK, Threads, WorkerPCs, CallerPCs, Goto, Step, Acquire, Release, Within,
        WhileFree, queueVars, threadVars
<1>1. ASSUME NEW w \in Workers, Exit(w)
      PROVE  MovingInv'
  BY <1>1 DEF Exit
<1>2. ASSUME NEW w \in Workers, TakeInbox(w)
      PROVE  MovingInv'
  BY <1>2 DEF TakeInbox
<1>3. ASSUME NEW w \in Workers, Move(w)
      PROVE  MovingInv'
  BY <1>3 DEF Move, MoveOldest
<1>4. ASSUME NEW w \in Workers, Pop(w)
      PROVE  MovingInv'
  BY <1>4 DEF Pop
<1>5. ASSUME NEW w \in Workers, Raise(w)
      PROVE  MovingInv'
  BY <1>5 DEF Raise
<1>6. ASSUME NEW w \in Workers, LookAgain(w)
      PROVE  MovingInv'
  BY <1>6 DEF LookAgain
<1>7. ASSUME NEW w \in Workers, Wait(w)
      PROVE  MovingInv'
  BY <1>7 DEF Wait
<1>8. ASSUME NEW w \in Workers, Unwait(w)
      PROVE  MovingInv'
  BY <1>8 DEF Unwait
<1>9. ASSUME NEW w \in Workers, TakeUpWake(w)
      PROVE  MovingInv'
  BY <1>9 DEF TakeUpWake
<1>10. ASSUME NEW w \in Workers, Notify(w)
      PROVE  MovingInv'
  <2>1. UNCHANGED <<batch, lanes>>
    BY <1>10 DEF Notify
  <2>2. \A t \in Threads : (pc'[t] \in {"moving", "cancelMoving", "raised"} <=>
                            pc[t] \in {"moving", "cancelMoving", "raised"})
                           /\ (pc'[t] = "raised" <=> pc[t] = "raised")
    BY <1>10 DEF Notify, NotifyOneThen, Waiting
  <2> QED BY <2>1, <2>2
<1>11. ASSUME NEW w \in Workers, Run(w)
      PROVE  MovingInv'
  BY <1>11 DEF Run
<1>12. ASSUME NEW w \in Workers, Unregister(w)
      PROVE  MovingInv'
  BY <1>12 DEF Unregister
<1>13. ASSUME NEW w \in Workers, Publish(w)
      PROVE  MovingInv'
  BY <1>13 DEF Publish
<1>14. ASSUME NEW w \in Workers, Signal(w)
      PROVE  MovingInv'
  BY <1>14 DEF Signal, Home
<1>15. ASSUME NEW w \in Workers, Write(w)
      PROVE  MovingInv'
  BY <1>15 DEF Write, Home
<1>16. ASSUME NEW w \in Workers, SpuriousWakeup(w)
      PROVE  MovingInv'
  BY <1>16 DEF SpuriousWakeup
<1>17. ASSUME NEW c \in Callers, BeginSubmit(c)
      PROVE  MovingInv'
  BY <1>17 DEF BeginSubmit
<1>18. ASSUME NEW c \in Callers, Push(c)
      PROVE  MovingInv'
  BY <1>18 DEF Push
<1>19. ASSUME NEW c \in Callers, ReadParked(c)
      PROVE  MovingInv'
  BY <1>19 DEF ReadParked
<1>20. ASSUME NEW c \in Callers, ReadWaking(c)
      PROVE  MovingInv'
  BY <1>20 DEF ReadWaking
<1>21. ASSUME NEW c \in Callers, ClaimWake(c)
      PROVE  MovingInv'
  BY <1>21 DEF ClaimWake
<1>22. ASSUME NEW c \in Callers, Notify(c)
      PROVE  MovingInv'
  <2>1. UNCHANGED <<batch, lanes>>
    BY <1>22 DEF Notify
  <2>2. \A t \in Threads : (pc'[t] \in {"moving", "cancelMoving", "raised"} <=>
                            pc[t] \in {"moving", "cancelMoving", "raised"})
                           /\ (pc'[t] = "raised" <=> pc[t] = "raised")
    BY <1>22 DEF Notify, NotifyOneThen, Waiting
  <2> QED BY <2>1, <2>2
<1>23. ASSUME NEW c \in Callers, NEW j \in Jobs, BeginCancel(c, j)
      PROVE  MovingInv'
  BY <1>23 DEF BeginCancel
<1>24. ASSUME NEW c \in Callers, Move(c)
      PROVE  MovingInv'
  BY <1>24 DEF Move, MoveOldest
<1>25. ASSUME NEW c \in Callers, CancelQueued(c)
      PROVE  MovingInv'
  BY <1>25 DEF CancelQueued
<1>26. ASSUME NEW c \in Callers, CancelOther(c)
      PROVE  MovingInv'
  BY <1>26 DEF CancelOther
<1>27. ASSUME NEW c \in Callers, Publish(c)
      PROVE  MovingInv'
  BY <1>27 DEF Publish
<1>28. ASSUME NEW c \in Callers, Signal(c)
      PROVE  MovingInv'
  BY <1>28 DEF Signal, Home
<1>29. ASSUME NEW c \in Callers, Write(c)
      PROVE  MovingInv'
  BY <1>29 DEF Write, Home
<1>30. ASSUME NEW c \in Callers, BeginClose(c)
      PROVE  MovingInv'
  BY <1>30 DEF BeginClose
<1>31. ASSUME NEW c \in Callers, DropQueued(c)
      PROVE  MovingInv'
  BY <1>31 DEF DropQueued
<1>32. ASSUME NEW c \in Callers, NotifyAll(c)
      PROVE  MovingInv'
  BY <1>32 DEF NotifyAll
<1>33. ASSUME NEW c \in Callers, CloseWake(c)
      PROVE  MovingInv'
  BY <1>33 DEF CloseWake
<1>34. CASE ReadWake
  BY <1>34 DEF ReadWake
<1>35. CASE StartPump
  BY <1>35 DEF StartPump
<1>36. CASE Reset
  BY <1>36 DEF Reset
<1>37. CASE Drain
  BY <1>37 DEF Drain
<1> QED
  BY <1>1, <1>2, <1>3, <1>4, <1>5, <1>6, <1>7, <1>8, <1>9, <1>10, <1>11, <1>12,
     <1>13, <1>14, <1>15, <1>16, <1>17, <1>18, <1>19, <1>20, <1>21, <1>22, <1>23, <1>24,
     <1>25, <1>26, <1>27, <1>28, <1>29, <1>30, <1>31, <1>32, <1>33, <1>34, <1>35, <1>36,
     <1>37
  DEF Next, WorkerStep, CallerBegins, CallerStep, PumpStep, Jobs, TypeOK
-----------------------------------------------------------------------------
(* The counters `idle` and `woken` and the notifies that are owed.         *)

LEMMA IdleFinite ==
  /\ IsFiniteSet(Idle) /\ IsFiniteSet(Idle')
  /\ Cardinality(Idle) \in Nat /\ Cardinality(Idle') \in Nat
  /\ Cardinality(Idle) <= Cardinality(Workers)
BY PoolAssumption, FS_Subset, FS_CardinalityType DEF Idle

LEMMA ClaimableBound ==
  ASSUME TypeOK, CountInv, NEW n \in Nat
  PROVE  Claimable(n) <= Cardinality(Workers)
<1>1. Claimable(n) \in Nat /\ Cardinality(Workers) \in Nat
  BY ClaimableType, PoolAssumption, FS_CardinalityType
<1>2. Claimable(n) <= idle
  BY <1>1, ClaimableType DEF TypeOK, Claimable
<1> QED BY <1>1, <1>2, IdleFinite DEF CountInv, TypeOK

LEMMA CountStep ==
  ASSUME TypeOK, CountInv, Next
  PROVE  CountInv'
<1> USE PoolAssumption, PcType
    DEF CountInv, TypeOK, Threads, WorkerPCs, CallerPCs, Goto, Step, Acquire, Release, Within,
        WhileFree, lockedVars, atomicVars, threadVars
<1>1. ASSUME NEW w \in Workers, Exit(w)
      PROVE  CountInv'
  <2>1. Idle' = Idle
    BY <1>1 DEF Exit, Idle
  <2> QED BY <1>1, <2>1 DEF Exit
<1>2. ASSUME NEW w \in Workers, TakeInbox(w)
      PROVE  CountInv'
  <2>1. Idle' = Idle
    BY <1>2 DEF TakeInbox, Idle
  <2> QED BY <1>2, <2>1 DEF TakeInbox
<1>3. ASSUME NEW w \in Workers, Move(w)
      PROVE  CountInv'
  <2>1. Idle' = Idle
    BY <1>3 DEF Move, Idle
  <2> QED BY <1>3, <2>1 DEF Move
<1>4. ASSUME NEW w \in Workers, Pop(w)
      PROVE  CountInv'
  <2>1. Idle' = Idle
    BY <1>4 DEF Pop, Idle
  <2>2. PICK k \in Nat : Claim(k)
    BY <1>4, QueuedInType, ClaimableType DEF Pop
  <2> QED BY <1>4, <2>1, <2>2 DEF Pop, Claim
<1>5. ASSUME NEW w \in Workers, Raise(w)
      PROVE  CountInv'
  <2>1. Idle' = Idle \cup {w} /\ w \notin Idle
    BY <1>5 DEF Raise, Idle
  <2>2. Cardinality(Idle') = Cardinality(Idle) + 1
    BY <2>1, IdleFinite, FS_AddElement
  <2> QED BY <1>5, <2>2 DEF Raise
<1>6. ASSUME NEW w \in Workers, LookAgain(w)
      PROVE  CountInv'
  <2>1. Idle' = Idle \ {w} /\ w \in Idle
    BY <1>6 DEF LookAgain, Idle
  <2>2. Cardinality(Idle') = Cardinality(Idle) - 1
    BY <2>1, IdleFinite, FS_RemoveElement
  <2> QED BY <1>6, <2>2 DEF LookAgain
<1>7. ASSUME NEW w \in Workers, Wait(w)
      PROVE  CountInv'
  <2>1. Idle' = Idle
    BY <1>7 DEF Wait, Idle
  <2> QED BY <1>7, <2>1 DEF Wait
<1>8. ASSUME NEW w \in Workers, Unwait(w)
      PROVE  CountInv'
  <2>1. Idle' = Idle \ {w} /\ w \in Idle
    BY <1>8 DEF Unwait, Idle
  <2>2. Cardinality(Idle') = Cardinality(Idle) - 1
    BY <2>1, IdleFinite, FS_RemoveElement
  <2> QED BY <1>8, <2>2 DEF Unwait
<1>9. ASSUME NEW w \in Workers, TakeUpWake(w)
      PROVE  CountInv'
  <2>1. Idle' = Idle
    BY <1>9 DEF TakeUpWake, Idle
  <2> QED BY <1>9, <2>1 DEF TakeUpWake
<1>10. ASSUME NEW w \in Workers, Notify(w)
      PROVE  CountInv'
  <2>1. Idle' = Idle
    BY <1>10 DEF Notify, NotifyOneThen, Waiting, Idle
  <2> QED BY <1>10, <2>1 DEF Notify
<1>11. ASSUME NEW w \in Workers, Run(w)
      PROVE  CountInv'
  <2>1. Idle' = Idle
    BY <1>11 DEF Run, Idle
  <2> QED BY <1>11, <2>1 DEF Run
<1>12. ASSUME NEW w \in Workers, Unregister(w)
      PROVE  CountInv'
  <2>1. Idle' = Idle
    BY <1>12 DEF Unregister, Idle
  <2> QED BY <1>12, <2>1 DEF Unregister
<1>13. ASSUME NEW w \in Workers, Publish(w)
      PROVE  CountInv'
  <2>1. Idle' = Idle
    BY <1>13 DEF Publish, Idle
  <2> QED BY <1>13, <2>1 DEF Publish
<1>14. ASSUME NEW w \in Workers, Signal(w)
      PROVE  CountInv'
  <2>1. Idle' = Idle
    BY <1>14 DEF Signal, Home, Idle
  <2> QED BY <1>14, <2>1 DEF Signal
<1>15. ASSUME NEW w \in Workers, Write(w)
      PROVE  CountInv'
  <2>1. Idle' = Idle
    BY <1>15 DEF Write, Home, Idle
  <2> QED BY <1>15, <2>1 DEF Write
<1>16. ASSUME NEW w \in Workers, SpuriousWakeup(w)
      PROVE  CountInv'
  <2>1. Idle' = Idle
    BY <1>16 DEF SpuriousWakeup, Idle
  <2> QED BY <1>16, <2>1 DEF SpuriousWakeup
<1>17. ASSUME NEW c \in Callers, BeginSubmit(c)
      PROVE  CountInv'
  <2>1. Idle' = Idle
    BY <1>17 DEF BeginSubmit, Idle
  <2> QED BY <1>17, <2>1 DEF BeginSubmit
<1>18. ASSUME NEW c \in Callers, Push(c)
      PROVE  CountInv'
  <2>1. Idle' = Idle
    BY <1>18 DEF Push, Idle
  <2> QED BY <1>18, <2>1 DEF Push
<1>19. ASSUME NEW c \in Callers, ReadParked(c)
      PROVE  CountInv'
  <2>1. Idle' = Idle
    BY <1>19 DEF ReadParked, Idle
  <2> QED BY <1>19, <2>1 DEF ReadParked
<1>20. ASSUME NEW c \in Callers, ReadWaking(c)
      PROVE  CountInv'
  <2>1. Idle' = Idle
    BY <1>20 DEF ReadWaking, Idle
  <2> QED BY <1>20, <2>1 DEF ReadWaking
<1>21. ASSUME NEW c \in Callers, ClaimWake(c)
      PROVE  CountInv'
  <2>1. Idle' = Idle
    BY <1>21 DEF ClaimWake, Idle
  <2>2. PICK k \in Nat : Claim(k)
    BY <1>21, ClaimableType DEF ClaimWake
  <2> QED BY <1>21, <2>1, <2>2 DEF ClaimWake, Claim
<1>22. ASSUME NEW c \in Callers, Notify(c)
      PROVE  CountInv'
  <2>1. Idle' = Idle
    BY <1>22 DEF Notify, NotifyOneThen, Waiting, Idle
  <2> QED BY <1>22, <2>1 DEF Notify
<1>23. ASSUME NEW c \in Callers, NEW j \in Jobs, BeginCancel(c, j)
      PROVE  CountInv'
  <2>1. Idle' = Idle
    BY <1>23 DEF BeginCancel, Idle
  <2> QED BY <1>23, <2>1 DEF BeginCancel
<1>24. ASSUME NEW c \in Callers, Move(c)
      PROVE  CountInv'
  <2>1. Idle' = Idle
    BY <1>24 DEF Move, Idle
  <2> QED BY <1>24, <2>1 DEF Move
<1>25. ASSUME NEW c \in Callers, CancelQueued(c)
      PROVE  CountInv'
  <2>1. Idle' = Idle
    BY <1>25 DEF CancelQueued, Idle
  <2> QED BY <1>25, <2>1 DEF CancelQueued
<1>26. ASSUME NEW c \in Callers, CancelOther(c)
      PROVE  CountInv'
  <2>1. Idle' = Idle
    BY <1>26 DEF CancelOther, Idle
  <2> QED BY <1>26, <2>1 DEF CancelOther
<1>27. ASSUME NEW c \in Callers, Publish(c)
      PROVE  CountInv'
  <2>1. Idle' = Idle
    BY <1>27 DEF Publish, Idle
  <2> QED BY <1>27, <2>1 DEF Publish
<1>28. ASSUME NEW c \in Callers, Signal(c)
      PROVE  CountInv'
  <2>1. Idle' = Idle
    BY <1>28 DEF Signal, Home, Idle
  <2> QED BY <1>28, <2>1 DEF Signal
<1>29. ASSUME NEW c \in Callers, Write(c)
      PROVE  CountInv'
  <2>1. Idle' = Idle
    BY <1>29 DEF Write, Home, Idle
  <2> QED BY <1>29, <2>1 DEF Write
<1>30. ASSUME NEW c \in Callers, BeginClose(c)
      PROVE  CountInv'
  <2>1. Idle' = Idle
    BY <1>30 DEF BeginClose, Idle
  <2> QED BY <1>30, <2>1 DEF BeginClose
<1>31. ASSUME NEW c \in Callers, DropQueued(c)
      PROVE  CountInv'
  <2>1. Idle' = Idle
    BY <1>31 DEF DropQueued, Idle
  <2> QED BY <1>31, <2>1 DEF DropQueued
<1>32. ASSUME NEW c \in Callers, NotifyAll(c)
      PROVE  CountInv'
  <2>1. Idle' = Idle
    BY <1>32 DEF NotifyAll, Idle
  <2> QED BY <1>32, <2>1 DEF NotifyAll
<1>33. ASSUME NEW c \in Callers, CloseWake(c)
      PROVE  CountInv'
  <2>1. Idle' = Idle
    BY <1>33 DEF CloseWake, Idle
  <2> QED BY <1>33, <2>1 DEF CloseWake
<1>34. CASE ReadWake
  <2>1. Idle' = Idle
    BY <1>34 DEF ReadWake, Idle
  <2> QED BY <1>34, <2>1 DEF ReadWake
<1>35. CASE StartPump
  <2>1. Idle' = Idle
    BY <1>35 DEF StartPump, Idle
  <2> QED BY <1>35, <2>1 DEF StartPump
<1>36. CASE Reset
  <2>1. Idle' = Idle
    BY <1>36 DEF Reset, Idle
  <2> QED BY <1>36, <2>1 DEF Reset
<1>37. CASE Drain
  <2>1. Idle' = Idle
    BY <1>37 DEF Drain, Idle
  <2> QED BY <1>37, <2>1 DEF Drain
<1> QED
  BY <1>1, <1>2, <1>3, <1>4, <1>5, <1>6, <1>7, <1>8, <1>9, <1>10, <1>11, <1>12,
     <1>13, <1>14, <1>15, <1>16, <1>17, <1>18, <1>19, <1>20, <1>21, <1>22, <1>23, <1>24,
     <1>25, <1>26, <1>27, <1>28, <1>29, <1>30, <1>31, <1>32, <1>33, <1>34, <1>35, <1>36,
     <1>37
  DEF Next, WorkerStep, CallerBegins, CallerStep, PumpStep, Jobs, TypeOK

LEMMA NotifyStep ==
  ASSUME TypeOK, CountInv, NotifyInv, Next
  PROVE  NotifyInv'
<1> USE PoolAssumption, PcType
    DEF NotifyInv, TypeOK, Threads, WorkerPCs, CallerPCs, Goto, Step, Acquire, Release, Within,
        WhileFree, lockedVars, atomicVars, threadVars
<1>1. ASSUME NEW w \in Workers, Exit(w)
      PROVE  NotifyInv'
  BY <1>1 DEF Exit
<1>2. ASSUME NEW w \in Workers, TakeInbox(w)
      PROVE  NotifyInv'
  BY <1>2 DEF TakeInbox
<1>3. ASSUME NEW w \in Workers, Move(w)
      PROVE  NotifyInv'
  BY <1>3 DEF Move
<1>4. ASSUME NEW w \in Workers, Pop(w)
      PROVE  NotifyInv'
  <2> DEFINE k == Claimable(QueuedIn(lanes'))
  <2>1. k \in Nat /\ k <= Cardinality(Workers)
    BY QueuedInType, ClaimableType, ClaimableBound
  <2>2. notifies' = [notifies EXCEPT ![w] = k] /\ pc[w] = "moving"
        /\ pc' = [pc EXCEPT ![w] = IF k > 0 THEN "notify" ELSE "run"]
    BY <1>4 DEF Pop
  <2> HIDE DEF k
  <2> QED BY <2>1, <2>2
<1>5. ASSUME NEW w \in Workers, Raise(w)
      PROVE  NotifyInv'
  BY <1>5 DEF Raise
<1>6. ASSUME NEW w \in Workers, LookAgain(w)
      PROVE  NotifyInv'
  BY <1>6 DEF LookAgain
<1>7. ASSUME NEW w \in Workers, Wait(w)
      PROVE  NotifyInv'
  BY <1>7 DEF Wait
<1>8. ASSUME NEW w \in Workers, Unwait(w)
      PROVE  NotifyInv'
  BY <1>8 DEF Unwait
<1>9. ASSUME NEW w \in Workers, TakeUpWake(w)
      PROVE  NotifyInv'
  BY <1>9 DEF TakeUpWake
<1>10. ASSUME NEW w \in Workers, Notify(w)
      PROVE  NotifyInv'
  <2>1. /\ notifies' = [notifies EXCEPT ![w] = @ - 1]
        /\ pc[w] \in {"notify", "submitNotify"}
    BY <1>10 DEF Notify
  <2>2. /\ pc[w] = "notify"
        /\ pc'[w] = IF notifies[w] > 1 THEN "notify" ELSE "run"
        /\ \A t \in Threads \ {w} : pc'[t] = pc[t] \/ (pc[t] = "waiting" /\ pc'[t] = "woken")
    BY <1>10 DEF Notify, NotifyOneThen, Waiting
  <2>3. Cardinality(Workers) \in Nat /\ notifies[w] \in Nat
    BY FS_CardinalityType
  <2>4. \A t \in Threads \ {w} : notifies'[t] = notifies[t]
    BY <2>1
  <2>5. /\ notifies'[w] <= Cardinality(Workers)
        /\ notifies'[w] > 0 <=> pc'[w] \in {"notify", "submitNotify"}
    BY <2>1, <2>2, <2>3
  <2> QED BY <2>2, <2>4, <2>5
<1>11. ASSUME NEW w \in Workers, Run(w)
      PROVE  NotifyInv'
  BY <1>11 DEF Run
<1>12. ASSUME NEW w \in Workers, Unregister(w)
      PROVE  NotifyInv'
  BY <1>12 DEF Unregister
<1>13. ASSUME NEW w \in Workers, Publish(w)
      PROVE  NotifyInv'
  BY <1>13 DEF Publish
<1>14. ASSUME NEW w \in Workers, Signal(w)
      PROVE  NotifyInv'
  BY <1>14 DEF Signal, Home
<1>15. ASSUME NEW w \in Workers, Write(w)
      PROVE  NotifyInv'
  BY <1>15 DEF Write, Home
<1>16. ASSUME NEW w \in Workers, SpuriousWakeup(w)
      PROVE  NotifyInv'
  BY <1>16 DEF SpuriousWakeup
<1>17. ASSUME NEW c \in Callers, BeginSubmit(c)
      PROVE  NotifyInv'
  BY <1>17 DEF BeginSubmit
<1>18. ASSUME NEW c \in Callers, Push(c)
      PROVE  NotifyInv'
  BY <1>18 DEF Push
<1>19. ASSUME NEW c \in Callers, ReadParked(c)
      PROVE  NotifyInv'
  BY <1>19 DEF ReadParked
<1>20. ASSUME NEW c \in Callers, ReadWaking(c)
      PROVE  NotifyInv'
  BY <1>20 DEF ReadWaking
<1>21. ASSUME NEW c \in Callers, ClaimWake(c)
      PROVE  NotifyInv'
  <2> DEFINE k == IF woken = 0 THEN Claimable(1) ELSE 0
  <2>1. k \in Nat /\ k <= Cardinality(Workers)
    <3>1. Claimable(1) \in Nat /\ Claimable(1) <= Cardinality(Workers)
      BY ClaimableType, ClaimableBound
    <3>2. Cardinality(Workers) \in Nat
      BY FS_CardinalityType
    <3> HIDE DEF CountInv
    <3> QED BY <3>1, <3>2
  <2>2. notifies' = [notifies EXCEPT ![c] = k] /\ pc[c] = "claim"
        /\ pc' = [pc EXCEPT ![c] = IF k > 0 THEN "submitNotify" ELSE "idle"]
    BY <1>21 DEF ClaimWake
  <2> HIDE DEF k
  <2> QED BY <2>1, <2>2
<1>22. ASSUME NEW c \in Callers, Notify(c)
      PROVE  NotifyInv'
  <2>1. /\ notifies' = [notifies EXCEPT ![c] = @ - 1]
        /\ pc[c] \in {"notify", "submitNotify"}
    BY <1>22 DEF Notify
  <2>2. /\ pc[c] = "submitNotify"
        /\ pc'[c] = IF notifies[c] > 1 THEN "submitNotify" ELSE "idle"
        /\ \A t \in Threads \ {c} : pc'[t] = pc[t] \/ (pc[t] = "waiting" /\ pc'[t] = "woken")
    BY <1>22 DEF Notify, NotifyOneThen, Waiting
  <2>3. Cardinality(Workers) \in Nat /\ notifies[c] \in Nat
    BY FS_CardinalityType
  <2>4. \A t \in Threads \ {c} : notifies'[t] = notifies[t]
    BY <2>1
  <2>5. /\ notifies'[c] <= Cardinality(Workers)
        /\ notifies'[c] > 0 <=> pc'[c] \in {"notify", "submitNotify"}
    BY <2>1, <2>2, <2>3
  <2> QED BY <2>2, <2>4, <2>5
<1>23. ASSUME NEW c \in Callers, NEW j \in Jobs, BeginCancel(c, j)
      PROVE  NotifyInv'
  BY <1>23 DEF BeginCancel
<1>24. ASSUME NEW c \in Callers, Move(c)
      PROVE  NotifyInv'
  BY <1>24 DEF Move
<1>25. ASSUME NEW c \in Callers, CancelQueued(c)
      PROVE  NotifyInv'
  BY <1>25 DEF CancelQueued
<1>26. ASSUME NEW c \in Callers, CancelOther(c)
      PROVE  NotifyInv'
  BY <1>26 DEF CancelOther
<1>27. ASSUME NEW c \in Callers, Publish(c)
      PROVE  NotifyInv'
  BY <1>27 DEF Publish
<1>28. ASSUME NEW c \in Callers, Signal(c)
      PROVE  NotifyInv'
  BY <1>28 DEF Signal, Home
<1>29. ASSUME NEW c \in Callers, Write(c)
      PROVE  NotifyInv'
  BY <1>29 DEF Write, Home
<1>30. ASSUME NEW c \in Callers, BeginClose(c)
      PROVE  NotifyInv'
  BY <1>30 DEF BeginClose
<1>31. ASSUME NEW c \in Callers, DropQueued(c)
      PROVE  NotifyInv'
  BY <1>31 DEF DropQueued
<1>32. ASSUME NEW c \in Callers, NotifyAll(c)
      PROVE  NotifyInv'
  BY <1>32 DEF NotifyAll
<1>33. ASSUME NEW c \in Callers, CloseWake(c)
      PROVE  NotifyInv'
  BY <1>33 DEF CloseWake
<1>34. CASE ReadWake
  BY <1>34 DEF ReadWake
<1>35. CASE StartPump
  BY <1>35 DEF StartPump
<1>36. CASE Reset
  BY <1>36 DEF Reset
<1>37. CASE Drain
  BY <1>37 DEF Drain
<1> QED
  BY <1>1, <1>2, <1>3, <1>4, <1>5, <1>6, <1>7, <1>8, <1>9, <1>10, <1>11, <1>12,
     <1>13, <1>14, <1>15, <1>16, <1>17, <1>18, <1>19, <1>20, <1>21, <1>22, <1>23, <1>24,
     <1>25, <1>26, <1>27, <1>28, <1>29, <1>30, <1>31, <1>32, <1>33, <1>34, <1>35, <1>36,
     <1>37
  DEF Next, WorkerStep, CallerBegins, CallerStep, PumpStep, Jobs, TypeOK
-----------------------------------------------------------------------------
(* Every claimed wake is backed (WakesBacked).                             *)

LEMMA PromisesFinite ==
  /\ IsFiniteSet(Threads) /\ IsFiniteSet(Leaving) /\ IsFiniteSet(Leaving')
  /\ IsFiniteSet(Promises) /\ IsFiniteSet(Promises')
  /\ Cardinality(Leaving) \in Nat /\ Cardinality(Leaving') \in Nat
  /\ Cardinality(Promises) \in Nat /\ Cardinality(Promises') \in Nat
<1>1. IsFiniteSet(Threads) /\ Cardinality(Workers) \in Nat
  BY PoolAssumption, FS_Union, FS_CardinalityType DEF Threads
<1>2. IsFiniteSet(0..Cardinality(Workers))
  BY <1>1, FS_Interval
<1>3. IsFiniteSet(Threads \X (0..Cardinality(Workers)))
  BY <1>1, <1>2, FS_Product
<1>4. IsFiniteSet(Promises) /\ IsFiniteSet(Promises')
  BY <1>3, FS_Subset DEF Promises
<1>5. IsFiniteSet(Leaving) /\ IsFiniteSet(Leaving')
  BY PoolAssumption, FS_Subset DEF Leaving
<1> QED BY <1>1, <1>4, <1>5, FS_CardinalityType

(* No claim is made and nobody who backs one goes away.                    *)
LEMMA BackedGrows ==
  ASSUME TypeOK, WakesBacked,
         woken' = woken, Promises \subseteq Promises', Leaving \subseteq Leaving'
  PROVE  WakesBacked'
<1>1. Cardinality(Promises) <= Cardinality(Promises') /\ Cardinality(Leaving) <= Cardinality(Leaving')
  BY PromisesFinite, FS_Subset
<1> QED BY <1>1, PromisesFinite DEF WakesBacked, TypeOK

(* A claim of k wakes is backed by the k notifies its thread then owes and *)
(* by idle workers no earlier claim counts on.                             *)
LEMMA ClaimBacked ==
  ASSUME TypeOK, CountInv, NotifyInv, WakesBacked,
         NEW t \in Threads, NEW k \in Nat, NEW l,
         \A w \in Workers : pc[w] # "raised",
         k <= Cardinality(Workers), k > 0 => woken + k <= idle,
         pc[t] \notin {"waiting", "woken", "unpark"}, l \notin {"woken", "unpark"},
         notifies[t] = 0, woken' = woken + k,
         notifies' = [notifies EXCEPT ![t] = k], pc' = [pc EXCEPT ![t] = l]
  PROVE  WakesBacked'
<1> DEFINE New == {t} \X (1..k)
<1>1. Leaving \subseteq Leaving' /\ Idle \subseteq Leaving
  BY DEF Leaving, Idle, TypeOK, Threads
<1>2. Cardinality(Leaving) <= Cardinality(Leaving') /\ Cardinality(Idle) <= Cardinality(Leaving)
  BY <1>1, PromisesFinite, FS_Subset
<1>3. woken' <= Cardinality(Leaving')
  BY <1>2, PromisesFinite, IdleFinite DEF CountInv, WakesBacked, TypeOK
<1>4. Promises \cup New \subseteq Promises'
  <2>1. Cardinality(Workers) \in Nat
    BY PoolAssumption, FS_CardinalityType
  <2> QED BY <2>1 DEF Promises, TypeOK
<1>5. Promises \cap New = {}
  BY DEF Promises
<1>6. IsFiniteSet(New) /\ Cardinality(New) = k
  <2>1. IsFiniteSet({t}) /\ Cardinality({t}) = 1
    BY FS_Singleton
  <2>2. IsFiniteSet(1..k) /\ Cardinality(1..k) = k
    BY FS_Interval
  <2>3. IsFiniteSet(New) /\ Cardinality(New) = Cardinality({t}) * Cardinality(1..k)
    BY <2>1, <2>2, FS_Product
  <2>4. Cardinality({t}) * Cardinality(1..k) = k
    BY <2>1, <2>2
  <2> QED BY <2>3, <2>4
<1> HIDE DEF New
<1>7. Cardinality(Promises \cup New) = Cardinality(Promises) + k
  <2>1. Cardinality({}) = 0
    BY FS_EmptySet
  <2>2. Cardinality(Promises \cup New) = Cardinality(Promises) + Cardinality(New) - Cardinality({})
    BY <1>5, <1>6, PromisesFinite, FS_Union
  <2> QED BY <1>6, <2>1, <2>2, PromisesFinite
<1>8. Cardinality(Promises) + k <= Cardinality(Promises')
  BY <1>4, <1>7, PromisesFinite, FS_Subset
<1>9. woken' <= Cardinality(Promises')
  BY <1>8, PromisesFinite DEF WakesBacked, TypeOK
<1> QED BY <1>3, <1>9 DEF WakesBacked

(* A worker that takes up a wake leaves with the claim it backed.          *)
LEMMA TakeUpBacked ==
  ASSUME TypeOK, NotifyInv, WakesBacked, NEW w \in Workers, TakeUpWake(w)
  PROVE  WakesBacked'
<1>0. /\ pc[w] = "unpark" /\ pc' = [pc EXCEPT ![w] = "loop"] /\ UNCHANGED notifies
      /\ woken' = IF woken > 0 THEN woken - 1 ELSE 0
  BY DEF TakeUpWake, Step, Goto, threadVars
<1>1. Leaving' = Leaving \ {w} /\ w \in Leaving
  BY <1>0 DEF Leaving, TypeOK, Threads
<1>2. Promises' = Promises \ {<<w, 0>>} /\ <<w, 0>> \in Promises
  <2>1. Cardinality(Workers) \in Nat
    BY PoolAssumption, FS_CardinalityType
  <2> QED BY <1>0, <2>1 DEF Promises, TypeOK, Threads, NotifyInv
<1>3. Cardinality(Leaving') = Cardinality(Leaving) - 1
  BY <1>1, PromisesFinite, FS_RemoveElement
<1>4. Cardinality(Promises') = Cardinality(Promises) - 1
  BY <1>2, PromisesFinite, FS_RemoveElement
<1> QED BY <1>0, <1>3, <1>4, PromisesFinite DEF WakesBacked, TypeOK

(* A notify turns the promise to notify into a worker on its way; with no  *)
(* worker waiting it is lost, but then every worker counted on is on its   *)
(* way already.                                                            *)
LEMMA NotifyBacked ==
  ASSUME TypeOK, NotifyInv, WakesBacked, NEW t \in Threads, Notify(t)
  PROVE  WakesBacked'
<1>0. Cardinality(Workers) \in Nat
  BY PoolAssumption, FS_CardinalityType
<1>1. /\ pc[t] \in {"notify", "submitNotify"} /\ notifies[t] > 0
      /\ notifies' = [notifies EXCEPT ![t] = @ - 1] /\ woken' = woken
  BY DEF Notify, NotifyInv, lockedVars
<1>2. PICK l : NotifyOneThen(t, l) /\ l \in {"notify", "submitNotify", "run", "idle"}
  BY <1>1 DEF Notify
<1>3. CASE \E w \in Waiting : pc' = [pc EXCEPT ![w] = "woken", ![t] = l]
  <2>1. PICK w \in Workers : pc[w] = "waiting" /\ pc' = [pc EXCEPT ![w] = "woken", ![t] = l]
    BY <1>3 DEF Waiting
  <2>2. w # t /\ w \in Threads
    BY <1>1, <2>1 DEF Threads
  <2>3. Leaving' = Leaving
    BY <1>1, <1>2, <2>1, <2>2 DEF Leaving, TypeOK, Threads
  <2> DEFINE Rest == Promises \ {<<t, notifies[t]>>}
  <2>4. <<t, notifies[t]>> \in Promises /\ <<w, 0>> \notin Rest
    BY <1>0, <1>1, <2>1, <2>2 DEF Promises, TypeOK, NotifyInv
  <2>5. Rest \cup {<<w, 0>>} \subseteq Promises'
    BY <1>0, <1>1, <1>2, <2>1, <2>2 DEF Promises, TypeOK, NotifyInv
  <2>6. IsFiniteSet(Rest) /\ Cardinality(Rest) = Cardinality(Promises) - 1
    BY <2>4, PromisesFinite, FS_RemoveElement
  <2>7. /\ IsFiniteSet(Rest \cup {<<w, 0>>})
        /\ Cardinality(Rest \cup {<<w, 0>>}) = Cardinality(Promises)
    <3> HIDE DEF Rest
    <3>1. IsFiniteSet(Rest \cup {<<w, 0>>}) /\ Cardinality(Rest \cup {<<w, 0>>}) = Cardinality(Rest) + 1
      BY <2>4, <2>6, FS_AddElement
    <3> QED BY <2>6, <3>1, PromisesFinite
  <2>8. Cardinality(Promises) <= Cardinality(Promises')
    BY <2>5, <2>7, PromisesFinite, FS_Subset
  <2> QED BY <1>1, <2>3, <2>8, PromisesFinite DEF WakesBacked, TypeOK
<1>4. CASE Waiting = {} /\ Goto(t, l)
  <2>1. Leaving' = Leaving
    BY <1>1, <1>2, <1>4 DEF Leaving, Goto, TypeOK, Threads
  <2>2. Leaving \X {0} \subseteq Promises'
    BY <1>0, <1>1, <1>2, <1>4 DEF Leaving, Promises, Waiting, Goto, TypeOK, Threads
  <2>3. Cardinality(Leaving \X {0}) = Cardinality(Leaving)
    <3>1. IsFiniteSet({0}) /\ Cardinality({0}) = 1
      BY FS_Singleton
    <3>2. Cardinality(Leaving \X {0}) = Cardinality(Leaving) * Cardinality({0})
      BY <3>1, PromisesFinite, FS_Product
    <3> QED BY <3>1, <3>2, PromisesFinite
  <2>4. Cardinality(Leaving) <= Cardinality(Promises')
    BY <2>2, <2>3, PromisesFinite, FS_Subset
  <2> QED BY <1>1, <2>1, <2>4, PromisesFinite DEF WakesBacked, TypeOK
<1> QED BY <1>2, <1>3, <1>4 DEF NotifyOneThen

LEMMA BackedStep ==
  ASSUME TypeOK, LockInv, CountInv, NotifyInv, WakesBacked, Next
  PROVE  WakesBacked'
<1> USE PoolAssumption, PcType DEF Goto, Step, Acquire, Release, Within,
        WhileFree, lockedVars, atomicVars, threadVars
<1>1. ASSUME NEW w \in Workers, Exit(w)
      PROVE  WakesBacked'
  <2>1. woken' = woken /\ Promises \subseteq Promises' /\ Leaving \subseteq Leaving'
    BY <1>1 DEF Exit, Promises, Leaving, TypeOK, Threads, WorkerPCs, CallerPCs
  <2> QED BY <2>1, BackedGrows
<1>2. ASSUME NEW w \in Workers, TakeInbox(w)
      PROVE  WakesBacked'
  <2>1. woken' = woken /\ Promises \subseteq Promises' /\ Leaving \subseteq Leaving'
    BY <1>2 DEF TakeInbox, Promises, Leaving, TypeOK, Threads, WorkerPCs, CallerPCs
  <2> QED BY <2>1, BackedGrows
<1>3. ASSUME NEW w \in Workers, Move(w)
      PROVE  WakesBacked'
  <2>1. woken' = woken /\ Promises \subseteq Promises' /\ Leaving \subseteq Leaving'
    BY <1>3 DEF Move, Promises, Leaving, TypeOK, Threads, WorkerPCs, CallerPCs
  <2> QED BY <2>1, BackedGrows
<1>4. ASSUME NEW w \in Workers, Pop(w)
      PROVE  WakesBacked'
  <2> DEFINE k == Claimable(QueuedIn(lanes'))
  <2>1. k \in Nat /\ k <= Cardinality(Workers) /\ (k > 0 => woken + k <= idle)
    BY QueuedInType, ClaimableType, ClaimableBound
  <2>2. /\ notifies' = [notifies EXCEPT ![w] = k] /\ pc[w] = "moving" /\ Claim(k)
        /\ pc' = [pc EXCEPT ![w] = IF k > 0 THEN "notify" ELSE "run"]
    BY <1>4 DEF Pop
  <2>3. \A v \in Workers : pc[v] # "raised"
    BY <1>4 DEF Pop, LockInv, HoldingPCs
  <2> HIDE DEF k
  <2>4. w \in Threads /\ notifies[w] = 0
    <3>1. w \in Threads /\ notifies[w] \in Nat
      BY DEF TypeOK, Threads
    <3> QED BY <2>2, <3>1 DEF NotifyInv
  <2> QED BY <2>1, <2>2, <2>3, <2>4, ClaimBacked DEF Claim
<1>5. ASSUME NEW w \in Workers, Raise(w)
      PROVE  WakesBacked'
  <2>1. woken' = woken /\ Promises \subseteq Promises' /\ Leaving \subseteq Leaving'
    BY <1>5 DEF Raise, Promises, Leaving, TypeOK, Threads, WorkerPCs, CallerPCs
  <2> QED BY <2>1, BackedGrows
<1>6. ASSUME NEW w \in Workers, LookAgain(w)
      PROVE  WakesBacked'
  <2>1. woken' = woken /\ Promises \subseteq Promises' /\ Leaving \subseteq Leaving'
    BY <1>6 DEF LookAgain, Promises, Leaving, TypeOK, Threads, WorkerPCs, CallerPCs
  <2> QED BY <2>1, BackedGrows
<1>7. ASSUME NEW w \in Workers, Wait(w)
      PROVE  WakesBacked'
  <2>1. woken' = woken /\ Promises \subseteq Promises' /\ Leaving \subseteq Leaving'
    BY <1>7 DEF Wait, Promises, Leaving, TypeOK, Threads, WorkerPCs, CallerPCs
  <2> QED BY <2>1, BackedGrows
<1>8. ASSUME NEW w \in Workers, Unwait(w)
      PROVE  WakesBacked'
  <2>1. woken' = woken /\ Promises \subseteq Promises' /\ Leaving \subseteq Leaving'
    BY <1>8 DEF Unwait, Promises, Leaving, TypeOK, Threads, WorkerPCs, CallerPCs
  <2> QED BY <2>1, BackedGrows
<1>9. ASSUME NEW w \in Workers, TakeUpWake(w)
      PROVE  WakesBacked'
  BY <1>9, TakeUpBacked
<1>10. ASSUME NEW w \in Workers, Notify(w)
      PROVE  WakesBacked'
  BY <1>10, NotifyBacked DEF Threads
<1>11. ASSUME NEW w \in Workers, Run(w)
      PROVE  WakesBacked'
  <2>1. woken' = woken /\ Promises \subseteq Promises' /\ Leaving \subseteq Leaving'
    BY <1>11 DEF Run, Promises, Leaving, TypeOK, Threads, WorkerPCs, CallerPCs
  <2> QED BY <2>1, BackedGrows
<1>12. ASSUME NEW w \in Workers, Unregister(w)
      PROVE  WakesBacked'
  <2>1. woken' = woken /\ Promises \subseteq Promises' /\ Leaving \subseteq Leaving'
    BY <1>12 DEF Unregister, Promises, Leaving, TypeOK, Threads, WorkerPCs, CallerPCs
  <2> QED BY <2>1, BackedGrows
<1>13. ASSUME NEW w \in Workers, Publish(w)
      PROVE  WakesBacked'
  <2>1. woken' = woken /\ Promises \subseteq Promises' /\ Leaving \subseteq Leaving'
    BY <1>13 DEF Publish, Promises, Leaving, TypeOK, Threads, WorkerPCs, CallerPCs
  <2> QED BY <2>1, BackedGrows
<1>14. ASSUME NEW w \in Workers, Signal(w)
      PROVE  WakesBacked'
  <2>1. woken' = woken /\ Promises \subseteq Promises' /\ Leaving \subseteq Leaving'
    BY <1>14 DEF Signal, Home, Promises, Leaving, TypeOK, Threads, WorkerPCs, CallerPCs
  <2> QED BY <2>1, BackedGrows
<1>15. ASSUME NEW w \in Workers, Write(w)
      PROVE  WakesBacked'
  <2>1. woken' = woken /\ Promises \subseteq Promises' /\ Leaving \subseteq Leaving'
    BY <1>15 DEF Write, Home, Promises, Leaving, TypeOK, Threads, WorkerPCs, CallerPCs
  <2> QED BY <2>1, BackedGrows
<1>16. ASSUME NEW w \in Workers, SpuriousWakeup(w)
      PROVE  WakesBacked'
  <2>1. woken' = woken /\ Promises \subseteq Promises' /\ Leaving \subseteq Leaving'
    BY <1>16 DEF SpuriousWakeup, Promises, Leaving, TypeOK, Threads, WorkerPCs, CallerPCs
  <2> QED BY <2>1, BackedGrows
<1>17. ASSUME NEW c \in Callers, BeginSubmit(c)
      PROVE  WakesBacked'
  <2>1. woken' = woken /\ Promises \subseteq Promises' /\ Leaving \subseteq Leaving'
    BY <1>17 DEF BeginSubmit, Promises, Leaving, TypeOK, Threads, WorkerPCs, CallerPCs
  <2> QED BY <2>1, BackedGrows
<1>18. ASSUME NEW c \in Callers, Push(c)
      PROVE  WakesBacked'
  <2>1. woken' = woken /\ Promises \subseteq Promises' /\ Leaving \subseteq Leaving'
    BY <1>18 DEF Push, Promises, Leaving, TypeOK, Threads, WorkerPCs, CallerPCs
  <2> QED BY <2>1, BackedGrows
<1>19. ASSUME NEW c \in Callers, ReadParked(c)
      PROVE  WakesBacked'
  <2>1. woken' = woken /\ Promises \subseteq Promises' /\ Leaving \subseteq Leaving'
    BY <1>19 DEF ReadParked, Promises, Leaving, TypeOK, Threads, WorkerPCs, CallerPCs
  <2> QED BY <2>1, BackedGrows
<1>20. ASSUME NEW c \in Callers, ReadWaking(c)
      PROVE  WakesBacked'
  <2>1. woken' = woken /\ Promises \subseteq Promises' /\ Leaving \subseteq Leaving'
    BY <1>20 DEF ReadWaking, Promises, Leaving, TypeOK, Threads, WorkerPCs, CallerPCs
  <2> QED BY <2>1, BackedGrows
<1>21. ASSUME NEW c \in Callers, ClaimWake(c)
      PROVE  WakesBacked'
  <2> DEFINE k == IF woken = 0 THEN Claimable(1) ELSE 0
  <2>1. k \in Nat /\ k <= Cardinality(Workers) /\ (k > 0 => woken + k <= idle)
    <3>1. Claimable(1) \in Nat /\ Claimable(1) <= Cardinality(Workers)
          /\ (Claimable(1) > 0 => woken + Claimable(1) <= idle)
      BY ClaimableType, ClaimableBound
    <3>2. Cardinality(Workers) \in Nat
      BY FS_CardinalityType
    <3> QED BY <3>1, <3>2
  <2>2. /\ notifies' = [notifies EXCEPT ![c] = k] /\ pc[c] = "claim" /\ Claim(k)
        /\ pc' = [pc EXCEPT ![c] = IF k > 0 THEN "submitNotify" ELSE "idle"]
    BY <1>21 DEF ClaimWake
  <2>3. \A v \in Workers : pc[v] # "raised"
    BY <1>21 DEF ClaimWake, LockInv, HoldingPCs
  <2>4. c \in Threads /\ notifies[c] = 0
    BY <2>2 DEF NotifyInv, TypeOK, Threads
  <2> HIDE DEF k
  <2> QED BY <2>1, <2>2, <2>3, <2>4, ClaimBacked DEF Claim
<1>22. ASSUME NEW c \in Callers, Notify(c)
      PROVE  WakesBacked'
  BY <1>22, NotifyBacked DEF Threads
<1>23. ASSUME NEW c \in Callers, NEW j \in Jobs, BeginCancel(c, j)
      PROVE  WakesBacked'
  <2>1. woken' = woken /\ Promises \subseteq Promises' /\ Leaving \subseteq Leaving'
    BY <1>23 DEF BeginCancel, Promises, Leaving, TypeOK, Threads, WorkerPCs, CallerPCs
  <2> QED BY <2>1, BackedGrows
<1>24. ASSUME NEW c \in Callers, Move(c)
      PROVE  WakesBacked'
  <2>1. woken' = woken /\ Promises \subseteq Promises' /\ Leaving \subseteq Leaving'
    BY <1>24 DEF Move, Promises, Leaving, TypeOK, Threads, WorkerPCs, CallerPCs
  <2> QED BY <2>1, BackedGrows
<1>25. ASSUME NEW c \in Callers, CancelQueued(c)
      PROVE  WakesBacked'
  <2>1. woken' = woken /\ Promises \subseteq Promises' /\ Leaving \subseteq Leaving'
    BY <1>25 DEF CancelQueued, Promises, Leaving, TypeOK, Threads, WorkerPCs, CallerPCs
  <2> QED BY <2>1, BackedGrows
<1>26. ASSUME NEW c \in Callers, CancelOther(c)
      PROVE  WakesBacked'
  <2>1. woken' = woken /\ Promises \subseteq Promises' /\ Leaving \subseteq Leaving'
    BY <1>26 DEF CancelOther, Promises, Leaving, TypeOK, Threads, WorkerPCs, CallerPCs
  <2> QED BY <2>1, BackedGrows
<1>27. ASSUME NEW c \in Callers, Publish(c)
      PROVE  WakesBacked'
  <2>1. woken' = woken /\ Promises \subseteq Promises' /\ Leaving \subseteq Leaving'
    BY <1>27 DEF Publish, Promises, Leaving, TypeOK, Threads, WorkerPCs, CallerPCs
  <2> QED BY <2>1, BackedGrows
<1>28. ASSUME NEW c \in Callers, Signal(c)
      PROVE  WakesBacked'
  <2>1. woken' = woken /\ Promises \subseteq Promises' /\ Leaving \subseteq Leaving'
    BY <1>28 DEF Signal, Home, Promises, Leaving, TypeOK, Threads, WorkerPCs, CallerPCs
  <2> QED BY <2>1, BackedGrows
<1>29. ASSUME NEW c \in Callers, Write(c)
      PROVE  WakesBacked'
  <2>1. woken' = woken /\ Promises \subseteq Promises' /\ Leaving \subseteq Leaving'
    BY <1>29 DEF Write, Home, Promises, Leaving, TypeOK, Threads, WorkerPCs, CallerPCs
  <2> QED BY <2>1, BackedGrows
<1>30. ASSUME NEW c \in Callers, BeginClose(c)
      PROVE  WakesBacked'
  <2>1. woken' = woken /\ Promises \subseteq Promises' /\ Leaving \subseteq Leaving'
    BY <1>30 DEF BeginClose, Promises, Leaving, TypeOK, Threads, WorkerPCs, CallerPCs
  <2> QED BY <2>1, BackedGrows
<1>31. ASSUME NEW c \in Callers, DropQueued(c)
      PROVE  WakesBacked'
  <2>1. woken' = woken /\ Promises \subseteq Promises' /\ Leaving \subseteq Leaving'
    BY <1>31 DEF DropQueued, Promises, Leaving, TypeOK, Threads, WorkerPCs, CallerPCs
  <2> QED BY <2>1, BackedGrows
<1>32. ASSUME NEW c \in Callers, NotifyAll(c)
      PROVE  WakesBacked'
  <2>1. woken' = woken /\ UNCHANGED notifies
        /\ \A t \in Threads : pc'[t] = pc[t] \/ (pc[t] = "waiting" /\ pc'[t] = "woken")
                             \/ (t = c /\ pc[c] = "notifyAll")
    BY <1>32 DEF NotifyAll
  <2>2. Promises \subseteq Promises'
    BY <2>1 DEF Promises
  <2>3. Leaving \subseteq Leaving'
    BY <2>1 DEF Leaving, Threads
  <2> QED BY <2>1, <2>2, <2>3, BackedGrows
<1>33. ASSUME NEW c \in Callers, CloseWake(c)
      PROVE  WakesBacked'
  <2>1. woken' = woken /\ Promises \subseteq Promises' /\ Leaving \subseteq Leaving'
    BY <1>33 DEF CloseWake, Promises, Leaving, TypeOK, Threads, WorkerPCs, CallerPCs
  <2> QED BY <2>1, BackedGrows
<1>34. CASE ReadWake
  <2>1. woken' = woken /\ Promises \subseteq Promises' /\ Leaving \subseteq Leaving'
    BY <1>34 DEF ReadWake, Promises, Leaving, TypeOK, Threads, WorkerPCs, CallerPCs
  <2> QED BY <2>1, BackedGrows
<1>35. CASE StartPump
  <2>1. woken' = woken /\ Promises \subseteq Promises' /\ Leaving \subseteq Leaving'
    BY <1>35 DEF StartPump, Promises, Leaving, TypeOK, Threads, WorkerPCs, CallerPCs
  <2> QED BY <2>1, BackedGrows
<1>36. CASE Reset
  <2>1. woken' = woken /\ Promises \subseteq Promises' /\ Leaving \subseteq Leaving'
    BY <1>36 DEF Reset, Promises, Leaving, TypeOK, Threads, WorkerPCs, CallerPCs
  <2> QED BY <2>1, BackedGrows
<1>37. CASE Drain
  <2>1. woken' = woken /\ Promises \subseteq Promises' /\ Leaving \subseteq Leaving'
    BY <1>37 DEF Drain, Promises, Leaving, TypeOK, Threads, WorkerPCs, CallerPCs
  <2> QED BY <2>1, BackedGrows
<1> QED
  BY <1>1, <1>2, <1>3, <1>4, <1>5, <1>6, <1>7, <1>8, <1>9, <1>10, <1>11, <1>12,
     <1>13, <1>14, <1>15, <1>16, <1>17, <1>18, <1>19, <1>20, <1>21, <1>22, <1>23, <1>24,
     <1>25, <1>26, <1>27, <1>28, <1>29, <1>30, <1>31, <1>32, <1>33, <1>34, <1>35, <1>36,
     <1>37
  DEF Next, WorkerStep, CallerBegins, CallerStep, PumpStep, Jobs, TypeOK
-----------------------------------------------------------------------------
(* No worker sleeps on a job (WorkConserving).                             *)

(* A claimed wake is being delivered, by a thread that attends to it.      *)
LEMMA PromiseAttends ==
  ASSUME TypeOK, NotifyInv, WakesBacked, woken > 0
  PROVE  \E t \in Threads : Attending(t) /\ pc[t] \in {"woken", "unpark", "notify", "submitNotify"}
<1>1. Cardinality(Promises) > 0
  BY PromisesFinite DEF WakesBacked, TypeOK
<1>2. Promises # {}
  BY <1>1, FS_EmptySet
<1>3. PICK q \in Promises : TRUE
  BY <1>2
<1>4. Cardinality(Workers) \in Nat
  BY PoolAssumption, FS_CardinalityType
<1>5. q[1] \in Threads /\ pc[q[1]] \in {"woken", "unpark", "notify", "submitNotify"}
  BY <1>3, <1>4 DEF Promises, NotifyInv, TypeOK
<1>6. Attending(q[1])
  BY <1>5, PcType DEF Attending, Threads, SubmitPCs, LookingPCs, WorkerPCs, CallerPCs
<1> QED BY <1>5, <1>6

LEMMA WaitingIsIdle ==
  ASSUME TypeOK, CountInv, Waiting # {}
  PROVE  idle > 0 /\ parked > 0
<1>1. PICK w \in Workers : pc[w] = "waiting"
  BY DEF Waiting
<1>2. w \in Idle
  BY <1>1 DEF Idle
<1> QED BY <1>2, IdleIsPositive DEF CountInv

(* The two ways most steps keep it: someone attends afterwards, or the     *)
(* step adds no job, puts nobody to sleep and distracts nobody.            *)
LEMMA SomeoneAttends ==
  ASSUME NEW t \in Threads, Attending(t)'
  PROVE  WorkConserving'
BY DEF WorkConserving

LEMMA NobodyDistracted ==
  ASSUME WorkConserving, shutdown' = shutdown, Waiting' \subseteq Waiting,
         InInbox' => InInbox, InLanes' => InLanes,
         \A t \in Threads : /\ Attending(t) => Attending(t)'
                            /\ pc[t] = "moving" => pc'[t] = "moving"
  PROVE  WorkConserving'
BY DEF WorkConserving

(* A lane with a job in it counts for at least one.                        *)
LEMMA QueuedInPositive ==
  ASSUME NEW l \in [Prios -> Seq(Jobs)], NEW p \in Prios, l[p] # <<>>
  PROVE  QueuedIn(l) > 0
<1> DEFINE Q == {q \in Prios \X Jobs : q[2] <= Len(l[q[1]])}
<1>1. Len(l[p]) >= 1
  BY EmptySeq, LenProperties
<1>2. <<p, 1>> \in Q
  <2>1. l[p][1] \in Jobs
    BY <1>1, ElementOfSeq
  <2> QED BY <1>1, <2>1, PoolAssumption DEF Jobs
<1>3. IsFiniteSet(Q)
  <2>1. IsFiniteSet(Prios) /\ IsFiniteSet(Jobs)
    BY PoolAssumption, FS_Interval DEF Prios, Jobs
  <2> QED BY <2>1, FS_Product, FS_Subset
<1>4. Cardinality(Q) # 0 /\ Cardinality(Q) \in Nat
  BY <1>2, <1>3, FS_EmptySet, FS_CardinalityType
<1> QED BY <1>4 DEF QueuedIn

LEMMA ConserveStep ==
  ASSUME TypeOK, TypeOK', LockInv, CountInv, NotifyInv, MovingInv, WakesBacked,
         WorkConserving, Next
  PROVE  WorkConserving'
<1> USE PoolAssumption, PcType DEF Goto, Step, Acquire, Release, Within, WhileFree
<1>1. ASSUME NEW w \in Workers, Exit(w)
      PROVE  WorkConserving'
  <2>1. shutdown'
    BY <1>1 DEF Exit, lockedVars
  <2> QED BY <2>1 DEF WorkConserving
<1>2. ASSUME NEW w \in Workers, TakeInbox(w)
      PROVE  WorkConserving'
  <2>1. w \in Threads /\ pc'[w] = "moving" /\ inbox' = <<>>
    BY <1>2 DEF TakeInbox, DetachInbox, TypeOK, Threads
  <2> QED BY <2>1 DEF WorkConserving, InInbox
<1>3. ASSUME NEW w \in Workers, Move(w)
      PROVE  WorkConserving'
  <2>1. shutdown' = shutdown /\ inbox' = inbox /\ (InLanes' => InLanes)
    BY <1>3 DEF Move, MoveOldest, InLanes, LanesEmpty, queueVars, lockedVars, TypeOK
  <2>2. Waiting' \subseteq Waiting
    BY <1>3 DEF Move, MoveOldest, Waiting, Attending, SubmitPCs, LookingPCs, WorkerPCs, CallerPCs, TypeOK,
       Threads
  <2>3. \A t \in Threads : (Attending(t) => Attending(t)') /\ (pc[t] = "moving" => pc'[t] = "moving")
    BY <1>3 DEF Move, MoveOldest, Attending, SubmitPCs, LookingPCs, WorkerPCs, CallerPCs, TypeOK, Threads
  <2> QED BY <2>1, <2>2, <2>3, NobodyDistracted DEF InInbox
<1>4. ASSUME NEW w \in Workers, Pop(w)
      PROVE  WorkConserving'
  <2> DEFINE n == QueuedIn(lanes')
  <2>1. n \in Nat /\ Claimable(n) \in Nat
    BY QueuedInType, ClaimableType
  <2>2. /\ pc[w] = "moving" /\ Claim(Claimable(n)) /\ UNCHANGED <<batch, inbox, shutdown, idle>>
        /\ pc' = [pc EXCEPT ![w] = IF Claimable(n) > 0 THEN "notify" ELSE "run"] /\ batch = <<>>
    BY <1>4 DEF Pop
  <2>3. CASE Claimable(n) > 0
    <3>1. w \in Threads /\ Attending(w)'
      BY <2>2, <2>3 DEF Attending, SubmitPCs, LookingPCs, WorkerPCs, CallerPCs, TypeOK, Threads
    <3> QED BY <3>1, SomeoneAttends
  <2>4. CASE Claimable(n) = 0
    <3>1. Waiting' = Waiting
      BY <2>2, <2>4 DEF Waiting, TypeOK, Threads
    <3>2. ASSUME NEW t \in Threads, Attending(t)
          PROVE  Attending(t)'
      BY <2>2, <2>4, <3>2 DEF Attending, SubmitPCs, LookingPCs, WorkerPCs, CallerPCs, TypeOK, Threads
    <3>3. ASSUME InLanes', Waiting # {}
          PROVE  \E t \in Threads : Attending(t)
      <4>0. PICK p \in Prios : lanes'[p] # <<>>
        BY <2>2, <3>3 DEF InLanes, LanesEmpty
      <4>1. n > 0
        BY <4>0, QueuedInPositive DEF TypeOK
      <4> HIDE DEF n
      <4>2. idle <= woken /\ idle > 0
        BY <2>1, <2>4, <3>3, <4>1, ClaimableType, WaitingIsIdle
      <4>3. woken > 0
        BY <4>2 DEF TypeOK
      <4> QED BY <4>3, PromiseAttends
    <3> HIDE DEF n
    <3> QED BY <2>2, <3>1, <3>2, <3>3 DEF WorkConserving, InInbox
  <2> QED BY <2>1, <2>3, <2>4
<1>5. ASSUME NEW w \in Workers, Raise(w)
      PROVE  WorkConserving'
  <2>1. w \in Threads /\ Attending(w)'
    BY <1>5 DEF Raise, Attending, SubmitPCs, LookingPCs, WorkerPCs, CallerPCs, TypeOK, Threads
  <2> QED BY <2>1, SomeoneAttends
<1>6. ASSUME NEW w \in Workers, LookAgain(w)
      PROVE  WorkConserving'
  <2>1. w \in Threads /\ Attending(w)'
    BY <1>6 DEF LookAgain, Attending, SubmitPCs, LookingPCs, WorkerPCs, CallerPCs, TypeOK, Threads
  <2> QED BY <2>1, SomeoneAttends
<1>7. ASSUME NEW w \in Workers, Wait(w)
      PROVE  WorkConserving'
  <2>1. inbox' = <<>> /\ UNCHANGED <<batch, lanes>> /\ LanesEmpty
    BY <1>7 DEF Wait, MovingInv, queueVars
  <2>2. batch = <<>>
    BY <1>7 DEF Wait, MovingInv, LockInv, HoldingPCs, Threads
  <2> QED BY <2>1, <2>2 DEF WorkConserving, InInbox, InLanes, LanesEmpty
<1>8. ASSUME NEW w \in Workers, Unwait(w)
      PROVE  WorkConserving'
  <2>1. w \in Threads /\ Attending(w)'
    BY <1>8 DEF Unwait, Attending, SubmitPCs, LookingPCs, WorkerPCs, CallerPCs, TypeOK, Threads
  <2> QED BY <2>1, SomeoneAttends
<1>9. ASSUME NEW w \in Workers, TakeUpWake(w)
      PROVE  WorkConserving'
  <2>1. w \in Threads /\ Attending(w)'
    BY <1>9 DEF TakeUpWake, Attending, SubmitPCs, LookingPCs, WorkerPCs, CallerPCs, TypeOK, Threads
  <2> QED BY <2>1, SomeoneAttends
<1>10. ASSUME NEW w \in Workers, Notify(w)
      PROVE  WorkConserving'
  <2>1. PICK l \in {"notify", "submitNotify", "run", "idle"} : NotifyOneThen(w, l)
    BY <1>10 DEF Notify
  <2>2. CASE \E v \in Waiting : pc' = [pc EXCEPT ![v] = "woken", ![w] = l]
    <3>1. PICK v \in Workers : pc[v] = "waiting" /\ pc' = [pc EXCEPT ![v] = "woken", ![w] = l]
      BY <2>2 DEF Waiting
    <3>2. v \in Threads /\ v # w /\ Attending(v)'
      BY <1>10, <3>1 DEF Notify, Attending, SubmitPCs, LookingPCs, WorkerPCs, CallerPCs, TypeOK, Threads
    <3> QED BY <3>2, SomeoneAttends
  <2>3. CASE Waiting = {} /\ Goto(w, l)
    <3>1. Waiting' = {}
      BY <2>1, <2>3 DEF Waiting, TypeOK, Threads
    <3> QED BY <3>1 DEF WorkConserving
  <2> QED BY <2>1, <2>2, <2>3 DEF NotifyOneThen
<1>11. ASSUME NEW w \in Workers, Run(w)
      PROVE  WorkConserving'
  <2>1. w \in Threads /\ Attending(w)'
    BY <1>11 DEF Run, Attending, SubmitPCs, LookingPCs, WorkerPCs, CallerPCs, TypeOK, Threads
  <2> QED BY <2>1, SomeoneAttends
<1>12. ASSUME NEW w \in Workers, Unregister(w)
      PROVE  WorkConserving'
  <2>1. w \in Threads /\ Attending(w)'
    BY <1>12 DEF Unregister, Attending, SubmitPCs, LookingPCs, WorkerPCs, CallerPCs, TypeOK, Threads
  <2> QED BY <2>1, SomeoneAttends
<1>13. ASSUME NEW w \in Workers, Publish(w)
      PROVE  WorkConserving'
  <2>1. w \in Threads /\ Attending(w)'
    BY <1>13 DEF Publish, Attending, SubmitPCs, LookingPCs, WorkerPCs, CallerPCs, TypeOK, Threads
  <2> QED BY <2>1, SomeoneAttends
<1>14. ASSUME NEW w \in Workers, Signal(w)
      PROVE  WorkConserving'
  <2>1. w \in Threads /\ Attending(w)'
    BY <1>14 DEF Signal, Home, Attending, SubmitPCs, LookingPCs, WorkerPCs, CallerPCs, TypeOK, Threads
  <2> QED BY <2>1, SomeoneAttends
<1>15. ASSUME NEW w \in Workers, Write(w)
      PROVE  WorkConserving'
  <2>1. w \in Threads /\ Attending(w)'
    BY <1>15 DEF Write, Home, Attending, SubmitPCs, LookingPCs, WorkerPCs, CallerPCs, TypeOK, Threads
  <2> QED BY <2>1, SomeoneAttends
<1>16. ASSUME NEW w \in Workers, SpuriousWakeup(w)
      PROVE  WorkConserving'
  <2>1. w \in Threads /\ Attending(w)'
    BY <1>16 DEF SpuriousWakeup, Attending, SubmitPCs, LookingPCs, WorkerPCs, CallerPCs, TypeOK, Threads
  <2> QED BY <2>1, SomeoneAttends
<1>17. ASSUME NEW c \in Callers, BeginSubmit(c)
      PROVE  WorkConserving'
  <2>1. shutdown' = shutdown /\ inbox' = inbox /\ (InLanes' => InLanes)
    BY <1>17 DEF BeginSubmit, InLanes, LanesEmpty, queueVars, lockedVars, TypeOK
  <2>2. Waiting' \subseteq Waiting
    BY <1>17 DEF BeginSubmit, Waiting, Attending, SubmitPCs, LookingPCs, WorkerPCs, CallerPCs, TypeOK,
       Threads
  <2>3. \A t \in Threads : (Attending(t) => Attending(t)') /\ (pc[t] = "moving" => pc'[t] = "moving")
    BY <1>17 DEF BeginSubmit, Attending, SubmitPCs, LookingPCs, WorkerPCs, CallerPCs, TypeOK, Threads
  <2> QED BY <2>1, <2>2, <2>3, NobodyDistracted DEF InInbox
<1>18. ASSUME NEW c \in Callers, Push(c)
      PROVE  WorkConserving'
  <2>1. c \in Threads /\ Attending(c)'
    BY <1>18 DEF Push, Attending, SubmitPCs, LookingPCs, WorkerPCs, CallerPCs, TypeOK, Threads
  <2> QED BY <2>1, SomeoneAttends
<1>19. ASSUME NEW c \in Callers, ReadParked(c)
      PROVE  WorkConserving'
  <2>1. CASE parked > 0
    <3>1. c \in Threads /\ Attending(c)'
      BY <1>19, <2>1 DEF ReadParked, Attending, SubmitPCs, LookingPCs, WorkerPCs, CallerPCs, TypeOK, Threads
    <3> QED BY <3>1, SomeoneAttends
  <2>2. CASE ~(parked > 0)
    <3>1. Waiting = {}
      BY <2>2, WaitingIsIdle
    <3>2. Waiting' = {}
      BY <1>19, <2>2, <3>1 DEF ReadParked, Waiting, TypeOK, Threads
    <3> QED BY <3>2 DEF WorkConserving
  <2> QED BY <2>1, <2>2
<1>20. ASSUME NEW c \in Callers, ReadWaking(c)
      PROVE  WorkConserving'
  <2>1. CASE waking = 0
    <3>1. c \in Threads /\ Attending(c)'
      BY <1>20, <2>1 DEF ReadWaking, Attending, SubmitPCs, LookingPCs, WorkerPCs, CallerPCs, TypeOK, Threads
    <3> QED BY <3>1, SomeoneAttends
  <2>2. CASE waking # 0
    <3>1. woken > 0
      BY <2>2 DEF CountInv, TypeOK
    <3>2. PICK t \in Threads : Attending(t) /\ pc[t] \in {"woken", "unpark", "notify", "submitNotify"}
      BY <3>1, PromiseAttends
    <3>3. Attending(t)'
      BY <1>20, <2>2, <3>2 DEF ReadWaking, Attending, SubmitPCs, LookingPCs, WorkerPCs, CallerPCs, TypeOK,
         Threads
    <3> QED BY <3>3, SomeoneAttends
  <2> QED BY <2>1, <2>2
<1>21. ASSUME NEW c \in Callers, ClaimWake(c)
      PROVE  WorkConserving'
  <2> DEFINE k == IF woken = 0 THEN Claimable(1) ELSE 0
  <2>1. pc[c] = "claim" /\ pc' = [pc EXCEPT ![c] = IF k > 0 THEN "submitNotify" ELSE "idle"]
    BY <1>21 DEF ClaimWake
  <2>2. CASE k > 0
    <3>1. c \in Threads /\ Attending(c)'
      BY <2>1, <2>2 DEF Attending, SubmitPCs, LookingPCs, WorkerPCs, CallerPCs, TypeOK, Threads
    <3> QED BY <3>1, SomeoneAttends
  <2>3. CASE ~(k > 0) /\ woken > 0
    <3>1. PICK t \in Threads : Attending(t) /\ pc[t] \in {"woken", "unpark", "notify", "submitNotify"}
      BY <2>3, PromiseAttends
    <3>2. Attending(t)'
      BY <2>1, <2>3, <3>1 DEF Attending, SubmitPCs, LookingPCs, WorkerPCs, CallerPCs, TypeOK, Threads
    <3> QED BY <3>2, SomeoneAttends
  <2>4. CASE ~(k > 0) /\ woken = 0
    <3>1. Claimable(1) = 0
      BY <2>4, ClaimableType
    <3>2. idle = 0
      BY <2>4, <3>1, ClaimableType DEF TypeOK
    <3>3. Waiting = {}
      BY <3>2, WaitingIsIdle
    <3>4. Waiting' = {}
      BY <2>1, <2>4, <3>3 DEF Waiting, TypeOK, Threads
    <3> QED BY <3>4 DEF WorkConserving
  <2> QED BY <2>2, <2>3, <2>4 DEF TypeOK
<1>22. ASSUME NEW c \in Callers, Notify(c)
      PROVE  WorkConserving'
  <2>1. PICK l \in {"notify", "submitNotify", "run", "idle"} : NotifyOneThen(c, l)
    BY <1>22 DEF Notify
  <2>2. CASE \E v \in Waiting : pc' = [pc EXCEPT ![v] = "woken", ![c] = l]
    <3>1. PICK v \in Workers : pc[v] = "waiting" /\ pc' = [pc EXCEPT ![v] = "woken", ![c] = l]
      BY <2>2 DEF Waiting
    <3>2. v \in Threads /\ v # c /\ Attending(v)'
      BY <1>22, <3>1 DEF Notify, Attending, SubmitPCs, LookingPCs, WorkerPCs, CallerPCs, TypeOK, Threads
    <3> QED BY <3>2, SomeoneAttends
  <2>3. CASE Waiting = {} /\ Goto(c, l)
    <3>1. Waiting' = {}
      BY <2>1, <2>3 DEF Waiting, TypeOK, Threads
    <3> QED BY <3>1 DEF WorkConserving
  <2> QED BY <2>1, <2>2, <2>3 DEF NotifyOneThen
<1>23. ASSUME NEW c \in Callers, NEW j \in Jobs, BeginCancel(c, j)
      PROVE  WorkConserving'
  <2>1. owner = NoThread /\ pc' = [pc EXCEPT ![c] = "cancelMoving"] /\ pc[c] = "idle"
        /\ UNCHANGED <<shutdown, lanes>> /\ inbox' = <<>> /\ batch' = Reverse(inbox)
    BY <1>23 DEF BeginCancel, DetachInbox, lockedVars
  <2>2. InLanes' => InInbox \/ InLanes
    BY <2>1, ReverseType DEF InLanes, InInbox, LanesEmpty, TypeOK
  <2>3. \A t \in Threads : pc[t] # "moving"
    BY <2>1 DEF LockInv, HoldingPCs, Threads
  <2>4. Waiting' = Waiting
    BY <2>1 DEF Waiting, TypeOK, Threads
  <2>5. \A t \in Threads : Attending(t) => Attending(t)'
    BY <2>1 DEF Attending, SubmitPCs, LookingPCs, WorkerPCs, CallerPCs, TypeOK, Threads
  <2> QED BY <2>1, <2>2, <2>3, <2>4, <2>5 DEF WorkConserving, InInbox
<1>24. ASSUME NEW c \in Callers, Move(c)
      PROVE  WorkConserving'
  <2>1. shutdown' = shutdown /\ inbox' = inbox /\ (InLanes' => InLanes)
    BY <1>24 DEF Move, MoveOldest, InLanes, LanesEmpty, queueVars, lockedVars, TypeOK
  <2>2. Waiting' \subseteq Waiting
    BY <1>24 DEF Move, MoveOldest, Waiting, Attending, SubmitPCs, LookingPCs, WorkerPCs, CallerPCs,
       TypeOK, Threads
  <2>3. \A t \in Threads : (Attending(t) => Attending(t)') /\ (pc[t] = "moving" => pc'[t] = "moving")
    BY <1>24 DEF Move, MoveOldest, Attending, SubmitPCs, LookingPCs, WorkerPCs, CallerPCs, TypeOK, Threads
  <2> QED BY <2>1, <2>2, <2>3, NobodyDistracted DEF InInbox
<1>25. ASSUME NEW c \in Callers, CancelQueued(c)
      PROVE  WorkConserving'
  <2>1. shutdown' = shutdown /\ inbox' = inbox /\ (InLanes' => InLanes)
    BY <1>25 DEF CancelQueued, InLanes, LanesEmpty, queueVars, lockedVars, TypeOK
  <2>2. Waiting' \subseteq Waiting
    BY <1>25 DEF CancelQueued, Waiting, Attending, SubmitPCs, LookingPCs, WorkerPCs, CallerPCs, TypeOK,
       Threads
  <2>3. \A t \in Threads : (Attending(t) => Attending(t)') /\ (pc[t] = "moving" => pc'[t] = "moving")
    BY <1>25 DEF CancelQueued, Attending, SubmitPCs, LookingPCs, WorkerPCs, CallerPCs, TypeOK, Threads
  <2> QED BY <2>1, <2>2, <2>3, NobodyDistracted DEF InInbox
<1>26. ASSUME NEW c \in Callers, CancelOther(c)
      PROVE  WorkConserving'
  <2>1. shutdown' = shutdown /\ inbox' = inbox /\ (InLanes' => InLanes)
    BY <1>26 DEF CancelOther, InLanes, LanesEmpty, queueVars, lockedVars, TypeOK
  <2>2. Waiting' \subseteq Waiting
    BY <1>26 DEF CancelOther, Waiting, Attending, SubmitPCs, LookingPCs, WorkerPCs, CallerPCs, TypeOK,
       Threads
  <2>3. \A t \in Threads : (Attending(t) => Attending(t)') /\ (pc[t] = "moving" => pc'[t] = "moving")
    BY <1>26 DEF CancelOther, Attending, SubmitPCs, LookingPCs, WorkerPCs, CallerPCs, TypeOK, Threads
  <2> QED BY <2>1, <2>2, <2>3, NobodyDistracted DEF InInbox
<1>27. ASSUME NEW c \in Callers, Publish(c)
      PROVE  WorkConserving'
  <2>1. shutdown' = shutdown /\ inbox' = inbox /\ (InLanes' => InLanes)
    BY <1>27 DEF Publish, InLanes, LanesEmpty, queueVars, lockedVars, TypeOK
  <2>2. Waiting' \subseteq Waiting
    BY <1>27 DEF Publish, Waiting, Attending, SubmitPCs, LookingPCs, WorkerPCs, CallerPCs, TypeOK, Threads
  <2>3. \A t \in Threads : (Attending(t) => Attending(t)') /\ (pc[t] = "moving" => pc'[t] = "moving")
    BY <1>27 DEF Publish, Attending, SubmitPCs, LookingPCs, WorkerPCs, CallerPCs, TypeOK, Threads
  <2> QED BY <2>1, <2>2, <2>3, NobodyDistracted DEF InInbox
<1>28. ASSUME NEW c \in Callers, Signal(c)
      PROVE  WorkConserving'
  <2>1. shutdown' = shutdown /\ inbox' = inbox /\ (InLanes' => InLanes)
    BY <1>28 DEF Signal, Home, InLanes, LanesEmpty, queueVars, lockedVars, TypeOK
  <2>2. Waiting' \subseteq Waiting
    BY <1>28 DEF Signal, Home, Waiting, Attending, SubmitPCs, LookingPCs, WorkerPCs, CallerPCs, TypeOK,
       Threads
  <2>3. \A t \in Threads : (Attending(t) => Attending(t)') /\ (pc[t] = "moving" => pc'[t] = "moving")
    BY <1>28 DEF Signal, Home, Attending, SubmitPCs, LookingPCs, WorkerPCs, CallerPCs, TypeOK, Threads
  <2> QED BY <2>1, <2>2, <2>3, NobodyDistracted DEF InInbox
<1>29. ASSUME NEW c \in Callers, Write(c)
      PROVE  WorkConserving'
  <2>1. shutdown' = shutdown /\ inbox' = inbox /\ (InLanes' => InLanes)
    BY <1>29 DEF Write, Home, InLanes, LanesEmpty, queueVars, lockedVars, TypeOK
  <2>2. Waiting' \subseteq Waiting
    BY <1>29 DEF Write, Home, Waiting, Attending, SubmitPCs, LookingPCs, WorkerPCs, CallerPCs, TypeOK,
       Threads
  <2>3. \A t \in Threads : (Attending(t) => Attending(t)') /\ (pc[t] = "moving" => pc'[t] = "moving")
    BY <1>29 DEF Write, Home, Attending, SubmitPCs, LookingPCs, WorkerPCs, CallerPCs, TypeOK, Threads
  <2> QED BY <2>1, <2>2, <2>3, NobodyDistracted DEF InInbox
<1>30. ASSUME NEW c \in Callers, BeginClose(c)
      PROVE  WorkConserving'
  <2>1. shutdown'
    BY <1>30 DEF BeginClose
  <2> QED BY <2>1 DEF WorkConserving
<1>31. ASSUME NEW c \in Callers, DropQueued(c)
      PROVE  WorkConserving'
  <2>1. inbox' = <<>> /\ lanes' = [p \in Prios |-> <<>>] /\ batch' = batch
    BY <1>31 DEF DropQueued
  <2>2. batch = <<>>
    BY <1>31 DEF DropQueued, MovingInv, LockInv, HoldingPCs, Threads
  <2> QED BY <2>1, <2>2 DEF WorkConserving, InInbox, InLanes, LanesEmpty
<1>32. ASSUME NEW c \in Callers, NotifyAll(c)
      PROVE  WorkConserving'
  <2>1. Waiting' = {}
    BY <1>32 DEF NotifyAll, Waiting, Threads
  <2> QED BY <2>1 DEF WorkConserving
<1>33. ASSUME NEW c \in Callers, CloseWake(c)
      PROVE  WorkConserving'
  <2>1. shutdown' = shutdown /\ inbox' = inbox /\ (InLanes' => InLanes)
    BY <1>33 DEF CloseWake, InLanes, LanesEmpty, queueVars, lockedVars, TypeOK
  <2>2. Waiting' \subseteq Waiting
    BY <1>33 DEF CloseWake, Waiting, Attending, SubmitPCs, LookingPCs, WorkerPCs, CallerPCs, TypeOK, Threads
  <2>3. \A t \in Threads : (Attending(t) => Attending(t)') /\ (pc[t] = "moving" => pc'[t] = "moving")
    BY <1>33 DEF CloseWake, Attending, SubmitPCs, LookingPCs, WorkerPCs, CallerPCs, TypeOK, Threads
  <2> QED BY <2>1, <2>2, <2>3, NobodyDistracted DEF InInbox
<1>34. CASE ReadWake
  <2>1. shutdown' = shutdown /\ inbox' = inbox /\ (InLanes' => InLanes)
    BY <1>34 DEF ReadWake, InLanes, LanesEmpty, queueVars, lockedVars, TypeOK
  <2>2. Waiting' \subseteq Waiting
    BY <1>34 DEF ReadWake, Waiting, Attending, SubmitPCs, LookingPCs, WorkerPCs, CallerPCs, TypeOK, Threads
  <2>3. \A t \in Threads : (Attending(t) => Attending(t)') /\ (pc[t] = "moving" => pc'[t] = "moving")
    BY <1>34 DEF ReadWake, Attending, SubmitPCs, LookingPCs, WorkerPCs, CallerPCs, TypeOK, Threads
  <2> QED BY <2>1, <2>2, <2>3, NobodyDistracted DEF InInbox
<1>35. CASE StartPump
  <2>1. shutdown' = shutdown /\ inbox' = inbox /\ (InLanes' => InLanes)
    BY <1>35 DEF StartPump, InLanes, LanesEmpty, queueVars, lockedVars, TypeOK
  <2>2. Waiting' \subseteq Waiting
    BY <1>35 DEF StartPump, Waiting, Attending, SubmitPCs, LookingPCs, WorkerPCs, CallerPCs, TypeOK, Threads
  <2>3. \A t \in Threads : (Attending(t) => Attending(t)') /\ (pc[t] = "moving" => pc'[t] = "moving")
    BY <1>35 DEF StartPump, Attending, SubmitPCs, LookingPCs, WorkerPCs, CallerPCs, TypeOK, Threads
  <2> QED BY <2>1, <2>2, <2>3, NobodyDistracted DEF InInbox
<1>36. CASE Reset
  <2>1. shutdown' = shutdown /\ inbox' = inbox /\ (InLanes' => InLanes)
    BY <1>36 DEF Reset, InLanes, LanesEmpty, queueVars, lockedVars, TypeOK
  <2>2. Waiting' \subseteq Waiting
    BY <1>36 DEF Reset, Waiting, Attending, SubmitPCs, LookingPCs, WorkerPCs, CallerPCs, TypeOK, Threads
  <2>3. \A t \in Threads : (Attending(t) => Attending(t)') /\ (pc[t] = "moving" => pc'[t] = "moving")
    BY <1>36 DEF Reset, Attending, SubmitPCs, LookingPCs, WorkerPCs, CallerPCs, TypeOK, Threads
  <2> QED BY <2>1, <2>2, <2>3, NobodyDistracted DEF InInbox
<1>37. CASE Drain
  <2>1. shutdown' = shutdown /\ inbox' = inbox /\ (InLanes' => InLanes)
    BY <1>37 DEF Drain, InLanes, LanesEmpty, queueVars, lockedVars, TypeOK
  <2>2. Waiting' \subseteq Waiting
    BY <1>37 DEF Drain, Waiting, Attending, SubmitPCs, LookingPCs, WorkerPCs, CallerPCs, TypeOK, Threads
  <2>3. \A t \in Threads : (Attending(t) => Attending(t)') /\ (pc[t] = "moving" => pc'[t] = "moving")
    BY <1>37 DEF Drain, Attending, SubmitPCs, LookingPCs, WorkerPCs, CallerPCs, TypeOK, Threads
  <2> QED BY <2>1, <2>2, <2>3, NobodyDistracted DEF InInbox
<1> QED
  BY <1>1, <1>2, <1>3, <1>4, <1>5, <1>6, <1>7, <1>8, <1>9, <1>10, <1>11, <1>12,
     <1>13, <1>14, <1>15, <1>16, <1>17, <1>18, <1>19, <1>20, <1>21, <1>22, <1>23, <1>24,
     <1>25, <1>26, <1>27, <1>28, <1>29, <1>30, <1>31, <1>32, <1>33, <1>34, <1>35, <1>36,
     <1>37
  DEF Next, WorkerStep, CallerBegins, CallerStep, PumpStep, Jobs, TypeOK
-----------------------------------------------------------------------------
(* The wake socket: no completion sits unannounced.                        *)

LEMMA PendingStep ==
  ASSUME TypeOK, PendingIsTrue, Next
  PROVE  PendingIsTrue'
<1> USE PoolAssumption, PcType DEF Goto, Step, wakeVars, loopVars
<1>1. ASSUME NEW w \in Workers, Exit(w)
      PROVE  PendingIsTrue'
  BY <1>1 DEF Exit, PendingIsTrue, TypeOK, Threads, WorkerPCs, CallerPCs
<1>2. ASSUME NEW w \in Workers, TakeInbox(w)
      PROVE  PendingIsTrue'
  BY <1>2 DEF TakeInbox, PendingIsTrue, TypeOK, Threads, WorkerPCs, CallerPCs
<1>3. ASSUME NEW w \in Workers, Move(w)
      PROVE  PendingIsTrue'
  BY <1>3 DEF Move, PendingIsTrue, TypeOK, Threads, WorkerPCs, CallerPCs
<1>4. ASSUME NEW w \in Workers, Pop(w)
      PROVE  PendingIsTrue'
  BY <1>4 DEF Pop, PendingIsTrue, TypeOK, Threads, WorkerPCs, CallerPCs
<1>5. ASSUME NEW w \in Workers, Raise(w)
      PROVE  PendingIsTrue'
  BY <1>5 DEF Raise, PendingIsTrue, TypeOK, Threads, WorkerPCs, CallerPCs
<1>6. ASSUME NEW w \in Workers, LookAgain(w)
      PROVE  PendingIsTrue'
  BY <1>6 DEF LookAgain, PendingIsTrue, TypeOK, Threads, WorkerPCs, CallerPCs
<1>7. ASSUME NEW w \in Workers, Wait(w)
      PROVE  PendingIsTrue'
  BY <1>7 DEF Wait, PendingIsTrue, TypeOK, Threads, WorkerPCs, CallerPCs
<1>8. ASSUME NEW w \in Workers, Unwait(w)
      PROVE  PendingIsTrue'
  BY <1>8 DEF Unwait, PendingIsTrue, TypeOK, Threads, WorkerPCs, CallerPCs
<1>9. ASSUME NEW w \in Workers, TakeUpWake(w)
      PROVE  PendingIsTrue'
  BY <1>9 DEF TakeUpWake, PendingIsTrue, TypeOK, Threads, WorkerPCs, CallerPCs
<1>10. ASSUME NEW w \in Workers, Notify(w)
      PROVE  PendingIsTrue'
  BY <1>10 DEF Notify, NotifyOneThen, Waiting, PendingIsTrue, TypeOK, Threads, WorkerPCs, CallerPCs
<1>11. ASSUME NEW w \in Workers, Run(w)
      PROVE  PendingIsTrue'
  BY <1>11 DEF Run, PendingIsTrue, TypeOK, Threads, WorkerPCs, CallerPCs
<1>12. ASSUME NEW w \in Workers, Unregister(w)
      PROVE  PendingIsTrue'
  BY <1>12 DEF Unregister, PendingIsTrue, TypeOK, Threads, WorkerPCs, CallerPCs
<1>13. ASSUME NEW w \in Workers, Publish(w)
      PROVE  PendingIsTrue'
  BY <1>13 DEF Publish, PendingIsTrue, TypeOK, Threads, WorkerPCs, CallerPCs
<1>14. ASSUME NEW w \in Workers, Signal(w)
      PROVE  PendingIsTrue'
  BY <1>14 DEF Signal, Home, PendingIsTrue, TypeOK, Threads, WorkerPCs, CallerPCs
<1>15. ASSUME NEW w \in Workers, Write(w)
      PROVE  PendingIsTrue'
  BY <1>15 DEF Write, Home, PendingIsTrue, TypeOK, Threads, WorkerPCs, CallerPCs
<1>16. ASSUME NEW w \in Workers, SpuriousWakeup(w)
      PROVE  PendingIsTrue'
  BY <1>16 DEF SpuriousWakeup, PendingIsTrue, TypeOK, Threads, WorkerPCs, CallerPCs
<1>17. ASSUME NEW c \in Callers, BeginSubmit(c)
      PROVE  PendingIsTrue'
  BY <1>17 DEF BeginSubmit, PendingIsTrue, TypeOK, Threads, WorkerPCs, CallerPCs
<1>18. ASSUME NEW c \in Callers, Push(c)
      PROVE  PendingIsTrue'
  BY <1>18 DEF Push, PendingIsTrue, TypeOK, Threads, WorkerPCs, CallerPCs
<1>19. ASSUME NEW c \in Callers, ReadParked(c)
      PROVE  PendingIsTrue'
  BY <1>19 DEF ReadParked, PendingIsTrue, TypeOK, Threads, WorkerPCs, CallerPCs
<1>20. ASSUME NEW c \in Callers, ReadWaking(c)
      PROVE  PendingIsTrue'
  BY <1>20 DEF ReadWaking, PendingIsTrue, TypeOK, Threads, WorkerPCs, CallerPCs
<1>21. ASSUME NEW c \in Callers, ClaimWake(c)
      PROVE  PendingIsTrue'
  BY <1>21 DEF ClaimWake, PendingIsTrue, TypeOK, Threads, WorkerPCs, CallerPCs
<1>22. ASSUME NEW c \in Callers, Notify(c)
      PROVE  PendingIsTrue'
  BY <1>22 DEF Notify, NotifyOneThen, Waiting, PendingIsTrue, TypeOK, Threads, WorkerPCs, CallerPCs
<1>23. ASSUME NEW c \in Callers, NEW j \in Jobs, BeginCancel(c, j)
      PROVE  PendingIsTrue'
  BY <1>23 DEF BeginCancel, PendingIsTrue, TypeOK, Threads, WorkerPCs, CallerPCs
<1>24. ASSUME NEW c \in Callers, Move(c)
      PROVE  PendingIsTrue'
  BY <1>24 DEF Move, PendingIsTrue, TypeOK, Threads, WorkerPCs, CallerPCs
<1>25. ASSUME NEW c \in Callers, CancelQueued(c)
      PROVE  PendingIsTrue'
  BY <1>25 DEF CancelQueued, PendingIsTrue, TypeOK, Threads, WorkerPCs, CallerPCs
<1>26. ASSUME NEW c \in Callers, CancelOther(c)
      PROVE  PendingIsTrue'
  BY <1>26 DEF CancelOther, PendingIsTrue, TypeOK, Threads, WorkerPCs, CallerPCs
<1>27. ASSUME NEW c \in Callers, Publish(c)
      PROVE  PendingIsTrue'
  BY <1>27 DEF Publish, PendingIsTrue, TypeOK, Threads, WorkerPCs, CallerPCs
<1>28. ASSUME NEW c \in Callers, Signal(c)
      PROVE  PendingIsTrue'
  BY <1>28 DEF Signal, Home, PendingIsTrue, TypeOK, Threads, WorkerPCs, CallerPCs
<1>29. ASSUME NEW c \in Callers, Write(c)
      PROVE  PendingIsTrue'
  BY <1>29 DEF Write, Home, PendingIsTrue, TypeOK, Threads, WorkerPCs, CallerPCs
<1>30. ASSUME NEW c \in Callers, BeginClose(c)
      PROVE  PendingIsTrue'
  BY <1>30 DEF BeginClose, PendingIsTrue, TypeOK, Threads, WorkerPCs, CallerPCs
<1>31. ASSUME NEW c \in Callers, DropQueued(c)
      PROVE  PendingIsTrue'
  BY <1>31 DEF DropQueued, PendingIsTrue, TypeOK, Threads, WorkerPCs, CallerPCs
<1>32. ASSUME NEW c \in Callers, NotifyAll(c)
      PROVE  PendingIsTrue'
  BY <1>32 DEF NotifyAll, PendingIsTrue, TypeOK, Threads, WorkerPCs, CallerPCs
<1>33. ASSUME NEW c \in Callers, CloseWake(c)
      PROVE  PendingIsTrue'
  BY <1>33 DEF CloseWake, PendingIsTrue, TypeOK, Threads, WorkerPCs, CallerPCs
<1>34. CASE ReadWake
  BY <1>34 DEF ReadWake, PendingIsTrue, TypeOK, Threads, WorkerPCs, CallerPCs
<1>35. CASE StartPump
  BY <1>35 DEF StartPump, PendingIsTrue, TypeOK, Threads, WorkerPCs, CallerPCs
<1>36. CASE Reset
  BY <1>36 DEF Reset, PendingIsTrue, TypeOK, Threads, WorkerPCs, CallerPCs
<1>37. CASE Drain
  BY <1>37 DEF Drain, PendingIsTrue, TypeOK, Threads, WorkerPCs, CallerPCs
<1> QED
  BY <1>1, <1>2, <1>3, <1>4, <1>5, <1>6, <1>7, <1>8, <1>9, <1>10, <1>11, <1>12,
     <1>13, <1>14, <1>15, <1>16, <1>17, <1>18, <1>19, <1>20, <1>21, <1>22, <1>23, <1>24,
     <1>25, <1>26, <1>27, <1>28, <1>29, <1>30, <1>31, <1>32, <1>33, <1>34, <1>35, <1>36,
     <1>37
  DEF Next, WorkerStep, CallerBegins, CallerStep, PumpStep, Jobs, TypeOK

LEMMA AnnouncedStep ==
  ASSUME TypeOK, PendingIsTrue, CompletionAnnounced, Next
  PROVE  CompletionAnnounced'
<1> USE PoolAssumption, PcType DEF Goto, Step, wakeVars, loopVars
<1>1. ASSUME NEW w \in Workers, Exit(w)
      PROVE  CompletionAnnounced'
  BY <1>1 DEF Exit, CompletionAnnounced, PollDue, TypeOK, Threads, WorkerPCs, CallerPCs
<1>2. ASSUME NEW w \in Workers, TakeInbox(w)
      PROVE  CompletionAnnounced'
  BY <1>2 DEF TakeInbox, CompletionAnnounced, PollDue, TypeOK, Threads, WorkerPCs, CallerPCs
<1>3. ASSUME NEW w \in Workers, Move(w)
      PROVE  CompletionAnnounced'
  BY <1>3 DEF Move, CompletionAnnounced, PollDue, TypeOK, Threads, WorkerPCs, CallerPCs
<1>4. ASSUME NEW w \in Workers, Pop(w)
      PROVE  CompletionAnnounced'
  BY <1>4 DEF Pop, CompletionAnnounced, PollDue, TypeOK, Threads, WorkerPCs, CallerPCs
<1>5. ASSUME NEW w \in Workers, Raise(w)
      PROVE  CompletionAnnounced'
  BY <1>5 DEF Raise, CompletionAnnounced, PollDue, TypeOK, Threads, WorkerPCs, CallerPCs
<1>6. ASSUME NEW w \in Workers, LookAgain(w)
      PROVE  CompletionAnnounced'
  BY <1>6 DEF LookAgain, CompletionAnnounced, PollDue, TypeOK, Threads, WorkerPCs, CallerPCs
<1>7. ASSUME NEW w \in Workers, Wait(w)
      PROVE  CompletionAnnounced'
  BY <1>7 DEF Wait, CompletionAnnounced, PollDue, TypeOK, Threads, WorkerPCs, CallerPCs
<1>8. ASSUME NEW w \in Workers, Unwait(w)
      PROVE  CompletionAnnounced'
  BY <1>8 DEF Unwait, CompletionAnnounced, PollDue, TypeOK, Threads, WorkerPCs, CallerPCs
<1>9. ASSUME NEW w \in Workers, TakeUpWake(w)
      PROVE  CompletionAnnounced'
  BY <1>9 DEF TakeUpWake, CompletionAnnounced, PollDue, TypeOK, Threads, WorkerPCs, CallerPCs
<1>10. ASSUME NEW w \in Workers, Notify(w)
      PROVE  CompletionAnnounced'
  BY <1>10 DEF Notify, NotifyOneThen, Waiting, CompletionAnnounced, PollDue, TypeOK, Threads, WorkerPCs,
     CallerPCs
<1>11. ASSUME NEW w \in Workers, Run(w)
      PROVE  CompletionAnnounced'
  BY <1>11 DEF Run, CompletionAnnounced, PollDue, TypeOK, Threads, WorkerPCs, CallerPCs
<1>12. ASSUME NEW w \in Workers, Unregister(w)
      PROVE  CompletionAnnounced'
  BY <1>12 DEF Unregister, CompletionAnnounced, PollDue, TypeOK, Threads, WorkerPCs, CallerPCs
<1>13. ASSUME NEW w \in Workers, Publish(w)
      PROVE  CompletionAnnounced'
  BY <1>13 DEF Publish, CompletionAnnounced, PollDue, TypeOK, Threads, WorkerPCs, CallerPCs
<1>14. ASSUME NEW w \in Workers, Signal(w)
      PROVE  CompletionAnnounced'
  BY <1>14 DEF Signal, Home, PendingIsTrue, CompletionAnnounced, PollDue, TypeOK, Threads
<1>15. ASSUME NEW w \in Workers, Write(w)
      PROVE  CompletionAnnounced'
  BY <1>15 DEF Write, Home, CompletionAnnounced, PollDue, TypeOK, Threads, WorkerPCs, CallerPCs
<1>16. ASSUME NEW w \in Workers, SpuriousWakeup(w)
      PROVE  CompletionAnnounced'
  BY <1>16 DEF SpuriousWakeup, CompletionAnnounced, PollDue, TypeOK, Threads, WorkerPCs, CallerPCs
<1>17. ASSUME NEW c \in Callers, BeginSubmit(c)
      PROVE  CompletionAnnounced'
  BY <1>17 DEF BeginSubmit, CompletionAnnounced, PollDue, TypeOK, Threads, WorkerPCs, CallerPCs
<1>18. ASSUME NEW c \in Callers, Push(c)
      PROVE  CompletionAnnounced'
  BY <1>18 DEF Push, CompletionAnnounced, PollDue, TypeOK, Threads, WorkerPCs, CallerPCs
<1>19. ASSUME NEW c \in Callers, ReadParked(c)
      PROVE  CompletionAnnounced'
  BY <1>19 DEF ReadParked, CompletionAnnounced, PollDue, TypeOK, Threads, WorkerPCs, CallerPCs
<1>20. ASSUME NEW c \in Callers, ReadWaking(c)
      PROVE  CompletionAnnounced'
  BY <1>20 DEF ReadWaking, CompletionAnnounced, PollDue, TypeOK, Threads, WorkerPCs, CallerPCs
<1>21. ASSUME NEW c \in Callers, ClaimWake(c)
      PROVE  CompletionAnnounced'
  BY <1>21 DEF ClaimWake, CompletionAnnounced, PollDue, TypeOK, Threads, WorkerPCs, CallerPCs
<1>22. ASSUME NEW c \in Callers, Notify(c)
      PROVE  CompletionAnnounced'
  BY <1>22 DEF Notify, NotifyOneThen, Waiting, CompletionAnnounced, PollDue, TypeOK, Threads, WorkerPCs,
     CallerPCs
<1>23. ASSUME NEW c \in Callers, NEW j \in Jobs, BeginCancel(c, j)
      PROVE  CompletionAnnounced'
  BY <1>23 DEF BeginCancel, CompletionAnnounced, PollDue, TypeOK, Threads, WorkerPCs, CallerPCs
<1>24. ASSUME NEW c \in Callers, Move(c)
      PROVE  CompletionAnnounced'
  BY <1>24 DEF Move, CompletionAnnounced, PollDue, TypeOK, Threads, WorkerPCs, CallerPCs
<1>25. ASSUME NEW c \in Callers, CancelQueued(c)
      PROVE  CompletionAnnounced'
  BY <1>25 DEF CancelQueued, CompletionAnnounced, PollDue, TypeOK, Threads, WorkerPCs, CallerPCs
<1>26. ASSUME NEW c \in Callers, CancelOther(c)
      PROVE  CompletionAnnounced'
  BY <1>26 DEF CancelOther, CompletionAnnounced, PollDue, TypeOK, Threads, WorkerPCs, CallerPCs
<1>27. ASSUME NEW c \in Callers, Publish(c)
      PROVE  CompletionAnnounced'
  BY <1>27 DEF Publish, CompletionAnnounced, PollDue, TypeOK, Threads, WorkerPCs, CallerPCs
<1>28. ASSUME NEW c \in Callers, Signal(c)
      PROVE  CompletionAnnounced'
  BY <1>28 DEF Signal, Home, PendingIsTrue, CompletionAnnounced, PollDue, TypeOK, Threads
<1>29. ASSUME NEW c \in Callers, Write(c)
      PROVE  CompletionAnnounced'
  BY <1>29 DEF Write, Home, CompletionAnnounced, PollDue, TypeOK, Threads, WorkerPCs, CallerPCs
<1>30. ASSUME NEW c \in Callers, BeginClose(c)
      PROVE  CompletionAnnounced'
  BY <1>30 DEF BeginClose, CompletionAnnounced, PollDue, TypeOK, Threads, WorkerPCs, CallerPCs
<1>31. ASSUME NEW c \in Callers, DropQueued(c)
      PROVE  CompletionAnnounced'
  BY <1>31 DEF DropQueued, CompletionAnnounced, PollDue, TypeOK, Threads, WorkerPCs, CallerPCs
<1>32. ASSUME NEW c \in Callers, NotifyAll(c)
      PROVE  CompletionAnnounced'
  BY <1>32 DEF NotifyAll, CompletionAnnounced, PollDue, TypeOK, Threads, WorkerPCs, CallerPCs
<1>33. ASSUME NEW c \in Callers, CloseWake(c)
      PROVE  CompletionAnnounced'
  BY <1>33 DEF CloseWake, CompletionAnnounced, PollDue, TypeOK, Threads, WorkerPCs, CallerPCs
<1>34. CASE ReadWake
  BY <1>34 DEF ReadWake, CompletionAnnounced, PollDue, TypeOK, Threads, WorkerPCs, CallerPCs
<1>35. CASE StartPump
  BY <1>35 DEF StartPump, CompletionAnnounced, PollDue, TypeOK, Threads, WorkerPCs, CallerPCs
<1>36. CASE Reset
  BY <1>36 DEF Reset, CompletionAnnounced, PollDue, TypeOK, Threads, WorkerPCs, CallerPCs
<1>37. CASE Drain
  <2> DEFINE n == IF Len(done) < Batch THEN Len(done) ELSE Batch
  <2>1. CASE n = Batch
    BY <1>37, <2>1 DEF Drain, CompletionAnnounced, PollDue, TypeOK, Threads
  <2>2. CASE n < Batch
    <3>1. n = Len(done) /\ Len(done) \in Nat
      BY <2>2, LenProperties DEF TypeOK
    <3>2. SubSeq(done, Len(done) + 1, Len(done)) = <<>>
      <4>1. Len(done) + 1 \in Int /\ Len(done) \in Int /\ Len(done) < Len(done) + 1
        BY <3>1
      <4> QED BY <4>1, SubSeqEmpty
    <3>3. done' = SubSeq(done, n + 1, Len(done))
      BY <1>37 DEF Drain
    <3>4. done' = SubSeq(done, Len(done) + 1, Len(done))
      <4> HIDE DEF n
      <4> QED BY <3>1, <3>3
    <3>5. done' = <<>>
      BY <3>2, <3>4
    <3> QED BY <3>5 DEF CompletionAnnounced
  <2> QED BY <2>1, <2>2, LenProperties DEF TypeOK
<1> QED
  BY <1>1, <1>2, <1>3, <1>4, <1>5, <1>6, <1>7, <1>8, <1>9, <1>10, <1>11, <1>12,
     <1>13, <1>14, <1>15, <1>16, <1>17, <1>18, <1>19, <1>20, <1>21, <1>22, <1>23, <1>24,
     <1>25, <1>26, <1>27, <1>28, <1>29, <1>30, <1>31, <1>32, <1>33, <1>34, <1>35, <1>36,
     <1>37
  DEF Next, WorkerStep, CallerBegins, CallerStep, PumpStep, Jobs, TypeOK
-----------------------------------------------------------------------------
(* The theorems.                                                           *)

LEMMA Initially ==
  ASSUME Init
  PROVE  IInv /\ PendingIsTrue /\ CompletionAnnounced
<1>1. TypeOK
  <2> USE DEF Init
  <2>1. lanes \in [Prios -> Seq(Jobs)]
    <3>1. <<>> \in Seq(Jobs)
      BY EmptySeq
    <3> QED BY <3>1
  <2>2. batch \in Seq(Nodes) /\ inbox \in Seq(Nodes)
        /\ done \in Seq(Completions) /\ collected \in Seq(Completions)
    BY EmptySeq
  <2>3. next \in 1..(MaxJobs + 1)
    BY PoolAssumption
  <2>4. /\ pc \in [Threads -> WorkerPCs \cup CallerPCs]
        /\ \A w \in Workers : pc[w] \in WorkerPCs
        /\ \A c \in Callers : pc[c] \in CallerPCs
    BY PoolAssumption DEF Threads, WorkerPCs, CallerPCs
  <2>5. /\ job \in [Threads -> Jobs \cup {NoJob}]
        /\ status \in [Threads -> Statuses]
        /\ notifies \in [Threads -> Nat]
    BY DEF Statuses
  <2> QED BY <2>1, <2>2, <2>3, <2>4, <2>5 DEF TypeOK
<1>2. LockInv /\ NotifyInv /\ HandInv /\ MovingInv /\ WorkConserving
  <2>1. \A t \in Threads : pc[t] \in {"lock", "idle"}
    BY DEF Init
  <2>2. LockInv
    BY <2>1, PoolAssumption DEF Init, LockInv, HoldingPCs, Threads
  <2>3. NotifyInv
    <3>1. Cardinality(Workers) \in Nat
      BY PoolAssumption, FS_CardinalityType
    <3> QED BY <2>1, <3>1 DEF Init, NotifyInv
  <2>4. HandInv
    BY <2>1 DEF HandInv, HandPCs
  <2>5. MovingInv
    BY <2>1 DEF Init, MovingInv, Threads
  <2>6. WorkConserving
    <3>1. Waiting = {}
      BY <2>1 DEF Waiting, Threads
    <3> QED BY <3>1 DEF WorkConserving
  <2> QED BY <2>2, <2>3, <2>4, <2>5, <2>6
<1>3. CountInv
  <2>1. Idle = {}
    BY DEF Init, Idle, Threads
  <2> QED BY <2>1, FS_EmptySet DEF Init, CountInv
<1>4. WakesBacked
  BY <1>1, PromisesFinite DEF Init, WakesBacked
<1>5. PendingIsTrue /\ CompletionAnnounced
  BY DEF Init, PendingIsTrue, CompletionAnnounced
<1> QED BY <1>1, <1>2, <1>3, <1>4, <1>5 DEF IInv

LEMMA Stutter ==
  ASSUME IInv, PendingIsTrue, CompletionAnnounced, UNCHANGED vars
  PROVE  IInv' /\ PendingIsTrue' /\ CompletionAnnounced'
<1> USE DEF vars, queueVars, lockedVars, atomicVars, wakeVars, threadVars, loopVars
<1>1. TypeOK' /\ LockInv' /\ NotifyInv' /\ HandInv'
  BY DEF IInv, TypeOK, LockInv, NotifyInv, HandInv
<1>2. CountInv' /\ MovingInv'
  BY DEF IInv, CountInv, MovingInv, Idle, LanesEmpty
<1>3. WakesBacked'
  BY DEF IInv, WakesBacked, Promises, Leaving
<1>4. WorkConserving'
  BY DEF IInv, WorkConserving, Waiting, InInbox, InLanes, LanesEmpty, Attending
<1>5. PendingIsTrue' /\ CompletionAnnounced'
  BY DEF PendingIsTrue, CompletionAnnounced, PollDue
<1> QED BY <1>1, <1>2, <1>3, <1>4, <1>5 DEF IInv

LEMMA Preserved ==
  ASSUME IInv, PendingIsTrue, CompletionAnnounced, Next
  PROVE  IInv' /\ PendingIsTrue' /\ CompletionAnnounced'
<1>1. TypeOK'
  BY WorkerTypeStep, CallerTypeStep, PumpTypeStep DEF Next, IInv
<1>2. LockInv' /\ HandInv' /\ MovingInv'
  BY LockStep, HandStep, MovingStep DEF IInv
<1>3. CountInv' /\ NotifyInv' /\ WakesBacked'
  BY CountStep, NotifyStep, BackedStep DEF IInv
<1>4. WorkConserving'
  BY <1>1, ConserveStep DEF IInv
<1>5. PendingIsTrue' /\ CompletionAnnounced'
  BY PendingStep, AnnouncedStep DEF IInv
<1> QED BY <1>1, <1>2, <1>3, <1>4, <1>5 DEF IInv

(* The inductive invariant holds, whatever the number of workers, callers, *)
(* jobs and lanes (pool.rs and wake.rs as a whole).                        *)
THEOREM Invariance == Spec => [](IInv /\ PendingIsTrue /\ CompletionAnnounced)
<1>1. Init => IInv /\ PendingIsTrue /\ CompletionAnnounced
  BY Initially
<1>2. IInv /\ PendingIsTrue /\ CompletionAnnounced /\ [Next]_vars
      => (IInv /\ PendingIsTrue /\ CompletionAnnounced)'
  BY Stutter, Preserved
<1> QED BY <1>1, <1>2, PTL DEF Spec

(* Every variable keeps its type; the counters never go below zero.        *)
THEOREM TypeCorrect == Spec => []TypeOK
<1>1. IInv => TypeOK
  BY DEF IInv
<1> QED BY <1>1, Invariance, PTL

(* A worker never sleeps on a job that nobody is about to hand over: the   *)
(* lock-free submit and the claimed wakes lose no wakeup.                  *)
THEOREM NoWorkerSleepsOnAJob == Spec => []WorkConserving
<1>1. IInv => WorkConserving
  BY DEF IInv
<1> QED BY <1>1, Invariance, PTL

(* Every claimed wake is backed by a worker that will take it up.          *)
THEOREM WakesAreBacked == Spec => []WakesBacked
<1>1. IInv => WakesBacked
  BY DEF IInv
<1> QED BY <1>1, Invariance, PTL

(* The coalescing flag is never up without a wake on its way to a poll.    *)
THEOREM PendingIsNeverStale == Spec => []PendingIsTrue
BY Invariance, PTL

(* No completion sits unannounced while the socket is open.                *)
THEOREM NoLostWake == Spec => []CompletionAnnounced
BY Invariance, PTL

(* The pool's counters and claims are sound: what the run checks at once.  *)
THEOREM PoolIsSound == Spec => []PoolInv
BY TypeCorrect, WakesAreBacked, PTL DEF PoolInv

(* No wake of the socket is lost, by the flag or by the queue.             *)
THEOREM WakesAreHeard == Spec => []WakeInv
BY PendingIsNeverStale, NoLostWake, PTL DEF WakeInv
-----------------------------------------------------------------------------
(***************************************************************************)
(* The pool implements JobService: every job is in one place at most, a    *)
(* place changes only as the service's job does, and a pool that closed    *)
(* has told every job still running.                                       *)
(***************************************************************************)
(* What a sequence of nodes, of completions or of a lane's jobs holds.     *)

JobsIn(s) == {s[i].job : i \in 1..Len(s)}
Once(s) == \A a, b \in 1..Len(s) : s[a].job = s[b].job => a = b
InLane(l) == {l[i] : i \in 1..Len(l)}
OnceInLane(l) == \A a, b \in 1..Len(l) : l[a] = l[b] => a = b

LEMMA ReverseHolds ==
  ASSUME NEW S, NEW s \in Seq(S), Once(s)
  PROVE  JobsIn(Reverse(s)) = JobsIn(s) /\ Once(Reverse(s))
<1>1. Len(s) \in Nat /\ Len(Reverse(s)) = Len(s)
  BY LenProperties DEF Reverse
<1>2. \A i \in 1..Len(s) : Reverse(s)[i] = s[Len(s) - i + 1] /\ Len(s) - i + 1 \in 1..Len(s)
  BY <1>1 DEF Reverse
<1>3. \A i \in 1..Len(s) : \E k \in 1..Len(s) : Reverse(s)[k] = s[i]
  <2> SUFFICES ASSUME NEW i \in 1..Len(s) PROVE \E k \in 1..Len(s) : Reverse(s)[k] = s[i]
    OBVIOUS
  <2>1. Len(s) - i + 1 \in 1..Len(s) /\ Len(s) - (Len(s) - i + 1) + 1 = i
    BY <1>1
  <2> QED BY <1>2, <2>1
<1>4. JobsIn(Reverse(s)) = JobsIn(s)
  <2> DEFINE r == Reverse(s)
  <2>1. Len(r) = Len(s) /\ \A i \in 1..Len(s) : \E k \in 1..Len(s) : r[i] = s[k]
    BY <1>1, <1>2
  <2>2. \A i \in 1..Len(s) : \E k \in 1..Len(s) : r[k] = s[i]
    BY <1>3
  <2> HIDE DEF r
  <2>3. JobsIn(r) = JobsIn(s)
    <3>1. ASSUME NEW x \in JobsIn(r) PROVE x \in JobsIn(s)
      <4>1. PICK i \in 1..Len(r) : x = r[i].job
        BY DEF JobsIn
      <4>2. PICK k \in 1..Len(s) : r[i] = s[k]
        BY <2>1, <4>1
      <4> QED BY <4>1, <4>2 DEF JobsIn
    <3>2. ASSUME NEW x \in JobsIn(s) PROVE x \in JobsIn(r)
      <4>1. PICK i \in 1..Len(s) : x = s[i].job
        BY DEF JobsIn
      <4>2. PICK k \in 1..Len(r) : r[k] = s[i]
        BY <2>1, <2>2, <4>1
      <4> QED BY <4>1, <4>2 DEF JobsIn
    <3> QED BY <3>1, <3>2
  <2> QED BY <2>3 DEF r
<1>5. Once(Reverse(s))
  <2> SUFFICES ASSUME NEW a \in 1..Len(s), NEW b \in 1..Len(s), Reverse(s)[a].job = Reverse(s)[b].job
               PROVE  a = b
    BY <1>1 DEF Once
  <2> DEFINE x == Len(s) - a + 1
             y == Len(s) - b + 1
  <2>1. x \in 1..Len(s) /\ y \in 1..Len(s) /\ Reverse(s)[a] = s[x] /\ Reverse(s)[b] = s[y]
    BY <1>2
  <2>2. x = y => a = b
    BY <1>1
  <2> HIDE DEF x, y
  <2>3. s[x].job = s[y].job
    BY <2>1
  <2>4. x = y
    BY <2>1, <2>3 DEF Once
  <2> QED BY <2>2, <2>4
<1> QED BY <1>4, <1>5

LEMMA PrependHolds ==
  ASSUME NEW S, NEW s \in Seq(S), NEW n \in S, Once(s), n.job \notin JobsIn(s)
  PROVE  JobsIn(<<n>> \o s) = JobsIn(s) \cup {n.job} /\ Once(<<n>> \o s)
<1> DEFINE t == <<n>> \o s
<1>1. Len(s) \in Nat /\ \A i \in 1..Len(s) : s[i] \in S
  BY LenProperties, ElementOfSeq
<1>2. <<n>> \in Seq(S) /\ Len(<<n>>) = 1 /\ <<n>>[1] = n
  OBVIOUS
<1>3. Len(t) = Len(s) + 1 /\ t[1] = n /\ \A i \in 1..Len(s) : t[i + 1] = s[i]
  BY <1>1, <1>2, ConcatProperties
<1> HIDE DEF t
<1>4. \A k \in 1..Len(t) : k = 1 \/ (k - 1 \in 1..Len(s) /\ t[k] = s[k - 1])
  <2> SUFFICES ASSUME NEW k \in 1..Len(t)
               PROVE  k = 1 \/ (k - 1 \in 1..Len(s) /\ t[k] = s[k - 1])
    OBVIOUS
  <2>1. CASE k # 1
    <3>1. PICK m \in 1..Len(s) : k = m + 1
      BY <1>1, <1>3, <2>1
    <3>2. k - 1 = m
      BY <3>1
    <3> QED BY <1>3, <3>1, <3>2
  <2> QED BY <2>1
<1>5. JobsIn(t) = JobsIn(s) \cup {n.job}
  <2>1. \A i \in 1..Len(s) : i + 1 \in 1..Len(t)
    BY <1>1, <1>3
  <2>2. 1 \in 1..Len(t)
    BY <1>1, <1>3
  <2>3. ASSUME NEW x \in JobsIn(t) PROVE x \in JobsIn(s) \cup {n.job}
    BY <1>3, <1>4 DEF JobsIn
  <2>4. ASSUME NEW x \in JobsIn(s) PROVE x \in JobsIn(t)
    <3>1. PICK i \in 1..Len(s) : x = s[i].job
      BY DEF JobsIn
    <3>2. t[i + 1].job = x /\ i + 1 \in 1..Len(t)
      BY <1>3, <2>1, <3>1
    <3> QED BY <3>2 DEF JobsIn
  <2>5. n.job \in JobsIn(t)
    BY <1>3, <2>2 DEF JobsIn
  <2> QED BY <2>3, <2>4, <2>5
<1>6. Once(t)
  <2> SUFFICES ASSUME NEW a \in 1..Len(t), NEW b \in 1..Len(t), t[a].job = t[b].job PROVE a = b
    BY DEF Once
  <2>1. CASE a = 1 \/ b = 1
    BY <1>3, <1>4, <2>1 DEF JobsIn
  <2>2. CASE a # 1 /\ b # 1
    <3>1. a - 1 = b - 1
      BY <1>4, <2>2 DEF Once
    <3> QED BY <1>1, <1>3, <3>1
  <2> QED BY <2>1, <2>2
<1> QED BY <1>5, <1>6 DEF t

LEMMA TailHolds ==
  ASSUME NEW S, NEW s \in Seq(S), s # <<>>, Once(s)
  PROVE  /\ Head(s).job \in JobsIn(s) /\ JobsIn(Tail(s)) = JobsIn(s) \ {Head(s).job} /\ Once(Tail(s))
<1> DEFINE n == Len(s) - 1
<1>1. /\ Len(s) \in Nat /\ Len(s) > 0 /\ Head(s) = s[1] /\ Len(Tail(s)) = n
      /\ \A i \in 1..n : Tail(s)[i] = s[i + 1] /\ i + 1 \in 1..Len(s) /\ i + 1 # 1
  BY HeadTailProperties, EmptySeq, LenProperties
<1>2. \A k \in 1..Len(s) : k = 1 \/ (k - 1 \in 1..n /\ Tail(s)[k - 1] = s[k])
  <2> SUFFICES ASSUME NEW k \in 1..Len(s)
               PROVE  k = 1 \/ (k - 1 \in 1..n /\ Tail(s)[k - 1] = s[k])
    OBVIOUS
  <2>1. CASE k # 1
    <3>1. PICK m \in 1..n : k = m + 1
      BY <1>1, <2>1
    <3>2. k - 1 = m
      BY <3>1
    <3> QED BY <1>1, <3>1, <3>2
  <2> QED BY <2>1
<1>3. 1 \in 1..Len(s)
  BY <1>1
<1>4. JobsIn(Tail(s)) = JobsIn(s) \ {Head(s).job}
  <2>1. ASSUME NEW x \in JobsIn(Tail(s)) PROVE x \in JobsIn(s) /\ x # Head(s).job
    BY <1>1, <1>3 DEF JobsIn, Once
  <2>2. ASSUME NEW x \in JobsIn(s), x # Head(s).job PROVE x \in JobsIn(Tail(s))
    <3>1. PICK k \in 1..Len(s) : x = s[k].job
      BY DEF JobsIn
    <3>2. k - 1 \in 1..n /\ Tail(s)[k - 1] = s[k]
      BY <1>1, <1>2, <2>2, <3>1
    <3> DEFINE m == k - 1
    <3>3. m \in 1..Len(Tail(s)) /\ Tail(s)[m].job = x
      BY <1>1, <3>1, <3>2
    <3> HIDE DEF m
    <3> QED BY <3>3 DEF JobsIn
  <2> QED BY <2>1, <2>2
<1>5. Once(Tail(s))
  <2> SUFFICES ASSUME NEW a \in 1..n, NEW b \in 1..n, Tail(s)[a].job = Tail(s)[b].job PROVE a = b
    BY <1>1 DEF Once
  <2>1. a + 1 = b + 1
    BY <1>1 DEF Once
  <2> QED BY <1>1, <2>1
<1> QED BY <1>1, <1>3, <1>4, <1>5 DEF JobsIn

LEMMA AppendHolds ==
  ASSUME NEW s \in Seq(Completions), NEW n \in Completions
  PROVE  JobsIn(Append(s, n)) = JobsIn(s) \cup {n.job}
<1> DEFINE t == Append(s, n)
<1>1. Len(s) \in Nat /\ Len(t) = Len(s) + 1 /\ t[Len(s) + 1] = n /\ \A i \in 1..Len(s) : t[i] = s[i]
  BY LenProperties, AppendProperties
<1> HIDE DEF t
<1>2. ASSUME NEW x \in JobsIn(t) PROVE x \in JobsIn(s) \cup {n.job}
  <2>1. PICK i \in 1..Len(t) : x = t[i].job
    BY DEF JobsIn
  <2>2. CASE i \in 1..Len(s)
    BY <1>1, <2>1, <2>2 DEF JobsIn
  <2>3. CASE i = Len(s) + 1
    BY <1>1, <2>1, <2>3
  <2> QED BY <1>1, <2>2, <2>3
<1>3. ASSUME NEW x \in JobsIn(s) PROVE x \in JobsIn(t)
  <2>1. PICK i \in 1..Len(s) : x = s[i].job
    BY DEF JobsIn
  <2>2. i \in 1..Len(t) /\ x = t[i].job
    BY <1>1, <2>1
  <2> QED BY <2>2 DEF JobsIn
<1>4. n.job \in JobsIn(t)
  <2>1. Len(s) + 1 \in 1..Len(t)
    BY <1>1
  <2> QED BY <1>1, <2>1 DEF JobsIn
<1> QED BY <1>2, <1>3, <1>4 DEF t

LEMMA LaneAppendHolds ==
  ASSUME NEW S, NEW s \in Seq(S), NEW n \in S, OnceInLane(s), n \notin InLane(s)
  PROVE  InLane(Append(s, n)) = InLane(s) \cup {n} /\ OnceInLane(Append(s, n))
<1> DEFINE t == Append(s, n)
<1>1. Len(s) \in Nat /\ Len(t) = Len(s) + 1 /\ t[Len(s) + 1] = n /\ \A i \in 1..Len(s) : t[i] = s[i]
  BY LenProperties, AppendProperties
<1> HIDE DEF t
<1>2. \A i \in 1..Len(t) : i \in 1..Len(s) \/ i = Len(s) + 1
  BY <1>1
<1>3. Len(s) + 1 \in 1..Len(t) /\ 1..Len(s) \subseteq 1..Len(t)
  BY <1>1
<1>4. InLane(t) = InLane(s) \cup {n}
  BY <1>1, <1>2, <1>3 DEF InLane
<1>5. OnceInLane(t)
  BY <1>1, <1>2 DEF InLane, OnceInLane
<1> QED BY <1>4, <1>5 DEF t

LEMMA LaneTailHolds ==
  ASSUME NEW S, NEW s \in Seq(S), s # <<>>, OnceInLane(s)
  PROVE  Head(s) \in InLane(s) /\ InLane(Tail(s)) = InLane(s) \ {Head(s)} /\ OnceInLane(Tail(s))
<1> DEFINE n == Len(s) - 1
<1>1. /\ Len(s) \in Nat /\ Len(s) > 0 /\ Head(s) = s[1] /\ Len(Tail(s)) = n
      /\ \A i \in 1..n : Tail(s)[i] = s[i + 1] /\ i + 1 \in 1..Len(s) /\ i + 1 # 1
  BY HeadTailProperties, EmptySeq, LenProperties
<1>2. 1 \in 1..Len(s)
  BY <1>1
<1>3. ASSUME NEW x \in InLane(Tail(s)) PROVE x \in InLane(s) /\ x # Head(s)
  BY <1>1, <1>2 DEF InLane, OnceInLane
<1>4. ASSUME NEW x \in InLane(s), x # Head(s) PROVE x \in InLane(Tail(s))
  <2>1. PICK k \in 1..Len(s) : x = s[k]
    BY DEF InLane
  <2>2. PICK m \in 1..n : k = m + 1
    BY <1>1, <1>4, <2>1
  <2>3. x = Tail(s)[m]
    BY <1>1, <2>1, <2>2
  <2> QED BY <1>1, <2>3 DEF InLane
<1>5. OnceInLane(Tail(s))
  <2> SUFFICES ASSUME NEW a \in 1..n, NEW b \in 1..n, Tail(s)[a] = Tail(s)[b] PROVE a = b
    BY <1>1 DEF OnceInLane
  <2>1. a + 1 = b + 1
    BY <1>1 DEF OnceInLane
  <2> QED BY <1>1, <2>1
<1> QED BY <1>1, <1>2, <1>3, <1>4, <1>5 DEF InLane

LEMMA LaneRemoveHolds ==
  ASSUME NEW S, NEW s \in Seq(S), NEW i \in 1..Len(s), OnceInLane(s)
  PROVE  InLane(RemoveAt(s, i)) = InLane(s) \ {s[i]} /\ OnceInLane(RemoveAt(s, i))
<1> DEFINE f == SubSeq(s, 1, i - 1)
           r == SubSeq(s, i + 1, Len(s))
           t == RemoveAt(s, i)
           n == Len(s) - 1
<1>1. Len(s) \in Nat /\ i \in 1..Len(s) /\ \A k \in 1..Len(s) : s[k] \in S
  BY LenProperties, ElementOfSeq
<1>2. f \in Seq(S) /\ Len(f) = i - 1 /\ \A k \in 1..(i - 1) : f[k] = s[k]
  BY <1>1, SubSeqProperties
<1>3. /\ r \in Seq(S) /\ Len(r) = Len(s) - i
      /\ \A k \in 1..(Len(s) - i) : r[k] = s[i + k]
  BY <1>1, SubSeqProperties
<1> HIDE DEF f, r
<1>4. /\ t = f \o r /\ Len(t) = n
      /\ \A k \in 1..n : t[k] = IF k <= i - 1 THEN f[k] ELSE r[k - (i - 1)]
  <2>1. t = f \o r
    BY DEF RemoveAt, f, r
  <2>2. /\ Len(f \o r) = Len(f) + Len(r)
        /\ \A k \in 1..(Len(f) + Len(r)) : (f \o r)[k] = IF k <= Len(f) THEN f[k] ELSE r[k - Len(f)]
    BY <1>2, <1>3, ConcatProperties
  <2>3. Len(f) + Len(r) = n
    BY <1>1, <1>2, <1>3
  <2> HIDE DEF t
  <2> QED BY <1>2, <2>1, <2>2, <2>3
<1> HIDE DEF t
<1>5. \A k \in 1..n : k < i => t[k] = s[k]
  BY <1>1, <1>2, <1>4
<1>6. \A k \in 1..n : k >= i => t[k] = s[k + 1]
  <2> SUFFICES ASSUME NEW k \in 1..n, k >= i PROVE t[k] = s[k + 1]
    OBVIOUS
  <2>1. t[k] = r[k - (i - 1)] /\ k - (i - 1) \in 1..(Len(s) - i) /\ i + (k - (i - 1)) = k + 1
    BY <1>1, <1>4
  <2> QED BY <1>3, <2>1
<1>7. ASSUME NEW x \in InLane(t) PROVE x \in InLane(s) /\ x # s[i]
  <2>1. PICK k \in 1..n : x = t[k]
    BY <1>4 DEF InLane
  <2>2. PICK m \in 1..Len(s) : x = s[m] /\ m # i
    <3>1. CASE k < i
      BY <1>1, <1>5, <2>1, <3>1
    <3>2. CASE k >= i
      <4>1. k + 1 \in 1..Len(s) /\ k + 1 # i
        BY <1>1, <3>2
      <4> QED BY <1>6, <2>1, <3>2, <4>1
    <3> QED BY <1>1, <3>1, <3>2
  <2> QED BY <2>2 DEF InLane, OnceInLane
<1>8. ASSUME NEW x \in InLane(s), x # s[i] PROVE x \in InLane(t)
  <2>1. PICK m \in 1..Len(s) : x = s[m] /\ m # i
    BY <1>8 DEF InLane
  <2>2. PICK k \in 1..n : x = t[k]
    <3>1. CASE m < i
      BY <1>1, <1>5, <2>1, <3>1
    <3>2. CASE m > i
      <4>1. PICK k \in 1..n : k + 1 = m /\ k >= i
        <5>1. m - 1 \in 1..n /\ (m - 1) + 1 = m /\ m - 1 >= i
          BY <1>1, <3>2
        <5> QED BY <5>1
      <4> QED BY <1>6, <2>1, <4>1
    <3> QED BY <1>1, <2>1, <3>1, <3>2
  <2> QED BY <1>4, <2>2 DEF InLane
<1>9. OnceInLane(t)
  <2> SUFFICES ASSUME NEW a \in 1..n, NEW b \in 1..n, t[a] = t[b] PROVE a = b
    BY <1>4 DEF OnceInLane
  <2> DEFINE At(k) == IF k < i THEN k ELSE k + 1
  <2>1. At(a) \in 1..Len(s) /\ At(b) \in 1..Len(s)
    BY <1>1
  <2>2. t[a] = s[At(a)] /\ t[b] = s[At(b)]
    BY <1>1, <1>5, <1>6
  <2>3. At(a) = At(b)
    <3> HIDE DEF At
    <3> QED BY <2>1, <2>2 DEF OnceInLane
  <2> QED BY <1>1, <2>3
<1> QED BY <1>7, <1>8, <1>9 DEF t
-----------------------------------------------------------------------------
(* What threads have in hand, and what holds once the pool is closed.      *)

CarriesInv == \A w \in Workers : job[w] # NoJob => pc[w] \in {"notify", "run", "ran", "publish"}

WithdrawnInv == \A c \in Callers : pc[c] = "publish" => status[c] = "cancelled"

(* Nobody moves jobs to the lanes, or takes one, once the pool is closed.  *)
ClosingInv ==
  /\ \A c \in Callers : pc[c] = "closing" => shutdown
  /\ shutdown => \A t \in Threads : pc[t] \notin {"moving", "raised", "cancelMoving"}

HandOver == CarriesInv /\ WithdrawnInv /\ ClosingInv /\ CloseTellsRunning

LEMMA HandOverStep ==
  ASSUME IInv, HandOver, Next
  PROVE  HandOver'
<1> TypeOK /\ LockInv
  BY DEF IInv
<1> USE DEF HandOver
<1>34. ASSUME PumpStep PROVE HandOver'
  <2>1. UNCHANGED <<job, status, running, shutdown, flagged>>
    BY <1>34 DEF PumpStep, ReadWake, StartPump, Reset, Drain, Step, queueVars, lockedVars, atomicVars,
                 wakeVars, threadVars, loopVars
  <2>2. \A t \in Threads : \/ pc'[t] = pc[t]
                           \/ t = UI /\ {pc[t], pc'[t]} \subseteq {"idle", "reset", "drain"}
    BY <1>34, PoolAssumption DEF PumpStep, ReadWake, StartPump, Reset, Drain, Step, Goto, TypeOK
  <2>3. \A v \in Workers : pc'[v] = pc[v]
    BY <2>2, PoolAssumption DEF Threads
  <2>4. CarriesInv'
    BY <2>1, <2>3 DEF CarriesInv
  <2>5. \A c \in Callers : (pc'[c] = "publish" => pc[c] = "publish") /\ (pc'[c] = "closing" <=> pc[c] = "closing")
    BY <2>2 DEF Threads
  <2>6. WithdrawnInv' /\ CloseTellsRunning'
    BY <2>1, <2>5 DEF WithdrawnInv, CloseTellsRunning
  <2>7. ClosingInv'
    BY <2>1, <2>2, <2>5 DEF ClosingInv
  <2> QED BY <2>4, <2>6, <2>7
<1>11. ASSUME NEW w \in Workers, Notify(w) PROVE HandOver'
  <2>1. UNCHANGED <<running, shutdown, flagged, job, status>>
    BY <1>11 DEF Notify, Step, queueVars, lockedVars, atomicVars, wakeVars, loopVars
  <2>2. pc[w] = "notify" /\ pc'[w] \in {"notify", "run"}
        /\ \A u \in Threads : u # w => pc'[u] = pc[u] \/ (u \in Workers /\ pc[u] = "waiting" /\ pc'[u] = "woken")
    BY <1>11, NotifyMoves DEF Threads
  <2>3. \A c \in Callers : pc'[c] = pc[c]
    BY <2>2, PoolAssumption DEF Threads
  <2>4. ASSUME NEW v \in Workers, job'[v] # NoJob
        PROVE  pc'[v] \in {"notify", "run", "ran", "publish"}
    <3>1. job[v] # NoJob /\ pc[v] \in {"notify", "run", "ran", "publish"} /\ v \in Threads
      BY <2>1, <2>4 DEF CarriesInv, Threads
    <3> QED BY <2>2, <3>1
  <2>5. CarriesInv'
    BY <2>4 DEF CarriesInv
  <2>6. WithdrawnInv' /\ CloseTellsRunning'
    BY <2>1, <2>3 DEF WithdrawnInv, CloseTellsRunning
  <2>7. ClosingInv'
    BY <2>1, <2>2, <2>3 DEF ClosingInv
  <2> QED BY <2>5, <2>6, <2>7 DEF HandOver
<1> USE PoolAssumption, PcType
    DEF HandOver, CarriesInv, WithdrawnInv, ClosingInv, CloseTellsRunning, LockInv, HoldingPCs,
        TypeOK, Threads, WorkerPCs, CallerPCs, NoJob, Goto, Step, Acquire, Release, Within,
        WhileFree, queueVars, lockedVars, atomicVars, wakeVars, threadVars, loopVars
<1>1. ASSUME NEW w \in Workers, Exit(w) PROVE HandOver'
  BY <1>1 DEF Exit
<1>2. ASSUME NEW w \in Workers, TakeInbox(w) PROVE HandOver'
  BY <1>2 DEF TakeInbox, DetachInbox
<1>3. ASSUME NEW w \in Workers, Move(w) PROVE HandOver'
  BY <1>3 DEF Move, MoveOldest
<1>4. ASSUME NEW w \in Workers, Pop(w) PROVE HandOver'
  BY <1>4 DEF Pop, Claim
<1>5. ASSUME NEW w \in Workers, Raise(w) PROVE HandOver'
  BY <1>5 DEF Raise
<1>6. ASSUME NEW w \in Workers, LookAgain(w) PROVE HandOver'
  BY <1>6 DEF LookAgain
<1>7. ASSUME NEW w \in Workers, Wait(w) PROVE HandOver'
  BY <1>7 DEF Wait
<1>8. ASSUME NEW w \in Workers, SpuriousWakeup(w) PROVE HandOver'
  BY <1>8 DEF SpuriousWakeup
<1>9. ASSUME NEW w \in Workers, Unwait(w) PROVE HandOver'
  BY <1>9 DEF Unwait
<1>10. ASSUME NEW w \in Workers, TakeUpWake(w) PROVE HandOver'
  BY <1>10 DEF TakeUpWake
<1>12. ASSUME NEW w \in Workers, Run(w) PROVE HandOver'
  BY <1>12 DEF Run
<1>13. ASSUME NEW w \in Workers, Unregister(w) PROVE HandOver'
  BY <1>13 DEF Unregister
<1>14. ASSUME NEW w \in Workers, Publish(w) PROVE HandOver'
  BY <1>14 DEF Publish
<1>15. ASSUME NEW w \in Workers, Signal(w) PROVE HandOver'
  BY <1>15 DEF Signal, Home
<1>16. ASSUME NEW w \in Workers, Write(w) PROVE HandOver'
  BY <1>16 DEF Write, Home
<1>17. ASSUME NEW c \in Callers, BeginSubmit(c) PROVE HandOver'
  BY <1>17 DEF BeginSubmit
<1>18. ASSUME NEW c \in Callers, NEW j \in 1..(next - 1), BeginCancel(c, j) PROVE HandOver'
  BY <1>18 DEF BeginCancel
<1>19. ASSUME NEW c \in Callers, BeginClose(c) PROVE HandOver'
  BY <1>19 DEF BeginClose
<1>20. ASSUME NEW c \in Callers, Push(c) PROVE HandOver'
  BY <1>20 DEF Push
<1>21. ASSUME NEW c \in Callers, ReadParked(c) PROVE HandOver'
  BY <1>21 DEF ReadParked
<1>22. ASSUME NEW c \in Callers, ReadWaking(c) PROVE HandOver'
  BY <1>22 DEF ReadWaking
<1>23. ASSUME NEW c \in Callers, ClaimWake(c) PROVE HandOver'
  BY <1>23 DEF ClaimWake, Claim
<1>24. ASSUME NEW c \in Callers, Notify(c) PROVE HandOver'
  <2>1. c \notin Workers /\ c \in Threads
    OBVIOUS
  <2>2. PICK l \in {pc[c], "idle"} : NotifyOneThen(c, l)
    BY <1>24, <2>1 DEF Notify
  <2>3. pc[c] \in {"notify", "submitNotify"} /\ UNCHANGED <<job, status, running, shutdown, flagged>>
    BY <1>24 DEF Notify
  <2>4. \A t \in Threads : \/ pc'[t] = pc[t]
                           \/ t = c /\ pc'[t] = "idle"
                           \/ t \in Workers /\ pc[t] = "waiting" /\ pc'[t] = "woken"
    BY <2>1, <2>2 DEF NotifyOneThen, Waiting
  <2>5. CarriesInv'
    BY <2>1, <2>3, <2>4
  <2>6. WithdrawnInv'
    BY <2>1, <2>3, <2>4
  <2>7. ClosingInv' /\ CloseTellsRunning'
    <3>1. \A t \in Threads, at \in {"closing", "moving", "raised", "cancelMoving"} :
            pc'[t] = at <=> pc[t] = at
      BY <2>3, <2>4
    <3>2. ClosingInv'
      BY <2>3, <3>1
    <3>3. CloseTellsRunning'
      BY <2>3, <3>1
    <3> QED BY <3>2, <3>3
  <2> QED BY <2>5, <2>6, <2>7
<1>25. ASSUME NEW c \in Callers, Move(c) PROVE HandOver'
  BY <1>25 DEF Move, MoveOldest
<1>26. ASSUME NEW c \in Callers, CancelQueued(c) PROVE HandOver'
  BY <1>26 DEF CancelQueued
<1>27. ASSUME NEW c \in Callers, CancelOther(c) PROVE HandOver'
  BY <1>27 DEF CancelOther
<1>28. ASSUME NEW c \in Callers, Publish(c) PROVE HandOver'
  BY <1>28 DEF Publish
<1>29. ASSUME NEW c \in Callers, Signal(c) PROVE HandOver'
  BY <1>29 DEF Signal, Home
<1>30. ASSUME NEW c \in Callers, Write(c) PROVE HandOver'
  BY <1>30 DEF Write, Home
<1>31. ASSUME NEW c \in Callers, DropQueued(c) PROVE HandOver'
  BY <1>31 DEF DropQueued
<1>32. ASSUME NEW c \in Callers, NotifyAll(c) PROVE HandOver'
  BY <1>32 DEF NotifyAll
<1>33. ASSUME NEW c \in Callers, CloseWake(c) PROVE HandOver'
  BY <1>33 DEF CloseWake
<1> QED
  BY <1>1, <1>2, <1>3, <1>4, <1>5, <1>6, <1>7, <1>8, <1>9, <1>10, <1>11,
     <1>12, <1>13, <1>14, <1>15, <1>16, <1>17, <1>18, <1>19, <1>20, <1>21,
     <1>22, <1>23, <1>24, <1>25, <1>26, <1>27, <1>28, <1>29, <1>30, <1>31,
     <1>32, <1>33, <1>34
  DEF Next, WorkerStep, CallerBegins, CallerStep, PumpStep
-----------------------------------------------------------------------------
(* Where a job is.                                                         *)

Stages == {"push", "inbox", "batch", "lane", "worker", "withdrawn", "ended"}

AtCallers(l) == {job[c] : c \in {d \in Callers : pc[d] = l}}
Carried == {j \in Jobs : \E w \in Workers : job[w] = j}
Laned == {j \in Jobs : \E p \in Prios : j \in InLane(lanes[p])}

Where ==
  [s \in Stages |-> CASE s = "push" -> AtCallers("push")
                      [] s = "inbox" -> JobsIn(inbox)
                      [] s = "batch" -> JobsIn(batch)
                      [] s = "lane" -> Laned
                      [] s = "worker" -> Carried
                      [] s = "withdrawn" -> AtCallers("publish")
                      [] s = "ended" -> Ended]

LEMMA WhereIs ==
  /\ Where["push"] = AtCallers("push") /\ Where["inbox"] = JobsIn(inbox)
  /\ Where["batch"] = JobsIn(batch) /\ Where["lane"] = Laned /\ Where["worker"] = Carried
  /\ Where["withdrawn"] = AtCallers("publish") /\ Where["ended"] = Ended
  BY DEF Where, Stages

Apart(W) == \A s, t \in Stages : s # t => W[s] \cap W[t] = {}

(* A submitted job is in one place at most, and there once.                *)
PlaceInv ==
  /\ Where \in [Stages -> SUBSET (1..(next - 1))] /\ Apart(Where)
  /\ Once(inbox) /\ Once(batch) /\ \A p \in Prios : OnceInLane(lanes[p])
  /\ \A p, q \in Prios : p # q => InLane(lanes[p]) \cap InLane(lanes[q]) = {}
  /\ \A w, v \in Workers : job[w] = job[v] /\ job[w] # NoJob => w = v
  /\ \A c, d \in Callers :
       pc[c] \in {"push", "publish"} /\ pc[d] = pc[c] /\ job[c] = job[d] => c = d

(* The service's state of a job, by its stage.                             *)
StateOf(W, n, o, j) ==
  IF j \in W["worker"] THEN "running"
  ELSE IF j \in W["withdrawn"] THEN "withdrawn"
  ELSE IF j \in W["ended"] THEN "ended"
  ELSE IF (j \in W["inbox"] \/ j \in W["batch"] \/ j \in W["lane"]) /\ o THEN "queued"
  ELSE IF j >= n \/ j \in W["push"] THEN "new"
  ELSE "dropped"

StateAt(s, o) ==
  CASE s = "push" -> "new"
    [] s = "worker" -> "running"
    [] s = "withdrawn" -> "withdrawn"
    [] s = "ended" -> "ended"
    [] s \in {"inbox", "batch", "lane"} -> IF o THEN "queued" ELSE "dropped"

LEMMA JobsInJoined ==
  ASSUME NEW s, NEW t, NEW u, Len(s) \in Nat, Len(t) \in Nat, Len(u) = Len(s) + Len(t),
         \A i \in 1..Len(u) : u[i] = IF i <= Len(s) THEN s[i] ELSE t[i - Len(s)]
  PROVE  JobsIn(u) = JobsIn(s) \cup JobsIn(t)
<1>2. ASSUME NEW x \in JobsIn(u) PROVE x \in JobsIn(s) \cup JobsIn(t)
  <2>1. PICK i \in 1..Len(u) : x = u[i].job
    BY DEF JobsIn
  <2>2. CASE i <= Len(s)
    <3>1. i \in 1..Len(s) /\ x = s[i].job
      BY <2>1, <2>2
    <3> QED BY <3>1 DEF JobsIn
  <2>3. CASE i > Len(s)
    <3>1. i - Len(s) \in 1..Len(t) /\ x = t[i - Len(s)].job
      BY <2>1, <2>3
    <3> QED BY <3>1 DEF JobsIn
  <2> QED BY <2>2, <2>3
<1>3. ASSUME NEW x \in JobsIn(s) PROVE x \in JobsIn(u)
  <2>1. PICK i \in 1..Len(s) : x = s[i].job
    BY DEF JobsIn
  <2>2. i \in 1..Len(u) /\ u[i] = s[i]
    OBVIOUS
  <2> QED BY <2>1, <2>2 DEF JobsIn
<1>4. ASSUME NEW x \in JobsIn(t) PROVE x \in JobsIn(u)
  <2>1. PICK i \in 1..Len(t) : x = t[i].job
    BY DEF JobsIn
  <2>2. PICK k \in 1..Len(u) : k = i + Len(s)
    OBVIOUS
  <2>3. k > Len(s) /\ k - Len(s) = i
    BY <2>2
  <2>4. u[k] = t[i]
    BY <2>2, <2>3
  <2> QED BY <2>1, <2>2, <2>4 DEF JobsIn
<1> QED BY <1>2, <1>3, <1>4

LEMMA JobsInBoth ==
  ASSUME NEW s \in Seq(Completions), NEW t \in Seq(Completions)
  PROVE  JobsIn(s \o t) = JobsIn(s) \cup JobsIn(t)
<1>1. /\ Len(s) \in Nat /\ Len(t) \in Nat /\ Len(s \o t) = Len(s) + Len(t)
      /\ \A i \in 1..Len(s \o t) : (s \o t)[i] = IF i <= Len(s) THEN s[i] ELSE t[i - Len(s)]
  BY LenProperties, ConcatProperties
<1> QED BY <1>1, JobsInJoined

LEMMA NodesInBoth ==
  ASSUME NEW s \in Seq(Nodes), NEW t \in Seq(Nodes)
  PROVE  JobsIn(s \o t) = JobsIn(s) \cup JobsIn(t)
<1>1. /\ Len(s) \in Nat /\ Len(t) \in Nat /\ Len(s \o t) = Len(s) + Len(t)
      /\ \A i \in 1..Len(s \o t) : (s \o t)[i] = IF i <= Len(s) THEN s[i] ELSE t[i - Len(s)]
  BY LenProperties, ConcatProperties
<1> QED BY <1>1, JobsInJoined

LEMMA JobStateIs ==
  TypeOK => JobState = [j \in Jobs |-> StateOf(Where, next, ~shutdown, j)]
<1> SUFFICES ASSUME TypeOK, NEW j \in Jobs
             PROVE  JobState[j] = StateOf(Where, next, ~shutdown, j)
  BY DEF JobState
<1>1. j \in Where["worker"] <=> \E w \in Workers : job[w] = j
  BY WhereIs DEF Carried
<1>2. /\ j \in Where["withdrawn"] <=> \E c \in Callers : pc[c] = "publish" /\ job[c] = j
      /\ j \in Where["push"] <=> \E c \in Callers : pc[c] = "push" /\ job[c] = j
  BY WhereIs DEF AtCallers
<1>3. j \in Where["ended"] <=> j \in Ended
  BY WhereIs
<1>4. j \in Where["inbox"] \/ j \in Where["batch"] \/ j \in Where["lane"] <=> Queued(j)
  <2>1. IsQueued(j) <=> j \in Where["lane"]
    BY WhereIs DEF IsQueued, Contains, Laned, InLane
  <2>2. JobsIn(inbox \o batch) = JobsIn(inbox) \cup JobsIn(batch)
    <3>1. inbox \in Seq(Nodes) /\ batch \in Seq(Nodes)
      BY DEF TypeOK
    <3> QED BY <3>1, NodesInBoth, Zenon
  <2>3. j \in JobsIn(inbox \o batch) <=> \E i \in 1..Len(inbox \o batch) : (inbox \o batch)[i].job = j
    BY DEF JobsIn
  <2> QED BY <2>1, <2>2, <2>3, WhereIs DEF Queued
<1> QED BY <1>1, <1>2, <1>3, <1>4 DEF JobState, StateOf

LEMMA StagesState ==
  ASSUME NEW W, NEW n, NEW o \in BOOLEAN, NEW k, NEW t \in Stages, ~(k >= n),
         \A r \in Stages : k \in W[r] <=> r = t
  PROVE  StateOf(W, n, o, k) = StateAt(t, o)
  BY DEF StateOf, StateAt, Stages

LEMMA SameStages ==
  ASSUME NEW V, NEW W, NEW n, NEW o, NEW j, \A r \in Stages : j \in V[r] <=> j \in W[r]
  PROVE  StateOf(V, n, o, j) = StateOf(W, n, o, j)
  BY DEF StateOf, Stages
-----------------------------------------------------------------------------
(* The steps that move a job, and what they are to the service.            *)

LEMMA StageMoves ==
  ASSUME TypeOK, TypeOK', PlaceInv, NEW s \in Stages, NEW t \in Stages, s # t, NEW k \in Where[s],
         Where' = [Where EXCEPT ![s] = @ \ {k}, ![t] = @ \cup {k}], next' = next, shutdown' = shutdown
  PROVE  /\ Where' \in [Stages -> SUBSET (1..(next' - 1))] /\ Apart(Where')
         /\ k \in Jobs /\ JobState[k] = StateAt(s, ~shutdown)
         /\ JobState' = [JobState EXCEPT ![k] = StateAt(t, ~shutdown)]
<1>1. Where \in [Stages -> SUBSET (1..(next - 1))] /\ Apart(Where)
  BY DEF PlaceInv
<1>2. /\ Where' \in [Stages -> SUBSET (1..(next - 1))] /\ Apart(Where')
      /\ \A j : j # k => \A r \in Stages : j \in Where'[r] <=> j \in Where[r]
      /\ \A r \in Stages : k \in Where'[r] <=> r = t
  <2> HIDE DEF Where, Stages
  <2>1. \A r \in Stages :
          Where'[r] = IF r = s THEN Where[s] \ {k}
                      ELSE IF r = t THEN Where[t] \cup {k} ELSE Where[r]
    BY <1>1
  <2>2. Where' \in [Stages -> SUBSET (1..(next - 1))]
    BY <1>1
  <2>3. ASSUME NEW j, j # k, NEW r \in Stages PROVE j \in Where'[r] <=> j \in Where[r]
    <3>1. CASE r = s
      BY <1>1, <2>1, <2>3, <3>1
    <3>2. CASE r # s
      BY <1>1, <2>1, <2>3, <3>2
    <3> QED BY <3>1, <3>2
  <2>4. \A r \in Stages : k \in Where'[r] <=> r = t
    BY <1>1, <2>1 DEF Apart
  <2>5. Apart(Where')
    <3> SUFFICES ASSUME NEW a \in Stages, NEW b \in Stages, a # b, NEW j, j \in Where'[a], j \in Where'[b]
                 PROVE  FALSE
      BY DEF Apart
    <3> QED BY <1>1, <2>3, <2>4 DEF Apart
  <2> QED BY <2>2, <2>3, <2>4, <2>5
<1>3. \A r \in Stages : k \in Where[r] <=> r = s
  BY <1>1 DEF Apart
<1>4. k \in 1..(next - 1) /\ next \in 1..(MaxJobs + 1) /\ MaxJobs \in Nat
  BY <1>1, PoolAssumption DEF TypeOK
<1>5. k \in Jobs /\ ~(k >= next)
  BY <1>4 DEF Jobs
<1>6. /\ JobState = [j \in Jobs |-> StateOf(Where, next, ~shutdown, j)]
      /\ JobState' = [j \in Jobs |-> StateOf(Where', next, ~shutdown, j)]
  <2>1. (TypeOK => JobState = [j \in Jobs |-> StateOf(Where, next, ~shutdown, j)])'
    BY JobStateIs, PTL
  <2> QED BY <2>1, JobStateIs
<1>7. StateOf(Where, next, ~shutdown, k) = StateAt(s, ~shutdown)
  <2> DEFINE W == Where
             o == ~shutdown
  <2>1. o \in BOOLEAN /\ \A r \in Stages : k \in W[r] <=> r = s
    BY <1>3
  <2> HIDE DEF W, o
  <2>2. StateOf(W, next, o, k) = StateAt(s, o)
    BY <1>5, <2>1, StagesState
  <2> QED BY <2>2 DEF W, o
<1>8. StateOf(Where', next, ~shutdown, k) = StateAt(t, ~shutdown)
  <2> DEFINE W == Where'
             o == ~shutdown
  <2>1. o \in BOOLEAN /\ \A r \in Stages : k \in W[r] <=> r = t
    BY <1>2
  <2> HIDE DEF W, o
  <2>2. StateOf(W, next, o, k) = StateAt(t, o)
    BY <1>5, <2>1, StagesState
  <2> QED BY <2>2 DEF W, o
<1>9. \A j \in Jobs : j # k => StateOf(Where', next, ~shutdown, j) = StateOf(Where, next, ~shutdown, j)
  <2> SUFFICES ASSUME NEW j \in Jobs, j # k
               PROVE  StateOf(Where', next, ~shutdown, j) = StateOf(Where, next, ~shutdown, j)
    OBVIOUS
  <2> DEFINE W == Where
             V == Where'
             o == ~shutdown
  <2>1. \A r \in Stages : j \in V[r] <=> j \in W[r]
    BY <1>2
  <2> HIDE DEF W, V, o
  <2>2. StateOf(V, next, o, j) = StateOf(W, next, o, j)
    BY <2>1, SameStages
  <2> QED BY <2>2 DEF W, V, o
<1> HIDE DEF JobState, Where
<1>10. JobState' = [JobState EXCEPT ![k] = StateAt(t, ~shutdown)]
  BY <1>6, <1>8, <1>9
<1> QED BY <1>2, <1>5, <1>6, <1>7, <1>10

LEMMA PushMoves ==
  ASSUME IInv, PlaceInv, TypeOK', NEW c \in Callers, Push(c)
  PROVE  PlaceInv' /\ Service!Submit(job[c])
<1> DEFINE k == job[c]
<1>1. TypeOK /\ HandInv
  BY DEF IInv
<1>2. /\ pc[c] = "push" /\ pc' = [pc EXCEPT ![c] = "readParked"] /\ job' = [job EXCEPT ![c] = NoJob]
      /\ UNCHANGED <<lanes, batch, done, collected, next, shutdown>>
  BY DEF Push, Step, Goto, wakeVars, lockedVars, atomicVars, loopVars
<1>3. PICK p \in Prios : inbox' = <<[job |-> k, prio |-> p]>> \o inbox
  BY DEF Push
<1>4. k \in Jobs /\ [job |-> k, prio |-> p] \in Nodes /\ inbox \in Seq(Nodes)
  BY <1>1, <1>2 DEF HandInv, HandPCs, Nodes, TypeOK, Threads
<1>5. c \in Threads /\ c \notin Workers /\ \A t \in Workers \cup Callers : t \in Threads
  BY <1>1, PcType DEF Threads
<1>6. \A d \in Callers : d # c => pc'[d] = pc[d] /\ job'[d] = job[d]
  BY <1>1, <1>2 DEF TypeOK, Threads
<1>7. pc'[c] = "readParked" /\ \A w \in Workers : job'[w] = job[w]
  BY <1>1, <1>2, <1>5 DEF TypeOK
<1>8. \A d \in Callers : d # c => ~(pc[d] = "push" /\ job[d] = k)
  BY <1>2 DEF PlaceInv
<1>9. AtCallers("push")' = AtCallers("push") \ {k} /\ k \in AtCallers("push")
  BY <1>2, <1>6, <1>7, <1>8 DEF AtCallers
<1>10. AtCallers("publish")' = AtCallers("publish")
  BY <1>2, <1>6, <1>7 DEF AtCallers
<1>11. Carried' = Carried /\ Laned' = Laned /\ Ended' = Ended /\ JobsIn(batch)' = JobsIn(batch)
  BY <1>2, <1>7 DEF Carried, Laned, Ended, JobsIn
<1>12. k \in Where["push"] /\ k \notin JobsIn(inbox)
  BY <1>9, WhereIs DEF PlaceInv, Apart, Stages
<1>13. JobsIn(inbox') = JobsIn(inbox) \cup {k} /\ Once(inbox')
  <2> DEFINE n == [job |-> k, prio |-> p]
  <2>1. n.job = k
    OBVIOUS
  <2> HIDE DEF n, k
  <2>2. Once(inbox) /\ n \in Nodes
    BY <1>4 DEF PlaceInv, n
  <2>3. JobsIn(<<n>> \o inbox) = JobsIn(inbox) \cup {n.job} /\ Once(<<n>> \o inbox)
    BY <1>4, <1>12, <2>1, <2>2, PrependHolds
  <2> QED BY <1>3, <2>1, <2>3 DEF n
<1> HIDE DEF k
<1>14. Where' = [Where EXCEPT !["push"] = @ \ {k}, !["inbox"] = @ \cup {k}]
  BY <1>9, <1>10, <1>11, <1>13 DEF Where, Stages
<1>15. /\ Where' \in [Stages -> SUBSET (1..(next' - 1))] /\ Apart(Where')
       /\ JobState[k] = StateAt("push", ~shutdown)
       /\ JobState' = [JobState EXCEPT ![k] = StateAt("inbox", ~shutdown)]
  BY <1>1, <1>2, <1>12, <1>14, StageMoves DEF Stages
<1>16. PlaceInv'
  <2>1. Apart(Where)'
    BY <1>15 DEF Apart
  <2>2. \A d, e \in Callers : pc'[d] \in {"push", "publish"} /\ pc'[e] = pc'[d] /\ job'[d] = job'[e] => d = e
    BY <1>6, <1>7 DEF PlaceInv
  <2>3. Once(inbox)' /\ Once(batch)'
    BY <1>2, <1>13 DEF PlaceInv, Once
  <2>4. /\ \A q \in Prios : OnceInLane(lanes'[q])
        /\ \A q, r \in Prios : q # r => InLane(lanes'[q]) \cap InLane(lanes'[r]) = {}
    BY <1>2 DEF PlaceInv
  <2>5. \A w, v \in Workers : job'[w] = job'[v] /\ job'[w] # NoJob => w = v
    BY <1>7 DEF PlaceInv
  <2> HIDE DEF Where
  <2> QED BY <1>15, <2>1, <2>2, <2>3, <2>4, <2>5 DEF PlaceInv, OnceInLane, InLane
<1>17. Service!Submit(k)
  BY <1>2, <1>15 DEF Service!Submit, StateAt
<1> QED BY <1>16, <1>17 DEF k

LEMMA MoveMoves ==
  ASSUME IInv, PlaceInv, TypeOK', NEW t \in Threads, Move(t)
  PROVE  PlaceInv' /\ UNCHANGED <<JobState, done, collected, shutdown>>
<1> DEFINE k == Head(batch).job
           p == Head(batch).prio
<1>1. TypeOK
  BY DEF IInv
<1>2. /\ batch # <<>> /\ batch' = Tail(batch) /\ lanes' = [lanes EXCEPT ![p] = Append(@, k)]
      /\ UNCHANGED <<inbox, pc, job, done, collected, next, shutdown>>
  BY DEF Move, MoveOldest, wakeVars, lockedVars, atomicVars, loopVars, threadVars
<1>3. /\ batch \in Seq(Nodes) /\ Head(batch) \in Nodes /\ k \in Jobs /\ p \in Prios
      /\ lanes \in [Prios -> Seq(Jobs)] /\ lanes[p] \in Seq(Jobs)
  <2>1. batch \in Seq(Nodes) /\ lanes \in [Prios -> Seq(Jobs)]
    BY <1>1 DEF TypeOK
  <2>2. Head(batch) \in Nodes
    BY <1>2, <2>1, HeadTailProperties
  <2>3. k \in Jobs /\ p \in Prios
    BY <2>2 DEF Nodes
  <2> QED BY <2>1, <2>2, <2>3
<1>4. k \in JobsIn(batch) /\ JobsIn(Tail(batch)) = JobsIn(batch) \ {k} /\ Once(Tail(batch))
  <2>1. Once(batch)
    BY DEF PlaceInv
  <2> QED BY <1>2, <1>3, <2>1, TailHolds
<1> HIDE DEF k, p
<1>5. k \in Where["batch"] /\ k \notin Laned
  BY <1>4, WhereIs DEF PlaceInv, Apart, Stages
<1>6. \A q \in Prios : k \notin InLane(lanes[q])
  BY <1>3, <1>5 DEF Laned
<1>7. /\ InLane(lanes'[p]) = InLane(lanes[p]) \cup {k} /\ OnceInLane(lanes'[p])
      /\ \A q \in Prios : q # p => lanes'[q] = lanes[q]
  <2>1. OnceInLane(lanes[p]) /\ k \notin InLane(lanes[p])
    BY <1>3, <1>6 DEF PlaceInv
  <2>2. InLane(Append(lanes[p], k)) = InLane(lanes[p]) \cup {k} /\ OnceInLane(Append(lanes[p], k))
    BY <1>3, <2>1, LaneAppendHolds
  <2> QED BY <1>2, <1>3, <2>2
<1>8. Laned' = Laned \cup {k}
  BY <1>3, <1>7 DEF Laned
<1>9. /\ AtCallers("push")' = AtCallers("push") /\ AtCallers("publish")' = AtCallers("publish")
      /\ Carried' = Carried /\ Ended' = Ended /\ JobsIn(inbox)' = JobsIn(inbox)
      /\ JobsIn(batch') = JobsIn(batch) \ {k}
  BY <1>2, <1>4 DEF AtCallers, Carried, Ended, JobsIn
<1>10. Where' = [Where EXCEPT !["batch"] = @ \ {k}, !["lane"] = @ \cup {k}]
  BY <1>8, <1>9 DEF Where, Stages
<1>11. /\ Where' \in [Stages -> SUBSET (1..(next' - 1))] /\ Apart(Where')
       /\ JobState[k] = StateAt("batch", ~shutdown)
       /\ JobState' = [JobState EXCEPT ![k] = StateAt("lane", ~shutdown)]
  BY <1>1, <1>2, <1>5, <1>10, StageMoves DEF Stages
<1>12. JobState' = JobState
  <2>1. StateAt("batch", ~shutdown) = StateAt("lane", ~shutdown)
    BY DEF StateAt
  <2>2. JobState \in [Jobs -> {"running", "withdrawn", "ended", "queued", "new", "dropped"}]
    BY DEF JobState
  <2> HIDE DEF JobState
  <2> QED BY <1>11, <2>1, <2>2
<1>13. PlaceInv'
  <2>1. Apart(Where)'
    BY <1>11 DEF Apart
  <2>2. /\ \A d, e \in Callers : pc'[d] \in {"push", "publish"} /\ pc'[e] = pc'[d] /\ job'[d] = job'[e] => d = e
        /\ \A w, v \in Workers : job'[w] = job'[v] /\ job'[w] # NoJob => w = v
    BY <1>2 DEF PlaceInv
  <2>3. Once(inbox)' /\ Once(batch)'
    BY <1>2, <1>4 DEF PlaceInv, Once
  <2>4. \A q \in Prios : OnceInLane(lanes'[q])
    BY <1>7 DEF PlaceInv
  <2>5. \A q, r \in Prios : q # r => InLane(lanes'[q]) \cap InLane(lanes'[r]) = {}
    BY <1>6, <1>7 DEF PlaceInv
  <2> HIDE DEF Where
  <2> QED BY <1>11, <2>1, <2>2, <2>3, <2>4, <2>5 DEF PlaceInv, OnceInLane, InLane
<1> QED BY <1>2, <1>12, <1>13

LEMMA PopMoves ==
  ASSUME IInv, HandOver, PlaceInv, TypeOK', NEW w \in Workers, Pop(w)
  PROVE  PlaceInv' /\ job'[w] \in Jobs /\ Service!Start(job'[w])
<1>1. TypeOK /\ w \in Threads
  BY DEF IInv, Threads
<1>2. PICK p \in Prios : /\ lanes[p] # <<>> /\ lanes' = [lanes EXCEPT ![p] = Tail(@)]
                         /\ job' = [job EXCEPT ![w] = Head(lanes[p])]
  BY DEF Pop, MostUrgent
<1> DEFINE k == Head(lanes[p])
<1>3. /\ pc[w] = "moving" /\ UNCHANGED <<inbox, batch, done, collected, next, shutdown>>
      /\ \A c \in Callers : pc'[c] = pc[c]
  <2>1. w \notin Callers
    BY <1>1, PcType
  <2> QED BY <1>1, <2>1 DEF Pop, wakeVars, loopVars, Goto, TypeOK
<1>4. lanes \in [Prios -> Seq(Jobs)] /\ lanes[p] \in Seq(Jobs) /\ k \in Jobs
  BY <1>1, <1>2, HeadTailProperties DEF TypeOK
<1>5. k \in InLane(lanes[p]) /\ InLane(Tail(lanes[p])) = InLane(lanes[p]) \ {k} /\ OnceInLane(Tail(lanes[p]))
  <2>1. OnceInLane(lanes[p])
    BY DEF PlaceInv
  <2> QED BY <1>2, <1>4, <2>1, LaneTailHolds
<1>17. job' = [job EXCEPT ![w] = k]
  BY <1>2
<1> HIDE DEF k
<1>6. ~shutdown /\ job[w] = NoJob
  BY <1>1, <1>3 DEF HandOver, ClosingInv, CarriesInv
<1>7. /\ job'[w] = k /\ \A t \in Workers \cup Callers : t # w => job'[t] = job[t]
      /\ w \notin Callers
  BY <1>1, <1>17, PcType DEF TypeOK, Threads
<1>8. /\ InLane(lanes'[p]) = InLane(lanes[p]) \ {k} /\ OnceInLane(lanes'[p])
      /\ \A q \in Prios : q # p => lanes'[q] = lanes[q]
  BY <1>2, <1>4, <1>5
<1>9. \A q \in Prios : q # p => k \notin InLane(lanes[q])
  BY <1>5 DEF PlaceInv
<1>10. Laned' = Laned \ {k} /\ k \in Laned
  BY <1>4, <1>5, <1>8, <1>9 DEF Laned
<1>11. k \in Where["lane"] /\ k \notin Carried
  BY <1>10, WhereIs DEF PlaceInv, Apart, Stages
<1>12. Carried' = Carried \cup {k}
  <2>1. NoJob \notin Jobs
    BY PoolAssumption DEF NoJob, Jobs
  <2>2. ASSUME NEW x \in Carried' PROVE x \in Carried \cup {k}
    BY <1>7 DEF Carried
  <2>3. ASSUME NEW x \in Carried PROVE x \in Carried'
    BY <1>6, <1>7, <2>1 DEF Carried
  <2>4. k \in Carried'
    BY <1>4, <1>7 DEF Carried
  <2> QED BY <2>2, <2>3, <2>4
<1>13. /\ AtCallers("push")' = AtCallers("push") /\ AtCallers("publish")' = AtCallers("publish")
       /\ Ended' = Ended /\ JobsIn(inbox)' = JobsIn(inbox) /\ JobsIn(batch)' = JobsIn(batch)
  BY <1>3, <1>7 DEF AtCallers, Ended, JobsIn
<1>14. Where' = [Where EXCEPT !["lane"] = @ \ {k}, !["worker"] = @ \cup {k}]
  BY <1>10, <1>12, <1>13 DEF Where, Stages
<1>15. /\ Where' \in [Stages -> SUBSET (1..(next' - 1))] /\ Apart(Where')
       /\ JobState[k] = StateAt("lane", ~shutdown)
       /\ JobState' = [JobState EXCEPT ![k] = StateAt("worker", ~shutdown)]
  BY <1>1, <1>3, <1>11, <1>14, StageMoves DEF Stages
<1>16. PlaceInv'
  <2>1. Apart(Where)'
    BY <1>15 DEF Apart
  <2>2. \A d, e \in Callers : pc'[d] \in {"push", "publish"} /\ pc'[e] = pc'[d] /\ job'[d] = job'[e] => d = e
    BY <1>3, <1>7 DEF PlaceInv
  <2>3. \A u, v \in Workers : job'[u] = job'[v] /\ job'[u] # NoJob => u = v
    BY <1>4, <1>7, <1>11 DEF PlaceInv, Carried
  <2>4. Once(inbox)' /\ Once(batch)'
    BY <1>3 DEF PlaceInv, Once
  <2>5. \A q \in Prios : OnceInLane(lanes'[q])
    BY <1>8 DEF PlaceInv
  <2>6. \A q, r \in Prios : q # r => InLane(lanes'[q]) \cap InLane(lanes'[r]) = {}
    BY <1>8 DEF PlaceInv
  <2> HIDE DEF Where
  <2> QED BY <1>15, <2>1, <2>2, <2>3, <2>4, <2>5, <2>6 DEF PlaceInv, OnceInLane, InLane
<1>18. Service!Start(k)
  BY <1>3, <1>6, <1>15 DEF Service!Start, StateAt
<1> QED BY <1>4, <1>7, <1>16, <1>18

LEMMA CancelQueuedMoves ==
  ASSUME IInv, HandOver, PlaceInv, TypeOK', NEW c \in Callers, CancelQueued(c)
  PROVE  PlaceInv' /\ Service!Withdraw(job[c])
<1> DEFINE k == job[c]
<1>1. TypeOK /\ c \in Threads /\ c \notin Workers
  BY PcType DEF IInv
<1>0. PICK p \in Prios : \E i \in 1..Len(lanes[p]) :
         lanes[p][i] = k /\ lanes' = [lanes EXCEPT ![p] = RemoveAt(@, i)]
  BY DEF CancelQueued
<1>2. PICK i \in 1..Len(lanes[p]) :
        lanes[p][i] = k /\ lanes' = [lanes EXCEPT ![p] = RemoveAt(@, i)]
  BY <1>0
<1>3. /\ pc[c] = "cancelMoving" /\ pc' = [pc EXCEPT ![c] = "publish"]
      /\ UNCHANGED <<inbox, batch, job, done, collected, next, shutdown>>
  BY DEF CancelQueued, Step, Goto, wakeVars, lockedVars, atomicVars, loopVars
<1>4. lanes \in [Prios -> Seq(Jobs)] /\ lanes[p] \in Seq(Jobs) /\ k \in Jobs
  BY <1>1, <1>2, ElementOfSeq DEF TypeOK
<1>5. /\ k \in InLane(lanes[p]) /\ InLane(RemoveAt(lanes[p], i)) = InLane(lanes[p]) \ {k}
      /\ OnceInLane(RemoveAt(lanes[p], i))
  <2>1. OnceInLane(lanes[p]) /\ lanes[p][i] = k
    BY <1>2 DEF PlaceInv
  <2>2. InLane(RemoveAt(lanes[p], i)) = InLane(lanes[p]) \ {lanes[p][i]} /\ OnceInLane(RemoveAt(lanes[p], i))
    <3> HIDE DEF k
    <3> QED BY <1>4, <2>1, LaneRemoveHolds
  <2>3. lanes[p][i] \in InLane(lanes[p])
    BY DEF InLane
  <2> QED BY <2>1, <2>2, <2>3
<1> HIDE DEF k
<1>6. ~shutdown
  BY <1>1, <1>3 DEF HandOver, ClosingInv
<1>7. pc'[c] = "publish" /\ job[c] = k /\ \A d \in Callers : d # c => pc'[d] = pc[d]
  BY <1>1, <1>3 DEF TypeOK, Threads, k
<1>8. /\ InLane(lanes'[p]) = InLane(lanes[p]) \ {k} /\ OnceInLane(lanes'[p])
      /\ \A q \in Prios : q # p => lanes'[q] = lanes[q]
  BY <1>2, <1>4, <1>5
<1>9. \A q \in Prios : q # p => k \notin InLane(lanes[q])
  BY <1>5 DEF PlaceInv
<1>10. Laned' = Laned \ {k} /\ k \in Laned
  BY <1>4, <1>5, <1>8, <1>9 DEF Laned
<1>11. k \in Where["lane"] /\ k \notin AtCallers("publish")
  BY <1>10, WhereIs DEF PlaceInv, Apart, Stages
<1>12. AtCallers("publish")' = AtCallers("publish") \cup {k} /\ AtCallers("push")' = AtCallers("push")
  BY <1>3, <1>7 DEF AtCallers
<1>13. /\ Carried' = Carried /\ Ended' = Ended
       /\ JobsIn(inbox)' = JobsIn(inbox) /\ JobsIn(batch)' = JobsIn(batch)
  BY <1>3 DEF Carried, Ended, JobsIn
<1>14. Where' = [Where EXCEPT !["lane"] = @ \ {k}, !["withdrawn"] = @ \cup {k}]
  BY <1>10, <1>12, <1>13 DEF Where, Stages
<1>15. /\ Where' \in [Stages -> SUBSET (1..(next' - 1))] /\ Apart(Where')
       /\ JobState[k] = StateAt("lane", ~shutdown)
       /\ JobState' = [JobState EXCEPT ![k] = StateAt("withdrawn", ~shutdown)]
  BY <1>1, <1>3, <1>11, <1>14, StageMoves DEF Stages
<1>16. PlaceInv'
  <2>1. Apart(Where)'
    BY <1>15 DEF Apart
  <2>2. \A d, e \in Callers : pc'[d] \in {"push", "publish"} /\ pc'[e] = pc'[d] /\ job'[d] = job'[e] => d = e
    BY <1>3, <1>7, <1>11 DEF PlaceInv, AtCallers
  <2>3. \A u, v \in Workers : job'[u] = job'[v] /\ job'[u] # NoJob => u = v
    BY <1>3 DEF PlaceInv
  <2>4. Once(inbox)' /\ Once(batch)'
    BY <1>3 DEF PlaceInv, Once
  <2>5. \A q \in Prios : OnceInLane(lanes'[q])
    BY <1>8 DEF PlaceInv
  <2>6. \A q, r \in Prios : q # r => InLane(lanes'[q]) \cap InLane(lanes'[r]) = {}
    BY <1>8 DEF PlaceInv
  <2> HIDE DEF Where
  <2> QED BY <1>15, <2>1, <2>2, <2>3, <2>4, <2>5, <2>6 DEF PlaceInv, OnceInLane, InLane
<1>17. Service!Withdraw(k)
  BY <1>3, <1>6, <1>15 DEF Service!Withdraw, StateAt
<1> QED BY <1>16, <1>17 DEF k

LEMMA EndedIs == TypeOK => Ended = JobsIn(collected) \cup JobsIn(done)
<1> SUFFICES ASSUME TypeOK PROVE Ended = JobsIn(collected) \cup JobsIn(done)
  OBVIOUS
<1>1. collected \in Seq(Completions) /\ done \in Seq(Completions)
  BY DEF TypeOK
<1>2. Len(collected \o done) = Len(collected) + Len(done)
  BY <1>1, ConcatProperties
<1>3. JobsIn(collected \o done) = JobsIn(collected) \cup JobsIn(done)
  BY <1>1, JobsInBoth, Zenon
<1>4. Ended = JobsIn(collected \o done)
  BY <1>2 DEF Ended, JobsIn
<1> QED BY <1>3, <1>4

LEMMA PublishMoves ==
  ASSUME IInv, HandOver, PlaceInv, TypeOK', NEW t \in Threads, Publish(t)
  PROVE  PlaceInv' /\ Service!Complete(job[t], status[t])
<1> DEFINE k == job[t]
           s == IF t \in Workers THEN "worker" ELSE "withdrawn"
           n == [job |-> k, status |-> status[t]]
<1>1. TypeOK /\ HandInv
  BY DEF IInv
<1>2. /\ pc[t] = "publish" /\ pc' = [pc EXCEPT ![t] = "signal"] /\ job' = [job EXCEPT ![t] = NoJob]
      /\ done' = Append(done, n)
      /\ UNCHANGED <<lanes, batch, inbox, collected, next, shutdown>>
  BY DEF Publish, Step, Goto, queueVars, lockedVars, atomicVars, loopVars
<1>3. k \in Jobs /\ NoJob \notin Jobs /\ n.job = k
  BY <1>1, <1>2, PoolAssumption DEF HandInv, HandPCs, NoJob, Jobs
<1>4. n \in Completions /\ done \in Seq(Completions)
  BY <1>1, <1>3 DEF TypeOK, Completions
<1>5. job'[t] = NoJob /\ job[t] = k /\ \A u \in Workers \cup Callers : u # t => job'[u] = job[u] /\ pc'[u] = pc[u]
  BY <1>1, <1>2 DEF TypeOK, Threads
<1>6. pc'[t] = "signal" /\ (t \in Workers <=> t \notin Callers)
  BY <1>1, <1>2, PcType DEF TypeOK, Threads
<1>7. JobsIn(done') = JobsIn(done) \cup {k}
  <2> HIDE DEF n, k
  <2>1. JobsIn(Append(done, n)) = JobsIn(done) \cup {n.job}
    BY <1>4, AppendHolds, Zenon
  <2> QED BY <1>2, <1>3, <2>1
<1>8. Ended' = Ended \cup {k}
  <2>1. (TypeOK => Ended = JobsIn(collected) \cup JobsIn(done))'
    BY EndedIs, PTL
  <2>2. Ended' = JobsIn(collected') \cup JobsIn(done')
    BY <2>1 DEF JobsIn
  <2>3. Ended = JobsIn(collected) \cup JobsIn(done)
    BY <1>1, EndedIs
  <2> QED BY <1>2, <1>7, <2>2, <2>3
<1> HIDE DEF n, k
<1>9. /\ JobsIn(inbox)' = JobsIn(inbox) /\ JobsIn(batch)' = JobsIn(batch) /\ Laned' = Laned
      /\ AtCallers("push")' = AtCallers("push")
  <2>1. \A c \in Callers : /\ pc'[c] = "push" <=> pc[c] = "push"
                           /\ pc[c] = "push" => job'[c] = job[c]
    BY <1>2, <1>5, <1>6
  <2> QED BY <1>2, <2>1 DEF JobsIn, Laned, AtCallers
<1>10. ASSUME t \in Workers
       PROVE  /\ k \in Where[s]
              /\ Where' = [Where EXCEPT ![s] = @ \ {k}, !["ended"] = @ \cup {k}]
  <2>1. AtCallers("publish")' = AtCallers("publish")
    BY <1>5, <1>6, <1>10 DEF AtCallers
  <2>2. k \in Carried
    BY <1>3, <1>5, <1>10 DEF Carried
  <2>3. \A w \in Workers : job[w] = k => w = t
    BY <1>3, <1>5, <1>10 DEF PlaceInv
  <2>4. Carried' = Carried \ {k}
    BY <1>3, <1>5, <1>10, <2>3 DEF Carried
  <2>5. /\ k \in Where[s]
        /\ Where' = [Where EXCEPT ![s] = @ \ {k}, !["ended"] = @ \cup {k}]
    BY <1>8, <1>9, <1>10, <2>1, <2>2, <2>4 DEF Where, Stages
  <2> QED BY <2>5
<1>11. ASSUME t \in Callers
       PROVE  /\ k \in Where[s]
              /\ Where' = [Where EXCEPT ![s] = @ \ {k}, !["ended"] = @ \cup {k}]
  <2>1. Carried' = Carried
    BY <1>5, <1>6, <1>11 DEF Carried
  <2>2. k \in AtCallers("publish")
    BY <1>2, <1>5, <1>11 DEF AtCallers
  <2>3. \A c \in Callers : pc[c] = "publish" /\ job[c] = k => c = t
    BY <1>2, <1>5, <1>11 DEF PlaceInv
  <2>4. AtCallers("publish")' = AtCallers("publish") \ {k}
    BY <1>5, <1>6, <1>11, <2>3 DEF AtCallers
  <2>5. /\ k \in Where[s]
        /\ Where' = [Where EXCEPT ![s] = @ \ {k}, !["ended"] = @ \cup {k}]
    BY <1>6, <1>8, <1>9, <1>11, <2>1, <2>2, <2>4 DEF Where, Stages
  <2> QED BY <2>5
<1>12. /\ k \in Where[s] /\ s \in Stages /\ s # "ended"
       /\ Where' = [Where EXCEPT ![s] = @ \ {k}, !["ended"] = @ \cup {k}]
  BY <1>10, <1>11 DEF Threads, Stages
<1>13. /\ Where' \in [Stages -> SUBSET (1..(next' - 1))] /\ Apart(Where')
       /\ JobState[k] = StateAt(s, ~shutdown)
       /\ JobState' = [JobState EXCEPT ![k] = StateAt("ended", ~shutdown)]
  <2> HIDE DEF s
  <2>1. "ended" \in Stages /\ next' = next /\ shutdown' = shutdown
    BY <1>2 DEF Stages
  <2>2. TypeOK /\ TypeOK' /\ PlaceInv
    BY <1>1
  <2> QED BY <1>12, <2>1, <2>2, StageMoves
<1>14. PlaceInv'
  <2>1. Apart(Where)'
    BY <1>13 DEF Apart
  <2>2. \A d, e \in Callers : pc'[d] \in {"push", "publish"} /\ pc'[e] = pc'[d] /\ job'[d] = job'[e] => d = e
    BY <1>5, <1>6 DEF PlaceInv
  <2>3. \A u, v \in Workers : job'[u] = job'[v] /\ job'[u] # NoJob => u = v
    BY <1>5 DEF PlaceInv
  <2>4. Once(inbox)' /\ Once(batch)'
    BY <1>2 DEF PlaceInv, Once
  <2>5. /\ \A q \in Prios : OnceInLane(lanes'[q])
        /\ \A q, r \in Prios : q # r => InLane(lanes'[q]) \cap InLane(lanes'[r]) = {}
    BY <1>2 DEF PlaceInv
  <2> HIDE DEF Where
  <2> QED BY <1>13, <2>1, <2>2, <2>3, <2>4, <2>5 DEF PlaceInv, OnceInLane, InLane
<1>15. JobState[k] = "running" \/ (JobState[k] = "withdrawn" /\ status[t] = "cancelled")
  <2>1. CASE t \in Workers
    BY <1>13, <2>1 DEF StateAt
  <2>2. CASE t \in Callers
    BY <1>2, <1>6, <1>13, <2>2 DEF StateAt, HandOver, WithdrawnInv
  <2> QED BY <2>1, <2>2 DEF Threads
<1>16. Service!Complete(k, status[t])
  <2> HIDE DEF s
  <2> QED BY <1>2, <1>13, <1>15 DEF Service!Complete, StateAt, n
<1> QED BY <1>14, <1>16 DEF k
-----------------------------------------------------------------------------
(* The steps that leave every job as it is, or close the pool.             *)

LEMMA StateStays ==
  ASSUME TypeOK, TypeOK',
         \A j \in Jobs : StateOf(Where', next', ~shutdown', j) = StateOf(Where, next, ~shutdown, j)
  PROVE  JobState' = JobState
<1>1. (TypeOK => JobState = [j \in Jobs |-> StateOf(Where, next, ~shutdown, j)])'
  BY JobStateIs, PTL
<1>2. JobState' = [j \in Jobs |-> StateOf(Where', next', ~shutdown', j)]
  BY <1>1
<1>3. JobState = [j \in Jobs |-> StateOf(Where, next, ~shutdown, j)]
  BY JobStateIs
<1> HIDE DEF JobState, StateOf, Where
<1> QED BY <1>2, <1>3

LEMMA PlaceStays ==
  ASSUME PlaceInv, UNCHANGED <<lanes, next>>, Where' = Where, Once(inbox'), Once(batch'),
         \A w \in Workers : job'[w] = job[w],
         \A c \in Callers :
           pc'[c] \in {"push", "publish"} => pc'[c] = pc[c] /\ job'[c] = job[c]
  PROVE  PlaceInv'
<1>1. Apart(Where)' /\ Where' \in [Stages -> SUBSET (1..(next' - 1))]
  BY DEF PlaceInv, Apart
<1>2. \A d, e \in Callers : pc'[d] \in {"push", "publish"} /\ pc'[e] = pc'[d] /\ job'[d] = job'[e] => d = e
  BY DEF PlaceInv
<1>3. \A u, v \in Workers : job'[u] = job'[v] /\ job'[u] # NoJob => u = v
  BY DEF PlaceInv
<1>4. Once(inbox)' /\ Once(batch)'
  BY DEF Once
<1>5. /\ \A q \in Prios : OnceInLane(lanes'[q])
      /\ \A q, r \in Prios : q # r => InLane(lanes'[q]) \cap InLane(lanes'[r]) = {}
  BY DEF PlaceInv
<1> HIDE DEF Where
<1> QED BY <1>1, <1>2, <1>3, <1>4, <1>5 DEF PlaceInv, OnceInLane, InLane

(* Nothing the service sees changes hands.                                 *)
Calm ==
  /\ UNCHANGED <<lanes, batch, inbox, done, collected, next, shutdown>>
  /\ \A w \in Workers : job'[w] = job[w]
  /\ \A c \in Callers :
       pc[c] \in {"push", "publish"} \/ pc'[c] \in {"push", "publish"} =>
         pc'[c] = pc[c] /\ job'[c] = job[c]

LEMMA CalmMoves ==
  ASSUME TypeOK, PlaceInv, TypeOK', Calm
  PROVE  PlaceInv' /\ UNCHANGED <<JobState, done, collected, shutdown>>
<1>1. UNCHANGED <<lanes, batch, inbox, done, collected, next, shutdown>>
  BY DEF Calm
<1>2. AtCallers("push")' = AtCallers("push") /\ AtCallers("publish")' = AtCallers("publish")
  BY DEF Calm, AtCallers
<1>3. /\ Carried' = Carried /\ Laned' = Laned /\ Ended' = Ended
      /\ JobsIn(inbox)' = JobsIn(inbox) /\ JobsIn(batch)' = JobsIn(batch)
  BY <1>1 DEF Calm, Carried, Laned, Ended, JobsIn
<1>4. Where' = Where
  BY <1>2, <1>3 DEF Where, Stages, JobsIn
<1>5. JobState' = JobState
  BY <1>1, <1>4, StateStays
<1>6. PlaceInv'
  <2>1. Once(inbox') /\ Once(batch')
    BY <1>1 DEF PlaceInv, Once
  <2> HIDE DEF Where
  <2> QED BY <1>1, <1>4, <2>1, PlaceStays DEF Calm
<1> QED BY <1>1, <1>5, <1>6

LEMMA DetachMoves ==
  ASSUME TypeOK, PlaceInv, TypeOK', batch = <<>>, DetachInbox,
         UNCHANGED <<lanes, done, collected, next, shutdown>>,
         \A w \in Workers : job'[w] = job[w],
         \A c \in Callers :
           pc[c] \in {"push", "publish"} \/ pc'[c] \in {"push", "publish"} =>
             pc'[c] = pc[c] /\ job'[c] = job[c]
  PROVE  PlaceInv' /\ UNCHANGED <<JobState, done, collected, shutdown>>
<1>1. batch' = Reverse(inbox) /\ inbox' = <<>> /\ inbox \in Seq(Nodes) /\ Once(inbox)
  BY DEF DetachInbox, TypeOK, PlaceInv
<1>2. JobsIn(batch') = JobsIn(inbox) /\ Once(batch') /\ JobsIn(batch) = {} /\ JobsIn(inbox') = {} /\ Once(inbox')
  <2>1. JobsIn(Reverse(inbox)) = JobsIn(inbox) /\ Once(Reverse(inbox))
    BY <1>1, ReverseHolds, Zenon
  <2>2. JobsIn(<<>>) = {} /\ Once(<<>>)
    BY DEF JobsIn, Once
  <2> QED BY <1>1, <2>1, <2>2
<1>3. AtCallers("push")' = AtCallers("push") /\ AtCallers("publish")' = AtCallers("publish")
  BY DEF AtCallers
<1>4. Carried' = Carried /\ Laned' = Laned /\ Ended' = Ended
  BY DEF Carried, Laned, Ended
<1>5. Where' = [Where EXCEPT !["inbox"] = {}, !["batch"] = Where["inbox"]] /\ Where["batch"] = {}
  BY <1>2, <1>3, <1>4 DEF Where, Stages, JobsIn
<1>6. Where \in [Stages -> SUBSET (1..(next - 1))] /\ Apart(Where)
  BY DEF PlaceInv
<1>7. Where' \in [Stages -> SUBSET (1..(next' - 1))] /\ Apart(Where')
  <2> HIDE DEF Where
  <2>1. Where' \in [Stages -> SUBSET (1..(next' - 1))]
    BY <1>5, <1>6 DEF Stages
  <2>2. Apart(Where')
    BY <1>5, <1>6 DEF Apart, Stages
  <2> QED BY <2>1, <2>2
<1>8. JobState' = JobState
  <2>1. \A j : StateOf(Where', next', ~shutdown', j) = StateOf(Where, next, ~shutdown, j)
    <3> HIDE DEF Where
    <3> QED BY <1>5, <1>6 DEF StateOf, Stages
  <2> QED BY <2>1, StateStays
<1>9. PlaceInv'
  <2>1. Apart(Where)'
    BY <1>7 DEF Apart
  <2>2. \A d, e \in Callers : pc'[d] \in {"push", "publish"} /\ pc'[e] = pc'[d] /\ job'[d] = job'[e] => d = e
    BY DEF PlaceInv
  <2>3. \A u, v \in Workers : job'[u] = job'[v] /\ job'[u] # NoJob => u = v
    BY DEF PlaceInv
  <2>4. Once(inbox)' /\ Once(batch)'
    BY <1>2 DEF Once
  <2>5. /\ \A q \in Prios : OnceInLane(lanes'[q])
        /\ \A q, r \in Prios : q # r => InLane(lanes'[q]) \cap InLane(lanes'[r]) = {}
    BY DEF PlaceInv
  <2> HIDE DEF Where
  <2> QED BY <1>7, <2>1, <2>2, <2>3, <2>4, <2>5 DEF PlaceInv, OnceInLane, InLane
<1> QED BY <1>8, <1>9

LEMMA DropMoves ==
  ASSUME IInv, HandOver, PlaceInv, TypeOK', NEW c \in Callers, DropQueued(c)
  PROVE  PlaceInv' /\ UNCHANGED <<JobState, done, collected, shutdown>>
<1>1. TypeOK /\ c \in Threads /\ c \notin Workers
  BY PcType DEF IInv
<1>2. /\ pc[c] = "closing" /\ pc' = [pc EXCEPT ![c] = "notifyAll"]
      /\ inbox' = <<>> /\ lanes' = [p \in Prios |-> <<>>]
      /\ UNCHANGED <<batch, job, done, collected, next, shutdown>>
  BY DEF DropQueued, Step, Goto, lockedVars, wakeVars, threadVars, loopVars
<1>3. shutdown
  BY <1>2 DEF HandOver, ClosingInv
<1>4. \A d \in Callers : pc[d] \in {"push", "publish"} \/ pc'[d] \in {"push", "publish"} => pc'[d] = pc[d]
  BY <1>1, <1>2 DEF TypeOK, Threads
<1>5. AtCallers("push")' = AtCallers("push") /\ AtCallers("publish")' = AtCallers("publish")
  BY <1>2, <1>4 DEF AtCallers
<1>6. InLane(<<>>) = {} /\ OnceInLane(<<>>) /\ JobsIn(<<>>) = {} /\ Once(<<>>)
  BY DEF InLane, OnceInLane, JobsIn, Once
<1>7. Carried' = Carried /\ Ended' = Ended /\ JobsIn(batch)' = JobsIn(batch)
  BY <1>2 DEF Carried, Ended, JobsIn
<1>8. Laned' = {} /\ JobsIn(inbox') = {}
  BY <1>2, <1>6 DEF Laned
<1>9. Where' = [Where EXCEPT !["inbox"] = {}, !["lane"] = {}]
  BY <1>5, <1>7, <1>8 DEF Where, Stages, JobsIn
<1>10. Where \in [Stages -> SUBSET (1..(next - 1))] /\ Apart(Where)
  BY DEF PlaceInv
<1>11. Where' \in [Stages -> SUBSET (1..(next' - 1))] /\ Apart(Where')
  <2> HIDE DEF Where
  <2>1. Where' \in [Stages -> SUBSET (1..(next' - 1))]
    BY <1>2, <1>9, <1>10 DEF Stages
  <2>2. Apart(Where')
    BY <1>9, <1>10 DEF Apart, Stages
  <2> QED BY <2>1, <2>2
<1>12. JobState' = JobState
  <2>1. \A j : StateOf(Where', next', ~shutdown', j) = StateOf(Where, next, ~shutdown, j)
    <3> HIDE DEF Where
    <3> QED BY <1>2, <1>3, <1>9, <1>10 DEF StateOf, Stages
  <2> QED BY <1>1, <2>1, StateStays
<1>13. PlaceInv'
  <2>1. Apart(Where)'
    BY <1>11 DEF Apart
  <2>2. \A d, e \in Callers : pc'[d] \in {"push", "publish"} /\ pc'[e] = pc'[d] /\ job'[d] = job'[e] => d = e
    BY <1>2, <1>4 DEF PlaceInv
  <2>3. \A u, v \in Workers : job'[u] = job'[v] /\ job'[u] # NoJob => u = v
    BY <1>2 DEF PlaceInv
  <2>4. Once(inbox)' /\ Once(batch)'
    BY <1>2, <1>6 DEF PlaceInv, Once
  <2>5. /\ \A q \in Prios : OnceInLane(lanes'[q])
        /\ \A q, r \in Prios : q # r => InLane(lanes'[q]) \cap InLane(lanes'[r]) = {}
    BY <1>2, <1>6
  <2> HIDE DEF Where
  <2> QED BY <1>11, <2>1, <2>2, <2>3, <2>4, <2>5 DEF PlaceInv, OnceInLane, InLane
<1> QED BY <1>2, <1>12, <1>13

LEMMA BeginSubmitMoves ==
  ASSUME IInv, PlaceInv, TypeOK', NEW c \in Callers, BeginSubmit(c)
  PROVE  PlaceInv' /\ UNCHANGED <<JobState, done, collected, shutdown>>
<1>1. TypeOK /\ c \in Threads /\ c \notin Workers
  BY PcType DEF IInv
<1>2. /\ pc[c] = "idle" /\ pc' = [pc EXCEPT ![c] = "push"] /\ job' = [job EXCEPT ![c] = next]
      /\ next \in Jobs /\ next' = next + 1
      /\ UNCHANGED <<lanes, inbox, batch, done, collected, shutdown>>
  BY DEF BeginSubmit, Step, Goto, queueVars, lockedVars, wakeVars, loopVars
<1>3. /\ pc'[c] = "push" /\ job'[c] = next
      /\ \A u \in Workers \cup Callers : u # c => pc'[u] = pc[u] /\ job'[u] = job[u]
  BY <1>1, <1>2 DEF TypeOK, Threads
<1>4. AtCallers("push")' = AtCallers("push") \cup {next} /\ AtCallers("publish")' = AtCallers("publish")
  BY <1>2, <1>3 DEF AtCallers
<1>5. /\ Carried' = Carried /\ Laned' = Laned /\ Ended' = Ended
      /\ JobsIn(inbox)' = JobsIn(inbox) /\ JobsIn(batch)' = JobsIn(batch)
  BY <1>1, <1>2, <1>3 DEF Carried, Laned, Ended, JobsIn
<1>6. Where' = [Where EXCEPT !["push"] = @ \cup {next}]
  BY <1>4, <1>5 DEF Where, Stages, JobsIn
<1>7. Where \in [Stages -> SUBSET (1..(next - 1))] /\ Apart(Where)
  BY DEF PlaceInv
<1>8. next \in Nat /\ next # 0 /\ next \notin 1..(next - 1) /\ 1..(next - 1) \subseteq 1..(next' - 1) /\ next \in 1..(next' - 1)
  BY <1>1, <1>2, PoolAssumption DEF TypeOK
<1>9. \A r \in Stages : next \notin Where[r]
  BY <1>7, <1>8
<1>10. Where' \in [Stages -> SUBSET (1..(next' - 1))] /\ Apart(Where')
  <2> HIDE DEF Where
  <2>1. \A r \in Stages : Where'[r] = IF r = "push" THEN Where[r] \cup {next} ELSE Where[r]
    BY <1>6, <1>7
  <2>2. Where' \in [Stages -> SUBSET (1..(next' - 1))]
    BY <1>6, <1>7, <1>8 DEF Stages
  <2>3. Apart(Where')
    BY <1>7, <1>9, <2>1 DEF Apart
  <2> QED BY <2>2, <2>3
<1>11. JobState' = JobState
  <2>1. \A j \in Jobs : StateOf(Where', next', ~shutdown', j) = StateOf(Where, next, ~shutdown, j)
    <3> SUFFICES ASSUME NEW j \in Jobs
                 PROVE  StateOf(Where', next', ~shutdown', j) = StateOf(Where, next, ~shutdown, j)
      OBVIOUS
    <3>1. \A r \in Stages : j \in Where'[r] <=> (j \in Where[r] \/ (r = "push" /\ j = next))
      <4> HIDE DEF Where
      <4> QED BY <1>6, <1>7
    <3>2. j \in Nat /\ next' = next + 1 /\ next \in Nat
      BY <1>2, <1>8 DEF Jobs
    <3>3. CASE j = next
      <4>1. \A r \in Stages : j \notin Where[r]
        BY <1>9, <3>3
      <4>2. j \in Where'["push"] /\ \A r \in Stages : r # "push" => j \notin Where'[r]
        BY <3>1, <3>3, <4>1 DEF Stages
      <4>3. StateOf(Where, next, ~shutdown, j) = "new"
        <5> HIDE DEF Where
        <5> QED BY <3>2, <3>3, <4>1 DEF StateOf, Stages
      <4>4. StateOf(Where', next', ~shutdown', j) = "new"
        <5> DEFINE V == Where'
        <5>1. j \in V["push"] /\ \A r \in Stages : r # "push" => j \notin V[r]
          BY <4>2
        <5> HIDE DEF V
        <5>2. StateOf(V, next', ~shutdown', j) = "new"
          BY <5>1 DEF StateOf, Stages
        <5> QED BY <5>2 DEF V
      <4> QED BY <4>3, <4>4
    <3>4. CASE j # next
      <4>1. j >= next' <=> j >= next
        BY <3>2, <3>4
      <4> DEFINE V == Where'
                 W == Where
      <4>2. \A r \in Stages : j \in V[r] <=> j \in W[r]
        BY <3>1, <3>4
      <4> HIDE DEF V, W
      <4>3. StateOf(V, next', ~shutdown', j) = StateOf(W, next, ~shutdown, j)
        BY <1>2, <4>1, <4>2 DEF StateOf, Stages
      <4> QED BY <4>3 DEF V, W
    <3> QED BY <3>3, <3>4
  <2> QED BY <1>1, <2>1, StateStays
<1>12. PlaceInv'
  <2>1. Apart(Where)'
    BY <1>10 DEF Apart
  <2>2. \A d, e \in Callers : pc'[d] \in {"push", "publish"} /\ pc'[e] = pc'[d] /\ job'[d] = job'[e] => d = e
    <3>1. \A d \in Callers : d # c /\ pc[d] = "push" => job[d] # next
      BY <1>9, WhereIs DEF AtCallers, Stages
    <3> QED BY <1>3, <3>1 DEF PlaceInv
  <2>3. \A u, v \in Workers : job'[u] = job'[v] /\ job'[u] # NoJob => u = v
    BY <1>1, <1>3 DEF PlaceInv
  <2>4. Once(inbox)' /\ Once(batch)'
    BY <1>2 DEF PlaceInv, Once
  <2>5. /\ \A q \in Prios : OnceInLane(lanes'[q])
        /\ \A q, r \in Prios : q # r => InLane(lanes'[q]) \cap InLane(lanes'[r]) = {}
    BY <1>2 DEF PlaceInv
  <2> HIDE DEF Where
  <2> QED BY <1>10, <2>1, <2>2, <2>3, <2>4, <2>5 DEF PlaceInv, OnceInLane, InLane
<1> QED BY <1>2, <1>11, <1>12

LEMMA BeginCloseMoves ==
  ASSUME IInv, PlaceInv, TypeOK', NEW c \in Callers, BeginClose(c)
  PROVE  /\ PlaceInv' /\ UNCHANGED <<done, collected>>
         /\ Service!Close \/ UNCHANGED <<JobState, shutdown>>
<1>1. TypeOK /\ c \in Threads
  BY DEF IInv, Threads
<1>2. /\ pc[c] = "idle" /\ pc' = [pc EXCEPT ![c] = "closing"] /\ shutdown' = TRUE
      /\ UNCHANGED <<lanes, inbox, batch, done, collected, next, job>>
  BY DEF BeginClose, Step, Goto, queueVars, wakeVars, threadVars, loopVars
<1>3. \A d \in Callers : pc[d] \in {"push", "publish"} \/ pc'[d] \in {"push", "publish"} => pc'[d] = pc[d]
  BY <1>1, <1>2 DEF TypeOK, Threads
<1>4. AtCallers("push")' = AtCallers("push") /\ AtCallers("publish")' = AtCallers("publish")
  BY <1>2, <1>3 DEF AtCallers
<1>5. /\ Carried' = Carried /\ Laned' = Laned /\ Ended' = Ended
      /\ JobsIn(inbox)' = JobsIn(inbox) /\ JobsIn(batch)' = JobsIn(batch)
  BY <1>2 DEF Carried, Laned, Ended, JobsIn
<1>6. Where' = Where
  BY <1>4, <1>5 DEF Where, Stages, JobsIn
<1>7. PlaceInv'
  <2>1. Once(inbox') /\ Once(batch')
    BY <1>2 DEF PlaceInv, Once
  <2> HIDE DEF Where
  <2> QED BY <1>2, <1>3, <1>6, <2>1, PlaceStays
<1>8. CASE shutdown
  <2>1. JobState' = JobState
    BY <1>1, <1>2, <1>6, <1>8, StateStays
  <2> QED BY <1>2, <1>7, <1>8, <2>1
<1>9. CASE ~shutdown
  <2>1. (TypeOK => JobState = [j \in Jobs |-> StateOf(Where, next, ~shutdown, j)])'
    BY JobStateIs, PTL
  <2>2. JobState' = [j \in Jobs |-> StateOf(Where, next, FALSE, j)]
    BY <1>2, <1>6, <2>1
  <2>3. JobState = [j \in Jobs |-> StateOf(Where, next, TRUE, j)]
    BY <1>1, <1>9, JobStateIs
  <2>4. \A j \in Jobs :
          StateOf(Where, next, FALSE, j)
            = IF StateOf(Where, next, TRUE, j) = "queued" THEN "dropped" ELSE StateOf(Where, next, TRUE, j)
    <3> SUFFICES ASSUME NEW j \in Jobs
                 PROVE  StateOf(Where, next, FALSE, j)
                          = IF StateOf(Where, next, TRUE, j) = "queued" THEN "dropped"
                            ELSE StateOf(Where, next, TRUE, j)
      OBVIOUS
    <3>1. Where \in [Stages -> SUBSET (1..(next - 1))] /\ Apart(Where)
      BY DEF PlaceInv
    <3>2. ASSUME NEW r \in Stages, j \in Where[r] PROVE ~(j >= next)
      <4>1. j \in 1..(next - 1) /\ next \in Nat
        BY <1>1, <3>1, <3>2, PoolAssumption DEF TypeOK
      <4> QED BY <4>1
    <3> HIDE DEF Where
    <3>3. \A r \in {"inbox", "batch", "lane"} : j \in Where[r] => ~(j >= next) /\ j \notin Where["push"]
      BY <3>1, <3>2 DEF Apart, Stages
    <3> QED BY <3>3 DEF StateOf
  <2> HIDE DEF Where, StateOf, JobState
  <2>5. JobState' = [j \in Jobs |-> IF JobState[j] = "queued" THEN "dropped" ELSE JobState[j]]
    BY <2>2, <2>3, <2>4
  <2>6. Service!Close
    BY <1>2, <1>9, <2>5 DEF Service!Close
  <2> QED BY <1>2, <1>7, <2>6
<1> QED BY <1>1, <1>8, <1>9

LEMMA DrainMoves ==
  ASSUME TypeOK, PlaceInv, TypeOK', Drain
  PROVE  PlaceInv' /\ UNCHANGED shutdown /\ (Service!Poll \/ UNCHANGED <<JobState, done, collected>>)
<1> DEFINE n == IF Len(done) < Batch THEN Len(done) ELSE Batch
           a == SubSeq(done, 1, n)
           b == SubSeq(done, n + 1, Len(done))
<1>1. /\ collected' = collected \o a /\ done' = b
      /\ UNCHANGED <<lanes, batch, inbox, job, next, shutdown>>
      /\ \A c \in Callers : pc[c] \in {"push", "publish"} \/ pc'[c] \in {"push", "publish"} => pc'[c] = pc[c]
  BY PoolAssumption DEF Drain, Goto, queueVars, lockedVars, atomicVars, threadVars, TypeOK, Threads
<1>2. collected \in Seq(Completions) /\ done \in Seq(Completions) /\ Len(done) \in Nat /\ Batch \in Nat /\ Batch # 0
  BY PoolAssumption, LenProperties DEF TypeOK
<1>3. n \in 0..Len(done) /\ n + 1 \in 1..(Len(done) + 1)
  BY <1>2
<1> HIDE DEF n
<1>4. a \in Seq(Completions) /\ b \in Seq(Completions)
  <2>1. \A i \in 1..Len(done) : done[i] \in Completions
    BY <1>2, ElementOfSeq
  <2>2. (\A i \in 1..n : done[i] \in Completions) /\ (\A i \in (n + 1)..Len(done) : done[i] \in Completions)
    BY <1>2, <1>3, <2>1
  <2> QED BY <1>2, <1>3, <2>2, SubSeqProperties
<1>5. a \o b = done
  <2>1. a \o b = SubSeq(done, 1, Len(done))
    <3>1. 1 \in 1..(Len(done) + 1) /\ n \in (1 - 1)..Len(done) /\ Len(done) \in n..Len(done)
      BY <1>2, <1>3
    <3> QED BY <1>2, <3>1, ConcatAdjacentSubSeq
  <2> QED BY <1>2, <2>1, SubSeqFull
<1> HIDE DEF a, b
<1>6. Ended' = Ended
  <2>1. (TypeOK => Ended = JobsIn(collected) \cup JobsIn(done))'
    BY EndedIs, PTL
  <2>2. Ended' = JobsIn(collected') \cup JobsIn(done')
    BY <2>1 DEF JobsIn
  <2>3. Ended = JobsIn(collected) \cup JobsIn(done)
    BY EndedIs
  <2>4. JobsIn(collected \o a) = JobsIn(collected) \cup JobsIn(a)
    BY <1>2, <1>4, JobsInBoth, Zenon
  <2>5. JobsIn(a \o b) = JobsIn(a) \cup JobsIn(b)
    BY <1>4, JobsInBoth, Zenon
  <2> QED BY <1>1, <1>5, <2>2, <2>3, <2>4, <2>5
<1>7. AtCallers("push")' = AtCallers("push") /\ AtCallers("publish")' = AtCallers("publish")
  BY <1>1 DEF AtCallers
<1>8. /\ Carried' = Carried /\ Laned' = Laned
      /\ JobsIn(inbox)' = JobsIn(inbox) /\ JobsIn(batch)' = JobsIn(batch)
  BY <1>1 DEF Carried, Laned, JobsIn
<1>9. Where' = Where
  BY <1>6, <1>7, <1>8 DEF Where, Stages, JobsIn
<1>10. JobState' = JobState
  BY <1>1, <1>9, StateStays
<1>11. PlaceInv'
  <2>1. Once(inbox') /\ Once(batch')
    BY <1>1 DEF PlaceInv, Once
  <2> HIDE DEF Where
  <2> QED BY <1>1, <1>9, <2>1, PlaceStays
<1>12. CASE done # <<>>
  <2>1. Service!Poll
    <3> HIDE DEF JobState
    <3> QED BY <1>1, <1>10, <1>12 DEF Service!Poll, n, a, b
  <2> QED BY <1>1, <1>11, <2>1
<1>13. CASE done = <<>>
  <2>1. n = 0 /\ Len(done) = 0
    BY <1>2, <1>13 DEF n
  <2>2. a = <<>> /\ b = <<>>
    BY <2>1, SubSeqEmpty DEF a, b
  <2>3. collected' = collected /\ done' = done
    BY <1>1, <1>2, <1>13, <2>2, ConcatEmptySeq
  <2> QED BY <1>1, <1>10, <1>11, <2>3
<1> QED BY <1>12, <1>13

LEMMA WorkerCalm ==
  ASSUME TypeOK, NEW w \in Workers,
         \/ Exit(w) \/ Raise(w) \/ LookAgain(w) \/ Wait(w) \/ SpuriousWakeup(w) \/ Unwait(w)
         \/ TakeUpWake(w) \/ Notify(w) \/ Run(w) \/ Unregister(w) \/ Signal(w) \/ Write(w)
  PROVE  Calm
<1>1. UNCHANGED <<lanes, batch, inbox, done, collected, next, shutdown, job>>
  BY DEF Exit, Raise, LookAgain, Wait, SpuriousWakeup, Unwait, TakeUpWake, Notify, Run,
         Unregister, Signal, Write, queueVars, lockedVars, atomicVars, wakeVars, threadVars, loopVars
<1>2. \A c \in Callers : pc'[c] = pc[c]
  BY PcType DEF Exit, Raise, LookAgain, Wait, SpuriousWakeup, Unwait, TakeUpWake, Notify,
       NotifyOneThen, Waiting, Run, Unregister, Signal, Write, Step, Goto, TypeOK, Threads
<1> QED BY <1>1, <1>2 DEF Calm

LEMMA CallerCalm ==
  ASSUME TypeOK, NEW c \in Callers,
         \/ ReadParked(c) \/ ReadWaking(c) \/ ClaimWake(c) \/ Notify(c) \/ CancelOther(c)
         \/ Signal(c) \/ Write(c) \/ NotifyAll(c) \/ CloseWake(c)
  PROVE  Calm
<1> c \in Threads /\ c \notin Workers
  BY PcType DEF Threads
<1>1. UNCHANGED <<lanes, batch, inbox, done, collected, next, shutdown>>
  BY DEF ReadParked, ReadWaking, ClaimWake, Notify, CancelOther, Signal, Write, NotifyAll,
         CloseWake, queueVars, lockedVars, atomicVars, wakeVars, threadVars, loopVars
<1>2. \A t \in Threads : t # c => job'[t] = job[t]
  BY DEF ReadParked, ReadWaking, ClaimWake, Notify, CancelOther, Signal, Write, NotifyAll,
         CloseWake, threadVars, TypeOK
<1>3. pc[c] \notin {"push", "publish"}
  BY DEF ReadParked, ReadWaking, ClaimWake, Notify, CancelOther, Signal, Write, NotifyAll,
         CloseWake, Step
<1>4. pc'[c] \notin {"push", "publish"}
  <2>1. CASE Notify(c)
    BY <2>1, PcType DEF Notify, NotifyOneThen, Waiting, Goto, TypeOK, Threads
  <2>2. CASE NotifyAll(c)
    BY <2>2 DEF NotifyAll
  <2>3. CASE \/ ReadParked(c) \/ ReadWaking(c) \/ ClaimWake(c) \/ CancelOther(c)
             \/ Signal(c) \/ Write(c) \/ CloseWake(c)
    BY <2>3 DEF ReadParked, ReadWaking, ClaimWake, CancelOther, Signal, Write, CloseWake,
                Step, Goto, Home, TypeOK
  <2> QED BY <2>1, <2>2, <2>3
<1>5. \A d \in Callers : d # c => pc'[d] = pc[d]
  <2>1. CASE Notify(c)
    BY <2>1, PcType DEF Notify, NotifyOneThen, Waiting, Goto, TypeOK, Threads
  <2>2. CASE NotifyAll(c)
    BY <2>2 DEF NotifyAll, TypeOK, Threads, CallerPCs
  <2>3. CASE \/ ReadParked(c) \/ ReadWaking(c) \/ ClaimWake(c) \/ CancelOther(c)
             \/ Signal(c) \/ Write(c) \/ CloseWake(c)
    BY <2>3 DEF ReadParked, ReadWaking, ClaimWake, CancelOther, Signal, Write, CloseWake,
                Step, Goto, Home, TypeOK, Threads
  <2> QED BY <2>1, <2>2, <2>3
<1> QED BY <1>1, <1>2, <1>3, <1>4, <1>5 DEF Calm, Threads

LEMMA PumpCalm ==
  ASSUME TypeOK, ReadWake \/ StartPump \/ Reset
  PROVE  Calm
<1>1. UNCHANGED <<lanes, batch, inbox, done, collected, next, shutdown, job>>
  BY DEF ReadWake, StartPump, Reset, queueVars, lockedVars, atomicVars, wakeVars, threadVars, loopVars
<1>2. \A c \in Callers :
        pc[c] \in {"push", "publish"} \/ pc'[c] \in {"push", "publish"} => pc'[c] = pc[c]
  BY PoolAssumption DEF ReadWake, StartPump, Reset, Step, Goto, TypeOK, Threads
<1> QED BY <1>1, <1>2 DEF Calm
-----------------------------------------------------------------------------
(* Every step of the pool is a step of the service, or none.               *)

LEMMA ServiceStep ==
  ASSUME IInv, HandOver, PlaceInv, TypeOK', Next
  PROVE  PlaceInv' /\ [Service!Next]_(Service!vars)
<1> DEFINE Goal == PlaceInv' /\ [Service!Next]_(Service!vars)
           Stay == PlaceInv' /\ UNCHANGED <<JobState, done, collected, shutdown>>
<1>1. TypeOK /\ LockInv /\ HandInv /\ MovingInv
  BY DEF IInv
<1>2. Stay => Goal
  BY DEF Service!vars
<1>3. Calm => Goal
  <2>1. Calm => Stay
    BY <1>1, CalmMoves
  <2> HIDE DEF Stay, Goal
  <2> QED BY <1>2, <2>1
<1>4. ASSUME NEW w \in Workers, TakeInbox(w) PROVE Goal
  <2>1. Stay
    <3>1. /\ DetachInbox /\ UNCHANGED <<lanes, done, collected, next, shutdown, job>>
          /\ pc[w] \in {"lock", "loop"} /\ w \in Threads /\ (pc[w] = "lock" => owner = NoThread)
          /\ (pc[w] = "loop" => owner = w)
      BY <1>4 DEF TakeInbox, Acquire, Within, lockedVars, atomicVars, wakeVars, threadVars, loopVars,
         Threads
    <3>2. batch = <<>>
      BY <1>1, <3>1, PoolAssumption DEF LockInv, MovingInv, HoldingPCs, Threads
    <3>3. \A c \in Callers : pc'[c] = pc[c]
      BY <1>1, <1>4, PcType DEF TakeInbox, Goto, TypeOK, Threads
    <3> QED BY <1>1, <3>1, <3>2, <3>3, DetachMoves
  <2> HIDE DEF Stay, Goal
  <2> QED BY <1>2, <2>1
<1>5. ASSUME NEW c \in Callers, NEW j \in 1..(next - 1), BeginCancel(c, j) PROVE Goal
  <2>1. Stay
    <3>1. /\ DetachInbox /\ UNCHANGED <<lanes, done, collected, next, shutdown>>
          /\ pc[c] = "idle" /\ owner = NoThread
          /\ pc' = [pc EXCEPT ![c] = "cancelMoving"] /\ job' = [job EXCEPT ![c] = j]
      BY <1>5 DEF BeginCancel, Step, Goto, Acquire, lockedVars, atomicVars, wakeVars, loopVars
    <3>5. c \in Threads /\ c \notin Workers
      BY <1>1, PcType DEF Threads
    <3>2. batch = <<>>
      BY <1>1, <3>1, PoolAssumption DEF LockInv, MovingInv, HoldingPCs, Threads
    <3>3. \A d \in Callers : pc[d] \in {"push", "publish"} \/ pc'[d] \in {"push", "publish"}
                            => pc'[d] = pc[d] /\ job'[d] = job[d]
      BY <1>1, <3>1, <3>5 DEF TypeOK, Threads
    <3>4. \A w \in Workers : job'[w] = job[w]
      BY <1>1, <3>1, <3>5 DEF TypeOK, Threads
    <3> QED BY <1>1, <3>1, <3>2, <3>3, <3>4, DetachMoves
  <2> HIDE DEF Stay, Goal
  <2> QED BY <1>2, <2>1
<1>6. ASSUME NEW t \in Threads, Move(t) PROVE Goal
  <2>1. Stay
    BY <1>6, MoveMoves
  <2> HIDE DEF Stay, Goal
  <2> QED BY <1>2, <2>1
<1>7. ASSUME NEW w \in Workers, Pop(w) PROVE Goal
  <2>1. PlaceInv' /\ job'[w] \in Jobs /\ Service!Start(job'[w])
    BY <1>7, PopMoves
  <2> QED BY <2>1 DEF Service!Next
<1>8. ASSUME NEW t \in Threads, Publish(t) PROVE Goal
  <2>1. PlaceInv' /\ Service!Complete(job[t], status[t])
    BY <1>8, PublishMoves
  <2>2. job[t] \in Jobs /\ status[t] \in Service!Outcomes
    BY <1>1, <1>8 DEF Publish, Step, HandInv, HandPCs, TypeOK, Statuses, Service!Outcomes
  <2> QED BY <2>1, <2>2 DEF Service!Next
<1>9. ASSUME NEW c \in Callers, BeginSubmit(c) PROVE Goal
  <2>1. Stay
    BY <1>9, BeginSubmitMoves
  <2> HIDE DEF Stay, Goal
  <2> QED BY <1>2, <2>1
<1>10. ASSUME NEW c \in Callers, BeginClose(c) PROVE Goal
  <2>1. PlaceInv' /\ (Service!Close \/ UNCHANGED <<JobState, done, collected, shutdown>>)
    BY <1>10, BeginCloseMoves
  <2> QED BY <2>1 DEF Service!Next, Service!vars
<1>11. ASSUME NEW c \in Callers, Push(c) PROVE Goal
  <2>1. PlaceInv' /\ Service!Submit(job[c])
    BY <1>11, PushMoves
  <2>2. job[c] \in Jobs
    BY <1>1, <1>11 DEF Push, Step, HandInv, HandPCs, Threads
  <2> QED BY <2>1, <2>2 DEF Service!Next
<1>12. ASSUME NEW c \in Callers, CancelQueued(c) PROVE Goal
  <2>1. PlaceInv' /\ Service!Withdraw(job[c])
    BY <1>12, CancelQueuedMoves
  <2>2. job[c] \in Jobs
    BY <1>1, <1>12 DEF CancelQueued, Step, HandInv, HandPCs, Threads
  <2> QED BY <2>1, <2>2 DEF Service!Next
<1>13. ASSUME NEW c \in Callers, DropQueued(c) PROVE Goal
  <2>1. Stay
    BY <1>13, DropMoves
  <2> HIDE DEF Stay, Goal
  <2> QED BY <1>2, <2>1
<1>14. ASSUME Drain PROVE Goal
  <2>1. PlaceInv' /\ UNCHANGED shutdown /\ (Service!Poll \/ UNCHANGED <<JobState, done, collected>>)
    BY <1>1, <1>14, DrainMoves
  <2> QED BY <2>1 DEF Service!Next, Service!vars
<1>15. ASSUME NEW w \in Workers, WorkerStep(w) \/ SpuriousWakeup(w) PROVE Goal
  <2>1. w \in Threads
    BY DEF Threads
  <2>2. CASE TakeInbox(w) \/ Move(w) \/ Pop(w) \/ Publish(w)
    <3> HIDE DEF Goal
    <3> QED BY <1>4, <1>6, <1>7, <1>8, <2>1, <2>2
  <2>3. CASE \/ Exit(w) \/ Raise(w) \/ LookAgain(w) \/ Wait(w) \/ SpuriousWakeup(w) \/ Unwait(w)
             \/ TakeUpWake(w) \/ Notify(w) \/ Run(w) \/ Unregister(w) \/ Signal(w) \/ Write(w)
    <3>1. Calm
      BY <1>1, <2>3, WorkerCalm
    <3> HIDE DEF Goal
    <3> QED BY <1>3, <3>1
  <2> HIDE DEF Goal
  <2> QED BY <1>15, <2>2, <2>3 DEF WorkerStep
<1>16. ASSUME NEW c \in Callers, CallerBegins(c) \/ CallerStep(c) PROVE Goal
  <2>1. c \in Threads
    BY DEF Threads
  <2>2. CASE \/ CallerBegins(c) \/ Push(c) \/ Move(c) \/ CancelQueued(c) \/ Publish(c) \/ DropQueued(c)
    <3> HIDE DEF Goal
    <3> QED BY <1>5, <1>6, <1>8, <1>9, <1>10, <1>11, <1>12, <1>13, <2>1, <2>2 DEF CallerBegins
  <2>3. CASE \/ ReadParked(c) \/ ReadWaking(c) \/ ClaimWake(c) \/ Notify(c) \/ CancelOther(c)
             \/ Signal(c) \/ Write(c) \/ NotifyAll(c) \/ CloseWake(c)
    <3>1. Calm
      BY <1>1, <2>3, CallerCalm
    <3> HIDE DEF Goal
    <3> QED BY <1>3, <3>1
  <2> HIDE DEF Goal
  <2> QED BY <1>16, <2>2, <2>3 DEF CallerStep
<1>17. ASSUME PumpStep PROVE Goal
  <2>1. CASE ReadWake \/ StartPump \/ Reset
    <3>1. Calm
      BY <1>1, <2>1, PumpCalm
    <3> HIDE DEF Goal
    <3> QED BY <1>3, <3>1
  <2> HIDE DEF Goal
  <2> QED BY <1>14, <1>17, <2>1 DEF PumpStep
<1> HIDE DEF Goal
<1>18. Goal
  BY <1>15, <1>16, <1>17 DEF Next
<1> QED BY <1>18 DEF Goal

LEMMA HandOverStutter ==
  ASSUME IInv, HandOver, PlaceInv, IInv', UNCHANGED vars
  PROVE  HandOver' /\ PlaceInv' /\ UNCHANGED Service!vars
<1> USE DEF vars, queueVars, lockedVars, atomicVars, wakeVars, threadVars, loopVars
<1>1. HandOver'
  BY DEF HandOver, CarriesInv, WithdrawnInv, ClosingInv, CloseTellsRunning
<1>2. Calm
  BY DEF Calm
<1>3. PlaceInv' /\ UNCHANGED <<JobState, done, collected, shutdown>>
  BY <1>2, CalmMoves DEF IInv
<1> QED BY <1>1, <1>3 DEF Service!vars

LEMMA ServiceInitially ==
  ASSUME Init, TypeOK
  PROVE  HandOver /\ PlaceInv /\ Service!Init
<1>1. /\ lanes = [p \in Prios |-> <<>>] /\ batch = <<>> /\ inbox = <<>>
      /\ done = <<>> /\ collected = <<>> /\ shutdown = FALSE /\ next = 1 /\ running = {}
      /\ pc = [t \in Threads |-> IF t \in Workers THEN "lock" ELSE "idle"]
      /\ job = [t \in Threads |-> NoJob]
  BY DEF Init
<1>2. /\ \A w \in Workers : pc[w] = "lock" /\ job[w] = NoJob
      /\ \A c \in Callers : pc[c] = "idle"
  BY <1>1, PcType DEF Threads
<1>3. HandOver
  BY <1>1, <1>2 DEF HandOver, CarriesInv, WithdrawnInv, ClosingInv, CloseTellsRunning
<1>4. InLane(<<>>) = {} /\ OnceInLane(<<>>) /\ JobsIn(<<>>) = {} /\ Once(<<>>)
  BY DEF InLane, OnceInLane, JobsIn, Once
<1>5. NoJob \notin Jobs
  BY PoolAssumption DEF NoJob, Jobs
<1>6. AtCallers("push") = {} /\ AtCallers("publish") = {} /\ Carried = {} /\ Laned = {} /\ Ended = {}
  <2>1. Ended = {}
    BY <1>1, <1>4, EndedIs
  <2>2. Laned = {}
    BY <1>1, <1>4 DEF Laned
  <2>3. Carried = {}
    BY <1>2, <1>5 DEF Carried
  <2> QED BY <1>2, <2>1, <2>2, <2>3 DEF AtCallers
<1>7. \A r \in Stages : Where[r] = {}
  BY <1>1, <1>4, <1>6 DEF Where, Stages
<1>8. Where \in [Stages -> SUBSET (1..(next - 1))]
  BY <1>7 DEF Where
<1>9. PlaceInv
  <2>1. Apart(Where)
    <3> HIDE DEF Where
    <3> QED BY <1>7 DEF Apart
  <2> HIDE DEF Where
  <2> QED BY <1>1, <1>2, <1>4, <1>8, <2>1 DEF PlaceInv
<1>10. JobState = [j \in Jobs |-> "new"]
  <2>1. \A j \in Jobs : StateOf(Where, next, ~shutdown, j) = "new"
    <3>1. \A j \in Jobs : j >= next
      BY <1>1, PoolAssumption DEF Jobs
    <3> HIDE DEF Where
    <3> QED BY <1>7, <3>1 DEF StateOf, Stages
  <2>2. JobState = [j \in Jobs |-> StateOf(Where, next, ~shutdown, j)]
    BY JobStateIs
  <2> HIDE DEF Where, StateOf, JobState
  <2> QED BY <2>1, <2>2
<1> QED BY <1>1, <1>3, <1>9, <1>10 DEF Service!Init
-----------------------------------------------------------------------------
PoolIInv == IInv /\ PendingIsTrue /\ CompletionAnnounced /\ HandOver /\ PlaceInv

(* Every job is in one place at most, and what the threads have in hand is *)
(* what their steps say, whatever the number of threads, jobs and lanes.   *)
THEOREM PlacesInvariant == Spec => []PoolIInv
<1>1. Init => PoolIInv
  BY Initially, ServiceInitially DEF PoolIInv, IInv
<1>2. PoolIInv /\ [Next]_vars => PoolIInv'
  <2> SUFFICES ASSUME PoolIInv, [Next]_vars PROVE PoolIInv'
    OBVIOUS
  <2>1. CASE Next
    <3>1. IInv' /\ PendingIsTrue' /\ CompletionAnnounced'
      BY <2>1, Preserved DEF PoolIInv
    <3>2. HandOver'
      BY <2>1, HandOverStep DEF PoolIInv
    <3>3. PlaceInv'
      BY <2>1, <3>1, ServiceStep DEF PoolIInv, IInv
    <3> QED BY <3>1, <3>2, <3>3 DEF PoolIInv
  <2>2. CASE UNCHANGED vars
    BY <2>2, Stutter, HandOverStutter DEF PoolIInv
  <2> QED BY <2>1, <2>2
<1> QED BY <1>1, <1>2, PTL DEF Spec

(* After close every job still running has been told to stop, whichever    *)
(* worker took it and whenever it was taken.                               *)
THEOREM CloseTellsAll == Spec => []CloseTellsRunning
<1>1. PoolIInv => CloseTellsRunning
  BY DEF PoolIInv, HandOver
<1> QED BY <1>1, PlacesInvariant, PTL

(* The pool implements the job service: a job starts at most once, never   *)
(* after its cancel was answered, completes once and is collected in       *)
(* completion order, and close drops exactly what is still queued.         *)
THEOREM PoolImplementsService == Spec => ServiceSpec
<1>1. Init => Service!Init
  BY Initially, ServiceInitially DEF IInv
<1>2. PoolIInv /\ PoolIInv' /\ [Next]_vars => [Service!Next]_(Service!vars)
  <2> SUFFICES ASSUME PoolIInv, PoolIInv', [Next]_vars PROVE [Service!Next]_(Service!vars)
    OBVIOUS
  <2>1. CASE Next
    BY <2>1, ServiceStep DEF PoolIInv, IInv
  <2>2. CASE UNCHANGED vars
    BY <2>2, HandOverStutter DEF PoolIInv
  <2> QED BY <2>1, <2>2
<1> QED BY <1>1, <1>2, PlacesInvariant, PTL DEF Spec, ServiceSpec, Service!Spec
-----------------------------------------------------------------------------
(* What the service promises of each job, and so the pool that implements  *)
(* it: one end, and a completion for each job that ended and no other.     *)

ServiceInv == Service!TypeOK /\ Service!EachJobEndsOnce

(* Every completion, collected or not, in the order they were made.        *)
Every == collected \o done

LEMMA ServiceInit == Service!Init => ServiceInv
  BY DEF Service!Init, ServiceInv, Service!TypeOK, Service!States, Service!EachJobEndsOnce

(* A step that moves no job to "ended" or from it, and leaves the whole of *)
(* the completions as it is, keeps the invariant's second part.            *)
LEMMA SameEnds ==
  ASSUME Service!EachJobEndsOnce, Every' = Every,
         \A j \in Jobs : JobState'[j] = "ended" <=> JobState[j] = "ended"
  PROVE  Service!EachJobEndsOnce'
  BY DEF Service!EachJobEndsOnce, Every

LEMMA ServiceCompleteKeeps ==
  ASSUME ServiceInv, NEW j \in Jobs, NEW how \in Service!Outcomes, Service!Complete(j, how)
  PROVE  ServiceInv'
<1> DEFINE c == [job |-> j, status |-> how]
           n == Len(Every)
<1>1. c \in Service!Completions /\ done \in Seq(Service!Completions) /\ collected \in Seq(Service!Completions)
  BY DEF Service!Completions, ServiceInv, Service!TypeOK
<1>2. Service!TypeOK'
  BY <1>1 DEF ServiceInv, Service!TypeOK, Service!States, Service!Complete
<1>3. Every \in Seq(Service!Completions) /\ Every' = Append(Every, c)
  BY <1>1 DEF Every, Service!Complete
<1>4. n \in Nat /\ Len(Every') = n + 1 /\ Every'[n + 1] = c
      /\ \A a \in 1..n : Every'[a] = Every[a]
  BY <1>3
<1>5. /\ \A a, b \in 1..n : Every[a].job = Every[b].job => a = b
      /\ \A k \in Jobs : JobState[k] = "ended" <=> \E a \in 1..n : Every[a].job = k
  BY DEF ServiceInv, Service!EachJobEndsOnce, Every
<1>6. JobState[j] # "ended" /\ JobState' = [JobState EXCEPT ![j] = "ended"] /\ JobState \in [Jobs -> Service!States]
  BY DEF Service!Complete, ServiceInv, Service!TypeOK
<1>7. \A a \in 1..n : Every[a].job # j
  BY <1>5, <1>6
<1>8. \A a, b \in 1..(n + 1) : Every'[a].job = Every'[b].job => a = b
  <2> SUFFICES ASSUME NEW a \in 1..(n + 1), NEW b \in 1..(n + 1), Every'[a].job = Every'[b].job
               PROVE  a = b
    OBVIOUS
  <2>1. CASE a \in 1..n /\ b \in 1..n
    BY <2>1, <1>4, <1>5
  <2>2. CASE a = n + 1 /\ b \in 1..n
    BY <2>2, <1>4, <1>7
  <2>3. CASE a \in 1..n /\ b = n + 1
    BY <2>3, <1>4, <1>7
  <2> QED
    BY <2>1, <2>2, <2>3, <1>4
<1>9. \A k \in Jobs : JobState'[k] = "ended" <=> \E a \in 1..(n + 1) : Every'[a].job = k
  <2> SUFFICES ASSUME NEW k \in Jobs
               PROVE  JobState'[k] = "ended" <=> \E a \in 1..(n + 1) : Every'[a].job = k
    OBVIOUS
  <2>1. CASE k = j
    BY <2>1, <1>4, <1>6
  <2>2. CASE k # j
    <3>1. JobState'[k] = "ended" <=> \E a \in 1..n : Every[a].job = k
      BY <2>2, <1>5, <1>6
    <3>2. (\E a \in 1..(n + 1) : Every'[a].job = k) <=> \E a \in 1..n : Every[a].job = k
      BY <2>2, <1>4
    <3> QED
      BY <3>1, <3>2
  <2> QED
    BY <2>1, <2>2
<1> QED
  BY <1>2, <1>4, <1>8, <1>9 DEF ServiceInv, Service!EachJobEndsOnce, Every

LEMMA RegroupEnds ==
  \A s, t, u \in Seq(Service!Completions) : (s \o t) \o u = s \o (t \o u)
<1> HIDE DEF Service!Completions
<1> QED
  BY ConcatAssociative

(* What a poll takes from one sequence it puts at the end of the other.    *)
LEMMA SplitWhole ==
  ASSUME NEW s \in Seq(Service!Completions), NEW t \in Seq(Service!Completions), NEW n \in 0..Len(t)
  PROVE  /\ SubSeq(t, 1, n) \in Seq(Service!Completions) /\ SubSeq(t, n + 1, Len(t)) \in Seq(Service!Completions)
         /\ (s \o SubSeq(t, 1, n)) \o SubSeq(t, n + 1, Len(t)) = s \o t
<1> DEFINE f == SubSeq(t, 1, n)
           r == SubSeq(t, n + 1, Len(t))
<1>1. Len(t) \in Nat /\ \A i \in 1..Len(t) : t[i] \in Service!Completions
  BY LenProperties, ElementOfSeq
<1>2. f \in Seq(Service!Completions) /\ Len(f) = n /\ \A i \in 1..n : f[i] = t[i]
  BY <1>1, SubSeqProperties
<1>3. /\ r \in Seq(Service!Completions) /\ Len(r) = Len(t) - n
      /\ \A i \in 1..(Len(t) - n) : r[i] = t[n + i]
  BY <1>1, SubSeqProperties
<1>4. f \o r = t
  <2> HIDE DEF f, r
  <2>1. /\ f \o r \in Seq(Service!Completions) /\ Len(f \o r) = Len(t)
        /\ \A i \in 1..Len(t) : (f \o r)[i] = IF i <= n THEN f[i] ELSE r[i - n]
    BY <1>1, <1>2, <1>3, ConcatProperties
  <2>2. \A i \in 1..Len(t) : (f \o r)[i] = t[i]
    BY <2>1, <1>1, <1>2, <1>3
  <2> QED
    BY <2>1, <2>2, SeqEqual
<1>5. (s \o f) \o r = s \o (f \o r)
  <2>1. f \in Seq(Service!Completions) /\ r \in Seq(Service!Completions)
    BY <1>2, <1>3
  <2> HIDE DEF f, r
  <2> QED
    BY <2>1, RegroupEnds, Zenon
<1> QED
  BY <1>2, <1>3, <1>4, <1>5

LEMMA ServicePollKeeps ==
  ASSUME ServiceInv, Service!Poll
  PROVE  ServiceInv'
<1> DEFINE n == IF Len(done) < Batch THEN Len(done) ELSE Batch
<1>1. done \in Seq(Service!Completions) /\ collected \in Seq(Service!Completions)
  BY DEF ServiceInv, Service!TypeOK
<1>2. n \in 0..Len(done)
  BY <1>1, PoolAssumption
<1>3. /\ collected' = collected \o SubSeq(done, 1, n)
      /\ done' = SubSeq(done, n + 1, Len(done))
      /\ JobState' = JobState /\ (~shutdown') = ~shutdown
  BY DEF Service!Poll
<1>4. Every' = Every /\ done' \in Seq(Service!Completions) /\ collected' \in Seq(Service!Completions)
  <2> HIDE DEF n
  <2>1. /\ SubSeq(done, 1, n) \in Seq(Service!Completions)
        /\ SubSeq(done, n + 1, Len(done)) \in Seq(Service!Completions)
        /\ (collected \o SubSeq(done, 1, n)) \o SubSeq(done, n + 1, Len(done))
             = collected \o done
    <3>1. \A m \in 0..Len(done) :
            /\ SubSeq(done, 1, m) \in Seq(Service!Completions)
            /\ SubSeq(done, m + 1, Len(done)) \in Seq(Service!Completions)
            /\ (collected \o SubSeq(done, 1, m)) \o SubSeq(done, m + 1, Len(done))
                 = collected \o done
      <4> SUFFICES ASSUME NEW m \in 0..Len(done)
                   PROVE  /\ SubSeq(done, 1, m) \in Seq(Service!Completions)
                          /\ SubSeq(done, m + 1, Len(done)) \in Seq(Service!Completions)
                          /\ (collected \o SubSeq(done, 1, m))
                                \o SubSeq(done, m + 1, Len(done))
                               = collected \o done
        OBVIOUS
      <4> QED
        BY <1>1, SplitWhole, Zenon
    <3> QED
      BY <1>2, <3>1, Zenon
  <2>2. collected \o SubSeq(done, 1, n) \in Seq(Service!Completions)
    BY <1>1, <2>1, ConcatProperties
  <2> QED
    BY <1>3, <2>1, <2>2 DEF Every
<1>5. Service!EachJobEndsOnce'
  BY <1>3, <1>4, SameEnds DEF ServiceInv
<1> QED
  BY <1>3, <1>4, <1>5 DEF ServiceInv, Service!TypeOK

LEMMA ServiceKeeps ==
  ASSUME ServiceInv, [Service!Next]_(Service!vars)
  PROVE  ServiceInv'
<1>1. CASE \E j \in Jobs : Service!Submit(j) \/ Service!Start(j) \/ Service!Withdraw(j)
  <2>1. PICK j \in Jobs : Service!Submit(j) \/ Service!Start(j) \/ Service!Withdraw(j)
    BY <1>1
  <2>2. Service!TypeOK' /\ Every' = Every
    BY <2>1 DEF ServiceInv, Service!TypeOK, Service!States, Service!Submit, Service!Start,
       Service!Withdraw, Every
  <2>3. \A k \in Jobs : JobState'[k] = "ended" <=> JobState[k] = "ended"
    BY <2>1 DEF ServiceInv, Service!TypeOK, Service!Submit, Service!Start, Service!Withdraw
  <2> QED
    BY <2>2, <2>3, SameEnds DEF ServiceInv
<1>2. CASE \E j \in Jobs, how \in Service!Outcomes : Service!Complete(j, how)
  BY <1>2, ServiceCompleteKeeps
<1>3. CASE Service!Poll
  BY <1>3, ServicePollKeeps
<1>4. CASE Service!Close
  <2>1. Service!TypeOK' /\ Every' = Every
    BY <1>4 DEF ServiceInv, Service!TypeOK, Service!States, Service!Close, Every
  <2>2. \A k \in Jobs : JobState'[k] = "ended" <=> JobState[k] = "ended"
    BY <1>4 DEF ServiceInv, Service!TypeOK, Service!Close
  <2> QED
    BY <2>1, <2>2, SameEnds DEF ServiceInv
<1>5. CASE UNCHANGED Service!vars
  BY <1>5 DEF ServiceInv, Service!TypeOK, Service!EachJobEndsOnce, Service!vars
<1> QED
  BY <1>1, <1>2, <1>3, <1>4, <1>5 DEF Service!Next

(* No job of the pool completes twice and only a job that ended has a      *)
(* completion, however many jobs and workers there are and however many    *)
(* completions a poll takes: this is why the Lua side may free what a job  *)
(* reads when it collects the completion (pool.rs, poll).                  *)
THEOREM EndsOnce == Spec => []Service!EachJobEndsOnce
<1>1. ServiceInv /\ [Service!Next]_(Service!vars) => ServiceInv'
  BY ServiceKeeps
<1>2. ServiceInv => Service!EachJobEndsOnce
  BY DEF ServiceInv
<1> QED BY <1>1, <1>2, ServiceInit, PoolImplementsService, PTL DEF ServiceSpec, Service!Spec
=============================================================================
