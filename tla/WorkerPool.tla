----------------------------- MODULE WorkerPool -----------------------------
(***************************************************************************)
(* The worker pool of libjupynvim (core/native/src/pool.rs) and the wake   *)
(* socket its workers signal (core/native/src/wake.rs), at the granularity *)
(* of the lock regions and of the atomics read outside them.               *)
(*                                                                         *)
(* One action is what a thread does between two points another thread can  *)
(* tell apart: a hold of `q` is split wherever it touches `inbox`,         *)
(* `parked` or `waking`, which a submit reads and writes without the lock. *)
(* The atomics are SeqCst in the code, so their accesses interleave.       *)
(***************************************************************************)
EXTENDS Naturals, Sequences, FiniteSets, SequencesExt

CONSTANTS Workers,        \* worker threads
          Callers,        \* threads that call submit, cancel and close
          UI,             \* the caller that watches the wake socket and polls
          NoThread,       \* `q` is free
          MaxJobs,        \* bound: the most jobs ever submitted
          Lanes,          \* number of priority lanes (3 in the code)
          Batch,          \* the most completions one poll hands over
          Spurious,       \* whether a condition variable wait may end by itself
          WriteErrors     \* whether a write to the wake socket may fail

ASSUME PoolAssumption ==
  /\ IsFiniteSet(Workers) /\ Workers # {}
  /\ IsFiniteSet(Callers) /\ UI \in Callers
  /\ Workers \cap Callers = {}
  /\ NoThread \notin Workers \cup Callers
  /\ MaxJobs \in Nat
  /\ Lanes \in Nat \ {0}
  /\ Batch \in Nat \ {0}
  /\ Spurious \in BOOLEAN
  /\ WriteErrors \in BOOLEAN

Threads == Workers \cup Callers
Jobs == 1..MaxJobs
NoJob == 0
Prios == 0..(Lanes - 1)
Nodes == [job : Jobs, prio : Prios]
Statuses == {"ok", "cancelled"}
Completions == [job : Jobs, status : Statuses]

VARIABLES
  \* under the mutex `q`
  owner,      \* the thread that holds `q` between two steps, or NoThread
  lanes,      \* lane -> queued jobs, first in first out
  batch,      \* the inbox its taker detached, oldest first, not yet in lanes
  running,    \* jobs workers have taken and not yet given up
  idle,       \* workers counted as waiting
  woken,      \* wakes claimed and not taken up
  shutdown,
  \* atomics
  inbox,      \* submitted jobs, newest first
  parked,     \* mirrors idle
  waking,     \* mirrors woken
  closed,
  next,       \* the next job id
  flagged,    \* jobs whose cancel flag is set
  \* completions and the wake socket
  done,       \* completions not yet polled
  pending,    \* the wake's coalescing flag
  txOpen,     \* the write end exists
  byte,       \* an unread byte is in the socket
  \* the threads
  pc,
  job,        \* the job a thread has in hand
  status,     \* the status it will publish
  notifies,   \* notify_one calls a thread still has to make
  scheduled,  \* the event loop read a wake and owes a pump
  collected   \* completions the pump took, in order

queueVars == <<lanes, batch, inbox>>
lockedVars == <<running, idle, woken, shutdown>>
atomicVars == <<parked, waking, closed, next, flagged>>
wakeVars == <<done, pending, txOpen, byte>>
threadVars == <<job, status, notifies>>
loopVars == <<scheduled, collected>>
vars == <<owner, queueVars, lockedVars, atomicVars, wakeVars, pc, threadVars, loopVars>>

WorkerPCs == {"lock", "loop", "moving", "raised", "waiting", "woken", "unpark",
              "notify", "run", "ran", "publish", "signal", "write", "exited"}
CallerPCs == {"idle", "push", "readParked", "readWaking", "claim", "submitNotify",
              "cancelMoving", "publish", "signal", "write", "reset", "drain",
              "closing", "notifyAll", "closeWake"}

TypeOK ==
  /\ owner \in Threads \cup {NoThread}
  /\ lanes \in [Prios -> Seq(Jobs)]
  /\ batch \in Seq(Nodes)
  /\ inbox \in Seq(Nodes)
  /\ running \in SUBSET Jobs
  /\ idle \in Nat /\ woken \in Nat /\ parked \in Nat /\ waking \in Nat
  /\ shutdown \in BOOLEAN /\ closed \in BOOLEAN
  /\ next \in 1..(MaxJobs + 1)
  /\ flagged \in SUBSET Jobs
  /\ done \in Seq(Completions)
  /\ pending \in BOOLEAN /\ txOpen \in BOOLEAN /\ byte \in BOOLEAN
  /\ pc \in [Threads -> WorkerPCs \cup CallerPCs]
  /\ \A w \in Workers : pc[w] \in WorkerPCs
  /\ \A c \in Callers : pc[c] \in CallerPCs
  /\ job \in [Threads -> Jobs \cup {NoJob}]
  /\ status \in [Threads -> Statuses]
  /\ notifies \in [Threads -> Nat]
  /\ scheduled \in BOOLEAN
  /\ collected \in Seq(Completions)

Init ==
  /\ owner = NoThread
  /\ lanes = [p \in Prios |-> <<>>]
  /\ batch = <<>>
  /\ inbox = <<>>
  /\ running = {}
  /\ idle = 0 /\ woken = 0 /\ parked = 0 /\ waking = 0
  /\ shutdown = FALSE /\ closed = FALSE
  /\ next = 1
  /\ flagged = {}
  /\ done = <<>>
  /\ pending = FALSE /\ txOpen = TRUE /\ byte = FALSE
  /\ pc = [t \in Threads |-> IF t \in Workers THEN "lock" ELSE "idle"]
  /\ job = [t \in Threads |-> NoJob]
  /\ status = [t \in Threads |-> "ok"]
  /\ notifies = [t \in Threads |-> 0]
  /\ scheduled = FALSE
  /\ collected = <<>>
-----------------------------------------------------------------------------
Goto(t, l) == pc' = [pc EXCEPT ![t] = l]
Step(t, from, to) == pc[t] = from /\ Goto(t, to)

(* The mutex.  A thread that keeps `q` past this step is its owner.        *)
Acquire(t) == owner = NoThread /\ owner' = t
Release(t) == owner = t /\ owner' = NoThread
Within(t) == owner = t /\ UNCHANGED owner
WhileFree == owner = NoThread /\ UNCHANGED owner

(* Mutant of DetachInbox: the stack is not reversed.                       *)
DetachNewestFirst == batch' = inbox /\ inbox' = <<>>

(* take_inbox, first half: detach the stack and reverse it to submit order. *)
DetachInbox == batch' = Reverse(inbox) /\ inbox' = <<>>

(* take_inbox, second half: the loop that appends each node to its lane.   *)
MoveOldest ==
  LET node == Head(batch)
  IN /\ lanes' = [lanes EXCEPT ![node.prio] = Append(@, node.job)]
     /\ batch' = Tail(batch)

LanesEmpty == \A p \in Prios : lanes[p] = <<>>

(* The lane Queues::pop takes from: the lowest-numbered non-empty one.     *)
MostUrgent(p) == lanes[p] # <<>> /\ \A r \in Prios : lanes[r] # <<>> => p <= r

(* Mutant of Claimable: promised workers are promised again.               *)
ClaimableEvenIfClaimed(n) == IF n < idle THEN n ELSE idle

(* Wakes Queues::claim can promise for n wanted ones: no more than the     *)
(* idle workers that none is promised to.                                  *)
Claimable(n) ==
  LET free == IF idle > woken THEN idle - woken ELSE 0
  IN IF n < free THEN n ELSE free

Claim(k) == woken' = woken + k /\ waking' = IF k > 0 THEN woken + k ELSE waking

(* The jobs in all lanes together.                                         *)
QueuedIn(l) == Cardinality({q \in Prios \X Jobs : q[2] <= Len(l[q[1]])})

(* Condvar::notify_one: some waiting worker starts to leave its wait; with *)
(* nobody waiting the call is lost.                                        *)
Waiting == {w \in Workers : pc[w] = "waiting"}
NotifyOneThen(t, to) ==
  \/ \E w \in Waiting : pc' = [pc EXCEPT ![w] = "woken", ![t] = to]
  \/ Waiting = {} /\ Goto(t, to)
-----------------------------------------------------------------------------
(* A worker: take the most urgent job, run it, publish its completion.     *)

(* The top of the loop under `q`: leave on shutdown ...                    *)
Exit(w) ==
  /\ shutdown
  /\ \/ pc[w] = "lock" /\ WhileFree
     \/ pc[w] = "loop" /\ Release(w)
  /\ Goto(w, "exited")
  /\ UNCHANGED <<queueVars, lockedVars, atomicVars, wakeVars, threadVars, loopVars>>

(* ... or detach the inbox.                                                *)
TakeInbox(w) ==
  /\ ~shutdown
  /\ \/ pc[w] = "lock" /\ Acquire(w)
     \/ pc[w] = "loop" /\ Within(w)
  /\ DetachInbox
  /\ Goto(w, "moving")
  /\ UNCHANGED <<lanes, lockedVars, atomicVars, wakeVars, threadVars, loopVars>>

Move(t) ==
  /\ pc[t] \in {"moving", "cancelMoving"} /\ Within(t)
  /\ batch # <<>>
  /\ MoveOldest
  /\ UNCHANGED <<inbox, lockedVars, atomicVars, wakeVars, pc, threadVars, loopVars>>

(* Take a job, and claim wakes for idle workers if more jobs are queued.   *)
Pop(w) ==
  /\ pc[w] = "moving" /\ Release(w)
  /\ batch = <<>>
  /\ \E p \in Prios :
       /\ MostUrgent(p)
       /\ lanes' = [lanes EXCEPT ![p] = Tail(@)]
       /\ job' = [job EXCEPT ![w] = Head(lanes[p])]
       /\ running' = running \cup {Head(lanes[p])}
  /\ LET k == Claimable(QueuedIn(lanes'))
     IN /\ Claim(k)
        /\ notifies' = [notifies EXCEPT ![w] = k]
        /\ Goto(w, IF k > 0 THEN "notify" ELSE "run")
  /\ UNCHANGED <<batch, inbox, idle, shutdown, parked, closed, next, flagged, wakeVars,
                 status, loopVars>>

(* No job: count as idle, visibly to submits, still holding `q`.           *)
Raise(w) ==
  /\ pc[w] = "moving" /\ Within(w)
  /\ batch = <<>> /\ LanesEmpty
  /\ idle' = idle + 1 /\ parked' = parked + 1
  /\ Goto(w, "raised")
  /\ UNCHANGED <<queueVars, running, woken, shutdown, waking, closed, next, flagged,
                 wakeVars, threadVars, loopVars>>

(* One more look at the inbox: not empty, so back to the top ...           *)
LookAgain(w) ==
  /\ pc[w] = "raised" /\ Within(w)
  /\ inbox # <<>>
  /\ idle' = idle - 1 /\ parked' = parked - 1
  /\ Goto(w, "loop")
  /\ UNCHANGED <<queueVars, running, woken, shutdown, waking, closed, next, flagged,
                 wakeVars, threadVars, loopVars>>

(* Mutant of Wait: no last look at the inbox.                              *)
WaitWithoutLook(w) ==
  /\ pc[w] = "raised" /\ Release(w)
  /\ Goto(w, "waiting")
  /\ UNCHANGED <<queueVars, lockedVars, atomicVars, wakeVars, threadVars, loopVars>>

(* ... or empty, so wait, which releases `q`.                              *)
Wait(w) ==
  /\ pc[w] = "raised" /\ Release(w)
  /\ inbox = <<>>
  /\ Goto(w, "waiting")
  /\ UNCHANGED <<queueVars, lockedVars, atomicVars, wakeVars, threadVars, loopVars>>

SpuriousWakeup(w) ==
  /\ Spurious
  /\ Step(w, "waiting", "woken")
  /\ UNCHANGED <<owner, queueVars, lockedVars, atomicVars, wakeVars, threadVars, loopVars>>

(* The wait returns with `q` held; the worker is idle no more ...          *)
Unwait(w) ==
  /\ Step(w, "woken", "unpark") /\ Acquire(w)
  /\ idle' = idle - 1 /\ parked' = parked - 1
  /\ UNCHANGED <<queueVars, running, woken, shutdown, waking, closed, next, flagged,
                 wakeVars, threadVars, loopVars>>

(* ... and takes up one claimed wake, in the same hold of `q`.             *)
TakeUpWake(w) ==
  /\ Step(w, "unpark", "loop") /\ Within(w)
  /\ woken' = IF woken > 0 THEN woken - 1 ELSE 0
  /\ waking' = IF woken > 0 THEN woken - 1 ELSE waking
  /\ UNCHANGED <<queueVars, running, idle, shutdown, parked, closed, next, flagged,
                 wakeVars, threadVars, loopVars>>

(* The notifies that follow a claim, `q` released: a worker's loop of them *)
(* before it runs its job, and a submit's one.                             *)
Notify(t) ==
  /\ pc[t] \in {"notify", "submitNotify"}
  /\ notifies' = [notifies EXCEPT ![t] = @ - 1]
  /\ NotifyOneThen(t, IF notifies[t] > 1 THEN pc[t]
                      ELSE IF t \in Workers THEN "run" ELSE "idle")
  /\ UNCHANGED <<owner, queueVars, lockedVars, atomicVars, wakeVars, job, status, loopVars>>

(* The job ends, a cancelled one only if it could see its flag.            *)
Run(w) ==
  /\ Step(w, "run", "ran")
  /\ \E s \in Statuses :
       /\ s = "cancelled" => job[w] \in flagged
       /\ status' = [status EXCEPT ![w] = s]
  /\ UNCHANGED <<owner, queueVars, lockedVars, atomicVars, wakeVars, job, notifies, loopVars>>

Unregister(w) ==
  /\ Step(w, "ran", "publish") /\ WhileFree
  /\ running' = running \ {job[w]}
  /\ UNCHANGED <<queueVars, idle, woken, shutdown, atomicVars, wakeVars, threadVars, loopVars>>
-----------------------------------------------------------------------------
(* Publishing a completion and signalling the wake socket: a worker after  *)
(* its job, a caller after it removed a queued job.                        *)

Publish(t) ==
  /\ Step(t, "publish", "signal")
  /\ done' = Append(done, [job |-> job[t], status |-> status[t]])
  /\ job' = [job EXCEPT ![t] = NoJob]
  /\ UNCHANGED <<owner, queueVars, lockedVars, atomicVars, pending, txOpen, byte,
                 status, notifies, loopVars>>

Home(t) == IF t \in Workers THEN "lock" ELSE "idle"

(* Wake::signal: the flag decides who writes the byte.                     *)
Signal(t) ==
  /\ Step(t, "signal", IF pending THEN Home(t) ELSE "write")
  /\ pending' = TRUE
  /\ UNCHANGED <<owner, queueVars, lockedVars, atomicVars, done, txOpen, byte,
                 threadVars, loopVars>>

(* Mutant of Write: an error leaves the flag up.                           *)
WriteNeverRearms(t) ==
  /\ Step(t, "write", Home(t))
  /\ \/ byte' = (byte \/ txOpen)
     \/ WriteErrors /\ UNCHANGED byte
  /\ UNCHANGED <<owner, queueVars, lockedVars, atomicVars, done, pending, txOpen,
                 threadVars, loopVars>>

(* The write: nothing once the end is closed; an error other than a full   *)
(* buffer or a closed reader re-arms the flag.                             *)
Write(t) ==
  /\ Step(t, "write", Home(t))
  /\ \/ byte' = (byte \/ txOpen) /\ UNCHANGED pending
     \/ WriteErrors /\ txOpen /\ pending' = FALSE /\ UNCHANGED byte
  /\ UNCHANGED <<owner, queueVars, lockedVars, atomicVars, done, txOpen, threadVars, loopVars>>
-----------------------------------------------------------------------------
(* A caller: submit.                                                       *)

(* Past the checks, `closed` among them, the job gets its id.              *)
BeginSubmit(c) ==
  /\ ~closed /\ next \in Jobs
  /\ Step(c, "idle", "push")
  /\ job' = [job EXCEPT ![c] = next]
  /\ next' = next + 1
  /\ UNCHANGED <<owner, queueVars, lockedVars, parked, waking, closed, flagged, wakeVars,
                 status, notifies, loopVars>>

Push(c) ==
  /\ Step(c, "push", "readParked")
  /\ \E p \in Prios : inbox' = <<[job |-> job[c], prio |-> p]>> \o inbox
  /\ job' = [job EXCEPT ![c] = NoJob]
  /\ UNCHANGED <<owner, lanes, batch, lockedVars, atomicVars, wakeVars, status, notifies,
                 loopVars>>

ReadParked(c) ==
  /\ Step(c, "readParked", IF parked > 0 THEN "readWaking" ELSE "idle")
  /\ UNCHANGED <<owner, queueVars, lockedVars, atomicVars, wakeVars, threadVars, loopVars>>

ReadWaking(c) ==
  /\ Step(c, "readWaking", IF waking = 0 THEN "claim" ELSE "idle")
  /\ UNCHANGED <<owner, queueVars, lockedVars, atomicVars, wakeVars, threadVars, loopVars>>

ClaimWake(c) ==
  LET k == IF woken = 0 THEN Claimable(1) ELSE 0
  IN /\ Step(c, "claim", IF k > 0 THEN "submitNotify" ELSE "idle") /\ WhileFree
     /\ Claim(k)
     /\ notifies' = [notifies EXCEPT ![c] = k]
     /\ UNCHANGED <<queueVars, running, idle, shutdown, parked, closed, next, flagged,
                    wakeVars, job, status, loopVars>>
-----------------------------------------------------------------------------
(* A caller: cancel.                                                       *)

BeginCancel(c, j) ==
  /\ ~shutdown
  /\ Step(c, "idle", "cancelMoving") /\ Acquire(c)
  /\ DetachInbox
  /\ job' = [job EXCEPT ![c] = j]
  /\ UNCHANGED <<lanes, lockedVars, atomicVars, wakeVars, status, notifies, loopVars>>

IsQueued(j) == \E p \in Prios : Contains(lanes[p], j)

(* Mutant of CancelQueued: the job stays in its lane.                      *)
CancelInPlace(c) ==
  /\ Step(c, "cancelMoving", "publish") /\ Release(c)
  /\ batch = <<>> /\ IsQueued(job[c])
  /\ status' = [status EXCEPT ![c] = "cancelled"]
  /\ UNCHANGED <<queueVars, lockedVars, atomicVars, wakeVars, job, notifies, loopVars>>

(* Queued: removed, and this caller publishes the completion.              *)
CancelQueued(c) ==
  /\ Step(c, "cancelMoving", "publish") /\ Release(c)
  /\ batch = <<>>
  /\ \E p \in Prios : \E i \in 1..Len(lanes[p]) :
       /\ lanes[p][i] = job[c]
       /\ lanes' = [lanes EXCEPT ![p] = RemoveAt(@, i)]
  /\ status' = [status EXCEPT ![c] = "cancelled"]
  /\ UNCHANGED <<batch, inbox, lockedVars, atomicVars, wakeVars, job, notifies, loopVars>>

(* Running: its flag is set.  Neither: ENOJOB.                             *)
CancelOther(c) ==
  /\ Step(c, "cancelMoving", "idle") /\ Release(c)
  /\ batch = <<>> /\ ~IsQueued(job[c])
  /\ flagged' = flagged \cup (running \cap {job[c]})
  /\ job' = [job EXCEPT ![c] = NoJob]
  /\ UNCHANGED <<queueVars, lockedVars, parked, waking, closed, next, wakeVars, status,
                 notifies, loopVars>>
-----------------------------------------------------------------------------
(* A caller: close, which waits for no worker.                             *)

BeginClose(c) ==
  /\ Step(c, "idle", "closing") /\ Acquire(c)
  /\ shutdown' = TRUE /\ closed' = TRUE
  /\ UNCHANGED <<queueVars, running, idle, woken, parked, waking, next, flagged, wakeVars,
                 threadVars, loopVars>>

(* Mutant of DropQueued: running jobs are not told.                        *)
DropQueuedOnly(c) ==
  /\ Step(c, "closing", "notifyAll") /\ Release(c)
  /\ inbox' = <<>>
  /\ lanes' = [p \in Prios |-> <<>>]
  /\ UNCHANGED <<batch, lockedVars, atomicVars, wakeVars, threadVars, loopVars>>

DropQueued(c) ==
  /\ Step(c, "closing", "notifyAll") /\ Release(c)
  /\ inbox' = <<>>
  /\ lanes' = [p \in Prios |-> <<>>]
  /\ flagged' = flagged \cup running
  /\ UNCHANGED <<batch, lockedVars, parked, waking, closed, next, wakeVars, threadVars,
                 loopVars>>

(* Mutant of NotifyAll: idle workers are not woken.                        *)
NotifyNobody(c) ==
  /\ Step(c, "notifyAll", "closeWake")
  /\ UNCHANGED <<owner, queueVars, lockedVars, atomicVars, wakeVars, threadVars, loopVars>>

NotifyAll(c) ==
  /\ pc[c] = "notifyAll"
  /\ pc' = [t \in Threads |-> IF t = c THEN "closeWake"
                              ELSE IF pc[t] = "waiting" THEN "woken" ELSE pc[t]]
  /\ UNCHANGED <<owner, queueVars, lockedVars, atomicVars, wakeVars, threadVars, loopVars>>

CloseWake(c) ==
  /\ Step(c, "closeWake", "idle")
  /\ txOpen' = FALSE
  /\ UNCHANGED <<owner, queueVars, lockedVars, atomicVars, done, pending, byte, threadVars,
                 loopVars>>
-----------------------------------------------------------------------------
(* The event loop that watches the wake socket (lua/jupynvim/native.lua):  *)
(* reading a wake schedules a pump, the pump polls until a short batch.    *)

ReadWake ==
  /\ pc[UI] = "idle" /\ byte
  /\ byte' = FALSE /\ scheduled' = TRUE
  /\ UNCHANGED <<owner, queueVars, lockedVars, atomicVars, done, pending, txOpen, pc,
                 threadVars, collected>>

StartPump ==
  /\ scheduled /\ scheduled' = FALSE
  /\ Step(UI, "idle", "reset")
  /\ UNCHANGED <<owner, queueVars, lockedVars, atomicVars, wakeVars, threadVars, collected>>

(* Pool::poll, first half: re-arm the wake.                                *)
Reset ==
  /\ Step(UI, "reset", "drain")
  /\ pending' = FALSE
  /\ UNCHANGED <<owner, queueVars, lockedVars, atomicVars, done, txOpen, byte, threadVars,
                 loopVars>>

(* Mutant of Drain: a full batch ends the pump.                            *)
DrainOnce ==
  LET n == IF Len(done) < Batch THEN Len(done) ELSE Batch
  IN /\ Step(UI, "drain", "idle")
     /\ collected' = collected \o SubSeq(done, 1, n)
     /\ done' = SubSeq(done, n + 1, Len(done))
     /\ UNCHANGED <<owner, queueVars, lockedVars, atomicVars, pending, txOpen, byte,
                    threadVars, scheduled>>

(* Pool::poll, second half: the oldest completions.  After a full batch    *)
(* the pump polls again, at once or, its time up, in a tick of its own.    *)
Drain ==
  LET n == IF Len(done) < Batch THEN Len(done) ELSE Batch
  IN /\ pc[UI] = "drain"
     /\ collected' = collected \o SubSeq(done, 1, n)
     /\ done' = SubSeq(done, n + 1, Len(done))
     /\ \/ n < Batch /\ Goto(UI, "idle") /\ UNCHANGED scheduled
        \/ n = Batch /\ Goto(UI, "reset") /\ UNCHANGED scheduled
        \/ n = Batch /\ Goto(UI, "idle") /\ scheduled' = TRUE
     /\ UNCHANGED <<owner, queueVars, lockedVars, atomicVars, pending, txOpen, byte, threadVars>>
-----------------------------------------------------------------------------
WorkerStep(w) ==
  \/ Exit(w) \/ TakeInbox(w) \/ Move(w) \/ Pop(w) \/ Raise(w) \/ LookAgain(w) \/ Wait(w)
  \/ Unwait(w) \/ TakeUpWake(w) \/ Notify(w)
  \/ Run(w) \/ Unregister(w) \/ Publish(w) \/ Signal(w) \/ Write(w)

(* What a caller begins is its own choice; what it began it finishes.      *)
CallerBegins(c) ==
  \/ BeginSubmit(c)
  \/ \E j \in 1..(next - 1) : BeginCancel(c, j)
  \/ BeginClose(c)

CallerStep(c) ==
  \/ Push(c) \/ ReadParked(c) \/ ReadWaking(c) \/ ClaimWake(c) \/ Notify(c)
  \/ Move(c) \/ CancelQueued(c) \/ CancelOther(c) \/ Publish(c) \/ Signal(c) \/ Write(c)
  \/ DropQueued(c) \/ NotifyAll(c) \/ CloseWake(c)

PumpStep == ReadWake \/ StartPump \/ Reset \/ Drain

Next ==
  \/ \E w \in Workers : WorkerStep(w) \/ SpuriousWakeup(w)
  \/ \E c \in Callers : CallerBegins(c) \/ CallerStep(c)
  \/ PumpStep

Spec == Init /\ [][Next]_vars

(* The system schedules every thread and every mutex lets each waiter in;  *)
(* the event loop keeps running.  Nobody is forced to call anything, and   *)
(* waits are not forced to end by themselves.                              *)
Fairness ==
  /\ \A w \in Workers : SF_vars(WorkerStep(w))
  /\ \A c \in Callers : SF_vars(CallerStep(c))
  /\ SF_vars(PumpStep)

FairSpec == Spec /\ Fairness
-----------------------------------------------------------------------------
(* Safety.                                                                 *)

InInbox == inbox # <<>>
InLanes == batch # <<>> \/ ~LanesEmpty

(* A submit between its push and its notify, or a worker about to look at  *)
(* the inbox, or a notify owed: someone who will see to a queued job.      *)
SubmitPCs == {"readParked", "readWaking", "claim", "submitNotify"}
LookingPCs == {"lock", "loop", "raised", "woken", "unpark", "notify",
               "ran", "publish", "signal", "write"}
Attending(t) ==
  \/ t \in Callers /\ pc[t] \in SubmitPCs
  \/ t \in Workers /\ pc[t] \in LookingPCs

(* No worker sleeps on a job: while one waits and a job is queued, some    *)
(* other thread is on its way to take the job or to wake a worker for it.  *)
(* This is the claim of pool.rs's module comment, which the lock-free      *)
(* submit, the parked/waking mirrors and the wake on pop make together; it *)
(* covers every idle worker, not just the first.                           *)
WorkConserving ==
  ~shutdown /\ Waiting # {} =>
    /\ InInbox => \E t \in Threads : Attending(t)
    /\ InLanes => \E t \in Threads : Attending(t) \/ pc[t] = "moving"

(* A completion the caller has not collected never sits there unannounced: *)
(* a byte waits in the socket, is about to be written, or was read and a   *)
(* poll is due.  (wake.rs: "no lost wake".)  Exempt are a closed socket    *)
(* and an armed flag nobody holds, which is what a failed write leaves.    *)
PollDue == scheduled \/ pc[UI] \in {"reset", "drain"}
CompletionAnnounced ==
  done # <<>> /\ txOpen =>
    \/ byte \/ PollDue
    \/ \E t \in Threads : pc[t] \in {"signal", "write"}
    \/ WriteErrors /\ ~pending

(* The coalescing flag is up only while it is true that a wake is coming:  *)
(* a flag left up with nothing behind it would silence every later one.    *)
PendingIsTrue ==
  pending /\ txOpen =>
    \/ byte \/ scheduled \/ pc[UI] = "reset"
    \/ \E t \in Threads : pc[t] = "write"

(* Every claimed wake has a worker left to take it up: no more wakes than  *)
(* workers out of their wait and notifies on their way (pool.rs, claim).   *)
Leaving == {w \in Workers : pc[w] \in {"waiting", "woken", "unpark"}}
Promises ==
  {q \in Threads \X (0..Cardinality(Workers)) :
     \/ q[2] = 0 /\ pc[q[1]] \in {"woken", "unpark"}
     \/ q[2] \in 1..notifies[q[1]]}
WakesBacked ==
  /\ woken <= Cardinality(Promises)
  /\ woken <= Cardinality(Leaving)

(* The variables keep their types, the counters never below zero, and every *)
(* claimed wake is taken up.                                               *)
PoolInv == TypeOK /\ WakesBacked

(* The wake socket loses no wake: a flag left up has a wake behind it, and  *)
(* what waits to be polled has been announced.                             *)
WakeInv == PendingIsTrue /\ CompletionAnnounced

(* After close every job still running has been told to stop, whichever    *)
(* worker took it and whenever it was taken (close documents it).          *)
CloseTellsRunning ==
  shutdown /\ (\A c \in Callers : pc[c] # "closing") => running \subseteq flagged

(* Jobs start most urgent lane first, and in one lane in submit order: no  *)
(* job left behind in the lanes is more urgent, or as urgent and older.    *)
(* (Ids are in push order while one thread submits, as the ABI requires.)  *)
StartsInOrder ==
  [][\A w \in Workers : job[w] = NoJob /\ job'[w] # NoJob =>
       \E p \in Prios :
         /\ Contains(lanes[p], job'[w])
         /\ \A r \in Prios : r < p => lanes'[r] = <<>>
         /\ \A k \in Jobs : Contains(lanes'[p], k) => job'[w] < k]_vars
-----------------------------------------------------------------------------
(* The inductive invariant of the proofs in WorkerPool_proofs.             *)

HoldingPCs == {"loop", "moving", "raised", "unpark", "cancelMoving", "closing"}
LockInv == \A t \in Threads : owner = t <=> pc[t] \in HoldingPCs

NotifyInv ==
  \A t \in Threads :
    /\ notifies[t] <= Cardinality(Workers)
    /\ notifies[t] > 0 <=> pc[t] \in {"notify", "submitNotify"}

(* A thread with a job in hand really has one.                             *)
HandPCs == {"push", "cancelMoving", "notify", "run", "ran", "publish"}
HandInv == \A t \in Threads : pc[t] \in HandPCs => job[t] \in Jobs

(* The two counters, what they count, and their mirrors outside `q`.       *)
Idle == {w \in Workers : pc[w] \in {"raised", "waiting", "woken"}}
CountInv == idle = Cardinality(Idle) /\ parked = idle /\ waking = woken

(* Nodes are between inbox and lanes only while someone moves them; a      *)
(* worker that counts itself idle found every lane empty.                  *)
MovingInv ==
  /\ batch # <<>> => \E t \in Threads : pc[t] \in {"moving", "cancelMoving"}
  /\ \A w \in Workers : pc[w] = "raised" => LanesEmpty

IInv == TypeOK /\ LockInv /\ NotifyInv /\ HandInv /\ CountInv /\ MovingInv
        /\ WakesBacked /\ WorkConserving
-----------------------------------------------------------------------------
(* The pool implements the job service.                                    *)

Ended == {(collected \o done)[i].job : i \in 1..(Len(collected) + Len(done))}
Queued(j) ==
  IsQueued(j) \/ \E i \in 1..Len(inbox \o batch) : (inbox \o batch)[i].job = j

JobState ==
  [j \in Jobs |->
    IF \E w \in Workers : job[w] = j THEN "running"
    ELSE IF \E c \in Callers : pc[c] = "publish" /\ job[c] = j THEN "withdrawn"
    ELSE IF j \in Ended THEN "ended"
    ELSE IF Queued(j) /\ ~shutdown THEN "queued"
    ELSE IF j >= next \/ \E c \in Callers : pc[c] = "push" /\ job[c] = j THEN "new"
    ELSE "dropped"]

Service == INSTANCE JobService
  WITH state <- JobState, completed <- done, open <- ~shutdown

(* Every behaviour of the pool is one of the service: a job starts at most *)
(* once, never after its cancel answered OK, completes exactly once, and   *)
(* is collected in completion order; close drops what is queued.           *)
ServiceSpec == Service!Spec
-----------------------------------------------------------------------------
(* Liveness.                                                               *)

(* A submitted job's completion reaches the caller, unless close dropped   *)
(* it: no lost wakeup on either side, in the pool or at the wake socket.   *)
EveryJobIsCollected ==
  \A j \in Jobs : (j < next) ~> (closed \/ \E i \in 1..Len(collected) : collected[i].job = j)

(* Close lets every worker go, those in their wait and those running.      *)
CloseEndsWorkers == closed ~> \A w \in Workers : pc[w] = "exited"
=============================================================================
