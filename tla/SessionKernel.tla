---------------------------- MODULE SessionKernel ---------------------------
(***************************************************************************)
(* A notebook session and its kernel in the backend                        *)
(* (core/src/rpc/exec.rs, core/src/rpc/notebook.rs, core/src/session.rs):  *)
(* the calls that start, stop, restart and use the kernel, each a task of  *)
(* its own and interleaved at every await, the pumps that bring kernels'   *)
(* events to the cells, and the tasks that see kernels exit.  A stop       *)
(* answers, an exit is told, and from then on the frontend must hear       *)
(* nothing of that kernel.                                                 *)
(*                                                                         *)
(* A kernel is named after the call that starts it, and a generation after *)
(* the kernel it was made for: the code only compares a kernel's with the  *)
(* session's current one, which no kernel has after a stop or an exit.     *)
(***************************************************************************)
CONSTANTS Calls,     \* bound: calls the frontend makes
          Ops,       \* what they may ask for
          None       \* no kernel, no call

ASSUME CallAssumption ==
  /\ None \notin Calls \cup Ops
  /\ Ops \subseteq {"start", "stop", "restart", "close", "execute", "complete"}

VARIABLES
  \* the calls
  op, pc,
  taken,      \* call -> the kernels it took out of the slot
  knew,       \* call -> the kernels the frontend knew to be gone when it was made
  ran,        \* execute call -> the kernel it was sent to, or None
  \* the session
  open,       \* it is in the server's table
  slot,       \* `kernel`: the session's kernel
  writer,     \* the call that holds the slot's lock to write, or None
  readers,    \* the calls that hold it to read
  kgen,       \* kernel_gen: the kernel whose generation is the current one, or None
  commTx,     \* the kernel whose comm sender is installed, or None
  \* the kernels
  proc,
  pump,       \* kernels whose event pump runs
  watch,      \* kernel -> the task that waits for its exit
  \* the frontend
  gone,       \* kernels it was told are gone
  told,       \* those it was told by "exited"
  shown       \* kernels that sent it a cell event

callVars == <<op, pc, taken, knew, ran>>
lockVars == <<writer, readers>>
kernelVars == <<proc, pump, watch>>
frontVars == <<gone, told, shown>>
vars == <<callVars, open, slot, kgen, commTx, lockVars, kernelVars, frontVars>>

PCs == {"idle", "clear", "take", "wait", "unsend", "launch", "slot", "replace",
        "install", "spawn", "answer", "run", "ask", "asked", "done"}

TypeOK ==
  /\ op \in [Calls -> Ops \cup {None}] /\ pc \in [Calls -> PCs]
  /\ taken \in [Calls -> SUBSET Calls] /\ knew \in [Calls -> SUBSET Calls]
  /\ ran \in [Calls -> Calls \cup {None}]
  /\ open \in BOOLEAN
  /\ slot \in Calls \cup {None} /\ commTx \in Calls \cup {None}
  /\ writer \in Calls \cup {None} /\ readers \subseteq Calls
  /\ kgen \in Calls \cup {None} /\ pump \subseteq Calls
  /\ proc \in [Calls -> {"none", "up", "dying", "exited"}]
  /\ watch \in [Calls -> {"none", "on", "unsend", "done"}]
  /\ gone \subseteq Calls /\ told \subseteq gone /\ shown \subseteq Calls

Init ==
  /\ op = [c \in Calls |-> None] /\ pc = [c \in Calls |-> "idle"]
  /\ taken = [c \in Calls |-> {}] /\ knew = [c \in Calls |-> {}]
  /\ ran = [c \in Calls |-> None]
  /\ open = TRUE /\ slot = None /\ commTx = None
  /\ writer = None /\ readers = {}
  /\ kgen = None /\ pump = {}
  /\ proc = [c \in Calls |-> "none"]
  /\ watch = [c \in Calls |-> "none"]
  /\ gone = {} /\ told = {} /\ shown = {}
-----------------------------------------------------------------------------
Goto(c, l) == pc' = [pc EXCEPT ![c] = l]
At(c, from, to) == pc[c] = from /\ Goto(c, to)
Free == writer = None /\ readers = {}

First(o) ==
  CASE o = "start" -> "launch"
    [] o \in {"stop", "restart", "close"} -> "clear"
    [] o = "execute" -> "run"
    [] o = "complete" -> "ask"

(* The task of a request finds its session (a close removes it).           *)
Call(c, o) ==
  /\ open
  /\ At(c, "idle", First(o))
  /\ op' = [op EXCEPT ![c] = o]
  /\ knew' = [knew EXCEPT ![c] = IF o = "execute" THEN gone ELSE {}]
  /\ open' = (o # "close")
  /\ UNCHANGED <<taken, ran, slot, kgen, lockVars, commTx, kernelVars, frontVars>>

(* The answer tells the frontend that the kernels the call took are gone.  *)
Answer(c) ==
  /\ At(c, "answer", "done")
  /\ gone' = gone \cup taken[c]
  /\ op' = [op EXCEPT ![c] = None]
  /\ UNCHANGED <<taken, knew, ran, open, slot, kgen, lockVars, commTx, kernelVars, told, shown>>

(* Kernel::kill signals the kernel's group first.                          *)
Killed(ks) == [k \in Calls |-> IF k \in ks /\ proc[k] = "up" THEN "dying" ELSE proc[k]]

InSlot == {slot} \ {None}
-----------------------------------------------------------------------------
(* stop_kernel, the first half of restart_kernel, and close.               *)

(* No widget message goes to the kernel from here on.                      *)
ClearSender(c) ==
  /\ At(c, "clear", "take")
  /\ commTx' = None
  /\ UNCHANGED <<op, taken, knew, ran, open, slot, kgen, lockVars, kernelVars, frontVars>>

(* Mutant of Take: the lock is not waited for.                             *)
TakeUnlocked(c) ==
  /\ At(c, "take", "wait")
  /\ kgen' = None
  /\ taken' = [taken EXCEPT ![c] = InSlot]
  /\ slot' = None
  /\ proc' = Killed(InSlot)
  /\ UNCHANGED <<op, knew, ran, open, lockVars, commTx, pump, watch, frontVars>>

(* Under the slot's lock the generation moves on and the kernel goes; then *)
(* it is killed.                                                           *)
Take(c) ==
  /\ At(c, "take", "wait")
  /\ Free
  /\ kgen' = None
  /\ taken' = [taken EXCEPT ![c] = InSlot]
  /\ slot' = None
  /\ proc' = Killed(InSlot)
  /\ UNCHANGED <<op, knew, ran, open, lockVars, commTx, pump, watch, frontVars>>

(* The kernel exited, or kill waited its 5 s, so at any time.              *)
KillEnds(c) ==
  /\ At(c, "wait", IF op[c] = "close" THEN "answer" ELSE "unsend")
  /\ UNCHANGED <<op, taken, knew, ran, open, slot, kgen, lockVars, commTx, kernelVars,
                 frontVars>>

(* retire_widgets: none may be installed meanwhile.                        *)
UnsendWidgets(c) ==
  /\ At(c, "unsend", IF op[c] = "restart" /\ open THEN "launch" ELSE "answer")
  /\ commTx' = None
  /\ UNCHANGED <<op, taken, knew, ran, open, slot, kgen, lockVars, kernelVars, frontVars>>
-----------------------------------------------------------------------------
(* start_kernel.                                                           *)

Launch(c) ==
  /\ At(c, "launch", "slot")
  /\ proc' = [proc EXCEPT ![c] = "up"]
  /\ UNCHANGED <<op, taken, knew, ran, open, slot, kgen, lockVars, commTx, pump, watch,
                 frontVars>>

LaunchFails(c) ==
  /\ At(c, "launch", "answer")
  /\ UNCHANGED <<op, taken, knew, ran, open, slot, kgen, lockVars, commTx, kernelVars,
                 frontVars>>

(* The slot was empty.                                                     *)
FillSlot(c) ==
  /\ At(c, "slot", "install")
  /\ Free /\ slot = None
  /\ kgen' = c
  /\ slot' = c
  /\ UNCHANGED <<op, taken, knew, ran, open, lockVars, commTx, proc, pump, watch, frontVars>>

(* Mutant of BeginReplace: the old kernel is let go without a kill.        *)
BeginReplaceUnkilled(c) ==
  /\ At(c, "slot", "replace")
  /\ Free /\ slot # None
  /\ kgen' = c
  /\ writer' = c
  /\ taken' = [taken EXCEPT ![c] = @ \cup {slot}]
  /\ slot' = None
  /\ UNCHANGED <<op, knew, ran, open, readers, commTx, proc, pump, watch, frontVars>>

(* The old kernel is killed, and its exit awaited, with the slot locked.   *)
BeginReplace(c) ==
  /\ At(c, "slot", "replace")
  /\ Free /\ slot # None
  /\ kgen' = c
  /\ writer' = c
  /\ taken' = [taken EXCEPT ![c] = @ \cup {slot}]
  /\ slot' = None
  /\ proc' = Killed({slot})
  /\ UNCHANGED <<op, knew, ran, open, readers, commTx, pump, watch, frontVars>>

Replace(c) ==
  /\ At(c, "replace", "install")
  /\ slot' = c /\ writer' = None
  /\ UNCHANGED <<op, taken, knew, ran, open, readers, kgen, commTx, kernelVars, frontVars>>

InstallSender(c) ==
  /\ At(c, "install", "spawn")
  /\ commTx' = c
  /\ UNCHANGED <<op, taken, knew, ran, open, slot, kgen, lockVars, kernelVars, frontVars>>

(* The event pump and the task that waits for the exit start.             *)
SpawnTasks(c) ==
  /\ At(c, "spawn", "answer")
  /\ pump' = pump \cup {c}
  /\ watch' = [watch EXCEPT ![c] = "on"]
  /\ UNCHANGED <<op, taken, knew, ran, open, slot, kgen, lockVars, commTx, proc, frontVars>>
-----------------------------------------------------------------------------
(* execute, and complete or inspect, which hold the slot to read until the *)
(* kernel replies or their time is over.                                   *)

Execute(c) ==
  /\ At(c, "run", "answer")
  /\ writer = None
  /\ ran' = [ran EXCEPT ![c] = slot]
  /\ UNCHANGED <<op, taken, knew, open, slot, kgen, lockVars, commTx, kernelVars, frontVars>>

Ask(c) ==
  /\ At(c, "ask", IF slot = None THEN "answer" ELSE "asked")
  /\ writer = None
  /\ readers' = IF slot = None THEN readers ELSE readers \cup {c}
  /\ UNCHANGED <<op, taken, knew, ran, open, slot, kgen, writer, commTx, kernelVars, frontVars>>

(* Mutant of AskEnds: only a reply ends the wait.                          *)
AskEndsByReply(c) ==
  /\ At(c, "asked", "answer")
  /\ proc[slot] = "up"
  /\ readers' = readers \ {c}
  /\ UNCHANGED <<op, taken, knew, ran, open, slot, kgen, writer, commTx, kernelVars, frontVars>>

AskEnds(c) ==
  /\ At(c, "asked", "answer")
  /\ readers' = readers \ {c}
  /\ UNCHANGED <<op, taken, knew, ran, open, slot, kgen, writer, commTx, kernelVars, frontVars>>
-----------------------------------------------------------------------------
(* pump_event: an event of kernel k, of those still on their way too.      *)

(* Mutant of CellEvent: the generation is not compared.                    *)
CellEventUnchecked(k) ==
  /\ k \in pump
  /\ shown' = shown \cup {k}
  /\ UNCHANGED <<callVars, open, slot, kgen, lockVars, commTx, kernelVars, gone, told>>

CellEvent(k) ==
  /\ k \in pump
  /\ k = kgen
  /\ shown' = shown \cup {k}
  /\ UNCHANGED <<callVars, open, slot, kgen, lockVars, commTx, kernelVars, gone, told>>
-----------------------------------------------------------------------------
(* A kernel ends, killed or by itself; kernel_exited.                      *)

ProcessEnds(k) ==
  /\ proc[k] \in {"up", "dying"}
  /\ proc' = [proc EXCEPT ![k] = "exited"]
  /\ UNCHANGED <<callVars, open, slot, kgen, lockVars, commTx, pump, watch, frontVars>>

Watch(k, from, to) == watch[k] = from /\ watch' = [watch EXCEPT ![k] = to]

(* Mutant of ExitIsTheirs: the task gives up when the slot is locked.      *)
ExitGivesUp(k) ==
  /\ proc[k] = "exited"
  /\ Watch(k, "on", "done")
  /\ k # kgen \/ slot # k \/ ~Free
  /\ UNCHANGED <<callVars, open, slot, kgen, lockVars, commTx, proc, pump, frontVars>>

(* The generation moved on: the exit is a stop's or a new kernel's.        *)
ExitIsTheirs(k) ==
  /\ proc[k] = "exited" /\ Free
  /\ Watch(k, "on", "done")
  /\ k # kgen \/ slot # k
  /\ UNCHANGED <<callVars, open, slot, kgen, lockVars, commTx, proc, pump, frontVars>>

(* Mutant of ExitIsOurs: neither the generation nor the slot is looked at. *)
ExitIsAlwaysOurs(k) ==
  /\ proc[k] = "exited" /\ Free
  /\ Watch(k, "on", "unsend")
  /\ kgen' = None
  /\ slot' = None
  /\ gone' = gone \cup {k} /\ told' = told \cup {k}
  /\ UNCHANGED <<callVars, open, lockVars, commTx, proc, pump, shown>>

(* Mutant of ExitIsOurs: the kernel stays in the slot.                     *)
ExitKeepsSlot(k) ==
  /\ proc[k] = "exited" /\ Free
  /\ Watch(k, "on", "unsend")
  /\ k = kgen /\ slot = k
  /\ kgen' = None
  /\ gone' = gone \cup {k} /\ told' = told \cup {k}
  /\ UNCHANGED <<callVars, open, slot, lockVars, commTx, proc, pump, shown>>

ExitIsOurs(k) ==
  /\ proc[k] = "exited" /\ Free
  /\ Watch(k, "on", "unsend")
  /\ k = kgen /\ slot = k
  /\ kgen' = None
  /\ slot' = None
  /\ gone' = gone \cup {k} /\ told' = told \cup {k}
  /\ UNCHANGED <<callVars, open, lockVars, commTx, proc, pump, shown>>

WatchUnsends(k) ==
  /\ Watch(k, "unsend", "done")
  /\ commTx' = None
  /\ UNCHANGED <<callVars, open, slot, kgen, lockVars, proc, pump, frontVars>>
-----------------------------------------------------------------------------
StopStep(c) ==
  ClearSender(c) \/ Take(c) \/ KillEnds(c) \/ UnsendWidgets(c)

StartStep(c) ==
  \/ Launch(c) \/ LaunchFails(c)
  \/ FillSlot(c) \/ BeginReplace(c) \/ Replace(c)
  \/ InstallSender(c) \/ SpawnTasks(c)

UseStep(c) == Execute(c) \/ Ask(c) \/ AskEnds(c)

CallStep(c) == StopStep(c) \/ StartStep(c) \/ UseStep(c) \/ Answer(c)

WatchStep(k) == ExitIsTheirs(k) \/ ExitIsOurs(k) \/ WatchUnsends(k)

Next ==
  \E c \in Calls :
    \/ \E o \in Ops : Call(c, o)
    \/ CallStep(c)
    \/ CellEvent(c) \/ ProcessEnds(c)
    \/ WatchStep(c)

Spec == Init /\ [][Next]_vars

(* The runtime runs every task that can go on, and a killed process ends.  *)
(* As the calls are bounded, nobody takes the slot's lock again and again. *)
Fairness ==
  \A c \in Calls :
    /\ WF_vars(CallStep(c))
    /\ WF_vars(WatchStep(c))
    /\ WF_vars(proc[c] = "dying" /\ ProcessEnds(c))

FairSpec == Spec /\ Fairness
-----------------------------------------------------------------------------
(* Once a stop, a restart or a replacing start answered, or the exit was   *)
(* told, no cell event of the kernel follows, whatever its pump still      *)
(* holds and however the calls overlap (session.rs, kernel_gen).           *)
NoEventOnceGone ==
  [][\A k \in gone : k \in shown' => k \in shown]_vars

(* The session's kernel is heard: nothing moves the generation on past the *)
(* kernel in the slot, so its output is never dropped as a stale one's.    *)
SlotIsHeard == slot # None => slot = kgen

(* No running kernel is lost: it is the session's, or its start is about   *)
(* to make it so, and every other one was killed.                          *)
UpIsOwned ==
  \A k \in Calls : proc[k] = "up" => slot = k \/ pc[k] \in {"slot", "replace"}

(* The variables keep their types, and no running kernel is lost.          *)
SessionInv == TypeOK /\ UpIsOwned

(* A run sent once a kernel was known to be gone is refused or goes to a   *)
(* later kernel.                                                           *)
RunsOnNoGoneKernel == \A c \in Calls : ran[c] \notin knew[c]

(* "exited" is told of no kernel that a call stopped or replaced.          *)
ExitToldIsUnasked == \A c \in Calls : taken[c] \cap told = {}

(* Every call is answered: nothing waits for ever for the slot's lock,     *)
(* held through a kill or through a reply that does not come.              *)
CallsAreAnswered ==
  \A c \in Calls : pc[c] # "idle" ~> pc[c] = "done"

(* A kernel that exited does not stay the session's, where runs would be   *)
(* sent to it and never answered.                                          *)
ExitedLeavesSlot ==
  \A k \in Calls : slot = k /\ proc[k] = "exited" ~> slot # k
-----------------------------------------------------------------------------
(* The inductive invariant behind them.                                    *)

(* A kernel that went into the slot.                                       *)
PutIn(k) == pc[k] \in {"install", "spawn", "answer", "done"}

(* The lock is held to write by a start alone that is replacing a kernel.  *)
LockInv ==
  /\ \A c \in Calls : pc[c] = "replace" <=> writer = c
  /\ writer # None => readers = {} /\ slot = None /\ kgen = writer

(* The slot's kernel went in, and has its watcher or is to get one.        *)
SlotInv == \A k \in Calls : slot = k => PutIn(k)

(* A kernel that was taken or told of went in once and is neither in the   *)
(* slot nor of the current generation, and never will be again.            *)
GoneInv ==
  \A k \in Calls :
    k \in gone \/ (\E c \in Calls : k \in taken[c]) => PutIn(k) /\ k # slot /\ k # kgen

KnewInv ==
  \A c \in Calls : knew[c] \subseteq gone /\ (ran[c] # None => pc[c] \in {"answer", "done"})

ProcInv ==
  \A k \in Calls : proc[k] # "none" => pc[k] \in {"slot", "replace"} \/ PutIn(k)

IInv ==
  /\ TypeOK /\ SlotIsHeard /\ UpIsOwned /\ RunsOnNoGoneKernel /\ ExitToldIsUnasked
  /\ LockInv /\ SlotInv /\ GoneInv /\ KnewInv /\ ProcInv
-----------------------------------------------------------------------------
Quiet == /\ \A c \in Calls : pc[c] \in {"idle", "done"}
         /\ \A k \in Calls : watch[k] # "unsend"

(* "The current kernel's sender; None without a kernel" (widgets.rs): when *)
(* every call is answered, the sender is that of the slot's kernel.  Two   *)
(* calls that overlap leave another one.                                   *)
SenderIsCurrent == Quiet => commTx = slot
=============================================================================
