------------------------------ MODULE CellRuns ------------------------------
(***************************************************************************)
(* The runs of a notebook's cells, seen from both sides of the wire.       *)
(*                                                                         *)
(* The editor (lua/jupynvim/init.lua, notebook/init.lua) counts what it    *)
(* submitted of each cell and follows the runs by the cell events it is    *)
(* sent; the backend (core/src/session.rs, rpc/exec.rs) keeps the cells'   *)
(* outputs, counts and times from the kernel's events.  The kernel answers *)
(* a run on two channels, the backend takes its requests up as tasks, and  *)
(* all it says goes to the editor through one queue.  A stop, a restart, a *)
(* second start or a death of the kernel may come at any point of a run.   *)
(***************************************************************************)
EXTENDS Integers, Sequences, FiniteSets, SequencesExt

CONSTANTS
  Cells,        \* the code cells
  All,          \* them in notebook order, as "run all" takes them
  MaxRequests,  \* bound: requests the editor makes
  MaxWaiting,   \* bound: runs the editor has not seen begin
  MaxPrints,    \* bound: what all runs print
  Budget,       \* bound: requests and prints together
  MaxAsks,      \* bound: requests that are not runs
  MaxUnread,    \* bound: events of the kernel the backend has not read, when it publishes more
  MaxUnseen,    \* bound: messages the editor has not handled, when the backend sends more
  Asks,         \* what the user may ask besides runs
  Deaths,       \* whether the kernel may die by itself
  InOrder,      \* the backend takes requests up in the order they came
  OneStart,     \* nobody asks for a kernel while one is starting, nor for a
                \* start while one runs
  Patient       \* nobody runs a cell again before a stop it was on is answered

ASSUME RunsAssumption ==
  /\ {MaxRequests, MaxWaiting, MaxPrints, Budget, MaxAsks, MaxUnread, MaxUnseen} \subseteq Nat
  /\ Asks \subseteq {"stop", "restart", "start", "clear"}
  /\ {Deaths, InOrder, OneStart, Patient} \subseteq BOOLEAN
  /\ Cells # {} /\ All \in Seq(Cells)
  /\ \A i, j \in 1 .. Len(All) : All[i] = All[j] => i = j

VARIABLES
  \* the editor
  st,          \* nb.cell_state: of each cell pending, run, exec_state and epoch
  epoch,       \* nb.epoch
  retiring,    \* nb.retiring, or 0
  started,     \* nb.kernel_started
  chain,       \* the cells of a "run all" not taken by the kernel yet
  front,       \* of each cell the outputs and the count the editor shows
  \* the wire
  reqs,        \* the requests made; a run's msg_id is its request's number
  wire,        \* what the backend sent and the editor has not handled yet
  \* the backend
  kernel,      \* the session's kernel, by the request that started it
  back,        \* of each cell the outputs, the count, the times and clear_pending
  \* the kernel
  dying,       \* it exited and the backend has not seen it
  queue,       \* the runs it was sent; the first one may be running
  step,        \* where the running one is
  iopub, shell,\* what it published and replied, not read by the backend yet
  prints       \* (bound) outputs and clears so far

editor == <<st, epoch, retiring, started, chain, front>>
process == <<dying, queue, step, prints>>
channels == <<iopub, shell>>
vars == <<editor, reqs, wire, kernel, back, process, channels>>

NoKernel == -1
Ids == 1 .. MaxRequests
Runs == {r \in 1 .. Len(reqs) : reqs[r].op = "execute"}

TypeOK ==
  /\ st \in [Cells -> [pending : Nat, run : {"no", "busy", "input"},
                       state : {"idle", "queued", "busy"}, epoch : -1 .. MaxRequests]]
  /\ epoch \in Nat /\ retiring \in 0 .. epoch /\ started \in BOOLEAN
  /\ chain \in Seq(Cells)
  /\ front \in [Cells -> [outs : Seq(Ids), count : 0 .. MaxRequests]]
  /\ reqs \in Seq([op : {"execute", "stop", "restart", "start", "clear"},
                   cell : Cells, epoch : Nat, chained : BOOLEAN,
                   at : {"sent", "launch", "kill", "done"}, kernel : -1 .. MaxRequests])
  /\ kernel \in -1 .. MaxRequests
  /\ back \in [Cells -> [outs : Seq(Ids), count : 0 .. MaxRequests,
                         wait : BOOLEAN, start : 0 .. MaxRequests, end : 0 .. MaxRequests]]
  /\ dying \in BOOLEAN /\ queue \in Seq(Ids) /\ step \in {"waits", "runs"}
  /\ \A i \in 1 .. Len(iopub) : iopub[i].run \in Runs
  /\ \A i \in 1 .. Len(shell) : shell[i].run \in Runs

Fresh == [pending |-> 0, run |-> "no", state |-> "idle", epoch |-> -1]

(* The notebook is open and the kernel its opening started runs.           *)
Init ==
  /\ st = [c \in Cells |-> Fresh]
  /\ epoch = 0 /\ retiring = 0 /\ started = TRUE /\ chain = <<>>
  /\ front = [c \in Cells |-> [outs |-> <<>>, count |-> 0]]
  /\ reqs = <<>> /\ wire = <<>> /\ kernel = 0
  /\ back = [c \in Cells |-> [outs |-> <<>>, count |-> 0, wait |-> FALSE,
                              start |-> 0, end |-> 0]]
  /\ dying = FALSE /\ queue = <<>> /\ step = "waits"
  /\ iopub = <<>> /\ shell = <<>> /\ prints = 0
-----------------------------------------------------------------------------
(* The editor: what becomes of a cell's run state.                         *)

(* Mutant of Queued: a running cell that is submitted again reads waiting. *)
QueuedOver(s) == [s EXCEPT !.pending = @ + 1, !.epoch = epoch, !.state = "queued"]

(* Notebook:mark_queued                                                    *)
Queued(s) == [s EXCEPT !.pending = @ + 1, !.epoch = epoch,
                       !.state = IF @ = "busy" THEN @ ELSE "queued"]

(* Notebook:unqueue                                                        *)
Unqueued(s) ==
  IF s.pending = 0 THEN s
  ELSE [s EXCEPT !.pending = @ - 1,
                 !.state = IF s.pending = 1 /\ @ = "queued" THEN "idle" ELSE @]

(* Mutant of Taken: every sign that a run began takes a submission off.    *)
TakenAgain(s, how) == [s EXCEPT !.pending = IF @ > 0 THEN @ - 1 ELSE 0, !.run = how]

(* take_run: the kernel took one of the cell's submissions.                *)
Taken(s, how) ==
  [s EXCEPT !.pending = IF s.run \in {"no", "input"} /\ @ > 0 THEN @ - 1 ELSE @,
            !.run = how]

(* Notebook:release_pending: no idle of the cell's runs will come.         *)
Released(s) == [s EXCEPT !.pending = 0, !.run = "no", !.state = "idle"]

(* Notebook:clear_badge forgets a cell no run of which is on.              *)
Cleared(s) == IF s.state # "idle" \/ s.pending > 0 THEN s ELSE Fresh

(* A submission counts from its mark, which its epoch is the notebook's.   *)
Mark(cs) == st' = [c \in Cells |-> IF c \in cs THEN Queued(st[c]) ELSE st[c]]

Request(o, c, e, ch) ==
  [op |-> o, cell |-> c, epoch |-> e, chained |-> ch, at |-> "sent", kernel |-> NoKernel]
AnyCell == CHOOSE c \in Cells : TRUE

Spent == Len(reqs) + Len(chain) + prints
Room(n) == Len(reqs) + Len(chain) + n <= MaxRequests /\ Spent + n <= Budget
MayAsk(o) == o \in Asks /\ Room(1) /\ Len(reqs) - Cardinality(Runs) < MaxAsks
Waiting(c) == st[c].pending
-----------------------------------------------------------------------------
(* The editor: what the user asks.                                         *)

(* A run of the cell may still be told of, which a stop or a restart ends. *)
Ending(c) ==
  /\ retiring # 0
  /\ c \in ToSet(chain) \/ \E r \in Runs : reqs[r].cell = c /\ reqs[r].epoch < retiring

MayRun(c) == Waiting(c) < MaxWaiting /\ (Patient => ~Ending(c))

(* run_cell: the cell is marked and sent once its source is the backend's. *)
RunCell(c) ==
  /\ Room(1) /\ MayRun(c)
  /\ Mark({c})
  /\ reqs' = Append(reqs, Request("execute", c, epoch, FALSE))
  /\ UNCHANGED <<epoch, retiring, started, chain, front, wire, kernel, back, process, channels>>

(* run_chain marks every cell at once ...                                  *)
RunAll ==
  /\ chain = <<>> /\ Room(Len(All)) /\ \A c \in Cells : MayRun(c)
  /\ Mark(ToSet(All))
  /\ chain' = All
  /\ UNCHANGED <<epoch, retiring, started, front, reqs, wire, kernel, back, process, channels>>

(* ... and sends one when the one before was taken.                        *)
ChainWaits == \E r \in Runs : reqs[r].chained /\ reqs[r].at # "done"
AnswerComes == \E i \in 1 .. Len(wire) : wire[i].kind = "answer" /\ reqs[wire[i].run].chained
SendNext ==
  /\ chain # <<>> /\ ~ChainWaits /\ ~AnswerComes
  /\ reqs' = Append(reqs, Request("execute", Head(chain), epoch, TRUE))
  /\ UNCHANGED <<editor, wire, kernel, back, process, channels>>

(* retire: the runs are released now, and until the answer to the request  *)
(* the state events of cells submitted before it do not count.             *)
Retire ==
  /\ epoch' = epoch + 1
  /\ retiring' = epoch + 1
  /\ st' = [c \in Cells |-> Released(st[c])]

Starting == \E r \in 1 .. Len(reqs) : reqs[r].op \in {"start", "restart"} /\ reqs[r].at # "done"

(* stop_kernel, restart_kernel                                             *)
Stop ==
  /\ MayAsk("stop")
  /\ Retire
  /\ started' = FALSE
  /\ reqs' = Append(reqs, Request("stop", AnyCell, epoch + 1, FALSE))
  /\ UNCHANGED <<chain, front, wire, kernel, back, process, channels>>

Restart ==
  /\ MayAsk("restart")
  /\ OneStart => ~Starting
  /\ Retire
  /\ reqs' = Append(reqs, Request("restart", AnyCell, epoch + 1, FALSE))
  /\ UNCHANGED <<started, chain, front, wire, kernel, back, process, channels>>

(* start_kernel: nothing if a kernel was seen to start.                    *)
Start ==
  /\ MayAsk("start")
  /\ ~started
  /\ OneStart => ~Starting /\ kernel = NoKernel
  /\ reqs' = Append(reqs, Request("start", AnyCell, epoch, FALSE))
  /\ UNCHANGED <<editor, wire, kernel, back, process, channels>>

(* clear_cell_output: the editor's own copy goes first.                    *)
Clear(c) ==
  /\ MayAsk("clear")
  /\ front' = [front EXCEPT ![c] = [outs |-> <<>>, count |-> 0]]
  /\ st' = [st EXCEPT ![c] = Cleared(@)]
  /\ reqs' = Append(reqs, Request("clear", c, epoch, FALSE))
  /\ UNCHANGED <<epoch, retiring, started, chain, wire, kernel, back, process, channels>>
-----------------------------------------------------------------------------
(* The backend: each request is a task.                                    *)

(* A task's first step: it reaches for the session's kernel.               *)
TakenUp(r, o) ==
  /\ reqs[r].op \in o /\ reqs[r].at = "sent"
  /\ InOrder => \A q \in 1 .. r - 1 : reqs[q].at # "sent"

Becomes(r, a, k) == reqs' = [reqs EXCEPT ![r].at = a, ![r].kernel = k]
Say(m) == Len(wire) < MaxUnseen /\ wire' = Append(wire, m)
Answer(r, ok) == [kind |-> "answer", run |-> r, ok |-> ok]

(* execute: the run's cell is known before the kernel is sent the request. *)
Execute(r) ==
  /\ TakenUp(r, {"execute"})
  /\ Becomes(r, "done", kernel)
  /\ Say(Answer(r, kernel # NoKernel))
  /\ queue' = IF kernel # NoKernel /\ ~dying THEN Append(queue, r) ELSE queue
  /\ UNCHANGED <<editor, kernel, back, dying, step, prints, channels>>

(* The kernel's process is gone, and what it was running with it.          *)
Gone == dying' = FALSE /\ queue' = <<>> /\ step' = "waits"

(* stop_kernel, alone or as the first half of a restart: no event of the   *)
(* kernel reaches a cell from here on; then it is killed.                  *)
TakeKernel(r) ==
  /\ TakenUp(r, {"stop", "restart"})
  /\ Becomes(r, IF reqs[r].op = "stop" THEN "kill" ELSE "launch", NoKernel)
  /\ kernel' = NoKernel
  /\ Gone
  /\ UNCHANGED <<editor, wire, back, prints, channels>>

Killed(r) ==
  /\ reqs[r].at = "kill"
  /\ Becomes(r, "done", NoKernel)
  /\ Say(Answer(r, TRUE))
  /\ UNCHANGED <<editor, kernel, back, process, channels>>

StartKernel(r) ==
  /\ TakenUp(r, {"start"})
  /\ Becomes(r, "launch", NoKernel)
  /\ UNCHANGED <<editor, wire, kernel, back, process, channels>>

(* The end of a launch: the new kernel takes the session's slot, and the   *)
(* one it finds there is killed.                                           *)
Launched(r) ==
  /\ reqs[r].at = "launch"
  /\ \/ /\ Becomes(r, "done", r)
        /\ kernel' = r
        /\ Gone
        /\ Say(Answer(r, TRUE))
     \/ /\ Becomes(r, "done", NoKernel)
        /\ Say(Answer(r, FALSE))
        /\ UNCHANGED <<kernel, dying, queue, step>>
  /\ UNCHANGED <<editor, back, prints, channels>>

(* clear_cell_output                                                       *)
ClearCell(r) ==
  /\ TakenUp(r, {"clear"})
  /\ Becomes(r, "done", NoKernel)
  /\ back' = [back EXCEPT ![reqs[r].cell].outs = <<>>, ![reqs[r].cell].count = 0,
                          ![reqs[r].cell].start = 0, ![reqs[r].cell].end = 0]
  /\ Say(Answer(r, TRUE))
  /\ UNCHANGED <<editor, kernel, process, channels>>

(* kernel_exited: unless the kernel was stopped or replaced meanwhile.     *)
KernelExited ==
  /\ dying
  /\ kernel' = NoKernel
  /\ Gone
  /\ Say([kind |-> "exited"])
  /\ UNCHANGED <<editor, reqs, back, prints, channels>>
-----------------------------------------------------------------------------
(* The backend: the kernel's events.                                       *)

(* stamp_end needs the start, and the first end stays.                     *)
Stamped(b, r) == IF b.start # 0 /\ b.end = 0 THEN [b EXCEPT !.end = r] ELSE b

(* The idle comes on the channel of the execute_input, after it.           *)
AtIdle(b, r) == Stamped(b, r)

(* apply_event on a cell: the clear a clear_output(wait) asked for comes   *)
(* with the next output.                                                   *)
Applied(b, e) ==
  CASE e.kind = "input" -> [b EXCEPT !.outs = <<>>, !.count = e.run, !.wait = FALSE,
                                     !.start = e.run, !.end = 0]
    [] e.kind = "busy" -> b
    [] e.kind = "idle" -> AtIdle(b, e.run)
    [] e.kind = "reply" -> [Stamped(b, e.run) EXCEPT !.count = IF @ = 0 /\ e.ran THEN e.run ELSE @]
    [] e.kind = "wait" -> [b EXCEPT !.wait = TRUE]
    [] e.kind = "clear" -> [b EXCEPT !.outs = <<>>]
    [] e.kind = "output" -> [b EXCEPT !.outs = Append(IF b.wait THEN <<>> ELSE @, e.run),
                                      !.wait = FALSE]

(* Mutant of Note: the editor keeps track of the clears by itself.         *)
NotePlain(b, e) == [kind |-> "event", event |-> e, first |-> FALSE]

(* What the editor is sent: the event, and whether an output clears first. *)
Note(b, e) == [kind |-> "event", event |-> e, first |-> (e.kind = "output" /\ b.wait)]

(* pump_event looks at the kernel's generation under its lock.             *)
Current(k) == kernel = k

Pump(e) ==
  LET r == e.run
      c == reqs[r].cell
  IN  IF Current(reqs[r].kernel)
      THEN /\ back' = [back EXCEPT ![c] = Applied(@, e)]
           /\ Say(Note(back[c], e))
      ELSE UNCHANGED <<back, wire>>

PumpIopub ==
  /\ iopub # <<>>
  /\ Pump(Head(iopub))
  /\ iopub' = Tail(iopub)
  /\ UNCHANGED <<editor, reqs, kernel, process, shell>>

PumpShell ==
  /\ shell # <<>>
  /\ Pump(Head(shell))
  /\ shell' = Tail(shell)
  /\ UNCHANGED <<editor, reqs, kernel, process, iopub>>
-----------------------------------------------------------------------------
(* The editor: what it is sent.                                            *)

(* Mutant of Stale: the events of a kernel being stopped count.            *)
StaleNever(c) == FALSE

Stale(c) == retiring # 0 /\ st[c].epoch < retiring

(* Notebook:apply_cell_event on the cell's run state and on its outputs.   *)
State(s, e) ==
  CASE e.kind = "input" -> [Taken(s, "input") EXCEPT !.state = "busy"]
    [] e.kind = "busy" -> [Taken(s, "busy") EXCEPT !.state = "busy"]
    [] e.kind = "idle" -> [s EXCEPT !.run = "no", !.state = IF s.pending > 0 THEN "queued" ELSE "idle"]
    [] OTHER -> s

Shown(f, e, first) ==
  CASE e.kind = "input" -> [outs |-> <<>>, count |-> e.run]
    [] e.kind = "reply" -> [f EXCEPT !.count = IF @ = 0 /\ e.ran THEN e.run ELSE @]
    [] e.kind = "clear" -> [f EXCEPT !.outs = <<>>]
    [] e.kind = "output" -> [f EXCEPT !.outs = Append(IF first THEN <<>> ELSE @, e.run)]
    [] OTHER -> f

CellEvent ==
  /\ wire # <<>> /\ Head(wire).kind = "event"
  /\ LET m == Head(wire)
         c == reqs[m.event.run].cell
     IN  /\ front' = [front EXCEPT ![c] = Shown(@, m.event, m.first)]
         /\ st' = IF Stale(c) THEN st ELSE [st EXCEPT ![c] = State(@, m.event)]
  /\ wire' = Tail(wire)
  /\ UNCHANGED <<epoch, retiring, started, chain, reqs, kernel, back, process, channels>>

(* The callback of an execute: a refusal takes the submission back, and    *)
(* with it those of the rest of a "run all".                               *)

RunAnswered(r, ok) ==
  /\ chain' = IF reqs[r].chained THEN (IF ok THEN Tail(chain) ELSE <<>>) ELSE chain
  /\ st' = IF ok THEN st
           ELSE [c \in Cells |->
                   IF reqs[r].chained THEN (IF c \in ToSet(chain) THEN Unqueued(st[c]) ELSE st[c])
                   ELSE IF c = reqs[r].cell THEN Unqueued(st[c]) ELSE st[c]]
  /\ UNCHANGED <<retiring, started>>

(* The callback of a stop or a restart (Notebook:retired) and of a start.  *)
AskAnswered(r, ok) ==
  /\ retiring' = IF reqs[r].op \in {"stop", "restart"} /\ retiring = reqs[r].epoch
                 THEN 0 ELSE retiring
  /\ started' = (started \/ (reqs[r].op = "start" /\ ok))
  /\ UNCHANGED <<st, chain>>

Answered ==
  /\ wire # <<>> /\ Head(wire).kind = "answer"
  /\ LET m == Head(wire) IN
       IF reqs[m.run].op = "execute" THEN RunAnswered(m.run, m.ok) ELSE AskAnswered(m.run, m.ok)
  /\ wire' = Tail(wire)
  /\ UNCHANGED <<epoch, front, reqs, kernel, back, process, channels>>

(* _handle_kernel_event: the kernel died.                                  *)
Exited ==
  /\ wire # <<>> /\ Head(wire).kind = "exited"
  /\ started' = FALSE
  /\ st' = [c \in Cells |-> Released(st[c])]
  /\ wire' = Tail(wire)
  /\ UNCHANGED <<epoch, retiring, chain, front, reqs, kernel, back, process, channels>>
-----------------------------------------------------------------------------
(* The kernel: runs one after the other, on iopub what they print between  *)
(* a busy and an idle, on the shell channel the reply.  An aborted run     *)
(* has no execute_input.                                                   *)
Event(k, r) == [kind |-> k, run |-> r]
Reply(r, ran) == [kind |-> "reply", run |-> r, ran |-> ran]
Up == kernel # NoKernel /\ ~dying
MayPublish == Up /\ Len(iopub) + Len(shell) < MaxUnread

KernelBegins ==
  /\ MayPublish /\ queue # <<>> /\ step = "waits"
  /\ LET r == Head(queue) IN
       \/ /\ iopub' = iopub \o <<Event("busy", r), Event("input", r)>>
          /\ step' = "runs"
          /\ UNCHANGED <<queue, shell>>
       \/ /\ iopub' = iopub \o <<Event("busy", r), Event("idle", r)>>
          /\ shell' = Append(shell, Reply(r, FALSE))
          /\ queue' = Tail(queue)
          /\ UNCHANGED step
  /\ UNCHANGED <<editor, reqs, wire, kernel, back, dying, prints>>

KernelPrints(k) ==
  /\ MayPublish /\ step = "runs" /\ prints < MaxPrints /\ Spent < Budget
  /\ iopub' = Append(iopub, Event(k, Head(queue)))
  /\ prints' = prints + 1
  /\ UNCHANGED <<editor, reqs, wire, kernel, back, dying, queue, step, shell>>

KernelEnds ==
  /\ MayPublish /\ step = "runs"
  /\ iopub' = Append(iopub, Event("idle", Head(queue)))
  /\ shell' = Append(shell, Reply(Head(queue), TRUE))
  /\ queue' = Tail(queue)
  /\ step' = "waits"
  /\ UNCHANGED <<editor, reqs, wire, kernel, back, dying, prints>>

KernelDies ==
  /\ Deaths /\ Up
  /\ dying' = TRUE
  /\ queue' = <<>> /\ step' = "waits"
  /\ UNCHANGED <<editor, reqs, wire, kernel, back, prints, channels>>
-----------------------------------------------------------------------------
User ==
  \/ \E c \in Cells : RunCell(c) \/ Clear(c)
  \/ RunAll \/ Stop \/ Restart \/ Start

Editor == SendNext \/ CellEvent \/ Answered \/ Exited

Backend ==
  \/ \E r \in 1 .. Len(reqs) :
       Execute(r) \/ TakeKernel(r) \/ Killed(r) \/ StartKernel(r) \/ Launched(r) \/ ClearCell(r)
  \/ KernelExited \/ PumpIopub \/ PumpShell

KernelSteps ==
  KernelBegins \/ KernelEnds \/ KernelDies \/ \E k \in {"output", "clear", "wait"} : KernelPrints(k)

Next == User \/ Editor \/ Backend \/ KernelSteps

Spec == Init /\ [][Next]_vars
-----------------------------------------------------------------------------
(* Nothing is on its way anywhere and the kernel waits.                    *)
Quiet ==
  /\ wire = <<>> /\ chain = <<>> /\ iopub = <<>> /\ shell = <<>>
  /\ queue = <<>> /\ ~dying
  /\ \A r \in 1 .. Len(reqs) : reqs[r].at = "done"

Unclear == \A r \in 1 .. Len(reqs) : reqs[r].op # "clear"

(* No cell waits or runs for good: whatever became of its runs - ended,    *)
(* aborted, refused, killed by a stop or a restart, lost with a kernel     *)
(* that died - once nothing is on its way every badge is at rest.          *)
CellsSettle ==
  Quiet => \A c \in Cells : st[c].state = "idle" /\ st[c].pending = 0 /\ st[c].run = "no"

(* Submissions of a cell the editor has not seen the kernel take: not sent *)
(* yet, at the backend, at the kernel, or with their busy or their refusal *)
(* on the way.                                                             *)
Owed(c) ==
  LET Of(r) == reqs[r].cell = c
      Seen(s) == Cardinality({i \in 1 .. Len(s) : s[i].kind = "busy" /\ Of(s[i].run)})
      Told == Cardinality({i \in 1 .. Len(wire) :
                CASE wire[i].kind = "event" -> wire[i].event.kind = "busy" /\ Of(wire[i].event.run)
                  [] wire[i].kind = "answer" -> /\ wire[i].run \in Runs /\ Of(wire[i].run)
                                                /\ ~wire[i].ok
                  [] OTHER -> FALSE})
      Ahead == Cardinality({i \in 1 .. Len(queue) : (i = 1 => step = "waits") /\ Of(queue[i])})
      Sent == Cardinality({r \in Runs : reqs[r].at = "sent" /\ Of(r)})
      \* the head of the chain may be on its way already
      Later == Cardinality({i \in 1 .. Len(chain) :
                 (i = 1 => ~ChainWaits /\ ~AnswerComes) /\ chain[i] = c})
  IN  Seen(iopub) + Told + Ahead + Sent + Later

Undisturbed == epoch = 0 /\ kernel = 0 /\ ~dying

DeathTold == ~dying /\ \A i \in 1 .. Len(wire) : wire[i].kind # "exited"

(* The count of a cell's waiting submissions never exceeds those really    *)
(* on their way, unless a kernel just died with them; and it is exact while*)
(* the kernel lives, however often and closely the cell is submitted.      *)
PendingIsOwed ==
  \A c \in Cells : /\ DeathTold => st[c].pending <= Owed(c)
                   /\ Undisturbed => st[c].pending = Owed(c)

(* When the editor has handled all it was sent, the badge of a cell says   *)
(* what the kernel does with it: it runs, it waits, or neither.            *)
BadgesTrue ==
  (Undisturbed /\ wire = <<>> /\ iopub = <<>> /\ chain = <<>>
   /\ \A r \in Runs : reqs[r].at = "done") =>
    \A c \in Cells :
      st[c].state = IF step = "runs" /\ reqs[Head(queue)].cell = c THEN "busy"
                    ELSE IF \E i \in 1 .. Len(queue) : reqs[queue[i]].cell = c THEN "queued"
                    ELSE "idle"

(* What the editor shows of a cell is what the backend saves, across the   *)
(* two channels of the kernel and deferred clears, when nobody cleared     *)
(* outputs by hand.                                                        *)
MirrorAgrees ==
  (Quiet /\ Unclear) =>
    \A c \in Cells : front[c] = [outs |-> back[c].outs, count |-> back[c].count]

(* A run that was let end has its end recorded beside its start, on        *)
(* whichever channel its end came first.                                   *)
RunsAreTimed ==
  (Quiet /\ Unclear) =>
    \A c \in Cells : (back[c].start # 0 /\ reqs[back[c].start].kernel = kernel) => back[c].end # 0

(* What the editor shows of a cell is true at rest: its badge, and beside  *)
(* each start of a run an end.                                             *)
CellInv == TypeOK /\ BadgesTrue /\ RunsAreTimed

(* The end recorded beside a start is that run's own.                      *)
EndIsOfItsRun == \A c \in Cells : back[c].end # 0 => back[c].end = back[c].start

(* A start the user asks for without naming a kernel replaces none.        *)
StartSparesKernel ==
  [][\A r \in 1 .. Len(reqs) :
       (reqs[r].op = "start" /\ kernel' = r /\ kernel # r) => kernel = NoKernel]_vars
=============================================================================
