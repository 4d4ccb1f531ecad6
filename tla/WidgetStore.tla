----------------------------- MODULE WidgetStore ----------------------------
(***************************************************************************)
(* The widget store of a session (core/src/widgets.rs), the tasks that use *)
(* it (core/src/rpc/widget.rs, rpc/exec.rs) and the step of the event pump *)
(* that feeds it (session.rs, widget_pre).  The store is locked for each   *)
(* call; the effects a call returns run after the unlock, so those of two  *)
(* tasks interleave.                                                       *)
(*                                                                         *)
(* A value is a set of pieces.  The n-th message the store makes for a     *)
(* model is <<model, n>>.  Copies along links are made one step at a time  *)
(* by the task that holds the lock.  Left out: the attributes' buffers,    *)
(* which travel with the values; the cell a message names; what Lua is     *)
(* told of each change.                                                    *)
(***************************************************************************)
EXTENDS Integers, Sequences, FiniteSets, SequencesExt

CONSTANTS Outs,          \* the Output widgets
          Sliders,       \* the other models
          Attrs,         \* the attributes of those
          Links,         \* the link models
          Ends,          \* the ends a link may have
          Pieces,        \* what a value is made of
          Parents,       \* requests a capture may be for
          None,
          LinkStepLimit, \* the most copies one change may set off
          MaxGen,        \* bound: kernels started after the first
          Budget         \* bound: steps of the frontend and of the kernel's code

Actors == {"reader", "pump", "timer", "run"}

ASSUME StoreAssumption ==
  /\ Outs \cap Sliders = {} /\ None \notin Outs \cup Sliders \cup Links \cup Parents \cup Actors
  /\ None \notin [Attrs -> SUBSET Pieces] \cup [{"outputs"} -> SUBSET Pieces]
  /\ None \notin Ends /\ LinkStepLimit \in Nat /\ MaxGen \in Nat /\ Budget \in Nat
  /\ IsFiniteSet(Attrs)
  \* what a link's ends name of a model is an attribute it has
  /\ \A e \in Ends : \A p \in {e.source, e.target} :
       p.model \in Outs \cup Sliders => p.attr \in IF p.model \in Outs THEN {"outputs"} ELSE Attrs

Models == Outs \cup Sliders
Vals == SUBSET Pieces
AttrsOf(m) == IF m \in Outs THEN {"outputs"} ELSE Attrs
Updates == UNION {[s -> Vals] : s \in SUBSET (Attrs \cup {"outputs"})}
Nothing == [x \in {} |-> {}]

(* Vec::retain, and a filter: of s what is in T, in its order.             *)
Kept(s, T) ==
  LET f[i \in 0..Len(s)] ==
        IF i = 0 THEN <<>> ELSE IF s[i] \in T THEN Append(f[i - 1], s[i]) ELSE f[i - 1]
  IN  f[Len(s)]

Ids == Models \X Nat

VARIABLES
  \* the store: its models
  gen, st, val, expect, inflight, pending, infl, ours,
  next,                   \* how many messages were made for a model
  \* the Output widgets
  msgid, capture, waiting, clearing, armed, flight,
  recent,                 \* the last flush went out less than OUTPUT_FLUSH ago
  \* the links
  links,                  \* the connected ones, in the order of link_index
  ends,
  \* the lock and the copies along links its holder still makes
  holder, apply, todo, steps,
  \* the tasks
  fx,                     \* a task's effects still to run
  checks,                 \* CheckInflightAfter timers
  timers,                 \* FlushOutputsAfter timers of a widget
  aged,                   \* messages up to this one are older than INFLIGHT_TIMEOUT
  sender,                 \* comm_tx is there
  \* the kernel
  kgen, kval, kmsg, shell, iopub,
  opened,                 \* models a kernel opened
  budget

modelVars == <<st, val, msgid>>
updVars == <<expect, inflight, pending>>
idVars == <<infl, ours, next>>
outVars == <<waiting, armed, flight, recent>>
captureVars == <<capture, clearing>>
linkVars == <<links, ends>>
lockVars == <<holder, apply, todo, steps>>
timeVars == <<checks, timers, aged>>
kernelVars == <<kgen, kval, kmsg, shell, iopub, opened>>
vars == <<gen, modelVars, updVars, idVars, outVars, captureVars, linkVars, lockVars, fx,
          timeVars, sender, kernelVars, budget>>
-----------------------------------------------------------------------------
Live(m) == m \in Models /\ st[m] = "live"
Blank(m) == [x \in AttrsOf(m) |-> {}]

(* load_saved: the models of the notebook are there, dead.                 *)
Init ==
  /\ gen = 0 /\ st \in [Models -> {"none", "dead"}]
  /\ val = [m \in Models |-> Blank(m)]
  /\ expect = [m \in Models |-> [x \in AttrsOf(m) |-> 0]]
  /\ inflight = [m \in Models |-> 0] /\ pending = [m \in Models |-> Nothing]
  /\ infl = {} /\ ours = {} /\ next = [m \in Models |-> 0]
  /\ msgid = [o \in Outs |-> None] /\ capture = [p \in Parents |-> <<>>]
  /\ waiting = {} /\ clearing = {} /\ armed = {} /\ recent = {}
  /\ flight = [o \in Outs |-> 0]
  /\ links = <<>> /\ ends = [l \in Links |-> None]
  /\ holder = None /\ apply = <<>> /\ todo = <<>> /\ steps = 0
  /\ fx = [a \in Actors |-> <<>>]
  /\ checks = {} /\ timers = [o \in Outs |-> 0] /\ aged = [m \in Models |-> 0]
  /\ sender = TRUE
  /\ kgen = 0 /\ kval = [m \in Models |-> None] /\ kmsg = [o \in Outs |-> None]
  /\ shell = <<>> /\ iopub = <<>> /\ opened = {} /\ budget = Budget
-----------------------------------------------------------------------------
(* What a call to the store does, in parts.                                *)

(* A task calls the store when its last effects ran and the lock is free.  *)
Locks(a) == holder = None /\ fx[a] = <<>>

Merge(upd, old) == [x \in DOMAIN upd \cup DOMAIN old |-> IF x \in DOMAIN upd THEN upd[x] ELSE old[x]]

Message(m, n, kind, upd) == [kind |-> kind, model |-> m, n |-> n, upd |-> upd]
Send(msgs) == [do |-> "send", msgs |-> msgs]
Check(m, n) == [do |-> "check", id |-> <<m, n>>]
FlushLater(S) == [do |-> "flush", of |-> S]

(* What a call changed before it sends anything.                           *)
Base == [infl |-> infl, ours |-> ours, flight |-> flight, armed |-> armed]

(* The update in flight is waited for.                                     *)
Held(m) == inflight[m] > aged[m]

(* The Output widgets whose captures flush_before_request sends.           *)
Flushable == {o \in waiting : flight[o] = 0}

(* The number of a message made for m once the widgets F were flushed.     *)
OwnId(F, m) == next[m] + IF m \in F THEN 2 ELSE 1

(* send_outputs for the widgets F; then, unless m is None, a message to m. *)
Emit(a, b, F, m, kind, upd, more) ==
  LET mine == {<<n, OwnId(F, n)>> : n \in {m} \ {None}}
      flushed == {<<o, next[o] + 1>> : o \in F}
      flush(o) == Message(o, next[o] + 1, "flush", [x \in {"outputs"} |-> val'[o][x]])
  IN /\ next' = [n \in Models |-> next[n] + (IF n = m THEN 1 ELSE 0) + (IF n \in F THEN 1 ELSE 0)]
     /\ expect' = [n \in Models |-> [x \in AttrsOf(n) |->
          CASE n = m /\ x \in DOMAIN upd -> OwnId(F, m)
            [] ~(n = m /\ x \in DOMAIN upd) /\ n \in F -> next[n] + 1
            [] OTHER -> expect[n][x]]]
     /\ waiting' = waiting \ F /\ recent' = recent \cup F
     /\ flight' = [o \in Outs |-> IF o \in F THEN next[o] + 1 ELSE b.flight[o]]
     /\ infl' = b.infl \cup flushed \cup (IF kind = "update" THEN mine ELSE {})
     /\ ours' = b.ours \cup flushed \cup mine
     /\ armed' = b.armed
     /\ fx' = [fx EXCEPT ![a] = @ \o (IF F = {} THEN <<>> ELSE <<Send({flush(o) : o \in F})>>)
                                  \o (IF m = None THEN <<>>
                                      ELSE <<Send({Message(m, OwnId(F, m), kind, upd)})>>)
                                  \o more]

(* Nothing is sent.                                                        *)
EmitNone(b) ==
  /\ infl' = b.infl /\ ours' = b.ours /\ flight' = b.flight /\ armed' = b.armed
  /\ UNCHANGED <<next, expect, waiting, recent, fx>>

(* paced_flush: now, with the cadence's timer, or not at all.              *)
PacedFlush(a, b, o) ==
  IF o \notin waiting \/ b.flight[o] # 0 \/ (o \in recent /\ o \in b.armed) THEN EmitNone(b)
  ELSE IF o \in recent
  THEN Emit(a, [b EXCEPT !.armed = @ \cup {o}], {}, None, "none", Nothing, <<FlushLater({o})>>)
  ELSE Emit(a, b, {o}, None, "none", Nothing, <<>>)

(* send_update.                                                            *)
SendUpdate(a, b, m, upd) ==
  LET n == OwnId(Flushable, m)
  IN /\ inflight' = [inflight EXCEPT ![m] = n]
     /\ Emit(a, [b EXCEPT !.infl = @ \ {<<m, inflight[m]>>}], Flushable, m, "update", upd,
             <<Check(m, n)>>)

(* queue_for_kernel.                                                       *)
QueueForKernel(a, m, upd) ==
  IF Held(m)
  THEN /\ pending' = [pending EXCEPT ![m] = Merge(upd, @)]
       /\ EmitNone(Base) /\ UNCHANGED inflight
  ELSE /\ pending' = [pending EXCEPT ![m] = Nothing]
       /\ SendUpdate(a, Base, m, Merge(upd, pending[m]))

(* Mutant of Release: what was held meanwhile stays held.                  *)
ReleaseOnly(a, b, m, n) ==
  /\ EmitNone([b EXCEPT !.infl = @ \ {<<m, n>>}]) /\ UNCHANGED pending
  /\ inflight' = IF inflight[m] = n THEN [inflight EXCEPT ![m] = 0] ELSE inflight

(* release: the update <<m, n>> is done, answered or timed out.            *)
Release(a, b, m, n) ==
  LET c == [b EXCEPT !.infl = @ \ {<<m, n>>}]
  IN IF inflight[m] # n THEN EmitNone(c) /\ UNCHANGED <<inflight, pending>>
     ELSE IF pending[m] = Nothing
     THEN EmitNone(c) /\ inflight' = [inflight EXCEPT ![m] = 0] /\ UNCHANGED pending
     ELSE /\ pending' = [pending EXCEPT ![m] = Nothing]
          /\ SendUpdate(a, c, m, pending[m])
-----------------------------------------------------------------------------
(* Links.  link_index: the links that name m as an end.                    *)
Naming(m) ==
  Kept(links, {l \in Links : ends[l] # None /\ m \in {ends[l].source.model, ends[l].target.model}})

(* follow_change: the changed attributes of m go on along its links.       *)
FollowChange(a, m, changed) ==
  /\ todo' = IF Naming(m) = <<>> THEN <<>>
             ELSE [i \in 1..Cardinality(changed) |->
                    [model |-> m, attr |-> SetToSeq(changed)[i], left |-> Naming(m)]]
  /\ holder' = IF todo' = <<>> THEN None ELSE a
  /\ steps' = 0 /\ UNCHANGED apply

Unlocks == holder' = IF apply' = <<>> /\ todo' = <<>> THEN None ELSE holder

(* copy_attr; what changed goes on after the rest of the queue.            *)
CopyAttr(from, to, rest) ==
  IF Live(to.model) /\ val[to.model][to.attr] # val[from.model][from.attr]
  THEN /\ val' = [val EXCEPT ![to.model][to.attr] = val[from.model][from.attr]]
       /\ QueueForKernel(holder, to.model, [x \in {to.attr} |-> val[from.model][from.attr]])
       /\ todo' = Append(rest, [model |-> to.model, attr |-> to.attr, left |-> Naming(to.model)])
  ELSE todo' = rest /\ UNCHANGED <<val, updVars, idVars, outVars, fx>>

LockKeeps == UNCHANGED <<gen, st, msgid, captureVars, linkVars, timeVars, sender, kernelVars, budget>>

(* apply_link: source to target, once both are connected.                  *)
ApplyLink ==
  /\ apply # <<>> /\ todo = <<>>
  /\ apply' = Tail(apply) /\ steps' = 0
  /\ LET e == ends[Head(apply)]
     IN IF Live(e.source.model) /\ Live(e.target.model) THEN CopyAttr(e.source, e.target, <<>>)
        ELSE UNCHANGED <<todo, val, updVars, idVars, outVars, fx>>
  /\ Unlocks /\ LockKeeps

(* Which way the link l copies a change of the attribute.                  *)
Copies(l, m, x) ==
  LET e == ends[l] end == [model |-> m, attr |-> x]
  IN IF e.source = end THEN <<e.source, e.target>>
     ELSE IF e.both /\ e.target = end THEN <<e.target, e.source>> ELSE <<>>

AtLimit == steps = LinkStepLimit

(* propagate: the next link of the first change, or the next change.       *)
Propagate ==
  /\ todo # <<>>
  /\ LET i == Head(todo)
         way == IF i.left = <<>> THEN <<>> ELSE Copies(Head(i.left), i.model, i.attr)
         rest == IF i.left = <<>> THEN Tail(todo)
                 ELSE <<[i EXCEPT !.left = Tail(@)]>> \o Tail(todo)
     IN IF way = <<>>
        THEN todo' = rest /\ UNCHANGED <<steps, val, updVars, idVars, outVars, fx>>
        ELSE IF AtLimit
        THEN todo' = <<>> /\ UNCHANGED <<steps, val, updVars, idVars, outVars, fx>>
        ELSE steps' = steps + 1 /\ CopyAttr(way[1], way[2], rest)
  /\ UNCHANGED apply /\ Unlocks /\ LockKeeps
-----------------------------------------------------------------------------
(* The event pump: widget_pre.                                             *)

Current(e) == e.gen = gen

Event(kind) ==
  /\ Locks("pump") /\ iopub # <<>>
  /\ Head(iopub).kind = kind /\ Current(Head(iopub))
  /\ iopub' = Tail(iopub)
  /\ UNCHANGED <<gen, timeVars, sender, kgen, kval, kmsg, shell, opened, budget>>

(* A comm message for a model that is not connected is dropped.            *)
Drops == UNCHANGED <<modelVars, updVars, idVars, outVars, captureVars, linkVars, lockVars, fx>>

StaleEvent ==
  /\ Locks("pump") /\ iopub # <<>> /\ ~Current(Head(iopub))
  /\ iopub' = Tail(iopub)
  /\ Drops /\ UNCHANGED <<gen, timeVars, sender, kgen, kval, kmsg, shell, opened, budget>>

Without(o) == [p \in Parents |-> Kept(capture[p], Outs \ {o})]

(* drop_model, and Model::blank for one that is opened.                    *)
DropModel(m) ==
  /\ waiting' = waiting \ {m} /\ infl' = {id \in infl : id[1] # m}
  /\ expect' = [expect EXCEPT ![m] = [x \in AttrsOf(m) |-> 0]]
  /\ inflight' = [inflight EXCEPT ![m] = 0] /\ pending' = [pending EXCEPT ![m] = Nothing]
  /\ clearing' = clearing \ {m} /\ armed' = armed \ {m} /\ recent' = recent \ {m}
  /\ flight' = [o \in Outs |-> IF o = m THEN 0 ELSE flight[o]]
  /\ UNCHANGED <<ours, next, fx>>

CommOpen ==
  LET e == Head(iopub) m == e.model
  IN /\ Event("open") /\ DropModel(m)
     /\ st' = [st EXCEPT ![m] = "live"] /\ val' = [val EXCEPT ![m] = e.upd]
     /\ msgid' = [o \in Outs |-> IF o = m THEN None ELSE msgid[o]]
     /\ capture' = Without(m)
     /\ apply' = Naming(m) /\ holder' = IF apply' = <<>> THEN None ELSE "pump"
     /\ UNCHANGED <<todo, steps, linkVars>>

CommClose ==
  LET m == Head(iopub).model
  IN /\ Event("close")
     /\ IF st[m] = "none" THEN Drops
        ELSE /\ DropModel(m) /\ st' = [st EXCEPT ![m] = "none"] /\ capture' = Without(m)
             /\ val' = [val EXCEPT ![m] = Blank(m)]
             /\ msgid' = [o \in Outs |-> IF o = m THEN None ELSE msgid[o]]
             /\ UNCHANGED <<linkVars, lockVars>>

(* A link model opens, or its ends change: relink.                         *)
LinkOpen ==
  LET l == Head(iopub).model
  IN /\ Event("link")
     /\ ends' = [ends EXCEPT ![l] = Head(iopub).upd]
     /\ links' = Append(Kept(links, Links \ {l}), l)
     /\ apply' = <<l>> /\ holder' = "pump"
     /\ UNCHANGED <<todo, steps, modelVars, updVars, idVars, outVars, captureVars, fx>>

LinkClose ==
  LET l == Head(iopub).model
  IN /\ Event("unlink")
     /\ links' = Kept(links, Links \ {l}) /\ ends' = [ends EXCEPT ![l] = None]
     /\ UNCHANGED <<modelVars, updVars, idVars, outVars, captureVars, lockVars, fx>>

KernelUpdate ==
  LET e == Head(iopub)
  IN /\ Event("update")
     /\ IF ~Live(e.model) THEN Drops
        ELSE /\ val' = [val EXCEPT ![e.model] = Merge(e.upd, @)]
             /\ FollowChange("pump", e.model, DOMAIN e.upd)
             /\ UNCHANGED <<st, msgid, updVars, idVars, outVars, captureVars, linkVars, fx>>

(* The msg_id of an Output widget changes: capture_changed.                *)
CaptureUpdate ==
  LET e == Head(iopub) o == e.model
  IN /\ Event("capture")
     /\ IF ~Live(o) \/ msgid[o] = e.parent THEN Drops
        ELSE /\ msgid' = [msgid EXCEPT ![o] = e.parent]
             /\ capture' = IF e.parent = None THEN Without(o)
                           ELSE [Without(o) EXCEPT ![e.parent] = Append(@, o)]
             /\ UNCHANGED val
             /\ IF msgid[o] # None THEN PacedFlush("pump", Base, o) ELSE EmitNone(Base)
             /\ UNCHANGED <<st, inflight, pending, clearing, linkVars, lockVars>>

(* kernel_echo: the attributes of an echo that are applied.                *)
EchoMatches(e, x) == expect[e.model][x] = e.n

(* Mutant of EchoApplies: held changes are not looked at.                  *)
EchoAppliesHeld(e, x) == expect[e.model][x] = 0 \/ EchoMatches(e, x)

(* Mutant of EchoApplies: an echo of ours only ends the expectation.       *)
EchoAppliesOthers(e, x) == expect[e.model][x] = 0

EchoApplies(e, x) ==
  \/ expect[e.model][x] = 0
  \/ /\ EchoMatches(e, x) /\ x \notin DOMAIN pending[e.model]
     /\ x = "outputs" => e.model \notin waiting

KernelEcho ==
  LET e == Head(iopub) m == e.model
      applied == {x \in DOMAIN e.upd : EchoApplies(e, x) /\ val[m][x] # e.upd[x]}
  IN /\ Event("echo")
     /\ IF ~Live(m) THEN Drops
        ELSE /\ expect' = [expect EXCEPT ![m] = [x \in AttrsOf(m) |->
                  IF x \in DOMAIN e.upd /\ EchoMatches(e, x) THEN 0 ELSE expect[m][x]]]
             /\ val' = [val EXCEPT ![m] = [x \in AttrsOf(m) |-> IF x \in applied THEN e.upd[x] ELSE @[x]]]
             /\ IF applied = {} THEN UNCHANGED lockVars ELSE FollowChange("pump", m, applied)
             /\ UNCHANGED <<st, msgid, inflight, pending, idVars, outVars, captureVars, linkVars, fx>>

(* on_idle.                                                                *)
Idle ==
  LET e == Head(iopub) m == e.model id == <<m, e.n>>
      b == [Base EXCEPT !.ours = @ \ {id}]
  IN /\ Event("idle") /\ UNCHANGED val
     /\ IF id \notin infl THEN EmitNone(b) /\ UNCHANGED <<inflight, pending>>
        ELSE IF m \in Outs /\ flight[m] = e.n
        THEN /\ PacedFlush("pump", [b EXCEPT !.infl = @ \ {id}, !.flight[m] = 0], m)
             /\ UNCHANGED <<inflight, pending>>
        ELSE Release("pump", b, m, e.n)
     /\ UNCHANGED <<st, msgid, captureVars, linkVars, lockVars>>

(* The Output widget that captures what is printed for the request p.      *)
Captor(p) == {o \in Outs : capture[p] # <<>> /\ o = Last(capture[p]) /\ Live(o)}

(* The outputs of the widgets S changed: route_output, update_display.     *)
Captured(S) ==
  LET arm == {o \in S : o \notin armed /\ flight[o] = 0}
  IN /\ waiting' = waiting \cup S /\ armed' = armed \cup arm
     /\ fx' = [fx EXCEPT !["pump"] = IF arm = {} THEN <<>> ELSE <<FlushLater(arm)>>]
     /\ UNCHANGED <<st, msgid, updVars, idVars, flight, recent, capture, linkVars, lockVars>>

Printed(o, piece) == {piece} \cup IF o \in clearing THEN {} ELSE val[o]["outputs"]

RouteOutput ==
  LET e == Head(iopub) S == Captor(e.parent)
  IN /\ Event("stream") /\ Captured(S)
     /\ val' = [m \in Models |-> IF m \in S THEN [x \in {"outputs"} |-> Printed(m, e.n)] ELSE val[m]]
     /\ clearing' = clearing \ S

RouteClear ==
  LET e == Head(iopub) S == Captor(e.parent)
  IN /\ Event("clear") /\ Captured(S)
     /\ val' = [m \in Models |-> IF m \in S /\ ~e.upd THEN [x \in {"outputs"} |-> {}] ELSE val[m]]
     /\ clearing' = IF e.upd THEN clearing \cup S ELSE clearing \ S

(* The piece a display_id stands for is replaced wherever it is shown.     *)
UpdateDisplay ==
  LET e == Head(iopub) S == {o \in Outs : Live(o) /\ e.n \in val[o]["outputs"]}
  IN /\ Event("display") /\ Captured(S)
     /\ val' = [m \in Models |-> IF m \in S
                  THEN [x \in {"outputs"} |-> (val[m][x] \ {e.n}) \cup {e.upd}] ELSE val[m]]
     /\ UNCHANGED clearing
-----------------------------------------------------------------------------
(* The frontend's calls, on the reader, and a run's flush of the captures. *)
(* The frontend draws no control for an Output widget.                     *)

(* frontend_update.                                                        *)
FrontendUpdate(m, x, v) ==
  /\ Locks("reader") /\ sender /\ Live(m) /\ budget > 0
  /\ budget' = budget - 1
  /\ val' = [val EXCEPT ![m][x] = v]
  /\ QueueForKernel("reader", m, [y \in {x} |-> v])
  /\ FollowChange("reader", m, {x})
  /\ UNCHANGED <<gen, st, msgid, captureVars, linkVars, timeVars, sender, kernelVars>>

(* frontend_custom.                                                        *)
FrontendCustom(m) ==
  /\ Locks("reader") /\ sender /\ Live(m) /\ budget > 0
  /\ budget' = budget - 1 /\ UNCHANGED val
  /\ Emit("reader", Base, Flushable, m, "custom", Nothing, <<>>)
  /\ UNCHANGED <<gen, st, msgid, inflight, pending, captureVars, linkVars, lockVars, timeVars,
                 sender, kernelVars>>

(* execute and execute_silent: the captures, then the request.             *)
Execute ==
  /\ Locks("run") /\ sender /\ budget > 0
  /\ budget' = budget - 1 /\ UNCHANGED val
  /\ Emit("run", Base, Flushable, None, "none", Nothing,
          <<Send({Message(None, 0, "execute", Nothing)})>>)
  /\ UNCHANGED <<gen, st, msgid, inflight, pending, captureVars, linkVars, lockVars, timeVars,
                 sender, kernelVars>>
-----------------------------------------------------------------------------
(* run_widget_effects, and the timers it starts.                           *)

(* A task still has to run the effect e, to send a message.                *)
Fx(e) == \E a \in Actors : \E i \in DOMAIN fx[a] : fx[a][i] = e
Sends(a) == {i \in DOMAIN fx[a] : fx[a][i].do = "send"}
Unsent == UNION {UNION {fx[a][i].msgs : i \in Sends(a)} : a \in Actors}

(* A message goes to the kernel's shell channel, or is dropped without one.*)
RunEffect(a) ==
  /\ fx[a] # <<>> /\ holder # a
  /\ LET e == Head(fx[a])
     IN \/ /\ e.do = "send" /\ UNCHANGED <<checks, timers>>
           /\ \E msg \in e.msgs :
                /\ shell' = IF sender THEN Append(shell, msg) ELSE shell
                /\ fx' = [fx EXCEPT ![a] = (IF e.msgs = {msg} THEN <<>> ELSE <<Send(e.msgs \ {msg})>>)
                                          \o Tail(@)]
        \/ /\ e.do = "check" /\ checks' = checks \cup {e.id}
           /\ fx' = [fx EXCEPT ![a] = Tail(@)] /\ UNCHANGED <<shell, timers>>
        \/ /\ e.do = "flush" /\ timers' = [o \in Outs |-> timers[o] + IF o \in e.of THEN 1 ELSE 0]
           /\ fx' = [fx EXCEPT ![a] = Tail(@)] /\ UNCHANGED <<shell, checks>>
  /\ UNCHANGED <<gen, modelVars, updVars, idVars, outVars, captureVars, linkVars, lockVars,
                 aged, sender, kgen, kval, kmsg, iopub, opened, budget>>

(* INFLIGHT_TIMEOUT after a message was made its effects ran long ago.     *)
Age(m) ==
  /\ aged[m] < next[m]
  /\ ~Fx(Check(m, aged[m] + 1))
  /\ \A msg \in Unsent : <<msg.model, msg.n>> # <<m, aged[m] + 1>>
  /\ aged' = [aged EXCEPT ![m] = @ + 1]
  /\ UNCHANGED <<gen, modelVars, updVars, idVars, outVars, captureVars, linkVars, lockVars, fx,
                 checks, timers, sender, kernelVars, budget>>

(* inflight_timeout.                                                       *)
CheckFires(m, n) ==
  /\ Locks("timer") /\ <<m, n>> \in checks /\ n <= aged[m]
  /\ checks' = checks \ {<<m, n>>} /\ UNCHANGED val
  /\ Release("timer", Base, m, n)
  /\ UNCHANGED <<gen, st, msgid, captureVars, linkVars, lockVars, timers, aged, sender,
                 kernelVars, budget>>

(* flush_outputs.                                                          *)
TimerFires(o) ==
  /\ Locks("timer") /\ timers[o] > 0
  /\ timers' = [timers EXCEPT ![o] = @ - 1] /\ UNCHANGED val
  /\ PacedFlush("timer", [Base EXCEPT !.armed = @ \ {o}], o)
  /\ UNCHANGED <<gen, st, msgid, inflight, pending, captureVars, linkVars, lockVars, checks, aged,
                 sender, kernelVars, budget>>

(* OUTPUT_FLUSH passes after a flush.                                      *)
CadenceEnds(o) ==
  /\ o \in recent /\ recent' = recent \ {o}
  /\ UNCHANGED <<gen, modelVars, updVars, idVars, waiting, armed, flight, captureVars, linkVars,
                 lockVars, fx, timeVars, sender, kernelVars, budget>>
-----------------------------------------------------------------------------
(* The kernel goes and another comes (SessionKernel has the calls).        *)

KeepsStore == UNCHANGED <<gen, modelVars, updVars, idVars, outVars, captureVars, linkVars, lockVars,
                          fx, timeVars>>

(* A stop, a restart or an exit takes the sender away first.               *)
Unsend ==
  /\ sender /\ gen < MaxGen /\ sender' = FALSE
  /\ KeepsStore /\ UNCHANGED <<kernelVars, budget>>

(* widgets_reset: only what the cells' views reach is kept, dead.          *)
Reset(keep) ==
  /\ ~sender /\ holder = None /\ gen = kgen
  /\ gen' = gen + 1
  /\ st' = [m \in Models |-> IF st[m] # "none" /\ m \in keep THEN "dead" ELSE "none"]
  /\ val' = [m \in Models |-> IF m \in keep THEN val[m] ELSE Blank(m)]
  /\ msgid' = [o \in Outs |-> IF o \in keep THEN msgid[o] ELSE None]
  /\ expect' = [m \in Models |-> [x \in AttrsOf(m) |-> 0]]
  /\ inflight' = [m \in Models |-> 0] /\ pending' = [m \in Models |-> Nothing]
  /\ infl' = {} /\ ours' = {} /\ capture' = [p \in Parents |-> <<>>]
  /\ waiting' = {} /\ clearing' = {} /\ armed' = {} /\ recent' = {}
  /\ flight' = [o \in Outs |-> 0]
  /\ links' = <<>> /\ ends' = [l \in Links |-> None]
  /\ shell' = <<>>
  /\ UNCHANGED <<next, lockVars, fx, timeVars, sender, kgen, kval, kmsg, iopub, opened, budget>>

Start ==
  /\ ~sender /\ gen # kgen
  /\ sender' = TRUE /\ kgen' = gen
  /\ kval' = [m \in Models |-> None] /\ kmsg' = [o \in Outs |-> None]
  /\ KeepsStore /\ UNCHANGED <<shell, iopub, opened, budget>>
-----------------------------------------------------------------------------
(* The kernel (external): ipywidgets echoes an update, applies it, and may *)
(* then change the value itself; all of it comes before the idle.          *)

Says(kind, m, n, upd) == [gen |-> kgen, kind |-> kind, model |-> m, n |-> n, parent |-> None, upd |-> upd]

KernelRuns == kgen = gen /\ KeepsStore /\ UNCHANGED <<sender, kgen, shell>>
KernelCode == KernelRuns /\ budget > 0 /\ budget' = budget - 1

(* A model's id is new: it was never in the store.                         *)
KernelOpens(m) ==
  /\ KernelRuns /\ UNCHANGED budget /\ m \notin opened /\ st[m] = "none"
  /\ opened' = opened \cup {m}
  /\ kval' = [kval EXCEPT ![m] = Blank(m)]
  /\ iopub' = Append(iopub, Says("open", m, 0, Blank(m))) /\ UNCHANGED kmsg

KernelCloses(m) ==
  /\ KernelCode /\ kval[m] # None
  /\ kval' = [kval EXCEPT ![m] = None]
  /\ iopub' = Append(iopub, Says("close", m, 0, Nothing)) /\ UNCHANGED <<kmsg, opened>>

(* hold_sync sends several changed attributes as one update.               *)
KernelSets(m, upd) ==
  /\ KernelCode /\ kval[m] # None /\ upd # Nothing
  /\ \A x \in DOMAIN upd : kval[m][x] # upd[x]
  /\ kval' = [kval EXCEPT ![m] = Merge(upd, @)]
  /\ iopub' = Append(iopub, Says("update", m, 0, upd)) /\ UNCHANGED <<kmsg, opened>>

KernelLinks(l, e) ==
  /\ KernelCode /\ UNCHANGED <<kval, kmsg, opened>>
  /\ iopub' = Append(iopub, Says("link", l, 0, e))

KernelUnlinks(l) ==
  /\ KernelCode /\ UNCHANGED <<kval, kmsg, opened>> /\ ends[l] # None
  /\ iopub' = Append(iopub, Says("unlink", l, 0, Nothing))

(* `with out:` begins (p is the request) or ends (p is None).              *)
KernelCaptures(o, p) ==
  /\ KernelCode /\ kval[o] # None /\ kmsg[o] # p
  /\ kmsg' = [kmsg EXCEPT ![o] = p] /\ UNCHANGED <<kval, opened>>
  /\ iopub' = Append(iopub, [Says("capture", o, 0, Nothing) EXCEPT !.parent = p])

KernelPrints(p, i) ==
  /\ KernelCode /\ UNCHANGED <<kval, kmsg, opened>>
  /\ iopub' = Append(iopub, [Says("stream", None, i, Nothing) EXCEPT !.parent = p])

KernelClears(p, wait) ==
  /\ KernelCode /\ UNCHANGED <<kval, kmsg, opened>>
  /\ iopub' = Append(iopub, [Says("clear", None, 0, wait) EXCEPT !.parent = p])

KernelDisplays(i, j) ==
  /\ KernelCode /\ UNCHANGED <<kval, kmsg, opened>>
  /\ iopub' = Append(iopub, Says("display", None, i, j))

(* A message of the frontend is taken from the shell channel; what is not  *)
(* None in `fix` the kernel's code sets in answer to it.                   *)
KernelHandles(fix) ==
  /\ kgen = gen /\ shell # <<>>
  /\ shell' = Tail(shell)
  /\ LET s == Head(shell) m == s.model
         known == m # None /\ kval[m] # None
         upd == IF s.kind \in {"update", "flush"} /\ known THEN s.upd ELSE Nothing
         fixed == [x \in IF fix = None THEN {} ELSE DOMAIN upd |-> fix]
     IN /\ kval' = IF known THEN [kval EXCEPT ![m] = Merge(fixed, Merge(upd, @))] ELSE kval
        /\ iopub' = iopub
             \o (IF upd = Nothing THEN <<>> ELSE <<Says("echo", m, s.n, upd)>>)
             \o (IF fixed = Nothing THEN <<>> ELSE <<Says("update", m, 0, fixed)>>)
             \o (IF m = None THEN <<>> ELSE <<Says("idle", m, s.n, Nothing)>>)
        /\ fix # None => fixed # Nothing /\ budget > 0
  /\ budget' = IF fix = None THEN budget ELSE budget - 1
  /\ KeepsStore /\ UNCHANGED <<sender, kgen, kmsg, opened>>
-----------------------------------------------------------------------------
Store == ApplyLink \/ Propagate

Pump ==
  \/ StaleEvent \/ CommOpen \/ CommClose \/ LinkOpen \/ LinkClose \/ KernelUpdate
  \/ CaptureUpdate \/ KernelEcho \/ Idle \/ RouteOutput \/ RouteClear \/ UpdateDisplay

Frontend ==
  \/ \E m \in Sliders : FrontendCustom(m) \/ \E x \in Attrs, v \in Vals : FrontendUpdate(m, x, v)
  \/ Execute

Time ==
  \/ \E m \in Models : Age(m) \/ \E n \in 1..next[m] : CheckFires(m, n)
  \/ \E o \in Outs : TimerFires(o) \/ CadenceEnds(o)

Session == Unsend \/ Start \/ \E keep \in SUBSET Models : Reset(keep)

Kernel ==
  \/ \E m \in Models : \/ KernelOpens(m) \/ KernelCloses(m)
                       \/ \E s \in SUBSET AttrsOf(m) : \E upd \in [s -> Vals] : KernelSets(m, upd)
  \/ \E l \in Links : KernelUnlinks(l) \/ \E e \in Ends : KernelLinks(l, e)
  \/ \E o \in Outs, p \in Parents \cup {None} : KernelCaptures(o, p)
  \/ \E p \in Parents : \/ \E i \in Pieces : KernelPrints(p, i)
                        \/ \E wait \in BOOLEAN : KernelClears(p, wait)
  \/ \E i, j \in Pieces : KernelDisplays(i, j)
  \/ KernelHandles(None) \/ \E v \in Vals : KernelHandles(v)

Next == Store \/ Pump \/ Frontend \/ (\E a \in Actors : RunEffect(a)) \/ Time \/ Session \/ Kernel

Spec == Init /\ [][Next]_vars
-----------------------------------------------------------------------------
TypeOK ==
  /\ gen \in Nat /\ kgen \in Nat /\ sender \in BOOLEAN /\ budget \in Nat
  /\ st \in [Models -> {"none", "live", "dead"}]
  /\ \A m \in Models : /\ val[m] \in [AttrsOf(m) -> Vals]
                       /\ expect[m] \in [AttrsOf(m) -> Nat]
                       /\ \E s \in SUBSET AttrsOf(m) : pending[m] \in [s -> Vals]
                       /\ kval[m] \in [AttrsOf(m) -> Vals] \cup {None}
  /\ inflight \in [Models -> Nat] /\ next \in [Models -> Nat] /\ aged \in [Models -> Nat]
  /\ infl \subseteq Ids /\ ours \subseteq Ids /\ checks \subseteq Ids
  /\ msgid \in [Outs -> Parents \cup {None}] /\ kmsg \in [Outs -> Parents \cup {None}]
  /\ capture \in [Parents -> Seq(Outs)] /\ flight \in [Outs -> Nat] /\ timers \in [Outs -> Nat]
  /\ waiting \subseteq Outs /\ clearing \subseteq Outs /\ armed \subseteq Outs /\ recent \subseteq Outs
  /\ links \in Seq(Links) /\ ends \in [Links -> Ends \cup {None}] /\ apply \in Seq(Links)
  /\ holder \in Actors \cup {None} /\ steps \in 0..LinkStepLimit /\ opened \subseteq Models

(* A change held behind an update in flight goes out at its idle or by its *)
(* timer: no held change is left with neither.                             *)
HeldWillGo ==
  \A m \in Models : pending[m] # Nothing =>
    /\ inflight[m] # 0
    /\ <<m, inflight[m]>> \in checks \/ Fx(Check(m, inflight[m]))

(* Captures wait for a timer or for the answer of the flush in flight.     *)
CapturesWillGo ==
  \A o \in waiting : \/ flight[o] # 0
                     \/ o \in armed /\ (timers[o] > 0 \/ \E S \in SUBSET Outs : o \in S /\ Fx(FlushLater(S)))

(* The store connects only models the current kernel has, or had and says  *)
(* so: no late event of an older kernel brings one back.                   *)
LiveIsOpen ==
  \A m \in Models : Live(m) =>
    kgen = gen /\ (kval[m] # None \/ \E i \in DOMAIN iopub : iopub[i].kind = "close" /\ iopub[i].model = m)

(* The variables keep their types, what the store holds back will go, and  *)
(* what it connects is there.                                              *)
StoreInv == TypeOK /\ HeldWillGo /\ CapturesWillGo /\ LiveIsOpen

Quiet ==
  /\ sender /\ kgen = gen /\ holder = None /\ shell = <<>> /\ iopub = <<>> /\ waiting = {}
  /\ \A a \in Actors : fx[a] = <<>>
  /\ \A m \in Models : pending[m] = Nothing

(* When nothing is on its way, the store and the kernel hold the same.     *)
QuietAgrees == Quiet => \A m \in Models : Live(m) => val[m] = kval[m]

(* What the comment of LINK_STEP_LIMIT says: copies stop at the first value *)
(* that agrees, and the limit is never what stops them.                    *)
CopiesSettle == steps < LinkStepLimit

(* An echo never takes back a newer change, held, sent or echoed later.    *)
Newer(m, x) ==
  \/ x \in DOMAIN pending[m]
  \/ \E i \in DOMAIN shell : shell[i].model = m /\ x \in DOMAIN shell[i].upd
  \/ \E msg \in Unsent : msg.model = m /\ x \in DOMAIN msg.upd
  \/ \E i \in 2..Len(iopub) :
       iopub[i].kind = "echo" /\ iopub[i].model = m /\ x \in DOMAIN iopub[i].upd

EchoKeepsNewer ==
  [][\A m \in Models : \A x \in AttrsOf(m) :
       /\ iopub # <<>> /\ iopub' = Tail(iopub) /\ Head(iopub).kind = "echo"
       /\ Head(iopub).model = m /\ val'[m][x] # val[m][x]
       => ~Newer(m, x)]_vars
=============================================================================
