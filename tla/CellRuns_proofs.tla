--------------------------- MODULE CellRuns_proofs ---------------------------
(***************************************************************************)
(* The safety of the runs of cells, for any number of cells, requests and  *)
(* prints, and whatever the user asks.                                     *)
(***************************************************************************)
EXTENDS CellRuns, FiniteSetTheorems, SequenceTheorems, TLAPS

-----------------------------------------------------------------------------
(* The types.                                                              *)

CellStates == [pending : Nat, run : {"no", "busy", "input"},
               state : {"idle", "queued", "busy"}, epoch : -1 .. MaxRequests]
Copies == [outs : Seq(Ids), count : 0 .. MaxRequests]
Backs == [outs : Seq(Ids), count : 0 .. MaxRequests,
          wait : BOOLEAN, start : 0 .. MaxRequests, end : 0 .. MaxRequests]
Requests == [op : {"execute", "stop", "restart", "start", "clear"},
             cell : Cells, epoch : Nat, chained : BOOLEAN,
             at : {"sent", "launch", "kill", "done"}, kernel : -1 .. MaxRequests]
Events == [kind : {"busy", "input", "idle", "output", "clear", "wait"}, run : Ids]
Replies == [kind : {"reply"}, run : Ids, ran : BOOLEAN]
Messages ==
  [kind : {"event"}, event : Events \cup Replies, first : BOOLEAN]
  \cup [kind : {"answer"}, run : Ids, ok : BOOLEAN]
  \cup [kind : {"exited"}]

(* TypeOK, with names for its sets.                                        *)
Types ==
  /\ st \in [Cells -> CellStates]
  /\ epoch \in Nat /\ retiring \in 0 .. epoch /\ started \in BOOLEAN /\ chain \in Seq(Cells)
  /\ front \in [Cells -> Copies]
  /\ reqs \in Seq(Requests) /\ kernel \in -1 .. MaxRequests
  /\ back \in [Cells -> Backs]
  /\ dying \in BOOLEAN /\ queue \in Seq(Ids) /\ step \in {"waits", "runs"}
  /\ \A i \in 1 .. Len(iopub) : iopub[i].run \in Runs
  /\ \A i \in 1 .. Len(shell) : shell[i].run \in Runs

(* What is on its way is of requests that were made.                       *)
WireInv ==
  /\ wire \in Seq(Messages) /\ iopub \in Seq(Events) /\ shell \in Seq(Replies)
  /\ \A i \in 1 .. Len(wire) :
       /\ wire[i].kind = "event" => wire[i].event.run \in Runs
       /\ wire[i].kind = "answer" => wire[i].run <= Len(reqs) /\ reqs[wire[i].run].at = "done"
  /\ \A i \in 1 .. Len(queue) : queue[i] \in Runs
  /\ step = "runs" => queue # <<>>

(* One request of a "run all" is under way at a time, and the chain has    *)
(* its cell until the answer.                                              *)
Asked == ChainWaits \/ AnswerComes
ChainInv ==
  /\ Asked => chain # <<>>
  /\ ~(ChainWaits /\ AnswerComes)
  /\ \A q, r \in Runs :
       reqs[q].chained /\ reqs[r].chained /\ reqs[q].at # "done" /\ reqs[r].at # "done" => q = r
  /\ \A i, j \in 1 .. Len(wire) :
       wire[i].kind = "answer" /\ wire[j].kind = "answer"
       /\ reqs[wire[i].run].chained /\ reqs[wire[j].run].chained => i = j
  /\ \A r \in 1 .. Len(reqs) :
       (reqs[r].chained => r \in Runs) /\ (r \in Runs => reqs[r].at \in {"sent", "done"})

BoundInv ==
  /\ Len(reqs) <= MaxRequests
  /\ Len(reqs) + Len(chain) <= MaxRequests + (IF Asked THEN 1 ELSE 0)
  /\ epoch <= Len(reqs)

TypeInv == Types /\ WireInv /\ ChainInv /\ BoundInv

LEMMA TypesAre == Types <=> TypeOK
BY DEF Types, TypeOK, CellStates, Copies, Requests, Backs

LEMMA StateTypes ==
  ASSUME NEW s \in CellStates, epoch \in 0 .. MaxRequests
  PROVE  /\ Queued(s) \in CellStates /\ Unqueued(s) \in CellStates
         /\ \A how \in {"busy", "input"} : Taken(s, how) \in CellStates
         /\ Released(s) \in CellStates /\ Cleared(s) \in CellStates
<1>1. epoch \in -1 .. MaxRequests /\ -1 \in -1 .. MaxRequests /\ MaxRequests \in Nat
  BY RunsAssumption
<1>2. Queued(s) \in CellStates
  <2> DEFINE x == IF s.state = "busy" THEN s.state ELSE "queued"
  <2>1. x \in {"idle", "queued", "busy"} /\ s.pending + 1 \in Nat
    BY DEF CellStates
  <2>2. Queued(s) = [s EXCEPT !.pending = s.pending + 1, !.epoch = epoch, !.state = x]
    BY DEF Queued
  <2> HIDE DEF x
  <2> QED BY <1>1, <2>1, <2>2 DEF CellStates
<1>3. Unqueued(s) \in CellStates
  <2> DEFINE x == IF s.pending = 1 /\ s.state = "queued" THEN "idle" ELSE s.state
  <2>1. x \in {"idle", "queued", "busy"} /\ (s.pending # 0 => s.pending - 1 \in Nat)
    BY DEF CellStates
  <2>2. Unqueued(s) = IF s.pending = 0 THEN s ELSE [s EXCEPT !.pending = s.pending - 1, !.state = x]
    BY DEF Unqueued
  <2> HIDE DEF x
  <2> QED BY <2>1, <2>2 DEF CellStates
<1>4. ASSUME NEW how \in {"busy", "input"} PROVE Taken(s, how) \in CellStates
  <2> DEFINE x == IF s.run \in {"no", "input"} /\ s.pending > 0 THEN s.pending - 1 ELSE s.pending
  <2>1. x \in Nat
    BY DEF CellStates
  <2>2. Taken(s, how) = [s EXCEPT !.pending = x, !.run = how]
    BY DEF Taken
  <2> HIDE DEF x
  <2> QED BY <2>1, <2>2 DEF CellStates
<1>5. Released(s) \in CellStates
  BY <1>1 DEF CellStates, Released
<1>6. Cleared(s) \in CellStates
  BY <1>1 DEF CellStates, Cleared, Fresh
<1> QED BY <1>2, <1>3, <1>4, <1>5, <1>6

LEMMA EventTypes ==
  ASSUME NEW e \in Events \cup Replies
  PROVE  /\ \A s \in CellStates : State(s, e) \in CellStates
         /\ \A f \in Copies, first \in BOOLEAN : Shown(f, e, first) \in Copies
         /\ \A b \in Backs : Applied(b, e) \in Backs
         /\ \A b \in Backs : Note(b, e) \in Messages
<1>1. e.run \in Ids /\ e.kind \in {"busy", "input", "idle", "output", "clear", "wait", "reply"}
      /\ (e.kind = "reply" => e.ran \in BOOLEAN)
  BY DEF Events, Replies
<1>2. e.run \in 1 .. MaxRequests /\ e.run \in 0 .. MaxRequests /\ 0 \in 0 .. MaxRequests
  BY <1>1, RunsAssumption DEF Ids
<1>3. ASSUME NEW s \in CellStates PROVE State(s, e) \in CellStates
  <2>1. ASSUME NEW how \in {"busy", "input"} PROVE [Taken(s, how) EXCEPT !.state = "busy"] \in CellStates
    <3> DEFINE x == IF s.run \in {"no", "input"} /\ s.pending > 0 THEN s.pending - 1 ELSE s.pending
    <3>1. x \in Nat
      BY DEF CellStates
    <3>2. Taken(s, how) = [s EXCEPT !.pending = x, !.run = how]
      BY DEF Taken
    <3> HIDE DEF x
    <3> QED BY <3>1, <3>2 DEF CellStates
  <2> DEFINE y == IF s.pending > 0 THEN "queued" ELSE "idle"
  <2>2. y \in {"idle", "queued", "busy"}
    OBVIOUS
  <2>3. [s EXCEPT !.run = "no", !.state = y] \in CellStates
    <3> HIDE DEF y
    <3> QED BY <2>2 DEF CellStates
  <2> QED BY <2>1, <2>3, <1>1 DEF State
<1>4. \A q \in Seq(Ids) : Append(q, e.run) \in Seq(Ids)
  BY <1>1
<1>5. <<>> \in Seq(Ids) /\ Append(<<>>, e.run) \in Seq(Ids)
  <2>1. <<>> \in Seq(Ids)
    BY EmptySeq
  <2> QED BY <1>4, <2>1
<1>6. ASSUME NEW f \in Copies, NEW first \in BOOLEAN PROVE Shown(f, e, first) \in Copies
  <2>1. [outs |-> <<>>, count |-> e.run] \in Copies /\ [f EXCEPT !.outs = <<>>] \in Copies
    BY <1>2, <1>5 DEF Copies
  <2> DEFINE x == Append(IF first THEN <<>> ELSE f.outs, e.run)
             y == IF f.count = 0 /\ e.ran THEN e.run ELSE f.count
  <2>2. x \in Seq(Ids) /\ y \in 0 .. MaxRequests
    BY <1>2, <1>4, <1>5 DEF Copies
  <2>3. [f EXCEPT !.outs = x] \in Copies /\ [f EXCEPT !.count = y] \in Copies
    <3> HIDE DEF x, y
    <3> QED BY <2>2 DEF Copies
  <2> QED BY <1>1, <2>1, <2>3 DEF Shown
<1>7. ASSUME NEW b \in Backs PROVE Applied(b, e) \in Backs
  <2>1. Stamped(b, e.run) \in Backs
    BY <1>2 DEF Stamped, Backs
  <2>2. [b EXCEPT !.outs = <<>>] \in Backs /\ [b EXCEPT !.wait = TRUE] \in Backs
    BY <1>5 DEF Backs
  <2>3. [b EXCEPT !.outs = <<>>, !.count = e.run, !.wait = FALSE, !.start = e.run, !.end = 0] \in Backs
    BY <1>2, <1>5, <1>7 DEF Backs
  <2> DEFINE x == Append(IF b.wait THEN <<>> ELSE b.outs, e.run)
             z == Stamped(b, e.run)
             y == IF z.count = 0 /\ e.ran THEN e.run ELSE z.count
  <2>4. x \in Seq(Ids) /\ y \in 0 .. MaxRequests
    BY <1>2, <1>4, <1>5, <2>1 DEF Backs
  <2>5. [b EXCEPT !.outs = x, !.wait = FALSE] \in Backs
    <3> HIDE DEF x
    <3> QED BY <2>4 DEF Backs
  <2>6. [z EXCEPT !.count = y] \in Backs
    <3>1. z \in Backs
      BY <2>1
    <3> HIDE DEF y, z
    <3> QED BY <2>4, <3>1 DEF Backs
  <2> QED BY <1>1, <2>1, <2>2, <2>3, <2>5, <2>6 DEF Applied, AtIdle
<1>8. ASSUME NEW b \in Backs PROVE Note(b, e) \in Messages
  <2> DEFINE x == (e.kind = "output" /\ b.wait)
  <2>1. x \in BOOLEAN
    BY <1>8 DEF Backs
  <2>2. Note(b, e) = [kind |-> "event", event |-> e, first |-> x]
    BY DEF Note
  <2> HIDE DEF x
  <2> QED BY <2>1, <2>2 DEF Messages
<1> QED BY <1>3, <1>6, <1>7, <1>8
-----------------------------------------------------------------------------
(* What the steps do to the requests, to the wire and to the channels.     *)

LEMMA Kinds ==
  ASSUME NEW m \in Messages
  PROVE  /\ m.kind \in {"event", "answer", "exited"}
         /\ m.kind = "event" => m.event \in Events \cup Replies /\ m.event.run \in Ids /\ m.first \in BOOLEAN
         /\ m.kind = "answer" => m.run \in Ids /\ m.ok \in BOOLEAN
  BY DEF Messages, Events, Replies

LEMMA Numbers ==
  /\ MaxRequests \in Nat /\ Ids = 1 .. MaxRequests /\ NoKernel = -1
  /\ \A n \in Nat : n <= MaxRequests => 1 .. n \subseteq Ids
  BY RunsAssumption DEF Ids, NoKernel

(* A request more.                                                         *)
LEMMA RequestMade ==
  ASSUME Types, NEW q \in Requests, reqs' = Append(reqs, q)
  PROVE  /\ reqs' \in Seq(Requests) /\ Len(reqs') = Len(reqs) + 1 /\ Len(reqs) \in Nat
         /\ \A r \in 1 .. Len(reqs) : reqs'[r] = reqs[r]
         /\ reqs'[Len(reqs) + 1] = q
         /\ \A r \in 1 .. Len(reqs) : r \in Runs' <=> r \in Runs
         /\ Runs \subseteq Runs'
<1>1. reqs \in Seq(Requests)
  BY DEF Types
<1>2. /\ reqs' \in Seq(Requests) /\ Len(reqs') = Len(reqs) + 1 /\ Len(reqs) \in Nat
      /\ \A r \in 1 .. Len(reqs) : reqs'[r] = reqs[r]
      /\ reqs'[Len(reqs) + 1] = q
  BY <1>1
<1> QED BY <1>2 DEF Runs

(* A request that goes on.                                                 *)
LEMMA RequestBecomes ==
  ASSUME Types, NEW r \in 1 .. Len(reqs), NEW a \in {"sent", "launch", "kill", "done"},
         NEW k \in -1 .. MaxRequests, Becomes(r, a, k)
  PROVE  /\ reqs' \in Seq(Requests) /\ Len(reqs') = Len(reqs) /\ Len(reqs) \in Nat
         /\ \A q \in 1 .. Len(reqs) : q # r => reqs'[q] = reqs[q]
         /\ \A q \in 1 .. Len(reqs) :
              /\ reqs'[q].op = reqs[q].op /\ reqs'[q].cell = reqs[q].cell
              /\ reqs'[q].epoch = reqs[q].epoch /\ reqs'[q].chained = reqs[q].chained
         /\ reqs'[r].at = a /\ reqs'[r].kernel = k
         /\ Runs' = Runs
<1>1. reqs \in Seq(Requests) /\ Len(reqs) \in Nat /\ reqs \in [1 .. Len(reqs) -> Requests]
  <2>1. reqs \in Seq(Requests)
    BY DEF Types
  <2> QED BY <2>1
<1> DEFINE x == [reqs[r] EXCEPT !.at = a, !.kernel = k]
<1>2. /\ x \in Requests /\ x.op = reqs[r].op /\ x.cell = reqs[r].cell
      /\ x.epoch = reqs[r].epoch /\ x.chained = reqs[r].chained /\ x.at = a /\ x.kernel = k
  <2>1. reqs[r] \in Requests
    BY <1>1
  <2> QED BY <2>1 DEF Requests
<1>3. reqs' = [reqs EXCEPT ![r] = x]
  BY <1>1 DEF Becomes
<1> HIDE DEF x
<1>4. reqs' \in [1 .. Len(reqs) -> Requests]
  BY <1>1, <1>2, <1>3
<1>5. reqs' \in Seq(Requests) /\ Len(reqs') = Len(reqs)
  BY <1>1, <1>4
<1>6. \A q \in 1 .. Len(reqs) : reqs'[q] = IF q = r THEN x ELSE reqs[q]
  BY <1>1, <1>3
<1>7. \A q \in 1 .. Len(reqs) :
        /\ reqs'[q].op = reqs[q].op /\ reqs'[q].cell = reqs[q].cell
        /\ reqs'[q].epoch = reqs[q].epoch /\ reqs'[q].chained = reqs[q].chained
  BY <1>2, <1>6
<1>8. Runs' = Runs
  BY <1>5, <1>7 DEF Runs
<1> QED BY <1>1, <1>2, <1>5, <1>6, <1>7, <1>8

(* The wire, longer by one or without its head.                            *)
LEMMA Said ==
  ASSUME WireInv, NEW m \in Messages, wire' = Append(wire, m)
  PROVE  /\ wire' \in Seq(Messages) /\ Len(wire) \in Nat /\ Len(wire') = Len(wire) + 1
         /\ \A i \in 1 .. Len(wire) : wire'[i] = wire[i]
         /\ wire'[Len(wire) + 1] = m
         /\ \A i \in 1 .. Len(wire') : i \in 1 .. Len(wire) \/ i = Len(wire) + 1
  BY DEF WireInv

LEMMA Heard ==
  ASSUME WireInv, wire # <<>>, wire' = Tail(wire)
  PROVE  /\ wire' \in Seq(Messages) /\ Len(wire) \in Nat \ {0} /\ Len(wire') = Len(wire) - 1
         /\ \A i \in 1 .. Len(wire') : wire'[i] = wire[i + 1] /\ i + 1 \in 1 .. Len(wire)
         /\ Head(wire) = wire[1] /\ wire[1] \in Messages
  BY DEF WireInv

(* A request that is no part of a "run all" is made.                       *)
LEMMA AskKeeps ==
  ASSUME TypeInv, NEW q \in Requests, q.at = "sent", ~q.chained, Room(1),
         reqs' = Append(reqs, q), UNCHANGED <<wire, queue, iopub, shell, step, chain>>,
         epoch' \in epoch .. epoch + 1
  PROVE  WireInv' /\ ChainInv' /\ BoundInv'
<1> USE DEF TypeInv
<1>1. /\ reqs' \in Seq(Requests) /\ Len(reqs') = Len(reqs) + 1 /\ Len(reqs) \in Nat
      /\ \A r \in 1 .. Len(reqs) : reqs'[r] = reqs[r]
      /\ reqs'[Len(reqs) + 1] = q
      /\ \A r \in 1 .. Len(reqs) : r \in Runs' <=> r \in Runs
      /\ Runs \subseteq Runs'
  BY RequestMade
<1>2. \A i \in 1 .. Len(wire) : wire[i] \in Messages
  BY DEF WireInv
<1>3. \A i \in 1 .. Len(wire) :
        /\ wire[i].kind = "event" => wire[i].event.run \in Runs
        /\ wire[i].kind = "answer" => wire[i].run \in 1 .. Len(reqs) /\ reqs[wire[i].run].at = "done"
  BY <1>1, <1>2, Kinds, Numbers DEF WireInv
<1>4. WireInv'
  BY <1>1, <1>3 DEF WireInv
<1>5. ChainWaits' <=> ChainWaits
  BY <1>1 DEF ChainWaits, Runs
<1>6. AnswerComes' <=> AnswerComes
  BY <1>1, <1>3 DEF AnswerComes
<1>7. ChainInv'
  <2>1. \A r, s \in Runs' :
          reqs'[r].chained /\ reqs'[s].chained /\ reqs'[r].at # "done" /\ reqs'[s].at # "done" => r = s
    BY <1>1 DEF ChainInv, Runs
  <2>2. \A i, j \in 1 .. Len(wire) :
          wire[i].kind = "answer" /\ wire[j].kind = "answer"
          /\ reqs'[wire[i].run].chained /\ reqs'[wire[j].run].chained => i = j
    BY <1>1, <1>3 DEF ChainInv
  <2>3. \A r \in 1 .. Len(reqs') :
          (reqs'[r].chained => r \in Runs') /\ (r \in Runs' => reqs'[r].at \in {"sent", "done"})
    BY <1>1 DEF ChainInv
  <2> QED BY <1>5, <1>6, <2>1, <2>2, <2>3 DEF ChainInv, Asked
<1>8. BoundInv'
  <2>1. Len(chain) \in Nat /\ Len(reqs) + Len(chain) + 1 <= MaxRequests /\ epoch \in Nat
    BY DEF Types, Room
  <2> QED BY <1>1, <1>5, <1>6, <2>1, Numbers DEF BoundInv, Asked
<1> QED BY <1>4, <1>7, <1>8
-----------------------------------------------------------------------------
(* The types, step by step.                                                *)

LEMMA InitTypes == Init => TypeInv
<1> SUFFICES ASSUME Init PROVE TypeInv
  OBVIOUS
<1>1. Types
  <2>1. <<>> \in Seq(Cells) /\ <<>> \in Seq(Requests) /\ <<>> \in Seq(Ids)
    BY EmptySeq
  <2>2. st \in [Cells -> CellStates] /\ front \in [Cells -> Copies] /\ back \in [Cells -> Backs]
    BY <2>1, Numbers DEF Init, Fresh, CellStates, Copies, Backs
  <2>3. Len(iopub) = 0 /\ Len(shell) = 0 /\ kernel \in -1 .. MaxRequests
    BY Numbers DEF Init
  <2>4. /\ chain \in Seq(Cells) /\ reqs \in Seq(Requests) /\ queue \in Seq(Ids)
        /\ epoch \in Nat /\ retiring \in 0 .. epoch
        /\ started \in BOOLEAN /\ dying \in BOOLEAN /\ step \in {"waits", "runs"}
    <3>1. /\ chain = <<>> /\ reqs = <<>> /\ queue = <<>> /\ epoch = 0 /\ retiring = 0
          /\ started = TRUE /\ dying = FALSE /\ step = "waits"
      BY DEF Init
    <3>2. chain \in Seq(Cells) /\ reqs \in Seq(Requests) /\ queue \in Seq(Ids)
      BY <2>1, <3>1
    <3>3. started \in BOOLEAN /\ dying \in BOOLEAN
      BY <3>1
    <3>4. epoch \in Nat /\ retiring \in 0 .. epoch /\ step \in {"waits", "runs"}
      BY <3>1
    <3> QED BY <3>2, <3>3, <3>4
  <2> QED BY <2>2, <2>3, <2>4 DEF Types
<1>2. WireInv
  BY EmptySeq DEF Init, WireInv
<1>3. Runs = {} /\ wire = <<>> /\ reqs = <<>> /\ chain = <<>>
  BY DEF Init, Runs
<1>4. ChainInv
  BY <1>3 DEF ChainInv, Asked, ChainWaits, AnswerComes
<1>5. BoundInv
  BY <1>3, Numbers DEF BoundInv, Asked, Init
<1> QED BY <1>1, <1>2, <1>4, <1>5 DEF TypeInv

LEMMA RunCellTypes ==
  ASSUME TypeInv, NEW c \in Cells, RunCell(c)
  PROVE  TypeInv'
<1> DEFINE q == Request("execute", c, epoch, FALSE)
<1>1. Types /\ WireInv /\ ChainInv /\ BoundInv
  BY DEF TypeInv
<1>2. epoch \in 0 .. MaxRequests /\ epoch \in Nat /\ epoch \in epoch .. epoch + 1
  BY <1>1, Numbers DEF Types, BoundInv
<1>3. q \in Requests /\ q.at = "sent" /\ ~q.chained
  BY <1>2, Numbers DEF Requests, Request
<1>4. Room(1) /\ reqs' = Append(reqs, q) /\ Mark({c})
      /\ UNCHANGED <<epoch, retiring, started, chain, front, wire, kernel, back, process, channels>>
  BY DEF RunCell
<1>5. WireInv' /\ ChainInv' /\ BoundInv'
  BY <1>2, <1>3, <1>4, AskKeeps DEF process, channels
<1>6. st' \in [Cells -> CellStates]
  BY <1>1, <1>2, <1>4, StateTypes DEF Mark, Types
<1>7. reqs' \in Seq(Requests) /\ Runs \subseteq Runs'
  BY <1>1, <1>3, <1>4, RequestMade
<1>8. Types'
  BY <1>1, <1>4, <1>6, <1>7 DEF Types, process, channels
<1> QED BY <1>5, <1>8 DEF TypeInv

LEMMA AskTypes ==
  ASSUME TypeInv, NEW o \in {"stop", "restart", "start", "clear"}, NEW c \in Cells,
         NEW e \in {epoch, epoch + 1}, Room(1),
         reqs' = Append(reqs, Request(o, c, e, FALSE)),
         st' \in [Cells -> CellStates], front' \in [Cells -> Copies],
         epoch' = e, retiring' = retiring \/ retiring' = e, started' \in BOOLEAN,
         UNCHANGED <<chain, wire, kernel, back, process, channels>>
  PROVE  TypeInv'
<1> DEFINE q == Request(o, c, e, FALSE)
<1>1. Types /\ WireInv /\ ChainInv /\ BoundInv
  BY DEF TypeInv
<1>2. epoch' \in epoch .. epoch + 1 /\ epoch \in Nat /\ epoch' \in Nat /\ e \in Nat
  BY <1>1 DEF Types
<1>3. q \in Requests /\ q.at = "sent" /\ ~q.chained
  BY <1>2, Numbers DEF Requests, Request
<1>4. reqs' = Append(reqs, q)
  OBVIOUS
<1>5. WireInv' /\ ChainInv' /\ BoundInv'
  BY <1>2, <1>3, <1>4, AskKeeps DEF process, channels
<1>6. retiring' \in 0 .. epoch'
  BY <1>1, <1>2 DEF Types
<1>7. reqs' \in Seq(Requests) /\ Runs \subseteq Runs'
  BY <1>1, <1>3, <1>4, RequestMade
<1>8. Types'
  BY <1>1, <1>2, <1>6, <1>7 DEF Types, process, channels
<1> QED BY <1>5, <1>8 DEF TypeInv

LEMMA UserTypes ==
  ASSUME TypeInv, Stop \/ Restart \/ Start \/ \E c \in Cells : Clear(c)
  PROVE  TypeInv'
<1>1. Types /\ AnyCell \in Cells /\ epoch \in 0 .. MaxRequests
  BY RunsAssumption, Numbers DEF TypeInv, Types, BoundInv, AnyCell
<1>2. \A c \in Cells : st[c] \in CellStates /\ front[c] \in Copies
  BY <1>1 DEF Types
<1>3. [c \in Cells |-> Released(st[c])] \in [Cells -> CellStates]
  BY <1>1, <1>2, StateTypes
<1>4. CASE Stop
  BY <1>1, <1>3, <1>4, AskTypes DEF Stop, Retire, MayAsk, Types
<1>5. CASE Restart
  BY <1>1, <1>3, <1>5, AskTypes DEF Restart, Retire, MayAsk, Types
<1>6. CASE Start
  BY <1>1, <1>6, AskTypes DEF Start, MayAsk, Types, editor
<1>7. ASSUME NEW c \in Cells, Clear(c) PROVE TypeInv'
  <2>1. [st EXCEPT ![c] = Cleared(st[c])] \in [Cells -> CellStates]
    BY <1>1, <1>2, StateTypes DEF Types
  <2>2. [outs |-> <<>>, count |-> 0] \in Copies
    BY EmptySeq, Numbers DEF Copies
  <2>3. [front EXCEPT ![c] = [outs |-> <<>>, count |-> 0]] \in [Cells -> Copies]
    BY <1>1, <2>2 DEF Types
  <2> QED BY <1>1, <1>7, <2>1, <2>3, AskTypes DEF Clear, MayAsk, Types
<1> QED BY <1>4, <1>5, <1>6, <1>7

LEMMA RunAllTypes ==
  ASSUME TypeInv, RunAll
  PROVE  TypeInv'
<1>1. Types /\ WireInv /\ ChainInv /\ BoundInv
  BY DEF TypeInv
<1>2. epoch \in 0 .. MaxRequests
  BY <1>1, Numbers DEF Types, BoundInv
<1>3. st' \in [Cells -> CellStates]
  BY <1>1, <1>2, StateTypes DEF RunAll, Mark, Types
<1>4. UNCHANGED <<epoch, retiring, started, front, reqs, wire, kernel, back, process, channels>>
      /\ chain = <<>> /\ chain' = All /\ Room(Len(All))
  BY DEF RunAll
<1>5. Runs' = Runs /\ ChainWaits' = ChainWaits /\ AnswerComes' = AnswerComes
  BY <1>4 DEF Runs, ChainWaits, AnswerComes
<1>6. Types'
  BY <1>1, <1>3, <1>4, <1>5, RunsAssumption DEF Types, process, channels
<1>7. WireInv'
  BY <1>1, <1>4, <1>5 DEF WireInv, process, channels
<1>8. ~Asked
  BY <1>1, <1>4 DEF ChainInv
<1>9. ChainInv'
  BY <1>1, <1>4, <1>5, <1>8 DEF ChainInv, Asked
<1>10. BoundInv'
  <2>1. Len(chain) = 0 /\ Len(All) \in Nat /\ Len(reqs) \in Nat
    BY <1>1, <1>4, RunsAssumption DEF Types
  <2> QED BY <1>1, <1>4, <1>5, <1>8, <2>1, Numbers DEF BoundInv, Asked, Room
<1> QED BY <1>6, <1>7, <1>9, <1>10 DEF TypeInv

LEMMA SendNextTypes ==
  ASSUME TypeInv, SendNext
  PROVE  TypeInv'
<1> DEFINE q == Request("execute", Head(chain), epoch, TRUE)
<1>1. Types /\ WireInv /\ ChainInv /\ BoundInv
  BY DEF TypeInv
<1>2. /\ chain # <<>> /\ ~Asked /\ reqs' = Append(reqs, q)
      /\ UNCHANGED <<editor, wire, kernel, back, process, channels>>
  BY DEF SendNext, Asked
<1>3. Head(chain) \in Cells /\ epoch \in Nat /\ Len(chain) \in Nat \ {0}
  BY <1>1, <1>2 DEF Types
<1>4. q \in Requests /\ q.at = "sent" /\ q.chained /\ q.op = "execute"
  BY <1>3, Numbers DEF Requests, Request
<1>5. /\ reqs' \in Seq(Requests) /\ Len(reqs') = Len(reqs) + 1 /\ Len(reqs) \in Nat
      /\ \A r \in 1 .. Len(reqs) : reqs'[r] = reqs[r]
      /\ reqs'[Len(reqs) + 1] = q
      /\ \A r \in 1 .. Len(reqs) : r \in Runs' <=> r \in Runs
      /\ Runs \subseteq Runs'
  BY <1>1, <1>2, <1>4, RequestMade
<1> HIDE DEF q
<1>6. Types'
  BY <1>1, <1>2, <1>5 DEF Types, editor, process, channels
<1>7. \A i \in 1 .. Len(wire) :
        /\ wire[i].kind = "event" => wire[i].event.run \in Runs
        /\ wire[i].kind = "answer" => wire[i].run \in 1 .. Len(reqs) /\ reqs[wire[i].run].at = "done"
  <2>1. \A i \in 1 .. Len(wire) : wire[i] \in Messages
    BY <1>1 DEF WireInv
  <2> QED BY <1>1, <1>5, <2>1, Kinds, Numbers DEF WireInv
<1>8. WireInv'
  BY <1>1, <1>2, <1>5, <1>7 DEF WireInv, process, channels
<1>9. Len(reqs) + 1 \in Runs' /\ Runs' \subseteq Runs \cup {Len(reqs) + 1}
  BY <1>4, <1>5 DEF Runs
<1>10. ChainWaits'
  BY <1>4, <1>5, <1>9 DEF ChainWaits
<1>11. ~AnswerComes'
  BY <1>2, <1>5, <1>7 DEF AnswerComes, Asked, editor
<1>12. ChainInv'
  <2>1. \A r \in Runs : ~(reqs[r].chained /\ reqs[r].at # "done")
    BY <1>2 DEF Asked, ChainWaits
  <2>2. Runs \subseteq 1 .. Len(reqs)
    BY DEF Runs
  <2>3. \A r, s \in Runs' :
          reqs'[r].chained /\ reqs'[s].chained /\ reqs'[r].at # "done" /\ reqs'[s].at # "done" => r = s
    BY <1>5, <1>9, <2>1, <2>2
  <2>4. \A i, j \in 1 .. Len(wire) :
          wire[i].kind = "answer" /\ wire[j].kind = "answer"
          /\ reqs'[wire[i].run].chained /\ reqs'[wire[j].run].chained => i = j
    BY <1>1, <1>5, <1>7 DEF ChainInv
  <2>5. \A r \in 1 .. Len(reqs') :
          (reqs'[r].chained => r \in Runs') /\ (r \in Runs' => reqs'[r].at \in {"sent", "done"})
    BY <1>1, <1>4, <1>5, <1>9 DEF ChainInv
  <2> QED BY <1>2, <1>10, <1>11, <2>3, <2>4, <2>5 DEF ChainInv, Asked, editor
<1>13. BoundInv'
  BY <1>1, <1>2, <1>3, <1>5, <1>10, Numbers DEF BoundInv, Asked, editor
<1> QED BY <1>6, <1>8, <1>12, <1>13 DEF TypeInv

(* A task of the backend goes on, and may say so.                          *)
LEMMA TaskKeeps ==
  ASSUME TypeInv, NEW r \in 1 .. Len(reqs), NEW a \in {"launch", "kill", "done"},
         NEW k \in -1 .. MaxRequests, Becomes(r, a, k),
         r \in Runs => a = "done" /\ reqs[r].at = "sent" /\ wire' # wire, reqs[r].at # "done",
         \/ wire' = wire
         \/ a = "done" /\ \E ok \in BOOLEAN : wire' = Append(wire, Answer(r, ok)),
         kernel' \in -1 .. MaxRequests,
         back' \in [Cells -> Backs], dying' \in BOOLEAN, step' \in {"waits", step},
         \/ queue' = queue
         \/ queue' = <<>> /\ step' = "waits"
         \/ queue' = Append(queue, r) /\ r \in Runs,
         UNCHANGED <<editor, channels>>
  PROVE  TypeInv'
<1>1. Types /\ WireInv /\ ChainInv /\ BoundInv
  BY DEF TypeInv
<1>2. /\ reqs' \in Seq(Requests) /\ Len(reqs') = Len(reqs) /\ Len(reqs) \in Nat
      /\ \A q \in 1 .. Len(reqs) : q # r => reqs'[q] = reqs[q]
      /\ \A q \in 1 .. Len(reqs) :
           /\ reqs'[q].op = reqs[q].op /\ reqs'[q].cell = reqs[q].cell
           /\ reqs'[q].epoch = reqs[q].epoch /\ reqs'[q].chained = reqs[q].chained
      /\ reqs'[r].at = a /\ reqs'[r].kernel = k
      /\ Runs' = Runs
  BY <1>1, RequestBecomes
<1>3. r \in Ids /\ Runs \subseteq Ids /\ Runs \subseteq 1 .. Len(reqs)
  BY <1>1, <1>2, Numbers DEF BoundInv, Runs
<1>4. queue' \in Seq(Ids) /\ (step' = "runs" => queue' # <<>>) /\ \A i \in 1 .. Len(queue') : queue'[i] \in Runs
  <2>1. CASE queue' = queue
    BY <1>1, <2>1 DEF Types, WireInv
  <2>2. CASE queue' = <<>> /\ step' = "waits"
    BY <2>2, EmptySeq
  <2>3. CASE queue' = Append(queue, r) /\ r \in Runs
    <3>1. queue \in Seq(Ids) /\ \A i \in 1 .. Len(queue) : queue[i] \in Runs
      BY <1>1 DEF Types, WireInv
    <3>2. /\ queue' \in Seq(Ids) /\ Len(queue') = Len(queue) + 1 /\ Len(queue) \in Nat
          /\ \A i \in 1 .. Len(queue') : queue'[i] = IF i = Len(queue) + 1 THEN r ELSE queue[i]
      BY <1>3, <2>3, <3>1
    <3>3. \A i \in 1 .. Len(queue') : queue'[i] \in Runs
      BY <2>3, <3>1, <3>2
    <3>4. queue' # <<>>
      BY <3>2
    <3> QED BY <3>2, <3>3, <3>4
  <2> QED BY <2>1, <2>2, <2>3
<1>5. step' \in {"waits", "runs"}
  BY <1>1 DEF Types
<1>6. Types'
  BY <1>1, <1>2, <1>4, <1>5 DEF Types, editor, channels
<1>7. ASSUME NEW ok \in BOOLEAN PROVE Answer(r, ok) \in Messages
  BY <1>3 DEF Answer, Messages
<1>8. /\ \A i \in 1 .. Len(wire) : wire[i] \in Messages
      /\ \A i \in 1 .. Len(wire) :
           /\ wire[i].kind = "event" => wire[i].event.run \in Runs
           /\ wire[i].kind = "answer" => wire[i].run \in 1 .. Len(reqs) /\ reqs[wire[i].run].at = "done"
                                         /\ wire[i].run # r
  <2>1. \A i \in 1 .. Len(wire) : wire[i] \in Messages
    BY <1>1 DEF WireInv
  <2> QED BY <1>1, <1>2, <2>1, Kinds, Numbers DEF WireInv
<1>9. CASE wire' = wire
  <2>1. WireInv'
    BY <1>1, <1>2, <1>4, <1>8, <1>9 DEF WireInv, channels
  <2>2. r \notin Runs
    BY <1>9
  <2>3. \A q \in Runs : reqs'[q] = reqs[q]
    BY <1>2, <1>3, <2>2
  <2>4. ChainWaits' <=> ChainWaits
    BY <1>2, <2>3 DEF ChainWaits
  <2>5. AnswerComes' <=> AnswerComes
    BY <1>2, <1>8, <1>9 DEF AnswerComes
  <2>6. ChainInv'
    BY <1>1, <1>2, <1>3, <1>8, <1>9, <2>2, <2>3, <2>4, <2>5 DEF ChainInv, Asked, editor
  <2>7. BoundInv'
    BY <1>1, <1>2, <2>4, <2>5 DEF BoundInv, Asked, editor
  <2> QED BY <1>6, <2>1, <2>6, <2>7 DEF TypeInv
<1>10. ASSUME NEW ok \in BOOLEAN, a = "done", wire' = Append(wire, Answer(r, ok)) PROVE TypeInv'
  <2>1. /\ wire' \in Seq(Messages) /\ Len(wire) \in Nat /\ Len(wire') = Len(wire) + 1
        /\ \A i \in 1 .. Len(wire) : wire'[i] = wire[i]
        /\ wire'[Len(wire) + 1] = Answer(r, ok)
        /\ \A i \in 1 .. Len(wire') : i \in 1 .. Len(wire) \/ i = Len(wire) + 1
    BY <1>1, <1>7, <1>10, Said
  <2>2. wire'[Len(wire) + 1].kind = "answer" /\ wire'[Len(wire) + 1].run = r
    BY <2>1 DEF Answer
  <2>3. \A i \in 1 .. Len(wire') :
          /\ wire'[i].kind = "event" => wire'[i].event.run \in Runs
          /\ wire'[i].kind = "answer" => wire'[i].run <= Len(reqs) /\ reqs'[wire'[i].run].at = "done"
    <3>1. ASSUME NEW i \in 1 .. Len(wire)
          PROVE  /\ wire[i].kind = "event" => wire[i].event.run \in Runs
                 /\ wire[i].kind = "answer" => wire[i].run <= Len(reqs) /\ reqs'[wire[i].run].at = "done"
      BY <1>2, <1>8, <3>1
    <3>2. r <= Len(reqs) /\ reqs'[r].at = "done"
      BY <1>2, <1>10
    <3> QED BY <2>1, <2>2, <3>1, <3>2
  <2>4. WireInv'
    BY <1>1, <1>2, <1>4, <2>1, <2>3 DEF WireInv, channels
  <2>5. CASE ~reqs[r].chained
    <3>1. ChainWaits' <=> ChainWaits
      BY <1>2, <1>3, <2>5 DEF ChainWaits
    <3>2. AnswerComes' <=> AnswerComes
      <4>1. ASSUME NEW i \in 1 .. Len(wire'), wire'[i].kind = "answer", reqs'[wire'[i].run].chained
            PROVE  AnswerComes
        <5>1. i \in 1 .. Len(wire) /\ wire'[i] = wire[i]
          BY <1>2, <2>1, <2>2, <2>5, <4>1
        <5> QED BY <1>2, <1>8, <4>1, <5>1 DEF AnswerComes
      <4>2. ASSUME NEW i \in 1 .. Len(wire), wire[i].kind = "answer", reqs[wire[i].run].chained
            PROVE  AnswerComes'
        <5>1. i \in 1 .. Len(wire') /\ wire'[i] = wire[i]
          BY <2>1
        <5> QED BY <1>2, <1>8, <4>2, <5>1 DEF AnswerComes
      <4> QED BY <4>1, <4>2 DEF AnswerComes
    <3>3. \A i, j \in 1 .. Len(wire') :
            wire'[i].kind = "answer" /\ wire'[j].kind = "answer"
            /\ reqs'[wire'[i].run].chained /\ reqs'[wire'[j].run].chained => i = j
      <4>1. ASSUME NEW i \in 1 .. Len(wire'), wire'[i].kind = "answer", reqs'[wire'[i].run].chained
            PROVE  i \in 1 .. Len(wire) /\ wire'[i] = wire[i] /\ wire[i].kind = "answer" /\ reqs[wire[i].run].chained
        <5>1. i \in 1 .. Len(wire) /\ wire'[i] = wire[i]
          BY <1>2, <2>1, <2>2, <2>5, <4>1
        <5> QED BY <1>2, <1>8, <4>1, <5>1
      <4> QED BY <1>1, <4>1 DEF ChainInv
    <3>4. ChainInv'
      <4>1. \A q, p \in Runs :
              reqs'[q].chained /\ reqs'[p].chained /\ reqs'[q].at # "done" /\ reqs'[p].at # "done" => q = p
        BY <1>1, <1>2, <1>3, <1>10 DEF ChainInv
      <4>2. \A q \in 1 .. Len(reqs') :
              (reqs'[q].chained => q \in Runs) /\ (q \in Runs => reqs'[q].at \in {"sent", "done"})
        BY <1>1, <1>2, <1>3, <1>10 DEF ChainInv
      <4>3. Asked' => chain' # <<>>
        BY <1>1, <3>1, <3>2, <3>3 DEF ChainInv, Asked, editor
      <4> QED BY <1>1, <1>2, <3>1, <3>2, <3>3, <4>1, <4>2, <4>3 DEF ChainInv
    <3>5. BoundInv'
      BY <1>1, <1>2, <3>1, <3>2 DEF BoundInv, Asked, editor
    <3> QED BY <1>6, <2>4, <3>4, <3>5 DEF TypeInv
  <2>6. CASE reqs[r].chained
    <3>1. r \in Runs /\ reqs[r].at # "done" /\ ChainWaits /\ ~AnswerComes
      BY <1>1, <2>6 DEF ChainInv, ChainWaits
    <3>2. ~ChainWaits'
      BY <1>1, <1>2, <1>3, <1>10, <2>6, <3>1 DEF ChainInv, ChainWaits
    <3>3. AnswerComes'
      BY <1>2, <2>1, <2>2, <2>6 DEF AnswerComes
    <3>4. \A i, j \in 1 .. Len(wire') :
            wire'[i].kind = "answer" /\ wire'[j].kind = "answer"
            /\ reqs'[wire'[i].run].chained /\ reqs'[wire'[j].run].chained => i = j
      <4>1. \A i \in 1 .. Len(wire) : ~(wire'[i].kind = "answer" /\ reqs'[wire'[i].run].chained)
        BY <1>2, <1>8, <2>1, <3>1 DEF AnswerComes
      <4> QED BY <2>1, <4>1
    <3>5. ChainInv'
      <4>1. \A q, p \in Runs :
              reqs'[q].chained /\ reqs'[p].chained /\ reqs'[q].at # "done" /\ reqs'[p].at # "done" => q = p
        BY <1>1, <1>2, <1>3, <1>10 DEF ChainInv
      <4>2. \A q \in 1 .. Len(reqs') :
              (reqs'[q].chained => q \in Runs) /\ (q \in Runs => reqs'[q].at \in {"sent", "done"})
        BY <1>1, <1>2, <1>3, <1>10 DEF ChainInv
      <4>3. Asked' => chain' # <<>>
        BY <1>1, <3>1, <3>2, <3>3, <3>4 DEF ChainInv, Asked, editor
      <4> QED BY <1>2, <3>1, <3>2, <3>3, <3>4, <4>1, <4>2, <4>3 DEF ChainInv
    <3>6. BoundInv'
      BY <1>1, <1>2, <3>1, <3>3 DEF BoundInv, Asked, editor
    <3> QED BY <1>6, <2>4, <3>5, <3>6 DEF TypeInv
  <2> QED BY <2>5, <2>6
<1> QED BY <1>9, <1>10

LEMMA TaskTypes ==
  ASSUME TypeInv, NEW r \in 1 .. Len(reqs),
         \/ Execute(r) \/ TakeKernel(r) \/ Killed(r) \/ StartKernel(r) \/ Launched(r) \/ ClearCell(r)
  PROVE  TypeInv'
<1>1. Types /\ ChainInv /\ r \in -1 .. MaxRequests /\ NoKernel \in -1 .. MaxRequests
  BY Numbers DEF TypeInv, BoundInv, Types
<1>2. reqs[r].at \in {"sent", "launch", "kill", "done"} /\ (r \in Runs => reqs[r].at \in {"sent", "done"})
      /\ (r \in Runs <=> reqs[r].op = "execute") /\ reqs[r] \in Requests
  <2>1. reqs \in Seq(Requests) /\ \A q \in 1 .. Len(reqs) : q \in Runs => reqs[q].at \in {"sent", "done"}
    BY <1>1 DEF Types, ChainInv
  <2>2. reqs[r] \in Requests
    BY <2>1
  <2>3. reqs[r].at \in {"sent", "launch", "kill", "done"}
    BY <2>2 DEF Requests
  <2>4. r \in Runs <=> reqs[r].op = "execute"
    BY DEF Runs
  <2> QED BY <2>1, <2>2, <2>3, <2>4
<1>3. \A ok \in BOOLEAN : Append(wire, Answer(r, ok)) # wire
  <2>1. wire \in Seq(Messages) /\ \A ok \in BOOLEAN : Answer(r, ok) \in Messages
    <3>1. r \in Ids
      BY Numbers DEF TypeInv, BoundInv, Types
    <3> QED BY <3>1 DEF TypeInv, WireInv, Answer, Messages
  <2> QED BY <2>1
<1>4. CASE Execute(r)
  <2>1. PICK ok \in BOOLEAN : wire' = Append(wire, Answer(r, ok))
    BY <1>4 DEF Execute, Say
  <2> QED BY <1>1, <1>2, <1>3, <1>4, <2>1, TaskKeeps DEF Execute, TakenUp, editor, channels, process, Types
<1>5. CASE TakeKernel(r)
  BY <1>1, <1>2, <1>5, TaskKeeps DEF TakeKernel, TakenUp, Gone, editor, channels, process, Types
<1>6. CASE Killed(r)
  <2>1. PICK ok \in BOOLEAN : wire' = Append(wire, Answer(r, ok))
    BY <1>6 DEF Killed, Say
  <2> QED BY <1>1, <1>2, <1>3, <1>6, <2>1, TaskKeeps DEF Killed, editor, channels, process, Types
<1>7. CASE StartKernel(r)
  BY <1>1, <1>2, <1>7, TaskKeeps DEF StartKernel, TakenUp, editor, channels, process, Types
<1>8. CASE Launched(r)
  <2>1. PICK ok \in BOOLEAN : wire' = Append(wire, Answer(r, ok))
    BY <1>8 DEF Launched, Say
  <2> QED BY <1>1, <1>2, <1>3, <1>8, <2>1, TaskKeeps DEF Launched, Gone, editor, channels, process, Types
<1>9. CASE ClearCell(r)
  <2>1. PICK ok \in BOOLEAN : wire' = Append(wire, Answer(r, ok))
    BY <1>9 DEF ClearCell, Say
  <2>2. back' \in [Cells -> Backs]
    <3> DEFINE c == reqs[r].cell
               x == [back[c] EXCEPT !.outs = <<>>, !.count = 0, !.start = 0, !.end = 0]
    <3>1. c \in Cells /\ back[c] \in Backs
      BY <1>1, <1>2 DEF Types, Requests
    <3>2. x \in Backs
      <4>1. <<>> \in Seq(Ids) /\ 0 \in 0 .. MaxRequests
        BY EmptySeq, Numbers
      <4> QED BY <3>1, <4>1 DEF Backs
    <3>3. back \in [Cells -> Backs] /\ back' = [back EXCEPT ![c] = x]
      BY <1>1, <1>9, <3>1 DEF ClearCell, Types
    <3> HIDE DEF x, c
    <3> QED BY <3>1, <3>2, <3>3
  <2> QED BY <1>1, <1>2, <1>3, <1>9, <2>1, <2>2, TaskKeeps DEF ClearCell, TakenUp, editor, channels,
             process, Types
<1> QED BY <1>4, <1>5, <1>6, <1>7, <1>8, <1>9

(* What the kernel publishes, and what the backend reads.                  *)
LEMMA ChannelKeeps ==
  ASSUME TypeInv, UNCHANGED <<reqs, editor>>, kernel' \in -1 .. MaxRequests, back' \in [Cells -> Backs],
         \/ wire' = wire
         \/ \E m \in Messages : wire' = Append(wire, m) /\ m.kind # "answer"
                                /\ (m.kind = "event" => m.event.run \in Runs),
         dying' \in BOOLEAN, queue' \in Seq(Ids), step' \in {"waits", "runs"},
         \A i \in 1 .. Len(queue') : queue'[i] \in Runs,
         step' = "runs" => queue' # <<>>,
         iopub' \in Seq(Events), shell' \in Seq(Replies),
         \A i \in 1 .. Len(iopub') : iopub'[i].run \in Runs,
         \A i \in 1 .. Len(shell') : shell'[i].run \in Runs
  PROVE  TypeInv'
<1>1. Types /\ WireInv /\ ChainInv /\ BoundInv
  BY DEF TypeInv
<1>2. Runs' = Runs
  BY DEF Runs
<1>3. Types'
  BY <1>1, <1>2 DEF Types, editor
<1>4. /\ wire' \in Seq(Messages)
      /\ \A i \in 1 .. Len(wire') :
           /\ wire'[i].kind = "answer" => i \in 1 .. Len(wire) /\ wire'[i] = wire[i]
           /\ wire'[i].kind = "event" =>
                (i \in 1 .. Len(wire) /\ wire'[i] = wire[i]) \/ wire'[i].event.run \in Runs
      /\ \A i \in 1 .. Len(wire) : i \in 1 .. Len(wire') /\ wire'[i] = wire[i]
  <2>1. CASE wire' = wire
    BY <1>1, <2>1 DEF WireInv
  <2>2. ASSUME NEW m \in Messages, wire' = Append(wire, m), m.kind # "answer",
               m.kind = "event" => m.event.run \in Runs
        PROVE  <1>4!1 /\ <1>4!2 /\ <1>4!3
    BY <1>1, <2>2, Said
  <2> QED BY <2>1, <2>2
<1>5. WireInv'
  BY <1>1, <1>2, <1>4 DEF WireInv
<1>6. ChainWaits' <=> ChainWaits
  BY <1>2 DEF ChainWaits
<1>7. AnswerComes' <=> AnswerComes
  <2>1. ASSUME NEW i \in 1 .. Len(wire'), wire'[i].kind = "answer", reqs'[wire'[i].run].chained PROVE AnswerComes
    BY <1>4, <2>1 DEF AnswerComes
  <2>2. ASSUME NEW i \in 1 .. Len(wire), wire[i].kind = "answer", reqs[wire[i].run].chained PROVE AnswerComes'
    BY <1>4, <2>2 DEF AnswerComes
  <2> QED BY <2>1, <2>2 DEF AnswerComes
<1>8. ChainInv'
  <2>1. \A i, j \in 1 .. Len(wire') :
          wire'[i].kind = "answer" /\ wire'[j].kind = "answer"
          /\ reqs'[wire'[i].run].chained /\ reqs'[wire'[j].run].chained => i = j
    <3>1. \A i, j \in 1 .. Len(wire) :
            wire[i].kind = "answer" /\ wire[j].kind = "answer"
            /\ reqs[wire[i].run].chained /\ reqs[wire[j].run].chained => i = j
      BY <1>1 DEF ChainInv
    <3>2. ASSUME NEW i \in 1 .. Len(wire'), wire'[i].kind = "answer", reqs'[wire'[i].run].chained
          PROVE  i \in 1 .. Len(wire) /\ wire[i].kind = "answer" /\ reqs[wire[i].run].chained
      BY <1>4, <3>2
    <3> QED BY <3>1, <3>2
  <2> QED BY <1>1, <1>2, <1>6, <1>7, <2>1 DEF ChainInv, Asked, editor
<1>9. BoundInv'
  BY <1>1, <1>6, <1>7 DEF BoundInv, Asked, editor
<1> QED BY <1>3, <1>5, <1>8, <1>9 DEF TypeInv

LEMMA KernelTypes ==
  ASSUME TypeInv, KernelSteps \/ KernelExited
  PROVE  TypeInv'
<1>1. Types /\ WireInv
  BY DEF TypeInv
<1>2. /\ kernel \in -1 .. MaxRequests /\ queue \in Seq(Ids) /\ back \in [Cells -> Backs]
      /\ dying \in BOOLEAN /\ step \in {"waits", "runs"}
      /\ iopub \in Seq(Events) /\ shell \in Seq(Replies)
      /\ \A i \in 1 .. Len(queue) : queue[i] \in Runs
      /\ \A i \in 1 .. Len(iopub) : iopub[i].run \in Runs
      /\ \A i \in 1 .. Len(shell) : shell[i].run \in Runs
      /\ step = "runs" => queue # <<>>
  BY <1>1 DEF Types, WireInv
<1>3. ASSUME queue # <<>>
      PROVE  /\ Head(queue) \in Ids /\ Head(queue) \in Runs /\ Tail(queue) \in Seq(Ids)
             /\ \A i \in 1 .. Len(Tail(queue)) : Tail(queue)[i] \in Runs
  BY <1>2, <1>3
<1>4. ASSUME NEW k \in {"busy", "input", "idle", "output", "clear", "wait"}, NEW q \in Ids
      PROVE  Event(k, q) \in Events /\ Event(k, q).run = q
  BY <1>4 DEF Event, Events
<1>5. ASSUME NEW q \in Ids, NEW ran \in BOOLEAN PROVE Reply(q, ran) \in Replies /\ Reply(q, ran).run = q
  BY <1>5 DEF Reply, Replies
<1>6. ASSUME NEW e \in Events, e.run \in Runs
      PROVE  /\ Append(iopub, e) \in Seq(Events)
             /\ \A i \in 1 .. Len(Append(iopub, e)) : Append(iopub, e)[i].run \in Runs
  BY <1>2, <1>6
<1>7. ASSUME NEW e \in Replies, e.run \in Runs
      PROVE  /\ Append(shell, e) \in Seq(Replies)
             /\ \A i \in 1 .. Len(Append(shell, e)) : Append(shell, e)[i].run \in Runs
  BY <1>2, <1>7
<1>8. ASSUME NEW d \in Events, NEW e \in Events, d.run \in Runs, e.run \in Runs
      PROVE  /\ iopub \o <<d, e>> \in Seq(Events)
             /\ \A i \in 1 .. Len(iopub \o <<d, e>>) : (iopub \o <<d, e>>)[i].run \in Runs
  <2> DEFINE s == iopub \o <<d, e>>
  <2>1. s \in Seq(Events) /\ Len(s) = Len(iopub) + 2 /\ Len(iopub) \in Nat
    BY <1>2
  <2>2. \A i \in 1 .. Len(s) :
          s[i] = IF i <= Len(iopub) THEN iopub[i] ELSE IF i = Len(iopub) + 1 THEN d ELSE e
    BY <1>2
  <2> HIDE DEF s
  <2>3. ASSUME NEW i \in 1 .. Len(s) PROVE s[i].run \in Runs
    <3>1. CASE i \in 1 .. Len(iopub)
      BY <1>2, <2>2, <2>3, <3>1
    <3>2. CASE i \notin 1 .. Len(iopub)
      BY <1>8, <2>1, <2>2, <2>3, <3>2
    <3> QED BY <3>1, <3>2
  <2> QED BY <2>1, <2>3 DEF s
<1>9. CASE KernelBegins
  <2>1. queue # <<>> /\ step = "waits" /\ UNCHANGED <<editor, reqs, wire, kernel, back, dying, prints>>
    BY <1>9 DEF KernelBegins
  <2> DEFINE r == Head(queue)
  <2>2. CASE iopub' = iopub \o <<Event("busy", r), Event("input", r)>> /\ step' = "runs" /\ UNCHANGED <<queue, shell>>
    <3> DEFINE d == Event("busy", r)
               e == Event("input", r)
    <3>0. d \in Events /\ e \in Events /\ d.run \in Runs /\ e.run \in Runs /\ iopub' = iopub \o <<d, e>>
      BY <1>3, <1>4, <2>1, <2>2
    <3> HIDE DEF d, e
    <3>1. iopub' \in Seq(Events) /\ \A i \in 1 .. Len(iopub') : iopub'[i].run \in Runs
      BY <1>8, <3>0
    <3> QED BY <1>2, <2>1, <2>2, <3>1, ChannelKeeps
  <2>3. CASE /\ iopub' = iopub \o <<Event("busy", r), Event("idle", r)>>
             /\ shell' = Append(shell, Reply(r, FALSE)) /\ queue' = Tail(queue) /\ step' = step
    <3> DEFINE d == Event("busy", r)
               e == Event("idle", r)
    <3>0. d \in Events /\ e \in Events /\ d.run \in Runs /\ e.run \in Runs /\ iopub' = iopub \o <<d, e>>
      BY <1>3, <1>4, <2>1, <2>3
    <3> HIDE DEF d, e
    <3>1. iopub' \in Seq(Events) /\ \A i \in 1 .. Len(iopub') : iopub'[i].run \in Runs
      BY <1>8, <3>0
    <3>2. shell' \in Seq(Replies) /\ \A i \in 1 .. Len(shell') : shell'[i].run \in Runs
      BY <1>3, <1>5, <1>7, <2>1, <2>3
    <3> QED BY <1>2, <1>3, <2>1, <2>3, <3>1, <3>2, ChannelKeeps
  <2> QED BY <1>9, <2>2, <2>3 DEF KernelBegins
<1>10. ASSUME NEW k \in {"output", "clear", "wait"}, KernelPrints(k) PROVE TypeInv'
  <2>1. /\ queue # <<>> /\ iopub' = Append(iopub, Event(k, Head(queue)))
        /\ UNCHANGED <<editor, reqs, wire, kernel, back, dying, queue, step, shell>>
    BY <1>2, <1>10 DEF KernelPrints
  <2>2. iopub' \in Seq(Events) /\ \A i \in 1 .. Len(iopub') : iopub'[i].run \in Runs
    BY <1>3, <1>4, <1>6, <2>1
  <2> QED BY <1>2, <2>1, <2>2, ChannelKeeps
<1>11. CASE KernelEnds
  <2>1. /\ queue # <<>> /\ iopub' = Append(iopub, Event("idle", Head(queue)))
        /\ shell' = Append(shell, Reply(Head(queue), TRUE)) /\ queue' = Tail(queue) /\ step' = "waits"
        /\ UNCHANGED <<editor, reqs, wire, kernel, back, dying, prints>>
    BY <1>2, <1>11 DEF KernelEnds
  <2>2. iopub' \in Seq(Events) /\ \A i \in 1 .. Len(iopub') : iopub'[i].run \in Runs
    BY <1>3, <1>4, <1>6, <2>1
  <2>3. shell' \in Seq(Replies) /\ \A i \in 1 .. Len(shell') : shell'[i].run \in Runs
    BY <1>3, <1>5, <1>7, <2>1
  <2> QED BY <1>2, <1>3, <2>1, <2>2, <2>3, ChannelKeeps
<1>12. CASE KernelDies
  <2>1. <<>> \in Seq(Ids) /\ Len(<<>>) = 0
    BY EmptySeq
  <2> QED BY <1>2, <1>12, <2>1, ChannelKeeps DEF KernelDies, channels
<1>13. CASE KernelExited
  <2> DEFINE m == [kind |-> "exited"]
  <2>1. /\ queue' = <<>> /\ queue' \in Seq(Ids) /\ Len(<<>>) = 0 /\ m \in Messages /\ m.kind = "exited"
        /\ kernel' \in -1 .. MaxRequests
    BY <1>13, EmptySeq, Numbers DEF Messages, KernelExited, Gone
  <2>2. /\ wire' = Append(wire, m) /\ dying' \in BOOLEAN /\ step' = "waits"
        /\ UNCHANGED <<editor, reqs, back>> /\ iopub' = iopub /\ shell' = shell
    BY <1>13 DEF KernelExited, Gone, Say, channels
  <2> HIDE DEF m
  <2> QED BY <1>2, <2>1, <2>2, ChannelKeeps
<1> QED BY <1>9, <1>10, <1>11, <1>12, <1>13 DEF KernelSteps

LEMMA PumpTypes ==
  ASSUME TypeInv, PumpIopub \/ PumpShell
  PROVE  TypeInv'
<1>1. Types /\ WireInv
  BY DEF TypeInv
<1>2. /\ kernel \in -1 .. MaxRequests /\ queue \in Seq(Ids) /\ back \in [Cells -> Backs]
      /\ dying \in BOOLEAN /\ step \in {"waits", "runs"}
      /\ iopub \in Seq(Events) /\ shell \in Seq(Replies)
      /\ \A i \in 1 .. Len(queue) : queue[i] \in Runs
      /\ \A i \in 1 .. Len(iopub) : iopub[i].run \in Runs
      /\ \A i \in 1 .. Len(shell) : shell[i].run \in Runs
      /\ step = "runs" => queue # <<>>
  BY <1>1 DEF Types, WireInv
<1>3. ASSUME NEW e \in Events \cup Replies, e.run \in Runs, Pump(e)
      PROVE  /\ back' \in [Cells -> Backs]
             /\ \/ wire' = wire
                \/ \E m \in Messages : wire' = Append(wire, m) /\ m.kind # "answer"
                                       /\ (m.kind = "event" => m.event.run \in Runs)
  <2> DEFINE c == reqs[e.run].cell
  <2>1. c \in Cells
    <3>1. reqs \in Seq(Requests) /\ e.run \in 1 .. Len(reqs)
      BY <1>1, <1>3 DEF Types, Runs
    <3>2. reqs[e.run] \in Requests
      BY <3>1
    <3> QED BY <3>2 DEF Requests
  <2>2. Applied(back[c], e) \in Backs /\ Note(back[c], e) \in Messages
    BY <1>2, <2>1, EventTypes
  <2>3. Note(back[c], e).kind = "event" /\ Note(back[c], e).event = e
    BY DEF Note
  <2>4. CASE back' = [back EXCEPT ![c] = Applied(@, e)] /\ wire' = Append(wire, Note(back[c], e))
    <3> DEFINE x == Applied(back[c], e)
               m == Note(back[c], e)
    <3>1. x \in Backs /\ m \in Messages /\ m.kind = "event" /\ m.event = e
      BY <2>2, <2>3
    <3>2. back' = [back EXCEPT ![c] = x] /\ wire' = Append(wire, m)
      BY <2>4
    <3> HIDE DEF x, m, c
    <3>3. back' \in [Cells -> Backs]
      BY <1>2, <2>1, <3>1, <3>2
    <3>4. m.kind # "answer" /\ (m.kind = "event" => m.event.run \in Runs)
      BY <1>3, <3>1
    <3> QED BY <3>1, <3>2, <3>3, <3>4
  <2>5. CASE UNCHANGED <<back, wire>>
    BY <1>2, <2>5
  <2> QED BY <1>3, <2>4, <2>5 DEF Pump, Say
<1>4. CASE PumpIopub
  <2>1. /\ iopub # <<>> /\ Pump(Head(iopub)) /\ iopub' = Tail(iopub) /\ shell' = shell
        /\ UNCHANGED <<editor, reqs, kernel, dying, queue, step>>
    BY <1>4 DEF PumpIopub, process
  <2>2. Head(iopub) \in Events /\ Head(iopub).run \in Runs
    BY <1>2, <2>1
  <2>3. iopub' \in Seq(Events) /\ \A i \in 1 .. Len(iopub') : iopub'[i].run \in Runs
    BY <1>2, <2>1
  <2> QED BY <1>2, <1>3, <2>1, <2>2, <2>3, ChannelKeeps
<1>5. CASE PumpShell
  <2>1. /\ shell # <<>> /\ Pump(Head(shell)) /\ shell' = Tail(shell) /\ iopub' = iopub
        /\ UNCHANGED <<editor, reqs, kernel, dying, queue, step>>
    BY <1>5 DEF PumpShell, process
  <2>2. Head(shell) \in Replies /\ Head(shell).run \in Runs
    BY <1>2, <2>1
  <2>3. shell' \in Seq(Replies) /\ \A i \in 1 .. Len(shell') : shell'[i].run \in Runs
    BY <1>2, <2>1
  <2> QED BY <1>2, <1>3, <2>1, <2>2, <2>3, ChannelKeeps
<1> QED BY <1>4, <1>5

(* What the editor hears.                                                  *)
LEMMA HeardKeeps ==
  ASSUME TypeInv, wire # <<>>, wire' = Tail(wire),
         UNCHANGED <<epoch, reqs, kernel, back, process, channels>>,
         st' \in [Cells -> CellStates], front' \in [Cells -> Copies],
         retiring' \in 0 .. epoch, started' \in BOOLEAN,
         LET m == Head(wire)
         IN  IF m.kind = "answer" /\ reqs[m.run].chained
             THEN chain' \in {Tail(chain), <<>>} ELSE chain' = chain
  PROVE  TypeInv'
<1>1. Types /\ WireInv /\ ChainInv /\ BoundInv
  BY DEF TypeInv
<1>2. /\ wire' \in Seq(Messages) /\ Len(wire) \in Nat \ {0} /\ Len(wire') = Len(wire) - 1
      /\ \A i \in 1 .. Len(wire') : wire'[i] = wire[i + 1] /\ i + 1 \in 1 .. Len(wire)
      /\ Head(wire) = wire[1] /\ wire[1] \in Messages
  BY <1>1, Heard
<1>3. Runs' = Runs /\ (ChainWaits' <=> ChainWaits)
  BY DEF Runs, ChainWaits
<1> DEFINE Part == Head(wire).kind = "answer" /\ reqs[Head(wire).run].chained
<1>4. Part => AnswerComes /\ chain # <<>> /\ ~ChainWaits
  BY <1>1, <1>2 DEF AnswerComes, ChainInv, Asked
<1>5. chain' \in Seq(Cells) /\ Len(chain') \in Nat /\ Len(chain) \in Nat
      /\ (Part => Len(chain') <= Len(chain) - 1)
  <2>1. CASE Part
    <3>1. chain # <<>> /\ chain \in Seq(Cells) /\ chain' \in {Tail(chain), <<>>}
      BY <1>1, <1>4, <2>1 DEF Types
    <3>2. CASE chain' = Tail(chain)
      BY <3>1, <3>2
    <3>3. CASE chain' = <<>>
      BY <3>1, <3>3
    <3> QED BY <3>1, <3>2, <3>3
  <2>2. CASE ~Part
    BY <1>1, <2>2 DEF Types
  <2> QED BY <2>1, <2>2
<1>6. Types'
  BY <1>1, <1>3, <1>5 DEF Types, process, channels
<1>7. WireInv'
  BY <1>1, <1>2, <1>3 DEF WireInv, process, channels
<1>8. AnswerComes' => AnswerComes /\ ~Part
  <2>1. ASSUME NEW i \in 1 .. Len(wire'), wire'[i].kind = "answer", reqs[wire'[i].run].chained
        PROVE  AnswerComes /\ ~Part
    BY <1>1, <1>2, <2>1 DEF AnswerComes, ChainInv
  <2> QED BY <2>1 DEF AnswerComes
<1>9. AnswerComes /\ ~Part => AnswerComes'
  <2>1. ASSUME NEW i \in 1 .. Len(wire), wire[i].kind = "answer", reqs[wire[i].run].chained, ~Part
        PROVE  AnswerComes'
    <3>1. i # 1 /\ i - 1 \in 1 .. Len(wire') /\ wire'[i - 1] = wire[i]
      BY <1>2, <2>1
    <3> QED BY <2>1, <3>1 DEF AnswerComes
  <2> QED BY <2>1 DEF AnswerComes
<1>10. ~Part => chain' = chain
  OBVIOUS
<1> HIDE DEF Part
<1>11. ChainInv'
  <2>1. \A i, j \in 1 .. Len(wire') :
          wire'[i].kind = "answer" /\ wire'[j].kind = "answer"
          /\ reqs'[wire'[i].run].chained /\ reqs'[wire'[j].run].chained => i = j
    BY <1>1, <1>2 DEF ChainInv
  <2>2. Asked' => chain' # <<>>
    <3>1. Asked' => ~Part /\ Asked
      BY <1>3, <1>4, <1>8 DEF Asked
    <3> QED BY <1>1, <1>10, <3>1 DEF ChainInv
  <2>3. ~(ChainWaits' /\ AnswerComes')
    BY <1>1, <1>3, <1>8 DEF ChainInv
  <2> QED BY <1>1, <1>3, <2>1, <2>2, <2>3 DEF ChainInv
<1>12. BoundInv'
  <2>1. CASE Part
    BY <1>1, <1>3, <1>4, <1>5, <1>8, <2>1, Numbers DEF BoundInv, Asked, Types
  <2>2. CASE ~Part
    BY <1>1, <1>3, <1>8, <1>9, <1>10, <2>2 DEF BoundInv, Asked
  <2> QED BY <2>1, <2>2
<1> QED BY <1>6, <1>7, <1>11, <1>12 DEF TypeInv

LEMMA HeardTypes ==
  ASSUME TypeInv, CellEvent \/ Answered \/ Exited
  PROVE  TypeInv'
<1>1. Types /\ WireInv /\ epoch \in 0 .. MaxRequests /\ epoch \in Nat /\ retiring \in 0 .. epoch /\ started \in BOOLEAN
  BY Numbers DEF TypeInv, Types, BoundInv
<1>2. /\ st \in [Cells -> CellStates] /\ front \in [Cells -> Copies]
      /\ \A c \in Cells : st[c] \in CellStates /\ front[c] \in Copies
  BY <1>1 DEF Types
<1>3. [c \in Cells |-> Released(st[c])] \in [Cells -> CellStates]
  BY <1>1, <1>2, StateTypes
<1>4. wire # <<>> => Head(wire) \in Messages /\ Head(wire) = wire[1] /\ 1 \in 1 .. Len(wire)
  BY <1>1 DEF WireInv
<1>5. CASE CellEvent
  <2> DEFINE m == Head(wire)
             c == reqs[m.event.run].cell
  <2>1. /\ wire # <<>> /\ m.kind = "event" /\ wire' = Tail(wire)
        /\ front' = [front EXCEPT ![c] = Shown(@, m.event, m.first)]
        /\ st' = IF Stale(c) THEN st ELSE [st EXCEPT ![c] = State(@, m.event)]
        /\ UNCHANGED <<epoch, retiring, started, chain, reqs, kernel, back, process, channels>>
    BY <1>5 DEF CellEvent
  <2>2. m.event \in Events \cup Replies /\ m.first \in BOOLEAN /\ m.event.run \in Runs
    BY <1>1, <1>4, <2>1, Kinds DEF WireInv
  <2>3. c \in Cells
    <3>1. reqs \in Seq(Requests) /\ m.event.run \in 1 .. Len(reqs)
      BY <1>1, <2>2 DEF Types, Runs
    <3>2. reqs[m.event.run] \in Requests
      BY <3>1
    <3> QED BY <3>2 DEF Requests
  <2>4. State(st[c], m.event) \in CellStates /\ Shown(front[c], m.event, m.first) \in Copies
    BY <1>2, <2>2, <2>3, EventTypes
  <2>5. st' \in [Cells -> CellStates] /\ front' \in [Cells -> Copies]
    BY <1>2, <2>1, <2>3, <2>4
  <2> QED BY <1>1, <2>1, <2>5, HeardKeeps
<1>6. CASE Answered
  <2> DEFINE m == Head(wire)
  <2>1. /\ wire # <<>> /\ m.kind = "answer" /\ wire' = Tail(wire)
        /\ IF reqs[m.run].op = "execute" THEN RunAnswered(m.run, m.ok) ELSE AskAnswered(m.run, m.ok)
        /\ UNCHANGED <<epoch, front, reqs, kernel, back, process, channels>>
    BY <1>6 DEF Answered
  <2>2. m.run \in 1 .. Len(reqs) /\ (reqs[m.run].chained => reqs[m.run].op = "execute")
    BY <1>1, <1>4, <2>1, Kinds, Numbers DEF TypeInv, WireInv, ChainInv, Runs
  <2>3. CASE reqs[m.run].op = "execute"
    <3>1. RunAnswered(m.run, m.ok)
      BY <2>1, <2>3
    <3>2. st' \in [Cells -> CellStates] /\ UNCHANGED <<retiring, started>>
      BY <1>1, <1>2, <3>1, StateTypes DEF RunAnswered
    <3>3. IF m.kind = "answer" /\ reqs[m.run].chained THEN chain' \in {Tail(chain), <<>>} ELSE chain' = chain
      BY <2>1, <3>1 DEF RunAnswered
    <3> QED BY <1>1, <1>2, <2>1, <3>2, <3>3, HeardKeeps
  <2>4. CASE reqs[m.run].op # "execute"
    <3>1. AskAnswered(m.run, m.ok)
      BY <2>1, <2>4
    <3>2. retiring' \in 0 .. epoch /\ st' = st /\ chain' = chain
      BY <1>1, <3>1 DEF AskAnswered
    <3>3. started' \in BOOLEAN
      <4>1. started' = (started \/ (reqs[m.run].op = "start" /\ m.ok))
        BY <3>1 DEF AskAnswered
      <4> QED BY <4>1
    <3> QED BY <1>1, <1>2, <2>1, <2>2, <2>4, <3>2, <3>3, HeardKeeps
  <2> QED BY <2>3, <2>4
<1>7. CASE Exited
  <2>1. /\ wire # <<>> /\ Head(wire).kind = "exited" /\ wire' = Tail(wire) /\ started' \in BOOLEAN
        /\ st' = [c \in Cells |-> Released(st[c])]
        /\ UNCHANGED <<epoch, retiring, chain, front, reqs, kernel, back, process, channels>>
    BY <1>7 DEF Exited
  <2> QED BY <1>1, <1>2, <1>3, <2>1, HeardKeeps
<1> QED BY <1>5, <1>6, <1>7

LEMMA TypeStep ==
  ASSUME TypeInv, [Next]_vars
  PROVE  TypeInv'
<1>1. CASE UNCHANGED vars
  <2>1. UNCHANGED <<editor, reqs, wire, kernel, back, process, channels>>
    BY <1>1 DEF vars
  <2>2. Runs' = Runs /\ (ChainWaits' <=> ChainWaits) /\ (AnswerComes' <=> AnswerComes)
    BY <2>1 DEF Runs, ChainWaits, AnswerComes
  <2> QED BY <2>1, <2>2 DEF TypeInv, Types, WireInv, ChainInv, BoundInv, Asked, editor, process, channels
<1>2. CASE User
  BY <1>2, RunCellTypes, RunAllTypes, UserTypes DEF User
<1>3. CASE Editor
  BY <1>3, SendNextTypes, HeardTypes DEF Editor
<1>4. CASE Backend
  BY <1>4, TaskTypes, KernelTypes, PumpTypes DEF Backend
<1>5. CASE KernelSteps
  BY <1>5, KernelTypes
<1> QED BY <1>1, <1>2, <1>3, <1>4, <1>5 DEF Next

(* The runs of cells keep their types, for any cells and however many      *)
(* requests the user makes.                                                *)
THEOREM RunsAreTyped == Spec => []TypeOK
<1>1. Init => TypeInv
  BY InitTypes
<1>2. TypeInv /\ [Next]_vars => TypeInv'
  BY TypeStep
<1>3. TypeInv => TypeOK
  BY TypesAre DEF TypeInv
<1> QED BY <1>1, <1>2, <1>3, PTL DEF Spec
-----------------------------------------------------------------------------
(* What the editor shows and what the backend saves.                       *)

(* A cell as the editor shows it after a message.                          *)
After(m, c, x) ==
  IF m.kind = "event" /\ reqs[m.event.run].cell = c THEN Shown(x, m.event, m.first) ELSE x

Copy(b) == [outs |-> b.outs, count |-> b.count]

(* The copies the editor will show of a cell while it handles what is on   *)
(* its way to it: the last of them is what the backend has now.            *)
Leads(h, c) ==
  /\ h[0] = front[c] /\ h[Len(wire)] = Copy(back[c])
  /\ \A i \in 1 .. Len(wire) : h[i] = After(wire[i], c, h[i - 1])

MirrorInv == Unclear => \A c \in Cells : \E h : Leads(h, c)

(* The note on an event does to the editor's copy what the event does to   *)
(* the backend's.                                                          *)
LEMMA NotesTell ==
  ASSUME NEW b \in Backs, NEW e \in Events \cup Replies
  PROVE  Copy(Applied(b, e)) = Shown(Copy(b), e, Note(b, e).first)
<1>1. e.kind \in {"busy", "input", "idle", "output", "clear", "wait", "reply"}
  BY DEF Events, Replies
<1>2. Note(b, e).first = (e.kind = "output" /\ b.wait)
  BY DEF Note
<1>3. /\ Stamped(b, e.run).outs = b.outs /\ Stamped(b, e.run).count = b.count
      /\ Stamped(b, e.run) \in [outs : Seq(Ids), count : 0 .. MaxRequests, wait : BOOLEAN,
                                start : 0 .. MaxRequests, end : {e.run} \cup 0 .. MaxRequests]
  BY DEF Stamped, Backs
<1>4. CASE e.kind = "input"
  BY <1>4 DEF Applied, Shown, Copy, Backs
<1>5. CASE e.kind = "busy"
  BY <1>5 DEF Applied, Shown, Copy, Backs
<1>6. CASE e.kind = "idle"
  BY <1>3, <1>6 DEF Applied, AtIdle, Shown, Copy
<1>7. CASE e.kind = "reply"
  <2> DEFINE z == Stamped(b, e.run)
             y == IF b.count = 0 /\ e.ran THEN e.run ELSE b.count
  <2>1. Applied(b, e) = [z EXCEPT !.count = y]
    BY <1>3, <1>7 DEF Applied
  <2>2. Copy(Applied(b, e)) = [outs |-> b.outs, count |-> y]
    <3>1. z.outs = b.outs /\ z \in [outs : Seq(Ids), count : 0 .. MaxRequests, wait : BOOLEAN,
                                    start : 0 .. MaxRequests, end : {e.run} \cup 0 .. MaxRequests]
      BY <1>3
    <3> HIDE DEF z, y
    <3> QED BY <2>1, <3>1 DEF Copy
  <2>3. Shown(Copy(b), e, Note(b, e).first) = [outs |-> b.outs, count |-> y]
    BY <1>7 DEF Shown, Copy
  <2> QED BY <2>2, <2>3
<1>8. CASE e.kind = "wait"
  BY <1>8 DEF Applied, Shown, Copy, Backs
<1>9. CASE e.kind = "clear"
  BY <1>9 DEF Applied, Shown, Copy, Backs
<1>10. CASE e.kind = "output"
  <2> DEFINE x == Append(IF b.wait THEN <<>> ELSE b.outs, e.run)
  <2>1. Applied(b, e) = [b EXCEPT !.outs = x, !.wait = FALSE]
    BY <1>10 DEF Applied
  <2>2. Copy(Applied(b, e)) = [outs |-> x, count |-> b.count]
    <3> HIDE DEF x
    <3> QED BY <2>1 DEF Copy, Backs
  <2>3. Shown(Copy(b), e, Note(b, e).first) = [outs |-> x, count |-> b.count]
    BY <1>2, <1>10 DEF Shown, Copy
  <2> QED BY <2>2, <2>3
<1> QED BY <1>1, <1>4, <1>5, <1>6, <1>7, <1>8, <1>9, <1>10

(* The cells of the events on the wire stay what they are, and a request   *)
(* to clear is never forgotten.                                            *)
LEMMA CellsStay ==
  ASSUME TypeInv, [Next]_vars
  PROVE  /\ \A r \in 1 .. Len(reqs) : r \in 1 .. Len(reqs') /\ reqs'[r].cell = reqs[r].cell
                                      /\ reqs'[r].op = reqs[r].op
         /\ Unclear' => Unclear
<1>1. Types /\ reqs \in Seq(Requests) /\ Len(reqs) \in Nat
  BY DEF TypeInv, Types
<1> DEFINE Stay == \A r \in 1 .. Len(reqs) : r \in 1 .. Len(reqs') /\ reqs'[r].cell = reqs[r].cell
                                             /\ reqs'[r].op = reqs[r].op
<1>2. ASSUME NEW q, reqs' = Append(reqs, q) PROVE Stay
  BY <1>1, <1>2
<1>3. ASSUME NEW r \in 1 .. Len(reqs), NEW a, NEW k, Becomes(r, a, k) PROVE Stay
  <2>1. reqs' = [reqs EXCEPT ![r] = [reqs[r] EXCEPT !.at = a, !.kernel = k]]
    BY <1>1, <1>3 DEF Becomes
  <2>2. Len(reqs') = Len(reqs) /\ \A q \in 1 .. Len(reqs) :
          reqs'[q] = IF q = r THEN [reqs[r] EXCEPT !.at = a, !.kernel = k] ELSE reqs[q]
    BY <1>1, <2>1
  <2>3. reqs[r] \in Requests
    BY <1>1
  <2>4. [reqs[r] EXCEPT !.at = a, !.kernel = k].cell = reqs[r].cell
        /\ [reqs[r] EXCEPT !.at = a, !.kernel = k].op = reqs[r].op
    BY <2>3 DEF Requests
  <2> QED BY <2>2, <2>4
<1>4. ASSUME reqs' = reqs PROVE Stay
  BY <1>4
<1>5. Stay
  <2> HIDE DEF Stay
  <2>1. CASE UNCHANGED vars
    BY <1>4, <2>1 DEF vars
  <2>2. CASE User
    BY <1>2, <1>4, <2>2 DEF User, RunCell, Clear, RunAll, Stop, Restart, Start
  <2>3. CASE Editor
    BY <1>2, <1>4, <2>3 DEF Editor, SendNext, CellEvent, Answered, Exited
  <2>4. CASE Backend
    BY <1>3, <1>4, <2>4
       DEF Backend, Execute, TakeKernel, Killed, StartKernel, Launched, ClearCell, KernelExited, PumpIopub, PumpShell
  <2>5. CASE KernelSteps
    BY <1>4, <2>5 DEF KernelSteps, KernelBegins, KernelEnds, KernelDies, KernelPrints
  <2> QED BY <2>1, <2>2, <2>3, <2>4, <2>5 DEF Next
<1> QED BY <1>5 DEF Unclear


(* The copies to come, when a message is sent, and when one is handled.    *)
LEMMA LeadsStay ==
  ASSUME TypeInv, [Next]_vars, NEW c, NEW h, Leads(h, c),
         wire' = wire, front'[c] = front[c], Copy(back'[c]) = Copy(back[c])
  PROVE  Leads(h, c)'
<1>1. \A i \in 1 .. Len(wire) : wire[i].kind = "event" => wire[i].event.run \in 1 .. Len(reqs)
  BY DEF TypeInv, WireInv, Runs
<1>2. \A i \in 1 .. Len(wire) : wire[i].kind = "event" =>
        reqs'[wire[i].event.run].cell = reqs[wire[i].event.run].cell
  BY <1>1, CellsStay
<1>3. \A i \in 1 .. Len(wire) : h[i] =
        IF wire[i].kind = "event" /\ reqs'[wire[i].event.run].cell = c
        THEN Shown(h[i - 1], wire[i].event, wire[i].first) ELSE h[i - 1]
  BY <1>2 DEF Leads, After
<1> QED BY <1>3 DEF Leads, After, Copy

LEMMA LeadsOn ==
  ASSUME TypeInv, [Next]_vars, NEW c, NEW h, Leads(h, c),
         NEW m \in Messages, wire' = Append(wire, m), front'[c] = front[c],
         Copy(back'[c]) = IF m.kind = "event" /\ reqs'[m.event.run].cell = c
                          THEN Shown(Copy(back[c]), m.event, m.first) ELSE Copy(back[c])
  PROVE  \E g : Leads(g, c)'
<1>1. /\ wire' \in Seq(Messages) /\ Len(wire) \in Nat /\ Len(wire') = Len(wire) + 1
      /\ \A i \in 1 .. Len(wire) : wire'[i] = wire[i]
      /\ wire'[Len(wire) + 1] = m
      /\ \A i \in 1 .. Len(wire') : i \in 1 .. Len(wire) \/ i = Len(wire) + 1
  BY Said DEF TypeInv
<1>2. \A i \in 1 .. Len(wire) : wire[i].kind = "event" => wire[i].event.run \in 1 .. Len(reqs)
  BY DEF TypeInv, WireInv, Runs
<1>3. \A i \in 1 .. Len(wire) : wire[i].kind = "event" =>
        reqs'[wire[i].event.run].cell = reqs[wire[i].event.run].cell
  BY <1>2, CellsStay
<1>4. PICK g : g[Len(wire) + 1] = Copy(back'[c]) /\ \A i \in 0 .. Len(wire) : g[i] = h[i]
  <2> DEFINE f == [i \in 0 .. Len(wire) + 1 |-> IF i = Len(wire) + 1 THEN Copy(back'[c]) ELSE h[i]]
  <2>1. f[Len(wire) + 1] = Copy(back'[c]) /\ \A i \in 0 .. Len(wire) : f[i] = h[i]
    BY <1>1
  <2> HIDE DEF f
  <2> QED BY <2>1
<1>5. /\ h[0] = front[c] /\ h[Len(wire)] = Copy(back[c])
      /\ \A i \in 1 .. Len(wire) : h[i] = After(wire[i], c, h[i - 1])
  BY DEF Leads
<1>6. g[0] = front'[c] /\ g[Len(wire')] = Copy(back'[c])
  BY <1>1, <1>4, <1>5
<1>7. ASSUME NEW i \in 1 .. Len(wire')
      PROVE  g[i] = IF wire'[i].kind = "event" /\ reqs'[wire'[i].event.run].cell = c
                    THEN Shown(g[i - 1], wire'[i].event, wire'[i].first) ELSE g[i - 1]
  <2>1. CASE i \in 1 .. Len(wire)
    <3>1. i - 1 \in 0 .. Len(wire) /\ i \in 0 .. Len(wire)
      BY <1>1, <2>1
    <3>2. g[i] = h[i] /\ g[i - 1] = h[i - 1] /\ wire'[i] = wire[i]
      BY <1>1, <1>4, <2>1, <3>1
    <3>3. h[i] = After(wire[i], c, h[i - 1])
      BY <1>5, <2>1
    <3> QED BY <1>3, <2>1, <3>2, <3>3 DEF After
  <2>2. CASE i = Len(wire) + 1
    <3>1. i - 1 = Len(wire) /\ Len(wire) \in 0 .. Len(wire)
      BY <1>1, <2>2
    <3>2. g[i - 1] = Copy(back[c]) /\ g[i] = Copy(back'[c]) /\ wire'[i] = m
      BY <1>1, <1>4, <1>5, <2>2, <3>1
    <3> QED BY <3>2
  <2> QED BY <1>1, <1>7, <2>1, <2>2
<1> QED BY <1>6, <1>7 DEF Leads, After, Copy

LEMMA LeadsLess ==
  ASSUME TypeInv, [Next]_vars, NEW c, NEW h, Leads(h, c),
         wire # <<>>, wire' = Tail(wire), Copy(back'[c]) = Copy(back[c]),
         front'[c] = After(wire[1], c, front[c])
  PROVE  \E g : Leads(g, c)'
<1>1. /\ Len(wire) \in Nat \ {0} /\ Len(wire') = Len(wire) - 1
      /\ \A i \in 1 .. Len(wire') : wire'[i] = wire[i + 1] /\ i + 1 \in 1 .. Len(wire)
  BY Heard DEF TypeInv
<1>2. \A i \in 1 .. Len(wire) : wire[i].kind = "event" => wire[i].event.run \in 1 .. Len(reqs)
  BY DEF TypeInv, WireInv, Runs
<1>3. \A i \in 1 .. Len(wire) : wire[i].kind = "event" =>
        reqs'[wire[i].event.run].cell = reqs[wire[i].event.run].cell
  BY <1>2, CellsStay
<1>4. PICK g : \A i \in 0 .. Len(wire) - 1 : g[i] = h[i + 1]
  <2> DEFINE f == [i \in 0 .. Len(wire) - 1 |-> h[i + 1]]
  <2>1. \A i \in 0 .. Len(wire) - 1 : f[i] = h[i + 1]
    OBVIOUS
  <2> HIDE DEF f
  <2> QED BY <2>1
<1>5. /\ h[0] = front[c] /\ h[Len(wire)] = Copy(back[c])
      /\ \A i \in 1 .. Len(wire) : h[i] = After(wire[i], c, h[i - 1])
  BY DEF Leads
<1>6. g[0] = front'[c] /\ g[Len(wire')] = Copy(back'[c])
  <2>1. h[1] = After(wire[1], c, h[0])
    <3>1. 1 \in 1 .. Len(wire) /\ 1 - 1 = 0
      BY <1>1
    <3> QED BY <1>5, <3>1
  <2>2. g[0] = h[1] /\ g[Len(wire')] = h[Len(wire)]
    <3>1. 0 \in 0 .. Len(wire) - 1 /\ Len(wire') \in 0 .. Len(wire) - 1 /\ Len(wire') + 1 = Len(wire)
          /\ 0 + 1 = 1
      BY <1>1
    <3> QED BY <1>4, <3>1
  <2> QED BY <1>5, <2>1, <2>2
<1>7. ASSUME NEW i \in 1 .. Len(wire')
      PROVE  g[i] = IF wire'[i].kind = "event" /\ reqs'[wire'[i].event.run].cell = c
                    THEN Shown(g[i - 1], wire'[i].event, wire'[i].first) ELSE g[i - 1]
  <2>1. i \in 0 .. Len(wire) - 1 /\ i - 1 \in 0 .. Len(wire) - 1 /\ (i - 1) + 1 = i /\ (i + 1) - 1 = i
        /\ i + 1 \in 1 .. Len(wire)
    BY <1>1
  <2>2. g[i] = h[i + 1] /\ g[i - 1] = h[i] /\ wire'[i] = wire[i + 1]
    BY <1>1, <1>4, <2>1
  <2>3. h[i + 1] = After(wire[i + 1], c, h[i])
    BY <1>5, <2>1
  <2> QED BY <1>3, <2>1, <2>2, <2>3 DEF After
<1> QED BY <1>6, <1>7 DEF Leads, After, Copy

LEMMA MirrorStep ==
  ASSUME TypeInv, MirrorInv, [Next]_vars
  PROVE  MirrorInv'
<1> SUFFICES ASSUME Unclear', NEW c \in Cells PROVE \E g : Leads(g, c)'
  BY DEF MirrorInv
<1>1. Types /\ WireInv /\ reqs \in Seq(Requests) /\ back \in [Cells -> Backs] /\ front \in [Cells -> Copies]
  BY DEF TypeInv, Types
<1>2. Unclear /\ (\A r \in 1 .. Len(reqs) : r \in 1 .. Len(reqs') /\ reqs'[r].cell = reqs[r].cell
                                            /\ reqs'[r].op = reqs[r].op)
  BY CellsStay
<1>3. PICK h : Leads(h, c)
  BY <1>2 DEF MirrorInv
<1>4. ASSUME wire' = wire, front' = front, back' = back PROVE \E g : Leads(g, c)'
  BY <1>3, <1>4, LeadsStay
<1>5. ASSUME NEW r \in 1 .. Len(reqs), NEW ok \in BOOLEAN, wire' = Append(wire, Answer(r, ok)),
             front' = front, back' = back
      PROVE  \E g : Leads(g, c)'
  <2> DEFINE m == Answer(r, ok)
  <2>1. m \in Messages /\ m.kind # "event"
    <3>1. r \in Ids
      BY <1>1, Numbers DEF TypeInv, BoundInv
    <3> QED BY <3>1 DEF Answer, Messages
  <2> HIDE DEF m
  <2>2. wire' = Append(wire, m)
    BY <1>5 DEF m
  <2> QED BY <1>3, <1>5, <2>1, <2>2, LeadsOn
<1>6. CASE UNCHANGED vars
  BY <1>4, <1>6 DEF vars, editor
<1>7. CASE User
  <2>1. ASSUME NEW d \in Cells, Clear(d) PROVE FALSE
    <3> DEFINE q == Request("clear", d, epoch, FALSE)
    <3>1. reqs' = Append(reqs, q) /\ q.op = "clear" /\ q \in Requests
      BY <1>1, <2>1, Numbers DEF Clear, Request, Requests, Types
    <3> HIDE DEF q
    <3>2. reqs'[Len(reqs')] = q /\ Len(reqs') \in 1 .. Len(reqs')
      BY <1>1, <3>1
    <3> QED BY <3>1, <3>2 DEF Unclear
  <2> QED BY <1>4, <1>7, <2>1 DEF User, RunCell, RunAll, Stop, Restart, Start, editor
<1>8. CASE SendNext
  BY <1>4, <1>8 DEF SendNext, editor
<1>9. ASSUME wire # <<>>, wire' = Tail(wire), back' = back, front' = front, Head(wire).kind # "event"
      PROVE  \E g : Leads(g, c)'
  <2>1. Head(wire) = wire[1]
    BY <1>1, <1>9 DEF WireInv
  <2> QED BY <1>3, <1>9, <2>1, LeadsLess DEF After
<1>10. CASE Answered \/ Exited
  BY <1>9, <1>10 DEF Answered, Exited
<1>11. CASE CellEvent
  <2> DEFINE m == Head(wire)
             d == reqs[m.event.run].cell
  <2>1. /\ wire # <<>> /\ m.kind = "event" /\ wire' = Tail(wire) /\ back' = back
        /\ front' = [front EXCEPT ![d] = Shown(@, m.event, m.first)]
    BY <1>11 DEF CellEvent
  <2>2. m = wire[1]
    BY <1>1, <2>1 DEF WireInv
  <2>3. front'[c] = After(wire[1], c, front[c])
    BY <1>1, <2>1, <2>2 DEF After
  <2> QED BY <1>3, <2>1, <2>3, LeadsLess
<1>12. ASSUME NEW e \in Events \cup Replies, e.run \in Runs, Pump(e), front' = front, reqs' = reqs
       PROVE  \E g : Leads(g, c)'
  <2> DEFINE d == reqs[e.run].cell
             m == Note(back[d], e)
  <2>1. CASE UNCHANGED <<back, wire>>
    BY <1>4, <1>12, <2>1
  <2>2. CASE back' = [back EXCEPT ![d] = Applied(@, e)] /\ wire' = Append(wire, m)
    <3>1. d \in Cells
      <4>1. reqs[e.run] \in Requests
        BY <1>1, <1>12 DEF Runs
      <4> QED BY <4>1 DEF Requests
    <3>2. m \in Messages /\ Copy(Applied(back[d], e)) = Shown(Copy(back[d]), e, m.first)
      BY <1>1, <3>1, EventTypes, NotesTell
    <3>3. m.kind = "event" /\ m.event = e
      BY DEF Note
    <3>4. Copy(back'[c]) = IF d = c THEN Shown(Copy(back[c]), e, m.first) ELSE Copy(back[c])
      BY <1>1, <2>2, <3>1, <3>2
    <3>5. wire' = Append(wire, m)
      BY <2>2
    <3> HIDE DEF m
    <3> QED BY <1>3, <1>12, <3>2, <3>3, <3>4, <3>5, LeadsOn
  <2> QED BY <1>12, <2>1, <2>2 DEF Pump, Say
<1>13. CASE PumpIopub \/ PumpShell
  <2>1. iopub # <<>> => Head(iopub) \in Events /\ Head(iopub).run \in Runs
    BY <1>1 DEF Types, WireInv
  <2>2. shell # <<>> => Head(shell) \in Replies /\ Head(shell).run \in Runs
    BY <1>1 DEF Types, WireInv
  <2> QED BY <1>12, <1>13, <2>1, <2>2 DEF PumpIopub, PumpShell, editor
<1>14. ASSUME NEW r \in 1 .. Len(reqs),
              \/ Execute(r) \/ TakeKernel(r) \/ Killed(r) \/ StartKernel(r) \/ Launched(r) \/ ClearCell(r)
       PROVE  \E g : Leads(g, c)'
  <2>1. ~ClearCell(r)
    BY <1>2 DEF ClearCell, TakenUp, Unclear
  <2>2. CASE TakeKernel(r) \/ StartKernel(r)
    BY <1>4, <2>2 DEF TakeKernel, StartKernel, editor
  <2>3. CASE Execute(r) \/ Killed(r) \/ Launched(r)
    <3>1. PICK ok \in BOOLEAN : wire' = Append(wire, Answer(r, ok))
      BY <2>3 DEF Execute, Killed, Launched, Say
    <3>2. front' = front /\ back' = back
      BY <2>3 DEF Execute, Killed, Launched, editor
    <3> QED BY <1>5, <3>1, <3>2
  <2> QED BY <1>14, <2>1, <2>2, <2>3
<1>15. CASE KernelExited
  <2> DEFINE m == [kind |-> "exited"]
  <2>1. m \in Messages /\ m.kind # "event" /\ wire' = Append(wire, m) /\ front' = front /\ back' = back
    BY <1>15 DEF Messages, KernelExited, Say, editor
  <2> HIDE DEF m
  <2> QED BY <1>3, <2>1, LeadsOn
<1>16. CASE KernelSteps
  BY <1>4, <1>16 DEF KernelSteps, KernelBegins, KernelEnds, KernelDies, KernelPrints, editor
<1> QED BY <1>6, <1>7, <1>8, <1>10, <1>11, <1>13, <1>14, <1>15, <1>16 DEF Next, Editor, Backend

(* When nothing is on its way and nobody cleared outputs by hand, the      *)
(* editor shows of each cell what the backend saves.                       *)
THEOREM EditorShowsWhatIsSaved == Spec => []MirrorAgrees
<1>1. Init => TypeInv /\ MirrorInv
  <2>1. ASSUME Init, NEW c \in Cells PROVE \E h : Leads(h, c)
    <3> DEFINE h == [i \in {0} |-> front[c]]
    <3>1. h[0] = front[c] /\ Len(wire) = 0 /\ front[c] = Copy(back[c])
      BY <2>1 DEF Init, Copy
    <3> HIDE DEF h
    <3> QED BY <3>1 DEF Leads
  <2> QED BY <2>1, InitTypes DEF MirrorInv
<1>2. TypeInv /\ MirrorInv /\ [Next]_vars => TypeInv' /\ MirrorInv'
  BY TypeStep, MirrorStep
<1>3. TypeInv /\ MirrorInv => MirrorAgrees
  <2> SUFFICES ASSUME TypeInv, MirrorInv, Quiet, Unclear, NEW c \in Cells
               PROVE  front[c] = [outs |-> back[c].outs, count |-> back[c].count]
    BY DEF MirrorAgrees
  <2>1. PICK h : Leads(h, c)
    BY DEF MirrorInv
  <2>2. Len(wire) = 0
    BY DEF Quiet
  <2> QED BY <2>1, <2>2 DEF Leads, Copy
<1> QED BY <1>1, <1>2, <1>3, PTL DEF Spec
-----------------------------------------------------------------------------
(* The times of the runs.                                                  *)

(* The kernel was sent the run; it is the session's kernel still; the run  *)
(* is on; an idle of it is unread behind the j-th event.                   *)
Ran(r) == r \in Runs /\ reqs[r].at = "done" /\ reqs[r].kernel # NoKernel
OfKernel(r) == reqs[r].kernel = kernel /\ ~dying
RunsOn(r) == step = "runs" /\ Head(queue) = r
IdleAfter(r, j) == \E i \in 1 .. Len(iopub) : i > j /\ iopub[i].kind = "idle" /\ iopub[i].run = r
Ends(r, j) == OfKernel(r) => RunsOn(r) \/ IdleAfter(r, j)

(* A kernel goes by a request that started one and is over.                *)
Starter(k) == k \in 1 .. Len(reqs) /\ reqs[k].at = "done" /\ k \notin Runs

KernelInv ==
  /\ kernel > 0 => Starter(kernel)
  /\ \A r \in Runs : Ran(r) => (reqs[r].kernel > 0 => Starter(reqs[r].kernel))
  /\ \A i \in 1 .. Len(queue) : Ran(queue[i]) /\ reqs[queue[i]].kernel = kernel

(* Each run that began is on, or its idle comes after its execute_input.   *)
Unread(j) == Ran(iopub[j].run) /\ (iopub[j].kind = "input" => Ends(iopub[j].run, j))
Timed(c) ==
  LET r == back[c].start
  IN  r # 0 => Ran(r) /\ reqs[r].cell = c /\ (back[c].end = 0 => Ends(r, 0))

TimedInv ==
  /\ KernelInv
  /\ \A j \in 1 .. Len(iopub) : Unread(j)
  /\ \A c \in Cells : Timed(c)

(* What is over stays as it was.                                           *)
LEMMA DoneStays ==
  ASSUME TypeInv, [Next]_vars
  PROVE  /\ \A r \in 1 .. Len(reqs) : reqs[r].at = "done" =>
              r \in 1 .. Len(reqs') /\ reqs'[r] = reqs[r] /\ (r \in Runs' <=> r \in Runs)
         /\ \A r : (Ran(r) => Ran(r)' /\ reqs'[r] = reqs[r]) /\ (Starter(r) => Starter(r)')
<1>1. Types /\ ChainInv /\ reqs \in Seq(Requests) /\ Len(reqs) \in Nat
  BY DEF TypeInv, Types
<1> DEFINE Stay == \A r \in 1 .. Len(reqs) : reqs[r].at = "done" => r \in 1 .. Len(reqs') /\ reqs'[r] = reqs[r]
<1>2. ASSUME NEW q, reqs' = Append(reqs, q) PROVE Stay
  BY <1>1, <1>2
<1>3. ASSUME NEW r \in 1 .. Len(reqs), NEW a, NEW k, Becomes(r, a, k), reqs[r].at # "done" PROVE Stay
  <2>1. reqs' = [reqs EXCEPT ![r] = [reqs[r] EXCEPT !.at = a, !.kernel = k]]
    BY <1>1, <1>3 DEF Becomes
  <2>2. Len(reqs') = Len(reqs) /\ \A q \in 1 .. Len(reqs) : q # r => reqs'[q] = reqs[q]
    BY <1>1, <2>1
  <2> QED BY <1>3, <2>2
<1>4. ASSUME reqs' = reqs PROVE Stay
  BY <1>4
<1>5. Stay
  <2> HIDE DEF Stay
  <2>1. CASE UNCHANGED vars
    BY <1>4, <2>1 DEF vars
  <2>2. CASE User
    BY <1>2, <1>4, <2>2 DEF User, RunCell, Clear, RunAll, Stop, Restart, Start
  <2>3. CASE Editor
    BY <1>2, <1>4, <2>3 DEF Editor, SendNext, CellEvent, Answered, Exited
  <2>4. CASE Backend
    BY <1>3, <1>4, <2>4
       DEF Backend, Execute, TakeKernel, Killed, StartKernel, Launched, ClearCell, KernelExited,
           PumpIopub, PumpShell, TakenUp
  <2>5. CASE KernelSteps
    BY <1>4, <2>5 DEF KernelSteps, KernelBegins, KernelEnds, KernelDies, KernelPrints
  <2> QED BY <2>1, <2>2, <2>3, <2>4, <2>5 DEF Next
<1>6. \A r \in 1 .. Len(reqs) : reqs[r].at = "done" => (r \in Runs' <=> r \in Runs)
  BY <1>5 DEF Runs
<1> QED BY <1>5, <1>6 DEF Ran, Starter, Runs

(* The kernels of the runs, and the runs of the kernel.                    *)
LEMMA KernelInvStep ==
  ASSUME TypeInv, KernelInv, [Next]_vars
  PROVE  KernelInv'
<1>1. Types /\ WireInv /\ ChainInv /\ kernel \in -1 .. MaxRequests /\ queue \in Seq(Ids)
      /\ reqs \in Seq(Requests) /\ Len(reqs) \in Nat
  BY DEF TypeInv, Types
<1>2. \A r : (Ran(r) => Ran(r)' /\ reqs'[r] = reqs[r]) /\ (Starter(r) => Starter(r)')
  BY DoneStays
<1>3. TypeInv'
  BY TypeStep
<1>4. \A r : Ran(r) /\ reqs[r].kernel > 0 => Starter(reqs[r].kernel)
  BY DEF KernelInv, Ran
<1>5. \A i \in 1 .. Len(queue) : Ran(queue[i]) /\ reqs[queue[i]].kernel = kernel
  BY DEF KernelInv
<1>6. ASSUME kernel' = kernel,
             queue' = queue \/ queue' = <<>> \/ (queue # <<>> /\ queue' = Tail(queue)),
             \A r : Ran(r)' => Ran(r)
      PROVE  KernelInv'
  <2>1. kernel' > 0 => Starter(kernel)'
    BY <1>2, <1>6 DEF KernelInv
  <2>2. ASSUME NEW r \in Runs', Ran(r)', reqs'[r].kernel > 0 PROVE Starter(reqs[r].kernel)'
    <3>1. Ran(r) /\ reqs'[r] = reqs[r]
      BY <1>2, <1>6, <2>2
    <3>2. PICK k : k = reqs[r].kernel
      OBVIOUS
    <3>3. Starter(k) /\ Starter(k)' /\ reqs'[r].kernel = k
      BY <1>2, <1>4, <2>2, <3>1, <3>2
    <3> QED BY <3>3 DEF Starter
  <2>3. ASSUME NEW i \in 1 .. Len(queue') PROVE Ran(queue[i])' /\ reqs'[queue'[i]].kernel = kernel'
    <3>1. PICK n \in 1 .. Len(queue) : queue'[i] = queue[n]
      <4>1. CASE queue' = queue
        BY <2>3, <4>1
      <4>2. CASE queue # <<>> /\ queue' = Tail(queue)
        <5>1. i + 1 \in 1 .. Len(queue) /\ queue'[i] = queue[i + 1]
          BY <1>1, <2>3, <4>2
        <5> QED BY <5>1
      <4>3. queue' # <<>>
        BY <2>3
      <4> QED BY <1>6, <4>1, <4>2, <4>3
    <3>2. PICK r : r = queue[n]
      OBVIOUS
    <3>3. Ran(r)' /\ reqs'[r].kernel = kernel'
      BY <1>2, <1>5, <1>6, <3>1, <3>2
    <3> QED BY <3>1, <3>2, <3>3 DEF Ran
  <2> QED BY <2>1, <2>2, <2>3 DEF KernelInv
<1>7. ASSUME NEW k \in -1 .. MaxRequests, kernel' = k, queue' = <<>>, k > 0 => Starter(k)', \A r : Ran(r)' => Ran(r)
      PROVE  KernelInv'
  <2>1. kernel' > 0 => Starter(kernel)'
    BY <1>7 DEF Starter
  <2>2. ASSUME NEW r \in Runs', Ran(r)', reqs'[r].kernel > 0 PROVE Starter(reqs[r].kernel)'
    <3>1. Ran(r) /\ reqs'[r] = reqs[r]
      BY <1>2, <1>7, <2>2
    <3>2. PICK q : q = reqs[r].kernel
      OBVIOUS
    <3>3. Starter(q) /\ Starter(q)' /\ reqs'[r].kernel = q
      BY <1>2, <1>4, <2>2, <3>1, <3>2
    <3> QED BY <3>3 DEF Starter
  <2> QED BY <1>7, <2>1, <2>2 DEF KernelInv
<1>8. ASSUME reqs' = reqs PROVE \A r : Ran(r)' => Ran(r)
  BY <1>8 DEF Ran, Runs
<1>9. ASSUME NEW q \in Requests, q.at = "sent", reqs' = Append(reqs, q) PROVE \A r : Ran(r)' => Ran(r)
  <2>1. /\ Len(reqs') = Len(reqs) + 1 /\ reqs'[Len(reqs) + 1] = q
        /\ \A r \in 1 .. Len(reqs) : reqs'[r] = reqs[r]
    BY <1>1, <1>9
  <2> QED BY <1>1, <1>9, <2>1 DEF Ran, Runs
<1>10. ASSUME NEW r \in 1 .. Len(reqs), NEW a \in {"launch", "kill", "done"}, NEW k \in -1 .. MaxRequests,
              Becomes(r, a, k), r \notin Runs
       PROVE  (\A q : Ran(q)' => Ran(q)) /\ (a = "done" => Starter(r)')
  <2>1. /\ Len(reqs') = Len(reqs) /\ Runs' = Runs /\ reqs'[r].at = a
        /\ \A q \in 1 .. Len(reqs) : q # r => reqs'[q] = reqs[q]
    BY <1>1, <1>10, RequestBecomes
  <2> QED BY <1>10, <2>1 DEF Ran, Runs, Starter
<1>11. \A o, c, e, ch : Request(o, c, e, ch).at = "sent"
  BY DEF Request
<1>12. NoKernel \in -1 .. MaxRequests /\ ~(NoKernel > 0) /\ Runs \subseteq 1 .. Len(reqs)
       /\ \A r \in 1 .. Len(reqs) : r \in -1 .. MaxRequests /\ (r \in Runs => reqs[r].at \in {"sent", "done"})
  BY <1>1, Numbers DEF Runs, TypeInv, BoundInv, ChainInv
<1>13. CASE UNCHANGED vars
  BY <1>6, <1>8, <1>13 DEF vars, process
<1>14. CASE User
  <2>1. UNCHANGED <<kernel, process>>
    BY <1>14 DEF User, RunCell, Clear, RunAll, Stop, Restart, Start
  <2>2. \/ reqs' = reqs
        \/ \E o \in {"execute", "stop", "restart", "start", "clear"}, c \in Cells, e \in {epoch, epoch + 1} :
             reqs' = Append(reqs, Request(o, c, e, FALSE))
    <3>1. AnyCell \in Cells
      BY RunsAssumption DEF AnyCell
    <3> QED BY <1>14, <3>1 DEF User, RunCell, Clear, RunAll, Stop, Restart, Start
  <2>3. ASSUME NEW o \in {"execute", "stop", "restart", "start", "clear"}, NEW c \in Cells, NEW e \in {epoch, epoch + 1},
               reqs' = Append(reqs, Request(o, c, e, FALSE))
        PROVE  \A r : Ran(r)' => Ran(r)
    <3>1. Request(o, c, e, FALSE) \in Requests
      BY <1>1, <1>12 DEF Request, Requests, Types
    <3> QED BY <1>9, <1>11, <2>3, <3>1
  <2> QED BY <1>6, <1>8, <2>1, <2>2, <2>3 DEF process
<1>15. CASE SendNext
  <2>1. Request("execute", Head(chain), epoch, TRUE) \in Requests
    <3>1. Head(chain) \in Cells /\ epoch \in Nat
      BY <1>1, <1>15 DEF SendNext, Types
    <3> QED BY <1>12, <3>1 DEF Request, Requests
  <2> QED BY <1>6, <1>9, <1>11, <1>15, <2>1 DEF SendNext, process
<1>16. CASE CellEvent \/ Answered \/ Exited \/ PumpIopub \/ PumpShell
  BY <1>6, <1>8, <1>16 DEF CellEvent, Answered, Exited, PumpIopub, PumpShell, process
<1>17. ASSUME NEW r \in 1 .. Len(reqs), Execute(r) PROVE KernelInv'
  <2>1. /\ Len(reqs') = Len(reqs) /\ Runs' = Runs /\ reqs'[r].at = "done" /\ reqs'[r].kernel = kernel
        /\ \A q \in 1 .. Len(reqs) : q # r => reqs'[q] = reqs[q]
    BY <1>1, <1>17, RequestBecomes DEF Execute
  <2>2. \A q : q # r /\ Ran(q)' => Ran(q)
    BY <2>1 DEF Ran, Runs
  <2>3. kernel' = kernel
    BY <1>17 DEF Execute
  <2>4. kernel' > 0 => Starter(kernel)'
    BY <1>2, <2>3 DEF KernelInv
  <2>5. ASSUME NEW q \in Runs', Ran(q)', reqs'[q].kernel > 0 PROVE Starter(reqs[q].kernel)'
    <3>1. CASE q = r
      BY <2>1, <2>3, <2>4, <2>5, <3>1 DEF Starter
    <3>2. CASE q # r
      <4>1. Ran(q) /\ reqs'[q] = reqs[q]
        BY <1>2, <2>2, <2>5, <3>2
      <4>2. PICK k : k = reqs[q].kernel
        OBVIOUS
      <4>3. Starter(k)' /\ reqs'[q].kernel = k
        BY <1>2, <1>4, <2>5, <4>1, <4>2
      <4> QED BY <4>3 DEF Starter
    <3> QED BY <3>1, <3>2
  <2>6. ASSUME NEW i \in 1 .. Len(queue') PROVE Ran(queue[i])' /\ reqs'[queue'[i]].kernel = kernel'
    <3>1. (i \in 1 .. Len(queue) /\ queue'[i] = queue[i])
          \/ (queue'[i] = r /\ kernel # NoKernel)
      BY <1>1, <1>17, <2>6 DEF Execute
    <3>2. CASE i \in 1 .. Len(queue) /\ queue'[i] = queue[i]
      <4>1. PICK q : q = queue[i]
        OBVIOUS
      <4>2. Ran(q)' /\ reqs'[q].kernel = kernel'
        BY <1>2, <1>5, <2>3, <3>2, <4>1
      <4> QED BY <3>2, <4>1, <4>2 DEF Ran
    <3>3. CASE queue'[i] = r /\ kernel # NoKernel
      <4>1. r \in Runs
        BY <1>17 DEF Execute, TakenUp, Runs
      <4> QED BY <2>1, <2>3, <3>3, <4>1 DEF Ran
    <3> QED BY <3>1, <3>2, <3>3
  <2> QED BY <2>4, <2>5, <2>6 DEF KernelInv
<1>18. ASSUME NEW r \in 1 .. Len(reqs), TakeKernel(r) PROVE KernelInv'
  <2>1. r \notin Runs
    BY <1>18 DEF TakeKernel, TakenUp, Runs
  <2> QED BY <1>7, <1>10, <1>12, <1>18, <2>1 DEF TakeKernel, Gone
<1>19. ASSUME NEW r \in 1 .. Len(reqs), Killed(r) \/ StartKernel(r) \/ ClearCell(r) PROVE KernelInv'
  <2>1. r \notin Runs
    BY <1>12, <1>19 DEF Killed, StartKernel, ClearCell, TakenUp, Runs
  <2> QED BY <1>6, <1>10, <1>12, <1>19, <2>1 DEF Killed, StartKernel, ClearCell, process
<1>20. ASSUME NEW r \in 1 .. Len(reqs), Launched(r) PROVE KernelInv'
  <2>1. r \notin Runs
    BY <1>12, <1>20 DEF Launched
  <2>2. CASE Becomes(r, "done", r) /\ kernel' = r /\ Gone
    <3>1. (\A q : Ran(q)' => Ran(q)) /\ Starter(r)'
      BY <1>10, <1>12, <2>1, <2>2
    <3> QED BY <1>7, <1>12, <2>2, <3>1 DEF Gone
  <2>3. CASE Becomes(r, "done", NoKernel) /\ UNCHANGED <<kernel, queue>>
    BY <1>6, <1>10, <1>12, <2>1, <2>3
  <2> QED BY <1>20, <2>2, <2>3 DEF Launched
<1>21. CASE KernelExited
  BY <1>7, <1>8, <1>12, <1>21 DEF KernelExited, Gone
<1>22. CASE KernelSteps
  <2>1. kernel' = kernel /\ reqs' = reqs
    BY <1>22 DEF KernelSteps, KernelBegins, KernelEnds, KernelDies, KernelPrints
  <2>2. queue' = queue \/ queue' = <<>> \/ (queue # <<>> /\ queue' = Tail(queue))
    BY <1>1, <1>22 DEF KernelSteps, KernelBegins, KernelEnds, KernelDies, KernelPrints, WireInv
  <2> QED BY <1>6, <1>8, <2>1, <2>2
<1> QED BY <1>13, <1>14, <1>15, <1>16, <1>17, <1>18, <1>19, <1>20, <1>21, <1>22 DEF Next, Editor, Backend

(* A step of nobody who reads: what is published comes behind what is      *)
(* unread, and a run that goes off has its idle published.                 *)
LEMMA TimedStays ==
  ASSUME TypeInv, TimedInv, [Next]_vars, back' = back,
         Len(iopub') >= Len(iopub), \A i \in 1 .. Len(iopub) : iopub'[i] = iopub[i],
         \A r : Ran(r) /\ OfKernel(r)' =>
                  OfKernel(r) /\ (RunsOn(r) => RunsOn(r)' \/ \A j \in 0 .. Len(iopub) : IdleAfter(r, j)'),
         \A j \in 1 .. Len(iopub') : j > Len(iopub) =>
           \E r : iopub'[j].run = r /\ Ran(r) /\ (iopub'[j].kind = "input" => Ends(r, j)')
  PROVE  TimedInv'
<1>1. TypeInv' /\ KernelInv'
  BY TypeStep, KernelInvStep DEF TimedInv
<1>2. \A r : Ran(r) => Ran(r)' /\ reqs'[r] = reqs[r]
  BY DoneStays
<1>3. Len(iopub) \in Nat /\ Len(iopub') \in Nat /\ 0 \in 0 .. Len(iopub)
      /\ \A j \in 1 .. Len(iopub) : j \in 0 .. Len(iopub) /\ j \in 1 .. Len(iopub')
  BY <1>1 DEF TypeInv, WireInv
<1>4. ASSUME NEW r, Ran(r), NEW j \in 0 .. Len(iopub), Ends(r, j) PROVE Ends(r, j)'
  <2> SUFFICES ASSUME OfKernel(r)' PROVE RunsOn(r)' \/ IdleAfter(r, j)'
    BY DEF Ends
  <2>1. CASE RunsOn(r)
    BY <1>4, <2>1
  <2>2. CASE IdleAfter(r, j)
    <3>1. PICK i \in 1 .. Len(iopub) : i > j /\ iopub[i].kind = "idle" /\ iopub[i].run = r
      BY <2>2 DEF IdleAfter
    <3> QED BY <1>3, <3>1 DEF IdleAfter
  <2> QED BY <1>4, <2>1, <2>2 DEF Ends
<1>5. ASSUME NEW c \in Cells PROVE Timed(c)'
  <2> SUFFICES ASSUME back'[c].start # 0 PROVE Timed(c)'
    BY DEF Timed
  <2>1. PICK r : r = back[c].start
    OBVIOUS
  <2>2. Ran(r) /\ reqs[r].cell = c /\ (back[c].end = 0 => Ends(r, 0))
    BY <1>5, <2>1 DEF TimedInv, Timed
  <2>3. Ran(r)' /\ reqs'[r].cell = c /\ (back'[c].end = 0 => Ends(r, 0)') /\ r = back'[c].start
    BY <1>2, <1>3, <1>4, <2>1, <2>2
  <2> QED BY <2>3 DEF Timed, Unread, Ran, Ends, OfKernel, RunsOn, IdleAfter
<1>6. ASSUME NEW j \in 1 .. Len(iopub')
      PROVE  Unread(j)'
  <2>1. PICK r : r = iopub'[j].run
    OBVIOUS
  <2>2. Ran(r)' /\ (iopub'[j].kind = "input" => Ends(r, j)')
    <3>1. CASE j \in 1 .. Len(iopub)
      <4>1. Ran(r) /\ (iopub[j].kind = "input" => Ends(r, j)) /\ iopub'[j] = iopub[j]
        BY <2>1, <3>1 DEF TimedInv, Unread
      <4> QED BY <1>2, <1>3, <1>4, <3>1, <4>1
    <3>2. CASE j > Len(iopub)
      BY <1>2, <2>1, <3>2
    <3> QED BY <1>3, <1>6, <3>1, <3>2
  <2> QED BY <2>1, <2>2 DEF Timed, Unread, Ran, Ends, OfKernel, RunsOn, IdleAfter
<1> QED BY <1>1, <1>5, <1>6 DEF TimedInv

(* The backend reads an event.                                             *)
LEMMA TimedRead ==
  ASSUME TypeInv, TimedInv, [Next]_vars, NEW e \in Events \cup Replies, Pump(e),
         UNCHANGED <<reqs, kernel, dying, queue, step>>,
         \/ iopub' = iopub /\ e.kind = "reply"
         \/ iopub # <<>> /\ e = Head(iopub) /\ iopub' = Tail(iopub)
  PROVE  TimedInv'
<1>1. TypeInv' /\ KernelInv' /\ back \in [Cells -> Backs] /\ iopub \in Seq(Events) /\ Len(iopub) \in Nat
  BY TypeStep, KernelInvStep DEF TimedInv, TypeInv, Types, WireInv
<1>2. \A r : /\ Ran(r)' <=> Ran(r)
             /\ OfKernel(r)' <=> OfKernel(r)
             /\ RunsOn(r)' <=> RunsOn(r)
  BY DEF Ran, Runs, OfKernel, RunsOn
<1>3. ASSUME iopub # <<>>, e = Head(iopub), iopub' = Tail(iopub)
      PROVE  /\ e = iopub[1] /\ Len(iopub') = Len(iopub) - 1 /\ 1 \in 1 .. Len(iopub)
             /\ \A i \in 1 .. Len(iopub') : iopub'[i] = iopub[i + 1] /\ i + 1 \in 1 .. Len(iopub)
  BY <1>1, <1>3
\* what is unread of a run, but for the event that is read
<1>4. ASSUME NEW r, NEW j \in Nat, IdleAfter(r, j), ~(e.kind = "idle" /\ e.run = r /\ j = 0)
      PROVE  IF iopub' = iopub THEN IdleAfter(r, j)' ELSE IdleAfter(r, IF j = 0 THEN 0 ELSE j - 1)'
  <2>1. PICK i \in 1 .. Len(iopub) : i > j /\ iopub[i].kind = "idle" /\ iopub[i].run = r
    BY <1>4 DEF IdleAfter
  <2>2. CASE iopub' = iopub
    BY <1>4, <2>2 DEF IdleAfter
  <2>3. CASE iopub' # iopub
    <3>1. i # 1 \/ j # 0
      BY <1>3, <1>4, <2>1, <2>3
    <3>2. i - 1 \in 1 .. Len(iopub') /\ iopub'[i - 1] = iopub[i] /\ i - 1 > IF j = 0 THEN 0 ELSE j - 1
      BY <1>1, <1>3, <1>4, <2>1, <2>3, <3>1
    <3>3. IdleAfter(r, IF j = 0 THEN 0 ELSE j - 1)'
      BY <2>1, <3>2 DEF IdleAfter
    <3> QED BY <2>3, <3>3
  <2> QED BY <2>2, <2>3
<1>5. ASSUME NEW j \in 1 .. Len(iopub')
      PROVE  Unread(j)'
  <2>1. PICK r : r = iopub'[j].run
    OBVIOUS
  <2>2. Ran(r)' /\ (iopub'[j].kind = "input" => Ends(r, j)')
    <3>1. CASE iopub' = iopub
      <4>1. Ran(r) /\ (iopub[j].kind = "input" => Ends(r, j))
        BY <1>5, <2>1, <3>1 DEF TimedInv, Unread
      <4> QED BY <1>2, <3>1, <4>1 DEF Ends, IdleAfter
    <3>2. CASE iopub' # iopub
      <4>1. iopub'[j] = iopub[j + 1] /\ j + 1 \in 1 .. Len(iopub) /\ j + 1 # 0 /\ j + 1 \in Nat /\ (j + 1) - 1 = j
        BY <1>3, <1>5, <3>2
      <4>2. Ran(r) /\ (iopub[j + 1].kind = "input" => Ends(r, j + 1))
        BY <2>1, <4>1 DEF TimedInv, Unread
      <4> QED BY <1>2, <1>4, <3>2, <4>1, <4>2 DEF Ends
    <3> QED BY <3>1, <3>2
  <2> QED BY <2>1, <2>2 DEF Timed, Unread, Ran, Ends, OfKernel, RunsOn, IdleAfter
<1> DEFINE d == reqs[e.run].cell
\* a run that began and has no end: its idle is not the event just read
<1>6. ASSUME NEW r, r # 0, Ran(r), Ends(r, 0), OfKernel(r) => ~(e.kind = "idle" /\ e.run = r) PROVE Ends(r, 0)'
  <2> SUFFICES ASSUME OfKernel(r) PROVE RunsOn(r) \/ IdleAfter(r, 0)'
    BY <1>2 DEF Ends
  <2>1. CASE IdleAfter(r, 0)
    BY <1>4, <1>6, <2>1 DEF IdleAfter
  <2> QED BY <1>6, <2>1 DEF Ends
<1>7. ASSUME NEW c \in Cells PROVE Timed(c)'
  <2> SUFFICES ASSUME back'[c].start # 0 PROVE Timed(c)'
    BY DEF Timed
  <2>1. PICK r : r = back'[c].start
    OBVIOUS
  <2>2. back[c] \in Backs /\ Timed(c)
    BY <1>1 DEF TimedInv
  <2>3. CASE back'[c] = back[c] /\ (kernel = reqs[e.run].kernel => d # c)
    <3>1. Ran(r) /\ reqs[r].cell = c /\ (back[c].end = 0 => Ends(r, 0)) /\ r # 0
      BY <1>7, <2>1, <2>2, <2>3 DEF Timed
    <3>2. OfKernel(r) => ~(e.kind = "idle" /\ e.run = r)
      BY <2>3, <3>1 DEF OfKernel
    <3>3. Ran(r)' /\ reqs'[r].cell = c /\ (back'[c].end = 0 => Ends(r, 0)')
      BY <1>2, <1>6, <2>3, <3>1, <3>2
    <3> QED BY <2>1, <3>3 DEF Timed, Unread, Ran, Ends, OfKernel, RunsOn, IdleAfter
  <2>4. CASE back'[c] = Applied(back[c], e) /\ d = c
    <3>1. CASE e.kind = "input"
      <4>1. back'[c].start = e.run /\ r = e.run
        BY <2>1, <2>2, <2>4, <3>1 DEF Applied, Backs
      <4>2. iopub' # iopub /\ iopub # <<>> /\ e = iopub[1] /\ 1 \in 1 .. Len(iopub)
        BY <1>1, <1>3, <3>1
      <4>3. Ran(r) /\ Ends(r, 1)
        BY <3>1, <4>1, <4>2 DEF TimedInv, Unread
      <4>4. Ends(r, 0)'
        BY <1>2, <1>4, <4>2, <4>3 DEF Ends
      <4>5. Ran(r)' /\ reqs'[r].cell = c
        BY <1>2, <2>4, <4>1, <4>3
      <4> QED BY <2>1, <4>4, <4>5 DEF Timed, Unread, Ran, Ends, OfKernel, RunsOn, IdleAfter
    <3>2. CASE e.kind # "input"
      <4>1. /\ back'[c].start = back[c].start
            /\ back'[c].end = 0 => back[c].end = 0 /\ e.kind \notin {"idle", "reply"}
        <5>1. e.run # 0 /\ e.kind \in {"busy", "input", "idle", "output", "clear", "wait", "reply"}
          BY Numbers DEF Events, Replies
        <5>2. /\ Stamped(back[c], e.run).start = back[c].start
              /\ back[c].start # 0 => Stamped(back[c], e.run).end # 0
              /\ Stamped(back[c], e.run) \in
                   [outs : Seq(Ids), count : 0 .. MaxRequests, wait : BOOLEAN,
                    start : 0 .. MaxRequests, end : {e.run} \cup 0 .. MaxRequests]
          BY <2>2, <5>1 DEF Stamped, Backs
        <5> QED BY <1>7, <2>2, <2>4, <3>2, <5>1, <5>2 DEF Applied, AtIdle, Backs
      <4>2. Ran(r) /\ reqs[r].cell = c /\ (back[c].end = 0 => Ends(r, 0)) /\ r # 0
        BY <1>7, <2>1, <2>2, <4>1 DEF Timed
      <4>3. Ran(r)' /\ reqs'[r].cell = c /\ (back'[c].end = 0 => Ends(r, 0)')
        BY <1>2, <1>6, <4>1, <4>2
      <4> QED BY <2>1, <4>3 DEF Timed, Unread, Ran, Ends, OfKernel, RunsOn, IdleAfter
    <3> QED BY <3>1, <3>2
  <2> QED BY <1>1, <2>3, <2>4 DEF Pump, Current
<1> QED BY <1>1, <1>5, <1>7 DEF TimedInv

LEMMA TimedStep ==
  ASSUME TypeInv, TimedInv, [Next]_vars
  PROVE  TimedInv'
<1>1. Types /\ WireInv /\ ChainInv /\ KernelInv /\ kernel \in -1 .. MaxRequests /\ back \in [Cells -> Backs]
      /\ reqs \in Seq(Requests) /\ queue \in Seq(Ids) /\ step \in {"waits", "runs"}
      /\ iopub \in Seq(Events) /\ shell \in Seq(Replies) /\ Len(iopub) \in Nat
      /\ (step = "runs" => queue # <<>>)
  BY DEF TimedInv, TypeInv, Types, WireInv
<1>2. \A r : Ran(r) => Ran(r)' /\ reqs'[r] = reqs[r]
  BY DoneStays
\* most steps leave the unread events and the times alone
<1>3. ASSUME back' = back, iopub' = iopub,
             \A r : Ran(r) /\ OfKernel(r)' => OfKernel(r) /\ (RunsOn(r) => RunsOn(r)')
      PROVE  TimedInv'
  BY <1>1, <1>3, TimedStays
<1>4. ASSUME UNCHANGED <<back, iopub, kernel, dying, queue, step>> PROVE TimedInv'
  <2>1. \A r : Ran(r) /\ OfKernel(r)' => OfKernel(r) /\ (RunsOn(r) => RunsOn(r)')
    BY <1>2, <1>4 DEF OfKernel, RunsOn
  <2> QED BY <1>3, <1>4, <2>1
<1>5. CASE UNCHANGED vars
  BY <1>4, <1>5 DEF vars, process, channels
<1>6. CASE User
  BY <1>4, <1>6 DEF User, RunCell, Clear, RunAll, Stop, Restart, Start, process, channels
<1>7. CASE Editor
  BY <1>4, <1>7 DEF Editor, SendNext, CellEvent, Answered, Exited, process, channels
<1>8. ASSUME NEW r \in 1 .. Len(reqs), Execute(r) PROVE TimedInv'
  <2>1. UNCHANGED <<back, iopub, kernel, dying, step>> /\ (queue' = queue \/ queue' = Append(queue, r))
    BY <1>8 DEF Execute, channels
  <2>2. step = "runs" => Head(queue') = Head(queue)
    <3>1. ASSUME step = "runs", queue' = Append(queue, r) PROVE Head(queue') = Head(queue)
      <4>1. queue # <<>> /\ r \in Ids
        BY <1>1, <3>1, Numbers DEF TypeInv, BoundInv
      <4> QED BY <1>1, <3>1, <4>1
    <3> QED BY <2>1, <3>1
  <2>3. \A q : Ran(q) /\ OfKernel(q)' => OfKernel(q) /\ (RunsOn(q) => RunsOn(q)')
    BY <1>2, <2>1, <2>2 DEF OfKernel, RunsOn
  <2> QED BY <1>3, <2>1, <2>3
<1>9. ASSUME NEW r \in 1 .. Len(reqs), Killed(r) \/ StartKernel(r) PROVE TimedInv'
  BY <1>4, <1>9 DEF Killed, StartKernel, process, channels
\* a kernel that is taken away or replaced leaves no run that is of it
<1>10. ASSUME back' = back, iopub' = iopub, \A r : Ran(r) => ~OfKernel(r)' PROVE TimedInv'
  BY <1>3, <1>10
<1>11. ASSUME NEW r \in 1 .. Len(reqs), TakeKernel(r) PROVE TimedInv'
  <2>1. back' = back /\ iopub' = iopub /\ kernel' = NoKernel
    BY <1>11 DEF TakeKernel, channels
  <2>2. \A q : Ran(q) => ~OfKernel(q)'
    BY <1>2, <2>1 DEF OfKernel, Ran
  <2> QED BY <1>10, <2>1, <2>2
<1>12. ASSUME NEW r \in 1 .. Len(reqs), Launched(r) PROVE TimedInv'
  <2>1. CASE Becomes(r, "done", r) /\ kernel' = r
    <3>1. back' = back /\ iopub' = iopub /\ reqs[r].at = "launch"
      BY <1>12 DEF Launched, channels
    <3>2. ASSUME NEW q, Ran(q), OfKernel(q)' PROVE FALSE
      <4>1. reqs[q].kernel = r
        BY <1>2, <2>1, <3>2 DEF OfKernel
      <4>2. q \in Runs /\ reqs[q].kernel > 0
        BY <3>2, <4>1 DEF Ran
      <4>3. Starter(reqs[q].kernel)
        BY <1>1, <3>2, <4>2 DEF KernelInv
      <4> QED BY <3>1, <4>1, <4>3 DEF Starter
    <3> QED BY <1>10, <3>1, <3>2
  <2>2. CASE UNCHANGED <<kernel, dying, queue, step>>
    BY <1>4, <1>12, <2>2 DEF Launched, channels
  <2> QED BY <1>12, <2>1, <2>2 DEF Launched
<1>13. ASSUME NEW r \in 1 .. Len(reqs), ClearCell(r) PROVE TimedInv'
  <2>1. UNCHANGED <<iopub, kernel, dying, queue, step>>
        /\ back' = [back EXCEPT ![reqs[r].cell].outs = <<>>, ![reqs[r].cell].count = 0,
                                ![reqs[r].cell].start = 0, ![reqs[r].cell].end = 0]
    BY <1>13 DEF ClearCell, process, channels
  <2>2. TypeInv' /\ KernelInv'
    BY <1>1, TypeStep, KernelInvStep
  <2>3. \A q : Ran(q) => /\ OfKernel(q)' <=> OfKernel(q)
                         /\ RunsOn(q)' <=> RunsOn(q)
    BY <1>2, <2>1 DEF OfKernel, RunsOn
  <2>4. ASSUME NEW q, Ran(q), NEW j, Ends(q, j) PROVE Ends(q, j)'
    BY <2>1, <2>3, <2>4 DEF Ends, IdleAfter
  <2>5. ASSUME NEW j \in 1 .. Len(iopub') PROVE Unread(j)'
    <3>1. PICK q : q = iopub'[j].run
      OBVIOUS
    <3>2. Ran(q) /\ (iopub[j].kind = "input" => Ends(q, j))
      BY <2>1, <2>5, <3>1 DEF TimedInv, Unread
    <3>3. Ran(q)' /\ (iopub'[j].kind = "input" => Ends(q, j)')
      BY <1>2, <2>1, <2>4, <3>2
    <3> QED BY <3>1, <3>3 DEF Unread, Ran, Ends, OfKernel, RunsOn, IdleAfter
  <2>6. ASSUME NEW c \in Cells PROVE Timed(c)'
    <3> SUFFICES ASSUME back'[c].start # 0 PROVE Timed(c)'
      BY DEF Timed
    <3>1. PICK q : q = back'[c].start
      OBVIOUS
    <3>2. c # reqs[r].cell /\ back'[c] = back[c]
      BY <1>1, <2>1 DEF Backs
    <3>3. Ran(q) /\ reqs[q].cell = c /\ (back[c].end = 0 => Ends(q, 0))
      BY <3>1, <3>2 DEF TimedInv, Timed
    <3>4. Ran(q)' /\ reqs'[q].cell = c /\ (back'[c].end = 0 => Ends(q, 0)')
      BY <1>2, <2>4, <3>2, <3>3
    <3> QED BY <3>1, <3>4 DEF Timed, Ran, Ends, OfKernel, RunsOn, IdleAfter
  <2> QED BY <2>2, <2>5, <2>6 DEF TimedInv
<1>14. CASE KernelExited
  <2>1. back' = back /\ iopub' = iopub /\ kernel' = NoKernel
    BY <1>14 DEF KernelExited, channels
  <2>2. \A q : Ran(q) => ~OfKernel(q)'
    BY <1>2, <2>1 DEF OfKernel, Ran
  <2> QED BY <1>10, <2>1, <2>2
<1>15. CASE PumpIopub
  <2>1. /\ iopub # <<>> /\ Pump(Head(iopub)) /\ iopub' = Tail(iopub)
        /\ UNCHANGED <<reqs, kernel, dying, queue, step>>
    BY <1>15 DEF PumpIopub, process
  <2>2. Head(iopub) \in Events \cup Replies /\ Ran(Head(iopub).run)
    <3>1. Head(iopub) \in Events /\ Head(iopub) = iopub[1] /\ 1 \in 1 .. Len(iopub)
      BY <1>1, <2>1
    <3> QED BY <3>1 DEF TimedInv, Unread
  <2> QED BY <2>1, <2>2, TimedRead
<1>16. CASE PumpShell
  <2>1. /\ shell # <<>> /\ Pump(Head(shell)) /\ iopub' = iopub
        /\ UNCHANGED <<reqs, kernel, dying, queue, step>>
    BY <1>16 DEF PumpShell, process
  <2>2. Head(shell) \in Replies
    BY <1>1, <2>1
  <2>3. Head(shell) \in Events \cup Replies /\ Head(shell).kind = "reply"
    BY <2>2 DEF Replies
  <2> QED BY <2>1, <2>3, TimedRead
<1>17. CASE KernelDies
  <2>1. back' = back /\ iopub' = iopub /\ dying' = TRUE
    BY <1>17 DEF KernelDies, channels
  <2>2. \A q : Ran(q) => ~OfKernel(q)'
    BY <2>1 DEF OfKernel
  <2> QED BY <1>10, <2>1, <2>2
<1>18. queue # <<>> => LET q == Head(queue) IN Ran(q) /\ q \in Ids
  BY <1>1 DEF KernelInv
<1>19. ASSUME NEW k \in {"output", "clear", "wait"}, KernelPrints(k) PROVE TimedInv'
  <2> DEFINE q == Head(queue)
             e == Event(k, q)
  <2>1. /\ Ran(q) /\ q \in Ids /\ iopub' = Append(iopub, e)
        /\ UNCHANGED <<back, kernel, dying, queue, step>>
    BY <1>1, <1>18, <1>19 DEF KernelPrints
  <2>2. e \in Events /\ e.run = q /\ e.kind # "input"
    BY <2>1 DEF Event, Events
  <2> HIDE DEF e, q
  <2>3. /\ Len(iopub') = Len(iopub) + 1 /\ iopub'[Len(iopub) + 1] = e
        /\ \A i \in 1 .. Len(iopub) : iopub'[i] = iopub[i]
    BY <1>1, <2>1, <2>2
  <2>4. \A r : Ran(r) /\ OfKernel(r)' => OfKernel(r) /\ (RunsOn(r) => RunsOn(r)')
    BY <1>2, <2>1 DEF OfKernel, RunsOn
  <2>5. \A j \in 1 .. Len(iopub') : j > Len(iopub) =>
          \E r : iopub'[j].run = r /\ Ran(r) /\ (iopub'[j].kind = "input" => Ends(r, j)')
    BY <1>1, <2>1, <2>2, <2>3
  <2> QED BY <1>1, <2>1, <2>3, <2>4, <2>5, TimedStays
<1>20. CASE KernelEnds
  <2>0. PICK q : q = Head(queue)
    OBVIOUS
  <2> DEFINE e == Event("idle", q)
  <2>1. /\ step = "runs" /\ Ran(q) /\ q \in Ids /\ iopub' = Append(iopub, e)
        /\ UNCHANGED <<back, kernel, dying>>
    BY <1>1, <1>18, <1>20, <2>0 DEF KernelEnds
  <2>2. e \in Events /\ e.run = q /\ e.kind = "idle"
    BY <2>1 DEF Event, Events
  <2>3. \A r : RunsOn(r) => r = q
    BY <2>0 DEF RunsOn
  <2> HIDE DEF e
  <2>4. /\ Len(iopub') = Len(iopub) + 1 /\ iopub'[Len(iopub) + 1] = e
        /\ \A i \in 1 .. Len(iopub) : iopub'[i] = iopub[i]
    BY <1>1, <2>1, <2>2
  <2>5. \A j \in 0 .. Len(iopub) : IdleAfter(q, j)'
    BY <1>1, <2>2, <2>4 DEF IdleAfter
  <2>6. \A r : Ran(r) /\ OfKernel(r)' =>
                 OfKernel(r) /\ (RunsOn(r) => RunsOn(r)' \/ \A j \in 0 .. Len(iopub) : IdleAfter(r, j)')
    BY <1>2, <2>1, <2>3, <2>5 DEF OfKernel
  <2>7. \A j \in 1 .. Len(iopub') : j > Len(iopub) =>
          \E r : iopub'[j].run = r /\ Ran(r) /\ (iopub'[j].kind = "input" => Ends(r, j)')
    BY <1>1, <2>1, <2>2, <2>4
  <2> QED BY <1>1, <2>1, <2>4, <2>6, <2>7, TimedStays
<1>21. CASE KernelBegins
  <2>0. PICK q : q = Head(queue)
    OBVIOUS
  <2> DEFINE b == Event("busy", q)
  <2>1. /\ step = "waits" /\ Ran(q) /\ q \in Ids /\ UNCHANGED <<back, kernel, dying>>
    BY <1>18, <1>21, <2>0 DEF KernelBegins
  <2>2. b \in Events /\ b.run = q /\ b.kind = "busy"
    BY <2>1 DEF Event, Events
  <2>3. \A r : Ran(r) /\ OfKernel(r)' =>
                 OfKernel(r) /\ (RunsOn(r) => RunsOn(r)' \/ \A j \in 0 .. Len(iopub) : IdleAfter(r, j)')
    BY <1>2, <2>1 DEF OfKernel, RunsOn
  <2>4. ASSUME NEW e \in Events, e.run = q, iopub' = iopub \o <<b, e>>, e.kind = "input" => RunsOn(q)'
        PROVE  TimedInv'
    <3> HIDE DEF b
    <3>1. /\ Len(iopub') = Len(iopub) + 2 /\ iopub'[Len(iopub) + 1] = b /\ iopub'[Len(iopub) + 2] = e
          /\ \A i \in 1 .. Len(iopub) : iopub'[i] = iopub[i]
      BY <1>1, <2>2, <2>4
    <3>2. \A j \in 1 .. Len(iopub') : j > Len(iopub) => j = Len(iopub) + 1 \/ j = Len(iopub) + 2
      BY <1>1, <3>1
    <3>3. iopub'[Len(iopub) + 1].kind # "input" /\ iopub'[Len(iopub) + 1].run = q
          /\ iopub'[Len(iopub) + 2].run = q
          /\ (iopub'[Len(iopub) + 2].kind = "input" => RunsOn(q)')
      BY <2>2, <2>4, <3>1
    <3>4. ASSUME NEW j \in 1 .. Len(iopub'), j > Len(iopub)
          PROVE  iopub'[j].run = q /\ (iopub'[j].kind = "input" => Ends(q, j)')
      <4>1. CASE j = Len(iopub) + 1
        BY <3>3, <4>1
      <4>2. CASE j = Len(iopub) + 2
        BY <3>3, <4>2 DEF Ends
      <4> QED BY <3>2, <3>4, <4>1, <4>2
    <3> QED BY <1>1, <2>1, <2>3, <3>1, <3>4, TimedStays
  <2>5. CASE iopub' = iopub \o <<b, Event("input", q)>> /\ step' = "runs" /\ queue' = queue
    <3>1. Event("input", q) \in Events /\ Event("input", q).run = q
      BY <2>1 DEF Event, Events
    <3>2. RunsOn(q)'
      BY <2>0, <2>5 DEF RunsOn
    <3> QED BY <2>4, <2>5, <3>1, <3>2
  <2>6. CASE iopub' = iopub \o <<b, Event("idle", q)>>
    <3>1. Event("idle", q) \in Events /\ Event("idle", q).run = q /\ Event("idle", q).kind # "input"
      BY <2>1 DEF Event, Events
    <3> QED BY <2>4, <2>6, <3>1
  <2> QED BY <1>21, <2>0, <2>5, <2>6 DEF KernelBegins
<1> QED BY <1>5, <1>6, <1>7, <1>8, <1>9, <1>11, <1>12, <1>13, <1>14, <1>15, <1>16, <1>17, <1>19, <1>20,
           <1>21
        DEF Next, Backend, KernelSteps

LEMMA InitTimed == Init => TimedInv
<1> SUFFICES ASSUME Init PROVE TimedInv
  OBVIOUS
<1>1. Len(iopub) = 0 /\ Len(queue) = 0 /\ ~(kernel > 0) /\ Runs = {} /\ \A c \in Cells : back[c].start = 0
  BY DEF Init, Runs
<1> QED BY <1>1 DEF TimedInv, KernelInv, Timed, Ran

LEMMA TimedIs ==
  ASSUME TypeInv, TimedInv
  PROVE  RunsAreTimed
<1> SUFFICES ASSUME Quiet, NEW c \in Cells, back[c].start # 0, reqs[back[c].start].kernel = kernel
             PROVE  back[c].end # 0
  BY DEF RunsAreTimed
<1>1. Ends(back[c].start, 0) => FALSE
  BY DEF Ends, OfKernel, RunsOn, IdleAfter, Quiet, TypeInv, WireInv
<1> QED BY <1>1 DEF TimedInv, Timed

(* When nothing is on its way, the run that began last of each cell has its*)
(* end recorded, if the kernel is the one it was sent to.                  *)
THEOREM EndsAreRecorded == Spec => []RunsAreTimed
<1>1. Init => TypeInv /\ TimedInv
  BY InitTypes, InitTimed
<1>2. TypeInv /\ TimedInv /\ [Next]_vars => TypeInv' /\ TimedInv'
  BY TypeStep, TimedStep
<1>3. TypeInv /\ TimedInv => RunsAreTimed
  BY TimedIs
<1> QED BY <1>1, <1>2, <1>3, PTL DEF Spec
-----------------------------------------------------------------------------
(* While the notebook's first kernel lives: only runs and clears.          *)

Calm ==
  Undisturbed =>
    /\ started
    /\ \A i \in 1 .. Len(wire) : wire[i].kind # "exited" /\ (wire[i].kind = "answer" => wire[i].ok)
    /\ \A r \in 1 .. Len(reqs) :
         /\ reqs[r].op \in {"execute", "clear"} /\ reqs[r].at \in {"sent", "done"}
         /\ r \in Runs /\ reqs[r].at = "done" => reqs[r].kernel = 0

CalmUser == RunAll \/ \E c \in Cells : RunCell(c) \/ Clear(c)
CalmTask == \E r \in 1 .. Len(reqs) : Execute(r) \/ ClearCell(r)
CalmKernel == KernelBegins \/ KernelEnds \/ \E k \in {"output", "clear", "wait"} : KernelPrints(k)
CalmNext == CalmUser \/ SendNext \/ CellEvent \/ Answered \/ CalmTask \/ PumpIopub \/ PumpShell \/ CalmKernel

(* A state before which there was a disturbance has one.                   *)
LEMMA CalmSteps ==
  ASSUME TypeInv, Calm, [Next]_vars, Undisturbed'
  PROVE  Undisturbed /\ (UNCHANGED vars \/ CalmNext)
<1>1. Types /\ epoch \in Nat /\ kernel \in -1 .. MaxRequests /\ dying \in BOOLEAN /\ NoKernel = -1
  BY DEF TypeInv, Types, NoKernel
<1>2. epoch' = 0 /\ kernel' = 0 /\ ~dying'
  BY DEF Undisturbed
<1>0. ASSUME UNCHANGED <<epoch, kernel, dying>> PROVE Undisturbed
  <2>1. epoch = 0 /\ kernel = 0
    BY <1>0, <1>2
  <2>2. ~dying
    BY <1>0, <1>2, Zenon
  <2> QED BY <2>1, <2>2 DEF Undisturbed
<1>3. CASE UNCHANGED vars
  <2>1. UNCHANGED <<epoch, kernel, dying>>
    BY <1>3 DEF vars, editor, process
  <2>2. Undisturbed
    BY <1>0, <2>1
  <2> QED BY <1>3, <2>2
<1>4. ASSUME Stop \/ Restart PROVE FALSE
  <2>1. epoch' = epoch + 1
    BY <1>4 DEF Stop, Restart, Retire
  <2>2. epoch \in Nat /\ epoch' = 0
    BY <1>1, <1>2
  <2> QED BY <2>1, <2>2
<1>5. CASE CalmUser \/ Start
  <2>0. UNCHANGED <<epoch, kernel, dying>>
    BY <1>5 DEF CalmUser, Start, RunAll, RunCell, Clear, editor, process
  <2>1. Undisturbed
    BY <1>0, <2>0
  <2>2. ~Start
    BY <2>1 DEF Calm, Start
  <2> QED BY <1>5, <2>1, <2>2 DEF CalmNext
<1>6. CASE SendNext \/ CellEvent \/ Answered
  <2>0. UNCHANGED <<epoch, kernel, dying>>
    BY <1>6 DEF SendNext, CellEvent, Answered, editor, process
  <2>1. Undisturbed
    BY <1>0, <2>0
  <2> QED BY <1>6, <2>1 DEF CalmNext
<1>7. ASSUME Exited PROVE FALSE
  <2>0. UNCHANGED <<epoch, kernel, dying>> /\ wire # <<>> /\ Head(wire).kind = "exited"
    BY <1>7 DEF Exited, process
  <2>1. Undisturbed /\ wire # <<>> /\ Head(wire).kind = "exited"
    BY <1>0, <2>0
  <2>2. Head(wire) = wire[1] /\ 1 \in 1 .. Len(wire)
    BY <2>1 DEF TypeInv, WireInv
  <2> QED BY <2>1, <2>2 DEF Calm
<1>8. CASE CalmTask
  <2>0. UNCHANGED <<epoch, kernel, dying>>
    BY <1>8 DEF CalmTask, Execute, ClearCell, editor, process
  <2>1. Undisturbed
    BY <1>0, <2>0
  <2> QED BY <1>8, <2>1 DEF CalmNext
<1>9. ASSUME NEW r \in 1 .. Len(reqs), TakeKernel(r) PROVE FALSE
  BY <1>1, <1>2, <1>9 DEF TakeKernel
<1>10. ASSUME NEW r \in 1 .. Len(reqs), Killed(r) \/ StartKernel(r) PROVE FALSE
  <2>0. UNCHANGED <<epoch, kernel, dying>>
    BY <1>10 DEF Killed, StartKernel, editor, process
  <2>1. Undisturbed
    BY <1>0, <2>0
  <2>2. reqs[r].op \in {"execute", "clear"} /\ reqs[r].at \in {"sent", "done"}
    BY <2>1 DEF Calm
  <2> QED BY <1>10, <2>2 DEF Killed, StartKernel, TakenUp
<1>11. ASSUME NEW r \in 1 .. Len(reqs), Launched(r) PROVE FALSE
  <2>0. kernel' = r \/ UNCHANGED <<epoch, kernel, dying>>
    BY <1>11 DEF Launched, Gone, editor
  <2>1. Undisturbed
    BY <1>0, <1>2, <2>0
  <2>2. reqs[r].at \in {"sent", "done"}
    BY <2>1 DEF Calm
  <2> QED BY <1>11, <2>2 DEF Launched
<1>12. ASSUME KernelExited \/ KernelDies PROVE FALSE
  BY <1>1, <1>2, <1>12 DEF KernelExited, KernelDies, Gone
<1>13. CASE PumpIopub \/ PumpShell
  <2>0. UNCHANGED <<epoch, kernel, dying>>
    BY <1>13 DEF PumpIopub, PumpShell, editor, process
  <2>1. Undisturbed
    BY <1>0, <2>0
  <2> QED BY <1>13, <2>1 DEF CalmNext
<1>14. CASE CalmKernel
  <2>0. UNCHANGED <<epoch, kernel, dying>>
    BY <1>14 DEF CalmKernel, KernelBegins, KernelEnds, KernelPrints, editor
  <2>1. Undisturbed
    BY <1>0, <2>0
  <2> QED BY <1>14, <2>1 DEF CalmNext
<1> QED BY <1>3, <1>4, <1>5, <1>6, <1>7, <1>8, <1>9, <1>10, <1>11, <1>12, <1>13, <1>14
        DEF Next, User, Editor, Backend, KernelSteps, CalmUser, CalmTask, CalmKernel

LEMMA CalmStep ==
  ASSUME TypeInv, Calm, [Next]_vars
  PROVE  Calm'
<1> SUFFICES ASSUME Undisturbed' PROVE Calm'
  BY DEF Calm
<1>1. Types /\ WireInv /\ reqs \in Seq(Requests) /\ Len(reqs) \in Nat /\ wire \in Seq(Messages) /\ MaxRequests \in Nat
  BY RunsAssumption DEF TypeInv, Types, WireInv
<1>2. Undisturbed /\ (UNCHANGED vars \/ CalmNext)
  BY CalmSteps
<1>3. started /\ kernel = 0 /\ 0 # NoKernel
  BY <1>2 DEF Calm, Undisturbed, NoKernel
<1> DEFINE MsgOk(m) == m.kind # "exited" /\ (m.kind = "answer" => m.ok)
           ReqOk(q) == /\ q.op \in {"execute", "clear"} /\ q.at \in {"sent", "done"}
                       /\ q.op = "execute" /\ q.at = "done" => q.kernel = 0
           WireOk == \A i \in 1 .. Len(wire') : MsgOk(wire'[i])
           ReqsOk == \A r \in 1 .. Len(reqs') : ReqOk(reqs'[r])
<1>4. \A i \in 1 .. Len(wire) : MsgOk(wire[i])
  BY <1>2 DEF Calm
<1>5. \A r \in 1 .. Len(reqs) : ReqOk(reqs[r])
  BY <1>2 DEF Calm, Runs
<1>6. ASSUME started', WireOk, ReqsOk PROVE Calm'
  BY <1>6 DEF Calm, Runs
<1>7. ASSUME wire' = wire PROVE WireOk
  BY <1>4, <1>7
<1>8. ASSUME NEW m \in Messages, wire' = Append(wire, m), MsgOk(m) PROVE WireOk
  <2>1. /\ wire' \in Seq(Messages) /\ Len(wire) \in Nat /\ Len(wire') = Len(wire) + 1
        /\ \A i \in 1 .. Len(wire) : wire'[i] = wire[i]
        /\ wire'[Len(wire) + 1] = m
        /\ \A i \in 1 .. Len(wire') : i \in 1 .. Len(wire) \/ i = Len(wire) + 1
    BY <1>1, <1>8, Said
  <2> HIDE DEF MsgOk
  <2> QED BY <1>4, <1>8, <2>1
<1>9. ASSUME wire # <<>>, wire' = Tail(wire) PROVE WireOk
  <2>1. \A i \in 1 .. Len(wire') : wire'[i] = wire[i + 1] /\ i + 1 \in 1 .. Len(wire)
    BY <1>1, <1>9, Heard
  <2> HIDE DEF MsgOk
  <2> QED BY <1>4, <2>1
<1>10. ASSUME reqs' = reqs PROVE ReqsOk
  BY <1>5, <1>10
<1>11. ASSUME NEW c \in Cells, NEW o \in {"execute", "clear"}, NEW ch \in BOOLEAN, reqs' = Append(reqs, Request(o, c, epoch, ch))
       PROVE  ReqsOk
  <2>1. ReqOk(Request(o, c, epoch, ch))
    BY DEF Request
  <2> DEFINE q == Request(o, c, epoch, ch)
  <2>2. reqs' = Append(reqs, q) /\ ReqOk(q)
    BY <1>11, <2>1
  <2> HIDE DEF q, ReqOk
  <2> QED BY <1>1, <1>5, <2>2
<1>12. ASSUME NEW r \in 1 .. Len(reqs), NEW k \in -1 .. MaxRequests, Becomes(r, "done", k),
              reqs[r].op = "execute" => k = 0
       PROVE  ReqsOk
  <2>1. /\ Len(reqs') = Len(reqs)
        /\ \A q \in 1 .. Len(reqs) : q # r => reqs'[q] = reqs[q]
        /\ reqs'[r].op = reqs[r].op /\ reqs'[r].at = "done" /\ reqs'[r].kernel = k
    BY <1>1, <1>12, RequestBecomes
  <2>2. ReqOk(reqs'[r])
    BY <1>5, <1>12, <2>1
  <2> HIDE DEF ReqOk
  <2> QED BY <1>5, <2>1, <2>2
<1>13. ASSUME NEW r \in 1 .. Len(reqs), NEW ok \in BOOLEAN
       PROVE  Answer(r, ok) \in Messages /\ Answer(r, ok).kind = "answer" /\ Answer(r, ok).ok = ok
  <2>1. r \in Ids
    BY Numbers DEF TypeInv, BoundInv, Types
  <2> QED BY <2>1 DEF Answer, Messages
<1> HIDE DEF WireOk, ReqsOk
<1>14. ASSUME UNCHANGED <<started, wire, reqs>> PROVE Calm'
  <2>1. started'
    BY <1>3, <1>14, Zenon
  <2> QED BY <1>6, <1>7, <1>10, <1>14, <2>1
<1>15. CASE UNCHANGED vars
  <2>1. UNCHANGED <<started, wire, reqs>>
    BY <1>15 DEF vars, editor
  <2> QED BY <1>14, <2>1
<1>16. ASSUME NEW c \in Cells, RunCell(c) \/ Clear(c) PROVE Calm'
  <2>1. /\ UNCHANGED <<started, wire>>
        /\ \E o \in {"execute", "clear"}, ch \in BOOLEAN : reqs' = Append(reqs, Request(o, c, epoch, ch))
    BY <1>16 DEF RunCell, Clear
  <2>2. started'
    BY <1>3, <2>1, Zenon
  <2> QED BY <1>6, <1>7, <1>11, <2>1, <2>2
<1>17. CASE RunAll
  <2>1. UNCHANGED <<started, wire, reqs>>
    BY <1>17 DEF RunAll
  <2> QED BY <1>14, <2>1
<1>18. CASE SendNext
  <2>1. UNCHANGED <<started, wire>> /\ chain # <<>> /\ reqs' = Append(reqs, Request("execute", Head(chain), epoch, TRUE))
    BY <1>18 DEF SendNext, editor
  <2>2. Head(chain) \in Cells
    BY <1>1, <2>1 DEF Types
  <2>3. started'
    BY <1>3, <2>1, Zenon
  <2> QED BY <1>6, <1>7, <1>11, <2>1, <2>2, <2>3
<1>19. CASE CellEvent
  <2>1. UNCHANGED <<started, reqs>> /\ wire # <<>> /\ wire' = Tail(wire)
    BY <1>19 DEF CellEvent
  <2>3. started'
    BY <1>3, <2>1, Zenon
  <2> QED BY <1>6, <1>9, <1>10, <2>1, <2>3
<1>20. CASE Answered
  <2>1. reqs' = reqs /\ wire # <<>> /\ wire' = Tail(wire)
    BY <1>20 DEF Answered
  <2>2. \/ started' = started
        \/ \E o \in BOOLEAN : started' = (started \/ o)
    <3> DEFINE m == Head(wire)
               o == (reqs[m.run].op = "start" /\ m.ok)
    <3>1. o \in BOOLEAN
      OBVIOUS
    <3>2. started' = started \/ started' = (started \/ o)
      BY <1>20 DEF Answered, RunAnswered, AskAnswered
    <3> QED BY <3>1, <3>2
  <2>3. started'
    BY <1>3, <2>2, Zenon
  <2> QED BY <1>6, <1>9, <1>10, <2>1, <2>3
<1>21. ASSUME NEW r \in 1 .. Len(reqs), Execute(r) \/ ClearCell(r) PROVE Calm'
  <2>1. UNCHANGED started
    BY <1>21 DEF Execute, ClearCell, editor
  <2>2. started'
    BY <1>3, <2>1, Zenon
  <2>3. wire' = Append(wire, Answer(r, TRUE))
    <3>1. (kernel # NoKernel) = TRUE
      BY <1>3
    <3>2. wire' = Append(wire, Answer(r, kernel # NoKernel)) \/ wire' = Append(wire, Answer(r, TRUE))
      BY <1>21 DEF Execute, ClearCell, Say
    <3> QED BY <3>1, <3>2
  <2>4. \E k \in -1 .. MaxRequests : Becomes(r, "done", k) /\ (reqs[r].op = "execute" => k = 0)
    <3>1. 0 \in -1 .. MaxRequests /\ NoKernel \in -1 .. MaxRequests
      BY <1>1, Numbers
    <3>2. CASE Execute(r)
      <4>1. Becomes(r, "done", 0)
        BY <1>3, <3>2 DEF Execute
      <4> QED BY <3>1, <4>1
    <3>3. CASE ClearCell(r)
      <4>1. Becomes(r, "done", NoKernel) /\ reqs[r].op # "execute"
        BY <3>3 DEF ClearCell, TakenUp
      <4> QED BY <3>1, <4>1
    <3> QED BY <1>21, <3>2, <3>3
  <2>5. WireOk
    BY <1>8, <1>13, <2>3
  <2> QED BY <1>6, <1>12, <2>2, <2>4, <2>5
<1>22. ASSUME PumpIopub \/ PumpShell PROVE Calm'
  <2>1. UNCHANGED <<started, reqs>>
    BY <1>22 DEF PumpIopub, PumpShell, editor
  <2>2. started'
    BY <1>3, <2>1, Zenon
  <2>3. PICK e \in Events \cup Replies : Pump(e) /\ e.run \in Runs
    <3>1. /\ iopub \in Seq(Events) /\ shell \in Seq(Replies)
          /\ \A i \in 1 .. Len(iopub) : iopub[i].run \in Runs
          /\ \A i \in 1 .. Len(shell) : shell[i].run \in Runs
      BY <1>1 DEF WireInv, Types
    <3> QED BY <1>22, <3>1 DEF PumpIopub, PumpShell
  <2> DEFINE c == reqs[e.run].cell
  <2>4. c \in Cells
    <3>1. reqs[e.run] \in Requests
      BY <1>1, <2>3 DEF Runs
    <3> QED BY <3>1 DEF Requests
  <2>5. back[c] \in Backs
    BY <1>1, <2>4 DEF Types
  <2>6. Note(back[c], e) \in Messages /\ Note(back[c], e).kind = "event"
    BY <2>5, EventTypes DEF Note
  <2>7. wire' = wire \/ wire' = Append(wire, Note(back[c], e))
    BY <2>3 DEF Pump, Say
  <2>8. WireOk
    BY <1>7, <1>8, <2>6, <2>7
  <2> QED BY <1>6, <1>10, <2>1, <2>2, <2>8
<1>23. CASE CalmKernel
  <2>1. UNCHANGED <<started, wire, reqs>>
    BY <1>23 DEF CalmKernel, KernelBegins, KernelEnds, KernelPrints, editor
  <2> QED BY <1>14, <2>1
<1> QED BY <1>2, <1>15, <1>16, <1>17, <1>18, <1>19, <1>20, <1>21, <1>22, <1>23 DEF CalmNext, CalmUser,
           CalmTask

(* Counting the places of a sequence.                                      *)
LEMMA PlacesCount ==
  ASSUME NEW n \in Nat, NEW S \in SUBSET (1 .. n)
  PROVE  /\ IsFiniteSet(S) /\ Cardinality(S) \in Nat /\ (Cardinality(S) = 0 <=> S = {})
         /\ Cardinality(S \cup {n + 1}) = Cardinality(S) + 1
         /\ \A x \in S : Cardinality(S \ {x}) = Cardinality(S) - 1
<1>1. IsFiniteSet(1 .. n)
  BY FS_Interval
<1>2. IsFiniteSet(S)
  BY <1>1, FS_Subset
<1>3. n + 1 \notin S
  OBVIOUS
<1>4. Cardinality(S \cup {n + 1}) = Cardinality(S) + 1
  BY <1>2, <1>3, FS_AddElement
<1>5. \A x \in S : Cardinality(S \ {x}) = Cardinality(S) - 1
  BY <1>2, FS_RemoveElement
<1> QED BY <1>2, <1>4, <1>5, FS_CardinalityType, FS_EmptySet

(* The places once the first one is gone.                                  *)
LEMMA PlacesShift ==
  ASSUME NEW n \in Nat \ {0}, NEW S \in SUBSET (1 .. n), NEW T, T = {i \in 1 .. n - 1 : i + 1 \in S}
  PROVE  Cardinality(T) \in Nat /\ Cardinality(S) = Cardinality(T) + (IF 1 \in S THEN 1 ELSE 0)
<1>1. n - 1 \in Nat /\ T \in SUBSET (1 .. n - 1)
  OBVIOUS
<1>2. IsFiniteSet(T) /\ Cardinality(T) \in Nat /\ IsFiniteSet(S) /\ Cardinality(S) \in Nat
  BY <1>1, PlacesCount
<1> DEFINE f == [i \in T |-> i + 1]
<1>3. f \in [T -> S \ {1}]
  OBVIOUS
<1>4. \A i, j \in T : f[i] = f[j] => i = j
  OBVIOUS
<1>5. \A x \in S \ {1} : \E i \in T : f[i] = x
  <2> TAKE x \in S \ {1}
  <2>1. x - 1 \in T /\ f[x - 1] = x
    OBVIOUS
  <2> QED BY <2>1
<1>6. ExistsBijection(T, S \ {1})
  <2> HIDE DEF f
  <2> QED BY <1>3, <1>4, <1>5 DEF ExistsBijection, Bijection, Injection, IsInjective, Surjection
<1>7. Cardinality(T) = Cardinality(S \ {1})
  BY <1>2, <1>6, FS_Bijection
<1>8. Cardinality(S \ {1}) = IF 1 \in S THEN Cardinality(S) - 1 ELSE Cardinality(S)
  BY <1>2, FS_RemoveElement
<1> QED BY <1>2, <1>7, <1>8

(* What the editor is owed of a cell, by where it is.                      *)
Busy(e, c) == e.kind = "busy" /\ reqs[e.run].cell = c
SeenAt(c) == {i \in 1 .. Len(iopub) : Busy(iopub[i], c)}
ToldAt(c) == {i \in 1 .. Len(wire) : wire[i].kind = "event" /\ Busy(wire[i].event, c)}
AheadAt(c) == {i \in 1 .. Len(queue) : (i = 1 => step = "waits") /\ reqs[queue[i]].cell = c}
SentOf(c) == {r \in Runs : reqs[r].at = "sent" /\ reqs[r].cell = c}
LaterAt(c) == {i \in 1 .. Len(chain) : (i = 1 => ~Asked) /\ chain[i] = c}
Debt(c) == Cardinality(SeenAt(c)) + Cardinality(ToldAt(c)) + Cardinality(AheadAt(c))
           + Cardinality(SentOf(c)) + Cardinality(LaterAt(c))

LEMMA OwedIsDebt ==
  ASSUME TypeInv, Calm, Undisturbed, NEW c
  PROVE  Owed(c) = Debt(c)
<1> DEFINE T == {i \in 1 .. Len(wire) :
                CASE wire[i].kind = "event" -> wire[i].event.kind = "busy" /\ reqs[wire[i].event.run].cell = c
                  [] wire[i].kind = "answer" -> /\ wire[i].run \in Runs /\ reqs[wire[i].run].cell = c
                                                /\ ~wire[i].ok
                  [] OTHER -> FALSE}
           A == {i \in 1 .. Len(chain) : (i = 1 => ~ChainWaits /\ ~AnswerComes) /\ chain[i] = c}
           S == {i \in 1 .. Len(iopub) : iopub[i].kind = "busy" /\ reqs[iopub[i].run].cell = c}
<1>1. Owed(c) = Cardinality(S) + Cardinality(T) + Cardinality(AheadAt(c)) + Cardinality(SentOf(c)) + Cardinality(A)
  BY DEF Owed, AheadAt, SentOf
<1>2. T = ToldAt(c)
  <2>1. \A i \in 1 .. Len(wire) : wire[i].kind = "answer" => wire[i].ok
    BY DEF Calm
  <2> QED BY <2>1 DEF ToldAt, Busy
<1>3. A = LaterAt(c)
  BY DEF LaterAt, Asked
<1>4. S = SeenAt(c)
  BY DEF SeenAt, Busy
<1> QED BY <1>1, <1>2, <1>3, <1>4 DEF Debt

LEMMA DebtCounts ==
  ASSUME TypeInv, NEW c
  PROVE  /\ SeenAt(c) \in SUBSET (1 .. Len(iopub)) /\ Cardinality(SeenAt(c)) \in Nat
         /\ ToldAt(c) \in SUBSET (1 .. Len(wire)) /\ Cardinality(ToldAt(c)) \in Nat
         /\ AheadAt(c) \in SUBSET (1 .. Len(queue)) /\ Cardinality(AheadAt(c)) \in Nat
         /\ SentOf(c) \in SUBSET (1 .. Len(reqs)) /\ Cardinality(SentOf(c)) \in Nat
         /\ LaterAt(c) \in SUBSET (1 .. Len(chain)) /\ Cardinality(LaterAt(c)) \in Nat
         /\ Len(iopub) \in Nat /\ Len(wire) \in Nat /\ Len(queue) \in Nat /\ Len(reqs) \in Nat /\ Len(chain) \in Nat
<1>1. /\ Len(iopub) \in Nat /\ Len(wire) \in Nat /\ Len(queue) \in Nat /\ Len(reqs) \in Nat /\ Len(chain) \in Nat
  BY DEF TypeInv, Types, WireInv
<1>2. /\ SeenAt(c) \in SUBSET (1 .. Len(iopub)) /\ ToldAt(c) \in SUBSET (1 .. Len(wire))
      /\ AheadAt(c) \in SUBSET (1 .. Len(queue)) /\ SentOf(c) \in SUBSET (1 .. Len(reqs))
      /\ LaterAt(c) \in SUBSET (1 .. Len(chain))
  BY DEF SeenAt, ToldAt, AheadAt, SentOf, LaterAt, Runs
<1> QED BY <1>1, <1>2, PlacesCount

(* What the kernel has published.                                          *)
LEMMA SeenSame ==
  ASSUME TypeInv, [Next]_vars, NEW c, iopub' = iopub
  PROVE  Cardinality(SeenAt(c))' = Cardinality(SeenAt(c))
<1>1. \A i \in 1 .. Len(iopub) : reqs'[iopub[i].run].cell = reqs[iopub[i].run].cell
  BY CellsStay DEF TypeInv, Types, Runs
<1>2. SeenAt(c)' = SeenAt(c)
  BY <1>1 DEF SeenAt, Busy
<1> QED BY <1>2

LEMMA SeenMore ==
  ASSUME TypeInv, [Next]_vars, NEW c, NEW e \in Events, e.run \in Runs, iopub' = Append(iopub, e)
  PROVE  Cardinality(SeenAt(c))' = Cardinality(SeenAt(c)) + (IF Busy(e, c) THEN 1 ELSE 0)
<1>1. \A i \in 1 .. Len(iopub) : reqs'[iopub[i].run].cell = reqs[iopub[i].run].cell
  BY CellsStay DEF TypeInv, Types, Runs
<1>2. reqs'[e.run].cell = reqs[e.run].cell
  BY CellsStay DEF Runs
<1>3. /\ Len(iopub) \in Nat /\ Len(iopub') = Len(iopub) + 1 /\ iopub'[Len(iopub) + 1] = e
      /\ \A i \in 1 .. Len(iopub) : iopub'[i] = iopub[i]
  BY DEF TypeInv, WireInv
<1>4. SeenAt(c)' = IF Busy(e, c) THEN SeenAt(c) \cup {Len(iopub) + 1} ELSE SeenAt(c)
  BY <1>1, <1>2, <1>3 DEF SeenAt, Busy
<1>5. SeenAt(c) \in SUBSET (1 .. Len(iopub)) /\ Cardinality(SeenAt(c)) \in Nat
  BY DebtCounts
<1>6. Cardinality(SeenAt(c) \cup {Len(iopub) + 1}) = Cardinality(SeenAt(c)) + 1
  BY <1>3, <1>5, PlacesCount
<1> QED BY <1>4, <1>5, <1>6

LEMMA SeenTwo ==
  ASSUME TypeInv, [Next]_vars, NEW c, NEW d \in Events, NEW e \in Events, d.run \in Runs, e.run \in Runs,
         e.kind # "busy", iopub' = iopub \o <<d, e>>
  PROVE  Cardinality(SeenAt(c))' = Cardinality(SeenAt(c)) + (IF Busy(d, c) THEN 1 ELSE 0)
<1>1. \A i \in 1 .. Len(iopub) : reqs'[iopub[i].run].cell = reqs[iopub[i].run].cell
  BY CellsStay DEF TypeInv, Types, Runs
<1>2. reqs'[d.run].cell = reqs[d.run].cell
  BY CellsStay DEF Runs
<1>3. /\ Len(iopub) \in Nat /\ Len(iopub') = Len(iopub) + 2 /\ iopub'[Len(iopub) + 1] = d
      /\ iopub'[Len(iopub) + 2] = e
      /\ \A i \in 1 .. Len(iopub) : iopub'[i] = iopub[i]
  <2>1. iopub \in Seq(Events)
    BY DEF TypeInv, WireInv
  <2> QED BY <2>1
<1>4. SeenAt(c)' = IF Busy(d, c) THEN SeenAt(c) \cup {Len(iopub) + 1} ELSE SeenAt(c)
  <2>1. \A i \in 1 .. Len(iopub') : i \in 1 .. Len(iopub) \/ i = Len(iopub) + 1 \/ i = Len(iopub) + 2
    BY <1>3
  <2>2. \A i \in 1 .. Len(iopub') : i \in SeenAt(c)' <=> i \in SeenAt(c) \/ (i = Len(iopub) + 1 /\ Busy(d, c))
    BY <1>1, <1>2, <1>3, <2>1 DEF SeenAt, Busy
  <2>3. SeenAt(c)' \subseteq 1 .. Len(iopub') /\ SeenAt(c) \subseteq 1 .. Len(iopub')
        /\ Len(iopub) + 1 \in 1 .. Len(iopub')
    BY <1>3 DEF SeenAt
  <2> QED BY <2>2, <2>3
<1>5. SeenAt(c) \in SUBSET (1 .. Len(iopub)) /\ Cardinality(SeenAt(c)) \in Nat
  BY DebtCounts
<1>6. Cardinality(SeenAt(c) \cup {Len(iopub) + 1}) = Cardinality(SeenAt(c)) + 1
  BY <1>3, <1>5, PlacesCount
<1> QED BY <1>4, <1>5, <1>6

LEMMA SeenLess ==
  ASSUME TypeInv, [Next]_vars, NEW c, iopub # <<>>, iopub' = Tail(iopub)
  PROVE  /\ Cardinality(SeenAt(c))' \in Nat
         /\ Cardinality(SeenAt(c)) = Cardinality(SeenAt(c))' + (IF Busy(Head(iopub), c) THEN 1 ELSE 0)
<1>1. \A i \in 1 .. Len(iopub) : reqs'[iopub[i].run].cell = reqs[iopub[i].run].cell
  BY CellsStay DEF TypeInv, Types, Runs
<1>2. /\ Len(iopub) \in Nat \ {0} /\ Len(iopub') = Len(iopub) - 1 /\ Head(iopub) = iopub[1]
      /\ \A i \in 1 .. Len(iopub') : iopub'[i] = iopub[i + 1] /\ i + 1 \in 1 .. Len(iopub)
  BY DEF TypeInv, WireInv
<1>3. SeenAt(c)' = {i \in 1 .. Len(iopub) - 1 : i + 1 \in SeenAt(c)}
  BY <1>1, <1>2 DEF SeenAt, Busy
<1>4. 1 \in SeenAt(c) <=> Busy(Head(iopub), c)
  BY <1>2 DEF SeenAt
<1>5. SeenAt(c) \in SUBSET (1 .. Len(iopub))
  BY DebtCounts
<1> QED BY <1>2, <1>3, <1>4, <1>5, PlacesShift

(* What the editor has on its way.                                         *)
LEMMA ToldSame ==
  ASSUME TypeInv, [Next]_vars, NEW c, wire' = wire
  PROVE  Cardinality(ToldAt(c))' = Cardinality(ToldAt(c))
<1>1. \A i \in 1 .. Len(wire) : wire[i].kind = "event" =>
        reqs'[wire[i].event.run].cell = reqs[wire[i].event.run].cell
  BY CellsStay DEF TypeInv, WireInv, Runs
<1>2. ToldAt(c)' = ToldAt(c)
  BY <1>1 DEF ToldAt, Busy
<1> QED BY <1>2

LEMMA ToldMore ==
  ASSUME TypeInv, [Next]_vars, NEW c, NEW m \in Messages, m.kind = "event" => m.event.run \in Runs,
         wire' = Append(wire, m)
  PROVE  Cardinality(ToldAt(c))'
         = Cardinality(ToldAt(c)) + (IF m.kind = "event" /\ Busy(m.event, c) THEN 1 ELSE 0)
<1>1. \A i \in 1 .. Len(wire) : wire[i].kind = "event" =>
        reqs'[wire[i].event.run].cell = reqs[wire[i].event.run].cell
  BY CellsStay DEF TypeInv, WireInv, Runs
<1>2. m.kind = "event" => reqs'[m.event.run].cell = reqs[m.event.run].cell
  BY CellsStay DEF Runs
<1>3. /\ Len(wire) \in Nat /\ Len(wire') = Len(wire) + 1 /\ wire'[Len(wire) + 1] = m
      /\ \A i \in 1 .. Len(wire) : wire'[i] = wire[i]
  BY Said DEF TypeInv
<1>4. ToldAt(c)' = IF m.kind = "event" /\ Busy(m.event, c) THEN ToldAt(c) \cup {Len(wire) + 1} ELSE ToldAt(c)
  BY <1>1, <1>2, <1>3 DEF ToldAt, Busy
<1>5. ToldAt(c) \in SUBSET (1 .. Len(wire)) /\ Cardinality(ToldAt(c)) \in Nat
  BY DebtCounts
<1>6. Cardinality(ToldAt(c) \cup {Len(wire) + 1}) = Cardinality(ToldAt(c)) + 1
  BY <1>3, <1>5, PlacesCount
<1> QED BY <1>4, <1>5, <1>6

LEMMA ToldLess ==
  ASSUME TypeInv, [Next]_vars, NEW c, wire # <<>>, wire' = Tail(wire)
  PROVE  /\ Cardinality(ToldAt(c))' \in Nat
         /\ Cardinality(ToldAt(c)) = Cardinality(ToldAt(c))'
              + (IF Head(wire).kind = "event" /\ Busy(Head(wire).event, c) THEN 1 ELSE 0)
<1>1. \A i \in 1 .. Len(wire) : wire[i].kind = "event" =>
        reqs'[wire[i].event.run].cell = reqs[wire[i].event.run].cell
  BY CellsStay DEF TypeInv, WireInv, Runs
<1>2. /\ Len(wire) \in Nat \ {0} /\ Len(wire') = Len(wire) - 1 /\ Head(wire) = wire[1]
      /\ \A i \in 1 .. Len(wire') : wire'[i] = wire[i + 1] /\ i + 1 \in 1 .. Len(wire)
  BY Heard DEF TypeInv
<1>3. ToldAt(c)' = {i \in 1 .. Len(wire) - 1 : i + 1 \in ToldAt(c)}
  BY <1>1, <1>2 DEF ToldAt, Busy
<1>4. 1 \in ToldAt(c) <=> Head(wire).kind = "event" /\ Busy(Head(wire).event, c)
  BY <1>2 DEF ToldAt
<1>5. ToldAt(c) \in SUBSET (1 .. Len(wire))
  BY DebtCounts
<1> QED BY <1>2, <1>3, <1>4, <1>5, PlacesShift

(* What waits at the kernel.                                               *)
LEMMA AheadSame ==
  ASSUME TypeInv, [Next]_vars, NEW c, queue' = queue, step' = step
  PROVE  Cardinality(AheadAt(c))' = Cardinality(AheadAt(c))
<1>1. \A i \in 1 .. Len(queue) : reqs'[queue[i]].cell = reqs[queue[i]].cell
  BY CellsStay DEF TypeInv, WireInv, Runs
<1>2. AheadAt(c)' = AheadAt(c)
  BY <1>1 DEF AheadAt
<1> QED BY <1>2

LEMMA AheadMore ==
  ASSUME TypeInv, [Next]_vars, NEW c, NEW r \in Runs, r \in Ids, queue' = Append(queue, r), step' = step
  PROVE  Cardinality(AheadAt(c))' = Cardinality(AheadAt(c)) + (IF reqs[r].cell = c THEN 1 ELSE 0)
<1>1. \A i \in 1 .. Len(queue) : reqs'[queue[i]].cell = reqs[queue[i]].cell
  BY CellsStay DEF TypeInv, WireInv, Runs
<1>2. reqs'[r].cell = reqs[r].cell
  BY CellsStay DEF Runs
<1>3. /\ Len(queue) \in Nat /\ Len(queue') = Len(queue) + 1 /\ queue'[Len(queue) + 1] = r
      /\ \A i \in 1 .. Len(queue) : queue'[i] = queue[i]
  BY DEF TypeInv, Types
<1>4. Len(queue) = 0 => step = "waits"
  BY DEF TypeInv, Types, WireInv
<1>5. AheadAt(c)' = IF reqs[r].cell = c THEN AheadAt(c) \cup {Len(queue) + 1} ELSE AheadAt(c)
  BY <1>1, <1>2, <1>3, <1>4 DEF AheadAt
<1>6. AheadAt(c) \in SUBSET (1 .. Len(queue)) /\ Cardinality(AheadAt(c)) \in Nat
  BY DebtCounts
<1>7. Cardinality(AheadAt(c) \cup {Len(queue) + 1}) = Cardinality(AheadAt(c)) + 1
  BY <1>3, <1>6, PlacesCount
<1> QED BY <1>5, <1>6, <1>7

LEMMA AheadBegins ==
  ASSUME TypeInv, [Next]_vars, NEW c, queue # <<>>, step = "waits",
         \/ queue' = queue /\ step' = "runs"
         \/ queue' = Tail(queue) /\ step' = "waits"
  PROVE  /\ Cardinality(AheadAt(c))' \in Nat
         /\ Cardinality(AheadAt(c)) = Cardinality(AheadAt(c))' + (IF reqs[Head(queue)].cell = c THEN 1 ELSE 0)
<1>1. \A i \in 1 .. Len(queue) : reqs'[queue[i]].cell = reqs[queue[i]].cell
  BY CellsStay DEF TypeInv, WireInv, Runs
<1>2. Len(queue) \in Nat \ {0} /\ Head(queue) = queue[1] /\ queue \in Seq(Ids)
  BY DEF TypeInv, Types
<1>3. AheadAt(c) \in SUBSET (1 .. Len(queue)) /\ (1 \in AheadAt(c) <=> reqs[Head(queue)].cell = c)
      /\ Cardinality(AheadAt(c)) \in Nat
  <2>1. 1 \in AheadAt(c) <=> reqs[Head(queue)].cell = c
    BY <1>2 DEF AheadAt
  <2> QED BY <2>1, DebtCounts
<1>4. CASE queue' = queue /\ step' = "runs"
  <2>1. AheadAt(c)' = AheadAt(c) \ {1}
    BY <1>1, <1>4 DEF AheadAt
  <2>2. CASE 1 \in AheadAt(c)
    <3>1. Cardinality(AheadAt(c) \ {1}) = Cardinality(AheadAt(c)) - 1
      BY <1>2, <1>3, <2>2, PlacesCount
    <3>2. Cardinality(AheadAt(c)) # 0
      BY <1>2, <1>3, <2>2, PlacesCount
    <3> QED BY <1>3, <2>1, <2>2, <3>1, <3>2
  <2>3. CASE 1 \notin AheadAt(c)
    <3>1. AheadAt(c)' = AheadAt(c)
      BY <2>1, <2>3
    <3> QED BY <1>3, <2>3, <3>1
  <2> QED BY <2>2, <2>3
<1>5. CASE queue' = Tail(queue) /\ step' = "waits"
  <2>1. Len(queue') = Len(queue) - 1 /\ \A i \in 1 .. Len(queue') : queue'[i] = queue[i + 1] /\ i + 1 \in 1 .. Len(queue)
    BY <1>2, <1>5
  <2>2. AheadAt(c)' = {i \in 1 .. Len(queue) - 1 : i + 1 \in AheadAt(c)}
    BY <1>1, <1>2, <1>5, <2>1 DEF AheadAt
  <2> QED BY <1>2, <1>3, <2>2, PlacesShift
<1> QED BY <1>4, <1>5

LEMMA AheadEnds ==
  ASSUME TypeInv, [Next]_vars, NEW c, queue # <<>>, step = "runs", queue' = Tail(queue), step' = "waits"
  PROVE  Cardinality(AheadAt(c))' = Cardinality(AheadAt(c))
<1>1. \A i \in 1 .. Len(queue) : reqs'[queue[i]].cell = reqs[queue[i]].cell
  BY CellsStay DEF TypeInv, WireInv, Runs
<1>2. Len(queue) \in Nat \ {0} /\ queue \in Seq(Ids)
  BY DEF TypeInv, Types
<1>3. Len(queue') = Len(queue) - 1 /\ \A i \in 1 .. Len(queue') : queue'[i] = queue[i + 1] /\ i + 1 \in 1 .. Len(queue)
  BY <1>2
<1>4. AheadAt(c)' = {i \in 1 .. Len(queue) - 1 : i + 1 \in AheadAt(c)} /\ 1 \notin AheadAt(c)
  BY <1>1, <1>2, <1>3 DEF AheadAt
<1>5. AheadAt(c) \in SUBSET (1 .. Len(queue))
  BY DebtCounts
<1> QED BY <1>2, <1>4, <1>5, PlacesShift

(* What is not taken up yet.                                               *)
LEMMA SentSame ==
  ASSUME TypeInv, NEW c,
         \/ reqs' = reqs
         \/ \E d \in Cells, e \in Nat, ch \in BOOLEAN : reqs' = Append(reqs, Request("clear", d, e, ch))
         \/ \E r \in 1 .. Len(reqs), k \in -1 .. MaxRequests : r \notin Runs /\ Becomes(r, "done", k)
  PROVE  Cardinality(SentOf(c))' = Cardinality(SentOf(c))
<1>1. Types /\ reqs \in Seq(Requests) /\ Len(reqs) \in Nat
  BY DEF TypeInv, Types
<1>2. CASE reqs' = reqs
  BY <1>2 DEF SentOf, Runs
<1>3. ASSUME NEW d \in Cells, NEW e \in Nat, NEW ch \in BOOLEAN, reqs' = Append(reqs, Request("clear", d, e, ch))
      PROVE  SentOf(c)' = SentOf(c)
  <2> DEFINE q == Request("clear", d, e, ch)
  <2>1. q.op # "execute" /\ reqs' = Append(reqs, q)
    BY <1>3 DEF Request
  <2> HIDE DEF q
  <2>2. /\ Len(reqs') = Len(reqs) + 1 /\ reqs'[Len(reqs) + 1] = q
        /\ \A r \in 1 .. Len(reqs) : reqs'[r] = reqs[r]
    BY <1>1, <2>1
  <2>3. Runs' = Runs
    BY <1>1, <2>1, <2>2 DEF Runs
  <2> QED BY <2>2, <2>3 DEF SentOf, Runs
<1>4. ASSUME NEW r \in 1 .. Len(reqs), NEW k \in -1 .. MaxRequests, r \notin Runs, Becomes(r, "done", k)
      PROVE  SentOf(c)' = SentOf(c)
  <2>1. Runs' = Runs /\ \A q \in 1 .. Len(reqs) : q # r => reqs'[q] = reqs[q]
    BY <1>1, <1>4, RequestBecomes
  <2> QED BY <1>4, <2>1 DEF SentOf, Runs
<1> QED BY <1>2, <1>3, <1>4

LEMMA SentMore ==
  ASSUME TypeInv, NEW c, NEW d \in Cells, NEW e, NEW ch, reqs' = Append(reqs, Request("execute", d, e, ch))
  PROVE  Cardinality(SentOf(c))' = Cardinality(SentOf(c)) + (IF d = c THEN 1 ELSE 0)
<1>1. Types /\ reqs \in Seq(Requests) /\ Len(reqs) \in Nat
  BY DEF TypeInv, Types
<1> DEFINE q == Request("execute", d, e, ch)
<1>2. q.op = "execute" /\ q.at = "sent" /\ q.cell = d /\ reqs' = Append(reqs, q)
  BY DEF Request
<1> HIDE DEF q
<1>3. /\ Len(reqs') = Len(reqs) + 1 /\ reqs'[Len(reqs) + 1] = q
      /\ \A r \in 1 .. Len(reqs) : reqs'[r] = reqs[r]
  BY <1>1, <1>2
<1>4. Runs' = Runs \cup {Len(reqs) + 1} /\ Runs \subseteq 1 .. Len(reqs)
  BY <1>1, <1>2, <1>3 DEF Runs
<1>5. SentOf(c)' = IF d = c THEN SentOf(c) \cup {Len(reqs) + 1} ELSE SentOf(c)
  BY <1>1, <1>2, <1>3, <1>4 DEF SentOf
<1>6. SentOf(c) \in SUBSET (1 .. Len(reqs)) /\ Cardinality(SentOf(c)) \in Nat
  BY DebtCounts
<1>7. Cardinality(SentOf(c) \cup {Len(reqs) + 1}) = Cardinality(SentOf(c)) + 1
  BY <1>1, <1>6, PlacesCount
<1> QED BY <1>5, <1>6, <1>7

LEMMA SentLess ==
  ASSUME TypeInv, NEW c, NEW r \in Runs, reqs[r].at = "sent", NEW k \in -1 .. MaxRequests, Becomes(r, "done", k)
  PROVE  /\ Cardinality(SentOf(c))' \in Nat
         /\ Cardinality(SentOf(c)) = Cardinality(SentOf(c))' + (IF reqs[r].cell = c THEN 1 ELSE 0)
<1>1. Types /\ r \in 1 .. Len(reqs) /\ Len(reqs) \in Nat
  BY DEF TypeInv, Types, Runs
<1>2. Runs' = Runs /\ (\A q \in 1 .. Len(reqs) : q # r => reqs'[q] = reqs[q]) /\ reqs'[r].at = "done"
  BY <1>1, RequestBecomes
<1>3. SentOf(c)' = SentOf(c) \ {r} /\ (r \in SentOf(c) <=> reqs[r].cell = c)
  BY <1>1, <1>2 DEF SentOf, Runs
<1>4. SentOf(c) \in SUBSET (1 .. Len(reqs)) /\ Cardinality(SentOf(c)) \in Nat
  BY DebtCounts
<1>5. CASE r \in SentOf(c)
  <2>1. Cardinality(SentOf(c) \ {r}) = Cardinality(SentOf(c)) - 1 /\ Cardinality(SentOf(c)) # 0
    BY <1>1, <1>4, <1>5, PlacesCount
  <2> QED BY <1>3, <1>4, <1>5, <2>1
<1>6. CASE r \notin SentOf(c)
  <2>1. SentOf(c)' = SentOf(c)
    BY <1>3, <1>6
  <2>2. reqs[r].cell # c
    BY <1>3, <1>6
  <2> QED BY <1>4, <2>1, <2>2
<1> QED BY <1>5, <1>6

LEMMA LaterSame ==
  ASSUME NEW c, chain' = chain, Asked' <=> Asked
  PROVE  Cardinality(LaterAt(c))' = Cardinality(LaterAt(c))
<1>1. LaterAt(c)' = LaterAt(c)
  BY DEF LaterAt
<1> QED BY <1>1

(* The head of the chain is asked for ...                                  *)
LEMMA LaterAsked ==
  ASSUME TypeInv, NEW c, chain' = chain, chain # <<>>, ~Asked, Asked'
  PROVE  /\ Cardinality(LaterAt(c))' \in Nat
         /\ Cardinality(LaterAt(c)) = Cardinality(LaterAt(c))' + (IF Head(chain) = c THEN 1 ELSE 0)
<1>1. Len(chain) \in Nat \ {0} /\ Head(chain) = chain[1]
  BY DEF TypeInv, Types
<1>2. LaterAt(c)' = LaterAt(c) \ {1} /\ (1 \in LaterAt(c) <=> Head(chain) = c)
  BY <1>1 DEF LaterAt
<1>3. LaterAt(c) \in SUBSET (1 .. Len(chain)) /\ Cardinality(LaterAt(c)) \in Nat
  BY DebtCounts
<1>4. CASE 1 \in LaterAt(c)
  <2>1. Cardinality(LaterAt(c) \ {1}) = Cardinality(LaterAt(c)) - 1 /\ Cardinality(LaterAt(c)) # 0
    BY <1>1, <1>3, <1>4, PlacesCount
  <2> QED BY <1>2, <1>3, <1>4, <2>1
<1>5. CASE 1 \notin LaterAt(c)
  <2>1. LaterAt(c)' = LaterAt(c)
    BY <1>2, <1>5
  <2>2. Head(chain) # c
    BY <1>2, <1>5
  <2> QED BY <1>3, <2>1, <2>2
<1> QED BY <1>4, <1>5

(* ... and it was taken.                                                   *)
LEMMA LaterTaken ==
  ASSUME TypeInv, NEW c, chain # <<>>, chain' = Tail(chain), Asked, ~Asked'
  PROVE  Cardinality(LaterAt(c))' = Cardinality(LaterAt(c))
<1>1. Len(chain) \in Nat \ {0} /\ chain \in Seq(Cells)
  BY DEF TypeInv, Types
<1>2. Len(chain') = Len(chain) - 1 /\ \A i \in 1 .. Len(chain') : chain'[i] = chain[i + 1] /\ i + 1 \in 1 .. Len(chain)
  BY <1>1
<1>3. LaterAt(c)' = {i \in 1 .. Len(chain) - 1 : i + 1 \in LaterAt(c)} /\ 1 \notin LaterAt(c)
  BY <1>1, <1>2 DEF LaterAt
<1>4. LaterAt(c) \in SUBSET (1 .. Len(chain))
  BY DebtCounts
<1> QED BY <1>1, <1>3, <1>4, PlacesShift

(* Whether a request of a "run all" is under way.                          *)
LEMMA AskedStays ==
  ASSUME TypeInv,
         reqs' = reqs \/ \E q \in Requests : ~q.chained /\ reqs' = Append(reqs, q),
         \/ wire' = wire
         \/ \E m \in Messages : m.kind # "answer" /\ wire' = Append(wire, m)
         \/ /\ wire # <<>> /\ wire' = Tail(wire)
            /\ ~(Head(wire).kind = "answer" /\ reqs[Head(wire).run].chained)
  PROVE  Asked' <=> Asked
<1>1. Types /\ WireInv /\ Len(reqs) \in Nat /\ wire \in Seq(Messages)
  <2>1. Types /\ WireInv
    BY DEF TypeInv
  <2>2. reqs \in Seq(Requests) /\ epoch \in Nat
    BY <2>1 DEF Types
  <2>3. wire \in Seq(Messages)
    BY <2>1 DEF WireInv
  <2>4. Len(reqs) \in Nat /\ Len(wire) \in Nat
    BY <2>2, <2>3
  <2> QED BY <2>1, <2>2, <2>3, <2>4
<1>2. /\ \A r \in 1 .. Len(reqs) : reqs'[r] = reqs[r]
      /\ Runs \subseteq Runs' /\ \A r \in Runs' : r \in Runs \/ ~reqs'[r].chained
  <2>1. CASE reqs' = reqs
    BY <2>1 DEF Runs
  <2>2. ASSUME NEW q \in Requests, ~q.chained, reqs' = Append(reqs, q) PROVE <1>2!1 /\ <1>2!2
    <3>1. /\ Len(reqs') = Len(reqs) + 1 /\ reqs'[Len(reqs) + 1] = q
          /\ \A r \in 1 .. Len(reqs) : reqs'[r] = reqs[r]
          /\ \A r \in 1 .. Len(reqs) : r \in Runs' <=> r \in Runs
          /\ Runs \subseteq Runs'
      BY <1>1, <2>2, RequestMade
    <3>2. \A r \in Runs' : r \in 1 .. Len(reqs) \/ r = Len(reqs) + 1
      BY <1>1, <3>1 DEF Runs
    <3> QED BY <2>2, <3>1, <3>2
  <2> QED BY <2>1, <2>2
<1>3. ChainWaits' <=> ChainWaits
  <2>1. \A r \in Runs : r \in 1 .. Len(reqs)
    BY DEF Runs
  <2> QED BY <1>2, <2>1 DEF ChainWaits
<1>4. \A i \in 1 .. Len(wire) : wire[i].kind = "answer" => reqs'[wire[i].run] = reqs[wire[i].run]
  <2>1. ASSUME NEW i \in 1 .. Len(wire), wire[i].kind = "answer" PROVE wire[i].run \in 1 .. Len(reqs)
    <3>1. wire[i] \in Messages
      BY <1>1
    <3>2. wire[i].run \in Ids /\ wire[i].run <= Len(reqs)
      BY <1>1, <2>1, <3>1, Kinds DEF WireInv
    <3> QED BY <1>1, <3>2, Numbers
  <2> QED BY <1>2, <2>1
<1>5. AnswerComes' <=> AnswerComes
  <2>1. CASE wire' = wire
    BY <1>4, <2>1 DEF AnswerComes
  <2>2. ASSUME NEW m \in Messages, m.kind # "answer", wire' = Append(wire, m) PROVE AnswerComes' <=> AnswerComes
    <3>1. /\ Len(wire) \in Nat /\ Len(wire') = Len(wire) + 1 /\ wire'[Len(wire) + 1] = m
          /\ \A i \in 1 .. Len(wire) : wire'[i] = wire[i]
          /\ \A i \in 1 .. Len(wire') : i \in 1 .. Len(wire) \/ i = Len(wire) + 1
      BY <1>1, <2>2, Said
    <3> QED BY <1>4, <2>2, <3>1 DEF AnswerComes
  <2>3. ASSUME wire # <<>>, wire' = Tail(wire), ~(Head(wire).kind = "answer" /\ reqs[Head(wire).run].chained)
        PROVE  AnswerComes' <=> AnswerComes
    <3>1. /\ Len(wire) \in Nat \ {0} /\ Len(wire') = Len(wire) - 1
          /\ \A i \in 1 .. Len(wire') : wire'[i] = wire[i + 1] /\ i + 1 \in 1 .. Len(wire)
          /\ Head(wire) = wire[1]
      BY <1>1, <2>3, Heard
    <3>2. ASSUME NEW i \in 1 .. Len(wire), wire[i].kind = "answer", reqs[wire[i].run].chained PROVE AnswerComes'
      <4>1. i # 1
        BY <2>3, <3>1, <3>2
      <4>2. i - 1 \in 1 .. Len(wire') /\ (i - 1) + 1 = i
        BY <3>1, <4>1
      <4>3. wire'[i - 1] = wire[i]
        BY <3>1, <4>2
      <4>4. reqs'[wire'[i - 1].run].chained
        BY <1>4, <3>2, <4>3
      <4> QED BY <3>2, <4>2, <4>3, <4>4 DEF AnswerComes
    <3>3. ASSUME NEW i \in 1 .. Len(wire'), wire'[i].kind = "answer", reqs'[wire'[i].run].chained PROVE AnswerComes
      BY <1>4, <3>1, <3>3 DEF AnswerComes
    <3> QED BY <3>2, <3>3 DEF AnswerComes
  <2> QED BY <2>1, <2>2, <2>3
<1> QED BY <1>3, <1>5 DEF Asked

LEMMA AskedAnswers ==
  ASSUME TypeInv, NEW r \in 1 .. Len(reqs), reqs[r].at = "sent", NEW k \in -1 .. MaxRequests,
         Becomes(r, "done", k), wire' = Append(wire, Answer(r, TRUE))
  PROVE  Asked' <=> Asked
<1>1. Types /\ WireInv /\ Len(reqs) \in Nat /\ wire \in Seq(Messages) /\ ChainInv
  <2>1. Types /\ WireInv /\ ChainInv
    BY DEF TypeInv
  <2>2. reqs \in Seq(Requests) /\ epoch \in Nat
    BY <2>1 DEF Types
  <2>3. wire \in Seq(Messages)
    BY <2>1 DEF WireInv
  <2>4. Len(reqs) \in Nat /\ Len(wire) \in Nat
    BY <2>2, <2>3
  <2> QED BY <2>1, <2>2, <2>3, <2>4
<1>2. /\ \A q \in 1 .. Len(reqs) : q # r => reqs'[q] = reqs[q]
      /\ \A q \in 1 .. Len(reqs) : reqs'[q].chained = reqs[q].chained
      /\ reqs'[r].at = "done" /\ Runs' = Runs
  BY <1>1, RequestBecomes
<1> DEFINE a == Answer(r, TRUE)
<1>3. a \in Messages /\ a.kind = "answer" /\ a.run = r /\ wire' = Append(wire, a)
  <2>1. r \in Ids
    BY Numbers DEF TypeInv, BoundInv, Types
  <2> QED BY <2>1 DEF Answer, Messages
<1> HIDE DEF a
<1>4. /\ Len(wire) \in Nat /\ Len(wire') = Len(wire) + 1 /\ wire'[Len(wire) + 1] = a
      /\ \A i \in 1 .. Len(wire) : wire'[i] = wire[i]
      /\ \A i \in 1 .. Len(wire') : i \in 1 .. Len(wire) \/ i = Len(wire) + 1
  BY <1>1, <1>3, Said
<1>9. Len(wire) + 1 \in 1 .. Len(wire') /\ wire'[Len(wire) + 1].kind = "answer" /\ wire'[Len(wire) + 1].run = r
  BY ONLY <1>3, <1>4
<1>5. \A i \in 1 .. Len(wire) : wire[i].kind = "answer" => reqs'[wire[i].run].chained = reqs[wire[i].run].chained
  <2>1. ASSUME NEW i \in 1 .. Len(wire), wire[i].kind = "answer" PROVE wire[i].run \in 1 .. Len(reqs)
    <3>1. wire[i] \in Messages
      BY <1>1
    <3>2. wire[i].run \in Ids /\ wire[i].run <= Len(reqs)
      BY <1>1, <2>1, <3>1, Kinds DEF WireInv
    <3> QED BY <1>1, <3>2, Numbers
  <2> QED BY <1>2, <2>1
<1>6. AnswerComes' <=> AnswerComes \/ reqs[r].chained
  <2>1. ASSUME AnswerComes PROVE AnswerComes'
    <3>1. PICK i \in 1 .. Len(wire) : wire[i].kind = "answer" /\ reqs[wire[i].run].chained
      BY <2>1 DEF AnswerComes
    <3>2. wire'[i] = wire[i] /\ i \in 1 .. Len(wire')
      BY <1>4, <3>1
    <3>4. reqs'[wire[i].run].chained
      BY <1>5, <3>1, Zenon
    <3>3. reqs'[wire'[i].run].chained
      BY <3>2, <3>4, Zenon
    <3> QED BY <3>1, <3>2, <3>3 DEF AnswerComes
  <2>2. ASSUME reqs[r].chained PROVE AnswerComes'
    <3>1. reqs'[r].chained
      BY <1>2, <2>2
    <3> QED BY <1>9, <3>1 DEF AnswerComes
  <2>3. ASSUME AnswerComes', ~AnswerComes PROVE reqs[r].chained
    <3>1. PICK i \in 1 .. Len(wire') : wire'[i].kind = "answer" /\ reqs'[wire'[i].run].chained
      BY <2>3 DEF AnswerComes
    <3>2. i \notin 1 .. Len(wire)
      BY <1>4, <1>5, <2>3, <3>1 DEF AnswerComes
    <3>3. wire'[i].run = r
      BY <1>4, <1>9, <3>1, <3>2
    <3> QED BY <1>2, <3>1, <3>3
  <2> QED BY <2>1, <2>2, <2>3
<1>7. CASE reqs[r].chained
  <2>1. r \in Runs
    BY <1>1, <1>7 DEF ChainInv
  <2>2. ChainWaits
    BY <1>7, <2>1 DEF ChainWaits
  <2> QED BY <1>6, <1>7, <2>2 DEF Asked
<1>8. CASE ~reqs[r].chained
  <2>1. ChainWaits' <=> ChainWaits
    BY <1>2, <1>8 DEF ChainWaits, Runs
  <2> QED BY <1>6, <1>8, <2>1 DEF Asked
<1> QED BY <1>7, <1>8

LEMMA AskedEnds ==
  ASSUME TypeInv, wire # <<>>, wire' = Tail(wire), reqs' = reqs,
         Head(wire).kind = "answer", reqs[Head(wire).run].chained
  PROVE  Asked /\ ~Asked' /\ chain # <<>>
<1>1. WireInv /\ ChainInv
  BY DEF TypeInv
<1>2. /\ Len(wire) \in Nat \ {0} /\ Len(wire') = Len(wire) - 1
      /\ \A i \in 1 .. Len(wire') : wire'[i] = wire[i + 1] /\ i + 1 \in 1 .. Len(wire)
      /\ Head(wire) = wire[1]
  BY <1>1, Heard
<1>3. AnswerComes
  BY <1>2 DEF AnswerComes
<1>4. ~AnswerComes'
  BY <1>1, <1>2 DEF AnswerComes, ChainInv
<1>5. ~ChainWaits'
  BY <1>1, <1>3 DEF ChainWaits, ChainInv, Runs
<1> QED BY <1>1, <1>3, <1>4, <1>5 DEF Asked, ChainInv

LEMMA AskedNow ==
  ASSUME TypeInv, NEW d \in Cells, NEW e \in Nat, reqs' = Append(reqs, Request("execute", d, e, TRUE))
  PROVE  Asked'
<1>1. reqs \in Seq(Requests) /\ Len(reqs) \in Nat
  BY DEF TypeInv, Types
<1> DEFINE q == Request("execute", d, e, TRUE)
<1>0. q.op = "execute" /\ q.at = "sent" /\ q.chained
  BY DEF Request
<1>2. reqs' = Append(reqs, q)
  OBVIOUS
<1> HIDE DEF q
<1>3. Len(reqs') = Len(reqs) + 1 /\ reqs'[Len(reqs) + 1] = q
  BY ONLY <1>1, <1>2
<1>4. Len(reqs) + 1 \in Runs'
  <2>1. q.op = "execute" /\ Len(reqs) + 1 \in 1 .. Len(reqs')
    BY <1>0, <1>1, <1>3
  <2> QED BY ONLY <1>3, <2>1 DEF Runs
<1> QED BY <1>0, <1>3, <1>4 DEF Asked, ChainWaits

(* What becomes of a cell's run state, field by field.                     *)
LEMMA StateFields ==
  ASSUME NEW s \in CellStates
  PROVE  /\ Queued(s).pending = s.pending + 1 /\ Queued(s).run = s.run
         /\ Queued(s).state = IF s.state = "busy" THEN "busy" ELSE "queued"
         /\ Cleared(s).pending = s.pending
         /\ Cleared(s).run = s.run \/ (s.state = "idle" /\ s.pending = 0 /\ Cleared(s).run = "no")
         /\ Cleared(s).state = s.state
<1>1. s.pending \in Nat
  BY DEF CellStates
<1>2. /\ Queued(s).pending = s.pending + 1 /\ Queued(s).run = s.run
      /\ Queued(s).state = IF s.state = "busy" THEN "busy" ELSE "queued"
  <2> DEFINE x == IF s.state = "busy" THEN s.state ELSE "queued"
  <2>1. Queued(s) = [s EXCEPT !.pending = s.pending + 1, !.epoch = epoch, !.state = x]
    BY DEF Queued
  <2>2. x = IF s.state = "busy" THEN "busy" ELSE "queued"
    OBVIOUS
  <2> HIDE DEF x
  <2> QED BY <2>1, <2>2 DEF CellStates
<1>3. /\ Cleared(s).pending = s.pending
      /\ Cleared(s).run = s.run \/ (s.state = "idle" /\ s.pending = 0 /\ Cleared(s).run = "no")
      /\ Cleared(s).state = s.state
  BY <1>1 DEF CellStates, Cleared, Fresh
<1> QED BY <1>2, <1>3

LEMMA EventFields ==
  ASSUME NEW s \in CellStates, NEW e \in Events \cup Replies
  PROVE  /\ State(s, e).pending
            = IF e.kind \in {"busy", "input"} /\ s.run \in {"no", "input"} /\ s.pending > 0
              THEN s.pending - 1 ELSE s.pending
         /\ State(s, e).run = IF e.kind = "busy" THEN "busy" ELSE IF e.kind = "input" THEN "input"
                              ELSE IF e.kind = "idle" THEN "no" ELSE s.run
         /\ State(s, e).state = IF e.kind \in {"busy", "input"} THEN "busy"
                                ELSE IF e.kind = "idle" THEN (IF s.pending > 0 THEN "queued" ELSE "idle")
                                ELSE s.state
<1>1. e.kind \in {"busy", "input", "idle", "output", "clear", "wait", "reply"}
  BY DEF Events, Replies
<1> DEFINE x == IF s.run \in {"no", "input"} /\ s.pending > 0 THEN s.pending - 1 ELSE s.pending
           y == IF s.pending > 0 THEN "queued" ELSE "idle"
<1>2. CASE e.kind \in {"busy", "input"}
  <2>1. State(s, e) = [Taken(s, e.kind) EXCEPT !.state = "busy"]
    BY <1>2 DEF State
  <2>2. Taken(s, e.kind) = [s EXCEPT !.pending = x, !.run = e.kind]
    BY DEF Taken
  <2> HIDE DEF x
  <2>3. State(s, e).pending = x /\ State(s, e).run = e.kind /\ State(s, e).state = "busy"
    BY <2>1, <2>2 DEF CellStates
  <2> QED BY <1>2, <2>3 DEF x
<1>3. CASE e.kind = "idle"
  <2>1. State(s, e) = [s EXCEPT !.run = "no", !.state = y]
    BY <1>3 DEF State
  <2> HIDE DEF y
  <2>2. State(s, e).pending = s.pending /\ State(s, e).run = "no" /\ State(s, e).state = y
    BY <2>1 DEF CellStates
  <2> QED BY <1>3, <2>2 DEF y
<1>4. CASE e.kind \notin {"busy", "input", "idle"}
  <2>1. State(s, e) = s
    BY <1>4 DEF State
  <2> QED BY <1>4, <2>1
<1> QED BY <1>2, <1>3, <1>4

(* While the kernel lives what the editor counts is what it is owed.       *)
LEMMA OwedRun ==
  ASSUME TypeInv, [Next]_vars, NEW c \in Cells, st[c].pending = Debt(c), NEW d \in Cells, RunCell(d)
  PROVE  st'[c].pending = Debt(c)'
<1>1. Types /\ epoch \in Nat
  BY DEF TypeInv, Types
<1>2. /\ Mark({d}) /\ reqs' = Append(reqs, Request("execute", d, epoch, FALSE))
      /\ UNCHANGED <<chain, wire, iopub, queue, step>>
  BY DEF RunCell, process, channels
<1>3. st'[c].pending = st[c].pending + (IF d = c THEN 1 ELSE 0)
  <2>1. st'[c] = IF c \in {d} THEN Queued(st[c]) ELSE st[c]
    BY <1>2 DEF Mark
  <2>2. st[c] \in CellStates /\ st[c].pending \in Nat
    BY <1>1 DEF Types, CellStates
  <2>3. Queued(st[c]).pending = st[c].pending + 1
    BY <2>2, StateFields
  <2> QED BY <2>1, <2>2, <2>3
<1>4. Cardinality(SentOf(c))' = Cardinality(SentOf(c)) + (IF d = c THEN 1 ELSE 0)
  BY <1>2, SentMore
<1>5. Asked' <=> Asked
  <2> DEFINE q == Request("execute", d, epoch, FALSE)
  <2>1. q \in Requests /\ ~q.chained
    BY <1>1, Numbers DEF Request, Requests
  <2>2. reqs' = Append(reqs, q)
    BY <1>2
  <2> HIDE DEF q
  <2> QED BY <1>2, <2>1, <2>2, AskedStays
<1>6. /\ Cardinality(SeenAt(c))' = Cardinality(SeenAt(c)) /\ Cardinality(ToldAt(c))' = Cardinality(ToldAt(c))
      /\ Cardinality(AheadAt(c))' = Cardinality(AheadAt(c)) /\ Cardinality(LaterAt(c))' = Cardinality(LaterAt(c))
  BY <1>2, <1>5, SeenSame, ToldSame, AheadSame, LaterSame
<1>7. /\ Cardinality(SeenAt(c)) \in Nat /\ Cardinality(ToldAt(c)) \in Nat /\ Cardinality(AheadAt(c)) \in Nat
      /\ Cardinality(SentOf(c)) \in Nat /\ Cardinality(LaterAt(c)) \in Nat
  BY DebtCounts
<1> QED BY <1>3, <1>4, <1>6, <1>7 DEF Debt

LEMMA OwedAll ==
  ASSUME TypeInv, [Next]_vars, NEW c \in Cells, st[c].pending = Debt(c), RunAll
  PROVE  st'[c].pending = Debt(c)'
<1>1. Types /\ ChainInv /\ All \in Seq(Cells) /\ \A i, j \in 1 .. Len(All) : All[i] = All[j] => i = j
  BY RunsAssumption DEF TypeInv
<1>2. chain = <<>> /\ chain' = All /\ Mark(ToSet(All)) /\ UNCHANGED <<reqs, wire, iopub, queue, step>>
  BY DEF RunAll, process, channels
<1>3. ToSet(All) = {All[i] : i \in 1 .. Len(All)}
  BY <1>1 DEF ToSet
<1>4. st'[c].pending = st[c].pending + (IF c \in ToSet(All) THEN 1 ELSE 0)
  <2>1. st'[c] = IF c \in ToSet(All) THEN Queued(st[c]) ELSE st[c]
    BY <1>2 DEF Mark
  <2>2. st[c] \in CellStates /\ st[c].pending \in Nat
    BY <1>1 DEF Types, CellStates
  <2>3. Queued(st[c]).pending = st[c].pending + 1
    BY <2>2, StateFields
  <2> QED BY <2>1, <2>2, <2>3
<1>5. ~Asked /\ ~Asked'
  <2>1. ~Asked
    BY <1>1, <1>2 DEF ChainInv
  <2>2. Asked' <=> Asked
    BY <1>2, AskedStays
  <2> QED BY <2>1, <2>2
<1>6. Cardinality(LaterAt(c)) = 0
  <2>1. LaterAt(c) = {}
    BY <1>2 DEF LaterAt
  <2> QED BY <2>1, FS_EmptySet
<1>7. Cardinality(LaterAt(c))' = IF c \in ToSet(All) THEN 1 ELSE 0
  <2>1. LaterAt(c)' = {i \in 1 .. Len(All) : All[i] = c}
    BY <1>2, <1>5 DEF LaterAt
  <2>2. CASE c \in ToSet(All)
    <3>1. PICK i \in 1 .. Len(All) : All[i] = c
      BY <1>3, <2>2
    <3>2. LaterAt(c)' = {i}
      BY <1>1, <2>1, <3>1
    <3> QED BY <2>2, <3>2, FS_Singleton
  <2>3. CASE c \notin ToSet(All)
    <3>1. LaterAt(c)' = {}
      BY <1>3, <2>1, <2>3
    <3> QED BY <2>3, <3>1, FS_EmptySet
  <2> QED BY <2>2, <2>3
<1>8. /\ Cardinality(SeenAt(c))' = Cardinality(SeenAt(c)) /\ Cardinality(ToldAt(c))' = Cardinality(ToldAt(c))
      /\ Cardinality(AheadAt(c))' = Cardinality(AheadAt(c)) /\ Cardinality(SentOf(c))' = Cardinality(SentOf(c))
  BY <1>2, SeenSame, ToldSame, AheadSame, SentSame
<1>9. /\ Cardinality(SeenAt(c)) \in Nat /\ Cardinality(ToldAt(c)) \in Nat /\ Cardinality(AheadAt(c)) \in Nat
      /\ Cardinality(SentOf(c)) \in Nat
  BY DebtCounts
<1> QED BY <1>4, <1>6, <1>7, <1>8, <1>9 DEF Debt

LEMMA OwedNext ==
  ASSUME TypeInv, [Next]_vars, NEW c \in Cells, st[c].pending = Debt(c), SendNext
  PROVE  st'[c].pending = Debt(c)'
<1>1. Types /\ epoch \in Nat /\ chain \in Seq(Cells)
  BY DEF TypeInv, Types
<1>2. /\ chain # <<>> /\ reqs' = Append(reqs, Request("execute", Head(chain), epoch, TRUE))
      /\ UNCHANGED <<st, chain, wire, iopub, queue, step>> /\ ~Asked
  BY DEF SendNext, editor, process, channels, Asked
<1>3. Head(chain) \in Cells
  BY <1>1, <1>2
<1>4. Cardinality(SentOf(c))' = Cardinality(SentOf(c)) + (IF Head(chain) = c THEN 1 ELSE 0)
  BY <1>2, <1>3, SentMore
<1>5. Asked'
  BY <1>1, <1>2, <1>3, AskedNow
<1>6. /\ Cardinality(LaterAt(c))' \in Nat
      /\ Cardinality(LaterAt(c)) = Cardinality(LaterAt(c))' + (IF Head(chain) = c THEN 1 ELSE 0)
  BY <1>2, <1>5, LaterAsked
<1>7. /\ Cardinality(SeenAt(c))' = Cardinality(SeenAt(c)) /\ Cardinality(ToldAt(c))' = Cardinality(ToldAt(c))
      /\ Cardinality(AheadAt(c))' = Cardinality(AheadAt(c))
  BY <1>2, SeenSame, ToldSame, AheadSame
<1>8. /\ Cardinality(SeenAt(c)) \in Nat /\ Cardinality(ToldAt(c)) \in Nat /\ Cardinality(AheadAt(c)) \in Nat
      /\ Cardinality(SentOf(c)) \in Nat
  BY DebtCounts
<1> QED BY <1>2, <1>4, <1>6, <1>7, <1>8 DEF Debt

LEMMA OwedClear ==
  ASSUME TypeInv, [Next]_vars, NEW c \in Cells, st[c].pending = Debt(c), NEW d \in Cells, Clear(d)
  PROVE  st'[c].pending = Debt(c)'
<1>1. Types /\ epoch \in Nat
  BY DEF TypeInv, Types
<1>2. /\ st' = [st EXCEPT ![d] = Cleared(@)] /\ reqs' = Append(reqs, Request("clear", d, epoch, FALSE))
      /\ UNCHANGED <<chain, wire, iopub, queue, step>>
  BY DEF Clear, process, channels
<1>3. st'[c].pending = st[c].pending
  <2>1. st'[c] = IF c = d THEN Cleared(st[c]) ELSE st[c]
    BY <1>1, <1>2 DEF Types
  <2>2. st[c] \in CellStates
    BY <1>1 DEF Types
  <2>3. Cleared(st[c]).pending = st[c].pending
    BY <2>2, StateFields
  <2> QED BY <2>1, <2>3
<1>4. Cardinality(SentOf(c))' = Cardinality(SentOf(c))
  <2>1. \E e \in Nat, ch \in BOOLEAN : reqs' = Append(reqs, Request("clear", d, e, ch))
    BY <1>1, <1>2
  <2> QED BY <2>1, SentSame
<1>5. Asked' <=> Asked
  <2> DEFINE q == Request("clear", d, epoch, FALSE)
  <2>1. q \in Requests /\ ~q.chained
    BY <1>1, Numbers DEF Request, Requests
  <2>2. reqs' = Append(reqs, q)
    BY <1>2
  <2> HIDE DEF q
  <2> QED BY <1>2, <2>1, <2>2, AskedStays
<1>6. /\ Cardinality(SeenAt(c))' = Cardinality(SeenAt(c)) /\ Cardinality(ToldAt(c))' = Cardinality(ToldAt(c))
      /\ Cardinality(AheadAt(c))' = Cardinality(AheadAt(c)) /\ Cardinality(LaterAt(c))' = Cardinality(LaterAt(c))
  BY <1>2, <1>5, SeenSame, ToldSame, AheadSame, LaterSame
<1> QED BY <1>3, <1>4, <1>6 DEF Debt

LEMMA ToldAnswer ==
  ASSUME TypeInv, [Next]_vars, NEW c, NEW r \in Ids, wire' = Append(wire, Answer(r, TRUE))
  PROVE  Cardinality(ToldAt(c))' = Cardinality(ToldAt(c))
<1> DEFINE m == Answer(r, TRUE)
<1>1. m \in Messages /\ m.kind = "answer" /\ wire' = Append(wire, m)
  BY DEF Answer, Messages
<1> HIDE DEF m
<1>2. Cardinality(ToldAt(c))' = Cardinality(ToldAt(c)) + (IF m.kind = "event" /\ Busy(m.event, c) THEN 1 ELSE 0)
  BY <1>1, ToldMore
<1>3. Cardinality(ToldAt(c)) \in Nat
  BY DebtCounts
<1> QED BY <1>1, <1>2, <1>3

LEMMA OwedExecute ==
  ASSUME TypeInv, [Next]_vars, Undisturbed, NEW c \in Cells, st[c].pending = Debt(c),
         NEW r \in 1 .. Len(reqs), Execute(r)
  PROVE  st'[c].pending = Debt(c)'
<1>1. kernel = 0 /\ ~dying /\ NoKernel = -1 /\ 0 \in -1 .. MaxRequests
  BY Numbers DEF Undisturbed
<1>2. r \in Runs /\ reqs[r].at = "sent" /\ r \in Ids
  <2>1. r \in Ids
    BY Numbers DEF TypeInv, BoundInv, Types
  <2> QED BY <2>1 DEF Execute, TakenUp, Runs
<1>3. Becomes(r, "done", 0) /\ UNCHANGED <<st, chain, iopub, step>>
  BY <1>1 DEF Execute, editor, channels
<1>4. queue' = Append(queue, r)
  BY <1>1 DEF Execute
<1>5. wire' = Append(wire, Answer(r, TRUE))
  <2>1. (kernel # NoKernel) = TRUE
    BY <1>1
  <2>2. wire' = Append(wire, Answer(r, kernel # NoKernel))
    BY DEF Execute, Say
  <2> QED BY <2>1, <2>2
<1>6. /\ Cardinality(SentOf(c))' \in Nat
      /\ Cardinality(SentOf(c)) = Cardinality(SentOf(c))' + (IF reqs[r].cell = c THEN 1 ELSE 0)
  BY <1>1, <1>2, <1>3, SentLess
<1>7. Cardinality(AheadAt(c))' = Cardinality(AheadAt(c)) + (IF reqs[r].cell = c THEN 1 ELSE 0)
  BY <1>2, <1>3, <1>4, AheadMore
<1>8. Cardinality(ToldAt(c))' = Cardinality(ToldAt(c))
  BY <1>2, <1>5, ToldAnswer
<1>9. Cardinality(LaterAt(c))' = Cardinality(LaterAt(c))
  <2>1. Asked' <=> Asked
    BY <1>1, <1>2, <1>3, <1>5, AskedAnswers
  <2> QED BY <1>3, <2>1, LaterSame
<1>10. Cardinality(SeenAt(c))' = Cardinality(SeenAt(c))
  BY <1>3, SeenSame
<1>11. /\ Cardinality(SeenAt(c)) \in Nat /\ Cardinality(ToldAt(c)) \in Nat /\ Cardinality(AheadAt(c)) \in Nat
       /\ Cardinality(LaterAt(c)) \in Nat
  BY DebtCounts
<1> QED BY <1>3, <1>6, <1>7, <1>8, <1>9, <1>10, <1>11 DEF Debt

LEMMA OwedClearCell ==
  ASSUME TypeInv, [Next]_vars, NEW c \in Cells, st[c].pending = Debt(c),
         NEW r \in 1 .. Len(reqs), ClearCell(r)
  PROVE  st'[c].pending = Debt(c)'
<1>1. NoKernel \in -1 .. MaxRequests
  BY Numbers
<1>2. r \notin Runs /\ reqs[r].at = "sent" /\ r \in Ids
  <2>1. r \in Ids
    BY Numbers DEF TypeInv, BoundInv, Types
  <2> QED BY <2>1 DEF ClearCell, TakenUp, Runs
<1>3. Becomes(r, "done", NoKernel) /\ UNCHANGED <<st, chain, iopub, queue, step>>
  BY DEF ClearCell, editor, channels, process
<1>5. wire' = Append(wire, Answer(r, TRUE))
  BY DEF ClearCell, Say
<1>6. Cardinality(SentOf(c))' = Cardinality(SentOf(c))
  BY <1>1, <1>2, <1>3, SentSame
<1>8. Cardinality(ToldAt(c))' = Cardinality(ToldAt(c))
  BY <1>2, <1>5, ToldAnswer
<1>9. Cardinality(LaterAt(c))' = Cardinality(LaterAt(c))
  <2>1. Asked' <=> Asked
    BY <1>1, <1>2, <1>3, <1>5, AskedAnswers
  <2> QED BY <1>3, <2>1, LaterSame
<1>10. Cardinality(SeenAt(c))' = Cardinality(SeenAt(c)) /\ Cardinality(AheadAt(c))' = Cardinality(AheadAt(c))
  BY <1>3, SeenSame, AheadSame
<1> QED BY <1>3, <1>6, <1>8, <1>9, <1>10 DEF Debt

LEMMA OwedKernel ==
  ASSUME TypeInv, [Next]_vars, NEW c \in Cells, st[c].pending = Debt(c), CalmKernel
  PROVE  st'[c].pending = Debt(c)'
<1>1. UNCHANGED <<st, chain, reqs, wire>>
  BY DEF CalmKernel, KernelBegins, KernelEnds, KernelPrints, editor
<1>2. /\ Cardinality(ToldAt(c))' = Cardinality(ToldAt(c)) /\ Cardinality(SentOf(c))' = Cardinality(SentOf(c))
      /\ Cardinality(LaterAt(c))' = Cardinality(LaterAt(c))
  <2>1. Asked' <=> Asked
    BY <1>1, AskedStays
  <2> QED BY <1>1, <2>1, ToldSame, SentSame, LaterSame
<1>3. Cardinality(SeenAt(c)) \in Nat /\ Cardinality(AheadAt(c)) \in Nat
  BY DebtCounts
<1>4. ASSUME Cardinality(SeenAt(c))' + Cardinality(AheadAt(c))' = Cardinality(SeenAt(c)) + Cardinality(AheadAt(c)),
             Cardinality(SeenAt(c))' \in Nat, Cardinality(AheadAt(c))' \in Nat
      PROVE  st'[c].pending = Debt(c)'
  <2>1. Cardinality(ToldAt(c)) \in Nat /\ Cardinality(SentOf(c)) \in Nat /\ Cardinality(LaterAt(c)) \in Nat
    BY DebtCounts
  <2> QED BY <1>1, <1>2, <1>3, <1>4, <2>1 DEF Debt
<1>5. queue # <<>> => Head(queue) \in Runs /\ Head(queue) \in Ids /\ Head(queue) = queue[1]
  <2>1. ASSUME queue # <<>> PROVE Len(queue) \in Nat \ {0} /\ Head(queue) = queue[1] /\ queue[1] \in Ids
    BY <2>1 DEF TypeInv, Types
  <2> QED BY <2>1 DEF TypeInv, WireInv
<1> DEFINE r == Head(queue)
<1>6. CASE KernelBegins
  <2>1. queue # <<>> /\ step = "waits" /\ r \in Runs /\ r \in Ids
    BY <1>5, <1>6 DEF KernelBegins
  <2>2. PICK k \in {"input", "idle"} : iopub' = iopub \o <<Event("busy", r), Event(k, r)>>
    BY <1>6 DEF KernelBegins
  <2>7. \/ queue' = queue /\ step' = "runs"
        \/ queue' = Tail(queue) /\ step' = "waits"
    BY <1>6 DEF KernelBegins
  <2> DEFINE d == Event("busy", r)
             e == Event(k, r)
  <2>3. d \in Events /\ e \in Events /\ d.run = r /\ e.run = r /\ d.kind = "busy" /\ e.kind # "busy"
        /\ (Busy(d, c) <=> reqs[r].cell = c)
    BY <2>1 DEF Event, Events, Busy
  <2>4. iopub' = iopub \o <<d, e>>
    BY <2>2
  <2> HIDE DEF d, e
  <2>5. Cardinality(SeenAt(c))' = Cardinality(SeenAt(c)) + (IF Busy(d, c) THEN 1 ELSE 0)
    BY <2>1, <2>3, <2>4, SeenTwo
  <2>6. /\ Cardinality(AheadAt(c))' \in Nat
        /\ Cardinality(AheadAt(c)) = Cardinality(AheadAt(c))' + (IF reqs[r].cell = c THEN 1 ELSE 0)
    BY <2>1, <2>7, AheadBegins
  <2> QED BY <1>3, <1>4, <2>3, <2>5, <2>6
<1>7. ASSUME NEW k \in {"idle", "output", "clear", "wait"}, iopub' = Append(iopub, Event(k, r)), step = "runs"
      PROVE  Cardinality(SeenAt(c))' = Cardinality(SeenAt(c))
  <2>1. r \in Runs /\ r \in Ids
    BY <1>5, <1>7 DEF TypeInv, WireInv
  <2> DEFINE e == Event(k, r)
  <2>2. e \in Events /\ e.run = r /\ ~Busy(e, c) /\ iopub' = Append(iopub, e)
    BY <1>7, <2>1 DEF Event, Events, Busy
  <2> HIDE DEF e
  <2>3. Cardinality(SeenAt(c))' = Cardinality(SeenAt(c)) + (IF Busy(e, c) THEN 1 ELSE 0)
    BY <2>1, <2>2, SeenMore
  <2> QED BY <1>3, <2>2, <2>3
<1>8. ASSUME NEW k \in {"output", "clear", "wait"}, KernelPrints(k) PROVE st'[c].pending = Debt(c)'
  <2>1. iopub' = Append(iopub, Event(k, r)) /\ step = "runs" /\ UNCHANGED <<queue, step>>
    BY <1>8 DEF KernelPrints
  <2>2. Cardinality(SeenAt(c))' = Cardinality(SeenAt(c)) /\ Cardinality(AheadAt(c))' = Cardinality(AheadAt(c))
    BY <1>7, <2>1, AheadSame
  <2> QED BY <1>3, <1>4, <2>2
<1>9. CASE KernelEnds
  <2>1. iopub' = Append(iopub, Event("idle", r)) /\ step = "runs" /\ queue' = Tail(queue) /\ step' = "waits"
        /\ queue # <<>>
    BY <1>9 DEF KernelEnds, TypeInv, WireInv
  <2>2. Cardinality(SeenAt(c))' = Cardinality(SeenAt(c)) /\ Cardinality(AheadAt(c))' = Cardinality(AheadAt(c))
    BY <1>7, <2>1, AheadEnds
  <2> QED BY <1>3, <1>4, <2>2
<1> QED BY <1>6, <1>8, <1>9 DEF CalmKernel

(* An event of the living kernel is passed on as it is read.               *)
LEMMA PumpTells ==
  ASSUME TypeInv, TimedInv, Calm, Undisturbed, PumpIopub
  PROVE  /\ iopub # <<>> /\ iopub' = Tail(iopub) /\ Head(iopub) \in Events /\ Head(iopub).run \in Runs
         /\ \E m \in Messages : m.kind = "event" /\ m.event = Head(iopub) /\ wire' = Append(wire, m)
         /\ UNCHANGED <<st, chain, reqs, queue, step>>
<1>1. iopub # <<>> /\ iopub' = Tail(iopub) /\ Pump(Head(iopub)) /\ UNCHANGED <<st, chain, reqs, queue, step>>
  BY DEF PumpIopub, editor, process
<1> DEFINE e == Head(iopub)
<1>2. 1 \in 1 .. Len(iopub) /\ e = iopub[1] /\ e \in Events /\ e.run \in Runs
  <2>1. Len(iopub) \in Nat \ {0} /\ e = iopub[1] /\ e \in Events
    BY <1>1 DEF TypeInv, WireInv
  <2> QED BY <2>1 DEF TypeInv, Types
<1>3. Ran(e.run)
  BY <1>2 DEF TimedInv, Unread
<1>4. Current(reqs[e.run].kernel)
  <2>1. reqs[e.run].kernel = 0
    BY <1>2, <1>3 DEF Calm, Ran, Runs
  <2> QED BY <2>1 DEF Current, Undisturbed
<1> DEFINE b == back[reqs[e.run].cell]
<1>5. Note(b, e) \in Messages /\ Note(b, e).kind = "event" /\ Note(b, e).event = e
  <2>1. reqs[e.run] \in Requests
    BY <1>2 DEF TypeInv, Types, Runs
  <2>2. reqs[e.run].cell \in Cells
    BY <2>1 DEF Requests
  <2>3. b \in Backs
    BY <2>2 DEF TypeInv, Types
  <2> QED BY <1>2, <2>3, EventTypes DEF Note
<1>6. wire' = Append(wire, Note(b, e))
  BY <1>1, <1>4 DEF Pump, Say
<1> QED BY <1>1, <1>2, <1>5, <1>6

(* How the signs of a cell's runs go from one run state to another: a busy *)
(* at rest, an execute_input after a busy or, "on", where the busy may     *)
(* have been passed over, an idle always.                                  *)
RunStates == {"no", "busy", "input"}
Goes(x, k, y) ==
  CASE k = "busy" -> x = "no" /\ y = "busy"
    [] k = "input" -> x = "busy" /\ y = "input"
    [] k = "on" -> y = "input"
    [] k = "idle" -> y = "no"
    [] OTHER -> y = x
Walks(h, s, n) == \A i \in 1 .. n : Goes(h[i - 1], s[i], h[i])
Path(s, n, a, z) == \E h \in [0 .. n -> RunStates] : h[0] = a /\ h[n] = z /\ Walks(h, s, n)

LEMMA PathNone ==
  ASSUME NEW a \in RunStates, NEW z, NEW s
  PROVE  Path(s, 0, a, z) <=> a = z
<1> DEFINE g == [i \in 0 .. 0 |-> a]
<1>1. g \in [0 .. 0 -> RunStates] /\ g[0] = a /\ Walks(g, s, 0)
  BY DEF Walks
<1> HIDE DEF g
<1>2. ASSUME a = z PROVE Path(s, 0, a, z)
  BY <1>1, <1>2 DEF Path
<1> QED BY <1>2 DEF Path

LEMMA PathSame ==
  ASSUME NEW n \in Nat, NEW s, NEW t, \A i \in 1 .. n : t[i] = s[i], NEW a, NEW z, Path(s, n, a, z)
  PROVE  Path(t, n, a, z)
BY DEF Path, Walks

LEMMA PathOn ==
  ASSUME NEW n \in Nat, NEW s, NEW t, \A i \in 1 .. n : t[i] = s[i],
         NEW a, NEW y, NEW z \in RunStates, Path(s, n, a, y), Goes(y, t[n + 1], z)
  PROVE  Path(t, n + 1, a, z)
<1>1. PICK h \in [0 .. n -> RunStates] : h[0] = a /\ h[n] = y /\ Walks(h, s, n)
  BY DEF Path
<1> DEFINE g == [i \in 0 .. n + 1 |-> IF i <= n THEN h[i] ELSE z]
<1>2. g \in [0 .. n + 1 -> RunStates] /\ (\A i \in 0 .. n : g[i] = h[i]) /\ g[n + 1] = z
  OBVIOUS
<1> HIDE DEF g
<1>3. Walks(g, t, n + 1)
  <2> SUFFICES ASSUME NEW i \in 1 .. n + 1 PROVE Goes(g[i - 1], t[i], g[i])
    BY DEF Walks
  <2>1. CASE i \in 1 .. n
    <3>1. Goes(h[i - 1], s[i], h[i])
      BY <1>1, <2>1 DEF Walks
    <3>2. g[i - 1] = h[i - 1] /\ g[i] = h[i] /\ t[i] = s[i]
      BY <1>2, <2>1
    <3> QED BY <3>1, <3>2
  <2>2. CASE i \notin 1 .. n
    <3>1. i = n + 1 /\ i - 1 = n /\ n \in 0 .. n
      BY <2>2
    <3>2. g[i - 1] = y /\ g[i] = z
      BY <1>1, <1>2, <3>1
    <3> QED BY <3>1, <3>2
  <2> QED BY <2>1, <2>2
<1>4. g[0] = a
  BY <1>1, <1>2
<1> QED BY <1>2, <1>3, <1>4 DEF Path

LEMMA PathLess ==
  ASSUME NEW n \in Nat \ {0}, NEW s, NEW t, \A i \in 1 .. n - 1 : t[i] = s[i + 1],
         NEW a, NEW z, Path(s, n, a, z)
  PROVE  \E b \in RunStates : Goes(a, s[1], b) /\ Path(t, n - 1, b, z)
<1>1. PICK h \in [0 .. n -> RunStates] : h[0] = a /\ h[n] = z /\ Walks(h, s, n)
  BY DEF Path
<1> DEFINE g == [i \in 0 .. n - 1 |-> h[i + 1]]
<1>2. /\ \A i \in 0 .. n - 1 : i + 1 \in 0 .. n /\ g[i] = h[i + 1]
      /\ g[n - 1] = h[n] /\ g[0] = h[1] /\ h[1] \in RunStates
  OBVIOUS
<1>3. g \in [0 .. n - 1 -> RunStates]
  OBVIOUS
<1> HIDE DEF g
<1>4. Walks(g, t, n - 1)
  <2> SUFFICES ASSUME NEW i \in 1 .. n - 1 PROVE Goes(g[i - 1], t[i], g[i])
    BY DEF Walks
  <2>1. i + 1 \in 1 .. n /\ (i + 1) - 1 = i /\ i - 1 \in 0 .. n - 1 /\ (i - 1) + 1 = i /\ i \in 0 .. n - 1
    OBVIOUS
  <2>2. Goes(h[i], s[i + 1], h[i + 1])
    <3>1. Goes(h[(i + 1) - 1], s[i + 1], h[i + 1])
      BY <1>1, <2>1 DEF Walks
    <3> QED BY <2>1, <3>1
  <2>3. g[i - 1] = h[i] /\ g[i] = h[i + 1] /\ t[i] = s[i + 1]
    BY <1>2, <2>1
  <2> QED BY <2>2, <2>3
<1>5. Goes(a, s[1], h[1])
  <2>1. 1 \in 1 .. n /\ 1 - 1 = 0
    OBVIOUS
  <2>2. Goes(h[1 - 1], s[1], h[1])
    BY <1>1, <2>1 DEF Walks
  <2> QED BY <1>1, <2>1, <2>2
<1>6. Path(t, n - 1, h[1], z)
  BY <1>1, <1>2, <1>3, <1>4 DEF Path
<1> QED BY <1>2, <1>5, <1>6

(* The signs of a cell's runs that are on their way.                       *)
WireSign(m, c) == IF m.kind = "event" /\ reqs[m.event.run].cell = c THEN m.event.kind ELSE "none"
PubSign(e, c) == IF reqs[e.run].cell = c THEN e.kind ELSE "none"
WireSigns(c) == [i \in 1 .. Len(wire) |-> WireSign(wire[i], c)]
PubSigns(c) == [i \in 1 .. Len(iopub) |-> PubSign(iopub[i], c)]
WirePath(c, a, z) == Path(WireSigns(c), Len(wire), a, z)
PubPath(c, a, z) == Path(PubSigns(c), Len(iopub), a, z)

LEMMA WireOld ==
  ASSUME TypeInv, [Next]_vars, NEW c
  PROVE  /\ \A i \in 1 .. Len(wire) :
              WireSigns(c)[i] = IF wire[i].kind = "event" /\ reqs'[wire[i].event.run].cell = c
                                THEN wire[i].event.kind ELSE "none"
         /\ \A i \in 1 .. Len(wire') :
              WireSigns(c)'[i] = IF wire'[i].kind = "event" /\ reqs'[wire'[i].event.run].cell = c
                                 THEN wire'[i].event.kind ELSE "none"
<1>1. \A i \in 1 .. Len(wire) : wire[i].kind = "event" =>
        reqs'[wire[i].event.run].cell = reqs[wire[i].event.run].cell
  BY CellsStay DEF TypeInv, WireInv, Runs
<1> QED BY <1>1 DEF WireSigns, WireSign

LEMMA WireSame ==
  ASSUME TypeInv, [Next]_vars, NEW c, NEW a, NEW z, WirePath(c, a, z), wire' = wire
  PROVE  WirePath(c, a, z)'
<1>1. \A i \in 1 .. Len(wire) : WireSigns(c)'[i] = WireSigns(c)[i]
  BY WireOld
<1>2. Len(wire) \in Nat
  BY DEF TypeInv, WireInv
<1>3. Path(WireSigns(c)', Len(wire), a, z)
  BY <1>1, <1>2, PathSame DEF WirePath
<1> QED BY <1>3 DEF WirePath

LEMMA WireOn ==
  ASSUME TypeInv, [Next]_vars, NEW c, NEW a, NEW y, NEW z \in RunStates, WirePath(c, a, y),
         NEW m \in Messages, m.kind = "event" => m.event.run \in Runs, wire' = Append(wire, m),
         Goes(y, WireSign(m, c), z)
  PROVE  WirePath(c, a, z)'
<1>1. /\ Len(wire) \in Nat /\ Len(wire') = Len(wire) + 1 /\ wire'[Len(wire) + 1] = m
      /\ \A i \in 1 .. Len(wire) : wire'[i] = wire[i]
  BY Said DEF TypeInv
<1>2. \A i \in 1 .. Len(wire) : WireSigns(c)'[i] = WireSigns(c)[i]
  BY <1>1, WireOld
<1>3. m.kind = "event" => reqs'[m.event.run].cell = reqs[m.event.run].cell
  BY CellsStay DEF Runs
<1>4. WireSigns(c)'[Len(wire) + 1] = WireSign(m, c)
  BY <1>1, <1>3 DEF WireSigns, WireSign
<1>5. Path(WireSigns(c)', Len(wire) + 1, a, z)
  BY <1>1, <1>2, <1>4, PathOn DEF WirePath
<1> QED BY <1>1, <1>5 DEF WirePath

LEMMA WireLess ==
  ASSUME TypeInv, [Next]_vars, NEW c, NEW a, NEW z, WirePath(c, a, z), wire # <<>>, wire' = Tail(wire)
  PROVE  \E b \in RunStates : Goes(a, WireSign(Head(wire), c), b) /\ WirePath(c, b, z)'
<1>1. /\ Len(wire) \in Nat \ {0} /\ Len(wire') = Len(wire) - 1 /\ Head(wire) = wire[1]
      /\ \A i \in 1 .. Len(wire') : wire'[i] = wire[i + 1] /\ i + 1 \in 1 .. Len(wire)
  BY Heard DEF TypeInv
<1>2. \A i \in 1 .. Len(wire) - 1 : WireSigns(c)'[i] = WireSigns(c)[i + 1]
  BY <1>1, WireOld
<1>3. WireSigns(c)[1] = WireSign(Head(wire), c)
  BY <1>1 DEF WireSigns
<1>4. \E b \in RunStates : Goes(a, WireSigns(c)[1], b) /\ Path(WireSigns(c)', Len(wire) - 1, b, z)
  BY <1>1, <1>2, PathLess DEF WirePath
<1> QED BY <1>1, <1>3, <1>4 DEF WirePath

LEMMA PubOld ==
  ASSUME TypeInv, [Next]_vars, NEW c
  PROVE  /\ \A i \in 1 .. Len(iopub) :
              PubSigns(c)[i] = IF reqs'[iopub[i].run].cell = c THEN iopub[i].kind ELSE "none"
         /\ \A i \in 1 .. Len(iopub') :
              PubSigns(c)'[i] = IF reqs'[iopub'[i].run].cell = c THEN iopub'[i].kind ELSE "none"
<1>1. \A i \in 1 .. Len(iopub) : reqs'[iopub[i].run].cell = reqs[iopub[i].run].cell
  BY CellsStay DEF TypeInv, Types, Runs
<1> QED BY <1>1 DEF PubSigns, PubSign

LEMMA PubSame ==
  ASSUME TypeInv, [Next]_vars, NEW c, NEW a, NEW z, PubPath(c, a, z), iopub' = iopub
  PROVE  PubPath(c, a, z)'
<1>1. \A i \in 1 .. Len(iopub) : PubSigns(c)'[i] = PubSigns(c)[i]
  BY PubOld
<1>2. Len(iopub) \in Nat
  BY DEF TypeInv, WireInv
<1>3. Path(PubSigns(c)', Len(iopub), a, z)
  BY <1>1, <1>2, PathSame DEF PubPath
<1> QED BY <1>3 DEF PubPath

LEMMA PubOn ==
  ASSUME TypeInv, [Next]_vars, NEW c, NEW a, NEW y, NEW z \in RunStates, PubPath(c, a, y),
         NEW e \in Events, e.run \in Runs, iopub' = Append(iopub, e), Goes(y, PubSign(e, c), z)
  PROVE  PubPath(c, a, z)'
<1>1. /\ Len(iopub) \in Nat /\ Len(iopub') = Len(iopub) + 1 /\ iopub'[Len(iopub) + 1] = e
      /\ \A i \in 1 .. Len(iopub) : iopub'[i] = iopub[i]
  BY DEF TypeInv, WireInv
<1>2. \A i \in 1 .. Len(iopub) : PubSigns(c)'[i] = PubSigns(c)[i]
  BY <1>1, PubOld
<1>3. reqs'[e.run].cell = reqs[e.run].cell
  BY CellsStay DEF Runs
<1>4. PubSigns(c)'[Len(iopub) + 1] = PubSign(e, c)
  BY <1>1, <1>3 DEF PubSigns, PubSign
<1>5. Path(PubSigns(c)', Len(iopub) + 1, a, z)
  BY <1>1, <1>2, <1>4, PathOn DEF PubPath
<1> QED BY <1>1, <1>5 DEF PubPath

(* Two at once, as a kernel that begins publishes them.                    *)
LEMMA PubTwo ==
  ASSUME TypeInv, [Next]_vars, NEW c, NEW a, NEW x, NEW y \in RunStates, NEW z \in RunStates, PubPath(c, a, x),
         NEW d \in Events, NEW e \in Events, d.run \in Runs, e.run \in Runs, iopub' = iopub \o <<d, e>>,
         Goes(x, PubSign(d, c), y), Goes(y, PubSign(e, c), z)
  PROVE  PubPath(c, a, z)'
<1>1. /\ Len(iopub) \in Nat /\ Len(iopub') = Len(iopub) + 2 /\ iopub'[Len(iopub) + 1] = d
      /\ iopub'[Len(iopub) + 2] = e
      /\ \A i \in 1 .. Len(iopub) : iopub'[i] = iopub[i]
  <2>1. iopub \in Seq(Events)
    BY DEF TypeInv, WireInv
  <2> QED BY <2>1
<1>2. \A i \in 1 .. Len(iopub) : PubSigns(c)'[i] = PubSigns(c)[i]
  BY <1>1, PubOld
<1>3. reqs'[d.run].cell = reqs[d.run].cell /\ reqs'[e.run].cell = reqs[e.run].cell
  BY CellsStay DEF Runs
<1>4. PubSigns(c)'[Len(iopub) + 1] = PubSign(d, c) /\ PubSigns(c)'[Len(iopub) + 2] = PubSign(e, c)
  BY <1>1, <1>3 DEF PubSigns, PubSign
<1>5. Path(PubSigns(c)', Len(iopub) + 1, a, y)
  BY <1>1, <1>2, <1>4, PathOn DEF PubPath
<1>6. (Len(iopub) + 1) + 1 = Len(iopub) + 2 /\ Len(iopub) + 1 \in Nat
  BY <1>1
<1>7. Path(PubSigns(c)', (Len(iopub) + 1) + 1, a, z)
  BY <1>4, <1>5, <1>6, PathOn
<1> QED BY <1>1, <1>6, <1>7 DEF PubPath

LEMMA PubLess ==
  ASSUME TypeInv, [Next]_vars, NEW c, NEW a, NEW z, PubPath(c, a, z), iopub # <<>>, iopub' = Tail(iopub)
  PROVE  \E b \in RunStates : Goes(a, PubSign(Head(iopub), c), b) /\ PubPath(c, b, z)'
<1>1. /\ Len(iopub) \in Nat \ {0} /\ Len(iopub') = Len(iopub) - 1 /\ Head(iopub) = iopub[1]
      /\ \A i \in 1 .. Len(iopub') : iopub'[i] = iopub[i + 1] /\ i + 1 \in 1 .. Len(iopub)
  BY DEF TypeInv, WireInv
<1>2. \A i \in 1 .. Len(iopub) - 1 : PubSigns(c)'[i] = PubSigns(c)[i + 1]
  BY <1>1, PubOld
<1>3. PubSigns(c)[1] = PubSign(Head(iopub), c)
  BY <1>1 DEF PubSigns
<1>4. \E b \in RunStates : Goes(a, PubSigns(c)[1], b) /\ Path(PubSigns(c)', Len(iopub) - 1, b, z)
  BY <1>1, <1>2, PathLess DEF PubPath
<1> QED BY <1>1, <1>3, <1>4 DEF PubPath

(* What a cell's badge says of its counts, and where the signs lead.       *)
Badge(s) == IF s.run # "no" THEN "busy" ELSE IF s.pending > 0 THEN "queued" ELSE "idle"
AtKernel(c) == IF step = "runs" /\ reqs[Head(queue)].cell = c THEN "input" ELSE "no"
Leading(c) == \E y \in RunStates : WirePath(c, st[c].run, y) /\ PubPath(c, y, AtKernel(c))

LEMMA KernelSame ==
  ASSUME TypeInv, [Next]_vars, NEW c, step' = step, step = "runs" => Head(queue') = Head(queue)
  PROVE  AtKernel(c)' = AtKernel(c)
<1>1. step = "runs" => Head(queue) \in Runs
  <2>1. step = "runs" => Len(queue) \in Nat \ {0} /\ Head(queue) = queue[1]
    BY DEF TypeInv, Types, WireInv
  <2> QED BY <2>1 DEF TypeInv, WireInv
<1>2. step = "runs" => reqs'[Head(queue)].cell = reqs[Head(queue)].cell
  BY <1>1, CellsStay DEF Runs
<1> QED BY <1>2 DEF AtKernel

LEMMA LeadingIs ==
  ASSUME NEW c
  PROVE  /\ Leading(c) => \E a \in {st[c].run}, k \in {AtKernel(c)}, y \in RunStates :
                            WirePath(c, a, y) /\ PubPath(c, y, k)
         /\ \A a \in {st'[c].run}, k \in {AtKernel(c)'}, y \in RunStates :
              WirePath(c, a, y)' /\ PubPath(c, y, k)' => Leading(c)'
BY DEF Leading, WirePath, PubPath

(* The backend and the kernel pass on no sign, or add one where it leads.  *)
LEMMA LeadingKeeps ==
  ASSUME TypeInv, [Next]_vars, NEW c, Leading(c), wire' = wire, iopub' = iopub, st'[c].run = st[c].run,
         AtKernel(c)' = AtKernel(c)
  PROVE  Leading(c)'
<1>1. PICK a \in {st[c].run}, k \in {AtKernel(c)}, y \in RunStates : WirePath(c, a, y) /\ PubPath(c, y, k)
  BY LeadingIs
<1>2. WirePath(c, a, y)' /\ PubPath(c, y, k)'
  BY <1>1, WireSame, PubSame
<1> QED BY <1>2, LeadingIs

LEMMA LeadingPlain ==
  ASSUME TypeInv, [Next]_vars, NEW c, Leading(c), NEW m \in Messages, m.kind = "event" => m.event.run \in Runs,
         WireSign(m, c) \notin {"busy", "input", "idle", "on"}, wire' = Append(wire, m), iopub' = iopub,
         st' = st, AtKernel(c)' = AtKernel(c)
  PROVE  Leading(c)'
<1>1. PICK a \in {st[c].run}, k \in {AtKernel(c)}, y \in RunStates : WirePath(c, a, y) /\ PubPath(c, y, k)
  BY LeadingIs
<1>2. Goes(y, WireSign(m, c), y)
  BY DEF Goes
<1>3. WirePath(c, a, y)'
  BY <1>1, <1>2, WireOn
<1>4. PubPath(c, y, k)'
  BY <1>1, PubSame
<1> QED BY <1>3, <1>4, LeadingIs

LEMMA LeadingPumps ==
  ASSUME TypeInv, TimedInv, Calm, Undisturbed, [Next]_vars, NEW c, Leading(c), PumpIopub
  PROVE  Leading(c)'
<1>1. /\ iopub # <<>> /\ iopub' = Tail(iopub) /\ Head(iopub).run \in Runs
      /\ UNCHANGED <<st, queue, step>>
  BY PumpTells
<1>2. PICK m \in Messages : m.kind = "event" /\ m.event = Head(iopub) /\ wire' = Append(wire, m)
  BY PumpTells
<1>3. PICK a \in {st[c].run}, k \in {AtKernel(c)}, y \in RunStates : WirePath(c, a, y) /\ PubPath(c, y, k)
  BY LeadingIs
<1>4. PICK z \in RunStates : Goes(y, PubSign(Head(iopub), c), z) /\ PubPath(c, z, k)'
  BY <1>1, <1>3, PubLess
<1>5. WireSign(m, c) = PubSign(Head(iopub), c)
  BY <1>2 DEF WireSign, PubSign
<1>6. WirePath(c, a, z)'
  BY <1>1, <1>2, <1>3, <1>4, <1>5, WireOn
<1>7. AtKernel(c)' = AtKernel(c)
  BY <1>1, KernelSame
<1> QED BY <1>1, <1>4, <1>6, <1>7, LeadingIs

LEMMA LeadingKernel ==
  ASSUME TypeInv, [Next]_vars, NEW c, Leading(c), CalmKernel
  PROVE  Leading(c)'
<1>1. UNCHANGED <<st, reqs, wire>>
  BY DEF CalmKernel, KernelBegins, KernelEnds, KernelPrints, editor
<1>2. queue # <<>> => Head(queue) \in Runs /\ Head(queue) \in Ids
  <2>1. ASSUME queue # <<>> PROVE Len(queue) \in Nat \ {0} /\ Head(queue) = queue[1] /\ queue[1] \in Ids
    BY <2>1 DEF TypeInv, Types
  <2> QED BY <2>1 DEF TypeInv, WireInv
<1>3. PICK a \in {st[c].run}, k \in {AtKernel(c)}, y \in RunStates : WirePath(c, a, y) /\ PubPath(c, y, k)
  BY LeadingIs
<1>4. WirePath(c, a, y)' /\ st'[c].run = a
  BY <1>1, <1>3, WireSame
<1> DEFINE r == Head(queue)
<1>5. CASE KernelBegins
  <2>1. queue # <<>> /\ step = "waits" /\ r \in Runs /\ r \in Ids
    BY <1>2, <1>5 DEF KernelBegins
  <2>2. k = "no"
    BY <1>3, <2>1 DEF AtKernel
  <2> DEFINE d == Event("busy", r)
  <2>3. d \in Events /\ d.run = r /\ d.kind = "busy"
    BY <2>1 DEF Event, Events
  <2>4. ASSUME NEW s \in {"input", "idle"}, iopub' = iopub \o <<d, Event(s, r)>>,
               AtKernel(c)' = IF s = "input" /\ reqs[r].cell = c THEN "input" ELSE "no"
        PROVE  Leading(c)'
    <3> DEFINE e == Event(s, r)
    <3>1. e \in Events /\ e.run = r /\ e.kind = s /\ iopub' = iopub \o <<d, e>>
      BY <2>1, <2>4 DEF Event, Events
    <3>2. PICK z \in RunStates : z = AtKernel(c)'
      BY <2>4 DEF RunStates
    <3> HIDE DEF d, e
    <3>3. CASE reqs[r].cell = c
      <4>1. PubSign(d, c) = "busy" /\ PubSign(e, c) = s
        BY <2>3, <3>1, <3>3 DEF PubSign
      <4>2. Goes(k, PubSign(d, c), "busy") /\ Goes("busy", PubSign(e, c), z) /\ "busy" \in RunStates
        BY <2>2, <2>4, <3>2, <3>3, <4>1 DEF Goes, RunStates
      <4>3. PubPath(c, y, z)'
        BY <1>3, <2>1, <2>3, <3>1, <4>2, PubTwo
      <4> QED BY <1>4, <3>2, <4>3, LeadingIs
    <3>4. CASE reqs[r].cell # c
      <4>1. PubSign(d, c) = "none" /\ PubSign(e, c) = "none"
        BY <2>3, <3>1, <3>4 DEF PubSign
      <4>2. Goes(k, PubSign(d, c), z) /\ Goes(z, PubSign(e, c), z)
        BY <2>2, <2>4, <3>2, <3>4, <4>1 DEF Goes
      <4>3. PubPath(c, y, z)'
        BY <1>3, <2>1, <2>3, <3>1, <4>2, PubTwo
      <4> QED BY <1>4, <3>2, <4>3, LeadingIs
    <3> QED BY <3>3, <3>4
  <2>5. CASE iopub' = iopub \o <<Event("busy", r), Event("input", r)>> /\ step' = "runs" /\ queue' = queue
    <3>1. AtKernel(c)' = IF reqs[r].cell = c THEN "input" ELSE "no"
      BY <1>1, <2>5 DEF AtKernel
    <3> QED BY <2>4, <2>5, <3>1
  <2>6. CASE iopub' = iopub \o <<Event("busy", r), Event("idle", r)>> /\ step' = "waits"
    <3>1. AtKernel(c)' = "no"
      BY <2>6 DEF AtKernel
    <3> QED BY <2>4, <2>6, <3>1
  <2>7. \/ iopub' = iopub \o <<Event("busy", r), Event("input", r)>> /\ step' = "runs" /\ queue' = queue
        \/ iopub' = iopub \o <<Event("busy", r), Event("idle", r)>> /\ step' = "waits"
    BY <1>5, <2>1 DEF KernelBegins
  <2> QED BY <2>5, <2>6, <2>7
<1>6. ASSUME NEW s \in {"idle", "output", "clear", "wait"}, iopub' = Append(iopub, Event(s, r)), step = "runs",
             IF s = "idle" THEN step' = "waits" ELSE UNCHANGED <<queue, step>>
      PROVE  Leading(c)'
  <2>1. r \in Runs /\ r \in Ids
    BY <1>2, <1>6 DEF TypeInv, WireInv
  <2> DEFINE e == Event(s, r)
  <2>2. e \in Events /\ e.run = r /\ e.kind = s /\ iopub' = Append(iopub, e)
    BY <1>6, <2>1 DEF Event, Events
  <2> HIDE DEF e
  <2>3. PICK z \in RunStates : z = AtKernel(c)'
    BY DEF AtKernel, RunStates
  <2>4. Goes(k, PubSign(e, c), z)
    <3>1. CASE s = "idle"
      <4>1. z = "no" /\ (reqs[r].cell # c => k = "no")
        BY <1>3, <1>6, <2>3, <3>1 DEF AtKernel
      <4> QED BY <2>2, <3>1, <4>1 DEF Goes, PubSign
    <3>2. CASE s # "idle"
      <4>1. z = k
        BY <1>3, <1>6, <2>3, <3>2, KernelSame
      <4>2. PubSign(e, c) \notin {"busy", "input", "idle", "on"}
        BY <1>6, <2>2, <3>2 DEF PubSign
      <4> QED BY <4>1, <4>2 DEF Goes
    <3> QED BY <3>1, <3>2
  <2>5. PubPath(c, y, z)'
    BY <1>3, <2>1, <2>2, <2>4, PubOn
  <2> QED BY <1>4, <2>3, <2>5, LeadingIs
<1>7. ASSUME NEW s \in {"output", "clear", "wait"}, KernelPrints(s) PROVE Leading(c)'
  <2>1. iopub' = Append(iopub, Event(s, r)) /\ step = "runs" /\ UNCHANGED <<queue, step>>
    BY <1>7 DEF KernelPrints
  <2> QED BY <1>6, <2>1
<1>8. CASE KernelEnds
  <2>1. iopub' = Append(iopub, Event("idle", r)) /\ step = "runs" /\ step' = "waits"
    BY <1>8 DEF KernelEnds
  <2> QED BY <1>6, <2>1
<1> QED BY <1>5, <1>7, <1>8 DEF CalmKernel

(* All that is told of a cell's badge.                                     *)
Signs == {"busy", "input", "idle", "output", "clear", "wait", "reply"}
Told(c) == st[c].pending = Debt(c) /\ Leading(c) /\ st[c].state = Badge(st[c])

LEMMA ToldEvent ==
  ASSUME TypeInv, Undisturbed, [Next]_vars, NEW c \in Cells, Told(c), CellEvent
  PROVE  Told(c)'
<1>1. Types /\ WireInv /\ st \in [Cells -> CellStates] /\ st[c] \in CellStates
  BY DEF TypeInv, Types
<1>2. /\ wire # <<>> /\ wire' = Tail(wire) /\ Head(wire).kind = "event"
      /\ UNCHANGED <<chain, reqs, iopub, queue, step>>
  BY DEF CellEvent, process, channels
<1> DEFINE e == Head(wire).event
           d == reqs[e.run].cell
<1>3. e \in Events \cup Replies /\ e.run \in Runs /\ d \in Cells
  <2>1. Len(wire) \in Nat \ {0} /\ Head(wire) = wire[1] /\ wire[1] \in Messages
    BY <1>1, <1>2, Heard
  <2>2. e \in Events \cup Replies
    BY <1>2, <2>1, Kinds
  <2>3. e.run \in Runs
    BY <1>1, <1>2, <2>1 DEF WireInv
  <2>4. reqs[e.run] \in Requests
    BY <1>1, <2>3 DEF Types, Runs
  <2> QED BY <2>2, <2>3, <2>4 DEF Requests
<1>4. st'[c] = IF c = d THEN State(st[c], e) ELSE st[c]
  <2>1. ~Stale(d)
    BY <1>1 DEF Types, Undisturbed, Stale
  <2>2. st' = [st EXCEPT ![d] = State(@, e)]
    BY <2>1 DEF CellEvent
  <2> HIDE DEF d, e
  <2> QED BY <1>1, <1>3, <2>2
<1> HIDE DEF e
<1>5. PICK a \in {st[c].run}, k \in {AtKernel(c)}, y \in RunStates : WirePath(c, a, y) /\ PubPath(c, y, k)
  BY LeadingIs DEF Told
<1>6. PICK b \in RunStates : Goes(a, WireSign(Head(wire), c), b) /\ WirePath(c, b, y)'
  BY <1>2, <1>5, WireLess
<1>7. PubPath(c, y, k)' /\ k = AtKernel(c)'
  BY <1>2, <1>5, PubSame, KernelSame
<1>8. WireSign(Head(wire), c) = IF d = c THEN e.kind ELSE "none"
  BY <1>2 DEF WireSign, e
<1>9. /\ Cardinality(ToldAt(c))' \in Nat
      /\ Cardinality(ToldAt(c)) = Cardinality(ToldAt(c))' + (IF e.kind = "busy" /\ d = c THEN 1 ELSE 0)
  <2>1. Head(wire).kind = "event" /\ Busy(Head(wire).event, c) <=> e.kind = "busy" /\ d = c
    BY <1>2 DEF Busy, e
  <2> QED BY <1>2, <2>1, ToldLess
<1>10. /\ Cardinality(SeenAt(c))' = Cardinality(SeenAt(c)) /\ Cardinality(AheadAt(c))' = Cardinality(AheadAt(c))
       /\ Cardinality(SentOf(c))' = Cardinality(SentOf(c)) /\ Cardinality(LaterAt(c))' = Cardinality(LaterAt(c))
  <2>1. Asked' <=> Asked
    BY <1>2, AskedStays
  <2> QED BY <1>2, <2>1, SeenSame, AheadSame, SentSame, LaterSame
<1>11. /\ Cardinality(SeenAt(c)) \in Nat /\ Cardinality(AheadAt(c)) \in Nat
       /\ Cardinality(SentOf(c)) \in Nat /\ Cardinality(LaterAt(c)) \in Nat
  BY DebtCounts
<1>12. st[c].pending \in Nat /\ st[c].run \in RunStates /\ st[c].state = Badge(st[c]) /\ st[c].pending = Debt(c)
  BY <1>1 DEF CellStates, RunStates, Told
<1> HIDE DEF d
<1>13. CASE c # d
  <2>1. st'[c] = st[c] /\ b = a
    BY <1>4, <1>6, <1>8, <1>13 DEF Goes
  <2>2. Leading(c)'
    BY <1>5, <1>6, <1>7, <2>1, LeadingIs
  <2>3. Debt(c)' = Debt(c)
    BY <1>9, <1>10, <1>11, <1>13 DEF Debt
  <2>4. st'[c].state = Badge(st'[c])
    BY <1>12, <2>1
  <2> QED BY <1>12, <2>1, <2>2, <2>3, <2>4 DEF Told
<1>14. CASE c = d
  <2> DEFINE s == st[c]
             t == State(s, e)
  <2>1. st'[c] = t /\ Goes(s.run, e.kind, b)
    BY <1>4, <1>5, <1>6, <1>8, <1>14
  <2>2. s.pending \in Nat /\ s.run \in RunStates /\ s.state = Badge(s) /\ s \in CellStates
    BY <1>1, <1>12
  <2>3. e.kind \in Signs
    BY <1>3 DEF Events, Replies, Signs
  <2>4. Debt(c) = Debt(c)' + (IF e.kind = "busy" THEN 1 ELSE 0) /\ Debt(c)' \in Nat
    BY <1>9, <1>10, <1>11, <1>14 DEF Debt
  <2>5. s.pending = Debt(c)' + (IF e.kind = "busy" THEN 1 ELSE 0)
    BY <1>12, <2>4
  <2>6. /\ t.pending = IF e.kind \in {"busy", "input"} /\ s.run \in {"no", "input"} /\ s.pending > 0
                       THEN s.pending - 1 ELSE s.pending
        /\ t.run = IF e.kind = "busy" THEN "busy" ELSE IF e.kind = "input" THEN "input"
                   ELSE IF e.kind = "idle" THEN "no" ELSE s.run
        /\ t.state = IF e.kind \in {"busy", "input"} THEN "busy"
                     ELSE IF e.kind = "idle" THEN (IF s.pending > 0 THEN "queued" ELSE "idle")
                     ELSE s.state
    BY <1>3, <2>2, EventFields
  <2> HIDE DEF s, t
  <2>7. t.run = b
    BY <2>1, <2>3, <2>6 DEF Goes, Signs
  <2>8. t.pending = Debt(c)'
    BY <2>1, <2>2, <2>3, <2>4, <2>5, <2>6 DEF Goes, Signs
  <2>9. t.state = Badge(t)
    <3>1. CASE e.kind \in {"busy", "input"}
      BY <2>6, <3>1 DEF Badge
    <3>2. CASE e.kind = "idle"
      BY <2>6, <3>2 DEF Badge
    <3>3. CASE e.kind \notin {"busy", "input", "idle"}
      BY <2>2, <2>6, <3>3 DEF Badge
    <3> QED BY <3>1, <3>2, <3>3
  <2>10. Leading(c)'
    BY <1>6, <1>7, <2>1, <2>7, LeadingIs
  <2> QED BY <2>1, <2>8, <2>9, <2>10 DEF Told
<1> QED BY <1>13, <1>14

LEMMA ToldAnswered ==
  ASSUME TypeInv, Calm, Undisturbed, [Next]_vars, NEW c \in Cells, Told(c), Answered
  PROVE  Told(c)'
<1>1. Types /\ WireInv /\ ChainInv
  BY DEF TypeInv
<1>2. /\ wire # <<>> /\ wire' = Tail(wire) /\ Head(wire).kind = "answer"
      /\ UNCHANGED <<reqs, iopub, queue, step>>
  BY DEF Answered, process, channels
<1> DEFINE m == Head(wire)
<1>3. Len(wire) \in Nat \ {0} /\ m = wire[1] /\ m.run \in 1 .. Len(reqs) /\ m.ok
  <2>1. Len(wire) \in Nat \ {0} /\ m = wire[1] /\ wire[1] \in Messages
    BY <1>1, <1>2, Heard
  <2>2. m.run \in Ids /\ m.run <= Len(reqs)
    BY <1>1, <1>2, <2>1, Kinds DEF WireInv
  <2>3. m.run \in 1 .. Len(reqs)
    BY <1>1, <2>2, Numbers DEF Types
  <2>4. m.ok
    <3>1. 1 \in 1 .. Len(wire) /\ wire[1].kind = "answer"
      BY <1>2, <2>1
    <3>2. wire[1].ok
      BY <3>1 DEF Calm
    <3> QED BY <2>1, <3>2, Zenon
  <2> QED BY <2>1, <2>3, <2>4
<1>4. st' = st /\ IF reqs[m.run].chained THEN chain' = Tail(chain) ELSE chain' = chain
  <2>1. CASE reqs[m.run].op = "execute"
    <3>1. RunAnswered(m.run, m.ok)
      BY <2>1 DEF Answered
    <3>2. st' = IF m.ok THEN st
                ELSE [x \in Cells |->
                   IF reqs[m.run].chained THEN (IF x \in ToSet(chain) THEN Unqueued(st[x]) ELSE st[x])
                   ELSE IF x = reqs[m.run].cell THEN Unqueued(st[x]) ELSE st[x]]
      BY <3>1 DEF RunAnswered
    <3>3. chain' = IF reqs[m.run].chained THEN (IF m.ok THEN Tail(chain) ELSE <<>>) ELSE chain
      BY <3>1 DEF RunAnswered
    <3>4. st' = st
      BY ONLY <1>3, <3>2
    <3> QED BY <1>3, <3>3, <3>4
  <2>2. CASE reqs[m.run].op # "execute"
    <3>1. AskAnswered(m.run, m.ok)
      BY <2>2 DEF Answered
    <3>2. m.run \notin Runs
      BY <2>2 DEF Runs
    <3>3. ~reqs[m.run].chained
      BY <1>1, <1>3, <3>2 DEF ChainInv
    <3> QED BY <3>1, <3>3 DEF AskAnswered
  <2> QED BY <2>1, <2>2
<1>5. Cardinality(LaterAt(c))' = Cardinality(LaterAt(c))
  <2>1. CASE reqs[m.run].chained
    <3>1. Asked /\ ~Asked' /\ chain # <<>>
      BY <1>2, <2>1, AskedEnds
    <3> QED BY <1>4, <2>1, <3>1, LaterTaken
  <2>2. CASE ~reqs[m.run].chained
    <3>1. Asked' <=> Asked
      BY <1>2, <2>2, AskedStays
    <3> QED BY <1>4, <2>2, <3>1, LaterSame
  <2> QED BY <2>1, <2>2
<1>6. Cardinality(ToldAt(c)) = Cardinality(ToldAt(c))'
  <2>1. /\ Cardinality(ToldAt(c))' \in Nat
        /\ Cardinality(ToldAt(c)) = Cardinality(ToldAt(c))'
             + (IF Head(wire).kind = "event" /\ Busy(Head(wire).event, c) THEN 1 ELSE 0)
    BY <1>2, ToldLess
  <2> QED BY <1>2, <2>1
<1>7. /\ Cardinality(SeenAt(c))' = Cardinality(SeenAt(c)) /\ Cardinality(AheadAt(c))' = Cardinality(AheadAt(c))
      /\ Cardinality(SentOf(c))' = Cardinality(SentOf(c))
  BY <1>2, SeenSame, AheadSame, SentSame
<1>8. Debt(c)' = Debt(c)
  BY <1>5, <1>6, <1>7 DEF Debt
<1>9. Leading(c)'
  <2>1. PICK a \in {st[c].run}, k \in {AtKernel(c)}, y \in RunStates : WirePath(c, a, y) /\ PubPath(c, y, k)
    BY LeadingIs DEF Told
  <2>2. PICK b \in RunStates : Goes(a, WireSign(Head(wire), c), b) /\ WirePath(c, b, y)'
    BY <1>2, <2>1, WireLess
  <2>3. b = a
    BY <1>2, <2>2 DEF WireSign, Goes
  <2>4. PubPath(c, y, k)' /\ k = AtKernel(c)'
    BY <1>2, <2>1, PubSame, KernelSame
  <2> QED BY <1>4, <2>1, <2>2, <2>3, <2>4, LeadingIs
<1> QED BY <1>4, <1>8, <1>9 DEF Told

LEMMA OwedSame ==
  ASSUME TypeInv, [Next]_vars, NEW c, UNCHANGED <<chain, reqs, wire, iopub, queue, step>>
  PROVE  Debt(c)' = Debt(c)
<1>1. Asked' <=> Asked
  BY AskedStays
<1> QED BY <1>1, SeenSame, ToldSame, AheadSame, SentSame, LaterSame DEF Debt

(* What the user does to a cell's state, and its badge.                    *)
LEMMA ToldUser ==
  ASSUME TypeInv, [Next]_vars, NEW c \in Cells, Told(c), CalmUser \/ SendNext
  PROVE  Told(c)'
<1>1. st \in [Cells -> CellStates] /\ st[c] \in CellStates
  BY DEF TypeInv, Types
<1>2. st[c].pending = Debt(c) /\ Leading(c) /\ st[c].state = Badge(st[c])
  BY DEF Told
<1>3. st'[c].pending = Debt(c)'
  BY <1>2, OwedRun, OwedAll, OwedNext, OwedClear DEF CalmUser
<1>4. UNCHANGED <<wire, iopub, queue, step>>
  BY DEF CalmUser, RunCell, RunAll, Clear, SendNext, process, channels
<1>5. st'[c] \in {st[c], Queued(st[c]), Cleared(st[c])}
  <2>1. CASE RunAll \/ \E d \in Cells : RunCell(d)
    BY <2>1 DEF RunAll, RunCell, Mark
  <2>2. ASSUME NEW d \in Cells, Clear(d) PROVE st'[c] \in {st[c], Cleared(st[c])}
    BY <1>1, <2>2 DEF Clear
  <2>3. CASE SendNext
    BY <2>3 DEF SendNext, editor
  <2> QED BY <2>1, <2>2, <2>3 DEF CalmUser
<1>6. st'[c].run = st[c].run /\ st'[c].state = Badge(st'[c])
  <2> DEFINE s == st[c]
  <2>1. s.pending \in Nat /\ s.run \in RunStates /\ s.state = Badge(s)
    BY <1>1, <1>2 DEF CellStates, RunStates
  <2>2. /\ Queued(s).pending = s.pending + 1 /\ Queued(s).run = s.run
        /\ Queued(s).state = IF s.state = "busy" THEN "busy" ELSE "queued"
        /\ Cleared(s).pending = s.pending
        /\ Cleared(s).run = s.run \/ (s.state = "idle" /\ s.pending = 0 /\ Cleared(s).run = "no")
        /\ Cleared(s).state = s.state
    BY <1>1, StateFields
  <2> HIDE DEF s
  <2>3. Queued(s).run = s.run /\ Queued(s).state = Badge(Queued(s))
    BY <2>1, <2>2 DEF Badge, RunStates
  <2>4. Cleared(s).run = s.run /\ Cleared(s).state = Badge(Cleared(s))
    BY <2>1, <2>2 DEF Badge, RunStates
  <2> QED BY <1>5, <2>1, <2>3, <2>4 DEF s
<1>7. Leading(c)'
  <2>1. AtKernel(c)' = AtKernel(c)
    BY <1>4, KernelSame
  <2> QED BY <1>2, <1>4, <1>6, <2>1, LeadingKeeps
<1> QED BY <1>3, <1>6, <1>7 DEF Told

(* The backend and the kernel leave the editor's state alone.              *)
LEMMA ToldPassed ==
  ASSUME TypeInv, TimedInv, Calm, Undisturbed, [Next]_vars, NEW c \in Cells, Told(c),
         CalmTask \/ PumpIopub \/ PumpShell \/ CalmKernel
  PROVE  Told(c)'
<1>1. st' = st
  BY DEF CalmTask, Execute, ClearCell, PumpIopub, PumpShell, CalmKernel, KernelBegins, KernelEnds,
     KernelPrints, editor
<1>2. st[c].pending = Debt(c) /\ Leading(c) /\ st[c].state = Badge(st[c])
  BY DEF Told
<1>3. ASSUME st'[c].pending = Debt(c)', Leading(c)' PROVE Told(c)'
  BY <1>1, <1>2, <1>3 DEF Told
<1>4. ASSUME NEW r \in 1 .. Len(reqs), Execute(r) \/ ClearCell(r) PROVE Told(c)'
  <2>1. st'[c].pending = Debt(c)'
    BY <1>2, <1>4, OwedExecute, OwedClearCell
  <2>2. wire' = Append(wire, Answer(r, TRUE)) /\ iopub' = iopub
    <3>1. (kernel # NoKernel) = TRUE
      BY DEF Undisturbed, NoKernel
    <3>2. wire' = Append(wire, Answer(r, kernel # NoKernel)) \/ wire' = Append(wire, Answer(r, TRUE))
      BY <1>4 DEF Execute, ClearCell, Say
    <3>3. iopub' = iopub
      BY <1>4 DEF Execute, ClearCell, channels
    <3> QED BY <3>1, <3>2, <3>3
  <2>3. AtKernel(c)' = AtKernel(c)
    <3>1. step' = step /\ (queue' = queue \/ queue' = Append(queue, r))
      BY <1>4 DEF Execute, ClearCell, process
    <3>2. step = "runs" => queue # <<>> /\ queue \in Seq(Ids) /\ r \in Ids
      <4>1. r \in Ids
        BY <1>4, Numbers DEF TypeInv, BoundInv, Types
      <4> QED BY <4>1 DEF TypeInv, Types, WireInv
    <3>3. step = "runs" => Head(queue') = Head(queue)
      BY <3>1, <3>2
    <3> QED BY <3>1, <3>3, KernelSame
  <2> DEFINE m == Answer(r, TRUE)
  <2>4. m \in Messages /\ m.kind = "answer" /\ wire' = Append(wire, m)
    <3>1. r \in Ids
      BY <1>4, Numbers DEF TypeInv, BoundInv, Types
    <3> QED BY <2>2, <3>1 DEF Answer, Messages
  <2> HIDE DEF m
  <2>5. WireSign(m, c) \notin {"busy", "input", "idle", "on"}
    BY <2>4 DEF WireSign
  <2>6. Leading(c)'
    BY <1>1, <1>2, <2>2, <2>3, <2>4, <2>5, LeadingPlain
  <2> QED BY <1>3, <2>1, <2>6
<1>5. CASE CalmKernel
  <2>1. st'[c].pending = Debt(c)' /\ Leading(c)'
    BY <1>2, <1>5, OwedKernel, LeadingKernel
  <2> QED BY <1>3, <2>1
<1>6. CASE PumpIopub
  <2>1. /\ iopub # <<>> /\ iopub' = Tail(iopub) /\ Head(iopub).run \in Runs
        /\ UNCHANGED <<chain, reqs, queue, step>>
    BY <1>6, PumpTells
  <2>2. PICK m \in Messages : m.kind = "event" /\ m.event = Head(iopub) /\ wire' = Append(wire, m)
    BY <1>6, PumpTells
  <2>3. /\ Cardinality(SeenAt(c))' \in Nat
        /\ Cardinality(SeenAt(c)) = Cardinality(SeenAt(c))' + (IF Busy(Head(iopub), c) THEN 1 ELSE 0)
    BY <2>1, SeenLess
  <2>4. Cardinality(ToldAt(c))' = Cardinality(ToldAt(c)) + (IF Busy(Head(iopub), c) THEN 1 ELSE 0)
    <3>1. Cardinality(ToldAt(c))'
          = Cardinality(ToldAt(c)) + (IF m.kind = "event" /\ Busy(m.event, c) THEN 1 ELSE 0)
      BY <2>1, <2>2, ToldMore
    <3> QED BY <2>2, <3>1
  <2>5. Asked' <=> Asked
    <3>1. m.kind # "answer"
      BY <2>2
    <3> QED BY <2>1, <2>2, <3>1, AskedStays
  <2>6. /\ Cardinality(AheadAt(c))' = Cardinality(AheadAt(c))
        /\ Cardinality(SentOf(c))' = Cardinality(SentOf(c)) /\ Cardinality(LaterAt(c))' = Cardinality(LaterAt(c))
    BY <2>1, <2>5, AheadSame, SentSame, LaterSame
  <2>7. /\ Cardinality(ToldAt(c)) \in Nat /\ Cardinality(AheadAt(c)) \in Nat
        /\ Cardinality(SentOf(c)) \in Nat /\ Cardinality(LaterAt(c)) \in Nat
    BY DebtCounts
  <2>8. Debt(c)' = Debt(c)
    BY <2>3, <2>4, <2>6, <2>7 DEF Debt
  <2>9. Leading(c)'
    BY <1>2, <1>6, LeadingPumps
  <2> QED BY <1>1, <1>2, <1>3, <2>8, <2>9
<1>7. CASE PumpShell
  <2>1. /\ shell # <<>> /\ Pump(Head(shell)) /\ UNCHANGED <<chain, reqs, iopub, queue, step>>
    BY <1>7 DEF PumpShell, editor, process
  <2> DEFINE e == Head(shell)
             b == back[reqs[e.run].cell]
             m == Note(b, e)
  <2>2. e \in Replies /\ e.run \in Runs
    <3>1. Len(shell) \in Nat \ {0} /\ e = shell[1] /\ e \in Replies
      BY <2>1 DEF TypeInv, WireInv
    <3> QED BY <3>1 DEF TypeInv, Types
  <2>3. m \in Messages /\ m.kind = "event" /\ m.event = e
    <3>1. reqs[e.run] \in Requests
      BY <2>2 DEF TypeInv, Types, Runs
    <3>2. reqs[e.run].cell \in Cells
      BY <3>1 DEF Requests
    <3>3. b \in Backs
      BY <3>2 DEF TypeInv, Types
    <3> QED BY <2>2, <3>3, EventTypes DEF Note
  <2>4. wire' = wire \/ wire' = Append(wire, m)
    BY <2>1 DEF Pump, Say
  <2> HIDE DEF m
  <2>5. AtKernel(c)' = AtKernel(c)
    BY <2>1, KernelSame
  <2>6. CASE wire' = wire
    <3>1. Debt(c)' = Debt(c)
      BY <2>1, <2>6, OwedSame
    <3>2. Leading(c)'
      BY <1>1, <1>2, <2>1, <2>5, <2>6, LeadingKeeps
    <3> QED BY <1>1, <1>2, <1>3, <3>1, <3>2
  <2>7. CASE wire' = Append(wire, m)
    <3>1. m.event.run \in Runs /\ m.event.kind = "reply"
      BY <2>2, <2>3 DEF Replies
    <3>2. WireSign(m, c) \notin {"busy", "input", "idle", "on"}
      BY <2>3, <3>1 DEF WireSign
    <3>3. Leading(c)'
      BY <1>1, <1>2, <2>1, <2>3, <2>5, <2>7, <3>1, <3>2, LeadingPlain
    <3>4. Cardinality(ToldAt(c))' = Cardinality(ToldAt(c))
      <4>1. Cardinality(ToldAt(c))'
            = Cardinality(ToldAt(c)) + (IF m.kind = "event" /\ Busy(m.event, c) THEN 1 ELSE 0)
        BY <2>3, <2>7, <3>1, ToldMore
      <4>2. Cardinality(ToldAt(c)) \in Nat /\ ~Busy(m.event, c)
        BY <3>1, DebtCounts DEF Busy
      <4> QED BY <4>1, <4>2
    <3>5. Asked' <=> Asked
      BY <2>1, <2>3, <2>7, AskedStays
    <3>6. Debt(c)' = Debt(c)
      BY <2>1, <3>4, <3>5, SeenSame, AheadSame, SentSame, LaterSame DEF Debt
    <3> QED BY <1>1, <1>2, <1>3, <3>3, <3>6
  <2> QED BY <2>4, <2>6, <2>7
<1> QED BY <1>4, <1>5, <1>6, <1>7 DEF CalmTask

ToldInv == Undisturbed => \A c \in Cells : Told(c)

LEMMA ToldInit == TypeInv /\ Init => Calm /\ ToldInv
<1> SUFFICES ASSUME TypeInv, Init PROVE Calm /\ ToldInv
  OBVIOUS
<1>1. /\ started /\ Len(wire) = 0 /\ Len(iopub) = 0 /\ Len(queue) = 0 /\ Len(chain) = 0 /\ Len(reqs) = 0
      /\ step = "waits" /\ st = [c \in Cells |-> Fresh] /\ Runs = {}
  <2>1. started
    BY DEF Init
  <2> QED BY <2>1 DEF Init, Runs
<1>2. Calm
  BY <1>1 DEF Calm
<1>3. ASSUME NEW c \in Cells PROVE Told(c)
  <2>1. SeenAt(c) = {} /\ ToldAt(c) = {} /\ AheadAt(c) = {} /\ SentOf(c) = {} /\ LaterAt(c) = {}
    BY <1>1 DEF SeenAt, ToldAt, AheadAt, SentOf, LaterAt
  <2>2. Debt(c) = 0
    BY <2>1, FS_EmptySet DEF Debt
  <2>3. st[c].pending = 0 /\ st[c].run = "no" /\ st[c].state = "idle" /\ AtKernel(c) = "no" /\ "no" \in RunStates
    BY <1>1 DEF Fresh, AtKernel, RunStates
  <2>4. WirePath(c, "no", "no") /\ PubPath(c, "no", "no")
    BY <1>1, <2>3, PathNone DEF WirePath, PubPath
  <2>5. Leading(c)
    BY <2>3, <2>4 DEF Leading
  <2> QED BY <2>2, <2>3, <2>5 DEF Told, Badge
<1> QED BY <1>2, <1>3 DEF ToldInv

LEMMA ToldStep ==
  ASSUME TypeInv, TimedInv, Calm, ToldInv, [Next]_vars
  PROVE  ToldInv'
<1> SUFFICES ASSUME Undisturbed', NEW c \in Cells PROVE Told(c)'
  BY DEF ToldInv
<1>1. Undisturbed /\ (UNCHANGED vars \/ CalmNext)
  BY CalmSteps
<1>2. Told(c)
  BY <1>1 DEF ToldInv
<1>3. CASE UNCHANGED vars
  <2>1. UNCHANGED <<st, chain, reqs, wire, iopub, queue, step>>
    BY <1>3 DEF vars, editor, process, channels
  <2>2. Debt(c)' = Debt(c)
    BY <2>1, OwedSame
  <2>3. AtKernel(c)' = AtKernel(c)
    BY <2>1, KernelSame
  <2>4. Leading(c)'
    BY <1>2, <2>1, <2>3, LeadingKeeps DEF Told
  <2> QED BY <1>2, <2>1, <2>2, <2>4 DEF Told
<1>4. CASE CalmUser \/ SendNext
  BY <1>2, <1>4, ToldUser
<1>5. CASE CellEvent
  BY <1>1, <1>2, <1>5, ToldEvent
<1>6. CASE Answered
  BY <1>1, <1>2, <1>6, ToldAnswered
<1>7. CASE CalmTask \/ PumpIopub \/ PumpShell \/ CalmKernel
  BY <1>1, <1>2, <1>7, ToldPassed
<1> QED BY <1>1, <1>3, <1>4, <1>5, <1>6, <1>7 DEF CalmNext

LEMMA ToldIsTrue ==
  ASSUME TypeInv, ToldInv
  PROVE  BadgesTrue
<1> SUFFICES ASSUME Undisturbed, wire = <<>>, iopub = <<>>, chain = <<>>,
                    \A r \in Runs : reqs[r].at = "done", NEW c \in Cells
             PROVE  st[c].state = IF step = "runs" /\ reqs[Head(queue)].cell = c THEN "busy"
                                  ELSE IF \E i \in 1 .. Len(queue) : reqs[queue[i]].cell = c THEN "queued"
                                  ELSE "idle"
  BY DEF BadgesTrue
<1>1. Told(c)
  BY DEF ToldInv
<1>2. Len(wire) = 0 /\ Len(iopub) = 0 /\ Len(chain) = 0
  OBVIOUS
<1>3. st[c].run = AtKernel(c)
  <2>1. PICK a \in {st[c].run}, k \in {AtKernel(c)}, y \in RunStates : WirePath(c, a, y) /\ PubPath(c, y, k)
    BY <1>1, LeadingIs DEF Told
  <2>2. a \in RunStates
    BY <2>1 DEF TypeInv, Types, CellStates, RunStates
  <2>3. a = y
    BY <1>2, <2>1, <2>2, PathNone DEF WirePath
  <2>4. y = k
    BY <1>2, <2>1, PathNone DEF PubPath
  <2> QED BY <2>1, <2>3, <2>4
<1>4. st[c].pending = Cardinality(AheadAt(c))
  <2>1. SeenAt(c) = {} /\ ToldAt(c) = {} /\ SentOf(c) = {} /\ LaterAt(c) = {}
    BY <1>2 DEF SeenAt, ToldAt, SentOf, LaterAt
  <2>2. Cardinality(SeenAt(c)) = 0 /\ Cardinality(ToldAt(c)) = 0 /\ Cardinality(SentOf(c)) = 0
        /\ Cardinality(LaterAt(c)) = 0
    BY <2>1, FS_EmptySet
  <2>3. Cardinality(AheadAt(c)) \in Nat /\ st[c].pending = Debt(c)
    BY <1>1, DebtCounts DEF Told
  <2> QED BY <2>2, <2>3 DEF Debt
<1>5. Cardinality(AheadAt(c)) \in Nat /\ (Cardinality(AheadAt(c)) = 0 <=> AheadAt(c) = {})
  <2>1. AheadAt(c) \in SUBSET (1 .. Len(queue)) /\ Len(queue) \in Nat
    BY DebtCounts
  <2> QED BY <2>1, PlacesCount
<1>6. CASE step = "runs" /\ reqs[Head(queue)].cell = c
  BY <1>1, <1>3, <1>6 DEF Told, Badge, AtKernel
<1>7. CASE ~(step = "runs" /\ reqs[Head(queue)].cell = c)
  <2>1. st[c].run = "no"
    BY <1>3, <1>7 DEF AtKernel
  <2>2. AheadAt(c) # {} <=> \E i \in 1 .. Len(queue) : reqs[queue[i]].cell = c
    <3>1. queue # <<>> => Head(queue) = queue[1]
      BY DEF TypeInv, Types
    <3>2. step = "runs" => queue # <<>>
      BY DEF TypeInv, WireInv
    <3> QED BY <1>7, <3>1, <3>2 DEF AheadAt, TypeInv, Types
  <2>3. st[c].state = IF st[c].pending > 0 THEN "queued" ELSE "idle"
    BY <1>1, <2>1 DEF Told, Badge
  <2> QED BY <1>4, <1>5, <1>7, <2>2, <2>3
<1> QED BY <1>6, <1>7

(* Once the editor has handled all it was sent, each cell's badge says     *)
(* what the kernel does with it, and the runs have their times: what the   *)
(* counts of mark_queued and take_run come to.                             *)
THEOREM BadgesAreTrue == Spec => []CellInv
<1> DEFINE I == TypeInv /\ TimedInv /\ Calm /\ ToldInv
<1>1. Init => I
  <2>1. Init => TypeInv /\ TimedInv
    BY InitTypes, InitTimed
  <2> QED BY <2>1, ToldInit
<1>2. I /\ [Next]_vars => I'
  BY TypeStep, TimedStep, CalmStep, ToldStep
<1>3. I => CellInv
  <2>1. TypeInv => TypeOK
    BY TypesAre DEF TypeInv
  <2> QED BY <2>1, ToldIsTrue, TimedIs DEF CellInv
<1> QED BY <1>1, <1>2, <1>3, PTL DEF Spec

(* While the notebook's first kernel lives, the editor waits for exactly   *)
(* the runs of a cell that are really on their way: the count that         *)
(* mark_queued, unqueue and take_run keep loses and invents none.          *)
THEOREM PendingIsExact == Spec => [](Undisturbed => \A c \in Cells : st[c].pending = Owed(c))
<1> DEFINE I == TypeInv /\ TimedInv /\ Calm /\ ToldInv
           J == Undisturbed => \A c \in Cells : st[c].pending = Owed(c)
<1>1. Init => I
  <2>1. Init => TypeInv /\ TimedInv
    BY InitTypes, InitTimed
  <2> QED BY <2>1, ToldInit
<1>2. I /\ [Next]_vars => I'
  BY TypeStep, TimedStep, CalmStep, ToldStep
<1>3. I => J
  <2> SUFFICES ASSUME I, Undisturbed, NEW c \in Cells PROVE st[c].pending = Owed(c)
    OBVIOUS
  <2>1. Owed(c) = Debt(c)
    BY OwedIsDebt
  <2> QED BY <2>1 DEF ToldInv, Told
<1> QED BY <1>1, <1>2, <1>3, PTL DEF Spec
-----------------------------------------------------------------------------
(* The cells come to rest: with requests taken in order, one start at a    *)
(* time and no run of a cell before the stop it was on is answered.        *)

Retires(r) == reqs[r].op \in {"stop", "restart"}
StartsOne(r) == reqs[r].op \in {"start", "restart"}
RetireSent == \E r \in 1 .. Len(reqs) : Retires(r) /\ reqs[r].at = "sent"
Old(r) == reqs[r].epoch < epoch

(* The requests are taken in the order they were made; a stop or a restart *)
(* comes between the runs of two epochs, and while a kernel runs cells of  *)
(* before it, it is not taken yet.                                         *)
OrderInv ==
  /\ \A q, r \in 1 .. Len(reqs) : q < r =>
       /\ reqs[q].at = "sent" => reqs[r].at = "sent"
       /\ reqs[q].epoch <= reqs[r].epoch
       /\ Retires(r) => reqs[q].epoch < reqs[r].epoch
  /\ \A r \in 1 .. Len(reqs) : reqs[r].epoch <= epoch
  /\ epoch > 0 => \E r \in 1 .. Len(reqs) : Retires(r) /\ reqs[r].epoch = epoch
  /\ \A r \in Runs : \A q \in 1 .. Len(reqs) :
       reqs[r].kernel = kernel /\ kernel # NoKernel /\ reqs[r].at = "done" /\ r < q /\ Retires(q)
         => reqs[q].at = "sent"

(* A session with no kernel runs nothing; one kernel starts at a time, and *)
(* in an empty place.                                                      *)
StartInv ==
  /\ kernel = NoKernel => queue = <<>> /\ step = "waits" /\ ~dying
  /\ \A q, r \in 1 .. Len(reqs) :
       StartsOne(q) /\ StartsOne(r) /\ reqs[q].at # "done" /\ reqs[r].at # "done" => q = r
  /\ \A r \in 1 .. Len(reqs) : reqs[r].at = "launch" => StartsOne(r)
  /\ \A r \in 1 .. Len(reqs) :
       StartsOne(r) /\ (reqs[r].at = "launch" \/ (reqs[r].op = "start" /\ reqs[r].at = "sent"))
         => kernel = NoKernel

(* How a step may change the requests: the editor makes one, or a task     *)
(* goes on.                                                                *)
Made(q) ==
  /\ q \in Requests /\ reqs' = Append(reqs, q) /\ q.at = "sent" /\ q.epoch = epoch' /\ kernel' = kernel
  /\ epoch' = (IF q.op \in {"stop", "restart"} THEN epoch + 1 ELSE epoch)
  /\ OneStart /\ q.op \in {"start", "restart"} => ~Starting
  /\ OneStart /\ q.op = "start" => kernel = NoKernel

GoesOn(r, a, k) ==
  /\ Becomes(r, a, k) /\ reqs[r].at # "done" /\ epoch' = epoch
  /\ reqs[r].at = "sent" /\ InOrder => \A q \in 1 .. r - 1 : reqs[q].at # "sent"
  /\ \/ kernel' = kernel /\ ~(Retires(r) /\ reqs[r].at = "sent")
     \/ kernel' = NoKernel
     \/ kernel' = r /\ reqs[r].at = "launch" /\ a = "done"
  /\ a = "launch" => StartsOne(r)
  /\ a = "launch" => kernel' = NoKernel \/ (reqs[r].op = "start" /\ reqs[r].at = "sent" /\ kernel' = kernel)

LEMMA RequestSteps ==
  ASSUME TypeInv, [Next]_vars
  PROVE  \/ reqs' = reqs /\ epoch' = epoch /\ kernel' \in {kernel, NoKernel}
         \/ \E q \in Requests : Made(q)
         \/ \E r \in 1 .. Len(reqs), a \in {"launch", "kill", "done"}, k \in -1 .. MaxRequests : GoesOn(r, a, k)
<1>1. Types /\ epoch \in Nat /\ kernel \in -1 .. MaxRequests /\ NoKernel \in -1 .. MaxRequests
  BY Numbers DEF TypeInv, Types
<1> DEFINE Still == reqs' = reqs /\ epoch' = epoch /\ kernel' \in {kernel, NoKernel}
           Asks1 == \E q \in Requests : Made(q)
           Tasks == \E r \in 1 .. Len(reqs), a \in {"launch", "kill", "done"}, k \in -1 .. MaxRequests :
                      GoesOn(r, a, k)
<1>2. ASSUME UNCHANGED vars \/ RunAll \/ CellEvent \/ Answered \/ Exited \/ KernelExited \/ PumpIopub \/ PumpShell
             \/ KernelSteps
      PROVE  Still
  BY <1>2 DEF vars, editor, RunAll, CellEvent, Answered, Exited, KernelExited, PumpIopub, PumpShell,
     KernelSteps, KernelBegins, KernelEnds, KernelDies, KernelPrints
<1>3. ASSUME NEW o \in {"execute", "stop", "restart", "start", "clear"}, NEW c \in Cells, NEW e \in Nat,
             NEW ch \in BOOLEAN, reqs' = Append(reqs, Request(o, c, e, ch)), e = epoch', kernel' = kernel,
             epoch' = (IF o \in {"stop", "restart"} THEN epoch + 1 ELSE epoch),
             OneStart /\ o \in {"start", "restart"} => ~Starting,
             OneStart /\ o = "start" => kernel = NoKernel
      PROVE  Asks1
  <2> DEFINE q == Request(o, c, e, ch)
  <2>1. q \in Requests /\ q.at = "sent" /\ q.epoch = e /\ q.op = o /\ reqs' = Append(reqs, q)
    BY <1>1, <1>3 DEF Request, Requests
  <2> HIDE DEF q
  <2> QED BY <1>3, <2>1 DEF Made
<1>4. AnyCell \in Cells
  BY RunsAssumption DEF AnyCell
<1>5. ASSUME NEW c \in Cells, RunCell(c) PROVE Asks1
  BY <1>1, <1>3, <1>5 DEF RunCell
<1>6. ASSUME NEW c \in Cells, Clear(c) PROVE Asks1
  BY <1>1, <1>3, <1>6 DEF Clear
<1>7. ASSUME SendNext PROVE Asks1
  <2>1. Head(chain) \in Cells /\ reqs' = Append(reqs, Request("execute", Head(chain), epoch, TRUE))
        /\ epoch' = epoch /\ kernel' = kernel
    BY <1>1, <1>7 DEF SendNext, editor, Types
  <2> QED BY <1>1, <1>3, <2>1
<1>8. ASSUME Stop PROVE Asks1
  <2>1. epoch' = epoch + 1 /\ epoch' \in Nat /\ reqs' = Append(reqs, Request("stop", AnyCell, epoch', FALSE))
        /\ kernel' = kernel
    BY <1>1, <1>8 DEF Stop, Retire
  <2> QED BY <1>3, <1>4, <2>1
<1>9. ASSUME Restart PROVE Asks1
  <2>1. epoch' = epoch + 1 /\ epoch' \in Nat /\ reqs' = Append(reqs, Request("restart", AnyCell, epoch', FALSE))
        /\ kernel' = kernel /\ (OneStart => ~Starting)
    BY <1>1, <1>9 DEF Restart, Retire
  <2> QED BY <1>3, <1>4, <2>1
<1>10. ASSUME Start PROVE Asks1
  <2>1. epoch' = epoch /\ reqs' = Append(reqs, Request("start", AnyCell, epoch, FALSE))
        /\ kernel' = kernel /\ (OneStart => ~Starting /\ kernel = NoKernel)
    BY <1>10 DEF Start, editor
  <2> QED BY <1>1, <1>3, <1>4, <2>1
<1>11. ASSUME NEW r \in 1 .. Len(reqs),
              Execute(r) \/ TakeKernel(r) \/ Killed(r) \/ StartKernel(r) \/ Launched(r) \/ ClearCell(r)
       PROVE  Tasks
  <2>1. r \in -1 .. MaxRequests
    BY Numbers DEF TypeInv, BoundInv, Types
  <2>2. CASE Execute(r)
    <3>1. GoesOn(r, "done", kernel)
      BY <2>2 DEF Execute, TakenUp, GoesOn, editor, Retires
    <3> QED BY <1>1, <3>1
  <2>3. CASE TakeKernel(r)
    <3> DEFINE a == IF reqs[r].op = "stop" THEN "kill" ELSE "launch"
    <3>1. a \in {"launch", "kill", "done"} /\ Becomes(r, a, NoKernel)
      BY <2>3 DEF TakeKernel
    <3> HIDE DEF a
    <3>2. GoesOn(r, a, NoKernel)
      <4>1. a = "launch" => StartsOne(r)
        BY <2>3 DEF TakeKernel, TakenUp, StartsOne, a
      <4> QED BY <2>3, <3>1, <4>1 DEF TakeKernel, TakenUp, GoesOn, editor
    <3> QED BY <1>1, <3>1, <3>2
  <2>4. CASE Killed(r)
    <3>1. GoesOn(r, "done", NoKernel)
      BY <2>4 DEF Killed, GoesOn, editor, Retires
    <3> QED BY <1>1, <3>1
  <2>5. CASE StartKernel(r)
    <3>1. GoesOn(r, "launch", NoKernel)
      BY <2>5 DEF StartKernel, TakenUp, GoesOn, editor, Retires, StartsOne
    <3> QED BY <1>1, <3>1
  <2>6. CASE Launched(r)
    <3>1. GoesOn(r, "done", r) \/ GoesOn(r, "done", NoKernel)
      BY <2>6 DEF Launched, GoesOn, editor, Retires
    <3> QED BY <1>1, <2>1, <3>1
  <2>7. CASE ClearCell(r)
    <3>1. GoesOn(r, "done", NoKernel)
      BY <2>7 DEF ClearCell, TakenUp, GoesOn, editor, Retires
    <3> QED BY <1>1, <3>1
  <2> QED BY <1>11, <2>2, <2>3, <2>4, <2>5, <2>6, <2>7
<1> HIDE DEF Still, Asks1, Tasks
<1>12. Still \/ Asks1 \/ Tasks
  BY <1>2, <1>5, <1>6, <1>7, <1>8, <1>9, <1>10, <1>11 DEF Next, User, Editor, Backend
<1> QED BY <1>12 DEF Still, Asks1, Tasks

LEMMA OrderStep ==
  ASSUME InOrder, TypeInv, KernelInv, OrderInv, [Next]_vars
  PROVE  OrderInv'
<1>1. Types /\ reqs \in Seq(Requests) /\ Len(reqs) \in Nat /\ epoch \in Nat /\ kernel \in -1 .. MaxRequests
      /\ (\A r \in 1 .. Len(reqs) : reqs[r] \in Requests /\ reqs[r].epoch \in Nat) /\ NoKernel = -1
  <2>1. reqs \in Seq(Requests)
    BY DEF TypeInv, Types
  <2>2. \A r \in 1 .. Len(reqs) : reqs[r] \in Requests
    BY <2>1
  <2>3. \A r \in 1 .. Len(reqs) : reqs[r].epoch \in Nat
    BY <2>2 DEF Requests
  <2> QED BY <2>1, <2>2, <2>3, Numbers DEF TypeInv, Types
<1>2. CASE reqs' = reqs /\ epoch' = epoch /\ kernel' \in {kernel, NoKernel}
  BY <1>2 DEF OrderInv, Retires, Runs
<1>3. ASSUME NEW p \in Requests, Made(p) PROVE OrderInv'
  <2> DEFINE n == Len(reqs) + 1
  <2>1. /\ Len(reqs') = n /\ (\A r \in 1 .. Len(reqs) : reqs'[r] = reqs[r]) /\ reqs'[n] = p
        /\ \A r \in 1 .. Len(reqs) : r \in Runs' <=> r \in Runs
    BY <1>1, <1>3, RequestMade DEF Made
  <2>2. /\ p.at = "sent" /\ p.epoch = epoch' /\ kernel' = kernel /\ epoch <= epoch' /\ epoch' \in Nat
        /\ epoch' = (IF p.op \in {"stop", "restart"} THEN epoch + 1 ELSE epoch)
    BY <1>1, <1>3 DEF Made
  <2>3. n \in Nat /\ n = Len(reqs) + 1 /\ \A r \in 1 .. n : r \in 1 .. Len(reqs) \/ r = n
    BY <1>1
  <2> HIDE DEF n
  <2>4. \A q, r \in 1 .. Len(reqs') : q < r => q \in 1 .. Len(reqs) /\ (r \in 1 .. Len(reqs) \/ r = n)
    BY <1>1, <2>1, <2>3
  <2>5. ASSUME NEW q \in 1 .. Len(reqs'), NEW r \in 1 .. Len(reqs'), q < r
        PROVE  /\ reqs'[q].at = "sent" => reqs'[r].at = "sent"
               /\ reqs'[q].epoch <= reqs'[r].epoch
               /\ reqs'[r].op \in {"stop", "restart"} => reqs'[q].epoch < reqs'[r].epoch
    <3>1. q \in 1 .. Len(reqs) /\ reqs'[q] = reqs[q] /\ reqs[q].epoch \in Nat /\ reqs[q].epoch <= epoch
      BY <1>1, <2>1, <2>4, <2>5 DEF OrderInv
    <3>2. CASE r = n
      BY <1>1, <2>1, <2>2, <3>1, <3>2
    <3>3. CASE r \in 1 .. Len(reqs)
      BY <2>1, <2>5, <3>1, <3>3 DEF OrderInv, Retires
    <3> QED BY <2>4, <2>5, <3>2, <3>3
  <2>6. \A r \in 1 .. Len(reqs') : reqs'[r].epoch <= epoch'
    <3> TAKE r \in 1 .. Len(reqs')
    <3>1. CASE r = n
      BY <2>1, <2>2, <3>1
    <3>2. CASE r \in 1 .. Len(reqs)
      BY <1>1, <2>1, <2>2, <3>2 DEF OrderInv
    <3> QED BY <2>1, <2>3, <3>1, <3>2
  <2>7. epoch' > 0 => \E r \in 1 .. Len(reqs') : reqs'[r].op \in {"stop", "restart"} /\ reqs'[r].epoch = epoch'
    <3>1. CASE p.op \in {"stop", "restart"}
      <4>1. n \in 1 .. Len(reqs')
        BY <1>1, <2>1, <2>3
      <4> QED BY <2>1, <2>2, <3>1, <4>1
    <3>2. CASE p.op \notin {"stop", "restart"}
      <4>1. epoch > 0 => \E r \in 1 .. Len(reqs) : Retires(r) /\ reqs[r].epoch = epoch
        BY DEF OrderInv
      <4>2. 1 .. Len(reqs) \subseteq 1 .. Len(reqs')
        BY <1>1, <2>1, <2>3
      <4> QED BY <2>1, <2>2, <3>2, <4>1, <4>2 DEF Retires
    <3> QED BY <3>1, <3>2
  <2>8. ASSUME NEW r \in Runs', NEW q \in 1 .. Len(reqs'), reqs'[r].kernel = kernel', kernel' # NoKernel,
               reqs'[r].at = "done", r < q, reqs'[q].op \in {"stop", "restart"}
        PROVE  reqs'[q].at = "sent"
    <3>1. r \in 1 .. Len(reqs) /\ r \in Runs
      BY <2>1, <2>4, <2>8 DEF Runs
    <3>2. CASE q = n
      BY <2>1, <2>2, <3>2
    <3>3. CASE q \in 1 .. Len(reqs)
      BY <2>1, <2>2, <2>8, <3>1, <3>3 DEF OrderInv, Retires
    <3> QED BY <2>1, <2>3, <3>2, <3>3
  <2> QED BY <2>5, <2>6, <2>7, <2>8 DEF OrderInv, Retires
<1>4. ASSUME NEW x \in 1 .. Len(reqs), NEW a \in {"launch", "kill", "done"}, NEW k \in -1 .. MaxRequests, GoesOn(x, a, k)
      PROVE  OrderInv'
  <2>1. /\ Len(reqs') = Len(reqs) /\ (\A q \in 1 .. Len(reqs) : q # x => reqs'[q] = reqs[q])
        /\ \A q \in 1 .. Len(reqs) : reqs'[q].op = reqs[q].op /\ reqs'[q].epoch = reqs[q].epoch
        /\ reqs'[x].at = a /\ Runs' = Runs
    BY <1>1, <1>4, RequestBecomes DEF GoesOn
  <2>2. epoch' = epoch /\ reqs[x].at # "done" /\ (reqs[x].at = "sent" => \A q \in 1 .. x - 1 : reqs[q].at # "sent")
        /\ a # "sent"
    BY <1>4 DEF GoesOn
  <2>3. ASSUME NEW q \in 1 .. Len(reqs), NEW r \in 1 .. Len(reqs), q < r, reqs'[q].at = "sent"
        PROVE  reqs'[r].at = "sent"
    <3>1. q # x /\ reqs[q].at = "sent"
      BY <2>1, <2>2, <2>3
    <3>2. reqs[r].at = "sent"
      BY <2>3, <3>1 DEF OrderInv
    <3>3. r # x
      <4>1. ASSUME r = x PROVE q \in 1 .. x - 1
        BY <1>1, <2>3, <4>1
      <4> QED BY <2>2, <3>1, <3>2, <4>1
    <3> QED BY <2>1, <3>2, <3>3
  <2>4. ASSUME NEW r \in Runs, NEW q \in 1 .. Len(reqs), reqs'[r].kernel = kernel', kernel' # NoKernel,
               reqs'[r].at = "done", r < q, Retires(q)
        PROVE  reqs'[q].at = "sent"
    <3>1. r \in 1 .. Len(reqs) /\ reqs[r].at \in {"sent", "done"}
      BY DEF Runs, TypeInv, ChainInv
    <3>2. kernel' = kernel
      <4>1. ASSUME kernel' = x, reqs[x].at = "launch" PROVE FALSE
        <5>1. r # x
          BY <3>1, <4>1
        <5>2. Ran(r) /\ reqs[r].kernel = x
          BY <1>1, <2>1, <2>4, <3>1, <4>1, <5>1 DEF Ran
        <5> QED BY <1>1, <4>1, <5>2 DEF KernelInv, Starter
      <4> QED BY <1>4, <2>4, <4>1 DEF GoesOn
    <3>3. reqs[q].at = "sent"
      <4>1. CASE r = x
        <5>1. reqs[x].at = "sent"
          BY <2>2, <3>1, <4>1
        <5> QED BY <2>4, <4>1, <5>1 DEF OrderInv
      <4>2. CASE r # x
        <5>1. reqs'[r] = reqs[r]
          BY <2>1, <3>1, <4>2
        <5> QED BY <2>4, <3>2, <5>1 DEF OrderInv
      <4> QED BY <4>1, <4>2
    <3>4. q # x
      <4>1. ASSUME q = x PROVE kernel' # kernel
        <5>1. Retires(x) /\ reqs[x].at = "sent"
          BY <2>4, <3>3, <4>1
        <5> QED BY <1>4, <2>4, <3>3, <4>1, <5>1 DEF GoesOn
      <4> QED BY <3>2, <4>1
    <3> QED BY <2>1, <3>3, <3>4
  <2> QED BY <2>1, <2>2, <2>3, <2>4 DEF OrderInv, Retires
<1> QED BY <1>2, <1>3, <1>4, RequestSteps

LEMMA StartStep ==
  ASSUME OneStart, TypeInv, StartInv, [Next]_vars
  PROVE  StartInv'
<1>1. Types /\ reqs \in Seq(Requests) /\ Len(reqs) \in Nat /\ NoKernel = -1
  BY Numbers DEF TypeInv, Types
<1>2. kernel' = NoKernel => queue' = <<>> /\ step' = "waits" /\ ~dying'
  <2>1. kernel = NoKernel => queue = <<>> /\ step = "waits" /\ ~dying
    BY DEF StartInv
  <2>2. CASE UNCHANGED vars \/ User \/ Editor
    BY <2>1, <2>2 DEF vars, process, User, RunCell, Clear, RunAll, Stop, Restart, Start, Editor, SendNext,
       CellEvent, Answered, Exited
  <2>3. CASE KernelSteps
    BY <2>3 DEF KernelSteps, KernelBegins, KernelEnds, KernelDies, KernelPrints, MayPublish, Up
  <2>4. CASE KernelExited \/ PumpIopub \/ PumpShell
    BY <2>1, <2>4 DEF KernelExited, Gone, PumpIopub, PumpShell, process
  <2>5. ASSUME NEW r \in 1 .. Len(reqs),
               Execute(r) \/ TakeKernel(r) \/ Killed(r) \/ StartKernel(r) \/ Launched(r) \/ ClearCell(r)
        PROVE  <1>2
    <3>1. CASE Launched(r)
      <4>1. kernel' = r \/ UNCHANGED <<kernel, dying, queue, step>>
        BY <3>1, Zenon DEF Launched
      <4>3. kernel' = r => kernel' # NoKernel
        BY <1>1
      <4>2. CASE UNCHANGED <<kernel, dying, queue, step>>
        BY <2>1, <4>2, Zenon
      <4> QED BY <4>1, <4>2, <4>3
    <3>2. CASE ~Launched(r)
      BY <2>1, <2>5, <3>2 DEF Execute, TakeKernel, Gone, Killed, StartKernel, ClearCell, process
    <3> QED BY <3>1, <3>2
  <2> QED BY <2>2, <2>3, <2>4, <2>5 DEF Next, Backend
<1>3. CASE reqs' = reqs /\ epoch' = epoch /\ kernel' \in {kernel, NoKernel}
  BY <1>2, <1>3 DEF StartInv, StartsOne
<1>4. ASSUME NEW p \in Requests, Made(p) PROVE StartInv'
  <2> DEFINE n == Len(reqs) + 1
  <2>1. /\ Len(reqs') = n /\ (\A r \in 1 .. Len(reqs) : reqs'[r] = reqs[r]) /\ reqs'[n] = p
    BY <1>1, <1>4, RequestMade DEF Made
  <2>2. /\ p.at = "sent" /\ kernel' = kernel
        /\ p.op \in {"start", "restart"} => \A r \in 1 .. Len(reqs) : ~(StartsOne(r) /\ reqs[r].at # "done")
        /\ p.op = "start" => kernel = NoKernel
    BY <1>4 DEF Made, Starting, StartsOne
  <2>3. n = Len(reqs) + 1 /\ \A r \in 1 .. n : r \in 1 .. Len(reqs) \/ r = n
    BY <1>1
  <2> HIDE DEF n
  <2>4. ASSUME NEW q \in 1 .. Len(reqs'), NEW r \in 1 .. Len(reqs'),
               reqs'[q].op \in {"start", "restart"}, reqs'[r].op \in {"start", "restart"},
               reqs'[q].at # "done", reqs'[r].at # "done"
        PROVE  q = r
    <3>1. q \in 1 .. Len(reqs) => reqs'[q] = reqs[q]
      BY <2>1
    <3>2. r \in 1 .. Len(reqs) => reqs'[r] = reqs[r]
      BY <2>1
    <3> QED BY <2>1, <2>2, <2>3, <2>4, <3>1, <3>2 DEF StartInv, StartsOne
  <2>5. ASSUME NEW r \in 1 .. Len(reqs'), reqs'[r].op \in {"start", "restart"},
               reqs'[r].at = "launch" \/ (reqs'[r].op = "start" /\ reqs'[r].at = "sent")
        PROVE  kernel' = NoKernel
    BY <2>1, <2>2, <2>3, <2>5 DEF StartInv, StartsOne
  <2>6. ASSUME NEW r \in 1 .. Len(reqs'), reqs'[r].at = "launch" PROVE reqs'[r].op \in {"start", "restart"}
    BY <2>1, <2>2, <2>3, <2>6 DEF StartInv, StartsOne
  <2> QED BY <1>2, <2>4, <2>5, <2>6 DEF StartInv, StartsOne
<1>5. ASSUME NEW x \in 1 .. Len(reqs), NEW a \in {"launch", "kill", "done"}, NEW k \in -1 .. MaxRequests, GoesOn(x, a, k)
      PROVE  StartInv'
  <2>1. /\ Len(reqs') = Len(reqs) /\ (\A q \in 1 .. Len(reqs) : q # x => reqs'[q] = reqs[q])
        /\ \A q \in 1 .. Len(reqs) : reqs'[q].op = reqs[q].op
        /\ reqs'[x].at = a
    BY <1>1, <1>5, RequestBecomes DEF GoesOn
  <2>2. \A q \in 1 .. Len(reqs) : reqs'[q].at # "done" => reqs[q].at # "done"
    <3> TAKE q \in 1 .. Len(reqs)
    <3>1. q # x => reqs'[q] = reqs[q]
      BY <2>1
    <3>2. reqs[x].at # "done"
      BY <1>5 DEF GoesOn
    <3> QED BY <3>1, <3>2
  <2>3. ASSUME NEW r \in 1 .. Len(reqs), StartsOne(r),
               reqs'[r].at = "launch" \/ (reqs[r].op = "start" /\ reqs'[r].at = "sent")
        PROVE  kernel' = NoKernel
    <3>1. CASE r = x
      <4>1. a = "launch"
        BY <2>1, <2>3, <3>1
      <4>2. kernel' = NoKernel \/ (reqs[x].op = "start" /\ reqs[x].at = "sent" /\ kernel' = kernel)
        BY <1>5, <4>1 DEF GoesOn
      <4> QED BY <2>3, <3>1, <4>2 DEF StartInv
    <3>2. CASE r # x
      <4>1. reqs'[r] = reqs[r]
        BY <2>1, <3>2
      <4>2. kernel = NoKernel
        BY <2>3, <4>1 DEF StartInv
      <4>3. ~(kernel' = x /\ reqs[x].at = "launch" /\ a = "done")
        <5> SUFFICES ASSUME kernel' = x, reqs[x].at = "launch" PROVE FALSE
          OBVIOUS
        <5>1. ~StartsOne(x) /\ StartsOne(x)
          <6>1. reqs[r].at # "done" /\ reqs[x].at # "done"
            BY <2>3, <4>1
          <6> QED BY <2>3, <3>2, <6>1 DEF StartInv
        <5> QED BY <5>1
      <4> QED BY <1>5, <4>2, <4>3 DEF GoesOn
    <3> QED BY <3>1, <3>2
  <2>4. ASSUME NEW r \in 1 .. Len(reqs), reqs'[r].at = "launch" PROVE StartsOne(r)
    <3>1. CASE r = x
      BY <1>5, <2>1, <2>4, <3>1 DEF GoesOn
    <3>2. CASE r # x
      BY <2>1, <2>4, <3>2 DEF StartInv
    <3> QED BY <3>1, <3>2
  <2> QED BY <1>2, <2>1, <2>2, <2>3, <2>4 DEF StartInv, StartsOne
<1> QED BY <1>3, <1>4, <1>5, RequestSteps

(* What the wire carries of the kernel is of runs it was sent.             *)
ReplyInv == \A i \in 1 .. Len(shell) : Ran(shell[i].run)

LEMMA ReplyStep ==
  ASSUME TypeInv, TimedInv, ReplyInv, [Next]_vars
  PROVE  ReplyInv'
<1>1. Types /\ WireInv /\ shell \in Seq(Replies) /\ Len(shell) \in Nat
  BY DEF TypeInv, WireInv
<1>2. \A r : Ran(r) => Ran(r)'
  BY DoneStays
<1>3. CASE shell' = shell
  BY <1>2, <1>3 DEF ReplyInv
<1>4. CASE shell # <<>> /\ shell' = Tail(shell)
  <2>1. \A i \in 1 .. Len(shell') : shell'[i] = shell[i + 1] /\ i + 1 \in 1 .. Len(shell)
    BY <1>1, <1>4
  <2> QED BY <1>2, <2>1 DEF ReplyInv
<1>5. ASSUME NEW v, queue # <<>>, shell' = Append(shell, Reply(Head(queue), v)) PROVE ReplyInv'
  <2> DEFINE m == Reply(Head(queue), v)
  <2>1. m.run = Head(queue) /\ shell' = Append(shell, m)
    BY <1>5 DEF Reply
  <2> HIDE DEF m
  <2>2. Ran(Head(queue))
    <3>1. 1 \in 1 .. Len(queue) /\ Head(queue) = queue[1]
      <4>1. queue \in Seq(Ids)
        BY <1>1 DEF Types
      <4> QED BY <1>5, <4>1
    <3> QED BY <3>1 DEF TimedInv, KernelInv
  <2>3. \A i \in 1 .. Len(shell') : (i \in 1 .. Len(shell) /\ shell'[i] = shell[i]) \/ shell'[i] = m
    BY <1>1, <2>1
  <2>4. \A i \in 1 .. Len(shell') : Ran(shell'[i].run)
    BY <2>1, <2>2, <2>3 DEF ReplyInv
  <2> QED BY <1>2, <2>4 DEF ReplyInv
<1>6. CASE KernelSteps
  BY <1>3, <1>5, <1>6
     DEF KernelSteps, KernelBegins, KernelEnds, KernelDies, KernelPrints, channels, MayPublish, TypeInv, WireInv
<1>7. CASE UNCHANGED vars \/ User \/ Editor
  BY <1>3, <1>7 DEF vars, channels, User, RunCell, Clear, RunAll, Stop, Restart, Start, Editor, SendNext,
     CellEvent, Answered, Exited
<1>8. CASE Backend
  BY <1>3, <1>4, <1>8 DEF Backend, Execute, TakeKernel, Killed, StartKernel, Launched, ClearCell,
     KernelExited, PumpIopub, PumpShell, channels
<1> QED BY <1>6, <1>7, <1>8 DEF Next

LEMMA PumpSays ==
  ASSUME TypeInv, NEW e \in Events \cup Replies, e.run \in Runs, Pump(e)
  PROVE  \/ wire' = wire /\ reqs[e.run].kernel # kernel
         \/ /\ reqs[e.run].kernel = kernel
            /\ \E m \in Messages : wire' = Append(wire, m) /\ m.kind = "event" /\ m.event = e
<1> DEFINE c == reqs[e.run].cell
<1>1. c \in Cells
  <2>1. reqs \in Seq(Requests) /\ e.run \in 1 .. Len(reqs)
    BY DEF TypeInv, Types, Runs
  <2>2. reqs[e.run] \in Requests
    BY <2>1
  <2> QED BY <2>2 DEF Requests
<1>2. back[c] \in Backs
  BY <1>1 DEF TypeInv, Types
<1> DEFINE m == Note(back[c], e)
<1>3. m \in Messages /\ m.kind = "event" /\ m.event = e
  BY <1>2, EventTypes DEF Note
<1> HIDE DEF m
<1>4. IF Current(reqs[e.run].kernel) THEN wire' = Append(wire, m) ELSE wire' = wire
  BY DEF Pump, Say, m
<1> QED BY <1>3, <1>4 DEF Current

(* How a step may change the wire.                                         *)
LEMMA WireSteps ==
  ASSUME TypeInv, TimedInv, ReplyInv, [Next]_vars
  PROVE  \/ wire' = wire
         \/ /\ \E m \in Messages : wire' = Append(wire, m) /\ m.kind = "exited"
            /\ reqs' = reqs
         \/ /\ \E m \in Messages : /\ wire' = Append(wire, m) /\ m.kind = "event"
                                   /\ Ran(m.event.run) /\ reqs[m.event.run].kernel = kernel
            /\ UNCHANGED <<editor, reqs, kernel>>
         \/ /\ \E m \in Messages : /\ wire' = Append(wire, m) /\ m.kind = "answer"
                                   /\ m.run \in 1 .. Len(reqs) /\ reqs[m.run].at # "done"
                                   /\ reqs'[m.run].at = "done"
            /\ UNCHANGED editor
         \/ /\ wire # <<>> /\ wire' = Tail(wire) /\ reqs' = reqs /\ epoch' = epoch
<1>1. Types /\ WireInv
  BY DEF TypeInv
<1>2. CASE UNCHANGED vars \/ User \/ SendNext \/ KernelSteps
  BY <1>2 DEF vars, User, RunCell, Clear, RunAll, Stop, Restart, Start, SendNext,
     KernelSteps, KernelBegins, KernelEnds, KernelDies, KernelPrints
<1>3. CASE CellEvent \/ Answered \/ Exited
  BY <1>3 DEF CellEvent, Answered, Exited
<1>4. CASE KernelExited
  <2>1. [kind |-> "exited"] \in Messages
    BY DEF Messages
  <2> QED BY <1>4, <2>1 DEF KernelExited, Say
<1>5. CASE PumpIopub
  <2>1. iopub # <<>> /\ Pump(Head(iopub)) /\ UNCHANGED <<editor, reqs, kernel>>
    BY <1>5 DEF PumpIopub
  <2>2. 1 \in 1 .. Len(iopub) /\ Head(iopub) = iopub[1] /\ Head(iopub) \in Events
    BY <1>1, <2>1 DEF WireInv
  <2>3. Head(iopub).run \in Runs /\ Ran(Head(iopub).run)
    BY <1>1, <2>2 DEF Types, TimedInv, Unread
  <2> QED BY <2>1, <2>2, <2>3, PumpSays
<1>6. CASE PumpShell
  <2>1. shell # <<>> /\ Pump(Head(shell)) /\ UNCHANGED <<editor, reqs, kernel>>
    BY <1>6 DEF PumpShell
  <2>2. 1 \in 1 .. Len(shell) /\ Head(shell) = shell[1] /\ Head(shell) \in Replies
    BY <1>1, <2>1 DEF WireInv
  <2>3. Head(shell).run \in Runs /\ Ran(Head(shell).run)
    BY <1>1, <2>2 DEF Types, ReplyInv
  <2> QED BY <2>1, <2>2, <2>3, PumpSays
<1>7. ASSUME NEW r \in 1 .. Len(reqs),
             Execute(r) \/ TakeKernel(r) \/ Killed(r) \/ StartKernel(r) \/ Launched(r) \/ ClearCell(r),
             wire' # wire
      PROVE  \E ok \in BOOLEAN, k \in -1 .. MaxRequests :
                wire' = Append(wire, Answer(r, ok)) /\ Becomes(r, "done", k) /\ reqs[r].at # "done"
                /\ UNCHANGED editor
  <2>1. r \in -1 .. MaxRequests /\ NoKernel \in -1 .. MaxRequests /\ kernel \in -1 .. MaxRequests
    BY <1>1, Numbers DEF TypeInv, BoundInv, Types
  <2>2. ~TakeKernel(r) /\ ~StartKernel(r)
    BY <1>7 DEF TakeKernel, StartKernel
  <2>3. CASE Execute(r)
    <3>1. (kernel # NoKernel) \in BOOLEAN
      OBVIOUS
    <3> QED BY <2>1, <2>3, <3>1 DEF Execute, TakenUp, Say
  <2>4. CASE Killed(r)
    BY <2>1, <2>4 DEF Killed, Say
  <2>5. CASE Launched(r)
    BY <2>1, <2>5 DEF Launched, Say
  <2>6. CASE ClearCell(r)
    BY <2>1, <2>6 DEF ClearCell, TakenUp, Say
  <2> QED BY <1>7, <2>2, <2>3, <2>4, <2>5, <2>6
<1>8. ASSUME NEW r \in 1 .. Len(reqs), NEW ok \in BOOLEAN, NEW k \in -1 .. MaxRequests,
             wire' = Append(wire, Answer(r, ok)), Becomes(r, "done", k), reqs[r].at # "done", UNCHANGED editor
      PROVE  \E m \in Messages : /\ wire' = Append(wire, m) /\ m.kind = "answer"
                                 /\ m.run \in 1 .. Len(reqs) /\ reqs[m.run].at # "done"
                                 /\ reqs'[m.run].at = "done"
  <2>1. r \in Ids
    BY <1>1, Numbers DEF TypeInv, BoundInv, Types
  <2> DEFINE m == Answer(r, ok)
  <2>2. m \in Messages /\ m.kind = "answer" /\ m.run = r /\ wire' = Append(wire, m)
    BY <1>8, <2>1 DEF Answer, Messages
  <2> HIDE DEF m
  <2>3. reqs'[r].at = "done"
    BY <1>1, <1>8, RequestBecomes
  <2> QED BY <1>8, <2>2, <2>3
<1>9. ASSUME NEW r \in 1 .. Len(reqs),
             Execute(r) \/ TakeKernel(r) \/ Killed(r) \/ StartKernel(r) \/ Launched(r) \/ ClearCell(r),
             wire' # wire
      PROVE  /\ \E m \in Messages : /\ wire' = Append(wire, m) /\ m.kind = "answer"
                                    /\ m.run \in 1 .. Len(reqs) /\ reqs[m.run].at # "done"
                                    /\ reqs'[m.run].at = "done"
             /\ UNCHANGED editor
  BY <1>7, <1>8, <1>9
<1> QED BY <1>2, <1>3, <1>4, <1>5, <1>6, <1>9 DEF Next, Editor, Backend

(* The request of a "run all" that is under way, up to its answer, is of   *)
(* the head of the chain, whose cells are all different.                   *)
AnswerOn(r) == \E i \in 1 .. Len(wire) : wire[i].kind = "answer" /\ wire[i].run = r
UnderWay(r) == reqs[r].at # "done" \/ AnswerOn(r)
HeadInv ==
  /\ \A i, j \in 1 .. Len(chain) : chain[i] = chain[j] => i = j
  /\ \A r \in 1 .. Len(reqs) : reqs[r].chained /\ UnderWay(r) => reqs[r].cell = Head(chain)

(* An answer on the wire is of a request that was made.                    *)
LEMMA AnswerOf ==
  ASSUME TypeInv, NEW i \in 1 .. Len(wire), wire[i].kind = "answer"
  PROVE  wire[i].run \in 1 .. Len(reqs) /\ reqs[wire[i].run].at = "done" /\ wire[i].ok \in BOOLEAN
<1>0. WireInv /\ wire \in Seq(Messages) /\ Len(reqs) \in Nat
  BY DEF TypeInv, Types, WireInv
<1>1. wire[i] \in Messages
  BY <1>0
<1>2. wire[i].run \in Ids /\ wire[i].ok \in BOOLEAN
  BY <1>1, Kinds
<1>3. wire[i].run <= Len(reqs) /\ reqs[wire[i].run].at = "done"
  BY <1>0 DEF WireInv
<1> QED BY <1>0, <1>2, <1>3, Numbers

(* A request stays what it is, and what is over stays over.                *)
LEMMA RequestsKeep ==
  ASSUME TypeInv, [Next]_vars, NEW r \in 1 .. Len(reqs)
  PROVE  /\ r \in 1 .. Len(reqs')
         /\ reqs'[r].cell = reqs[r].cell /\ reqs'[r].op = reqs[r].op
         /\ reqs'[r].epoch = reqs[r].epoch /\ reqs'[r].chained = reqs[r].chained
         /\ reqs[r].at = "done" => reqs'[r] = reqs[r]
         /\ reqs'[r].at = "sent" => reqs[r].at = "sent"
<1>1. Types /\ Len(reqs) \in Nat
  BY DEF TypeInv, Types
<1> DEFINE Kept == /\ r \in 1 .. Len(reqs')
                   /\ reqs'[r].cell = reqs[r].cell /\ reqs'[r].op = reqs[r].op
                   /\ reqs'[r].epoch = reqs[r].epoch /\ reqs'[r].chained = reqs[r].chained
                   /\ reqs[r].at = "done" => reqs'[r] = reqs[r]
                   /\ reqs'[r].at = "sent" => reqs[r].at = "sent"
<1>2. ASSUME reqs' = reqs PROVE Kept
  BY <1>2
<1>3. ASSUME NEW p \in Requests, Made(p) PROVE Kept
  <2>1. Len(reqs') = Len(reqs) + 1 /\ reqs'[r] = reqs[r]
    BY <1>1, <1>3, RequestMade DEF Made
  <2>2. r \in 1 .. Len(reqs')
    BY <1>1, <2>1
  <2> QED BY <2>1, <2>2
<1>4. ASSUME NEW x \in 1 .. Len(reqs), NEW a \in {"launch", "kill", "done"}, NEW k \in -1 .. MaxRequests, GoesOn(x, a, k)
      PROVE  Kept
  <2>1. /\ Len(reqs') = Len(reqs) /\ (r # x => reqs'[r] = reqs[r])
        /\ reqs'[r].op = reqs[r].op /\ reqs'[r].cell = reqs[r].cell
        /\ reqs'[r].epoch = reqs[r].epoch /\ reqs'[r].chained = reqs[r].chained
        /\ (r = x => reqs'[r].at = a)
    BY <1>1, <1>4, RequestBecomes DEF GoesOn
  <2>2. reqs[x].at # "done"
    BY <1>4 DEF GoesOn
  <2> QED BY <2>1, <2>2
<1> QED BY <1>2, <1>3, <1>4, RequestSteps

(* A request that was made and is no longer under way stays so.            *)
LEMMA WayEnds ==
  ASSUME TypeInv, TimedInv, ReplyInv, [Next]_vars, NEW r \in 1 .. Len(reqs), UnderWay(r)'
  PROVE  UnderWay(r) /\ r \in 1 .. Len(reqs')
         /\ reqs'[r].cell = reqs[r].cell /\ reqs'[r].op = reqs[r].op
         /\ reqs'[r].epoch = reqs[r].epoch /\ reqs'[r].chained = reqs[r].chained
<1>1. Types /\ WireInv /\ Len(reqs) \in Nat /\ wire \in Seq(Messages)
  <2>1. Types /\ WireInv
    BY DEF TypeInv
  <2>2. reqs \in Seq(Requests) /\ epoch \in Nat
    BY <2>1 DEF Types
  <2>3. wire \in Seq(Messages)
    BY <2>1 DEF WireInv
  <2>4. Len(reqs) \in Nat /\ Len(wire) \in Nat
    BY <2>2, <2>3
  <2> QED BY <2>1, <2>2, <2>3, <2>4
<1>2. /\ r \in 1 .. Len(reqs')
      /\ reqs'[r].cell = reqs[r].cell /\ reqs'[r].op = reqs[r].op
      /\ reqs'[r].epoch = reqs[r].epoch /\ reqs'[r].chained = reqs[r].chained
      /\ reqs[r].at = "done" => reqs'[r].at = "done"
  BY RequestsKeep
<1>3. ASSUME reqs[r].at = "done" PROVE AnswerOn(r)
  <2>1. PICK i \in 1 .. Len(wire') : wire'[i].kind = "answer" /\ wire'[i].run = r
    BY <1>2, <1>3 DEF UnderWay, AnswerOn
  <2>2. CASE wire' = wire
    BY <2>1, <2>2 DEF AnswerOn
  <2>3. ASSUME NEW m \in Messages, wire' = Append(wire, m), ~(m.kind = "answer" /\ m.run = r) PROVE AnswerOn(r)
    <3>1. /\ Len(wire) \in Nat /\ wire'[Len(wire) + 1] = m
          /\ \A j \in 1 .. Len(wire) : wire'[j] = wire[j]
          /\ i \in 1 .. Len(wire) \/ i = Len(wire) + 1
      BY <1>1, <2>1, <2>3, Said
    <3> QED BY <2>1, <2>3, <3>1 DEF AnswerOn
  <2>4. CASE wire # <<>> /\ wire' = Tail(wire)
    <3>1. wire'[i] = wire[i + 1] /\ i + 1 \in 1 .. Len(wire)
      BY <1>1, <2>1, <2>4, Heard
    <3> QED BY <2>1, <3>1 DEF AnswerOn
  <2>5. ASSUME NEW m \in Messages, wire' = Append(wire, m), m.kind # "answer" \/ reqs[m.run].at # "done"
        PROVE  AnswerOn(r)
    BY <1>3, <2>3, <2>5
  <2> QED BY <2>2, <2>4, <2>5, WireSteps
<1> QED BY <1>2, <1>3 DEF UnderWay

LEMMA WayAsks ==
  ASSUME TypeInv, NEW r \in 1 .. Len(reqs), reqs[r].chained, UnderWay(r)
  PROVE  Asked
<1>1. r \in Runs
  BY DEF TypeInv, ChainInv
<1> QED BY <1>1 DEF UnderWay, AnswerOn, Asked, ChainWaits, AnswerComes

(* How a step may change the chain.                                        *)
LEMMA ChainSteps ==
  ASSUME TypeInv, [Next]_vars
  PROVE  \/ chain' = chain /\ \A r \in 1 .. Len(reqs') : r \in 1 .. Len(reqs) \/ ~reqs'[r].chained
         \/ SendNext
         \/ RunAll
         \/ Answered /\ reqs[Head(wire).run].chained
<1>1. Types /\ reqs \in Seq(Requests) /\ Len(reqs) \in Nat
  BY DEF TypeInv, Types
<1> DEFINE Plain == \A r \in 1 .. Len(reqs') : r \in 1 .. Len(reqs) \/ ~reqs'[r].chained
<1>2. ASSUME NEW o, NEW c, NEW e, reqs' = Append(reqs, Request(o, c, e, FALSE)) PROVE Plain
  <2> DEFINE q == Request(o, c, e, FALSE)
  <2>1. ~q.chained
    <3>1. q.chained = FALSE
      BY DEF Request
    <3> QED BY <3>1
  <2>2. reqs' = Append(reqs, q)
    BY <1>2
  <2> HIDE DEF q
  <2>3. Len(reqs') = Len(reqs) + 1 /\ reqs'[Len(reqs) + 1] = q
    BY <1>1, <2>2
  <2> QED BY <1>1, <2>1, <2>3
<1>3. ASSUME reqs' = reqs PROVE Plain
  BY <1>3
<1>4. ASSUME NEW r \in 1 .. Len(reqs), NEW a, NEW k, Becomes(r, a, k) PROVE Plain
  <2>1. reqs' = [reqs EXCEPT ![r] = [reqs[r] EXCEPT !.at = a, !.kernel = k]]
    BY <1>1, <1>4 DEF Becomes
  <2>2. Len(reqs') = Len(reqs)
    BY <1>1, <2>1
  <2> QED BY <2>2
<1> HIDE DEF Plain
<1>5. CASE UNCHANGED vars \/ CellEvent \/ Exited \/ KernelSteps \/ KernelExited \/ PumpIopub \/ PumpShell
  <2>1. chain' = chain /\ reqs' = reqs
    BY <1>5 DEF vars, editor, CellEvent, Exited, KernelSteps, KernelBegins, KernelEnds, KernelDies,
       KernelPrints,
       KernelExited, PumpIopub, PumpShell
  <2> QED BY <1>3, <2>1 DEF Plain
<1>6. CASE Stop \/ Restart \/ Start \/ \E c \in Cells : RunCell(c) \/ Clear(c)
  <2>1. chain' = chain
    BY <1>6 DEF Stop, Restart, Start, RunCell, Clear, editor
  <2>2. \E o, c, e : reqs' = Append(reqs, Request(o, c, e, FALSE))
    BY <1>6 DEF Stop, Restart, Start, RunCell, Clear
  <2> QED BY <1>2, <2>1, <2>2 DEF Plain
<1>7. ASSUME NEW r \in 1 .. Len(reqs),
             Execute(r) \/ TakeKernel(r) \/ Killed(r) \/ StartKernel(r) \/ Launched(r) \/ ClearCell(r)
      PROVE  chain' = chain /\ Plain
  <2>1. chain' = chain
    BY <1>7 DEF Execute, TakeKernel, Killed, StartKernel, Launched, ClearCell, editor
  <2>2. \E a, k : Becomes(r, a, k)
    <3>1. CASE Launched(r)
      BY <3>1 DEF Launched
    <3>2. CASE ~Launched(r)
      BY <1>7, <3>2 DEF Execute, TakeKernel, Killed, StartKernel, ClearCell
    <3> QED BY <3>1, <3>2
  <2> QED BY <1>4, <2>1, <2>2
<1>8. CASE Answered
  <2> DEFINE m == Head(wire)
  <2>1. 1 \in 1 .. Len(wire) /\ m = wire[1] /\ m.kind = "answer"
    BY <1>8 DEF Answered, TypeInv, WireInv
  <2>2. reqs[m.run].chained => reqs[m.run].op = "execute"
    BY <2>1, AnswerOf DEF TypeInv, ChainInv, Runs
  <2>3. reqs' = reqs /\ IF reqs[m.run].op = "execute" THEN RunAnswered(m.run, m.ok) ELSE AskAnswered(m.run, m.ok)
    BY <1>8 DEF Answered
  <2>4. ~reqs[m.run].chained => chain' = chain
    BY <2>2, <2>3 DEF RunAnswered, AskAnswered
  <2> QED BY <1>3, <1>8, <2>3, <2>4 DEF Plain
<1> QED BY <1>5, <1>6, <1>7, <1>8 DEF Plain, Next, User, Editor, Backend

LEMMA HeadStep ==
  ASSUME TypeInv, TimedInv, ReplyInv, HeadInv, [Next]_vars
  PROVE  HeadInv'
<1>1. Types /\ ChainInv /\ ChainInv' /\ Len(reqs) \in Nat /\ chain \in Seq(Cells)
  <2>1. ChainInv'
    BY TypeStep DEF TypeInv
  <2>2. Types /\ ChainInv
    BY DEF TypeInv
  <2> QED BY <2>1, <2>2 DEF Types
<1>2. ASSUME ~Asked, NEW r \in 1 .. Len(reqs), reqs'[r].chained, UnderWay(r)' PROVE FALSE
  <2>1. UnderWay(r) /\ reqs[r].chained
    BY <1>2, WayEnds
  <2> QED BY <1>2, <2>1, WayAsks
<1>3. CASE chain' = chain /\ \A r \in 1 .. Len(reqs') : r \in 1 .. Len(reqs) \/ ~reqs'[r].chained
  <2>1. ASSUME NEW r \in 1 .. Len(reqs'), reqs'[r].chained, UnderWay(r)' PROVE reqs'[r].cell = Head(chain)
    <3>1. r \in 1 .. Len(reqs)
      BY <1>3, <2>1
    <3>2. UnderWay(r) /\ reqs'[r].cell = reqs[r].cell /\ reqs'[r].chained = reqs[r].chained
      BY <2>1, <3>1, WayEnds
    <3>3. reqs[r].chained
      BY <2>1, <3>2
    <3> QED BY <3>1, <3>2, <3>3 DEF HeadInv
  <2> QED BY <1>3, <2>1 DEF HeadInv
<1>4. CASE SendNext
  <2> DEFINE q == Request("execute", Head(chain), epoch, TRUE)
  <2>1. ~Asked /\ chain' = chain /\ reqs' = Append(reqs, q) /\ q.cell = Head(chain)
    BY <1>4 DEF SendNext, Asked, editor, Request
  <2> HIDE DEF q
  <2>2. Len(reqs') = Len(reqs) + 1 /\ reqs'[Len(reqs) + 1] = q
    BY <1>1, <2>1 DEF Types
  <2>3. ASSUME NEW r \in 1 .. Len(reqs'), reqs'[r].chained, UnderWay(r)' PROVE reqs'[r].cell = Head(chain)
    <3>1. r \in 1 .. Len(reqs) \/ r = Len(reqs) + 1
      BY <1>1, <2>2
    <3> QED BY <1>2, <2>1, <2>2, <2>3, <3>1
  <2> QED BY <2>1, <2>3 DEF HeadInv
<1>5. CASE RunAll
  <2>1. chain = <<>> /\ chain' = All /\ reqs' = reqs
    BY <1>5 DEF RunAll
  <2>2. ~Asked
    BY <1>1, <2>1 DEF ChainInv
  <2> QED BY <1>2, <2>1, <2>2, RunsAssumption DEF HeadInv
<1>6. CASE Answered /\ reqs[Head(wire).run].chained
  <2> DEFINE m == Head(wire)
  <2>1. wire # <<>> /\ wire' = Tail(wire) /\ reqs' = reqs /\ m.kind = "answer" /\ reqs[m.run].chained
    BY <1>6 DEF Answered
  <2>2. ~Asked' /\ chain # <<>>
    BY <2>1, AskedEnds
  <2>3. chain' = Tail(chain) \/ chain' = <<>>
    <3>1. m = wire[1] /\ 1 \in 1 .. Len(wire)
      BY <2>1 DEF TypeInv, WireInv
    <3>2. reqs[m.run].op = "execute"
      BY <2>1, <3>1, AnswerOf DEF TypeInv, ChainInv, Runs
    <3>3. RunAnswered(m.run, m.ok)
      BY <1>6, <3>2 DEF Answered
    <3> QED BY <2>1, <3>3 DEF RunAnswered
  <2>4. \A i, j \in 1 .. Len(chain') : chain'[i] = chain'[j] => i = j
    <3>1. CASE chain' = <<>>
      BY <3>1
    <3>2. CASE chain' = Tail(chain)
      <4>1. Len(chain) \in Nat \ {0} /\ Len(chain') = Len(chain) - 1
            /\ \A i \in 1 .. Len(chain') : chain'[i] = chain[i + 1] /\ i + 1 \in 1 .. Len(chain)
        BY <1>1, <2>2, <3>2
      <4> TAKE i, j \in 1 .. Len(chain')
      <4>2. chain[i + 1] = chain[j + 1] => i + 1 = j + 1
        BY <4>1 DEF HeadInv
      <4> QED BY <4>1, <4>2
    <3> QED BY <2>3, <3>1, <3>2
  <2>5. ASSUME NEW r \in 1 .. Len(reqs'), reqs'[r].chained, UnderWay(r)' PROVE FALSE
    <3>1. r \in Runs'
      BY <1>1, <2>5 DEF ChainInv
    <3>2. ~ChainWaits' /\ ~AnswerComes'
      BY <2>2 DEF Asked
    <3>3. reqs'[r].at = "done"
      BY <2>5, <3>1, <3>2 DEF ChainWaits
    <3>4. \E i \in 1 .. Len(wire') : wire'[i].kind = "answer" /\ wire'[i].run = r
      BY <2>5, <3>3 DEF UnderWay, AnswerOn
    <3> QED BY <2>5, <3>2, <3>4 DEF AnswerComes
  <2> QED BY <2>4, <2>5 DEF HeadInv
<1> QED BY <1>3, <1>4, <1>5, <1>6, ChainSteps

(* How a step may change what is held of a cell.                           *)
LEMMA CellSteps ==
  ASSUME TypeInv, [Next]_vars, NEW c \in Cells
  PROVE  /\ \/ st'[c] = st[c] \/ st'[c] = Queued(st[c]) \/ st'[c] = Unqueued(st[c]) \/ st'[c] = Released(st[c])
            \/ st'[c] = Cleared(st[c]) \/ \E e \in Events \cup Replies : st'[c] = State(st[c], e)
         /\ epoch' = epoch \/ (epoch' = epoch + 1 /\ st'[c] = Released(st[c]))
<1>1. Types /\ st \in [Cells -> CellStates]
  BY DEF TypeInv, Types
<1> DEFINE Held == \/ st'[c] = st[c] \/ st'[c] = Queued(st[c]) \/ st'[c] = Unqueued(st[c])
                   \/ st'[c] = Released(st[c]) \/ st'[c] = Cleared(st[c])
                   \/ \E e \in Events \cup Replies : st'[c] = State(st[c], e)
           Counted == epoch' = epoch \/ (epoch' = epoch + 1 /\ st'[c] = Released(st[c]))
<1>2. ASSUME UNCHANGED vars \/ SendNext \/ Start \/ Backend \/ KernelSteps PROVE Held /\ Counted
  <2>1. st' = st /\ epoch' = epoch
    BY <1>2 DEF vars, editor, SendNext, Start, Backend, Execute, TakeKernel, Killed, StartKernel, Launched,
       ClearCell, KernelExited, PumpIopub, PumpShell, KernelSteps, KernelBegins, KernelEnds, KernelDies,
       KernelPrints
  <2> QED BY <2>1
<1>3. ASSUME RunAll \/ \E d \in Cells : RunCell(d) PROVE Held /\ Counted
  BY <1>3 DEF RunAll, RunCell, Mark
<1>4. ASSUME NEW d \in Cells, Clear(d) PROVE Held /\ Counted
  BY <1>1, <1>4 DEF Clear
<1>5. ASSUME Stop \/ Restart \/ Exited PROVE Held /\ Counted
  BY <1>5 DEF Stop, Restart, Retire, Exited
<1>6. ASSUME CellEvent PROVE Held /\ Counted
  <2> DEFINE e == Head(wire).event
             d == reqs[e.run].cell
  <2>1. e \in Events \cup Replies
    <3>1. Head(wire) \in Messages
      BY <1>6, Heard DEF CellEvent, TypeInv
    <3> QED BY <1>6, <3>1, Kinds DEF CellEvent
  <2>2. epoch' = epoch /\ st' = IF Stale(d) THEN st ELSE [st EXCEPT ![d] = State(@, e)]
    BY <1>6 DEF CellEvent
  <2> HIDE DEF e, d
  <2> QED BY <1>1, <2>1, <2>2
<1>7. ASSUME Answered PROVE Held /\ Counted
  BY <1>1, <1>7 DEF Answered, RunAnswered, AskAnswered
<1> HIDE DEF Held, Counted
<1>8. Held /\ Counted
  BY <1>2, <1>3, <1>4, <1>5, <1>6, <1>7 DEF Next, User, Editor
<1> QED BY <1>8 DEF Held, Counted

LEMMA MoreFields ==
  ASSUME NEW s \in CellStates
  PROVE  /\ Queued(s).epoch = epoch
         /\ Cleared(s).epoch = s.epoch \/ (Cleared(s).epoch = -1 /\ s.pending = 0 /\ s.state = "idle")
         /\ Unqueued(s).epoch = s.epoch /\ Unqueued(s).run = s.run
         /\ Unqueued(s).pending = IF s.pending = 0 THEN 0 ELSE s.pending - 1
         /\ Unqueued(s).state = IF s.pending = 1 /\ s.state = "queued" THEN "idle" ELSE s.state
         /\ Released(s).epoch = s.epoch /\ Released(s).run = "no" /\ Released(s).pending = 0
         /\ Released(s).state = "idle"
         /\ \A e \in Events \cup Replies : State(s, e).epoch = s.epoch
<1>1. s.pending \in Nat
  BY DEF CellStates
<1>2. Queued(s).epoch = epoch
  <2> DEFINE x == IF s.state = "busy" THEN s.state ELSE "queued"
  <2>1. Queued(s) = [s EXCEPT !.pending = s.pending + 1, !.epoch = epoch, !.state = x]
    BY DEF Queued
  <2> HIDE DEF x
  <2> QED BY <2>1 DEF CellStates
<1>3. Cleared(s).epoch = s.epoch \/ (Cleared(s).epoch = -1 /\ s.pending = 0 /\ s.state = "idle")
  BY <1>1 DEF Cleared, Fresh
<1>4. /\ Unqueued(s).epoch = s.epoch /\ Unqueued(s).run = s.run
      /\ Unqueued(s).pending = IF s.pending = 0 THEN 0 ELSE s.pending - 1
      /\ Unqueued(s).state = IF s.pending = 1 /\ s.state = "queued" THEN "idle" ELSE s.state
  <2> DEFINE x == IF s.pending = 1 /\ s.state = "queued" THEN "idle" ELSE s.state
  <2>1. s.pending # 0 => Unqueued(s) = [s EXCEPT !.pending = s.pending - 1, !.state = x]
    BY DEF Unqueued
  <2>2. s.pending = 0 => Unqueued(s) = s /\ x = s.state
    BY DEF Unqueued
  <2>3. x = IF s.pending = 1 /\ s.state = "queued" THEN "idle" ELSE s.state
    OBVIOUS
  <2> HIDE DEF x
  <2>4. s.pending # 0 => /\ Unqueued(s).epoch = s.epoch /\ Unqueued(s).run = s.run
                         /\ Unqueued(s).pending = s.pending - 1 /\ Unqueued(s).state = x
    BY <2>1 DEF CellStates
  <2>5. Unqueued(s).state = x
    BY <2>2, <2>4
  <2> QED BY <2>2, <2>3, <2>4, <2>5
<1>5. Released(s).epoch = s.epoch /\ Released(s).run = "no" /\ Released(s).pending = 0 /\ Released(s).state = "idle"
  BY DEF Released, CellStates
<1>6. ASSUME NEW e \in Events \cup Replies PROVE State(s, e).epoch = s.epoch
  <2>1. e.kind \in {"busy", "input", "idle", "output", "clear", "wait", "reply"}
    BY DEF Events, Replies
  <2> DEFINE x == IF s.run \in {"no", "input"} /\ s.pending > 0 THEN s.pending - 1 ELSE s.pending
             y == IF s.pending > 0 THEN "queued" ELSE "idle"
  <2>2. CASE e.kind \in {"busy", "input"}
    <3>1. State(s, e) = [Taken(s, e.kind) EXCEPT !.state = "busy"]
      BY <2>2 DEF State
    <3>2. Taken(s, e.kind) = [s EXCEPT !.pending = x, !.run = e.kind]
      BY DEF Taken
    <3> HIDE DEF x
    <3> QED BY <3>1, <3>2 DEF CellStates
  <2>3. CASE e.kind = "idle"
    <3>1. State(s, e) = [s EXCEPT !.run = "no", !.state = y]
      BY <2>3 DEF State
    <3> HIDE DEF y
    <3> QED BY <3>1 DEF CellStates
  <2>4. CASE e.kind \notin {"busy", "input", "idle"}
    BY <2>4 DEF State
  <2> QED BY <2>2, <2>3, <2>4
<1> QED BY <1>2, <1>3, <1>4, <1>5, <1>6

(* A badge says what is counted of its cell, and no cell was marked later  *)
(* than now.                                                               *)
BadgeInv == \A c \in Cells : st[c].state = Badge(st[c]) /\ st[c].epoch <= epoch

LEMMA BadgeStep ==
  ASSUME TypeInv, BadgeInv, [Next]_vars
  PROVE  BadgeInv'
<1> SUFFICES ASSUME NEW c \in Cells PROVE st'[c].state = Badge(st'[c]) /\ st'[c].epoch <= epoch'
  BY DEF BadgeInv
<1> DEFINE s == st[c]
<1>1. s \in CellStates /\ epoch \in Nat
  BY DEF TypeInv, Types
<1>2. s.pending \in Nat /\ s.epoch \in Int /\ s.run \in RunStates /\ s.state = Badge(s) /\ s.epoch <= epoch
  BY <1>1, Numbers DEF BadgeInv, CellStates, RunStates
<1>3. epoch <= epoch' /\ epoch' \in Nat
  BY <1>1, CellSteps
<1> HIDE DEF s
<1>4. CASE st'[c] = s
  BY <1>1, <1>2, <1>3, <1>4
<1>5. CASE st'[c] = Queued(s)
  <2>1. Queued(s).state = Badge(Queued(s))
    BY <1>1, <1>2, StateFields DEF Badge
  <2>2. Queued(s).epoch = epoch
    BY <1>1, MoreFields
  <2> QED BY <1>5, <1>1, <1>3, <2>1, <2>2
<1>6. CASE st'[c] = Unqueued(s)
  <2>1. Unqueued(s).state = Badge(Unqueued(s))
    BY <1>1, <1>2, MoreFields DEF Badge
  <2>2. Unqueued(s).epoch = s.epoch
    BY <1>1, MoreFields
  <2> QED BY <1>1, <1>2, <1>6, <1>3, <2>1, <2>2
<1>7. CASE st'[c] = Released(s)
  <2>1. Released(s).state = Badge(Released(s)) /\ Released(s).epoch = s.epoch
    BY <1>1, MoreFields DEF Badge
  <2> QED BY <1>1, <1>2, <1>3, <1>7, <2>1
<1>8. CASE st'[c] = Cleared(s)
  <2>1. Cleared(s).state = Badge(Cleared(s))
    BY <1>1, <1>2, StateFields DEF Badge
  <2>2. Cleared(s).epoch <= epoch
    BY <1>1, <1>2, MoreFields
  <2>3. Cleared(s).epoch \in Int
    BY <1>1, <1>2, MoreFields
  <2> QED BY <1>1, <1>3, <1>8, <2>1, <2>2, <2>3
<1>9. ASSUME NEW e \in Events \cup Replies, st'[c] = State(s, e) PROVE st'[c].state = Badge(st'[c]) /\ st'[c].epoch <= epoch'
  <2>1. State(s, e).state = Badge(State(s, e))
    BY <1>1, <1>2, EventFields DEF Badge
  <2>2. State(s, e).epoch = s.epoch
    BY <1>1, MoreFields
  <2> QED BY <1>1, <1>2, <1>3, <1>9, <2>1, <2>2
<1> QED BY <1>4, <1>5, <1>6, <1>7, <1>8, <1>9, CellSteps DEF s

(* A request is answered once.                                             *)
AnswerInv == \A i, j \in 1 .. Len(wire) :
  wire[i].kind = "answer" /\ wire[j].kind = "answer" /\ wire[i].run = wire[j].run => i = j

LEMMA AnswerStep ==
  ASSUME TypeInv, TimedInv, ReplyInv, AnswerInv, [Next]_vars
  PROVE  AnswerInv'
<1>1. WireInv
  BY DEF TypeInv
<1>2. CASE wire' = wire
  BY <1>2 DEF AnswerInv
<1>3. ASSUME NEW m \in Messages, wire' = Append(wire, m), m.kind = "answer" => reqs[m.run].at # "done"
      PROVE  AnswerInv'
  <2>1. /\ Len(wire) \in Nat /\ Len(wire') = Len(wire) + 1
        /\ \A i \in 1 .. Len(wire) : wire'[i] = wire[i]
        /\ wire'[Len(wire) + 1] = m
        /\ \A i \in 1 .. Len(wire') : i \in 1 .. Len(wire) \/ i = Len(wire) + 1
    BY <1>1, <1>3, Said
  <2>2. \A i \in 1 .. Len(wire) : wire[i].kind = "answer" => reqs[wire[i].run].at = "done"
    BY AnswerOf
  <2> QED BY <1>3, <2>1, <2>2 DEF AnswerInv
<1>4. CASE wire # <<>> /\ wire' = Tail(wire)
  <2>1. Len(wire) \in Nat /\ \A i \in 1 .. Len(wire') : wire'[i] = wire[i + 1] /\ i + 1 \in 1 .. Len(wire)
    BY <1>1, <1>4, Heard
  <2> SUFFICES ASSUME NEW i \in 1 .. Len(wire'), NEW j \in 1 .. Len(wire'),
                      wire'[i].kind = "answer", wire'[j].kind = "answer", wire'[i].run = wire'[j].run
               PROVE  i = j
    BY DEF AnswerInv
  <2>2. i + 1 = j + 1
    BY <2>1 DEF AnswerInv
  <2> QED BY <2>2
<1> QED BY <1>2, <1>3, <1>4, WireSteps

(* How a step may change the mark of a stop that is not answered yet.      *)
LEMMA RetiringSteps ==
  ASSUME TypeInv, [Next]_vars
  PROVE  \/ epoch' = epoch + 1 /\ retiring' = epoch + 1 /\ wire' = wire
         \/ /\ epoch' = epoch /\ retiring' = retiring
            /\ \A r \in 1 .. Len(reqs') : r \in 1 .. Len(reqs) \/ reqs'[r].op \notin {"stop", "restart"}
         \/ /\ Answered /\ reqs[Head(wire).run].op # "execute"
            /\ AskAnswered(Head(wire).run, Head(wire).ok)
<1>1. Types /\ Len(reqs) \in Nat
  BY DEF TypeInv, Types
<1> DEFINE Plain == \A r \in 1 .. Len(reqs') : r \in 1 .. Len(reqs) \/ reqs'[r].op \notin {"stop", "restart"}
<1>2. ASSUME epoch' = epoch PROVE Plain
  <2>1. CASE reqs' = reqs
    BY <2>1
  <2>2. ASSUME NEW p \in Requests, Made(p) PROVE Plain
    <3>1. Len(reqs') = Len(reqs) + 1 /\ reqs'[Len(reqs) + 1] = p
      BY <1>1, <2>2, RequestMade DEF Made
    <3>2. epoch \in Nat /\ epoch' = (IF p.op \in {"stop", "restart"} THEN epoch + 1 ELSE epoch)
      BY <1>1, <2>2 DEF Types, Made
    <3>3. p.op \notin {"stop", "restart"}
      BY <1>2, <3>2
    <3>4. \A r \in 1 .. Len(reqs') : r \in 1 .. Len(reqs) \/ r = Len(reqs) + 1
      BY <1>1, <3>1
    <3> QED BY <3>1, <3>3, <3>4
  <2>3. ASSUME NEW x \in 1 .. Len(reqs), NEW a \in {"launch", "kill", "done"}, NEW k \in -1 .. MaxRequests, GoesOn(x, a, k)
        PROVE  Plain
    <3>1. Len(reqs') = Len(reqs)
      BY <1>1, <2>3, RequestBecomes DEF GoesOn
    <3> QED BY <3>1
  <2> HIDE DEF Plain
  <2> QED BY <2>1, <2>2, <2>3, RequestSteps
<1> HIDE DEF Plain
<1>3. CASE Stop \/ Restart
  BY <1>3 DEF Stop, Restart, Retire
<1>4. CASE UNCHANGED vars \/ SendNext \/ Start \/ RunAll \/ CellEvent \/ Exited \/ Backend \/ KernelSteps
           \/ \E c \in Cells : RunCell(c) \/ Clear(c)
  <2>1. epoch' = epoch /\ retiring' = retiring
    BY <1>4 DEF vars, editor, SendNext, Start, RunAll, RunCell, Clear, CellEvent, Exited, Backend, Execute,
       TakeKernel, Killed, StartKernel, Launched, ClearCell, KernelExited, PumpIopub, PumpShell,
       KernelSteps,
       KernelBegins, KernelEnds, KernelDies, KernelPrints
  <2> QED BY <1>2, <2>1 DEF Plain
<1>5. CASE Answered
  <2>1. epoch' = epoch
    BY <1>5 DEF Answered
  <2>2. CASE reqs[Head(wire).run].op = "execute"
    <3>1. retiring' = retiring
      BY <1>5, <2>2 DEF Answered, RunAnswered
    <3> QED BY <1>2, <2>1, <3>1 DEF Plain
  <2>3. CASE reqs[Head(wire).run].op # "execute"
    BY <1>5, <2>3 DEF Answered
  <2> QED BY <2>2, <2>3
<1> QED BY <1>3, <1>4, <1>5 DEF Next, User, Editor

(* Until the answer to the last stop or restart the editor is "retiring":  *)
(* then no event of a run made before it is on the wire any more.          *)
OldEvent(i) == wire[i].kind = "event" /\ Old(wire[i].event.run)
Frees(j) == wire[j].kind = "answer" /\ Retires(wire[j].run) /\ reqs[wire[j].run].epoch = epoch
RetireInv ==
  /\ retiring \in {0, epoch}
  /\ \A r \in 1 .. Len(reqs) : Retires(r) /\ reqs[r].epoch = epoch /\ UnderWay(r) => retiring = epoch
  /\ \A i \in 1 .. Len(wire) : OldEvent(i) => retiring = epoch /\ \A j \in 1 .. i - 1 : ~Frees(j)

(* One request at most ended the last epoch.                               *)
LEMMA OneRetires ==
  ASSUME TypeInv, OrderInv, NEW q \in 1 .. Len(reqs), NEW r \in 1 .. Len(reqs),
         Retires(q), Retires(r), reqs[q].epoch = epoch, reqs[r].epoch = epoch
  PROVE  q = r
<1>1. Len(reqs) \in Nat /\ epoch \in Nat
  BY DEF TypeInv, Types
<1>2. q < r => reqs[q].epoch < reqs[r].epoch
  BY DEF OrderInv
<1>3. r < q => reqs[r].epoch < reqs[q].epoch
  BY DEF OrderInv
<1> QED BY <1>1, <1>2, <1>3

(* The events of runs of before the last stop come while it is not taken.  *)
LEMMA OldRuns ==
  ASSUME TypeInv, OrderInv, NEW r, Ran(r), reqs[r].kernel = kernel, Old(r)
  PROVE  \E q \in 1 .. Len(reqs) : Retires(q) /\ reqs[q].epoch = epoch /\ reqs[q].at = "sent"
<1>1. Types /\ Len(reqs) \in Nat /\ epoch \in Nat /\ reqs \in Seq(Requests)
  BY DEF TypeInv, Types
<1>2. r \in Runs /\ r \in 1 .. Len(reqs) /\ reqs[r].at = "done" /\ kernel # NoKernel
  BY DEF Ran, Runs
<1>3. reqs[r] \in Requests
  BY <1>1, <1>2
<1>4. reqs[r].epoch \in Nat /\ reqs[r].epoch < epoch
  BY <1>3 DEF Requests, Old
<1>5. epoch > 0
  BY <1>1, <1>4
<1>6. PICK q \in 1 .. Len(reqs) : Retires(q) /\ reqs[q].epoch = epoch
  BY <1>5 DEF OrderInv
<1>7. r < q
  <2>1. q < r => reqs[q].epoch <= reqs[r].epoch
    BY <1>2 DEF OrderInv
  <2> QED BY <1>1, <1>2, <1>4, <1>6, <2>1
<1>8. reqs[q].at = "sent"
  BY <1>2, <1>6, <1>7 DEF OrderInv
<1> QED BY <1>6, <1>8

LEMMA RetireStep ==
  ASSUME TypeInv, TimedInv, ReplyInv, OrderInv, AnswerInv, RetireInv, [Next]_vars
  PROVE  RetireInv'
<1>1. Types /\ WireInv /\ Len(reqs) \in Nat /\ epoch \in Nat /\ wire \in Seq(Messages) /\ Len(wire) \in Nat
  <2>1. Types /\ WireInv
    BY DEF TypeInv
  <2>2. reqs \in Seq(Requests) /\ epoch \in Nat
    BY <2>1 DEF Types
  <2>3. wire \in Seq(Messages)
    BY <2>1 DEF WireInv
  <2>4. Len(reqs) \in Nat /\ Len(wire) \in Nat
    BY <2>2, <2>3
  <2> QED BY <2>1, <2>2, <2>3, <2>4
<1>2. \A r \in 1 .. Len(reqs) : /\ reqs'[r].op = reqs[r].op /\ reqs'[r].epoch = reqs[r].epoch
                                /\ r \in 1 .. Len(reqs')
  BY RequestsKeep
<1>3. /\ \A i \in 1 .. Len(wire) : wire[i].kind = "event" => wire[i].event.run \in 1 .. Len(reqs)
      /\ \A i \in 1 .. Len(wire) : wire[i].kind = "answer" => wire[i].run \in 1 .. Len(reqs)
  BY <1>1, AnswerOf DEF WireInv, Runs
<1>4. ASSUME epoch' = epoch + 1, retiring' = epoch + 1, wire' = wire PROVE RetireInv'
  <2>1. \A j \in 1 .. Len(wire) : ~Frees(j)'
    <3> SUFFICES ASSUME NEW j \in 1 .. Len(wire), Frees(j)' PROVE FALSE
      OBVIOUS
    <3>1. wire[j].kind = "answer" /\ wire[j].run \in 1 .. Len(reqs) /\ reqs'[wire[j].run].epoch = epoch + 1
      BY <1>3, <1>4 DEF Frees
    <3>2. reqs[wire[j].run].epoch = epoch + 1 /\ reqs[wire[j].run].epoch <= epoch
      BY <1>2, <3>1 DEF OrderInv
    <3> QED BY <1>1, <3>2
  <2>2. \A i \in 1 .. Len(wire) : \A j \in 1 .. i - 1 : j \in 1 .. Len(wire)
    BY <1>1
  <2> QED BY <1>4, <2>1, <2>2 DEF RetireInv
<1>5. ASSUME epoch' = epoch,
             \A r \in 1 .. Len(reqs') : r \in 1 .. Len(reqs) \/ reqs'[r].op \notin {"stop", "restart"}
      PROVE  \A r \in 1 .. Len(reqs') : Retires(r)' /\ reqs'[r].epoch = epoch' /\ UnderWay(r)' =>
                r \in 1 .. Len(reqs) /\ Retires(r) /\ reqs[r].epoch = epoch /\ UnderWay(r) /\ retiring = epoch
  <2> SUFFICES ASSUME NEW r \in 1 .. Len(reqs'), Retires(r)', reqs'[r].epoch = epoch', UnderWay(r)'
               PROVE  r \in 1 .. Len(reqs) /\ Retires(r) /\ reqs[r].epoch = epoch /\ UnderWay(r) /\ retiring = epoch
    OBVIOUS
  <2>1. r \in 1 .. Len(reqs)
    BY <1>5 DEF Retires
  <2>2. UnderWay(r)
    BY <2>1, WayEnds
  <2>3. Retires(r) /\ reqs[r].epoch = epoch
    BY <1>2, <1>5, <2>1 DEF Retires
  <2> QED BY <2>1, <2>2, <2>3 DEF RetireInv
<1>6. ASSUME epoch' = epoch, NEW i \in 1 .. Len(wire), NEW k \in 1 .. Len(wire'), wire'[k] = wire[i]
      PROVE  (OldEvent(k)' => OldEvent(i)) /\ (Frees(k)' => Frees(i))
  <2>1. OldEvent(k)' => OldEvent(i)
    <3> SUFFICES ASSUME OldEvent(k)' PROVE OldEvent(i)
      OBVIOUS
    <3>1. wire[i].kind = "event" /\ reqs'[wire[i].event.run].epoch < epoch
      BY <1>6 DEF OldEvent, Old
    <3> QED BY <1>2, <1>3, <3>1 DEF OldEvent, Old
  <2>2. Frees(k)' => Frees(i)
    <3> SUFFICES ASSUME Frees(k)' PROVE Frees(i)
      OBVIOUS
    <3>1. wire[i].kind = "answer" /\ reqs'[wire[i].run].op \in {"stop", "restart"} /\ reqs'[wire[i].run].epoch = epoch
      BY <1>6 DEF Frees, Retires
    <3> QED BY <1>2, <1>3, <3>1 DEF Frees, Retires
  <2> QED BY <2>1, <2>2
<1> DEFINE Held == \A i \in 1 .. Len(wire') : OldEvent(i)' => retiring = epoch /\ \A j \in 1 .. i - 1 : ~Frees(j)'
<1>7. ASSUME epoch' = epoch, wire' = wire PROVE Held
  <2>1. \A i \in 1 .. Len(wire) : \A j \in 1 .. i - 1 : j \in 1 .. Len(wire)
    BY <1>1
  <2> QED BY <1>6, <1>7, <2>1 DEF RetireInv
<1>8. ASSUME epoch' = epoch, NEW m \in Messages, wire' = Append(wire, m), NEW n \in Nat, n = Len(wire) + 1,
             ~OldEvent(n)' \/ (retiring = epoch /\ \A j \in 1 .. Len(wire) : ~Frees(j))
      PROVE  Held
  <2>1. /\ Len(wire') = Len(wire) + 1
        /\ \A i \in 1 .. Len(wire) : wire'[i] = wire[i] /\ i \in 1 .. Len(wire')
        /\ \A i \in 1 .. Len(wire') : i \in 1 .. Len(wire) \/ i = Len(wire) + 1
    BY <1>1, <1>8, Said
  <2> SUFFICES ASSUME NEW i \in 1 .. Len(wire'), OldEvent(i)'
               PROVE  retiring = epoch /\ \A j \in 1 .. i - 1 : ~Frees(j)'
    OBVIOUS
  <2>2. \A j \in 1 .. i - 1 : j \in 1 .. Len(wire)
    BY <1>1, <2>1
  <2>3. \A j \in 1 .. Len(wire) : Frees(j)' => Frees(j)
    BY <1>6, <1>8, <2>1
  <2>4. CASE i \in 1 .. Len(wire)
    <3>1. OldEvent(i)
      BY <1>6, <1>8, <2>1, <2>4
    <3> QED BY <2>2, <2>3, <2>4, <3>1 DEF RetireInv
  <2>5. CASE i = n
    BY <1>8, <2>2, <2>3, <2>5
  <2> QED BY <1>8, <2>1, <2>4, <2>5
<1>9. ASSUME epoch' = epoch, wire # <<>>, wire' = Tail(wire)
      PROVE  \A i \in 1 .. Len(wire') : OldEvent(i)' =>
               retiring = epoch /\ ~Frees(1) /\ \A j \in 1 .. i - 1 : ~Frees(j)'
  <2>1. /\ Len(wire) \in Nat \ {0} /\ Len(wire') = Len(wire) - 1
        /\ \A i \in 1 .. Len(wire') : wire'[i] = wire[i + 1] /\ i + 1 \in 1 .. Len(wire)
    BY <1>1, <1>9, Heard
  <2> SUFFICES ASSUME NEW i \in 1 .. Len(wire'), OldEvent(i)'
               PROVE  retiring = epoch /\ ~Frees(1) /\ \A j \in 1 .. i - 1 : ~Frees(j)'
    OBVIOUS
  <2>2. OldEvent(i + 1)
    BY <1>6, <1>9, <2>1
  <2>3. retiring = epoch /\ \A j \in 1 .. (i + 1) - 1 : ~Frees(j)
    BY <2>1, <2>2 DEF RetireInv
  <2>4. \A j \in 1 .. i - 1 : j \in 1 .. Len(wire') /\ j + 1 \in 1 .. (i + 1) - 1 /\ wire'[j] = wire[j + 1]
                              /\ j + 1 \in 1 .. Len(wire)
    BY <2>1
  <2>5. 1 \in 1 .. (i + 1) - 1
    BY <2>1
  <2>6. \A j \in 1 .. i - 1 : Frees(j)' => Frees(j + 1)
    BY <1>6, <1>9, <2>4
  <2> QED BY <2>3, <2>4, <2>5, <2>6
<1>10. ASSUME epoch' = epoch PROVE Held
  <2> HIDE DEF Held
  <2>0. PICK n \in Nat : n = Len(wire) + 1
    BY <1>1
  <2>1. ASSUME NEW m \in Messages, wire' = Append(wire, m), m.kind # "event" PROVE Held
    <3>1. wire'[n] = m
      BY <1>1, <2>0, <2>1, Said
    <3>2. ~OldEvent(n)'
      BY <2>1, <3>1 DEF OldEvent
    <3> QED BY <1>8, <1>10, <2>0, <2>1, <3>2 DEF Held
  <2>2. ASSUME NEW m \in Messages, wire' = Append(wire, m), m.kind = "event", Ran(m.event.run),
               reqs[m.event.run].kernel = kernel, UNCHANGED <<editor, reqs, kernel>>
        PROVE  Held
    <3>1. wire'[n] = m
      BY <1>1, <2>0, <2>2, Said
    <3>2. ASSUME OldEvent(n)' PROVE retiring = epoch /\ \A j \in 1 .. Len(wire) : ~Frees(j)
      <4>1. Old(m.event.run)
        BY <1>10, <2>2, <3>1, <3>2 DEF OldEvent, Old
      <4>2. PICK q \in 1 .. Len(reqs) : Retires(q) /\ reqs[q].epoch = epoch /\ reqs[q].at = "sent"
        BY <2>2, <4>1, OldRuns
      <4>3. retiring = epoch
        BY <4>2 DEF RetireInv, UnderWay
      <4>4. ASSUME NEW j \in 1 .. Len(wire), Frees(j) PROVE FALSE
        <5>1. wire[j].run \in 1 .. Len(reqs) /\ reqs[wire[j].run].at = "done"
          BY <4>4, AnswerOf DEF Frees
        <5>2. wire[j].run = q
          BY <4>2, <4>4, <5>1, OneRetires DEF Frees
        <5> QED BY <4>2, <5>1, <5>2
      <4> QED BY <4>3, <4>4
    <3> QED BY <1>8, <1>10, <2>0, <2>2, <3>2 DEF Held
  <2>3. CASE wire' = wire
    BY <1>7, <1>10, <2>3 DEF Held
  <2>4. CASE wire # <<>> /\ wire' = Tail(wire)
    BY <1>9, <1>10, <2>4 DEF Held
  <2>5. \/ wire' = wire
        \/ \E m \in Messages : wire' = Append(wire, m) /\ m.kind # "event"
        \/ /\ \E m \in Messages : /\ wire' = Append(wire, m) /\ m.kind = "event"
                                  /\ Ran(m.event.run) /\ reqs[m.event.run].kernel = kernel
           /\ UNCHANGED <<editor, reqs, kernel>>
        \/ wire # <<>> /\ wire' = Tail(wire)
    BY WireSteps
  <2> QED BY <2>1, <2>2, <2>3, <2>4, <2>5
<1>11. ASSUME epoch' = epoch, retiring' = retiring,
              \A r \in 1 .. Len(reqs') : r \in 1 .. Len(reqs) \/ reqs'[r].op \notin {"stop", "restart"}
       PROVE  RetireInv'
  <2>1. retiring' \in {0, epoch'}
    BY <1>11 DEF RetireInv
  <2>2. \A r \in 1 .. Len(reqs') : Retires(r)' /\ reqs'[r].epoch = epoch' /\ UnderWay(r)' => retiring' = epoch'
    BY <1>5, <1>11
  <2> QED BY <1>10, <1>11, <2>1, <2>2 DEF RetireInv
<1>12. ASSUME Answered, reqs[Head(wire).run].op # "execute", AskAnswered(Head(wire).run, Head(wire).ok)
       PROVE  RetireInv'
  <2> DEFINE x == Head(wire).run
  <2>1. wire # <<>> /\ wire' = Tail(wire) /\ Head(wire).kind = "answer" /\ reqs' = reqs /\ epoch' = epoch
    BY <1>12 DEF Answered
  <2>2. /\ Len(wire) \in Nat \ {0} /\ Len(wire') = Len(wire) - 1
        /\ \A i \in 1 .. Len(wire') : wire'[i] = wire[i + 1] /\ i + 1 \in 1 .. Len(wire)
        /\ Head(wire) = wire[1] /\ 1 \in 1 .. Len(wire)
    BY <1>1, <2>1, Heard
  <2>3. CASE ~(Retires(x) /\ retiring = reqs[x].epoch)
    <3>1. retiring' = retiring
      BY <1>12, <2>3 DEF AskAnswered, Retires
    <3> QED BY <1>11, <2>1, <3>1
  <2>4. CASE Retires(x) /\ retiring = reqs[x].epoch
    <3>1. retiring' = 0
      BY <1>12, <2>4 DEF AskAnswered, Retires
    <3>2. x \in 1 .. Len(reqs) /\ reqs[x].at = "done"
      BY <2>1, <2>2, AnswerOf
    <3>3. ASSUME NEW r \in 1 .. Len(reqs'), Retires(r)', reqs'[r].epoch = epoch', UnderWay(r)'
          PROVE  retiring' = epoch'
      <4>1. r \in 1 .. Len(reqs) /\ Retires(r) /\ reqs[r].epoch = epoch /\ retiring = epoch
        BY <1>5, <2>1, <3>3
      <4>2. r = x
        BY <2>4, <3>2, <4>1, OneRetires
      <4>3. \E i \in 1 .. Len(wire') : wire'[i].kind = "answer" /\ wire'[i].run = x
        BY <2>1, <3>2, <3>3, <4>2 DEF UnderWay, AnswerOn
      <4>4. PICK i \in 1 .. Len(wire') : wire'[i].kind = "answer" /\ wire'[i].run = x
        BY <4>3
      <4>5. i + 1 = 1
        BY <2>1, <2>2, <4>4 DEF AnswerInv
      <4> QED BY <4>5
    <3>4. ASSUME NEW i \in 1 .. Len(wire'), OldEvent(i)' PROVE FALSE
      <4>1. retiring = epoch /\ ~Frees(1)
        BY <1>9, <2>1, <3>4
      <4> QED BY <2>1, <2>2, <2>4, <4>1 DEF Frees
    <3> QED BY <3>1, <3>3, <3>4 DEF RetireInv
  <2> QED BY <2>3, <2>4
<1> QED BY <1>4, <1>11, <1>12, RetiringSteps

(* A cell of before the last stop is not run again before the stop is      *)
(* answered, and till then nothing is counted of it.                       *)
PatientInv ==
  /\ retiring # 0 => \A r \in Runs : Old(r) => st[reqs[r].cell].epoch < retiring
  /\ \A c \in Cells : Stale(c) => st[c].pending = 0 /\ st[c].run = "no"

LEMMA MarkSteps ==
  ASSUME TypeInv, [Next]_vars, NEW c \in Cells
  PROVE  \/ st'[c] = Queued(st[c]) /\ MayRun(c)
         \/ ~Stale(c) /\ \E e \in Events \cup Replies : st'[c] = State(st[c], e)
         \/ st'[c] = st[c] \/ st'[c] = Unqueued(st[c]) \/ st'[c] = Released(st[c]) \/ st'[c] = Cleared(st[c])
<1>1. Types /\ st \in [Cells -> CellStates]
  BY DEF TypeInv, Types
<1> DEFINE Held == \/ st'[c] = Queued(st[c]) /\ MayRun(c)
                   \/ ~Stale(c) /\ \E e \in Events \cup Replies : st'[c] = State(st[c], e)
                   \/ st'[c] = st[c] \/ st'[c] = Unqueued(st[c]) \/ st'[c] = Released(st[c])
                   \/ st'[c] = Cleared(st[c])
<1>2. ASSUME st' = st PROVE Held
  BY <1>2
<1>3. ASSUME RunAll \/ \E d \in Cells : RunCell(d) PROVE Held
  BY <1>3 DEF RunAll, RunCell, Mark
<1>4. ASSUME NEW d \in Cells, Clear(d) PROVE Held
  BY <1>1, <1>4 DEF Clear
<1>5. ASSUME Stop \/ Restart \/ Exited PROVE Held
  BY <1>5 DEF Stop, Restart, Retire, Exited
<1>6. ASSUME CellEvent PROVE Held
  <2> DEFINE e == Head(wire).event
             d == reqs[e.run].cell
  <2>1. e \in Events \cup Replies
    <3>1. Head(wire) \in Messages
      BY <1>6, Heard DEF CellEvent, TypeInv
    <3> QED BY <1>6, <3>1, Kinds DEF CellEvent
  <2>2. st' = IF Stale(d) THEN st ELSE [st EXCEPT ![d] = State(@, e)]
    BY <1>6 DEF CellEvent
  <2> HIDE DEF e, d
  <2> QED BY <1>1, <2>1, <2>2
<1>7. ASSUME Answered PROVE Held
  BY <1>1, <1>7 DEF Answered, RunAnswered, AskAnswered
<1> HIDE DEF Held
<1>8. ASSUME UNCHANGED vars \/ SendNext \/ Start \/ Backend \/ KernelSteps PROVE Held
  <2>1. st' = st
    BY <1>8 DEF vars, editor, SendNext, Start, Backend, Execute, TakeKernel, Killed, StartKernel, Launched,
       ClearCell, KernelExited, PumpIopub, PumpShell, KernelSteps, KernelBegins, KernelEnds, KernelDies,
       KernelPrints
  <2> QED BY <1>2, <2>1
<1>9. Held
  BY <1>3, <1>4, <1>5, <1>6, <1>7, <1>8 DEF Next, User, Editor
<1> QED BY <1>9 DEF Held

(* A run that is older than the editor's epoch was made before.            *)
LEMMA OldIsKnown ==
  ASSUME TypeInv, [Next]_vars, NEW r \in 1 .. Len(reqs'), reqs'[r].epoch # epoch'
  PROVE  r \in 1 .. Len(reqs)
<1>1. Types /\ Len(reqs) \in Nat
  BY DEF TypeInv, Types
<1>2. CASE reqs' = reqs
  BY <1>2
<1>3. ASSUME NEW p \in Requests, Made(p) PROVE r \in 1 .. Len(reqs)
  <2>1. Len(reqs') = Len(reqs) + 1 /\ reqs'[Len(reqs) + 1] = p /\ p.epoch = epoch'
    BY <1>1, <1>3, RequestMade DEF Made
  <2> QED BY <1>1, <2>1
<1>4. ASSUME NEW x \in 1 .. Len(reqs), NEW a \in {"launch", "kill", "done"}, NEW k \in -1 .. MaxRequests, GoesOn(x, a, k)
      PROVE  r \in 1 .. Len(reqs)
  <2>1. Len(reqs') = Len(reqs)
    BY <1>1, <1>4, RequestBecomes DEF GoesOn
  <2> QED BY <2>1
<1> QED BY <1>2, <1>3, <1>4, RequestSteps

LEMMA PatientStep ==
  ASSUME Patient, TypeInv, OrderInv, BadgeInv, RetireInv, PatientInv, [Next]_vars
  PROVE  PatientInv'
<1>1. Types /\ st \in [Cells -> CellStates] /\ epoch \in Nat /\ reqs \in Seq(Requests) /\ Len(reqs) \in Nat
      /\ retiring \in {0, epoch}
  BY DEF TypeInv, Types, RetireInv
<1>2. \A c \in Cells : st[c] \in CellStates /\ st[c].pending \in Nat /\ st[c].epoch \in Int /\ st[c].epoch <= epoch
  <2> TAKE c \in Cells
  <2>1. st[c] \in CellStates
    BY <1>1
  <2> QED BY <2>1, Numbers DEF CellStates, BadgeInv
<1>3. \/ epoch' = epoch + 1 /\ retiring' = epoch + 1 /\ \A c \in Cells : st'[c] = Released(st[c])
      \/ epoch' = epoch /\ retiring' = retiring
      \/ epoch' = epoch /\ retiring' = 0
  <2>1. CASE epoch' = epoch + 1 /\ retiring' = epoch + 1
    BY <1>1, <2>1, CellSteps
  <2>2. CASE Answered /\ AskAnswered(Head(wire).run, Head(wire).ok)
    BY <2>2 DEF Answered, AskAnswered
  <2> QED BY <2>1, <2>2, RetiringSteps
<1>4. CASE epoch' = epoch + 1 /\ retiring' = epoch + 1 /\ \A c \in Cells : st'[c] = Released(st[c])
  <2>1. \A c \in Cells : st'[c].epoch = st[c].epoch /\ st'[c].pending = 0 /\ st'[c].run = "no"
    BY <1>2, <1>4, MoreFields
  <2>2. \A c \in Cells : st'[c].epoch < retiring'
    BY <1>1, <1>2, <1>4, <2>1
  <2>3. \A r \in Runs' : reqs'[r].cell \in Cells
    <3>1. reqs' \in Seq(Requests)
      <4>1. TypeInv'
        BY TypeStep
      <4> QED BY <4>1 DEF TypeInv, Types
    <3>2. \A r \in Runs' : reqs'[r] \in Requests
      BY <3>1 DEF Runs
    <3> QED BY <3>2 DEF Requests
  <2> QED BY <2>1, <2>2, <2>3 DEF PatientInv
<1>5. CASE epoch' = epoch /\ retiring' = 0
  BY <1>5 DEF PatientInv, Stale
<1>6. CASE epoch' = epoch /\ retiring' = retiring
  <2>1. ASSUME NEW c \in Cells, Stale(c)' PROVE st'[c].pending = 0 /\ st'[c].run = "no"
    <3>1. retiring # 0 /\ retiring = epoch /\ st'[c].epoch < epoch
      BY <1>1, <1>6, <2>1 DEF Stale
    <3>2. CASE st'[c] = Queued(st[c])
      <4>1. st'[c].epoch = epoch
        BY <1>2, <3>2, MoreFields
      <4> QED BY <1>1, <3>1, <4>1
    <3>3. ASSUME ~Stale(c), NEW e \in Events \cup Replies, st'[c] = State(st[c], e) PROVE FALSE
      <4>1. st'[c].epoch = st[c].epoch
        BY <1>2, <3>3, MoreFields
      <4> QED BY <3>1, <3>3, <4>1 DEF Stale
    <3>4. CASE st'[c] = st[c]
      BY <3>1, <3>4 DEF Stale, PatientInv
    <3>5. CASE st'[c] = Unqueued(st[c])
      <4>1. st'[c].epoch = st[c].epoch /\ st'[c].run = st[c].run
            /\ (st'[c].pending = IF st[c].pending = 0 THEN 0 ELSE st[c].pending - 1)
        BY <1>2, <3>5, MoreFields
      <4>2. Stale(c)
        BY <3>1, <4>1 DEF Stale
      <4> QED BY <4>1, <4>2 DEF PatientInv
    <3>6. CASE st'[c] = Released(st[c])
      BY <1>2, <3>6, MoreFields
    <3>7. CASE st'[c] = Cleared(st[c])
      <4>1. st'[c].pending = st[c].pending
            /\ (st'[c].run = st[c].run \/ (st[c].pending = 0 /\ st'[c].run = "no"))
        BY <1>2, <3>7, StateFields
      <4>2. st'[c].epoch = st[c].epoch \/ (st[c].pending = 0 /\ st[c].state = "idle")
        BY <1>2, <3>7, MoreFields
      <4>3. CASE st'[c].epoch = st[c].epoch
        <5>1. Stale(c)
          BY <3>1, <4>3 DEF Stale
        <5> QED BY <4>1, <5>1 DEF PatientInv
      <4>4. CASE st[c].pending = 0 /\ st[c].state = "idle"
        <5>1. st[c].run = "no"
          BY <4>4 DEF BadgeInv, Badge
        <5> QED BY <4>1, <4>4, <5>1
      <4> QED BY <4>2, <4>3, <4>4
    <3> QED BY <3>2, <3>3, <3>4, <3>5, <3>6, <3>7, MarkSteps
  <2>2. ASSUME retiring' # 0, NEW r \in Runs', Old(r)' PROVE st'[reqs'[r].cell].epoch < retiring'
    <3>1. retiring # 0 /\ retiring = epoch /\ epoch' = epoch /\ r \in 1 .. Len(reqs')
      BY <1>1, <1>6, <2>2 DEF Runs
    <3>2. r \in 1 .. Len(reqs)
      <4>1. reqs'[r].epoch < epoch
        BY <2>2, <3>1 DEF Old
      <4>2. reqs'[r].epoch # epoch'
        BY <1>1, <3>1, <4>1
      <4> QED BY <3>1, <4>2, OldIsKnown
    <3>3. reqs'[r].cell = reqs[r].cell /\ reqs'[r].op = reqs[r].op /\ reqs'[r].epoch = reqs[r].epoch
      BY <3>2, RequestsKeep
    <3>4. r \in Runs /\ Old(r)
      BY <2>2, <3>1, <3>2, <3>3 DEF Runs, Old
    <3>5. PICK c \in Cells : c = reqs[r].cell
      <4>1. reqs[r] \in Requests
        BY <1>1, <3>2
      <4> QED BY <4>1 DEF Requests
    <3>6. st[c].epoch < retiring
      BY <3>1, <3>4, <3>5 DEF PatientInv
    <3>7. ~MayRun(c)
      <4>1. reqs[r].epoch < retiring
        BY <3>1, <3>4 DEF Old
      <4> QED BY <3>1, <3>4, <3>5, <4>1 DEF MayRun, Ending
    <3>8. st'[c].epoch = st[c].epoch \/ st'[c].epoch = -1
      BY <1>2, <3>7, MarkSteps, MoreFields
    <3>9. st'[c].epoch < retiring'
      BY <1>1, <1>6, <3>1, <3>6, <3>8
    <3> QED BY <3>3, <3>5, <3>9
  <2> QED BY <2>1, <2>2 DEF PatientInv
<1> QED BY <1>3, <1>4, <1>5, <1>6

(* With a stop or a restart not taken yet, the runs taken are older.       *)
LEMMA SentIsLast ==
  ASSUME TypeInv, OrderInv, RetireSent, NEW r \in Runs, reqs[r].at # "sent"
  PROVE  Old(r)
<1>1. Len(reqs) \in Nat /\ epoch \in Nat /\ reqs \in Seq(Requests) /\ r \in 1 .. Len(reqs)
  BY DEF TypeInv, Types, Runs
<1>2. PICK q \in 1 .. Len(reqs) : Retires(q) /\ reqs[q].at = "sent"
  BY DEF RetireSent
<1>3. r # q
  BY <1>2
<1>4. ~(q < r)
  BY <1>1, <1>2 DEF OrderInv
<1>5. reqs[r].epoch < reqs[q].epoch /\ reqs[q].epoch <= epoch
  BY <1>1, <1>2, <1>3, <1>4 DEF OrderInv
<1>6. reqs[r] \in Requests /\ reqs[q] \in Requests
  BY <1>1, <1>2
<1>7. reqs[r].epoch \in Nat /\ reqs[q].epoch \in Nat
  BY <1>6 DEF Requests
<1> QED BY <1>1, <1>5, <1>7 DEF Old

(* What counts for a cell is of a live run.                                *)
LEMMA HeardIsLive ==
  ASSUME TypeInv, RetireInv, PatientInv, NEW m \in Messages, wire # <<>>, m = Head(wire), m.kind = "event",
         NEW r, r = m.event.run, ~Stale(reqs[r].cell)
  PROVE  r \in Runs /\ ~Old(r)
<1>1. 1 \in 1 .. Len(wire) /\ m = wire[1] /\ epoch \in Nat /\ reqs \in Seq(Requests)
  BY DEF TypeInv, Types, WireInv
<1>2. r \in Runs
  BY <1>1 DEF TypeInv, WireInv
<1>3. reqs[r].epoch \in Nat
  <2>1. reqs[r] \in Requests
    BY <1>1, <1>2 DEF Runs
  <2> QED BY <2>1 DEF Requests
<1>4. ASSUME Old(r) PROVE FALSE
  <2>1. OldEvent(1)
    BY <1>1, <1>4 DEF OldEvent
  <2>2. retiring = epoch /\ epoch # 0
    BY <1>1, <1>3, <1>4, <2>1 DEF RetireInv, Old
  <2> QED BY <1>2, <1>4, <2>2 DEF PatientInv, Stale
<1> QED BY <1>2, <1>4

(* Nobody asks for another stop unless the epoch goes on.                  *)
LEMMA SentStays ==
  ASSUME TypeInv, [Next]_vars, epoch' = epoch, RetireSent'
  PROVE  RetireSent
<1>1. epoch \in Nat
  BY DEF TypeInv, Types
<1>2. PICK r \in 1 .. Len(reqs') : reqs'[r].op \in {"stop", "restart"} /\ reqs'[r].at = "sent"
  BY DEF RetireSent, Retires
<1>3. r \in 1 .. Len(reqs)
  <2>1. CASE Answered
    BY <1>2, <2>1 DEF Answered
  <2> QED BY <1>1, <1>2, <2>1, RetiringSteps
<1>4. reqs[r].op \in {"stop", "restart"} /\ reqs[r].at = "sent"
  BY <1>2, <1>3, RequestsKeep
<1> QED BY <1>3, <1>4 DEF RetireSent, Retires

(* A path of signs that begin no run rests where nothing runs ...          *)
LEMMA PathRests ==
  ASSUME NEW n \in Nat, NEW t, \A i \in 1 .. n : t[i] \notin {"busy", "input", "on"}
  PROVE  Path(t, n, "no", "no")
<1> DEFINE h == [i \in 0 .. n |-> "no"]
<1>1. h \in [0 .. n -> RunStates] /\ h[0] = "no" /\ h[n] = "no" /\ \A i \in 1 .. n : h[i - 1] = "no" /\ h[i] = "no"
  BY DEF RunStates
<1> HIDE DEF h
<1>2. Walks(h, t, n)
  BY <1>1 DEF Walks, Goes
<1> QED BY <1>1, <1>2 DEF Path

(* ... and one that leads somewhere leads there from rest, or stays there. *)
LEMMA PathRestarts ==
  ASSUME NEW n \in Nat, NEW s, \A i \in 1 .. n : s[i] # "input", NEW a, NEW z, Path(s, n, a, z)
  PROVE  Path(s, n, "no", z) \/ Path(s, n, "no", "no")
<1>1. PICK h \in [0 .. n -> RunStates] : h[0] = a /\ h[n] = z /\ Walks(h, s, n)
  BY DEF Path
<1> DEFINE Signed(i) == \E j \in 1 .. i : s[j] \in {"busy", "on", "idle"}
           g == [i \in 0 .. n |-> IF Signed(i) THEN h[i] ELSE "no"]
<1>2. g \in [0 .. n -> RunStates]
  BY DEF RunStates
<1>3. \A i \in 0 .. n : g[i] = IF Signed(i) THEN h[i] ELSE "no"
  OBVIOUS
<1>4. ~Signed(0)
  OBVIOUS
<1>5. \A i \in 1 .. n : /\ i \in 0 .. n /\ i - 1 \in 0 .. n /\ (Signed(i - 1) => Signed(i))
                        /\ (s[i] \in {"busy", "on", "idle"} => Signed(i))
                        /\ (s[i] \notin {"busy", "on", "idle"} => (Signed(i) <=> Signed(i - 1)))
  OBVIOUS
<1> HIDE DEF g, Signed
<1>6. Walks(g, s, n)
  <2> SUFFICES ASSUME NEW i \in 1 .. n PROVE Goes(g[i - 1], s[i], g[i])
    BY DEF Walks
  <2>1. Goes(h[i - 1], s[i], h[i])
    BY <1>1 DEF Walks
  <2>2. g[i - 1] = h[i - 1] \/ g[i - 1] = "no"
    BY <1>3, <1>5
  <2>3. CASE s[i] \in {"busy", "on", "idle"}
    <3>1. g[i] = h[i]
      BY <1>3, <1>5, <2>3
    <3> QED BY <2>1, <2>2, <2>3, <3>1 DEF Goes
  <2>4. CASE s[i] \notin {"busy", "on", "idle"}
    <3>1. h[i] = h[i - 1]
      BY <2>1, <2>4 DEF Goes
    <3>2. g[i] = g[i - 1]
      BY <1>3, <1>5, <2>4, <3>1
    <3> QED BY <2>4, <3>2 DEF Goes
  <2> QED BY <2>3, <2>4
<1>7. n \in 0 .. n /\ 0 \in 0 .. n
  OBVIOUS
<1>8. g[0] = "no" /\ (g[n] = z \/ g[n] = "no")
  BY <1>1, <1>3, <1>4, <1>7
<1> QED BY <1>2, <1>6, <1>8 DEF Path

(* The signs of a cell's live runs, those made since the last stop; a busy *)
(* may have been passed over, and an exited kernel ends what it ran.       *)
SignOf(k) == IF k = "input" THEN "on" ELSE k
Live(r, c) == r \in Runs /\ reqs[r].cell = c /\ ~Old(r)
LiveSign(m, c) ==
  IF m.kind = "event" THEN (IF Live(m.event.run, c) THEN SignOf(m.event.kind) ELSE "none")
  ELSE IF m.kind = "exited" THEN "idle" ELSE "none"
LivePub(e, c) == IF Live(e.run, c) /\ reqs[e.run].kernel = kernel THEN SignOf(e.kind) ELSE "none"
LiveWire(c) == [i \in 1 .. Len(wire) |-> LiveSign(wire[i], c)]
LiveIopub(c) == [i \in 1 .. Len(iopub) |-> LivePub(iopub[i], c)]
LWire(c, a, z) == Path(LiveWire(c), Len(wire), a, z)
LPub(c, a, z) == Path(LiveIopub(c), Len(iopub), a, z)

(* Where they lead: to rest, or to the run the kernel is at, or was when   *)
(* it died; and to rest with a stop to be taken, or with no kernel.        *)
Arrives(c, y, z) ==
  /\ RetireSent \/ kernel = NoKernel => y = "no" /\ z = "no"
  /\ z = "no" \/ (z = "input" /\ (dying \/ (step = "runs" /\ Live(Head(queue), c))))
PathAt(c) == \E y, z \in RunStates : LWire(c, st[c].run, y) /\ LPub(c, y, z) /\ Arrives(c, y, z)
PathInv == \A c \in Cells : PathAt(c)

(* A live run stays live in its epoch.                                     *)
LEMMA LiveStays ==
  ASSUME TypeInv, [Next]_vars, epoch' = epoch, NEW c, NEW r \in Runs
  PROVE  Live(r, c)' <=> Live(r, c)
<1>1. r \in 1 .. Len(reqs)
  BY DEF Runs
<1>2. r \in 1 .. Len(reqs') /\ reqs'[r].cell = reqs[r].cell /\ reqs'[r].op = reqs[r].op /\ reqs'[r].epoch = reqs[r].epoch
  BY <1>1, RequestsKeep
<1> QED BY <1>1, <1>2 DEF Live, Old, Runs

LEMMA LiveSigns ==
  ASSUME TypeInv, TimedInv, [Next]_vars, epoch' = epoch, NEW c
  PROVE  /\ \A m \in Messages : (m.kind = "event" => m.event.run \in Runs) => LiveSign(m, c)' = LiveSign(m, c)
         /\ \A e : Ran(e.run) /\ kernel' = kernel => LivePub(e, c)' = LivePub(e, c)
<1>1. ASSUME NEW m \in Messages, m.kind = "event" => m.event.run \in Runs PROVE LiveSign(m, c)' = LiveSign(m, c)
  <2>1. m.kind = "event" => (Live(m.event.run, c)' <=> Live(m.event.run, c))
    BY <1>1, LiveStays
  <2> QED BY <2>1 DEF LiveSign
<1>2. ASSUME NEW e, Ran(e.run), kernel' = kernel PROVE LivePub(e, c)' = LivePub(e, c)
  <2>1. e.run \in Runs /\ reqs'[e.run] = reqs[e.run]
    BY <1>2, DoneStays DEF Ran
  <2>2. Live(e.run, c)' <=> Live(e.run, c)
    BY <2>1, LiveStays
  <2> QED BY <1>2, <2>1, <2>2 DEF LivePub
<1> QED BY <1>1, <1>2

(* The facts about messages and events that are on their way.              *)
LEMMA OnTheirWay ==
  ASSUME TypeInv, TimedInv
  PROVE  /\ Len(wire) \in Nat /\ Len(iopub) \in Nat
         /\ \A i \in 1 .. Len(wire) : wire[i] \in Messages /\ (wire[i].kind = "event" => wire[i].event.run \in Runs)
         /\ \A i \in 1 .. Len(iopub) : iopub[i] \in Events /\ Ran(iopub[i].run) /\ iopub[i].run \in Runs
<1>1. WireInv /\ wire \in Seq(Messages) /\ iopub \in Seq(Events)
  BY DEF TypeInv, WireInv
<1>2. \A i \in 1 .. Len(wire) : wire[i] \in Messages
  BY <1>1
<1>3. \A i \in 1 .. Len(iopub) : iopub[i] \in Events
  BY <1>1
<1> QED BY <1>1, <1>2, <1>3 DEF WireInv, TimedInv, Unread, Ran

LEMMA LWireAt ==
  ASSUME TypeInv, TimedInv, [Next]_vars, epoch' = epoch, NEW c,
         NEW i \in 1 .. Len(wire), NEW k \in 1 .. Len(wire'), wire'[k] = wire[i]
  PROVE  LiveWire(c)'[k] = LiveWire(c)[i]
<1>1. PICK m \in Messages : m = wire[i] /\ (m.kind = "event" => m.event.run \in Runs)
  BY OnTheirWay
<1>2. LiveSign(m, c)' = LiveSign(m, c)
  BY <1>1, LiveSigns
<1>3. LiveWire(c)[i] = LiveSign(m, c)
  BY <1>1 DEF LiveWire
<1>4. LiveWire(c)'[k] = LiveSign(m, c)'
  BY <1>1 DEF LiveWire
<1> QED BY <1>2, <1>3, <1>4

LEMMA LPubAt ==
  ASSUME TypeInv, TimedInv, [Next]_vars, epoch' = epoch, kernel' = kernel, NEW c,
         NEW i \in 1 .. Len(iopub), NEW k \in 1 .. Len(iopub'), iopub'[k] = iopub[i]
  PROVE  LiveIopub(c)'[k] = LiveIopub(c)[i]
<1>1. PICK e \in Events : e = iopub[i] /\ Ran(e.run)
  BY OnTheirWay
<1>2. LivePub(e, c)' = LivePub(e, c)
  BY <1>1, LiveSigns
<1>3. LiveIopub(c)[i] = LivePub(e, c)
  BY <1>1 DEF LiveIopub
<1>4. LiveIopub(c)'[k] = LivePub(e, c)'
  BY <1>1 DEF LiveIopub
<1> QED BY <1>2, <1>3, <1>4

LEMMA LWireSame ==
  ASSUME TypeInv, TimedInv, [Next]_vars, epoch' = epoch, NEW c, NEW a, NEW z, LWire(c, a, z), wire' = wire
  PROVE  LWire(c, a, z)'
<1>1. \A i \in 1 .. Len(wire) : LiveWire(c)'[i] = LiveWire(c)[i]
  BY LWireAt
<1>2. Path(LiveWire(c)', Len(wire), a, z)
  BY <1>1, OnTheirWay, PathSame DEF LWire
<1> QED BY <1>2 DEF LWire

LEMMA LWireOn ==
  ASSUME TypeInv, TimedInv, [Next]_vars, epoch' = epoch, NEW c, NEW a, NEW y, NEW z \in RunStates, LWire(c, a, y),
         NEW m \in Messages, m.kind = "event" => m.event.run \in Runs, wire' = Append(wire, m),
         Goes(y, LiveSign(m, c), z)
  PROVE  LWire(c, a, z)'
<1>1. /\ Len(wire) \in Nat /\ Len(wire') = Len(wire) + 1 /\ wire'[Len(wire) + 1] = m
      /\ \A i \in 1 .. Len(wire) : wire'[i] = wire[i]
  BY Said DEF TypeInv
<1>2. \A i \in 1 .. Len(wire) : LiveWire(c)'[i] = LiveWire(c)[i]
  <2>1. \A i \in 1 .. Len(wire) : i \in 1 .. Len(wire')
    BY <1>1
  <2> QED BY <1>1, <2>1, LWireAt
<1>3. LiveWire(c)'[Len(wire) + 1] = LiveSign(m, c)
  <2>1. LiveSign(m, c)' = LiveSign(m, c)
    BY LiveSigns
  <2>2. Len(wire) + 1 \in 1 .. Len(wire')
    BY <1>1
  <2> QED BY <1>1, <2>1, <2>2 DEF LiveWire
<1>4. Path(LiveWire(c)', Len(wire) + 1, a, z)
  BY <1>1, <1>2, <1>3, PathOn DEF LWire
<1> QED BY <1>1, <1>4 DEF LWire

LEMMA LWireLess ==
  ASSUME TypeInv, TimedInv, [Next]_vars, epoch' = epoch, NEW c, NEW a, NEW z, LWire(c, a, z),
         wire # <<>>, wire' = Tail(wire)
  PROVE  \E b \in RunStates : Goes(a, LiveSign(Head(wire), c), b) /\ LWire(c, b, z)'
<1>1. /\ Len(wire) \in Nat \ {0} /\ Len(wire') = Len(wire) - 1 /\ Head(wire) = wire[1]
      /\ \A i \in 1 .. Len(wire') : wire'[i] = wire[i + 1] /\ i + 1 \in 1 .. Len(wire)
  BY Heard DEF TypeInv
<1>2. \A i \in 1 .. Len(wire) - 1 : LiveWire(c)'[i] = LiveWire(c)[i + 1]
  <2>1. \A i \in 1 .. Len(wire) - 1 : i \in 1 .. Len(wire')
    BY <1>1
  <2> QED BY <1>1, <2>1, LWireAt
<1>3. LiveWire(c)[1] = LiveSign(Head(wire), c)
  BY <1>1 DEF LiveWire
<1>4. \E b \in RunStates : Goes(a, LiveWire(c)[1], b) /\ Path(LiveWire(c)', Len(wire) - 1, b, z)
  BY <1>1, <1>2, PathLess DEF LWire
<1> QED BY <1>1, <1>3, <1>4 DEF LWire

LEMMA LPubSame ==
  ASSUME TypeInv, TimedInv, [Next]_vars, epoch' = epoch, kernel' = kernel, NEW c, NEW a, NEW z, LPub(c, a, z),
         iopub' = iopub
  PROVE  LPub(c, a, z)'
<1>1. \A i \in 1 .. Len(iopub) : LiveIopub(c)'[i] = LiveIopub(c)[i]
  BY LPubAt
<1>2. Path(LiveIopub(c)', Len(iopub), a, z)
  BY <1>1, OnTheirWay, PathSame DEF LPub
<1> QED BY <1>2 DEF LPub

LEMMA LPubOn ==
  ASSUME TypeInv, TimedInv, [Next]_vars, epoch' = epoch, kernel' = kernel, NEW c, NEW a, NEW y,
         NEW z \in RunStates, LPub(c, a, y),
         NEW e \in Events, Ran(e.run), iopub' = Append(iopub, e), Goes(y, LivePub(e, c), z)
  PROVE  LPub(c, a, z)'
<1>1. /\ Len(iopub) \in Nat /\ Len(iopub') = Len(iopub) + 1 /\ iopub'[Len(iopub) + 1] = e
      /\ \A i \in 1 .. Len(iopub) : iopub'[i] = iopub[i]
  BY DEF TypeInv, WireInv
<1>2. \A i \in 1 .. Len(iopub) : LiveIopub(c)'[i] = LiveIopub(c)[i]
  <2>1. \A i \in 1 .. Len(iopub) : i \in 1 .. Len(iopub')
    BY <1>1
  <2> QED BY <1>1, <2>1, LPubAt
<1>3. LiveIopub(c)'[Len(iopub) + 1] = LivePub(e, c)
  <2>1. LivePub(e, c)' = LivePub(e, c)
    BY LiveSigns
  <2>2. Len(iopub) + 1 \in 1 .. Len(iopub')
    BY <1>1
  <2> QED BY <1>1, <2>1, <2>2 DEF LiveIopub
<1>4. Path(LiveIopub(c)', Len(iopub) + 1, a, z)
  BY <1>1, <1>2, <1>3, PathOn DEF LPub
<1> QED BY <1>1, <1>4 DEF LPub

LEMMA LPubTwo ==
  ASSUME TypeInv, TimedInv, [Next]_vars, epoch' = epoch, kernel' = kernel, NEW c, NEW a, NEW x,
         NEW y \in RunStates, NEW z \in RunStates, LPub(c, a, x),
         NEW d \in Events, NEW e \in Events, Ran(d.run), Ran(e.run), iopub' = iopub \o <<d, e>>,
         Goes(x, LivePub(d, c), y), Goes(y, LivePub(e, c), z)
  PROVE  LPub(c, a, z)'
<1>1. /\ Len(iopub) \in Nat /\ Len(iopub') = Len(iopub) + 2 /\ iopub'[Len(iopub) + 1] = d
      /\ iopub'[Len(iopub) + 2] = e
      /\ \A i \in 1 .. Len(iopub) : iopub'[i] = iopub[i]
  <2>1. iopub \in Seq(Events)
    BY DEF TypeInv, WireInv
  <2> QED BY <2>1
<1>2. \A i \in 1 .. Len(iopub) : LiveIopub(c)'[i] = LiveIopub(c)[i]
  <2>1. \A i \in 1 .. Len(iopub) : i \in 1 .. Len(iopub')
    BY <1>1
  <2> QED BY <1>1, <2>1, LPubAt
<1>4. LiveIopub(c)'[Len(iopub) + 1] = LivePub(d, c) /\ LiveIopub(c)'[Len(iopub) + 2] = LivePub(e, c)
  <2>1. LivePub(d, c)' = LivePub(d, c) /\ LivePub(e, c)' = LivePub(e, c)
    BY LiveSigns
  <2>2. Len(iopub) + 1 \in 1 .. Len(iopub') /\ Len(iopub) + 2 \in 1 .. Len(iopub')
    BY <1>1
  <2> QED BY <1>1, <2>1, <2>2 DEF LiveIopub
<1>5. Path(LiveIopub(c)', Len(iopub) + 1, a, y)
  BY <1>1, <1>2, <1>4, PathOn DEF LPub
<1>6. (Len(iopub) + 1) + 1 = Len(iopub) + 2 /\ Len(iopub) + 1 \in Nat
  BY <1>1
<1>7. Path(LiveIopub(c)', (Len(iopub) + 1) + 1, a, z)
  BY <1>4, <1>5, <1>6, PathOn
<1> QED BY <1>1, <1>6, <1>7 DEF LPub

LEMMA LPubLess ==
  ASSUME TypeInv, TimedInv, [Next]_vars, epoch' = epoch, kernel' = kernel, NEW c, NEW a, NEW z, LPub(c, a, z),
         iopub # <<>>, iopub' = Tail(iopub)
  PROVE  \E b \in RunStates : Goes(a, LivePub(Head(iopub), c), b) /\ LPub(c, b, z)'
<1>1. /\ Len(iopub) \in Nat \ {0} /\ Len(iopub') = Len(iopub) - 1 /\ Head(iopub) = iopub[1]
      /\ \A i \in 1 .. Len(iopub') : iopub'[i] = iopub[i + 1] /\ i + 1 \in 1 .. Len(iopub)
  BY DEF TypeInv, WireInv
<1>2. \A i \in 1 .. Len(iopub) - 1 : LiveIopub(c)'[i] = LiveIopub(c)[i + 1]
  <2>1. \A i \in 1 .. Len(iopub) - 1 : i \in 1 .. Len(iopub')
    BY <1>1
  <2> QED BY <1>1, <2>1, LPubAt
<1>3. LiveIopub(c)[1] = LivePub(Head(iopub), c)
  BY <1>1 DEF LiveIopub
<1>4. \E b \in RunStates : Goes(a, LiveIopub(c)[1], b) /\ Path(LiveIopub(c)', Len(iopub) - 1, b, z)
  BY <1>1, <1>2, PathLess DEF LPub
<1> QED BY <1>1, <1>3, <1>4 DEF LPub

LEMMA PathIs ==
  ASSUME NEW c
  PROVE  /\ PathAt(c) => \E a \in {st[c].run}, y, z \in RunStates :
                           LWire(c, a, y) /\ LPub(c, y, z) /\ Arrives(c, y, z)
         /\ \A a \in {st'[c].run}, y, z \in RunStates :
              LWire(c, a, y)' /\ LPub(c, y, z)' /\ Arrives(c, y, z)' => PathAt(c)'
BY DEF PathAt, LWire, LPub, Arrives

LEMMA HeadRuns ==
  ASSUME TypeInv, TimedInv, queue # <<>>
  PROVE  /\ Head(queue) \in Runs /\ Head(queue) \in Ids /\ Ran(Head(queue)) /\ reqs[Head(queue)].kernel = kernel
<1>1. queue \in Seq(Ids)
  BY DEF TypeInv, Types
<1>2. 1 \in 1 .. Len(queue) /\ Head(queue) = queue[1] /\ queue[1] \in Ids
  BY <1>1
<1>3. Ran(queue[1]) /\ reqs[queue[1]].kernel = kernel
  BY <1>2 DEF TimedInv, KernelInv
<1> QED BY <1>2, <1>3 DEF Ran

(* Where the runs arrive does not change while the kernel is where it was, *)
(* or died.                                                                *)
LEMMA ArrivesStill ==
  ASSUME TypeInv, TimedInv, [Next]_vars, epoch' = epoch, kernel' = kernel, NEW c, NEW y, NEW z, Arrives(c, y, z),
         dying => dying', step = "runs" => dying' \/ (step' = "runs" /\ Head(queue') = Head(queue))
  PROVE  Arrives(c, y, z)'
<1>1. RetireSent' \/ kernel' = NoKernel => y = "no" /\ z = "no"
  BY SentStays DEF Arrives
<1>2. ASSUME z = "input" PROVE dying' \/ (step' = "runs" /\ Live(Head(queue), c)')
  <2>1. CASE dying
    BY <2>1
  <2>2. CASE ~dying
    <3>1. step = "runs" /\ Live(Head(queue), c)
      BY <1>2, <2>2 DEF Arrives
    <3>2. PICK r \in Runs : r = Head(queue)
      BY <3>1 DEF Live
    <3>3. dying' \/ (step' = "runs" /\ Head(queue') = r)
      BY <3>1, <3>2
    <3>4. Live(r, c)'
      BY <3>1, <3>2, LiveStays
    <3> QED BY <3>2, <3>3, <3>4 DEF Live
  <2> QED BY <2>1, <2>2
<1> QED BY <1>1, <1>2 DEF Arrives

LEMMA PathStill ==
  ASSUME TypeInv, TimedInv, [Next]_vars, epoch' = epoch, kernel' = kernel, NEW c, PathAt(c), iopub' = iopub,
         wire' = wire \/ \E m \in Messages : m.kind = "answer" /\ wire' = Append(wire, m),
         st'[c].run = st[c].run,
         dying => dying', step = "runs" => dying' \/ (step' = "runs" /\ Head(queue') = Head(queue))
  PROVE  PathAt(c)'
<1>1. PICK a \in {st[c].run}, y, z \in RunStates : LWire(c, a, y) /\ LPub(c, y, z) /\ Arrives(c, y, z)
  BY PathIs
<1>2. LPub(c, y, z)'
  BY <1>1, LPubSame
<1>3. Arrives(c, y, z)'
  BY <1>1, ArrivesStill
<1>4. LWire(c, a, y)'
  <2>1. CASE wire' = wire
    BY <1>1, <2>1, LWireSame
  <2>2. ASSUME NEW m \in Messages, m.kind = "answer", wire' = Append(wire, m) PROVE LWire(c, a, y)'
    <3>1. LiveSign(m, c) = "none"
      BY <2>2 DEF LiveSign
    <3>2. Goes(y, LiveSign(m, c), y)
      BY <3>1 DEF Goes
    <3> QED BY <1>1, <2>2, <3>2, LWireOn
  <2> QED BY <2>1, <2>2
<1> QED BY <1>1, <1>2, <1>3, <1>4, PathIs

(* The kernel's place is empty or another's: what it published is nobody's.*)
LEMMA PathEnds ==
  ASSUME TypeInv, TimedInv, [Next]_vars, epoch' = epoch, NEW c, PathAt(c), iopub' = iopub, st'[c].run = st[c].run,
         \A r : Ran(r) => reqs'[r].kernel # kernel',
         \/ \E m \in Messages : m.kind = "exited" /\ wire' = Append(wire, m)
         \/ /\ RetireSent \/ kernel = NoKernel
            /\ wire' = wire \/ \E m \in Messages : m.kind = "answer" /\ wire' = Append(wire, m)
  PROVE  PathAt(c)'
<1>1. PICK a \in {st[c].run}, y, z \in RunStates : LWire(c, a, y) /\ LPub(c, y, z) /\ Arrives(c, y, z)
  BY PathIs
<1>2. LPub(c, "no", "no")'
  <2>1. \A i \in 1 .. Len(iopub) : LiveIopub(c)'[i] = "none"
    <3> TAKE i \in 1 .. Len(iopub)
    <3>1. PICK e \in Events : e = iopub[i] /\ Ran(e.run)
      BY OnTheirWay
    <3>2. LivePub(e, c)' = "none"
      BY <3>1 DEF LivePub
    <3> QED BY <3>1, <3>2 DEF LiveIopub
  <2>2. Path(LiveIopub(c)', Len(iopub), "no", "no")
    BY <2>1, OnTheirWay, PathRests
  <2> QED BY <2>2 DEF LPub
<1>3. LWire(c, a, "no")'
  <2>0. "no" \in RunStates
    BY DEF RunStates
  <2>1. ASSUME NEW m \in Messages, m.kind = "exited", wire' = Append(wire, m) PROVE LWire(c, a, "no")'
    <3>1. LiveSign(m, c) = "idle"
      BY <2>1 DEF LiveSign
    <3>2. Goes(y, LiveSign(m, c), "no")
      BY <3>1 DEF Goes
    <3> QED BY <1>1, <2>0, <2>1, <3>2, LWireOn
  <2>2. ASSUME RetireSent \/ kernel = NoKernel, wire' = wire PROVE LWire(c, a, "no")'
    <3>1. LWire(c, a, "no")
      BY <1>1, <2>2 DEF Arrives
    <3> QED BY <2>2, <3>1, LWireSame
  <2>3. ASSUME RetireSent \/ kernel = NoKernel, NEW m \in Messages, m.kind = "answer", wire' = Append(wire, m)
        PROVE  LWire(c, a, "no")'
    <3>1. LWire(c, a, "no")
      BY <1>1, <2>3 DEF Arrives
    <3>2. Goes("no", LiveSign(m, c), "no")
      BY <2>3 DEF LiveSign, Goes
    <3> QED BY <2>0, <2>3, <3>1, <3>2, LWireOn
  <2> QED BY <2>1, <2>2, <2>3
<1>4. Arrives(c, "no", "no")'
  BY DEF Arrives
<1>5. "no" \in RunStates
  BY DEF RunStates
<1> QED BY <1>1, <1>2, <1>3, <1>4, <1>5, PathIs

LEMMA PathPumps ==
  ASSUME TypeInv, TimedInv, ReplyInv, OrderInv, [Next]_vars, NEW c, PathAt(c), PumpIopub \/ PumpShell
  PROVE  PathAt(c)'
<1>1. UNCHANGED <<editor, reqs, kernel, process>> /\ epoch' = epoch /\ st' = st /\ dying' = dying
      /\ step' = step /\ queue' = queue
  BY DEF PumpIopub, PumpShell, editor, process
<1>2. PICK a \in {st[c].run}, y, z \in RunStates : LWire(c, a, y) /\ LPub(c, y, z) /\ Arrives(c, y, z)
  BY PathIs
<1>3. CASE PumpIopub
  <2> DEFINE e == Head(iopub)
  <2>1. iopub # <<>> /\ iopub' = Tail(iopub) /\ Pump(e) /\ e \in Events /\ Ran(e.run) /\ e.run \in Runs
    <3>1. iopub # <<>> /\ iopub' = Tail(iopub) /\ Pump(e)
      BY <1>3 DEF PumpIopub
    <3>2. 1 \in 1 .. Len(iopub) /\ e = iopub[1]
      BY <3>1 DEF TypeInv, WireInv
    <3> QED BY <3>1, <3>2, OnTheirWay
  <2> HIDE DEF e
  <2>2. PICK b \in RunStates : Goes(y, LivePub(e, c), b) /\ LPub(c, b, z)'
    BY <1>1, <1>2, <2>1, LPubLess DEF e
  <2>3. LWire(c, a, b)'
    <3>1. CASE wire' = wire /\ reqs[e.run].kernel # kernel
      <4>1. b = y
        BY <2>2, <3>1 DEF LivePub, Goes
      <4> QED BY <1>1, <1>2, <3>1, <4>1, LWireSame
    <3>2. ASSUME reqs[e.run].kernel = kernel, NEW m \in Messages, wire' = Append(wire, m), m.kind = "event", m.event = e
          PROVE  LWire(c, a, b)'
      <4>1. LiveSign(m, c) = LivePub(e, c)
        BY <3>2 DEF LiveSign, LivePub
      <4> QED BY <1>1, <1>2, <2>1, <2>2, <3>2, <4>1, LWireOn
    <3> QED BY <2>1, <3>1, <3>2, PumpSays
  <2>4. RetireSent \/ kernel = NoKernel => b = y
    <3>1. ASSUME RetireSent \/ kernel = NoKernel PROVE LivePub(e, c) = "none"
      <4>1. CASE kernel = NoKernel
        BY <2>1, <4>1 DEF Ran, LivePub
      <4>2. CASE RetireSent
        <5>1. Old(e.run)
          BY <2>1, <4>2, SentIsLast DEF Ran
        <5> QED BY <5>1 DEF LivePub, Live
      <4> QED BY <3>1, <4>1, <4>2
    <3> QED BY <2>2, <3>1 DEF Goes
  <2>5. Arrives(c, b, z)
    BY <1>2, <2>4 DEF Arrives
  <2>6. Arrives(c, b, z)'
    BY <1>1, <2>5, ArrivesStill
  <2> QED BY <1>1, <1>2, <2>2, <2>3, <2>6, PathIs
<1>4. CASE PumpShell
  <2> DEFINE e == Head(shell)
  <2>1. iopub' = iopub /\ Pump(e) /\ e \in Replies /\ e.run \in Runs
    <3>1. shell # <<>> /\ iopub' = iopub /\ Pump(e)
      BY <1>4 DEF PumpShell
    <3>2. 1 \in 1 .. Len(shell) /\ e = shell[1] /\ e \in Replies
      BY <3>1 DEF TypeInv, WireInv
    <3> QED BY <3>1, <3>2 DEF TypeInv, Types
  <2> HIDE DEF e
  <2>2. LWire(c, a, y)'
    <3>1. CASE wire' = wire
      BY <1>1, <1>2, <3>1, LWireSame
    <3>2. ASSUME NEW m \in Messages, wire' = Append(wire, m), m.kind = "event", m.event = e
          PROVE  LWire(c, a, y)'
      <4>1. e.kind = "reply"
        BY <2>1 DEF Replies
      <4>2. Goes(y, LiveSign(m, c), y)
        BY <3>2, <4>1 DEF LiveSign, SignOf, Goes
      <4> QED BY <1>1, <1>2, <2>1, <3>2, <4>2, LWireOn
    <3> QED BY <2>1, <3>1, <3>2, PumpSays
  <2>3. LPub(c, y, z)'
    BY <1>1, <1>2, <2>1, LPubSame
  <2>4. Arrives(c, y, z)'
    BY <1>1, <1>2, ArrivesStill
  <2> QED BY <1>1, <1>2, <2>2, <2>3, <2>4, PathIs
<1> QED BY <1>3, <1>4

(* The editor hears of a run, or passes it over while it is retiring.      *)
LEMMA PathHeard ==
  ASSUME TypeInv, TimedInv, RetireInv, PatientInv, [Next]_vars, NEW c \in Cells, PathAt(c),
         CellEvent \/ Answered \/ Exited
  PROVE  PathAt(c)'
<1>1. /\ epoch' = epoch /\ kernel' = kernel /\ reqs' = reqs /\ iopub' = iopub /\ dying' = dying
      /\ step' = step /\ queue' = queue /\ wire # <<>> /\ wire' = Tail(wire)
  BY DEF CellEvent, Answered, Exited, process, channels
<1> DEFINE m == Head(wire)
<1>2. m \in Messages /\ (m.kind = "event" => m.event.run \in Runs /\ m.event \in Events \cup Replies)
  <2>1. 1 \in 1 .. Len(wire) /\ m = wire[1]
    BY <1>1 DEF TypeInv, WireInv
  <2> QED BY <2>1, OnTheirWay, Kinds
<1>3. PICK a \in {st[c].run}, y, z \in RunStates : LWire(c, a, y) /\ LPub(c, y, z) /\ Arrives(c, y, z)
  BY PathIs
<1>4. PICK b \in RunStates : Goes(a, LiveSign(m, c), b) /\ LWire(c, b, y)'
  BY <1>1, <1>3, LWireLess
<1>5. LPub(c, y, z)'
  BY <1>1, <1>3, LPubSame
<1>6. Arrives(c, y, z)'
  BY <1>1, <1>3, ArrivesStill
<1>7. ASSUME st'[c].run = b PROVE PathAt(c)'
  BY <1>3, <1>4, <1>5, <1>6, <1>7, PathIs
<1>8. st \in [Cells -> CellStates]
  BY DEF TypeInv, Types
<1>9. CASE Answered
  <2>1. m.kind = "answer"
    BY <1>9 DEF Answered
  <2>2. b = a
    BY <1>4, <2>1 DEF LiveSign, Goes
  <2>3. st'[c] = st[c] \/ st'[c] = Unqueued(st[c])
    BY <1>9 DEF Answered, RunAnswered, AskAnswered
  <2>4. st'[c].run = st[c].run
    BY <1>8, <2>3, MoreFields
  <2> QED BY <1>3, <1>7, <2>2, <2>4
<1>10. CASE Exited
  <2>1. m.kind = "exited" /\ st'[c] = Released(st[c])
    BY <1>10 DEF Exited
  <2>2. b = "no"
    BY <1>4, <2>1 DEF LiveSign, Goes
  <2>3. st'[c].run = "no"
    BY <1>8, <2>1, MoreFields
  <2> QED BY <1>7, <2>2, <2>3
<1>11. CASE CellEvent
  <2> DEFINE e == m.event
             d == reqs[e.run].cell
  <2>1. m.kind = "event" /\ e \in Events \cup Replies /\ e.run \in Runs
        /\ st' = IF Stale(d) THEN st ELSE [st EXCEPT ![d] = State(@, e)]
    BY <1>2, <1>11 DEF CellEvent
  <2>2. ~Stale(d) => ~Old(e.run)
    BY <1>1, <1>2, <2>1, HeardIsLive
  <2>3. LiveSign(m, c) = IF Live(e.run, c) THEN SignOf(e.kind) ELSE "none"
    BY <2>1 DEF LiveSign
  <2>4. Live(e.run, c) <=> d = c /\ ~Old(e.run)
    BY <2>1 DEF Live
  <2>5. e.kind \in {"busy", "input", "idle", "output", "clear", "wait", "reply"}
    BY <2>1 DEF Events, Replies
  <2> HIDE DEF m, e, d
  <2>6. CASE ~Live(e.run, c)
    <3>1. b = a
      BY <1>4, <2>3, <2>6 DEF Goes
    <3>2. st'[c] = st[c]
      BY <1>8, <2>1, <2>2, <2>4, <2>6
    <3> QED BY <1>3, <1>7, <3>1, <3>2
  <2>7. CASE Live(e.run, c) /\ ~Stale(c)
    <3>1. st'[c] = State(st[c], e) /\ st[c] \in CellStates
      BY <1>8, <2>1, <2>4, <2>7
    <3>2. State(st[c], e).run = IF e.kind = "busy" THEN "busy" ELSE IF e.kind = "input" THEN "input"
                              ELSE IF e.kind = "idle" THEN "no" ELSE st[c].run
      BY <2>1, <3>1, EventFields
    <3>3. Goes(a, SignOf(e.kind), b)
      BY <1>4, <2>3, <2>7
    <3>4. b = IF e.kind = "busy" THEN "busy" ELSE IF e.kind = "input" THEN "input"
              ELSE IF e.kind = "idle" THEN "no" ELSE a
      BY <2>5, <3>3 DEF Goes, SignOf
    <3> QED BY <1>3, <1>7, <3>1, <3>2, <3>4
  <2>8. CASE Stale(c) /\ Live(e.run, c)
    <3>1. st'[c].run = "no"
      BY <2>1, <2>4, <2>8 DEF PatientInv
    <3>2. LWire(c, "no", y)' \/ LWire(c, "no", "no")'
      <4>1. Len(wire') \in Nat
        BY <1>1, Heard DEF TypeInv
      <4>2. \A i \in 1 .. Len(wire') : LiveWire(c)'[i] # "input"
        BY DEF LiveWire, LiveSign, SignOf
      <4>3. Path(LiveWire(c)', Len(wire'), b, y)
        BY <1>4 DEF LWire
      <4>4. Path(LiveWire(c)', Len(wire'), "no", y) \/ Path(LiveWire(c)', Len(wire'), "no", "no")
        BY <4>1, <4>2, <4>3, PathRestarts
      <4> QED BY <4>4 DEF LWire
    <3>3. LPub(c, "no", z)' \/ LPub(c, "no", "no")'
      <4>1. Len(iopub') \in Nat
        BY <1>1, OnTheirWay
      <4>2. \A i \in 1 .. Len(iopub') : LiveIopub(c)'[i] # "input"
        BY DEF LiveIopub, LivePub, SignOf
      <4>3. Path(LiveIopub(c)', Len(iopub'), y, z)
        BY <1>5 DEF LPub
      <4>4. Path(LiveIopub(c)', Len(iopub'), "no", z) \/ Path(LiveIopub(c)', Len(iopub'), "no", "no")
        BY <4>1, <4>2, <4>3, PathRestarts
      <4> QED BY <4>4 DEF LPub
    <3>4. Arrives(c, y, "no")' /\ Arrives(c, "no", z)' /\ Arrives(c, "no", "no")'
      BY <1>6 DEF Arrives
    <3>5. "no" \in RunStates
      BY DEF RunStates
    <3>6. CASE LWire(c, "no", y)'
      BY <1>5, <1>6, <3>1, <3>6, PathIs
    <3>7. CASE LWire(c, "no", "no")'
      BY <3>1, <3>3, <3>4, <3>5, <3>7, PathIs
    <3> QED BY <3>2, <3>6, <3>7
  <2> QED BY <2>6, <2>7, <2>8
<1> QED BY <1>9, <1>10, <1>11

LEMMA PathKernel ==
  ASSUME TypeInv, TimedInv, OrderInv, [Next]_vars, NEW c \in Cells, PathAt(c), KernelSteps
  PROVE  PathAt(c)'
<1>1. /\ epoch' = epoch /\ kernel' = kernel /\ reqs' = reqs /\ wire' = wire /\ st' = st
  BY DEF KernelSteps, KernelBegins, KernelEnds, KernelDies, KernelPrints, editor
<1>2. CASE KernelDies
  <2>1. iopub' = iopub /\ dying' = TRUE
    BY <1>2 DEF KernelDies, channels
  <2>2. dying'
    BY <2>1
  <2> QED BY <1>1, <2>1, <2>2, PathStill
<1>3. PICK a \in {st[c].run}, y, z \in RunStates : LWire(c, a, y) /\ LPub(c, y, z) /\ Arrives(c, y, z)
  BY PathIs
<1>4. LWire(c, a, y)' /\ st'[c].run = a
  BY <1>1, <1>3, LWireSame
<1>5. RetireSent' \/ kernel' = NoKernel => y = "no" /\ z = "no"
  BY <1>1, <1>3, SentStays DEF Arrives
<1>6. CASE ~KernelDies
  <2>1. ~dying /\ dying' = dying /\ kernel # NoKernel
    BY <1>6 DEF KernelSteps, KernelBegins, KernelEnds, KernelPrints, MayPublish, Up
  <2>2. queue # <<>>
    BY <1>6 DEF KernelSteps, KernelBegins, KernelEnds, KernelPrints, TypeInv, WireInv
  <2>3. PICK x \in Runs : x = Head(queue) /\ x \in Ids /\ Ran(x) /\ reqs[x].kernel = kernel
    BY <2>2, HeadRuns
  <2>4. Live(x, c)' <=> Live(x, c)
    BY <1>1, LiveStays
  <2>5. RetireSent \/ RetireSent' => ~Live(x, c)
    <3>1. RetireSent' => RetireSent
      BY <1>1, SentStays
    <3>2. RetireSent => Old(x)
      BY <2>3, SentIsLast DEF Ran
    <3> QED BY <3>1, <3>2 DEF Live
  <2>6. z = "no" \/ (z = "input" /\ step = "runs" /\ Live(x, c))
    BY <1>3, <2>1, <2>3 DEF Arrives
  <2>7. ASSUME NEW s \in {"busy", "input", "idle", "output", "clear", "wait"}
        PROVE  /\ Event(s, x) \in Events /\ Event(s, x).run = x
               /\ LivePub(Event(s, x), c) = IF Live(x, c) THEN SignOf(s) ELSE "none"
    BY <2>3 DEF Event, Events, LivePub
  <2>9. ASSUME NEW w \in RunStates, LPub(c, y, w)',
               w = "no" \/ (w = "input" /\ Live(x, c) /\ step' = "runs" /\ Head(queue') = x)
        PROVE  PathAt(c)'
    <3>1. RetireSent' \/ kernel' = NoKernel => y = "no" /\ w = "no"
      BY <1>1, <1>5, <2>1, <2>5, <2>9
    <3>2. w = "no" \/ (w = "input" /\ step' = "runs" /\ Live(Head(queue), c)')
      BY <2>4, <2>9 DEF Live, Old
    <3>3. Arrives(c, y, w)'
      BY <3>1, <3>2 DEF Arrives
    <3> QED BY <1>4, <2>9, <3>3, PathIs
  <2>10. ASSUME NEW s \in {"input", "idle"}, step = "waits", iopub' = iopub \o <<Event("busy", x), Event(s, x)>>,
                s = "input" => step' = "runs" /\ Head(queue') = x
         PROVE  PathAt(c)'
    <3> DEFINE d == Event("busy", x)
               e == Event(s, x)
    <3>1. /\ d \in Events /\ d.run = x /\ LivePub(d, c) = IF Live(x, c) THEN "busy" ELSE "none"
          /\ e \in Events /\ e.run = x /\ LivePub(e, c) = IF Live(x, c) THEN SignOf(s) ELSE "none"
      <4>1. SignOf("busy") = "busy"
        BY DEF SignOf
      <4> QED BY <2>7, <4>1
    <3>2. z = "no"
      BY <2>6, <2>10
    <3>3. PICK v \in RunStates, w \in RunStates : /\ v = IF Live(x, c) THEN "busy" ELSE "no"
                                                 /\ w = IF Live(x, c) /\ s = "input" THEN "input" ELSE "no"
      BY DEF RunStates
    <3>4. iopub' = iopub \o <<d, e>> /\ Ran(x)
      BY <2>3, <2>10
    <3> HIDE DEF d, e
    <3>5. Goes(z, LivePub(d, c), v) /\ Goes(v, LivePub(e, c), w)
      BY <2>10, <3>1, <3>2, <3>3 DEF Goes, SignOf
    <3>6. LPub(c, y, w)'
      BY <1>1, <1>3, <3>1, <3>3, <3>4, <3>5, LPubTwo
    <3> QED BY <2>9, <2>10, <3>3, <3>6
  <2>11. ASSUME NEW s \in {"idle", "output", "clear", "wait"}, step = "runs", iopub' = Append(iopub, Event(s, x)),
                s # "idle" => step' = "runs" /\ Head(queue') = x
         PROVE  PathAt(c)'
    <3> DEFINE e == Event(s, x)
               w == IF s = "idle" THEN "no" ELSE z
    <3>1. e \in Events /\ e.run = x /\ LivePub(e, c) = IF Live(x, c) THEN SignOf(s) ELSE "none"
      BY <2>7
    <3>2. w \in RunStates
      BY DEF RunStates
    <3>3. iopub' = Append(iopub, e) /\ Ran(x)
      BY <2>3, <2>11
    <3> HIDE DEF e
    <3>4. Goes(z, LivePub(e, c), w)
      <4>1. CASE Live(x, c)
        BY <2>11, <3>1, <4>1 DEF Goes, SignOf
      <4>2. CASE ~Live(x, c)
        BY <2>6, <3>1, <4>2 DEF Goes
      <4> QED BY <4>1, <4>2
    <3>5. LPub(c, y, w)'
      BY <1>1, <1>3, <3>1, <3>2, <3>3, <3>4, LPubOn
    <3> QED BY <2>6, <2>9, <2>11, <3>2, <3>5
  <2>12. CASE KernelBegins
    <3>1. step = "waits"
      BY <2>12 DEF KernelBegins
    <3>2. \/ iopub' = iopub \o <<Event("busy", x), Event("input", x)>> /\ step' = "runs" /\ queue' = queue
          \/ iopub' = iopub \o <<Event("busy", x), Event("idle", x)>>
      BY <2>3, <2>12 DEF KernelBegins
    <3> QED BY <2>3, <2>10, <3>1, <3>2
  <2>13. CASE KernelEnds
    <3>1. step = "runs" /\ iopub' = Append(iopub, Event("idle", x))
      BY <2>3, <2>13 DEF KernelEnds
    <3> QED BY <2>11, <3>1
  <2>14. ASSUME NEW s \in {"output", "clear", "wait"}, KernelPrints(s) PROVE PathAt(c)'
    <3>1. step = "runs" /\ step' = "runs" /\ iopub' = Append(iopub, Event(s, x)) /\ Head(queue') = x
      BY <2>3, <2>14 DEF KernelPrints
    <3> QED BY <2>11, <3>1
  <2> QED BY <1>6, <2>12, <2>13, <2>14 DEF KernelSteps
<1> QED BY <1>2, <1>6


(* A stop or a restart makes the runs before it old; what is taken of them *)
(* is on its way.                                                          *)
LEMMA PathRetire ==
  ASSUME TypeInv, TimedInv, OrderInv, [Next]_vars, NEW c \in Cells, Stop \/ Restart
  PROVE  PathAt(c)'
<1>1. /\ epoch' = epoch + 1 /\ st'[c] = Released(st[c]) /\ wire' = wire /\ iopub' = iopub /\ kernel' = kernel
      /\ \E o \in {"stop", "restart"} : reqs' = Append(reqs, Request(o, AnyCell, epoch + 1, FALSE))
  BY DEF Stop, Restart, Retire, channels
<1>2. Types /\ epoch \in Nat /\ st[c] \in CellStates /\ reqs \in Seq(Requests) /\ Len(reqs) \in Nat
  BY DEF TypeInv, Types
<1>3. st'[c].run = "no"
  BY <1>1, <1>2, MoreFields
<1>4. ASSUME NEW r \in Runs PROVE ~Live(r, c)'
  <2>1. r \in 1 .. Len(reqs) /\ reqs[r].epoch <= epoch
    BY DEF OrderInv, Runs
  <2>2. reqs'[r].epoch = reqs[r].epoch /\ reqs[r] \in Requests
    BY <1>2, <2>1, RequestsKeep
  <2>3. reqs[r].epoch \in Nat
    BY <2>2 DEF Requests
  <2>4. reqs'[r].epoch < epoch'
    BY <1>1, <1>2, <2>1, <2>2, <2>3
  <2> QED BY <2>4 DEF Live, Old
<1>5. LPub(c, "no", "no")'
  <2>1. \A i \in 1 .. Len(iopub) : LiveIopub(c)'[i] = "none"
    <3> TAKE i \in 1 .. Len(iopub)
    <3>1. PICK e \in Events : e = iopub[i] /\ e.run \in Runs
      BY OnTheirWay
    <3>2. LivePub(e, c)' = "none"
      BY <1>4, <3>1 DEF LivePub
    <3> QED BY <1>1, <3>1, <3>2 DEF LiveIopub
  <2>2. Path(LiveIopub(c)', Len(iopub), "no", "no")
    BY <2>1, OnTheirWay, PathRests
  <2> QED BY <1>1, <2>2 DEF LPub
<1>6. LWire(c, "no", "no")'
  <2>1. \A i \in 1 .. Len(wire) : LiveWire(c)'[i] \in {"none", "idle"}
    <3> TAKE i \in 1 .. Len(wire)
    <3>1. PICK m \in Messages : m = wire[i] /\ (m.kind = "event" => m.event.run \in Runs)
      BY OnTheirWay
    <3>2. LiveSign(m, c)' \in {"none", "idle"}
      BY <1>4, <3>1 DEF LiveSign
    <3> QED BY <1>1, <3>1, <3>2 DEF LiveWire
  <2>2. Path(LiveWire(c)', Len(wire), "no", "no")
    BY <2>1, OnTheirWay, PathRests
  <2> QED BY <1>1, <2>2 DEF LWire
<1>7. Arrives(c, "no", "no")'
  BY DEF Arrives
<1>8. "no" \in RunStates
  BY DEF RunStates
<1> QED BY <1>3, <1>5, <1>6, <1>7, <1>8, PathIs

LEMMA PathStep ==
  ASSUME OneStart, TypeInv, TimedInv, ReplyInv, OrderInv, StartInv, BadgeInv, RetireInv, PatientInv, PathInv, [Next]_vars
  PROVE  PathInv'
<1> SUFFICES ASSUME NEW c \in Cells PROVE PathAt(c)'
  BY DEF PathInv
<1>1. PathAt(c) /\ Types /\ st \in [Cells -> CellStates] /\ st[c] \in CellStates /\ st[c].pending \in Nat
  BY DEF PathInv, TypeInv, Types, CellStates
<1>2. ASSUME NEW r \in 1 .. Len(reqs), NEW ok \in BOOLEAN PROVE Answer(r, ok) \in Messages /\ Answer(r, ok).kind = "answer"
  <2>1. r \in Ids
    BY <1>1, Numbers DEF TypeInv, BoundInv
  <2> QED BY <2>1 DEF Answer, Messages
<1>3. ASSUME RunAll \/ SendNext \/ Start \/ UNCHANGED vars \/ \E d \in Cells : RunCell(d) \/ Clear(d)
      PROVE  PathAt(c)'
  <2>1. /\ epoch' = epoch /\ kernel' = kernel /\ iopub' = iopub /\ wire' = wire /\ dying' = dying
        /\ step' = step /\ queue' = queue
        /\ st'[c] = st[c] \/ st'[c] = Queued(st[c]) \/ st'[c] = Cleared(st[c])
    BY <1>1, <1>3 DEF RunAll, SendNext, Start, RunCell, Clear, Mark, vars, editor, process, channels
  <2>2. st'[c].run = st[c].run
    <3>1. st[c].state = "idle" => st[c].run = "no"
      BY DEF BadgeInv, Badge
    <3> QED BY <1>1, <2>1, <3>1, StateFields
  <2> QED BY <1>1, <2>1, <2>2, PathStill
<1>4. CASE Stop \/ Restart
  BY <1>4, PathRetire
<1>5. CASE CellEvent \/ Answered \/ Exited
  BY <1>1, <1>5, PathHeard
<1>6. CASE PumpIopub \/ PumpShell
  BY <1>1, <1>6, PathPumps
<1>7. CASE KernelSteps
  BY <1>1, <1>7, PathKernel
<1>8. ASSUME NEW r \in 1 .. Len(reqs), Execute(r) \/ Killed(r) \/ StartKernel(r) \/ ClearCell(r) PROVE PathAt(c)'
  <2>1. /\ epoch' = epoch /\ kernel' = kernel /\ iopub' = iopub /\ st' = st /\ dying' = dying /\ step' = step
        /\ queue' = queue \/ queue' = Append(queue, r)
        /\ wire' = wire \/ \E ok \in BOOLEAN : wire' = Append(wire, Answer(r, ok))
    BY <1>8 DEF Execute, Killed, StartKernel, ClearCell, Say, editor, process, channels
  <2>2. step = "runs" => Head(queue') = Head(queue)
    <3>1. step = "runs" => queue # <<>>
      BY DEF TypeInv, WireInv
    <3>2. queue \in Seq(Ids)
      BY <1>1 DEF Types
    <3>3. queue # <<>> => Head(Append(queue, r)) = Head(queue)
      BY <3>2
    <3> QED BY <2>1, <3>1, <3>3
  <2>3. wire' = wire \/ \E m \in Messages : m.kind = "answer" /\ wire' = Append(wire, m)
    BY <1>2, <2>1
  <2> QED BY <1>1, <2>1, <2>2, <2>3, PathStill
<1>9. ASSUME NEW r \in 1 .. Len(reqs), TakeKernel(r) PROVE PathAt(c)'
  <2>1. /\ epoch' = epoch /\ kernel' = NoKernel /\ iopub' = iopub /\ st' = st /\ wire' = wire
        /\ reqs[r].op \in {"stop", "restart"} /\ reqs[r].at = "sent"
    BY <1>9 DEF TakeKernel, TakenUp, editor, channels
  <2>2. RetireSent
    BY <2>1 DEF RetireSent, Retires
  <2>3. \A q : Ran(q) => reqs'[q].kernel # kernel'
    BY <2>1, DoneStays DEF Ran
  <2> QED BY <1>1, <2>1, <2>2, <2>3, PathEnds
<1>10. ASSUME NEW r \in 1 .. Len(reqs), Launched(r) PROVE PathAt(c)'
  <2>1. /\ epoch' = epoch /\ iopub' = iopub /\ st' = st /\ reqs[r].at = "launch"
        /\ \E ok \in BOOLEAN : wire' = Append(wire, Answer(r, ok))
        /\ kernel' = r \/ (kernel' = kernel /\ dying' = dying /\ queue' = queue /\ step' = step)
    BY <1>10 DEF Launched, Say, editor, channels
  <2>2. \E m \in Messages : m.kind = "answer" /\ wire' = Append(wire, m)
    BY <1>2, <2>1
  <2>3. CASE kernel' = kernel /\ dying' = dying /\ queue' = queue /\ step' = step
    BY <1>1, <2>1, <2>2, <2>3, PathStill
  <2>4. CASE kernel' = r
    <3>1. kernel = NoKernel
      BY <2>1 DEF StartInv
    <3>2. ASSUME NEW q, Ran(q) PROVE reqs'[q].kernel # kernel'
      <4>1. reqs'[q] = reqs[q] /\ q \in Runs
        BY <3>2, DoneStays DEF Ran
      <4>2. reqs[q].kernel > 0 => reqs[reqs[q].kernel].at = "done"
        BY <3>2, <4>1 DEF TimedInv, KernelInv, Starter
      <4>3. reqs[q].kernel # r
        BY <2>1, <4>2
      <4> QED BY <2>4, <4>1, <4>3
    <3> QED BY <1>1, <2>1, <2>2, <3>1, <3>2, PathEnds
  <2> QED BY <2>1, <2>3, <2>4
<1>11. CASE KernelExited
  <2>1. /\ epoch' = epoch /\ kernel' = NoKernel /\ iopub' = iopub /\ st' = st /\ reqs' = reqs
        /\ wire' = Append(wire, [kind |-> "exited"])
    BY <1>11 DEF KernelExited, Say, editor, channels
  <2>2. \A q : Ran(q) => reqs'[q].kernel # kernel'
    BY <2>1 DEF Ran
  <2>3. \E m \in Messages : m.kind = "exited" /\ wire' = Append(wire, m)
    BY <2>1 DEF Messages
  <2> QED BY <1>1, <2>1, <2>2, <2>3, PathEnds
<1> QED BY <1>3, <1>4, <1>5, <1>6, <1>7, <1>8, <1>9, <1>10, <1>11 DEF Next, User, Editor, Backend

(* The live submissions of a cell that are still to be told of, each by    *)
(* its request, and by 0 the one that waits in the chain.                  *)
InQueue(r) == \E i \in 1 .. Len(queue) : queue[i] = r /\ (i = 1 => step = "waits")
Began(r) == reqs[r].kernel = kernel /\ \E i \in 1 .. Len(iopub) : iopub[i].kind = "busy" /\ iopub[i].run = r
ToldOf(r) == \E i \in 1 .. Len(wire) :
  wire[i].kind = "event" /\ wire[i].event.kind = "busy" /\ wire[i].event.run = r
Refused(r) == \E i \in 1 .. Len(wire) : wire[i].kind = "answer" /\ wire[i].run = r /\ ~wire[i].ok
OnWay(r) == reqs[r].at = "sent" \/ InQueue(r) \/ Began(r) \/ ToldOf(r) \/ Refused(r)
InChain(c) == \E i \in 1 .. Len(chain) : (i = 1 => ~Asked) /\ chain[i] = c
Owing(c) == {r \in 0 .. Len(reqs) : IF r = 0 THEN InChain(c) ELSE Live(r, c) /\ OnWay(r)}

(* The editor counts no more of them, unless it is to hear of a death.     *)
CountInv == \A c \in Cells : DeathTold \/ RetireSent => st[c].pending <= Cardinality(Owing(c))

(* The message the editor takes is the one that tells of the run.          *)
Hears(r) == LET m == Head(wire) IN
  /\ wire # <<>> /\ wire' = Tail(wire)
  /\ \/ m.kind = "event" /\ m.event.kind = "busy" /\ m.event.run = r
     \/ m.kind = "answer" /\ m.run = r /\ ~m.ok

LEMMA WireTells ==
  ASSUME TypeInv, TimedInv, ReplyInv, [Next]_vars, NEW r, ToldOf(r) \/ Refused(r)
  PROVE  ToldOf(r)' \/ Refused(r)' \/ Hears(r)
<1>1. WireInv
  BY DEF TypeInv
<1>2. PICK i \in 1 .. Len(wire) : \/ wire[i].kind = "event" /\ wire[i].event.kind = "busy" /\ wire[i].event.run = r
                                  \/ wire[i].kind = "answer" /\ wire[i].run = r /\ ~wire[i].ok
  BY DEF ToldOf, Refused
<1>3. ASSUME NEW k \in 1 .. Len(wire'), wire'[k] = wire[i] PROVE ToldOf(r)' \/ Refused(r)'
  BY <1>2, <1>3 DEF ToldOf, Refused
<1>4. CASE wire' = wire
  BY <1>3, <1>4
<1>5. ASSUME NEW m \in Messages, wire' = Append(wire, m) PROVE ToldOf(r)' \/ Refused(r)'
  <2>1. wire'[i] = wire[i] /\ Len(wire') = Len(wire) + 1 /\ Len(wire) \in Nat
    BY <1>1, <1>5, Said
  <2>2. i \in 1 .. Len(wire')
    BY <2>1
  <2> QED BY <1>3, <2>1, <2>2
<1>6. ASSUME wire # <<>>, wire' = Tail(wire) PROVE ToldOf(r)' \/ Refused(r)' \/ Hears(r)
  <2>1. /\ Len(wire) \in Nat \ {0} /\ Len(wire') = Len(wire) - 1
        /\ \A j \in 1 .. Len(wire') : wire'[j] = wire[j + 1]
        /\ Head(wire) = wire[1]
    BY <1>1, <1>6, Heard
  <2>2. CASE i = 1
    BY <1>2, <1>6, <2>1, <2>2 DEF Hears
  <2>3. CASE i # 1
    <3>1. i - 1 \in 1 .. Len(wire') /\ (i - 1) + 1 = i
      BY <2>1, <2>3
    <3>2. wire'[i - 1] = wire[i]
      BY <2>1, <3>1
    <3> QED BY <1>3, <3>1, <3>2
  <2> QED BY <2>2, <2>3
<1> QED BY <1>4, <1>5, <1>6, WireSteps

(* A live run nobody took is sent, whatever stop was asked for.            *)
LEMMA SentGoes ==
  ASSUME TypeInv, [Next]_vars, NEW r \in Runs, reqs[r].at = "sent"
  PROVE  reqs'[r].at = "sent" \/ Execute(r)
<1>1. Types /\ r \in 1 .. Len(reqs) /\ reqs[r].op = "execute" /\ Len(reqs) \in Nat
  BY DEF TypeInv, Types, Runs
<1>2. CASE reqs' = reqs
  BY <1>2
<1>3. ASSUME NEW q \in Requests, Made(q) PROVE reqs'[r].at = "sent"
  <2>1. reqs'[r] = reqs[r]
    BY <1>1, <1>3, RequestMade DEF Made
  <2> QED BY <2>1
<1>4. CASE User \/ SendNext \/ CellEvent \/ Answered \/ Exited \/ UNCHANGED vars \/ KernelSteps \/ KernelExited \/ PumpIopub
           \/ PumpShell
  <2>1. reqs' = reqs \/ \E q \in Requests : Made(q)
    <3>1. reqs' = reqs \/ reqs' # reqs
      OBVIOUS
    <3>2. ASSUME NEW x \in 1 .. Len(reqs), NEW a \in {"launch", "kill", "done"}, NEW k \in -1 .. MaxRequests,
                 GoesOn(x, a, k)
          PROVE  reqs' = reqs
      <4>1. Len(reqs') = Len(reqs)
        BY <1>1, <3>2, RequestBecomes DEF GoesOn
      <4>2. \A q : Append(reqs, q) # reqs'
        <5> SUFFICES ASSUME NEW q, Append(reqs, q) = reqs' PROVE FALSE
          OBVIOUS
        <5>1. reqs \in Seq(Requests)
          BY <1>1 DEF Types
        <5>2. Len(Append(reqs, q)) = Len(reqs) + 1
          BY <5>1
        <5> QED BY <1>1, <4>1, <5>2
      <4> QED BY <1>4, <4>2 DEF User, RunCell, Clear, RunAll, Stop, Restart, Start, SendNext, CellEvent,
                 Answered,
              Exited, vars, KernelSteps, KernelBegins, KernelEnds, KernelDies, KernelPrints, KernelExited,
              PumpIopub, PumpShell
    <3> QED BY <3>2, RequestSteps
  <2> QED BY <1>2, <1>3, <2>1
<1>5. ASSUME NEW x \in 1 .. Len(reqs), Execute(x) \/ TakeKernel(x) \/ Killed(x) \/ StartKernel(x) \/ Launched(x) \/ ClearCell(x)
      PROVE  reqs'[r].at = "sent" \/ Execute(r)
  <2>1. CASE x = r
    <3>1. ~TakeKernel(x) /\ ~Killed(x) /\ ~StartKernel(x) /\ ~Launched(x) /\ ~ClearCell(x)
      BY <1>1, <2>1 DEF TakeKernel, Killed, StartKernel, Launched, ClearCell, TakenUp
    <3> QED BY <1>5, <2>1, <3>1
  <2>2. CASE x # r
    <3>1. \E a \in {"launch", "kill", "done"} : \E k : Becomes(x, a, k)
      BY <1>5 DEF Execute, TakeKernel, Killed, StartKernel, Launched, ClearCell
    <3>2. reqs'[r] = reqs[r]
      <4>1. reqs \in Seq(Requests)
        BY <1>1 DEF Types
      <4> QED BY <1>1, <2>2, <3>1, <4>1 DEF Becomes
    <3> QED BY <3>2
  <2> QED BY <2>1, <2>2
<1> QED BY <1>4, <1>5 DEF Next, Editor, Backend

(* How a kernel that lives and is not to be stopped moves.                 *)
LEMMA KernelMoves ==
  ASSUME TypeInv, StartInv, [Next]_vars, ~RetireSent, ~dying, ~dying'
  PROVE  \/ kernel = NoKernel /\ iopub' = iopub
         \/ /\ kernel' = kernel
            /\ \/ UNCHANGED <<iopub, queue, step>>
               \/ UNCHANGED <<iopub, step>> /\ \E r \in Runs : queue' = Append(queue, r)
               \/ PumpIopub
               \/ KernelBegins \/ KernelEnds \/ \E k \in {"output", "clear", "wait"} : KernelPrints(k)
<1>1. CASE UNCHANGED vars \/ User \/ Editor \/ PumpShell
  BY <1>1 DEF vars, User, Editor, RunCell, Clear, RunAll, Stop, Restart, Start, SendNext, CellEvent,
     Answered, Exited,
     PumpShell, process, channels
<1>2. CASE PumpIopub \/ KernelExited \/ KernelSteps
  BY <1>2 DEF PumpIopub, KernelExited, KernelSteps, KernelBegins, KernelEnds, KernelDies, KernelPrints
<1>3. ASSUME NEW r \in 1 .. Len(reqs), Killed(r) \/ StartKernel(r) \/ ClearCell(r)
      PROVE  UNCHANGED <<kernel, iopub, queue, step>>
  BY <1>3 DEF Killed, StartKernel, ClearCell, process, channels
<1>4. ASSUME NEW r \in 1 .. Len(reqs), Execute(r)
      PROVE  UNCHANGED <<kernel, iopub, step>> /\ (queue' = queue \/ (r \in Runs /\ queue' = Append(queue, r)))
  BY <1>4 DEF Execute, TakenUp, channels, Runs
<1>5. ASSUME NEW r \in 1 .. Len(reqs), TakeKernel(r) PROVE FALSE
  BY <1>5 DEF TakeKernel, TakenUp, RetireSent, Retires
<1>6. ASSUME NEW r \in 1 .. Len(reqs), Launched(r) PROVE kernel = NoKernel /\ iopub' = iopub
  BY <1>6 DEF Launched, channels, StartInv
<1> QED BY <1>1, <1>2, <1>3, <1>4, <1>5, <1>6 DEF Next, Backend

(* What a live run is on the way as, step by step.                         *)
LEMMA QueueTells ==
  ASSUME TypeInv, TimedInv, ReplyInv, StartInv, [Next]_vars, ~RetireSent, ~dying, ~dying', NEW r \in Runs,
         InQueue(r) \/ Began(r)
  PROVE  InQueue(r)' \/ Began(r)' \/ ToldOf(r)'
<1>1. /\ iopub \in Seq(Events) /\ queue \in Seq(Ids) /\ Len(iopub) \in Nat /\ Len(queue) \in Nat /\ reqs \in Seq(Requests)
      /\ WireInv
  BY DEF TypeInv, Types, WireInv
<1>2. Ran(r) /\ reqs[r].kernel = kernel /\ kernel # NoKernel /\ reqs'[r] = reqs[r]
  <2>1. \A i \in 1 .. Len(queue) : Ran(queue[i]) /\ reqs[queue[i]].kernel = kernel
    BY DEF TimedInv, KernelInv
  <2>2. Ran(r) /\ reqs[r].kernel = kernel
    BY <2>1, OnTheirWay DEF InQueue, Began
  <2> QED BY <2>2, DoneStays DEF Ran
<1>3. kernel' = kernel
  BY <1>2, KernelMoves
<1>4. ASSUME NEW i \in 1 .. Len(iopub'), iopub'[i].kind = "busy", iopub'[i].run = r PROVE Began(r)'
  BY <1>2, <1>3, <1>4 DEF Began
<1>5. ASSUME Began(r), Len(iopub') >= Len(iopub), \A i \in 1 .. Len(iopub) : iopub'[i] = iopub[i] PROVE Began(r)'
  <2>1. PICK i \in 1 .. Len(iopub) : iopub[i].kind = "busy" /\ iopub[i].run = r
    BY <1>5 DEF Began
  <2>2. \A n \in Nat : n >= Len(iopub) => i \in 1 .. n
    BY <1>1
  <2>3. Len(iopub') \in Nat
    <3>1. CASE iopub' = iopub
      BY <1>1, <3>1
    <3>2. CASE iopub' # iopub
      BY <1>1, <3>2, KernelMoves, <1>2 DEF PumpIopub, KernelBegins, KernelEnds, KernelPrints, Event
    <3> QED BY <3>1, <3>2
  <2> QED BY <1>4, <1>5, <2>1, <2>2, <2>3
<1>6. ASSUME NEW i \in 1 .. Len(queue'), queue'[i] = r, i = 1 => step' = "waits" PROVE InQueue(r)'
  BY <1>6 DEF InQueue
<1>7. CASE UNCHANGED <<iopub, queue, step>>
  <2>1. InQueue(r) => InQueue(r)'
    BY <1>7 DEF InQueue
  <2> QED BY <1>1, <1>5, <1>7, <2>1
<1>8. ASSUME UNCHANGED <<iopub, step>>, NEW x \in Runs, queue' = Append(queue, x) PROVE InQueue(r)' \/ Began(r)'
  <2>1. CASE Began(r)
    BY <1>1, <1>5, <1>8, <2>1
  <2>2. CASE InQueue(r)
    <3>1. PICK i \in 1 .. Len(queue) : queue[i] = r /\ (i = 1 => step = "waits")
      BY <2>2 DEF InQueue
    <3>2. i \in 1 .. Len(queue') /\ queue'[i] = r
      BY <1>1, <1>8, <3>1
    <3> QED BY <1>6, <1>8, <3>1, <3>2
  <2> QED BY <2>1, <2>2
<1>9. CASE PumpIopub
  <2>1. iopub # <<>> /\ iopub' = Tail(iopub) /\ Pump(Head(iopub)) /\ queue' = queue /\ step' = step
    BY <1>9 DEF PumpIopub, process
  <2>2. InQueue(r) => InQueue(r)'
    BY <2>1 DEF InQueue
  <2>3. ASSUME NEW i \in 1 .. Len(iopub), iopub[i].kind = "busy", iopub[i].run = r PROVE Began(r)' \/ ToldOf(r)'
    <3>1. Len(iopub') = Len(iopub) - 1 /\ Head(iopub) = iopub[1] /\ \A j \in 1 .. Len(iopub') : iopub'[j] = iopub[j + 1]
      BY <1>1, <2>1
    <3>2. CASE i # 1
      <4>1. i - 1 \in 1 .. Len(iopub') /\ (i - 1) + 1 = i
        BY <1>1, <3>1, <3>2
      <4>2. iopub'[i - 1] = iopub[i]
        BY <3>1, <4>1
      <4> QED BY <1>4, <2>3, <4>1, <4>2
    <3>3. CASE i = 1
      <4>1. PICK e \in Events : e = iopub[1] /\ Head(iopub) = e /\ e.kind = "busy" /\ e.run = r
        BY <2>3, <3>1, <3>3, OnTheirWay
      <4>2. PICK m \in Messages : wire' = Append(wire, m) /\ m.kind = "event" /\ m.event = e
        BY <1>2, <2>1, <4>1, PumpSays
      <4>3. wire'[Len(wire) + 1] = m /\ Len(wire) + 1 \in 1 .. Len(wire')
        BY <1>1, <4>2, Said
      <4>4. PICK n \in 1 .. Len(wire') : wire'[n] = m
        BY <4>3
      <4> QED BY <4>1, <4>2, <4>4 DEF ToldOf
    <3> QED BY <3>2, <3>3
  <2> QED BY <2>2, <2>3 DEF Began
<1>10. CASE \E k \in {"output", "clear", "wait"} : KernelPrints(k)
  <2>1. PICK e : iopub' = Append(iopub, e)
    BY <1>10 DEF KernelPrints
  <2>2. queue' = queue /\ step' = step
    BY <1>10 DEF KernelPrints
  <2>3. InQueue(r) => InQueue(r)'
    BY <2>2 DEF InQueue
  <2>4. Len(iopub') = Len(iopub) + 1 /\ \A i \in 1 .. Len(iopub) : iopub'[i] = iopub[i]
    BY <1>1, <2>1
  <2> QED BY <1>1, <1>5, <2>3, <2>4
<1>11. CASE KernelEnds
  <2>1. /\ step = "runs" /\ step' = "waits" /\ queue' = Tail(queue) /\ queue # <<>>
        /\ \E e : iopub' = Append(iopub, e)
    BY <1>11 DEF KernelEnds, TypeInv, WireInv
  <2>2. Began(r) => Began(r)'
    <3>1. Len(iopub') = Len(iopub) + 1 /\ \A i \in 1 .. Len(iopub) : iopub'[i] = iopub[i]
      BY <1>1, <2>1
    <3> QED BY <1>1, <1>5, <3>1
  <2>3. InQueue(r) => InQueue(r)'
    <3>1. ASSUME NEW i \in 1 .. Len(queue), queue[i] = r, i = 1 => step = "waits" PROVE InQueue(r)'
      <4>1. i # 1 /\ Len(queue') = Len(queue) - 1 /\ \A j \in 1 .. Len(queue') : queue'[j] = queue[j + 1]
        BY <1>1, <2>1, <3>1
      <4>2. i - 1 \in 1 .. Len(queue') /\ (i - 1) + 1 = i
        BY <1>1, <4>1
      <4>3. queue'[i - 1] = r
        BY <3>1, <4>1, <4>2
      <4> QED BY <1>6, <2>1, <4>2, <4>3
    <3> QED BY <3>1 DEF InQueue
  <2> QED BY <2>2, <2>3
<1>12. CASE KernelBegins
  <2>1. /\ step = "waits" /\ queue # <<>>
        /\ \E e : iopub' = iopub \o <<Event("busy", Head(queue)), e>>
        /\ queue' = queue \/ (queue' = Tail(queue) /\ step' = step)
    BY <1>12 DEF KernelBegins
  <2>2. /\ Len(iopub') = Len(iopub) + 2 /\ iopub'[Len(iopub) + 1] = Event("busy", Head(queue))
        /\ \A i \in 1 .. Len(iopub) : iopub'[i] = iopub[i]
    BY <1>1, <2>1
  <2>3. Began(r) => Began(r)'
    BY <1>1, <1>5, <2>2
  <2>4. ASSUME NEW i \in 1 .. Len(queue), queue[i] = r PROVE InQueue(r)' \/ Began(r)'
    <3>1. CASE i = 1
      <4>1. Event("busy", Head(queue)).kind = "busy" /\ Event("busy", Head(queue)).run = r
        BY <1>1, <2>1, <2>4, <3>1 DEF Event
      <4>2. PICK n \in 1 .. Len(iopub') : n = Len(iopub) + 1
        BY <1>1, <2>2
      <4> QED BY <1>4, <2>2, <4>1, <4>2
    <3>2. CASE i # 1 /\ queue' = queue
      BY <1>6, <2>4, <3>2
    <3>3. CASE i # 1 /\ queue' = Tail(queue) /\ step' = step
      <4>1. Len(queue') = Len(queue) - 1 /\ \A j \in 1 .. Len(queue') : queue'[j] = queue[j + 1]
        BY <1>1, <2>1, <3>3
      <4>2. i - 1 \in 1 .. Len(queue') /\ (i - 1) + 1 = i
        BY <1>1, <3>3, <4>1
      <4>3. queue'[i - 1] = r
        BY <2>4, <4>1, <4>2
      <4> QED BY <1>6, <2>1, <3>3, <4>2, <4>3
    <3> QED BY <2>1, <3>1, <3>2, <3>3
  <2> QED BY <2>3, <2>4 DEF InQueue
<1> QED BY <1>2, <1>7, <1>8, <1>9, <1>10, <1>11, <1>12, KernelMoves

(* With a stop to be taken what is live is sent, and is taken after it.    *)
LEMMA SentWaits ==
  ASSUME InOrder, TypeInv, OrderInv, [Next]_vars, RetireSent, NEW c, NEW r, Live(r, c)
  PROVE  reqs[r].at = "sent" /\ reqs'[r].at = "sent"
<1>1. Types /\ r \in Runs /\ r \in 1 .. Len(reqs) /\ ~Old(r) /\ Len(reqs) \in Nat /\ reqs[r].op = "execute"
  BY DEF TypeInv, Types, Live, Runs
<1>2. reqs[r].at = "sent"
  BY <1>1, SentIsLast
<1>3. ASSUME Execute(r) PROVE FALSE
  <2>1. \A p \in 1 .. r - 1 : reqs[p].at # "sent"
    BY <1>3 DEF Execute, TakenUp
  <2>2. PICK q \in 1 .. Len(reqs) : reqs[q].op \in {"stop", "restart"} /\ reqs[q].at = "sent"
    BY DEF RetireSent, Retires
  <2>3. r < q
    <3>1. q # r
      BY <1>1, <2>2
    <3>2. ~(q \in 1 .. r - 1)
      BY <2>1, <2>2
    <3> QED BY <1>1, <3>1, <3>2
  <2>4. reqs[r].epoch < reqs[q].epoch /\ reqs[q].epoch <= epoch
    BY <1>1, <2>2, <2>3 DEF OrderInv, Retires
  <2>5. reqs[r] \in Requests /\ reqs[q] \in Requests
    BY <1>1 DEF Types
  <2>6. reqs[r].epoch \in Nat /\ reqs[q].epoch \in Nat /\ epoch \in Nat
    BY <1>1, <2>5 DEF Requests, Types
  <2> QED BY <1>1, <2>4, <2>6 DEF Old
<1> QED BY <1>1, <1>2, <1>3, SentGoes

LEMMA OnWayStays ==
  ASSUME InOrder, TypeInv, TimedInv, ReplyInv, OrderInv, StartInv, [Next]_vars, epoch' = epoch,
         DeathTold \/ RetireSent, DeathTold' \/ RetireSent', NEW c, NEW r, Live(r, c), OnWay(r)
  PROVE  OnWay(r)' \/ Hears(r)
<1>1. WireInv /\ r \in Runs /\ queue \in Seq(Ids) /\ r \in 1 .. Len(reqs)
  BY DEF TypeInv, Types, Live, Runs
<1>2. CASE RetireSent
  <2>1. reqs'[r].at = "sent"
    BY <1>2, SentWaits
  <2> QED BY <2>1 DEF OnWay
<1>3. CASE ~RetireSent
  <2>1. ~dying /\ ~dying'
    BY <1>3, SentStays DEF DeathTold
  <2>2. CASE reqs[r].at = "sent"
    <3>1. CASE reqs'[r].at = "sent"
      BY <3>1 DEF OnWay
    <3>2. CASE Execute(r)
      <4>1. CASE kernel = NoKernel
        <5>1. wire' = Append(wire, Answer(r, FALSE))
          BY <3>2, <4>1 DEF Execute, Say
        <5> DEFINE m == Answer(r, FALSE)
        <5>2. m \in Messages /\ m.kind = "answer" /\ m.run = r /\ ~m.ok
          <6>1. r \in Ids
            BY <1>1, Numbers DEF TypeInv, BoundInv, Types
          <6>2. m.ok = FALSE
            BY DEF Answer
          <6> QED BY <6>1, <6>2 DEF Answer, Messages
        <5>3. wire' = Append(wire, m)
          BY <5>1
        <5> HIDE DEF m
        <5>4. wire'[Len(wire) + 1] = m /\ Len(wire) + 1 \in 1 .. Len(wire')
          BY <1>1, <5>2, <5>3, Said
        <5>5. PICK n \in 1 .. Len(wire') : wire'[n] = m
          BY <5>4
        <5>6. Refused(r)'
          BY <5>2, <5>5 DEF Refused
        <5> QED BY <5>6 DEF OnWay
      <4>2. CASE kernel # NoKernel
        <5>1. queue' = Append(queue, r) /\ step' = step
          BY <2>1, <3>2, <4>2 DEF Execute
        <5>2. step = "runs" => queue # <<>>
          BY <1>1 DEF WireInv
        <5>3. step \in {"waits", "runs"}
          BY DEF TypeInv, Types
        <5>4. PICK n \in 1 .. Len(queue') : queue'[n] = r /\ (n = 1 => queue = <<>>)
          <6>1. Len(queue) + 1 \in 1 .. Len(queue') /\ queue'[Len(queue) + 1] = r /\ (Len(queue) + 1 = 1 => queue = <<>>)
            BY <1>1, <5>1
          <6> QED BY <6>1
        <5>5. n = 1 => step' = "waits"
          BY <5>1, <5>2, <5>3, <5>4
        <5>6. InQueue(r)'
          BY <5>4, <5>5 DEF InQueue
        <5> QED BY <5>6 DEF OnWay
      <4> QED BY <4>1, <4>2
    <3> QED BY <1>1, <2>2, <3>1, <3>2, SentGoes
  <2>3. CASE InQueue(r) \/ Began(r)
    <3>1. InQueue(r)' \/ Began(r)' \/ ToldOf(r)'
      BY <1>1, <1>3, <2>1, <2>3, QueueTells
    <3> QED BY <3>1 DEF OnWay
  <2>4. CASE ToldOf(r) \/ Refused(r)
    <3>1. ToldOf(r)' \/ Refused(r)' \/ Hears(r)
      BY <2>4, WireTells
    <3> QED BY <3>1 DEF OnWay
  <2> QED BY <2>2, <2>3, <2>4 DEF OnWay
<1> QED BY <1>2, <1>3

(* A cell of the chain stays in it until it is sent or the chain answered. *)
LEMMA ChainStays ==
  ASSUME TypeInv, TimedInv, ReplyInv, [Next]_vars, NEW c, InChain(c)
  PROVE  InChain(c)' \/ SendNext \/ (Answered /\ reqs[Head(wire).run].chained)
<1>1. chain # <<>> /\ chain \in Seq(Cells)
  BY DEF InChain, TypeInv, Types
<1>2. ~RunAll
  BY <1>1 DEF RunAll
<1>3. ASSUME chain' = chain, \A r \in 1 .. Len(reqs') : r \in 1 .. Len(reqs) \/ ~reqs'[r].chained PROVE InChain(c)'
  <2>1. Asked' => Asked
    <3> SUFFICES ASSUME Asked' PROVE Asked
      OBVIOUS
    <3>1. PICK r \in 1 .. Len(reqs') : reqs'[r].chained /\ UnderWay(r)'
      <4>1. CASE ChainWaits'
        <5>1. \E r \in 1 .. Len(reqs') : reqs'[r].chained /\ reqs'[r].at # "done"
          BY <4>1 DEF ChainWaits, Runs
        <5> QED BY <5>1 DEF UnderWay
      <4>2. CASE AnswerComes'
        <5>1. TypeInv'
          BY TypeStep
        <5>2. PICK i \in 1 .. Len(wire') : wire'[i].kind = "answer" /\ reqs'[wire'[i].run].chained
          BY <4>2 DEF AnswerComes
        <5>3. wire'[i].run \in 1 .. Len(reqs')
          <6>1. wire' \in Seq(Messages) /\ wire'[i].run <= Len(reqs') /\ Len(reqs') \in Nat
            BY <5>1, <5>2 DEF TypeInv, WireInv, Types
          <6>2. wire'[i] \in Messages
            BY <6>1
          <6>3. wire'[i].run \in Ids
            BY <5>2, <6>2, Kinds
          <6> QED BY <6>1, <6>3, Numbers
        <5> QED BY <5>2, <5>3 DEF UnderWay, AnswerOn
      <4> QED BY <4>1, <4>2 DEF Asked
    <3>2. r \in 1 .. Len(reqs)
      BY <1>3, <3>1
    <3>3. UnderWay(r) /\ reqs[r].chained
      BY <3>1, <3>2, WayEnds
    <3> QED BY <3>2, <3>3, WayAsks
  <2>2. PICK i \in 1 .. Len(chain) : (i = 1 => ~Asked) /\ chain[i] = c
    BY DEF InChain
  <2>3. i = 1 => ~Asked'
    BY <2>1, <2>2
  <2>4. i \in 1 .. Len(chain') /\ chain'[i] = c
    BY <1>3, <2>2
  <2> QED BY <2>3, <2>4 DEF InChain
<1> QED BY <1>2, <1>3, ChainSteps

(* One more, one less and one for another.                                 *)
LEMMA SetsCount ==
  ASSUME NEW S, NEW T, IsFiniteSet(S), IsFiniteSet(T)
  PROVE  /\ Cardinality(S) \in Nat /\ Cardinality(T) \in Nat
         /\ S \subseteq T => Cardinality(S) <= Cardinality(T)
         /\ \A x : S \ {x} \subseteq T => Cardinality(S) - 1 <= Cardinality(T)
         /\ \A n : n \notin S /\ n \in T /\ S \subseteq T => Cardinality(S) + 1 <= Cardinality(T)
         /\ \A n, x : n \notin S /\ n \in T /\ S \ {x} \subseteq T => Cardinality(S) <= Cardinality(T)
<1>1. Cardinality(S) \in Nat /\ Cardinality(T) \in Nat
  BY FS_CardinalityType
<1>2. ASSUME NEW U, IsFiniteSet(U), U \subseteq T PROVE Cardinality(U) \in Nat /\ Cardinality(U) <= Cardinality(T)
  BY <1>2, FS_Subset, FS_CardinalityType
<1>3. ASSUME NEW x PROVE IsFiniteSet(S \ {x}) /\ Cardinality(S \ {x}) \in Nat /\ Cardinality(S) - 1 <= Cardinality(S \ {x})
  <2>1. IsFiniteSet(S \ {x}) /\ Cardinality(S \ {x}) = IF x \in S THEN Cardinality(S) - 1 ELSE Cardinality(S)
    BY FS_RemoveElement
  <2>2. Cardinality(S \ {x}) \in Nat
    BY <2>1, FS_CardinalityType
  <2> QED BY <1>1, <2>1, <2>2
<1>4. ASSUME NEW n, NEW U, IsFiniteSet(U), n \notin U, n \in T, U \subseteq T
      PROVE  Cardinality(U) \in Nat /\ Cardinality(U) + 1 <= Cardinality(T)
  <2>1. IsFiniteSet(U \cup {n}) /\ Cardinality(U \cup {n}) = Cardinality(U) + 1
    BY <1>4, FS_AddElement
  <2>2. U \cup {n} \subseteq T
    BY <1>4
  <2> QED BY <1>2, <1>4, <2>1, <2>2, FS_CardinalityType
<1>5. ASSUME NEW x, S \ {x} \subseteq T PROVE Cardinality(S) - 1 <= Cardinality(T)
  <2>1. PICK U : U = S \ {x}
    OBVIOUS
  <2>2. IsFiniteSet(U) /\ Cardinality(U) \in Nat /\ Cardinality(S) - 1 <= Cardinality(U)
    BY <1>3, <2>1
  <2>3. Cardinality(U) <= Cardinality(T)
    BY <1>2, <1>5, <2>1, <2>2
  <2> QED BY <1>1, <2>2, <2>3
<1>6. ASSUME NEW n, NEW x, n \notin S, n \in T, S \ {x} \subseteq T PROVE Cardinality(S) <= Cardinality(T)
  <2>1. PICK U : U = S \ {x}
    OBVIOUS
  <2>2. IsFiniteSet(U) /\ Cardinality(U) \in Nat /\ Cardinality(S) - 1 <= Cardinality(U)
    BY <1>3, <2>1
  <2>3. Cardinality(U) + 1 <= Cardinality(T)
    BY <1>4, <1>6, <2>1, <2>2
  <2> QED BY <1>1, <2>2, <2>3
<1> QED BY <1>1, <1>2, <1>4, <1>5, <1>6

LEMMA WireMoves ==
  ASSUME TypeInv, [Next]_vars
  PROVE  \/ CellEvent \/ Answered \/ Exited
         \/ wire' = wire \/ \E m : wire' = Append(wire, m)
<1>1. CASE UNCHANGED vars \/ User \/ SendNext \/ KernelSteps
  BY <1>1 DEF vars, User, RunCell, Clear, RunAll, Stop, Restart, Start, SendNext,
     KernelSteps, KernelBegins, KernelEnds, KernelDies, KernelPrints
<1>2. CASE Backend
  <2>1. ASSUME NEW e, Pump(e) PROVE wire' = wire \/ \E m : wire' = Append(wire, m)
    BY <2>1 DEF Pump, Say
  <2>2. CASE PumpIopub \/ PumpShell
    BY <2>1, <2>2 DEF PumpIopub, PumpShell
  <2>3. CASE ~(PumpIopub \/ PumpShell)
    BY <1>2, <2>3 DEF Backend, Execute, TakeKernel, Killed, StartKernel, Launched, ClearCell,
       KernelExited, Say
  <2> QED BY <2>2, <2>3
<1> QED BY <1>1, <1>2 DEF Next, Editor

LEMMA HearsWhen ==
  ASSUME TypeInv, [Next]_vars, NEW r, Hears(r)
  PROVE  (CellEvent /\ Head(wire).kind = "event") \/ (Answered /\ Head(wire).kind = "answer")
<1>1. WireInv /\ Len(wire) \in Nat /\ wire \in Seq(Messages)
  BY DEF TypeInv, WireInv
<1>2. Len(wire') = Len(wire) - 1 /\ Head(wire).kind # "exited"
  BY <1>1, Heard DEF Hears
<1>3. wire' # wire /\ \A m : wire' # Append(wire, m)
  <2>1. \A m : Len(Append(wire, m)) = Len(wire) + 1
    BY <1>1
  <2> QED BY <1>1, <1>2, <2>1
<1> QED BY <1>2, <1>3, WireMoves DEF CellEvent, Answered, Exited

(* A kernel that died is told of before the count is to be trusted again.  *)
LEMMA DeathsTold ==
  ASSUME TypeInv, TimedInv, ReplyInv, StartInv, [Next]_vars, epoch' = epoch, ~Exited, DeathTold' \/ RetireSent'
  PROVE  DeathTold \/ RetireSent
<1> SUFFICES ASSUME ~RetireSent PROVE DeathTold
  OBVIOUS
<1>1. WireInv /\ Len(wire) \in Nat /\ wire \in Seq(Messages)
  BY DEF TypeInv, WireInv
<1>2. ~dying' /\ \A i \in 1 .. Len(wire') : wire'[i].kind # "exited"
  BY SentStays DEF DeathTold
<1>3. ~dying
  <2> SUFFICES ASSUME dying PROVE FALSE
    OBVIOUS
  <2>0. kernel # NoKernel
    BY DEF StartInv
  <2>1. ASSUME NEW r \in 1 .. Len(reqs), TakeKernel(r) PROVE FALSE
    BY <2>1 DEF TakeKernel, TakenUp, RetireSent, Retires
  <2>2. ASSUME NEW r \in 1 .. Len(reqs), Launched(r) PROVE FALSE
    BY <2>0, <2>2 DEF Launched, StartInv
  <2>3. CASE KernelExited
    <3>1. PICK m \in Messages : m.kind = "exited" /\ wire' = Append(wire, m)
      BY <2>3 DEF KernelExited, Say, Messages
    <3>2. wire'[Len(wire) + 1] = m /\ Len(wire) + 1 \in 1 .. Len(wire')
      BY <1>1, <3>1, Said
    <3> QED BY <1>2, <3>1, <3>2
  <2>4. CASE UNCHANGED vars \/ User \/ Editor \/ KernelSteps \/ PumpIopub \/ PumpShell
    <3>1. dying' = dying \/ dying' = TRUE
      BY <2>4 DEF vars, User, RunCell, Clear, RunAll, Stop, Restart, Start, Editor, SendNext, CellEvent,
         Answered, Exited,
         KernelSteps, KernelBegins, KernelEnds, KernelDies, KernelPrints, PumpIopub, PumpShell, process
    <3> QED BY <1>2, <3>1
  <2>5. ASSUME NEW r \in 1 .. Len(reqs), Execute(r) \/ Killed(r) \/ StartKernel(r) \/ ClearCell(r) PROVE FALSE
    <3>1. dying' = dying
      BY <2>5 DEF Execute, Killed, StartKernel, ClearCell, process
    <3> QED BY <1>2, <3>1
  <2> QED BY <2>1, <2>2, <2>3, <2>4, <2>5 DEF Next, Backend
<1>4. ASSUME NEW i \in 1 .. Len(wire), wire[i].kind = "exited" PROVE FALSE
  <2>1. CASE wire' = wire
    BY <1>2, <1>4, <2>1
  <2>2. CASE \E m : wire' = Append(wire, m)
    <3>1. i \in 1 .. Len(wire') /\ wire'[i] = wire[i]
      BY <1>1, <2>2
    <3> QED BY <1>2, <1>4, <3>1
  <2>3. CASE CellEvent \/ Answered
    <3>1. wire # <<>> /\ wire' = Tail(wire) /\ Head(wire).kind # "exited"
      BY <2>3 DEF CellEvent, Answered
    <3>2. Len(wire') = Len(wire) - 1 /\ Head(wire) = wire[1] /\ \A j \in 1 .. Len(wire') : wire'[j] = wire[j + 1]
      BY <1>1, <3>1, Heard
    <3>3. i - 1 \in 1 .. Len(wire') /\ (i - 1) + 1 = i
      BY <1>1, <1>4, <3>1, <3>2
    <3> QED BY <1>2, <1>4, <3>2, <3>3
  <2> QED BY <2>1, <2>2, <2>3, WireMoves
<1> QED BY <1>3, <1>4 DEF DeathTold

LEMMA OwingStays ==
  ASSUME InOrder, TypeInv, TimedInv, ReplyInv, OrderInv, StartInv, [Next]_vars, epoch' = epoch,
         DeathTold \/ RetireSent, DeathTold' \/ RetireSent', NEW c, NEW x \in Owing(c)
  PROVE  \/ x \in Owing(c)'
         \/ x = 0 /\ InChain(c) /\ (SendNext \/ (Answered /\ reqs[Head(wire).run].chained))
         \/ x # 0 /\ Live(x, c) /\ Hears(x)
<1>1. x \in 0 .. Len(reqs) /\ Len(reqs) \in Nat
  BY DEF Owing, TypeInv, Types
<1>2. CASE x = 0
  <2>1. InChain(c)
    BY <1>2 DEF Owing
  <2>2. Len(reqs') \in Nat
    BY TypeStep DEF TypeInv, Types
  <2>3. InChain(c)' => x \in Owing(c)'
    BY <1>2, <2>2 DEF Owing
  <2> QED BY <1>2, <2>1, <2>3, ChainStays
<1>3. CASE x # 0
  <2>1. Live(x, c) /\ OnWay(x) /\ x \in 1 .. Len(reqs) /\ x \in Runs
    BY <1>1, <1>3 DEF Owing, Live
  <2>2. x \in 1 .. Len(reqs')
    BY <2>1, RequestsKeep
  <2>3. Live(x, c)'
    BY <2>1, LiveStays
  <2>4. OnWay(x)' => x \in Owing(c)'
    <3>1. Len(reqs') \in Nat
      BY TypeStep DEF TypeInv, Types
    <3> QED BY <1>3, <2>2, <2>3, <3>1 DEF Owing
  <2> QED BY <1>3, <2>1, <2>4, OnWayStays
<1> QED BY <1>2, <1>3

LEMMA OwingFinite ==
  ASSUME TypeInv, NEW c
  PROVE  IsFiniteSet(Owing(c)) /\ Len(reqs) + 1 \notin Owing(c)
<1>1. Len(reqs) \in Nat
  BY DEF TypeInv, Types
<1>2. IsFiniteSet(0 .. Len(reqs)) /\ Owing(c) \subseteq 0 .. Len(reqs)
  BY <1>1, FS_Interval DEF Owing
<1> QED BY <1>1, <1>2, FS_Subset

LEMMA OwingAfter ==
  ASSUME TypeInv', NEW c
  PROVE  IsFiniteSet(Owing(c)')
<1>1. Len(reqs') \in Nat
  BY DEF TypeInv, Types
<1>2. IsFiniteSet(0 .. Len(reqs')) /\ Owing(c)' \subseteq 0 .. Len(reqs')
  BY <1>1, FS_Interval DEF Owing
<1> QED BY <1>2, FS_Subset

(* A run more, asked for or sent from the chain.                           *)
LEMMA OwingMore ==
  ASSUME TypeInv, [Next]_vars, epoch' = epoch, NEW c \in Cells, NEW ch \in BOOLEAN,
         reqs' = Append(reqs, Request("execute", c, epoch, ch))
  PROVE  Len(reqs) + 1 \in Owing(c)'
<1>1. Types /\ Len(reqs) \in Nat /\ epoch \in Nat
  BY DEF TypeInv, Types
<1> DEFINE q == Request("execute", c, epoch, ch)
<1>2. q \in Requests /\ q.op = "execute" /\ q.cell = c /\ q.at = "sent" /\ q.epoch = epoch
  BY <1>1, Numbers DEF Request, Requests
<1>3. reqs' = Append(reqs, q)
  OBVIOUS
<1> HIDE DEF q
<1>4. Len(reqs') = Len(reqs) + 1 /\ reqs'[Len(reqs) + 1] = q
  BY <1>1, <1>2, <1>3, RequestMade
<1>5. PICK n \in 1 .. Len(reqs') : n = Len(reqs) + 1 /\ n # 0 /\ n \in 0 .. Len(reqs') /\ reqs'[n] = q
  BY <1>1, <1>4
<1>6. OnWay(n)'
  BY <1>2, <1>5 DEF OnWay
<1>7. Live(n, c)'
  BY <1>1, <1>2, <1>5 DEF Live, Old, Runs
<1> QED BY <1>5, <1>6, <1>7 DEF Owing

(* A message that tells of a run makes its cell's count one less.          *)
LEMMA CountHears ==
  ASSUME InOrder, TypeInv, TimedInv, ReplyInv, OrderInv, StartInv, RetireInv, PatientInv, PathInv,
         [Next]_vars, NEW c \in Cells, DeathTold \/ RetireSent, DeathTold' \/ RetireSent',
         st[c].pending <= Cardinality(Owing(c)), CellEvent
  PROVE  st'[c].pending <= Cardinality(Owing(c))'
<1>1. TypeInv' /\ WireInv /\ st[c] \in CellStates /\ st[c].pending \in Nat /\ st \in [Cells -> CellStates]
  BY TypeStep DEF TypeInv, Types, CellStates
<1>2. epoch' = epoch /\ wire # <<>> /\ wire' = Tail(wire) /\ ~SendNext /\ ~Answered
  <2>1. epoch' = epoch /\ wire # <<>> /\ wire' = Tail(wire) /\ ~Answered
    BY DEF CellEvent, Answered
  <2>2. Len(wire) \in Nat /\ Len(wire') = Len(wire) - 1
    BY <1>1, <2>1, Heard
  <2>3. wire' # wire
    BY <2>2
  <2> QED BY <2>1, <2>3 DEF SendNext
<1> DEFINE m == Head(wire)
           e == m.event
           d == reqs[e.run].cell
<1>3. m \in Messages /\ m.kind = "event" /\ e \in Events \cup Replies
      /\ st' = IF Stale(d) THEN st ELSE [st EXCEPT ![d] = State(@, e)]
  <2>1. m \in Messages /\ m.kind = "event"
    BY <1>1, <1>2, Heard DEF CellEvent
  <2> QED BY <2>1, Kinds DEF CellEvent
<1>4. \A x \in Owing(c) : x \in Owing(c)' \/ (Live(x, c) /\ e.kind = "busy" /\ e.run = x)
  <2>1. \A x : Hears(x) => e.kind = "busy" /\ e.run = x
    BY <1>3 DEF Hears
  <2> QED BY <1>2, <2>1, OwingStays
<1>5. ~Stale(d) => e.run \in Runs /\ ~Old(e.run)
  BY <1>2, <1>3, HeardIsLive
<1>6. \E a \in {st[c].run}, b, y \in RunStates : Goes(a, LiveSign(m, c), b)
  <2>1. PICK a \in {st[c].run}, y \in RunStates : LWire(c, a, y)
    BY PathIs DEF PathInv
  <2>2. \E b \in RunStates : Goes(a, LiveSign(Head(wire), c), b)
    BY <1>2, <2>1, LWireLess
  <2> QED BY <2>1, <2>2
<1>7. /\ IsFiniteSet(Owing(c)) /\ IsFiniteSet(Owing(c)') /\ Cardinality(Owing(c))' = Cardinality(Owing(c)')
  BY <1>1, OwingFinite, OwingAfter
<1> HIDE DEF m, e, d
<1>8. \A r : Live(r, c) => reqs[r].cell = c
  BY DEF Live
<1>9. CASE d = c /\ e.kind = "busy"
  <2>1. CASE Stale(c)
    <3>1. st'[c].pending = 0
      BY <1>3, <1>9, <2>1 DEF PatientInv
    <3> QED BY <1>7, <3>1, SetsCount
  <2>2. CASE ~Stale(c)
    <3>1. LiveSign(m, c) = "busy"
      BY <1>3, <1>5, <1>9, <2>2 DEF LiveSign, Live, SignOf, d, e
    <3>2. st[c].run = "no"
      BY <1>6, <3>1 DEF Goes
    <3>3. st'[c] = State(st[c], e)
      BY <1>1, <1>3, <1>9, <2>2
    <3>4. st'[c].pending = IF st[c].pending > 0 THEN st[c].pending - 1 ELSE st[c].pending
      BY <1>1, <1>3, <1>9, <3>2, <3>3, EventFields
    <3>5. Owing(c) \ {e.run} \subseteq Owing(c)'
      BY <1>4
    <3>6. Cardinality(Owing(c)) - 1 <= Cardinality(Owing(c)') /\ Cardinality(Owing(c)) \in Nat
          /\ Cardinality(Owing(c)') \in Nat
      BY <1>7, <3>5, SetsCount
    <3> QED BY <1>1, <1>7, <3>4, <3>6
  <2> QED BY <2>1, <2>2
<1>10. CASE ~(d = c /\ e.kind = "busy")
  <2>1. Owing(c) \subseteq Owing(c)'
    BY <1>4, <1>8, <1>10 DEF d
  <2>2. Cardinality(Owing(c)) <= Cardinality(Owing(c)') /\ Cardinality(Owing(c)) \in Nat
        /\ Cardinality(Owing(c)') \in Nat
    BY <1>7, <2>1, SetsCount
  <2>3. st'[c].pending <= st[c].pending /\ st'[c].pending \in Nat
    <3>1. st'[c] = st[c] \/ st'[c] = State(st[c], e)
      BY <1>1, <1>3
    <3>2. State(st[c], e).pending \in {st[c].pending} \/ (st[c].pending > 0 /\ State(st[c], e).pending = st[c].pending - 1)
      BY <1>1, <1>3, EventFields
    <3> QED BY <1>1, <3>1, <3>2
  <2> QED BY <1>1, <1>7, <2>2, <2>3
<1> QED BY <1>9, <1>10

LEMMA CountAnswered ==
  ASSUME InOrder, TypeInv, TimedInv, ReplyInv, OrderInv, StartInv, HeadInv,
         [Next]_vars, NEW c \in Cells, DeathTold \/ RetireSent, DeathTold' \/ RetireSent',
         st[c].pending <= Cardinality(Owing(c)), Answered
  PROVE  st'[c].pending <= Cardinality(Owing(c))'
<1>1. TypeInv' /\ WireInv /\ st[c] \in CellStates /\ st[c].pending \in Nat /\ chain \in Seq(Cells)
  BY TypeStep DEF TypeInv, Types, CellStates
<1>2. epoch' = epoch /\ wire # <<>> /\ wire' = Tail(wire) /\ reqs' = reqs
  BY DEF Answered
<1> DEFINE m == Head(wire)
           r == m.run
<1>3. m.kind = "answer" /\ r \in 1 .. Len(reqs) /\ r \in Ids /\ AnswerOn(r)
      /\ IF reqs[r].op = "execute" THEN RunAnswered(r, m.ok) ELSE AskAnswered(r, m.ok)
  <2>1. 1 \in 1 .. Len(wire) /\ m = wire[1] /\ m \in Messages /\ m.kind = "answer"
    BY <1>1, <1>2, Heard DEF Answered
  <2>2. wire[1].run \in 1 .. Len(reqs)
    BY <2>1, AnswerOf
  <2> QED BY <2>1, <2>2, Kinds DEF Answered, AnswerOn
<1>4. ~SendNext
  <2>1. Len(wire) \in Nat /\ Len(wire') = Len(wire) - 1
    BY <1>1, <1>2, Heard
  <2>2. wire' # wire
    BY <2>1
  <2> QED BY <2>2 DEF SendNext
<1>5. /\ IsFiniteSet(Owing(c)) /\ IsFiniteSet(Owing(c)') /\ Cardinality(Owing(c))' = Cardinality(Owing(c)')
  BY <1>1, OwingFinite, OwingAfter
<1>6. \A x \in Owing(c) : \/ x \in Owing(c)'
                          \/ x = 0 /\ InChain(c) /\ reqs[r].chained
                          \/ x = r /\ Live(r, c) /\ ~m.ok
  <2>1. \A x : Hears(x) => x = r /\ ~m.ok
    BY <1>3 DEF Hears
  <2> QED BY <1>2, <1>4, <2>1, OwingStays
<1> HIDE DEF m, r
<1>7. ASSUME st'[c].pending = st[c].pending, Owing(c) \subseteq Owing(c)' PROVE st'[c].pending <= Cardinality(Owing(c))'
  <2>1. Cardinality(Owing(c)) <= Cardinality(Owing(c)') /\ Cardinality(Owing(c)) \in Nat
        /\ Cardinality(Owing(c)') \in Nat
    BY <1>5, <1>7, SetsCount
  <2> QED BY <1>1, <1>5, <1>7, <2>1
<1>8. ASSUME st'[c] = Unqueued(st[c]), NEW x, Owing(c) \ {x} \subseteq Owing(c)'
      PROVE  st'[c].pending <= Cardinality(Owing(c))'
  <2>1. Cardinality(Owing(c)) - 1 <= Cardinality(Owing(c)') /\ Cardinality(Owing(c)) \in Nat
        /\ Cardinality(Owing(c)') \in Nat
    BY <1>5, <1>8, SetsCount
  <2>2. st'[c].pending = IF st[c].pending = 0 THEN 0 ELSE st[c].pending - 1
    BY <1>1, <1>8, MoreFields
  <2> QED BY <1>1, <1>5, <2>1, <2>2
<1>9. reqs[r].chained => r \in Runs /\ Asked /\ chain # <<>> /\ reqs[r].cell = Head(chain)
  <2>1. UnderWay(r)
    BY <1>3 DEF UnderWay
  <2> QED BY <1>3, <2>1, WayAsks DEF HeadInv, TypeInv, ChainInv
<1>10. r \in Runs <=> reqs[r].op = "execute"
  BY <1>3 DEF Runs
<1>11. Live(r, c) => r \in Runs /\ reqs[r].cell = c
  BY DEF Live
<1>12. CASE r \notin Runs
  <2>1. st' = st
    BY <1>3, <1>10, <1>12 DEF AskAnswered
  <2>2. Owing(c) \subseteq Owing(c)'
    BY <1>6, <1>9, <1>11, <1>12
  <2> QED BY <1>7, <2>1, <2>2
<1>13. CASE r \in Runs /\ ~reqs[r].chained /\ m.ok
  <2>1. st' = st
    BY <1>3, <1>10, <1>13 DEF RunAnswered
  <2>2. Owing(c) \subseteq Owing(c)'
    BY <1>6, <1>13
  <2> QED BY <1>7, <2>1, <2>2
<1>14. CASE r \in Runs /\ ~reqs[r].chained /\ ~m.ok
  <2>1. st'[c] = IF c = reqs[r].cell THEN Unqueued(st[c]) ELSE st[c]
    BY <1>3, <1>10, <1>14 DEF RunAnswered
  <2>2. Owing(c) \ {r} \subseteq Owing(c)'
    BY <1>6, <1>14
  <2>3. c # reqs[r].cell => Owing(c) \subseteq Owing(c)'
    BY <1>6, <1>11, <1>14
  <2> QED BY <1>7, <1>8, <2>1, <2>2, <2>3
<1>15. CASE reqs[r].chained /\ m.ok
  <2>1. st' = st /\ chain' = Tail(chain)
    BY <1>3, <1>9, <1>10, <1>15 DEF RunAnswered
  <2>2. ~Asked'
    BY <1>2, <1>3, <1>15, AskedEnds DEF m, r
  <2>3. ASSUME InChain(c) PROVE InChain(c)'
    <3>1. PICK i \in 1 .. Len(chain) : i # 1 /\ chain[i] = c
      BY <1>9, <1>15, <2>3 DEF InChain
    <3>2. Len(chain) \in Nat /\ Len(chain') = Len(chain) - 1 /\ \A j \in 1 .. Len(chain') : chain'[j] = chain[j + 1]
      BY <1>1, <1>9, <1>15, <2>1
    <3>3. i - 1 \in 1 .. Len(chain') /\ (i - 1) + 1 = i
      BY <3>1, <3>2
    <3>4. chain'[i - 1] = c
      BY <3>1, <3>2, <3>3
    <3> QED BY <2>2, <3>3, <3>4 DEF InChain
  <2>4. Len(reqs') \in Nat
    BY <1>1 DEF TypeInv, Types
  <2>5. InChain(c)' => 0 \in Owing(c)'
    BY <2>4 DEF Owing
  <2>6. Owing(c) \subseteq Owing(c)'
    BY <1>6, <1>15, <2>3, <2>5
  <2> QED BY <1>7, <2>1, <2>6
<1>16. CASE reqs[r].chained /\ ~m.ok
  <2>1. st'[c] = IF c \in ToSet(chain) THEN Unqueued(st[c]) ELSE st[c]
    BY <1>3, <1>9, <1>10, <1>16 DEF RunAnswered
  <2>2. c \in ToSet(chain) <=> \E i \in 1 .. Len(chain) : chain[i] = c
    BY DEF ToSet
  <2>3. Head(chain) = chain[1] /\ 1 \in 1 .. Len(chain)
    BY <1>1, <1>9, <1>16
  <2>4. CASE c \notin ToSet(chain)
    <3>1. ~InChain(c) /\ reqs[r].cell # c
      BY <1>9, <1>16, <2>2, <2>3, <2>4 DEF InChain
    <3>2. Owing(c) \subseteq Owing(c)'
      BY <1>6, <1>11, <3>1
    <3> QED BY <1>7, <2>1, <2>4, <3>2
  <2>5. CASE c \in ToSet(chain) /\ c = Head(chain)
    <3>1. ~InChain(c)
      BY <1>9, <1>16, <2>3, <2>5 DEF InChain, HeadInv
    <3>2. Owing(c) \ {r} \subseteq Owing(c)'
      BY <1>6, <3>1
    <3> QED BY <1>8, <2>1, <2>5, <3>2
  <2>6. CASE c \in ToSet(chain) /\ c # Head(chain)
    <3>1. Owing(c) \ {0} \subseteq Owing(c)'
      BY <1>6, <1>9, <1>11, <1>16, <2>6
    <3> QED BY <1>8, <2>1, <2>6, <3>1
  <2> QED BY <2>4, <2>5, <2>6
<1> QED BY <1>9, <1>12, <1>13, <1>14, <1>15, <1>16

LEMMA CountStep ==
  ASSUME InOrder, TypeInv, TimedInv, ReplyInv, OrderInv, StartInv, HeadInv, RetireInv, PatientInv, PathInv,
         CountInv, [Next]_vars
  PROVE  CountInv'
<1> SUFFICES ASSUME NEW c \in Cells, DeathTold' \/ RetireSent'
             PROVE  st'[c].pending <= Cardinality(Owing(c))'
  BY DEF CountInv
<1>1. TypeInv' /\ Types /\ st[c] \in CellStates /\ st[c].pending \in Nat /\ st \in [Cells -> CellStates]
      /\ Len(reqs) \in Nat /\ epoch \in Nat /\ chain \in Seq(Cells)
  <2>1. TypeInv'
    BY TypeStep
  <2>2. Types
    BY DEF TypeInv
  <2>3. /\ st \in [Cells -> CellStates] /\ epoch \in Nat /\ chain \in Seq(Cells) /\ reqs \in Seq(Requests)
    BY <2>2 DEF Types
  <2>4. st[c] \in CellStates
    BY <2>3
  <2>5. st[c].pending \in Nat
    BY <2>4 DEF CellStates
  <2>6. Len(reqs) \in Nat
    BY <2>3
  <2> QED BY <2>1, <2>2, <2>3, <2>4, <2>5, <2>6
<1>2. /\ IsFiniteSet(Owing(c)) /\ IsFiniteSet(Owing(c)') /\ Cardinality(Owing(c))' = Cardinality(Owing(c)')
      /\ Cardinality(Owing(c)) \in Nat /\ Cardinality(Owing(c)') \in Nat /\ Len(reqs) + 1 \notin Owing(c)
  BY <1>1, OwingFinite, OwingAfter, FS_CardinalityType
<1>3. CASE Stop \/ Restart \/ Exited
  <2>1. st'[c] = Released(st[c])
    BY <1>3 DEF Stop, Restart, Retire, Exited
  <2>2. st'[c].pending = 0
    BY <1>1, <2>1, MoreFields
  <2> QED BY <1>2, <2>2
<1>4. CASE ~(Stop \/ Restart \/ Exited)
  <2>1. epoch' = epoch
    BY <1>4 DEF Next, vars, User, RunCell, Clear, RunAll, Start, Editor, SendNext, CellEvent, Answered,
       Backend, Execute, TakeKernel, Killed, StartKernel, Launched, ClearCell, KernelExited, PumpIopub,
       PumpShell,
       KernelSteps, KernelBegins, KernelEnds, KernelDies, KernelPrints, editor
  <2>2. DeathTold \/ RetireSent
    BY <1>4, <2>1, DeathsTold
  <2>3. st[c].pending <= Cardinality(Owing(c))
    BY <2>2 DEF CountInv
  <2>4. \A x \in Owing(c) : \/ x \in Owing(c)'
                            \/ x = 0 /\ InChain(c) /\ SendNext
                            \/ CellEvent \/ Answered
    BY <2>1, <2>2, OwingStays, HearsWhen
  <2>5. ASSUME Owing(c) \subseteq Owing(c)', st'[c].pending = st[c].pending
        PROVE  st'[c].pending <= Cardinality(Owing(c))'
    <3>1. Cardinality(Owing(c)) <= Cardinality(Owing(c)')
      BY <1>2, <2>5, SetsCount
    <3> QED BY <1>1, <1>2, <2>3, <2>5, <3>1
  <2>6. ASSUME Owing(c) \subseteq Owing(c)', st'[c].pending = st[c].pending + 1, NEW n, n \notin Owing(c), n \in Owing(c)'
        PROVE  st'[c].pending <= Cardinality(Owing(c))'
    <3>1. Cardinality(Owing(c)) + 1 <= Cardinality(Owing(c)')
      BY <1>2, <2>6, SetsCount
    <3> QED BY <1>1, <1>2, <2>3, <2>6, <3>1
  <2>7. PICK n : n = Len(reqs) + 1
    OBVIOUS
  <2>8. CASE CellEvent
    BY <2>2, <2>3, <2>8, CountHears
  <2>9. CASE Answered
    BY <2>2, <2>3, <2>9, CountAnswered
  <2>10. CASE SendNext
    <3>1. /\ st' = st /\ chain' = chain /\ chain # <<>> /\ ~Asked
          /\ reqs' = Append(reqs, Request("execute", Head(chain), epoch, TRUE))
      BY <2>10 DEF SendNext, editor, Asked
    <3>2. CASE c = Head(chain)
      <4>1. n \in Owing(c)'
        BY <2>1, <2>7, <3>1, <3>2, OwingMore
      <4>2. ~CellEvent /\ ~Answered
        <5>1. reqs' # reqs
          <6>1. reqs \in Seq(Requests)
            BY <1>1 DEF Types
          <6>2. Len(reqs') = Len(reqs) + 1
            BY <3>1, <6>1
          <6> QED BY <1>1, <6>2
        <5> QED BY <5>1 DEF CellEvent, Answered
      <4>3. Owing(c) \ {0} \subseteq Owing(c)'
        BY <2>4, <4>2
      <4>4. Cardinality(Owing(c)) <= Cardinality(Owing(c)')
        BY <1>2, <2>7, <4>1, <4>3, SetsCount
      <4> QED BY <1>1, <1>2, <2>3, <3>1, <4>4
    <3>3. CASE c # Head(chain)
      <4>1. ASSUME InChain(c) PROVE 0 \in Owing(c)'
        <5>1. PICK i \in 1 .. Len(chain) : chain[i] = c
          BY <4>1 DEF InChain
        <5>2. i # 1
          BY <1>1, <3>1, <3>3, <5>1
        <5>3. InChain(c)'
          BY <3>1, <5>1, <5>2 DEF InChain
        <5>4. Len(reqs') \in Nat
          BY <1>1 DEF TypeInv, Types
        <5> QED BY <5>3, <5>4 DEF Owing
      <4>2. CASE Owing(c) \subseteq Owing(c)'
        BY <2>5, <3>1, <4>2
      <4>3. CASE ~(Owing(c) \subseteq Owing(c)')
        BY <2>4, <2>8, <2>9, <4>1, <4>3
      <4> QED BY <4>2, <4>3
    <3> QED BY <3>2, <3>3
  <2>11. CASE ~SendNext /\ ~CellEvent /\ ~Answered
    <3>0. Owing(c) \subseteq Owing(c)'
      BY <2>4, <2>11
    <3>1. CASE UNCHANGED vars \/ Start \/ Backend \/ KernelSteps
      <4>1. st' = st
        BY <3>1 DEF vars, editor, Start, Backend, Execute, TakeKernel, Killed, StartKernel, Launched,
           ClearCell, KernelExited, PumpIopub, PumpShell, KernelSteps, KernelBegins, KernelEnds, KernelDies,
           KernelPrints
      <4> QED BY <2>5, <3>0, <4>1
    <3>2. ASSUME NEW d \in Cells, Clear(d) PROVE st'[c].pending <= Cardinality(Owing(c))'
      <4>1. st'[c] = st[c] \/ st'[c] = Cleared(st[c])
        BY <1>1, <3>2 DEF Clear
      <4>2. st'[c].pending = st[c].pending
        BY <1>1, <4>1, StateFields
      <4> QED BY <2>5, <3>0, <4>2
    <3>3. ASSUME NEW d \in Cells, RunCell(d) PROVE st'[c].pending <= Cardinality(Owing(c))'
      <4>1. /\ st'[c] = IF c = d THEN Queued(st[c]) ELSE st[c]
            /\ reqs' = Append(reqs, Request("execute", d, epoch, FALSE))
        BY <3>3 DEF RunCell, Mark
      <4>2. CASE c # d
        BY <2>5, <3>0, <4>1, <4>2
      <4>3. CASE c = d
        <5>1. n \in Owing(c)'
          BY <2>1, <2>7, <4>1, <4>3, OwingMore
        <5>2. st'[c].pending = st[c].pending + 1
          BY <1>1, <4>1, <4>3, StateFields
        <5> QED BY <1>2, <2>6, <2>7, <3>0, <5>1, <5>2
      <4> QED BY <4>2, <4>3
    <3>4. CASE RunAll
      <4>1. /\ st'[c] = IF c \in ToSet(All) THEN Queued(st[c]) ELSE st[c]
            /\ chain = <<>> /\ chain' = All /\ reqs' = reqs /\ wire' = wire
        BY <3>4 DEF RunAll, Mark
      <4>2. CASE c \notin ToSet(All)
        BY <2>5, <3>0, <4>1, <4>2
      <4>3. CASE c \in ToSet(All)
        <5>1. 0 \notin Owing(c)
          BY <4>1 DEF Owing, InChain
        <5>2. ~Asked'
          <6>1. ~Asked
            BY <4>1 DEF TypeInv, ChainInv
          <6> QED BY <4>1, <6>1 DEF Asked, ChainWaits, AnswerComes, Runs
        <5>3. \E i \in 1 .. Len(chain') : chain'[i] = c
          BY <4>1, <4>3 DEF ToSet
        <5>4. InChain(c)'
          BY <5>2, <5>3 DEF InChain
        <5>5. 0 \in Owing(c)'
          BY <1>1, <4>1, <5>4 DEF Owing
        <5>6. st'[c].pending = st[c].pending + 1
          BY <1>1, <4>1, <4>3, StateFields
        <5> QED BY <2>6, <3>0, <5>1, <5>5, <5>6
      <4> QED BY <4>2, <4>3
    <3> QED BY <1>4, <2>11, <3>1, <3>2, <3>3, <3>4 DEF Next, User, Editor
  <2> QED BY <2>8, <2>9, <2>10, <2>11
<1> QED BY <1>3, <1>4

(* No more runs than places that tell of them.                             *)
LEMMA PlacesTell ==
  ASSUME NEW n \in Nat, NEW S \in SUBSET (1 .. n), NEW f, NEW T, T \subseteq {f[i] : i \in S}
  PROVE  IsFiniteSet(T) /\ Cardinality(T) <= Cardinality(S) /\ Cardinality(T) \in Nat /\ Cardinality(S) \in Nat
<1>1. IsFiniteSet(S) /\ Cardinality(S) \in Nat
  BY PlacesCount
<1> DEFINE U == {f[i] : i \in S}
           g == [i \in S |-> f[i]]
<1>2. g \in Surjection(S, U)
  BY DEF Surjection
<1> HIDE DEF g, U
<1>3. IsFiniteSet(U) /\ Cardinality(U) <= Cardinality(S)
  BY <1>1, <1>2, FS_Surjection
<1>4. T \subseteq U
  BY DEF U
<1> QED BY <1>1, <1>3, <1>4, FS_Subset, FS_CardinalityType

LEMMA TwoSets ==
  ASSUME NEW S, NEW T, IsFiniteSet(S), IsFiniteSet(T)
  PROVE  IsFiniteSet(S \cup T) /\ Cardinality(S \cup T) <= Cardinality(S) + Cardinality(T)
         /\ Cardinality(S) \in Nat /\ Cardinality(T) \in Nat /\ Cardinality(S \cup T) \in Nat
<1>1. IsFiniteSet(S \cap T)
  BY FS_Intersection
<1>2. IsFiniteSet(S \cup T) /\ Cardinality(S \cup T) = Cardinality(S) + Cardinality(T) - Cardinality(S \cap T)
  BY FS_Union
<1>3. Cardinality(S) \in Nat /\ Cardinality(T) \in Nat /\ Cardinality(S \cap T) \in Nat
  BY <1>1, FS_CardinalityType
<1>4. Cardinality(S \cup T) \in Nat
  BY <1>2, FS_CardinalityType
<1> QED BY <1>2, <1>3, <1>4

(* The editor is owed all that is on its way.                              *)
LEMMA OwingIsOwed ==
  ASSUME TypeInv, NEW c
  PROVE  Cardinality(Owing(c)) \in Nat /\ Owed(c) \in Nat /\ Cardinality(Owing(c)) <= Owed(c)
<1> DEFINE P == {i \in 1 .. Len(wire) :
                CASE wire[i].kind = "event" -> wire[i].event.kind = "busy" /\ reqs[wire[i].event.run].cell = c
                  [] wire[i].kind = "answer" -> /\ wire[i].run \in Runs /\ reqs[wire[i].run].cell = c
                                                /\ ~wire[i].ok
                  [] OTHER -> FALSE}
           A == {i \in 1 .. Len(chain) : (i = 1 => ~ChainWaits /\ ~AnswerComes) /\ chain[i] = c}
           S == {i \in 1 .. Len(iopub) : iopub[i].kind = "busy" /\ reqs[iopub[i].run].cell = c}
<1>1. Owed(c) = Cardinality(S) + Cardinality(P) + Cardinality(AheadAt(c)) + Cardinality(SentOf(c)) + Cardinality(A)
  BY DEF Owed, AheadAt, SentOf
<1>2. /\ Len(iopub) \in Nat /\ Len(wire) \in Nat /\ Len(queue) \in Nat /\ Len(reqs) \in Nat /\ Len(chain) \in Nat
      /\ IsFiniteSet(SentOf(c)) /\ AheadAt(c) \in SUBSET (1 .. Len(queue))
      /\ S \in SUBSET (1 .. Len(iopub)) /\ P \in SUBSET (1 .. Len(wire)) /\ A \in SUBSET (1 .. Len(chain))
  <2>1. SentOf(c) \in SUBSET (1 .. Len(reqs)) /\ Len(reqs) \in Nat
    BY DebtCounts
  <2>2. IsFiniteSet(SentOf(c))
    BY <2>1, PlacesCount
  <2> QED BY <2>2, DebtCounts
<1> DEFINE f == [i \in 1 .. Len(wire) |-> IF wire[i].kind = "event" THEN wire[i].event.run ELSE wire[i].run]
           g == [i \in 1 .. Len(iopub) |-> iopub[i].run]
           h == [i \in 1 .. Len(chain) |-> 0]
           F == {f[i] : i \in P}
           G == {g[i] : i \in S}
           H == {h[i] : i \in A}
           Q == {queue[i] : i \in AheadAt(c)}
<1>3. ASSUME NEW r \in Owing(c) PROVE r \in F \/ r \in G \/ r \in H \/ r \in Q \/ r \in SentOf(c)
  <2>1. CASE r = 0
    <3>1. PICK i \in 1 .. Len(chain) : (i = 1 => ~Asked) /\ chain[i] = c
      BY <1>3, <2>1 DEF Owing, InChain
    <3>2. i \in A /\ h[i] = 0
      BY <3>1 DEF Asked
    <3> QED BY <2>1, <3>2
  <2>2. CASE r # 0
    <3>1. Live(r, c) /\ OnWay(r)
      BY <1>3, <2>2 DEF Owing
    <3>2. r \in Runs /\ reqs[r].cell = c
      BY <3>1 DEF Live
    <3>3. CASE reqs[r].at = "sent"
      BY <3>2, <3>3 DEF SentOf
    <3>4. CASE InQueue(r)
      BY <3>2, <3>4 DEF InQueue, AheadAt
    <3>5. CASE Began(r)
      <4>1. PICK i \in 1 .. Len(iopub) : iopub[i].kind = "busy" /\ iopub[i].run = r
        BY <3>5 DEF Began
      <4>2. i \in S /\ g[i] = r
        BY <3>2, <4>1
      <4> QED BY <4>2
    <3>6. CASE ToldOf(r) \/ Refused(r)
      <4>1. PICK i \in 1 .. Len(wire) : \/ wire[i].kind = "event" /\ wire[i].event.kind = "busy" /\ wire[i].event.run = r
                                        \/ wire[i].kind = "answer" /\ wire[i].run = r /\ ~wire[i].ok
        BY <3>6 DEF ToldOf, Refused
      <4>2. i \in P /\ f[i] = r
        BY <3>2, <4>1
      <4> QED BY <4>2
    <3> QED BY <3>1, <3>3, <3>4, <3>5, <3>6 DEF OnWay
  <2> QED BY <2>1, <2>2
<1> HIDE DEF P, A, S, f, g, h
<1>4. /\ IsFiniteSet(F) /\ Cardinality(F) <= Cardinality(P) /\ Cardinality(P) \in Nat /\ Cardinality(F) \in Nat
      /\ IsFiniteSet(G) /\ Cardinality(G) <= Cardinality(S) /\ Cardinality(S) \in Nat /\ Cardinality(G) \in Nat
      /\ IsFiniteSet(H) /\ Cardinality(H) <= Cardinality(A) /\ Cardinality(A) \in Nat /\ Cardinality(H) \in Nat
  <2>1. Len(wire) \in Nat /\ Len(iopub) \in Nat /\ Len(chain) \in Nat
    BY <1>2
  <2>2. P \in SUBSET (1 .. Len(wire)) /\ S \in SUBSET (1 .. Len(iopub)) /\ A \in SUBSET (1 .. Len(chain))
    BY <1>2
  <2>3. IsFiniteSet(F) /\ Cardinality(F) <= Cardinality(P) /\ Cardinality(P) \in Nat /\ Cardinality(F) \in Nat
    BY <2>1, <2>2, PlacesTell
  <2>4. IsFiniteSet(G) /\ Cardinality(G) <= Cardinality(S) /\ Cardinality(S) \in Nat /\ Cardinality(G) \in Nat
    BY <2>1, <2>2, PlacesTell
  <2>5. IsFiniteSet(H) /\ Cardinality(H) <= Cardinality(A) /\ Cardinality(A) \in Nat /\ Cardinality(H) \in Nat
    BY <2>1, <2>2, PlacesTell
  <2> QED BY <2>3, <2>4, <2>5
<1>5. IsFiniteSet(Q) /\ Cardinality(Q) <= Cardinality(AheadAt(c)) /\ Cardinality(AheadAt(c)) \in Nat
      /\ Cardinality(Q) \in Nat
  <2>1. Len(queue) \in Nat /\ AheadAt(c) \in SUBSET (1 .. Len(queue))
    BY <1>2
  <2>2. PICK q : q = queue
    OBVIOUS
  <2>3. Q \subseteq {q[i] : i \in AheadAt(c)}
    BY <2>2
  <2> HIDE DEF Q
  <2> QED BY <2>1, <2>3, PlacesTell
<1> HIDE DEF F, G, H, Q
<1> DEFINE X == F \cup G
           Y == H \cup Q
           Z == X \cup Y
           W == Z \cup SentOf(c)
<1>6. /\ IsFiniteSet(X) /\ Cardinality(X) \in Nat /\ Cardinality(X) <= Cardinality(F) + Cardinality(G)
      /\ IsFiniteSet(Y) /\ Cardinality(Y) \in Nat /\ Cardinality(Y) <= Cardinality(H) + Cardinality(Q)
  BY <1>4, <1>5, TwoSets
<1>7. Owing(c) \subseteq W
  BY <1>3
<1> HIDE DEF X, Y
<1>8. IsFiniteSet(Z) /\ Cardinality(Z) \in Nat /\ Cardinality(Z) <= Cardinality(X) + Cardinality(Y)
  BY <1>6, TwoSets
<1> HIDE DEF Z
<1>9. IsFiniteSet(W) /\ Cardinality(W) \in Nat /\ Cardinality(W) <= Cardinality(Z) + Cardinality(SentOf(c))
      /\ Cardinality(SentOf(c)) \in Nat
  BY <1>2, <1>8, TwoSets
<1> HIDE DEF W
<1>10. Cardinality(Owing(c)) <= Cardinality(W) /\ Cardinality(Owing(c)) \in Nat
  BY <1>7, <1>9, FS_Subset, FS_CardinalityType
<1> QED BY <1>1, <1>4, <1>5, <1>6, <1>8, <1>9, <1>10

(* What holds of the cells' runs with requests taken in order, one start   *)
(* at a time and stops answered before a cell is run again.                *)
SettleInv ==
  /\ TypeInv /\ TimedInv /\ Calm /\ ToldInv
  /\ ReplyInv /\ OrderInv /\ StartInv /\ HeadInv /\ BadgeInv /\ AnswerInv
  /\ RetireInv /\ PatientInv /\ PathInv /\ CountInv

LEMMA SettleInit == Init => SettleInv
<1> SUFFICES ASSUME Init PROVE SettleInv
  OBVIOUS
<1>1. TypeInv /\ TimedInv /\ Calm /\ ToldInv
  BY InitTypes, InitTimed, ToldInit
<1>2. /\ Len(reqs) = 0 /\ Len(wire) = 0 /\ Len(shell) = 0 /\ Len(iopub) = 0 /\ Len(chain) = 0 /\ epoch = 0
      /\ retiring = 0 /\ queue = <<>> /\ step = "waits" /\ kernel = 0 /\ st = [c \in Cells |-> Fresh] /\ Runs = {}
      /\ dying = FALSE
  BY DEF Init, Runs
<1>3. \A c \in Cells : st[c].pending = 0 /\ st[c].run = "no" /\ st[c].state = "idle" /\ st[c].epoch = -1
  BY <1>2 DEF Fresh
<1>4. ReplyInv /\ OrderInv /\ StartInv
  BY <1>2, Numbers DEF ReplyInv, OrderInv, StartInv
<1>5. HeadInv /\ AnswerInv /\ RetireInv
  BY <1>2 DEF HeadInv, AnswerInv, RetireInv
<1>6. BadgeInv
  BY <1>2, <1>3 DEF BadgeInv, Badge
<1>7. PatientInv
  BY <1>2, <1>3 DEF PatientInv, Stale
<1>8. PathInv
  <2> SUFFICES ASSUME NEW c \in Cells PROVE PathAt(c)
    BY DEF PathInv
  <2>1. "no" \in RunStates
    BY DEF RunStates
  <2>2. LWire(c, "no", "no") /\ LPub(c, "no", "no")
    BY <1>2, <2>1, PathNone DEF LWire, LPub
  <2>3. Arrives(c, "no", "no")
    BY DEF Arrives
  <2> QED BY <1>3, <2>1, <2>2, <2>3 DEF PathAt
<1>9. CountInv
  <2> SUFFICES ASSUME NEW c \in Cells PROVE st[c].pending <= Cardinality(Owing(c))
    BY DEF CountInv
  <2>1. Cardinality(Owing(c)) \in Nat
    BY <1>1, OwingFinite, FS_CardinalityType
  <2> QED BY <1>3, <2>1
<1> QED BY <1>1, <1>4, <1>5, <1>6, <1>7, <1>8, <1>9 DEF SettleInv

LEMMA SettleStep ==
  ASSUME InOrder, OneStart, Patient, SettleInv, [Next]_vars
  PROVE  SettleInv'
<1>1. /\ TypeInv /\ TimedInv /\ Calm /\ ToldInv
      /\ ReplyInv /\ OrderInv /\ StartInv /\ HeadInv /\ BadgeInv /\ AnswerInv
      /\ RetireInv /\ PatientInv /\ PathInv /\ CountInv
  BY DEF SettleInv
<1>2. TypeInv' /\ TimedInv' /\ Calm' /\ ToldInv'
  BY <1>1, TypeStep, TimedStep, CalmStep, ToldStep
<1>3. ReplyInv' /\ OrderInv' /\ StartInv' /\ HeadInv' /\ BadgeInv' /\ AnswerInv'
  <2>1. KernelInv
    BY <1>1 DEF TimedInv
  <2> QED BY <1>1, <2>1, ReplyStep, OrderStep, StartStep, HeadStep, BadgeStep, AnswerStep
<1>4. RetireInv' /\ PatientInv'
  BY <1>1, RetireStep, PatientStep
<1>5. PathInv' /\ CountInv'
  BY <1>1, PathStep, CountStep
<1> QED BY <1>2, <1>3, <1>4, <1>5 DEF SettleInv

(* The editor never counts more of a cell's submissions than are really on *)
(* their way, unless a kernel just died with them; and while the first     *)
(* kernel lives it counts exactly those: what mark_queued, take_run,       *)
(* unqueue and release_pending come to, whatever was stopped meanwhile.    *)
THEOREM PendingIsKept ==
  ASSUME InOrder, OneStart, Patient
  PROVE  Spec => []PendingIsOwed
<1>1. SettleInv => PendingIsOwed
  <2> SUFFICES ASSUME SettleInv, NEW c \in Cells
               PROVE  /\ DeathTold => st[c].pending <= Owed(c)
                      /\ Undisturbed => st[c].pending = Owed(c)
    BY DEF PendingIsOwed
  <2>1. TypeInv /\ Calm /\ ToldInv /\ CountInv
    BY DEF SettleInv
  <2>2. ASSUME DeathTold PROVE st[c].pending <= Owed(c)
    <3>1. st[c].pending <= Cardinality(Owing(c))
      BY <2>1, <2>2 DEF CountInv
    <3>2. st[c].pending \in Nat
      BY <2>1 DEF TypeInv, Types, CellStates
    <3> QED BY <2>1, <3>1, <3>2, OwingIsOwed
  <2>3. ASSUME Undisturbed PROVE st[c].pending = Owed(c)
    BY <2>1, <2>3, OwedIsDebt DEF ToldInv, Told
  <2> QED BY <2>2, <2>3
<1> QED BY <1>1, SettleInit, SettleStep, PTL DEF Spec

(* Once nothing is on its way every cell is at rest, whatever became of    *)
(* its runs - ended, aborted, refused, killed by a stop or a restart, lost *)
(* with a kernel that died: no badge waits or runs for good.               *)
THEOREM CellsComeToRest ==
  ASSUME InOrder, OneStart, Patient
  PROVE  Spec => []CellsSettle
<1>1. SettleInv => CellsSettle
  <2> SUFFICES ASSUME SettleInv, Quiet, NEW c \in Cells
               PROVE  st[c].state = "idle" /\ st[c].pending = 0 /\ st[c].run = "no"
    BY DEF CellsSettle
  <2>1. TypeInv /\ BadgeInv /\ PathInv /\ CountInv /\ st[c].pending \in Nat
    BY DEF SettleInv, TypeInv, Types, CellStates
  <2>2. /\ Len(wire) = 0 /\ Len(chain) = 0 /\ Len(iopub) = 0 /\ Len(queue) = 0 /\ queue = <<>> /\ ~dying
        /\ \A r \in 1 .. Len(reqs) : reqs[r].at = "done"
    BY DEF Quiet
  <2>3. st[c].pending = 0
    <3>1. Owing(c) = {}
      <4> SUFFICES ASSUME NEW r \in Owing(c) PROVE FALSE
        OBVIOUS
      <4>1. ~InChain(c) /\ ~InQueue(r) /\ ~Began(r) /\ ~ToldOf(r) /\ ~Refused(r)
        BY <2>2 DEF InChain, InQueue, Began, ToldOf, Refused
      <4>2. r \in 1 .. Len(reqs) /\ OnWay(r)
        BY <4>1 DEF Owing, Live, Runs
      <4> QED BY <2>2, <4>1, <4>2 DEF OnWay
    <3>2. DeathTold
      BY <2>2 DEF DeathTold
    <3>3. st[c].pending <= Cardinality(Owing(c))
      BY <2>1, <3>2 DEF CountInv
    <3> QED BY <2>1, <3>1, <3>3, FS_EmptySet
  <2>4. st[c].run = "no"
    <3>1. PICK y, z \in RunStates : LWire(c, st[c].run, y) /\ LPub(c, y, z) /\ Arrives(c, y, z)
      BY <2>1 DEF PathInv, PathAt
    <3>2. st[c].run \in RunStates
      BY <2>1 DEF TypeInv, Types, CellStates, RunStates
    <3>3. st[c].run = y
      BY <2>2, <3>1, <3>2, PathNone DEF LWire
    <3>4. y = z
      BY <2>2, <3>1, PathNone DEF LPub
    <3>5. step # "runs"
      BY <2>1, <2>2 DEF TypeInv, WireInv
    <3> QED BY <2>2, <3>1, <3>3, <3>4, <3>5 DEF Arrives
  <2>5. st[c].state = "idle"
    BY <2>1, <2>3, <2>4 DEF BadgeInv, Badge
  <2> QED BY <2>3, <2>4, <2>5
<1> QED BY <1>1, SettleInit, SettleStep, PTL DEF Spec
=============================================================================
