---------------------------- MODULE Editor_proofs ----------------------------
(***************************************************************************)
(* The safety of what Neovim's main loop has on its hands: the native jobs *)
(* of a context (NativeContext), for any number of jobs, any batch and     *)
(* pumps nested to any depth, and the editor's backends (BackendClients),  *)
(* for any number of backends and calls.                                   *)
(***************************************************************************)
EXTENDS NativeContext, BackendClients, SequenceTheorems, TLAPS

-----------------------------------------------------------------------------
(* Native jobs.                                                            *)

(* What makes ContextInv inductive: a job that was never submitted has no  *)
(* entry and no call, what waits to be collected or dispatched has ended,  *)
(* and entries are in the graveyard only once the context is closed.       *)
NewIsUntouched ==
  \A j \in Jobs : state[j] = "new" => calls[j] = 0 /\ j \notin pending \cup graveyard
CompletedEnded == \A i \in 1..Len(completed) : state[completed[i].job] = "ended"
RecordsEnded ==
  \A p \in 1..Len(pumps) : \A i \in 1..Len(pumps[p].records) :
    state[pumps[p].records[i].job] = "ended"
BuriedAtClose == IF open THEN graveyard = {} ELSE pending = {}

ContextIInv ==
  /\ ContextInv
  /\ NewIsUntouched /\ CompletedEnded /\ RecordsEnded /\ BuriedAtClose

LEMMA ContextInitIInv == ContextInit => ContextIInv
<1> SUFFICES ASSUME ContextInit PROVE ContextIInv
  OBVIOUS
<1>1. /\ state = [j \in Jobs |-> "new"] /\ completed = <<>> /\ collected = <<>> /\ open = TRUE
      /\ announced = FALSE /\ byte = FALSE /\ scheduled = FALSE
      /\ pending = {} /\ graveyard = {} /\ pumps = <<>> /\ calls = [j \in Jobs |-> 0]
  BY DEF ContextInit, Lib!Init
<1>2. ContextTypeOK
  <2>1. pumps \in Seq(Pump) /\ completed \in Seq(Lib!Completions) /\ collected \in Seq(Lib!Completions)
    BY <1>1, EmptySeq
  <2>2. state \in [Jobs -> Lib!States] /\ open \in BOOLEAN /\ calls \in [Jobs -> Nat]
    BY <1>1 DEF Lib!States
  <2> QED
    BY <1>1, <2>1, <2>2 DEF ContextTypeOK, Lib!TypeOK
<1>3. InputsAreAnchored /\ CalledOnce /\ NewIsUntouched /\ BuriedAtClose
  BY <1>1 DEF InputsAreAnchored, CalledOnce, NewIsUntouched, BuriedAtClose
<1>4. CompletedEnded /\ RecordsEnded
  BY <1>1 DEF CompletedEnded, RecordsEnded
<1> QED
  BY <1>2, <1>3, <1>4 DEF ContextIInv, ContextInv

(* The pool's types, with the library's definitions out of the way.        *)
LEMMA Types ==
  ASSUME ContextTypeOK
  PROVE  /\ state \in [Jobs -> Lib!States] /\ open \in BOOLEAN
         /\ completed \in Seq(Lib!Completions) /\ collected \in Seq(Lib!Completions)
         /\ announced \in BOOLEAN /\ byte \in BOOLEAN /\ scheduled \in BOOLEAN
         /\ pending \subseteq Jobs /\ graveyard \subseteq Jobs
         /\ pumps \in Seq(Pump) /\ calls \in [Jobs -> Nat]
  BY DEF ContextTypeOK, Lib!TypeOK

(* Completions and the records of a pump are of submitted jobs.            *)
LEMMA OfJobs ==
  ASSUME NEW s \in Seq(Lib!Completions), NEW i \in 1..Len(s)
  PROVE  s[i].job \in Jobs
<1>1. s[i] \in Lib!Completions
  BY ElementOfSeq
<1> QED
  BY <1>1 DEF Lib!Completions

LEMMA JobsOfPumps ==
  ASSUME ContextTypeOK
  PROVE  /\ \A i \in 1..Len(completed) : completed[i].job \in Jobs
         /\ \A p \in 1..Len(pumps) :
              /\ pumps[p] \in Pump /\ pumps[p].records \in Seq(Lib!Completions)
              /\ \A i \in 1..Len(pumps[p].records) : pumps[p].records[i].job \in Jobs
<1>1. \A i \in 1..Len(completed) : completed[i].job \in Jobs
  BY Types, OfJobs
<1>2. \A p \in 1..Len(pumps) : pumps[p] \in Pump
  BY Types, ElementOfSeq
<1>3. \A p \in 1..Len(pumps) : pumps[p].records \in Seq(Lib!Completions)
  BY <1>2 DEF Pump
<1> QED
  BY <1>1, <1>2, <1>3, OfJobs

(* A job that has ended stays so, and what is completed, buried and run by *)
(* pumps stays as it is.                                                   *)
LEMMA EndedStay ==
  ASSUME ContextTypeOK, CompletedEnded, RecordsEnded, UNCHANGED <<completed, pumps>>,
         \A j \in Jobs : state[j] = "ended" => state'[j] = "ended"
  PROVE  CompletedEnded' /\ RecordsEnded'
  BY JobsOfPumps DEF CompletedEnded, RecordsEnded

(* A worker takes a queued job, or a cancel does.                          *)
LEMMA WorkKeeps ==
  ASSUME ContextIInv, NEW j \in Jobs, Work(j) \/ Cancel(j)
  PROVE  ContextIInv'
<1>1. /\ state[j] = "queued"
      /\ \E s \in {"running", "withdrawn"} : state' = [state EXCEPT ![j] = s]
      /\ UNCHANGED <<completed, collected, open, announced, byte, scheduled, pending,
                     graveyard, pumps, calls>>
  BY DEF Work, Cancel, Lib!Start, Lib!Withdraw
<1>2. ContextTypeOK'
  BY <1>1, Types DEF ContextIInv, ContextInv, ContextTypeOK, Lib!TypeOK, Lib!States
<1>3. NewIsUntouched' /\ BuriedAtClose' /\ InputsAreAnchored' /\ CalledOnce'
  BY <1>1, Types DEF ContextIInv, ContextInv, NewIsUntouched, BuriedAtClose, InputsAreAnchored, CalledOnce
<1>4. CompletedEnded' /\ RecordsEnded'
  BY <1>1, EndedStay, Types DEF ContextIInv, ContextInv
<1> QED
  BY <1>2, <1>3, <1>4 DEF ContextIInv, ContextInv

LEMMA SubmitKeeps ==
  ASSUME ContextIInv, NEW j \in Jobs, Submit(j)
  PROVE  ContextIInv'
<1>1. /\ open /\ state[j] = "new" /\ state' = [state EXCEPT ![j] = "queued"]
      /\ pending' = pending \cup {j}
      /\ UNCHANGED <<completed, collected, open, announced, byte, scheduled,
                     graveyard, pumps, calls>>
  BY DEF Submit, Lib!Submit
<1>2. ContextTypeOK'
  BY <1>1, Types DEF ContextIInv, ContextInv, ContextTypeOK, Lib!TypeOK, Lib!States
<1>3. NewIsUntouched' /\ BuriedAtClose' /\ InputsAreAnchored' /\ CalledOnce'
  BY <1>1, Types DEF ContextIInv, ContextInv, NewIsUntouched, BuriedAtClose, InputsAreAnchored, CalledOnce
<1>4. CompletedEnded' /\ RecordsEnded'
  BY <1>1, EndedStay, Types DEF ContextIInv, ContextInv
<1> QED
  BY <1>2, <1>3, <1>4 DEF ContextIInv, ContextInv

LEMMA CompleteKeeps ==
  ASSUME ContextIInv, NEW j \in Jobs, Complete(j)
  PROVE  ContextIInv'
<1>1. PICK status \in Lib!Outcomes : Lib!Complete(j, status)
  BY DEF Complete
<1> DEFINE c == [job |-> j, status |-> status]
<1>2. /\ c \in Lib!Completions
      /\ completed' = Append(completed, c)
      /\ state' = [state EXCEPT ![j] = "ended"] /\ state[j] # "new"
      /\ UNCHANGED <<collected, open, scheduled, pending, graveyard, pumps, calls>>
      /\ announced' \in BOOLEAN /\ byte' \in BOOLEAN
  BY <1>1, Types DEF Complete, Lib!Complete, Lib!Completions, ContextIInv, ContextInv
<1>3. ContextTypeOK'
  BY <1>2, Types DEF ContextIInv, ContextInv, ContextTypeOK, Lib!TypeOK, Lib!States
<1>4. CompletedEnded'
  <2>1. /\ completed \in Seq(Lib!Completions)
        /\ \A i \in 1..Len(completed) : completed[i].job \in Jobs
    BY Types, JobsOfPumps DEF ContextIInv, ContextInv
  <2>2. /\ Len(completed') = Len(completed) + 1 /\ completed'[Len(completed) + 1] = c
        /\ \A i \in 1..Len(completed) : completed'[i] = completed[i]
    BY <1>2, <2>1, AppendProperties
  <2>3. \A i \in 1..Len(completed) : state'[completed[i].job] = "ended"
    BY <1>2, <2>1, Types DEF ContextIInv, ContextInv, CompletedEnded
  <2>4. state'[c.job] = "ended" /\ Len(completed) \in Nat
    BY <1>2, <2>1, Types, LenProperties DEF ContextIInv, ContextInv
  <2> HIDE DEF c
  <2> QED
    BY <2>2, <2>3, <2>4 DEF CompletedEnded
<1>5. NewIsUntouched' /\ BuriedAtClose' /\ InputsAreAnchored' /\ CalledOnce'
  BY <1>2, Types DEF ContextIInv, ContextInv, NewIsUntouched, BuriedAtClose, InputsAreAnchored, CalledOnce
<1>6. RecordsEnded'
  BY <1>2, JobsOfPumps, Types DEF ContextIInv, ContextInv, RecordsEnded
<1> QED
  BY <1>3, <1>4, <1>5, <1>6 DEF ContextIInv, ContextInv

LEMMA CloseKeeps ==
  ASSUME ContextIInv, CloseContext
  PROVE  ContextIInv'
<1>1. /\ open /\ ~open' /\ state' = [j \in Jobs |-> IF state[j] = "queued" THEN "dropped" ELSE state[j]]
      /\ graveyard = {} /\ graveyard' = pending /\ pending' = {} /\ byte' = FALSE
      /\ open' \in BOOLEAN
      /\ UNCHANGED <<completed, collected, announced, scheduled, pumps, calls>>
  BY DEF CloseContext, Lib!Close, Buried, ContextIInv, BuriedAtClose
<1>2. ContextTypeOK'
  BY <1>1, Types DEF ContextIInv, ContextInv, ContextTypeOK, Lib!TypeOK, Lib!States
<1>3. NewIsUntouched' /\ BuriedAtClose' /\ InputsAreAnchored' /\ CalledOnce'
  BY <1>1, Types DEF ContextIInv, ContextInv, NewIsUntouched, BuriedAtClose, InputsAreAnchored, CalledOnce
<1>4. CompletedEnded' /\ RecordsEnded'
  BY <1>1, EndedStay, Types DEF ContextIInv, ContextInv
<1> QED
  BY <1>2, <1>3, <1>4 DEF ContextIInv, ContextInv

(* The wake and the schedule are moved without the rest.                   *)
LEMMA ReadByteKeeps ==
  ASSUME ContextIInv, ReadByte
  PROVE  ContextIInv'
<1>1. /\ byte' \in BOOLEAN /\ scheduled' \in BOOLEAN
      /\ UNCHANGED <<pool, announced, pending, graveyard, pumps, calls>>
  BY DEF ReadByte
<1> QED
  BY <1>1, Types DEF ContextIInv, ContextInv, ContextTypeOK, Lib!TypeOK, NewIsUntouched, BuriedAtClose,
     InputsAreAnchored, CalledOnce, CompletedEnded, RecordsEnded, pool

(* A step of the pumps alone: every pump left is one of well-typed records *)
(* of jobs that have ended.                                                *)
LEMMA PumpsMove ==
  ASSUME ContextIInv, pumps' \in Seq(Pump), RecordsEnded', scheduled' \in BOOLEAN,
         UNCHANGED <<pool, announced, byte, pending, graveyard, calls>>
  PROVE  ContextIInv'
  BY Types DEF ContextIInv, ContextInv, ContextTypeOK, Lib!TypeOK, NewIsUntouched, BuriedAtClose,
     InputsAreAnchored, CalledOnce, CompletedEnded, pool

LEMMA StartPumpKeeps ==
  ASSUME ContextIInv, StartPump
  PROVE  ContextIInv'
<1>1. NewPump \in Pump /\ NewPump.records = <<>>
  BY EmptySeq DEF Pump, NewPump
<1>2. pumps \in Seq(Pump) /\ Len(pumps) \in Nat
  BY Types, LenProperties DEF ContextIInv, ContextInv
<1>3. CASE open
  <2>1. /\ pumps' = Append(pumps, NewPump) /\ pumps' \in Seq(Pump) /\ Len(pumps') = Len(pumps) + 1
        /\ \A p \in 1..Len(pumps) : pumps'[p] = pumps[p]
        /\ pumps'[Len(pumps) + 1] = NewPump
    BY <1>1, <1>2, <1>3, AppendProperties DEF StartPump
  <2>2. RecordsEnded'
    BY <1>1, <1>2, <2>1 DEF StartPump, ContextIInv, RecordsEnded, pool
  <2> QED
    BY <2>1, <2>2, PumpsMove DEF StartPump, pool
<1>4. CASE ~open
  BY <1>2, <1>4, PumpsMove DEF StartPump, ContextIInv, RecordsEnded, pool
<1> QED
  BY <1>3, <1>4

(* The pump that ends or yields is the innermost; the outer stay.          *)
LEMMA LeavePump ==
  ASSUME ContextIInv, Depth > 0, pumps' = Left, scheduled' \in BOOLEAN,
         UNCHANGED <<pool, announced, byte, pending, graveyard, calls>>
  PROVE  ContextIInv'
<1>1. pumps \in Seq(Pump) /\ Depth \in Nat \ {0} /\ \A p \in 1..Depth : pumps[p] \in Pump
  BY Types, LenProperties, ElementOfSeq DEF ContextIInv, ContextInv, Depth
<1>2. /\ Left \in Seq(Pump) /\ Len(Left) = Depth - 1
      /\ \A p \in 1..(Depth - 1) : Left[p] = pumps[p]
  BY <1>1, SubSeqProperties DEF Left
<1>3. RecordsEnded'
  BY <1>1, <1>2 DEF ContextIInv, RecordsEnded, Depth, pool
<1> QED
  BY <1>2, <1>3, PumpsMove

(* One pump is put in another's place.                                     *)
LEMMA PutPump ==
  ASSUME ContextIInv, Depth > 0, NEW d \in Pump, pumps' = [pumps EXCEPT ![Depth] = d],
         state' = state, \A i \in 1..Len(d.records) : state[d.records[i].job] = "ended"
  PROVE  pumps' \in Seq(Pump) /\ RecordsEnded'
<1>1. pumps \in Seq(Pump) /\ Depth \in 1..Len(pumps)
  BY Types, LenProperties DEF ContextIInv, ContextInv, Depth
<1>2. /\ pumps' \in Seq(Pump) /\ Len(pumps') = Len(pumps)
      /\ \A p \in 1..Len(pumps) : pumps'[p] = IF p = Depth THEN d ELSE pumps[p]
  BY <1>1, ExceptSeq
<1> QED
  BY <1>2 DEF ContextIInv, RecordsEnded

LEMMA ReturnKeeps ==
  ASSUME ContextIInv, Return
  PROVE  ContextIInv'
<1> DEFINE d == [Inner EXCEPT !.calling = FALSE]
<1>1. pumps \in Seq(Pump) /\ Depth \in 1..Len(pumps) /\ Depth > 0
  BY Types, LenProperties DEF ContextIInv, ContextInv, Depth, Return
<1>2. Inner \in Pump
  BY <1>1, ElementOfSeq DEF Inner
<1>3. d \in Pump /\ d.records = Inner.records
  BY <1>2 DEF Pump
<1>4. \A i \in 1..Len(d.records) : state[d.records[i].job] = "ended"
  BY <1>1, <1>3 DEF ContextIInv, RecordsEnded, Inner
<1>5. pumps' = [pumps EXCEPT ![Depth] = d]
  BY DEF Return, Inner
<1>6. UNCHANGED <<pool, announced, byte, scheduled, pending, graveyard, calls>> /\ state' = state
  BY DEF Return, pool
<1>7. pumps' \in Seq(Pump) /\ RecordsEnded'
  <2> HIDE DEF d
  <2> QED
    BY <1>1, <1>3, <1>4, <1>5, <1>6, PutPump
<1>8. scheduled' \in BOOLEAN
  BY <1>6, Types DEF ContextIInv, ContextInv
<1> QED
  BY <1>6, <1>7, <1>8, PumpsMove

(* Two fields of a pump set one after the other.                           *)
LEMMA SetPoll ==
  ASSUME NEW p \in Pump, NEW r, NEW l
  PROVE  [[p EXCEPT !.records = r] EXCEPT !.last = l]
           = [records |-> r, last |-> l, calling |-> p.calling]
<1>1. PICK x, y, z : p = [records |-> x, last |-> y, calling |-> z]
  <2>1. p = [records |-> p.records, last |-> p.last, calling |-> p.calling]
    BY DEF Pump
  <2> QED
    BY <2>1
<1>2. p.last = y /\ p.calling = z
  BY <1>1
<1>3. [p EXCEPT !.records = r] = [records |-> r, last |-> y, calling |-> z]
  BY <1>1
<1> DEFINE q == [records |-> r, last |-> y, calling |-> z]
<1>4. [q EXCEPT !.last = l] = [records |-> r, last |-> l, calling |-> z]
  OBVIOUS
<1> QED
  BY <1>2, <1>3, <1>4

LEMMA SetCall ==
  ASSUME NEW p \in Pump, NEW r, NEW b
  PROVE  [[p EXCEPT !.records = r] EXCEPT !.calling = b]
           = [records |-> r, last |-> p.last, calling |-> b]
<1>1. PICK x, y, z : p = [records |-> x, last |-> y, calling |-> z]
  <2>1. p = [records |-> p.records, last |-> p.last, calling |-> p.calling]
    BY DEF Pump
  <2> QED
    BY <2>1
<1>2. p.last = y /\ p.calling = z
  BY <1>1
<1>3. [p EXCEPT !.records = r] = [records |-> r, last |-> y, calling |-> z]
  BY <1>1
<1> DEFINE q == [records |-> r, last |-> y, calling |-> z]
<1>4. [q EXCEPT !.calling = b] = [records |-> r, last |-> y, calling |-> b]
  OBVIOUS
<1> QED
  BY <1>2, <1>3, <1>4

(* A poll moves the oldest completions from the pool to the innermost pump. *)
LEMMA PollKeeps ==
  ASSUME ContextIInv, Poll
  PROVE  ContextIInv'
<1> DEFINE n == IF Len(completed) < Batch THEN Len(completed) ELSE Batch
           taken == SubSeq(completed, 1, n)
           rest == SubSeq(completed, n + 1, Len(completed))
           last == IF n = Batch THEN "full" ELSE "short"
           d == [records |-> taken, last |-> last, calling |-> Inner.calling]
<1>1. /\ pumps \in Seq(Pump) /\ Depth \in 1..Len(pumps) /\ Depth > 0
      /\ completed \in Seq(Lib!Completions) /\ collected \in Seq(Lib!Completions)
      /\ Len(completed) \in Nat /\ n \in 0..Len(completed)
  BY Types, LenProperties, ContextAssumption DEF ContextIInv, ContextInv, Depth, Poll, Dispatching
<1>2. Inner \in Pump
  BY <1>1, ElementOfSeq DEF Inner
<1>3. \A i \in 1..Len(completed) : completed[i] \in Lib!Completions
  BY <1>1, ElementOfSeq
<1>4. /\ taken \in Seq(Lib!Completions) /\ Len(taken) = n
      /\ \A i \in 1..n : taken[i] = completed[i]
  <2> HIDE DEF n
  <2> QED
    BY <1>1, <1>3, SubSeqProperties
<1>5. /\ rest \in Seq(Lib!Completions) /\ Len(rest) = Len(completed) - n
      /\ \A i \in 1..(Len(completed) - n) : rest[i] = completed[n + i]
  <2> HIDE DEF n
  <2> QED
    BY <1>1, <1>3, SubSeqProperties
<1>6. d \in Pump /\ d.records = taken
  <2> HIDE DEF taken
  <2> QED
    BY <1>2, <1>4 DEF Pump
<1>7. pumps' = [pumps EXCEPT ![Depth] = d]
  <2>2. pumps' = [pumps EXCEPT ![Depth].records = taken, ![Depth].last = last]
    BY DEF Poll, Polled
  <2>3. d = [[Inner EXCEPT !.records = taken] EXCEPT !.last = last]
    BY <1>2, SetPoll
  <2>4. [[pumps EXCEPT ![Depth].records = taken] EXCEPT ![Depth].last = last]
          = [pumps EXCEPT ![Depth] = [[Inner EXCEPT !.records = taken] EXCEPT !.last = last]]
    <3> HIDE DEF taken, last, d
    <3> QED
      BY <1>1 DEF Inner
  <2> QED
    BY <2>2, <2>3, <2>4
<1>8. /\ UNCHANGED <<state, open, byte, scheduled, pending, graveyard, calls>>
      /\ announced' = FALSE
      /\ \/ completed' = rest /\ collected' = collected \o taken
         \/ completed' = completed /\ collected' = collected
  BY DEF Poll, Lib!Poll, pool
<1>9. pumps' \in Seq(Pump) /\ RecordsEnded'
  <2>1. \A i \in 1..Len(d.records) : state[d.records[i].job] = "ended"
    BY <1>1, <1>4, <1>6 DEF ContextIInv, CompletedEnded
  <2> HIDE DEF d
  <2> QED
    BY <1>1, <1>6, <1>7, <1>8, <2>1, PutPump
<1>10. CompletedEnded'
  <2> HIDE DEF n, rest
  <2>1. \A i \in 1..Len(rest) : n + i \in 1..Len(completed) /\ rest[i] = completed[n + i]
    BY <1>1, <1>5
  <2>2. CASE completed' = rest
    BY <1>8, <2>1, <2>2 DEF ContextIInv, CompletedEnded
  <2>3. CASE completed' = completed
    BY <1>8, <2>3 DEF ContextIInv, CompletedEnded
  <2> QED
    BY <1>8, <2>2, <2>3
<1>11. completed' \in Seq(Lib!Completions) /\ collected' \in Seq(Lib!Completions)
  <2> HIDE DEF taken, rest
  <2>1. collected \o taken \in Seq(Lib!Completions)
    BY <1>1, <1>4, ConcatProperties
  <2> QED
    BY <1>1, <1>5, <1>8, <2>1
<1>12. ContextTypeOK'
  BY <1>8, <1>9, <1>11, Types DEF ContextIInv, ContextInv, ContextTypeOK, Lib!TypeOK
<1>13. NewIsUntouched' /\ BuriedAtClose' /\ InputsAreAnchored' /\ CalledOnce'
  BY <1>8 DEF ContextIInv, ContextInv, NewIsUntouched, BuriedAtClose, InputsAreAnchored, CalledOnce
<1> QED
  BY <1>9, <1>10, <1>12, <1>13 DEF ContextIInv, ContextInv

(* A record is dispatched: its job has ended, so no worker reads what the  *)
(* entry anchored, and an entry that is there was never called.            *)
LEMMA FinishKeeps ==
  ASSUME ContextIInv, FinishRecord
  PROVE  ContextIInv'
<1> DEFINE j == Head(Inner.records).job
           r == Tail(Inner.records)
           d == [records |-> r, last |-> Inner.last, calling |-> j \in pending]
<1>1. /\ pumps \in Seq(Pump) /\ Depth \in 1..Len(pumps) /\ Depth > 0
      /\ Inner.records # <<>>
  BY Types, LenProperties DEF ContextIInv, ContextInv, Depth, FinishRecord, Dispatching
<1>2. Inner \in Pump /\ Inner.records \in Seq(Lib!Completions)
  BY <1>1, Types, JobsOfPumps DEF Inner, ContextIInv, ContextInv
<1>3. /\ r \in Seq(Lib!Completions) /\ Len(r) = Len(Inner.records) - 1
      /\ \A i \in 1..Len(r) : r[i] = Inner.records[i + 1]
      /\ Len(Inner.records) \in Nat \ {0} /\ Head(Inner.records) = Inner.records[1]
  BY <1>1, <1>2, HeadTailProperties, LenProperties
<1>4. \A i \in 1..Len(Inner.records) : state[Inner.records[i].job] = "ended"
  BY <1>1 DEF Inner, ContextIInv, RecordsEnded
<1>5. j \in Jobs /\ state[j] = "ended"
  BY <1>1, <1>2, <1>3, <1>4, OfJobs
<1>6. /\ pending' = pending \ {j}
      /\ calls' = IF j \in pending THEN [calls EXCEPT ![j] = @ + 1] ELSE calls
      /\ pumps' = [pumps EXCEPT ![Depth].records = Tail(@), ![Depth].calling = j \in pending]
      /\ UNCHANGED <<state, completed, collected, open, announced, byte, scheduled, graveyard>>
  BY DEF FinishRecord, pool
<1>7. d \in Pump /\ d.records = r
  <2> HIDE DEF r, j
  <2>1. (j \in pending) \in BOOLEAN
    OBVIOUS
  <2> QED
    BY <1>2, <1>3, <2>1 DEF Pump
<1>8. pumps' = [pumps EXCEPT ![Depth] = d]
  <2> DEFINE b == j \in pending
  <2>2. d = [[Inner EXCEPT !.records = r] EXCEPT !.calling = b]
    BY <1>2, SetCall
  <2>3. pumps' = [[pumps EXCEPT ![Depth].records = r] EXCEPT ![Depth].calling = b]
    BY <1>1, <1>6 DEF Inner
  <2>4. [[pumps EXCEPT ![Depth].records = r] EXCEPT ![Depth].calling = b]
          = [pumps EXCEPT ![Depth] = [[Inner EXCEPT !.records = r] EXCEPT !.calling = b]]
    <3> HIDE DEF r, b, d
    <3> QED
      BY <1>1 DEF Inner
  <2> QED
    BY <2>2, <2>3, <2>4
<1>9. pumps' \in Seq(Pump) /\ RecordsEnded'
  <2>1. \A i \in 1..Len(d.records) : state[d.records[i].job] = "ended"
    BY <1>3, <1>4, <1>7
  <2> HIDE DEF d
  <2> QED
    BY <1>1, <1>6, <1>7, <1>8, <2>1, PutPump
<1>10. j \in pending => open /\ j \notin graveyard /\ calls[j] = 0
  BY <1>5 DEF ContextIInv, ContextInv, BuriedAtClose, CalledOnce
<1>11. CompletedEnded' /\ BuriedAtClose'
  BY <1>6 DEF ContextIInv, CompletedEnded, BuriedAtClose
<1>12. /\ pending' \subseteq pending /\ calls' \in [Jobs -> Nat]
       /\ \A k \in Jobs : calls'[k] = IF k = j /\ j \in pending THEN calls[k] + 1 ELSE calls[k]
  <2> HIDE DEF j
  <2> QED
    BY <1>6, Types DEF ContextIInv, ContextInv
<1>13. NewIsUntouched' /\ InputsAreAnchored' /\ CalledOnce'
  <2> HIDE DEF j
  <2> QED
    BY <1>5, <1>6, <1>10, <1>12, Types
    DEF ContextIInv, ContextInv, NewIsUntouched, InputsAreAnchored, CalledOnce
<1>14. ContextTypeOK'
  BY <1>6, <1>9, <1>12, Types DEF ContextIInv, ContextInv, ContextTypeOK, Lib!TypeOK
<1> QED
  BY <1>9, <1>11, <1>13, <1>14 DEF ContextIInv, ContextInv

LEMMA ContextStepKeeps ==
  ASSUME ContextIInv, [ContextNext]_contextVars
  PROVE  ContextIInv'
<1>1. CASE \E j \in Jobs : Work(j) \/ Complete(j) \/ Submit(j) \/ Cancel(j)
  BY <1>1, WorkKeeps, CompleteKeeps, SubmitKeeps
<1>2. CASE CloseContext
  BY <1>2, CloseKeeps
<1>3. CASE Return
  BY <1>3, ReturnKeeps
<1>4. CASE ReadByte
  BY <1>4, ReadByteKeeps
<1>5. CASE StartPump
  BY <1>5, StartPumpKeeps
<1>6. CASE Poll
  BY <1>6, PollKeeps
<1>7. CASE FinishRecord
  BY <1>7, FinishKeeps
<1>8. CASE EndPump \/ Yield
  BY <1>8, LeavePump, Types DEF EndPump, Yield, Dispatching, ContextIInv, ContextInv
<1>9. CASE UNCHANGED contextVars
  BY <1>9 DEF contextVars, pool, ContextIInv, ContextInv, ContextTypeOK, Lib!TypeOK, NewIsUntouched,
     BuriedAtClose, InputsAreAnchored, CalledOnce, CompletedEnded, RecordsEnded
<1> QED
  BY <1>1, <1>2, <1>3, <1>4, <1>5, <1>6, <1>7, <1>8, <1>9 DEF ContextNext

(* A callback is called once at most, whether pumps run inside one another *)
(* or the context is closed under them, and the input of a job a worker    *)
(* may still read is anchored (native.lua, Ctx:submit, _pump and close),   *)
(* for any number of jobs and any batch.                                   *)
THEOREM ContextIsSound == ContextSpec => []ContextInv
<1>1. ContextInit => ContextIInv
  BY ContextInitIInv
<1>2. ContextIInv /\ [ContextNext]_contextVars => ContextIInv'
  BY ContextStepKeeps
<1>3. ContextIInv => ContextInv
  BY DEF ContextIInv
<1> QED
  BY <1>1, <1>2, <1>3, PTL DEF ContextSpec
-----------------------------------------------------------------------------
(* The backends.                                                           *)

(* What is named is there, and was there to be run if it answered.         *)
Named ==
  /\ {trusted, client} \subseteq 0 .. Len(backends) /\ clients \in [Aliases -> 0 .. Len(backends)]
  /\ \A i \in DOMAIN requests :
       requests[i].to \in Ours /\ (requests[i].at = "answered" => backends[requests[i].to].works)
  /\ \A k \in DOMAIN attaches : attaches[k].of \in Ours /\ attaches[k].request \in DOMAIN requests
  /\ \A k \in DOMAIN loop :
       IF loop[k].do = "callback" THEN loop[k].x \in DOMAIN requests
       ELSE loop[k].x \in Ours /\ backends[loop[k].x].exited

(* What a backend's history says: one that was heard was there to be run,  *)
(* one that was not ended with an error; the spawns that rest on a record  *)
(* are named by the first.                                                 *)
History ==
  \A c \in Ours :
    /\ backends[c].heard => backends[c].works
    /\ backends[c].exited => ~backends[c].up
    /\ ~backends[c].works /\ ~backends[c].up => backends[c].code = "other"
    /\ backends[c].trust \in 0 .. c
    /\ backends[c].word = "record" => backends[c].alias = "remote" /\ backends[c].trust = c
    /\ \A d \in backends[c].after : d \in Ours /\ backends[d].left

(* The record is gone once it missed, until the remote answers.            *)
Answers(c, upto) == \E e \in c .. upto : backends[e].word = "probe" \/ backends[e].heard
MissIsHeeded == \A c \in Ours : Missed(c) => ~record \/ Answers(c, Len(backends))

(* The calls: one that waits is in no callback; a callback is scheduled    *)
(* once, and has not run.                                                  *)
Waits(i) == requests[i].at \in {"unsent", "sent", "answered"}
CallsInv ==
  /\ \A i \in DOMAIN requests :
       /\ i \in inFlight <=> Waits(i)
       /\ Waits(i) => requests[i].ran = 0
       /\ requests[i].ran \in {0, 1}
  /\ \A k \in DOMAIN loop :
       loop[k].do = "callback" =>
         /\ ~Waits(loop[k].x) /\ requests[loop[k].x].ran = 0
         /\ \A l \in DOMAIN loop : loop[l] = loop[k] => l = k

ClientIInv ==
  ClientTypeOK /\ Named /\ RemoteIsRouted /\ History /\ MissIsHeeded /\ RecordGivesWay /\ CallsInv
-----------------------------------------------------------------------------
LEMMA OneMore ==
  ASSUME NEW S, NEW s \in Seq(S), NEW e \in S
  PROVE  /\ Append(s, e) \in Seq(S) /\ Len(Append(s, e)) = Len(s) + 1 /\ Len(s) \in Nat
         /\ DOMAIN s = 1 .. Len(s) /\ DOMAIN Append(s, e) = DOMAIN s \cup {Len(s) + 1}
         /\ Len(s) + 1 \notin DOMAIN s
         /\ \A k \in DOMAIN s : Append(s, e)[k] = s[k]
         /\ Append(s, e)[Len(s) + 1] = e
  OBVIOUS

(* A call is one more request, and waits or has its callback scheduled.    *)
LEMMA CallIs ==
  ASSUME NEW b, NEW c, CallOn(b, c)
  PROVE  /\ NextId <= Asked
         /\ \E r \in [to : {c}, at : {"unsent", "sent", "failed"}, ran : {0}] :
              /\ requests' = Append(requests, r)
              /\ \/ r.at # "failed" /\ inFlight' = inFlight \cup {NextId} /\ loop' = loop
                 \/ /\ r.at = "failed" /\ inFlight' = inFlight /\ b[c].exited
                    /\ loop' = Append(loop, Callback(NextId))
<1> DEFINE R(at) == [to |-> c, at |-> at, ran |-> 0]
           Rs == [to : {c}, at : {"unsent", "sent", "failed"}, ran : {0}]
<1>1. \A at \in {"unsent", "sent", "failed"} : R(at) \in Rs /\ R(at).at = at
  OBVIOUS
<1>2. NextId <= Asked
  BY DEF CallOn
<1>3. CASE ~b[c].exited /\ Written(c, IF b[c].told THEN "unsent" ELSE "sent")
  BY <1>1, <1>2, <1>3 DEF Written
<1>4. CASE /\ b[c].exited
           /\ requests' = Append(requests, [to |-> c, at |-> "failed", ran |-> 0])
           /\ loop' = Append(loop, Callback(NextId))
           /\ UNCHANGED inFlight
  BY <1>1, <1>2, <1>4
<1> QED BY <1>3, <1>4 DEF CallOn

(* What a call leaves in order, given backends that only gained.           *)
CallsOK ==
  /\ requests \in Seq(Request) /\ Len(requests) <= Asked
  /\ inFlight \subseteq DOMAIN requests /\ loop \in Seq(Scheduled)
  /\ \A i \in DOMAIN requests :
       requests[i].to \in Ours /\ (requests[i].at = "answered" => backends[requests[i].to].works)
  /\ \A k \in DOMAIN loop :
       IF loop[k].do = "callback" THEN loop[k].x \in DOMAIN requests
       ELSE loop[k].x \in Ours /\ backends[loop[k].x].exited
  /\ CallsInv

LEMMA CallsAreOK == ClientIInv => CallsOK
  BY DEF ClientIInv, ClientTypeOK, Named, CallsOK

LEMMA CallKeeps ==
  ASSUME ClientIInv, NEW b, NEW c, CallOn(b, c),
         Len(backends') \in 0 .. Clients, backends' \in Seq(Backend),
         c \in DOMAIN backends', DOMAIN backends \subseteq DOMAIN backends',
         \A d \in Ours : /\ backends[d].works => backends'[d].works
                         /\ backends[d].exited => backends'[d].exited
  PROVE  CallsOK' /\ DOMAIN requests \subseteq DOMAIN requests' /\ NextId \in DOMAIN requests'
<1>1. CallsOK
  BY CallsAreOK
<1>2. PICK r \in [to : {c}, at : {"unsent", "sent", "failed"}, ran : {0}] :
        /\ requests' = Append(requests, r)
        /\ \/ r.at # "failed" /\ inFlight' = inFlight \cup {NextId} /\ loop' = loop
           \/ /\ r.at = "failed" /\ inFlight' = inFlight /\ b[c].exited
              /\ loop' = Append(loop, Callback(NextId))
  BY CallIs
<1>3. NextId <= Asked /\ NextId \in 1 .. Asked /\ Asked \in Nat /\ Clients \in Nat
  BY CallIs, <1>1, ClientAssumption DEF CallsOK, NextId
<1>4. r \in Request /\ r.to = c /\ r.ran = 0 /\ c \in 1 .. Clients
  BY <1>3 DEF Request
<1>5. /\ requests' \in Seq(Request) /\ Len(requests') = NextId
      /\ DOMAIN requests' = DOMAIN requests \cup {NextId} /\ NextId \notin DOMAIN requests
      /\ \A i \in DOMAIN requests : requests'[i] = requests[i]
      /\ requests'[NextId] = r
  BY <1>1, <1>2, <1>4, OneMore DEF CallsOK, NextId
<1>6. /\ loop' \in Seq(Scheduled)
      /\ \/ loop' = loop /\ r.at # "failed" /\ inFlight' = inFlight \cup {NextId}
         \/ /\ r.at = "failed" /\ inFlight' = inFlight
            /\ DOMAIN loop' = DOMAIN loop \cup {Len(loop) + 1}
            /\ Len(loop) + 1 \notin DOMAIN loop
            /\ \A k \in DOMAIN loop : loop'[k] = loop[k]
            /\ loop'[Len(loop) + 1] = Callback(NextId)
  <2>1. Callback(NextId) \in Scheduled
    BY <1>3 DEF Callback, Scheduled
  <2>2. loop \in Seq(Scheduled)
    BY <1>1 DEF CallsOK
  <2>3. CASE r.at # "failed" /\ inFlight' = inFlight \cup {NextId} /\ loop' = loop
    BY <2>2, <2>3
  <2>4. CASE r.at = "failed" /\ inFlight' = inFlight /\ loop' = Append(loop, Callback(NextId))
    BY <2>1, <2>2, <2>4, OneMore
  <2> QED BY <1>2, <2>3, <2>4
<1>7. \A k \in DOMAIN loop : loop[k].do = "callback" => loop[k].x \in DOMAIN requests /\ loop[k] # Callback(NextId)
  BY <1>1, <1>5 DEF CallsOK, Callback
<1>8. (requests' \in Seq(Request) /\ Len(requests') <= Asked /\ inFlight' \subseteq DOMAIN requests' /\ loop' \in Seq(Scheduled))
  BY <1>1, <1>3, <1>5, <1>6 DEF CallsOK
<1>9. \A i \in DOMAIN requests' :
        requests'[i].to \in Ours' /\ (requests'[i].at = "answered" => backends'[requests'[i].to].works)
  <2>1. r.at # "answered"
    BY <1>2
  <2> QED BY <1>1, <1>4, <1>5, <2>1 DEF CallsOK, Ours
<1>10. \A k \in DOMAIN loop' :
         IF loop'[k].do = "callback" THEN loop'[k].x \in DOMAIN requests'
         ELSE loop'[k].x \in Ours' /\ backends'[loop'[k].x].exited
  <2>1. Callback(NextId).do = "callback" /\ Callback(NextId).x = NextId
    BY DEF Callback
  <2>2. ASSUME NEW k \in DOMAIN loop
        PROVE  IF loop[k].do = "callback" THEN loop[k].x \in DOMAIN requests'
               ELSE loop[k].x \in Ours' /\ backends'[loop[k].x].exited
    BY <1>1, <1>5 DEF CallsOK, Ours
  <2>3. ASSUME NEW k \in DOMAIN loop', k \notin DOMAIN loop
        PROVE  loop'[k] = Callback(NextId)
    BY <1>6, <2>3
  <2>4. ASSUME NEW k \in DOMAIN loop', k \in DOMAIN loop
        PROVE  loop'[k] = loop[k]
    BY <1>6, <2>4
  <2> QED BY <1>5, <2>1, <2>2, <2>3, <2>4
<1>11. \A i \in DOMAIN requests' :
         /\ i \in inFlight' <=> Waits(i)'
         /\ Waits(i)' => requests'[i].ran = 0
         /\ requests'[i].ran \in {0, 1}
  <2>1. r.at \in {"unsent", "sent"} \/ r.at = "failed"
    BY <1>2
  <2>2. CASE r.at = "failed"
    BY <1>1, <1>4, <1>5, <1>6, <2>2 DEF CallsOK, CallsInv, Waits
  <2>3. CASE r.at \in {"unsent", "sent"}
    BY <1>1, <1>4, <1>5, <1>6, <2>3 DEF CallsOK, CallsInv, Waits
  <2> QED BY <2>1, <2>2, <2>3
<1>12. ASSUME NEW k \in DOMAIN loop', loop'[k].do = "callback"
       PROVE  /\ ~Waits(loop[k].x)' /\ requests'[loop'[k].x].ran = 0
              /\ \A l \in DOMAIN loop' : loop'[l] = loop'[k] => l = k
  <2>1. CASE loop' = loop
    BY <1>1, <1>5, <1>7, <1>12, <2>1 DEF CallsOK, CallsInv, Waits
  <2>2. CASE loop' # loop
    <3>1. Callback(NextId).do = "callback" /\ Callback(NextId).x = NextId
      BY DEF Callback
    <3>2. CASE k \in DOMAIN loop
      <4>1. loop'[k] = loop[k] /\ loop[k].do = "callback" /\ loop[k].x \in DOMAIN requests
        BY <1>6, <1>7, <1>12, <2>2, <3>2
      <4>2. requests'[loop[k].x] = requests[loop[k].x]
        BY <1>5, <4>1
      <4>3. ~Waits(loop[k].x) /\ requests[loop[k].x].ran = 0
            /\ \A l \in DOMAIN loop : loop[l] = loop[k] => l = k
        BY <1>1, <3>2, <4>1 DEF CallsOK, CallsInv
      <4>4. \A l \in DOMAIN loop' : loop'[l] = loop'[k] => l = k
        BY <1>6, <1>7, <2>2, <3>2, <4>1, <4>3
      <4> QED BY <4>1, <4>2, <4>3, <4>4 DEF Waits
    <3>3. CASE k = Len(loop) + 1
      BY <1>4, <1>5, <1>6, <1>7, <1>12, <2>2, <3>1, <3>3 DEF Waits
    <3> QED BY <1>6, <2>2, <3>2, <3>3
  <2> QED BY <2>1, <2>2
<1>13. CallsInv'
  BY <1>11, <1>12 DEF CallsInv
<1> QED BY <1>5, <1>8, <1>9, <1>10, <1>13 DEF CallsOK
-----------------------------------------------------------------------------
(* The rest of the invariant: backends, routing, attaches, the record.     *)
BackendsOK ==
  /\ backends \in Seq(Backend) /\ Len(backends) <= Clients
  /\ client \in 0 .. Len(backends) /\ clients \in [Aliases -> 0 .. Len(backends)]
  /\ attaches \in Seq(Attach)
  /\ \A k \in DOMAIN attaches : attaches[k].of \in Ours /\ attaches[k].request \in DOMAIN requests
  /\ {record, verified, binary} \subseteq BOOLEAN /\ trusted \in 0 .. Len(backends)
  /\ RemoteIsRouted /\ History /\ MissIsHeeded /\ RecordGivesWay

LEMMA Bounds == Clients \in Nat /\ Asked \in Nat
  BY ClientAssumption

LEMMA BackendsAreOK == ClientIInv => BackendsOK
  BY DEF ClientIInv, ClientTypeOK, Named, BackendsOK

LEMMA TogetherOK == CallsOK /\ BackendsOK => ClientIInv
<1> SUFFICES ASSUME CallsOK, BackendsOK PROVE ClientIInv
  OBVIOUS
<1>1. trusted \in 0 .. Clients /\ client \in 0 .. Clients /\ clients \in [Aliases -> 0 .. Clients]
  <2>1. Len(backends) \in Nat
    BY DEF BackendsOK
  <2> QED BY <2>1, Bounds DEF BackendsOK
<1>2. ClientTypeOK
  BY <1>1 DEF ClientTypeOK, CallsOK, BackendsOK
<1>3. Named
  BY DEF Named, CallsOK, BackendsOK
<1> QED BY <1>2, <1>3 DEF ClientIInv, CallsOK, BackendsOK

(* A step that spawns nothing: what a backend is never changes, what it    *)
(* did only grows.                                                         *)
LEMMA SameBackends ==
  ASSUME BackendsOK, backends' \in Seq(Backend), Len(backends') = Len(backends),
         \A c \in Ours :
           /\ backends'[c].works = backends[c].works /\ backends'[c].alias = backends[c].alias
           /\ backends'[c].trust = backends[c].trust /\ backends'[c].word = backends[c].word
           /\ backends'[c].after = backends[c].after
           /\ backends[c].heard => backends'[c].heard
           /\ backends[c].left => backends'[c].left
           /\ backends'[c].heard => backends[c].works
           /\ backends'[c].exited => ~backends'[c].up
           /\ ~backends[c].works /\ ~backends'[c].up => backends'[c].code = "other",
         record' => record,
         \A c \in Ours : Missed(c)' => Missed(c) \/ ~record' \/ Answers(c, Len(backends))'
  PROVE  DOMAIN backends' = DOMAIN backends /\ History' /\ MissIsHeeded' /\ RecordGivesWay'
<1>1. DOMAIN backends' = DOMAIN backends /\ Len(backends) \in Nat /\ Ours' = Ours
  BY DEF BackendsOK, Ours
<1>2. History'
  BY <1>1 DEF History, BackendsOK
<1>3. \A c \in Ours, upto \in 0 .. Len(backends) : Answers(c, upto) => Answers(c, upto)'
  <2> SUFFICES ASSUME NEW c \in Ours, NEW upto \in 0 .. Len(backends), Answers(c, upto)
               PROVE  \E e \in c .. upto : backends'[e].word = "probe" \/ backends'[e].heard
    BY DEF Answers
  <2>1. PICK e \in c .. upto : backends[e].word = "probe" \/ backends[e].heard
    BY DEF Answers
  <2>2. e \in Ours
    BY <1>1 DEF Ours, BackendsOK
  <2> QED BY <2>1, <2>2
<1>4. MissIsHeeded'
  <2> SUFFICES ASSUME NEW c \in Ours, Missed(c)' PROVE ~record' \/ Answers(c, Len(backends))'
    BY <1>1 DEF MissIsHeeded
  <2>1. CASE Missed(c)
    <3>1. ~record \/ Answers(c, Len(backends))
      BY <2>1 DEF BackendsOK, MissIsHeeded
    <3>2. Len(backends) \in 0 .. Len(backends)
      BY <1>1
    <3>3. Answers(c, Len(backends)) => Answers(c, Len(backends))'
      BY <1>3, <3>2 DEF Answers
    <3> QED BY <3>1, <3>3
  <2> QED BY <2>1
<1>5. RecordGivesWay'
  <2> SUFFICES ASSUME NEW c \in Ours, NEW d \in Ours, c < d, Missed(c)', c \in backends'[d].after,
                      backends'[d].word = "record"
               PROVE  \E e \in c .. d - 1 : backends'[e].word = "probe" \/ backends'[e].heard
    BY <1>1 DEF RecordGivesWay
  <2>1. Missed(c) /\ c \in backends[d].after /\ backends[d].word = "record"
    BY DEF Missed, BackendsOK, History
  <2>2. PICK e \in c .. d - 1 : backends[e].word = "probe" \/ backends[e].heard
    BY <2>1 DEF BackendsOK, RecordGivesWay
  <2>3. e \in Ours
    BY <1>1 DEF Ours, BackendsOK
  <2> QED BY <2>2, <2>3
<1> QED BY <1>1, <1>2, <1>4, <1>5

(* A spawn, of backends b that may have been told to stop.                 *)
LEMMA SpawnKeeps ==
  ASSUME ClientIInv, NEW b \in {backends, Stopped}, NEW a \in Aliases, SpawnClient(b, a),
         a = "remote" => \A c \in Ours : backends[c].alias = "remote" /\ ~backends[c].exited => b[c].told
  PROVE  ClientIInv'
<1> DEFINE new == Len(b) + 1
<1>1. BackendsOK /\ CallsOK
  BY BackendsAreOK, CallsAreOK
<1>2. /\ b \in Seq(Backend) /\ Len(b) = Len(backends) /\ DOMAIN b = Ours
      /\ \A c \in Ours : b[c] = [backends[c] EXCEPT !.told = b[c].told]
      /\ \A c \in Ours : backends[c].told => b[c].told
  <2>1. backends \in Seq(Backend) /\ \A c \in Ours : backends[c] \in Backend
    BY <1>1 DEF BackendsOK, Ours
  <2>2. CASE b = backends
    BY <2>1, <2>2 DEF Ours, Backend
  <2>3. CASE b = Stopped /\ b # backends
    <3> DEFINE r == clients["remote"]
    <3>1. b = [backends EXCEPT ![r].told = TRUE]
      BY <2>3 DEF Stopped
    <3>2. \A c \in Ours : b[c] = IF c = r THEN [backends[c] EXCEPT !.told = TRUE] ELSE backends[c]
      BY <2>1, <3>1 DEF Ours
    <3>3. \A c \in Ours : [backends[c] EXCEPT !.told = TRUE] \in Backend
      BY <2>1 DEF Backend
    <3>4. b \in Seq(Backend) /\ Len(b) = Len(backends) /\ DOMAIN b = Ours
      <4>1. DOMAIN b = Ours /\ \A c \in Ours : b[c] \in Backend
        BY <2>1, <3>1, <3>2, <3>3 DEF Ours
      <4>2. Len(backends) \in Nat /\ Ours = 1 .. Len(backends)
        BY <2>1 DEF Ours
      <4>3. b = [c \in 1 .. Len(backends) |-> b[c]]
        BY <3>1, <4>1, <4>2
      <4>4. b \in [1 .. Len(backends) -> Backend]
        BY <4>1, <4>2, <4>3
      <4> QED BY <4>1, <4>2, <4>4
    <3>5. \A c \in Ours : b[c] = [backends[c] EXCEPT !.told = b[c].told] /\ (backends[c].told => b[c].told)
      BY <2>1, <3>2 DEF Backend
    <3> QED BY <3>4, <3>5
  <2> QED BY <2>2, <2>3
<1>3. PICK word \in Words :
        /\ IF a = "remote" /\ ~verified THEN Verify(new, word) ELSE word = "none" /\ UNCHANGED deploy
        /\ backends' = Append(b,
             [alias |-> a, up |-> TRUE, code |-> "none", works |-> a = "local" \/ binary',
              told |-> FALSE, exited |-> FALSE, left |-> FALSE, heard |-> FALSE,
              trust |-> IF a = "remote" THEN trusted' ELSE 0,
              word |-> word, after |-> {c \in DOMAIN b : b[c].left}])
  BY DEF SpawnClient
<1> DEFINE n == [alias |-> a, up |-> TRUE, code |-> "none", works |-> a = "local" \/ binary',
                 told |-> FALSE, exited |-> FALSE, left |-> FALSE, heard |-> FALSE,
                 trust |-> IF a = "remote" THEN trusted' ELSE 0,
                 word |-> word, after |-> {c \in DOMAIN b : b[c].left}]
<1>4. /\ new <= Clients /\ new = Len(backends) + 1 /\ new \in 1 .. Clients /\ new \notin Ours
      /\ Ours = 1 .. Len(backends) /\ Len(backends) \in Nat
  BY <1>1, <1>2, Bounds DEF SpawnClient, BackendsOK, Ours
<1>5. /\ trusted' \in 0 .. new
      /\ {record', verified', binary'} \subseteq BOOLEAN
      /\ word = "record" => a = "remote" /\ trusted' = new /\ record
      /\ record' => record \/ word = "probe"
  <2>1. trusted \in 0 .. Len(backends) /\ {record, verified, binary} \subseteq BOOLEAN
    BY <1>1 DEF BackendsOK
  <2>2. CASE a = "remote" /\ ~verified /\ Verify(new, word)
    <3>1. verified' = TRUE /\ Len(backends) \in Nat /\ new = Len(backends) + 1
      BY <1>4, <2>2 DEF Verify
    <3> HIDE DEF new
    <3>2. CASE word = "record" /\ record /\ trusted' = new /\ UNCHANGED <<record, binary>>
      BY <2>1, <2>2, <3>1, <3>2
    <3>3. CASE word = "probe" /\ trusted' = 0 /\ record' = TRUE /\ binary' = TRUE
      BY <3>1, <3>3
    <3>4. CASE word = "none" /\ trusted' = 0 /\ UNCHANGED <<record, binary>>
      BY <2>1, <3>1, <3>4
    <3> QED BY <2>2, <3>2, <3>3, <3>4 DEF Verify, TakesWord
  <2>3. CASE word = "none" /\ UNCHANGED deploy
    BY <1>4, <2>1, <2>3 DEF deploy
  <2> HIDE DEF new
  <2> QED BY <1>3, <2>2, <2>3
<1>6. n \in Backend
  <2>1. {c \in DOMAIN b : b[c].left} \in SUBSET (1 .. Clients)
    BY <1>2, <1>4, Bounds
  <2>2. (IF a = "remote" THEN trusted' ELSE 0) \in 0 .. Clients
    BY <1>4, <1>5, Bounds
  <2>3. (a = "local" \/ binary') \in BOOLEAN
    OBVIOUS
  <2> HIDE DEF new
  <2> QED BY <2>1, <2>2, <2>3 DEF Backend, Codes
<1>7. /\ n.heard = FALSE /\ n.exited = FALSE /\ n.up = TRUE /\ n.left = FALSE /\ n.told = FALSE
      /\ n.word = word /\ n.alias = a /\ n.trust = (IF a = "remote" THEN trusted' ELSE 0)
      /\ n.after = {c \in Ours : b[c].left}
  BY <1>2
<1> HIDE DEF n
<1>8. /\ backends' \in Seq(Backend) /\ Len(backends') = new /\ DOMAIN backends' = Ours \cup {new}
      /\ \A c \in Ours : backends'[c] = b[c]
      /\ backends'[new] = n
  <2>1. backends' = Append(b, n)
    BY <1>3 DEF n
  <2> QED BY <1>2, <1>4, <1>6, <2>1, OneMore
<1>9. \A c \in Ours :
        /\ backends'[c].works = backends[c].works /\ backends'[c].alias = backends[c].alias
        /\ backends'[c].trust = backends[c].trust /\ backends'[c].word = backends[c].word
        /\ backends'[c].after = backends[c].after /\ backends'[c].heard = backends[c].heard
        /\ backends'[c].left = backends[c].left /\ backends'[c].exited = backends[c].exited
        /\ backends'[c].up = backends[c].up /\ backends'[c].code = backends[c].code
        /\ backends'[c].told = b[c].told
  <2> TAKE c \in Ours
  <2>1. backends[c] \in Backend
    BY <1>1 DEF BackendsOK, Ours
  <2>2. backends'[c] = [backends[c] EXCEPT !.told = b[c].told]
    BY <1>2, <1>8
  <2> QED BY <2>1, <2>2 DEF Backend
<1>10. CallOn(backends', new)
  BY DEF SpawnClient
<1>11. CallsOK' /\ DOMAIN requests \subseteq DOMAIN requests' /\ NextId \in DOMAIN requests'
  <2>1. Len(backends') \in 0 .. Clients
    BY <1>4, <1>8
  <2>2. DOMAIN backends \subseteq DOMAIN backends' /\ new \in DOMAIN backends'
    BY <1>8 DEF Ours
  <2> HIDE DEF new
  <2> QED BY <1>8, <1>9, <1>10, <2>1, <2>2, CallKeeps
<1>12. /\ client' \in 0 .. Len(backends') /\ clients' \in [Aliases -> 0 .. Len(backends')]
       /\ clients' = [clients EXCEPT ![a] = new]
  <2>1. client \in 0 .. Len(backends') /\ clients \in [Aliases -> 0 .. Len(backends')]
    BY <1>1, <1>4, <1>8 DEF BackendsOK
  <2>2. clients' = [clients EXCEPT ![a] = new] /\ client' = (IF a = "local" THEN new ELSE client)
    BY DEF SpawnClient
  <2>3. new \in 0 .. Len(backends')
    BY <1>4, <1>8
  <2> HIDE DEF new
  <2> QED BY <2>1, <2>2, <2>3
<1>13. /\ attaches' \in Seq(Attach)
       /\ \A k \in DOMAIN attaches' : attaches'[k].of \in Ours' /\ attaches'[k].request \in DOMAIN requests'
  <2> DEFINE w == [of |-> new, request |-> NextId, again |-> FALSE]
  <2>1. /\ attaches \in Seq(Attach)
        /\ \A k \in DOMAIN attaches : attaches[k].of \in Ours /\ attaches[k].request \in DOMAIN requests
    BY <1>1 DEF BackendsOK
  <2>2. NextId \in 1 .. Asked
    BY <1>1, <1>10, CallIs, Bounds DEF NextId, CallsOK
  <2>3. w \in Attach /\ w.of = new /\ w.request = NextId
    BY <1>4, <2>2 DEF Attach
  <2>4. CASE attaches' = Append(attaches, w)
    <3> HIDE DEF w
    <3>1. /\ attaches' \in Seq(Attach) /\ DOMAIN attaches' = DOMAIN attaches \cup {Len(attaches) + 1}
          /\ \A k \in DOMAIN attaches : attaches'[k] = attaches[k]
          /\ attaches'[Len(attaches) + 1] = w
      BY <2>1, <2>3, <2>4, OneMore
    <3>2. Ours \subseteq Ours' /\ new \in Ours'
      BY <1>8 DEF Ours
    <3> HIDE DEF new
    <3> QED BY <1>11, <2>1, <2>3, <3>1, <3>2
  <2>5. CASE attaches' = attaches
    <3>1. Ours \subseteq Ours'
      BY <1>8 DEF Ours
    <3> QED BY <1>11, <2>1, <2>5, <3>1
  <2>6. attaches' = Append(attaches, w) \/ attaches' = attaches
    BY DEF SpawnClient
  <2> QED BY <2>4, <2>5, <2>6
<1>14. RemoteIsRouted'
  <2> SUFFICES ASSUME NEW c \in Ours', backends'[c].alias = "remote", ~backends'[c].exited, ~backends'[c].told
               PROVE  clients'["remote"] = c
    BY DEF RemoteIsRouted
  <2>1. CASE c = new
    <3>1. a = "remote"
      BY <1>7, <1>8, <2>1
    <3>2. clients \in [Aliases -> 0 .. Len(backends)]
      BY <1>1 DEF BackendsOK
    <3> QED BY <1>12, <2>1, <3>1, <3>2
  <2>2. CASE c \in Ours
    <3>1. backends[c].alias = "remote" /\ ~backends[c].exited /\ ~backends[c].told
      BY <1>2, <1>9, <2>2
    <3>2. clients["remote"] = c /\ a # "remote"
      BY <1>1, <1>9, <2>2, <3>1 DEF BackendsOK, RemoteIsRouted
    <3> QED BY <1>12, <3>2
  <2>3. c \in Ours \cup {new}
    BY <1>8 DEF Ours
  <2> QED BY <2>1, <2>2, <2>3
<1>15. History'
  <2>1. /\ n.heard => n.works
        /\ n.exited => ~n.up
        /\ ~n.works /\ ~n.up => n.code = "other"
        /\ n.trust \in 0 .. new
        /\ n.word = "record" => n.alias = "remote" /\ n.trust = new
        /\ \A d \in n.after : d \in Ours /\ b[d].left
    BY <1>4, <1>5, <1>7
  <2>2. \A c \in Ours :
          /\ backends[c].heard => backends[c].works
          /\ backends[c].exited => ~backends[c].up
          /\ ~backends[c].works /\ ~backends[c].up => backends[c].code = "other"
          /\ backends[c].trust \in 0 .. c
          /\ backends[c].word = "record" => backends[c].alias = "remote" /\ backends[c].trust = c
          /\ \A d \in backends[c].after : d \in Ours /\ backends[d].left
    BY <1>1 DEF BackendsOK, History
  <2>3. \A d \in Ours : b[d].left = backends[d].left /\ d \in Ours'
    BY <1>8, <1>9 DEF Ours
  <2>4. Ours' = Ours \cup {new}
    BY <1>8 DEF Ours
  <2> HIDE DEF new
  <2> QED BY <1>8, <1>9, <2>1, <2>2, <2>3, <2>4 DEF History
<1>16. \A c \in Ours : Missed(c)' <=> Missed(c)
  BY <1>9 DEF Missed
<1>17. \A c \in Ours : Answers(c, Len(backends)) => Answers(c, Len(backends))'
  <2> SUFFICES ASSUME NEW c \in Ours, NEW e \in c .. Len(backends), backends[e].word = "probe" \/ backends[e].heard
               PROVE  \E x \in c .. Len(backends') : backends'[x].word = "probe" \/ backends'[x].heard
    BY DEF Answers
  <2>1. e \in Ours /\ e \in c .. Len(backends')
    BY <1>4, <1>8
  <2> QED BY <1>9, <2>1
<1>18. MissIsHeeded'
  <2> SUFFICES ASSUME NEW c \in Ours', Missed(c)', record'
               PROVE  Answers(c, Len(backends))'
    BY DEF MissIsHeeded
  <2>1. c \in Ours
    BY <1>7, <1>8 DEF Missed, Ours
  <2>2. Missed(c)
    BY <1>16, <2>1
  <2>3. CASE record
    BY <1>1, <1>17, <2>1, <2>2, <2>3 DEF BackendsOK, MissIsHeeded
  <2>4. CASE word = "probe"
    <3>1. new \in c .. Len(backends') /\ backends'[new].word = "probe"
      BY <1>4, <1>7, <1>8, <2>1, <2>4
    <3> QED BY <3>1 DEF Answers
  <2> QED BY <1>5, <2>3, <2>4
<1>19. RecordGivesWay'
  <2> SUFFICES ASSUME NEW c \in Ours', NEW d \in Ours', c < d, Missed(c)', c \in backends'[d].after,
                      backends'[d].word = "record"
               PROVE  \E e \in c .. d - 1 : backends'[e].word = "probe" \/ backends'[e].heard
    BY DEF RecordGivesWay
  <2>1. c \in Ours /\ Missed(c)
    <3>1. c \in Ours
      BY <1>7, <1>8 DEF Missed, Ours
    <3> QED BY <1>16, <3>1
  <2>2. CASE d = new
    <3>1. record
      BY <1>5, <1>7, <1>8, <2>2
    <3>2. Answers(c, Len(backends))
      BY <1>1, <2>1, <3>1 DEF BackendsOK, MissIsHeeded
    <3>3. PICK e \in c .. Len(backends) : backends[e].word = "probe" \/ backends[e].heard
      BY <3>2 DEF Answers
    <3>4. e \in Ours /\ e \in c .. d - 1
      BY <1>4, <2>1, <2>2
    <3> QED BY <1>9, <3>3, <3>4
  <2>3. CASE d \in Ours
    <3>1. c \in backends[d].after /\ backends[d].word = "record"
      BY <1>9, <2>3
    <3>2. PICK e \in c .. d - 1 : backends[e].word = "probe" \/ backends[e].heard
      BY <1>1, <2>1, <2>3, <3>1 DEF BackendsOK, RecordGivesWay
    <3>3. e \in Ours
      BY <1>4, <2>1, <2>3
    <3> QED BY <1>9, <3>2, <3>3
  <2>4. d \in Ours \cup {new}
    BY <1>8 DEF Ours
  <2> QED BY <2>2, <2>3, <2>4
<1>20. BackendsOK'
  <2>1. Len(backends') <= Clients /\ trusted' \in 0 .. Len(backends')
    BY <1>4, <1>5, <1>8
  <2> HIDE DEF new
  <2> QED BY <1>5, <1>8, <1>12, <1>13, <1>14, <1>15, <1>18, <1>19, <2>1 DEF BackendsOK
<1>21. (CallsOK /\ BackendsOK => ClientIInv)'
  BY TogetherOK, PTL
<1> QED BY <1>11, <1>20, <1>21
-----------------------------------------------------------------------------
(* The steps that spawn nothing.                                           *)

LEMMA ScheduledIs ==
  ASSUME NEW e \in Scheduled
  PROVE  /\ e.do \in {"callback", "on_exit"}
         /\ \A o \in Scheduled : o.do = e.do /\ o.x = e.x => o = e
  BY DEF Scheduled

LEMMA OneLess ==
  ASSUME NEW S, NEW s \in Seq(S), s # <<>>
  PROVE  /\ Tail(s) \in Seq(S) /\ 1 \in DOMAIN s /\ Head(s) = s[1]
         /\ \A k \in DOMAIN Tail(s) : k \in Nat /\ k + 1 \in DOMAIN s /\ k + 1 # 1 /\ Tail(s)[k] = s[k + 1]
  OBVIOUS

LEMMA Untouched ==
  ASSUME BackendsOK, UNCHANGED backends, record' => record
  PROVE  Ours' = Ours /\ History' /\ MissIsHeeded' /\ RecordGivesWay'
<1>1. backends' \in Seq(Backend) /\ Len(backends') = Len(backends)
  BY DEF BackendsOK
<1>2. \A c \in Ours :
        /\ backends'[c].heard => backends[c].works
        /\ backends'[c].exited => ~backends'[c].up
        /\ ~backends[c].works /\ ~backends'[c].up => backends'[c].code = "other"
  BY DEF BackendsOK, History
<1>3. \A c \in Ours : Missed(c)' => Missed(c)
  BY DEF Missed
<1> QED BY <1>1, <1>2, <1>3, SameBackends DEF Ours

(* A call on a backend that is there.                                      *)
LEMMA OnlyCallKeeps ==
  ASSUME ClientIInv, NEW c \in Ours, CallOn(backends, c), UNCHANGED <<backends, clients, deploy>>,
         client' \in 0 .. Len(backends),
         attaches' \in Seq(Attach),
         \A k \in DOMAIN attaches' : /\ attaches'[k].of \in Ours
                                     /\ attaches'[k].request \in DOMAIN requests \cup {NextId}
  PROVE  ClientIInv'
<1>1. BackendsOK
  BY BackendsAreOK
<1>2. CallsOK' /\ DOMAIN requests \subseteq DOMAIN requests' /\ NextId \in DOMAIN requests'
  <2>1. backends' \in Seq(Backend) /\ Len(backends') \in 0 .. Clients
    BY <1>1, Bounds DEF BackendsOK
  <2> QED BY <2>1, CallKeeps DEF Ours
<1>3. Ours' = Ours /\ History' /\ MissIsHeeded' /\ RecordGivesWay'
  BY <1>1, Untouched DEF deploy
<1>4. RemoteIsRouted'
  BY <1>1, <1>3 DEF BackendsOK, RemoteIsRouted
<1>5. BackendsOK'
  BY <1>1, <1>2, <1>3, <1>4 DEF BackendsOK, deploy
<1> QED BY <1>2, <1>5, TogetherOK, PTL

LEMMA NeedKeeps == ASSUME ClientIInv, NEW a \in Aliases, Need(a) PROVE ClientIInv'
<1>1. BackendsOK
  BY BackendsAreOK
<1>2. CASE HasJob(Registered(a))
  <2>1. CallOn(backends, Registered(a)) /\ UNCHANGED <<backends, routing, attaches, deploy>>
    BY <1>2 DEF Need
  <2>2. \A k \in DOMAIN attaches : attaches[k].of \in Ours /\ attaches[k].request \in DOMAIN requests
    BY <1>1 DEF BackendsOK
  <2>3. Registered(a) \in Ours
    <3>1. Registered(a) \in 0 .. Len(backends) /\ Len(backends) \in Nat
      BY <1>1 DEF BackendsOK, Registered
    <3> QED BY <1>2, <3>1 DEF HasJob, Ours
  <2> QED BY <1>1, <2>1, <2>2, <2>3, OnlyCallKeeps DEF routing, BackendsOK
<1>3. CASE ~HasJob(Registered(a))
  <2>1. SpawnClient(backends, a)
    BY <1>3 DEF Need
  <2>2. ASSUME a = "remote", NEW c \in Ours, backends[c].alias = "remote", ~backends[c].exited
        PROVE  backends[c].told
    <3>1. CASE ~backends[c].told
      <4>1. clients["remote"] = c
        BY <1>1, <2>2, <3>1 DEF BackendsOK, RemoteIsRouted
      <4>2. c # 0
        BY <1>1 DEF BackendsOK, Ours
      <4> QED BY <1>3, <2>2, <4>1, <4>2 DEF Registered, HasJob
    <3> QED BY <3>1
  <2> QED BY <2>1, <2>2, SpawnKeeps
<1> QED BY <1>2, <1>3

LEMMA CallKeptKeeps == ASSUME ClientIInv, NEW c \in 1 .. Clients, CallKept(c) PROVE ClientIInv'
<1>1. BackendsOK
  BY BackendsAreOK
<1>2. c \in Ours /\ CallOn(backends, c) /\ UNCHANGED <<backends, routing, attaches, deploy>>
  BY DEF CallKept
<1>3. \A k \in DOMAIN attaches : attaches[k].of \in Ours /\ attaches[k].request \in DOMAIN requests
  BY <1>1 DEF BackendsOK
<1> QED BY <1>1, <1>2, <1>3, OnlyCallKeeps DEF routing, BackendsOK

LEMMA AttachAgainKeeps == ASSUME ClientIInv, AttachAgain PROVE ClientIInv'
<1> DEFINE at == Len(attaches)
<1>1. BackendsOK /\ CallsOK
  BY BackendsAreOK, CallsAreOK
<1>2. /\ attaches # <<>> /\ CallOn(backends, attaches[at].of)
      /\ attaches' = [attaches EXCEPT ![at].again = TRUE, ![at].request = NextId]
      /\ UNCHANGED <<backends, routing, deploy>>
  BY DEF AttachAgain
<1>3. /\ attaches \in Seq(Attach)
      /\ \A k \in DOMAIN attaches : attaches[k].of \in Ours /\ attaches[k].request \in DOMAIN requests
  BY <1>1 DEF BackendsOK
<1>4. at \in DOMAIN attaches /\ attaches[at].of \in Ours
  BY <1>2, <1>3
<1>5. NextId \in 1 .. Asked
  BY <1>1, <1>2, CallIs, Bounds DEF NextId, CallsOK
<1>6. \A k \in DOMAIN attaches : attaches[k] \in Attach
  BY <1>3
<1>7. attaches' = [k \in DOMAIN attaches |->
                     IF k = at THEN [attaches[k] EXCEPT !.again = TRUE, !.request = NextId] ELSE attaches[k]]
  BY <1>2, <1>3, <1>4, <1>6 DEF Attach
<1>8. \A k \in DOMAIN attaches :
        LET v == IF k = at THEN [attaches[k] EXCEPT !.again = TRUE, !.request = NextId] ELSE attaches[k]
        IN  v \in Attach /\ v.of \in Ours /\ v.request \in DOMAIN requests \cup {NextId}
  BY <1>3, <1>5, <1>6 DEF Attach
<1>9. attaches' \in Seq(Attach)
  <2>1. at \in Nat /\ DOMAIN attaches = 1 .. at
    BY <1>3
  <2>2. attaches' \in [1 .. at -> Attach]
    BY <1>7, <1>8, <2>1
  <2> HIDE DEF at
  <2> QED BY <2>1, <2>2
<1>10. \A k \in DOMAIN attaches' : /\ attaches'[k].of \in Ours
                                  /\ attaches'[k].request \in DOMAIN requests \cup {NextId}
  BY <1>7, <1>8
<1> QED BY <1>1, <1>2, <1>4, <1>9, <1>10, OnlyCallKeeps DEF routing, BackendsOK

LEMMA AttachEndsKeeps == ASSUME ClientIInv, AttachEnds PROVE ClientIInv'
<1> DEFINE at == attaches[Len(attaches)]
<1>1. BackendsOK
  BY BackendsAreOK
<1>2. /\ attaches # <<>> /\ client' = at.of /\ CallOn(backends, at.of)
      /\ attaches' = SubSeq(attaches, 1, Len(attaches) - 1)
      /\ UNCHANGED <<backends, clients, deploy>>
  BY DEF AttachEnds
<1>3. /\ attaches \in Seq(Attach)
      /\ \A k \in DOMAIN attaches : attaches[k].of \in Ours /\ attaches[k].request \in DOMAIN requests
  BY <1>1 DEF BackendsOK
<1>4. at.of \in Ours /\ at.of \in 0 .. Len(backends)
  <2>1. Len(attaches) \in DOMAIN attaches
    BY <1>2, <1>3
  <2>2. at.of \in Ours
    BY <1>3, <2>1
  <2> HIDE DEF at
  <2> QED BY <1>1, <2>2 DEF BackendsOK, Ours
<1>5. /\ attaches' \in Seq(Attach)
      /\ \A k \in DOMAIN attaches' : k \in DOMAIN attaches /\ attaches'[k] = attaches[k]
  BY <1>2, <1>3
<1>6. \A k \in DOMAIN attaches' : /\ attaches'[k].of \in Ours
                                 /\ attaches'[k].request \in DOMAIN requests \cup {NextId}
  BY <1>3, <1>5
<1> HIDE DEF at
<1> QED BY <1>2, <1>4, <1>5, <1>6, OnlyCallKeeps

(* A backend that is told to stop.                                         *)
LEMMA ToldKeeps ==
  ASSUME ClientIInv, "remote" \in Aliases, backends' = Stopped, clients' = [clients EXCEPT !["remote"] = 0],
         verified' \in BOOLEAN, record' \in BOOLEAN, record' => record,
         UNCHANGED <<client, rpc, attaches, trusted, binary>>
  PROVE  ClientIInv'
<1> DEFINE r == clients["remote"]
<1>1. BackendsOK /\ CallsOK
  BY BackendsAreOK, CallsAreOK
<1>2. backends \in Seq(Backend) /\ \A c \in Ours : backends[c] \in Backend
  BY <1>1 DEF BackendsOK, Ours
<1>3. /\ backends' \in Seq(Backend) /\ Len(backends') = Len(backends) /\ DOMAIN backends' = Ours
      /\ \A c \in Ours : backends'[c] = [backends[c] EXCEPT !.told = backends'[c].told]
      /\ \A c \in Ours : (backends[c].told \/ c = r) => backends'[c].told
  <2>1. CASE r = 0
    <3>1. backends' = backends
      BY <2>1 DEF Stopped
    <3>2. \A c \in Ours : c # 0
      BY <1>2 DEF Ours
    <3> QED BY <1>2, <2>1, <3>1, <3>2 DEF Backend, Ours
  <2>2. CASE r # 0
    <3>1. backends' = [backends EXCEPT ![r].told = TRUE]
      BY <2>2 DEF Stopped
    <3>2. \A c \in Ours : backends'[c] = IF c = r THEN [backends[c] EXCEPT !.told = TRUE] ELSE backends[c]
      BY <1>2, <3>1 DEF Ours
    <3>3. \A c \in Ours : [backends[c] EXCEPT !.told = TRUE] \in Backend
      BY <1>2 DEF Backend
    <3>4. DOMAIN backends' = Ours /\ \A c \in Ours : backends'[c] \in Backend
      BY <1>2, <3>1, <3>2, <3>3 DEF Ours
    <3>5. Len(backends) \in Nat /\ Ours = 1 .. Len(backends)
      BY <1>2 DEF Ours
    <3>6. backends' = [c \in 1 .. Len(backends) |-> backends'[c]]
      BY <3>1, <3>4, <3>5
    <3>7. backends' \in [1 .. Len(backends) -> Backend]
      BY <3>4, <3>5, <3>6
    <3>8. \A c \in Ours : /\ backends'[c] = [backends[c] EXCEPT !.told = backends'[c].told]
                          /\ (backends[c].told \/ c = r) => backends'[c].told
      BY <1>2, <3>2 DEF Backend
    <3> QED BY <3>4, <3>5, <3>7, <3>8
  <2> QED BY <2>1, <2>2
<1>4. \A c \in Ours :
        /\ backends'[c].works = backends[c].works /\ backends'[c].alias = backends[c].alias
        /\ backends'[c].trust = backends[c].trust /\ backends'[c].word = backends[c].word
        /\ backends'[c].after = backends[c].after /\ backends'[c].heard = backends[c].heard
        /\ backends'[c].left = backends[c].left /\ backends'[c].exited = backends[c].exited
        /\ backends'[c].up = backends[c].up /\ backends'[c].code = backends[c].code
  BY <1>2, <1>3 DEF Backend
<1>5. History' /\ MissIsHeeded' /\ RecordGivesWay' /\ Ours' = Ours
  <2>1. \A c \in Ours : Missed(c)' => Missed(c)
    BY <1>4 DEF Missed
  <2>2. \A c \in Ours :
        /\ backends'[c].heard => backends[c].works
        /\ backends'[c].exited => ~backends'[c].up
        /\ ~backends[c].works /\ ~backends'[c].up => backends'[c].code = "other"
    BY <1>1, <1>4 DEF BackendsOK, History
  <2>3. Ours' = Ours
    BY <1>3 DEF Ours
  <2> QED BY <1>1, <1>3, <1>4, <2>1, <2>2, <2>3, SameBackends
<1>6. RemoteIsRouted'
  BY <1>1, <1>3, <1>4, <1>5 DEF BackendsOK, RemoteIsRouted
<1>7. clients' \in [Aliases -> 0 .. Len(backends')] /\ client' \in 0 .. Len(backends')
  <2>1. 0 \in 0 .. Len(backends)
    BY <1>2
  <2> QED BY <1>1, <1>3, <2>1 DEF BackendsOK
<1>8. BackendsOK'
  BY <1>1, <1>3, <1>5, <1>6, <1>7 DEF BackendsOK, rpc
<1>9. CallsOK'
  BY <1>1, <1>4, <1>5 DEF CallsOK, CallsInv, Waits, rpc
<1> QED BY <1>8, <1>9, TogetherOK, PTL

LEMMA StopsKeep == ASSUME ClientIInv, Stops PROVE ClientIInv'
<1>1. BackendsOK
  BY BackendsAreOK
<1>2. {record, verified} \subseteq BOOLEAN
  BY <1>1 DEF BackendsOK
<1>3. CASE Reconnect
  BY <1>2, <1>3, ToldKeeps DEF Reconnect
<1>4. CASE Disconnect
  BY <1>2, <1>4, ToldKeeps DEF Disconnect
<1>5. CASE UseJob
  <2>1. "remote" \in Aliases /\ HasJob(clients["remote"])
    BY <1>5 DEF UseJob
  <2>2. CASE SpawnClient(Stopped, "remote")
    <3>1. ASSUME NEW c \in Ours, backends[c].alias = "remote", ~backends[c].exited
          PROVE  Stopped[c].told
      <4>1. backends \in Seq(Backend) /\ backends[c] \in Backend
        BY <1>1 DEF BackendsOK, Ours
      <4>2. backends[c].told \/ clients["remote"] = c
        BY <1>1, <3>1 DEF BackendsOK, RemoteIsRouted
      <4> QED BY <2>1, <4>1, <4>2 DEF Stopped, HasJob, Ours, Backend
    <3> QED BY <2>1, <2>2, <3>1, SpawnKeeps
  <2>3. CASE /\ backends' = Stopped /\ clients' = [clients EXCEPT !["remote"] = 0]
             /\ UNCHANGED <<client, rpc, attaches, deploy>>
    BY <1>2, <2>1, <2>3, ToldKeeps DEF deploy
  <2> QED BY <1>5, <2>2, <2>3 DEF UseJob
<1> QED BY <1>3, <1>4, <1>5 DEF Stops

(* A step that only moves requests, and a step of one backend.             *)
LEMMA RequestsMove ==
  ASSUME ClientIInv, UNCHANGED <<backends, routing, attaches, deploy>>, CallsOK', DOMAIN requests' = DOMAIN requests
  PROVE  ClientIInv'
<1>1. BackendsOK
  BY BackendsAreOK
<1>2. Ours' = Ours /\ History' /\ MissIsHeeded' /\ RecordGivesWay'
  BY <1>1, Untouched DEF deploy
<1>3. RemoteIsRouted'
  BY <1>1, <1>2 DEF BackendsOK, RemoteIsRouted, routing
<1>4. BackendsOK'
  BY <1>1, <1>2, <1>3 DEF BackendsOK, deploy, routing
<1> QED BY <1>4, TogetherOK, PTL

LEMMA BackendMoves ==
  ASSUME ClientIInv, NEW c \in Ours, NEW v \in Backend, backends' = [backends EXCEPT ![c] = v],
         /\ v.works = backends[c].works /\ v.alias = backends[c].alias
         /\ v.trust = backends[c].trust /\ v.word = backends[c].word
         /\ v.after = backends[c].after /\ v.told = backends[c].told
         /\ backends[c].heard => v.heard
         /\ backends[c].left => v.left
         /\ backends[c].exited => v.exited
         /\ v.heard => v.works
         /\ v.exited => ~v.up
         /\ ~v.works /\ ~v.up => v.code = "other",
         client' \in 0 .. Len(backends), clients' \in [Aliases -> 0 .. Len(backends)],
         \A d \in Ours : backends[d].alias = "remote" /\ clients["remote"] = d /\ (c # d \/ ~v.exited) =>
                         clients'["remote"] = d,
         {record', verified'} \subseteq BOOLEAN, record' => record,
         ~v.works /\ v.word = "record" /\ v.left /\ ~backends[c].left =>
           ~record' \/ \E e \in c .. Len(backends) : backends[e].word = "probe" \/ backends[e].heard,
         UNCHANGED <<attaches, trusted, binary>>,
         CallsOK', DOMAIN requests' = DOMAIN requests
  PROVE  ClientIInv'
<1>1. BackendsOK
  BY BackendsAreOK
<1>2. backends \in Seq(Backend) /\ Ours = 1 .. Len(backends) /\ Len(backends) \in Nat
  BY <1>1 DEF BackendsOK, Ours
<1>3. /\ backends' \in Seq(Backend) /\ Len(backends') = Len(backends) /\ Ours' = Ours
      /\ backends'[c] = v /\ \A d \in Ours : d # c => backends'[d] = backends[d]
  BY <1>2 DEF Ours
<1>4. \A d \in Ours :
        /\ backends'[d].works = backends[d].works /\ backends'[d].alias = backends[d].alias
        /\ backends'[d].trust = backends[d].trust /\ backends'[d].word = backends[d].word
        /\ backends'[d].after = backends[d].after /\ backends'[d].told = backends[d].told
        /\ backends[d].heard => backends'[d].heard
        /\ backends[d].left => backends'[d].left
        /\ backends[d].exited => backends'[d].exited
        /\ backends'[d].heard => backends[d].works
        /\ backends'[d].exited => ~backends'[d].up
        /\ ~backends[d].works /\ ~backends'[d].up => backends'[d].code = "other"
  BY <1>1, <1>3 DEF BackendsOK, History
<1>5. ASSUME NEW d \in Ours, Missed(d)' PROVE Missed(d) \/ ~record' \/ Answers(d, Len(backends))'
  <2>1. CASE d = c /\ ~backends[c].left
    <3>1. ~v.works /\ v.word = "record" /\ v.left
      BY <1>3, <1>5, <2>1 DEF Missed
    <3>2. CASE \E e \in c .. Len(backends) : backends[e].word = "probe" \/ backends[e].heard
      <4>1. PICK e \in c .. Len(backends) : backends[e].word = "probe" \/ backends[e].heard
        BY <3>2
      <4>2. e \in Ours
        BY <1>2
      <4>3. backends'[e].word = "probe" \/ backends'[e].heard
        BY <1>4, <4>1, <4>2
      <4> QED BY <1>3, <2>1, <4>1, <4>3 DEF Answers
    <3> QED BY <2>1, <3>1, <3>2
  <2>2. CASE d # c \/ backends[c].left
    BY <1>3, <1>4, <1>5, <2>2 DEF Missed
  <2> QED BY <2>1, <2>2
<1>6. History' /\ MissIsHeeded' /\ RecordGivesWay'
  BY <1>1, <1>3, <1>4, <1>5, SameBackends
<1>7. RemoteIsRouted'
  <2> SUFFICES ASSUME NEW d \in Ours, backends'[d].alias = "remote", ~backends'[d].exited, ~backends'[d].told
               PROVE  clients'["remote"] = d
    BY <1>3 DEF RemoteIsRouted
  <2>1. clients["remote"] = d
    BY <1>1, <1>4 DEF BackendsOK, RemoteIsRouted
  <2>2. c # d \/ ~v.exited
    BY <1>3
  <2> QED BY <2>1, <2>2
<1>8. BackendsOK'
  BY <1>1, <1>3, <1>6, <1>7 DEF BackendsOK
<1> QED BY <1>8, TogetherOK, PTL

LEMMA BackendAnswersKeeps == ASSUME ClientIInv, NEW i \in 1 .. Asked, BackendAnswers(i) PROVE ClientIInv'
<1>1. CallsOK
  BY CallsAreOK
<1>2. /\ i \in DOMAIN requests /\ requests[i].at = "sent" /\ backends[requests[i].to].works
      /\ requests' = [requests EXCEPT ![i].at = "answered"]
      /\ UNCHANGED <<backends, routing, inFlight, loop, attaches, deploy>>
  BY DEF BackendAnswers
<1>3. requests \in Seq(Request) /\ \A j \in DOMAIN requests : requests[j] \in Request
  BY <1>1 DEF CallsOK
<1>4. /\ requests' \in Seq(Request) /\ Len(requests') = Len(requests) /\ DOMAIN requests' = DOMAIN requests
      /\ \A j \in DOMAIN requests : j # i => requests'[j] = requests[j]
      /\ requests'[i].at = "answered" /\ requests'[i].to = requests[i].to /\ requests'[i].ran = requests[i].ran
  <2> DEFINE v == [requests[i] EXCEPT !.at = "answered"]
  <2>1. v \in Request /\ v.at = "answered" /\ v.to = requests[i].to /\ v.ran = requests[i].ran
    BY <1>2, <1>3 DEF Request
  <2>2. requests' = [requests EXCEPT ![i] = v]
    BY <1>2
  <2> HIDE DEF v
  <2> QED BY <1>2, <1>3, <2>1, <2>2
<1>5. \A j \in DOMAIN requests :
        /\ requests'[j].to = requests[j].to /\ requests'[j].ran = requests[j].ran
        /\ Waits(j)' <=> Waits(j)
        /\ requests'[j].at = "answered" => j = i \/ requests[j].at = "answered"
  BY <1>2, <1>4 DEF Waits
<1>6. CallsInv'
  <2>1. \A k \in DOMAIN loop : loop[k].do = "callback" => loop[k].x \in DOMAIN requests
    BY <1>1 DEF CallsOK
  <2>2. \A k \in DOMAIN loop : loop[k].do = "callback" => (Waits(loop[k].x)' <=> Waits(loop[k].x))
    BY <1>2, <1>5, <2>1 DEF Waits
  <2> QED BY <1>1, <1>2, <1>4, <1>5, <2>1, <2>2 DEF CallsOK, CallsInv, Waits
<1>7. CallsOK'
  BY <1>1, <1>2, <1>4, <1>5, <1>6 DEF CallsOK, Ours
<1> QED BY <1>2, <1>4, <1>7, RequestsMove

LEMMA RunCallbackKeeps == ASSUME ClientIInv, RunCallback PROVE ClientIInv'
<1> DEFINE i == Head(loop).x
<1>1. CallsOK
  BY CallsAreOK
<1>2. /\ loop # <<>> /\ Head(loop).do = "callback"
      /\ requests' = [requests EXCEPT ![i].ran = @ + 1] /\ loop' = Tail(loop)
      /\ UNCHANGED <<backends, routing, inFlight, attaches, deploy>>
  BY DEF RunCallback
<1>3. /\ requests \in Seq(Request) /\ loop \in Seq(Scheduled)
      /\ \A j \in DOMAIN requests : requests[j] \in Request
      /\ \A k \in DOMAIN loop : loop[k] \in Scheduled
  BY <1>1 DEF CallsOK
<1>4. /\ loop' \in Seq(Scheduled) /\ 1 \in DOMAIN loop /\ i = loop[1].x /\ loop[1].do = "callback"
      /\ \A k \in DOMAIN loop' : k \in Nat /\ k + 1 \in DOMAIN loop /\ k + 1 # 1 /\ loop'[k] = loop[k + 1]
  BY <1>2, <1>3, OneLess
<1>5. i \in DOMAIN requests /\ ~Waits(i) /\ requests[i].ran = 0
  BY <1>1, <1>4 DEF CallsOK, CallsInv
<1>6. /\ requests' \in Seq(Request) /\ Len(requests') = Len(requests) /\ DOMAIN requests' = DOMAIN requests
      /\ \A j \in DOMAIN requests : j # i => requests'[j] = requests[j]
      /\ requests'[i].at = requests[i].at /\ requests'[i].to = requests[i].to /\ requests'[i].ran = 1
  <2> DEFINE v == [requests[i] EXCEPT !.ran = @ + 1]
  <2>1. v \in Request /\ v.at = requests[i].at /\ v.to = requests[i].to /\ v.ran = 1
    BY <1>3, <1>5 DEF Request
  <2>2. requests' = [requests EXCEPT ![i] = v]
    BY <1>2
  <2> HIDE DEF v, i
  <2> QED BY <1>3, <1>5, <2>1, <2>2
<1>7. \A j \in DOMAIN requests :
        /\ requests'[j].to = requests[j].to /\ requests'[j].at = requests[j].at
        /\ j # i => requests'[j].ran = requests[j].ran
  BY <1>6
<1>8. \A k \in DOMAIN loop' : loop'[k].do = "callback" => loop'[k].x \in DOMAIN requests /\ loop'[k].x # i
  <2> SUFFICES ASSUME NEW k \in DOMAIN loop', loop'[k].do = "callback"
               PROVE  loop'[k].x \in DOMAIN requests /\ loop'[k].x # i
    OBVIOUS
  <2>1. k + 1 \in DOMAIN loop /\ k + 1 # 1 /\ loop[k + 1].do = "callback" /\ loop'[k] = loop[k + 1]
    BY <1>4
  <2>2. loop[k + 1] # loop[1]
    BY <1>1, <1>4, <2>1 DEF CallsOK, CallsInv
  <2>3. loop[k + 1].x # loop[1].x
    BY <1>3, <1>4, <2>1, <2>2, ScheduledIs
  <2> HIDE DEF i
  <2> QED BY <1>1, <1>4, <2>1, <2>3 DEF CallsOK
<1> HIDE DEF i
<1>9. CallsInv'
  <2>1. \A j \in DOMAIN requests' :
          /\ j \in inFlight' <=> Waits(j)'
          /\ Waits(j)' => requests'[j].ran = 0
          /\ requests'[j].ran \in {0, 1}
    BY <1>1, <1>2, <1>5, <1>6, <1>7 DEF CallsOK, CallsInv, Waits
  <2>2. ASSUME NEW k \in DOMAIN loop', loop'[k].do = "callback"
        PROVE  /\ ~Waits(loop[k].x)' /\ requests'[loop'[k].x].ran = 0
               /\ \A l \in DOMAIN loop' : loop'[l] = loop'[k] => l = k
    <3>1. k \in Nat /\ k + 1 \in DOMAIN loop /\ loop'[k] = loop[k + 1] /\ loop[k + 1].do = "callback"
      BY <1>4, <2>2
    <3>2. /\ ~Waits(loop[k + 1].x) /\ requests[loop[k + 1].x].ran = 0
          /\ \A l \in DOMAIN loop : loop[l] = loop[k + 1] => l = k + 1
      BY <1>1, <3>1 DEF CallsOK, CallsInv
    <3>3. loop'[k].x \in DOMAIN requests /\ loop'[k].x # i
      BY <1>8, <2>2
    <3>4. ASSUME NEW l \in DOMAIN loop', loop'[l] = loop'[k] PROVE l = k
      <4>1. l \in Nat /\ l + 1 \in DOMAIN loop /\ loop[l + 1] = loop[k + 1]
        BY <1>4, <3>1, <3>4
      <4>2. l + 1 = k + 1
        BY <3>2, <4>1
      <4> QED BY <3>1, <4>1, <4>2
    <3> QED BY <1>7, <3>1, <3>2, <3>3, <3>4 DEF Waits
  <2> QED BY <2>1, <2>2 DEF CallsInv
<1>10. \A k \in DOMAIN loop' :
         IF loop'[k].do = "callback" THEN loop'[k].x \in DOMAIN requests'
         ELSE loop'[k].x \in Ours' /\ backends'[loop'[k].x].exited
  BY <1>1, <1>2, <1>4, <1>6 DEF CallsOK, Ours
<1>11. CallsOK'
  BY <1>1, <1>2, <1>4, <1>6, <1>7, <1>9, <1>10 DEF CallsOK, Ours
<1> QED BY <1>2, <1>6, <1>11, RequestsMove

LEMMA BackendAt ==
  ASSUME BackendsOK, NEW c \in Ours
  PROVE  /\ backends[c] \in Backend /\ c \in 1 .. Clients
         /\ backends \in Seq(Backend)
         /\ backends[c].heard => backends[c].works
         /\ backends[c].exited => ~backends[c].up
         /\ ~backends[c].works /\ ~backends[c].up => backends[c].code = "other"
         /\ client \in 0 .. Len(backends) /\ clients \in [Aliases -> 0 .. Len(backends)]
         /\ {record, verified} \subseteq BOOLEAN
  BY Bounds DEF BackendsOK, History, Ours

LEMMA DispatchKeeps == ASSUME ClientIInv, NEW i \in 1 .. Asked, Dispatch(i) PROVE ClientIInv'
<1> DEFINE c == requests[i].to
           v == [backends[c] EXCEPT !.heard = TRUE]
           q == [requests[i] EXCEPT !.at = "read"]
<1>1. CallsOK /\ BackendsOK
  BY CallsAreOK, BackendsAreOK
<1>2. /\ i \in DOMAIN requests /\ requests[i].at = "answered" /\ ~backends[c].exited
      /\ requests' = [requests EXCEPT ![i] = q]
      /\ backends' = [backends EXCEPT ![c] = v]
      /\ inFlight' = inFlight \ {i} /\ loop' = Append(loop, Callback(i))
      /\ UNCHANGED <<routing, attaches, deploy>>
  BY DEF Dispatch
<1>3. c \in Ours /\ backends[c].works
  BY <1>1, <1>2 DEF CallsOK
<1>4. /\ backends[c] \in Backend /\ backends \in Seq(Backend)
      /\ backends[c].heard => backends[c].works
      /\ backends[c].exited => ~backends[c].up
      /\ ~backends[c].works /\ ~backends[c].up => backends[c].code = "other"
      /\ client \in 0 .. Len(backends) /\ clients \in [Aliases -> 0 .. Len(backends)]
      /\ {record, verified} \subseteq BOOLEAN
  BY <1>1, <1>3, BackendAt
<1>5. /\ v \in Backend /\ v.heard = TRUE
      /\ v.works = backends[c].works /\ v.alias = backends[c].alias
      /\ v.trust = backends[c].trust /\ v.word = backends[c].word /\ v.after = backends[c].after
      /\ v.told = backends[c].told /\ v.left = backends[c].left /\ v.exited = backends[c].exited
      /\ v.up = backends[c].up /\ v.code = backends[c].code
  <2> HIDE DEF c
  <2> QED BY <1>4 DEF Backend
<1>6. /\ requests \in Seq(Request) /\ loop \in Seq(Scheduled) /\ i \in inFlight
      /\ requests[i] \in Request /\ requests[i].ran = 0
  BY <1>1, <1>2 DEF CallsOK, CallsInv, Waits
<1>7. q \in Request /\ q.at = "read" /\ q.to = c /\ q.ran = 0
  BY <1>6 DEF Request
<1> HIDE DEF v, q, c
<1>8. /\ requests' \in Seq(Request) /\ Len(requests') = Len(requests) /\ DOMAIN requests' = DOMAIN requests
      /\ \A j \in DOMAIN requests : j # i => requests'[j] = requests[j]
      /\ requests'[i] = q
  BY <1>2, <1>6, <1>7
<1>9. \A j \in DOMAIN requests : requests'[j].to = requests[j].to /\ requests'[j].ran = requests[j].ran
  BY <1>6, <1>7, <1>8 DEF c
<1>10. /\ loop' \in Seq(Scheduled) /\ DOMAIN loop' = DOMAIN loop \cup {Len(loop) + 1}
       /\ Len(loop) + 1 \notin DOMAIN loop
       /\ \A k \in DOMAIN loop : loop'[k] = loop[k]
       /\ loop'[Len(loop) + 1] = Callback(i)
  <2>1. Callback(i) \in Scheduled
    BY DEF Callback, Scheduled
  <2> QED BY <1>2, <1>6, <2>1, OneMore
<1>11. Callback(i).do = "callback" /\ Callback(i).x = i
  BY DEF Callback
<1>12. \A k \in DOMAIN loop : loop[k].do = "callback" => loop[k].x \in DOMAIN requests /\ loop[k].x # i
  BY <1>1, <1>2 DEF CallsOK, CallsInv, Waits
<1>13. Ours' = Ours /\ \A d \in Ours : backends'[d].works = backends[d].works /\ backends'[d].exited = backends[d].exited
  BY <1>2, <1>3, <1>4, <1>5 DEF Ours
<1>14. CallsInv'
  <2>1. \A j \in DOMAIN requests' :
          /\ j \in inFlight' <=> Waits(j)'
          /\ Waits(j)' => requests'[j].ran = 0
          /\ requests'[j].ran \in {0, 1}
    BY <1>1, <1>2, <1>7, <1>8 DEF CallsOK, CallsInv, Waits
  <2>2. ASSUME NEW k \in DOMAIN loop', loop'[k].do = "callback"
        PROVE  /\ ~Waits(loop[k].x)' /\ requests'[loop'[k].x].ran = 0
               /\ \A l \in DOMAIN loop' : loop'[l] = loop'[k] => l = k
    <3>1. CASE k \in DOMAIN loop
      <4>1. loop'[k] = loop[k] /\ loop[k].x \in DOMAIN requests /\ loop[k].x # i
        BY <1>10, <1>12, <2>2, <3>1
      <4>2. /\ ~Waits(loop[k].x) /\ requests[loop[k].x].ran = 0
            /\ \A l \in DOMAIN loop : loop[l] = loop[k] => l = k
        BY <1>1, <1>10, <2>2, <3>1 DEF CallsOK, CallsInv
      <4>3. \A l \in DOMAIN loop' : loop'[l] = loop'[k] => l = k
        BY <1>10, <1>11, <4>1, <4>2
      <4> QED BY <1>8, <4>1, <4>2, <4>3 DEF Waits
    <3>2. CASE k = Len(loop) + 1
      <4>1. loop'[k].x = i
        BY <1>10, <1>11, <3>2
      <4>2. \A l \in DOMAIN loop' : loop'[l] = loop'[k] => l = k
        <5> SUFFICES ASSUME NEW l \in DOMAIN loop, loop'[l] = loop'[k] PROVE FALSE
          BY <1>10, <3>2
        <5> QED BY <1>10, <1>11, <1>12, <3>2
      <4> QED BY <1>7, <1>8, <4>1, <4>2 DEF Waits
    <3> QED BY <1>10, <3>1, <3>2
  <2> QED BY <2>1, <2>2 DEF CallsInv
<1>15. \A k \in DOMAIN loop' :
         IF loop'[k].do = "callback" THEN loop'[k].x \in DOMAIN requests'
         ELSE loop'[k].x \in Ours' /\ backends'[loop'[k].x].exited
  <2> SUFFICES ASSUME NEW k \in DOMAIN loop'
               PROVE  IF loop'[k].do = "callback" THEN loop'[k].x \in DOMAIN requests'
                      ELSE loop'[k].x \in Ours' /\ backends'[loop'[k].x].exited
    OBVIOUS
  <2>1. CASE k \in DOMAIN loop
    BY <1>1, <1>8, <1>10, <1>13, <2>1 DEF CallsOK
  <2>2. CASE k = Len(loop) + 1
    BY <1>2, <1>8, <1>10, <1>11, <2>2
  <2> QED BY <1>10, <2>1, <2>2
<1>16. CallsOK'
  <2>1. \A j \in DOMAIN requests' :
          requests'[j].to \in Ours' /\ (requests'[j].at = "answered" => backends'[requests'[j].to].works)
    BY <1>1, <1>7, <1>8, <1>9, <1>13 DEF CallsOK
  <2> QED BY <1>1, <1>2, <1>8, <1>10, <1>14, <1>15, <2>1 DEF CallsOK
<1>17. client' = client /\ clients' = clients /\ UNCHANGED <<record, verified, trusted, binary, attaches>>
  BY <1>2 DEF routing, deploy
<1> QED BY <1>2, <1>3, <1>4, <1>5, <1>8, <1>16, <1>17, BackendMoves

(* A step of one backend that moves no request.                            *)
LEMMA CallsStay ==
  ASSUME ClientIInv, UNCHANGED <<requests, inFlight>>, NEW c \in Ours, NEW v \in Backend,
         backends' = [backends EXCEPT ![c] = v], v.works = backends[c].works, backends[c].exited => v.exited,
         loop' = loop \/ (loop' = Append(loop, [do |-> "on_exit", x |-> c]) /\ v.exited)
  PROVE  CallsOK'
<1> DEFINE e == [do |-> "on_exit", x |-> c]
<1>1. CallsOK /\ BackendsOK
  BY CallsAreOK, BackendsAreOK
<1>2. Ours' = Ours /\ \A d \in Ours : /\ backends'[d].works = backends[d].works
                                     /\ backends[d].exited => backends'[d].exited
  BY <1>1 DEF BackendsOK, Ours
<1>3. backends'[c].exited = v.exited
  BY <1>1 DEF BackendsOK, Ours
<1>4. CASE loop' = loop
  BY <1>1, <1>2, <1>4 DEF CallsOK, CallsInv, Waits
<1>5. CASE loop' = Append(loop, e) /\ v.exited
  <2>1. e \in Scheduled /\ e.do = "on_exit" /\ e.x = c
    BY <1>1, BackendAt DEF Scheduled
  <2> HIDE DEF e
  <2>2. loop \in Seq(Scheduled)
    BY <1>1 DEF CallsOK
  <2>3. /\ loop' \in Seq(Scheduled) /\ DOMAIN loop' = DOMAIN loop \cup {Len(loop) + 1}
        /\ Len(loop) + 1 \notin DOMAIN loop
        /\ \A k \in DOMAIN loop : loop'[k] = loop[k]
        /\ loop'[Len(loop) + 1] = e
    BY <1>5, <2>1, <2>2, OneMore
  <2>4. \A k \in DOMAIN loop' :
          IF loop'[k].do = "callback" THEN loop'[k].x \in DOMAIN requests'
          ELSE loop'[k].x \in Ours' /\ backends'[loop'[k].x].exited
    <3> SUFFICES ASSUME NEW k \in DOMAIN loop'
                 PROVE  IF loop'[k].do = "callback" THEN loop'[k].x \in DOMAIN requests'
                        ELSE loop'[k].x \in Ours' /\ backends'[loop'[k].x].exited
      OBVIOUS
    <3>1. CASE k \in DOMAIN loop
      BY <1>1, <1>2, <2>3, <3>1 DEF CallsOK
    <3>2. CASE k = Len(loop) + 1
      BY <1>2, <1>3, <1>5, <2>1, <2>3, <3>2
    <3> QED BY <2>3, <3>1, <3>2
  <2>5. ASSUME NEW k \in DOMAIN loop', loop'[k].do = "callback"
        PROVE  /\ ~Waits(loop[k].x)' /\ requests'[loop'[k].x].ran = 0
               /\ \A l \in DOMAIN loop' : loop'[l] = loop'[k] => l = k
    <3>1. k \in DOMAIN loop /\ loop'[k] = loop[k]
      BY <2>1, <2>3, <2>5
    <3>2. /\ ~Waits(loop[k].x) /\ requests[loop[k].x].ran = 0
          /\ \A l \in DOMAIN loop : loop[l] = loop[k] => l = k
      BY <1>1, <2>5, <3>1 DEF CallsOK, CallsInv
    <3>3. \A l \in DOMAIN loop' : loop'[l] = loop'[k] => l = k
      BY <2>1, <2>3, <2>5, <3>1, <3>2
    <3> QED BY <3>1, <3>2, <3>3 DEF Waits
  <2>6. CallsInv'
    BY <1>1, <2>5 DEF CallsOK, CallsInv, Waits
  <2> QED BY <1>1, <1>2, <2>3, <2>4, <2>6 DEF CallsOK
<1> QED BY <1>4, <1>5

LEMMA BackendEndsKeeps == ASSUME ClientIInv, NEW c \in 1 .. Clients, BackendEnds(c) PROVE ClientIInv'
<1>1. BackendsOK
  BY BackendsAreOK
<1>2. c \in Ours /\ UNCHANGED <<routing, rpc, attaches, deploy>>
  BY DEF BackendEnds
<1>3. PICK code \in {"zero", "other", "ssh"} :
        /\ ~backends[c].works => code = "other"
        /\ backends' = [backends EXCEPT ![c].up = FALSE, ![c].code = code]
  BY DEF BackendEnds
<1> DEFINE v == [backends[c] EXCEPT !.up = FALSE, !.code = code]
<1>4. /\ backends[c] \in Backend /\ backends \in Seq(Backend)
      /\ backends[c].heard => backends[c].works
      /\ client \in 0 .. Len(backends) /\ clients \in [Aliases -> 0 .. Len(backends)]
      /\ {record, verified} \subseteq BOOLEAN
  BY <1>1, <1>2, BackendAt
<1>5. /\ v \in Backend /\ v.up = FALSE /\ v.code = code
      /\ v.works = backends[c].works /\ v.alias = backends[c].alias
      /\ v.trust = backends[c].trust /\ v.word = backends[c].word /\ v.after = backends[c].after
      /\ v.told = backends[c].told /\ v.left = backends[c].left /\ v.exited = backends[c].exited
      /\ v.heard = backends[c].heard
  BY <1>4 DEF Backend, Codes
<1>6. backends' = [backends EXCEPT ![c] = v]
  BY <1>2, <1>3, <1>4 DEF Ours
<1> HIDE DEF v
<1>7. /\ client' = client /\ clients' = clients
      /\ UNCHANGED <<record, verified, trusted, binary, attaches, requests, inFlight, loop>>
  BY <1>2 DEF routing, deploy, rpc
<1>8. CallsOK'
  <2>1. c \in Ours /\ v \in Backend /\ v.works = backends[c].works /\ (backends[c].exited => v.exited)
    BY <1>2, <1>5
  <2>2. UNCHANGED <<requests, inFlight>> /\ loop' = loop
    BY <1>7
  <2> QED BY <1>6, <2>1, <2>2, CallsStay
<1>9. /\ v.works = backends[c].works /\ v.alias = backends[c].alias
      /\ v.trust = backends[c].trust /\ v.word = backends[c].word
      /\ v.after = backends[c].after /\ v.told = backends[c].told
      /\ backends[c].heard => v.heard
      /\ backends[c].left => v.left
      /\ backends[c].exited => v.exited
      /\ v.heard => v.works
      /\ v.exited => ~v.up
      /\ ~v.works /\ ~v.up => v.code = "other"
  BY <1>3, <1>4, <1>5
<1>10. /\ client' \in 0 .. Len(backends) /\ clients' \in [Aliases -> 0 .. Len(backends)]
       /\ \A d \in Ours : clients["remote"] = d => clients'["remote"] = d
       /\ {record', verified'} \subseteq BOOLEAN /\ (record' => record)
       /\ UNCHANGED <<attaches, trusted, binary>> /\ DOMAIN requests' = DOMAIN requests
  BY <1>4, <1>7
<1>11. c \in Ours /\ v \in Backend /\ (v.left => backends[c].left)
  BY <1>2, <1>5
<1> QED BY <1>6, <1>8, <1>9, <1>10, <1>11, BackendMoves

LEMMA ExitSeenKeeps == ASSUME ClientIInv, NEW c \in 1 .. Clients, ExitSeen(c) PROVE ClientIInv'
<1> DEFINE v == [backends[c] EXCEPT !.exited = TRUE]
<1>1. BackendsOK
  BY BackendsAreOK
<1>2. /\ c \in Ours /\ ~backends[c].up /\ ~backends[c].exited
      /\ backends' = [backends EXCEPT ![c] = v]
      /\ loop' = Append(loop, [do |-> "on_exit", x |-> c])
      /\ UNCHANGED <<routing, requests, inFlight, attaches, deploy>>
  BY DEF ExitSeen
<1>4. /\ backends[c] \in Backend /\ backends \in Seq(Backend)
      /\ backends[c].heard => backends[c].works
      /\ ~backends[c].works /\ ~backends[c].up => backends[c].code = "other"
      /\ client \in 0 .. Len(backends) /\ clients \in [Aliases -> 0 .. Len(backends)]
      /\ {record, verified} \subseteq BOOLEAN
  BY <1>1, <1>2, BackendAt
<1>5. /\ v \in Backend /\ v.exited = TRUE
      /\ v.works = backends[c].works /\ v.alias = backends[c].alias
      /\ v.trust = backends[c].trust /\ v.word = backends[c].word /\ v.after = backends[c].after
      /\ v.told = backends[c].told /\ v.left = backends[c].left
      /\ v.up = backends[c].up /\ v.code = backends[c].code
      /\ v.heard = backends[c].heard
  BY <1>4 DEF Backend
<1> HIDE DEF v
<1>6. /\ client' = client /\ clients' = clients
      /\ UNCHANGED <<record, verified, trusted, binary, attaches, requests, inFlight>>
  BY <1>2 DEF routing, deploy
<1>7. CallsOK'
  BY <1>2, <1>5, <1>6, CallsStay
<1> QED BY <1>2, <1>4, <1>5, <1>6, <1>7, BackendMoves

(* The calls in flight to the backend that left fail.                      *)
Failing(c) == {i \in inFlight : requests[i].to = c}
CallsFail(c) ==
  /\ loop # <<>>
  /\ requests' = [i \in DOMAIN requests |->
                    IF i \in Failing(c) THEN [requests[i] EXCEPT !.ran = @ + 1, !.at = "failed"] ELSE requests[i]]
  /\ inFlight' = inFlight \ Failing(c) /\ loop' = Tail(loop)

LEMMA FailedAre ==
  ASSUME CallsOK, NEW c, CallsFail(c), Ours' = Ours,
         \A d \in Ours : backends'[d].works = backends[d].works /\ backends'[d].exited = backends[d].exited
  PROVE  CallsOK' /\ DOMAIN requests' = DOMAIN requests
<1>1. /\ requests \in Seq(Request) /\ loop \in Seq(Scheduled) /\ inFlight \subseteq DOMAIN requests
      /\ \A j \in DOMAIN requests : requests[j] \in Request
  BY DEF CallsOK
<1>2. \A j \in Failing(c) : j \in DOMAIN requests /\ Waits(j) /\ requests[j].ran = 0
  BY <1>1 DEF CallsOK, CallsInv, Failing
<1>3. DOMAIN requests' = DOMAIN requests
  BY DEF CallsFail
<1>4. ASSUME NEW j \in Failing(c)
      PROVE  /\ requests'[j] \in Request /\ requests'[j].at = "failed"
             /\ requests'[j].to = requests[j].to /\ requests'[j].ran = 1
  <2>1. requests'[j] = [requests[j] EXCEPT !.ran = @ + 1, !.at = "failed"]
    BY <1>2 DEF CallsFail
  <2> DEFINE r == requests[j]
             v == [r EXCEPT !.ran = @ + 1, !.at = "failed"]
  <2>2. r \in Request /\ r.ran = 0
    BY <1>1, <1>2
  <2> HIDE DEF r
  <2> DEFINE once == [r EXCEPT !.ran = @ + 1]
  <2>3. v = [once EXCEPT !.at = "failed"]
    BY <2>2 DEF Request
  <2>6. once \in Request /\ once.to = r.to /\ once.ran = 1
    BY <2>2 DEF Request
  <2>4. requests'[j] = v
    BY <2>1 DEF r
  <2>5. v \in Request /\ v.at = "failed" /\ v.to = r.to /\ v.ran = 1
    <3> HIDE DEF v, once
    <3> QED BY <2>3, <2>6 DEF Request
  <2> HIDE DEF v
  <2> QED BY <2>4, <2>5 DEF r
<1>5. \A j \in DOMAIN requests : j \notin Failing(c) => requests'[j] = requests[j]
  BY DEF CallsFail
<1>6. requests' \in Seq(Request) /\ Len(requests') = Len(requests)
  <2>1. Len(requests) \in Nat /\ DOMAIN requests = 1 .. Len(requests)
    BY <1>1
  <2>2. requests' = [j \in 1 .. Len(requests) |-> requests'[j]]
    BY <2>1 DEF CallsFail
  <2>3. \A j \in 1 .. Len(requests) : requests'[j] \in Request
    BY <1>1, <1>4, <1>5, <2>1
  <2>4. requests' \in [1 .. Len(requests) -> Request]
    BY <2>2, <2>3
  <2> QED BY <2>1, <2>4
<1>7. /\ loop' \in Seq(Scheduled)
      /\ \A k \in DOMAIN loop' : k \in Nat /\ k + 1 \in DOMAIN loop /\ k + 1 # 1 /\ loop'[k] = loop[k + 1]
  BY <1>1, OneLess DEF CallsFail
<1>8. \A k \in DOMAIN loop' :
        IF loop'[k].do = "callback" THEN loop'[k].x \in DOMAIN requests'
        ELSE loop'[k].x \in Ours' /\ backends'[loop'[k].x].exited
  <2> SUFFICES ASSUME NEW k \in DOMAIN loop'
               PROVE  IF loop'[k].do = "callback" THEN loop'[k].x \in DOMAIN requests'
                      ELSE loop'[k].x \in Ours' /\ backends'[loop'[k].x].exited
    OBVIOUS
  <2>1. PICK i \in DOMAIN loop : loop'[k] = loop[i]
    BY <1>7
  <2>2. IF loop[i].do = "callback" THEN loop[i].x \in DOMAIN requests
        ELSE loop[i].x \in Ours /\ backends[loop[i].x].exited
    BY DEF CallsOK
  <2> QED BY <1>3, <2>1, <2>2
<1>9. \A j \in DOMAIN requests' :
        requests'[j].to \in Ours' /\ (requests'[j].at = "answered" => backends'[requests'[j].to].works)
  BY <1>2, <1>3, <1>4, <1>5 DEF CallsOK
<1>10. \A j \in DOMAIN requests' :
         /\ j \in inFlight' <=> Waits(j)'
         /\ Waits(j)' => requests'[j].ran = 0
         /\ requests'[j].ran \in {0, 1}
  <2> SUFFICES ASSUME NEW j \in DOMAIN requests
               PROVE  /\ j \in inFlight' <=> Waits(j)'
                      /\ Waits(j)' => requests'[j].ran = 0
                      /\ requests'[j].ran \in {0, 1}
    BY <1>3
  <2>1. CASE j \in Failing(c)
    BY <1>4, <2>1 DEF Waits, CallsFail
  <2>2. CASE j \notin Failing(c)
    <3>1. requests'[j] = requests[j] /\ (j \in inFlight' <=> j \in inFlight)
      BY <1>5, <2>2 DEF CallsFail
    <3> QED BY <3>1 DEF CallsOK, CallsInv, Waits
  <2> QED BY <2>1, <2>2
<1>11. ASSUME NEW k \in DOMAIN loop', loop'[k].do = "callback"
       PROVE  /\ ~Waits(loop[k].x)' /\ requests'[loop'[k].x].ran = 0
              /\ \A l \in DOMAIN loop' : loop'[l] = loop'[k] => l = k
  <2>1. k \in Nat /\ k + 1 \in DOMAIN loop /\ loop'[k] = loop[k + 1] /\ loop[k + 1].do = "callback"
    BY <1>7, <1>11
  <2>2. /\ ~Waits(loop[k + 1].x) /\ requests[loop[k + 1].x].ran = 0
        /\ \A l \in DOMAIN loop : loop[l] = loop[k + 1] => l = k + 1
    BY <2>1 DEF CallsOK, CallsInv
  <2>3. loop'[k].x \in DOMAIN requests /\ loop'[k].x \notin Failing(c)
    BY <1>2, <1>3, <1>8, <1>11, <2>1, <2>2
  <2>4. ASSUME NEW l \in DOMAIN loop', loop'[l] = loop'[k] PROVE l = k
    <3>1. l \in Nat /\ l + 1 \in DOMAIN loop /\ loop[l + 1] = loop[k + 1]
      BY <1>7, <2>1, <2>4
    <3>2. l + 1 = k + 1
      BY <2>2, <3>1
    <3> QED BY <2>1, <3>1, <3>2
  <2>5. requests'[loop'[k].x] = requests[loop'[k].x]
    BY <1>5, <2>3
  <2> QED BY <2>1, <2>2, <2>4, <2>5 DEF Waits
<1>12. CallsInv'
  BY <1>10, <1>11 DEF CallsInv
<1>13. Len(requests') <= Asked /\ inFlight' \subseteq DOMAIN requests'
  BY <1>1, <1>3, <1>6 DEF CallsOK, CallsFail
<1> QED BY <1>6, <1>7, <1>8, <1>9, <1>12, <1>13 DEF CallsOK

(* The record that missed goes: the spawns that shared its trust were not  *)
(* heard, or one of them, a later one, was.                                *)
LEMMA RunExitKeeps == ASSUME ClientIInv, RunExit PROVE ClientIInv'
<1> DEFINE c == Head(loop).x
           v == [backends[c] EXCEPT !.left = TRUE]
<1>1. CallsOK /\ BackendsOK
  BY CallsAreOK, BackendsAreOK
<1>2. /\ loop # <<>> /\ Head(loop).do = "on_exit"
      /\ CallsFail(c)
      /\ Unroute(c)
      /\ backends' = [backends EXCEPT ![c] = v]
      /\ IF NeverStarted(c)
         THEN /\ record' = (record /\ ~(RestedOnRecord(c) /\ backends[c].code # "ssh"))
              /\ verified' = FALSE
         ELSE UNCHANGED <<record, verified>>
      /\ UNCHANGED <<attaches, trusted, binary>>
  BY DEF RunExit, CallsFail, Failing
<1>3. c \in Ours /\ backends[c].exited
  <2>1. loop \in Seq(Scheduled)
    BY <1>1 DEF CallsOK
  <2>2. 1 \in DOMAIN loop /\ Head(loop) = loop[1]
    BY <1>2, <2>1, OneLess
  <2> QED BY <1>1, <1>2, <2>2 DEF CallsOK
<1>4. /\ backends[c] \in Backend /\ backends \in Seq(Backend)
      /\ backends[c].heard => backends[c].works
      /\ backends[c].exited => ~backends[c].up
      /\ ~backends[c].works /\ ~backends[c].up => backends[c].code = "other"
      /\ client \in 0 .. Len(backends) /\ clients \in [Aliases -> 0 .. Len(backends)]
      /\ {record, verified} \subseteq BOOLEAN
  BY <1>1, <1>3, BackendAt
<1>5. /\ v \in Backend /\ v.left = TRUE
      /\ v.works = backends[c].works /\ v.alias = backends[c].alias
      /\ v.trust = backends[c].trust /\ v.word = backends[c].word /\ v.after = backends[c].after
      /\ v.told = backends[c].told /\ v.exited = backends[c].exited
      /\ v.up = backends[c].up /\ v.code = backends[c].code
      /\ v.heard = backends[c].heard
  <2> HIDE DEF c
  <2> QED BY <1>4 DEF Backend
<1>6. /\ client' \in 0 .. Len(backends) /\ clients' \in [Aliases -> 0 .. Len(backends)]
      /\ \A d \in Ours : backends[d].alias = "remote" /\ clients["remote"] = d /\ c # d => clients'["remote"] = d
  <2>1. 0 \in 0 .. Len(backends)
    BY <1>1 DEF BackendsOK
  <2>2. /\ clients' = [a \in Aliases |-> IF clients[a] = c THEN 0 ELSE clients[a]]
        /\ client' = IF client = c THEN 0 ELSE client
    BY <1>2 DEF Unroute
  <2>3. \A d \in Ours : backends[d].alias \in Aliases
    <3>1. \A d \in Ours : backends[d] \in Backend
      BY <1>4 DEF Ours
    <3> QED BY <3>1 DEF Backend
  <2> HIDE DEF c
  <2> QED BY <1>4, <2>1, <2>2, <2>3
<1>7. {record', verified'} \subseteq BOOLEAN /\ (record' => record)
  BY <1>2, <1>4
<1>8. ASSUME ~v.works, v.word = "record"
      PROVE  ~record' \/ \E e \in c .. Len(backends) : backends[e].word = "probe" \/ backends[e].heard
  <2>1. backends[c].alias = "remote" /\ backends[c].trust = c
    BY <1>1, <1>3, <1>5, <1>8 DEF BackendsOK, History
  <2>2. NeverStarted(c) /\ backends[c].code # "ssh"
    <3> HIDE DEF c
    <3> QED BY <1>3, <1>4, <1>5, <1>8, <2>1 DEF NeverStarted
  <2>3. record' = (record /\ ~RestedOnRecord(c))
    BY <1>2, <2>2
  <2>4. c \in Nat /\ c # 0 /\ Ours = 1 .. Len(backends) /\ Len(backends) \in Nat
    BY <1>1, <1>3 DEF BackendsOK, Ours
  <2>5. CASE ~RestedOnRecord(c)
    <3>1. PICK d \in Ours : backends[d].trust = c /\ backends[d].heard
      BY <2>1, <2>4, <2>5 DEF RestedOnRecord
    <3>2. backends[d].trust \in 0 .. d
      BY <1>1 DEF BackendsOK, History
    <3>3. d \in c .. Len(backends)
      BY <2>4, <3>1, <3>2
    <3> QED BY <3>1, <3>3
  <2> QED BY <2>3, <2>5
<1>9. Ours' = Ours /\ \A d \in Ours : /\ backends'[d].works = backends[d].works
                                    /\ backends'[d].exited = backends[d].exited
  <2> HIDE DEF c, v
  <2> QED BY <1>2, <1>3, <1>4, <1>5 DEF Ours
<1>10. CallsOK' /\ DOMAIN requests' = DOMAIN requests
  <2> HIDE DEF c, v
  <2> QED BY <1>1, <1>2, <1>9, FailedAre
<1> HIDE DEF c, v
<1>11. /\ v \in Backend /\ backends' = [backends EXCEPT ![c] = v]
       /\ v.works = backends[c].works /\ v.alias = backends[c].alias
       /\ v.trust = backends[c].trust /\ v.word = backends[c].word
       /\ v.after = backends[c].after /\ v.told = backends[c].told
       /\ backends[c].heard => v.heard
       /\ backends[c].left => v.left
       /\ backends[c].exited => v.exited
       /\ v.heard => v.works
       /\ v.exited => ~v.up
       /\ ~v.works /\ ~v.up => v.code = "other"
  BY <1>2, <1>4, <1>5
<1>12. /\ client' \in 0 .. Len(backends) /\ clients' \in [Aliases -> 0 .. Len(backends)]
       /\ \A d \in Ours : backends[d].alias = "remote" /\ clients["remote"] = d /\ (c # d \/ ~v.exited) =>
                         clients'["remote"] = d
  BY <1>3, <1>6, <1>11
<1>13. /\ {record', verified'} \subseteq BOOLEAN /\ (record' => record)
       /\ ~v.works /\ v.word = "record" /\ v.left /\ ~backends[c].left =>
           ~record' \/ \E e \in c .. Len(backends) : backends[e].word = "probe" \/ backends[e].heard
  BY <1>7, <1>8
<1>14. UNCHANGED <<attaches, trusted, binary>>
  BY <1>2
<1> QED BY <1>3, <1>10, <1>11, <1>12, <1>13, <1>14, BackendMoves

LEMMA BinaryGoneKeeps == ASSUME ClientIInv, BinaryGone PROVE ClientIInv'
<1>1. CallsOK /\ BackendsOK
  BY CallsAreOK, BackendsAreOK
<1>2. binary' = FALSE /\ UNCHANGED <<backends, routing, rpc, attaches, record, verified, trusted>>
  BY DEF BinaryGone
<1>3. Ours' = Ours /\ History' /\ MissIsHeeded' /\ RecordGivesWay'
  BY <1>1, <1>2, Untouched
<1>4. RemoteIsRouted'
  BY <1>1, <1>2, <1>3 DEF BackendsOK, RemoteIsRouted, routing
<1>5. BackendsOK'
  BY <1>1, <1>2, <1>3, <1>4 DEF BackendsOK, routing, rpc
<1>6. CallsOK'
  BY <1>1, <1>2 DEF CallsOK, CallsInv, Waits, Ours, rpc
<1> QED BY <1>5, <1>6, TogetherOK, PTL
-----------------------------------------------------------------------------
LEMMA ClientInitIInv == ClientInit => ClientIInv
<1> SUFFICES ASSUME ClientInit PROVE ClientIInv
  OBVIOUS
<1>1. /\ backends = <<>> /\ client = 0 /\ clients = [a \in Aliases |-> 0]
      /\ requests = <<>> /\ inFlight = {} /\ loop = <<>> /\ attaches = <<>>
      /\ binary \in BOOLEAN /\ record \in BOOLEAN /\ verified = FALSE /\ trusted = 0
  BY DEF ClientInit
<1>2. Ours = {} /\ DOMAIN requests = {} /\ DOMAIN loop = {} /\ DOMAIN attaches = {}
  BY <1>1 DEF Ours
<1>3. CallsOK
  BY <1>1, <1>2, Bounds DEF CallsOK, CallsInv
<1>4. RemoteIsRouted /\ History /\ MissIsHeeded /\ RecordGivesWay
  BY <1>2 DEF RemoteIsRouted, History, MissIsHeeded, RecordGivesWay
<1>5. BackendsOK
  <2>1. backends \in Seq(Backend) /\ Len(backends) = 0 /\ attaches \in Seq(Attach)
    BY <1>1
  <2>2. client \in 0 .. Len(backends) /\ trusted \in 0 .. Len(backends) /\ clients \in [Aliases -> 0 .. Len(backends)]
    BY <1>1, <2>1
  <2>3. {record, verified, binary} \subseteq BOOLEAN
    BY <1>1
  <2> QED BY <1>2, <1>4, <2>1, <2>2, <2>3, Bounds DEF BackendsOK
<1> QED BY <1>3, <1>5, TogetherOK

LEMMA ClientStutters == ASSUME ClientIInv, UNCHANGED clientVars PROVE ClientIInv'
<1>1. CallsOK
  BY CallsAreOK
<1>2. UNCHANGED <<backends, routing, attaches, deploy, rpc>>
  BY DEF clientVars
<1>3. CallsOK' /\ DOMAIN requests' = DOMAIN requests
  BY <1>1, <1>2 DEF CallsOK, CallsInv, Waits, Ours, rpc
<1> QED BY <1>2, <1>3, RequestsMove

LEMMA ClientIInvIsInductive == ClientIInv /\ [ClientNext]_clientVars => ClientIInv'
<1> SUFFICES ASSUME ClientIInv, [ClientNext]_clientVars PROVE ClientIInv'
  OBVIOUS
<1>1. ASSUME NEW a \in Aliases, Need(a) PROVE ClientIInv'
  BY <1>1, NeedKeeps
<1>2. ASSUME NEW c \in 1 .. Clients, CallKept(c) PROVE ClientIInv'
  BY <1>2, CallKeptKeeps
<1>3. CASE AttachAgain
  BY <1>3, AttachAgainKeeps
<1>4. CASE AttachEnds
  BY <1>4, AttachEndsKeeps
<1>5. CASE Stops
  BY <1>5, StopsKeep
<1>6. ASSUME NEW i \in 1 .. Asked, BackendAnswers(i) PROVE ClientIInv'
  BY <1>6, BackendAnswersKeeps
<1>7. ASSUME NEW i \in 1 .. Asked, Dispatch(i) PROVE ClientIInv'
  BY <1>7, DispatchKeeps
<1>8. ASSUME NEW c \in 1 .. Clients, BackendEnds(c) PROVE ClientIInv'
  BY <1>8, BackendEndsKeeps
<1>9. ASSUME NEW c \in 1 .. Clients, ExitSeen(c) PROVE ClientIInv'
  BY <1>9, ExitSeenKeeps
<1>10. CASE RunCallback
  BY <1>10, RunCallbackKeeps
<1>11. CASE RunExit
  BY <1>11, RunExitKeeps
<1>12. CASE BinaryGone
  BY <1>12, BinaryGoneKeeps
<1>13. CASE UNCHANGED clientVars
  BY <1>13, ClientStutters
<1> QED
  BY <1>1, <1>2, <1>3, <1>4, <1>5, <1>6, <1>7, <1>8, <1>9, <1>10, <1>11, <1>12, <1>13
     DEF ClientNext, Uses, Happens

(* A running remote backend is where its alias goes, and a call's callback *)
(* runs once at most: ClientInv, for any number of backends and calls.     *)
THEOREM BackendsStayRouted == ClientSpec => []ClientInv
<1>1. ClientIInv => ClientInv
  <2> SUFFICES ASSUME ClientIInv PROVE CalledBackOnce
    BY DEF ClientIInv, ClientInv
  <2> QED BY DEF ClientIInv, CallsInv, CalledBackOnce
<1> QED BY <1>1, ClientInitIInv, ClientIInvIsInductive, PTL DEF ClientSpec

(* A spawn that rested on the deploy record and found no backend is the    *)
(* last to rest on it, unless the remote answered since.                   *)
THEOREM MissedRecordGivesWay == ClientSpec => []RecordGivesWay
<1>1. ClientIInv => RecordGivesWay
  BY DEF ClientIInv
<1> QED BY <1>1, ClientInitIInv, ClientIInvIsInductive, PTL DEF ClientSpec
=============================================================================
