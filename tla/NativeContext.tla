---------------------------- MODULE NativeContext ----------------------------
(***************************************************************************)
(* A context of libjupynvim in Neovim (src/lua/jupynvim/native.lua, Ctx):  *)
(* the callbacks of the jobs it has submitted, the pump that runs them on  *)
(* the main loop, and its close.  Underneath is the pool, by what it       *)
(* promises (JobService), with its wake.  A callback is the user's code:   *)
(* it may submit, cancel and close, and it may wait, which lets the main   *)
(* loop start another pump inside the first.                               *)
(***************************************************************************)
EXTENDS Integers, Sequences, FiniteSets

CONSTANTS Jobs,  \* bound: the jobs submitted
          Batch  \* BATCH, completions of one poll

ASSUME ContextAssumption == IsFiniteSet(Jobs) /\ Batch \in Nat \ {0}

VARIABLES
  state, completed, collected, open,  \* of the pool, see JobService
  announced,  \* the wake's pending flag
  byte,       \* a byte in the wake's socket
  scheduled,  \* a pump is scheduled
  pending,    \* jobs with an entry in `pending`: a callback and an input
  graveyard,  \* the entries moved there by close
  pumps,      \* the pumps that run, the innermost last
  calls       \* how often each job's callback was begun

pool == <<state, completed, collected, open>>
contextVars == <<pool, announced, byte, scheduled, pending, graveyard, pumps, calls>>

Lib == INSTANCE JobService

(* A pump: the records of its array it has not dispatched, what its last   *)
(* poll made of the array, and whether a callback of it runs.              *)
Pump == [records : Seq(Lib!Completions), last : {"none", "full", "short"}, calling : BOOLEAN]
NewPump == [records |-> <<>>, last |-> "none", calling |-> FALSE]
Depth == Len(pumps)
Inner == pumps[Depth]
Left == SubSeq(pumps, 1, Depth - 1)

(* The main loop runs the user's code or a scheduled pump: between its     *)
(* turns, and inside a callback.                                           *)
MainLoopFree == Depth > 0 => Inner.calling
Dispatching == Depth > 0 /\ ~Inner.calling

ContextTypeOK ==
  /\ Lib!TypeOK
  /\ {announced, byte, scheduled} \subseteq BOOLEAN
  /\ pending \subseteq Jobs /\ graveyard \subseteq Jobs
  /\ pumps \in Seq(Pump)
  /\ calls \in [Jobs -> Nat]

ContextInit ==
  /\ Lib!Init
  /\ announced = FALSE /\ byte = FALSE /\ scheduled = FALSE
  /\ pending = {} /\ graveyard = {}
  /\ pumps = <<>>
  /\ calls = [j \in Jobs |-> 0]

-----------------------------------------------------------------------------
(* The pool's workers.                                                     *)

Work(j) ==
  /\ Lib!Start(j)
  /\ UNCHANGED <<announced, byte, scheduled, pending, graveyard, pumps, calls>>

(* A completion raises the flag; who finds it down writes the byte, unless *)
(* the wake is closed.                                                     *)
Complete(j) ==
  /\ \E status \in Lib!Outcomes : Lib!Complete(j, status)
  /\ announced' = TRUE
  /\ byte' = (byte \/ (~announced /\ open))
  /\ UNCHANGED <<scheduled, pending, graveyard, pumps, calls>>

-----------------------------------------------------------------------------
(* The user's code.                                                        *)

Submit(j) ==
  /\ MainLoopFree /\ open
  /\ Lib!Submit(j)
  /\ pending' = pending \cup {j}
  /\ UNCHANGED <<announced, byte, scheduled, graveyard, pumps, calls>>

Cancel(j) ==
  /\ MainLoopFree
  /\ Lib!Withdraw(j)
  /\ UNCHANGED <<announced, byte, scheduled, pending, graveyard, pumps, calls>>

(* Mutant of Buried: the entries are let go.                               *)
BuriedNone == {}

Buried == pending

CloseContext ==
  /\ MainLoopFree
  /\ Lib!Close
  /\ graveyard' = Buried
  /\ pending' = {}
  /\ byte' = FALSE
  /\ UNCHANGED <<announced, scheduled, pumps, calls>>

(* The innermost callback returns.                                         *)
Return ==
  /\ Depth > 0 /\ Inner.calling
  /\ pumps' = [pumps EXCEPT ![Depth].calling = FALSE]
  /\ UNCHANGED <<pool, announced, byte, scheduled, pending, graveyard, calls>>

-----------------------------------------------------------------------------
(* The wake and the pump.                                                  *)

(* The event loop reads the byte, in a fast event: at any time.            *)
ReadByte ==
  /\ byte
  /\ byte' = FALSE
  /\ scheduled' = TRUE
  /\ UNCHANGED <<pool, announced, pending, graveyard, pumps, calls>>

(* _pump: nothing when the context is closed.                              *)
StartPump ==
  /\ scheduled /\ MainLoopFree
  /\ scheduled' = FALSE
  /\ pumps' = IF open THEN Append(pumps, NewPump) ELSE pumps
  /\ UNCHANGED <<pool, announced, byte, pending, graveyard, calls>>

(* Mutant of Polled: a nested pump polls into the array of the others.     *)
PolledInto(records, last) ==
  [p \in DOMAIN pumps |-> [pumps[p] EXCEPT !.records = records, !.last = last]]

Polled(records, last) ==
  [pumps EXCEPT ![Depth].records = records, ![Depth].last = last]

(* jnv_poll: the flag is lowered before the completions are taken.         *)
Poll ==
  /\ Dispatching /\ open
  /\ Inner.records = <<>> /\ Inner.last # "short"
  /\ announced' = FALSE
  /\ LET n == IF Len(completed) < Batch THEN Len(completed) ELSE Batch IN
     /\ pumps' = Polled(SubSeq(completed, 1, n), IF n = Batch THEN "full" ELSE "short")
     /\ \/ Lib!Poll
        \/ completed = <<>> /\ UNCHANGED pool
  /\ UNCHANGED <<byte, scheduled, pending, graveyard, calls>>

(* _finish: the entry goes, then its callback is called; a record without  *)
(* an entry, of a context closed meanwhile, is freed.                      *)
FinishRecord ==
  /\ Dispatching /\ Inner.records # <<>>
  /\ LET j == Head(Inner.records).job IN
     /\ pending' = pending \ {j}
     /\ calls' = IF j \in pending THEN [calls EXCEPT ![j] = @ + 1] ELSE calls
     /\ pumps' = [pumps EXCEPT ![Depth].records = Tail(@), ![Depth].calling = j \in pending]
  /\ UNCHANGED <<pool, announced, byte, scheduled, graveyard>>

(* The pump ends: its last poll did not fill the array; or the context is  *)
(* closed; or its time is over and another is scheduled.                   *)
EndPump ==
  /\ Dispatching /\ Inner.records = <<>>
  /\ Inner.last = "short" \/ ~open
  /\ pumps' = Left
  /\ UNCHANGED <<pool, announced, byte, scheduled, pending, graveyard, calls>>

(* The pump whose time is over.                                            *)
Yield ==
  /\ Dispatching /\ Inner.records = <<>>
  /\ Inner.last = "full" /\ open
  /\ scheduled' = TRUE
  /\ pumps' = Left
  /\ UNCHANGED <<pool, announced, byte, pending, graveyard, calls>>

-----------------------------------------------------------------------------

ContextNext ==
  \/ \E j \in Jobs : Work(j) \/ Complete(j) \/ Submit(j) \/ Cancel(j)
  \/ CloseContext \/ Return \/ ReadByte \/ StartPump \/ Poll \/ FinishRecord \/ EndPump \/ Yield

(* Workers work, the event loop reads and runs what is scheduled, and      *)
(* callbacks return; the user need not do anything.                        *)
ContextFair ==
  /\ \A j \in Jobs : WF_contextVars(Work(j)) /\ WF_contextVars(Complete(j))
  /\ WF_contextVars(ReadByte) /\ WF_contextVars(StartPump) /\ WF_contextVars(Return)
  /\ WF_contextVars(Poll \/ FinishRecord \/ EndPump \/ Yield)

ContextSpec == ContextInit /\ [][ContextNext]_contextVars /\ ContextFair

(* What a worker may still read is anchored: the input of a job that is    *)
(* queued or runs is in an entry, or in the graveyard since a close.       *)
InputsAreAnchored ==
  \A j \in Jobs : state[j] \in {"queued", "running"} => j \in pending \cup graveyard

(* A callback is called once at most, and not at all once its entry was    *)
(* buried; an open context that has collected a completion owes the call   *)
(* or has made it, however its pumps are nested.                           *)
CalledOnce ==
  \A j \in Jobs :
    /\ calls[j] <= 1
    /\ j \in pending \cup graveyard => calls[j] = 0
    /\ open /\ state[j] # "new" /\ calls[j] = 0 => j \in pending

ContextInv == ContextTypeOK /\ InputsAreAnchored /\ CalledOnce

(* Every submitted job's callback is called, unless the context is closed. *)
CallbacksRun == \A j \in Jobs : (j \in pending) ~> (j \notin pending)
=============================================================================
