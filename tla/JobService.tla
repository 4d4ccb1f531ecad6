----------------------------- MODULE JobService -----------------------------
(***************************************************************************)
(* What the worker pool of libjupynvim promises its caller, without        *)
(* threads, locks, lanes or wake bytes: a job that was submitted is either *)
(* run by one worker or cancelled before it ran, its one completion is     *)
(* collected in completion order, and closing drops every job that is      *)
(* still queued.  WorkerPool implements this (core/native/src/pool.rs).    *)
(***************************************************************************)
EXTENDS Naturals, Sequences, SequencesExt

CONSTANTS Jobs,     \* job ids
          Batch     \* the most completions one poll hands over

VARIABLES state,    \* where each job is
          completed, \* completions not yet collected, oldest first
          collected, \* every completion handed to the caller, in order
          open      \* FALSE once the service is closed

vars == <<state, completed, collected, open>>

States == {"new", "queued", "running", "withdrawn", "ended", "dropped"}
Outcomes == {"ok", "cancelled"}
Completions == [job : Jobs, status : Outcomes]

TypeOK ==
  /\ state \in [Jobs -> States]
  /\ completed \in Seq(Completions)
  /\ collected \in Seq(Completions)
  /\ open \in BOOLEAN

Init ==
  /\ state = [j \in Jobs |-> "new"]
  /\ completed = <<>>
  /\ collected = <<>>
  /\ open = TRUE

(* A submit that was already past its check when the service closed leaves *)
(* its job where nobody takes it.                                          *)
Submit(j) ==
  /\ state[j] = "new"
  /\ state' = [state EXCEPT ![j] = IF open THEN "queued" ELSE "dropped"]
  /\ UNCHANGED <<completed, collected, open>>

Start(j) ==
  /\ open
  /\ state[j] = "queued"
  /\ state' = [state EXCEPT ![j] = "running"]
  /\ UNCHANGED <<completed, collected, open>>

(* Cancelling a queued job takes it out of the queue for good.             *)
Withdraw(j) ==
  /\ open
  /\ state[j] = "queued"
  /\ state' = [state EXCEPT ![j] = "withdrawn"]
  /\ UNCHANGED <<completed, collected, open>>

(* The one completion of a job: a withdrawn job's says "cancelled", a job  *)
(* that ran may say either (it may have seen its cancel flag).             *)
Complete(j, status) ==
  /\ \/ state[j] = "running"
     \/ state[j] = "withdrawn" /\ status = "cancelled"
  /\ state' = [state EXCEPT ![j] = "ended"]
  /\ completed' = Append(completed, [job |-> j, status |-> status])
  /\ UNCHANGED <<collected, open>>

(* A poll takes the oldest completions, as many as the batch holds.        *)
Poll ==
  LET n == IF Len(completed) < Batch THEN Len(completed) ELSE Batch
  IN /\ completed # <<>>
     /\ collected' = collected \o SubSeq(completed, 1, n)
     /\ completed' = SubSeq(completed, n + 1, Len(completed))
     /\ UNCHANGED <<state, open>>

Close ==
  /\ open
  /\ open' = FALSE
  /\ state' = [j \in Jobs |-> IF state[j] = "queued" THEN "dropped" ELSE state[j]]
  /\ UNCHANGED <<completed, collected>>

Next ==
  \/ \E j \in Jobs : Submit(j) \/ Start(j) \/ Withdraw(j)
  \/ \E j \in Jobs, status \in Outcomes : Complete(j, status)
  \/ Poll
  \/ Close

Spec == Init /\ [][Next]_vars
-----------------------------------------------------------------------------
(* No job completes twice, and only a job that ended has a completion: the *)
(* caller frees what a job reads when it collects the completion.          *)
EachJobEndsOnce ==
  LET all == collected \o completed
  IN /\ \A a, b \in 1..Len(all) : all[a].job = all[b].job => a = b
     /\ \A j \in Jobs : state[j] = "ended" <=> \E a \in 1..Len(all) : all[a].job = j
=============================================================================
