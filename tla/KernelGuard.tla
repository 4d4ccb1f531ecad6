----------------------------- MODULE KernelGuard ----------------------------
(***************************************************************************)
(* The process side of a kernel's life: the backend that starts kernels    *)
(* and stops them (core/src/kernel.rs), the guard process that stops them  *)
(* when the backend is gone, with the backend's record of it               *)
(* (core/src/guard.rs), and the operating system's process groups, whose   *)
(* ids are given again once a group is gone.                               *)
(*                                                                         *)
(* The functions on guard.rs's STATE hold its lock throughout, so each is  *)
(* one step; the pipe to the guard is a queue the guard reads at its pace. *)
(***************************************************************************)
EXTENDS Naturals, Sequences, FiniteSets

CONSTANTS Kernels,       \* kernel starts
          Blind,         \* those whose exit no thread could be started to watch
          Gids,          \* process group ids
          Recycling,     \* the choices for `recycles`
          MaxGuards,     \* bound: guard processes ever started
          PipeSize,      \* writes the pipe to a guard holds; then a write waits
          RespawnMax     \* guards started again per window (RESPAWN_MAX)

ASSUME GuardAssumption ==
  /\ Blind \subseteq Kernels
  /\ IsFiniteSet(Gids) /\ Gids \cap Kernels = {}
  /\ "none" \notin Gids /\ {"free", "other"} \cap Kernels = {}
  /\ Recycling \subseteq BOOLEAN
  /\ MaxGuards \in Nat /\ PipeSize \in Nat \ {0} /\ RespawnMax \in Nat

Guards == 1..MaxGuards
NoGuard == 0
NoGid == "none"
Free == "free"
Other == "other"        \* a process group the backend has nothing to do with

VARIABLES
  \* the operating system
  recycles,   \* whether it gives ids of gone groups again in this behaviour
  holder,     \* id -> the kernel start whose group has it, Other or Free
  gid,        \* kernel -> its group's id
  leader,     \* kernel -> its process
  members,    \* kernels with other processes in their group
  struck,     \* history: who sent a signal that reached a group not meant
  \* the backend
  backend,
  task,       \* kernel -> the task that owns its process: launch, then watch_exit
  keeper,     \* kernel -> what the holder of the Kernel value does with it
  killed,     \* kernels whose `killed` flag is set
  \* guard.rs, State
  started,    \* `dir` is set
  stdin,      \* the guard the pipe leads to, or NoGuard
  pid,        \* the guard it believes to run, or NoGuard
  groups,
  finishing,
  respawns,   \* length of `respawns`
  \* the guard processes
  guard,      \* guard -> its phase
  pipe,       \* guard -> writes not yet read, each of lines with one sign
  known       \* guard -> the groups registered with it

osVars == <<recycles, holder, gid, leader, members, struck>>
taskVars == <<task, keeper, killed>>
stateVars == <<started, stdin, pid, groups, finishing, respawns>>
guardVars == <<guard, pipe, known>>
vars == <<osVars, backend, taskVars, stateVars, guardVars>>

TaskPCs == {"none", "spawned", "starting", "abort", "abortReap", "abortUnregister", "failed",
            "watch", "kill", "signal", "reap", "unregister", "done", "lost"}
KeeperPCs == {"none", "held", "kill", "signal", "unregister", "drop", "gone"}

TypeOK ==
  /\ recycles \in BOOLEAN
  /\ holder \in [Gids -> Kernels \cup {Other, Free}]
  /\ gid \in [Kernels -> Gids \cup {NoGid}]
  /\ leader \in [Kernels -> {"none", "up", "zombie", "reaped"}]
  /\ members \subseteq Kernels
  /\ struck \subseteq {"guard", "finish", "register", "task", "blind task", "keeper"}
  /\ backend \in {"up", "ended", "crashed"}
  /\ task \in [Kernels -> TaskPCs] /\ keeper \in [Kernels -> KeeperPCs]
  /\ killed \subseteq Kernels
  /\ started \in BOOLEAN /\ finishing \in BOOLEAN
  /\ stdin \in Guards \cup {NoGuard} /\ pid \in Guards \cup {NoGuard}
  /\ groups \subseteq Gids
  /\ respawns \in 0..RespawnMax
  /\ guard \in [Guards -> {"none", "up", "ending", "done", "dead"}]
  /\ pipe \in [Guards -> Seq({"+", "-"} \X SUBSET Gids)]
  /\ known \in [Guards -> SUBSET Gids]

Init ==
  /\ recycles \in Recycling
  /\ holder = [g \in Gids |-> Free]
  /\ gid = [k \in Kernels |-> NoGid]
  /\ leader = [k \in Kernels |-> "none"]
  /\ members = {} /\ struck = {}
  /\ backend = "up"
  /\ task = [k \in Kernels |-> "none"]
  /\ keeper = [k \in Kernels |-> "none"]
  /\ killed = {}
  /\ started = FALSE /\ stdin = NoGuard /\ pid = NoGuard
  /\ groups = {} /\ finishing = FALSE /\ respawns = 0
  /\ guard = [g \in Guards |-> "none"]
  /\ pipe = [g \in Guards |-> <<>>]
  /\ known = [g \in Guards |-> {}]
-----------------------------------------------------------------------------
(* Process groups.  A group's id is taken until its leader is reaped and   *)
(* nothing else runs in it.                                                *)

Gone(k, l, m) == l[k] = "reaped" /\ k \notin m
HolderAfter(l, m) ==
  [g \in Gids |-> IF holder[g] \in Kernels /\ Gone(holder[g], l, m) THEN Free ELSE holder[g]]

(* SIGKILL to the groups gs, `who` meaning those of the kernels `meant`.   *)
Strike(gs, who, meant) ==
  LET hit == {k \in Kernels : \E g \in gs : holder[g] = k}
      l == [k \in Kernels |-> IF k \in hit /\ leader[k] = "up" THEN "zombie" ELSE leader[k]]
      m == members \ hit
      astray == \E g \in gs : holder[g] \notin meant \cup {Free}
      left == HolderAfter(l, m)
  IN /\ leader' = l /\ members' = m
     /\ holder' = [g \in Gids |-> IF g \in gs /\ holder[g] = Other THEN Free ELSE left[g]]
     /\ struck' = IF astray THEN struck \cup {who} ELSE struck
     /\ UNCHANGED <<recycles, gid>>

Reaped(k) ==
  /\ leader' = [leader EXCEPT ![k] = "reaped"]
  /\ holder' = HolderAfter(leader', members)
  /\ UNCHANGED <<recycles, gid, members, struck>>

(* A kernel ends by itself, or starts a process in its group, which ends.  *)
KernelExits(k) ==
  /\ leader[k] = "up"
  /\ leader' = [leader EXCEPT ![k] = "zombie"]
  /\ UNCHANGED <<recycles, holder, gid, members, struck, backend, taskVars, stateVars, guardVars>>

MemberStarts(k) ==
  /\ leader[k] = "up" /\ k \notin members
  /\ members' = members \cup {k}
  /\ UNCHANGED <<recycles, holder, gid, leader, struck, backend, taskVars, stateVars, guardVars>>

MemberEnds(k) ==
  /\ k \in members
  /\ members' = members \ {k}
  /\ holder' = HolderAfter(leader, members')
  /\ UNCHANGED <<recycles, gid, leader, struck, backend, taskVars, stateVars, guardVars>>

(* Some other program's group gets an id that was a kernel's.              *)
OtherStarts(g) ==
  /\ recycles /\ holder[g] = Free /\ \E k \in Kernels : gid[k] = g
  /\ holder' = [holder EXCEPT ![g] = Other]
  /\ UNCHANGED <<recycles, gid, leader, members, struck, backend, taskVars, stateVars, guardVars>>

OtherEnds(g) ==
  /\ holder[g] = Other
  /\ holder' = [holder EXCEPT ![g] = Free]
  /\ UNCHANGED <<recycles, gid, leader, members, struck, backend, taskVars, stateVars, guardVars>>

(* Once the backend is gone, init reaps what it left.                      *)
InitReaps(k) ==
  /\ backend # "up" /\ leader[k] = "zombie"
  /\ Reaped(k)
  /\ UNCHANGED <<backend, taskVars, stateVars, guardVars>>
-----------------------------------------------------------------------------
(* guard.rs, the backend side.                                             *)

(* State::send: to a guard that is gone the write fails and the pipe goes. *)
Send(sign, gs) ==
  IF stdin # NoGuard /\ guard[stdin] = "up"
  THEN /\ Len(pipe[stdin]) < PipeSize
       /\ pipe' = [pipe EXCEPT ![stdin] = Append(@, <<sign, gs>>)]
       /\ UNCHANGED stdin
  ELSE stdin' = NoGuard /\ UNCHANGED pipe

(* Mutant of SpawnGuard: the new guard is not given the current set.       *)
SpawnGuardEmpty(gs) ==
  \E g \in Guards :
    /\ guard[g] = "none" /\ \A h \in Guards : h < g => guard[h] # "none"
    /\ guard' = [guard EXCEPT ![g] = "up"]
    /\ stdin' = g /\ pid' = g
    /\ UNCHANGED pipe

(* spawn_locked, when it succeeds.                                         *)
SpawnGuard(gs) ==
  \E g \in Guards :
    /\ guard[g] = "none" /\ \A h \in Guards : h < g => guard[h] # "none"
    /\ guard' = [guard EXCEPT ![g] = "up"]
    /\ stdin' = g /\ pid' = g
    /\ pipe' = [pipe EXCEPT ![g] = IF gs = {} THEN <<>> ELSE << <<"+", gs>> >>]

(* The binary is not found, or the system starts no process.               *)
SpawnFails(p) == stdin' = NoGuard /\ pid' = p /\ UNCHANGED <<guard, pipe>>

MayRespawn == respawns < RespawnMax

(* start: the first kernel start.                                          *)
StartGuard ==
  /\ backend = "up" /\ ~finishing /\ ~started
  /\ started' = TRUE
  /\ SpawnGuard(groups) \/ SpawnFails(pid)
  /\ UNCHANGED <<osVars, backend, taskVars, groups, finishing, respawns, known>>

(* The window of 60 s has passed for every start counted.                  *)
WindowPasses ==
  /\ backend = "up" /\ respawns > 0
  /\ respawns' = 0
  /\ UNCHANGED <<osVars, backend, taskVars, started, stdin, pid, groups, finishing, guardVars>>

(* register_in, not finishing.                                             *)
RegisterIn(g) ==
  LET gs == groups \cup {g}
  IN /\ groups' = gs
     /\ \/ /\ g \in groups
           /\ UNCHANGED <<stdin, pid, respawns, guard, pipe>>
        \/ /\ g \notin groups /\ stdin # NoGuard
           /\ Send("+", {g})
           /\ UNCHANGED <<pid, respawns, guard>>
        \/ /\ g \notin groups /\ stdin = NoGuard /\ started /\ MayRespawn
           /\ respawns' = respawns + 1
           /\ SpawnGuard(gs) \/ SpawnFails(pid)
        \/ /\ g \notin groups /\ stdin = NoGuard /\ ~(started /\ MayRespawn)
           /\ UNCHANGED <<stdin, pid, respawns, guard, pipe>>

UnregisterIn(g) ==
  /\ groups' = groups \ {g}
  /\ IF g \in groups THEN Send("-", {g}) ELSE UNCHANGED <<stdin, pipe>>
  /\ UNCHANGED <<started, pid, finishing, respawns, guard, known>>

(* on_exit_in: the thread that waits for guard g saw it end.               *)
OnGuardExit(g) ==
  /\ backend = "up" /\ guard[g] \in {"done", "dead"}
  /\ pid = g /\ ~finishing
  /\ \/ /\ MayRespawn
        /\ respawns' = respawns + 1
        /\ SpawnGuard(groups) \/ SpawnFails(NoGuard)
     \/ /\ ~MayRespawn
        /\ SpawnFails(NoGuard) /\ UNCHANGED respawns
  /\ UNCHANGED <<osVars, backend, taskVars, started, groups, finishing, known>>

(* finish_in: the clean exit stops what is registered and closes the pipe. *)
Finish ==
  /\ backend = "up" /\ ~finishing
  /\ finishing' = TRUE /\ groups' = {}
  /\ Strike(groups, "finish", Kernels)
  /\ stdin' = NoGuard
  /\ IF groups # {} /\ stdin # NoGuard /\ guard[stdin] = "up"
     THEN /\ Len(pipe[stdin]) < PipeSize
          /\ pipe' = [pipe EXCEPT ![stdin] = Append(@, <<"-", groups>>)]
     ELSE UNCHANGED pipe
  /\ UNCHANGED <<backend, taskVars, started, pid, respawns, guard, known>>
-----------------------------------------------------------------------------
(* kernel.rs: a start, launch_once.                                        *)

Owner(k) == IF k \in Blind THEN "blind task" ELSE "task"
Move(k, l) == task' = [task EXCEPT ![k] = l]
At(k, from, to) == backend = "up" /\ task[k] = from /\ Move(k, to)

(* The spawn; the system picks a free id.  The first start publishes the   *)
(* runtime and then starts the guard, so another may spawn in between.     *)
Spawn(k) ==
  /\ At(k, "none", "spawned")
  /\ \E g \in Gids :
       /\ holder[g] = Free /\ (recycles \/ \A j \in Kernels : gid[j] # g)
       /\ holder' = [holder EXCEPT ![g] = k]
       /\ gid' = [gid EXCEPT ![k] = g]
  /\ leader' = [leader EXCEPT ![k] = "up"]
  /\ UNCHANGED <<recycles, members, struck, backend, keeper, killed, stateVars, guardVars>>

(* Mutant of Register: a start during the exit is not stopped.             *)
RegisterWhileFinishing(k) ==
  /\ At(k, "spawned", "starting")
  /\ RegisterIn(gid[k])
  /\ UNCHANGED <<osVars, backend, keeper, killed, started, finishing, known>>

Register(k) ==
  /\ At(k, "spawned", "starting")
  /\ \/ /\ finishing
        /\ Strike({gid[k]}, "register", {k})
        /\ UNCHANGED <<stdin, pid, groups, respawns, guard, pipe>>
     \/ /\ ~finishing
        /\ RegisterIn(gid[k])
        /\ UNCHANGED osVars
  /\ UNCHANGED <<backend, keeper, killed, started, finishing, known>>

(* The start succeeded: a task watches the process, a caller has the Kernel. *)
Launched(k) ==
  /\ At(k, "starting", "watch")
  /\ keeper' = [keeper EXCEPT ![k] = "held"]
  /\ UNCHANGED <<osVars, backend, killed, stateVars, guardVars>>

(* The start failed, and the exit that ended it may have been seen by      *)
(* reaping; abort has a `killed` flag of its own.                          *)
StartFails(k) ==
  /\ At(k, "starting", "abort")
  /\ IF k \in Blind /\ leader[k] = "zombie" THEN Reaped(k) ELSE UNCHANGED osVars
  /\ UNCHANGED <<backend, keeper, killed, stateVars, guardVars>>

AbortKill(k) ==
  /\ At(k, "abort", "abortReap")
  /\ Strike({gid[k]}, Owner(k), {k})
  /\ UNCHANGED <<backend, keeper, killed, stateVars, guardVars>>

AbortReap(k) ==
  /\ At(k, "abortReap", "abortUnregister")
  /\ Reaped(k) \/ UNCHANGED osVars      \* not within 2 s
  /\ UNCHANGED <<backend, keeper, killed, stateVars, guardVars>>

AbortUnregister(k) ==
  /\ At(k, "abortUnregister", "failed")
  /\ UnregisterIn(gid[k])
  /\ UNCHANGED <<osVars, backend, keeper, killed>>
-----------------------------------------------------------------------------
(* kernel.rs: watch_exit, the task that owns a running kernel's process.   *)

(* Mutant of SeeExit: the process is reaped before its group is signalled. *)
SeeExitByReaping(k) ==
  /\ leader[k] # "up"
  /\ At(k, "watch", "kill")
  /\ Reaped(k)
  /\ UNCHANGED <<backend, keeper, killed, stateVars, guardVars>>

(* The exit is seen, by a thread that leaves the process unreaped or, with *)
(* no such thread, by reaping it.                                          *)
SeeExit(k) ==
  /\ leader[k] # "up"
  /\ At(k, "watch", "kill")
  /\ IF k \in Blind THEN Reaped(k) ELSE UNCHANGED osVars
  /\ UNCHANGED <<backend, keeper, killed, stateVars, guardVars>>

(* Mutant of WatchKill: the rest of the group is left running.             *)
WatchKillNothing(k) ==
  /\ At(k, "kill", "reap")
  /\ killed' = killed \cup {k}
  /\ UNCHANGED <<osVars, backend, keeper, stateVars, guardVars>>

(* kill_group_once: the flag is swapped, then the first to swap it signals. *)
WatchKill(k) ==
  /\ At(k, "kill", IF k \in killed THEN "reap" ELSE "signal")
  /\ killed' = killed \cup {k}
  /\ UNCHANGED <<osVars, backend, keeper, stateVars, guardVars>>

WatchSignal(k) ==
  /\ At(k, "signal", "reap")
  /\ Strike({gid[k]}, Owner(k), {k})
  /\ UNCHANGED <<backend, keeper, killed, stateVars, guardVars>>

WatchReap(k) ==
  /\ At(k, "reap", "unregister")
  /\ Reaped(k)
  /\ UNCHANGED <<backend, keeper, killed, stateVars, guardVars>>

WatchUnregister(k) ==
  /\ At(k, "unregister", "done")
  /\ UnregisterIn(gid[k])
  /\ UNCHANGED <<osVars, backend, keeper, killed>>
-----------------------------------------------------------------------------
(* kernel.rs: Kernel::kill and the drop of a Kernel, by whoever holds it.  *)

Keep(k, from, to) ==
  backend = "up" /\ keeper[k] = from /\ keeper' = [keeper EXCEPT ![k] = to]

(* The kernel is to be killed, or its last holder lets go of it.           *)
Stop(k) ==
  /\ Keep(k, "held", "kill")
  /\ UNCHANGED <<osVars, backend, task, killed, stateVars, guardVars>>

KillOnce(k) ==
  /\ Keep(k, "kill", IF k \in killed THEN "unregister" ELSE "signal")
  /\ killed' = killed \cup {k}
  /\ UNCHANGED <<osVars, backend, task, stateVars, guardVars>>

KillSignal(k) ==
  /\ Keep(k, "signal", "unregister")
  /\ Strike({gid[k]}, "keeper", {k})
  /\ UNCHANGED <<backend, task, killed, stateVars, guardVars>>

(* The exit was reported, or kill waited its 5 s, so at any time: a stop   *)
(* goes on to drop the kernel, the exit's kill leaves it in its session,   *)
(* and a drop alone does the same steps as kill and is over.               *)
KillUnregister(k) ==
  /\ Keep(k, "unregister", "drop") \/ Keep(k, "unregister", "held") \/ Keep(k, "unregister", "gone")
  /\ UnregisterIn(gid[k])
  /\ UNCHANGED <<osVars, backend, task, killed>>

(* The drop after kill: the flag is set, the registration goes once more.  *)
DropUnregister(k) ==
  /\ Keep(k, "drop", "gone")
  /\ UnregisterIn(gid[k])
  /\ UNCHANGED <<osVars, backend, task, killed>>
-----------------------------------------------------------------------------
(* The backend's end, and with it its tasks' and its memory's.  A clean    *)
(* one waits for a thread between a spawn and its registration, or between *)
(* swapping `killed` and signalling: no await divides those.               *)

SignalDue(k) == task[k] = "signal" \/ keeper[k] = "signal"

Vanish ==
  /\ task' = [k \in Kernels |-> "lost"]
  /\ keeper' = [k \in Kernels |-> "none"]
  /\ killed' = {} /\ pid' = NoGuard /\ respawns' = 0
  /\ UNCHANGED <<osVars, started, stdin, groups, finishing, guardVars>>

BackendEnds ==
  /\ backend = "up" /\ finishing
  /\ \A k \in Kernels : task[k] # "spawned" /\ ~SignalDue(k)
  /\ backend' = "ended"
  /\ Vanish

BackendCrashes ==
  /\ backend = "up"
  /\ backend' = "crashed"
  /\ Vanish
-----------------------------------------------------------------------------
(* guard.rs, the guard process: serve.                                     *)

GuardReads(g) ==
  /\ guard[g] = "up" /\ pipe[g] # <<>>
  /\ pipe' = [pipe EXCEPT ![g] = Tail(@)]
  /\ known' = [known EXCEPT ![g] = IF Head(pipe[g])[1] = "+" THEN @ \cup Head(pipe[g])[2]
                                   ELSE @ \ Head(pipe[g])[2]]
  /\ UNCHANGED <<osVars, backend, taskVars, stateVars, guard>>

(* End of input: the backend closed the pipe or is gone.                   *)
GuardSeesEnd(g) ==
  /\ guard[g] = "up" /\ pipe[g] = <<>>
  /\ backend # "up" \/ stdin # g
  /\ guard' = [guard EXCEPT ![g] = "ending"]
  /\ UNCHANGED <<osVars, backend, taskVars, stateVars, pipe, known>>

GuardLeaves(g, how) ==
  /\ guard' = [guard EXCEPT ![g] = how]
  /\ pipe' = [pipe EXCEPT ![g] = <<>>] /\ known' = [known EXCEPT ![g] = {}]
  /\ UNCHANGED <<backend, taskVars, stateVars>>

GuardKills(g) ==
  /\ guard[g] = "ending" /\ GuardLeaves(g, "done")
  /\ Strike(known[g], "guard", Kernels)

(* A signal ends a guard, which then stops nothing.                        *)
GuardDies(g) ==
  /\ guard[g] \in {"up", "ending"} /\ GuardLeaves(g, "dead")
  /\ UNCHANGED osVars
-----------------------------------------------------------------------------
SystemStep ==
  \/ \E k \in Kernels : KernelExits(k) \/ MemberStarts(k) \/ MemberEnds(k) \/ InitReaps(k)
  \/ \E g \in Gids : OtherStarts(g) \/ OtherEnds(g)

BackendStep ==
  \/ StartGuard \/ WindowPasses \/ Finish \/ BackendEnds \/ BackendCrashes
  \/ \E g \in Guards : OnGuardExit(g)

StartStep(k) ==
  Spawn(k) \/ Register(k) \/ Launched(k) \/ StartFails(k) \/ AbortKill(k) \/ AbortReap(k)
  \/ AbortUnregister(k)

WatchStep(k) ==
  SeeExit(k) \/ WatchKill(k) \/ WatchSignal(k) \/ WatchReap(k) \/ WatchUnregister(k)

KeeperStep(k) ==
  Stop(k) \/ KillOnce(k) \/ KillSignal(k) \/ KillUnregister(k) \/ DropUnregister(k)

GuardStep(g) == GuardReads(g) \/ GuardSeesEnd(g) \/ GuardKills(g)

Next ==
  \/ SystemStep
  \/ BackendStep
  \/ \E k \in Kernels : StartStep(k) \/ WatchStep(k) \/ KeeperStep(k)
  \/ \E g \in Guards : GuardStep(g) \/ GuardDies(g)

Spec == Init /\ [][Next]_vars
-----------------------------------------------------------------------------
Alive(k) == leader[k] = "up" \/ k \in members

(* What a guard that knows ks will know once it has read the lines: what   *)
(* the last line that names it registers, or it knows and no line names.   *)
Names(line, x) == x \in line[2]
AfterReading(ks, lines) ==
  {x \in Gids :
    \/ x \in ks /\ \A i \in 1..Len(lines) : ~Names(lines[i], x)
    \/ \E i \in 1..Len(lines) :
         /\ lines[i][1] = "+" /\ Names(lines[i], x)
         /\ \A j \in i+1..Len(lines) : ~Names(lines[j], x)}

Replayed(g) == AfterReading(known[g], pipe[g])

(* The running guard's set, once it has read what was written, is the      *)
(* backend's: through kernels coming and going, guards that die, and new   *)
(* ones started from an exit or from a registration.                       *)
GuardKnowsGroups ==
  stdin # NoGuard /\ guard[stdin] = "up" => Replayed(stdin) = groups

(* A kernel whose start was registered stays registered for as long as     *)
(* anything runs in its group, or a signal to the group is on its way.     *)
AliveIsRegistered ==
  ~finishing =>
    \A k \in Kernels :
      task[k] \notin {"none", "spawned", "lost"} /\ Alive(k) /\ ~SignalDue(k) => gid[k] \in groups

(* The same, where ids are not given again.                                *)
AliveIsRegisteredFresh == ~recycles => AliveIsRegistered

(* The guard, the backend's set and the groups that run agree.             *)
GuardKnows == GuardKnowsGroups /\ AliveIsRegisteredFresh

(* When a kernel's process is reaped, whatever else ran in its group is    *)
(* gone or about to get the signal.                                        *)
GroupEndsWithLeader ==
  \A k \in Kernels :
    task[k] \in {"unregister", "done", "failed"} /\ k \in members => SignalDue(k)

(* The variables keep their types, the respawns within their limit, and a  *)
(* kernel's group does not outlive it.                                     *)
GuardInv == TypeOK /\ GroupEndsWithLeader

(* Signalling before reaping: the task that owns a process never signals a *)
(* group that took over the id (kernel.rs, Leader); one that could only    *)
(* see the exit by reaping may.                                            *)
TaskStrikesItsOwn == "task" \notin struck

(* No kernel outlives a clean exit of the backend.                         *)
NoneOutlivesExit ==
  ~recycles /\ backend = "ended" =>
    \A k \in Kernels : ~Alive(k)

(* A guard that ran to its end after the backend's crash left no           *)
(* registered group running.                                               *)
GuardStopsAll ==
  backend = "crashed" /\ ~finishing /\ stdin # NoGuard /\ guard[stdin] = "done" =>
    \A k \in Kernels : gid[k] \in groups => ~Alive(k)

(* Nothing outlives the backend, whichever way it ends.                    *)
NothingOutlives == NoneOutlivesExit /\ GuardStopsAll
-----------------------------------------------------------------------------
(* What comments of kernel.rs say, and the code does not keep where ids    *)
(* are given again.                                                        *)

(* watch_exit unregisters a group "so the guard never signals a group id   *)
(* that may be reused": while a kernel is watched, a guard told of its id  *)
(* would not signal another group, were the backend to crash now.  The     *)
(* process is reaped before its id is unregistered.                        *)
WatchedIdIsNotReused ==
  \A k \in Kernels :
    /\ task[k] \in {"watch", "kill", "signal", "reap", "unregister"}
    /\ stdin # NoGuard /\ guard[stdin] = "up" /\ gid[k] \in Replayed(stdin)
    => holder[gid[k]] # Other

(* Drop says "each step happens once, so after kill() this does nothing":  *)
(* the drop that follows a kill leaves the registrations as they are.      *)
DropAfterKillDoesNothing ==
  [][\A k \in Kernels : keeper[k] = "drop" /\ keeper'[k] = "gone" => groups' = groups]_vars
=============================================================================
