---------------------------- MODULE KernelLaunch ----------------------------
(***************************************************************************)
(* One start of a kernel (core/src/kernel.rs, launch to abort): the        *)
(* attempts, the ports a kernel binds and writes back or is given, the     *)
(* connection file (core/src/connfile.rs, KernelDir), the sockets, and the *)
(* end of an attempt that failed.  The kernel and the other programs of    *)
(* the machine, which may take its ports, are the environment.             *)
(*                                                                         *)
(* A port is named by the role it has in the attempt it was chosen for:    *)
(* the ports of an attempt are distinct and new (reserve_ports, pick_held  *)
(* hold them all until the last is made; so does a kernel that binds its   *)
(* own).                                                                   *)
(***************************************************************************)
EXTENDS Naturals, Sequences, FiniteSets, SequencesExt

CONSTANTS
  Modes,         \* PortMode: "KernelBinds", "Reserved"
  Attempts,      \* RESERVED_ATTEMPTS
  MaxThefts,     \* bound: ports other programs take in an attempt
  OthersStay,    \* a program that took a port keeps it while the start runs
  EarlyFailures  \* whether a step before the spawn may fail

ASSUME LaunchAssumption ==
  /\ Modes \subseteq {"KernelBinds", "Reserved"} /\ Modes # {}
  /\ Attempts \in Nat \ {0} /\ MaxThefts \in Nat
  /\ {OthersStay, EarlyFailures} \subseteq BOOLEAN

Connected == <<"shell", "control", "iopub">>  \* the order of connect_all
Roles == ToSet(Connected) \cup {"hb"}         \* hb and stdin are never connected
Peers == {"none", "us", "kernel", "other"}

VARIABLES
  mode,    \* of the kernelspec
  attempt,
  pc,      \* of launch_once
  open,    \* wait_open: roles whose port accepted a connection
  sock,    \* connect_all: role -> its socket's peer
  stop,    \* Stop: why the start ends: "exited", "failed", "late"
  tail,    \* the kept stderr has "address in use"
  dir,     \* the kernel dir is there
  grouped, \* the group is registered with the guard
  connFile, \* connection file: "none", "ours", "cut" in a write, "back" with the kernel's ports
  \* the machine
  kernel,  \* its process: "none", "up", "exited"
  cause,   \* why it exited: "refused" a port, "crash", "killed"
  bound,   \* roles it has bound
  reuse,   \* its sockets set SO_REUSEADDR
  said,    \* it wrote "address in use" on stderr
  owner,   \* role -> who listens on its port
  timeWaits, \* roles whose ports are in TIME_WAIT
  thefts   \* (bound) ports taken in this attempt

ours == <<mode, attempt, pc, open, sock, stop, tail, dir, grouped>>
machine == <<kernel, cause, bound, reuse, said, owner, timeWaits, thefts>>
launchVars == <<ours, connFile, machine>>

PCs == {"dir", "ports", "write", "spawn", "written", "open", "connect", "ask", "answer",
        "abort", "unregister", "stderr", "ok", "err"}

LaunchTypeOK ==
  /\ mode \in Modes /\ attempt \in 1 .. Attempts /\ pc \in PCs
  /\ open \subseteq ToSet(Connected)
  /\ sock \in [ToSet(Connected) -> {"none", "kernel", "other"}]
  /\ stop \in {"none", "exited", "failed", "late"}
  /\ {tail, dir, grouped, reuse, said} \subseteq BOOLEAN
  /\ connFile \in {"none", "ours", "cut", "back"}
  /\ kernel \in {"none", "up", "exited"} /\ cause \in {"none", "refused", "crash", "killed"}
  /\ bound \subseteq Roles /\ owner \in [Roles -> Peers] /\ timeWaits \subseteq Roles
  /\ thefts \in 0 .. MaxThefts

NoSocks == [r \in ToSet(Connected) |-> "none"]
Nobody == [r \in Roles |-> "none"]

LaunchInit ==
  /\ mode \in Modes /\ attempt = 1 /\ pc = "dir"
  /\ open = {} /\ sock = NoSocks /\ stop = "none" /\ tail = FALSE
  /\ dir = FALSE /\ grouped = FALSE /\ connFile = "none"
  /\ kernel = "none" /\ cause = "none" /\ bound = {} /\ reuse \in BOOLEAN
  /\ said = FALSE /\ owner = Nobody /\ timeWaits = {} /\ thefts = 0
-----------------------------------------------------------------------------
(* Before the spawn.                                                       *)

NewKernelDir ==
  /\ pc = "dir"
  /\ dir' = TRUE /\ pc' = "ports"
  /\ UNCHANGED <<mode, attempt, open, sock, stop, tail, grouped, connFile, machine>>

(* Ports 0; or ports left in TIME_WAIT; or, at the last attempts, ports    *)
(* held with a listener each.                                              *)
ChoosePorts ==
  /\ pc = "ports"
  /\ \/ mode = "KernelBinds" /\ UNCHANGED <<owner, timeWaits>>
     \/ mode = "Reserved" /\ attempt <= 2 /\ timeWaits' = Roles /\ UNCHANGED owner
     \/ /\ mode = "Reserved" /\ attempt > 2
        /\ owner' = [r \in Roles |-> "us"] /\ UNCHANGED timeWaits
  /\ pc' = "write"
  /\ UNCHANGED <<mode, attempt, open, sock, stop, tail, dir, grouped, connFile, kernel, cause,
                 bound, reuse, said, thefts>>

WriteConnection ==
  /\ pc = "write"
  /\ connFile' = "ours" /\ pc' = "spawn"
  /\ UNCHANGED <<mode, attempt, open, sock, stop, tail, dir, grouped, machine>>

(* The held ports are let go, the process is started, and its group        *)
(* registered.                                                             *)
Spawn ==
  /\ pc = "spawn"
  /\ owner' = [r \in Roles |-> IF owner[r] = "us" THEN "none" ELSE owner[r]]
  /\ kernel' = "up" /\ grouped' = TRUE
  /\ pc' = IF mode = "KernelBinds" THEN "written" ELSE "open"
  /\ UNCHANGED <<mode, attempt, open, sock, stop, tail, dir, connFile, cause, bound, reuse, said,
                 timeWaits, thefts>>

(* Any of these fails: launch_once returns, which drops the KernelDir.     *)
FailsEarly ==
  /\ EarlyFailures /\ pc \in {"dir", "ports", "write", "spawn"}
  /\ pc' = "err" /\ dir' = FALSE /\ connFile' = "none"
  /\ owner' = [r \in Roles |-> IF owner[r] = "us" THEN "none" ELSE owner[r]]
  /\ UNCHANGED <<mode, attempt, open, sock, stop, tail, grouped, kernel, cause, bound, reuse, said,
                 timeWaits, thefts>>
-----------------------------------------------------------------------------
(* bring_up.                                                               *)

InBringUp == pc \in {"written", "open", "connect", "ask", "answer"}

(* read_written_back: Some only for a whole file with every port set.      *)
WrittenBack == connFile = "back"

(* The new sockets of connect_all.                                         *)
ReadWrittenBack ==
  /\ pc = "written" /\ WrittenBack
  /\ pc' = "connect" /\ sock' = NoSocks
  /\ UNCHANGED <<mode, attempt, open, stop, tail, dir, grouped, connFile, machine>>

(* wait_open: a port counts as open once anything accepted on it.          *)
Probe ==
  /\ pc = "open"
  /\ \E rs \in SUBSET {r \in ToSet(Connected) \ open : owner[r] # "none"} :
       /\ rs # {}
       /\ open' = open \cup rs
       /\ IF open' = ToSet(Connected) THEN pc' = "connect" /\ sock' = NoSocks
          ELSE UNCHANGED <<pc, sock>>
  /\ UNCHANGED <<mode, attempt, stop, tail, dir, grouped, connFile, machine>>

(* The first of the order with no socket connected yet.                    *)
IsNext(i) ==
  /\ sock[Connected[i]] = "none"
  /\ \A j \in 1..i-1 : sock[Connected[j]] # "none"

(* connect_one: whoever listens is the peer.                               *)
Connect ==
  /\ pc = "connect"
  /\ \E i \in DOMAIN Connected :
       /\ IsNext(i) /\ owner[Connected[i]] \in {"kernel", "other"}
       /\ sock' = [sock EXCEPT ![Connected[i]] = owner[Connected[i]]]
       /\ pc' = IF i < Len(Connected) THEN pc ELSE IF mode = "Reserved" THEN "ask" ELSE "ok"
  /\ UNCHANGED <<mode, attempt, open, stop, tail, dir, grouped, connFile, machine>>

StopFor(why) ==
  /\ stop' = why /\ pc' = "abort"
  /\ UNCHANGED <<open, sock>>

(* Mutant of Missed: a failed connect ends the start.                      *)
MissedOnce == StopFor("failed")

(* Reserved ports are probed and connected again.                          *)
Missed ==
  IF mode = "KernelBinds" THEN StopFor("failed")
  ELSE pc' = "open" /\ open' = {} /\ UNCHANGED <<sock, stop>>

(* A connect fails, or takes longer than CONNECT_TIMEOUT: nobody listens,  *)
(* or a program that does not speak ZMTP.                                  *)
ConnectFails ==
  /\ pc = "connect"
  /\ \E i \in DOMAIN Connected : IsNext(i) /\ owner[Connected[i]] # "kernel"
  /\ Missed
  /\ UNCHANGED <<mode, attempt, tail, dir, grouped, connFile, machine>>

(* kernel_info_handshake: the request goes to the peer of the shell        *)
(* socket; a send to one that went is an error, which ends the start.      *)
AskKernelInfo ==
  /\ pc = "ask"
  /\ \/ owner["shell"] = sock["shell"] /\ pc' = "answer" /\ UNCHANGED <<open, sock, stop>>
     \/ owner["shell"] # sock["shell"] /\ StopFor("failed")
  /\ UNCHANGED <<mode, attempt, tail, dir, grouped, connFile, machine>>

(* Mutant of Answers: any reply on shell counts.                           *)
AnswersAnyone == sock["shell"] = "other" \/ bound = Roles

(* A reply signed with the connection's key; what another program sends is *)
(* skipped.  A kernel answers once it has bound its ports.                 *)
Answers == sock["shell"] = "kernel" /\ kernel = "up" /\ bound = Roles

KernelInfo ==
  /\ pc = "answer" /\ Answers
  /\ pc' = "ok"
  /\ UNCHANGED <<mode, attempt, open, sock, stop, tail, dir, grouped, connFile, machine>>

(* The process has exited (seen at any wait).                              *)
SeesExit ==
  /\ InBringUp /\ kernel = "exited"
  /\ StopFor("exited")
  /\ UNCHANGED <<mode, attempt, tail, dir, grouped, connFile, machine>>

(* Mutant of Bounded: the wait for the answer has no deadline.             *)
BoundedButAnswer == pc # "answer"

Bounded == TRUE

(* The deadline, START_TIMEOUT after the spawn, at any wait.               *)
Late ==
  /\ InBringUp /\ Bounded
  /\ StopFor("late")
  /\ UNCHANGED <<mode, attempt, tail, dir, grouped, connFile, machine>>
-----------------------------------------------------------------------------
(* abort, and the next attempt.                                            *)

LetGo == [r \in Roles |-> IF owner[r] = "kernel" THEN "none" ELSE owner[r]]

KillGroup ==
  IF kernel = "up" THEN kernel' = "exited" /\ cause' = "killed" /\ bound' = {} /\ owner' = LetGo
  ELSE UNCHANGED <<kernel, cause, bound, owner>>

(* The group is stopped and the process reaped.                            *)
AbortKill ==
  /\ pc = "abort"
  /\ KillGroup
  /\ pc' = "unregister"
  /\ UNCHANGED <<mode, attempt, open, sock, stop, tail, dir, grouped, connFile, reuse, said,
                 timeWaits, thefts>>

AbortUnregister ==
  /\ pc = "unregister"
  /\ grouped' = FALSE /\ dir' = FALSE /\ connFile' = "none" /\ pc' = "stderr"
  /\ UNCHANGED <<mode, attempt, open, sock, stop, tail, machine>>

(* drain_pipe: what the kernel wrote on stderr is kept.                    *)
Drain ==
  /\ InBringUp \/ pc \in {"abort", "unregister", "stderr"}
  /\ tail # said /\ tail' = said
  /\ UNCHANGED <<mode, attempt, pc, open, sock, stop, dir, grouped, connFile, machine>>

(* The stderr was read to its end, or for 1 s, in which what was written   *)
(* is read.                                                                *)
TailRead == tail = said

Retried == tail /\ mode = "Reserved" /\ attempt < Attempts

(* classify, and launch's loop: an address in use is tried again with new  *)
(* ports.                                                                  *)
Retry ==
  /\ pc = "stderr" /\ TailRead /\ Retried
  /\ attempt' = attempt + 1 /\ pc' = "dir"
  /\ open' = {} /\ sock' = NoSocks /\ stop' = "none" /\ tail' = FALSE
  /\ kernel' = "none" /\ cause' = "none" /\ bound' = {} /\ said' = FALSE
  /\ owner' = Nobody /\ timeWaits' = {} /\ thefts' = 0
  /\ UNCHANGED <<mode, dir, grouped, connFile, reuse>>

GiveUp ==
  /\ pc = "stderr" /\ TailRead /\ ~Retried
  /\ pc' = "err"
  /\ UNCHANGED <<mode, attempt, open, sock, stop, tail, dir, grouped, connFile, machine>>
-----------------------------------------------------------------------------
(* The kernel: it binds its ports, and writes them back or exits with an   *)
(* address in use.                                                         *)

Bindable(r) == owner[r] = "none" /\ (r \in timeWaits => reuse)

KernelBindsPort(r) ==
  /\ kernel = "up" /\ r \notin bound /\ Bindable(r)
  /\ bound' = bound \cup {r} /\ owner' = [owner EXCEPT ![r] = "kernel"]
  /\ UNCHANGED <<ours, connFile, kernel, cause, reuse, said, timeWaits, thefts>>

KernelRefused(r) ==
  /\ kernel = "up" /\ mode = "Reserved" /\ r \notin bound /\ ~Bindable(r)
  /\ kernel' = "exited" /\ cause' = "refused" /\ said' = TRUE
  /\ bound' = {} /\ owner' = LetGo
  /\ UNCHANGED <<ours, connFile, reuse, timeWaits, thefts>>

KernelWritesBack ==
  /\ kernel = "up" /\ mode = "KernelBinds" /\ bound = Roles
  /\ \/ connFile = "ours" /\ connFile' = "cut"
     \/ connFile = "cut" /\ connFile' = "back"
  /\ UNCHANGED <<ours, machine>>

KernelCrashes ==
  /\ kernel = "up"
  /\ kernel' = "exited" /\ cause' = "crash" /\ said' \in BOOLEAN
  /\ bound' = {} /\ owner' = LetGo
  /\ UNCHANGED <<ours, connFile, reuse, timeWaits, thefts>>

(* Other programs: one takes a port nobody listens on (in TIME_WAIT only   *)
(* by asking for it with SO_REUSEADDR), or leaves it.                      *)
Named == pc \notin {"dir", "ports"} /\ (mode = "KernelBinds" => connFile = "back")

OtherTakes(r) ==
  /\ Named /\ owner[r] = "none" /\ thefts < MaxThefts
  /\ owner' = [owner EXCEPT ![r] = "other"] /\ thefts' = thefts + 1
  /\ UNCHANGED <<ours, connFile, kernel, cause, bound, reuse, said, timeWaits>>

OtherLeaves(r) ==
  /\ owner[r] = "other" /\ (OthersStay => pc \in {"ok", "err"})
  /\ owner' = [owner EXCEPT ![r] = "none"]
  /\ UNCHANGED <<ours, connFile, kernel, cause, bound, reuse, said, timeWaits, thefts>>

TimeWaitEnds(r) ==
  /\ r \in timeWaits
  /\ timeWaits' = timeWaits \ {r}
  /\ UNCHANGED <<ours, connFile, kernel, cause, bound, reuse, said, owner, thefts>>
-----------------------------------------------------------------------------
Launch ==
  \/ NewKernelDir \/ ChoosePorts \/ WriteConnection \/ Spawn \/ FailsEarly
  \/ ReadWrittenBack \/ Probe \/ Connect \/ ConnectFails \/ AskKernelInfo \/ KernelInfo \/ SeesExit \/ Late
  \/ AbortKill \/ AbortUnregister \/ Retry \/ GiveUp

Machine ==
  \/ \E r \in Roles : KernelBindsPort(r) \/ KernelRefused(r)
  \/ KernelWritesBack \/ KernelCrashes
  \/ \E r \in Roles : OtherTakes(r) \/ OtherLeaves(r) \/ TimeWaitEnds(r)

LaunchNext == Launch \/ Drain \/ Machine

LaunchSpec == LaunchInit /\ [][LaunchNext]_launchVars

(* The runtime polls its tasks and its timers fire; the kernel and the     *)
(* other programs owe nothing.                                             *)
LaunchFair == WF_launchVars(Launch) /\ WF_launchVars(Drain) /\ WF_launchVars(Late)
-----------------------------------------------------------------------------
(* A start that succeeded talks to the kernel it spawned on all three      *)
(* sockets, unless the kernel exited since (which is told): for reserved   *)
(* ports, which another program may hold, the signed answer shows it       *)
(* ("the ports are its own", bring_up).  Ports it wrote back are read only  *)
(* once they are all there and bound.                                      *)
StartedIsOurs ==
  /\ pc = "ok" => kernel = "exited" \/ \A r \in ToSet(Connected) : sock[r] = "kernel"
  /\ mode = "KernelBinds" /\ kernel = "up" /\ pc \in {"connect", "ok"} => bound = Roles

(* A kernel whose port was taken is tried again with new ports: a start    *)
(* with reserved ports fails before the last attempt only when the time is *)
(* over or the kernel exits for a reason of its own (bring_up, abort).     *)
TakenIsRetried ==
  mode = "Reserved" /\ pc = "err" /\ kernel # "none" /\ attempt < Attempts =>
    stop = "late" \/ cause = "crash"

(* No attempt begins, and no start fails, while anything of an earlier     *)
(* attempt is left: its process, its registration or its dir (abort).      *)
FailedLeavesNothing ==
  pc \in {"dir", "err"} => kernel # "up" /\ ~grouped /\ ~dir /\ connFile = "none"

(* The variables keep their types, a failed attempt leaves nothing, and one *)
(* that failed for its ports is made again.                                *)
LaunchInv == LaunchTypeOK /\ FailedLeavesNothing /\ TakenIsRetried

(* Every start begun ends, whatever the kernel and the others do: each     *)
(* wait of bring_up is ended by the exit or the deadline.                  *)
LaunchEnds == pc = "ports" ~> pc \in {"ok", "err"}
=============================================================================
