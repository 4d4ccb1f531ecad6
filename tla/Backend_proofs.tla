--------------------------- MODULE Backend_proofs ---------------------------
(***************************************************************************)
(* The safety of what the backend does: one start of a kernel, for any     *)
(* number of attempts and of ports taken by other programs (KernelLaunch), *)
(* and the saves of one notebook, for any number of views, edits, commands *)
(* and rounds (NotebookSave).                                              *)
(*                                                                         *)
(* A part of an invariant that needs an assumption on the environment      *)
(* names it: OthersStay, other programs keep the ports they took while the *)
(* start runs; Fifo, requests come to the notebook in the order sent.      *)
(***************************************************************************)
EXTENDS KernelLaunch, NotebookSave, TLAPS

-----------------------------------------------------------------------------
(* A start of a kernel.                                                    *)

Early == {"dir", "ports", "write", "spawn"}
Up == {"written", "open", "connect", "ask", "answer", "abort", "ok"}

(* Who listens: the kernel on what it has bound, while it runs, and the    *)
(* backend only while it holds ports for the spawn.                        *)
Listeners ==
  /\ \A r \in Roles : owner[r] = "kernel" <=> r \in bound
  /\ \A r \in Roles : owner[r] = "us" => pc \in {"write", "spawn"}
  /\ bound # {} => kernel = "up"

(* What is there before the spawn, while the kernel is started, and after. *)
Phases ==
  /\ pc \in Early => kernel = "none" /\ ~grouped /\ ~tail /\ ~said /\ sock = NoSocks
  /\ pc \in {"dir", "ports", "write"} => connFile = "none"
  /\ pc = "spawn" => connFile = "ours"
  /\ pc \in Up => kernel # "none"
  /\ pc \in {"unregister", "stderr"} => kernel = "exited"
  /\ kernel = "up" => pc \in Up
  /\ pc \in {"dir", "stderr", "err"} => ~grouped /\ ~dir /\ connFile = "none"
  /\ pc \in {"open", "ask", "answer"} => mode = "Reserved"
  /\ pc = "written" => mode = "KernelBinds"

(* A kernel writes its ports back once it has bound them all, and they are *)
(* connected to only then.                                                 *)
WrittenIsBound ==
  /\ connFile \in {"cut", "back"} => mode = "KernelBinds" /\ (kernel = "up" => bound = Roles)
  /\ mode = "KernelBinds" /\ pc \in {"connect", "ok"} => connFile = "back"

(* What the sockets are connected to.                                      *)
Sockets ==
  /\ pc \in {"ask", "answer", "ok"} => \A r \in ToSet(Connected) : sock[r] # "none"
  /\ \A r \in ToSet(Connected) : sock[r] = "kernel" /\ kernel = "up" => r \in bound
  /\ mode = "KernelBinds" /\ kernel = "up" /\ pc \in {"connect", "ok"} =>
       \A r \in ToSet(Connected) : sock[r] # "other"
  /\ OthersStay /\ pc \notin {"ok", "err"} =>
       \A r \in ToSet(Connected) : sock[r] = "other" => owner[r] = "other"
  /\ OthersStay /\ pc = "ok" /\ kernel = "up" =>
       \A r \in ToSet(Connected) : sock[r] = "kernel"

(* Why the kernel exited.                                                  *)
Causes ==
  /\ kernel = "exited" <=> cause # "none"
  /\ cause = "refused" => said
  /\ cause = "killed" => pc \in {"unregister", "stderr", "err"}
  /\ OthersStay /\ mode = "Reserved" =>
       /\ pc = "abort" /\ kernel = "up" => stop = "late"
       /\ pc \in {"unregister", "stderr"} /\ cause = "killed" => stop = "late"
       /\ pc = "err" /\ kernel # "none" /\ attempt < Attempts => stop = "late" \/ cause = "crash"

LaunchIInv == LaunchTypeOK /\ Listeners /\ Phases /\ WrittenIsBound /\ Sockets /\ Causes
-----------------------------------------------------------------------------
LEMMA Order ==
  /\ DOMAIN Connected = 1..3 /\ Len(Connected) = 3
  /\ Connected[1] = "shell" /\ Connected[2] = "control" /\ Connected[3] = "iopub"
BY DEF Connected

(* The roles that are connected, and their order.                          *)
LEMMA RolesAre ==
  /\ ToSet(Connected) = {"shell", "control", "iopub"}
  /\ Roles = {"shell", "control", "iopub", "hb"}
<1>1. ToSet(Connected) = {"shell", "control", "iopub"}
  BY Order DEF ToSet
<1> QED
  BY <1>1 DEF Roles

LEMMA ModesInOrder ==
  /\ ToSet(Connected) \subseteq Roles /\ "shell" \in ToSet(Connected)
  /\ \A i \in 1..3 : Connected[i] \in ToSet(Connected)
  /\ \A r \in ToSet(Connected) : \E i \in 1..3 : r = Connected[i]
BY Order, RolesAre

(* The socket map of a new connect.                                        *)
LEMMA NoSocksYet ==
  NoSocks \in [ToSet(Connected) -> {"none", "kernel", "other"}]
  /\ \A r \in ToSet(Connected) : NoSocks[r] = "none"
BY DEF NoSocks

LEMMA LaunchBounds == Attempts \in Nat \ {0} /\ MaxThefts \in Nat /\ Modes \subseteq {"KernelBinds", "Reserved"}
BY LaunchAssumption
-----------------------------------------------------------------------------
LEMMA NewKernelDirKeeps ==
  ASSUME LaunchIInv, NewKernelDir
  PROVE  LaunchIInv'
<1>1. /\ pc = "dir" /\ pc' = "ports" /\ dir' = TRUE
      /\ UNCHANGED <<mode, attempt, open, sock, stop, tail, grouped, connFile,
                     kernel, cause, bound, reuse, said, owner, timeWaits, thefts>>
  BY DEF NewKernelDir, machine, ours
<1>2. LaunchTypeOK'
  BY <1>1 DEF LaunchIInv, LaunchTypeOK, PCs
<1>3. Listeners'
  BY <1>1 DEF LaunchIInv, Listeners
<1>4. Phases'
  BY <1>1 DEF LaunchIInv, Phases, Early, Up
<1>5. WrittenIsBound'
  BY <1>1 DEF LaunchIInv, WrittenIsBound
<1>6. Sockets'
  BY <1>1 DEF LaunchIInv, Sockets, Phases, Early, Up
<1>7. Causes'
  BY <1>1 DEF LaunchIInv, Causes, Phases, Early, Up
<1> QED
  BY <1>2, <1>3, <1>4, <1>5, <1>6, <1>7 DEF LaunchIInv

LEMMA ChoosePortsKeeps ==
  ASSUME LaunchIInv, ChoosePorts
  PROVE  LaunchIInv'
<1>1. /\ pc = "ports" /\ pc' = "write"
      /\ owner' \in {owner, [r \in Roles |-> "us"]} /\ timeWaits' \in {timeWaits, Roles}
      /\ UNCHANGED <<mode, attempt, open, sock, stop, tail, dir, grouped, connFile,
                     kernel, cause, bound, reuse, said, thefts>>
  BY DEF ChoosePorts, machine, ours
<1>2. LaunchTypeOK'
  BY <1>1 DEF LaunchIInv, LaunchTypeOK, PCs, Peers
<1>3. Listeners'
  BY <1>1 DEF LaunchIInv, Listeners, Phases, Early, Up
<1>4. Phases'
  BY <1>1 DEF LaunchIInv, Phases, Early, Up
<1>5. WrittenIsBound'
  BY <1>1 DEF LaunchIInv, WrittenIsBound
<1>6. Sockets'
  BY <1>1 DEF LaunchIInv, Sockets, Phases, Early, Up, NoSocks
<1>7. Causes'
  BY <1>1 DEF LaunchIInv, Causes, Phases, Early, Up
<1> QED
  BY <1>2, <1>3, <1>4, <1>5, <1>6, <1>7 DEF LaunchIInv

LEMMA WriteConnectionKeeps ==
  ASSUME LaunchIInv, WriteConnection
  PROVE  LaunchIInv'
<1>1. /\ pc = "write" /\ pc' = "spawn" /\ connFile' = "ours"
      /\ UNCHANGED <<mode, attempt, open, sock, stop, tail, dir, grouped, kernel,
                     cause, bound, reuse, said, owner, timeWaits, thefts>>
  BY DEF WriteConnection, machine, ours
<1>2. LaunchTypeOK'
  BY <1>1 DEF LaunchIInv, LaunchTypeOK, PCs
<1>3. Listeners'
  BY <1>1 DEF LaunchIInv, Listeners
<1>4. Phases'
  BY <1>1 DEF LaunchIInv, Phases, Early, Up
<1>5. WrittenIsBound'
  BY <1>1 DEF LaunchIInv, WrittenIsBound
<1>6. Sockets'
  BY <1>1 DEF LaunchIInv, Sockets, Phases, Early, Up
<1>7. Causes'
  BY <1>1 DEF LaunchIInv, Causes, Phases, Early, Up
<1> QED
  BY <1>2, <1>3, <1>4, <1>5, <1>6, <1>7 DEF LaunchIInv

LEMMA SpawnKeeps ==
  ASSUME LaunchIInv, Spawn
  PROVE  LaunchIInv'
<1>1. /\ pc = "spawn" /\ pc' = (IF mode = "KernelBinds" THEN "written" ELSE "open")
      /\ owner' = [r \in Roles |-> IF owner[r] = "us" THEN "none" ELSE owner[r]]
      /\ kernel' = "up" /\ grouped' = TRUE
      /\ UNCHANGED <<mode, attempt, open, sock, stop, tail, dir, connFile, cause,
                     bound, reuse, said, timeWaits, thefts>>
  BY DEF Spawn, machine, ours
<1>2. LaunchTypeOK'
  BY <1>1 DEF LaunchIInv, LaunchTypeOK, PCs, Peers
<1>3. Listeners'
  BY <1>1 DEF LaunchIInv, Listeners, Phases, Early, Up
<1>4. Phases'
  BY <1>1, LaunchBounds DEF LaunchIInv, Phases, Early, Up, LaunchTypeOK
<1>5. WrittenIsBound'
  BY <1>1 DEF LaunchIInv, WrittenIsBound, Phases, Early, Up
<1>6. Sockets'
  BY <1>1, NoSocksYet DEF LaunchIInv, Sockets, Phases, Early, Up, NoSocks
<1>7. Causes'
  BY <1>1 DEF LaunchIInv, Causes, Phases, Early, Up
<1> QED
  BY <1>2, <1>3, <1>4, <1>5, <1>6, <1>7 DEF LaunchIInv

LEMMA FailsEarlyKeeps ==
  ASSUME LaunchIInv, FailsEarly
  PROVE  LaunchIInv'
<1>1. /\ pc \in Early /\ pc' = "err" /\ dir' = FALSE /\ connFile' = "none"
      /\ owner' = [r \in Roles |-> IF owner[r] = "us" THEN "none" ELSE owner[r]]
      /\ UNCHANGED <<mode, attempt, open, sock, stop, tail, grouped, kernel, cause,
                     bound, reuse, said, timeWaits, thefts>>
  BY DEF FailsEarly, machine, ours, Early
<1>2. LaunchTypeOK'
  BY <1>1 DEF LaunchIInv, LaunchTypeOK, PCs, Peers
<1>3. Listeners'
  BY <1>1 DEF LaunchIInv, Listeners, Phases, Early, Up
<1>4. Phases'
  BY <1>1 DEF LaunchIInv, Phases, Early, Up
<1>5. WrittenIsBound'
  BY <1>1 DEF LaunchIInv, WrittenIsBound, Phases, Early, Up
<1>6. Sockets'
  BY <1>1 DEF LaunchIInv, Sockets, Phases, Early, Up
<1>7. Causes'
  BY <1>1 DEF LaunchIInv, Causes, Phases, Early, Up
<1> QED
  BY <1>2, <1>3, <1>4, <1>5, <1>6, <1>7 DEF LaunchIInv

-----------------------------------------------------------------------------
(* bring_up.                                                               *)

LEMMA ReadWrittenBackKeeps ==
  ASSUME LaunchIInv, ReadWrittenBack
  PROVE  LaunchIInv'
<1>1. /\ pc = "written" /\ connFile = "back" /\ pc' = "connect" /\ sock' = NoSocks
      /\ UNCHANGED <<mode, attempt, open, stop, tail, dir, grouped, connFile,
                     kernel, cause, bound, reuse, said, owner, timeWaits, thefts>>
  BY DEF ReadWrittenBack, WrittenBack, machine
<1>2. LaunchTypeOK'
  BY <1>1, NoSocksYet DEF LaunchIInv, LaunchTypeOK, PCs
<1>3. Listeners'
  BY <1>1 DEF LaunchIInv, Listeners
<1>4. Phases'
  BY <1>1 DEF LaunchIInv, Phases, Early, Up
<1>5. WrittenIsBound'
  BY <1>1 DEF LaunchIInv, WrittenIsBound
<1>6. Sockets'
  BY <1>1, NoSocksYet DEF LaunchIInv, Sockets
<1>7. Causes'
  BY <1>1 DEF LaunchIInv, Causes
<1> QED
  BY <1>2, <1>3, <1>4, <1>5, <1>6, <1>7 DEF LaunchIInv

LEMMA ProbeKeeps ==
  ASSUME LaunchIInv, Probe
  PROVE  LaunchIInv'
<1>1. /\ pc = "open" /\ open' \subseteq ToSet(Connected)
      /\ \/ pc' = "connect" /\ sock' = NoSocks
         \/ pc' = pc /\ sock' = sock
      /\ UNCHANGED <<mode, attempt, stop, tail, dir, grouped, connFile, kernel,
                     cause, bound, reuse, said, owner, timeWaits, thefts>>
  BY DEF Probe, LaunchIInv, LaunchTypeOK, machine
<1>2. LaunchTypeOK'
  BY <1>1, NoSocksYet DEF LaunchIInv, LaunchTypeOK, PCs
<1>3. Listeners'
  BY <1>1 DEF LaunchIInv, Listeners
<1>4. Phases'
  BY <1>1 DEF LaunchIInv, Phases, Early, Up
<1>5. WrittenIsBound'
  BY <1>1 DEF LaunchIInv, WrittenIsBound, Phases, Early, Up
<1>6. Sockets'
  BY <1>1, NoSocksYet DEF LaunchIInv, Sockets
<1>7. Causes'
  BY <1>1 DEF LaunchIInv, Causes
<1> QED
  BY <1>2, <1>3, <1>4, <1>5, <1>6, <1>7 DEF LaunchIInv

LEMMA ConnectKeeps ==
  ASSUME LaunchIInv, Connect
  PROVE  LaunchIInv'
<1>1. PICK i \in 1..3 :
        /\ IsNext(i) /\ owner[Connected[i]] \in {"kernel", "other"}
        /\ sock' = [sock EXCEPT ![Connected[i]] = owner[Connected[i]]]
        /\ pc' = IF i < 3 THEN pc ELSE IF mode = "Reserved" THEN "ask" ELSE "ok"
  BY Order DEF Connect
<1>2. /\ pc = "connect"
      /\ UNCHANGED <<mode, attempt, open, stop, tail, dir, grouped, connFile,
                     kernel, cause, bound, reuse, said, owner, timeWaits, thefts>>
  BY DEF Connect, machine
<1>3. Connected[i] \in ToSet(Connected)
  BY ModesInOrder
<1>4. /\ sock'[Connected[i]] = owner[Connected[i]]
      /\ \A r \in ToSet(Connected) \ {Connected[i]} : sock'[r] = sock[r]
      /\ sock' \in [ToSet(Connected) -> {"none", "kernel", "other"}]
  BY <1>1, <1>3 DEF LaunchIInv, LaunchTypeOK
<1>5. i = 3 => \A r \in ToSet(Connected) : sock'[r] # "none"
  <2> SUFFICES ASSUME i = 3, NEW r \in ToSet(Connected) PROVE sock'[r] # "none"
    OBVIOUS
  <2>1. PICK j \in 1..3 : r = Connected[j]
    BY ModesInOrder
  <2>2. CASE j = 3
    BY <2>1, <2>2, <1>1, <1>4
  <2>3. CASE j # 3
    <3>1. j \in 1..i-1
      BY <2>3
    <3>2. sock[Connected[j]] # "none"
      BY <3>1, <1>1 DEF IsNext
    <3> QED
      BY <3>2, <2>1, <1>1, <1>4
  <2> QED
    BY <2>2, <2>3
<1>6. /\ pc' \in {"connect", "ask", "ok"} /\ (pc' = "connect" <=> i # 3)
      /\ (pc' = "ask" => mode = "Reserved") /\ (pc' = "ok" => mode = "KernelBinds")
  BY <1>1, <1>2, LaunchBounds DEF LaunchIInv, LaunchTypeOK
<1>7. LaunchTypeOK'
  BY <1>2, <1>4, <1>6 DEF LaunchIInv, LaunchTypeOK, PCs
<1>8. Listeners' /\ WrittenIsBound'
  BY <1>2, <1>6 DEF LaunchIInv, Listeners, WrittenIsBound
<1>9. Phases'
  BY <1>2, <1>6 DEF LaunchIInv, Phases, Early, Up
<1>10. Sockets'
  <2>1. /\ owner[Connected[i]] = "kernel" => Connected[i] \in bound
        /\ mode = "KernelBinds" /\ kernel = "up" => owner[Connected[i]] = "kernel"
    BY <1>2, <1>3, ModesInOrder DEF LaunchIInv, Listeners, WrittenIsBound
  <2>2. \A r \in ToSet(Connected) : sock'[r] = "kernel" /\ kernel = "up" => r \in bound
    BY <2>1, <1>4 DEF LaunchIInv, Sockets
  <2>3. mode = "KernelBinds" /\ kernel = "up" =>
          \A r \in ToSet(Connected) : sock'[r] # "other"
    BY <2>1, <1>2, <1>4 DEF LaunchIInv, Sockets
  <2>4. OthersStay => \A r \in ToSet(Connected) : sock'[r] = "other" => owner[r] = "other"
    BY <1>2, <1>4 DEF LaunchIInv, Sockets
  <2>5. \A r \in ToSet(Connected) : sock'[r] \in {"none", "kernel", "other"}
    BY <1>4
  <2> QED
    BY <2>2, <2>3, <2>4, <2>5, <1>2, <1>5, <1>6 DEF Sockets
<1>11. Causes'
  BY <1>2, <1>6 DEF LaunchIInv, Causes
<1> QED
  BY <1>7, <1>8, <1>9, <1>10, <1>11 DEF LaunchIInv

LEMMA ConnectFailsKeeps ==
  ASSUME LaunchIInv, ConnectFails
  PROVE  LaunchIInv'
<1>1. /\ pc = "connect"
      /\ \/ mode = "KernelBinds" /\ stop' = "failed" /\ pc' = "abort" /\ open' = open
         \/ mode # "KernelBinds" /\ pc' = "open" /\ open' = {} /\ stop' = stop
      /\ UNCHANGED <<mode, attempt, sock, tail, dir, grouped, connFile, kernel,
                     cause, bound, reuse, said, owner, timeWaits, thefts>>
  BY DEF ConnectFails, Missed, StopFor, machine
<1>2. LaunchTypeOK'
  BY <1>1 DEF LaunchIInv, LaunchTypeOK, PCs
<1>3. Listeners'
  BY <1>1 DEF LaunchIInv, Listeners
<1>4. Phases'
  BY <1>1, LaunchBounds DEF LaunchIInv, Phases, Early, Up, LaunchTypeOK
<1>5. WrittenIsBound'
  BY <1>1 DEF LaunchIInv, WrittenIsBound
<1>6. Sockets'
  BY <1>1 DEF LaunchIInv, Sockets
<1>7. Causes'
  BY <1>1 DEF LaunchIInv, Causes
<1> QED
  BY <1>2, <1>3, <1>4, <1>5, <1>6, <1>7 DEF LaunchIInv

LEMMA AskKernelInfoKeeps ==
  ASSUME LaunchIInv, AskKernelInfo
  PROVE  LaunchIInv'
<1>1. /\ pc = "ask"
      /\ \/ pc' = "answer" /\ stop' = stop
         \/ owner["shell"] # sock["shell"] /\ pc' = "abort" /\ stop' = "failed"
      /\ UNCHANGED <<mode, attempt, open, sock, tail, dir, grouped, connFile,
                     kernel, cause, bound, reuse, said, owner, timeWaits, thefts>>
  BY DEF AskKernelInfo, StopFor, machine
<1>2. LaunchTypeOK'
  BY <1>1 DEF LaunchIInv, LaunchTypeOK, PCs
<1>3. Listeners'
  BY <1>1 DEF LaunchIInv, Listeners
<1>4. Phases'
  BY <1>1 DEF LaunchIInv, Phases, Early, Up
<1>5. WrittenIsBound'
  BY <1>1 DEF LaunchIInv, WrittenIsBound
<1>6. Sockets'
  BY <1>1 DEF LaunchIInv, Sockets
<1>7. Causes'
  BY <1>1, ModesInOrder DEF LaunchIInv, Causes, Sockets, Listeners, LaunchTypeOK
<1> QED
  BY <1>2, <1>3, <1>4, <1>5, <1>6, <1>7 DEF LaunchIInv

LEMMA KernelInfoKeeps ==
  ASSUME LaunchIInv, KernelInfo
  PROVE  LaunchIInv'
<1>1. /\ pc = "answer" /\ pc' = "ok" /\ kernel = "up" /\ bound = Roles
      /\ UNCHANGED <<mode, attempt, open, sock, stop, tail, dir, grouped, connFile,
                     kernel, cause, bound, reuse, said, owner, timeWaits, thefts>>
  BY DEF KernelInfo, Answers, machine
<1>2. LaunchTypeOK'
  BY <1>1 DEF LaunchIInv, LaunchTypeOK, PCs
<1>3. Listeners'
  BY <1>1 DEF LaunchIInv, Listeners
<1>4. Phases'
  BY <1>1 DEF LaunchIInv, Phases, Early, Up
<1>5. WrittenIsBound'
  BY <1>1 DEF LaunchIInv, WrittenIsBound, Phases, Early, Up
<1>6. Sockets'
  BY <1>1, ModesInOrder DEF LaunchIInv, Sockets, Listeners, LaunchTypeOK, Phases, Early, Up
<1>7. Causes'
  BY <1>1 DEF LaunchIInv, Causes
<1> QED
  BY <1>2, <1>3, <1>4, <1>5, <1>6, <1>7 DEF LaunchIInv

LEMMA SeesExitKeeps ==
  ASSUME LaunchIInv, SeesExit
  PROVE  LaunchIInv'
<1>1. /\ InBringUp /\ kernel = "exited" /\ pc' = "abort" /\ stop' = "exited"
      /\ UNCHANGED <<mode, attempt, open, sock, tail, dir, grouped, connFile,
                     kernel, cause, bound, reuse, said, owner, timeWaits, thefts>>
  BY DEF SeesExit, StopFor, machine
<1>2. LaunchTypeOK'
  BY <1>1 DEF LaunchIInv, LaunchTypeOK, PCs, InBringUp
<1>3. Listeners'
  BY <1>1 DEF LaunchIInv, Listeners, InBringUp
<1>4. Phases'
  BY <1>1 DEF LaunchIInv, Phases, Early, Up, InBringUp
<1>5. WrittenIsBound'
  BY <1>1 DEF LaunchIInv, WrittenIsBound, InBringUp
<1>6. Sockets'
  BY <1>1 DEF LaunchIInv, Sockets, InBringUp
<1>7. Causes'
  BY <1>1 DEF LaunchIInv, Causes, InBringUp
<1> QED
  BY <1>2, <1>3, <1>4, <1>5, <1>6, <1>7 DEF LaunchIInv

LEMMA LateKeeps ==
  ASSUME LaunchIInv, Late
  PROVE  LaunchIInv'
<1>1. /\ InBringUp /\ pc' = "abort" /\ stop' = "late"
      /\ UNCHANGED <<mode, attempt, open, sock, tail, dir, grouped, connFile,
                     kernel, cause, bound, reuse, said, owner, timeWaits, thefts>>
  BY DEF Late, StopFor, machine
<1>2. LaunchTypeOK'
  BY <1>1 DEF LaunchIInv, LaunchTypeOK, PCs, InBringUp
<1>3. Listeners'
  BY <1>1 DEF LaunchIInv, Listeners, InBringUp
<1>4. Phases'
  BY <1>1 DEF LaunchIInv, Phases, Early, Up, InBringUp
<1>5. WrittenIsBound'
  BY <1>1 DEF LaunchIInv, WrittenIsBound, InBringUp
<1>6. Sockets'
  BY <1>1 DEF LaunchIInv, Sockets, InBringUp
<1>7. Causes'
  BY <1>1 DEF LaunchIInv, Causes, InBringUp
<1> QED
  BY <1>2, <1>3, <1>4, <1>5, <1>6, <1>7 DEF LaunchIInv

-----------------------------------------------------------------------------
(* abort, and the next attempt.                                            *)

LEMMA LetGoAre ==
  ASSUME LaunchTypeOK
  PROVE  /\ LetGo \in [Roles -> Peers]
         /\ \A r \in Roles : LetGo[r] = IF owner[r] = "kernel" THEN "none" ELSE owner[r]
BY DEF LetGo, LaunchTypeOK, Peers

LEMMA AbortKillKeeps ==
  ASSUME LaunchIInv, AbortKill
  PROVE  LaunchIInv'
<1>1. /\ pc = "abort" /\ pc' = "unregister" /\ KillGroup
      /\ UNCHANGED <<mode, attempt, open, sock, stop, tail, dir, grouped, connFile,
                     reuse, said, timeWaits, thefts>>
  BY DEF AbortKill
<1>2. LaunchTypeOK'
  BY <1>1, LetGoAre, ModesInOrder DEF LaunchIInv, LaunchTypeOK, PCs, KillGroup, Phases, Early, Up
<1>3. Listeners'
  BY <1>1, LetGoAre, ModesInOrder DEF LaunchIInv, Listeners, KillGroup, Phases, Early, Up, LaunchTypeOK
<1>4. Phases'
  BY <1>1, LetGoAre, ModesInOrder DEF LaunchIInv, Phases, Early, Up, KillGroup, LaunchTypeOK
<1>5. WrittenIsBound'
  BY <1>1 DEF LaunchIInv, WrittenIsBound, KillGroup, Phases, Early, Up
<1>6. Sockets'
  BY <1>1, LetGoAre, ModesInOrder DEF LaunchIInv, Sockets, KillGroup, Phases, Early, Up, LaunchTypeOK
<1>7. Causes'
  BY <1>1, LetGoAre, ModesInOrder DEF LaunchIInv, Causes, KillGroup, Phases, Early, Up, LaunchTypeOK
<1> QED
  BY <1>2, <1>3, <1>4, <1>5, <1>6, <1>7 DEF LaunchIInv

LEMMA AbortUnregisterKeeps ==
  ASSUME LaunchIInv, AbortUnregister
  PROVE  LaunchIInv'
<1>1. /\ pc = "unregister" /\ pc' = "stderr" /\ grouped' = FALSE /\ dir' = FALSE /\ connFile' = "none"
      /\ UNCHANGED <<mode, attempt, open, sock, stop, tail, kernel, cause, bound,
                     reuse, said, owner, timeWaits, thefts>>
  BY DEF AbortUnregister, machine, ours
<1>2. LaunchTypeOK'
  BY <1>1 DEF LaunchIInv, LaunchTypeOK, PCs
<1>3. Listeners'
  BY <1>1 DEF LaunchIInv, Listeners
<1>4. Phases'
  BY <1>1 DEF LaunchIInv, Phases, Early, Up
<1>5. WrittenIsBound'
  BY <1>1 DEF LaunchIInv, WrittenIsBound
<1>6. Sockets'
  BY <1>1 DEF LaunchIInv, Sockets
<1>7. Causes'
  BY <1>1 DEF LaunchIInv, Causes
<1> QED
  BY <1>2, <1>3, <1>4, <1>5, <1>6, <1>7 DEF LaunchIInv

LEMMA DrainKeeps ==
  ASSUME LaunchIInv, Drain
  PROVE  LaunchIInv'
<1>1. /\ tail' = said
      /\ InBringUp \/ pc \in {"abort", "unregister", "stderr"}
      /\ UNCHANGED <<mode, attempt, pc, open, sock, stop, dir, grouped, connFile,
                     kernel, cause, bound, reuse, said, owner, timeWaits, thefts>>
  BY DEF Drain, machine, ours
<1>2. LaunchTypeOK'
  BY <1>1 DEF LaunchIInv, LaunchTypeOK, PCs, InBringUp, LaunchTypeOK
<1>3. Listeners'
  BY <1>1 DEF LaunchIInv, Listeners, InBringUp, LaunchTypeOK
<1>4. Phases'
  BY <1>1 DEF LaunchIInv, Phases, Early, Up, InBringUp, LaunchTypeOK
<1>5. WrittenIsBound'
  BY <1>1 DEF LaunchIInv, WrittenIsBound, InBringUp, LaunchTypeOK
<1>6. Sockets'
  BY <1>1 DEF LaunchIInv, Sockets, InBringUp, LaunchTypeOK
<1>7. Causes'
  BY <1>1 DEF LaunchIInv, Causes, InBringUp, LaunchTypeOK
<1> QED
  BY <1>2, <1>3, <1>4, <1>5, <1>6, <1>7 DEF LaunchIInv

LEMMA RetryKeeps ==
  ASSUME LaunchIInv, Retry
  PROVE  LaunchIInv'
<1>1. /\ pc = "stderr" /\ pc' = "dir" /\ attempt < Attempts /\ attempt' = attempt + 1
      /\ open' = {} /\ sock' = NoSocks /\ stop' = "none" /\ tail' = FALSE
      /\ kernel' = "none" /\ cause' = "none" /\ bound' = {} /\ said' = FALSE
      /\ owner' = Nobody /\ timeWaits' = {} /\ thefts' = 0
      /\ UNCHANGED <<mode, dir, grouped, connFile, reuse>>
  BY DEF Retry, Retried
<1>2. LaunchTypeOK'
  <2>1. attempt' \in 1 .. Attempts /\ thefts' \in 0 .. MaxThefts
    BY <1>1, LaunchBounds DEF LaunchIInv, LaunchTypeOK
  <2>2. owner' \in [Roles -> Peers] /\ sock' \in [ToSet(Connected) -> {"none", "kernel", "other"}]
    BY <1>1, NoSocksYet DEF Nobody, Peers
  <2>3. {tail', dir', grouped', reuse', said'} \subseteq BOOLEAN
    BY <1>1 DEF LaunchIInv, LaunchTypeOK
  <2> QED
    BY <1>1, <2>1, <2>2, <2>3 DEF LaunchIInv, LaunchTypeOK, PCs
<1>3. Listeners'
  BY <1>1 DEF LaunchIInv, Listeners, Nobody
<1>4. Phases'
  BY <1>1 DEF LaunchIInv, Phases, Early, Up
<1>5. WrittenIsBound'
  BY <1>1 DEF LaunchIInv, WrittenIsBound, Phases
<1>6. Sockets'
  BY <1>1, NoSocksYet DEF LaunchIInv, Sockets
<1>7. Causes'
  BY <1>1 DEF LaunchIInv, Causes
<1> QED
  BY <1>2, <1>3, <1>4, <1>5, <1>6, <1>7 DEF LaunchIInv

LEMMA GiveUpKeeps ==
  ASSUME LaunchIInv, GiveUp
  PROVE  LaunchIInv'
<1>1. /\ pc = "stderr" /\ pc' = "err" /\ tail = said /\ ~Retried
      /\ UNCHANGED <<mode, attempt, open, sock, stop, tail, dir, grouped, connFile,
                     kernel, cause, bound, reuse, said, owner, timeWaits, thefts>>
  BY DEF GiveUp, TailRead, machine
<1>2. LaunchTypeOK'
  BY <1>1 DEF LaunchIInv, LaunchTypeOK, PCs
<1>3. Listeners'
  BY <1>1 DEF LaunchIInv, Listeners
<1>4. Phases'
  BY <1>1 DEF LaunchIInv, Phases, Early, Up
<1>5. WrittenIsBound'
  BY <1>1 DEF LaunchIInv, WrittenIsBound, Phases, Early, Up
<1>6. Sockets'
  BY <1>1 DEF LaunchIInv, Sockets
<1>7. Causes'
  BY <1>1 DEF LaunchIInv, Causes, Retried, Phases, LaunchTypeOK
<1> QED
  BY <1>2, <1>3, <1>4, <1>5, <1>6, <1>7 DEF LaunchIInv

-----------------------------------------------------------------------------
(* The kernel and the other programs.                                      *)

LEMMA KernelBindsPortKeeps ==
  ASSUME LaunchIInv, NEW r \in Roles, KernelBindsPort(r)
  PROVE  LaunchIInv'
<1>1. /\ kernel = "up" /\ r \notin bound /\ owner[r] = "none"
      /\ bound' = bound \cup {r} /\ owner' = [owner EXCEPT ![r] = "kernel"]
      /\ UNCHANGED <<mode, attempt, pc, open, sock, stop, tail, dir, grouped,
                     connFile, kernel, cause, reuse, said, timeWaits, thefts>>
  BY DEF KernelBindsPort, Bindable, ours
<1>2. LaunchTypeOK'
  BY <1>1 DEF LaunchIInv, LaunchTypeOK, PCs, Peers
<1>3. Listeners'
  BY <1>1 DEF LaunchIInv, Listeners, LaunchTypeOK
<1>4. Phases'
  BY <1>1 DEF LaunchIInv, Phases, Early, Up
<1>5. WrittenIsBound'
  BY <1>1 DEF LaunchIInv, WrittenIsBound, LaunchTypeOK
<1>6. Sockets'
  BY <1>1, ModesInOrder DEF LaunchIInv, Sockets, LaunchTypeOK, Listeners
<1>7. Causes'
  BY <1>1 DEF LaunchIInv, Causes
<1> QED
  BY <1>2, <1>3, <1>4, <1>5, <1>6, <1>7 DEF LaunchIInv

LEMMA KernelExitsKeeps ==
  ASSUME LaunchIInv, KernelCrashes \/ \E r \in Roles : KernelRefused(r)
  PROVE  LaunchIInv'
<1>1. /\ kernel = "up" /\ kernel' = "exited" /\ cause' \in {"refused", "crash"}
      /\ said' \in BOOLEAN /\ (cause' = "refused" => said' = TRUE)
      /\ bound' = {} /\ owner' = LetGo
      /\ UNCHANGED <<mode, attempt, pc, open, sock, stop, tail, dir, grouped,
                     connFile, reuse, timeWaits, thefts>>
  BY DEF KernelCrashes, KernelRefused, ours
<1>2. LaunchTypeOK'
  BY <1>1, LetGoAre, ModesInOrder DEF LaunchIInv, LaunchTypeOK, PCs
<1>3. Listeners'
  BY <1>1, LetGoAre, ModesInOrder DEF LaunchIInv, Listeners, LaunchTypeOK
<1>4. Phases'
  BY <1>1 DEF LaunchIInv, Phases, Early, Up, LaunchTypeOK
<1>5. WrittenIsBound'
  BY <1>1 DEF LaunchIInv, WrittenIsBound
<1>6. Sockets'
  BY <1>1, LetGoAre, ModesInOrder DEF LaunchIInv, Sockets, LaunchTypeOK, Listeners
<1>7. Causes'
  BY <1>1 DEF LaunchIInv, Causes, LaunchTypeOK, Phases, Early, Up
<1> QED
  BY <1>2, <1>3, <1>4, <1>5, <1>6, <1>7 DEF LaunchIInv

LEMMA KernelWritesBackKeeps ==
  ASSUME LaunchIInv, KernelWritesBack
  PROVE  LaunchIInv'
<1>1. /\ kernel = "up" /\ mode = "KernelBinds" /\ bound = Roles
      /\ \/ connFile = "ours" /\ connFile' = "cut"
         \/ connFile = "cut" /\ connFile' = "back"
      /\ UNCHANGED <<mode, attempt, pc, open, sock, stop, tail, dir, grouped,
                     kernel, cause, bound, reuse, said, owner, timeWaits, thefts>>
  BY DEF KernelWritesBack, machine, ours
<1>2. LaunchTypeOK'
  BY <1>1 DEF LaunchIInv, LaunchTypeOK, PCs
<1>3. Listeners'
  BY <1>1 DEF LaunchIInv, Listeners
<1>4. Phases'
  BY <1>1 DEF LaunchIInv, Phases, Early, Up
<1>5. WrittenIsBound'
  BY <1>1 DEF LaunchIInv, WrittenIsBound
<1>6. Sockets'
  BY <1>1 DEF LaunchIInv, Sockets
<1>7. Causes'
  BY <1>1 DEF LaunchIInv, Causes
<1> QED
  BY <1>2, <1>3, <1>4, <1>5, <1>6, <1>7 DEF LaunchIInv

LEMMA OtherTakesKeeps ==
  ASSUME LaunchIInv, NEW r \in Roles, OtherTakes(r)
  PROVE  LaunchIInv'
<1>1. /\ owner[r] = "none" /\ thefts < MaxThefts /\ thefts' = thefts + 1
      /\ owner' = [owner EXCEPT ![r] = "other"]
      /\ UNCHANGED <<mode, attempt, pc, open, sock, stop, tail, dir, grouped,
                     connFile, kernel, cause, bound, reuse, said, timeWaits>>
  BY DEF OtherTakes, ours
<1>2. LaunchTypeOK'
  BY <1>1, LaunchBounds DEF LaunchIInv, LaunchTypeOK, PCs, Peers
<1>3. Listeners'
  BY <1>1 DEF LaunchIInv, Listeners, LaunchTypeOK
<1>4. Phases'
  BY <1>1 DEF LaunchIInv, Phases, Early, Up
<1>5. WrittenIsBound'
  BY <1>1 DEF LaunchIInv, WrittenIsBound
<1>6. Sockets'
  BY <1>1, ModesInOrder DEF LaunchIInv, Sockets, LaunchTypeOK
<1>7. Causes'
  BY <1>1 DEF LaunchIInv, Causes
<1> QED
  BY <1>2, <1>3, <1>4, <1>5, <1>6, <1>7 DEF LaunchIInv

LEMMA OtherLeavesKeeps ==
  ASSUME LaunchIInv, NEW r \in Roles, OtherLeaves(r)
  PROVE  LaunchIInv'
<1>1. /\ owner[r] = "other" /\ (OthersStay => pc \in {"ok", "err"})
      /\ owner' = [owner EXCEPT ![r] = "none"]
      /\ UNCHANGED <<mode, attempt, pc, open, sock, stop, tail, dir, grouped,
                     connFile, kernel, cause, bound, reuse, said, timeWaits,
                     thefts>>
  BY DEF OtherLeaves, ours
<1>2. LaunchTypeOK'
  BY <1>1 DEF LaunchIInv, LaunchTypeOK, PCs, Peers
<1>3. Listeners'
  BY <1>1 DEF LaunchIInv, Listeners, LaunchTypeOK
<1>4. Phases'
  BY <1>1 DEF LaunchIInv, Phases, Early, Up
<1>5. WrittenIsBound'
  BY <1>1 DEF LaunchIInv, WrittenIsBound
<1>6. Sockets'
  BY <1>1, ModesInOrder DEF LaunchIInv, Sockets, LaunchTypeOK
<1>7. Causes'
  BY <1>1 DEF LaunchIInv, Causes
<1> QED
  BY <1>2, <1>3, <1>4, <1>5, <1>6, <1>7 DEF LaunchIInv

LEMMA TimeWaitEndsKeeps ==
  ASSUME LaunchIInv, NEW r \in Roles, TimeWaitEnds(r)
  PROVE  LaunchIInv'
<1>1. /\ timeWaits' = timeWaits \ {r}
      /\ UNCHANGED <<mode, attempt, pc, open, sock, stop, tail, dir, grouped,
                     connFile, kernel, cause, bound, reuse, said, owner, thefts>>
  BY DEF TimeWaitEnds, ours
<1>2. LaunchTypeOK'
  BY <1>1 DEF LaunchIInv, LaunchTypeOK, PCs
<1>3. Listeners'
  BY <1>1 DEF LaunchIInv, Listeners
<1>4. Phases'
  BY <1>1 DEF LaunchIInv, Phases, Early, Up
<1>5. WrittenIsBound'
  BY <1>1 DEF LaunchIInv, WrittenIsBound
<1>6. Sockets'
  BY <1>1 DEF LaunchIInv, Sockets
<1>7. Causes'
  BY <1>1 DEF LaunchIInv, Causes
<1> QED
  BY <1>2, <1>3, <1>4, <1>5, <1>6, <1>7 DEF LaunchIInv

-----------------------------------------------------------------------------
LEMMA InitLaunchIInv == LaunchInit => LaunchIInv
<1> SUFFICES ASSUME LaunchInit PROVE LaunchIInv
  OBVIOUS
<1>1. /\ mode \in Modes /\ attempt = 1 /\ pc = "dir" /\ open = {} /\ sock = NoSocks
      /\ stop = "none" /\ tail = FALSE /\ dir = FALSE /\ grouped = FALSE /\ connFile = "none"
      /\ kernel = "none" /\ cause = "none" /\ bound = {} /\ reuse \in BOOLEAN
      /\ said = FALSE /\ owner = Nobody /\ timeWaits = {} /\ thefts = 0
  BY DEF LaunchInit
<1>2. LaunchTypeOK
  <2>1. attempt \in 1 .. Attempts /\ thefts \in 0 .. MaxThefts
    BY <1>1, LaunchBounds
  <2>2. owner \in [Roles -> Peers] /\ sock \in [ToSet(Connected) -> {"none", "kernel", "other"}]
    BY <1>1, NoSocksYet DEF Nobody, Peers
  <2>3. {tail, dir, grouped, reuse, said} \subseteq BOOLEAN
    BY <1>1
  <2> QED
    BY <1>1, <2>1, <2>2, <2>3 DEF LaunchTypeOK, PCs
<1>3. Listeners /\ Phases /\ WrittenIsBound
  BY <1>1 DEF Listeners, Phases, WrittenIsBound, Early, Up, Nobody
<1>4. Sockets /\ Causes
  BY <1>1, NoSocksYet DEF Sockets, Causes
<1> QED
  BY <1>2, <1>3, <1>4 DEF LaunchIInv

LEMMA NextLaunchKeeps == LaunchIInv /\ [LaunchNext]_launchVars => LaunchIInv'
<1> SUFFICES ASSUME LaunchIInv, [LaunchNext]_launchVars PROVE LaunchIInv'
  OBVIOUS
<1>1. CASE Launch
  BY <1>1, NewKernelDirKeeps, ChoosePortsKeeps, WriteConnectionKeeps, SpawnKeeps, FailsEarlyKeeps,
     ReadWrittenBackKeeps, ProbeKeeps, ConnectKeeps, ConnectFailsKeeps, AskKernelInfoKeeps,
     KernelInfoKeeps, SeesExitKeeps, LateKeeps, AbortKillKeeps, AbortUnregisterKeeps, RetryKeeps,
     GiveUpKeeps
     DEF Launch
<1>2. CASE Drain
  BY <1>2, DrainKeeps
<1>3. CASE Machine
  BY <1>3, KernelBindsPortKeeps, KernelExitsKeeps, KernelWritesBackKeeps, OtherTakesKeeps,
     OtherLeavesKeeps, TimeWaitEndsKeeps
     DEF Machine
<1>4. CASE UNCHANGED launchVars
  <2>1. UNCHANGED <<mode, attempt, pc, open, sock, stop, tail, dir, grouped, connFile, kernel,
                    cause, bound, reuse, said, owner, timeWaits, thefts>>
    BY <1>4 DEF launchVars, ours, machine
  <2>2. LaunchTypeOK' /\ Listeners' /\ Phases'
    BY <2>1 DEF LaunchIInv, LaunchTypeOK, Listeners, Phases
  <2>3. WrittenIsBound' /\ Sockets' /\ Causes'
    BY <2>1 DEF LaunchIInv, WrittenIsBound, Sockets, Causes
  <2> QED
    BY <2>2, <2>3 DEF LaunchIInv
<1> QED
  BY <1>1, <1>2, <1>3, <1>4 DEF LaunchNext

LEMMA LaunchInductive == LaunchSpec => []LaunchIInv
BY InitLaunchIInv, NextLaunchKeeps, PTL DEF LaunchSpec

(* No attempt begins and no start fails while anything of an earlier       *)
(* attempt is left: its process, its registration, its dir (abort, drop of *)
(* the KernelDir); whatever the other programs do with the ports.          *)
THEOREM AttemptsLeaveNothing == LaunchSpec => [](LaunchTypeOK /\ FailedLeavesNothing)
<1>1. LaunchIInv => LaunchTypeOK /\ FailedLeavesNothing
  BY DEF LaunchIInv, FailedLeavesNothing, Phases, Early, Up
<1> QED
  BY <1>1, LaunchInductive, PTL

(* With other programs that keep what they took while the start runs, a    *)
(* kernel refused a port is tried again with new ones: no failure before   *)
(* the last attempt is blamed on it (bring_up, abort, classify).           *)
THEOREM RefusedIsTriedAgain ==
  ASSUME OthersStay
  PROVE  LaunchSpec => []LaunchInv
<1>1. LaunchIInv => LaunchInv
  <2>1. LaunchIInv => FailedLeavesNothing
    BY DEF LaunchIInv, FailedLeavesNothing, Phases, Early, Up
  <2>2. LaunchIInv => TakenIsRetried
    BY DEF LaunchIInv, TakenIsRetried, Causes
  <2> QED
    BY <2>1, <2>2 DEF LaunchIInv, LaunchInv
<1> QED
  BY <1>1, LaunchInductive, PTL

(* With such programs a start that succeeded is connected to the kernel it *)
(* spawned on all three sockets, or that kernel has exited: an answer that *)
(* is signed comes only from a kernel that bound every port                *)
(* (kernel_info_handshake, read_written_back).                             *)
THEOREM StartedKernelIsOurs ==
  ASSUME OthersStay
  PROVE  LaunchSpec => []StartedIsOurs
<1>1. LaunchIInv => StartedIsOurs
  <2> SUFFICES ASSUME LaunchIInv PROVE StartedIsOurs
    OBVIOUS
  <2>1. pc = "ok" => kernel = "exited" \/ kernel = "up"
    BY DEF LaunchIInv, LaunchTypeOK, Phases, Up
  <2>2. pc = "ok" /\ kernel = "up" => \A r \in ToSet(Connected) : sock[r] = "kernel"
    BY DEF LaunchIInv, Sockets
  <2>3. mode = "KernelBinds" /\ kernel = "up" /\ pc \in {"connect", "ok"} => bound = Roles
    BY DEF LaunchIInv, WrittenIsBound
  <2> QED
    BY <2>1, <2>2, <2>3 DEF StartedIsOurs
<1> QED
  BY <1>1, LaunchInductive, PTL

(* Whatever the other programs do, ports a kernel wrote back are connected *)
(* to only once it has bound them all, and a start that succeeds on them   *)
(* is connected to it or it has exited (read_written_back).                *)
THEOREM WrittenBackIsOurs ==
  LaunchSpec =>
    [](mode = "KernelBinds" /\ pc = "ok" =>
         kernel = "exited" \/ (bound = Roles /\ \A r \in ToSet(Connected) : sock[r] = "kernel"))
<1>1. LaunchIInv =>
        (mode = "KernelBinds" /\ pc = "ok" =>
           kernel = "exited" \/ (bound = Roles /\ \A r \in ToSet(Connected) : sock[r] = "kernel"))
  <2> SUFFICES ASSUME LaunchIInv, mode = "KernelBinds", pc = "ok", kernel # "exited"
               PROVE  bound = Roles /\ \A r \in ToSet(Connected) : sock[r] = "kernel"
    OBVIOUS
  <2>1. kernel = "up"
    BY DEF LaunchIInv, LaunchTypeOK, Phases, Up
  <2>2. bound = Roles
    BY <2>1 DEF LaunchIInv, WrittenIsBound
  <2>3. \A r \in ToSet(Connected) : sock[r] \in {"none", "kernel", "other"}
    BY DEF LaunchIInv, LaunchTypeOK
  <2>4. \A r \in ToSet(Connected) : sock[r] \notin {"none", "other"}
    BY <2>1 DEF LaunchIInv, Sockets
  <2> QED
    BY <2>2, <2>3, <2>4
<1> QED
  BY <1>1, LaunchInductive, PTL
-----------------------------------------------------------------------------
(* The saves of a notebook.  First what holds of one task by itself.       *)

(* How far a task is, and which round of reading it is in.                 *)
Placed(t) ==
  /\ t.kind = "replace_cells" => t.at \in {"sent", "ok"}
  /\ t.at = "sent" => t.round = 0
  /\ t.at = "roots" => t.round < Rounds
  /\ t.at \in {"export", "read", "open", "write", "end"} => t.round > 0

(* Every round that is not the last saw the views change.                  *)
SeesChanges(t, vs, n) ==
  /\ t.at = "roots" /\ t.round > 0 => t.since + t.round <= n
  /\ t.at \in {"export", "read"} =>
       /\ t.since + t.round <= n + 1
       /\ vs # t.roots => t.since + t.round <= n
  /\ t.at = "read" => t.saved = t.roots
  /\ t.at \in {"open", "write"} => (t.new < Rounds => t.text.saved = t.text.views)

(* What is written is the notebook as it is: it does not change meanwhile. *)
Writes(t, c) == t.at \in {"open", "write"} => t.text.cells = c

TasksOK ==
  \A i \in Ids : Placed(tasks[i]) /\ SeesChanges(tasks[i], views, changes) /\ Writes(tasks[i], cells)

(* The frontend waits for the last request, and a command sends two.       *)
Counted ==
  /\ waits \in {0, Len(tasks)} /\ Len(tasks) <= 2 * commands
  /\ waits # 0 /\ tasks[waits].kind = "replace_cells" => Len(tasks) < 2 * commands

Writing == \E i \in Ids : tasks[i].at = "write"

CutIsWritten == file.is = "cut" => Failed \/ Writing

(* A gate that was closed in time saw the last write end.                  *)
Gate ==
  /\ closed <=> phase \in {"waits", "ends", "gone"}
  /\ inTime => phase \in {"ends", "gone"} /\ Running = {}

SaveIInv == SaveTypeOK /\ Counted /\ TasksOK /\ CutIsWritten /\ Gate /\ ViewsHaveState
-----------------------------------------------------------------------------
(* A step of one task.                                                     *)

(* A task moves on to t: the others stay as they are.                      *)
LEMMA OneTaskMoves ==
  ASSUME tasks \in Seq(Task), NEW i \in Ids, NEW t \in Task, tasks' = [tasks EXCEPT ![i] = t]
  PROVE  /\ tasks' \in Seq(Task) /\ Len(tasks') = Len(tasks) /\ Ids' = Ids
         /\ tasks'[i] = t /\ \A j \in Ids : j # i => tasks'[j] = tasks[j]
<1>1. Ids = 1 .. Len(tasks) /\ Len(tasks) \in Nat
  BY DEF Ids
<1>2. tasks \in [Ids -> Task]
  BY <1>1
<1>3. tasks' \in [Ids -> Task] /\ Ids' = Ids
  BY <1>2 DEF Ids
<1>4. tasks' \in Seq(Task) /\ Len(tasks') = Len(tasks)
  BY <1>1, <1>3
<1> QED BY <1>2, <1>3, <1>4

(* A save that failed stays so.                                            *)
LEMMA FailedStays ==
  ASSUME tasks \in Seq(Task), NEW i \in Ids, NEW t \in Task, tasks' = [tasks EXCEPT ![i] = t],
         tasks[i].at # "error"
  PROVE  Failed => Failed'
<1>1. Ids' = Ids /\ \A j \in Ids : j # i => tasks'[j] = tasks[j]
  BY OneTaskMoves
<1> QED BY <1>1 DEF Failed

(* A step of a task that is not writing changes nothing but the task.      *)
LEMMA QuietMove ==
  ASSUME SaveIInv, NEW i \in Ids, NEW t \in Task, tasks' = [tasks EXCEPT ![i] = t],
         t.kind = tasks[i].kind, tasks[i].at \notin {"write", "error"},
         Placed(t), SeesChanges(t, views, changes), Writes(t, cells),
         i \in Running \/ ~closed \/ t.at \in {"ok", "error"},
         UNCHANGED <<frontend, cells, views, changes, file, exit>>
  PROVE  SaveIInv'
<1> USE DEF SaveIInv
<1>1. UNCHANGED <<buf, modified, commands, waits, cells, views, changes, file, closed, phase, inTime>>
  BY DEF frontend, exit
<1>2. /\ tasks' \in Seq(Task) /\ Len(tasks') = Len(tasks) /\ Ids' = Ids
      /\ tasks'[i] = t /\ \A j \in Ids : j # i => tasks'[j] = tasks[j]
  <2> HIDE DEF SaveIInv
  <2>1. tasks \in Seq(Task)
    BY DEF SaveIInv, SaveTypeOK
  <2> QED BY <2>1, OneTaskMoves, Zenon
<1>3. SaveTypeOK'
  BY <1>1, <1>2 DEF SaveTypeOK
<1>4. Counted'
  <2>1. waits # 0 => waits \in Ids /\ tasks'[waits].kind = tasks[waits].kind
    BY <1>2 DEF Counted, Ids, SaveTypeOK
  <2> QED BY <1>1, <1>2, <2>1 DEF Counted
<1>5. TasksOK'
  BY <1>1, <1>2 DEF TasksOK
<1>6. CutIsWritten'
  <2>1. Failed => Failed'
    <3>1. tasks \in Seq(Task) /\ tasks[i].at # "error"
      BY DEF SaveTypeOK
    <3> QED BY <3>1, FailedStays, Zenon
  <2>2. Writing => Writing'
    BY <1>2 DEF Writing
  <2> QED BY <1>1, <2>1, <2>2 DEF CutIsWritten
<1>7. Gate'
  <2>1. i \in Running \/ ~closed => (inTime => FALSE)
    BY DEF Gate
  <2>2. ASSUME t.at \in {"ok", "error"}, Running = {} PROVE Running' = {}
    BY <1>2, <2>2 DEF Running
  <2> QED BY <1>1, <2>1, <2>2 DEF Gate
<1>8. ViewsHaveState'
  BY <1>1 DEF ViewsHaveState
<1> QED BY <1>3, <1>4, <1>5, <1>6, <1>7, <1>8
-----------------------------------------------------------------------------
(* The steps of a save's task that touch neither the notebook nor the file.*)

LEMMA SaveKeeps == ASSUME SaveIInv, NEW i \in Ids, Save(i) PROVE SaveIInv'
<1> DEFINE l == IF closed THEN "error" ELSE "roots"
           t == [tasks[i] EXCEPT !.at = l]
<1>1. /\ tasks' = [tasks EXCEPT ![i] = t] /\ tasks[i].at = "sent" /\ tasks[i].kind = "save"
      /\ UNCHANGED <<frontend, cells, views, changes, file, exit>>
  BY DEF Save, At, Hold, Go
<1>2. tasks[i] \in Task
  BY DEF SaveIInv, SaveTypeOK, Ids
<1>3. l \in {"roots", "error"} /\ (~closed \/ l = "error")
  OBVIOUS
<1> HIDE DEF l
<1>4. t.kind = "save" /\ t.at = l /\ t.round = tasks[i].round
  BY <1>1, <1>2 DEF Task
<1>5. t \in Task
  BY <1>2, <1>3 DEF Task, Steps
<1>6. tasks[i].round = 0
  BY <1>1 DEF SaveIInv, TasksOK, Placed
<1>7. Placed(t) /\ SeesChanges(t, views, changes) /\ Writes(t, cells)
  BY <1>3, <1>4, <1>6, SaveAssumption DEF Placed, SeesChanges, Writes
<1> HIDE DEF t
<1> QED BY <1>1, <1>3, <1>4, <1>5, <1>7, QuietMove

LEMMA ReadRootsKeeps == ASSUME SaveIInv, NEW i \in Ids, ReadRoots(i) PROVE SaveIInv'
<1> DEFINE r == tasks[i].round + 1
           s == IF tasks[i].round = 0 THEN changes ELSE tasks[i].since
           t == [tasks[i] EXCEPT !.at = "export", !.round = r, !.roots = views, !.since = s]
<1>1. /\ tasks' = [tasks EXCEPT ![i] = t] /\ tasks[i].at = "roots"
      /\ UNCHANGED <<frontend, cells, views, changes, file, exit>>
  BY DEF ReadRoots, At
<1>2. tasks[i] \in Task
  BY DEF SaveIInv, SaveTypeOK, Ids
<1>3. tasks[i].round < Rounds /\ tasks[i].kind # "replace_cells"
  BY <1>1 DEF SaveIInv, TasksOK, Placed
<1>4. /\ t.kind = tasks[i].kind /\ t.at = "export" /\ t.round = r /\ t.roots = views
      /\ t.since = s
  <2> HIDE DEF r, s
  <2> QED BY <1>2 DEF Task
<1>5. /\ tasks[i].round \in 0 .. Rounds /\ changes \in 0 .. MaxChanges /\ tasks[i].since \in 0 .. MaxChanges
      /\ views \in SUBSET Views /\ MaxChanges \in Nat /\ Rounds \in Nat
  <2>1. tasks[i].round \in 0 .. Rounds /\ tasks[i].since \in 0 .. MaxChanges
    BY <1>2 DEF Task
  <2>2. changes \in 0 .. MaxChanges /\ views \in SUBSET Views
    BY DEF SaveIInv, SaveTypeOK
  <2> QED BY <2>1, <2>2, SaveAssumption
<1>6. r \in 0 .. Rounds /\ r > 0 /\ s \in 0 .. MaxChanges
  BY <1>3, <1>5
<1>7. t \in Task
  <2> HIDE DEF r, s
  <2> QED BY <1>2, <1>5, <1>6, SaveAssumption DEF Task, Steps
<1>8. tasks[i].round > 0 => tasks[i].since + tasks[i].round <= changes
  BY <1>1 DEF SaveIInv, TasksOK, SeesChanges
<1>9. Placed(t) /\ SeesChanges(t, views, changes) /\ Writes(t, cells)
  <2>1. Placed(t)
    BY <1>3, <1>4, <1>6 DEF Placed
  <2>2. SeesChanges(t, views, changes)
    BY <1>4, <1>8, <1>5 DEF SeesChanges
  <2> QED BY <1>4, <2>1, <2>2 DEF Writes
<1>10. i \in Running
  BY <1>1 DEF Running
<1> HIDE DEF t
<1> QED BY <1>1, <1>4, <1>7, <1>9, <1>10, QuietMove

LEMMA ExportSavedKeeps == ASSUME SaveIInv, NEW i \in Ids, ExportSaved(i) PROVE SaveIInv'
<1> DEFINE t == [tasks[i] EXCEPT !.at = "read", !.saved = tasks[i].roots]
<1>1. /\ tasks' = [tasks EXCEPT ![i] = t] /\ tasks[i].at = "export"
      /\ UNCHANGED <<frontend, cells, views, changes, file, exit>>
  BY DEF ExportSaved, At
<1>2. tasks[i] \in Task
  BY DEF SaveIInv, SaveTypeOK, Ids
<1>3. /\ t.kind = tasks[i].kind /\ t.at = "read" /\ t.round = tasks[i].round
      /\ t.roots = tasks[i].roots /\ t.since = tasks[i].since /\ t.saved = t.roots
  BY <1>2 DEF Task
<1>4. t \in Task
  BY <1>2 DEF Task, Steps
<1>5. Placed(tasks[i]) /\ SeesChanges(tasks[i], views, changes)
  BY DEF SaveIInv, TasksOK
<1>6. Placed(t) /\ SeesChanges(t, views, changes) /\ Writes(t, cells)
  BY <1>1, <1>3, <1>5 DEF Placed, SeesChanges, Writes
<1>7. i \in Running
  BY <1>1 DEF Running
<1> HIDE DEF t
<1> QED BY <1>1, <1>3, <1>4, <1>6, <1>7, QuietMove

LEMMA ReadNotebookKeeps == ASSUME SaveIInv, NEW i \in Ids, ReadNotebook(i) PROVE SaveIInv'
<1>1. tasks[i].at = "read" /\ UNCHANGED <<frontend, cells, views, changes, file, exit>>
  BY DEF ReadNotebook, At
<1>2. tasks[i] \in Task
  BY DEF SaveIInv, SaveTypeOK, Ids
<1>3. Placed(tasks[i]) /\ SeesChanges(tasks[i], views, changes)
  BY DEF SaveIInv, TasksOK
<1>4. i \in Running
  BY <1>1 DEF Running
<1>5. /\ tasks[i].round \in Nat /\ tasks[i].round > 0 /\ tasks[i].round <= Rounds
      /\ tasks[i].since \in Nat /\ changes \in 0 .. MaxChanges /\ MaxChanges \in Nat
      /\ Rounds \in Nat
  <2>1. tasks[i].round \in 0 .. Rounds /\ tasks[i].since \in 0 .. MaxChanges
    BY <1>2 DEF Task
  <2>2. tasks[i].round > 0
    BY <1>1, <1>3 DEF Placed
  <2>3. changes \in 0 .. MaxChanges
    BY DEF SaveIInv, SaveTypeOK
  <2>4. Rounds \in Nat /\ MaxChanges \in Nat
    BY SaveAssumption
  <2> QED BY <2>1, <2>2, <2>3, <2>4
<1>6. CASE Again(i)
  <2> DEFINE t == [tasks[i] EXCEPT !.at = "roots"]
  <2>1. tasks' = [tasks EXCEPT ![i] = t]
    BY <1>6 DEF ReadNotebook, Go
  <2>2. /\ t.kind = tasks[i].kind /\ t.at = "roots" /\ t.round = tasks[i].round
        /\ t.since = tasks[i].since
    BY <1>2 DEF Task
  <2>3. t \in Task
    BY <1>2 DEF Task, Steps
  <2>4. Placed(t) /\ SeesChanges(t, views, changes) /\ Writes(t, cells)
    BY <1>1, <1>3, <1>6, <2>2 DEF Placed, SeesChanges, Writes, Again
  <2> HIDE DEF t
  <2> QED BY <1>1, <1>4, <2>1, <2>2, <2>3, <2>4, QuietMove
<1>7. CASE ~Again(i)
  <2> DEFINE c == [cells |-> cells, views |-> views, saved |-> tasks[i].saved]
             t == [tasks[i] EXCEPT !.at = "open", !.text = c, !.new = changes - tasks[i].since]
  <2>1. tasks' = [tasks EXCEPT ![i] = t]
    BY <1>7 DEF ReadNotebook, Go
  <2>2. /\ t.kind = tasks[i].kind /\ t.at = "open" /\ t.round = tasks[i].round
        /\ t.text = c /\ t.new = changes - tasks[i].since
    BY <1>2 DEF Task
  <2>3. c \in Contents
    <3>1. cells \in 0 .. MaxEdits /\ views \in SUBSET Views
      BY DEF SaveIInv, SaveTypeOK
    <3>2. tasks[i].saved \in SUBSET Views
      BY <1>2 DEF Task
    <3> QED BY <3>1, <3>2 DEF Contents
  <2>4. /\ tasks[i].since + tasks[i].round <= changes + 1 /\ tasks[i].saved = tasks[i].roots
        /\ views # tasks[i].roots => tasks[i].since + tasks[i].round <= changes
    BY <1>1, <1>3 DEF SeesChanges
  <2>5. changes - tasks[i].since \in 0 .. MaxChanges
    BY <1>5, <2>4
  <2>6. t \in Task
    <3> HIDE DEF c
    <3> QED BY <1>2, <2>3, <2>5 DEF Task, Steps
  <2>7. t.new < Rounds => c.saved = c.views
    BY <1>5, <1>7, <2>2, <2>4 DEF Again
  <2>8. Placed(t) /\ SeesChanges(t, views, changes) /\ Writes(t, cells)
    BY <1>1, <1>3, <2>2, <2>7 DEF Placed, SeesChanges, Writes
  <2> HIDE DEF c, t
  <2> QED BY <1>1, <1>4, <2>1, <2>2, <2>6, <2>8, QuietMove
<1> QED BY <1>6, <1>7

LEMMA EndKeeps == ASSUME SaveIInv, NEW i \in Ids, End(i) PROVE SaveIInv'
<1> DEFINE t == [tasks[i] EXCEPT !.at = "ok"]
<1>1. /\ tasks' = [tasks EXCEPT ![i] = t] /\ tasks[i].at = "end"
      /\ UNCHANGED <<frontend, cells, views, changes, file, exit>>
  BY DEF End, At, Go
<1>2. tasks[i] \in Task
  BY DEF SaveIInv, SaveTypeOK, Ids
<1>3. t.kind = tasks[i].kind /\ t.at = "ok"
  BY <1>2 DEF Task
<1>4. t \in Task
  BY <1>2 DEF Task, Steps
<1>5. Placed(t) /\ SeesChanges(t, views, changes) /\ Writes(t, cells)
  BY <1>3 DEF Placed, SeesChanges, Writes
<1>6. i \in Running
  BY <1>1 DEF Running
<1> HIDE DEF t
<1> QED BY <1>1, <1>3, <1>4, <1>5, <1>6, QuietMove
-----------------------------------------------------------------------------
(* The steps that write the file.                                          *)

(* What a step of one task leaves alone, whatever it does to the file.     *)
LEMMA MoveKeepsOrder ==
  ASSUME SaveIInv, NEW i \in Ids, NEW t \in Task, tasks' = [tasks EXCEPT ![i] = t],
         t.kind = tasks[i].kind, i \in Running, UNCHANGED <<frontend, exit>>
  PROVE  Counted' /\ Gate'
<1>1. UNCHANGED <<buf, modified, commands, waits, closed, phase, inTime>>
  BY DEF frontend, exit
<1>2. /\ tasks' \in Seq(Task) /\ Len(tasks') = Len(tasks) /\ Ids' = Ids
      /\ tasks'[i] = t /\ \A j \in Ids : j # i => tasks'[j] = tasks[j]
  <2>1. tasks \in Seq(Task)
    BY DEF SaveIInv, SaveTypeOK
  <2> QED BY <2>1, OneTaskMoves, Zenon
<1>3. Counted'
  <2>1. waits # 0 => waits \in Ids /\ tasks'[waits].kind = tasks[waits].kind
    BY <1>2 DEF SaveIInv, Counted, Ids, SaveTypeOK
  <2> QED BY <1>1, <1>2, <2>1 DEF Counted, SaveIInv
<1>4. ~inTime
  BY DEF SaveIInv, Gate
<1>5. Gate'
  BY <1>1, <1>4 DEF Gate, SaveIInv
<1> QED BY <1>3, <1>5

LEMMA OpenKeeps == ASSUME SaveIInv, NEW i \in Ids, Open(i) PROVE SaveIInv'
<1> DEFINE t == [tasks[i] EXCEPT !.at = "write"]
<1>1. /\ tasks' = [tasks EXCEPT ![i] = t] /\ tasks[i].at = "open" /\ file' = Cut
      /\ UNCHANGED <<buf, modified, commands, waits, cells, views, changes, closed, phase, inTime>>
      /\ UNCHANGED <<frontend, exit>>
  BY DEF Open, At, Go, frontend, exit
<1>2. tasks \in Seq(Task) /\ tasks[i] \in Task
  BY DEF SaveIInv, SaveTypeOK, Ids
<1>3. /\ t.kind = tasks[i].kind /\ t.at = "write" /\ t.round = tasks[i].round
      /\ t.text = tasks[i].text /\ t.new = tasks[i].new
  BY <1>2 DEF Task
<1>4. t \in Task
  BY <1>2 DEF Task, Steps
<1>5. Placed(t) /\ SeesChanges(t, views, changes) /\ Writes(t, cells)
  BY <1>1, <1>3 DEF SaveIInv, TasksOK, Placed, SeesChanges, Writes
<1>6. i \in Running
  BY <1>1 DEF Running
<1> HIDE DEF t
<1>7. Counted' /\ Gate'
  BY <1>1, <1>3, <1>4, <1>6, MoveKeepsOrder
<1>8. /\ tasks' \in Seq(Task) /\ Len(tasks') = Len(tasks) /\ Ids' = Ids
      /\ tasks'[i] = t /\ \A j \in Ids : j # i => tasks'[j] = tasks[j]
  BY <1>1, <1>2, <1>4, OneTaskMoves, Zenon
<1>9. SaveTypeOK'
  BY <1>1, <1>8 DEF SaveIInv, SaveTypeOK
<1>10. TasksOK'
  BY <1>1, <1>5, <1>8 DEF SaveIInv, TasksOK
<1>11. CutIsWritten'
  BY <1>3, <1>8 DEF CutIsWritten, Writing
<1>12. ViewsHaveState'
  BY <1>1 DEF ViewsHaveState, Cut
<1> QED BY <1>7, <1>9, <1>10, <1>11, <1>12 DEF SaveIInv

LEMMA WriteKeeps == ASSUME SaveIInv, NEW i \in Ids, Write(i) PROVE SaveIInv'
<1>1. /\ tasks[i].at = "write"
      /\ UNCHANGED <<buf, modified, commands, waits, cells, views, changes, closed, phase, inTime>>
      /\ UNCHANGED <<frontend, exit>>
  BY DEF Write, At, frontend, exit
<1>2. tasks \in Seq(Task) /\ tasks[i] \in Task
  BY DEF SaveIInv, SaveTypeOK, Ids
<1>3. Placed(tasks[i]) /\ SeesChanges(tasks[i], views, changes)
  BY DEF SaveIInv, TasksOK
<1>4. i \in Running
  BY <1>1 DEF Running
<1>5. PICK l \in {"end", "error"} :
        /\ tasks' = [tasks EXCEPT ![i].at = l]
        /\ IF l = "error" THEN file' = file
           ELSE file' = IF file.is = "cut" \/ file.text = tasks[i].text
                        THEN Whole(tasks[i].text, tasks[i].new) ELSE Mixed
  BY DEF Write, Go
<1> DEFINE t == [tasks[i] EXCEPT !.at = l]
<1>6. tasks' = [tasks EXCEPT ![i] = t]
  BY <1>5
<1>7. t.kind = tasks[i].kind /\ t.at = l /\ t.round = tasks[i].round
  BY <1>2 DEF Task
<1>8. t \in Task
  BY <1>2 DEF Task, Steps
<1>9. tasks[i].kind = "save" /\ tasks[i].round > 0
  BY <1>1, <1>2, <1>3 DEF Placed, Task
<1>10. Placed(t) /\ SeesChanges(t, views, changes) /\ Writes(t, cells)
  BY <1>7, <1>9 DEF Placed, SeesChanges, Writes
<1> HIDE DEF t
<1>11. Counted' /\ Gate'
  BY <1>1, <1>4, <1>6, <1>7, <1>8, MoveKeepsOrder
<1>12. /\ tasks' \in Seq(Task) /\ Len(tasks') = Len(tasks) /\ Ids' = Ids
       /\ tasks'[i] = t /\ \A j \in Ids : j # i => tasks'[j] = tasks[j]
  BY <1>2, <1>6, <1>8, OneTaskMoves, Zenon
<1>13. SaveTypeOK'
  <2>1. file' \in {Whole(c, n) : c \in Contents, n \in 0 .. MaxChanges} \cup {Cut, Mixed}
    <3>1. tasks[i].text \in Contents /\ tasks[i].new \in 0 .. MaxChanges
      BY <1>2 DEF Task
    <3>2. file \in {Whole(c, n) : c \in Contents, n \in 0 .. MaxChanges} \cup {Cut, Mixed}
      BY DEF SaveIInv, SaveTypeOK
    <3> QED BY <1>5, <3>1, <3>2
  <2> QED BY <1>1, <1>12, <2>1 DEF SaveIInv, SaveTypeOK
<1>14. TasksOK'
  BY <1>1, <1>10, <1>12 DEF SaveIInv, TasksOK
<1>15. CutIsWritten'
  <2>1. CASE l = "error"
    BY <1>7, <1>9, <1>12, <2>1 DEF CutIsWritten, Failed
  <2>2. CASE l = "end"
    BY <1>5, <2>2 DEF CutIsWritten, Whole, Mixed
  <2> QED BY <2>1, <2>2
<1>16. ViewsHaveState'
  <2>1. tasks[i].new < Rounds => tasks[i].text.saved = tasks[i].text.views
    BY <1>1, <1>3 DEF SeesChanges
  <2> QED BY <1>5, <2>1 DEF SaveIInv, ViewsHaveState, Whole, Mixed
<1> QED BY <1>11, <1>13, <1>14, <1>15, <1>16 DEF SaveIInv
-----------------------------------------------------------------------------
(* The steps that change the notebook.                                     *)

(* A change of the views is a change that is seen.                         *)
LEMMA AChangeIsSeen ==
  ASSUME NEW t \in Task, NEW vs, NEW ws, NEW n \in Nat, SeesChanges(t, vs, n)
  PROVE  SeesChanges(t, ws, n + 1)
<1>1. t.since \in Nat /\ t.round \in Nat
  BY SaveAssumption DEF Task
<1> QED BY <1>1 DEF SeesChanges

LEMMA ReplaceCellsKeeps == ASSUME SaveIInv, NEW i \in Ids, ReplaceCells(i) PROVE SaveIInv'
<1> DEFINE t == [tasks[i] EXCEPT !.at = "ok"]
<1>1. /\ tasks' = [tasks EXCEPT ![i] = t] /\ tasks[i].at = "sent" /\ Reading = {}
      /\ cells' = tasks[i].cells
      /\ UNCHANGED <<buf, modified, commands, waits, file, closed, phase, inTime>>
  BY DEF ReplaceCells, At, Go, frontend, exit
<1>2. tasks \in Seq(Task) /\ tasks[i] \in Task
  BY DEF SaveIInv, SaveTypeOK, Ids
<1>3. \/ views' = views /\ changes' = changes
      \/ views' = {} /\ changes' = changes + 1 /\ changes < MaxChanges
  BY DEF ReplaceCells
<1>4. t.kind = tasks[i].kind /\ t.at = "ok"
  BY <1>2 DEF Task
<1>5. t \in Task
  BY <1>2 DEF Task, Steps
<1> HIDE DEF t
<1>6. /\ tasks' \in Seq(Task) /\ Len(tasks') = Len(tasks) /\ Ids' = Ids
      /\ tasks'[i] = t /\ \A j \in Ids : j # i => tasks'[j] = tasks[j]
  BY <1>1, <1>2, <1>5, OneTaskMoves, Zenon
<1>7. SaveTypeOK'
  <2>1. tasks[i].cells \in 0 .. MaxEdits
    BY <1>2 DEF Task
  <2>2. views' \in SUBSET Views /\ changes' \in 0 .. MaxChanges
    BY <1>3, SaveAssumption DEF SaveIInv, SaveTypeOK
  <2> QED BY <1>1, <1>6, <2>1, <2>2 DEF SaveIInv, SaveTypeOK
<1>8. Counted'
  <2>1. waits # 0 => waits \in Ids
    BY <1>2 DEF SaveIInv, Counted, Ids
  <2>2. waits # 0 => tasks'[waits].kind = tasks[waits].kind
    BY <1>4, <1>6, <2>1
  <2> QED BY <1>1, <1>6, <2>2 DEF Counted, SaveIInv
<1>9. TasksOK'
  <2> SUFFICES ASSUME NEW j \in Ids
               PROVE  /\ Placed(tasks'[j]) /\ SeesChanges(tasks'[j], views', changes')
                      /\ Writes(tasks'[j], cells')
    BY <1>6 DEF TasksOK
  <2>1. CASE j = i
    BY <1>4, <1>6, <2>1 DEF Placed, SeesChanges, Writes
  <2>2. CASE j # i
    <3>1. tasks'[j] = tasks[j] /\ tasks[j] \in Task /\ changes \in Nat
      BY <1>2, <1>6, <2>2, SaveAssumption DEF Ids, SaveIInv, SaveTypeOK
    <3>2. tasks[j].at \notin {"open", "write"}
      BY <1>1 DEF Reading
    <3>3. Placed(tasks[j]) /\ SeesChanges(tasks[j], views, changes)
      BY DEF SaveIInv, TasksOK
    <3>4. SeesChanges(tasks[j], views', changes')
      BY <1>3, <3>1, <3>3, AChangeIsSeen
    <3> QED BY <3>1, <3>2, <3>3, <3>4 DEF Writes
  <2> QED BY <2>1, <2>2
<1>10. CutIsWritten'
  <2>1. Failed => Failed'
    <3>1. tasks[i].at # "error"
      BY <1>1
    <3> QED BY <1>1, <1>2, <1>5, <3>1, FailedStays, Zenon
  <2>2. ~Writing
    BY <1>1 DEF Writing, Reading
  <2> QED BY <1>1, <2>1, <2>2 DEF CutIsWritten, SaveIInv
<1>11. Gate'
  <2>1. Running = {} => Running' = {}
    BY <1>4, <1>6 DEF Running
  <2> QED BY <1>1, <2>1 DEF Gate, SaveIInv
<1>12. ViewsHaveState'
  BY <1>1 DEF ViewsHaveState, SaveIInv
<1> QED BY <1>7, <1>8, <1>9, <1>10, <1>11, <1>12 DEF SaveIInv

LEMMA OutputKeeps == ASSUME SaveIInv, Output PROVE SaveIInv'
<1>1. /\ UNCHANGED <<buf, modified, commands, waits, tasks, cells, file, closed, phase, inTime>>
      /\ changes' = changes + 1 /\ changes < MaxChanges
  BY DEF Output, frontend, exit
<1>2. views' \in SUBSET Views
  <2>1. views \in SUBSET Views
    BY DEF SaveIInv, SaveTypeOK
  <2>2. PICK vs \in {views \cup {v} : v \in Views} \cup {{}} : views' = vs
    BY DEF Output
  <2> QED BY <2>1, <2>2
<1>3. changes \in Nat
  BY SaveAssumption DEF SaveIInv, SaveTypeOK
<1>4. SaveTypeOK'
  BY <1>1, <1>2, SaveAssumption DEF SaveIInv, SaveTypeOK
<1>5. TasksOK'
  <2> SUFFICES ASSUME NEW j \in Ids
               PROVE  /\ Placed(tasks[j]) /\ SeesChanges(tasks[j], views', changes')
                      /\ Writes(tasks[j], cells)
    BY <1>1 DEF TasksOK, Ids
  <2>1. tasks[j] \in Task
    BY DEF SaveIInv, SaveTypeOK, Ids
  <2>2. SeesChanges(tasks[j], views, changes)
    BY DEF SaveIInv, TasksOK
  <2>3. SeesChanges(tasks[j], views', changes')
    BY <1>1, <1>3, <2>1, <2>2, AChangeIsSeen
  <2> QED BY <2>3 DEF SaveIInv, TasksOK
<1>6. Counted' /\ CutIsWritten' /\ Gate' /\ ViewsHaveState'
  BY <1>1 DEF SaveIInv, Counted, CutIsWritten, Failed, Writing, Ids, Gate, Running, ViewsHaveState
<1> QED BY <1>4, <1>5, <1>6 DEF SaveIInv
-----------------------------------------------------------------------------
(* The steps of the frontend and of the exit.                              *)

(* A step that leaves the tasks, the notebook and the file as they are,    *)
(* and the frontend waiting for nothing or for what it waited for.         *)
LEMMA AsideKeeps ==
  ASSUME SaveIInv, UNCHANGED <<commands, tasks, cells, views, changes, file, exit>>,
         waits' \in {0, waits}, buf' \in 0 .. MaxEdits, modified' \in BOOLEAN
  PROVE  SaveIInv'
<1>1. UNCHANGED <<commands, tasks, cells, views, changes, file, closed, phase, inTime>>
  BY DEF exit
<1>2. SaveTypeOK'
  BY <1>1, SaveAssumption DEF SaveIInv, SaveTypeOK
<1>3. Counted'
  BY <1>1 DEF SaveIInv, Counted
<1>4. TasksOK' /\ CutIsWritten' /\ Gate' /\ ViewsHaveState'
  BY <1>1 DEF SaveIInv, TasksOK, CutIsWritten, Failed, Writing, Ids, Gate, Running, ViewsHaveState
<1> QED BY <1>2, <1>3, <1>4 DEF SaveIInv

(* A new request is not taken up yet, whichever it is.                     *)
LEMMA SendKeeps ==
  ASSUME SaveIInv, NEW kind \in {"replace_cells", "save"}, Send(kind),
         commands' \in 0 .. MaxCommands, Len(tasks) < 2 * commands',
         kind = "replace_cells" => Len(tasks) + 1 < 2 * commands',
         UNCHANGED <<buf, modified, cells, views, changes, file, exit>>
  PROVE  SaveIInv'
<1> DEFINE t == [kind |-> kind, cells |-> buf, at |-> "sent", round |-> 0, roots |-> {},
                 saved |-> {}, since |-> 0, text |-> None, new |-> 0]
<1>1. /\ UNCHANGED <<buf, modified, cells, views, changes, file, closed, phase, inTime>>
      /\ tasks' = Append(tasks, t) /\ waits' = Len(tasks) + 1
  BY DEF Send, exit
<1>2. tasks \in Seq(Task) /\ Len(tasks) \in Nat /\ MaxCommands \in Nat /\ commands' \in Nat
  BY SaveAssumption DEF SaveIInv, SaveTypeOK
<1>3. t \in Task
  <2>1. None \in Contents
    BY SaveAssumption DEF None, Contents
  <2>2. buf \in 0 .. MaxEdits
    BY DEF SaveIInv, SaveTypeOK
  <2> HIDE DEF None, Contents
  <2> QED BY <2>1, <2>2, SaveAssumption DEF Task, Steps
<1>4. t.kind = kind /\ t.at = "sent" /\ t.round = 0
  OBVIOUS
<1> HIDE DEF t
<1>5. /\ tasks' \in Seq(Task) /\ Len(tasks') = Len(tasks) + 1 /\ Ids' = Ids \cup {Len(tasks) + 1}
      /\ tasks'[Len(tasks) + 1] = t /\ \A j \in Ids : tasks'[j] = tasks[j]
  BY <1>1, <1>2, <1>3 DEF Ids
<1>6. SaveTypeOK'
  BY <1>1, <1>2, <1>5 DEF SaveIInv, SaveTypeOK
<1>7. Counted'
  BY <1>1, <1>2, <1>4, <1>5 DEF Counted
<1>8. TasksOK'
  <2>1. Placed(t) /\ SeesChanges(t, views, changes) /\ Writes(t, cells)
    BY <1>4 DEF Placed, SeesChanges, Writes
  <2> QED BY <1>1, <1>5, <2>1 DEF SaveIInv, TasksOK
<1>9. CutIsWritten' /\ ViewsHaveState'
  BY <1>1, <1>5 DEF SaveIInv, CutIsWritten, Failed, Writing, ViewsHaveState
<1>10. Gate'
  <2>1. Running = {} => Running' = {}
    BY <1>4, <1>5 DEF Running
  <2> QED BY <1>1, <2>1 DEF Gate, SaveIInv
<1> QED BY <1>6, <1>7, <1>8, <1>9, <1>10 DEF SaveIInv

LEMMA FrontendKeeps ==
  ASSUME SaveIInv, Edit \/ WriteCommand \/ Replaced \/ Saved \/ Refused \/ TimesOut
  PROVE  SaveIInv'
<1>1. /\ {MaxEdits, MaxCommands} \subseteq Nat /\ buf \in 0 .. MaxEdits /\ modified \in BOOLEAN
      /\ commands \in 0 .. MaxCommands /\ Len(tasks) \in Nat /\ Counted
  BY SaveAssumption DEF SaveIInv, SaveTypeOK
<1>2. CASE Edit
  BY <1>1, <1>2, AsideKeeps DEF Edit
<1>3. CASE WriteCommand
  <2>1. /\ waits = 0 /\ commands < MaxCommands /\ commands' = commands + 1 /\ Send("replace_cells")
        /\ UNCHANGED <<buf, modified, cells, views, changes, file, exit>>
    BY <1>3 DEF WriteCommand
  <2>2. commands' \in 0 .. MaxCommands /\ Len(tasks) + 1 < 2 * commands'
    BY <1>1, <2>1 DEF Counted
  <2> QED BY <1>1, <2>1, <2>2, SendKeeps
<1>4. CASE Replaced
  <2>1. /\ waits # 0 /\ tasks[waits].kind = "replace_cells" /\ commands' = commands /\ Send("save")
        /\ UNCHANGED <<buf, modified, cells, views, changes, file, exit>>
    BY <1>4 DEF Replaced, Answer
  <2> QED BY <1>1, <2>1, SendKeeps DEF Counted
<1>5. CASE Saved
  BY <1>1, <1>5, AsideKeeps DEF Saved
<1>6. CASE Refused
  BY <1>1, <1>6, AsideKeeps DEF Refused
<1>7. CASE TimesOut
  BY <1>1, <1>7, AsideKeeps DEF TimesOut
<1> QED BY <1>2, <1>3, <1>4, <1>5, <1>6, <1>7

LEMMA ExitKeeps ==
  ASSUME SaveIInv, ExitBegins \/ CloseGate \/ GateIdle \/ GateTimesOut \/ Ends
  PROVE  SaveIInv'
<1>1. UNCHANGED <<buf, modified, commands, waits, tasks, cells, views, changes, file>>
  BY DEF frontend, ExitBegins, CloseGate, GateIdle, GateTimesOut, Ends
<1> closed \in BOOLEAN /\ inTime \in BOOLEAN
  BY DEF SaveIInv, SaveTypeOK
<1> closed' \in BOOLEAN /\ inTime' \in BOOLEAN
  <2>1. closed' \in {TRUE, closed} /\ inTime' \in {TRUE, inTime}
    BY DEF ExitBegins, CloseGate, GateIdle, GateTimesOut, Ends
  <2> QED BY <2>1, Zenon
<1> phase' \in {"up", "exit", "waits", "ends", "gone"}
  BY DEF SaveIInv, SaveTypeOK, ExitBegins, CloseGate, GateIdle, GateTimesOut, Ends
<1>2. SaveTypeOK'
  BY <1>1 DEF SaveIInv, SaveTypeOK
<1>3. Counted' /\ TasksOK' /\ CutIsWritten' /\ ViewsHaveState'
  BY <1>1 DEF SaveIInv, Counted, TasksOK, CutIsWritten, Failed, Writing, Ids, ViewsHaveState
<1>4. Gate'
  <2>1. Running' = Running
    BY <1>1 DEF Running, Ids
  <2> QED BY <2>1 DEF SaveIInv, Gate, ExitBegins, CloseGate, GateIdle, GateTimesOut, Ends, Idle
<1> QED BY <1>2, <1>3, <1>4 DEF SaveIInv
-----------------------------------------------------------------------------
LEMMA SaveInitIInv == SaveInit => SaveIInv
<1> SUFFICES ASSUME SaveInit PROVE SaveIInv
  OBVIOUS
<1>1. tasks = <<>> /\ Ids = {} /\ Len(tasks) = 0 /\ waits = 0 /\ commands = 0
  BY DEF SaveInit, Ids
<1>2. SaveTypeOK
  <2>1. {MaxEdits, MaxCommands, MaxChanges} \subseteq Nat
    BY SaveAssumption
  <2>2. /\ buf \in 0 .. MaxEdits /\ commands \in 0 .. MaxCommands /\ waits \in 0 .. 2 * MaxCommands
        /\ cells \in 0 .. MaxEdits /\ changes \in 0 .. MaxChanges /\ Len(tasks) <= 2 * MaxCommands
    BY <1>1, <2>1 DEF SaveInit
  <2>3. tasks \in Seq(Task)
    BY <1>1
  <2>4. file \in {Whole(c, n) : c \in Contents, n \in 0 .. MaxChanges}
    <3>1. None \in Contents /\ 0 \in 0 .. MaxChanges
      BY <2>1 DEF None, Contents
    <3> QED BY <3>1 DEF SaveInit
  <2>5. modified \in BOOLEAN /\ closed \in BOOLEAN /\ inTime \in BOOLEAN
    BY DEF SaveInit
  <2>6. views \subseteq Views /\ phase \in {"up", "exit", "waits", "ends", "gone"}
    BY DEF SaveInit
  <2> QED BY <2>2, <2>3, <2>4, <2>5, <2>6 DEF SaveTypeOK
<1>3. Counted
  BY <1>1 DEF Counted
<1>4. TasksOK
  BY <1>1 DEF TasksOK
<1>5. CutIsWritten /\ ViewsHaveState
  BY DEF SaveInit, Whole, None, CutIsWritten, ViewsHaveState
<1>6. Gate
  BY DEF SaveInit, Gate
<1> QED BY <1>2, <1>3, <1>4, <1>5, <1>6 DEF SaveIInv

LEMMA SaveIInvIsInductive == SaveIInv /\ [SaveNext]_saveVars => SaveIInv'
<1> SUFFICES ASSUME SaveIInv, [SaveNext]_saveVars PROVE SaveIInv'
  OBVIOUS
<1>1. CASE Edit \/ WriteCommand \/ Replaced \/ Saved \/ Refused \/ TimesOut
  BY <1>1, FrontendKeeps
<1>2. ASSUME NEW i \in Ids, Tasks(i) PROVE SaveIInv'
  BY <1>2, ReplaceCellsKeeps, SaveKeeps, ReadRootsKeeps, ExportSavedKeeps, ReadNotebookKeeps,
     OpenKeeps, WriteKeeps, EndKeeps DEF Tasks
<1>3. CASE Output
  BY <1>3, OutputKeeps
<1>4. CASE ExitBegins \/ CloseGate \/ GateIdle \/ GateTimesOut \/ Ends
  BY <1>4, ExitKeeps
<1>5. CASE UNCHANGED saveVars
  <2>1. UNCHANGED <<commands, tasks, cells, views, changes, file, exit, waits, buf, modified>>
    BY <1>5 DEF saveVars, exit
  <2>2. buf \in 0 .. MaxEdits /\ modified \in BOOLEAN
    BY DEF SaveIInv, SaveTypeOK
  <2> QED BY <2>1, <2>2, AsideKeeps
<1> QED BY <1>1, <1>2, <1>3, <1>4, <1>5 DEF SaveNext

(* An exit that did not run out of time leaves no file cut short, and the  *)
(* file has the state of the widgets its views show, whatever the order in *)
(* which requests come to the notebook: write_to's rounds and the gate of  *)
(* writes.rs.                                                              *)
THEOREM SavesAreWhole == SaveSpec => []SaveInv
<1>1. SaveIInv => SaveInv
  <2>1. SaveIInv => NoneCutShort
    BY DEF SaveIInv, Gate, NoneCutShort, CutIsWritten, Writing, Running
  <2> QED BY <2>1 DEF SaveIInv, SaveInv
<1> QED BY <1>1, SaveInitIInv, SaveIInvIsInductive, PTL DEF SaveSpec
-----------------------------------------------------------------------------
(* Where the tasks of requests come to the notebook in the order sent, a   *)
(* save that was waited for comes after every replacement of the cells.    *)

(* The notebook's cells are in the file, or on their way there.            *)
CellsWritten == \/ file.is = "whole" /\ file.text.cells = cells
                \/ Writing
                \/ file.is = "mixed"

Pending == {i \in Ids : tasks[i].kind = "replace_cells" /\ tasks[i].at = "sent"}

WaitsForCells ==
  waits # 0 /\ tasks[waits].kind = "replace_cells" =>
    tasks[waits].cells = buf /\ (tasks[waits].at = "ok" => cells = buf /\ Pending = {})

WaitsForSave ==
  waits # 0 /\ tasks[waits].kind = "save" =>
    cells = buf /\ Pending = {} /\ (tasks[waits].at \in {"end", "ok"} => Failed \/ CellsWritten)

(* A buffer that counts as saved is the notebook, which is in the file;    *)
(* what may still replace the notebook is the buffer too.                  *)
Unmodified ==
  ~modified =>
    cells = buf /\ (\A i \in Pending : tasks[i].cells = buf) /\ (Failed \/ CellsWritten)

InOrder == WaitsForCells /\ WaitsForSave /\ Unmodified

(* What a step of a save's task does to the tasks.                         *)
SaveMoves(i) ==
  /\ Ids' = Ids /\ \A j \in Ids : j # i => tasks'[j] = tasks[j]
  /\ tasks'[i].kind = tasks[i].kind /\ tasks'[i].cells = tasks[i].cells
  /\ tasks[i].at # "error" /\ tasks'[i].at # "sent" /\ tasks[i].kind = "save"
  /\ UNCHANGED <<buf, modified, waits, cells>>

(* The cells stay written through a step of a save's task, and a write     *)
(* that ends has written them, unless it failed.                           *)
LEMMA SaveMovesKeepOrder ==
  ASSUME SaveIInv, InOrder, NEW i \in Ids, SaveMoves(i),
         CellsWritten => Failed' \/ CellsWritten',
         tasks'[i].at \in {"end", "ok"} /\ tasks[i].at \notin {"end", "ok"} => Failed' \/ CellsWritten'
  PROVE  InOrder'
<1>1. Pending' = Pending
  BY DEF SaveMoves, Pending
<1>2. Failed => Failed'
  BY DEF SaveMoves, Failed
<1>3. waits # 0 => waits \in Ids
  BY DEF SaveIInv, SaveTypeOK, Counted, Ids
<1>4. WaitsForCells'
  BY <1>1, <1>3 DEF SaveMoves, WaitsForCells, InOrder
<1>5. WaitsForSave'
  BY <1>1, <1>2, <1>3 DEF SaveMoves, WaitsForSave, InOrder
<1>6. Unmodified'
  <2>1. \A j \in Pending : tasks'[j].cells = tasks[j].cells
    BY DEF SaveMoves, Pending
  <2> QED BY <1>1, <1>2, <2>1 DEF SaveMoves, Unmodified, InOrder
<1> QED BY <1>4, <1>5, <1>6 DEF InOrder

LEMMA QuietKeepsOrder ==
  ASSUME SaveIInv, InOrder, NEW i \in Ids,
         Save(i) \/ ReadRoots(i) \/ ExportSaved(i) \/ ReadNotebook(i) \/ End(i)
  PROVE  InOrder'
<1>1. tasks \in Seq(Task) /\ tasks[i] \in Task /\ Placed(tasks[i])
  BY DEF SaveIInv, SaveTypeOK, TasksOK, Ids
<1>2. /\ UNCHANGED <<buf, modified, waits, cells, file>>
      /\ Ids' = Ids /\ \A j \in Ids : j # i => tasks'[j] = tasks[j]
  BY <1>1 DEF Save, ReadRoots, ExportSaved, ReadNotebook, End, Hold, Go, frontend, Ids
<1>3. tasks[i].at \in {"sent", "roots", "export", "read", "end"} /\ tasks[i].kind = "save"
  BY <1>1 DEF Save, ReadRoots, ExportSaved, ReadNotebook, End, At, Placed, Task
<1>4. /\ tasks'[i].kind = tasks[i].kind /\ tasks'[i].cells = tasks[i].cells
      /\ tasks'[i].at \in {"error", "roots", "export", "read", "open", "ok"}
      /\ tasks'[i].at = "ok" => tasks[i].at = "end"
  BY <1>1 DEF Save, ReadRoots, ExportSaved, ReadNotebook, End, At, Hold, Go, Task, Ids
<1>5. SaveMoves(i)
  BY <1>2, <1>3, <1>4 DEF SaveMoves
<1>6. CellsWritten => CellsWritten'
  BY <1>2, <1>3 DEF CellsWritten, Writing
<1> QED BY <1>3, <1>4, <1>5, <1>6, SaveMovesKeepOrder

LEMMA OpenKeepsOrder == ASSUME SaveIInv, InOrder, NEW i \in Ids, Open(i) PROVE InOrder'
<1>1. tasks \in Seq(Task) /\ tasks[i] \in Task /\ Placed(tasks[i])
  BY DEF SaveIInv, SaveTypeOK, TasksOK, Ids
<1>2. /\ UNCHANGED <<buf, modified, waits, cells>> /\ tasks[i].at = "open"
      /\ Ids' = Ids /\ \A j \in Ids : j # i => tasks'[j] = tasks[j]
      /\ tasks'[i].kind = tasks[i].kind /\ tasks'[i].cells = tasks[i].cells /\ tasks'[i].at = "write"
  BY <1>1 DEF Open, At, Go, frontend, Ids, Task
<1>3. SaveMoves(i)
  BY <1>1, <1>2 DEF SaveMoves, Placed, Task
<1>4. CellsWritten'
  BY <1>2 DEF CellsWritten, Writing
<1> QED BY <1>3, <1>4, SaveMovesKeepOrder

LEMMA WriteKeepsOrder == ASSUME SaveIInv, InOrder, NEW i \in Ids, Write(i) PROVE InOrder'
<1>1. /\ tasks \in Seq(Task) /\ tasks[i] \in Task /\ Placed(tasks[i])
      /\ Writes(tasks[i], cells)
  BY DEF SaveIInv, SaveTypeOK, TasksOK, Ids
<1>2. /\ UNCHANGED <<buf, modified, waits, cells>> /\ tasks[i].at = "write"
      /\ Ids' = Ids /\ \A j \in Ids : j # i => tasks'[j] = tasks[j]
      /\ tasks'[i].kind = tasks[i].kind /\ tasks'[i].cells = tasks[i].cells
      /\ tasks'[i].round = tasks[i].round /\ tasks'[i].at \in {"end", "error"}
  BY <1>1 DEF Write, At, Go, frontend, Ids, Task
<1>3. SaveMoves(i) /\ tasks[i].round > 0
  BY <1>1, <1>2 DEF SaveMoves, Placed, Task
<1>4. Failed' \/ CellsWritten'
  <2>1. CASE tasks'[i].at = "error"
    BY <1>2, <1>3, <2>1 DEF Failed, SaveMoves
  <2>2. CASE tasks'[i].at = "end"
    <3>1. file' = Whole(tasks[i].text, tasks[i].new) \/ file' = Mixed
      BY <1>1, <2>2 DEF Write, Go, Task, Ids
    <3>2. tasks[i].text.cells = cells
      BY <1>1, <1>2 DEF Writes
    <3> QED BY <1>2, <3>1, <3>2 DEF CellsWritten, Whole, Mixed
  <2> QED BY <1>2, <2>1, <2>2
<1> QED BY <1>3, <1>4, SaveMovesKeepOrder

(* The cells replaced are the buffer's: an older replacement that is still *)
(* on its way comes before the one waited for.                             *)
LEMMA ReplaceCellsKeepsOrder ==
  ASSUME Fifo, SaveIInv, InOrder, NEW i \in Ids, ReplaceCells(i)
  PROVE  InOrder'
<1>1. tasks \in Seq(Task) /\ tasks[i] \in Task /\ Len(tasks) \in Nat /\ Ids = 1 .. Len(tasks)
  BY DEF SaveIInv, SaveTypeOK, Ids
<1>2. /\ UNCHANGED <<buf, modified, waits, file>> /\ cells' = tasks[i].cells
      /\ tasks[i].at = "sent" /\ tasks[i].kind = "replace_cells"
      /\ Ids' = Ids /\ \A j \in Ids : j # i => tasks'[j] = tasks[j]
      /\ tasks'[i].kind = tasks[i].kind /\ tasks'[i].cells = tasks[i].cells /\ tasks'[i].at = "ok"
      /\ \A j \in 1 .. i - 1 : tasks[j].at # "sent"
  BY <1>1 DEF ReplaceCells, InTurn, At, Go, frontend, Ids, Task
<1>3. i \in Pending
  BY <1>2 DEF Pending
<1>4. Pending' \subseteq Pending
  BY <1>2 DEF Pending
<1>5. waits \in {0, Len(tasks)}
  BY DEF SaveIInv, Counted
<1>6. WaitsForCells'
  <2>1. CASE waits = i
    <3>1. Pending' = {}
      BY <1>1, <1>2, <1>5, <2>1 DEF Pending
    <3>2. tasks[i].cells = buf
      BY <1>1, <1>2, <2>1 DEF InOrder, WaitsForCells
    <3> QED BY <1>2, <2>1, <3>1, <3>2 DEF WaitsForCells
  <2>2. CASE waits # i
    BY <1>1, <1>2, <1>3, <1>5, <2>2 DEF WaitsForCells, InOrder
  <2> QED BY <2>1, <2>2
<1>7. WaitsForSave'
  <2>1. waits # 0 => tasks[waits].kind # "save"
    BY <1>3 DEF InOrder, WaitsForSave
  <2> QED BY <1>1, <1>2, <1>5, <2>1 DEF WaitsForSave
<1>8. Unmodified'
  <2>1. ~modified => cells' = cells
    BY <1>2, <1>3 DEF InOrder, Unmodified
  <2>2. Failed => Failed'
    BY <1>2 DEF Failed
  <2>3. cells' = cells /\ CellsWritten => CellsWritten'
    BY <1>2 DEF CellsWritten, Writing
  <2>4. \A j \in Pending' : tasks'[j].cells = tasks[j].cells
    BY <1>2 DEF Pending
  <2> QED BY <1>2, <1>4, <2>1, <2>2, <2>3, <2>4 DEF InOrder, Unmodified
<1> QED BY <1>6, <1>7, <1>8 DEF InOrder

LEMMA SendKeepsOrder ==
  ASSUME SaveIInv, NEW kind \in {"replace_cells", "save"}, Send(kind), Unmodified,
         kind = "save" => cells = buf /\ Pending = {},
         UNCHANGED <<buf, modified, cells, file>>
  PROVE  InOrder'
<1> DEFINE t == [kind |-> kind, cells |-> buf, at |-> "sent", round |-> 0, roots |-> {},
                 saved |-> {}, since |-> 0, text |-> None, new |-> 0]
           n == Len(tasks) + 1
<1>1. tasks \in Seq(Task) /\ Len(tasks) \in Nat
  BY DEF SaveIInv, SaveTypeOK
<1>2. tasks' = Append(tasks, t) /\ waits' = n
  BY DEF Send
<1>3. t.kind = kind /\ t.at = "sent" /\ t.cells = buf
  OBVIOUS
<1> HIDE DEF t
<1>4. /\ Ids' = Ids \cup {n} /\ tasks'[n] = t /\ \A j \in Ids : tasks'[j] = tasks[j]
      /\ n \notin Ids /\ n \in Ids'
  BY <1>1, <1>2 DEF Ids
<1>5. Pending' = Pending \cup (IF kind = "replace_cells" THEN {n} ELSE {})
  BY <1>3, <1>4 DEF Pending
<1>6. WaitsForCells' /\ WaitsForSave'
  BY <1>2, <1>3, <1>4, <1>5 DEF WaitsForCells, WaitsForSave
<1>7. Failed => Failed'
  BY <1>4 DEF Failed
<1>8. CellsWritten => CellsWritten'
  BY <1>4 DEF CellsWritten, Writing
<1>9. (\A j \in Pending : tasks[j].cells = buf) => \A j \in Pending' : tasks'[j].cells = buf
  <2>1. \A j \in Pending : tasks'[j].cells = tasks[j].cells
    BY <1>4 DEF Pending
  <2> QED BY <1>3, <1>4, <1>5, <2>1
<1>10. Unmodified'
  <2>1. modified' = modified /\ buf' = buf /\ cells' = cells
    OBVIOUS
  <2> QED BY <1>7, <1>8, <1>9, <2>1 DEF Unmodified
<1> QED BY <1>6, <1>10 DEF InOrder

LEMMA FrontendKeepsOrder ==
  ASSUME SaveIInv, InOrder, Edit \/ WriteCommand \/ Replaced \/ Saved \/ Refused \/ TimesOut
  PROVE  InOrder'
<1>1. CASE Edit
  BY <1>1 DEF Edit, InOrder, WaitsForCells, WaitsForSave, Unmodified
<1>2. CASE WriteCommand
  <2>1. Send("replace_cells") /\ UNCHANGED <<buf, modified, cells, file>>
    BY <1>2 DEF WriteCommand
  <2> QED BY <2>1, SendKeepsOrder DEF InOrder
<1>3. CASE Replaced
  <2>1. Send("save") /\ UNCHANGED <<buf, modified, cells, file>> /\ cells = buf /\ Pending = {}
    BY <1>3 DEF Replaced, Answer, InOrder, WaitsForCells
  <2> QED BY <2>1, SendKeepsOrder DEF InOrder
<1>4. CASE Saved
  <2>1. /\ cells = buf /\ Pending = {} /\ (Failed \/ CellsWritten) /\ waits' = 0
        /\ UNCHANGED <<buf, tasks, cells, file>>
    BY <1>4 DEF Saved, Done, Answer, InOrder, WaitsForSave
  <2>2. Pending' = Pending /\ Failed' = Failed /\ CellsWritten' = CellsWritten
    BY <2>1 DEF Pending, Failed, CellsWritten, Writing, Ids
  <2> QED BY <2>1, <2>2 DEF InOrder, WaitsForCells, WaitsForSave, Unmodified
<1>5. CASE Refused \/ TimesOut
  <2>1. waits' = 0 /\ UNCHANGED <<buf, modified, tasks, cells, file>>
    BY <1>5 DEF Refused, TimesOut
  <2>2. Pending' = Pending /\ Failed' = Failed /\ CellsWritten' = CellsWritten
    BY <2>1 DEF Pending, Failed, CellsWritten, Writing, Ids
  <2> QED BY <2>1, <2>2 DEF InOrder, WaitsForCells, WaitsForSave, Unmodified
<1> QED BY <1>1, <1>2, <1>3, <1>4, <1>5

LEMMA AsideKeepsOrder ==
  ASSUME InOrder, UNCHANGED <<buf, modified, waits, tasks, cells, file>> PROVE InOrder'
<1>1. Pending' = Pending /\ Failed' = Failed /\ CellsWritten' = CellsWritten
  BY DEF Pending, Failed, CellsWritten, Writing, Ids
<1> QED BY <1>1 DEF InOrder, WaitsForCells, WaitsForSave, Unmodified

LEMMA InOrderIsInductive ==
  ASSUME Fifo PROVE SaveIInv /\ InOrder /\ [SaveNext]_saveVars => InOrder'
<1> SUFFICES ASSUME SaveIInv, InOrder, [SaveNext]_saveVars PROVE InOrder'
  OBVIOUS
<1>1. CASE Edit \/ WriteCommand \/ Replaced \/ Saved \/ Refused \/ TimesOut
  BY <1>1, FrontendKeepsOrder
<1>2. ASSUME NEW i \in Ids, Tasks(i) PROVE InOrder'
  BY <1>2, ReplaceCellsKeepsOrder, QuietKeepsOrder, OpenKeepsOrder, WriteKeepsOrder DEF Tasks
<1>3. CASE Output \/ ExitBegins \/ CloseGate \/ GateIdle \/ GateTimesOut \/ Ends \/ UNCHANGED saveVars
  <2>1. UNCHANGED <<buf, modified, waits, tasks, cells, file>>
    BY <1>3 DEF Output, ExitBegins, CloseGate, GateIdle, GateTimesOut, Ends, saveVars, frontend
  <2> QED BY <2>1, AsideKeepsOrder
<1> QED BY <1>1, <1>2, <1>3 DEF SaveNext

(* A buffer that counts as saved is in the file, or a write of it is       *)
(* running, wherever the tasks of requests keep their order: the save      *)
(* marks the buffer unmodified (_save) only after the replacement of the   *)
(* cells and the write that it waited for.                                 *)
THEOREM SavedBufferIsInTheFile == ASSUME Fifo PROVE SaveSpec => []SavedIsWritten
<1>1. SaveInit => InOrder
  <2> SUFFICES ASSUME SaveInit PROVE InOrder
    OBVIOUS
  <2>1. Ids = {} /\ waits = 0 /\ cells = buf /\ file.is = "whole" /\ file.text.cells = cells
    BY DEF SaveInit, Ids, Whole, None
  <2> QED BY <2>1 DEF InOrder, WaitsForCells, WaitsForSave, Unmodified, CellsWritten, Pending
<1>2. SaveIInv /\ InOrder => SavedIsWritten
  BY DEF SaveIInv, TasksOK, Writes, InOrder, Unmodified, CellsWritten, Writing, SavedIsWritten
<1>3. SaveIInv /\ InOrder /\ [SaveNext]_saveVars => SaveIInv' /\ InOrder'
  BY SaveIInvIsInductive, InOrderIsInductive
<1> QED BY <1>1, <1>2, <1>3, SaveInitIInv, PTL DEF SaveSpec
=============================================================================
