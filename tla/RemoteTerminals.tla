-------------------------- MODULE RemoteTerminals --------------------------
(***************************************************************************)
(* Terminals on a remote host: the backend's PTY processes                 *)
(* (src/core/src/rpc/proc.rs), their output and exit sent as events by a   *)
(* task each, and the editor's buffers (src/lua/jupynvim/remote/term.lua), *)
(* which learn the process's id after its first events may have come.      *)
(* Terminals are numbered in the order they are opened in, which is that   *)
(* of their ids; output is a sequence of numbered chunks.                  *)
(***************************************************************************)
EXTENDS Integers, Sequences, FiniteSets, SequencesExt

CONSTANTS
  Terminals,      \* bound: terminals opened
  Chunks,         \* bound: chunks of output a process writes
  Stash,          \* events kept for a terminal not yet registered (200)
  ChunksInOrder   \* TRUE: the tasks of one reader send in the order made

ASSUME TerminalsAssumption ==
  /\ Terminals \in Nat /\ Chunks \in Nat /\ Stash \in Nat
  /\ ChunksInOrder \in BOOLEAN

VARIABLES
  proc,      \* the process of a terminal
  tty,       \* does it have the slave side open?
  reader,    \* the thread that reads its master side
  read,      \* chunks read so far
  table,     \* procs: ids with an entry
  tasks,     \* events whose task has not sent them yet
  wire,      \* answers and events on their way to the editor
  kills,     \* ids with a proc_kill on its way
  opening,   \* the terminal M.open waits in call_sync for, or 0
  answered,  \* terminals whose proc_spawn has been answered in the editor
  buffer,    \* the terminal's buffer in the editor
  orphans,   \* events stashed for it
  screen,    \* chunks shown in it
  hook       \* the terminal that has installed the handler, or 0

termVars == <<proc, tty, reader, read, table, tasks, wire, kills, opening,
              answered, buffer, orphans, screen, hook>>

Ids == 1..Terminals
Events == [id : Ids, kind : {"stdout"}, n : 1..Chunks]
            \cup [id : Ids, kind : {"exit", "answer"}, n : {0}]
Exit(i) == [id |-> i, kind |-> "exit", n |-> 0]
Answer(i) == [id |-> i, kind |-> "answer", n |-> 0]
Stdout(i, n) == [id |-> i, kind |-> "stdout", n |-> n]

TermTypeOK ==
  /\ proc \in [Ids -> {"none", "runs", "gone"}] /\ tty \in [Ids -> BOOLEAN]
  /\ reader \in [Ids -> {"none", "reads", "waits", "over"}]
  /\ read \in [Ids -> 0..Chunks]
  /\ table \subseteq Ids /\ kills \subseteq Ids /\ answered \subseteq Ids
  /\ tasks \in [Ids -> Seq(Events)] /\ wire \in Seq(Events)
  /\ opening \in 0..Terminals
  /\ buffer \in [Ids -> {"none", "opens", "failed", "alive", "ended", "wiped"}]
  /\ orphans \in [Ids -> Seq(Events)]
  /\ screen \in [Ids -> Seq(1..Chunks)]
  /\ hook \in 0..Terminals

TermInit ==
  /\ proc = [i \in Ids |-> "none"] /\ tty = [i \in Ids |-> FALSE]
  /\ reader = [i \in Ids |-> "none"] /\ read = [i \in Ids |-> 0]
  /\ table = {} /\ kills = {} /\ answered = {}
  /\ tasks = [i \in Ids |-> <<>>] /\ wire = <<>>
  /\ opening = 0
  /\ buffer = [i \in Ids |-> "none"]
  /\ orphans = [i \in Ids |-> <<>>] /\ screen = [i \in Ids |-> <<>>]
  /\ hook = 0

-----------------------------------------------------------------------------
(* The backend.                                                            *)

(* proc_spawn: the process, its entry and its reader.                      *)
Spawn(i) ==
  /\ buffer[i] \in {"opens", "failed"} /\ proc[i] = "none"
  /\ proc' = [proc EXCEPT ![i] = "runs"]
  /\ tty' = [tty EXCEPT ![i] = TRUE]
  /\ reader' = [reader EXCEPT ![i] = "reads"]
  /\ table' = table \cup {i}
  /\ tasks' = [tasks EXCEPT ![i] = <<Answer(i)>>]
  /\ UNCHANGED <<read, wire, kills, opening, answered, buffer, orphans, screen, hook>>

(* The reader makes a task of each chunk.                                  *)
Read(i) ==
  /\ reader[i] = "reads" /\ read[i] < Chunks
  /\ read' = [read EXCEPT ![i] = @ + 1]
  /\ tasks' = [tasks EXCEPT ![i] = Append(@, Stdout(i, read'[i]))]
  /\ UNCHANGED <<proc, tty, reader, table, wire, kills, opening, answered, buffer,
                 orphans, screen, hook>>

(* The process exits; or it lets go of its terminal only.                  *)
ProcExits(i) ==
  /\ proc[i] = "runs"
  /\ proc' = [proc EXCEPT ![i] = "gone"]
  /\ tty' = [tty EXCEPT ![i] = FALSE]
  /\ UNCHANGED <<reader, read, table, tasks, wire, kills, opening, answered, buffer,
                 orphans, screen, hook>>

ProcDetaches(i) ==
  /\ proc[i] = "runs" /\ tty[i]
  /\ tty' = [tty EXCEPT ![i] = FALSE]
  /\ UNCHANGED <<proc, reader, read, table, tasks, wire, kills, opening, answered,
                 buffer, orphans, screen, hook>>

(* End of file: the reader takes the child and waits for it, the child's   *)
(* lock held.                                                              *)
Eof(i) ==
  /\ reader[i] = "reads" /\ ~tty[i]
  /\ reader' = [reader EXCEPT ![i] = "waits"]
  /\ UNCHANGED <<proc, tty, read, table, tasks, wire, kills, opening, answered, buffer,
                 orphans, screen, hook>>

(* The child is reaped, and a task made of its exit.                       *)
Reap(i) ==
  /\ reader[i] = "waits" /\ proc[i] = "gone"
  /\ reader' = [reader EXCEPT ![i] = "over"]
  /\ tasks' = [tasks EXCEPT ![i] = Append(@, Exit(i))]
  /\ UNCHANGED <<proc, tty, read, table, wire, kills, opening, answered, buffer,
                 orphans, screen, hook>>

(* A task sends its answer or event; the exit's removes the entry.  The    *)
(* answer is the request's own task, and may come after events; events     *)
(* keep their order among themselves only by ChunksInOrder.                *)
Send(i) ==
  \E k \in DOMAIN tasks[i] :
    LET e == tasks[i][k] IN
    /\ ChunksInOrder /\ e.kind # "answer" =>
         \A j \in 1..k - 1 : tasks[i][j].kind = "answer"
    /\ tasks' = [tasks EXCEPT ![i] = RemoveAt(@, k)]
    /\ wire' = Append(wire, e)
    /\ table' = IF e.kind = "exit" THEN table \ {i} ELSE table
    /\ UNCHANGED <<proc, tty, reader, read, kills, opening, answered, buffer, orphans,
                   screen, hook>>

Killable(i) == i \in table /\ reader[i] = "reads"

(* proc_kill: with an entry, the child is killed unless its reader has     *)
(* taken it; while the reader holds the lock the call waits.               *)
Kill(i) ==
  /\ i \in kills
  /\ i \in table => reader[i] # "waits"
  /\ kills' = kills \ {i}
  /\ IF Killable(i)
     THEN /\ proc' = [proc EXCEPT ![i] = "gone"]
          /\ tty' = [tty EXCEPT ![i] = FALSE]
     ELSE UNCHANGED <<proc, tty>>
  /\ UNCHANGED <<reader, read, table, tasks, wire, opening, answered, buffer, orphans,
                 screen, hook>>

-----------------------------------------------------------------------------
(* The editor.                                                             *)

(* M.open: the buffer is made, and proc_spawn called and waited for.       *)
Open(i) ==
  /\ opening = 0 /\ buffer[i] = "none"
  /\ \A j \in 1..i - 1 : buffer[j] # "none"
  /\ opening' = i
  /\ buffer' = [buffer EXCEPT ![i] = "opens"]
  /\ UNCHANGED <<proc, tty, reader, read, table, tasks, wire, kills, answered, orphans,
                 screen, hook>>

(* call_sync gives up after 10 s, the answer on its way or not.            *)
GiveUp ==
  /\ opening # 0 /\ opening \notin answered
  /\ buffer' = [buffer EXCEPT ![opening] = "failed"]
  /\ opening' = 0
  /\ UNCHANGED <<proc, tty, reader, read, table, tasks, wire, kills, answered, orphans,
                 screen, hook>>

(* What an event does to a registered terminal.                            *)
Shown(scr, e) == IF e.kind = "stdout" THEN Append(scr, e.n) ELSE scr

Flushed(i) == FoldLeft(Shown, screen[i], orphans[i])

(* Mutant of EndFlushed: the flush looks for output only.                  *)
EndUnseen(i) == FALSE

EndFlushed(i) == \E k \in DOMAIN orphans[i] : orphans[i][k].kind = "exit"

(* The handler of proc_event: a registered terminal is shown the event,    *)
(* another's is stashed; without the handler it is dropped.                *)
TermHear ==
  /\ wire # <<>>
  /\ wire' = Tail(wire)
  /\ LET e == Head(wire) IN
     \/ /\ e.kind = "answer"
        /\ answered' = answered \cup {e.id}
        /\ UNCHANGED <<buffer, orphans, screen>>
     \/ /\ e.kind # "answer" /\ hook # 0 /\ buffer[e.id] = "alive"
        /\ screen' = [screen EXCEPT ![e.id] = Shown(@, e)]
        /\ buffer' = [buffer EXCEPT ![e.id] = IF e.kind = "exit" THEN "ended" ELSE @]
        /\ UNCHANGED <<answered, orphans>>
     \/ /\ e.kind # "answer" /\ hook # 0 /\ buffer[e.id] # "alive"
        /\ orphans' = IF Len(orphans[e.id]) < Stash
                      THEN [orphans EXCEPT ![e.id] = Append(@, e)] ELSE orphans
        /\ UNCHANGED <<answered, buffer, screen>>
     \/ /\ e.kind # "answer" /\ hook = 0
        /\ UNCHANGED <<answered, buffer, orphans, screen>>
  /\ UNCHANGED <<proc, tty, reader, read, table, tasks, kills, opening, hook>>

(* call_sync has its answer: the terminal is registered, the handler       *)
(* installed, and the stash flushed.                                       *)
Register ==
  /\ opening \in answered
  /\ hook' = IF hook = 0 THEN opening ELSE hook
  /\ screen' = [screen EXCEPT ![opening] = Flushed(opening)]
  /\ buffer' = [buffer EXCEPT ![opening] =
                  IF EndFlushed(opening) THEN "ended" ELSE "alive"]
  /\ orphans' = [orphans EXCEPT ![opening] = <<>>]
  /\ opening' = 0
  /\ UNCHANGED <<proc, tty, reader, read, table, tasks, wire, kills, answered>>

(* BufWipeout.                                                             *)
Wipe(i) ==
  /\ buffer[i] \in {"alive", "ended"}
  /\ buffer' = [buffer EXCEPT ![i] = "wiped"]
  /\ kills' = kills \cup {i}
  /\ UNCHANGED <<proc, tty, reader, read, table, tasks, wire, opening, answered, orphans,
                 screen, hook>>

-----------------------------------------------------------------------------

TermNext ==
  \/ \E i \in Ids : \/ Spawn(i) \/ Read(i) \/ ProcExits(i) \/ ProcDetaches(i) \/ Eof(i)
                    \/ Reap(i) \/ Send(i) \/ Kill(i) \/ Open(i) \/ Wipe(i)
  \/ GiveUp \/ TermHear \/ Register

(* Tasks and readers go on and the editor hears what it is sent; no        *)
(* process needs to exit, and no buffer to be wiped.                       *)
TermFair ==
  /\ WF_termVars(TermHear) /\ WF_termVars(Register)
  /\ \A i \in Ids :
       /\ WF_termVars(Spawn(i)) /\ WF_termVars(Eof(i)) /\ WF_termVars(Reap(i))
       /\ WF_termVars(Send(i)) /\ WF_termVars(Kill(i))

(* A terminal that shows the end of its process shows all it wrote before, *)
(* in the order written: what came before the terminal was registered is   *)
(* flushed ahead of what came after, and nothing is dropped in between.    *)
(* The terminal that installs the handler is excepted: what came for it    *)
(* earlier is dropped, the code's own fault.                               *)
EndShowsAll ==
  \A i \in Ids : buffer[i] = "ended" /\ i # hook => screen[i] = [k \in 1..read[i] |-> k]

(* The types, and the above.                                               *)
TerminalInv == TermTypeOK /\ EndShowsAll

(* A terminal whose process is gone is told of it, whether that came       *)
(* before its registration, in the middle of it or after; with the same    *)
(* exception.                                                              *)
EndIsTold ==
  \A i \in Ids : (buffer[i] = "alive" /\ proc[i] = "gone")
                   ~> (buffer[i] # "alive" \/ i = hook)

(* The process of a wiped terminal is killed, whatever its reader was      *)
(* doing when the kill came, unless it has let go of the terminal itself:  *)
(* then the reader waits for it with the child in its hands.               *)
WipedIsKilled == \A i \in Ids : (buffer[i] = "wiped") ~> ~tty[i]

(* Terminals and their processes end together: both of the above.          *)
TerminalsEnd == EndIsTold /\ WipedIsKilled
=============================================================================
