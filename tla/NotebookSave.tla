---------------------------- MODULE NotebookSave ----------------------------
(***************************************************************************)
(* Saving a notebook: the frontend's :w (lua/jupynvim/init.lua, _save),    *)
(* the requests it sends, each a task of its own in the backend            *)
(* (core/src/rpc/notebook.rs, session.rs), the file, and the gate the      *)
(* backend's exit closes (core/src/writes.rs, main.rs).                    *)
(*                                                                         *)
(* The kernel's outputs change the cells all the while.  A call the        *)
(* frontend waits for may time out and still be carried out.               *)
(***************************************************************************)
EXTENDS Integers, Sequences, FiniteSets

CONSTANTS
  Views,       \* widget views the outputs of cells may show
  Rounds,      \* ROUNDS of write_to
  MaxEdits,    \* bound: edits of the buffer
  MaxCommands, \* bound: :w commands
  MaxChanges,  \* bound: outputs of the kernel that show or drop views
  Timeouts,    \* whether a call the frontend waits for may take too long
  Failures,    \* whether a write may fail
  Fifo         \* the tasks of requests come to the notebook in the order sent

ASSUME SaveAssumption ==
  /\ {Rounds, MaxEdits, MaxCommands, MaxChanges} \subseteq Nat /\ Rounds > 0
  /\ {Timeouts, Failures, Fifo} \subseteq BOOLEAN

VARIABLES
  \* the frontend
  buf,       \* version of the buffer's text
  modified,  \* the buffer's 'modified'
  commands,  \* (bound) :w commands so far
  waits,     \* request it waits for, or 0
  \* the backend
  tasks,     \* the requests read so far, a task each
  cells,     \* version of the session's cells
  views,     \* views the cells' outputs show
  changes,   \* (bound) changes of views so far
  file,      \* the notebook's file
  closed,    \* closed of the gate
  phase,     \* of the backend: "up", "exit", "waits" at the gate, "ends", "gone"
  inTime     \* the gate found no write running

saveVars == <<buf, modified, commands, waits, tasks, cells, views, changes, file, closed, phase, inTime>>
frontend == <<buf, modified, commands, waits>>
exit == <<closed, phase, inTime>>

(* What is written: the cells, the views their outputs show, the views     *)
(* whose widget state goes with them.                                      *)
Contents == [cells : 0 .. MaxEdits, views : SUBSET Views, saved : SUBSET Views]
None == [cells |-> 0, views |-> {}, saved |-> {}]
Whole(c, n) == [is |-> "whole", text |-> c, new |-> n]
Cut == [is |-> "cut", text |-> None, new |-> 0]      \* of a write that is not over
Mixed == [is |-> "mixed", text |-> None, new |-> 0]  \* of two writes that ran into each other
Steps == {"sent", "roots", "export", "read", "open", "write", "end", "ok", "error"}
Task == [kind : {"replace_cells", "save"}, cells : 0 .. MaxEdits, at : Steps, round : 0 .. Rounds,
         roots : SUBSET Views, saved : SUBSET Views, since : 0 .. MaxChanges,
         text : Contents, new : 0 .. MaxChanges]

Ids == DOMAIN tasks
At(i, l) == phase # "gone" /\ i \in Ids /\ tasks[i].at = l
Go(i, l) == tasks' = [tasks EXCEPT ![i].at = l]

(* A read of the notebook's lock is kept while the file is written; the    *)
(* changes of the notebook need the lock alone.                            *)
Reading == {i \in Ids : tasks[i].at \in {"open", "write", "end"}}
Running == {i \in Ids : tasks[i].at \in {"roots", "export", "read", "open", "write", "end"}}

SaveTypeOK ==
  /\ buf \in 0 .. MaxEdits /\ modified \in BOOLEAN /\ commands \in 0 .. MaxCommands
  /\ waits \in 0 .. 2 * MaxCommands
  /\ tasks \in Seq(Task) /\ Len(tasks) <= 2 * MaxCommands
  /\ cells \in 0 .. MaxEdits /\ views \subseteq Views /\ changes \in 0 .. MaxChanges
  /\ file \in {Whole(c, n) : c \in Contents, n \in 0 .. MaxChanges} \cup {Cut, Mixed}
  /\ closed \in BOOLEAN /\ phase \in {"up", "exit", "waits", "ends", "gone"} /\ inTime \in BOOLEAN

SaveInit ==
  /\ buf = 0 /\ modified = FALSE /\ commands = 0 /\ waits = 0
  /\ tasks = <<>> /\ cells = 0 /\ views = {} /\ changes = 0
  /\ file = Whole(None, 0)
  /\ closed = FALSE /\ phase = "up" /\ inTime = FALSE
-----------------------------------------------------------------------------
(* The frontend.                                                           *)

Edit ==
  /\ waits = 0 /\ buf < MaxEdits
  /\ buf' = buf + 1 /\ modified' = TRUE
  /\ UNCHANGED <<commands, waits, tasks, cells, views, changes, file, exit>>

Send(kind) ==
  /\ tasks' = Append(tasks, [kind |-> kind, cells |-> buf, at |-> "sent", round |-> 0, roots |-> {},
                             saved |-> {}, since |-> 0, text |-> None, new |-> 0])
  /\ waits' = Len(tasks) + 1

WriteCommand ==
  /\ waits = 0 /\ commands < MaxCommands /\ phase # "gone"
  /\ commands' = commands + 1
  /\ Send("replace_cells")
  /\ UNCHANGED <<buf, modified, cells, views, changes, file, exit>>

Answer(kind, l) == waits # 0 /\ tasks[waits].kind = kind /\ tasks[waits].at = l

(* The cells are the backend's: the save is asked for next.                *)
Replaced ==
  /\ Answer("replace_cells", "ok") /\ phase # "gone"
  /\ Send("save")
  /\ UNCHANGED <<buf, modified, commands, cells, views, changes, file, exit>>

(* Mutant of Done: the error of the save is not looked at.                 *)
DoneAnyway == waits # 0 /\ tasks[waits].kind = "save" /\ tasks[waits].at \in {"ok", "error"}

Done == Answer("save", "ok")

(* The save is done: the buffer is as saved.                               *)
Saved ==
  /\ Done
  /\ modified' = FALSE /\ waits' = 0
  /\ UNCHANGED <<buf, commands, tasks, cells, views, changes, file, exit>>

Refused ==
  /\ waits # 0 /\ tasks[waits].at = "error"
  /\ waits' = 0
  /\ UNCHANGED <<buf, modified, commands, tasks, cells, views, changes, file, exit>>

(* It takes too long, or the backend is gone: the command ends.            *)
TimesOut ==
  /\ waits # 0 /\ (Timeouts \/ phase = "gone")
  /\ waits' = 0
  /\ UNCHANGED <<buf, modified, commands, tasks, cells, views, changes, file, exit>>
-----------------------------------------------------------------------------
(* The backend's tasks.                                                    *)

InTurn(i) == Fifo => \A j \in 1 .. i - 1 : tasks[j].at # "sent"

(* replace_cells: the whole cell list.  Outputs stay with their cells, and *)
(* go with those that are no longer in it.                                 *)
ReplaceCells(i) ==
  /\ At(i, "sent") /\ tasks[i].kind = "replace_cells" /\ InTurn(i)
  /\ Reading = {}
  /\ cells' = tasks[i].cells
  /\ \/ UNCHANGED <<views, changes>>
     \/ /\ views # {} /\ changes < MaxChanges
        /\ views' = {} /\ changes' = changes + 1
  /\ Go(i, "ok")
  /\ UNCHANGED <<frontend, file, exit>>

(* hold: a write starts only while the gate is open.                       *)
Hold(i) == Go(i, IF closed THEN "error" ELSE "roots")

Save(i) ==
  /\ At(i, "sent") /\ tasks[i].kind = "save" /\ InTurn(i)
  /\ Hold(i)
  /\ UNCHANGED <<frontend, cells, views, changes, file, exit>>

(* write_to: the views are read, then the store, then the notebook, with   *)
(* the locks let go in between.                                            *)
ReadRoots(i) ==
  /\ At(i, "roots")
  /\ tasks' = [tasks EXCEPT ![i].at = "export", ![i].round = @ + 1, ![i].roots = views,
                            ![i].since = IF tasks[i].round = 0 THEN changes ELSE @]
  /\ UNCHANGED <<frontend, cells, views, changes, file, exit>>

ExportSaved(i) ==
  /\ At(i, "export")
  /\ tasks' = [tasks EXCEPT ![i].at = "read", ![i].saved = tasks[i].roots]
  /\ UNCHANGED <<frontend, cells, views, changes, file, exit>>

(* A view appeared between the reads.                                      *)
Again(i) == tasks[i].round < Rounds /\ views # tasks[i].roots

ReadNotebook(i) ==
  /\ At(i, "read")
  /\ IF Again(i) THEN Go(i, "roots")
     ELSE tasks' = [tasks EXCEPT ![i].at = "open",
                      ![i].text = [cells |-> cells, views |-> views, saved |-> tasks[i].saved],
                      ![i].new = changes - tasks[i].since]
  /\ UNCHANGED <<frontend, cells, views, changes, file, exit>>

(* write_with_metadata (std::fs::write): the file is opened, which cuts    *)
(* it, and written; two writes at once leave the longer one's rest.        *)
Open(i) ==
  /\ At(i, "open")
  /\ file' = Cut
  /\ Go(i, "write")
  /\ UNCHANGED <<frontend, cells, views, changes, exit>>

Write(i) ==
  /\ At(i, "write")
  /\ \/ /\ file' = IF file.is = "cut" \/ file.text = tasks[i].text
                   THEN Whole(tasks[i].text, tasks[i].new) ELSE Mixed
        /\ Go(i, "end")
     \/ Failures /\ Go(i, "error") /\ UNCHANGED file
  /\ UNCHANGED <<frontend, cells, views, changes, exit>>

(* The locks and the hold on the gate go, and the answer is sent.          *)
End(i) ==
  /\ At(i, "end")
  /\ Go(i, "ok")
  /\ UNCHANGED <<frontend, cells, views, changes, file, exit>>

(* apply_event, clear_outputs: an output shows a view, or drops them.      *)
Output ==
  /\ phase # "gone" /\ changes < MaxChanges /\ Reading = {}
  /\ changes' = changes + 1
  /\ \E vs \in {views \cup {v} : v \in Views} \cup {{}} : vs # views /\ views' = vs
  /\ UNCHANGED <<frontend, tasks, cells, file, exit>>
-----------------------------------------------------------------------------
(* The exit: stdin is closed or a signal comes, the gate is closed, and    *)
(* the writes running are waited for, for so long.  Then the process ends  *)
(* with whatever still runs.                                               *)

ExitBegins ==
  /\ phase = "up"
  /\ phase' = "exit"
  /\ UNCHANGED <<frontend, tasks, cells, views, changes, file, closed, inTime>>

CloseGate ==
  /\ phase = "exit"
  /\ closed' = TRUE /\ phase' = "waits"
  /\ UNCHANGED <<frontend, tasks, cells, views, changes, file, inTime>>

(* Mutant of Idle: it does not wait.                                       *)
IdleAlways == TRUE

Idle == Running = {}

GateIdle ==
  /\ phase = "waits" /\ Idle
  /\ phase' = "ends" /\ inTime' = TRUE
  /\ UNCHANGED <<frontend, tasks, cells, views, changes, file, closed>>

GateTimesOut ==
  /\ phase = "waits" /\ Running # {}
  /\ phase' = "ends"
  /\ UNCHANGED <<frontend, tasks, cells, views, changes, file, closed, inTime>>

Ends ==
  /\ phase = "ends"
  /\ phase' = "gone"
  /\ UNCHANGED <<frontend, tasks, cells, views, changes, file, closed, inTime>>
-----------------------------------------------------------------------------
Tasks(i) ==
  \/ ReplaceCells(i) \/ Save(i) \/ ReadRoots(i) \/ ExportSaved(i) \/ ReadNotebook(i)
  \/ Open(i) \/ Write(i) \/ End(i)

SaveNext ==
  \/ Edit \/ WriteCommand \/ Replaced \/ Saved \/ Refused \/ TimesOut
  \/ \E i \in Ids : Tasks(i)
  \/ Output
  \/ ExitBegins \/ CloseGate \/ GateIdle \/ GateTimesOut \/ Ends

SaveSpec == SaveInit /\ [][SaveNext]_saveVars
-----------------------------------------------------------------------------
Failed == \E i \in Ids : tasks[i].kind = "save" /\ tasks[i].at = "error" /\ tasks[i].round > 0

(* A buffer that counts as saved is in the file as it is, or a write of it *)
(* is running that the exit waits for: "if we return early ... the file is *)
(* left in whatever state was before this write" (_save, call_sync).  A    *)
(* write that failed leaves the file cut, and two writes at once of        *)
(* different widget state (a save timed out and was asked for again) mix.  *)
SavedIsWritten ==
  ~modified /\ ~Failed =>
    \/ file.is = "whole" /\ file.text.cells = buf
    \/ \E i \in Ids : tasks[i].at = "write" /\ tasks[i].text.cells = buf
    \/ file.is = "mixed"

(* An exit that did not run out of time leaves no file cut short, unless   *)
(* the write itself failed: every save taken up before the gate closed is  *)
(* written to its end, and none begins later (writes.rs).                  *)
NoneCutShort == phase = "gone" /\ inTime /\ ~Failed => file.is # "cut"

(* The widget state in the file is that of the views of its cells, as long *)
(* as fewer changes than rounds came between the reads (write_to).         *)
ViewsHaveState ==
  file.is = "whole" /\ file.new < Rounds => file.text.saved = file.text.views

(* The variables keep their types, an exit in time cuts no file short, and *)
(* the file has the state its views need.                                  *)
SaveInv == SaveTypeOK /\ NoneCutShort /\ ViewsHaveState
=============================================================================
