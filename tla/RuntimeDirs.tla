----------------------------- MODULE RuntimeDirs -----------------------------
(***************************************************************************)
(* The runtime dir of a backend (core/src/connfile.rs): the dir in a       *)
(* shared root that holds its kernels' connection files, with the lock     *)
(* file it keeps locked while it runs.                                     *)
(*                                                                         *)
(* The backend's kernel starts make the dir, once, and make it again when  *)
(* it was removed under them; its exit removes it.  When the backend is    *)
(* killed its guard process does, and the sweeps of other backends remove  *)
(* every dir that looks dead.  All of them work on the file system one     *)
(* system call at a time, and only the locks keep them apart.              *)
(***************************************************************************)
EXTENDS Integers, FiniteSets

CONSTANTS
  Starts,     \* kernel starts of the backend, a thread each
  Sweepers,   \* the start sweeps of other backends of this host
  None,       \* nobody
  Names,      \* the names the backend's tries may give its dir, one each
  Dirs,       \* bound: dirs (inodes) made in all
  Files,      \* bound: lock files (inodes) made in all
  CreateTries,\* CREATE_TRIES
  LockKinds,  \* whether flock works in this file system: TRUE, FALSE or either
  Cleanings,  \* bound: removals of the dir by something else (a person, a cleaner)
  Crashes,    \* whether a backend that sweeps may end in the middle of it
  Stalls,     \* whether a dir may get old while it is being made
  Prompt      \* a remover that took a dir is done before it is made again or 60 s old

Guard == "guard"
Exit == "exit"
Own == Starts \cup {Exit}            \* the backend's threads that may remove its dir
Removers == Own \cup Sweepers \cup {Guard}

ASSUME DirsAssumption ==
  /\ CreateTries \in Nat /\ Cleanings \in Nat
  /\ LockKinds \subseteq BOOLEAN /\ {Crashes, Stalls, Prompt} \subseteq BOOLEAN
  /\ Names \cup Dirs \cup Files \subseteq Nat \ {0}
  /\ Names \cap Dirs = {} /\ Names \cap Files = {} /\ Dirs \cap Files = {}
  /\ None \notin Removers /\ "backend" \notin Removers \cup {None}
  /\ Starts \cap Sweepers = {} /\ {Guard, Exit} \cap (Starts \cup Sweepers) = {}

VARIABLES
  \* the file system
  entry,    \* name -> the dir it names in the root, or 0
  lockOf,   \* dir -> the file named lock in it, or 0
  kern,     \* dir -> the kernel dirs in it, by the start they were made for
  old,      \* the dirs with no lock file that nothing changed for 60 s
  holder,   \* lock file -> who has it locked
  made,     \* the names and inodes used so far
  locks,    \* whether locking works
  cleaned,  \* (bound) removals by something else
  \* the backend
  alive,    \* "up"; "dead" when its process ended, "gone" when it was reaped
  exiting,  \* EXITING
  making,   \* who holds MAKING
  name,     \* the name of the published runtime's backend dir, or 0
  held,     \* the lock file in its `held`, or 0
  mutex,    \* who holds the mutex of `held`
  at, dir, file, again, tries, try,   \* of a kernel start: see the steps below
  \* the removals
  rat, rname, rdir, rfile, claim

fs == <<entry, lockOf, kern, old, holder, made>>
runtime == <<exiting, making, name, held, mutex>>
start == <<at, dir, file, again, tries, try>>
removal == <<rat, rname, rdir, rfile, claim>>
vars == <<fs, locks, cleaned, alive, runtime, start, removal>>

AtSteps == {"idle", "make", "mkdir", "open", "lock", "flock", "verify", "publish", "guard",
            "check", "kdir", "kmake", "check2", "again", "remake", "rest", "drop", "got", "failed"}
Removing == {"clear", "unlink", "rmdir", "release", "reclear", "clear2", "rmdir2"}
RmSteps == Removing \cup {"idle", "wait", "flag", "remove", "look", "stat", "age", "open", "create", "own",
                       "try", "done", "late", "died"}

TypeOK ==
  /\ entry \in [Names -> Dirs \cup {0}] /\ lockOf \in [Dirs -> Files \cup {0}]
  /\ kern \in [Dirs -> SUBSET Starts] /\ old \subseteq Dirs
  /\ holder \in [Files -> Removers \cup {None, "backend"}]
  /\ made \subseteq Names \cup Dirs \cup Files /\ locks \in BOOLEAN /\ cleaned \in 0 .. Cleanings
  /\ alive \in {"up", "dead", "gone"} /\ exiting \in BOOLEAN
  /\ making \in Starts \cup {None} /\ mutex \in Starts \cup {None}
  /\ name \in Names \cup {0} /\ held \in Files \cup {0}
  /\ at \in [Starts -> AtSteps] /\ dir \in [Starts -> Dirs \cup {0}]
  /\ file \in [Starts -> Files \cup {0}] /\ again \in [Starts -> BOOLEAN]
  /\ tries \in [Starts -> 0 .. CreateTries] /\ try \in [Starts -> Names \cup {0}]
  /\ rat \in [Removers -> RmSteps] /\ rname \in [Removers -> Names \cup {0}]
  /\ rdir \in [Removers -> Dirs \cup {0}] /\ rfile \in [Removers -> Files \cup {0}]
  /\ claim \in [Removers -> BOOLEAN]

Init ==
  /\ entry = [n \in Names |-> 0] /\ lockOf = [d \in Dirs |-> 0]
  /\ kern = [d \in Dirs |-> {}] /\ old = {} /\ holder = [f \in Files |-> None]
  /\ made = {} /\ locks \in LockKinds /\ cleaned = 0
  /\ alive = "up" /\ exiting = FALSE /\ making = None
  /\ name = 0 /\ held = 0 /\ mutex = None
  /\ at = [s \in Starts |-> "idle"] /\ dir = [s \in Starts |-> 0]
  /\ file = [s \in Starts |-> 0] /\ again = [s \in Starts |-> FALSE]
  /\ tries = [s \in Starts |-> 0] /\ try = [s \in Starts |-> 0]
  /\ rat = [a \in Removers |-> "idle"] /\ rname = [a \in Removers |-> 0]
  /\ rdir = [a \in Removers |-> 0] /\ rfile = [a \in Removers |-> 0]
  /\ claim = [a \in Removers |-> FALSE]
-----------------------------------------------------------------------------
(* The file system.                                                        *)
Linked(d) == \E n \in Names : entry[n] = d
Empty(d) == lockOf[d] = 0 /\ kern[d] = {}

(* open_held: the dir at the name, when its file named lock is this one.   *)
HeldAt(n, f) == f # 0 /\ entry[n] # 0 /\ lockOf[entry[n]] = f

(* The next name, dir or lock file that was not in use yet.                *)
Fresh(S) == {x \in S \ made : \A y \in S \ made : x <= y}

Go(s, l) == at' = [at EXCEPT ![s] = l]
From(s, l) == alive = "up" /\ at[s] = l
RGo(a, l) == rat' = [rat EXCEPT ![a] = l]
RFrom(a, l) == (a \in Own => alive = "up") /\ rat[a] = l
Removes(a) == (a \in Own => alive = "up") /\ rat[a] \in Removing
Unlocked(f) == [g \in Files |-> IF g = f THEN None ELSE holder[g]]
-----------------------------------------------------------------------------
(* A kernel start makes the runtime (runtime, BackendDir::create).         *)

Begin(s) ==
  /\ From(s, "idle")
  /\ Go(s, IF name # 0 THEN "check" ELSE "make")
  /\ UNCHANGED <<fs, locks, cleaned, alive, runtime, dir, file, again, tries, try, removal>>

(* Under MAKING, unless the exit began.                                    *)
Make(s) ==
  /\ From(s, "make") /\ making = None
  /\ \/ name # 0 /\ Go(s, "check") /\ UNCHANGED making
     \/ name = 0 /\ exiting /\ Go(s, "failed") /\ UNCHANGED making
     \/ name = 0 /\ ~exiting /\ Go(s, "mkdir") /\ making' = s
  /\ UNCHANGED <<fs, locks, cleaned, alive, exiting, name, held, mutex, dir, file, again, tries,
                 try, removal>>

NewDir(n, d) ==
  /\ d \in Fresh(Dirs)
  /\ made' = made \cup {n, d}
  /\ entry' = [entry EXCEPT ![n] = d]

Mkdir(s) ==
  /\ From(s, "mkdir")
  /\ \/ /\ tries[s] < CreateTries
        /\ \E n \in Fresh(Names), d \in Dirs : NewDir(n, d) /\ try' = [try EXCEPT ![s] = n]
        /\ tries' = [tries EXCEPT ![s] = @ + 1]
        /\ Go(s, "open")
        /\ UNCHANGED making
     \/ /\ tries[s] = CreateTries
        /\ Go(s, "failed") /\ making' = None
        /\ UNCHANGED <<entry, made, tries, try>>
  /\ UNCHANGED <<lockOf, kern, old, holder, locks, cleaned, alive, exiting, name, held, mutex,
                 dir, file, again, removal>>

(* The dir was taken while it was made: another name is tried; or made     *)
(* again (recreate's Lost) it is tried again after a rest.                 *)
Taken(s) ==
  /\ Go(s, IF again[s] THEN "rest" ELSE "mkdir")
  /\ mutex' = IF again[s] THEN None ELSE mutex

OpenDir(s) ==
  /\ From(s, "open")
  /\ IF entry[try[s]] = 0 THEN Taken(s) /\ UNCHANGED dir
     ELSE Go(s, "lock") /\ dir' = [dir EXCEPT ![s] = entry[try[s]]] /\ UNCHANGED mutex
  /\ UNCHANGED <<fs, locks, cleaned, alive, exiting, making, name, held, file, again, tries, try,
                 removal>>

NewLock(d, f) ==
  /\ f \in Fresh(Files)
  /\ made' = made \cup {f}
  /\ lockOf' = [lockOf EXCEPT ![d] = f]
  /\ old' = old \ {d}

MakeLock(s) ==
  /\ From(s, "lock")
  /\ IF ~Linked(dir[s]) \/ lockOf[dir[s]] # 0
     THEN Taken(s) /\ UNCHANGED <<lockOf, old, made, file>>
     ELSE /\ \E f \in Files : NewLock(dir[s], f) /\ file' = [file EXCEPT ![s] = f]
          /\ Go(s, "flock")
          /\ UNCHANGED mutex
  /\ UNCHANGED <<entry, kern, holder, locks, cleaned, alive, exiting, making, name, held, dir,
                 again, tries, try, removal>>

(* Where locking fails the backend goes on without.                        *)
Flock(s) ==
  /\ From(s, "flock")
  /\ \/ locks /\ holder[file[s]] # None /\ Taken(s) /\ UNCHANGED holder
     \/ locks /\ holder[file[s]] = None
        /\ holder' = [holder EXCEPT ![file[s]] = "backend"]
        /\ Go(s, "verify") /\ UNCHANGED mutex
     \/ ~locks /\ Go(s, "verify") /\ UNCHANGED <<holder, mutex>>
  /\ UNCHANGED <<entry, lockOf, kern, old, made, locks, cleaned, alive, exiting, making, name,
                 held, dir, file, again, tries, try, removal>>

(* The lock may be one a remover has unlinked before it was taken.         *)
Sound(s) == HeldAt(try[s], file[s])

(* Made again, the new lock replaces the old one in `held`.                *)
Verify(s) ==
  /\ From(s, "verify")
  /\ \/ ~Sound(s) /\ Taken(s) /\ holder' = Unlocked(file[s]) /\ UNCHANGED held
     \/ Sound(s) /\ ~again[s] /\ Go(s, "publish") /\ UNCHANGED <<holder, held, mutex>>
     \/ /\ Sound(s) /\ again[s]
        /\ holder' = Unlocked(held) /\ held' = file[s]
        /\ mutex' = None /\ Go(s, "check")
  /\ UNCHANGED <<entry, lockOf, kern, old, made, locks, cleaned, alive, exiting, making, name,
                 dir, file, again, tries, try, removal>>

(* Mutant of Publish: the exit is not looked for.                          *)
PublishAnyway(s) ==
  /\ From(s, "publish")
  /\ name' = try[s] /\ held' = file[s] /\ Go(s, "guard")
  /\ UNCHANGED <<fs, locks, cleaned, alive, exiting, making, mutex, dir, file, again, tries, try,
                 removal>>

(* publish decides under the lock of EXITING: the exit finds the runtime,  *)
(* or the start finds the exit and removes what it made.                   *)
Publish(s) ==
  /\ From(s, "publish")
  /\ IF exiting
     THEN /\ Go(s, "drop")
          /\ rat' = [rat EXCEPT ![s] = IF HeldAt(try[s], file[s]) THEN "clear" ELSE "done"]
          /\ rname' = [rname EXCEPT ![s] = try[s]]
          /\ rdir' = [rdir EXCEPT ![s] = entry[try[s]]]
          /\ rfile' = [rfile EXCEPT ![s] = file[s]]
          /\ UNCHANGED <<name, held, claim>>
     ELSE /\ name' = try[s] /\ held' = file[s] /\ Go(s, "guard")
          /\ UNCHANGED removal
  /\ UNCHANGED <<fs, locks, cleaned, alive, exiting, making, mutex, dir, file, again, tries, try>>

Dropped(s) ==
  /\ From(s, "drop") /\ rat[s] = "done"
  /\ Go(s, "failed") /\ making' = None
  /\ UNCHANGED <<fs, locks, cleaned, alive, exiting, name, held, mutex, dir, file, again, tries,
                 try, removal>>

(* The guard is started unless the exit has told it to end.                *)
StartGuard(s) ==
  /\ From(s, "guard")
  /\ Go(s, "check") /\ making' = None
  /\ tries' = [tries EXCEPT ![s] = 0]
  /\ IF rat[Exit] = "idle" THEN RGo(Guard, "wait") /\ rname' = [rname EXCEPT ![Guard] = name]
     ELSE UNCHANGED <<rat, rname>>
  /\ UNCHANGED <<fs, locks, cleaned, alive, exiting, name, held, mutex, dir, file, again, try,
                 rdir, rfile, claim>>
-----------------------------------------------------------------------------
(* The kernel's dir (Runtime::new_kernel_dir).                             *)

Check(s) ==
  /\ From(s, "check")
  /\ Go(s, IF held = 0 THEN "failed" ELSE "kdir")
  /\ again' = [again EXCEPT ![s] = TRUE]
  /\ try' = [try EXCEPT ![s] = name]
  /\ UNCHANGED <<fs, locks, cleaned, alive, runtime, dir, file, tries, removal>>

(* kernel_dir_if_held, under the mutex: is the dir at the name still ours? *)
KernelDirIfHeld(s) ==
  /\ From(s, "kdir") /\ mutex = None
  /\ IF HeldAt(name, held)
     THEN Go(s, "kmake") /\ mutex' = s /\ dir' = [dir EXCEPT ![s] = entry[name]]
     ELSE Go(s, "check2") /\ UNCHANGED <<mutex, dir>>
  /\ UNCHANGED <<fs, locks, cleaned, alive, exiting, making, name, held, file, again, tries, try,
                 removal>>

MakeKernelDir(s) ==
  /\ From(s, "kmake")
  /\ mutex' = None
  /\ IF Linked(dir[s])
     THEN /\ kern' = [kern EXCEPT ![dir[s]] = @ \cup {s}]
          /\ old' = old \ {dir[s]}
          /\ Go(s, "got")
     ELSE Go(s, "check2") /\ UNCHANGED <<kern, old>>
  /\ UNCHANGED <<entry, lockOf, holder, made, locks, cleaned, alive, exiting, making, name, held,
                 dir, file, again, tries, try, removal>>

(* It was removed: it is made again, so many times.                        *)
TryAgain(s) ==
  /\ From(s, "check2")
  /\ IF held = 0 \/ tries[s] = CreateTries THEN Go(s, "failed") /\ UNCHANGED tries
     ELSE Go(s, "again") /\ tries' = [tries EXCEPT ![s] = @ + 1]
  /\ UNCHANGED <<fs, locks, cleaned, alive, runtime, dir, file, again, try, removal>>

(* recreate, under the mutex to its end; another start may have done it.   *)
Recreate(s) ==
  /\ From(s, "again") /\ mutex = None
  /\ IF held = 0 THEN Go(s, "failed") /\ UNCHANGED mutex
     ELSE IF HeldAt(name, held) THEN Go(s, "check") /\ UNCHANGED mutex
     ELSE Go(s, "remake") /\ mutex' = s
  /\ UNCHANGED <<fs, locks, cleaned, alive, exiting, making, name, held, dir, file, again, tries,
                 try, removal>>

(* A dir that is there at the name is used, also one being removed, unless *)
(* the removers are as quick as the code has it.                           *)
Remake(s) ==
  /\ From(s, "remake")
  /\ Prompt => \A a \in Removers :
                 Removes(a) => rname[a] # name \/ rdir[a] # entry[name]
  /\ IF entry[name] = 0 THEN \E d \in Dirs : NewDir(name, d) ELSE UNCHANGED <<entry, made>>
  /\ Go(s, "open")
  /\ UNCHANGED <<lockOf, kern, old, holder, locks, cleaned, alive, runtime, dir, file, again,
                 tries, try, removal>>

(* A rest of some milliseconds, for the remover that took it.              *)
Rest(s) ==
  /\ From(s, "rest")
  /\ Go(s, "check")
  /\ UNCHANGED <<fs, locks, cleaned, alive, runtime, dir, file, again, tries, try, removal>>
-----------------------------------------------------------------------------
(* Every removal (remove_locked_at): what is in the dir goes, then the     *)
(* file named lock, then the dir, then the remover's lock.                 *)

Clear(a) ==
  /\ RFrom(a, "clear")
  /\ kern' = [kern EXCEPT ![rdir[a]] = {}]
  /\ RGo(a, "unlink")
  /\ UNCHANGED <<entry, lockOf, old, holder, made, locks, cleaned, alive, runtime, start, rname,
                 rdir, rfile, claim>>

Unlink(a) ==
  /\ RFrom(a, "unlink")
  /\ lockOf' = [lockOf EXCEPT ![rdir[a]] = 0]
  /\ old' = old \ {rdir[a]}
  /\ RGo(a, "rmdir")
  /\ UNCHANGED <<entry, kern, holder, made, locks, cleaned, alive, runtime, start, rname, rdir,
                 rfile, claim>>

(* rmdir_same: only while the name is still the dir's, and it is empty.    *)
Rmdir(a, l, next, full) ==
  /\ RFrom(a, l)
  /\ IF entry[rname[a]] # rdir[a] THEN RGo(a, next) /\ UNCHANGED entry
     ELSE IF Empty(rdir[a]) THEN RGo(a, next) /\ entry' = [entry EXCEPT ![rname[a]] = 0]
     ELSE RGo(a, full) /\ UNCHANGED entry
  /\ UNCHANGED <<lockOf, kern, old, holder, made, locks, cleaned, alive, runtime, start, rname,
                 rdir, rfile, claim>>

Release(a, l, next) ==
  /\ RFrom(a, l)
  /\ holder' = Unlocked(rfile[a])
  /\ RGo(a, next)
  /\ UNCHANGED <<entry, lockOf, kern, old, made, locks, cleaned, alive, runtime, start, rname,
                 rdir, rfile, claim>>

(* The dir was not empty: what was added meanwhile goes too.               *)
ClearAll(a) ==
  /\ RFrom(a, "clear2")
  /\ kern' = [kern EXCEPT ![rdir[a]] = {}]
  /\ lockOf' = [lockOf EXCEPT ![rdir[a]] = 0]
  /\ RGo(a, "rmdir2")
  /\ UNCHANGED <<entry, old, holder, made, locks, cleaned, alive, runtime, start, rname, rdir,
                 rfile, claim>>

RemoveStep(a) ==
  \/ Clear(a) \/ Unlink(a) \/ ClearAll(a)
  \/ Rmdir(a, "rmdir", "release", "reclear") \/ Rmdir(a, "rmdir2", "done", "done")
  \/ Release(a, "release", "done") \/ Release(a, "reclear", "clear2")
-----------------------------------------------------------------------------
(* Taking the lock of a dir for removal (take_lock_at).  The guard tries   *)
(* again while its wait lasts; a sweep leaves the dir alone.               *)

Missed(a) == RGo(a, IF a # Guard THEN "done" ELSE IF claim[a] THEN "late" ELSE "look")

OpenLock(a) ==
  /\ RFrom(a, "open")
  /\ LET f == lockOf[rdir[a]] IN
       /\ rfile' = [rfile EXCEPT ![a] = f]
       /\ IF f # 0 THEN RGo(a, "try") ELSE IF claim[a] THEN RGo(a, "create") ELSE Missed(a)
  /\ UNCHANGED <<fs, locks, cleaned, alive, runtime, start, rname, rdir, claim>>

CreateLock(a) ==
  /\ RFrom(a, "create")
  /\ IF ~Linked(rdir[a]) THEN RGo(a, "done") /\ UNCHANGED <<lockOf, old, made, rfile>>
     ELSE IF lockOf[rdir[a]] # 0 THEN RGo(a, "open") /\ UNCHANGED <<lockOf, old, made, rfile>>
     ELSE /\ \E f \in Files : NewLock(rdir[a], f) /\ rfile' = [rfile EXCEPT ![a] = f]
          /\ RGo(a, "own")
  /\ UNCHANGED <<entry, kern, holder, locks, cleaned, alive, runtime, start, rname, rdir, claim>>

(* Mutant of DeadWithoutLock: the process is not looked for.               *)
DeadWithoutLockAlways(a) == TRUE

(* dead_without_lock: it made the lock file itself, or the process whose   *)
(* pid is in the dir's name is gone.                                       *)
DeadWithoutLock(a) == rat[a] = "own" \/ alive = "gone"

TryLock(a) ==
  /\ RFrom(a, "try") \/ RFrom(a, "own")
  /\ \/ locks /\ holder[rfile[a]] = None
        /\ holder' = [holder EXCEPT ![rfile[a]] = a] /\ RGo(a, "clear")
     \/ locks /\ holder[rfile[a]] # None /\ Missed(a) /\ UNCHANGED holder
     \/ ~locks /\ (IF DeadWithoutLock(a) THEN RGo(a, "clear") ELSE Missed(a)) /\ UNCHANGED holder
  /\ UNCHANGED <<entry, lockOf, kern, old, made, locks, cleaned, alive, runtime, start, rname,
                 rdir, rfile, claim>>

TakeLock(a) == OpenLock(a) \/ CreateLock(a) \/ TryLock(a)
-----------------------------------------------------------------------------
(* A sweep (sweep_stale_at): one of the root's dirs at a time.             *)

Look(a) ==
  /\ rat[a] \in {"idle", "done"}
  /\ \E n \in Names :
       /\ entry[n] # 0
       /\ rname' = [rname EXCEPT ![a] = n] /\ rdir' = [rdir EXCEPT ![a] = entry[n]]
  /\ RGo(a, "stat") /\ claim' = [claim EXCEPT ![a] = FALSE]
  /\ UNCHANGED <<fs, locks, cleaned, alive, runtime, start, rfile>>

(* Only a dir that had no lock file when it was judged is claimed, and     *)
(* only if it is old when that was seen.                                   *)
Stat(a) ==
  /\ RFrom(a, "stat")
  /\ RGo(a, IF lockOf[rdir[a]] # 0 THEN "open" ELSE "age")
  /\ UNCHANGED <<fs, locks, cleaned, alive, runtime, start, rname, rdir, rfile, claim>>

Age(a) ==
  /\ RFrom(a, "age")
  /\ IF rdir[a] \in old THEN RGo(a, "open") /\ claim' = [claim EXCEPT ![a] = TRUE]
     ELSE RGo(a, "done") /\ UNCHANGED claim
  /\ UNCHANGED <<fs, locks, cleaned, alive, runtime, start, rname, rdir, rfile>>

(* A backend that sweeps ends: its lock goes with it.                      *)
SweepEnds(a) ==
  /\ Crashes /\ rat[a] \in RmSteps \ {"idle", "done", "died"}
  /\ holder' = [f \in Files |-> IF holder[f] = a THEN None ELSE holder[f]]
  /\ RGo(a, "died")
  /\ UNCHANGED <<entry, lockOf, kern, old, made, locks, cleaned, alive, runtime, start, rname,
                 rdir, rfile, claim>>

Sweep(a) == Look(a) \/ Stat(a) \/ Age(a) \/ TakeLock(a) \/ RemoveStep(a) \/ SweepEnds(a)
-----------------------------------------------------------------------------
(* The guard (remove_backend_dir_waiting): the backend's pipe is closed,   *)
(* which happens before or after its lock is free.                         *)

PipeClosed == alive # "up" \/ rat[Exit] # "idle"

GuardWakes ==
  /\ rat[Guard] = "wait" /\ PipeClosed
  /\ RGo(Guard, "look")
  /\ UNCHANGED <<fs, locks, cleaned, alive, runtime, start, rname, rdir, rfile, claim>>

GuardLooks ==
  /\ rat[Guard] = "look"
  /\ LET d == entry[rname[Guard]] IN
       IF d = 0 THEN RGo(Guard, "done") /\ UNCHANGED rdir
       ELSE RGo(Guard, "open") /\ rdir' = [rdir EXCEPT ![Guard] = d]
  /\ UNCHANGED <<fs, locks, cleaned, alive, runtime, start, rname, rfile, claim>>

(* With no lock file it is claimed only when the backend is gone.          *)
MayClaim == alive = "gone"

(* The wait is over: a dir with no lock file may be claimed, else it stays.*)
GuardGivesUp ==
  /\ rat[Guard] = "look" /\ entry[rname[Guard]] # 0
  /\ LET d == entry[rname[Guard]] IN
       IF lockOf[d] = 0 /\ MayClaim
       THEN /\ RGo(Guard, "open")
            /\ rdir' = [rdir EXCEPT ![Guard] = d]
            /\ claim' = [claim EXCEPT ![Guard] = TRUE]
       ELSE RGo(Guard, "late") /\ UNCHANGED <<rdir, claim>>
  /\ UNCHANGED <<fs, locks, cleaned, alive, runtime, start, rname, rfile>>

GuardSteps == GuardWakes \/ GuardLooks \/ GuardGivesUp \/ TakeLock(Guard) \/ RemoveStep(Guard)
-----------------------------------------------------------------------------
(* The exit (shutdown): the guard first, then EXITING, then the dir.       *)

ExitBegins ==
  /\ RFrom(Exit, "idle")
  /\ RGo(Exit, "flag")
  /\ UNCHANGED <<fs, locks, cleaned, alive, runtime, start, rname, rdir, rfile, claim>>

ExitFlags ==
  /\ RFrom(Exit, "flag")
  /\ exiting' = TRUE
  /\ RGo(Exit, IF name = 0 THEN "done" ELSE "remove")
  /\ UNCHANGED <<fs, locks, cleaned, alive, making, name, held, mutex, start, rname, rdir, rfile, claim>>

(* BackendDir::remove: only the dir at the name with our lock.             *)
ExitRemoves ==
  /\ RFrom(Exit, "remove") /\ mutex = None
  /\ held' = 0
  /\ rname' = [rname EXCEPT ![Exit] = name] /\ rfile' = [rfile EXCEPT ![Exit] = held]
  /\ IF HeldAt(name, held)
     THEN RGo(Exit, "clear") /\ rdir' = [rdir EXCEPT ![Exit] = entry[name]] /\ UNCHANGED holder
     ELSE RGo(Exit, "done") /\ holder' = Unlocked(held) /\ UNCHANGED rdir
  /\ UNCHANGED <<entry, lockOf, kern, old, made, locks, cleaned, alive, exiting, making, name,
                 mutex, start, claim>>

(* The process ends after its exit, or is killed at any point; what it has *)
(* locked is free a moment later, and then it is reaped.                   *)
Dies ==
  /\ alive = "up"
  /\ alive' = "dead"
  /\ UNCHANGED <<fs, locks, cleaned, runtime, start, removal>>

LocksGo ==
  /\ alive = "dead"
  /\ \E f \in Files : holder[f] = "backend"
  /\ holder' = [f \in Files |-> IF holder[f] = "backend" THEN None ELSE holder[f]]
  /\ UNCHANGED <<entry, lockOf, kern, old, made, locks, cleaned, alive, runtime, start, removal>>

Reaped ==
  /\ alive = "dead" /\ \A f \in Files : holder[f] # "backend"
  /\ alive' = "gone"
  /\ UNCHANGED <<fs, locks, cleaned, runtime, start, removal>>
-----------------------------------------------------------------------------
(* Time passes over a dir; and something else removes the backend's dir.   *)

Ages(d) ==
  /\ d \in made \ old /\ Linked(d) /\ lockOf[d] = 0
  /\ Prompt => \A a \in Removers : Removes(a) => rdir[a] # d
  /\ Stalls \/ alive # "up" \/ \A s \in Starts : at[s] \in {"open", "lock"} => entry[try[s]] # d
  /\ old' = old \cup {d}
  /\ UNCHANGED <<entry, lockOf, kern, holder, made, locks, cleaned, alive, runtime, start, removal>>

Cleaner ==
  /\ cleaned < Cleanings /\ name # 0 /\ entry[name] # 0
  /\ cleaned' = cleaned + 1
  /\ LET d == entry[name] IN
       /\ lockOf' = [lockOf EXCEPT ![d] = 0]
       /\ kern' = [kern EXCEPT ![d] = {}]
       /\ entry' = [entry EXCEPT ![name] = 0]
       /\ old' = old \ {d}
  /\ UNCHANGED <<holder, made, locks, alive, runtime, start, removal>>
-----------------------------------------------------------------------------
StartSteps(s) ==
  \/ Begin(s) \/ Make(s) \/ Mkdir(s) \/ OpenDir(s) \/ MakeLock(s) \/ Flock(s) \/ Verify(s)
  \/ Publish(s) \/ Dropped(s) \/ StartGuard(s)
  \/ Check(s) \/ KernelDirIfHeld(s) \/ MakeKernelDir(s) \/ TryAgain(s)
  \/ Recreate(s) \/ Remake(s) \/ Rest(s)
  \/ RemoveStep(s)

ExitSteps == ExitBegins \/ ExitFlags \/ ExitRemoves \/ RemoveStep(Exit)

Next ==
  \/ \E s \in Starts : StartSteps(s)
  \/ \E a \in Sweepers : Sweep(a)
  \/ GuardSteps \/ ExitSteps
  \/ Dies \/ LocksGo \/ Reaped
  \/ \E d \in Dirs : Ages(d)
  \/ Cleaner

Spec == Init /\ [][Next]_vars
-----------------------------------------------------------------------------
(* A backend that runs and holds the lock of its dir keeps the dir, its    *)
(* lock file and every kernel dir in it until its exit: neither a sweep,   *)
(* nor the guard, nor the removal of an earlier dir of its name takes      *)
(* them; only something that heeds no lock does (kernel_dir_if_held,       *)
(* sweep_stale_at).                                                        *)
LiveDirSpared ==
  [][alive = "up" /\ rat[Exit] = "idle" /\ HeldAt(name, held) /\ cleaned' = cleaned
       => HeldAt(name, held)' /\ kern[entry[name]] \subseteq kern'[entry[name]]]_vars

(* No remover is at work in a dir.                                         *)
Settled ==
  \A a \in Removers :
    ~Removes(a) /\ rat[a] \notin {"open", "create", "own", "try", "died"}

(* After the exit nothing of the backend is left in the root, whichever of *)
(* the exit, the guard, a sweep and a kernel start that was making the dir *)
(* at that moment had to remove it (publish, exit_runtime).                *)
ExitLeavesNothing ==
  rat[Exit] = "done" /\ making = None /\ mutex = None /\ Settled
    => \A n \in Names : entry[n] = 0

(* When the guard of a backend that was killed is through, and did not run *)
(* out of time, the dir is gone, whatever the removals it met and wherever *)
(* in its own removal the backend was (remove_backend_dir_waiting).        *)
GuardLeavesNothing ==
  /\ alive # "up" /\ rat[Guard] = "done"
  /\ rat[Exit] = "idle" \/ cleaned = 0
  /\ Settled
  => entry[rname[Guard]] = 0

(* The variables keep their types, and nothing is left behind, by an exit  *)
(* or by a crash.                                                          *)
DirInv == TypeOK /\ ExitLeavesNothing /\ GuardLeavesNothing

(* "Its lock file is gone, so no backend can use the dir any more": what a *)
(* removal clears after it let go of the lock is no live backend's dir     *)
(* (remove_locked_at).                                                     *)
ClearedIsUnused ==
  \A a \in Removers :
    rat[a] = "clear2" => ~(alive = "up" /\ HeldAt(name, held) /\ entry[name] = rdir[a])
=============================================================================
