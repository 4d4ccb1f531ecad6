------------------------- MODULE RuntimeDirs_proofs -------------------------
(***************************************************************************)
(* The safety of the backend's runtime dir, for any number of kernel       *)
(* starts, sweeps, names, dirs and lock files.                             *)
(***************************************************************************)
EXTENDS RuntimeDirs, TLAPS

(* What a step looks up has a name.                                        *)
Named ==
  /\ \A s \in Starts :
       /\ at[s] \in {"open", "lock", "flock", "verify", "publish"} => try[s] # 0
       /\ at[s] \in {"kdir", "kmake", "check2", "again", "remake", "rest"} => try[s] # 0 /\ name # 0
       /\ at[s] \in {"guard", "check"} \/ again[s] => name # 0
  /\ \A a \in Removers : rat[a] \in {"stat", "age", "open", "create", "own", "try"} => rdir[a] # 0
  /\ rat[Guard] # "idle" => rname[Guard] # 0
  /\ rat[Exit] = "remove" => name # 0

TypeInv == TypeOK /\ Named

Living == alive = "up" /\ rat[Exit] = "idle"
NoneDied == \A a \in Sweepers : rat[a] # "died"

(* The steps of making the dir, of which one start at a time takes any.    *)
Making == {"mkdir", "remake", "open", "lock", "flock", "verify", "publish"}
Locking == {"flock", "verify", "publish"}
Clearing == {"clear", "unlink", "rmdir", "release"}
Chosen == {"stat", "age", "open", "try"} \cup Clearing

(* What was used is in `made`; no two names lead to one dir, and no two    *)
(* dirs have one lock file.                                                *)
Used == made \cup {0}
FilesInv ==
  /\ \A n \in Names : entry[n] \in Used /\ (entry[n] # 0 => n \in made)
  /\ \A m, n \in Names : entry[m] = entry[n] /\ entry[m] # 0 => m = n
  /\ \A d \in Dirs : lockOf[d] \in Used /\ (d \notin made => lockOf[d] = 0)
  /\ \A d, e \in Dirs : lockOf[d] = lockOf[e] /\ lockOf[d] # 0 => d = e
  /\ name \in Used /\ held \in Used
  /\ \A s \in Starts : dir[s] \in Used /\ file[s] \in Used /\ try[s] \in Used
  /\ \A a \in Sweepers : rdir[a] \in Used /\ rfile[a] \in Used

(* Until the exit nobody of the backend removes anything.                  *)
CalmInv ==
  /\ ~exiting /\ rat[Guard] \in {"idle", "wait"}
  /\ \A s \in Starts : rat[s] = "idle"
  /\ \A s \in Starts : at[s] # "drop"

(* One start makes the dir: the first time under MAKING, then under the    *)
(* mutex of `held`.                                                        *)
First(s) == at[s] \in Making /\ ~again[s]
MakersInv ==
  /\ name = 0 <=> held = 0
  /\ \A s \in Starts :
       /\ at[s] = "mkdir" \/ at[s] = "publish" => ~again[s]
       /\ at[s] \in {"kdir", "kmake", "check2", "again", "remake", "rest"} => again[s]
       /\ at[s] \in {"idle", "make"} => ~again[s]
       /\ First(s) => making = s /\ name = 0
       /\ at[s] \in Locking => file[s] # 0
       /\ at[s] \in Making /\ again[s] => mutex = s /\ ~HeldAt(name, held)
       /\ at[s] = "guard" => ~again[s]
       /\ again[s] => name # 0 /\ try[s] = name
       /\ at[s] \in {"check", "kdir", "kmake", "check2", "again", "rest", "guard"} => name # 0
       /\ at[s] = "kmake" =>
            mutex = s /\ dir[s] # 0 /\ (Linked(dir[s]) => HeldAt(name, held) /\ entry[name] = dir[s])

(* The dir that a start makes has no lock file but its own.                *)
NewInv ==
  \A s \in Starts :
    /\ at[s] = "open" => try[s] # 0 /\ (entry[try[s]] # 0 => lockOf[entry[try[s]]] = 0)
    /\ at[s] \in {"lock"} \cup Locking =>
         /\ try[s] # 0 /\ dir[s] # 0 /\ entry[try[s]] \in {0, dir[s]}
         /\ Linked(dir[s]) => entry[try[s]] = dir[s]
    /\ at[s] = "lock" => lockOf[dir[s]] = 0
    /\ at[s] \in Locking =>
         /\ file[s] # held /\ lockOf[dir[s]] \in {0, file[s]}
         /\ \A d \in Dirs : lockOf[d] = file[s] => d = dir[s]

(* Whose the locks are.                                                    *)
LocksInv ==
  /\ \A d \in Dirs : lockOf[d] = held /\ held # 0 /\ Linked(d) => entry[name] = d
  /\ locks =>
       /\ held # 0 => holder[held] = "backend"
       /\ \A s \in Starts :
            /\ at[s] \in {"verify", "publish"} => holder[file[s]] = "backend"
            /\ at[s] = "flock" => holder[file[s]] # "backend"
       /\ \A f \in Files :
            holder[f] \in Sweepers \cup {"backend", None} /\ (f \notin made => holder[f] = None)

(* A sweep clears a dir only with its lock, and that lock is the only one  *)
(* the dir ever had.                                                       *)
SweepsInv ==
  /\ old = {}
  /\ \A a \in Sweepers :
       /\ ~claim[a] /\ rat[a] \in {"idle", "done"} \cup Chosen
       /\ rat[a] \in Chosen =>
            rname[a] # 0 /\ rdir[a] # 0 /\ \A n \in Names : entry[n] = rdir[a] => n = rname[a]
       /\ rat[a] \in {"try"} \cup Clearing =>
            /\ rfile[a] # 0 /\ lockOf[rdir[a]] \in {0, rfile[a]}
            /\ \A d \in Dirs : lockOf[d] = rfile[a] => d = rdir[a]
       /\ rat[a] \in Clearing => locks /\ holder[rfile[a]] = a
       /\ rat[a] \in {"unlink", "rmdir"} => kern[rdir[a]] = {}
       /\ rat[a] = "rmdir" => lockOf[rdir[a]] = 0
       /\ rat[a] = "release" => ~Linked(rdir[a])
       /\ \A f \in Files : holder[f] = a => rat[a] \in Clearing /\ rfile[a] = f

(* A dir that is being made is not yet looked at.                          *)
Makes(s, d) == (at[s] = "open" /\ entry[try[s]] = d) \/ (at[s] = "lock" /\ dir[s] = d)
UnseenInv ==
  \A s \in Starts, a \in Sweepers :
    rat[a] \in {"open", "try"} \cup Clearing => ~Makes(s, rdir[a])

(* Why a dir is there.                                                     *)
ReasonsAre(d) ==
  \/ lockOf[d] # 0 /\ lockOf[d] = held
  \/ \E s \in Starts : Makes(s, d) \/ (at[s] \in Locking /\ file[s] = lockOf[d])
  \/ \E a \in Sweepers : rdir[a] = d /\ rat[a] \in {"clear", "unlink", "rmdir"}
ReasonsInv == \A d \in Dirs : Linked(d) => ReasonsAre(d)

(* What holds until the exit, and what holds besides until a sweep dies.   *)
Base == FilesInv /\ CalmInv /\ MakersInv
Kept == NewInv /\ LocksInv /\ SweepsInv /\ UnseenInv /\ ReasonsInv

DirIInv ==
  /\ TypeInv
  /\ Living => Base /\ IF NoneDied THEN Kept ELSE \A a \in Sweepers : rat[a] = "died"
-----------------------------------------------------------------------------
(* The types.                                                              *)

LEMMA Apart ==
  /\ 0 \notin Names /\ 0 \notin Dirs /\ 0 \notin Files
  /\ Names \cap Dirs = {} /\ Names \cap Files = {} /\ Dirs \cap Files = {}
  /\ None \notin Sweepers /\ "backend" \notin Sweepers /\ None # "backend"
  /\ None \notin Starts /\ Starts \cap Sweepers = {}
  /\ Guard \notin Starts \cup Sweepers /\ Exit \notin Starts \cup Sweepers /\ Guard # Exit
  /\ Sweepers \subseteq Removers /\ Starts \subseteq Removers
  /\ Guard \in Removers /\ Exit \in Removers /\ Guard \notin Own /\ Starts \cup {Exit} = Own
  /\ Sweepers \cap Own = {}
  BY DirsAssumption DEF Removers, Own, Guard, Exit

LEMMA RemoveTypes ==
  ASSUME TypeInv, NEW a \in Removers, RemoveStep(a)
  PROVE  TypeInv'
<1> USE Apart, DirsAssumption
    DEF TypeInv, TypeOK, Named, AtSteps, RmSteps, Removing, fs, runtime, start, removal,
        From, Go, RFrom, RGo, Unlocked
<1>1. CASE Clear(a)
  <2>1. TypeOK'
    BY <1>1 DEF Clear
  <2>2. Named'
    BY <1>1 DEF Clear
  <2> QED BY <2>1, <2>2
<1>2. CASE Unlink(a)
  <2>1. TypeOK'
    BY <1>2 DEF Unlink
  <2>2. Named'
    BY <1>2 DEF Unlink
  <2> QED BY <2>1, <2>2
<1>3. CASE ClearAll(a)
  <2>1. TypeOK'
    BY <1>3 DEF ClearAll
  <2>2. Named'
    BY <1>3 DEF ClearAll
  <2> QED BY <2>1, <2>2
<1>4. ASSUME NEW l \in Removing, NEW next \in Removing \cup {"done"}, NEW full \in Removing \cup {"done"},
             Rmdir(a, l, next, full)
      PROVE  TypeInv'
  BY <1>4 DEF Rmdir
<1>5. ASSUME NEW l \in Removing, NEW next \in Removing \cup {"done"}, Release(a, l, next)
      PROVE  TypeInv'
  BY <1>5 DEF Release
<1> QED
  BY <1>1, <1>2, <1>3, <1>4, <1>5 DEF RemoveStep

LEMMA StartTypes ==
  ASSUME TypeInv, NEW s \in Starts, StartSteps(s)
  PROVE  TypeInv'
<1> USE Apart, DirsAssumption
    DEF TypeInv, TypeOK, Named, AtSteps, RmSteps, Removing, fs, runtime, start, removal,
        From, Go, RFrom, RGo, Unlocked
<1>1. CASE Begin(s)
  BY <1>1 DEF Begin
<1>2. CASE Make(s)
  BY <1>2 DEF Make
<1>3. CASE Mkdir(s)
  <2>1. TypeOK'
    BY <1>3 DEF Mkdir, NewDir, Fresh
  <2>2. Named'
    BY <1>3 DEF Mkdir, NewDir, Fresh
  <2> QED BY <2>1, <2>2
<1>4. CASE OpenDir(s)
  BY <1>4 DEF OpenDir, Taken
<1>5. CASE MakeLock(s)
  <2>1. TypeOK'
    BY <1>5 DEF MakeLock, NewLock, Fresh, Taken
  <2>2. Named'
    BY <1>5 DEF MakeLock, NewLock, Fresh, Taken
  <2> QED BY <2>1, <2>2
<1>6. CASE Flock(s)
  <2>1. TypeOK'
    BY <1>6 DEF Flock, Taken
  <2>2. Named'
    BY <1>6 DEF Flock, Taken
  <2> QED BY <2>1, <2>2
<1>7. CASE Verify(s)
  BY <1>7 DEF Verify, Taken, Sound, HeldAt
<1>8. CASE Publish(s)
  <2>1. /\ \/ /\ rat' \in {[rat EXCEPT ![s] = "clear"], [rat EXCEPT ![s] = "done"]}
              /\ rname' = [rname EXCEPT ![s] = try[s]]
              /\ rdir' = [rdir EXCEPT ![s] = entry[try[s]]]
              /\ rfile' = [rfile EXCEPT ![s] = file[s]]
           \/ UNCHANGED <<rat, rname, rdir, rfile>>
        /\ UNCHANGED <<claim, dir, file, again, tries, try>>
    BY <1>8 DEF Publish
  <2>2. /\ UNCHANGED <<fs, locks, cleaned, alive, exiting, making, mutex>>
        /\ \/ at' = [at EXCEPT ![s] = "drop"] /\ name' = name /\ held' = held
           \/ at' = [at EXCEPT ![s] = "guard"] /\ name' = try[s] /\ held' = file[s]
    BY <1>8 DEF Publish
  <2>3. try[s] \in Names /\ entry[try[s]] \in Dirs \cup {0} /\ file[s] \in Files \cup {0}
    BY <1>8 DEF Publish
  <2>4. rat' \in [Removers -> RmSteps]
    BY <2>1, SMTT(30)
  <2>5. rname' \in [Removers -> Names \cup {0}]
    BY <2>1, <2>3
  <2>6. rdir' \in [Removers -> Dirs \cup {0}]
    BY <2>1, <2>3
  <2>7. rfile' \in [Removers -> Files \cup {0}]
    BY <2>1, <2>3
  <2>8. at' \in [Starts -> AtSteps] /\ name' \in Names \cup {0} /\ held' \in Files \cup {0}
    BY <2>2, <2>3
  <2>9. TypeOK'
    BY <2>1, <2>2, <2>4, <2>5, <2>6, <2>7, <2>8
  <2>10. Named'
    BY <1>8, SMTT(30) DEF Publish, HeldAt
  <2> QED BY <2>9, <2>10
<1>9. CASE Dropped(s)
  BY <1>9 DEF Dropped
<1>10. CASE StartGuard(s)
  BY <1>10 DEF StartGuard
<1>11. CASE Check(s)
  BY <1>11 DEF Check
<1>12. CASE KernelDirIfHeld(s)
  BY <1>12 DEF KernelDirIfHeld, HeldAt
<1>13. CASE MakeKernelDir(s)
  <2>1. TypeOK'
    BY <1>13 DEF MakeKernelDir
  <2>2. Named'
    BY <1>13 DEF MakeKernelDir
  <2> QED BY <2>1, <2>2
<1>14. CASE TryAgain(s)
  <2>1. TypeOK'
    BY <1>14 DEF TryAgain
  <2>2. Named'
    BY <1>14 DEF TryAgain
  <2> QED BY <2>1, <2>2
<1>15. CASE Recreate(s)
  BY <1>15 DEF Recreate
<1>16. CASE Remake(s)
  BY <1>16 DEF Remake, NewDir, Fresh
<1>17. CASE Rest(s)
  BY <1>17 DEF Rest
<1>18. CASE RemoveStep(s)
  BY <1>18, RemoveTypes
<1> QED
  BY <1>1, <1>2, <1>3, <1>4, <1>5, <1>6, <1>7, <1>8, <1>9, <1>10, <1>11, <1>12, <1>13, <1>14, <1>15,
     <1>16, <1>17, <1>18 DEF StartSteps

LEMMA TakeTypes ==
  ASSUME TypeInv, NEW a \in Sweepers \cup {Guard}, TakeLock(a)
  PROVE  TypeInv'
<1> USE Apart, DirsAssumption
    DEF TypeInv, TypeOK, Named, AtSteps, RmSteps, Removing, fs, runtime, start, removal,
        From, Go, RFrom, RGo, Unlocked
<1>1. CASE OpenLock(a)
  <2>1. TypeOK'
    BY <1>1 DEF OpenLock, Missed
  <2>2. Named'
    BY <1>1 DEF OpenLock, Missed
  <2> QED BY <2>1, <2>2
<1>2. CASE CreateLock(a)
  BY <1>2 DEF CreateLock, NewLock, Fresh, Missed
<1>3. CASE TryLock(a)
  BY <1>3 DEF TryLock, DeadWithoutLock, Missed
<1> QED
  BY <1>1, <1>2, <1>3 DEF TakeLock

LEMMA SweepTypes ==
  ASSUME TypeInv, NEW a \in Sweepers, Sweep(a)
  PROVE  TypeInv'
<1> USE Apart, DirsAssumption
    DEF TypeInv, TypeOK, Named, AtSteps, RmSteps, Removing, fs, runtime, start, removal,
        From, Go, RFrom, RGo, Unlocked
<1>1. CASE Look(a)
  BY <1>1 DEF Look
<1>2. CASE Stat(a)
  BY <1>2 DEF Stat
<1>3. CASE Age(a)
  <2>1. TypeOK'
    <3>1. claim' = claim \/ claim' = [claim EXCEPT ![a] = TRUE]
      BY <1>3 DEF Age
    <3>2. claim' \in [Removers -> BOOLEAN]
      BY <3>1, Zenon
    <3> QED BY <1>3, <3>2 DEF Age
  <2>2. Named'
    BY <1>3 DEF Age
  <2> QED BY <2>1, <2>2
<1>4. CASE TakeLock(a)
  BY <1>4, TakeTypes
<1>5. CASE RemoveStep(a)
  BY <1>5, RemoveTypes
<1>6. CASE SweepEnds(a)
  BY <1>6 DEF SweepEnds
<1> QED
  BY <1>1, <1>2, <1>3, <1>4, <1>5, <1>6 DEF Sweep

LEMMA ClaimTypes ==
  ASSUME NEW c \in [Removers -> BOOLEAN]
  PROVE  [c EXCEPT ![Guard] = TRUE] \in [Removers -> BOOLEAN]
  OBVIOUS

LEMMA OtherTypes ==
  ASSUME TypeInv, \/ GuardSteps \/ ExitSteps \/ Dies \/ LocksGo \/ Reaped
         \/ (\E d \in Dirs : Ages(d)) \/ Cleaner
  PROVE  TypeInv'
<1> USE Apart, DirsAssumption
    DEF TypeInv, TypeOK, Named, AtSteps, RmSteps, Removing, fs, runtime, start, removal,
        From, Go, RFrom, RGo, Unlocked
<1>1. CASE GuardWakes
  BY <1>1 DEF GuardWakes
<1>2. CASE GuardLooks
  BY <1>2 DEF GuardLooks
<1>3. CASE GuardGivesUp
  <2>1. TypeOK'
    <3>1. claim' = claim \/ claim' = [claim EXCEPT ![Guard] = TRUE]
      BY <1>3 DEF GuardGivesUp
    <3>2. claim' \in [Removers -> BOOLEAN]
      BY <3>1, ClaimTypes
    <3>3. rat' \in [Removers -> RmSteps] /\ rdir' \in [Removers -> Dirs \cup {0}]
      BY <1>3 DEF GuardGivesUp
    <3> QED BY <1>3, <3>2, <3>3 DEF GuardGivesUp
  <2>2. Named'
    BY <1>3 DEF GuardGivesUp
  <2> QED BY <2>1, <2>2
<1>4. CASE TakeLock(Guard)
  BY <1>4, TakeTypes
<1>5. CASE RemoveStep(Guard)
  BY <1>5, RemoveTypes
<1>6. CASE ExitBegins
  BY <1>6 DEF ExitBegins
<1>7. CASE ExitFlags
  BY <1>7 DEF ExitFlags
<1>8. CASE ExitRemoves
  <2>1. rname' \in [Removers -> Names \cup {0}] /\ rfile' \in [Removers -> Files \cup {0}]
    BY <1>8 DEF ExitRemoves
  <2>2. rdir' \in [Removers -> Dirs \cup {0}]
    BY <1>8 DEF ExitRemoves
  <2>3. rat' \in [Removers -> RmSteps] /\ holder' \in [Files -> Removers \cup {None, "backend"}]
    BY <1>8 DEF ExitRemoves
  <2>4. TypeOK'
    BY <1>8, <2>1, <2>2, <2>3 DEF ExitRemoves
  <2>5. Named'
    <3>1. /\ \A x \in Removers : x # Exit => rat'[x] = rat[x] /\ rdir'[x] = rdir[x] /\ rname'[x] = rname[x]
          /\ rat'[Exit] \in {"clear", "done"}
      BY <1>8 DEF ExitRemoves
    <3> QED BY <1>8, <3>1 DEF ExitRemoves
  <2> QED BY <2>4, <2>5
<1>9. CASE RemoveStep(Exit)
  BY <1>9, RemoveTypes
<1>10. CASE Dies
  BY <1>10 DEF Dies
<1>11. CASE LocksGo
  BY <1>11 DEF LocksGo
<1>12. CASE Reaped
  BY <1>12 DEF Reaped
<1>13. CASE \E d \in Dirs : Ages(d)
  BY <1>13 DEF Ages
<1>14. CASE Cleaner
  BY <1>14 DEF Cleaner
<1> QED
  BY <1>1, <1>2, <1>3, <1>4, <1>5, <1>6, <1>7, <1>8, <1>9, <1>10, <1>11, <1>12, <1>13,
     <1>14 DEF GuardSteps, ExitSteps

LEMMA TypeStep == TypeInv /\ [Next]_vars => TypeInv'
<1> SUFFICES ASSUME TypeInv, [Next]_vars PROVE TypeInv'
  OBVIOUS
<1>1. CASE UNCHANGED vars
  BY <1>1 DEF TypeInv, TypeOK, Named, vars, fs, runtime, start, removal
<1>2. CASE Next
  BY <1>2, StartTypes, SweepTypes, OtherTypes DEF Next
<1> QED BY <1>1, <1>2

LEMMA InitTypes ==
  ASSUME Init
  PROVE  TypeInv
<1>1. /\ again \in [Starts -> BOOLEAN] /\ claim \in [Removers -> BOOLEAN] /\ exiting \in BOOLEAN
      /\ locks \in BOOLEAN
  BY DirsAssumption, Zenon DEF Init
<1>2. /\ at \in [Starts -> AtSteps] /\ rat \in [Removers -> RmSteps] /\ tries \in [Starts -> 0 .. CreateTries]
      /\ holder \in [Files -> Removers \cup {None, "backend"}] /\ kern \in [Dirs -> SUBSET Starts]
      /\ cleaned \in 0 .. Cleanings
  BY DirsAssumption DEF Init, AtSteps, RmSteps
<1>3. TypeOK
  BY <1>1, <1>2 DEF Init, TypeOK
<1>4. Named
  BY Apart DEF Init, Named
<1> QED BY <1>3, <1>4 DEF TypeInv

-----------------------------------------------------------------------------
(* The steps of the kernel starts, until the exit.                         *)

LEMMA OneMaker ==
  ASSUME Base, NEW s \in Starts, NEW t \in Starts, at[s] \in Making, at[t] \in Making
  PROVE  s = t
  BY DEF Base, MakersInv, First

Setting == {"open", "lock"} \cup Locking

(* Who makes no dir, before and after, disturbs nothing of the sweeps.     *)
OthersRest(s) ==
  /\ \A t \in Starts : t # s => at'[t] = at[t] /\ try'[t] = try[t] /\ dir'[t] = dir[t] /\ again'[t] = again[t]
  /\ \A a \in Sweepers : rat'[a] = rat[a] /\ rname'[a] = rname[a]
  /\ UNCHANGED <<rdir, rfile, claim, file, locks>>

LEMMA ControlKeeps ==
  ASSUME TypeInv, Kept, NEW s \in Starts, OthersRest(s), at[s] \notin Setting, at'[s] \notin Setting,
         UNCHANGED <<entry, lockOf, kern, old, holder, made, name, held>>
  PROVE  Kept'
<1>1. \A d : Linked(d)' <=> Linked(d)
  BY DEF Linked
<1>2. \A t \in Starts : at'[t] \in Setting \/ at[t] \in Setting =>
         at'[t] = at[t] /\ try'[t] = try[t] /\ dir'[t] = dir[t]
  BY DEF OthersRest
<1>3. \A t \in Starts : \A d : Makes(t, d)' <=> Makes(t, d)
  BY <1>2 DEF Makes, Setting
<1>4. NewInv'
  BY <1>1, <1>2 DEF Kept, NewInv, Setting, Locking, OthersRest
<1>5. LocksInv'
  BY <1>1, <1>2 DEF Kept, LocksInv, Setting, Locking, OthersRest
<1>6. SweepsInv'
  BY <1>1 DEF Kept, SweepsInv, OthersRest, Chosen, Clearing
<1>7. UnseenInv'
  BY <1>3 DEF Kept, UnseenInv, OthersRest
<1>8. ReasonsInv'
  BY <1>1, <1>2, <1>3 DEF Kept, ReasonsInv, ReasonsAre, OthersRest, Setting, Locking
<1> QED BY <1>4, <1>5, <1>6, <1>7, <1>8 DEF Kept

LEMMA StartKeepsBase ==
  ASSUME TypeInv, Base, Living, NEW s \in Starts, StartSteps(s)
  PROVE  Base'
<1> USE Apart DEF TypeInv, TypeOK, Named, Base, fs, runtime, start, removal, From, Go, RFrom, RGo, Unlocked
<1>0. ~exiting /\ rat[s] = "idle" /\ at[s] # "drop"
  BY DEF CalmInv
<1>1. CASE Begin(s)
  <2>1. FilesInv'
    BY <1>0, <1>1 DEF Begin, FilesInv, Used
  <2>2. CalmInv'
    BY <1>0, <1>1 DEF Begin, CalmInv
  <2>3. MakersInv'
    BY <1>0, <1>1 DEF Begin, FilesInv, Used, MakersInv, First, Making, Locking, HeldAt, Linked
  <2> QED BY <2>1, <2>2, <2>3
<1>2. CASE Make(s)
  <2>1. FilesInv'
    BY <1>0, <1>2 DEF Make, FilesInv, Used
  <2>2. CalmInv'
    BY <1>0, <1>2 DEF Make, CalmInv
  <2>3. MakersInv'
    BY <1>0, <1>2 DEF Make, FilesInv, Used, MakersInv, First, Making, Locking, HeldAt, Linked
  <2> QED BY <2>1, <2>2, <2>3
<1>3. CASE Mkdir(s)
  <2>1. FilesInv'
    BY <1>0, <1>3, SMTT(30) DEF Mkdir, NewDir, Fresh, FilesInv, Used
  <2>2. CalmInv'
    BY <1>0, <1>3 DEF Mkdir, NewDir, Fresh, CalmInv
  <2>3. MakersInv'
    BY <1>0, <1>3 DEF Mkdir, NewDir, Fresh, FilesInv, Used, MakersInv, First, Making, Locking, HeldAt,
       Linked
  <2> QED BY <2>1, <2>2, <2>3
<1>4. CASE OpenDir(s)
  <2>1. FilesInv'
    BY <1>0, <1>4 DEF OpenDir, Taken, FilesInv, Used
  <2>2. CalmInv'
    BY <1>0, <1>4 DEF OpenDir, Taken, CalmInv
  <2>3. MakersInv'
    BY <1>0, <1>4 DEF OpenDir, Taken, FilesInv, Used, MakersInv, First, Making, Locking, HeldAt, Linked
  <2> QED BY <2>1, <2>2, <2>3
<1>5. CASE MakeLock(s)
  <2>1. FilesInv'
    BY <1>0, <1>5, SMTT(30) DEF MakeLock, NewLock, Fresh, Taken, FilesInv, Used
  <2>2. CalmInv'
    BY <1>0, <1>5 DEF MakeLock, NewLock, Fresh, Taken, CalmInv
  <2>3. MakersInv'
    BY <1>0, <1>5 DEF MakeLock, NewLock, Fresh, Taken, FilesInv, Used, MakersInv, First, Making, Locking,
       HeldAt, Linked
  <2> QED BY <2>1, <2>2, <2>3
<1>6. CASE Flock(s)
  <2>1. FilesInv'
    BY <1>0, <1>6 DEF Flock, Taken, FilesInv, Used
  <2>2. CalmInv'
    BY <1>0, <1>6 DEF Flock, Taken, CalmInv
  <2>3. MakersInv'
    BY <1>0, <1>6 DEF Flock, Taken, FilesInv, Used, MakersInv, First, Making, Locking, HeldAt, Linked
  <2> QED BY <2>1, <2>2, <2>3
<1>7. CASE Verify(s)
  <2>1. FilesInv'
    BY <1>0, <1>7 DEF Verify, Taken, Sound, FilesInv, Used
  <2>2. CalmInv'
    BY <1>0, <1>7 DEF Verify, Taken, Sound, CalmInv
  <2>3. MakersInv'
    BY <1>0, <1>7 DEF Verify, Taken, Sound, FilesInv, Used, MakersInv, First, Making, Locking, HeldAt,
       Linked
  <2> QED BY <2>1, <2>2, <2>3
<1>8. CASE Publish(s)
  <2>1. FilesInv'
    BY <1>0, <1>8 DEF Publish, FilesInv, Used
  <2>2. CalmInv'
    BY <1>0, <1>8 DEF Publish, CalmInv
  <2>3. MakersInv'
    BY <1>0, <1>8 DEF Publish, FilesInv, Used, MakersInv, First, Making, Locking, HeldAt, Linked
  <2> QED BY <2>1, <2>2, <2>3
<1>9. CASE StartGuard(s)
  <2>1. FilesInv'
    BY <1>0, <1>9 DEF StartGuard, FilesInv, Used
  <2>2. CalmInv'
    BY <1>0, <1>9 DEF StartGuard, CalmInv
  <2>3. MakersInv'
    BY <1>0, <1>9 DEF StartGuard, FilesInv, Used, MakersInv, First, Making, Locking, HeldAt, Linked
  <2> QED BY <2>1, <2>2, <2>3
<1>10. CASE Check(s)
  <2>1. FilesInv'
    BY <1>0, <1>10 DEF Check, FilesInv, Used
  <2>2. CalmInv'
    BY <1>0, <1>10 DEF Check, CalmInv
  <2>3. MakersInv'
    BY <1>0, <1>10 DEF Check, FilesInv, Used, MakersInv, First, Making, Locking, HeldAt, Linked
  <2> QED BY <2>1, <2>2, <2>3
<1>11. CASE KernelDirIfHeld(s)
  <2>1. FilesInv'
    BY <1>0, <1>11 DEF KernelDirIfHeld, FilesInv, Used
  <2>2. CalmInv'
    BY <1>0, <1>11 DEF KernelDirIfHeld, CalmInv
  <2>3. MakersInv'
    BY <1>0, <1>11 DEF KernelDirIfHeld, FilesInv, Used, MakersInv, First, Making, Locking, HeldAt, Linked
  <2> QED BY <2>1, <2>2, <2>3
<1>12. CASE MakeKernelDir(s)
  <2>1. FilesInv'
    BY <1>0, <1>12 DEF MakeKernelDir, FilesInv, Used
  <2>2. CalmInv'
    BY <1>0, <1>12 DEF MakeKernelDir, CalmInv
  <2>3. MakersInv'
    BY <1>0, <1>12 DEF MakeKernelDir, FilesInv, Used, MakersInv, First, Making, Locking, HeldAt, Linked
  <2> QED BY <2>1, <2>2, <2>3
<1>13. CASE TryAgain(s)
  <2>1. FilesInv'
    BY <1>0, <1>13 DEF TryAgain, FilesInv, Used
  <2>2. CalmInv'
    BY <1>0, <1>13 DEF TryAgain, CalmInv
  <2>3. MakersInv'
    BY <1>0, <1>13 DEF TryAgain, FilesInv, Used, MakersInv, First, Making, Locking, HeldAt, Linked
  <2> QED BY <2>1, <2>2, <2>3
<1>14. CASE Recreate(s)
  <2>1. FilesInv'
    BY <1>0, <1>14 DEF Recreate, FilesInv, Used
  <2>2. CalmInv'
    BY <1>0, <1>14 DEF Recreate, CalmInv
  <2>3. MakersInv'
    BY <1>0, <1>14 DEF Recreate, FilesInv, Used, MakersInv, First, Making, Locking, HeldAt, Linked
  <2> QED BY <2>1, <2>2, <2>3
<1>15. CASE Remake(s)
  <2>1. FilesInv'
    BY <1>0, <1>15 DEF Remake, NewDir, Fresh, FilesInv, Used
  <2>2. CalmInv'
    BY <1>0, <1>15 DEF Remake, NewDir, Fresh, CalmInv
  <2>3. MakersInv'
    BY <1>0, <1>15 DEF Remake, NewDir, Fresh, FilesInv, Used, MakersInv, First, Making, Locking, HeldAt,
       Linked
  <2> QED BY <2>1, <2>2, <2>3
<1>16. CASE Rest(s)
  <2>1. FilesInv'
    BY <1>0, <1>16 DEF Rest, FilesInv, Used
  <2>2. CalmInv'
    BY <1>0, <1>16 DEF Rest, CalmInv
  <2>3. MakersInv'
    BY <1>0, <1>16 DEF Rest, FilesInv, Used, MakersInv, First, Making, Locking, HeldAt, Linked
  <2> QED BY <2>1, <2>2, <2>3
<1> QED
  BY <1>0, <1>1, <1>2, <1>3, <1>4, <1>5, <1>6, <1>7, <1>8, <1>9, <1>10, <1>11, <1>12, <1>13, <1>14, <1>15,
     <1>16 DEF StartSteps, RemoveStep, Dropped, Clear, Unlink, ClearAll, Rmdir, Release

LEMMA ControlStepKeeps ==
  ASSUME TypeInv, Kept, NEW s \in Starts,
         Begin(s) \/ Make(s) \/ StartGuard(s) \/ Check(s) \/
             KernelDirIfHeld(s) \/ TryAgain(s) \/ Recreate(s) \/ Rest(s)
  PROVE  Kept'
<1> USE Apart DEF TypeInv, TypeOK, fs, runtime, start, removal, From, Go, RGo
<1>1. CASE Begin(s)
  <2>1. at[s] \notin Setting /\ at'[s] \notin Setting
    BY <1>1 DEF Begin, Setting, Locking
  <2>2. OthersRest(s)
    BY <1>1 DEF Begin, OthersRest
  <2> QED BY <1>1, <2>1, <2>2, ControlKeeps DEF Begin
<1>2. CASE Make(s)
  <2>1. at[s] \notin Setting /\ at'[s] \notin Setting
    BY <1>2 DEF Make, Setting, Locking
  <2>2. OthersRest(s)
    BY <1>2 DEF Make, OthersRest
  <2> QED BY <1>2, <2>1, <2>2, ControlKeeps DEF Make
<1>3. CASE StartGuard(s)
  <2>1. at[s] \notin Setting /\ at'[s] \notin Setting
    BY <1>3 DEF StartGuard, Setting, Locking
  <2>2. OthersRest(s)
    BY <1>3 DEF StartGuard, OthersRest
  <2> QED BY <1>3, <2>1, <2>2, ControlKeeps DEF StartGuard
<1>4. CASE Check(s)
  <2>1. at[s] \notin Setting /\ at'[s] \notin Setting
    BY <1>4 DEF Check, Setting, Locking
  <2>2. OthersRest(s)
    BY <1>4 DEF Check, OthersRest
  <2> QED BY <1>4, <2>1, <2>2, ControlKeeps DEF Check
<1>5. CASE KernelDirIfHeld(s)
  <2>1. at[s] \notin Setting /\ at'[s] \notin Setting
    BY <1>5 DEF KernelDirIfHeld, Setting, Locking
  <2>2. OthersRest(s)
    BY <1>5 DEF KernelDirIfHeld, OthersRest
  <2> QED BY <1>5, <2>1, <2>2, ControlKeeps DEF KernelDirIfHeld
<1>6. CASE TryAgain(s)
  <2>1. at[s] \notin Setting /\ at'[s] \notin Setting
    BY <1>6 DEF TryAgain, Setting, Locking
  <2>2. OthersRest(s)
    BY <1>6 DEF TryAgain, OthersRest
  <2> QED BY <1>6, <2>1, <2>2, ControlKeeps DEF TryAgain
<1>7. CASE Recreate(s)
  <2>1. at[s] \notin Setting /\ at'[s] \notin Setting
    BY <1>7 DEF Recreate, Setting, Locking
  <2>2. OthersRest(s)
    BY <1>7 DEF Recreate, OthersRest
  <2> QED BY <1>7, <2>1, <2>2, ControlKeeps DEF Recreate
<1>8. CASE Rest(s)
  <2>1. at[s] \notin Setting /\ at'[s] \notin Setting
    BY <1>8 DEF Rest, Setting, Locking
  <2>2. OthersRest(s)
    BY <1>8 DEF Rest, OthersRest
  <2> QED BY <1>8, <2>1, <2>2, ControlKeeps DEF Rest
<1> QED
  BY <1>1, <1>2, <1>3, <1>4, <1>5, <1>6, <1>7, <1>8

LEMMA MkdirKeeps ==
  ASSUME TypeInv, Base, Kept, Living, NEW s \in Starts, Mkdir(s)
  PROVE  Kept'
<1> USE Apart, OneMaker
    DEF TypeInv, TypeOK, Base, Kept, FilesInv, Used, MakersInv, First, Setting, Making, Locking, HeldAt,
        fs, runtime, start, removal, From, Go, RFrom, RGo, Unlocked
<1>1. NewInv'
  BY DEF Mkdir, NewDir, Fresh, NewInv, LocksInv, SweepsInv, UnseenInv, ReasonsInv, ReasonsAre, Linked,
     Makes, Chosen, Clearing
<1>2. LocksInv'
  BY DEF Mkdir, NewDir, Fresh, NewInv, LocksInv, SweepsInv, UnseenInv, ReasonsInv, ReasonsAre, Linked,
     Makes, Chosen, Clearing
<1>3. SweepsInv'
  BY DEF Mkdir, NewDir, Fresh, NewInv, LocksInv, SweepsInv, UnseenInv, ReasonsInv, ReasonsAre, Linked,
     Makes, Chosen, Clearing
<1>4. UnseenInv'
  BY DEF Mkdir, NewDir, Fresh, NewInv, LocksInv, SweepsInv, UnseenInv, ReasonsInv, ReasonsAre, Linked,
     Makes, Chosen, Clearing
<1>5. ReasonsInv'
  BY DEF Mkdir, NewDir, Fresh, NewInv, LocksInv, SweepsInv, UnseenInv, ReasonsInv, ReasonsAre, Linked,
     Makes, Chosen, Clearing
<1> QED BY <1>1, <1>2, <1>3, <1>4, <1>5

LEMMA OpenDirKeeps ==
  ASSUME TypeInv, Base, Kept, Living, NEW s \in Starts, OpenDir(s)
  PROVE  Kept'
<1> USE Apart, OneMaker
    DEF TypeInv, TypeOK, Base, Kept, FilesInv, Used, MakersInv, First, Setting, Making, Locking, HeldAt,
        fs, runtime, start, removal, From, Go, RFrom, RGo, Unlocked
<1>1. NewInv'
  BY DEF OpenDir, Taken, NewInv, LocksInv, SweepsInv, UnseenInv, ReasonsInv, ReasonsAre, Linked, Makes,
     Chosen, Clearing
<1>2. LocksInv'
  BY DEF OpenDir, Taken, NewInv, LocksInv, SweepsInv, UnseenInv, ReasonsInv, ReasonsAre, Linked, Makes,
     Chosen, Clearing
<1>3. SweepsInv'
  BY DEF OpenDir, Taken, NewInv, LocksInv, SweepsInv, UnseenInv, ReasonsInv, ReasonsAre, Linked, Makes,
     Chosen, Clearing
<1>4. UnseenInv'
  BY DEF OpenDir, Taken, NewInv, LocksInv, SweepsInv, UnseenInv, ReasonsInv, ReasonsAre, Linked, Makes,
     Chosen, Clearing
<1>5. ReasonsInv'
  BY DEF OpenDir, Taken, NewInv, LocksInv, SweepsInv, UnseenInv, ReasonsInv, ReasonsAre, Linked, Makes,
     Chosen, Clearing
<1> QED BY <1>1, <1>2, <1>3, <1>4, <1>5

LEMMA MakeLockKeeps ==
  ASSUME TypeInv, Base, Kept, Living, NEW s \in Starts, MakeLock(s)
  PROVE  Kept'
<1> USE Apart, OneMaker
    DEF TypeInv, TypeOK, Base, Kept, FilesInv, Used, MakersInv, First, Setting, Making, Locking, HeldAt,
        fs, runtime, start, removal, From, Go, RFrom, RGo, Unlocked
<1>1. NewInv'
  BY DEF MakeLock, NewLock, Fresh, Taken, NewInv, LocksInv, SweepsInv, UnseenInv, ReasonsInv, ReasonsAre,
     Linked, Makes, Chosen, Clearing
<1>2. LocksInv'
  BY DEF MakeLock, NewLock, Fresh, Taken, NewInv, LocksInv, SweepsInv, UnseenInv, ReasonsInv, ReasonsAre,
     Linked, Makes, Chosen, Clearing
<1>3. SweepsInv'
  BY DEF MakeLock, NewLock, Fresh, Taken, NewInv, LocksInv, SweepsInv, UnseenInv, ReasonsInv, ReasonsAre,
     Linked, Makes, Chosen, Clearing
<1>4. UnseenInv'
  BY DEF MakeLock, NewLock, Fresh, Taken, NewInv, LocksInv, SweepsInv, UnseenInv, ReasonsInv, ReasonsAre,
     Linked, Makes, Chosen, Clearing
<1>5. ReasonsInv'
  BY DEF MakeLock, NewLock, Fresh, Taken, NewInv, LocksInv, SweepsInv, UnseenInv, ReasonsInv, ReasonsAre,
     Linked, Makes, Chosen, Clearing
<1> QED BY <1>1, <1>2, <1>3, <1>4, <1>5

LEMMA FlockKeeps ==
  ASSUME TypeInv, Base, Kept, Living, NEW s \in Starts, Flock(s)
  PROVE  Kept'
<1> USE Apart, OneMaker
    DEF TypeInv, TypeOK, Base, Kept, FilesInv, Used, MakersInv, First, Setting, Making, Locking, HeldAt,
        fs, runtime, start, removal, From, Go, RFrom, RGo, Unlocked
<1>1. NewInv'
  BY DEF Flock, Taken, NewInv, LocksInv, SweepsInv, UnseenInv, ReasonsInv, ReasonsAre, Linked, Makes,
     Chosen, Clearing
<1>2. LocksInv'
  <2>1. /\ at[s] = "flock" /\ UNCHANGED <<entry, lockOf, held, name, file, locks, made>>
        /\ \A t \in Starts : t # s => at'[t] = at[t]
        /\ at'[s] \in {"verify", "rest", "mkdir"} /\ file[s] \in Files
        /\ locks => \/ at'[s] = "verify" /\ holder' = [holder EXCEPT ![file[s]] = "backend"]
                    \/ at'[s] # "verify" /\ holder' = holder
    BY DEF Flock, Taken
  <2>2. \A t \in Starts : at'[t] \in Locking => t = s
    BY <2>1
  <2>3. \A d : Linked(d)' <=> Linked(d)
    BY <2>1 DEF Linked
  <2>4. \A f \in Files : (locks /\ f \notin made') => f # file[s]
    BY <2>1
  <2>5. file[s] # held
    BY <2>1 DEF NewInv
  <2> QED BY <2>1, <2>2, <2>3, <2>4, <2>5 DEF LocksInv
<1>3. SweepsInv'
  BY DEF Flock, Taken, NewInv, LocksInv, SweepsInv, UnseenInv, ReasonsInv, ReasonsAre, Linked, Makes,
     Chosen, Clearing
<1>4. UnseenInv'
  BY DEF Flock, Taken, NewInv, LocksInv, SweepsInv, UnseenInv, ReasonsInv, ReasonsAre, Linked, Makes,
     Chosen, Clearing
<1>5. ReasonsInv'
  <2>1. at[s] = "flock" /\ UNCHANGED <<entry, lockOf, held, rdir, rat, file, try, dir>>
        /\ \A t \in Starts : t # s => at'[t] = at[t]
    BY DEF Flock, Taken
  <2>2. SUFFICES ASSUME NEW d \in Dirs, Linked(d)' PROVE ReasonsAre(d)'
    BY DEF ReasonsInv
  <2>3. Linked(d) /\ ReasonsAre(d)
    BY <2>1, <2>2 DEF ReasonsInv, Linked
  <2>4. CASE lockOf[d] = file[s] /\ at'[s] # "verify"
    <3>1. locks /\ holder[file[s]] # None /\ file[s] \in Files
      BY <2>4 DEF Flock, Taken
    <3>2. holder[file[s]] \in Sweepers
      BY <2>1, <3>1 DEF LocksInv
    <3>3. /\ rat[holder[file[s]]] \in Clearing /\ rfile[holder[file[s]]] = file[s]
          /\ rdir[holder[file[s]]] = d /\ rat[holder[file[s]]] # "release"
      BY <2>3, <2>4, <3>1, <3>2 DEF SweepsInv, Clearing
    <3> QED BY <2>1, <3>2, <3>3 DEF ReasonsAre, Clearing
  <2>5. CASE lockOf[d] = file[s] /\ at'[s] = "verify"
    BY <2>1, <2>5 DEF ReasonsAre
  <2>6. CASE lockOf[d] # file[s]
    BY <2>1, <2>3, <2>6 DEF ReasonsAre, Makes
  <2> QED BY <2>4, <2>5, <2>6
<1> QED BY <1>1, <1>2, <1>3, <1>4, <1>5

LEMMA VerifyKeeps ==
  ASSUME TypeInv, Base, Kept, Living, NEW s \in Starts, Verify(s)
  PROVE  Kept'
<1> USE Apart, OneMaker
    DEF TypeInv, TypeOK, Base, Kept, FilesInv, Used, MakersInv, First, Setting, Making, Locking, HeldAt,
        fs, runtime, start, removal, From, Go, RFrom, RGo, Unlocked
<1>1. NewInv'
  BY DEF Verify, Taken, Sound, NewInv, LocksInv, SweepsInv, UnseenInv, ReasonsInv, ReasonsAre, Linked,
     Makes, Chosen, Clearing
<1>2. LocksInv'
  BY DEF Verify, Taken, Sound, NewInv, LocksInv, SweepsInv, UnseenInv, ReasonsInv, ReasonsAre, Linked,
     Makes, Chosen, Clearing
<1>3. SweepsInv'
  BY DEF Verify, Taken, Sound, NewInv, LocksInv, SweepsInv, UnseenInv, ReasonsInv, ReasonsAre, Linked,
     Makes, Chosen, Clearing
<1>4. UnseenInv'
  BY DEF Verify, Taken, Sound, NewInv, LocksInv, SweepsInv, UnseenInv, ReasonsInv, ReasonsAre, Linked,
     Makes, Chosen, Clearing
<1>5. ReasonsInv'
  BY DEF Verify, Taken, Sound, NewInv, LocksInv, SweepsInv, UnseenInv, ReasonsInv, ReasonsAre, Linked,
     Makes, Chosen, Clearing
<1> QED BY <1>1, <1>2, <1>3, <1>4, <1>5

LEMMA PublishKeeps ==
  ASSUME TypeInv, Base, Kept, Living, NEW s \in Starts, Publish(s)
  PROVE  Kept'
<1> USE Apart, OneMaker
    DEF TypeInv, TypeOK, Base, Kept, FilesInv, Used, MakersInv, First, Setting, Making, Locking, HeldAt,
        fs, runtime, start, removal, From, Go, RFrom, RGo, Unlocked
<1>1. NewInv'
  BY DEF Publish, NewInv, LocksInv, SweepsInv, UnseenInv, ReasonsInv, ReasonsAre, Linked, Makes, Chosen,
     Clearing
<1>2. LocksInv'
  BY DEF Publish, NewInv, LocksInv, SweepsInv, UnseenInv, ReasonsInv, ReasonsAre, Linked, Makes, Chosen,
     Clearing
<1>3. SweepsInv'
  BY DEF Publish, NewInv, LocksInv, SweepsInv, UnseenInv, ReasonsInv, ReasonsAre, Linked, Makes, Chosen,
     Clearing
<1>4. UnseenInv'
  BY DEF Publish, NewInv, LocksInv, SweepsInv, UnseenInv, ReasonsInv, ReasonsAre, Linked, Makes, Chosen,
     Clearing
<1>5. ReasonsInv'
  <2>1. ~exiting
    BY DEF CalmInv
  <2>2. name = 0 /\ held = 0 /\ held' = file[s] /\ file[s] # 0
    BY <2>1 DEF Publish
  <2>3. UNCHANGED <<entry, lockOf, rdir, rat, file, try, dir>> /\ \A t \in Starts : t # s => at'[t] = at[t]
    BY <2>1 DEF Publish
  <2>4. at[s] = "publish"
    BY DEF Publish
  <2>5. SUFFICES ASSUME NEW d \in Dirs, Linked(d)' PROVE ReasonsAre(d)'
    BY DEF ReasonsInv
  <2>6. Linked(d)
    BY <2>3, <2>5 DEF Linked
  <2>7. CASE \E a \in Sweepers : rdir[a] = d /\ rat[a] \in {"clear", "unlink", "rmdir"}
    BY <2>3, <2>7 DEF ReasonsAre
  <2>8. CASE \E t \in Starts : Makes(t, d) \/ (at[t] \in Locking /\ file[t] = lockOf[d])
    <3>1. PICK t \in Starts : Makes(t, d) \/ (at[t] \in Locking /\ file[t] = lockOf[d])
      BY <2>8
    <3>2. CASE t = s
      BY <2>2, <2>3, <2>4, <3>1, <3>2 DEF ReasonsAre, Makes
    <3>3. CASE t # s
      BY <2>3, <3>1, <3>3 DEF ReasonsAre, Makes
    <3> QED BY <3>2, <3>3
  <2> QED BY <2>2, <2>6, <2>7, <2>8 DEF ReasonsInv, ReasonsAre
<1> QED BY <1>1, <1>2, <1>3, <1>4, <1>5

LEMMA MakeKernelDirKeeps ==
  ASSUME TypeInv, Base, Kept, Living, NEW s \in Starts, MakeKernelDir(s)
  PROVE  Kept'
<1> USE Apart, OneMaker
    DEF TypeInv, TypeOK, Base, Kept, FilesInv, Used, MakersInv, First, Setting, Making, Locking, HeldAt,
        fs, runtime, start, removal, From, Go, RFrom, RGo, Unlocked
<1>1. NewInv'
  BY DEF MakeKernelDir, NewInv, LocksInv, SweepsInv, UnseenInv, ReasonsInv, ReasonsAre, Linked, Makes,
     Chosen, Clearing
<1>2. LocksInv'
  BY DEF MakeKernelDir, NewInv, LocksInv, SweepsInv, UnseenInv, ReasonsInv, ReasonsAre, Linked, Makes,
     Chosen, Clearing
<1>3. SweepsInv'
  BY DEF MakeKernelDir, NewInv, LocksInv, SweepsInv, UnseenInv, ReasonsInv, ReasonsAre, Linked, Makes,
     Chosen, Clearing
<1>4. UnseenInv'
  BY DEF MakeKernelDir, NewInv, LocksInv, SweepsInv, UnseenInv, ReasonsInv, ReasonsAre, Linked, Makes,
     Chosen, Clearing
<1>5. ReasonsInv'
  BY DEF MakeKernelDir, NewInv, LocksInv, SweepsInv, UnseenInv, ReasonsInv, ReasonsAre, Linked, Makes,
     Chosen, Clearing
<1> QED BY <1>1, <1>2, <1>3, <1>4, <1>5

LEMMA RemakeKeeps ==
  ASSUME TypeInv, Base, Kept, Living, Prompt, NEW s \in Starts, Remake(s)
  PROVE  Kept'
<1> USE Apart, OneMaker
    DEF TypeInv, TypeOK, Base, Kept, FilesInv, Used, MakersInv, First, Setting, Making, Locking, HeldAt,
        fs, runtime, start, removal, From, Go, RFrom, RGo, Unlocked
<1>0. entry[name] = 0
  <2>1. at[s] = "remake" /\ mutex = s /\ name # 0 /\ name \in Names /\ ~HeldAt(name, held) /\ again[s]
    BY DEF Remake, Named, TypeInv
  <2>2. \A t \in Starts : at[t] \in Making => t = s
    BY <2>1
  <2>3. \A a \in Sweepers : rdir[a] = entry[name] /\ entry[name] # 0 => rat[a] \notin Clearing
    <3>1. \A a \in Sweepers : Removes(a) => rname[a] # name \/ rdir[a] # entry[name]
      BY DEF Remake
    <3>2. \A a \in Sweepers : rat[a] \in Clearing => Removes(a)
      BY DEF Removes, Clearing, Removing
    <3>3. \A a \in Sweepers : rat[a] \in Clearing /\ entry[name] = rdir[a] => rname[a] = name
      BY <2>1 DEF SweepsInv, Chosen, Clearing
    <3> QED BY <3>1, <3>2, <3>3
  <2>4. SUFFICES ASSUME entry[name] # 0 PROVE FALSE
    OBVIOUS
  <2>5. entry[name] \in Dirs /\ Linked(entry[name])
    BY <2>1, <2>4 DEF Linked
  <2>6. ReasonsAre(entry[name])
    BY <2>5 DEF ReasonsInv
  <2> QED BY <2>1, <2>2, <2>3, <2>4, <2>6 DEF ReasonsAre, Makes, Clearing
<1>1. NewInv'
  BY <1>0 DEF Remake, NewDir, Fresh, NewInv, LocksInv, SweepsInv, UnseenInv, ReasonsInv, ReasonsAre,
     Linked, Makes, Chosen, Clearing
<1>2. LocksInv'
  <2>1. PICK e \in Dirs : e \notin made /\ made' = made \cup {name, e} /\ entry' = [entry EXCEPT ![name] = e]
    BY <1>0 DEF Remake, NewDir, Fresh
  <2>2. /\ UNCHANGED <<lockOf, holder, locks, held, name, file>> /\ name \in Names
        /\ \A t \in Starts : t # s => at'[t] = at[t]
        /\ at'[s] = "open"
    BY DEF Remake, Named, TypeInv
  <2>3. \A d \in Dirs : Linked(d)' => Linked(d) \/ d = e
    BY <2>1, <2>2 DEF Linked
  <2>4. lockOf[e] = 0
    BY <2>1
  <2>5. \A d \in Dirs : Linked(d) => ~(lockOf[d] = held /\ held # 0)
    BY <1>0, <2>2 DEF LocksInv, Linked
  <2> QED BY <2>1, <2>2, <2>3, <2>4, <2>5 DEF LocksInv
<1>3. SweepsInv'
  BY <1>0 DEF Remake, NewDir, Fresh, NewInv, LocksInv, SweepsInv, UnseenInv, ReasonsInv, ReasonsAre,
     Linked, Makes, Chosen, Clearing
<1>4. UnseenInv'
  BY <1>0 DEF Remake, NewDir, Fresh, NewInv, LocksInv, SweepsInv, UnseenInv, ReasonsInv, ReasonsAre,
     Linked, Makes, Chosen, Clearing
<1>5. ReasonsInv'
  BY <1>0 DEF Remake, NewDir, Fresh, NewInv, LocksInv, SweepsInv, UnseenInv, ReasonsInv, ReasonsAre,
     Linked, Makes, Chosen, Clearing
<1> QED BY <1>1, <1>2, <1>3, <1>4, <1>5
-----------------------------------------------------------------------------
(* The steps of the sweeps, and of what else removes the dir.              *)

(* No sweep is at work in the dir while the backend holds it.              *)
LEMMA HeldIsSpared ==
  ASSUME Kept, NEW a \in Sweepers, rat[a] \in Clearing, HeldAt(name, held)
  PROVE  entry[name] # rdir[a]
  BY Apart DEF Kept, SweepsInv, LocksInv, HeldAt, Clearing

LEMMA MakersStay ==
  ASSUME TypeInv, MakersInv, UNCHANGED <<at, again, making, mutex, try, dir, file, name, held>>,
         HeldAt(name, held)' <=> HeldAt(name, held), \A d \in Dirs : Linked(d)' => Linked(d),
         HeldAt(name, held) => entry'[name] = entry[name]
  PROVE  MakersInv'
<1>1. \A s \in Starts : First(s)' <=> First(s)
  BY DEF First
<1>2. \A s \in Starts : dir[s] # 0 => dir[s] \in Dirs
  BY DEF TypeInv, TypeOK
<1> QED BY <1>1, <1>2 DEF MakersInv

LEMMA LookKeeps ==
  ASSUME TypeInv, Base, Kept, Living, NEW a \in Sweepers, Look(a)
  PROVE  Base' /\ Kept'
<1> USE Apart, HeldIsSpared
    DEF TypeInv, TypeOK, Base, Kept, HeldAt, fs, runtime, start, removal, RFrom, RGo, Unlocked
<1>1. FilesInv'
  BY DEF Look, FilesInv, Used, Linked
<1>2. CalmInv'
  BY DEF Look, CalmInv, FilesInv, Used, Linked, SweepsInv, Chosen, Clearing
<1>3. MakersInv'
  <2>1. UNCHANGED <<entry, lockOf, at, again, making, mutex, try, dir, file, name, held>>
    BY DEF Look
  <2> QED BY <2>1, MakersStay DEF Linked
<1>4. NewInv'
  BY DEF Look, FilesInv, Used, NewInv, LocksInv, SweepsInv, UnseenInv, ReasonsInv, ReasonsAre, Linked,
     Makes, Chosen, Clearing, Living
<1>5. LocksInv'
  BY DEF Look, FilesInv, Used, NewInv, LocksInv, SweepsInv, UnseenInv, ReasonsInv, ReasonsAre, Linked,
     Makes, Chosen, Clearing, Living
<1>6. SweepsInv'
  BY DEF Look, FilesInv, Used, NewInv, LocksInv, SweepsInv, UnseenInv, ReasonsInv, ReasonsAre, Linked,
     Makes, Chosen, Clearing, Living
<1>7. UnseenInv'
  BY DEF Look, FilesInv, Used, NewInv, LocksInv, SweepsInv, UnseenInv, ReasonsInv, ReasonsAre, Linked,
     Makes, Chosen, Clearing, Living
<1>8. ReasonsInv'
  BY DEF Look, FilesInv, Used, NewInv, LocksInv, SweepsInv, UnseenInv, ReasonsInv, ReasonsAre, Linked,
     Makes, Chosen, Clearing, Living
<1> QED BY <1>1, <1>2, <1>3, <1>4, <1>5, <1>6, <1>7, <1>8

LEMMA StatKeeps ==
  ASSUME TypeInv, Base, Kept, Living, NEW a \in Sweepers, Stat(a)
  PROVE  Base' /\ Kept'
<1> USE Apart, HeldIsSpared
    DEF TypeInv, TypeOK, Base, Kept, HeldAt, fs, runtime, start, removal, RFrom, RGo, Unlocked
<1>1. FilesInv'
  BY DEF Stat, FilesInv, Used, Linked
<1>2. CalmInv'
  BY DEF Stat, CalmInv, FilesInv, Used, Linked, SweepsInv, Chosen, Clearing
<1>3. MakersInv'
  <2>1. UNCHANGED <<entry, lockOf, at, again, making, mutex, try, dir, file, name, held>>
    BY DEF Stat
  <2> QED BY <2>1, MakersStay DEF Linked
<1>4. NewInv'
  BY DEF Stat, FilesInv, Used, NewInv, LocksInv, SweepsInv, UnseenInv, ReasonsInv, ReasonsAre, Linked,
     Makes, Chosen, Clearing, Living
<1>5. LocksInv'
  BY DEF Stat, FilesInv, Used, NewInv, LocksInv, SweepsInv, UnseenInv, ReasonsInv, ReasonsAre, Linked,
     Makes, Chosen, Clearing, Living
<1>6. SweepsInv'
  BY DEF Stat, FilesInv, Used, NewInv, LocksInv, SweepsInv, UnseenInv, ReasonsInv, ReasonsAre, Linked,
     Makes, Chosen, Clearing, Living
<1>7. UnseenInv'
  BY DEF Stat, FilesInv, Used, NewInv, LocksInv, SweepsInv, UnseenInv, ReasonsInv, ReasonsAre, Linked,
     Makes, Chosen, Clearing, Living
<1>8. ReasonsInv'
  BY DEF Stat, FilesInv, Used, NewInv, LocksInv, SweepsInv, UnseenInv, ReasonsInv, ReasonsAre, Linked,
     Makes, Chosen, Clearing, Living
<1> QED BY <1>1, <1>2, <1>3, <1>4, <1>5, <1>6, <1>7, <1>8

LEMMA AgeStepKeeps ==
  ASSUME TypeInv, Base, Kept, Living, NEW a \in Sweepers, Age(a)
  PROVE  Base' /\ Kept'
<1> USE Apart, HeldIsSpared
    DEF TypeInv, TypeOK, Base, Kept, HeldAt, fs, runtime, start, removal, RFrom, RGo, Unlocked
<1>1. FilesInv'
  BY DEF Age, FilesInv, Used, Linked
<1>2. CalmInv'
  BY DEF Age, CalmInv, FilesInv, Used, Linked, SweepsInv, Chosen, Clearing
<1>3. MakersInv'
  <2>1. UNCHANGED <<entry, lockOf, at, again, making, mutex, try, dir, file, name, held>>
    BY DEF Age
  <2> QED BY <2>1, MakersStay DEF Linked
<1>4. NewInv'
  BY DEF Age, FilesInv, Used, NewInv, LocksInv, SweepsInv, UnseenInv, ReasonsInv, ReasonsAre, Linked,
     Makes, Chosen, Clearing, Living
<1>5. LocksInv'
  BY DEF Age, FilesInv, Used, NewInv, LocksInv, SweepsInv, UnseenInv, ReasonsInv, ReasonsAre, Linked,
     Makes, Chosen, Clearing, Living
<1>6. SweepsInv'
  BY DEF Age, FilesInv, Used, NewInv, LocksInv, SweepsInv, UnseenInv, ReasonsInv, ReasonsAre, Linked,
     Makes, Chosen, Clearing, Living
<1>7. UnseenInv'
  BY DEF Age, FilesInv, Used, NewInv, LocksInv, SweepsInv, UnseenInv, ReasonsInv, ReasonsAre, Linked,
     Makes, Chosen, Clearing, Living
<1>8. ReasonsInv'
  BY DEF Age, FilesInv, Used, NewInv, LocksInv, SweepsInv, UnseenInv, ReasonsInv, ReasonsAre, Linked,
     Makes, Chosen, Clearing, Living
<1> QED BY <1>1, <1>2, <1>3, <1>4, <1>5, <1>6, <1>7, <1>8

LEMMA OpenLockKeeps ==
  ASSUME TypeInv, Base, Kept, Living, NEW a \in Sweepers, OpenLock(a)
  PROVE  Base' /\ Kept'
<1> USE Apart, HeldIsSpared
    DEF TypeInv, TypeOK, Base, Kept, HeldAt, fs, runtime, start, removal, RFrom, RGo, Unlocked
<1>1. FilesInv'
  BY DEF OpenLock, Missed, FilesInv, Used, Linked, Named
<1>2. CalmInv'
  BY DEF OpenLock, Missed, CalmInv, FilesInv, Used, Linked, SweepsInv, Chosen, Clearing
<1>3. MakersInv'
  <2>1. UNCHANGED <<entry, lockOf, at, again, making, mutex, try, dir, file, name, held>>
    BY DEF OpenLock, Missed
  <2> QED BY <2>1, MakersStay DEF Linked
<1>4. NewInv'
  BY DEF OpenLock, Missed, FilesInv, Used, NewInv, LocksInv, SweepsInv, UnseenInv, ReasonsInv, ReasonsAre,
     Linked, Makes, Chosen, Clearing, Living
<1>5. LocksInv'
  BY DEF OpenLock, Missed, FilesInv, Used, NewInv, LocksInv, SweepsInv, UnseenInv, ReasonsInv, ReasonsAre,
     Linked, Makes, Chosen, Clearing, Living
<1>6. SweepsInv'
  BY DEF OpenLock, Missed, FilesInv, Used, NewInv, LocksInv, SweepsInv, UnseenInv, ReasonsInv, ReasonsAre,
     Linked, Makes, Chosen, Clearing, Living
<1>7. UnseenInv'
  BY DEF OpenLock, Missed, FilesInv, Used, NewInv, LocksInv, SweepsInv, UnseenInv, ReasonsInv, ReasonsAre,
     Linked, Makes, Chosen, Clearing, Living
<1>8. ReasonsInv'
  <2>1. /\ UNCHANGED <<entry, lockOf, at, file, dir, try, held, rdir>> /\ rat[a] = "open"
        /\ \A b \in Sweepers : b # a => rat'[b] = rat[b]
    BY DEF OpenLock, Missed
  <2>2. \A d : (Linked(d)' <=> Linked(d)) /\ \A s \in Starts : Makes(s, d)' <=> Makes(s, d)
    BY <2>1 DEF Linked, Makes
  <2> QED BY <2>1, <2>2 DEF ReasonsInv, ReasonsAre
<1> QED BY <1>1, <1>2, <1>3, <1>4, <1>5, <1>6, <1>7, <1>8

LEMMA TryLockKeeps ==
  ASSUME TypeInv, Base, Kept, Living, NEW a \in Sweepers, TryLock(a)
  PROVE  Base' /\ Kept'
<1> USE Apart, HeldIsSpared
    DEF TypeInv, TypeOK, Base, Kept, HeldAt, fs, runtime, start, removal, RFrom, RGo, Unlocked
<1>1. FilesInv'
  BY DEF TryLock, Missed, DeadWithoutLock, FilesInv, Used, Linked
<1>2. CalmInv'
  BY DEF TryLock, Missed, DeadWithoutLock, CalmInv, FilesInv, Used, Linked, SweepsInv, Chosen, Clearing
<1>3. MakersInv'
  <2>1. UNCHANGED <<entry, lockOf, at, again, making, mutex, try, dir, file, name, held>>
    BY DEF TryLock, Missed, DeadWithoutLock
  <2> QED BY <2>1, MakersStay DEF Linked
<1>4. NewInv'
  BY DEF TryLock, Missed, DeadWithoutLock, FilesInv, Used, NewInv, LocksInv, SweepsInv, UnseenInv,
     ReasonsInv, ReasonsAre, Linked, Makes, Chosen, Clearing, Living
<1>5. LocksInv'
  <2>1. /\ UNCHANGED <<entry, lockOf, at, file, name, held, locks, made>>
        /\ \/ holder' = holder
           \/ locks /\ holder[rfile[a]] = None /\ holder' = [holder EXCEPT ![rfile[a]] = a]
        /\ rat[a] = "try"
    BY DEF TryLock, Missed, SweepsInv, Chosen, Clearing
  <2>2. rfile[a] \in Files /\ rfile[a] \in made
    BY <2>1 DEF SweepsInv, FilesInv, Used
  <2>3. \A d : Linked(d)' <=> Linked(d)
    BY <2>1 DEF Linked
  <2>4. locks => \A f \in Files : \/ holder'[f] = holder[f]
                                  \/ holder[f] = None /\ holder'[f] = a /\ f \in made
    BY <2>1, <2>2
  <2>5. /\ held # 0 => held \in Files
        /\ \A s \in Starts : at[s] \in {"flock", "verify", "publish"} => file[s] \in Files
    BY DEF MakersInv, Locking
  <2> QED BY <2>1, <2>3, <2>4, <2>5 DEF LocksInv
<1>6. SweepsInv'
  BY DEF TryLock, Missed, DeadWithoutLock, FilesInv, Used, NewInv, LocksInv, SweepsInv, UnseenInv,
     ReasonsInv, ReasonsAre, Linked, Makes, Chosen, Clearing, Living
<1>7. UnseenInv'
  BY DEF TryLock, Missed, DeadWithoutLock, FilesInv, Used, NewInv, LocksInv, SweepsInv, UnseenInv,
     ReasonsInv, ReasonsAre, Linked, Makes, Chosen, Clearing, Living
<1>8. ReasonsInv'
  BY DEF TryLock, Missed, DeadWithoutLock, FilesInv, Used, NewInv, LocksInv, SweepsInv, UnseenInv,
     ReasonsInv, ReasonsAre, Linked, Makes, Chosen, Clearing, Living
<1> QED BY <1>1, <1>2, <1>3, <1>4, <1>5, <1>6, <1>7, <1>8

(* A sweep that goes on keeps the reasons, but for the dir it gives up.    *)
LEMMA ReasonsStay ==
  ASSUME TypeOK, ReasonsInv, NEW a \in Sweepers,
         UNCHANGED <<entry, held, at, try, dir, file, rdir>>,
         \A d \in Dirs : lockOf'[d] = lockOf[d]
                          \/ (rdir[a] = d /\ rat'[a] \in {"clear", "unlink", "rmdir"}),
         \A b \in Sweepers : b # a => rat'[b] = rat[b],
         rat[a] \in {"clear", "unlink", "rmdir"} => rat'[a] \in {"clear", "unlink", "rmdir"}
  PROVE  ReasonsInv'
<1> SUFFICES ASSUME NEW d \in Dirs, Linked(d)' PROVE ReasonsAre(d)'
  BY DEF ReasonsInv
<1>1. ReasonsAre(d)
  BY DEF ReasonsInv, Linked
<1>2. CASE lockOf'[d] # lockOf[d]
  BY <1>2 DEF ReasonsAre
<1>3. CASE lockOf'[d] = lockOf[d] /\ \E b \in Sweepers : rdir[b] = d /\ rat[b] \in {"clear", "unlink", "rmdir"}
  BY <1>3 DEF ReasonsAre
<1>4. CASE lockOf'[d] = lockOf[d] /\ ~\E b \in Sweepers : rdir[b] = d /\ rat[b] \in {"clear", "unlink", "rmdir"}
  BY <1>1, <1>4 DEF ReasonsAre, Makes
<1> QED BY <1>2, <1>3, <1>4

LEMMA ClearKeeps ==
  ASSUME TypeInv, Base, Kept, Living, NEW a \in Sweepers, Clear(a)
  PROVE  Base' /\ Kept'
<1> USE Apart, HeldIsSpared
    DEF TypeInv, TypeOK, Base, Kept, HeldAt, fs, runtime, start, removal, RFrom, RGo, Unlocked
<1>1. FilesInv'
  BY DEF Clear, FilesInv, Used, Linked
<1>2. CalmInv'
  BY DEF Clear, CalmInv, FilesInv, Used, Linked, SweepsInv, Chosen, Clearing
<1>3. MakersInv'
  <2>1. UNCHANGED <<entry, lockOf, at, again, making, mutex, try, dir, file, name, held>>
    BY DEF Clear
  <2> QED BY <2>1, MakersStay DEF Linked
<1>4. NewInv'
  BY DEF Clear, FilesInv, Used, NewInv, LocksInv, SweepsInv, UnseenInv, ReasonsInv, ReasonsAre, Linked,
     Makes, Chosen, Clearing, Living
<1>5. LocksInv'
  BY DEF Clear, FilesInv, Used, NewInv, LocksInv, SweepsInv, UnseenInv, ReasonsInv, ReasonsAre, Linked,
     Makes, Chosen, Clearing, Living
<1>6. SweepsInv'
  BY DEF Clear, FilesInv, Used, NewInv, LocksInv, SweepsInv, UnseenInv, ReasonsInv, ReasonsAre, Linked,
     Makes, Chosen, Clearing, Living
<1>7. UnseenInv'
  BY DEF Clear, FilesInv, Used, NewInv, LocksInv, SweepsInv, UnseenInv, ReasonsInv, ReasonsAre, Linked,
     Makes, Chosen, Clearing, Living
<1>8. ReasonsInv'
  <2>1. /\ UNCHANGED <<entry, held, at, try, dir, file, rdir>> /\ lockOf' = lockOf
        /\ rat[a] = "clear" /\ rat' = [rat EXCEPT ![a] = "unlink"]
    BY DEF Clear
  <2>2. \A b \in Sweepers : b # a => rat'[b] = rat[b]
    BY <2>1
  <2>3. rat'[a] = "unlink" /\ \A d \in Dirs : d # rdir[a] => lockOf'[d] = lockOf[d]
    BY <2>1
  <2> QED BY <2>1, <2>2, <2>3, ReasonsStay
<1> QED BY <1>1, <1>2, <1>3, <1>4, <1>5, <1>6, <1>7, <1>8

LEMMA UnlinkKeeps ==
  ASSUME TypeInv, Base, Kept, Living, NEW a \in Sweepers, Unlink(a)
  PROVE  Base' /\ Kept'
<1> USE Apart, HeldIsSpared
    DEF TypeInv, TypeOK, Base, Kept, HeldAt, fs, runtime, start, removal, RFrom, RGo, Unlocked
<1>1. FilesInv'
  BY DEF Unlink, FilesInv, Used, Linked
<1>2. CalmInv'
  BY DEF Unlink, CalmInv, FilesInv, Used, Linked, SweepsInv, Chosen, Clearing
<1>3. MakersInv'
  <2>1. /\ UNCHANGED <<entry, at, again, making, mutex, try, dir, file, name, held>>
        /\ lockOf' = [lockOf EXCEPT ![rdir[a]] = 0] /\ rat[a] \in Clearing
    BY DEF Unlink, Clearing
  <2>2. HeldAt(name, held)' <=> HeldAt(name, held)
    BY <2>1
  <2> QED BY <2>1, <2>2, MakersStay DEF Linked
<1>4. NewInv'
  BY DEF Unlink, FilesInv, MakersInv, Used, NewInv, LocksInv, SweepsInv, UnseenInv, ReasonsInv,
     ReasonsAre, Linked, Makes, Chosen, Clearing, Living
<1>5. LocksInv'
  BY DEF Unlink, FilesInv, MakersInv, Used, NewInv, LocksInv, SweepsInv, UnseenInv, ReasonsInv,
     ReasonsAre, Linked, Makes, Chosen, Clearing, Living
<1>6. SweepsInv'
  BY DEF Unlink, FilesInv, MakersInv, Used, NewInv, LocksInv, SweepsInv, UnseenInv, ReasonsInv,
     ReasonsAre, Linked, Makes, Chosen, Clearing, Living
<1>7. UnseenInv'
  BY DEF Unlink, FilesInv, MakersInv, Used, NewInv, LocksInv, SweepsInv, UnseenInv, ReasonsInv,
     ReasonsAre, Linked, Makes, Chosen, Clearing, Living
<1>8. ReasonsInv'
  <2>1. /\ UNCHANGED <<entry, held, at, try, dir, file, rdir>> /\ lockOf' = [lockOf EXCEPT ![rdir[a]] = 0]
        /\ rat[a] = "unlink" /\ rat' = [rat EXCEPT ![a] = "rmdir"]
    BY DEF Unlink
  <2>2. \A b \in Sweepers : b # a => rat'[b] = rat[b]
    BY <2>1
  <2>3. rat'[a] = "rmdir" /\ \A d \in Dirs : d # rdir[a] => lockOf'[d] = lockOf[d]
    BY <2>1
  <2> QED BY <2>1, <2>2, <2>3, ReasonsStay
<1> QED BY <1>1, <1>2, <1>3, <1>4, <1>5, <1>6, <1>7, <1>8

LEMMA RmdirKeeps ==
  ASSUME TypeInv, Base, Kept, Living, NEW a \in Sweepers, Rmdir(a, "rmdir", "release", "reclear")
  PROVE  Base' /\ Kept'
<1> USE Apart, HeldIsSpared
    DEF TypeInv, TypeOK, Base, Kept, HeldAt, fs, runtime, start, removal, RFrom, RGo, Unlocked
<1>1. FilesInv'
  BY DEF Rmdir, Empty, FilesInv, Used, Linked
<1>2. CalmInv'
  BY DEF Rmdir, Empty, CalmInv, FilesInv, Used, Linked, SweepsInv, Chosen, Clearing
<1>3. MakersInv'
  <2>1. /\ UNCHANGED <<lockOf, at, again, making, mutex, try, dir, file, name, held>>
        /\ rat[a] \in Clearing
        /\ \/ entry' = entry
           \/ entry' = [entry EXCEPT ![rname[a]] = 0] /\ entry[rname[a]] = rdir[a]
    BY DEF Rmdir, Clearing
  <2>0. rdir[a] \in Dirs /\ rname[a] \in Names
    BY <2>1 DEF SweepsInv, Chosen, Clearing
  <2>2. HeldAt(name, held) => entry'[name] = entry[name]
    <3>1. HeldAt(name, held) => entry[name] # rdir[a]
      BY <2>1, HeldIsSpared
    <3>2. HeldAt(name, held) => name \in Names
      BY DEF MakersInv
    <3> QED BY <2>0, <2>1, <3>1, <3>2
  <2>3. HeldAt(name, held)' <=> HeldAt(name, held)
    <3>1. HeldAt(name, held) => HeldAt(name, held)'
      BY <2>1, <2>2
    <3>2. held' # 0 => name' \in Names
      BY <2>1 DEF MakersInv
    <3>3. HeldAt(name, held)' => HeldAt(name, held)
      BY <2>0, <2>1, <3>2
    <3> QED BY <3>1, <3>3
  <2>4. \A d \in Dirs : Linked(d)' => Linked(d)
    BY <2>0, <2>1 DEF Linked
  <2> QED BY <2>1, <2>2, <2>3, <2>4, MakersStay
<1>4. NewInv'
  <2>1. /\ UNCHANGED <<lockOf, at, try, dir, file, held>>
        /\ entry' = entry \/ entry' = [entry EXCEPT ![rname[a]] = 0]
    BY DEF Rmdir
  <2>2. \A n \in Names : entry'[n] \in {0, entry[n]}
    BY <2>1
  <2>3. \A d \in Dirs, n \in Names : Linked(d)' /\ entry[n] = d => entry'[n] = d
    BY <2>2 DEF Linked, FilesInv
  <2> QED BY <2>1, <2>2, <2>3 DEF NewInv, Linked, Locking
<1>5. LocksInv'
  <2>1. /\ UNCHANGED <<lockOf, holder, at, file, name, held, locks, made>>
        /\ rat[a] \in Clearing
        /\ \/ entry' = entry
           \/ entry' = [entry EXCEPT ![rname[a]] = 0] /\ entry[rname[a]] = rdir[a]
    BY DEF Rmdir, Clearing
  <2>2. rdir[a] \in Dirs /\ rname[a] \in Names
    BY <2>1 DEF SweepsInv, Chosen, Clearing
  <2>3. \A d \in Dirs : Linked(d)' => Linked(d)
    BY <2>1, <2>2 DEF Linked
  <2>4. \A d \in Dirs : Linked(d)' /\ entry[name] = d /\ name \in Names => entry'[name] = d
    BY <2>1, <2>2 DEF Linked, FilesInv
  <2>5. held # 0 => name \in Names
    BY DEF MakersInv
  <2> QED BY <2>1, <2>3, <2>4, <2>5 DEF LocksInv
<1>6. SweepsInv'
  BY DEF Rmdir, Empty, FilesInv, Used, NewInv, LocksInv, SweepsInv, UnseenInv, ReasonsInv, ReasonsAre,
     Linked, Makes, Chosen, Clearing, Living
<1>7. UnseenInv'
  BY DEF Rmdir, Empty, FilesInv, Used, NewInv, LocksInv, SweepsInv, UnseenInv, ReasonsInv, ReasonsAre,
     Linked, Makes, Chosen, Clearing, Living
<1>8. ReasonsInv'
  BY DEF Rmdir, Empty, FilesInv, Used, NewInv, LocksInv, SweepsInv, UnseenInv, ReasonsInv, ReasonsAre,
     Linked, Makes, Chosen, Clearing, Living
<1> QED BY <1>1, <1>2, <1>3, <1>4, <1>5, <1>6, <1>7, <1>8

LEMMA ReleaseKeeps ==
  ASSUME TypeInv, Base, Kept, Living, NEW a \in Sweepers, Release(a, "release", "done")
  PROVE  Base' /\ Kept'
<1> USE Apart, HeldIsSpared
    DEF TypeInv, TypeOK, Base, Kept, HeldAt, fs, runtime, start, removal, RFrom, RGo, Unlocked
<1>1. FilesInv'
  BY DEF Release, FilesInv, Used, Linked
<1>2. CalmInv'
  BY DEF Release, CalmInv, FilesInv, Used, Linked, SweepsInv, Chosen, Clearing
<1>3. MakersInv'
  <2>1. UNCHANGED <<entry, lockOf, at, again, making, mutex, try, dir, file, name, held>>
    BY DEF Release
  <2> QED BY <2>1, MakersStay DEF Linked
<1>4. NewInv'
  BY DEF Release, FilesInv, Used, NewInv, LocksInv, SweepsInv, UnseenInv, ReasonsInv, ReasonsAre, Linked,
     Makes, Chosen, Clearing, Living
<1>5. LocksInv'
  <2>1. /\ UNCHANGED <<entry, lockOf, at, file, name, held, locks, made>>
        /\ holder' = Unlocked(rfile[a]) /\ rat[a] = "release"
    BY DEF Release
  <2>2. rfile[a] \in Files /\ holder[rfile[a]] = a /\ locks
    BY <2>1 DEF SweepsInv, Clearing
  <2>3. \A d : Linked(d)' <=> Linked(d)
    BY <2>1 DEF Linked
  <2>4. \A f \in Files : holder'[f] = holder[f] \/ (holder[f] = a /\ holder'[f] = None)
    BY <2>1, <2>2
  <2>5. /\ held # 0 => held \in Files
        /\ \A s \in Starts : at[s] \in {"flock", "verify", "publish"} => file[s] \in Files
    BY DEF MakersInv, Locking
  <2> QED BY <2>1, <2>2, <2>3, <2>4, <2>5 DEF LocksInv
<1>6. SweepsInv'
  BY DEF Release, FilesInv, Used, NewInv, LocksInv, SweepsInv, UnseenInv, ReasonsInv, ReasonsAre, Linked,
     Makes, Chosen, Clearing, Living
<1>7. UnseenInv'
  BY DEF Release, FilesInv, Used, NewInv, LocksInv, SweepsInv, UnseenInv, ReasonsInv, ReasonsAre, Linked,
     Makes, Chosen, Clearing, Living
<1>8. ReasonsInv'
  <2>1. /\ UNCHANGED <<entry, held, at, try, dir, file, rdir>> /\ lockOf' = lockOf
        /\ rat[a] = "release" /\ rat' = [rat EXCEPT ![a] = "done"]
    BY DEF Release
  <2>2. \A b \in Sweepers : b # a => rat'[b] = rat[b]
    BY <2>1
  <2>3. rat'[a] = "done" /\ \A d \in Dirs : d # rdir[a] => lockOf'[d] = lockOf[d]
    BY <2>1
  <2> QED BY <2>1, <2>2, <2>3, ReasonsStay
<1> QED BY <1>1, <1>2, <1>3, <1>4, <1>5, <1>6, <1>7, <1>8

LEMMA SweepKeeps ==
  ASSUME TypeInv, Base, Kept, Living, NEW a \in Sweepers, Sweep(a), rat'[a] # "died"
  PROVE  Base' /\ Kept'
<1>0. rat[a] \in {"idle", "done"} \cup Chosen
  BY DEF Kept, SweepsInv
<1>1. CASE Look(a) \/ Stat(a) \/ Age(a)
  BY <1>1, LookKeeps, StatKeeps, AgeStepKeeps
<1>2. CASE TakeLock(a)
  BY <1>0, <1>2, OpenLockKeeps, TryLockKeeps DEF TakeLock, CreateLock, RFrom, Chosen, Clearing
<1>3. CASE RemoveStep(a)
  BY <1>0, <1>3, ClearKeeps, UnlinkKeeps, RmdirKeeps, ReleaseKeeps
  DEF RemoveStep, ClearAll, Rmdir, Release, RFrom, Chosen, Clearing
<1>4. ~SweepEnds(a)
  BY Apart DEF SweepEnds, RGo, TypeInv, TypeOK
<1> QED
  BY <1>1, <1>2, <1>3, <1>4 DEF Sweep

LEMMA CleanerKeepsBase ==
  ASSUME TypeInv, Base, Cleaner
  PROVE  Base'
<1> USE Apart DEF TypeInv, TypeOK, Base, fs, runtime, start, removal
<1>1. FilesInv'
  BY DEF Cleaner, FilesInv, Used
<1>2. CalmInv'
  BY DEF Cleaner, CalmInv
<1>3. ~HeldAt(name, held)'
  BY DEF Cleaner, HeldAt
<1>4. \A d \in Dirs : Linked(d)' => Linked(d) /\ d # entry[name]
  BY DEF Cleaner, Linked, FilesInv
<1>5. \A s \in Starts : First(s)' <=> First(s)
  BY DEF First, Cleaner
<1>6. MakersInv'
  BY <1>3, <1>4, <1>5 DEF Cleaner, MakersInv
<1> QED BY <1>1, <1>2, <1>6

LEMMA CleanerKeeps ==
  ASSUME TypeInv, Base, Kept, Living, Cleaner
  PROVE  Kept'
<1> USE Apart DEF TypeInv, TypeOK, Base, Kept, fs, runtime, start, removal
<1>1. NewInv'
  BY DEF Cleaner, FilesInv, Used, MakersInv, Locking, NewInv, LocksInv, SweepsInv, UnseenInv, ReasonsInv,
     ReasonsAre, Linked, Makes, Chosen, Clearing
<1>2. LocksInv'
  BY DEF Cleaner, FilesInv, Used, MakersInv, Locking, NewInv, LocksInv, SweepsInv, UnseenInv, ReasonsInv,
     ReasonsAre, Linked, Makes, Chosen, Clearing
<1>3. SweepsInv'
  BY DEF Cleaner, FilesInv, Used, MakersInv, Locking, NewInv, LocksInv, SweepsInv, UnseenInv, ReasonsInv,
     ReasonsAre, Linked, Makes, Chosen, Clearing
<1>4. UnseenInv'
  BY DEF Cleaner, FilesInv, Used, MakersInv, Locking, NewInv, LocksInv, SweepsInv, UnseenInv, ReasonsInv,
     ReasonsAre, Linked, Makes, Chosen, Clearing
<1>5. ReasonsInv'
  <2>1. /\ UNCHANGED <<held, at, try, dir, file, rdir, rat>>
        /\ entry' = [entry EXCEPT ![name] = 0] /\ lockOf' = [lockOf EXCEPT ![entry[name]] = 0]
        /\ name \in Names /\ entry[name] \in Dirs
    BY DEF Cleaner
  <2>2. SUFFICES ASSUME NEW d \in Dirs, Linked(d)' PROVE ReasonsAre(d)'
    BY DEF ReasonsInv
  <2>3. PICK n \in Names : entry'[n] = d
    BY <2>2 DEF Linked
  <2>4. n # name /\ entry[n] = d
    BY <2>1, <2>3
  <2>5. d # entry[name] /\ lockOf'[d] = lockOf[d]
    BY <2>1, <2>4 DEF FilesInv
  <2>6. ReasonsAre(d)
    BY <2>4 DEF ReasonsInv, Linked
  <2>7. \A m \in Names : m # name => entry'[m] = entry[m]
    BY <2>1
  <2>8. \A s \in Starts : Makes(s, d) => Makes(s, d)'
    BY <2>1, <2>5, <2>7 DEF Makes, NewInv
  <2> QED BY <2>1, <2>5, <2>6, <2>8 DEF ReasonsAre
<1> QED BY <1>1, <1>2, <1>3, <1>4, <1>5

(* A dir without a lock file is one that is being made, or that a sweep is *)
(* about to remove: it does not get old.                                   *)
LEMMA NoneAges ==
  ASSUME TypeInv, Base, Kept, Living, Prompt, ~Stalls, NEW d \in Dirs, Ages(d)
  PROVE  FALSE
<1>1. Linked(d) /\ lockOf[d] = 0 /\ ReasonsAre(d)
  BY DEF Ages, Kept, ReasonsInv
<1>2. \A s \in Starts : at[s] \in {"open", "lock"} => entry[try[s]] # d
  BY DEF Ages, Living
<1>3. \A a \in Sweepers : rat[a] \in Clearing => rdir[a] # d
  BY Apart DEF Ages, Removes, Removing, Clearing
<1>4. \A s \in Starts : ~Makes(s, d)
  BY <1>1, <1>2 DEF Makes, Kept, NewInv
<1>5. \A s \in Starts : at[s] \in Locking => file[s] # 0
  BY DEF Base, MakersInv
<1> QED BY <1>1, <1>3, <1>4, <1>5 DEF ReasonsAre, Clearing

LEMMA StartKeeps ==
  ASSUME TypeInv, Base, Kept, Living, Prompt, NEW s \in Starts, StartSteps(s)
  PROVE  Kept'
<1>1. rat[s] = "idle" /\ at[s] # "drop"
  BY DEF Base, CalmInv
<1>2. ~RemoveStep(s) /\ ~Dropped(s)
  BY <1>1 DEF RemoveStep, Dropped, Clear, Unlink, ClearAll, Rmdir, Release, RFrom, From
<1> QED
  BY <1>2, ControlStepKeeps, MkdirKeeps, OpenDirKeeps, MakeLockKeeps, FlockKeeps, VerifyKeeps,
     PublishKeeps, MakeKernelDirKeeps, RemakeKeeps
  DEF StartSteps

(* Until the exit the guard and the exit itself do nothing.                *)
LEMMA LivingSteps ==
  ASSUME TypeInv, Base, Living, Next
  PROVE  \/ \E s \in Starts : StartSteps(s)
         \/ \E a \in Sweepers : Sweep(a)
         \/ ExitBegins \/ Dies \/ (\E d \in Dirs : Ages(d)) \/ Cleaner
<1>1. rat[Guard] \in {"idle", "wait"} /\ rat[Exit] = "idle" /\ alive = "up"
  BY DEF Base, CalmInv, Living
<1>2. ~GuardSteps
  BY <1>1 DEF GuardSteps, GuardWakes, PipeClosed, GuardLooks, GuardGivesUp, TakeLock, OpenLock, CreateLock,
     TryLock, RemoveStep, Clear, Unlink, ClearAll, Rmdir, Release, RFrom
<1>3. ExitSteps => ExitBegins
  BY <1>1 DEF ExitSteps, ExitFlags, ExitRemoves, RemoveStep, Clear, Unlink, ClearAll, Rmdir, Release, RFrom
<1> QED BY <1>1, <1>2, <1>3 DEF Next, LocksGo, Reaped

LEMMA ExitEndsLiving ==
  ASSUME TypeInv, ExitBegins \/ Dies
  PROVE  ~Living'
  BY Apart DEF ExitBegins, Dies, Living, RGo, RFrom, TypeInv, TypeOK

(* A sweep that dies leaves a dir half removed; nobody else sweeps then.   *)
LEMMA SweepMayEnd ==
  ASSUME TypeInv, Base, NoneDied, Crashes => \A a, b \in Sweepers : a = b,
         NEW a \in Sweepers, Sweep(a), rat'[a] = "died"
  PROVE  Base' /\ \A b \in Sweepers : rat'[b] = "died"
<1> USE Apart DEF TypeInv, TypeOK, fs, runtime, start, removal, RFrom, RGo
<1>1. SweepEnds(a)
  BY DEF Sweep, Look, Stat, Age, TakeLock, OpenLock, CreateLock, TryLock, Missed, RemoveStep, Clear,
     Unlink, ClearAll, Rmdir, Release, NoneDied
<1>2. FilesInv'
  BY <1>1 DEF SweepEnds, Base, FilesInv, Used
<1>3. CalmInv'
  BY <1>1 DEF SweepEnds, Base, CalmInv
<1>4. MakersInv'
  BY <1>1, MakersStay DEF SweepEnds, Base, HeldAt, Linked
<1>5. Crashes
  BY <1>1 DEF SweepEnds
<1> QED BY <1>2, <1>3, <1>4, <1>5 DEF Base

LEMMA DeadRest ==
  ASSUME NEW a \in Sweepers, Sweep(a)
  PROVE  rat[a] # "died"
  BY DEF Sweep, Look, Stat, Age, TakeLock, OpenLock, CreateLock, TryLock, RemoveStep,
     Clear, Unlink, ClearAll, Rmdir, Release, SweepEnds, RFrom

LEMMA StartsSweepNot ==
  ASSUME TypeInv, NEW s \in Starts, StartSteps(s)
  PROVE  \A a \in Sweepers : rat'[a] = rat[a]
<1> USE Apart DEF TypeInv, TypeOK, removal, RGo
<1> QED BY DEF StartSteps, Begin, Make, Mkdir, OpenDir, MakeLock, Flock, Verify, Publish, Dropped,
  StartGuard, Check, KernelDirIfHeld, MakeKernelDir, TryAgain, Recreate, Remake, Rest,
  RemoveStep, Clear, Unlink, ClearAll, Rmdir, Release

LEMMA AgesKeepsBase ==
  ASSUME Base, NEW d \in Dirs, Ages(d)
  PROVE  Base'
<1> USE DEF Ages, Base, runtime, start, removal
<1>1. FilesInv'
  BY DEF FilesInv, Used
<1>2. CalmInv'
  BY DEF CalmInv
<1>3. MakersInv'
  BY DEF MakersInv, First, HeldAt, Linked
<1> QED BY <1>1, <1>2, <1>3

LEMMA StartsGoOn ==
  ASSUME TypeInv, NEW s \in Starts, StartSteps(s)
  PROVE  alive' = alive /\ rat'[Exit] = rat[Exit]
<1> USE Apart DEF TypeInv, TypeOK, removal, RGo
<1> QED BY DEF StartSteps, Begin, Make, Mkdir, OpenDir, MakeLock, Flock, Verify, Publish, Dropped,
  StartGuard, Check, KernelDirIfHeld, MakeKernelDir, TryAgain, Recreate, Remake, Rest,
  RemoveStep, Clear, Unlink, ClearAll, Rmdir, Release

LEMMA RemoversGoOn ==
  ASSUME TypeInv, NEW a \in Removers,
         RemoveStep(a) \/ TakeLock(a) \/ (a \in Sweepers /\ Sweep(a))
  PROVE  alive' = alive /\ rat'[a] # "idle" /\ \A b \in Removers : b # a => rat'[b] = rat[b]
<1> USE DEF TypeInv, TypeOK, RGo
<1>1. CASE RemoveStep(a)
  BY <1>1 DEF RemoveStep, Clear, Unlink, ClearAll, Rmdir, Release
<1>2. CASE TakeLock(a)
  BY <1>2 DEF TakeLock, OpenLock, CreateLock, TryLock, Missed
<1>3. CASE Sweep(a)
  BY <1>1, <1>2, <1>3 DEF Sweep, Look, Stat, Age, SweepEnds
<1> QED BY <1>1, <1>2, <1>3

(* What has ended does not begin again.                                    *)
LEMMA NeverBack ==
  ASSUME TypeInv, [Next]_vars, Living'
  PROVE  Living
<1> USE Apart DEF TypeInv, TypeOK, Living
<1>1. CASE \E s \in Starts : StartSteps(s)
  BY <1>1, StartsGoOn
<1>2. CASE \E a \in Sweepers : Sweep(a)
  BY <1>2, RemoversGoOn
<1>3. CASE GuardSteps
  BY <1>3, RemoversGoOn DEF GuardSteps, GuardWakes, GuardLooks, GuardGivesUp, RGo
<1>4. CASE ExitSteps
  BY <1>4, RemoversGoOn DEF ExitSteps, ExitBegins, ExitFlags, ExitRemoves, RFrom, RGo
<1>5. CASE Dies \/ LocksGo \/ Reaped \/ (\E d \in Dirs : Ages(d)) \/ Cleaner
  BY <1>5 DEF Dies, LocksGo, Reaped, Ages, Cleaner, removal
<1>6. CASE UNCHANGED vars
  BY <1>6 DEF vars, removal
<1> QED BY <1>1, <1>2, <1>3, <1>4, <1>5, <1>6 DEF Next

LEMMA StutterKeeps ==
  ASSUME DirIInv, UNCHANGED vars
  PROVE  DirIInv'
<1> USE DEF vars, fs, runtime, start, removal
<1>1. TypeInv'
  BY TypeStep DEF DirIInv
<1>2. Living' <=> Living
  BY DEF Living
<1>3. NoneDied' <=> NoneDied
  BY DEF NoneDied
<1>4. Base => Base'
  BY DEF Base, FilesInv, Used, CalmInv, MakersInv, First, HeldAt, Linked
<1>5. Kept => Kept'
  BY DEF Kept, NewInv, LocksInv, SweepsInv, UnseenInv, ReasonsInv, ReasonsAre, Linked, Makes
<1> QED BY <1>1, <1>2, <1>3, <1>4, <1>5 DEF DirIInv

LEMMA DirStep ==
  ASSUME Prompt, ~Stalls, Crashes => \A a, b \in Sweepers : a = b, DirIInv, Next
  PROVE  DirIInv'
<1>1. TypeInv /\ TypeInv'
  BY TypeStep DEF DirIInv
<1>2. Living' => Living
  BY <1>1, NeverBack
<1>3. SUFFICES ASSUME Living, Living'
      PROVE  Base' /\ IF NoneDied' THEN Kept' ELSE \A a \in Sweepers : rat'[a] = "died"
  BY <1>1, <1>2 DEF DirIInv
<1>4. Base
  BY <1>3 DEF DirIInv
<1>5. CASE \E s \in Starts : StartSteps(s)
  <2>1. PICK s \in Starts : StartSteps(s)
    BY <1>5
  <2>2. Base'
    BY <1>1, <1>3, <1>4, <2>1, StartKeepsBase
  <2>3. \A a \in Sweepers : rat'[a] = rat[a]
    BY <1>1, <1>3, <1>4, <2>1, StartsSweepNot
  <2>4. NoneDied => Kept'
    BY <1>1, <1>3, <1>4, <2>1, StartKeeps DEF DirIInv
  <2> QED BY <1>3, <2>2, <2>3, <2>4 DEF DirIInv, NoneDied
<1>6. CASE \E a \in Sweepers : Sweep(a)
  <2>1. PICK a \in Sweepers : Sweep(a)
    BY <1>6
  <2>2. \A b \in Sweepers : b # a => rat'[b] = rat[b]
    BY <1>1, <2>1, RemoversGoOn, Apart
  <2>3. rat[a] # "died"
    BY <2>1, DeadRest
  <2>4. NoneDied
    BY <1>3, <2>3 DEF DirIInv
  <2>5. Kept
    BY <1>3, <2>4 DEF DirIInv
  <2>6. CASE rat'[a] = "died"
    BY <1>1, <1>4, <2>1, <2>4, <2>6, SweepMayEnd DEF NoneDied
  <2>7. CASE rat'[a] # "died"
    BY <1>1, <1>3, <1>4, <2>1, <2>2, <2>4, <2>5, <2>7, SweepKeeps DEF NoneDied
  <2> QED BY <2>6, <2>7
<1>7. CASE \E d \in Dirs : Ages(d)
  <2>1. PICK d \in Dirs : Ages(d)
    BY <1>7
  <2>2. ~NoneDied
    BY <1>1, <1>3, <1>4, <2>1, NoneAges DEF DirIInv
  <2>3. Base' /\ rat' = rat
    BY <1>4, <2>1, AgesKeepsBase DEF Ages, removal
  <2> QED BY <1>3, <2>2, <2>3 DEF DirIInv, NoneDied
<1>8. CASE Cleaner
  <2>1. Base' /\ rat' = rat
    BY <1>1, <1>4, <1>8, CleanerKeepsBase DEF Cleaner, removal
  <2>2. NoneDied => Kept'
    BY <1>1, <1>3, <1>4, <1>8, CleanerKeeps DEF DirIInv
  <2> QED BY <1>3, <2>1, <2>2 DEF DirIInv, NoneDied
<1> QED BY <1>1, <1>3, <1>4, <1>5, <1>6, <1>7, <1>8, LivingSteps, ExitEndsLiving

-----------------------------------------------------------------------------
(* A dir that the backend holds keeps what is in it.                       *)

Spares ==
  alive = "up" /\ rat[Exit] = "idle" /\ HeldAt(name, held) /\ cleaned' = cleaned
    => HeldAt(name, held)' /\ kern[entry[name]] \subseteq kern'[entry[name]]

LEMMA StartSpares ==
  ASSUME TypeInv, Base, Living, HeldAt(name, held), NEW s \in Starts, StartSteps(s)
  PROVE  HeldAt(name, held)' /\ kern[entry[name]] \subseteq kern'[entry[name]]
<1> USE Apart DEF TypeInv, TypeOK, Named, Base, MakersInv, FilesInv, Used, First, Making, HeldAt, fs,
        runtime, start, removal,
        From, Go, RFrom, RGo, Unlocked
<1>0. rat[s] = "idle" /\ at[s] # "drop" /\ ~exiting
  BY DEF CalmInv
<1>9. name \in Names /\ held \in Files /\ entry[name] \in Dirs
  OBVIOUS
<1>1. CASE Begin(s) \/ Make(s) \/ OpenDir(s) \/ Flock(s) \/ StartGuard(s) \/
    Check(s) \/ KernelDirIfHeld(s) \/ TryAgain(s) \/ Recreate(s) \/ Rest(s)
  BY <1>0, <1>9, <1>1 DEF Begin, Make, OpenDir, Flock, StartGuard, Check, KernelDirIfHeld, TryAgain,
     Recreate, Rest, Taken
<1>2. CASE Mkdir(s)
  BY <1>0, <1>9, <1>2 DEF Mkdir, NewDir, Fresh
<1>3. CASE MakeLock(s)
  BY <1>0, <1>9, <1>3 DEF MakeLock, NewLock, Fresh, Taken
<1>4. CASE Verify(s)
  BY <1>0, <1>9, <1>4 DEF Verify, Taken, Sound
<1>5. CASE Publish(s)
  BY <1>0, <1>9, <1>5 DEF Publish
<1>6. CASE MakeKernelDir(s)
  BY <1>0, <1>9, <1>6 DEF MakeKernelDir
<1>7. CASE Remake(s)
  BY <1>0, <1>9, <1>7 DEF Remake, NewDir, Fresh
<1> QED
  BY <1>0, <1>1, <1>2, <1>3, <1>4, <1>5, <1>6, <1>7
  DEF StartSteps, RemoveStep, Dropped, Clear, Unlink, ClearAll, Rmdir, Release

LEMMA SweepSpares ==
  ASSUME TypeInv, Base, Kept, HeldAt(name, held), NEW a \in Sweepers, Sweep(a)
  PROVE  HeldAt(name, held)' /\ kern[entry[name]] \subseteq kern'[entry[name]]
<1> USE Apart DEF TypeInv, TypeOK, Base, MakersInv, HeldAt, fs, runtime, RFrom, RGo
<1>1. name \in Names /\ held \in Files /\ entry[name] \in Dirs
  OBVIOUS
<1>2. rat[a] \in {"idle", "done"} \cup Chosen
  BY DEF Kept, SweepsInv
<1>3. rat[a] \in Clearing => entry[name] # rdir[a] /\ rdir[a] \in Dirs /\ rname[a] \in Names
  BY HeldIsSpared DEF Kept, SweepsInv, Chosen, Clearing
<1>4. CASE Look(a) \/ Stat(a) \/ Age(a) \/ SweepEnds(a) \/ TakeLock(a)
  BY <1>1, <1>2, <1>4 DEF Look, Stat, Age, SweepEnds, TakeLock, OpenLock, CreateLock, TryLock, Chosen,
     Clearing
<1>5. CASE RemoveStep(a)
  BY <1>1, <1>2, <1>3, <1>5
  DEF RemoveStep, Clear, Unlink, ClearAll, Rmdir, Release, Chosen, Clearing
<1> QED BY <1>4, <1>5 DEF Sweep

(* No backend that runs loses its dir, with any number of starts, of       *)
(* sweeps, of dirs made and removed, and whether or not locks work         *)
(* (kernel_dir_if_held, sweep_stale_at, take_lock_at).  It rests on quick  *)
(* removers and starts, and on one sweep at a time where sweeps may die.   *)
THEOREM LiveDirsAreSpared ==
  ASSUME Prompt, ~Stalls, Crashes => \A a, b \in Sweepers : a = b
  PROVE  Spec => LiveDirSpared
<1>1. Init => DirIInv
  <2> SUFFICES ASSUME Init PROVE DirIInv
    OBVIOUS
  <2>1. TypeInv
    BY InitTypes
  <2>2. Base
    BY Apart DEF Init, Base, FilesInv, Used, CalmInv, MakersInv, First, Making, Locking
  <2>3. NoneDied
    BY Apart DEF Init, NoneDied
  <2>4. Kept
    BY Apart DEF Init, Kept, NewInv, LocksInv, SweepsInv, UnseenInv, ReasonsInv, Linked, Makes, Chosen,
       Clearing, Locking
  <2> QED BY <2>1, <2>2, <2>3, <2>4 DEF DirIInv
<1>2. DirIInv /\ [Next]_vars => DirIInv'
  <2>1. CASE UNCHANGED vars
    BY <2>1, StutterKeeps
  <2> QED BY <2>1, DirStep
<1>3. DirIInv /\ [Next]_vars => [Spares]_vars
  <2> SUFFICES ASSUME DirIInv, Next, Living, HeldAt(name, held), cleaned' = cleaned
               PROVE  HeldAt(name, held)' /\ kern[entry[name]] \subseteq kern'[entry[name]]
    BY DEF Spares, Living
  <2>1. TypeInv /\ Base /\ IF NoneDied THEN Kept ELSE \A a \in Sweepers : rat[a] = "died"
    BY DEF DirIInv
  <2>2. CASE \E s \in Starts : StartSteps(s)
    BY <2>1, <2>2, StartSpares
  <2>3. CASE \E a \in Sweepers : Sweep(a)
    BY <2>1, <2>3, SweepSpares, DeadRest
  <2>4. CASE ExitBegins \/ Dies \/ \E d \in Dirs : Ages(d)
    BY <2>4 DEF ExitBegins, Dies, Ages, fs, runtime, HeldAt
  <2>5. ~Cleaner
    BY <2>1 DEF Cleaner, TypeInv, TypeOK
  <2> QED BY <2>1, <2>2, <2>3, <2>4, <2>5, LivingSteps
<1> QED BY <1>1, <1>2, <1>3, PTL DEF Spec, LiveDirSpared, Spares
=============================================================================
