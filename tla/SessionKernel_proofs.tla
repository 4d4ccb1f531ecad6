------------------------ MODULE SessionKernel_proofs ------------------------
(***************************************************************************)
(* Proofs about SessionKernel, for any number of calls: IInv is inductive, *)
(* and from it follow the safety properties.                               *)
(***************************************************************************)
EXTENDS SessionKernel, TLAPS

(* The steps of the calls and those of the kernels, one by one.            *)
LEMMA StepCases ==
  ASSUME Next, NEW P,
         \A c \in Calls : \A o \in Ops : Call(c, o) => P,
         \A c \in Calls : StopStep(c) => P,
         \A c \in Calls : StartStep(c) => P,
         \A c \in Calls : UseStep(c) \/ Answer(c) => P,
         \A c \in Calls : CellEvent(c) \/ ProcessEnds(c) \/ WatchStep(c) => P
  PROVE  P
BY DEF Next, CallStep
-----------------------------------------------------------------------------
LEMMA FirstType ==
  ASSUME NEW o \in Ops
  PROVE  First(o) \in {"launch", "clear", "run", "ask"}
BY CallAssumption DEF First

LEMMA InitIInv == Init => IInv
BY CallAssumption
   DEF Init, IInv, TypeOK, PCs, SlotIsHeard, UpIsOwned, RunsOnNoGoneKernel, ExitToldIsUnasked,
       LockInv, SlotInv, GoneInv, KnewInv, ProcInv, PutIn

LEMMA TypeStep ==
  ASSUME TypeOK, Next
  PROVE  TypeOK'
<1> USE CallAssumption
    DEF TypeOK, PCs, Goto, At, callVars, lockVars, kernelVars, frontVars
<1>1. ASSUME NEW c \in Calls, NEW o \in Ops, Call(c, o) PROVE TypeOK'
  BY <1>1, FirstType DEF Call
<1>2. ASSUME NEW c \in Calls, StopStep(c) PROVE TypeOK'
  BY <1>2 DEF StopStep, ClearSender, Take, KillEnds, UnsendWidgets, InSlot, Killed
<1>3. ASSUME NEW c \in Calls, StartStep(c) PROVE TypeOK'
  BY <1>3 DEF StartStep, Launch, LaunchFails, FillSlot, BeginReplace, Replace, InstallSender,
              SpawnTasks, Killed
<1>4. ASSUME NEW c \in Calls, UseStep(c) \/ Answer(c) PROVE TypeOK'
  BY <1>4 DEF UseStep, Answer, Execute, Ask, AskEnds
<1>5. ASSUME NEW k \in Calls, CellEvent(k) \/ ProcessEnds(k) \/ WatchStep(k) PROVE TypeOK'
  BY <1>5 DEF CellEvent, ProcessEnds, WatchStep, ExitIsTheirs, ExitIsOurs, WatchUnsends, Watch
<1> QED BY <1>1, <1>2, <1>3, <1>4, <1>5, StepCases
-----------------------------------------------------------------------------
(* One writer, and it is the start that replaces a kernel.                 *)
LEMMA LockStep ==
  ASSUME TypeOK, LockInv, SlotInv, Next
  PROVE  LockInv'
<1> USE CallAssumption
    DEF LockInv, SlotInv, PutIn, TypeOK, PCs, Goto, At, Free, callVars, lockVars, kernelVars, frontVars
<1>1. ASSUME NEW c \in Calls, NEW o \in Ops, Call(c, o) PROVE LockInv'
  BY <1>1, FirstType DEF Call
<1>2. ASSUME NEW c \in Calls, StopStep(c) PROVE LockInv'
  BY <1>2 DEF StopStep, ClearSender, Take, KillEnds, UnsendWidgets, InSlot, Killed
<1>3. ASSUME NEW c \in Calls, StartStep(c) PROVE LockInv'
  BY <1>3 DEF StartStep, Launch, LaunchFails, FillSlot, BeginReplace, Replace, InstallSender,
              SpawnTasks, Killed
<1>4. ASSUME NEW c \in Calls, UseStep(c) \/ Answer(c) PROVE LockInv'
  BY <1>4 DEF UseStep, Answer, Execute, Ask, AskEnds
<1>5. ASSUME NEW k \in Calls, CellEvent(k) \/ ProcessEnds(k) \/ WatchStep(k) PROVE LockInv'
  BY <1>5 DEF CellEvent, ProcessEnds, WatchStep, ExitIsTheirs, ExitIsOurs, WatchUnsends, Watch
<1> QED BY <1>1, <1>2, <1>3, <1>4, <1>5, StepCases
-----------------------------------------------------------------------------
(* What is in the slot went in.                                            *)
LEMMA SlotStep ==
  ASSUME TypeOK, LockInv, SlotInv, Next
  PROVE  SlotInv'
<1> USE CallAssumption
    DEF LockInv, SlotInv, PutIn, TypeOK, PCs, Goto, At, Free, callVars, lockVars, kernelVars, frontVars
<1>1. ASSUME NEW c \in Calls, NEW o \in Ops, Call(c, o) PROVE SlotInv'
  BY <1>1, FirstType DEF Call
<1>2. ASSUME NEW c \in Calls, StopStep(c) PROVE SlotInv'
  BY <1>2 DEF StopStep, ClearSender, Take, KillEnds, UnsendWidgets, InSlot, Killed
<1>3. ASSUME NEW c \in Calls, StartStep(c) PROVE SlotInv'
  BY <1>3 DEF StartStep, Launch, LaunchFails, FillSlot, BeginReplace, Replace, InstallSender,
              SpawnTasks, Killed
<1>4. ASSUME NEW c \in Calls, UseStep(c) \/ Answer(c) PROVE SlotInv'
  BY <1>4 DEF UseStep, Answer, Execute, Ask, AskEnds
<1>5. ASSUME NEW k \in Calls, CellEvent(k) \/ ProcessEnds(k) \/ WatchStep(k) PROVE SlotInv'
  BY <1>5 DEF CellEvent, ProcessEnds, WatchStep, ExitIsTheirs, ExitIsOurs, WatchUnsends, Watch
<1> QED BY <1>1, <1>2, <1>3, <1>4, <1>5, StepCases
-----------------------------------------------------------------------------
(* The generation is the slot's kernel's.                                  *)
LEMMA HeardStep ==
  ASSUME TypeOK, LockInv, SlotIsHeard, Next
  PROVE  SlotIsHeard'
<1> USE CallAssumption
    DEF LockInv, SlotIsHeard, TypeOK, PCs, Goto, At, Free, callVars, lockVars, kernelVars, frontVars
<1>1. ASSUME NEW c \in Calls, NEW o \in Ops, Call(c, o) PROVE SlotIsHeard'
  BY <1>1, FirstType DEF Call
<1>2. ASSUME NEW c \in Calls, StopStep(c) PROVE SlotIsHeard'
  BY <1>2 DEF StopStep, ClearSender, Take, KillEnds, UnsendWidgets, InSlot, Killed
<1>3. ASSUME NEW c \in Calls, StartStep(c) PROVE SlotIsHeard'
  BY <1>3 DEF StartStep, Launch, LaunchFails, FillSlot, BeginReplace, Replace, InstallSender,
              SpawnTasks, Killed
<1>4. ASSUME NEW c \in Calls, UseStep(c) \/ Answer(c) PROVE SlotIsHeard'
  BY <1>4 DEF UseStep, Answer, Execute, Ask, AskEnds
<1>5. ASSUME NEW k \in Calls, CellEvent(k) \/ ProcessEnds(k) \/ WatchStep(k) PROVE SlotIsHeard'
  BY <1>5 DEF CellEvent, ProcessEnds, WatchStep, ExitIsTheirs, ExitIsOurs, WatchUnsends, Watch
<1> QED BY <1>1, <1>2, <1>3, <1>4, <1>5, StepCases
-----------------------------------------------------------------------------
(* What left the slot never comes back.                                    *)
LEMMA GoneStep ==
  ASSUME TypeOK, LockInv, SlotInv, GoneInv, SlotIsHeard, Next
  PROVE  GoneInv'
<1> USE CallAssumption
    DEF LockInv, SlotInv, SlotIsHeard, GoneInv, PutIn, TypeOK, PCs, Goto, At, Free, callVars, lockVars, kernelVars, frontVars
<1>1. ASSUME NEW c \in Calls, NEW o \in Ops, Call(c, o) PROVE GoneInv'
  BY <1>1, FirstType DEF Call
<1>2. ASSUME NEW c \in Calls, StopStep(c) PROVE GoneInv'
  BY <1>2 DEF StopStep, ClearSender, Take, KillEnds, UnsendWidgets, InSlot, Killed
<1>3. ASSUME NEW c \in Calls, StartStep(c) PROVE GoneInv'
  BY <1>3 DEF StartStep, Launch, LaunchFails, FillSlot, BeginReplace, Replace, InstallSender,
              SpawnTasks, Killed
<1>4. ASSUME NEW c \in Calls, UseStep(c) \/ Answer(c) PROVE GoneInv'
  BY <1>4 DEF UseStep, Answer, Execute, Ask, AskEnds
<1>5. ASSUME NEW k \in Calls, CellEvent(k) \/ ProcessEnds(k) \/ WatchStep(k) PROVE GoneInv'
  BY <1>5 DEF CellEvent, ProcessEnds, WatchStep, ExitIsTheirs, ExitIsOurs, WatchUnsends, Watch
<1> QED BY <1>1, <1>2, <1>3, <1>4, <1>5, StepCases
-----------------------------------------------------------------------------
(* A call knows of what is gone already.                                   *)
LEMMA KnewStep ==
  ASSUME TypeOK, KnewInv, Next
  PROVE  KnewInv'
<1> USE CallAssumption
    DEF KnewInv, TypeOK, PCs, Goto, At, Free, callVars, lockVars, kernelVars, frontVars
<1>1. ASSUME NEW c \in Calls, NEW o \in Ops, Call(c, o) PROVE KnewInv'
  BY <1>1, FirstType DEF Call
<1>2. ASSUME NEW c \in Calls, StopStep(c) PROVE KnewInv'
  BY <1>2 DEF StopStep, ClearSender, Take, KillEnds, UnsendWidgets, InSlot, Killed
<1>3. ASSUME NEW c \in Calls, StartStep(c) PROVE KnewInv'
  BY <1>3 DEF StartStep, Launch, LaunchFails, FillSlot, BeginReplace, Replace, InstallSender,
              SpawnTasks, Killed
<1>4. ASSUME NEW c \in Calls, UseStep(c) \/ Answer(c) PROVE KnewInv'
  BY <1>4 DEF UseStep, Answer, Execute, Ask, AskEnds
<1>5. ASSUME NEW k \in Calls, CellEvent(k) \/ ProcessEnds(k) \/ WatchStep(k) PROVE KnewInv'
  BY <1>5 DEF CellEvent, ProcessEnds, WatchStep, ExitIsTheirs, ExitIsOurs, WatchUnsends, Watch
<1> QED BY <1>1, <1>2, <1>3, <1>4, <1>5, StepCases
-----------------------------------------------------------------------------
(* A kernel that exists was launched.                                      *)
LEMMA ProcStep ==
  ASSUME TypeOK, ProcInv, LockInv, Next
  PROVE  ProcInv'
<1> USE CallAssumption
    DEF LockInv, ProcInv, PutIn, TypeOK, PCs, Goto, At, Free, callVars, lockVars, kernelVars, frontVars
<1>1. ASSUME NEW c \in Calls, NEW o \in Ops, Call(c, o) PROVE ProcInv'
  BY <1>1, FirstType DEF Call
<1>2. ASSUME NEW c \in Calls, StopStep(c) PROVE ProcInv'
  BY <1>2 DEF StopStep, ClearSender, Take, KillEnds, UnsendWidgets, InSlot, Killed
<1>3. ASSUME NEW c \in Calls, StartStep(c) PROVE ProcInv'
  BY <1>3 DEF StartStep, Launch, LaunchFails, FillSlot, BeginReplace, Replace, InstallSender,
              SpawnTasks, Killed
<1>4. ASSUME NEW c \in Calls, UseStep(c) \/ Answer(c) PROVE ProcInv'
  BY <1>4 DEF UseStep, Answer, Execute, Ask, AskEnds
<1>5. ASSUME NEW k \in Calls, CellEvent(k) \/ ProcessEnds(k) \/ WatchStep(k) PROVE ProcInv'
  BY <1>5 DEF CellEvent, ProcessEnds, WatchStep, ExitIsTheirs, ExitIsOurs, WatchUnsends, Watch
<1> QED BY <1>1, <1>2, <1>3, <1>4, <1>5, StepCases
-----------------------------------------------------------------------------
(* A kernel leaves the slot killed.                                        *)
LEMMA OwnedStep ==
  ASSUME TypeOK, ProcInv, LockInv, SlotInv, UpIsOwned, Next
  PROVE  UpIsOwned'
<1> USE CallAssumption
    DEF LockInv, SlotInv, ProcInv, UpIsOwned, PutIn, TypeOK, PCs, Goto, At, Free, callVars, lockVars, kernelVars, frontVars
<1>1. ASSUME NEW c \in Calls, NEW o \in Ops, Call(c, o) PROVE UpIsOwned'
  BY <1>1, FirstType DEF Call
<1>2. ASSUME NEW c \in Calls, StopStep(c) PROVE UpIsOwned'
  BY <1>2 DEF StopStep, ClearSender, Take, KillEnds, UnsendWidgets, InSlot, Killed
<1>3. ASSUME NEW c \in Calls, StartStep(c) PROVE UpIsOwned'
  BY <1>3 DEF StartStep, Launch, LaunchFails, FillSlot, BeginReplace, Replace, InstallSender,
              SpawnTasks, Killed
<1>4. ASSUME NEW c \in Calls, UseStep(c) \/ Answer(c) PROVE UpIsOwned'
  BY <1>4 DEF UseStep, Answer, Execute, Ask, AskEnds
<1>5. ASSUME NEW k \in Calls, CellEvent(k) \/ ProcessEnds(k) \/ WatchStep(k) PROVE UpIsOwned'
  BY <1>5 DEF CellEvent, ProcessEnds, WatchStep, ExitIsTheirs, ExitIsOurs, WatchUnsends, Watch
<1> QED BY <1>1, <1>2, <1>3, <1>4, <1>5, StepCases
-----------------------------------------------------------------------------
(* The slot holds no kernel the frontend knew to be gone.                  *)
LEMMA RunsStep ==
  ASSUME TypeOK, KnewInv, GoneInv, RunsOnNoGoneKernel, Next
  PROVE  RunsOnNoGoneKernel'
<1> USE CallAssumption
    DEF KnewInv, GoneInv, RunsOnNoGoneKernel, TypeOK, PCs, Goto, At, Free, callVars, lockVars, kernelVars, frontVars
<1>1. ASSUME NEW c \in Calls, NEW o \in Ops, Call(c, o) PROVE RunsOnNoGoneKernel'
  BY <1>1, FirstType DEF Call
<1>2. ASSUME NEW c \in Calls, StopStep(c) PROVE RunsOnNoGoneKernel'
  BY <1>2 DEF StopStep, ClearSender, Take, KillEnds, UnsendWidgets, InSlot, Killed
<1>3. ASSUME NEW c \in Calls, StartStep(c) PROVE RunsOnNoGoneKernel'
  BY <1>3 DEF StartStep, Launch, LaunchFails, FillSlot, BeginReplace, Replace, InstallSender,
              SpawnTasks, Killed
<1>4. ASSUME NEW c \in Calls, UseStep(c) \/ Answer(c) PROVE RunsOnNoGoneKernel'
  BY <1>4 DEF UseStep, Answer, Execute, Ask, AskEnds
<1>5. ASSUME NEW k \in Calls, CellEvent(k) \/ ProcessEnds(k) \/ WatchStep(k) PROVE RunsOnNoGoneKernel'
  BY <1>5 DEF CellEvent, ProcessEnds, WatchStep, ExitIsTheirs, ExitIsOurs, WatchUnsends, Watch
<1> QED BY <1>1, <1>2, <1>3, <1>4, <1>5, StepCases
-----------------------------------------------------------------------------
(* What a call took is not told of, and what was told of is not taken.     *)
LEMMA ToldStep ==
  ASSUME TypeOK, GoneInv, ExitToldIsUnasked, Next
  PROVE  ExitToldIsUnasked'
<1> USE CallAssumption
    DEF GoneInv, ExitToldIsUnasked, TypeOK, PCs, Goto, At, Free, callVars, lockVars, kernelVars, frontVars
<1>1. ASSUME NEW c \in Calls, NEW o \in Ops, Call(c, o) PROVE ExitToldIsUnasked'
  BY <1>1, FirstType DEF Call
<1>2. ASSUME NEW c \in Calls, StopStep(c) PROVE ExitToldIsUnasked'
  BY <1>2 DEF StopStep, ClearSender, Take, KillEnds, UnsendWidgets, InSlot, Killed
<1>3. ASSUME NEW c \in Calls, StartStep(c) PROVE ExitToldIsUnasked'
  BY <1>3 DEF StartStep, Launch, LaunchFails, FillSlot, BeginReplace, Replace, InstallSender,
              SpawnTasks, Killed
<1>4. ASSUME NEW c \in Calls, UseStep(c) \/ Answer(c) PROVE ExitToldIsUnasked'
  BY <1>4 DEF UseStep, Answer, Execute, Ask, AskEnds
<1>5. ASSUME NEW k \in Calls, CellEvent(k) \/ ProcessEnds(k) \/ WatchStep(k) PROVE ExitToldIsUnasked'
  BY <1>5 DEF CellEvent, ProcessEnds, WatchStep, ExitIsTheirs, ExitIsOurs, WatchUnsends, Watch
<1> QED BY <1>1, <1>2, <1>3, <1>4, <1>5, StepCases
-----------------------------------------------------------------------------
LEMMA StepIInv ==
  ASSUME IInv, [Next]_vars
  PROVE  IInv'
<1>1. CASE Next
  BY <1>1, TypeStep, LockStep, SlotStep, HeardStep, GoneStep, KnewStep, ProcStep, OwnedStep,
     RunsStep, ToldStep DEF IInv
<1>2. CASE UNCHANGED vars
  BY <1>2 DEF vars, callVars, lockVars, kernelVars, frontVars, IInv, TypeOK, SlotIsHeard,
     UpIsOwned, RunsOnNoGoneKernel, ExitToldIsUnasked, LockInv, SlotInv, GoneInv, KnewInv,
     ProcInv, PutIn
<1> QED BY <1>1, <1>2

LEMMA Invariance == Spec => []IInv
BY InitIInv, StepIInv, PTL DEF Spec

(* A step after which a kernel known to be gone was heard for the first    *)
(* time would be a cell event of it, and its generation is not current.    *)
LEMMA NoEventStep ==
  ASSUME IInv, [Next]_vars
  PROVE  \A k \in gone : k \in shown' => k \in shown
<1>1. CASE Next
  <2> SUFFICES ASSUME NEW k \in gone, k \in shown', k \notin shown PROVE FALSE
    OBVIOUS
  <2>1. \A c \in Calls : \A o \in Ops : ~Call(c, o)
    BY DEF Call, frontVars
  <2>2. \A c \in Calls : ~StopStep(c)
    BY DEF StopStep, ClearSender, Take, KillEnds, UnsendWidgets, frontVars
  <2>3. \A c \in Calls : ~StartStep(c)
    BY DEF StartStep, Launch, LaunchFails, FillSlot, BeginReplace, Replace, InstallSender,
           SpawnTasks, frontVars
  <2>4. \A c \in Calls : ~(UseStep(c) \/ Answer(c))
    BY DEF UseStep, Answer, Execute, Ask, AskEnds, frontVars
  <2>5. \A c \in Calls : ~(CellEvent(c) \/ ProcessEnds(c) \/ WatchStep(c))
    BY DEF CellEvent, ProcessEnds, WatchStep, ExitIsTheirs, ExitIsOurs, WatchUnsends, Watch,
           frontVars, IInv, GoneInv, TypeOK
  <2> QED BY <1>1, <2>1, <2>2, <2>3, <2>4, <2>5, StepCases
<1>2. CASE UNCHANGED vars
  BY <1>2 DEF vars, frontVars
<1> QED BY <1>1, <1>2
-----------------------------------------------------------------------------
(* Every variable of the session keeps its type, and an exit is told only  *)
(* together with the kernel being gone.                                    *)
THEOREM TypeCorrect == Spec => []TypeOK
BY Invariance, PTL DEF IInv

(* However many calls overlap, no cell event of a kernel follows the       *)
(* answer or the notice that it is gone.                                   *)
THEOREM GoneKernelsAreSilent == Spec => NoEventOnceGone
<1>1. Spec => [][\A k \in gone : k \in shown' => k \in shown]_vars
  BY Invariance, NoEventStep, PTL DEF Spec
<1> QED BY <1>1 DEF NoEventOnceGone

(* The generation never runs ahead of the kernel in the slot.              *)
THEOREM SlotsKernelIsHeard == Spec => []SlotIsHeard
BY Invariance, PTL DEF IInv

(* No launch is ever left running without an owner or a kill.              *)
THEOREM NoOrphan == Spec => []UpIsOwned
BY Invariance, PTL DEF IInv

(* A run sent after a kernel was known to be gone never goes to it.        *)
THEOREM RunsGoToLaterKernels == Spec => []RunsOnNoGoneKernel
BY Invariance, PTL DEF IInv

(* A kernel that a call stopped or replaced is never told of as exited.    *)
THEOREM ExitsAreToldOnce == Spec => []ExitToldIsUnasked
BY Invariance, PTL DEF IInv

(* A session keeps its types and owns every kernel that runs.              *)
THEOREM SessionIsSound == Spec => []SessionInv
BY TypeCorrect, NoOrphan, PTL DEF SessionInv
=============================================================================
