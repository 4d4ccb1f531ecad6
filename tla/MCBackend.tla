------------------------------ MODULE MCBackend ------------------------------
(* Two things the backend does that share nothing: one start of a kernel,  *)
(* and the saves of one notebook.  A behaviour is one of them, chosen at   *)
(* its start, to keep the product away.                                    *)
EXTENDS KernelLaunch, NotebookSave

VARIABLE subject

MCInit ==
  /\ LaunchInit /\ SaveInit /\ subject \in {"launch", "save"}
  /\ subject = "save" => mode = "Reserved" /\ reuse

MCNext ==
  /\ UNCHANGED subject
  /\ \/ subject = "launch" /\ LaunchNext /\ UNCHANGED saveVars
     \/ subject = "save" /\ SaveNext /\ UNCHANGED launchVars

MCSpec == MCInit /\ [][MCNext]_<<launchVars, saveVars, subject>> /\ LaunchFair
=============================================================================
