------------------------------ MODULE MCEditor ------------------------------
(* Four things Neovim's main loop has on its hands: remote searches,       *)
(* remote terminals, native jobs, and its backends.  The first three share *)
(* nothing and lean on the last one's calls only, so a behaviour is one of *)
(* them, chosen at its start, to keep the product away.  The first         *)
(* terminal, whose early events are lost in any case, writes nothing.      *)
(*                                                                         *)
(* The backends are three subjects: two local ones that are waited for;    *)
(* two remote ones that are stopped and replaced; three remote ones after  *)
(* each other, whose binary goes, of which the first may answer.           *)
EXTENDS RemoteSearch, RemoteTerminals, NativeContext, BackendClients

VARIABLE subject

MCInit ==
  /\ SearchInit /\ TermInit /\ ContextInit /\ ClientInit
  /\ subject \in {"search", "terminals", "jobs", "local", "remote", "record"}
  /\ record = (subject = "record") /\ binary = (subject \in {"remote", "record"})

(* Backends of one alias, no more of them and of calls than these.         *)
Few(a, spawns, asks) ==
  /\ Len(backends') <= spawns /\ Len(requests') <= asks
  /\ \A c \in DOMAIN backends' : backends'[c].alias = a /\ backends'[c].code \in {"none", "zero", "other"}

Local == ClientNext /\ Few("local", 2, 4)

Remote == ClientNext /\ Few("remote", 2, 2) /\ binary'

Record ==
  /\ Uses \/ (clients["remote"] # 0 /\ Reconnect) \/ Happens
  /\ Few("remote", 3, 3) /\ Len(requests') = Len(backends')
  /\ \A i \in 2 .. Len(requests') : requests'[i].at \in {"sent", "failed"}
  /\ \A c \in DOMAIN backends' :
       /\ c < Len(backends') => backends'[c].exited
       /\ backends'[c].works => backends'[c].code # "other"
  /\ Len(loop') <= 2

MCNext ==
  /\ UNCHANGED subject
  /\ \/ /\ subject = "search" /\ SearchNext
        /\ UNCHANGED <<termVars, contextVars, clientVars>>
     \/ /\ subject = "terminals" /\ TermNext /\ read'[1] = 0
        /\ UNCHANGED <<searchVars, contextVars, clientVars>>
     \/ /\ subject = "jobs" /\ ContextNext
        /\ UNCHANGED <<searchVars, termVars, clientVars>>
     \/ /\ \/ subject = "local" /\ Local
           \/ subject = "remote" /\ Remote
           \/ subject = "record" /\ Record
        /\ UNCHANGED <<searchVars, termVars, contextVars>>

MCSpec == MCInit /\ [][MCNext]_<<searchVars, termVars, contextVars, clientVars, subject>>
                 /\ SearchFair /\ TermFair /\ ContextFair /\ ClientFair

(* What holds of the searches, the terminals and the backends at any time. *)
EditorInv == SearchInv /\ TerminalInv /\ ClientInv
=============================================================================
