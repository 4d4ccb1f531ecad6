--------------------------- MODULE BackendClients ---------------------------
(***************************************************************************)
(* The editor's side of its backends: their processes and calls            *)
(* (lua/jupynvim/rpc.lua), where each is registered, and the record that a *)
(* remote has its binary (lua/jupynvim/backend/connect.lua).               *)
(*                                                                         *)
(* An exit is seen by libuv (`job` is gone, `dead` is set) before the main *)
(* loop runs what it scheduled, on_exit.  What a call's callback does next *)
(* is a new step of the user's.                                            *)
(***************************************************************************)
EXTENDS Naturals, Sequences

CONSTANTS
  Aliases,     \* "local", and the one remote, "remote"
  Clients,     \* bound: backends spawned
  Asked,       \* bound: calls
  AttachWaits  \* no terminal UI: Image.attach waits for the backend's answer

ASSUME ClientAssumption ==
  /\ Aliases \subseteq {"local", "remote"} /\ Aliases # {}
  /\ Clients \in Nat /\ Asked \in Nat /\ AttachWaits \in BOOLEAN

VARIABLES
  backends,  \* the backends spawned, with the editor's client of each
  client,    \* M.client, 0 for nil
  clients,   \* M.clients
  requests,  \* the calls made
  inFlight,  \* the ids in their clients' `pending`
  loop,      \* what is scheduled on the main loop
  attaches,  \* the attaches that wait, one inside the other, the innermost last
  \* of the remote
  record,    \* the deploy record
  verified,  \* _binary_verified
  trusted,   \* _record_trusted, named by the first spawn that shares it, 0 for nil
  binary     \* the binary is there

routing == <<client, clients>>
rpc == <<requests, inFlight, loop>>
deploy == <<record, verified, trusted, binary>>
clientVars == <<backends, routing, rpc, attaches, deploy>>

Codes == {"none", "zero", "other", "ssh"}  \* exit codes; 255 is ssh's own
Words == {"none", "record", "probe"}
Backend == [alias : Aliases,
            up : BOOLEAN, code : Codes,
            works : BOOLEAN,   \* it was there to be run
            told : BOOLEAN,    \* stop() was called: SIGTERM, its stdin closed
            exited : BOOLEAN,  \* `dead`
            left : BOOLEAN,    \* on_exit has run
            heard : BOOLEAN,
            trust : 0 .. Clients,
            \* history: how the verify of this spawn ended, who had left before
            word : Words, after : SUBSET (1 .. Clients)]
Request == [to : 1 .. Clients, at : {"unsent", "sent", "answered", "read", "failed"}, ran : 0 .. 2]
Scheduled == [do : {"callback"}, x : 1 .. Asked] \cup [do : {"on_exit"}, x : 1 .. Clients]
Attach == [of : 1 .. Clients, request : 1 .. Asked, again : BOOLEAN]

ClientTypeOK ==
  /\ backends \in Seq(Backend) /\ Len(backends) <= Clients
  /\ client \in 0 .. Clients /\ clients \in [Aliases -> 0 .. Clients]
  /\ requests \in Seq(Request) /\ Len(requests) <= Asked
  /\ inFlight \subseteq DOMAIN requests
  /\ loop \in Seq(Scheduled) /\ attaches \in Seq(Attach)
  /\ {record, verified, binary} \subseteq BOOLEAN /\ trusted \in 0 .. Clients

(* The remote may have been deployed by an earlier Neovim.                 *)
ClientInit ==
  /\ backends = <<>> /\ client = 0 /\ clients = [a \in Aliases |-> 0]
  /\ requests = <<>> /\ inFlight = {} /\ loop = <<>> /\ attaches = <<>>
  /\ binary \in BOOLEAN /\ record \in BOOLEAN /\ verified = FALSE /\ trusted = 0

Ours == DOMAIN backends
HasJob(c) == c # 0 /\ ~backends[c].exited
Registered(a) == IF a = "local" THEN client ELSE clients[a]
-----------------------------------------------------------------------------
(* Calls.                                                                  *)

Callback(i) == [do |-> "callback", x |-> i]
NextId == Len(requests) + 1
Written(c, at) ==
  /\ requests' = Append(requests, [to |-> c, at |-> at, ran |-> 0])
  /\ inFlight' = inFlight \cup {NextId}
  /\ UNCHANGED loop

(* Mutant of CallOn: a call does not look whether its client is dead.      *)
CallOnDead(b, c) ==
  NextId <= Asked /\ Written(c, IF b[c].told \/ b[c].exited THEN "unsent" ELSE "sent")

(* Client:call, with the backends b.  On a dead client it fails at once;   *)
(* one whose stdin is closing is written nothing.                          *)
CallOn(b, c) ==
  /\ NextId <= Asked
  /\ \/ ~b[c].exited /\ Written(c, IF b[c].told THEN "unsent" ELSE "sent")
     \/ /\ b[c].exited
        /\ requests' = Append(requests, [to |-> c, at |-> "failed", ran |-> 0])
        /\ loop' = Append(loop, Callback(NextId))
        /\ UNCHANGED inFlight

BackendAnswers(i) ==
  /\ i \in DOMAIN requests /\ requests[i].at = "sent"
  /\ backends[requests[i].to].up /\ backends[requests[i].to].works
  /\ requests' = [requests EXCEPT ![i].at = "answered"]
  /\ UNCHANGED <<backends, routing, inFlight, loop, attaches, deploy>>

(* _dispatch of a response.                                                *)
Dispatch(i) ==
  /\ i \in DOMAIN requests /\ requests[i].at = "answered" /\ ~backends[requests[i].to].exited
  /\ requests' = [requests EXCEPT ![i].at = "read"]
  /\ backends' = [backends EXCEPT ![requests[i].to].heard = TRUE]
  /\ inFlight' = inFlight \ {i}
  /\ loop' = Append(loop, Callback(i))
  /\ UNCHANGED <<routing, attaches, deploy>>
-----------------------------------------------------------------------------
(* Spawning a backend.                                                     *)

(* Mutant of TakesWord: the spawns of an earlier verify are kept.          *)
TakesWordAgain(new) ==
  record /\ trusted' = (IF trusted = 0 THEN new ELSE trusted) /\ UNCHANGED <<record, binary>>

(* ensure_remote_binary.  The record answers for the artifact there is; or *)
(* the remote is asked, and has it in the end; or neither, without a       *)
(* master, with an upload that fails or a transport of the user's own.     *)
TakesWord(new) == record /\ trusted' = new /\ UNCHANGED <<record, binary>>

Verify(new, word) ==
  /\ verified' = TRUE
  /\ \/ word = "record" /\ TakesWord(new)
     \/ word = "probe" /\ trusted' = 0 /\ record' = TRUE /\ binary' = TRUE
     \/ word = "none" /\ trusted' = 0 /\ UNCHANGED <<record, binary>>

(* client_for and spawn_client, with the backends b, and the request it    *)
(* was spawned for, which stands for the attach's as well when nothing     *)
(* waits for that.  A local one is waited for in Image.attach.             *)
SpawnClient(b, a) ==
  LET new == Len(b) + 1 IN
  /\ new <= Clients
  /\ \E word \in Words :
       /\ IF a = "remote" /\ ~verified THEN Verify(new, word) ELSE word = "none" /\ UNCHANGED deploy
       /\ backends' = Append(b,
            [alias |-> a, up |-> TRUE, code |-> "none", works |-> a = "local" \/ binary',
             told |-> FALSE, exited |-> FALSE, left |-> FALSE, heard |-> FALSE,
             trust |-> IF a = "remote" THEN trusted' ELSE 0,
             word |-> word, after |-> {c \in DOMAIN b : b[c].left}])
  /\ clients' = [clients EXCEPT ![a] = new]
  /\ client' = IF a = "local" THEN new ELSE client
  /\ IF a = "local" /\ AttachWaits
       THEN attaches' = Append(attaches, [of |-> new, request |-> NextId, again |-> FALSE])
       ELSE UNCHANGED attaches
  /\ CallOn(backends', new)

(* Anything that needs the backend of an alias (_nb_client, _ensure_client, *)
(* client_for), from the main loop or from a function it runs in a wait.   *)
Need(a) ==
  IF HasJob(Registered(a))
  THEN CallOn(backends, Registered(a)) /\ UNCHANGED <<backends, routing, attaches, deploy>>
  ELSE SpawnClient(backends, a)

(* Code that kept a client over a wait of its own (M.open, past the lookup *)
(* of the remote's home) calls it, whatever became of it.                  *)
CallKept(c) ==
  /\ c \in Ours /\ CallOn(backends, c)
  /\ UNCHANGED <<backends, routing, attaches, deploy>>

(* A first answer that is an error or late is followed by a second call,   *)
(* whose answer does not matter.                                           *)
AttachAgain ==
  /\ attaches # <<>>
  /\ LET at == Len(attaches) IN
       /\ ~attaches[at].again
       /\ CallOn(backends, attaches[at].of)
       /\ attaches' = [attaches EXCEPT ![at].again = TRUE, ![at].request = NextId]
  /\ UNCHANGED <<backends, routing, deploy>>

(* The assignment of _ensure_client, and the request.                      *)
AttachEnds ==
  /\ attaches # <<>>
  /\ LET at == attaches[Len(attaches)] IN
       /\ at.again \/ (requests[at.request].at = "read" /\ requests[at.request].ran > 0)
       /\ client' = at.of
       /\ CallOn(backends, at.of)
  /\ attaches' = SubSeq(attaches, 1, Len(attaches) - 1)
  /\ UNCHANGED <<backends, clients, deploy>>
-----------------------------------------------------------------------------
(* Ends.                                                                   *)

(* Client:stop, of the one registered for the remote.                      *)
Stopped == IF clients["remote"] = 0 THEN backends ELSE [backends EXCEPT ![clients["remote"]].told = TRUE]

(* connect with a master that is up: what it browses next is a Need.       *)
Reconnect ==
  /\ "remote" \in Aliases
  /\ backends' = Stopped /\ clients' = [clients EXCEPT !["remote"] = 0]
  /\ verified' = FALSE
  /\ UNCHANGED <<client, rpc, attaches, record, trusted, binary>>

Disconnect ==
  /\ "remote" \in Aliases
  /\ backends' = Stopped /\ clients' = [clients EXCEPT !["remote"] = 0]
  /\ verified' = FALSE /\ record' = FALSE
  /\ UNCHANGED <<client, rpc, attaches, trusted, binary>>

(* use_job: without a master it only stops the backend, and connects later.*)
UseJob ==
  /\ "remote" \in Aliases /\ HasJob(clients["remote"])
  /\ \/ SpawnClient(Stopped, "remote")
     \/ /\ backends' = Stopped /\ clients' = [clients EXCEPT !["remote"] = 0]
        /\ UNCHANGED <<client, rpc, attaches, deploy>>

(* The process ends.  One that could not be run, because the binary is     *)
(* gone or is another machine's, ends with 127 or 126.                     *)
BackendEnds(c) ==
  /\ c \in Ours /\ backends[c].up
  /\ \E code \in IF ~backends[c].works THEN {"other"}
                ELSE IF backends[c].alias = "local" THEN {"zero"}  \* it is not looked at
                ELSE {"zero", "other", "ssh"} :
       backends' = [backends EXCEPT ![c].up = FALSE, ![c].code = code]
  /\ UNCHANGED <<routing, rpc, attaches, deploy>>

(* libuv's exit callback: the pipes are closed, answers in them are lost.  *)
ExitSeen(c) ==
  /\ c \in Ours /\ ~backends[c].up /\ ~backends[c].exited
  /\ backends' = [backends EXCEPT ![c].exited = TRUE]
  /\ loop' = Append(loop, [do |-> "on_exit", x |-> c])
  /\ UNCHANGED <<routing, requests, inFlight, attaches, deploy>>

RunCallback ==
  /\ loop # <<>> /\ Head(loop).do = "callback"
  /\ requests' = [requests EXCEPT ![Head(loop).x].ran = @ + 1]
  /\ loop' = Tail(loop)
  /\ UNCHANGED <<backends, routing, inFlight, attaches, deploy>>

(* Mutant of Unroute: whoever is registered goes.                          *)
UnrouteAny(c) ==
  /\ clients' = [clients EXCEPT ![backends[c].alias] = 0]
  /\ client' = IF backends[c].alias = "local" THEN 0 ELSE client

Unroute(c) ==
  /\ clients' = [a \in Aliases |-> IF clients[a] = c THEN 0 ELSE clients[a]]
  /\ client' = IF client = c THEN 0 ELSE client

NeverStarted(c) == backends[c].alias = "remote" /\ backends[c].code # "zero" /\ ~backends[c].heard
RestedOnRecord(c) ==
  backends[c].trust # 0 /\ \A d \in Ours : backends[d].trust = backends[c].trust => ~backends[d].heard

(* Every call in flight fails, and on_exit.                                *)
RunExit ==
  /\ loop # <<>> /\ Head(loop).do = "on_exit"
  /\ LET c == Head(loop).x
         failed == {i \in inFlight : requests[i].to = c}
     IN /\ requests' = [i \in DOMAIN requests |->
                          IF i \in failed THEN [requests[i] EXCEPT !.ran = @ + 1, !.at = "failed"] ELSE requests[i]]
        /\ inFlight' = inFlight \ failed
        /\ Unroute(c)
        /\ backends' = [backends EXCEPT ![c].left = TRUE]
        /\ IF NeverStarted(c)
           THEN /\ record' = (record /\ ~(RestedOnRecord(c) /\ backends[c].code # "ssh"))
                /\ verified' = FALSE
           ELSE UNCHANGED <<record, verified>>
  /\ loop' = Tail(loop)
  /\ UNCHANGED <<attaches, trusted, binary>>

(* The remote's binary is removed, or the alias comes to name a machine of *)
(* another kind.                                                           *)
BinaryGone ==
  /\ "remote" \in Aliases /\ binary /\ binary' = FALSE
  /\ UNCHANGED <<backends, routing, rpc, attaches, record, verified, trusted>>
-----------------------------------------------------------------------------
Uses ==
  \/ \E a \in Aliases : Need(a)
  \/ \E c \in 1 .. Clients : CallKept(c)
  \/ AttachAgain \/ AttachEnds

Stops == Reconnect \/ Disconnect \/ UseJob

Happens ==
  \/ \E i \in 1 .. Asked : BackendAnswers(i) \/ Dispatch(i)
  \/ \E c \in 1 .. Clients : BackendEnds(c) \/ ExitSeen(c)
  \/ RunCallback \/ RunExit
  \/ BinaryGone

ClientNext == Uses \/ Stops \/ Happens

(* The main loop and libuv go on, also inside a wait; a backend answers    *)
(* what it read, or ends, and ends when told to or when it cannot be run.  *)
MustEnd(c) == c \in Ours /\ (backends[c].told \/ ~backends[c].works)
ClientFair ==
  /\ WF_clientVars(RunCallback) /\ WF_clientVars(RunExit)
  /\ \A i \in 1 .. Asked : WF_clientVars(BackendAnswers(i)) /\ WF_clientVars(Dispatch(i))
  /\ \A c \in 1 .. Clients : WF_clientVars(MustEnd(c) /\ BackendEnds(c)) /\ WF_clientVars(ExitSeen(c))

ClientSpec == ClientInit /\ [][ClientNext]_clientVars
-----------------------------------------------------------------------------
(* A remote backend that runs and was not told to stop is the one its      *)
(* alias goes to, whenever exits of earlier ones arrive (on_exit).         *)
RemoteIsRouted ==
  \A c \in Ours :
    backends[c].alias = "remote" /\ ~backends[c].exited /\ ~backends[c].told => clients["remote"] = c

(* A call's callback runs once at most, though an answer that was read and *)
(* an exit may both be on the main loop.                                   *)
CalledBackOnce == \A i \in DOMAIN requests : requests[i].ran <= 1

(* The variables keep their types, backends stay routed, and no callback   *)
(* runs twice.                                                             *)
ClientInv == ClientTypeOK /\ RemoteIsRouted /\ CalledBackOnce

(* A spawn that rested on the deploy record and found no backend is the    *)
(* last to rest on it: none that follows its on_exit does, unless the      *)
(* remote answered since, to a probe or through a backend.                 *)
Missed(c) == backends[c].left /\ ~backends[c].works /\ backends[c].word = "record"
RecordGivesWay ==
  \A c, d \in Ours :
    c < d /\ Missed(c) /\ c \in backends[d].after /\ backends[d].word = "record" =>
      \E e \in c .. d - 1 : backends[e].word = "probe" \/ backends[e].heard

(* Every call is answered, by the backend or for its exit: also one made   *)
(* on a backend that is told to stop, has exited or is being replaced.     *)
(* (Calls are bounded: once no more are made, none is left waiting.)       *)
NoneWaits == \A i \in DOMAIN requests : requests[i].ran > 0
CallsEnd == ~NoneWaits ~> NoneWaits

(* "The backend a notebook's operations go to, spawned when it is not      *)
(* running" (connect.lua:600): the editor has one local backend.  It fails:*)
(* a backend that dies while its attach waits, and is replaced inside the  *)
(* wait, takes the place of its successor when the wait is over.           *)
LocalIsOne ==
  LET running == {c \in Ours : backends[c].alias = "local" /\ ~backends[c].exited}
  IN \A c, d \in running : c = d
=============================================================================
