---------------------------- MODULE RemoteSearch ----------------------------
(***************************************************************************)
(* Grep over the tree of a remote host (src/core/src/rpc/search.rs) as the *)
(* editor asks for it (src/lua/jupynvim/remote/pick.lua): a live search    *)
(* per pause in the typing, whose matches are streamed to the picker, and  *)
(* searches in one shot.  A newer search makes the walk of an older one    *)
(* quit, and one walk at a time holds the permit.  A file is named by the  *)
(* number of hits in it; matches are counted, not told apart.              *)
(***************************************************************************)
EXTENDS Integers, Sequences, FiniteSets, FiniteSetsExt

CONSTANTS
  Searches,     \* bound: searches asked for, numbered in this order (sid)
  Files,        \* the tree: a set of numbers of hits
  Threads,      \* the threads of a walk
  MaxHits,      \* matches a search may give (max)
  ChanCap,      \* capacity of the channel from the walk to the drainer
  BatchCap,     \* matches in one event
  Pickers,      \* bound: live pickers opened on the client
  AsksInOrder   \* TRUE: tasks of two requests take their epochs as asked for

ASSUME SearchAssumption ==
  /\ Searches \in Nat /\ Pickers \in Nat /\ MaxHits \in Nat \ {0}
  /\ ChanCap \in Nat \ {0} /\ BatchCap \in Nat \ {0}
  /\ Files \subseteq Nat /\ IsFiniteSet(Files)
  /\ AsksInOrder \in BOOLEAN

VARIABLES
  seq,       \* searches asked for so far
  epoch,     \* search_epoch
  req,       \* the backend's side of a search
  walk,      \* the walk of the permit's holder
  chan,      \* matches in a search's channel (or its `out`, in one shot)
  batch,     \* matches its drainer holds back
  sent,      \* messages on their way to the editor
  handler,    \* the picker whose `current` the handler closes over, or 0
  current,   \* `current` of each picker
  task       \* the editor's side of a search

searchVars == <<seq, epoch, req, walk, chan, batch, sent, handler, current, task>>

Sids == 1..Searches
Whole == Min({MaxHits, SumSet(Files)})   \* the matches of a search left alone

NoWalk == [left |-> {}, at |-> [t \in Threads |-> 0],
           holds |-> [t \in Threads |-> FALSE], count |-> 0, quit |-> FALSE]
FreshWalk == [NoWalk EXCEPT !.left = Files]

SearchTypeOK ==
  /\ seq \in 0..Searches /\ epoch \in 0..Searches
  /\ req \in [Sids -> [pc : {"none", "sent", "waits", "walks", "walked", "told"},
                       kind : {"stream", "shot"}, epoch : 0..Searches]]
  /\ walk.left \subseteq Files /\ walk.quit \in BOOLEAN
  /\ walk.at \in [Threads -> Nat] /\ walk.holds \in [Threads -> BOOLEAN]
  /\ chan \in [Sids -> Nat] /\ batch \in [Sids -> 0..BatchCap - 1]
  /\ sent \in Seq([sid : Sids, n : Nat, end : {"no", "done", "answer", "error"}])
  /\ handler \in 0..Pickers
  /\ current \in [1..Pickers -> [sid : 0..Searches, push : BOOLEAN]]
  /\ task \in [Sids -> [state : {"none", "runs", "aborted", "ended", "failed"},
                        by : 0..Pickers, queue : Nat,
                        done : BOOLEAN, shown : Nat]]

SearchInit ==
  /\ seq = 0 /\ epoch = 0
  /\ req = [r \in Sids |-> [pc |-> "none", kind |-> "stream", epoch |-> 0]]
  /\ walk = NoWalk
  /\ chan = [r \in Sids |-> 0] /\ batch = [r \in Sids |-> 0]
  /\ sent = <<>>
  /\ handler = 0
  /\ current = [p \in 1..Pickers |-> [sid |-> 0, push |-> FALSE]]
  /\ task = [r \in Sids |-> [state |-> "none", by |-> 0, queue |-> 0,
                             done |-> FALSE, shown |-> 0]]

Message(r, n, end) == [sid |-> r, n |-> n, end |-> end]
IsLive(r) == task[r].state = "runs" /\ req[r].kind = "stream"

(* A new keystroke, or the picker's end, aborts the picker's task; the     *)
(* request it has made goes on.                                            *)
Aborted(tasks) == [r \in Sids |-> IF IsLive(r) THEN [tasks[r] EXCEPT !.state = "aborted"]
                                  ELSE tasks[r]]

-----------------------------------------------------------------------------
(* The editor.                                                             *)

(* live_finder past its debounce: the picker's `current` is the new        *)
(* search, and search_stream is called.  The client's one handler was      *)
(* made by the first picker opened.                                        *)
Ask(p) ==
  /\ seq < Searches
  /\ seq' = seq + 1
  /\ handler' = IF handler = 0 THEN p ELSE handler
  /\ current' = [current EXCEPT ![p] = [sid |-> seq', push |-> TRUE]]
  /\ task' = [Aborted(task) EXCEPT ![seq'].state = "runs", ![seq'].by = p]
  /\ req' = [req EXCEPT ![seq'].pc = "sent"]
  /\ UNCHANGED <<epoch, walk, chan, batch, sent>>

(* The same with a pattern given: `search`, answered once.                 *)
AskOnce ==
  /\ seq < Searches
  /\ seq' = seq + 1
  /\ task' = [task EXCEPT ![seq'].state = "runs"]
  /\ req' = [req EXCEPT ![seq'].pc = "sent", ![seq'].kind = "shot"]
  /\ UNCHANGED <<epoch, walk, chan, batch, sent, handler, current>>

(* The picker is closed, or its pattern made too short to search for.      *)
Leave ==
  /\ \E r \in Sids : IsLive(r)
  /\ task' = Aborted(task)
  /\ UNCHANGED <<seq, epoch, req, walk, chan, batch, sent, handler, current>>

(* A message of the backend: events go by the handler, answers to the      *)
(* callback of their call.                                                 *)
Heard(m) ==
  CASE m.end = "answer" -> [task EXCEPT ![m.sid].state = "ended", ![m.sid].shown = m.n]
    [] m.end = "error" ->
         IF req[m.sid].kind = "shot" THEN [task EXCEPT ![m.sid].state = "failed"]
         ELSE [task EXCEPT ![m.sid].done = TRUE]
    [] OTHER ->
         IF current[handler].push /\ current[handler].sid = m.sid
         THEN [task EXCEPT ![m.sid].queue = @ + m.n,
                           ![m.sid].done = @ \/ m.end = "done"]
         ELSE task

Hear ==
  /\ sent # <<>>
  /\ task' = Heard(Head(sent))
  /\ sent' = Tail(sent)
  /\ UNCHANGED <<seq, epoch, req, walk, chan, batch, handler, current>>

(* The picker's task takes over what is queued; once told of the end it    *)
(* leaves, and takes `push` with it if it is still the current one.        *)
Show(r) ==
  /\ IsLive(r)
  /\ task[r].queue > 0 \/ task[r].done
  /\ task' = [task EXCEPT ![r].shown = @ + task[r].queue, ![r].queue = 0,
                          ![r].state = IF task[r].done THEN "ended" ELSE "runs"]
  /\ current' = IF task[r].done /\ current[task[r].by].sid = r
                THEN [current EXCEPT ![task[r].by].push = FALSE] ELSE current
  /\ UNCHANGED <<seq, epoch, req, walk, chan, batch, sent, handler>>

-----------------------------------------------------------------------------
(* The backend: a task per request, the walk's threads, a drainer.         *)

Superseded(r) == epoch # req[r].epoch

(* The pattern is no regular expression: an error before any epoch.        *)
Refuse(r) ==
  /\ req[r].pc = "sent"
  /\ req' = [req EXCEPT ![r].pc = "told"]
  /\ sent' = Append(sent, Message(r, 0, "error"))
  /\ UNCHANGED <<seq, epoch, walk, chan, batch, handler, current, task>>

(* fetch_add: from here on every older walk is superseded.                 *)
TakeEpoch(r) ==
  /\ req[r].pc = "sent"
  /\ AsksInOrder => \A s \in 1..r - 1 : req[s].pc # "sent"
  /\ epoch' = epoch + 1
  /\ req' = [req EXCEPT ![r].pc = "waits", ![r].epoch = epoch']
  /\ UNCHANGED <<seq, walk, chan, batch, sent, handler, current, task>>

(* acquire_owned: the permit is free when nobody walks.                    *)
Begin(r) ==
  /\ req[r].pc = "waits"
  /\ \A s \in Sids : req[s].pc # "walks"
  /\ req' = [req EXCEPT ![r].pc = "walks"]
  /\ walk' = FreshWalk
  /\ UNCHANGED <<seq, epoch, chan, batch, sent, handler, current, task>>

(* A thread is given the next file: it quits, and with it the whole walk,  *)
(* when the search is superseded or has all it may give; a file begun is   *)
(* matched to its end.                                                     *)
Visit(r, t) ==
  /\ req[r].pc = "walks"
  /\ walk.at[t] = 0 /\ ~walk.quit /\ walk.left # {}
  /\ \/ /\ Superseded(r) \/ walk.count >= MaxHits
        /\ walk' = [walk EXCEPT !.quit = TRUE]
     \/ /\ ~Superseded(r) /\ walk.count < MaxHits
        /\ \E f \in walk.left :
             walk' = [walk EXCEPT !.left = @ \ {f}, !.at[t] = f]
  /\ UNCHANGED <<seq, epoch, req, chan, batch, sent, handler, current, task>>

TooMany == walk.count >= MaxHits

(* A hit: counted first, and one too many ends the walk.                   *)
Match(r, t) ==
  /\ req[r].pc = "walks"
  /\ walk.at[t] > 0 /\ ~walk.holds[t]
  /\ walk' = IF TooMany
             THEN [walk EXCEPT !.at[t] = 0, !.quit = TRUE, !.count = @ + 1]
             ELSE [walk EXCEPT !.holds[t] = TRUE, !.count = @ + 1]
  /\ UNCHANGED <<seq, epoch, req, chan, batch, sent, handler, current, task>>

(* blocking_send of a live search waits for room.                          *)
Push(r, t) ==
  /\ req[r].pc = "walks"
  /\ walk.holds[t]
  /\ req[r].kind = "stream" => chan[r] < ChanCap
  /\ chan' = [chan EXCEPT ![r] = @ + 1]
  /\ walk' = [walk EXCEPT !.holds[t] = FALSE, !.at[t] = @ - 1]
  /\ UNCHANGED <<seq, epoch, req, batch, sent, handler, current, task>>

(* All threads are through: the permit is free, and the channel closed; a  *)
(* search in one shot is answered.                                         *)
WalkEnds(r) ==
  /\ req[r].pc = "walks"
  /\ walk.quit \/ walk.left = {}
  /\ \A t \in Threads : walk.at[t] = 0
  /\ walk' = NoWalk
  /\ IF req[r].kind = "shot"
     THEN /\ req' = [req EXCEPT ![r].pc = "told"]
          /\ sent' = Append(sent, Message(r, chan[r], "answer"))
          /\ chan' = [chan EXCEPT ![r] = 0]
     ELSE /\ req' = [req EXCEPT ![r].pc = "walked"]
          /\ UNCHANGED <<sent, chan>>
  /\ UNCHANGED <<seq, epoch, batch, handler, current, task>>

Drains(r) == req[r].kind = "stream" /\ req[r].pc \in {"walks", "walked"}

(* The drainer receives a match, and sends a batch that is full.           *)
Drain(r) ==
  /\ Drains(r) /\ chan[r] > 0
  /\ chan' = [chan EXCEPT ![r] = @ - 1]
  /\ IF batch[r] + 1 >= BatchCap
     THEN /\ batch' = [batch EXCEPT ![r] = 0]
          /\ sent' = Append(sent, Message(r, batch[r] + 1, "no"))
     ELSE /\ batch' = [batch EXCEPT ![r] = @ + 1]
          /\ UNCHANGED sent
  /\ UNCHANGED <<seq, epoch, req, walk, handler, current, task>>

(* Nothing came for 60 ms: what there is goes out.                         *)
Tick(r) ==
  /\ Drains(r) /\ chan[r] = 0 /\ batch[r] > 0
  /\ batch' = [batch EXCEPT ![r] = 0]
  /\ sent' = Append(sent, Message(r, batch[r], "no"))
  /\ UNCHANGED <<seq, epoch, req, walk, chan, handler, current, task>>

Rest(r) == IF batch[r] > 0 THEN <<Message(r, batch[r], "no")>> ELSE <<>>

(* Mutant of LastWords: a superseded search is not said to be over.        *)
LastWordsOfNewest(r) == IF Superseded(r) THEN <<>>
                        ELSE Rest(r) \o <<Message(r, 0, "done")>>

LastWords(r) == Rest(r) \o <<Message(r, 0, "done")>>

(* The channel is closed and empty: the rest, and the end.                 *)
Finish(r) ==
  /\ req[r].pc = "walked" /\ chan[r] = 0
  /\ req' = [req EXCEPT ![r].pc = "told"]
  /\ batch' = [batch EXCEPT ![r] = 0]
  /\ sent' = sent \o LastWords(r)
  /\ UNCHANGED <<seq, epoch, walk, chan, handler, current, task>>

-----------------------------------------------------------------------------

SearchNext ==
  \/ \E p \in 1..Pickers : Ask(p)
  \/ AskOnce \/ Leave \/ Hear
  \/ \E r \in Sids : \/ Show(r) \/ Refuse(r) \/ TakeEpoch(r) \/ Begin(r)
                     \/ WalkEnds(r) \/ Drain(r) \/ Tick(r) \/ Finish(r)
                     \/ \E t \in Threads : Visit(r, t) \/ Match(r, t) \/ Push(r, t)

(* Every task and thread that can go on does; the editor hears what it is  *)
(* sent.                                                                   *)
SearchFair ==
  /\ WF_searchVars(Hear)
  /\ \A r \in Sids :
       /\ WF_searchVars(Show(r)) /\ WF_searchVars(TakeEpoch(r)) /\ WF_searchVars(Begin(r))
       /\ WF_searchVars(WalkEnds(r)) /\ WF_searchVars(Drain(r)) /\ WF_searchVars(Finish(r))
       /\ \A t \in Threads : WF_searchVars(Visit(r, t) \/ Match(r, t) \/ Push(r, t))

(* A search never gives more matches than it may, whichever threads find   *)
(* its last ones at once.                                                  *)
NoneTooMany == \A r \in Sids : task[r].shown + task[r].queue <= MaxHits

(* The search asked for last is shown whole: no older walk, drainer or     *)
(* task cuts it short or takes its events, and none of its matches is left *)
(* in a channel or batch when it is said to be over.                       *)
NewestIsWhole ==
  \A r \in Sids : /\ r = seq /\ task[r].state = "ended" /\ req[r].epoch > 0
                  => task[r].shown = Whole

(* The types, and what a search shows: both of the above.                  *)
SearchInv == SearchTypeOK /\ NoneTooMany /\ NewestIsWhole

(* The picker's search ends, however many were asked for before it: no     *)
(* walk that is waited for is itself waiting for good.                     *)
SpinnerStops == \A r \in Sids : (task[r].state = "runs") ~> (task[r].state # "runs")
=============================================================================
