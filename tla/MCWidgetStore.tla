--------------------------- MODULE MCWidgetStore ----------------------------
(* WidgetStore for TLC.                                                    *)
EXTENDS WidgetStore, TLC

CONSTANTS s1, s2, out, l1, l2, l3, req, ax, ay

End(m, at) == [model |-> m, attr |-> at]
Way(from, to, both) == [source |-> from, target |-> to, both |-> both]

OneLink == {Way(End(s1, ax), End(s2, ax), both) : both \in BOOLEAN}

(* Two models are opened at most: the others are saved ones, dead.         *)
Pairs == {{s1, s2}, {s1, out}}
MCInit == Init /\ \E pair \in Pairs : \A m \in Models : st[m] = "none" <=> m \in pair
MCSpec == MCInit /\ [][Next]_vars

(* Bound: the kernel is replaced only when it opened one model at most.    *)
OneWhenReplaced == (sender /\ gen = 0) \/ Cardinality(opened) <= 1

(* Three jsdlinks in a ring over s1.ax, s2.ax and s1.ay; both models and   *)
(* the links were opened, with the same value everywhere.                  *)
Ring == (l1 :> Way(End(s1, ax), End(s2, ax), FALSE)) @@ (l2 :> Way(End(s2, ax), End(s1, ay), FALSE))
        @@ (l3 :> Way(End(s1, ay), End(s1, ax), FALSE))
RingEnds == {Ring[l] : l \in DOMAIN Ring}
RingInit ==
  /\ gen = 0 /\ st = [m \in Models |-> "live"] /\ opened = Models
  /\ val = [m \in Models |-> Blank(m)] /\ kval = val
  /\ links = <<l1, l2, l3>> /\ ends = Ring
  /\ expect = [m \in Models |-> [at \in AttrsOf(m) |-> 0]]
  /\ inflight = [m \in Models |-> 0] /\ pending = [m \in Models |-> Nothing]
  /\ infl = {} /\ ours = {} /\ next = [m \in Models |-> 0] /\ aged = next
  /\ msgid = <<>> /\ capture = <<>> /\ flight = <<>> /\ timers = <<>> /\ kmsg = <<>>
  /\ waiting = {} /\ clearing = {} /\ armed = {} /\ recent = {} /\ checks = {}
  /\ holder = None /\ apply = <<>> /\ todo = <<>> /\ steps = 0
  /\ fx = [t \in Actors |-> <<>>] /\ sender = TRUE /\ kgen = 0
  /\ shell = <<>> /\ iopub = <<>> /\ budget = Budget
RingSpec == RingInit /\ [][Next]_vars
=============================================================================
