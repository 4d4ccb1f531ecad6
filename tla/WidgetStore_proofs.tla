-------------------------- MODULE WidgetStore_proofs ---------------------------
EXTENDS WidgetStore, WellFoundedInduction, FiniteSetTheorems, SequenceTheorems, TLAPS

-----------------------------------------------------------------------------
(* What is kept of a sequence.  The induction along the sequence is by the *)
(* least place where the claim would fail.                                 *)
LEMMA Least ==
  ASSUME NEW T \in SUBSET Nat, T # {}
  PROVE  \E x \in T : \A y \in T : x <= y
<1>1. PICK x \in T : \A y \in T : ~ (<<y, x>> \in OpToRel(<, Nat))
  BY WFMin, NatLessThanWellFounded, Zenon
<1>2. \A y \in T : ~(y < x)
  BY <1>1 DEF OpToRel
<1>3. \A y \in T : x <= y
  BY <1>2
<1> QED
  BY <1>3

(* g[i] is what is kept of the first i elements.                           *)
Keeps(s, T, n, g) ==
  \A i \in 0..n :
    g[i] = IF i = 0 THEN <<>> ELSE IF s[i] \in T THEN Append(g[i - 1], s[i]) ELSE g[i - 1]

LEMMA KeepsExists ==
  ASSUME NEW S, NEW s \in Seq(S), NEW T
  PROVE  \E g \in [0..Len(s) -> Seq(S \cap T)] : Keeps(s, T, Len(s), g)
<1> DEFINE Bad == {k \in 0..Len(s) : ~ \E g \in [0..k -> Seq(S \cap T)] : Keeps(s, T, k, g)}
<1>1. Len(s) \in Nat /\ \A i \in 1..Len(s) : s[i] \in S
  BY LenProperties, ElementOfSeq
<1>2. ASSUME Bad # {} PROVE FALSE
  <2>1. Bad \in SUBSET Nat
    BY <1>1
  <2>2. PICK k \in Bad : \A y \in Bad : k <= y
    <3> HIDE DEF Bad
    <3> QED BY <1>2, <2>1, Least
  <2>3. k \in 0..Len(s) /\ ~ \E g \in [0..k -> Seq(S \cap T)] : Keeps(s, T, k, g)
    BY <2>2
  <2>4. ASSUME k = 0 PROVE FALSE
    <3>1. [i \in 0..k |-> <<>>] \in [0..k -> Seq(S \cap T)]
      <4>1. <<>> \in Seq(S \cap T)
        BY EmptySeq
      <4> QED BY <4>1, Zenon
    <3>2. Keeps(s, T, k, [i \in 0..k |-> <<>>])
      BY <2>4 DEF Keeps
    <3> QED BY <2>3, <3>1, <3>2
  <2>5. k - 1 \in 0..Len(s) /\ k - 1 \notin Bad /\ k \in 1..Len(s)
    <3>1. k - 1 \in 0..Len(s) /\ k \in 1..Len(s) /\ ~(k <= k - 1)
      BY <1>1, <2>3, <2>4
    <3> HIDE DEF Bad
    <3> QED BY <2>2, <3>1
  <2>6. PICK g \in [0..(k - 1) -> Seq(S \cap T)] : Keeps(s, T, k - 1, g)
    BY <2>5
  <2> DEFINE z == IF s[k] \in T THEN Append(g[k - 1], s[k]) ELSE g[k - 1]
             h == [i \in 0..k |-> IF i = k THEN z ELSE g[i]]
  <2>7. z \in Seq(S \cap T)
    <3>1. g[k - 1] \in Seq(S \cap T) /\ s[k] \in S
      BY <1>1, <2>5, <2>6
    <3> QED BY <3>1, AppendProperties
  <2>8. h \in [0..k -> Seq(S \cap T)]
    <3>1. \A i \in 0..k : i # k => i \in 0..(k - 1)
      BY <2>5
    <3> HIDE DEF z
    <3>2. \A i \in 0..k : (IF i = k THEN z ELSE g[i]) \in Seq(S \cap T)
      BY <2>6, <2>7, <3>1
    <3> QED BY <3>2
  <2>9. Keeps(s, T, k, h)
    <3> SUFFICES ASSUME NEW i \in 0..k
                 PROVE  h[i] = IF i = 0 THEN <<>> ELSE IF s[i] \in T THEN Append(h[i - 1], s[i]) ELSE h[i - 1]
      BY DEF Keeps
    <3>1. i # 0 => i - 1 \in 0..k /\ i - 1 # k /\ h[i - 1] = g[i - 1]
      BY <2>5
    <3>2. CASE i = k
      BY <2>5, <3>1, <3>2
    <3>3. CASE i # k
      <4>1. i \in 0..(k - 1) /\ h[i] = g[i]
        BY <2>5, <3>3
      <4>2. g[i] = IF i = 0 THEN <<>> ELSE IF s[i] \in T THEN Append(g[i - 1], s[i]) ELSE g[i - 1]
        BY <2>6, <4>1 DEF Keeps
      <4> HIDE DEF h, z
      <4> QED BY <3>1, <4>1, <4>2
    <3> QED BY <3>2, <3>3
  <2> HIDE DEF z, h
  <2> QED BY <2>3, <2>8, <2>9
<1>3. Len(s) \in 0..Len(s) /\ Len(s) \notin Bad
  BY <1>1, <1>2
<1> QED BY <1>3

LEMMA KeptIs ==
  ASSUME NEW S, NEW s \in Seq(S), NEW T
  PROVE  \E g \in [0..Len(s) -> Seq(S \cap T)] : Keeps(s, T, Len(s), g) /\ Kept(s, T) = g[Len(s)]
<1> DEFINE Is(f) == f = [i \in 0..Len(s) |->
                          IF i = 0 THEN <<>> ELSE IF s[i] \in T THEN Append(f[i - 1], s[i]) ELSE f[i - 1]]
           f0 == CHOOSE f : Is(f)
<1>1. Len(s) \in Nat
  BY LenProperties
<1>2. PICK g \in [0..Len(s) -> Seq(S \cap T)] : Keeps(s, T, Len(s), g)
  BY KeepsExists
<1>3. Is(g)
  BY <1>2 DEF Keeps
<1>4. Is(f0)
  <2> HIDE DEF Is
  <2> QED BY <1>3
<1>5. Kept(s, T) = f0[Len(s)]
  BY DEF Kept
<1> HIDE DEF f0
<1>6. ASSUME NEW i \in 0..Len(s) PROVE f0[i] = g[i]
  <2> DEFINE Bad == {k \in 0..Len(s) : f0[k] # g[k]}
  <2>1. ASSUME Bad # {} PROVE FALSE
    <3>1. Bad \in SUBSET Nat
      BY <1>1
    <3>2. PICK k \in Bad : \A y \in Bad : k <= y
      <4> HIDE DEF Bad
      <4> QED BY <2>1, <3>1, Least
    <3>3. k # 0 => k - 1 \in 0..Len(s) /\ f0[k - 1] = g[k - 1]
      BY <1>1, <3>2
    <3>4. f0[k] = IF k = 0 THEN <<>> ELSE IF s[k] \in T THEN Append(f0[k - 1], s[k]) ELSE f0[k - 1]
      BY <1>4, <3>2
    <3>5. g[k] = IF k = 0 THEN <<>> ELSE IF s[k] \in T THEN Append(g[k - 1], s[k]) ELSE g[k - 1]
      BY <1>2, <3>2 DEF Keeps
    <3>6. f0[k] = g[k]
      BY <3>3, <3>4, <3>5
    <3> QED BY <3>2, <3>6
  <2> QED BY <2>1
<1>7. Kept(s, T) = g[Len(s)]
  BY <1>1, <1>5, <1>6
<1> QED BY <1>2, <1>7

LEMMA KeptType ==
  ASSUME NEW S, NEW s \in Seq(S), NEW T
  PROVE  Kept(s, T) \in Seq(S \cap T)
<1>1. PICK g \in [0..Len(s) -> Seq(S \cap T)] : Kept(s, T) = g[Len(s)]
  BY KeptIs
<1>2. Len(s) \in 0..Len(s)
  BY LenProperties
<1> QED BY <1>1, <1>2
-----------------------------------------------------------------------------
(* The types, by the groups of variables that the actions leave alone.     *)

Parts(m) == UNION {[s -> Vals] : s \in SUBSET AttrsOf(m)}
AttrNames == Attrs \cup {"outputs"}
Bases == [infl : SUBSET Ids, ours : SUBSET Ids, flight : [Outs -> Nat], armed : SUBSET Outs]

Messages ==
  [kind : {"custom", "execute"}, model : Models \cup {None}, n : Nat, upd : {Nothing}]
  \cup UNION {[kind : {"update", "flush"}, model : {m}, n : Nat, upd : Parts(m)] : m \in Models}

Effects ==
  [do : {"send"}, msgs : SUBSET Messages] \cup [do : {"check"}, id : Ids] \cup [do : {"flush"}, of : SUBSET Outs]

(* What an event of each kind may hold.                                    *)
IsEvent(e) ==
  /\ e.gen \in Nat /\ e.n \in Nat \cup Pieces
  /\ \/ e.kind = "open" /\ e.model \in Models /\ e.upd \in [AttrsOf(e.model) -> Vals]
     \/ e.kind = "close" /\ e.model \in Models
     \/ e.kind = "idle" /\ e.model \in Models /\ e.n \in Nat
     \/ e.kind \in {"update", "echo"} /\ e.model \in Models /\ e.upd \in Parts(e.model) /\ e.n \in Nat
     \/ e.kind = "link" /\ e.model \in Links /\ e.upd \in Ends
     \/ e.kind = "unlink" /\ e.model \in Links
     \/ e.kind = "capture" /\ e.model \in Outs /\ e.parent \in Parents \cup {None}
     \/ e.kind = "stream" /\ e.parent \in Parents /\ e.n \in Pieces
     \/ e.kind = "clear" /\ e.parent \in Parents /\ e.upd \in BOOLEAN
     \/ e.kind = "display" /\ e.n \in Pieces /\ e.upd \in Pieces

Said == (UNION {Parts(m) : m \in Models}) \cup Ends \cup BOOLEAN \cup Pieces \cup {Nothing}
Shapes ==
  [gen : Nat,
   kind : {"open", "close", "idle", "update", "echo", "link", "unlink", "capture", "stream", "clear", "display"},
   model : Models \cup Links \cup {None}, n : Nat \cup Pieces, parent : Parents \cup {None}, upd : Said]
Events == {e \in Shapes : IsEvent(e)}

(* The links that are connected, and what may be in a queue of copies.     *)
Connected == {l \in Links : ends[l] # None}
Changes(L) == [model : Models, attr : AttrNames, left : Seq(L)]

SettingTypes == gen \in Nat /\ kgen \in Nat /\ sender \in BOOLEAN /\ budget \in Nat /\ opened \subseteq Models
ModelTypes ==
  /\ st \in [Models -> {"none", "live", "dead"}] /\ msgid \in [Outs -> Parents \cup {None}]
  /\ \A m \in Models : val[m] \in [AttrsOf(m) -> Vals]
  /\ DOMAIN val = Models
ExpectTypes == DOMAIN expect = Models /\ \A m \in Models : expect[m] \in [AttrsOf(m) -> Nat]
HeldTypes ==
  /\ inflight \in [Models -> Nat]
  /\ DOMAIN pending = Models /\ \A m \in Models : pending[m] \in Parts(m)
IdTypes == infl \in SUBSET Ids /\ ours \in SUBSET Ids /\ next \in [Models -> Nat]
OutTypes ==
  /\ waiting \in SUBSET Outs /\ armed \in SUBSET Outs /\ recent \in SUBSET Outs
  /\ flight \in [Outs -> Nat]
CaptureTypes == capture \in [Parents -> Seq(Outs)] /\ clearing \in SUBSET Outs
LinkTypes == links \in Seq(Connected) /\ ends \in [Links -> Ends \cup {None}]
LockTypes ==
  /\ holder \in Actors \cup {None} /\ steps \in 0..LinkStepLimit
  /\ apply \in Seq(Connected) /\ todo \in Seq(Changes(Connected))
  /\ holder = None => apply = <<>> /\ todo = <<>>
TimeTypes == checks \in SUBSET Ids /\ timers \in [Outs -> Nat] /\ aged \in [Models -> Nat]
KernelTypes ==
  /\ DOMAIN kval = Models /\ \A m \in Models : kval[m] \in [AttrsOf(m) -> Vals] \cup {None}
  /\ kmsg \in [Outs -> Parents \cup {None}]
  /\ shell \in Seq(Messages) /\ iopub \in Seq(Events)
FxTypes == fx \in [Actors -> Seq(Effects)]

StoreTypes == ModelTypes /\ ExpectTypes /\ HeldTypes /\ IdTypes /\ OutTypes /\ CaptureTypes /\ LinkTypes /\ LockTypes
TypeInv == SettingTypes /\ StoreTypes /\ TimeTypes /\ KernelTypes /\ FxTypes

(* A kernel's close, or open, of m is on its way.                          *)
EventAt(kind, m, i) == iopub[i].kind = kind /\ iopub[i].model = m
Closes(m, i) == EventAt("close", m, i) /\ iopub[i].gen = gen
Opens(m, i) == EventAt("open", m, i) /\ iopub[i].gen = gen

(* An update in flight has its timer, or the task that starts it; what is  *)
(* held back is held behind one.                                           *)
Timed(m, n) == <<m, n>> \in checks \/ Fx(Check(m, n))
HoldInv ==
  \A m \in Models : /\ inflight[m] # 0 => Timed(m, inflight[m])
                    /\ pending[m] # Nothing => inflight[m] # 0

(* An armed widget has a timer, or the task that starts it.                *)
Ticks(o) == timers[o] > 0 \/ \E S \in SUBSET Outs : o \in S /\ Fx(FlushLater(S))
CaptureInv ==
  /\ \A o \in armed : Ticks(o)
  /\ \A o \in waiting : flight[o] # 0 \/ o \in armed

(* What the store connects the kernel has, or its close is on its way; so  *)
(* with what an event on its way opens.                                    *)
OpenInv ==
  /\ kgen <= gen /\ \A i \in 1..Len(iopub) : iopub[i].gen <= kgen
  /\ \A m \in Models : Live(m) => kgen = gen /\ (kval[m] # None \/ \E i \in 1..Len(iopub) : Closes(m, i))
  /\ \A m \in Models : \A i \in 1..Len(iopub) :
       Opens(m, i) => kval[m] # None \/ \E j \in 1..Len(iopub) : i < j /\ Closes(m, j)
-----------------------------------------------------------------------------
(* What the parts of a call do.                                            *)

LEMMA NothingParts ==
  ASSUME NEW m
  PROVE  Nothing \in Parts(m) /\ DOMAIN Nothing = {}
<1>1. Nothing \in [{} -> Vals]
  BY DEF Nothing
<1> QED BY <1>1 DEF Parts, Nothing

LEMMA OutParts ==
  ASSUME NEW o \in Outs, NEW v \in Vals
  PROVE  o \in Models /\ AttrsOf(o) = {"outputs"} /\ [x \in {"outputs"} |-> v] \in Parts(o)
<1>1. o \in Models /\ AttrsOf(o) = {"outputs"}
  BY DEF Models, AttrsOf
<1>2. [x \in {"outputs"} |-> v] \in [{"outputs"} -> Vals]
  OBVIOUS
<1> QED BY <1>1, <1>2 DEF Parts

(* The provers write out a concatenation element by element: it is hidden. *)
Cat(s, t) == s \o t

LEMMA CatType == \A x, y \in Seq(Effects) : Cat(x, y) \in Seq(Effects)
  BY ConcatProperties DEF Cat

LEMMA CatAssociative == \A x, y, z \in Seq(Effects) : Cat(Cat(x, y), z) = Cat(x, Cat(y, z))
  BY ConcatAssociative DEF Cat

LEMMA Regroup ==
  \A w, x, y, z \in Seq(Effects) : Cat(Cat(Cat(w, x), y), z) = Cat(w, Cat(Cat(x, y), z))
  BY CatType, CatAssociative

(* What is added to a task's effects leaves the others there.              *)
LEMMA FxGrows ==
  ASSUME FxTypes, NEW a \in Actors, NEW k \in Seq(Effects), fx' = [fx EXCEPT ![a] = Cat(@, k)]
  PROVE  /\ FxTypes'
         /\ \A e \in Effects : Fx(e) => Fx(e)'
         /\ \A i \in 1..Len(k) : Fx(k[i])'
<1>1. fx[a] \in Seq(Effects) /\ Cat(fx[a], k) \in Seq(Effects)
  BY CatType DEF FxTypes
<1>2. FxTypes'
  BY <1>1 DEF FxTypes
<1>3. /\ Len(Cat(fx[a], k)) = Len(fx[a]) + Len(k) /\ Len(fx[a]) \in Nat /\ Len(k) \in Nat
      /\ \A i \in 1..(Len(fx[a]) + Len(k)) : Cat(fx[a], k)[i] = IF i <= Len(fx[a]) THEN fx[a][i] ELSE k[i - Len(fx[a])]
  BY <1>1, ConcatProperties, LenProperties DEF Cat
<1>4. \A c \in Actors : fx'[c] = IF c = a THEN Cat(fx[a], k) ELSE fx[c]
  BY DEF FxTypes
<1>5. \A c \in Actors : DOMAIN fx'[c] = 1..Len(fx'[c]) /\ DOMAIN fx[c] = 1..Len(fx[c])
  BY <1>2 DEF FxTypes
<1>6. ASSUME NEW e \in Effects, Fx(e) PROVE Fx(e)'
  <2>1. PICK c \in Actors : \E i \in 1..Len(fx[c]) : fx[c][i] = e
    BY <1>5, <1>6 DEF Fx
  <2>3. PICK i \in 1..Len(fx[c]) : fx[c][i] = e
    BY <2>1
  <2>2. i \in 1..Len(fx'[c]) /\ fx'[c][i] = e
    BY <1>3, <1>4, <2>3
  <2> QED BY <1>5, <2>2 DEF Fx
<1>7. ASSUME NEW i \in 1..Len(k) PROVE Fx(k[i])'
  <2>0. PICK p \in Nat : p = Len(fx[a])
    BY <1>3
  <2>1. PICK j \in Nat : j = p + i
    BY <2>0
  <2>5. j \in 1..(p + Len(k)) /\ ~(j <= p) /\ j - p = i
    BY <1>3, <2>0, <2>1
  <2>2. j \in 1..Len(fx'[a]) /\ fx'[a][j] = k[i]
    BY <1>3, <1>4, <2>0, <2>5
  <2>3. PICK e : e = k[i]
    OBVIOUS
  <2>4. Fx(e)'
    BY <1>5, <2>2, <2>3 DEF Fx
  <2> QED BY <2>3, <2>4
<1> QED BY <1>2, <1>6, <1>7

LEMMA MessageTypes ==
  ASSUME NEW m \in Models, NEW n \in Nat, NEW upd \in Parts(m)
  PROVE  /\ Message(m, n, "update", upd) \in Messages /\ Message(m, n, "flush", upd) \in Messages
         /\ Message(m, n, "custom", Nothing) \in Messages
<1> DEFINE Sorts == [kind : {"update", "flush"}, model : {m}, n : Nat, upd : Parts(m)]
<1>1. Message(m, n, "update", upd) \in Sorts /\ Message(m, n, "flush", upd) \in Sorts
  BY DEF Message
<1>2. Sorts \in {[kind : {"update", "flush"}, model : {k}, n : Nat, upd : Parts(k)] : k \in Models}
  OBVIOUS
<1>3. Message(m, n, "custom", Nothing)
        \in [kind : {"custom", "execute"}, model : Models \cup {None}, n : Nat, upd : {Nothing}]
  BY DEF Message
<1> HIDE DEF Sorts
<1> QED BY <1>1, <1>2, <1>3 DEF Messages

LEMMA ExecuteTypes == Message(None, 0, "execute", Nothing) \in Messages
<1>1. Message(None, 0, "execute", Nothing)
        \in [kind : {"custom", "execute"}, model : Models \cup {None}, n : Nat, upd : {Nothing}]
  BY DEF Message
<1> QED BY <1>1 DEF Messages

LEMMA EffectTypes ==
  /\ \A M \in SUBSET Messages : Send(M) \in Effects
  /\ \A m \in Models : \A n \in Nat : Check(m, n) \in Effects
  /\ \A S \in SUBSET Outs : FlushLater(S) \in Effects
  BY DEF Send, Check, FlushLater, Effects, Ids

(* The message Emit makes for m, and those of the flushes.                 *)
Flushes(F) == {Message(o, next[o] + 1, "flush", [x \in {"outputs"} |-> val'[o][x]]) : o \in F}
Flushed(F) == IF F = {} THEN <<>> ELSE <<Send(Flushes(F))>>
Own(F, m, kind, upd) == IF m = None THEN <<>> ELSE <<Send({Message(m, OwnId(F, m), kind, upd)})>>
Emitted(F, m, kind, upd, more) == Cat(Cat(Flushed(F), Own(F, m, kind, upd)), more)

LEMMA EmittedType ==
  ASSUME IdTypes, ModelTypes', NEW F \in SUBSET Outs, NEW m \in Models \cup {None}, NEW kind, NEW upd,
         NEW more \in Seq(Effects),
         \A n \in Nat : m # None => Message(m, n, kind, upd) \in Messages
  PROVE  /\ Flushes(F) \in SUBSET Messages
         /\ Flushed(F) \in Seq(Effects) /\ Own(F, m, kind, upd) \in Seq(Effects)
         /\ Cat(Flushed(F), Own(F, m, kind, upd)) \in Seq(Effects)
         /\ Emitted(F, m, kind, upd, more) \in Seq(Effects)
<1>1. ASSUME NEW o \in F PROVE Message(o, next[o] + 1, "flush", [x \in {"outputs"} |-> val'[o][x]]) \in Messages
  <2>1. o \in Outs /\ o \in Models /\ next[o] + 1 \in Nat
    BY DEF IdTypes, Models
  <2>2. AttrsOf(o) = {"outputs"}
    BY DEF AttrsOf
  <2>3. val'[o] \in [AttrsOf(o) -> Vals]
    BY <2>1 DEF ModelTypes
  <2>4. val'[o]["outputs"] \in Vals
    BY <2>2, <2>3
  <2>5. [x \in {"outputs"} |-> val'[o][x]] = [x \in {"outputs"} |-> val'[o]["outputs"]]
    OBVIOUS
  <2>6. [x \in {"outputs"} |-> val'[o][x]] \in Parts(o)
    BY <2>1, <2>4, <2>5, OutParts
  <2> QED BY <2>1, <2>6, MessageTypes
<1>2. Flushes(F) \in SUBSET Messages
  BY <1>1 DEF Flushes
<1>3. Flushed(F) \in Seq(Effects)
  <2>1. Send(Flushes(F)) \in Effects
    BY <1>2, EffectTypes
  <2> QED BY <2>1 DEF Flushed
<1>4. Own(F, m, kind, upd) \in Seq(Effects)
  <2>1. m # None => OwnId(F, m) \in Nat
    BY DEF OwnId, IdTypes
  <2>2. m # None => {Message(m, OwnId(F, m), kind, upd)} \in SUBSET Messages
    BY <2>1
  <2>3. m # None => Send({Message(m, OwnId(F, m), kind, upd)}) \in Effects
    BY <2>2, EffectTypes
  <2> QED BY <2>3 DEF Own
<1>5. Cat(Flushed(F), Own(F, m, kind, upd)) \in Seq(Effects)
  BY <1>3, <1>4, CatType
<1>6. Emitted(F, m, kind, upd, more) \in Seq(Effects)
  BY <1>5, CatType DEF Emitted
<1> QED BY <1>2, <1>3, <1>4, <1>5, <1>6

(* What a sequence ends with is in it.                                     *)
LEMMA EndsWith ==
  ASSUME NEW c \in Seq(Effects), NEW more \in Seq(Effects), NEW i \in 1..Len(more)
  PROVE  \E j \in 1..Len(c \o more) : (c \o more)[j] = more[i]
<1>1. /\ Len(c \o more) = Len(c) + Len(more) /\ Len(c) \in Nat /\ Len(more) \in Nat
      /\ \A j \in 1..(Len(c) + Len(more)) : (c \o more)[j] = IF j <= Len(c) THEN c[j] ELSE more[j - Len(c)]
  BY ConcatProperties, LenProperties
<1>2. PICK p \in Nat : p = Len(c)
  BY <1>1
<1>3. PICK j \in Nat : j = p + i
  BY <1>2
<1>4. j \in 1..(p + Len(more)) /\ ~(j <= p) /\ j - p = i
  BY <1>1, <1>2, <1>3
<1>5. j \in 1..Len(c \o more) /\ (c \o more)[j] = more[i]
  BY <1>1, <1>2, <1>4
<1> QED BY <1>5

(* What the effects still to run do not lose.                              *)
FxKept == \A e \in Effects : Fx(e) => Fx(e)'

(* The types after a call, and what a message, or none, leaves of b.       *)
NextTypes == IdTypes' /\ ExpectTypes' /\ OutTypes' /\ FxTypes'
EmitResult(b, F, more) ==
  /\ NextTypes /\ FxKept
  /\ \A i \in 1..Len(more) : Fx(more[i])'
  /\ waiting' = waiting \ F /\ armed' = b.armed
  /\ \A o \in Outs : flight'[o] = IF o \in F THEN next[o] + 1 ELSE b.flight[o]

LEMMA EmitDoes ==
  ASSUME IdTypes, ExpectTypes, OutTypes, FxTypes, ModelTypes', NEW a \in Actors, NEW b \in Bases,
         NEW F \in SUBSET Outs, NEW m \in Models \cup {None}, NEW kind, NEW upd, NEW more \in Seq(Effects),
         \A n \in Nat : m # None => Message(m, n, kind, upd) \in Messages,
         Emit(a, b, F, m, kind, upd, more)
  PROVE  EmitResult(b, F, more)
<1>1. next \in [Models -> Nat]
  BY DEF IdTypes
<1>2. /\ b.infl \in SUBSET Ids /\ b.ours \in SUBSET Ids /\ b.flight \in [Outs -> Nat]
      /\ b.armed \in SUBSET Outs
  BY DEF Bases
<1>3. F \subseteq Models
  BY DEF Models
<1> DEFINE mine == {<<n, OwnId(F, n)>> : n \in {m} \ {None}}
           flushed == {<<o, next[o] + 1>> : o \in F}
<1>4. \A n \in Models : OwnId(F, n) \in Nat
  BY <1>1 DEF OwnId
<1>5. mine \in SUBSET Ids /\ flushed \in SUBSET Ids
  BY <1>1, <1>3, <1>4 DEF Ids
<1>6. IdTypes'
  <2>1. next' = [n \in Models |-> next[n] + (IF n = m THEN 1 ELSE 0) + (IF n \in F THEN 1 ELSE 0)]
    BY DEF Emit
  <2>2. next' \in [Models -> Nat]
    <3>1. \A n \in Models : next[n] + (IF n = m THEN 1 ELSE 0) + (IF n \in F THEN 1 ELSE 0) \in Nat
      BY <1>1
    <3> QED BY <2>1, <3>1
  <2>3. /\ infl' = b.infl \cup flushed \cup (IF kind = "update" THEN mine ELSE {})
        /\ ours' = b.ours \cup flushed \cup mine
    BY DEF Emit
  <2>4. infl' \in SUBSET Ids /\ ours' \in SUBSET Ids
    <3> HIDE DEF mine, flushed
    <3> QED BY <1>2, <1>5, <2>3
  <2> QED BY <2>2, <2>4 DEF IdTypes
<1>7. ExpectTypes'
  <2> DEFINE new(n) == [x \in AttrsOf(n) |->
          CASE n = m /\ x \in DOMAIN upd -> OwnId(F, m)
            [] ~(n = m /\ x \in DOMAIN upd) /\ n \in F -> next[n] + 1
            [] OTHER -> expect[n][x]]
  <2>1. expect' = [n \in Models |-> new(n)]
    BY DEF Emit
  <2>2. ASSUME NEW n \in Models PROVE new(n) \in [AttrsOf(n) -> Nat]
    <3>1. expect[n] \in [AttrsOf(n) -> Nat]
      BY DEF ExpectTypes
    <3>2. next[n] + 1 \in Nat /\ (n = m => OwnId(F, m) \in Nat)
      BY <1>1, <1>4
    <3>3. ASSUME NEW x \in AttrsOf(n)
          PROVE  (CASE n = m /\ x \in DOMAIN upd -> OwnId(F, m)
                    [] ~(n = m /\ x \in DOMAIN upd) /\ n \in F -> next[n] + 1
                    [] OTHER -> expect[n][x]) \in Nat
      BY <3>1, <3>2
    <3> QED BY <3>3
  <2> HIDE DEF new
  <2> QED BY <2>1, <2>2 DEF ExpectTypes
<1>8. \A o \in Outs : next[o] + 1 \in Nat
  BY <1>1 DEF Models
<1>9. flight' = [o \in Outs |-> IF o \in F THEN next[o] + 1 ELSE b.flight[o]]
  BY DEF Emit
<1>10. waiting' = waiting \ F /\ recent' = recent \cup F /\ armed' = b.armed
  BY DEF Emit
<1>11. flight' \in [Outs -> Nat]
  BY <1>2, <1>8, <1>9
<1>12. OutTypes'
  BY <1>2, <1>10, <1>11 DEF OutTypes
<1> HIDE DEF mine, flushed
<1>13. /\ Emitted(F, m, kind, upd, more) \in Seq(Effects)
       /\ Flushed(F) \in Seq(Effects) /\ Own(F, m, kind, upd) \in Seq(Effects)
       /\ Cat(Flushed(F), Own(F, m, kind, upd)) \in Seq(Effects)
  BY EmittedType
<1>18. fx' = [fx EXCEPT ![a] = Cat(Cat(Cat(@, Flushed(F)), Own(F, m, kind, upd)), more)]
  BY DEF Emit, Flushes, Flushed, Own, Cat
<1>19. fx[a] \in Seq(Effects)
  BY DEF FxTypes
<1>20. Cat(Cat(Cat(fx[a], Flushed(F)), Own(F, m, kind, upd)), more) = Cat(fx[a], Emitted(F, m, kind, upd, more))
  BY <1>13, <1>19, Regroup DEF Emitted
<1>14. PICK k \in Seq(Effects) : k = Emitted(F, m, kind, upd, more)
  BY <1>13
<1>15. fx' = [fx EXCEPT ![a] = Cat(@, k)]
  BY <1>14, <1>18, <1>20
<1>16. FxTypes' /\ (\A e \in Effects : Fx(e) => Fx(e)') /\ \A i \in 1..Len(k) : Fx(k[i])'
  BY <1>15, FxGrows
<1>17. ASSUME NEW i \in 1..Len(more) PROVE Fx(more[i])'
  <2>1. PICK j \in 1..Len(k) : k[j] = more[i]
    <3>1. PICK c \in Seq(Effects) : c = Cat(Flushed(F), Own(F, m, kind, upd))
      BY <1>13
    <3>2. k = c \o more
      BY <1>14, <3>1 DEF Emitted, Cat
    <3> QED BY <3>2, EndsWith
  <2>2. PICK e : e = more[i]
    OBVIOUS
  <2>3. PICK f : f = k[j]
    OBVIOUS
  <2>4. Fx(f)'
    BY <1>16, <2>3
  <2> QED BY <2>1, <2>2, <2>3, <2>4
<1> QED BY <1>6, <1>7, <1>9, <1>10, <1>12, <1>16, <1>17 DEF FxKept, NextTypes, EmitResult

(* What the calls of the store change, besides the values.                 *)
CallTypes == ExpectTypes /\ HeldTypes /\ IdTypes /\ OutTypes /\ FxTypes

LEMMA MergeParts ==
  ASSUME NEW m, NEW u \in Parts(m), NEW w \in Parts(m)
  PROVE  Merge(u, w) \in Parts(m)
<1>1. PICK s \in SUBSET AttrsOf(m) : u \in [s -> Vals]
  BY DEF Parts
<1>2. PICK t \in SUBSET AttrsOf(m) : w \in [t -> Vals]
  BY DEF Parts
<1>3. Merge(u, w) \in [s \cup t -> Vals]
  BY <1>1, <1>2 DEF Merge
<1> QED BY <1>3 DEF Parts

LEMMA BaseType ==
  ASSUME IdTypes, OutTypes
  PROVE  Base \in Bases
  BY DEF IdTypes, OutTypes, Base, Bases

NoneResult(b) ==
  NextTypes /\ FxKept /\ waiting' = waiting /\ armed' = b.armed /\ flight' = b.flight
LEMMA EmitNoneDoes ==
  ASSUME IdTypes, ExpectTypes, OutTypes, FxTypes, NEW b \in Bases, EmitNone(b)
  PROVE  NoneResult(b)
<1>1. /\ b.infl \in SUBSET Ids /\ b.ours \in SUBSET Ids /\ b.flight \in [Outs -> Nat]
      /\ b.armed \in SUBSET Outs
  BY DEF Bases
<1>2. /\ infl' = b.infl /\ ours' = b.ours /\ flight' = b.flight /\ armed' = b.armed
      /\ next' = next /\ expect' = expect /\ waiting' = waiting /\ recent' = recent /\ fx' = fx
  BY DEF EmitNone
<1>3. IdTypes' /\ OutTypes'
  BY <1>1, <1>2 DEF IdTypes, OutTypes
<1>4. ExpectTypes' /\ FxTypes'
  BY <1>2 DEF ExpectTypes, FxTypes
<1>5. FxKept
  BY <1>2 DEF FxKept, Fx
<1> QED BY <1>2, <1>3, <1>4, <1>5 DEF NextTypes, NoneResult

(* The captures of o go out now or wait for a timer or an answer.          *)
PacedResult(b, o) ==
  /\ NextTypes /\ FxKept
  /\ \A p \in armed' : p \in b.armed \/ Fx(FlushLater({p}))'
  /\ b.armed \subseteq armed' /\ waiting' \subseteq waiting
  /\ \A p \in Outs : p \in waiting' => (p # o /\ flight'[p] = b.flight[p]) \/ flight'[p] # 0 \/ p \in armed'

LEMMA PacedFlushDoes ==
  ASSUME IdTypes, ExpectTypes, OutTypes, FxTypes, ModelTypes', NEW a \in Actors, NEW b \in Bases,
         NEW o \in Outs, PacedFlush(a, b, o)
  PROVE  PacedResult(b, o)
<1>0. b.flight \in [Outs -> Nat] /\ b.armed \in SUBSET Outs
  BY DEF Bases
<1>1. CASE o \notin waiting \/ b.flight[o] # 0 \/ (o \in recent /\ o \in b.armed)
  <2>1. EmitNone(b)
    BY <1>1 DEF PacedFlush
  <2>2. NoneResult(b)
    BY <2>1, EmitNoneDoes
  <2> QED BY <1>1, <2>2 DEF NoneResult, PacedResult
<1>2. ASSUME ~(o \notin waiting \/ b.flight[o] # 0 \/ (o \in recent /\ o \in b.armed)), o \in recent
      PROVE  PacedResult(b, o)
  <2>1. PICK c : c = [b EXCEPT !.armed = @ \cup {o}]
    OBVIOUS
  <2>2. c \in Bases /\ c.armed = b.armed \cup {o} /\ c.flight = b.flight
    BY <2>1 DEF Bases
  <2>3. PICK more : more = <<FlushLater({o})>>
    OBVIOUS
  <2>4. more \in Seq(Effects) /\ Len(more) = 1 /\ more[1] = FlushLater({o})
    BY <2>3, EffectTypes
  <2>5. Emit(a, c, {}, None, "none", Nothing, more)
    BY <1>2, <2>1, <2>3 DEF PacedFlush
  <2>6. PICK F \in SUBSET Outs : F = {}
    OBVIOUS
  <2>7. Emit(a, c, F, None, "none", Nothing, more)
    BY <2>5, <2>6
  <2>8. EmitResult(c, F, more)
    BY <2>2, <2>4, <2>7, EmitDoes
  <2>9. PICK e : e = FlushLater({o})
    OBVIOUS
  <2>10. Fx(e)'
    <3>1. (\A i \in 1..Len(more) : Fx(more[i])') /\ 1 \in 1..Len(more)
      BY <2>4, <2>8 DEF EmitResult
    <3> QED BY <2>4, <2>9, <3>1
  <2>11. /\ NextTypes /\ FxKept /\ waiting' = waiting /\ armed' = b.armed \cup {o}
         /\ \A p \in Outs : flight'[p] = b.flight[p]
    BY <2>2, <2>6, <2>8 DEF EmitResult
  <2>12. \A p \in armed' : p \in b.armed \/ Fx(FlushLater({p}))'
    BY <2>9, <2>10, <2>11
  <2>13. \A p \in Outs : p \in waiting' => (p # o /\ flight'[p] = b.flight[p]) \/ flight'[p] # 0 \/ p \in armed'
    BY <2>11
  <2> QED BY <2>11, <2>12, <2>13 DEF PacedResult
<1>3. ASSUME ~(o \notin waiting \/ b.flight[o] # 0 \/ (o \in recent /\ o \in b.armed)), o \notin recent
      PROVE  PacedResult(b, o)
  <2>1. PICK F \in SUBSET Outs : F = {o}
    OBVIOUS
  <2>2. <<>> \in Seq(Effects)
    BY EmptySeq
  <2>3. Emit(a, b, F, None, "none", Nothing, <<>>)
    BY <1>3, <2>1 DEF PacedFlush
  <2>4. EmitResult(b, F, <<>>)
    BY <2>2, <2>3, EmitDoes
  <2>5. /\ NextTypes /\ FxKept /\ waiting' = waiting \ {o} /\ armed' = b.armed
        /\ \A p \in Outs : p # o => flight'[p] = b.flight[p]
    BY <2>1, <2>4 DEF EmitResult
  <2> QED BY <2>5 DEF PacedResult
<1> QED BY <1>1, <1>2, <1>3

SendResult(b, m) ==
  /\ NextTypes /\ FxKept
  /\ inflight' = [inflight EXCEPT ![m] = OwnId(Flushable, m)] /\ OwnId(Flushable, m) \in Nat \ {0}
  /\ Fx(Check(m, inflight[m]))'
  /\ armed' = b.armed /\ waiting' \subseteq waiting
  /\ \A p \in waiting' : flight'[p] = b.flight[p]

LEMMA SendUpdateDoes ==
  ASSUME HeldTypes, IdTypes, ExpectTypes, OutTypes, FxTypes, ModelTypes', NEW a \in Actors,
         NEW b \in Bases, NEW m \in Models, NEW upd \in Parts(m), SendUpdate(a, b, m, upd)
  PROVE  SendResult(b, m)
<1>1. PICK n : n = OwnId(Flushable, m)
  OBVIOUS
<1>2. n \in Nat \ {0}
  BY <1>1 DEF OwnId, IdTypes
<1>3. PICK c : c = [b EXCEPT !.infl = @ \ {<<m, inflight[m]>>}]
  OBVIOUS
<1>4. c \in Bases /\ c.armed = b.armed /\ c.flight = b.flight
  BY <1>3 DEF Bases
<1>5. PICK more : more = <<Check(m, n)>>
  OBVIOUS
<1>6. more \in Seq(Effects) /\ Len(more) = 1 /\ more[1] = Check(m, n)
  BY <1>2, <1>5, EffectTypes
<1>7. PICK F \in SUBSET Outs : F = Flushable
  BY DEF Flushable, OutTypes
<1>8. inflight' = [inflight EXCEPT ![m] = n] /\ Emit(a, c, F, m, "update", upd, more)
  BY <1>1, <1>3, <1>5, <1>7 DEF SendUpdate
<1>9. \A k \in Nat : m # None => Message(m, k, "update", upd) \in Messages
  BY MessageTypes
<1>10. EmitResult(c, F, more)
  BY <1>4, <1>6, <1>8, <1>9, EmitDoes
<1>11. PICK e : e = Check(m, n)
  OBVIOUS
<1>12. Fx(e)'
  <2>1. (\A i \in 1..Len(more) : Fx(more[i])') /\ 1 \in 1..Len(more)
    BY <1>6, <1>10 DEF EmitResult
  <2> QED BY <1>6, <1>11, <2>1
<1>13. waiting \subseteq Outs
  BY DEF OutTypes
<1>14. /\ NextTypes /\ FxKept /\ waiting' = waiting \ F /\ armed' = b.armed
       /\ \A p \in Outs : p \notin F => flight'[p] = b.flight[p]
  BY <1>4, <1>10 DEF EmitResult
<1>15. Fx(Check(m, inflight[m]))'
  <2>1. inflight'[m] = n
    BY <1>8 DEF HeldTypes
  <2> QED BY <1>11, <1>12, <2>1
<1>16. waiting' \subseteq waiting /\ \A p \in waiting' : flight'[p] = b.flight[p]
  BY <1>13, <1>14
<1> QED BY <1>1, <1>2, <1>8, <1>14, <1>15, <1>16 DEF SendResult

-----------------------------------------------------------------------------
(* What is held back has a timer, through the calls.                       *)

LEMMA TicksKept ==
  ASSUME FxKept, NEW p \in Outs, timers[p] > 0 => timers'[p] > 0, Ticks(p)
  PROVE  Ticks(p)'
<1>1. CASE timers[p] > 0
  BY <1>1 DEF Ticks
<1>2. CASE \E S \in SUBSET Outs : p \in S /\ Fx(FlushLater(S))
  <2>1. PICK S \in SUBSET Outs : p \in S /\ Fx(FlushLater(S))
    BY <1>2
  <2>2. PICK e \in Effects : e = FlushLater(S)
    BY EffectTypes
  <2>3. Fx(e)'
    BY <2>1, <2>2 DEF FxKept
  <2>4. Fx(FlushLater(S))'
    BY <2>2, <2>3
  <2> QED BY <2>1, <2>4 DEF Ticks
<1> QED BY <1>1, <1>2 DEF Ticks

LEMMA TimedKept ==
  ASSUME FxKept, NEW m \in Models, NEW n \in Nat, <<m, n>> \in checks => <<m, n>> \in checks', Timed(m, n)
  PROVE  Timed(m, n)'
<1>1. PICK e \in Effects : e = Check(m, n)
  BY EffectTypes
<1>2. Fx(e) => Fx(e)'
  BY <1>1 DEF FxKept
<1>3. Fx(Check(m, n)) => Fx(Check(m, n))'
  BY <1>1, <1>2
<1> QED BY <1>3 DEF Timed

LEMMA CaptureKept ==
  ASSUME CaptureInv, OutTypes, FxKept, \A p \in Outs : timers[p] > 0 => timers'[p] > 0, armed' = armed,
         waiting' \subseteq waiting, \A p \in waiting' : flight'[p] = flight[p]
  PROVE  CaptureInv'
<1>1. ASSUME NEW p \in armed' PROVE Ticks(p)'
  <2>1. p \in Outs /\ Ticks(p)
    BY <1>1 DEF CaptureInv, OutTypes
  <2> QED BY <2>1, TicksKept
<1>2. \A p \in waiting' : flight'[p] # 0 \/ p \in armed'
  BY DEF CaptureInv
<1> QED BY <1>1, <1>2 DEF CaptureInv

LEMMA CapturePaced ==
  ASSUME CaptureInv, OutTypes, OutTypes', NEW b \in Bases, NEW o \in Outs, PacedResult(b, o), b.armed \subseteq armed,
         \A p \in b.armed : timers[p] > 0 => timers'[p] > 0, armed \ {o} \subseteq b.armed,
         \A p \in Outs : p # o => b.flight[p] = flight[p]
  PROVE  CaptureInv'
<1>1. ASSUME NEW p \in armed' PROVE Ticks(p)'
  <2>1. p \in Outs /\ (p \in b.armed \/ Fx(FlushLater({p}))')
    BY <1>1 DEF OutTypes, PacedResult
  <2>2. CASE p \in b.armed
    <3>1. Ticks(p) /\ FxKept
      BY <2>2 DEF CaptureInv, PacedResult
    <3> QED BY <2>1, <2>2, <3>1, TicksKept
  <2>3. CASE Fx(FlushLater({p}))'
    <3>1. PICK S \in SUBSET Outs : S = {p}
      BY <2>1
    <3>2. p \in S /\ Fx(FlushLater(S))'
      BY <2>3, <3>1
    <3> QED BY <3>2 DEF Ticks
  <2> QED BY <2>1, <2>2, <2>3
<1>2. ASSUME NEW p \in waiting' PROVE flight'[p] # 0 \/ p \in armed'
  <2>1. p \in Outs /\ p \in waiting
    BY <1>2 DEF OutTypes, PacedResult
  <2>2. (p # o /\ flight'[p] = b.flight[p]) \/ flight'[p] # 0 \/ p \in armed'
    BY <1>2, <2>1 DEF PacedResult
  <2>3. p # o /\ flight[p] = 0 => p \in armed'
    BY <2>1 DEF CaptureInv, PacedResult
  <2> QED BY <2>1, <2>2, <2>3
<1> QED BY <1>1, <1>2 DEF CaptureInv

LEMMA HoldKept ==
  ASSUME HoldInv, HeldTypes, FxKept, inflight' = inflight, pending' = pending,
         \A k \in Models : <<k, inflight[k]>> \in checks => <<k, inflight[k]>> \in checks'
  PROVE  HoldInv'
<1>1. ASSUME NEW m \in Models, inflight[m] # 0 PROVE Timed(m, inflight[m])'
  <2>1. PICK n \in Nat : n = inflight[m]
    BY DEF HeldTypes
  <2>2. Timed(m, n)
    BY <1>1, <2>1 DEF HoldInv
  <2>3. Timed(m, n)'
    BY <2>1, <2>2, TimedKept
  <2> QED BY <2>1, <2>3
<1> QED BY <1>1 DEF HoldInv

(* An update goes: its effects start its timer; nothing is held for m.     *)
LEMMA HoldSend ==
  ASSUME HoldInv, HeldTypes, NEW b \in Bases, NEW m \in Models, SendResult(b, m), pending' = [pending EXCEPT ![m] = Nothing],
         \A k \in Models : \A n \in Nat : k # m /\ <<k, n>> \in checks => <<k, n>> \in checks'
  PROVE  HeldTypes' /\ HoldInv'
<1>1. /\ inflight' = [inflight EXCEPT ![m] = OwnId(Flushable, m)] /\ OwnId(Flushable, m) \in Nat \ {0}
      /\ FxKept
  BY DEF SendResult
<1>2. inflight' \in [Models -> Nat]
  BY <1>1 DEF HeldTypes
<1>3. DOMAIN pending' = Models /\ \A k \in Models : pending'[k] \in Parts(k)
  BY NothingParts DEF HeldTypes
<1>4. ASSUME NEW k \in Models, inflight'[k] # 0 PROVE Timed(k, inflight[k])'
  <2>1. CASE k = m
    BY <2>1 DEF SendResult, Timed
  <2>2. CASE k # m
    <3>1. inflight'[k] = inflight[k]
      BY <1>1, <2>2 DEF HeldTypes
    <3>2. PICK n \in Nat : n = inflight[k]
      BY DEF HeldTypes
    <3>3. Timed(k, n)
      BY <1>4, <3>1, <3>2 DEF HoldInv
    <3>4. Timed(k, n)'
      BY <1>1, <2>2, <3>3, TimedKept
    <3> QED BY <3>1, <3>2, <3>4
  <2> QED BY <2>1, <2>2
<1>5. ASSUME NEW k \in Models, pending'[k] # Nothing PROVE inflight'[k] # 0
  <2>1. k # m /\ pending[k] # Nothing
    BY <1>5 DEF HeldTypes
  <2>2. inflight'[k] = inflight[k]
    BY <1>1, <2>1 DEF HeldTypes
  <2> QED BY <2>1, <2>2 DEF HoldInv
<1> QED BY <1>2, <1>3, <1>4, <1>5 DEF HeldTypes, HoldInv

(* No update is in flight for m any more, and nothing is held.             *)
LEMMA HoldDrop ==
  ASSUME HoldInv, HeldTypes, FxKept, NEW m \in Models, inflight' = [inflight EXCEPT ![m] = 0],
         DOMAIN pending' = Models,
         \A k \in Models : pending'[k] = IF k = m THEN Nothing ELSE pending[k],
         \A k \in Models : k # m /\ <<k, inflight[k]>> \in checks => <<k, inflight[k]>> \in checks'
  PROVE  HeldTypes' /\ HoldInv'
<1>1. /\ inflight' \in [Models -> Nat]
      /\ \A k \in Models : inflight'[k] = IF k = m THEN 0 ELSE inflight[k]
  BY DEF HeldTypes
<1>2. \A k \in Models : pending'[k] \in Parts(k)
  BY NothingParts DEF HeldTypes
<1>3. ASSUME NEW k \in Models, inflight'[k] # 0 PROVE Timed(k, inflight[k])'
  <2>1. k # m /\ inflight'[k] = inflight[k]
    BY <1>1, <1>3
  <2>2. PICK n \in Nat : n = inflight[k]
    BY DEF HeldTypes
  <2>3. Timed(k, n)
    BY <1>3, <2>1, <2>2 DEF HoldInv
  <2>4. Timed(k, n)'
    BY <2>1, <2>2, <2>3, TimedKept
  <2> QED BY <2>1, <2>2, <2>4
<1>4. ASSUME NEW k \in Models, pending'[k] # Nothing PROVE inflight'[k] # 0
  BY <1>1, <1>4 DEF HoldInv
<1> QED BY <1>1, <1>2, <1>3, <1>4 DEF HeldTypes, HoldInv

CallInv == CallTypes /\ HoldInv /\ CaptureInv

LEMMA BaseIs ==
  ASSUME IdTypes, OutTypes
  PROVE  Base \in Bases /\ Base.infl = infl /\ Base.ours = ours /\ Base.flight = flight /\ Base.armed = armed
  BY BaseType DEF Base

LEMMA QueueDoes ==
  ASSUME CallInv, TimeTypes, ModelTypes', NEW a \in Actors, NEW m \in Models, NEW upd \in Parts(m),
         QueueForKernel(a, m, upd), checks' = checks, timers' = timers
  PROVE  CallInv'
<1> USE DEF CallInv, CallTypes
<1>1. PICK b \in Bases : b = Base /\ b.flight = flight /\ b.armed = armed
  BY BaseIs
<1>2. \A p \in Outs : timers[p] > 0 => timers'[p] > 0
  OBVIOUS
<1>3. ASSUME Held(m) PROVE CallInv'
  <2>1. /\ pending' = [pending EXCEPT ![m] = Merge(upd, @)] /\ inflight' = inflight
        /\ EmitNone(b)
    BY <1>1, <1>3 DEF QueueForKernel
  <2>2. NoneResult(b)
    BY <2>1, EmitNoneDoes
  <2>3. CaptureInv'
    BY <1>1, <1>2, <2>2, CaptureKept DEF NoneResult
  <2>4. pending[m] \in Parts(m) /\ DOMAIN pending = Models
    BY DEF HeldTypes
  <2>5. HeldTypes'
    BY <2>1, <2>4, MergeParts DEF HeldTypes
  <2>6. inflight[m] # 0
    BY <1>3 DEF Held, TimeTypes, HeldTypes
  <2>7. FxKept
    BY <2>2 DEF NoneResult
  <2>8. ASSUME NEW k \in Models, inflight[k] # 0 PROVE Timed(k, inflight[k])'
    <3>1. PICK n \in Nat : n = inflight[k]
      BY DEF HeldTypes
    <3>2. Timed(k, n)
      BY <2>8, <3>1 DEF HoldInv
    <3>3. Timed(k, n)'
      BY <2>7, <3>2, TimedKept
    <3> QED BY <2>1, <3>1, <3>3
  <2>9. HoldInv'
    BY <2>1, <2>4, <2>6, <2>8 DEF HoldInv
  <2> QED BY <2>2, <2>3, <2>5, <2>9 DEF NoneResult, NextTypes
<1>4. ASSUME ~Held(m) PROVE CallInv'
  <2>1. pending' = [pending EXCEPT ![m] = Nothing] /\ SendUpdate(a, b, m, Merge(upd, pending[m]))
    BY <1>1, <1>4 DEF QueueForKernel
  <2>2. PICK u \in Parts(m) : u = Merge(upd, pending[m])
    BY MergeParts DEF HeldTypes
  <2>3. SendResult(b, m)
    BY <2>1, <2>2, SendUpdateDoes
  <2>4. HeldTypes' /\ HoldInv'
    BY <2>1, <2>3, HoldSend
  <2>5. CaptureInv'
    BY <1>1, <1>2, <2>3, CaptureKept DEF SendResult
  <2> QED BY <2>3, <2>4, <2>5 DEF SendResult, NextTypes
<1> QED BY <1>3, <1>4

LEMMA ReleaseDoes ==
  ASSUME CallInv, ModelTypes', NEW a \in Actors, NEW b \in Bases, NEW m \in Models, NEW n \in Nat,
         b.flight = flight, b.armed = armed, Release(a, b, m, n),
         \A k \in Models : \A j \in Nat : ~(k = m /\ j = n) /\ <<k, j>> \in checks => <<k, j>> \in checks',
         timers' = timers
  PROVE  CallInv'
<1> USE DEF CallInv, CallTypes
<1>1. PICK c : c = [b EXCEPT !.infl = @ \ {<<m, n>>}]
  OBVIOUS
<1>2. c \in Bases /\ c.flight = flight /\ c.armed = armed
  BY <1>1 DEF Bases
<1>3. \A p \in Outs : timers[p] > 0 => timers'[p] > 0
  OBVIOUS
<1>4. \A k \in Models : inflight[k] \in Nat
  BY DEF HeldTypes
<1>5. ASSUME inflight[m] # n PROVE CallInv'
  <2>1. EmitNone(c) /\ inflight' = inflight /\ pending' = pending
    BY <1>1, <1>5 DEF Release
  <2>2. NoneResult(c)
    BY <1>2, <2>1, EmitNoneDoes
  <2>3. CaptureInv'
    BY <1>2, <1>3, <2>2, CaptureKept DEF NoneResult
  <2>4. \A k \in Models : <<k, inflight[k]>> \in checks => <<k, inflight[k]>> \in checks'
    BY <1>4, <1>5
  <2>5. FxKept
    BY <2>2 DEF NoneResult
  <2>6. HoldInv'
    BY <2>1, <2>4, <2>5, HoldKept
  <2>7. HeldTypes'
    BY <2>1 DEF HeldTypes
  <2> QED BY <2>2, <2>3, <2>6, <2>7 DEF NoneResult, NextTypes
<1>6. ASSUME inflight[m] = n, pending[m] = Nothing PROVE CallInv'
  <2>1. EmitNone(c) /\ inflight' = [inflight EXCEPT ![m] = 0] /\ pending' = pending
    BY <1>1, <1>6 DEF Release
  <2>2. NoneResult(c)
    BY <1>2, <2>1, EmitNoneDoes
  <2>3. CaptureInv'
    BY <1>2, <1>3, <2>2, CaptureKept DEF NoneResult
  <2>4. \A k \in Models : k # m /\ <<k, inflight[k]>> \in checks => <<k, inflight[k]>> \in checks'
    BY <1>4
  <2>5. FxKept
    BY <2>2 DEF NoneResult
  <2>6. DOMAIN pending' = Models /\ \A k \in Models : pending'[k] = IF k = m THEN Nothing ELSE pending[k]
    BY <1>6, <2>1 DEF HeldTypes
  <2>7. HeldTypes' /\ HoldInv'
    BY <2>1, <2>4, <2>5, <2>6, HoldDrop
  <2> QED BY <2>2, <2>3, <2>7 DEF NoneResult, NextTypes
<1>7. ASSUME inflight[m] = n, pending[m] # Nothing PROVE CallInv'
  <2>1. pending' = [pending EXCEPT ![m] = Nothing] /\ SendUpdate(a, c, m, pending[m])
    BY <1>1, <1>7 DEF Release
  <2>2. PICK u \in Parts(m) : u = pending[m]
    BY DEF HeldTypes
  <2>3. SendResult(c, m)
    BY <1>2, <2>1, <2>2, SendUpdateDoes
  <2>4. HeldTypes' /\ HoldInv'
    BY <1>2, <2>1, <2>3, HoldSend
  <2>5. CaptureInv'
    BY <1>2, <1>3, <2>3, CaptureKept DEF SendResult
  <2> QED BY <2>3, <2>4, <2>5 DEF SendResult, NextTypes
<1> QED BY <1>5, <1>6, <1>7

-----------------------------------------------------------------------------
(* The links: what they copy and what stays in the queue of copies.        *)

LEMMA InSetToSeq ==
  ASSUME NEW S, IsFiniteSet(S), NEW i \in 1..Cardinality(S)
  PROVE  SetToSeq(S)[i] \in S
<1>1. \E f \in [1..Cardinality(S) -> S] : IsInjective(f)
  <2>1. PICK g \in Bijection(1..Cardinality(S), S) : TRUE
    <3>1. \E n \in Nat : ExistsBijection(1..n, S)
      BY FS_NatBijection
    <3>2. PICK n \in Nat : ExistsBijection(1..n, S)
      BY <3>1
    <3>3. Cardinality(S) = n
      BY <3>2, FS_CountingElements
    <3> QED BY <3>2, <3>3 DEF ExistsBijection
  <2>2. g \in [1..Cardinality(S) -> S] /\ \A x, y \in 1..Cardinality(S) : g[x] = g[y] => x = y
    BY <2>1 DEF Bijection, Injection, Surjection, IsInjective
  <2> QED BY <2>2 DEF IsInjective
<1>2. SetToSeq(S) \in [1..Cardinality(S) -> S]
  BY <1>1 DEF SetToSeq
<1> QED BY <1>2

LEMMA NamingType ==
  ASSUME LinkTypes, NEW m
  PROVE  Naming(m) \in Seq(Connected)
<1>1. PICK T : T = {l \in Links : ends[l] # None /\ m \in {ends[l].source.model, ends[l].target.model}}
  OBVIOUS
<1>2. links \in Seq(Connected)
  BY DEF LinkTypes
<1>3. Kept(links, T) \in Seq(Connected \cap T)
  BY <1>2, KeptType
<1>4. Seq(Connected \cap T) \subseteq Seq(Connected)
  BY SeqMonotonic
<1>5. Naming(m) = Kept(links, T)
  BY <1>1 DEF Naming
<1> QED BY <1>3, <1>4, <1>5

LEMMA AttrsFinite ==
  ASSUME NEW m \in Models
  PROVE  IsFiniteSet(AttrsOf(m)) /\ AttrsOf(m) \subseteq AttrNames
<1>1. IsFiniteSet(Attrs)
  BY StoreAssumption
<1>2. IsFiniteSet({"outputs"})
  BY FS_Singleton
<1> QED BY <1>1, <1>2 DEF AttrsOf, AttrNames

LEMMA FollowDoes ==
  ASSUME LinkTypes, LockTypes, holder = None, NEW a \in Actors, NEW m \in Models, NEW changed \in SUBSET AttrsOf(m),
         FollowChange(a, m, changed), ends' = ends
  PROVE  LockTypes'
<1>1. PICK left \in Seq(Connected) : left = Naming(m)
  BY NamingType
<1>2. IsFiniteSet(changed)
  BY AttrsFinite, FS_Subset
<1>3. PICK c \in Nat : c = Cardinality(changed)
  BY <1>2, FS_CardinalityType
<1>4. PICK q : q = SetToSeq(changed)
  OBVIOUS
<1>5. \A i \in 1..c : q[i] \in AttrNames
  BY <1>2, <1>3, <1>4, InSetToSeq, AttrsFinite
<1>6. todo' = IF left = <<>> THEN <<>> ELSE [i \in 1..c |-> [model |-> m, attr |-> q[i], left |-> left]]
  BY <1>1, <1>3, <1>4 DEF FollowChange
<1>7. \A i \in 1..c : [model |-> m, attr |-> q[i], left |-> left] \in Changes(Connected)
  BY <1>5 DEF Changes
<1>8. todo' \in Seq(Changes(Connected))
  <2>1. <<>> \in Seq(Changes(Connected))
    BY EmptySeq
  <2>2. [i \in 1..c |-> [model |-> m, attr |-> q[i], left |-> left]] \in Seq(Changes(Connected))
    BY <1>7, IsASeq
  <2> QED BY <1>6, <2>1, <2>2
<1>9. Connected' = Connected
  BY DEF Connected
<1>10. /\ holder' = IF todo' = <<>> THEN None ELSE a
       /\ steps' = 0 /\ apply' = apply /\ apply = <<>> /\ LinkStepLimit \in Nat
  BY StoreAssumption DEF FollowChange, LockTypes
<1>11. apply' \in Seq(Connected)
  BY <1>10
<1>12. holder' \in Actors \cup {None} /\ steps' \in 0..LinkStepLimit /\ (holder' = None => apply' = <<>> /\ todo' = <<>>)
  BY <1>10, StoreAssumption
<1> QED BY <1>8, <1>9, <1>11, <1>12 DEF LockTypes

(* One attribute of a model changes.                                       *)
LEMMA OneChange ==
  ASSUME ModelTypes, NEW m \in Models, NEW x \in AttrsOf(m), NEW v \in Vals,
         val' = [val EXCEPT ![m][x] = v], st' = st, msgid' = msgid
  PROVE  ModelTypes' /\ [y \in {x} |-> v] \in Parts(m)
<1>1. val[m] \in [AttrsOf(m) -> Vals]
  BY DEF ModelTypes
<1>2. DOMAIN val' = Models /\ \A k \in Models : val'[k] = IF k = m THEN [val[m] EXCEPT ![x] = v] ELSE val[k]
  BY DEF ModelTypes
<1>3. [val[m] EXCEPT ![x] = v] \in [AttrsOf(m) -> Vals]
  BY <1>1
<1>4. \A k \in Models : val'[k] \in [AttrsOf(k) -> Vals]
  BY <1>2, <1>3 DEF ModelTypes
<1>5. [y \in {x} |-> v] \in [{x} -> Vals] /\ {x} \in SUBSET AttrsOf(m)
  OBVIOUS
<1>6. [y \in {x} |-> v] \in Parts(m)
  BY <1>5 DEF Parts
<1> QED BY <1>2, <1>4, <1>6 DEF ModelTypes

LEMMA CopyDoes ==
  ASSUME CallInv, TimeTypes, ModelTypes, LinkTypes, holder \in Actors, NEW from, NEW to,
         from.model \in Models, from.attr \in AttrsOf(from.model),
         to.model \in Models => to.attr \in AttrsOf(to.model),
         NEW rest \in Seq(Changes(Connected)), CopyAttr(from, to, rest),
         st' = st, msgid' = msgid, checks' = checks, timers' = timers
  PROVE  ModelTypes' /\ CallInv' /\ todo' \in Seq(Changes(Connected))
<1>1. CASE Live(to.model) /\ val[to.model][to.attr] # val[from.model][from.attr]
  <2>1. to.model \in Models /\ to.attr \in AttrsOf(to.model)
    BY <1>1 DEF Live
  <2>2. PICK m \in Models : m = to.model
    BY <2>1
  <2>3. PICK x \in AttrsOf(m) : x = to.attr
    BY <2>1, <2>2
  <2>4. PICK v \in Vals : v = val[from.model][from.attr]
    BY DEF ModelTypes
  <2>5. /\ val' = [val EXCEPT ![m][x] = v]
        /\ QueueForKernel(holder, m, [y \in {x} |-> v])
        /\ todo' = Append(rest, [model |-> m, attr |-> x, left |-> Naming(m)])
    BY <1>1, <2>2, <2>3, <2>4 DEF CopyAttr
  <2>6. ModelTypes' /\ [y \in {x} |-> v] \in Parts(m)
    BY <2>5, OneChange
  <2>7. CallInv'
    BY <2>5, <2>6, QueueDoes
  <2>8. [model |-> m, attr |-> x, left |-> Naming(m)] \in Changes(Connected)
    BY NamingType, AttrsFinite DEF Changes
  <2>9. todo' \in Seq(Changes(Connected))
    BY <2>5, <2>8, AppendProperties
  <2> QED BY <2>6, <2>7, <2>9
<1>2. CASE ~(Live(to.model) /\ val[to.model][to.attr] # val[from.model][from.attr])
  <2>1. todo' = rest /\ UNCHANGED <<val, updVars, idVars, outVars, fx>>
    BY <1>2 DEF CopyAttr
  <2>2. ModelTypes'
    BY <2>1 DEF ModelTypes
  <2>3. CallTypes'
    BY <2>1 DEF CallInv, CallTypes, ExpectTypes, HeldTypes, IdTypes, OutTypes, FxTypes, updVars, idVars, outVars
  <2>4. HoldInv'
    BY <2>1 DEF CallInv, HoldInv, Timed, Fx, updVars
  <2>5. CaptureInv'
    BY <2>1 DEF CallInv, CaptureInv, Ticks, Fx, outVars
  <2> QED BY <2>1, <2>2, <2>3, <2>4, <2>5 DEF CallInv
<1> QED BY <1>1, <1>2

-----------------------------------------------------------------------------
(* Each action keeps the types and what is held back under way.            *)

Core ==
  SettingTypes /\ ModelTypes /\ CallInv /\ CaptureTypes /\ LinkTypes /\ LockTypes /\ TimeTypes /\ KernelTypes

LEMMA CallKept ==
  ASSUME CallInv, UNCHANGED <<updVars, idVars, outVars, fx>>, checks' = checks, timers' = timers
  PROVE  CallInv'
<1>1. CallTypes'
  BY DEF CallInv, CallTypes, ExpectTypes, HeldTypes, IdTypes, OutTypes, FxTypes, updVars, idVars, outVars
<1>2. HoldInv'
  BY DEF CallInv, HoldInv, Timed, Fx, updVars
<1>3. CaptureInv'
  BY DEF CallInv, CaptureInv, Ticks, Fx, outVars
<1> QED BY <1>1, <1>2, <1>3 DEF CallInv

LEMMA LockTypesKept ==
  ASSUME LockTypes, UNCHANGED lockVars, ends' = ends
  PROVE  LockTypes'
<1>1. Connected' = Connected
  BY DEF Connected
<1> QED BY <1>1 DEF LockTypes, lockVars

LEMMA LinkTypesKept ==
  ASSUME LinkTypes, UNCHANGED linkVars
  PROVE  LinkTypes'
<1>1. Connected' = Connected
  BY DEF Connected, linkVars
<1> QED BY <1>1 DEF LinkTypes, linkVars

LEMMA LockKeepsDoes ==
  ASSUME Core, LockKeeps
  PROVE  /\ SettingTypes' /\ CaptureTypes' /\ LinkTypes' /\ TimeTypes' /\ KernelTypes'
         /\ st' = st /\ msgid' = msgid /\ checks' = checks /\ timers' = timers /\ ends' = ends
         /\ Connected' = Connected
<1>1. SettingTypes' /\ CaptureTypes'
  BY DEF Core, LockKeeps, SettingTypes, CaptureTypes, captureVars, kernelVars
<1>2. LinkTypes'
  BY LinkTypesKept DEF Core, LockKeeps
<1>3. TimeTypes'
  BY DEF Core, LockKeeps, TimeTypes, timeVars
<1>4. KernelTypes'
  BY DEF Core, LockKeeps, KernelTypes, kernelVars
<1>5. st' = st /\ msgid' = msgid /\ checks' = checks /\ timers' = timers /\ ends' = ends
  BY DEF LockKeeps, timeVars, linkVars
<1>6. Connected' = Connected
  BY <1>5 DEF Connected
<1> QED BY <1>1, <1>2, <1>3, <1>4, <1>5, <1>6

LEMMA EndAttr ==
  ASSUME NEW e \in Ends, NEW p \in {e.source, e.target}, p.model \in Models
  PROVE  p.attr \in AttrsOf(p.model)
  BY StoreAssumption DEF Models, AttrsOf

LEMMA ConnectedEnds ==
  ASSUME LinkTypes, NEW l \in Connected
  PROVE  ends[l] \in Ends
  BY DEF LinkTypes, Connected

LEMMA ApplyLinkStep ==
  ASSUME Core, ApplyLink
  PROVE  Core'
<1>1. /\ SettingTypes' /\ CaptureTypes' /\ LinkTypes' /\ TimeTypes' /\ KernelTypes'
      /\ st' = st /\ msgid' = msgid /\ checks' = checks /\ timers' = timers /\ ends' = ends
      /\ Connected' = Connected
  BY LockKeepsDoes DEF ApplyLink
<1>2. /\ holder \in Actors /\ apply \in Seq(Connected) /\ apply # <<>> /\ todo = <<>> /\ LinkTypes
      /\ CallInv /\ TimeTypes /\ ModelTypes
  BY DEF Core, LockTypes, ApplyLink
<1>3. PICK l \in Connected : l = Head(apply)
  BY <1>2, HeadTailProperties
<1>4. apply' = Tail(apply) /\ Tail(apply) \in Seq(Connected) /\ steps' = 0
  BY <1>2, HeadTailProperties DEF ApplyLink
<1>5. PICK e \in Ends : e = ends[l]
  BY <1>2, ConnectedEnds
<1>6. ModelTypes' /\ CallInv' /\ todo' \in Seq(Changes(Connected))
  <2>1. CASE Live(e.source.model) /\ Live(e.target.model)
    <3>1. CopyAttr(e.source, e.target, <<>>)
      BY <1>3, <1>5, <2>1 DEF ApplyLink
    <3>2. PICK from : from = e.source
      OBVIOUS
    <3>3. PICK to : to = e.target
      OBVIOUS
    <3>4. from.model \in Models /\ from.attr \in AttrsOf(from.model)
      BY <2>1, <3>2, EndAttr DEF Live
    <3>5. to.model \in Models => to.attr \in AttrsOf(to.model)
      BY <3>3, EndAttr
    <3>6. PICK rest \in Seq(Changes(Connected)) : rest = <<>>
      BY EmptySeq
    <3>7. CopyAttr(from, to, rest)
      BY <3>1, <3>2, <3>3, <3>6
    <3> QED BY <1>1, <1>2, <3>4, <3>5, <3>7, CopyDoes
  <2>2. CASE ~(Live(e.source.model) /\ Live(e.target.model))
    <3>1. UNCHANGED <<todo, val, updVars, idVars, outVars, fx>>
      BY <1>3, <1>5, <2>2 DEF ApplyLink
    <3>2. CallInv'
      BY <1>1, <1>2, <3>1, CallKept
    <3>3. ModelTypes'
      BY <1>1, <1>2, <3>1 DEF ModelTypes
    <3>4. todo' \in Seq(Changes(Connected))
      BY <1>2, <3>1, EmptySeq
    <3> QED BY <3>2, <3>3, <3>4
  <2> QED BY <2>1, <2>2
<1>7. LockTypes'
  <2>1. holder' = IF apply' = <<>> /\ todo' = <<>> THEN None ELSE holder
    BY DEF ApplyLink, Unlocks
  <2>2. holder' \in Actors \cup {None} /\ (holder' = None => apply' = <<>> /\ todo' = <<>>)
    BY <1>2, <2>1, StoreAssumption
  <2>3. steps' \in 0..LinkStepLimit
    BY <1>4, StoreAssumption
  <2>4. apply' \in Seq(Connected)
    BY <1>4
  <2> QED BY <1>1, <1>6, <2>2, <2>3, <2>4 DEF LockTypes
<1> QED BY <1>1, <1>6, <1>7 DEF Core

LEMMA CopiesType ==
  ASSUME LinkTypes, NEW l \in Connected, NEW m \in Models, NEW x
  PROVE  \/ Copies(l, m, x) = <<>>
         \/ \E from, to : /\ Copies(l, m, x) = <<from, to>>
                          /\ from.model \in Models /\ from.attr \in AttrsOf(from.model)
                          /\ to.model \in Models => to.attr \in AttrsOf(to.model)
<1>1. PICK e \in Ends : e = ends[l]
  BY ConnectedEnds
<1>2. PICK end : end = [model |-> m, attr |-> x]
  OBVIOUS
<1>3. end.model \in Models
  BY <1>2
<1>4. CASE e.source = end
  <2>1. Copies(l, m, x) = <<e.source, e.target>>
    BY <1>1, <1>2, <1>4 DEF Copies
  <2>2. e.source.model \in Models
    BY <1>3, <1>4
  <2>3. e.source.attr \in AttrsOf(e.source.model)
    BY <2>2, EndAttr
  <2>4. e.target.model \in Models => e.target.attr \in AttrsOf(e.target.model)
    BY EndAttr
  <2> QED BY <2>1, <2>2, <2>3, <2>4
<1>5. CASE ~(e.source = end) /\ e.both /\ e.target = end
  <2>1. Copies(l, m, x) = <<e.target, e.source>>
    BY <1>1, <1>2, <1>5 DEF Copies
  <2>2. e.target.model \in Models
    BY <1>3, <1>5
  <2>3. e.target.attr \in AttrsOf(e.target.model)
    BY <2>2, EndAttr
  <2>4. e.source.model \in Models => e.source.attr \in AttrsOf(e.source.model)
    BY EndAttr
  <2> QED BY <2>1, <2>2, <2>3, <2>4
<1>6. CASE ~(e.source = end) /\ ~(e.both /\ e.target = end)
  BY <1>1, <1>2, <1>6 DEF Copies
<1> QED BY <1>4, <1>5, <1>6

LEMMA PropagateStep ==
  ASSUME Core, Propagate
  PROVE  Core'
<1>1. /\ SettingTypes' /\ CaptureTypes' /\ LinkTypes' /\ TimeTypes' /\ KernelTypes'
      /\ st' = st /\ msgid' = msgid /\ checks' = checks /\ timers' = timers /\ ends' = ends
      /\ Connected' = Connected
  BY LockKeepsDoes DEF Propagate
<1>2. /\ holder \in Actors /\ todo \in Seq(Changes(Connected)) /\ todo # <<>> /\ LinkTypes
      /\ CallInv /\ TimeTypes /\ ModelTypes /\ steps \in 0..LinkStepLimit /\ apply \in Seq(Connected)
  BY DEF Core, LockTypes, Propagate
<1>3. PICK i \in Changes(Connected) : i = Head(todo)
  BY <1>2, HeadTailProperties
<1>4. i.model \in Models /\ i.attr \in AttrNames /\ i.left \in Seq(Connected)
  BY DEF Changes
<1>5. PICK tail \in Seq(Changes(Connected)) : tail = Tail(todo)
  BY <1>2, HeadTailProperties
<1> DEFINE way == IF i.left = <<>> THEN <<>> ELSE Copies(Head(i.left), i.model, i.attr)
           rest == IF i.left = <<>> THEN tail ELSE <<[i EXCEPT !.left = Tail(@)]>> \o tail
<1>6. rest \in Seq(Changes(Connected))
  <2>1. ASSUME i.left # <<>> PROVE [i EXCEPT !.left = Tail(@)] \in Changes(Connected)
    <3>1. Tail(i.left) \in Seq(Connected)
      BY <1>4, <2>1, HeadTailProperties
    <3> QED BY <3>1 DEF Changes
  <2>2. ASSUME i.left # <<>> PROVE <<[i EXCEPT !.left = Tail(@)]>> \o tail \in Seq(Changes(Connected))
    <3>1. PICK j \in Changes(Connected) : j = [i EXCEPT !.left = Tail(@)]
      BY <2>1, <2>2
    <3>2. <<j>> \in Seq(Changes(Connected))
      OBVIOUS
    <3>3. <<j>> \o tail \in Seq(Changes(Connected))
      BY <3>2, ConcatProperties
    <3> QED BY <3>1, <3>3
  <2> QED BY <2>2
<1>7. \/ way = <<>>
      \/ \E from, to : /\ way = <<from, to>>
                       /\ from.model \in Models /\ from.attr \in AttrsOf(from.model)
                       /\ to.model \in Models => to.attr \in AttrsOf(to.model)
  <2>1. CASE i.left = <<>>
    BY <2>1
  <2>2. CASE i.left # <<>>
    <3>1. PICK l \in Connected : l = Head(i.left)
      BY <1>4, <2>2, HeadTailProperties
    <3> QED BY <1>2, <1>4, <2>2, <3>1, CopiesType
  <2> QED BY <2>1, <2>2
<1>8. /\ way = <<>> => todo' = rest /\ UNCHANGED <<steps, val, updVars, idVars, outVars, fx>>
      /\ way # <<>> /\ AtLimit => todo' = <<>> /\ UNCHANGED <<steps, val, updVars, idVars, outVars, fx>>
      /\ way # <<>> /\ ~AtLimit => steps' = steps + 1 /\ CopyAttr(way[1], way[2], rest)
  BY <1>3, <1>5 DEF Propagate
<1> HIDE DEF way, rest
<1>9. ModelTypes' /\ CallInv' /\ todo' \in Seq(Changes(Connected)) /\ steps' \in 0..LinkStepLimit
  <2>1. ASSUME UNCHANGED <<steps, val, updVars, idVars, outVars, fx>>, todo' \in Seq(Changes(Connected))
        PROVE  ModelTypes' /\ CallInv' /\ todo' \in Seq(Changes(Connected)) /\ steps' \in 0..LinkStepLimit
    <3>1. CallInv'
      BY <1>1, <1>2, <2>1, CallKept
    <3>2. ModelTypes'
      BY <1>1, <1>2, <2>1 DEF ModelTypes
    <3> QED BY <1>2, <2>1, <3>1, <3>2
  <2>2. CASE way = <<>>
    BY <1>6, <1>8, <2>1, <2>2
  <2>3. CASE way # <<>> /\ AtLimit
    <3>1. <<>> \in Seq(Changes(Connected))
      BY EmptySeq
    <3> QED BY <1>8, <2>1, <2>3, <3>1
  <2>4. CASE way # <<>> /\ ~AtLimit
    <3>1. \E from, to : /\ way = <<from, to>>
                        /\ from.model \in Models /\ from.attr \in AttrsOf(from.model)
                        /\ to.model \in Models => to.attr \in AttrsOf(to.model)
      BY <1>7, <2>4
    <3>2. PICK from, to : /\ way = <<from, to>>
                          /\ from.model \in Models /\ from.attr \in AttrsOf(from.model)
                          /\ to.model \in Models => to.attr \in AttrsOf(to.model)
      BY <3>1
    <3>3. PICK r \in Seq(Changes(Connected)) : r = rest
      BY <1>6
    <3>4. CopyAttr(from, to, r)
      BY <1>8, <2>4, <3>2, <3>3
    <3>5. ModelTypes' /\ CallInv' /\ todo' \in Seq(Changes(Connected))
      BY <1>1, <1>2, <3>2, <3>4, CopyDoes
    <3>6. steps' \in 0..LinkStepLimit
      BY <1>2, <1>8, <2>4, StoreAssumption DEF AtLimit
    <3> QED BY <3>5, <3>6
  <2> QED BY <2>2, <2>3, <2>4
<1>10. LockTypes'
  <2>1. (holder' = IF apply' = <<>> /\ todo' = <<>> THEN None ELSE holder) /\ apply' = apply
    BY DEF Propagate, Unlocks
  <2>2. holder' \in Actors \cup {None} /\ (holder' = None => apply' = <<>> /\ todo' = <<>>)
    BY <1>2, <2>1, StoreAssumption
  <2>3. apply' \in Seq(Connected)
    BY <1>2, <2>1
  <2> QED BY <1>1, <1>9, <2>2, <2>3 DEF LockTypes
<1> QED BY <1>1, <1>9, <1>10 DEF Core

-----------------------------------------------------------------------------
(* The event pump.                                                         *)

LEMMA HeadEvent ==
  ASSUME KernelTypes, iopub # <<>>
  PROVE  /\ Head(iopub) \in Events /\ IsEvent(Head(iopub)) /\ Tail(iopub) \in Seq(Events)
         /\ Len(Tail(iopub)) = Len(iopub) - 1 /\ Len(iopub) \in Nat
         /\ \A i \in 1..Len(Tail(iopub)) : Tail(iopub)[i] = iopub[i + 1]
<1>1. iopub \in Seq(Events)
  BY DEF KernelTypes
<1>2. Len(iopub) \in Nat
  BY <1>1, LenProperties
<1>3. /\ Head(iopub) \in Events /\ Tail(iopub) \in Seq(Events) /\ Len(Tail(iopub)) = Len(iopub) - 1
      /\ \A i \in 1..Len(Tail(iopub)) : Tail(iopub)[i] = iopub[i + 1]
  BY <1>1, HeadTailProperties
<1>4. IsEvent(Head(iopub))
  BY <1>3 DEF Events
<1> QED BY <1>2, <1>3, <1>4

(* An event is taken from the pump; nothing but the store and fx moves.    *)
Takes == iopub' = Tail(iopub) /\ UNCHANGED <<gen, timeVars, sender, kgen, kval, kmsg, shell, opened, budget>>

LEMMA TakesDoes ==
  ASSUME Core, iopub # <<>>, Takes
  PROVE  SettingTypes' /\ TimeTypes' /\ KernelTypes' /\ checks' = checks /\ timers' = timers /\ aged' = aged
<1>1. SettingTypes'
  BY DEF Core, Takes, SettingTypes
<1>2. TimeTypes' /\ checks' = checks /\ timers' = timers /\ aged' = aged
  BY DEF Core, Takes, TimeTypes, timeVars
<1>3. KernelTypes'
  <2>1. iopub' \in Seq(Events)
    BY HeadEvent DEF Core, Takes
  <2> QED BY <2>1 DEF Core, Takes, KernelTypes
<1> QED BY <1>1, <1>2, <1>3

LEMMA EventDoes ==
  ASSUME Core, NEW kind, Event(kind)
  PROVE  /\ SettingTypes' /\ TimeTypes' /\ KernelTypes' /\ checks' = checks /\ timers' = timers /\ aged' = aged
         /\ holder = None /\ fx["pump"] = <<>> /\ Head(iopub).kind = kind /\ IsEvent(Head(iopub))
         /\ apply = <<>> /\ todo = <<>>
<1>1. iopub # <<>> /\ Takes /\ holder = None /\ fx["pump"] = <<>> /\ Head(iopub).kind = kind
  BY DEF Event, Takes, Locks
<1>2. IsEvent(Head(iopub))
  BY <1>1, HeadEvent DEF Core
<1> QED BY <1>1, <1>2, TakesDoes DEF Core, LockTypes

LEMMA DropsDoes ==
  ASSUME Core, Drops, checks' = checks, timers' = timers
  PROVE  ModelTypes' /\ CallInv' /\ CaptureTypes' /\ LinkTypes' /\ LockTypes'
<1>1. ModelTypes'
  BY DEF Core, Drops, ModelTypes, modelVars
<1>2. CallInv'
  BY CallKept DEF Core, Drops
<1>3. CaptureTypes'
  BY DEF Core, Drops, CaptureTypes, captureVars
<1>4. LinkTypes' /\ LockTypes'
  BY LinkTypesKept, LockTypesKept DEF Core, Drops, linkVars
<1> QED BY <1>1, <1>2, <1>3, <1>4

LEMMA StaleEventStep ==
  ASSUME Core, StaleEvent
  PROVE  Core'
<1>1. iopub # <<>> /\ Takes /\ Drops
  BY DEF StaleEvent, Takes
<1>2. SettingTypes' /\ TimeTypes' /\ KernelTypes' /\ checks' = checks /\ timers' = timers
  BY <1>1, TakesDoes
<1> QED BY <1>1, <1>2, DropsDoes DEF Core

LEMMA WithoutType ==
  ASSUME CaptureTypes, NEW o
  PROVE  Without(o) \in [Parents -> Seq(Outs)]
<1>1. ASSUME NEW p \in Parents PROVE Kept(capture[p], Outs \ {o}) \in Seq(Outs)
  <2>1. PICK T : T = Outs \ {o}
    OBVIOUS
  <2>2. PICK s \in Seq(Outs) : s = capture[p]
    BY DEF CaptureTypes
  <2>3. Kept(s, T) \in Seq(Outs \cap T)
    BY KeptType
  <2>4. Seq(Outs \cap T) \subseteq Seq(Outs)
    BY SeqMonotonic
  <2> QED BY <2>1, <2>2, <2>3, <2>4
<1> QED BY <1>1 DEF Without

LEMMA DropModelDoes ==
  ASSUME CallInv, CaptureTypes, NEW m \in Models, DropModel(m), checks' = checks, timers' = timers
  PROVE  CallInv' /\ clearing' \in SUBSET Outs
<1>1. /\ waiting' = waiting \ {m} /\ infl' = {id \in infl : id[1] # m}
      /\ expect' = [expect EXCEPT ![m] = [x \in AttrsOf(m) |-> 0]]
      /\ inflight' = [inflight EXCEPT ![m] = 0] /\ pending' = [pending EXCEPT ![m] = Nothing]
      /\ clearing' = clearing \ {m} /\ armed' = armed \ {m} /\ recent' = recent \ {m}
      /\ flight' = [o \in Outs |-> IF o = m THEN 0 ELSE flight[o]]
      /\ ours' = ours /\ next' = next /\ fx' = fx
  BY DEF DropModel
<1>2. IdTypes' /\ OutTypes' /\ FxTypes'
  BY <1>1 DEF CallInv, CallTypes, IdTypes, OutTypes, FxTypes
<1>3. ExpectTypes'
  BY <1>1 DEF CallInv, CallTypes, ExpectTypes
<1>4. FxKept
  BY <1>1 DEF FxKept, Fx
<1>5. HeldTypes' /\ HoldInv'
  <2>1. HoldInv /\ HeldTypes
    BY DEF CallInv, CallTypes
  <2>2. DOMAIN pending' = Models /\ \A k \in Models : pending'[k] = IF k = m THEN Nothing ELSE pending[k]
    BY <1>1, <2>1 DEF HeldTypes
  <2>3. \A k \in Models : k # m /\ <<k, inflight[k]>> \in checks => <<k, inflight[k]>> \in checks'
    OBVIOUS
  <2> QED BY <1>1, <1>4, <2>1, <2>2, <2>3, HoldDrop
<1>6. CaptureInv'
  <2>1. ASSUME NEW o \in armed' PROVE Ticks(o)'
    <3>1. Ticks(o)
      BY <1>1, <2>1 DEF CallInv, CaptureInv
    <3> QED BY <1>1, <3>1 DEF Ticks, Fx
  <2>2. ASSUME NEW o \in waiting' PROVE flight'[o] # 0 \/ o \in armed'
    <3>1. o \in Outs /\ o # m /\ o \in waiting
      BY <1>1, <2>2 DEF CallInv, CallTypes, OutTypes
    <3> QED BY <1>1, <3>1 DEF CallInv, CaptureInv
  <2> QED BY <2>1, <2>2 DEF CaptureInv
<1>7. clearing' \in SUBSET Outs
  BY <1>1 DEF CaptureTypes
<1> QED BY <1>2, <1>3, <1>5, <1>6, <1>7 DEF CallInv, CallTypes

LEMMA BlankType ==
  ASSUME NEW m \in Models
  PROVE  Blank(m) \in [AttrsOf(m) -> Vals]
  BY DEF Blank, Vals

LEMMA CommOpenStep ==
  ASSUME Core, CommOpen
  PROVE  Core'
<1>1. Event("open") /\ CaptureTypes /\ CallInv
  BY DEF CommOpen, Core
<1>2. /\ SettingTypes' /\ TimeTypes' /\ KernelTypes' /\ checks' = checks /\ timers' = timers
      /\ Head(iopub).kind = "open" /\ IsEvent(Head(iopub)) /\ apply = <<>> /\ todo = <<>>
  BY <1>1, EventDoes
<1>3. PICK e : e = Head(iopub)
  OBVIOUS
<1>4. e.model \in Models /\ e.upd \in [AttrsOf(e.model) -> Vals]
  BY <1>2, <1>3 DEF IsEvent
<1>5. PICK m \in Models : m = e.model
  BY <1>4
<1>6. /\ DropModel(m)
      /\ st' = [st EXCEPT ![m] = "live"] /\ val' = [val EXCEPT ![m] = e.upd]
      /\ msgid' = [o \in Outs |-> IF o = m THEN None ELSE msgid[o]]
      /\ capture' = Without(m)
      /\ apply' = Naming(m) /\ holder' = IF apply' = <<>> THEN None ELSE "pump"
      /\ UNCHANGED <<todo, steps, linkVars>>
  BY <1>3, <1>5 DEF CommOpen
<1>7. CallInv' /\ clearing' \in SUBSET Outs
  BY <1>1, <1>2, <1>6, DropModelDoes
<1>8. ModelTypes'
  BY <1>4, <1>5, <1>6 DEF Core, ModelTypes
<1>9. CaptureTypes'
  BY <1>1, <1>6, <1>7, WithoutType DEF CaptureTypes
<1>10. LinkTypes' /\ Connected' = Connected
  BY <1>6, LinkTypesKept DEF Core, Connected, linkVars
<1>11. Naming(m) \in Seq(Connected)
  BY NamingType DEF Core
<1>12. LockTypes'
  BY <1>2, <1>6, <1>10, <1>11, StoreAssumption DEF Core, LockTypes, Actors
<1> QED BY <1>2, <1>7, <1>8, <1>9, <1>10, <1>12 DEF Core

LEMMA CommCloseStep ==
  ASSUME Core, CommClose
  PROVE  Core'
<1>1. Event("close") /\ CaptureTypes /\ CallInv
  BY DEF CommClose, Core
<1>2. /\ SettingTypes' /\ TimeTypes' /\ KernelTypes' /\ checks' = checks /\ timers' = timers
      /\ Head(iopub).kind = "close" /\ IsEvent(Head(iopub)) /\ apply = <<>> /\ todo = <<>>
  BY <1>1, EventDoes
<1>3. Head(iopub).model \in Models
  BY <1>2 DEF IsEvent
<1>4. PICK m \in Models : m = Head(iopub).model
  BY <1>3
<1>5. CASE st[m] = "none"
  <2>1. Drops
    BY <1>4, <1>5 DEF CommClose
  <2> QED BY <1>2, <2>1, DropsDoes DEF Core
<1>6. CASE st[m] # "none"
  <2>1. /\ DropModel(m) /\ st' = [st EXCEPT ![m] = "none"] /\ capture' = Without(m)
        /\ val' = [val EXCEPT ![m] = Blank(m)]
        /\ msgid' = [o \in Outs |-> IF o = m THEN None ELSE msgid[o]]
        /\ UNCHANGED <<linkVars, lockVars>>
    BY <1>4, <1>6 DEF CommClose
  <2>2. CallInv' /\ clearing' \in SUBSET Outs
    BY <1>1, <1>2, <2>1, DropModelDoes
  <2>3. ModelTypes'
    BY <2>1, BlankType DEF Core, ModelTypes
  <2>4. CaptureTypes'
    BY <1>1, <2>1, <2>2, WithoutType DEF CaptureTypes
  <2>5. LinkTypes' /\ LockTypes'
    BY <2>1, LinkTypesKept, LockTypesKept DEF Core, linkVars
  <2> QED BY <1>2, <2>2, <2>3, <2>4, <2>5 DEF Core
<1> QED BY <1>5, <1>6

LEMMA KeptLinks ==
  ASSUME LinkTypes, NEW l
  PROVE  Kept(links, Links \ {l}) \in Seq(Connected \ {l})
<1>1. PICK T : T = Links \ {l}
  OBVIOUS
<1>2. PICK s \in Seq(Connected) : s = links
  BY DEF LinkTypes
<1>3. Kept(s, T) \in Seq(Connected \cap T)
  BY KeptType
<1>4. Connected \cap T = Connected \ {l}
  BY <1>1 DEF Connected
<1> QED BY <1>1, <1>2, <1>3, <1>4

LEMMA LinkOpenStep ==
  ASSUME Core, LinkOpen
  PROVE  Core'
<1>1. /\ SettingTypes' /\ TimeTypes' /\ KernelTypes' /\ checks' = checks /\ timers' = timers
      /\ Head(iopub).kind = "link" /\ IsEvent(Head(iopub)) /\ apply = <<>> /\ todo = <<>>
  BY EventDoes DEF LinkOpen
<1>2. PICK l \in Links : l = Head(iopub).model
  BY <1>1 DEF IsEvent
<1>3. PICK e \in Ends : e = Head(iopub).upd
  BY <1>1 DEF IsEvent
<1>4. /\ ends' = [ends EXCEPT ![l] = e] /\ links' = Append(Kept(links, Links \ {l}), l)
      /\ apply' = <<l>> /\ holder' = "pump"
      /\ UNCHANGED <<todo, steps, modelVars, updVars, idVars, outVars, captureVars, fx>>
  BY <1>2, <1>3 DEF LinkOpen
<1>5. ends \in [Links -> Ends \cup {None}] /\ None \notin Ends
  BY StoreAssumption DEF Core, LinkTypes
<1>6. l \in Connected' /\ Connected \ {l} \subseteq Connected'
  BY <1>4, <1>5 DEF Connected
<1>7. LinkTypes'
  <2>1. Kept(links, Links \ {l}) \in Seq(Connected \ {l})
    BY KeptLinks DEF Core
  <2>2. PICK C : C = Connected'
    OBVIOUS
  <2>3. Seq(Connected \ {l}) \subseteq Seq(C)
    BY <1>6, <2>2, SeqMonotonic
  <2>4. Append(Kept(links, Links \ {l}), l) \in Seq(C)
    BY <1>6, <2>1, <2>2, <2>3, AppendProperties
  <2>5. links' \in Seq(Connected')
    BY <1>4, <2>2, <2>4
  <2> QED BY <1>4, <1>5, <2>5 DEF LinkTypes
<1>8. LockTypes'
  <2>1. <<l>> \in Seq(Connected')
    BY <1>6
  <2>2. todo' = <<>> /\ <<>> \in Seq(Changes(Connected'))
    BY <1>1, <1>4, EmptySeq
  <2>3. holder' \in Actors \cup {None} /\ holder' # None /\ steps' \in 0..LinkStepLimit
    BY <1>4, StoreAssumption DEF Core, LockTypes, Actors
  <2> QED BY <1>4, <2>1, <2>2, <2>3 DEF LockTypes, Changes
<1>9. CallInv'
  BY <1>1, <1>4, CallKept DEF Core
<1>10. ModelTypes' /\ CaptureTypes'
  BY <1>4 DEF Core, ModelTypes, CaptureTypes, modelVars, captureVars
<1> QED BY <1>1, <1>7, <1>8, <1>9, <1>10 DEF Core

LEMMA LinkCloseStep ==
  ASSUME Core, LinkClose
  PROVE  Core'
<1>1. /\ SettingTypes' /\ TimeTypes' /\ KernelTypes' /\ checks' = checks /\ timers' = timers
      /\ Head(iopub).kind = "unlink" /\ IsEvent(Head(iopub)) /\ apply = <<>> /\ todo = <<>>
  BY EventDoes DEF LinkClose
<1>2. PICK l \in Links : l = Head(iopub).model
  BY <1>1 DEF IsEvent
<1>3. /\ ends' = [ends EXCEPT ![l] = None] /\ links' = Kept(links, Links \ {l})
      /\ UNCHANGED <<modelVars, updVars, idVars, outVars, captureVars, lockVars, fx>>
  BY <1>2 DEF LinkClose
<1>4. ends \in [Links -> Ends \cup {None}]
  BY DEF Core, LinkTypes
<1>5. Connected' = Connected \ {l}
  BY <1>3, <1>4 DEF Connected
<1>6. LinkTypes'
  <2>1. Kept(links, Links \ {l}) \in Seq(Connected \ {l})
    BY KeptLinks DEF Core
  <2>2. links' \in Seq(Connected')
    BY <1>3, <1>5, <2>1
  <2> QED BY <1>3, <1>4, <2>2 DEF LinkTypes
<1>7. LockTypes'
  <2>1. apply' = <<>> /\ todo' = <<>> /\ holder' = holder /\ steps' = steps
    BY <1>1, <1>3 DEF lockVars
  <2>2. apply' \in Seq(Connected') /\ todo' \in Seq(Changes(Connected'))
    BY <2>1, EmptySeq
  <2> QED BY <2>1, <2>2 DEF Core, LockTypes, Changes
<1>8. CallInv'
  BY <1>1, <1>3, CallKept DEF Core
<1>9. ModelTypes' /\ CaptureTypes'
  BY <1>3 DEF Core, ModelTypes, CaptureTypes, modelVars, captureVars
<1> QED BY <1>1, <1>6, <1>7, <1>8, <1>9 DEF Core

LEMMA MergeFull ==
  ASSUME NEW m, NEW u \in Parts(m), NEW w \in [AttrsOf(m) -> Vals]
  PROVE  Merge(u, w) \in [AttrsOf(m) -> Vals] /\ DOMAIN u \in SUBSET AttrsOf(m)
<1>1. PICK s \in SUBSET AttrsOf(m) : u \in [s -> Vals]
  BY DEF Parts
<1>2. s \cup AttrsOf(m) = AttrsOf(m)
  BY <1>1
<1>3. Merge(u, w) \in [s \cup AttrsOf(m) -> Vals]
  BY <1>1 DEF Merge
<1> QED BY <1>1, <1>2, <1>3

LEMMA ModelChange ==
  ASSUME ModelTypes, NEW m \in Models, NEW w \in [AttrsOf(m) -> Vals], val' = [val EXCEPT ![m] = w],
         st' = st, msgid' = msgid
  PROVE  ModelTypes'
  BY DEF ModelTypes

(* A call that queues nothing and changes no update in flight.             *)
LEMMA NoneCall ==
  ASSUME CallInv, NEW b \in Bases, EmitNone(b), b.flight = flight, b.armed = armed,
         inflight' = inflight, pending' = pending, checks' = checks, timers' = timers
  PROVE  CallInv'
<1> USE DEF CallInv, CallTypes
<1>1. NoneResult(b)
  BY EmitNoneDoes
<1>2. FxKept /\ NextTypes
  BY <1>1 DEF NoneResult
<1>3. CaptureInv'
  BY <1>1, CaptureKept DEF NoneResult
<1>4. HoldInv'
  BY <1>2, HoldKept
<1>5. HeldTypes'
  BY DEF HeldTypes
<1> QED BY <1>2, <1>3, <1>4, <1>5 DEF NextTypes

(* One that sends the captures of o, or makes them wait.                   *)
LEMMA PacedCall ==
  ASSUME CallInv, ModelTypes', NEW a \in Actors, NEW b \in Bases, NEW o \in Outs, PacedFlush(a, b, o),
         b.armed \subseteq armed, armed \ {o} \subseteq b.armed,
         \A p \in b.armed : timers[p] > 0 => timers'[p] > 0,
         \A p \in Outs : p # o => b.flight[p] = flight[p],
         inflight' = inflight, pending' = pending, checks' = checks
  PROVE  CallInv'
<1> USE DEF CallInv, CallTypes
<1>1. PacedResult(b, o)
  BY PacedFlushDoes
<1>2. FxKept /\ NextTypes
  BY <1>1 DEF PacedResult
<1>3. CaptureInv'
  <2>1. OutTypes'
    BY <1>2 DEF NextTypes
  <2> QED BY <1>1, <2>1, CapturePaced
<1>4. HoldInv'
  BY <1>2, HoldKept
<1>5. HeldTypes'
  BY DEF HeldTypes
<1> QED BY <1>2, <1>3, <1>4, <1>5 DEF NextTypes

LEMMA KernelUpdateStep ==
  ASSUME Core, KernelUpdate
  PROVE  Core'
<1>1. /\ SettingTypes' /\ TimeTypes' /\ KernelTypes' /\ checks' = checks /\ timers' = timers
      /\ Head(iopub).kind = "update" /\ IsEvent(Head(iopub)) /\ holder = None
  BY EventDoes DEF KernelUpdate
<1>2. PICK e : e = Head(iopub)
  OBVIOUS
<1>3. e.model \in Models /\ e.upd \in Parts(e.model)
  BY <1>1, <1>2 DEF IsEvent
<1>4. PICK m \in Models : m = e.model
  BY <1>3
<1>5. PICK u \in Parts(m) : u = e.upd
  BY <1>3, <1>4
<1>6. CASE ~Live(m)
  <2>1. Drops
    BY <1>2, <1>4, <1>6 DEF KernelUpdate
  <2> QED BY <1>1, <2>1, DropsDoes DEF Core
<1>7. CASE Live(m)
  <2>1. /\ val' = [val EXCEPT ![m] = Merge(u, val[m])]
        /\ FollowChange("pump", m, DOMAIN u)
        /\ UNCHANGED <<st, msgid, updVars, idVars, outVars, captureVars, linkVars, fx>>
    BY <1>2, <1>4, <1>5, <1>7 DEF KernelUpdate
  <2>2. Merge(u, val[m]) \in [AttrsOf(m) -> Vals] /\ DOMAIN u \in SUBSET AttrsOf(m)
    BY MergeFull DEF Core, ModelTypes
  <2>3. ModelTypes'
    BY <2>1, <2>2, ModelChange DEF Core
  <2>4. LockTypes'
    <3>1. ends' = ends /\ "pump" \in Actors
      BY <2>1 DEF linkVars, Actors
    <3> QED BY <1>1, <2>1, <2>2, <3>1, FollowDoes DEF Core
  <2>5. CallInv'
    BY <1>1, <2>1, CallKept DEF Core
  <2>6. CaptureTypes' /\ LinkTypes'
    BY <2>1, LinkTypesKept DEF Core, CaptureTypes, captureVars
  <2> QED BY <1>1, <2>3, <2>4, <2>5, <2>6 DEF Core
<1> QED BY <1>6, <1>7

LEMMA CaptureUpdateStep ==
  ASSUME Core, CaptureUpdate
  PROVE  Core'
<1>1. /\ SettingTypes' /\ TimeTypes' /\ KernelTypes' /\ checks' = checks /\ timers' = timers
      /\ Head(iopub).kind = "capture" /\ IsEvent(Head(iopub)) /\ holder = None
  BY EventDoes DEF CaptureUpdate
<1>2. PICK o \in Outs : o = Head(iopub).model
  BY <1>1 DEF IsEvent
<1>3. PICK p \in Parents \cup {None} : p = Head(iopub).parent
  BY <1>1 DEF IsEvent
<1>4. CASE ~Live(o) \/ msgid[o] = p
  <2>1. Drops
    BY <1>2, <1>3, <1>4 DEF CaptureUpdate
  <2> QED BY <1>1, <2>1, DropsDoes DEF Core
<1>5. CASE ~(~Live(o) \/ msgid[o] = p)
  <2>1. /\ msgid' = [msgid EXCEPT ![o] = p]
        /\ capture' = IF p = None THEN Without(o) ELSE [Without(o) EXCEPT ![p] = Append(@, o)]
        /\ val' = val
        /\ PacedFlush("pump", Base, o) \/ EmitNone(Base)
        /\ UNCHANGED <<st, inflight, pending, clearing, linkVars, lockVars>>
    BY <1>2, <1>3, <1>5 DEF CaptureUpdate
  <2>2. ModelTypes'
    BY <2>1 DEF Core, ModelTypes
  <2>3. PICK b \in Bases : b = Base /\ b.flight = flight /\ b.armed = armed
    BY BaseIs DEF Core, CallInv, CallTypes
  <2>4. CallInv'
    <3>1. CASE PacedFlush("pump", b, o)
      BY <1>1, <2>1, <2>2, <2>3, <3>1, PacedCall DEF Core, Actors
    <3>2. CASE EmitNone(b)
      BY <1>1, <2>1, <2>3, <3>2, NoneCall DEF Core
    <3> QED BY <2>1, <2>3, <3>1, <3>2
  <2>5. CaptureTypes'
    <3>1. PICK w \in [Parents -> Seq(Outs)] : w = Without(o)
      BY WithoutType DEF Core
    <3>2. p # None => Append(w[p], o) \in Seq(Outs)
      BY <3>1, AppendProperties
    <3>3. capture' = IF p = None THEN w ELSE [w EXCEPT ![p] = Append(w[p], o)]
      BY <2>1, <3>1
    <3>4. capture' \in [Parents -> Seq(Outs)]
      BY <3>2, <3>3
    <3> QED BY <2>1, <3>4 DEF Core, CaptureTypes
  <2>6. LinkTypes' /\ LockTypes'
    BY <2>1, LinkTypesKept, LockTypesKept DEF Core, linkVars
  <2> QED BY <1>1, <2>2, <2>4, <2>5, <2>6 DEF Core
<1> QED BY <1>4, <1>5

LEMMA KernelEchoStep ==
  ASSUME Core, KernelEcho
  PROVE  Core'
<1>1. /\ SettingTypes' /\ TimeTypes' /\ KernelTypes' /\ checks' = checks /\ timers' = timers
      /\ Head(iopub).kind = "echo" /\ IsEvent(Head(iopub)) /\ holder = None
  BY EventDoes DEF KernelEcho
<1>2. PICK e : e = Head(iopub)
  OBVIOUS
<1>3. e.model \in Models /\ e.upd \in Parts(e.model) /\ e.n \in Nat
  BY <1>1, <1>2 DEF IsEvent
<1>4. PICK m \in Models : m = e.model
  BY <1>3
<1>5. PICK u \in Parts(m) : u = e.upd
  BY <1>3, <1>4
<1>6. CASE ~Live(m)
  <2>1. Drops
    BY <1>2, <1>4, <1>6 DEF KernelEcho
  <2> QED BY <1>1, <2>1, DropsDoes DEF Core
<1>7. CASE Live(m)
  <2>1. PICK applied : applied = {x \in DOMAIN u : EchoApplies(e, x) /\ val[m][x] # u[x]}
    OBVIOUS
  <2>2. /\ expect' = [expect EXCEPT ![m] = [x \in AttrsOf(m) |->
                IF x \in DOMAIN u /\ EchoMatches(e, x) THEN 0 ELSE expect[m][x]]]
        /\ val' = [val EXCEPT ![m] = [x \in AttrsOf(m) |-> IF x \in applied THEN u[x] ELSE val[m][x]]]
        /\ IF applied = {} THEN UNCHANGED lockVars ELSE FollowChange("pump", m, applied)
        /\ UNCHANGED <<st, msgid, inflight, pending, idVars, outVars, captureVars, linkVars, fx>>
    BY <1>2, <1>4, <1>5, <1>7, <2>1 DEF KernelEcho
  <2>3. PICK s \in SUBSET AttrsOf(m) : u \in [s -> Vals]
    BY DEF Parts
  <2>4. applied \in SUBSET AttrsOf(m) /\ applied \subseteq s
    BY <2>1, <2>3
  <2>5. val[m] \in [AttrsOf(m) -> Vals]
    BY DEF Core, ModelTypes
  <2>6. [x \in AttrsOf(m) |-> IF x \in applied THEN u[x] ELSE val[m][x]] \in [AttrsOf(m) -> Vals]
    BY <2>3, <2>4, <2>5
  <2>7. ModelTypes'
    BY <2>2, <2>6, ModelChange DEF Core
  <2>8. ExpectTypes'
    BY <2>2 DEF Core, CallInv, CallTypes, ExpectTypes
  <2>9. HeldTypes' /\ IdTypes' /\ OutTypes' /\ FxTypes'
    BY <2>2 DEF Core, CallInv, CallTypes, HeldTypes, IdTypes, OutTypes, FxTypes, idVars, outVars
  <2>10. HoldInv' /\ CaptureInv'
    BY <1>1, <2>2 DEF Core, CallInv, HoldInv, CaptureInv, Timed, Ticks, Fx, outVars
  <2>11. LockTypes'
    <3>1. ends' = ends /\ "pump" \in Actors
      BY <2>2 DEF linkVars, Actors
    <3>2. CASE applied = {}
      BY <2>2, <3>1, <3>2, LockTypesKept DEF Core
    <3>3. CASE applied # {}
      BY <1>1, <2>2, <2>4, <3>1, <3>3, FollowDoes DEF Core
    <3> QED BY <3>2, <3>3
  <2>12. CaptureTypes' /\ LinkTypes'
    BY <2>2, LinkTypesKept DEF Core, CaptureTypes, captureVars
  <2> QED BY <1>1, <2>7, <2>8, <2>9, <2>10, <2>11, <2>12 DEF Core, CallInv, CallTypes
<1> QED BY <1>6, <1>7

LEMMA IdleStep ==
  ASSUME Core, Idle
  PROVE  Core'
<1>1. /\ SettingTypes' /\ TimeTypes' /\ KernelTypes' /\ checks' = checks /\ timers' = timers
      /\ Head(iopub).kind = "idle" /\ IsEvent(Head(iopub)) /\ holder = None
  BY EventDoes DEF Idle
<1>2. PICK n \in Nat : n = Head(iopub).n
  BY <1>1 DEF IsEvent
<1>3. PICK m \in Models : m = Head(iopub).model
  BY <1>1 DEF IsEvent
<1>4. PICK d : d = Base
  OBVIOUS
<1>5. d \in Bases /\ d.flight = flight /\ d.armed = armed
  BY <1>4, BaseIs DEF Core, CallInv, CallTypes
<1>6. PICK b : b = [d EXCEPT !.ours = @ \ {<<m, n>>}]
  OBVIOUS
<1>7. b \in Bases /\ b.flight = flight /\ b.armed = armed
  BY <1>5, <1>6 DEF Bases
<1>8. val' = val /\ UNCHANGED <<st, msgid, captureVars, linkVars, lockVars>>
  BY DEF Idle
<1>9. ModelTypes' /\ CaptureTypes' /\ LinkTypes' /\ LockTypes'
  BY <1>8, LinkTypesKept, LockTypesKept DEF Core, ModelTypes, CaptureTypes, captureVars, linkVars
<1>10. CallInv'
  <2>1. CASE <<m, n>> \notin infl
    <3>1. EmitNone(b) /\ UNCHANGED <<inflight, pending>>
      BY <1>2, <1>3, <1>4, <1>6, <2>1 DEF Idle
    <3> QED BY <1>1, <1>7, <3>1, NoneCall DEF Core
  <2>2. CASE <<m, n>> \in infl /\ m \in Outs /\ flight[m] = n
    <3>1. PICK c : c = [b EXCEPT !.infl = @ \ {<<m, n>>}, !.flight[m] = 0]
      OBVIOUS
    <3>2. PacedFlush("pump", c, m) /\ UNCHANGED <<inflight, pending>>
      BY <1>2, <1>3, <1>4, <1>6, <2>2, <3>1 DEF Idle
    <3>3. c \in Bases /\ c.armed = armed /\ \A p \in Outs : p # m => c.flight[p] = flight[p]
      BY <1>7, <2>2, <3>1 DEF Bases
    <3> QED BY <1>1, <1>9, <2>2, <3>2, <3>3, PacedCall DEF Core, Actors
  <2>3. CASE <<m, n>> \in infl /\ ~(m \in Outs /\ flight[m] = n)
    <3>1. Release("pump", b, m, n)
      BY <1>2, <1>3, <1>4, <1>6, <2>3 DEF Idle
    <3>2. "pump" \in Actors /\ CallInv
      BY DEF Core, Actors
    <3>3. \A k \in Models : \A j \in Nat : ~(k = m /\ j = n) /\ <<k, j>> \in checks => <<k, j>> \in checks'
      BY <1>1
    <3> QED BY <1>1, <1>7, <1>9, <3>1, <3>2, <3>3, ReleaseDoes
  <2> QED BY <2>1, <2>2, <2>3
<1> QED BY <1>1, <1>9, <1>10 DEF Core

LEMMA CapturedDoes ==
  ASSUME Core, NEW S \in SUBSET Outs, Captured(S), fx["pump"] = <<>>, checks' = checks, timers' = timers
  PROVE  CallInv' /\ LinkTypes' /\ LockTypes' /\ st' = st /\ msgid' = msgid /\ capture' = capture
<1>1. PICK arm : arm = {o \in S : o \notin armed /\ flight[o] = 0}
  OBVIOUS
<1>2. arm \in SUBSET Outs
  BY <1>1
<1>3. PICK k : k = IF arm = {} THEN <<>> ELSE <<FlushLater(arm)>>
  OBVIOUS
<1>4. k \in Seq(Effects) /\ (arm # {} => Len(k) = 1 /\ k[1] = FlushLater(arm))
  <2>1. FlushLater(arm) \in Effects
    BY <1>2, EffectTypes
  <2> QED BY <1>3, <2>1
<1>5. /\ waiting' = waiting \cup S /\ armed' = armed \cup arm
      /\ fx' = [fx EXCEPT !["pump"] = k]
      /\ UNCHANGED <<st, msgid, updVars, idVars, flight, recent, capture, linkVars, lockVars>>
  BY <1>1, <1>3 DEF Captured
<1>6. Cat(fx["pump"], k) = k
  BY <1>4, ConcatEmptySeq DEF Cat
<1>7. fx' = [fx EXCEPT !["pump"] = Cat(@, k)]
  BY <1>5, <1>6
<1>8. FxTypes' /\ (\A e \in Effects : Fx(e) => Fx(e)') /\ \A i \in 1..Len(k) : Fx(k[i])'
  BY <1>4, <1>7, FxGrows DEF Core, CallInv, CallTypes, Actors
<1>9. FxKept
  BY <1>8 DEF FxKept
<1>10. arm # {} => Fx(FlushLater(arm))'
  <2>1. PICK e : e = FlushLater(arm)
    OBVIOUS
  <2>2. arm # {} => Fx(e)'
    <3>1. arm # {} => 1 \in 1..Len(k) /\ e = k[1]
      BY <1>4, <2>1
    <3> QED BY <1>8, <3>1
  <2> QED BY <2>1, <2>2
<1>11. CaptureInv'
  <2>1. ASSUME NEW p \in armed' PROVE Ticks(p)'
    <3>1. CASE p \in arm
      BY <1>2, <1>10, <3>1 DEF Ticks
    <3>2. CASE p \notin arm
      <4>1. p \in Outs /\ Ticks(p)
        BY <1>5, <2>1, <3>2 DEF Core, CallInv, CallTypes, OutTypes, CaptureInv
      <4> QED BY <1>9, <4>1, TicksKept
    <3> QED BY <3>1, <3>2
  <2>2. ASSUME NEW p \in waiting' PROVE flight'[p] # 0 \/ p \in armed'
    BY <1>1, <1>5, <2>2 DEF Core, CallInv, CaptureInv
  <2> QED BY <2>1, <2>2 DEF CaptureInv
<1>12. HoldInv'
  BY <1>5, <1>9, HoldKept DEF Core, CallInv, CallTypes, updVars
<1>13. ExpectTypes' /\ HeldTypes' /\ IdTypes' /\ OutTypes'
  BY <1>2, <1>5 DEF Core, CallInv, CallTypes, ExpectTypes, HeldTypes, IdTypes, OutTypes, updVars, idVars
<1>14. LinkTypes' /\ LockTypes'
  BY <1>5, LinkTypesKept, LockTypesKept DEF Core, linkVars
<1> QED BY <1>5, <1>8, <1>11, <1>12, <1>13, <1>14 DEF CallInv, CallTypes

LEMMA RouteOutputStep ==
  ASSUME Core, RouteOutput
  PROVE  Core'
<1>1. /\ SettingTypes' /\ TimeTypes' /\ KernelTypes' /\ checks' = checks /\ timers' = timers
      /\ Head(iopub).kind = "stream" /\ IsEvent(Head(iopub)) /\ fx["pump"] = <<>>
  BY EventDoes DEF RouteOutput
<1>2. PICK i \in Pieces : i = Head(iopub).n
  BY <1>1 DEF IsEvent
<1>3. PICK S \in SUBSET Outs : S = Captor(Head(iopub).parent)
  BY DEF Captor
<1>4. /\ Captured(S) /\ clearing' = clearing \ S
      /\ val' = [m \in Models |-> IF m \in S THEN [x \in {"outputs"} |-> Printed(m, i)] ELSE val[m]]
  BY <1>2, <1>3 DEF RouteOutput
<1>5. CallInv' /\ LinkTypes' /\ LockTypes' /\ st' = st /\ msgid' = msgid /\ capture' = capture
  BY <1>1, <1>4, CapturedDoes
<1>6. ASSUME NEW m \in S PROVE [x \in {"outputs"} |-> Printed(m, i)] \in [AttrsOf(m) -> Vals]
  <2>1. m \in Models /\ AttrsOf(m) = {"outputs"}
    BY DEF Models, AttrsOf
  <2>2. val[m]["outputs"] \in Vals
    BY <2>1 DEF Core, ModelTypes
  <2>3. Printed(m, i) \in Vals
    BY <2>2 DEF Printed, Vals
  <2> QED BY <2>1, <2>3
<1>7. ModelTypes'
  BY <1>4, <1>5, <1>6 DEF Core, ModelTypes
<1>8. CaptureTypes'
  BY <1>4, <1>5 DEF Core, CaptureTypes
<1> QED BY <1>1, <1>5, <1>7, <1>8 DEF Core

LEMMA RouteClearStep ==
  ASSUME Core, RouteClear
  PROVE  Core'
<1>1. /\ SettingTypes' /\ TimeTypes' /\ KernelTypes' /\ checks' = checks /\ timers' = timers
      /\ Head(iopub).kind = "clear" /\ IsEvent(Head(iopub)) /\ fx["pump"] = <<>>
  BY EventDoes DEF RouteClear
<1>2. PICK wait \in BOOLEAN : wait = Head(iopub).upd
  BY <1>1 DEF IsEvent
<1>3. PICK S \in SUBSET Outs : S = Captor(Head(iopub).parent)
  BY DEF Captor
<1>4. /\ Captured(S) /\ clearing' = IF wait THEN clearing \cup S ELSE clearing \ S
      /\ val' = [m \in Models |-> IF m \in S /\ ~wait THEN [x \in {"outputs"} |-> {}] ELSE val[m]]
  BY <1>2, <1>3 DEF RouteClear
<1>5. CallInv' /\ LinkTypes' /\ LockTypes' /\ st' = st /\ msgid' = msgid /\ capture' = capture
  BY <1>1, <1>4, CapturedDoes
<1>6. ASSUME NEW m \in S PROVE [x \in {"outputs"} |-> {}] \in [AttrsOf(m) -> Vals]
  <2>1. AttrsOf(m) = {"outputs"} /\ {} \in Vals
    BY DEF Models, AttrsOf, Vals
  <2> QED BY <2>1
<1>7. ModelTypes'
  BY <1>4, <1>5, <1>6 DEF Core, ModelTypes
<1>8. CaptureTypes'
  BY <1>4, <1>5 DEF Core, CaptureTypes
<1> QED BY <1>1, <1>5, <1>7, <1>8 DEF Core

LEMMA UpdateDisplayStep ==
  ASSUME Core, UpdateDisplay
  PROVE  Core'
<1>1. /\ SettingTypes' /\ TimeTypes' /\ KernelTypes' /\ checks' = checks /\ timers' = timers
      /\ Head(iopub).kind = "display" /\ IsEvent(Head(iopub)) /\ fx["pump"] = <<>>
  BY EventDoes DEF UpdateDisplay
<1>2. PICK i \in Pieces : i = Head(iopub).n
  BY <1>1 DEF IsEvent
<1>3. PICK j \in Pieces : j = Head(iopub).upd
  BY <1>1 DEF IsEvent
<1>4. PICK S \in SUBSET Outs : S = {o \in Outs : Live(o) /\ i \in val[o]["outputs"]}
  OBVIOUS
<1>5. /\ Captured(S) /\ clearing' = clearing
      /\ val' = [m \in Models |-> IF m \in S
                   THEN [x \in {"outputs"} |-> (val[m][x] \ {i}) \cup {j}] ELSE val[m]]
  BY <1>2, <1>3, <1>4 DEF UpdateDisplay
<1>6. CallInv' /\ LinkTypes' /\ LockTypes' /\ st' = st /\ msgid' = msgid /\ capture' = capture
  BY <1>1, <1>5, CapturedDoes
<1>7. ASSUME NEW m \in S PROVE [x \in {"outputs"} |-> (val[m][x] \ {i}) \cup {j}] \in [AttrsOf(m) -> Vals]
  <2>1. m \in Models /\ AttrsOf(m) = {"outputs"}
    BY DEF Models, AttrsOf
  <2>2. val[m]["outputs"] \in Vals
    BY <2>1 DEF Core, ModelTypes
  <2>3. (val[m]["outputs"] \ {i}) \cup {j} \in Vals
    BY <2>2 DEF Vals
  <2> QED BY <2>1, <2>3
<1>8. ModelTypes'
  BY <1>5, <1>6, <1>7 DEF Core, ModelTypes
<1>9. CaptureTypes'
  BY <1>5, <1>6 DEF Core, CaptureTypes
<1> QED BY <1>1, <1>6, <1>8, <1>9 DEF Core

-----------------------------------------------------------------------------
(* The frontend's calls, the effects, and the timers.                      *)

LEMMA SameStore ==
  ASSUME Core, UNCHANGED <<captureVars, linkVars>>
  PROVE  CaptureTypes' /\ LinkTypes' /\ Connected' = Connected /\ ends' = ends
  BY LinkTypesKept DEF Core, CaptureTypes, Connected, captureVars, linkVars

LEMMA FrontendUpdateStep ==
  ASSUME Core, NEW m \in Sliders, NEW x \in Attrs, NEW v \in Vals, FrontendUpdate(m, x, v)
  PROVE  Core'
<1>1. m \in Models /\ x \in AttrsOf(m) /\ "reader" \in Actors
  BY StoreAssumption DEF Models, AttrsOf, Actors
<1>2. /\ holder = None /\ val' = [val EXCEPT ![m][x] = v]
      /\ QueueForKernel("reader", m, [y \in {x} |-> v])
      /\ FollowChange("reader", m, {x})
      /\ budget > 0 /\ budget' = budget - 1
      /\ UNCHANGED <<gen, st, msgid, captureVars, linkVars, timeVars, sender, kernelVars>>
  BY DEF FrontendUpdate, Locks
<1>3. ModelTypes' /\ [y \in {x} |-> v] \in Parts(m)
  BY <1>1, <1>2, OneChange DEF Core
<1>4. checks' = checks /\ timers' = timers /\ ends' = ends
  BY <1>2 DEF timeVars, linkVars
<1>5. CallInv'
  BY <1>1, <1>2, <1>3, <1>4, QueueDoes DEF Core
<1>6. LockTypes'
  BY <1>1, <1>2, <1>4, FollowDoes DEF Core
<1>7. SettingTypes' /\ TimeTypes' /\ KernelTypes'
  BY <1>2 DEF Core, SettingTypes, TimeTypes, KernelTypes, timeVars, kernelVars
<1>8. CaptureTypes' /\ LinkTypes'
  BY <1>2, SameStore
<1> QED BY <1>3, <1>5, <1>6, <1>7, <1>8 DEF Core

(* A message, or a run's request, with the captures before it.             *)
LEMMA FlushFirst ==
  ASSUME CallInv, ModelTypes', NEW a \in Actors, NEW m \in Models \cup {None}, NEW kind, NEW upd,
         NEW more \in Seq(Effects), \A n \in Nat : m # None => Message(m, n, kind, upd) \in Messages,
         Emit(a, Base, Flushable, m, kind, upd, more),
         inflight' = inflight, pending' = pending, checks' = checks, timers' = timers
  PROVE  CallInv'
<1> USE DEF CallInv, CallTypes
<1>1. PICK b \in Bases : b = Base /\ b.flight = flight /\ b.armed = armed
  BY BaseIs
<1>2. PICK F \in SUBSET Outs : F = Flushable
  BY DEF Flushable, OutTypes
<1>3. Emit(a, b, F, m, kind, upd, more)
  BY <1>1, <1>2
<1>4. EmitResult(b, F, more)
  BY <1>3, EmitDoes
<1>5. FxKept /\ NextTypes
  BY <1>4 DEF EmitResult
<1>6. armed' = armed /\ waiting' \subseteq waiting /\ \A p \in waiting' : flight'[p] = flight[p]
  BY <1>1, <1>4 DEF EmitResult, OutTypes
<1>7. CaptureInv'
  BY <1>5, <1>6, CaptureKept
<1>8. HoldInv' /\ HeldTypes'
  BY <1>5, HoldKept DEF HeldTypes
<1> QED BY <1>5, <1>7, <1>8 DEF NextTypes

LEMMA FrontendCustomStep ==
  ASSUME Core, NEW m \in Sliders, FrontendCustom(m)
  PROVE  Core'
<1>1. m \in Models /\ m \in Models \cup {None} /\ "reader" \in Actors /\ <<>> \in Seq(Effects)
  BY EmptySeq DEF Models, Actors
<1>2. /\ val' = val /\ Emit("reader", Base, Flushable, m, "custom", Nothing, <<>>)
      /\ budget > 0 /\ budget' = budget - 1
      /\ UNCHANGED <<gen, st, msgid, inflight, pending, captureVars, linkVars, lockVars, timeVars,
                     sender, kernelVars>>
  BY DEF FrontendCustom
<1>3. ModelTypes'
  BY <1>2 DEF Core, ModelTypes
<1>4. checks' = checks /\ timers' = timers /\ ends' = ends
  BY <1>2 DEF timeVars, linkVars
<1>5. \A n \in Nat : m # None => Message(m, n, "custom", Nothing) \in Messages
  BY <1>1, NothingParts, MessageTypes
<1>6. CallInv'
  BY <1>1, <1>2, <1>3, <1>4, <1>5, FlushFirst DEF Core
<1>7. SettingTypes' /\ TimeTypes' /\ KernelTypes'
  BY <1>2 DEF Core, SettingTypes, TimeTypes, KernelTypes, timeVars, kernelVars
<1>8. CaptureTypes' /\ LinkTypes' /\ LockTypes'
  BY <1>2, <1>4, SameStore, LockTypesKept DEF Core
<1> QED BY <1>3, <1>6, <1>7, <1>8 DEF Core

LEMMA ExecuteStep ==
  ASSUME Core, Execute
  PROVE  Core'
<1>1. PICK more : more = <<Send({Message(None, 0, "execute", Nothing)})>>
  OBVIOUS
<1>2. more \in Seq(Effects) /\ "run" \in Actors
  <2>1. Send({Message(None, 0, "execute", Nothing)}) \in Effects
    BY ExecuteTypes, EffectTypes
  <2> QED BY <1>1, <2>1 DEF Actors
<1>3. /\ val' = val /\ Emit("run", Base, Flushable, None, "none", Nothing, more)
      /\ budget > 0 /\ budget' = budget - 1
      /\ UNCHANGED <<gen, st, msgid, inflight, pending, captureVars, linkVars, lockVars, timeVars,
                     sender, kernelVars>>
  BY <1>1 DEF Execute
<1>4. ModelTypes'
  BY <1>3 DEF Core, ModelTypes
<1>5. checks' = checks /\ timers' = timers /\ ends' = ends
  BY <1>3 DEF timeVars, linkVars
<1>6. CallInv'
  <2>1. \A n \in Nat : None # None => Message(None, n, "none", Nothing) \in Messages
    OBVIOUS
  <2>2. None \in Models \cup {None}
    OBVIOUS
  <2>3. PICK m \in Models \cup {None} : m = None
    BY <2>2
  <2>4. /\ Emit("run", Base, Flushable, m, "none", Nothing, more)
        /\ \A n \in Nat : m # None => Message(m, n, "none", Nothing) \in Messages
    BY <1>3, <2>3
  <2> QED BY <1>2, <1>3, <1>4, <1>5, <2>4, FlushFirst DEF Core
<1>7. SettingTypes' /\ TimeTypes' /\ KernelTypes'
  BY <1>3 DEF Core, SettingTypes, TimeTypes, KernelTypes, timeVars, kernelVars
<1>8. CaptureTypes' /\ LinkTypes' /\ LockTypes'
  BY <1>3, <1>5, SameStore, LockTypesKept DEF Core
<1> QED BY <1>4, <1>6, <1>7, <1>8 DEF Core

(* The first effect of a task runs: the others are still to run.           *)
LEMMA EffectRuns ==
  ASSUME FxTypes, NEW a \in Actors, fx[a] # <<>>, NEW k \in Seq(Effects),
         fx' = [fx EXCEPT ![a] = Cat(k, Tail(@))]
  PROVE  /\ FxTypes' /\ Head(fx[a]) \in Effects
         /\ \A e \in Effects : e # Head(fx[a]) /\ Fx(e) => Fx(e)'
<1>1. PICK s \in Seq(Effects) : s = fx[a]
  BY DEF FxTypes
<1>2. /\ Head(s) \in Effects /\ Tail(s) \in Seq(Effects) /\ Len(Tail(s)) = Len(s) - 1
      /\ \A i \in 1..Len(Tail(s)) : Tail(s)[i] = s[i + 1]
  BY <1>1, HeadTailProperties
<1>3. PICK t \in Seq(Effects) : t = Tail(s)
  BY <1>2
<1>4. Cat(k, t) \in Seq(Effects)
  BY CatType
<1>5. FxTypes'
  BY <1>1, <1>3, <1>4 DEF FxTypes
<1>6. \A c \in Actors : fx'[c] = IF c = a THEN Cat(k, t) ELSE fx[c]
  BY <1>1, <1>3 DEF FxTypes
<1>7. \A c \in Actors : DOMAIN fx'[c] = 1..Len(fx'[c]) /\ DOMAIN fx[c] = 1..Len(fx[c])
  BY <1>5 DEF FxTypes
<1>8. /\ Len(Cat(k, t)) = Len(k) + Len(t) /\ Len(k) \in Nat /\ Len(t) \in Nat /\ Len(s) \in Nat
      /\ \A i \in 1..(Len(k) + Len(t)) : Cat(k, t)[i] = IF i <= Len(k) THEN k[i] ELSE t[i - Len(k)]
  BY ConcatProperties, LenProperties DEF Cat
<1>9. ASSUME NEW e \in Effects, e # Head(s), Fx(e) PROVE Fx(e)'
  <2>1. PICK c \in Actors : \E i \in 1..Len(fx[c]) : fx[c][i] = e
    BY <1>7, <1>9 DEF Fx
  <2>2. PICK i \in 1..Len(fx[c]) : fx[c][i] = e
    BY <2>1
  <2>3. CASE c # a
    <3>1. i \in DOMAIN fx'[c] /\ fx'[c][i] = e
      BY <1>6, <1>7, <2>2, <2>3
    <3> QED BY <3>1 DEF Fx
  <2>4. CASE c = a
    <3>1. i \in 1..Len(s) /\ s[i] = e
      BY <1>1, <2>2, <2>4
    <3>2. s # <<>> /\ Head(s) = s[1]
      BY <1>1
    <3>3. i # 1
      BY <1>9, <3>1, <3>2
    <3>4. PICK p \in Nat : p = Len(k)
      BY <1>8
    <3>11. i \in Nat /\ 1 <= i
      BY <3>1
    <3>12. i - 1 \in Nat
      BY <3>11
    <3>5. p + (i - 1) \in Nat
      BY <3>4, <3>12
    <3>13. PICK j \in Nat : j = p + (i - 1)
      BY <3>5
    <3>6. i - 1 \in 1..Len(t) /\ (i - 1) + 1 = i
      BY <1>2, <1>3, <1>8, <3>1, <3>3
    <3>7. j \in 1..(p + Len(t)) /\ ~(j <= p) /\ j - p = i - 1
      BY <1>8, <3>4, <3>13, <3>6
    <3>8. t[i - 1] = e
      BY <1>2, <1>3, <3>1, <3>6
    <3>9. j \in 1..Len(fx'[a]) /\ fx'[a][j] = e
      BY <1>6, <1>8, <3>4, <3>7, <3>8
    <3>10. j \in DOMAIN fx'[a]
      BY <1>7, <3>9
    <3> QED BY <3>9, <3>10 DEF Fx
  <2> QED BY <2>3, <2>4
<1> QED BY <1>1, <1>2, <1>5, <1>9

LEMMA EffectKinds ==
  ASSUME NEW e \in Effects
  PROVE  /\ e.do = "send" => e.msgs \in SUBSET Messages
         /\ e.do = "check" => e.id \in Ids /\ \A m, n : e = Check(m, n) => e.id = <<m, n>>
         /\ e.do = "flush" => e.of \in SUBSET Outs /\ \A S : e = FlushLater(S) => e.of = S
         /\ \A m, n : e = Check(m, n) => e.do = "check"
         /\ \A S : e = FlushLater(S) => e.do = "flush"
  BY DEF Effects, Check, FlushLater

LEMMA RunEffectStep ==
  ASSUME Core, NEW a \in Actors, RunEffect(a)
  PROVE  Core'
<1>0. /\ FxTypes /\ HeldTypes /\ OutTypes /\ HoldInv /\ CaptureInv
      /\ shell \in Seq(Messages) /\ checks \in SUBSET Ids /\ timers \in [Outs -> Nat]
  BY DEF Core, CallInv, CallTypes, KernelTypes, TimeTypes
<1>1. fx[a] # <<>> /\ UNCHANGED <<gen, modelVars, updVars, idVars, outVars, captureVars, linkVars, lockVars,
                 aged, sender, kgen, kval, kmsg, iopub, opened, budget>>
  BY DEF RunEffect
<1>2. PICK e : e = Head(fx[a])
  OBVIOUS
<1>3. e \in Effects
  <2>1. PICK s \in Seq(Effects) : s = fx[a]
    BY <1>0 DEF FxTypes
  <2> QED BY <1>1, <1>2, <2>1, HeadTailProperties
<1>4. \/ /\ e.do = "send" /\ UNCHANGED <<checks, timers>>
         /\ \E msg \in e.msgs :
              /\ shell' = IF sender THEN Append(shell, msg) ELSE shell
              /\ fx' = [fx EXCEPT ![a] = Cat(IF e.msgs = {msg} THEN <<>> ELSE <<Send(e.msgs \ {msg})>>, Tail(@))]
      \/ /\ e.do = "check" /\ checks' = checks \cup {e.id}
         /\ fx' = [fx EXCEPT ![a] = Tail(@)] /\ UNCHANGED <<shell, timers>>
      \/ /\ e.do = "flush" /\ timers' = [o \in Outs |-> timers[o] + IF o \in e.of THEN 1 ELSE 0]
         /\ fx' = [fx EXCEPT ![a] = Tail(@)] /\ UNCHANGED <<shell, checks>>
  BY <1>2 DEF RunEffect, Cat
<1>5. \E k \in Seq(Effects) : fx' = [fx EXCEPT ![a] = Cat(k, Tail(@))]
  <2>1. CASE e.do = "send"
    <3>1. PICK msg \in e.msgs : fx' = [fx EXCEPT ![a] =
              Cat(IF e.msgs = {msg} THEN <<>> ELSE <<Send(e.msgs \ {msg})>>, Tail(@))]
      BY <1>4, <2>1
    <3>2. e.msgs \ {msg} \in SUBSET Messages
      BY <1>3, <2>1, EffectKinds
    <3>3. Send(e.msgs \ {msg}) \in Effects
      BY <3>2, EffectTypes
    <3>4. <<>> \in Seq(Effects) /\ <<Send(e.msgs \ {msg})>> \in Seq(Effects)
      BY <3>3
    <3> QED BY <3>1, <3>4
  <2>2. CASE e.do # "send"
    <3>1. fx' = [fx EXCEPT ![a] = Tail(@)]
      BY <1>4, <2>2
    <3>2. PICK s \in Seq(Effects) : s = fx[a]
      BY <1>0 DEF FxTypes
    <3>3. Tail(s) \in Seq(Effects)
      BY <1>1, <3>2, HeadTailProperties
    <3>4. Cat(<<>>, Tail(s)) = Tail(s)
      BY <3>3, ConcatEmptySeq DEF Cat
    <3>5. fx' = [fx EXCEPT ![a] = Cat(<<>>, Tail(@))]
      BY <3>1, <3>2, <3>4
    <3> QED BY <3>5, EmptySeq
  <2> QED BY <2>1, <2>2
<1>6. FxTypes' /\ \A f \in Effects : f # e /\ Fx(f) => Fx(f)'
  <2>1. PICK k \in Seq(Effects) : fx' = [fx EXCEPT ![a] = Cat(k, Tail(@))]
    BY <1>5
  <2> QED BY <1>0, <1>1, <1>2, <2>1, EffectRuns
<1>7. shell' \in Seq(Messages) /\ checks' \in SUBSET Ids /\ timers' \in [Outs -> Nat]
  <2>1. CASE e.do = "send"
    <3>1. e.msgs \in SUBSET Messages
      BY <1>3, <2>1, EffectKinds
    <3>2. UNCHANGED <<checks, timers>> /\ \E msg \in e.msgs : shell' = IF sender THEN Append(shell, msg) ELSE shell
      BY <1>4, <2>1
    <3>3. PICK msg \in Messages : shell' = IF sender THEN Append(shell, msg) ELSE shell
      BY <3>1, <3>2
    <3>4. Append(shell, msg) \in Seq(Messages)
      BY <1>0, AppendProperties
    <3> QED BY <1>0, <3>2, <3>3, <3>4
  <2>2. CASE e.do = "check"
    <3>1. e.id \in Ids
      BY <1>3, <2>2, EffectKinds
    <3> QED BY <1>0, <1>4, <2>2, <3>1
  <2>3. CASE e.do = "flush"
    BY <1>0, <1>4, <2>3
  <2> QED BY <1>4, <2>1, <2>2, <2>3
<1>8. ASSUME NEW m \in Models, NEW n \in Nat, Timed(m, n) PROVE Timed(m, n)'
  <2>1. PICK f \in Effects : f = Check(m, n)
    BY EffectTypes
  <2>2. checks \subseteq checks'
    BY <1>4
  <2>3. CASE f = e
    <3>1. e.do = "check" /\ e.id = <<m, n>>
      BY <1>3, <2>1, <2>3, EffectKinds
    <3>2. <<m, n>> \in checks'
      BY <1>4, <3>1
    <3> QED BY <3>2 DEF Timed
  <2>4. CASE f # e
    <3>1. Fx(f) => Fx(f)'
      BY <1>6, <2>4
    <3>2. Fx(Check(m, n)) => Fx(Check(m, n))'
      BY <2>1, <3>1
    <3> QED BY <1>8, <2>2, <3>2 DEF Timed
  <2> QED BY <2>3, <2>4
<1>9. ASSUME NEW p \in Outs, Ticks(p) PROVE Ticks(p)'
  <2>1. CASE timers[p] > 0
    <3>1. timers' = timers \/ timers' = [o \in Outs |-> timers[o] + IF o \in e.of THEN 1 ELSE 0]
      BY <1>4
    <3>2. timers[p] \in Nat
      BY <1>0
    <3>3. timers'[p] = timers[p] \/ timers'[p] = timers[p] + (IF p \in e.of THEN 1 ELSE 0)
      BY <3>1
    <3>4. timers'[p] > 0
      BY <2>1, <3>2, <3>3
    <3> QED BY <3>4 DEF Ticks
  <2>2. CASE \E S \in SUBSET Outs : p \in S /\ Fx(FlushLater(S))
    <3>1. PICK S \in SUBSET Outs : p \in S /\ Fx(FlushLater(S))
      BY <2>2
    <3>2. PICK f \in Effects : f = FlushLater(S)
      BY EffectTypes
    <3>3. CASE f = e
      <4>1. e.do = "flush" /\ e.of = S
        BY <1>3, <3>2, <3>3, EffectKinds
      <4>2. timers'[p] > 0
        BY <1>0, <1>4, <3>1, <4>1
      <4> QED BY <4>2 DEF Ticks
    <3>4. CASE f # e
      <4>1. Fx(f)'
        BY <1>6, <3>1, <3>2, <3>4
      <4>2. Fx(FlushLater(S))'
        BY <3>2, <4>1
      <4> QED BY <3>1, <4>2 DEF Ticks
    <3> QED BY <3>3, <3>4
  <2> QED BY <1>9, <2>1, <2>2 DEF Ticks
<1>10. HoldInv'
  <2>1. inflight' = inflight /\ pending' = pending
    BY <1>1 DEF updVars
  <2>2. ASSUME NEW m \in Models, inflight[m] # 0 PROVE Timed(m, inflight[m])'
    <3>1. PICK n \in Nat : n = inflight[m]
      BY <1>0 DEF HeldTypes
    <3>2. Timed(m, n)'
      BY <1>0, <1>8, <2>2, <3>1 DEF HoldInv
    <3> QED BY <2>1, <3>1, <3>2
  <2> QED BY <1>0, <2>1, <2>2 DEF HoldInv
<1>11. CaptureInv'
  BY <1>0, <1>1, <1>9 DEF CaptureInv, OutTypes, outVars
<1>12. ExpectTypes' /\ HeldTypes' /\ IdTypes' /\ OutTypes'
  BY <1>1 DEF Core, CallInv, CallTypes, ExpectTypes, HeldTypes, IdTypes, OutTypes, updVars, idVars, outVars
<1>13. SettingTypes' /\ ModelTypes'
  BY <1>1 DEF Core, SettingTypes, ModelTypes, modelVars
<1>14. CaptureTypes' /\ LinkTypes' /\ LockTypes'
  BY <1>1, SameStore, LockTypesKept DEF Core
<1>15. TimeTypes' /\ KernelTypes'
  BY <1>1, <1>7 DEF Core, TimeTypes, KernelTypes
<1> QED BY <1>6, <1>10, <1>11, <1>12, <1>13, <1>14, <1>15 DEF Core, CallInv, CallTypes

LEMMA AgeStep ==
  ASSUME Core, NEW m \in Models, Age(m)
  PROVE  Core'
<1>1. /\ aged' = [aged EXCEPT ![m] = @ + 1]
      /\ UNCHANGED <<gen, modelVars, updVars, idVars, outVars, captureVars, linkVars, lockVars, fx,
                 checks, timers, sender, kernelVars, budget>>
  BY DEF Age
<1>2. CallInv'
  BY <1>1, CallKept DEF Core
<1>3. SettingTypes' /\ ModelTypes' /\ KernelTypes'
  BY <1>1 DEF Core, SettingTypes, ModelTypes, KernelTypes, modelVars, kernelVars
<1>4. CaptureTypes' /\ LinkTypes' /\ LockTypes'
  BY <1>1, SameStore, LockTypesKept DEF Core
<1>5. TimeTypes'
  BY <1>1 DEF Core, TimeTypes
<1> QED BY <1>2, <1>3, <1>4, <1>5 DEF Core

LEMMA CheckFiresStep ==
  ASSUME Core, NEW m \in Models, NEW n \in 1..next[m], CheckFires(m, n)
  PROVE  Core'
<1>1. n \in Nat /\ "timer" \in Actors
  BY DEF Core, CallInv, CallTypes, IdTypes, Actors
<1>2. /\ checks' = checks \ {<<m, n>>} /\ val' = val
      /\ Release("timer", Base, m, n)
      /\ UNCHANGED <<gen, st, msgid, captureVars, linkVars, lockVars, timers, aged, sender,
                 kernelVars, budget>>
  BY DEF CheckFires
<1>3. PICK b \in Bases : b = Base /\ b.flight = flight /\ b.armed = armed
  BY BaseIs DEF Core, CallInv, CallTypes
<1>4. SettingTypes' /\ ModelTypes' /\ KernelTypes' /\ TimeTypes'
  BY <1>2 DEF Core, SettingTypes, ModelTypes, KernelTypes, TimeTypes, kernelVars
<1>5. CallInv'
  <2>1. \A k \in Models : \A j \in Nat : ~(k = m /\ j = n) /\ <<k, j>> \in checks => <<k, j>> \in checks'
    BY <1>2
  <2>2. Release("timer", b, m, n)
    BY <1>2, <1>3
  <2> QED BY <1>1, <1>2, <1>3, <1>4, <2>1, <2>2, ReleaseDoes DEF Core
<1>6. CaptureTypes' /\ LinkTypes' /\ LockTypes'
  BY <1>2, SameStore, LockTypesKept DEF Core
<1> QED BY <1>4, <1>5, <1>6 DEF Core

LEMMA TimerFiresStep ==
  ASSUME Core, NEW o \in Outs, TimerFires(o)
  PROVE  Core'
<1>1. /\ timers[o] > 0 /\ timers' = [timers EXCEPT ![o] = @ - 1] /\ val' = val
      /\ PacedFlush("timer", [Base EXCEPT !.armed = @ \ {o}], o)
      /\ UNCHANGED <<gen, st, msgid, inflight, pending, captureVars, linkVars, lockVars, checks, aged,
                 sender, kernelVars, budget>>
  BY DEF TimerFires
<1>2. PICK d \in Bases : d = Base /\ d.flight = flight /\ d.armed = armed
  BY BaseIs DEF Core, CallInv, CallTypes
<1>3. PICK b : b = [d EXCEPT !.armed = @ \ {o}]
  OBVIOUS
<1>4. b \in Bases /\ b.flight = flight /\ b.armed = armed \ {o}
  BY <1>2, <1>3 DEF Bases
<1>5. timers \in [Outs -> Nat] /\ OutTypes
  BY DEF Core, TimeTypes, CallInv, CallTypes
<1>6. SettingTypes' /\ ModelTypes' /\ KernelTypes' /\ TimeTypes'
  BY <1>1, <1>5 DEF Core, SettingTypes, ModelTypes, KernelTypes, TimeTypes, kernelVars
<1>7. CallInv'
  <2>1. PacedFlush("timer", b, o)
    BY <1>1, <1>2, <1>3
  <2>2. \A p \in b.armed : timers[p] > 0 => timers'[p] > 0
    BY <1>1, <1>4, <1>5 DEF OutTypes
  <2>3. "timer" \in Actors /\ b.armed \subseteq armed /\ armed \ {o} \subseteq b.armed
    BY <1>4 DEF Actors
  <2> QED BY <1>1, <1>4, <1>6, <2>1, <2>2, <2>3, PacedCall DEF Core
<1>8. CaptureTypes' /\ LinkTypes' /\ LockTypes'
  BY <1>1, SameStore, LockTypesKept DEF Core
<1> QED BY <1>6, <1>7, <1>8 DEF Core

LEMMA CadenceEndsStep ==
  ASSUME Core, NEW o \in Outs, CadenceEnds(o)
  PROVE  Core'
<1>1. /\ recent' = recent \ {o}
      /\ UNCHANGED <<gen, modelVars, updVars, idVars, waiting, armed, flight, captureVars, linkVars,
                 lockVars, fx, timeVars, sender, kernelVars, budget>>
  BY DEF CadenceEnds
<1>2. CallTypes'
  BY <1>1 DEF Core, CallInv, CallTypes, ExpectTypes, HeldTypes, IdTypes, OutTypes, FxTypes, updVars, idVars
<1>3. HoldInv'
  BY <1>1 DEF Core, CallInv, HoldInv, Timed, Fx, updVars, timeVars
<1>4. CaptureInv'
  BY <1>1 DEF Core, CallInv, CaptureInv, Ticks, Fx, timeVars
<1>5. SettingTypes' /\ ModelTypes' /\ KernelTypes' /\ TimeTypes'
  BY <1>1 DEF Core, SettingTypes, ModelTypes, KernelTypes, TimeTypes, modelVars, kernelVars, timeVars
<1>6. CaptureTypes' /\ LinkTypes' /\ LockTypes'
  BY <1>1, SameStore, LockTypesKept DEF Core
<1> QED BY <1>2, <1>3, <1>4, <1>5, <1>6 DEF Core, CallInv

-----------------------------------------------------------------------------
(* The session and the kernel.                                             *)

LEMMA KeepsStoreDoes ==
  ASSUME Core, KeepsStore
  PROVE  /\ ModelTypes' /\ CallInv' /\ CaptureTypes' /\ LinkTypes' /\ LockTypes' /\ TimeTypes'
         /\ gen' = gen /\ st' = st
<1>1. checks' = checks /\ timers' = timers
  BY DEF KeepsStore, timeVars
<1>2. CallInv'
  BY <1>1, CallKept DEF Core, KeepsStore
<1>3. ModelTypes' /\ TimeTypes' /\ gen' = gen /\ st' = st
  BY DEF Core, KeepsStore, ModelTypes, TimeTypes, modelVars, timeVars
<1>4. CaptureTypes' /\ LinkTypes' /\ LockTypes'
  BY SameStore, LockTypesKept DEF Core, KeepsStore
<1> QED BY <1>2, <1>3, <1>4

LEMMA UnsendStep ==
  ASSUME Core, Unsend
  PROVE  Core'
<1>1. KeepsStore /\ sender' = FALSE /\ UNCHANGED <<kernelVars, budget>>
  BY DEF Unsend
<1>2. gen' = gen
  BY <1>1, KeepsStoreDoes
<1>3. SettingTypes' /\ KernelTypes'
  BY <1>1, <1>2 DEF Core, SettingTypes, KernelTypes, kernelVars
<1> QED BY <1>1, <1>3, KeepsStoreDoes DEF Core

LEMMA StartStep ==
  ASSUME Core, Start
  PROVE  Core'
<1>1. /\ KeepsStore /\ sender' = TRUE /\ kgen' = gen
      /\ kval' = [m \in Models |-> None] /\ kmsg' = [o \in Outs |-> None]
      /\ UNCHANGED <<shell, iopub, opened, budget>>
  BY DEF Start
<1>2. gen' = gen
  BY <1>1, KeepsStoreDoes
<1>3. SettingTypes' /\ KernelTypes'
  BY <1>1, <1>2 DEF Core, SettingTypes, KernelTypes
<1> QED BY <1>1, <1>3, KeepsStoreDoes DEF Core

LEMMA ResetStep ==
  ASSUME Core, NEW keep \in SUBSET Models, Reset(keep)
  PROVE  Core'
<1>1. /\ gen' = gen + 1 /\ holder = None
      /\ st' = [m \in Models |-> IF st[m] # "none" /\ m \in keep THEN "dead" ELSE "none"]
      /\ val' = [m \in Models |-> IF m \in keep THEN val[m] ELSE Blank(m)]
      /\ msgid' = [o \in Outs |-> IF o \in keep THEN msgid[o] ELSE None]
      /\ UNCHANGED <<next, lockVars, fx, timeVars, sender, kgen, kval, kmsg, iopub, opened, budget>>
  BY DEF Reset
<1>2. /\ expect' = [m \in Models |-> [x \in AttrsOf(m) |-> 0]]
      /\ inflight' = [m \in Models |-> 0] /\ pending' = [m \in Models |-> Nothing]
      /\ infl' = {} /\ ours' = {} /\ capture' = [p \in Parents |-> <<>>]
      /\ waiting' = {} /\ clearing' = {} /\ armed' = {} /\ recent' = {}
      /\ flight' = [o \in Outs |-> 0]
      /\ links' = <<>> /\ ends' = [l \in Links |-> None]
      /\ shell' = <<>>
  BY DEF Reset
<1>3. SettingTypes' /\ TimeTypes'
  BY <1>1 DEF Core, SettingTypes, TimeTypes, timeVars
<1>4. ModelTypes'
  <2>1. \A m \in Models : (IF m \in keep THEN val[m] ELSE Blank(m)) \in [AttrsOf(m) -> Vals]
    BY BlankType DEF Core, ModelTypes
  <2> QED BY <1>1, <2>1 DEF Core, ModelTypes
<1>5. CallTypes'
  <2>1. ExpectTypes'
    BY <1>2 DEF ExpectTypes
  <2>2. HeldTypes'
    BY <1>2, NothingParts DEF HeldTypes
  <2>3. IdTypes' /\ OutTypes' /\ FxTypes'
    BY <1>1, <1>2 DEF Core, CallInv, CallTypes, IdTypes, OutTypes, FxTypes
  <2> QED BY <2>1, <2>2, <2>3 DEF CallTypes
<1>6. HoldInv' /\ CaptureInv'
  BY <1>2 DEF HoldInv, CaptureInv
<1>7. CaptureTypes'
  <2>1. capture' \in [Parents -> Seq(Outs)]
    BY <1>2, EmptySeq
  <2> QED BY <1>2, <2>1 DEF CaptureTypes
<1>8. LinkTypes'
  BY <1>2, EmptySeq DEF LinkTypes
<1>9. LockTypes'
  <2>1. apply' = <<>> /\ todo' = <<>> /\ holder' = holder /\ steps' = steps
    BY <1>1 DEF Core, LockTypes, lockVars
  <2>2. apply' \in Seq(Connected') /\ todo' \in Seq(Changes(Connected'))
    BY <2>1, EmptySeq
  <2> QED BY <2>1, <2>2 DEF Core, LockTypes, Changes
<1>10. KernelTypes'
  <2>1. shell' \in Seq(Messages)
    BY <1>2, EmptySeq
  <2> QED BY <1>1, <2>1 DEF Core, KernelTypes
<1> QED BY <1>3, <1>4, <1>5, <1>6, <1>7, <1>8, <1>9, <1>10 DEF Core, CallInv

(* The kernel says an event.                                               *)
LEMMA EventIn ==
  ASSUME NEW e \in Shapes, IsEvent(e)
  PROVE  e \in Events
  BY DEF Events

LEMMA SaidTypes ==
  Ends \subseteq Said /\ Pieces \subseteq Said /\ BOOLEAN \subseteq Said /\ Nothing \in Said
<1> DEFINE P == UNION {Parts(m) : m \in Models}
<1>1. Said = P \cup Ends \cup BOOLEAN \cup Pieces \cup {Nothing}
  BY Zenon DEF Said
<1> HIDE DEF P
<1>2. Ends \subseteq Said /\ Pieces \subseteq Said
  BY <1>1
<1>3. Nothing \in Said
  BY <1>1, Zenon
<1>4. BOOLEAN \subseteq Said
  BY <1>1, Zenon
<1> QED BY <1>2, <1>3, <1>4

LEMMA SaysTypes ==
  ASSUME kgen \in Nat
  PROVE  /\ \A m \in Models : Says("open", m, 0, Blank(m)) \in Events
         /\ \A m \in Models : Says("close", m, 0, Nothing) \in Events
         /\ \A m \in Models : \A n \in Nat : Says("idle", m, n, Nothing) \in Events
         /\ \A m \in Models : \A n \in Nat : \A u \in Parts(m) : Says("update", m, n, u) \in Events
         /\ \A m \in Models : \A n \in Nat : \A u \in Parts(m) : Says("echo", m, n, u) \in Events
<1>1. \A m \in Models : Parts(m) \subseteq Said
  BY DEF Said
<1>2. Nothing \in Said
  BY SaidTypes
<1>3. \A m \in Models : Blank(m) \in Parts(m)
  BY BlankType DEF Parts
<1>4. ASSUME NEW m \in Models
      PROVE  Says("open", m, 0, Blank(m)) \in Events
  <2>1. Blank(m) \in Said /\ Blank(m) \in [AttrsOf(m) -> Vals]
    BY <1>1, <1>3, BlankType
  <2>2. Says("open", m, 0, Blank(m)) \in Shapes
    BY <2>1 DEF Says, Shapes
  <2>3. IsEvent(Says("open", m, 0, Blank(m)))
    BY <2>1 DEF Says, IsEvent
  <2> QED BY <2>2, <2>3, EventIn
<1>5. ASSUME NEW m \in Models
      PROVE  Says("close", m, 0, Nothing) \in Events
  <2>1. Says("close", m, 0, Nothing) \in Shapes /\ IsEvent(Says("close", m, 0, Nothing))
    BY <1>2 DEF Says, Shapes, IsEvent
  <2> QED BY <2>1, EventIn
<1>6. ASSUME NEW m \in Models, NEW n \in Nat
      PROVE  Says("idle", m, n, Nothing) \in Events
  <2>1. Says("idle", m, n, Nothing) \in Shapes /\ IsEvent(Says("idle", m, n, Nothing))
    BY <1>2 DEF Says, Shapes, IsEvent
  <2> QED BY <2>1, EventIn
<1>7. ASSUME NEW m \in Models, NEW n \in Nat, NEW u \in Parts(m), NEW kind \in {"update", "echo"}
      PROVE  Says(kind, m, n, u) \in Events
  <2>1. u \in Said
    BY <1>1
  <2>2. Says(kind, m, n, u) \in Shapes
    BY <2>1 DEF Says, Shapes
  <2>3. IsEvent(Says(kind, m, n, u))
    BY DEF Says, IsEvent
  <2> QED BY <2>2, <2>3, EventIn
<1> QED BY <1>4, <1>5, <1>6, <1>7

LEMMA SaysOthers ==
  ASSUME kgen \in Nat
  PROVE  /\ \A l \in Links : \A e \in Ends : Says("link", l, 0, e) \in Events
         /\ \A l \in Links : Says("unlink", l, 0, Nothing) \in Events
         /\ \A o \in Outs : \A p \in Parents \cup {None} :
              [Says("capture", o, 0, Nothing) EXCEPT !.parent = p] \in Events
         /\ \A p \in Parents : \A i \in Pieces : [Says("stream", None, i, Nothing) EXCEPT !.parent = p] \in Events
         /\ \A p \in Parents : \A w \in BOOLEAN : [Says("clear", None, 0, w) EXCEPT !.parent = p] \in Events
         /\ \A i, j \in Pieces : Says("display", None, i, j) \in Events
<1>1. Ends \subseteq Said /\ Pieces \subseteq Said /\ BOOLEAN \subseteq Said /\ Nothing \in Said /\ Outs \subseteq Models
  BY SaidTypes DEF Models
<1>2. ASSUME NEW l \in Links, NEW e \in Ends
      PROVE  Says("link", l, 0, e) \in Events
  <2>1. Says("link", l, 0, e) \in Shapes /\ IsEvent(Says("link", l, 0, e))
    BY <1>1 DEF Says, Shapes, IsEvent
  <2> QED BY <2>1, EventIn
<1>3. ASSUME NEW l \in Links
      PROVE  Says("unlink", l, 0, Nothing) \in Events
  <2>1. Says("unlink", l, 0, Nothing) \in Shapes /\ IsEvent(Says("unlink", l, 0, Nothing))
    BY <1>1 DEF Says, Shapes, IsEvent
  <2> QED BY <2>1, EventIn
<1>4. ASSUME NEW o \in Outs, NEW p \in Parents \cup {None}
      PROVE  [Says("capture", o, 0, Nothing) EXCEPT !.parent = p] \in Events
  <2>1. PICK e : e = [Says("capture", o, 0, Nothing) EXCEPT !.parent = p]
    OBVIOUS
  <2>2. e \in Shapes /\ IsEvent(e)
    BY <1>1, <2>1 DEF Says, Shapes, IsEvent
  <2> QED BY <2>1, <2>2, EventIn
<1>5. ASSUME NEW p \in Parents, NEW i \in Pieces
      PROVE  [Says("stream", None, i, Nothing) EXCEPT !.parent = p] \in Events
  <2>1. PICK e : e = [Says("stream", None, i, Nothing) EXCEPT !.parent = p]
    OBVIOUS
  <2>2. e \in Shapes /\ IsEvent(e)
    BY <1>1, <2>1 DEF Says, Shapes, IsEvent
  <2> QED BY <2>1, <2>2, EventIn
<1>6. ASSUME NEW p \in Parents, NEW w \in BOOLEAN
      PROVE  [Says("clear", None, 0, w) EXCEPT !.parent = p] \in Events
  <2>1. PICK e : e = [Says("clear", None, 0, w) EXCEPT !.parent = p]
    OBVIOUS
  <2>2. e \in Shapes /\ IsEvent(e)
    BY <1>1, <2>1 DEF Says, Shapes, IsEvent
  <2> QED BY <2>1, <2>2, EventIn
<1>7. ASSUME NEW i \in Pieces, NEW j \in Pieces
      PROVE  Says("display", None, i, j) \in Events
  <2>1. Says("display", None, i, j) \in Shapes /\ IsEvent(Says("display", None, i, j))
    BY <1>1 DEF Says, Shapes, IsEvent
  <2> QED BY <2>1, EventIn
<1> QED BY <1>2, <1>3, <1>4, <1>5, <1>6, <1>7

-----------------------------------------------------------------------------
(* What the store connects the kernel has, or the kernel's close is on its *)
(* way: a step adds the events k to the channel, or takes the first.       *)

Grows(k) ==
  /\ k \in Seq(Events) /\ iopub' = Cat(iopub, k)
  /\ \A i \in 1..Len(k) : k[i].gen = gen /\ (k[i].kind = "open" => kval'[k[i].model] # None)
  /\ \A m \in Models :
       kval[m] # None /\ kval'[m] = None => \E i \in 1..Len(k) : k[i].kind = "close" /\ k[i].model = m

LEMMA CatEvents ==
  ASSUME NEW s \in Seq(Events), NEW t \in Seq(Events)
  PROVE  /\ Cat(s, t) \in Seq(Events) /\ Len(s) \in Nat /\ Len(t) \in Nat
         /\ Len(Cat(s, t)) = Len(s) + Len(t)
         /\ \A i \in 1..Len(s) : i \in 1..Len(Cat(s, t)) /\ Cat(s, t)[i] = s[i]
         /\ \A i \in 1..Len(t) : Len(s) + i \in 1..Len(Cat(s, t)) /\ Cat(s, t)[Len(s) + i] = t[i]
         /\ \A i \in 1..Len(Cat(s, t)) : i \notin 1..Len(s) => i - Len(s) \in 1..Len(t) /\ Cat(s, t)[i] = t[i - Len(s)]
<1>1. Cat(s, t) \in Seq(Events) /\ Len(s) \in Nat /\ Len(t) \in Nat
  BY ConcatProperties, LenProperties DEF Cat
<1>2. /\ Len(Cat(s, t)) = Len(s) + Len(t)
      /\ \A i \in 1..(Len(s) + Len(t)) : Cat(s, t)[i] = IF i <= Len(s) THEN s[i] ELSE t[i - Len(s)]
  BY ConcatProperties DEF Cat
<1>3. ASSUME NEW i \in 1..Len(s)
      PROVE  i \in 1..Len(Cat(s, t)) /\ Cat(s, t)[i] = s[i]
  BY <1>1, <1>2
<1>4. ASSUME NEW i \in 1..Len(t)
      PROVE  Len(s) + i \in 1..Len(Cat(s, t)) /\ Cat(s, t)[Len(s) + i] = t[i]
  <2>1. PICK j \in Nat : j = Len(s) + i
    BY <1>1
  <2>2. j \in 1..(Len(s) + Len(t)) /\ ~(j <= Len(s)) /\ j - Len(s) = i
    BY <1>1, <2>1
  <2>3. Cat(s, t)[j] = t[i]
    BY <1>2, <2>2
  <2> QED BY <1>2, <2>1, <2>2, <2>3
<1>5. ASSUME NEW i \in 1..Len(Cat(s, t)), i \notin 1..Len(s)
      PROVE  i - Len(s) \in 1..Len(t) /\ Cat(s, t)[i] = t[i - Len(s)]
  BY <1>1, <1>2, <1>5
<1> QED BY <1>1, <1>2, <1>3, <1>4, <1>5

LEMMA OpenGrows ==
  ASSUME Core, OpenInv, NEW k, Grows(k), kgen = gen, gen' = gen, kgen' = kgen, st' = st
  PROVE  OpenInv'
<1>1. /\ iopub \in Seq(Events) /\ k \in Seq(Events) /\ gen \in Nat
      /\ iopub' = Cat(iopub, k)
  BY DEF Core, KernelTypes, SettingTypes, Grows
<1>2. PICK s \in Seq(Events) : s = iopub
  BY <1>1
<1>3. PICK p \in Nat : p = Len(s)
  BY <1>2, LenProperties
<1>4. PICK z \in Nat : z = Len(k)
  BY <1>1, LenProperties
<1>5. PICK r : r = Cat(s, k)
  OBVIOUS
<1>6. /\ \A i \in 1..p : i \in 1..Len(r) /\ r[i] = s[i]
      /\ \A i \in 1..z : p + i \in 1..Len(r) /\ r[p + i] = k[i]
      /\ \A i \in 1..Len(r) : i \notin 1..p => i - p \in 1..z /\ r[i] = k[i - p]
      /\ Len(r) \in Nat
  <2>1. r \in Seq(Events) /\ Len(r) = p + z
    BY <1>1, <1>2, <1>3, <1>4, <1>5, CatEvents
  <2>2. \A i \in 1..p : i \in 1..Len(r) /\ r[i] = s[i]
    BY <1>1, <1>2, <1>3, <1>4, <1>5, CatEvents
  <2>3. \A i \in 1..z : p + i \in 1..Len(r) /\ r[p + i] = k[i]
    BY <1>1, <1>2, <1>3, <1>4, <1>5, CatEvents
  <2>4. ASSUME NEW i \in 1..Len(r), i \notin 1..p PROVE i - p \in 1..z /\ r[i] = k[i - p]
    <3>1. i \in 1..Len(Cat(s, k)) /\ i \notin 1..Len(s)
      BY <1>3, <1>5, <2>4
    <3>2. i - Len(s) \in 1..Len(k) /\ Cat(s, k)[i] = k[i - Len(s)]
      BY <1>1, <3>1, CatEvents
    <3> QED BY <1>3, <1>4, <1>5, <3>2
  <2> QED BY <2>1, <2>2, <2>3, <2>4
<1>7. /\ \A i \in 1..z : k[i].gen = gen /\ (k[i].kind = "open" => kval'[k[i].model] # None)
      /\ \A m \in Models :
           kval[m] # None /\ kval'[m] = None => \E i \in 1..z : k[i].kind = "close" /\ k[i].model = m
  BY <1>4 DEF Grows
<1>8. /\ \A i \in 1..p : s[i].gen <= gen
      /\ \A m \in Models : Live(m) => kval[m] # None \/ \E i \in 1..p : Closes(m, i)
      /\ \A m \in Models : \A i \in 1..p : Opens(m, i) => kval[m] # None \/ \E j \in 1..p : i < j /\ Closes(m, j)
  BY <1>2, <1>3 DEF OpenInv
<1>9. iopub' = r /\ gen' = gen
  BY <1>1, <1>2, <1>5
<1>10. ASSUME NEW m \in Models, kval[m] # None, kval'[m] = None
       PROVE  \E j \in 1..Len(r) : ~(j \in 1..p) /\ Closes(m, j)'
  <2>1. PICK i \in 1..z : k[i].kind = "close" /\ k[i].model = m
    BY <1>7, <1>10
  <2>2. PICK j \in Nat : j = p + i
    OBVIOUS
  <2>3. j \in 1..Len(r) /\ r[j] = k[i] /\ ~(j \in 1..p)
    BY <1>6, <2>2
  <2>4. Closes(m, j)'
    BY <1>7, <1>9, <2>1, <2>3 DEF Closes, EventAt
  <2> QED BY <2>3, <2>4
<1>11. ASSUME NEW m \in Models, NEW j \in 1..p
       PROVE  Closes(m, j) => Closes(m, j)'
  BY <1>2, <1>6, <1>9 DEF Closes, EventAt
<1>12. ASSUME NEW i \in 1..Len(r) PROVE r[i].gen <= gen
  <2>1. CASE i \in 1..p
    BY <1>6, <1>8, <2>1
  <2>2. CASE i \notin 1..p
    <3>1. r[i].gen = gen
      BY <1>6, <1>7, <2>2
    <3> QED BY <1>1, <3>1
  <2> QED BY <2>1, <2>2
<1>13. ASSUME NEW m \in Models, Live(m)
       PROVE  kval'[m] # None \/ \E i \in 1..Len(r) : Closes(m, i)'
  BY <1>6, <1>8, <1>10, <1>11, <1>13
<1>14. ASSUME NEW m \in Models, NEW i \in 1..Len(r), Opens(m, i)'
       PROVE  kval'[m] # None \/ \E j \in 1..Len(r) : i < j /\ Closes(m, j)'
  <2>0. r[i].kind = "open" /\ r[i].model = m /\ r[i].gen = gen
    BY <1>9, <1>14 DEF Opens, EventAt
  <2>1. CASE i \in 1..p
    <3>1. Opens(m, i)
      BY <1>2, <1>6, <2>0, <2>1 DEF Opens, EventAt
    <3>2. CASE kval[m] # None
      <4>1. \A j \in 1..Len(r) : ~(j \in 1..p) => i < j
        BY <2>1
      <4> QED BY <1>10, <3>2, <4>1
    <3>3. CASE \E j \in 1..p : i < j /\ Closes(m, j)
      BY <1>6, <1>11, <3>3
    <3> QED BY <1>8, <2>1, <3>1, <3>2, <3>3
  <2>2. CASE i \notin 1..p
    <3>1. i - p \in 1..z /\ r[i] = k[i - p]
      BY <1>6, <2>2
    <3> QED BY <1>7, <2>0, <3>1
  <2> QED BY <2>1, <2>2
<1>15. \A m \in Models : Live(m)' => Live(m)
  BY DEF Live
<1>16. kgen' <= gen' /\ kgen' = gen'
  BY <1>1
<1>17. \A i \in 1..Len(iopub') : iopub'[i].gen <= kgen'
  BY <1>9, <1>12
<1>18. \A m \in Models : Live(m)' => kval'[m] # None \/ \E i \in 1..Len(iopub') : Closes(m, i)'
  BY <1>9, <1>13, <1>15
<1>19. \A m \in Models : \A i \in 1..Len(iopub') :
         Opens(m, i)' => kval'[m] # None \/ \E j \in 1..Len(iopub') : i < j /\ Closes(m, j)'
  BY <1>9, <1>14
<1> QED BY <1>16, <1>17, <1>18, <1>19 DEF OpenInv

LEMMA OpenTakes ==
  ASSUME Core, OpenInv, iopub # <<>>, Takes,
         \A m \in Models : Live(m)' => (Live(m) /\ ~Closes(m, 1)) \/ Opens(m, 1)
  PROVE  OpenInv'
<1>1. gen' = gen /\ kgen' = kgen /\ kval' = kval /\ iopub' = Tail(iopub) /\ gen \in Nat /\ kgen \in Nat
  BY DEF Takes, Core, SettingTypes
<1>2. PICK s \in Seq(Events) : s = iopub
  BY DEF Core, KernelTypes
<1>3. PICK r : r = Tail(s)
  OBVIOUS
<1>4. PICK p \in Nat : p = Len(s)
  BY <1>2, LenProperties
<1>5. r \in Seq(Events) /\ Len(r) = p - 1 /\ \A i \in 1..Len(r) : r[i] = s[i + 1]
  BY <1>2, <1>3, <1>4, HeadEvent DEF Core
<1>6. PICK z \in Nat : z = Len(r)
  BY <1>5, LenProperties
<1>7. \A i \in 1..z : i + 1 \in 1..p /\ r[i] = s[i + 1]
  BY <1>5, <1>6
<1>8. \A i \in 1..p : i # 1 => i - 1 \in 1..z /\ r[i - 1] = s[i]
  BY <1>5, <1>6
<1>9. iopub' = r
  BY <1>1, <1>2, <1>3
<1>10. /\ kgen <= gen /\ \A i \in 1..p : s[i].gen <= kgen
       /\ \A m \in Models : Live(m) => kgen = gen /\ (kval[m] # None \/ \E i \in 1..p : Closes(m, i))
       /\ \A m \in Models : \A i \in 1..p : Opens(m, i) => kval[m] # None \/ \E j \in 1..p : i < j /\ Closes(m, j)
  BY <1>2, <1>4 DEF OpenInv
<1>11. 1 \in 1..p
  BY <1>5, <1>6
<1>12. ASSUME NEW m \in Models, NEW i \in 1..p, i # 1, Closes(m, i)
       PROVE  i - 1 \in 1..z /\ Closes(m, i - 1)'
  <2>1. PICK j : j = i - 1
    OBVIOUS
  <2>2. j \in 1..z /\ r[j] = s[i]
    BY <1>8, <1>12, <2>1
  <2>3. Closes(m, j)'
    BY <1>1, <1>2, <1>9, <1>12, <2>2 DEF Closes, EventAt
  <2> QED BY <2>1, <2>2, <2>3
<1>13. ASSUME NEW m \in Models, Live(m)'
       PROVE  kgen = gen /\ (kval[m] # None \/ \E i \in 1..z : Closes(m, i)')
  <2>1. CASE Live(m) /\ ~Closes(m, 1)
    BY <1>10, <1>12, <2>1
  <2>2. CASE Opens(m, 1)
    <3>1. kval[m] # None \/ \E j \in 1..p : 1 < j /\ Closes(m, j)
      BY <1>10, <1>11, <2>2
    <3>2. kgen = gen
      <4>1. s[1].gen = gen /\ s[1].gen <= kgen
        BY <1>2, <1>10, <1>11, <2>2 DEF Opens
      <4> QED BY <1>1, <1>10, <4>1
    <3>3. \A j \in 1..p : 1 < j => j # 1
      OBVIOUS
    <3> QED BY <1>12, <3>1, <3>2, <3>3
  <2> QED BY <1>13, <2>1, <2>2
<1>14. ASSUME NEW m \in Models, NEW i \in 1..z, Opens(m, i)'
       PROVE  kval[m] # None \/ \E j \in 1..z : i < j /\ Closes(m, j)'
  <2>1. PICK q : q = i + 1
    OBVIOUS
  <2>2. q \in 1..p /\ r[i] = s[q] /\ q = i + 1
    BY <1>7, <2>1
  <2>3. Opens(m, q)
    BY <1>1, <1>2, <1>9, <1>14, <2>2 DEF Opens, EventAt
  <2>4. ASSUME kval[m] = None
        PROVE  \E j \in 1..z : i < j /\ Closes(m, j)'
    <3>1. PICK j \in 1..p : q < j /\ Closes(m, j)
      BY <1>10, <2>2, <2>3, <2>4
    <3>2. j # 1 /\ i < j - 1
      BY <2>2, <3>1
    <3> QED BY <1>12, <3>1, <3>2
  <2> QED BY <2>4
<1>15. \A i \in 1..Len(iopub') : iopub'[i].gen <= kgen'
  BY <1>1, <1>6, <1>7, <1>9, <1>10
<1>16. kgen' <= gen'
  BY <1>1, <1>10
<1>17. \A m \in Models : Live(m)' => kgen' = gen' /\ (kval'[m] # None \/ \E i \in 1..Len(iopub') : Closes(m, i)')
  BY <1>1, <1>6, <1>9, <1>13
<1>18. \A m \in Models : \A i \in 1..Len(iopub') :
         Opens(m, i)' => kval'[m] # None \/ \E j \in 1..Len(iopub') : i < j /\ Closes(m, j)'
  BY <1>1, <1>6, <1>9, <1>14
<1> QED BY <1>15, <1>16, <1>17, <1>18 DEF OpenInv

LEMMA OpenKept ==
  ASSUME OpenInv, UNCHANGED <<gen, kgen, kval, iopub, st>>
  PROVE  OpenInv'
  BY DEF OpenInv, Live, Closes, Opens, EventAt

(* A step of the kernel: it says the events k, and may take a message.     *)
LEMMA KernelActs ==
  ASSUME Core, OpenInv, KeepsStore, kgen = gen, kgen' = kgen, sender' = sender,
         budget' \in Nat, opened' \in SUBSET Models, shell' \in Seq(Messages),
         kmsg' \in [Outs -> Parents \cup {None}],
         DOMAIN kval' = Models, \A m \in Models : kval'[m] \in [AttrsOf(m) -> Vals] \cup {None},
         NEW k, Grows(k)
  PROVE  Core' /\ OpenInv'
<1>1. /\ ModelTypes' /\ CallInv' /\ CaptureTypes' /\ LinkTypes' /\ LockTypes' /\ TimeTypes'
      /\ gen' = gen /\ st' = st
  BY KeepsStoreDoes
<1>2. SettingTypes'
  BY <1>1 DEF Core, SettingTypes
<1>3. iopub' \in Seq(Events)
  BY CatEvents DEF Grows, Core, KernelTypes
<1>4. KernelTypes'
  BY <1>3 DEF KernelTypes
<1>5. Core'
  BY <1>1, <1>2, <1>4 DEF Core
<1>6. OpenInv'
  BY <1>1, OpenGrows
<1> QED BY <1>5, <1>6

(* The kernel's code says one event.                                       *)
LEMMA KernelSays ==
  ASSUME Core, OpenInv, KeepsStore, kgen = gen, UNCHANGED <<sender, kgen, shell>>,
         budget' \in Nat, opened' \in SUBSET Models, kmsg' \in [Outs -> Parents \cup {None}],
         DOMAIN kval' = Models, \A m \in Models : kval'[m] \in [AttrsOf(m) -> Vals] \cup {None},
         NEW e \in Events, iopub' = Append(iopub, e), e.gen = gen,
         e.kind = "open" => kval'[e.model] # None,
         \A m \in Models : kval[m] # None /\ kval'[m] = None => e.kind = "close" /\ e.model = m
  PROVE  Core' /\ OpenInv'
<1> DEFINE k == <<e>>
<1>1. k \in Seq(Events) /\ Len(k) = 1 /\ k[1] = e
  OBVIOUS
<1>2. iopub' = Cat(iopub, k)
  <2>1. Append(iopub, e) = iopub \o <<e>>
    BY AppendIsConcat DEF Core, KernelTypes
  <2> QED BY <2>1 DEF Cat
<1> HIDE DEF k
<1>3. Grows(k)
  <2>1. \A i \in 1..Len(k) : i = 1
    BY <1>1
  <2>2. 1 \in 1..Len(k)
    BY <1>1
  <2> QED BY <1>1, <1>2, <2>1, <2>2 DEF Grows
<1>4. shell' \in Seq(Messages)
  BY DEF Core, KernelTypes
<1> QED BY <1>3, <1>4, KernelActs

LEMMA KernelRunsDoes ==
  ASSUME Core, KernelRuns
  PROVE  KeepsStore /\ kgen = gen /\ UNCHANGED <<sender, kgen, shell>> /\ kgen \in Nat
  BY DEF Core, SettingTypes, KernelRuns

LEMMA KernelCodeDoes ==
  ASSUME Core, KernelCode
  PROVE  KernelRuns /\ budget' \in Nat
<1>1. KernelRuns /\ budget > 0 /\ budget' = budget - 1 /\ budget \in Nat
  BY DEF Core, SettingTypes, KernelCode
<1> QED BY <1>1

(* What the kernel holds, and that a step leaves as it is.                 *)
LEMMA KernelHas ==
  ASSUME Core
  PROVE  /\ DOMAIN kval = Models /\ \A m \in Models : kval[m] \in [AttrsOf(m) -> Vals] \cup {None}
         /\ kmsg \in [Outs -> Parents \cup {None}] /\ opened \in SUBSET Models
         /\ shell \in Seq(Messages) /\ budget \in Nat
  BY DEF Core, KernelTypes, SettingTypes

(* None is not a value.                                                    *)
LEMMA ValueIsThere ==
  ASSUME NEW m \in Models, NEW v \in [AttrsOf(m) -> Vals]
  PROVE  v # None
<1>1. v \in [Attrs -> SUBSET Pieces] \cup [{"outputs"} -> SUBSET Pieces]
  BY DEF AttrsOf, Vals
<1> QED BY <1>1, StoreAssumption

LEMMA KernelOpensStep ==
  ASSUME Core, OpenInv, NEW m \in Models, KernelOpens(m)
  PROVE  Core' /\ OpenInv'
<1>1. /\ KernelRuns /\ budget' = budget /\ opened' = opened \cup {m}
      /\ kval' = [kval EXCEPT ![m] = Blank(m)]
      /\ iopub' = Append(iopub, Says("open", m, 0, Blank(m))) /\ kmsg' = kmsg
  BY DEF KernelOpens
<1>2. PICK e \in Events : e = Says("open", m, 0, Blank(m))
  BY <1>1, SaysTypes, KernelRunsDoes
<1>3. e.gen = kgen /\ e.kind = "open" /\ e.model = m
  BY <1>2 DEF Says
<1>4. Blank(m) \in [AttrsOf(m) -> Vals] /\ Blank(m) # None
  BY BlankType, ValueIsThere
<1>5. DOMAIN kval' = Models /\ \A n \in Models : kval'[n] = IF n = m THEN Blank(m) ELSE kval[n]
  BY <1>1, KernelHas
<1>6. \A n \in Models : kval'[n] \in [AttrsOf(n) -> Vals] \cup {None}
  BY <1>4, <1>5, KernelHas
<1>7. e.kind = "open" => kval'[e.model] # None
  BY <1>3, <1>4, <1>5
<1>8. \A n \in Models : kval[n] # None /\ kval'[n] = None => e.kind = "close" /\ e.model = n
  BY <1>4, <1>5
<1>9. KeepsStore /\ kgen = gen /\ UNCHANGED <<sender, kgen, shell>> /\ e.gen = gen
  BY <1>1, <1>3, KernelRunsDoes
<1>10. budget' \in Nat /\ opened' \in SUBSET Models /\ kmsg' \in [Outs -> Parents \cup {None}]
  BY <1>1, KernelHas
<1>11. iopub' = Append(iopub, e)
  BY <1>1, <1>2
<1> QED BY <1>5, <1>6, <1>7, <1>8, <1>9, <1>10, <1>11, KernelSays

LEMMA KernelClosesStep ==
  ASSUME Core, OpenInv, NEW m \in Models, KernelCloses(m)
  PROVE  Core' /\ OpenInv'
<1>1. /\ KernelCode /\ kval' = [kval EXCEPT ![m] = None]
      /\ iopub' = Append(iopub, Says("close", m, 0, Nothing)) /\ UNCHANGED <<kmsg, opened>>
  BY DEF KernelCloses
<1>2. PICK e \in Events : e = Says("close", m, 0, Nothing)
  BY <1>1, SaysTypes, KernelCodeDoes, KernelRunsDoes
<1>3. e.gen = kgen /\ e.kind = "close" /\ e.model = m
  BY <1>2 DEF Says
<1>4. DOMAIN kval' = Models /\ \A n \in Models : kval'[n] = IF n = m THEN None ELSE kval[n]
  BY <1>1, KernelHas
<1>5. \A n \in Models : kval'[n] \in [AttrsOf(n) -> Vals] \cup {None}
  BY <1>4, KernelHas
<1>6. \A n \in Models : kval[n] # None /\ kval'[n] = None => e.kind = "close" /\ e.model = n
  BY <1>3, <1>4
<1>7. KeepsStore /\ kgen = gen /\ UNCHANGED <<sender, kgen, shell>> /\ e.gen = gen
  BY <1>1, <1>3, KernelCodeDoes, KernelRunsDoes
<1>8. budget' \in Nat /\ opened' \in SUBSET Models /\ kmsg' \in [Outs -> Parents \cup {None}]
  BY <1>1, KernelHas, KernelCodeDoes
<1>9. iopub' = Append(iopub, e) /\ e.kind # "open"
  BY <1>1, <1>2, <1>3
<1> QED BY <1>4, <1>5, <1>6, <1>7, <1>8, <1>9, KernelSays

LEMMA KernelSetsStep ==
  ASSUME Core, OpenInv, NEW m \in Models, NEW upd \in Parts(m), KernelSets(m, upd)
  PROVE  Core' /\ OpenInv'
<1>1. /\ KernelCode /\ kval[m] # None /\ kval' = [kval EXCEPT ![m] = Merge(upd, @)]
      /\ iopub' = Append(iopub, Says("update", m, 0, upd)) /\ UNCHANGED <<kmsg, opened>>
  BY DEF KernelSets
<1>2. PICK e \in Events : e = Says("update", m, 0, upd)
  BY <1>1, SaysTypes, KernelCodeDoes, KernelRunsDoes
<1>3. e.gen = kgen /\ e.kind = "update" /\ e.model = m
  BY <1>2 DEF Says
<1>4. Merge(upd, kval[m]) \in [AttrsOf(m) -> Vals] /\ Merge(upd, kval[m]) # None
  <2>1. PICK w \in [AttrsOf(m) -> Vals] : w = kval[m]
    BY <1>1, KernelHas
  <2>2. Merge(upd, w) \in [AttrsOf(m) -> Vals]
    BY MergeFull
  <2>3. Merge(upd, w) # None
    BY <2>2, ValueIsThere
  <2> QED BY <2>1, <2>2, <2>3
<1>5. DOMAIN kval' = Models /\ \A n \in Models : kval'[n] = IF n = m THEN Merge(upd, kval[m]) ELSE kval[n]
  BY <1>1, KernelHas
<1>6. \A n \in Models : kval'[n] \in [AttrsOf(n) -> Vals] \cup {None}
  BY <1>4, <1>5, KernelHas
<1>7. \A n \in Models : ~(kval[n] # None /\ kval'[n] = None)
  BY <1>4, <1>5
<1>8. KeepsStore /\ kgen = gen /\ UNCHANGED <<sender, kgen, shell>> /\ e.gen = gen
  BY <1>1, <1>3, KernelCodeDoes, KernelRunsDoes
<1>9. budget' \in Nat /\ opened' \in SUBSET Models /\ kmsg' \in [Outs -> Parents \cup {None}]
  BY <1>1, KernelHas, KernelCodeDoes
<1>10. iopub' = Append(iopub, e) /\ e.kind # "open"
  BY <1>1, <1>2, <1>3
<1> QED BY <1>5, <1>6, <1>7, <1>8, <1>9, <1>10, KernelSays

(* The kernel's code says an event and leaves its models as they are.      *)
LEMMA KernelTells ==
  ASSUME Core, OpenInv, KernelCode, UNCHANGED <<kval, opened>>, kmsg' \in [Outs -> Parents \cup {None}],
         NEW e \in Events, iopub' = Append(iopub, e), e.gen = kgen, e.kind # "open"
  PROVE  Core' /\ OpenInv'
<1>1. KeepsStore /\ kgen = gen /\ UNCHANGED <<sender, kgen, shell>>
  BY KernelCodeDoes, KernelRunsDoes
<1>2. budget' \in Nat /\ opened' \in SUBSET Models
  BY KernelHas, KernelCodeDoes
<1>3. DOMAIN kval' = Models /\ \A n \in Models : kval'[n] \in [AttrsOf(n) -> Vals] \cup {None}
  BY KernelHas
<1>4. \A n \in Models : ~(kval[n] # None /\ kval'[n] = None)
  OBVIOUS
<1> QED BY <1>1, <1>2, <1>3, <1>4, KernelSays

LEMMA KernelTellsStep ==
  ASSUME Core, OpenInv,
         \/ \E l \in Links : KernelUnlinks(l) \/ \E e \in Ends : KernelLinks(l, e)
         \/ \E o \in Outs, p \in Parents \cup {None} : KernelCaptures(o, p)
         \/ \E p \in Parents : \/ \E i \in Pieces : KernelPrints(p, i)
                               \/ \E wait \in BOOLEAN : KernelClears(p, wait)
         \/ \E i, j \in Pieces : KernelDisplays(i, j)
  PROVE  Core' /\ OpenInv'
<1>0. kmsg \in [Outs -> Parents \cup {None}] /\ kgen \in Nat
  BY KernelHas DEF Core, SettingTypes
<1>1. ASSUME NEW l \in Links, KernelUnlinks(l)
      PROVE  Core' /\ OpenInv'
  <2>1. PICK e \in Events : e = Says("unlink", l, 0, Nothing)
    BY <1>0, SaysOthers
  <2>2. KernelCode /\ UNCHANGED <<kval, kmsg, opened>> /\ iopub' = Append(iopub, e)
    BY <1>1, <2>1 DEF KernelUnlinks
  <2>3. e.gen = kgen /\ e.kind # "open"
    BY <2>1 DEF Says
  <2> QED BY <1>0, <2>2, <2>3, KernelTells
<1>2. ASSUME NEW l \in Links, NEW g \in Ends, KernelLinks(l, g)
      PROVE  Core' /\ OpenInv'
  <2>1. PICK e \in Events : e = Says("link", l, 0, g)
    BY <1>0, SaysOthers
  <2>2. KernelCode /\ UNCHANGED <<kval, kmsg, opened>> /\ iopub' = Append(iopub, e)
    BY <1>2, <2>1 DEF KernelLinks
  <2>3. e.gen = kgen /\ e.kind # "open"
    BY <2>1 DEF Says
  <2> QED BY <1>0, <2>2, <2>3, KernelTells
<1>3. ASSUME NEW o \in Outs, NEW p \in Parents \cup {None}, KernelCaptures(o, p)
      PROVE  Core' /\ OpenInv'
  <2>1. PICK e \in Events : e = [Says("capture", o, 0, Nothing) EXCEPT !.parent = p]
    BY <1>0, SaysOthers
  <2>2. KernelCode /\ UNCHANGED <<kval, opened>> /\ iopub' = Append(iopub, e)
    BY <1>3, <2>1 DEF KernelCaptures
  <2>3. kmsg' \in [Outs -> Parents \cup {None}]
    BY <1>0, <1>3 DEF KernelCaptures
  <2>4. e.gen = kgen /\ e.kind # "open"
    BY <2>1 DEF Says
  <2> QED BY <2>2, <2>3, <2>4, KernelTells
<1>4. ASSUME NEW p \in Parents, NEW i \in Pieces, KernelPrints(p, i)
      PROVE  Core' /\ OpenInv'
  <2>1. PICK e \in Events : e = [Says("stream", None, i, Nothing) EXCEPT !.parent = p]
    BY <1>0, SaysOthers
  <2>2. KernelCode /\ UNCHANGED <<kval, kmsg, opened>> /\ iopub' = Append(iopub, e)
    BY <1>4, <2>1 DEF KernelPrints
  <2>3. e.gen = kgen /\ e.kind # "open"
    BY <2>1 DEF Says
  <2> QED BY <1>0, <2>2, <2>3, KernelTells
<1>5. ASSUME NEW p \in Parents, NEW w \in BOOLEAN, KernelClears(p, w)
      PROVE  Core' /\ OpenInv'
  <2>1. PICK e \in Events : e = [Says("clear", None, 0, w) EXCEPT !.parent = p]
    BY <1>0, SaysOthers
  <2>2. KernelCode /\ UNCHANGED <<kval, kmsg, opened>> /\ iopub' = Append(iopub, e)
    BY <1>5, <2>1 DEF KernelClears
  <2>3. e.gen = kgen /\ e.kind # "open"
    BY <2>1 DEF Says
  <2> QED BY <1>0, <2>2, <2>3, KernelTells
<1>6. ASSUME NEW i \in Pieces, NEW j \in Pieces, KernelDisplays(i, j)
      PROVE  Core' /\ OpenInv'
  <2>1. PICK e \in Events : e = Says("display", None, i, j)
    BY <1>0, SaysOthers
  <2>2. KernelCode /\ UNCHANGED <<kval, kmsg, opened>> /\ iopub' = Append(iopub, e)
    BY <1>6, <2>1 DEF KernelDisplays
  <2>3. e.gen = kgen /\ e.kind # "open"
    BY <2>1 DEF Says
  <2> QED BY <1>0, <2>2, <2>3, KernelTells
<1> QED BY <1>1, <1>2, <1>3, <1>4, <1>5, <1>6

(* What the kernel answers a message with.                                 *)
Answers == {e \in Events : e.gen = kgen /\ e.kind # "open"}

LEMMA AnswersAreEvents ==
  ASSUME NEW x \in Seq(Answers)
  PROVE  x \in Seq(Events)
<1>1. Len(x) \in Nat /\ x \in [1..Len(x) -> Answers]
  BY LenProperties
<1>2. x \in [1..Len(x) -> Events]
  BY <1>1 DEF Answers
<1> QED BY <1>1, <1>2, SeqDef

LEMMA RegroupEvents ==
  \A w, x, y, z \in Seq(Events) : Cat(Cat(Cat(w, x), y), z) = Cat(w, Cat(Cat(x, y), z))
<1>1. \A x, y \in Seq(Events) : Cat(x, y) \in Seq(Events)
  BY ConcatProperties DEF Cat
<1>2. \A x, y, z \in Seq(Events) : Cat(Cat(x, y), z) = Cat(x, Cat(y, z))
  BY ConcatAssociative DEF Cat
<1> QED BY <1>1, <1>2

LEMMA AnswersGrow ==
  ASSUME Core, kgen = gen, NEW k \in Seq(Answers), iopub' = Cat(iopub, k),
         \A m \in Models : ~(kval[m] # None /\ kval'[m] = None)
  PROVE  Grows(k)
<1>1. \A i \in 1..Len(k) : k[i] \in Answers
  BY ElementOfSeq
<1>2. k \in Seq(Events)
  BY AnswersAreEvents
<1> QED BY <1>1, <1>2 DEF Grows, Answers

LEMMA MessageIs ==
  ASSUME NEW s \in Messages
  PROVE  /\ s.model \in Models \cup {None} /\ s.n \in Nat
         /\ s.kind \in {"update", "flush"} => s.model \in Models /\ s.upd \in Parts(s.model)
<1>1. CASE s \in [kind : {"custom", "execute"}, model : Models \cup {None}, n : Nat, upd : {Nothing}]
  BY <1>1
<1>2. CASE \E m \in Models : s \in [kind : {"update", "flush"}, model : {m}, n : Nat, upd : Parts(m)]
  BY <1>2
<1> QED BY <1>1, <1>2 DEF Messages

(* What a few events make.                                                *)
LEMMA OneOf ==
  ASSUME NEW S, NEW x \in S
  PROVE  /\ <<>> \o <<>> \o <<x>> \in Seq(S) /\ Len(<<>> \o <<>> \o <<x>>) = 1
         /\ (<<>> \o <<>> \o <<x>>)[1] = x
<1>1. <<>> \o <<>> \o <<x>> = <<x>>
  OBVIOUS
<1>2. <<x>> \in Seq(S) /\ Len(<<x>>) = 1 /\ <<x>>[1] = x
  OBVIOUS
<1> QED BY <1>1, <1>2, Zenon

LEMMA TwoOf ==
  ASSUME NEW S, NEW x \in S, NEW z \in S
  PROVE  /\ <<x>> \o <<z>> \in Seq(S) /\ Len(<<x>> \o <<z>>) = 2
         /\ (<<x>> \o <<z>>)[1] = x /\ (<<x>> \o <<z>>)[2] = z
<1>1. PICK s : s = <<x>>
  OBVIOUS
<1>2. PICK t : t = <<z>>
  OBVIOUS
<1>3. s \in Seq(S) /\ t \in Seq(S) /\ Len(s) = 1 /\ Len(t) = 1 /\ s[1] = x /\ t[1] = z
  BY <1>1, <1>2
<1>4. /\ s \o t \in Seq(S) /\ Len(s \o t) = Len(s) + Len(t)
      /\ \A i \in 1 .. Len(s) + Len(t) : (s \o t)[i] = IF i <= Len(s) THEN s[i] ELSE t[i - Len(s)]
  BY <1>3, ConcatProperties
<1>5. /\ Len(s \o t) = 2 /\ (s \o t)[1] = x /\ (s \o t)[2] = z
  BY <1>3, <1>4
<1> QED BY <1>1, <1>2, <1>4, <1>5, Zenon

LEMMA ThreeOf ==
  ASSUME NEW S, NEW x \in S, NEW y \in S, NEW z \in S
  PROVE  /\ <<x>> \o <<y>> \o <<z>> \in Seq(S) /\ Len(<<x>> \o <<y>> \o <<z>>) = 3
         /\ (<<x>> \o <<y>> \o <<z>>)[1] = x /\ (<<x>> \o <<y>> \o <<z>>)[2] = y /\ (<<x>> \o <<y>> \o <<z>>)[3] = z
<1>1. PICK s : s = <<x>> \o <<y>> /\ s \in Seq(S) /\ Len(s) = 2 /\ s[1] = x /\ s[2] = y
  <2>1. /\ <<x>> \o <<y>> \in Seq(S) /\ Len(<<x>> \o <<y>>) = 2
        /\ (<<x>> \o <<y>>)[1] = x /\ (<<x>> \o <<y>>)[2] = y
    BY TwoOf
  <2> QED BY <2>1, Zenon
<1>2. PICK t : t = <<z>>
  OBVIOUS
<1>3. t \in Seq(S) /\ Len(t) = 1 /\ t[1] = z
  BY <1>2
<1>4. /\ s \o t \in Seq(S) /\ Len(s \o t) = Len(s) + Len(t)
      /\ \A i \in 1 .. Len(s) + Len(t) : (s \o t)[i] = IF i <= Len(s) THEN s[i] ELSE t[i - Len(s)]
  BY <1>1, <1>3, ConcatProperties
<1>5. /\ Len(s \o t) = 3 /\ (s \o t)[1] = x /\ (s \o t)[2] = y /\ (s \o t)[3] = z
  BY <1>1, <1>3, <1>4
<1> QED BY <1>1, <1>2, <1>4, <1>5, Zenon

(* What the message s changes of its model; what the kernel's code sets.   *)
Applied(s) == IF s.kind \in {"update", "flush"} /\ s.model # None /\ kval[s.model] # None THEN s.upd ELSE Nothing
Fixes(fix, s) == [x \in IF fix = None THEN {} ELSE DOMAIN Applied(s) |-> fix]

LEMMA FixesParts ==
  ASSUME NEW fix \in Vals \cup {None}, NEW s \in Messages
  PROVE  /\ s.model = None => Applied(s) = Nothing
         /\ Applied(s) = Nothing => Fixes(fix, s) = Nothing
         /\ s.model # None => s.model \in Models /\ Applied(s) \in Parts(s.model) /\ Fixes(fix, s) \in Parts(s.model)
<1>1. s.model = None => Applied(s) = Nothing
  BY DEF Applied
<1>2. Applied(s) = Nothing => Fixes(fix, s) = Nothing
  <2>1. ASSUME Applied(s) = Nothing PROVE (IF fix = None THEN {} ELSE DOMAIN Applied(s)) = {}
    BY <2>1, NothingParts
  <2> QED BY <2>1 DEF Fixes, Nothing
<1>3. s.model # None => s.model \in Models /\ Applied(s) \in Parts(s.model)
  BY MessageIs, NothingParts DEF Applied
<1>4. ASSUME s.model # None PROVE Fixes(fix, s) \in Parts(s.model)
  <2>1. PICK S \in SUBSET AttrsOf(s.model) : Applied(s) \in [S -> Vals]
    BY <1>3, <1>4 DEF Parts
  <2>2. CASE fix = None
    <3>1. Fixes(fix, s) = Nothing
      BY <2>2 DEF Fixes, Nothing
    <3> QED BY <3>1, NothingParts
  <2>3. CASE fix # None
    <3>1. Fixes(fix, s) = [x \in S |-> fix] /\ fix \in Vals
      BY <2>1, <2>3 DEF Fixes
    <3>2. Fixes(fix, s) \in [S -> Vals]
      BY <3>1
    <3> QED BY <2>1, <3>2 DEF Parts
  <2> QED BY <2>2, <2>3
<1> QED BY <1>1, <1>2, <1>3, <1>4

(* The events it answers with: the echo, then the change, then the idle.   *)
Replies(fix, s, k) ==
  /\ \A j \in 1..Len(k) :
       \/ /\ j = 1 /\ k[j].kind = "echo" /\ s.kind \in {"update", "flush"} /\ k[j].model = s.model
          /\ k[j].n = s.n /\ k[j].upd = Applied(s) /\ s.upd = Applied(s)
       \/ j = 2 /\ k[j].kind = "update" /\ k[j].model = s.model /\ k[j].upd = Fixes(fix, s)
       \/ k[j].kind = "idle" /\ s.model # None /\ k[j].model = s.model /\ k[j].n = s.n
  /\ Applied(s) # Nothing => 1 \in 1..Len(k) /\ k[1].kind = "echo"
  /\ Fixes(fix, s) # Nothing => 2 \in 1..Len(k) /\ k[2].kind = "update"

LEMMA AnswerIs ==
  ASSUME Core, NEW fix \in Vals \cup {None}, KernelHandles(fix)
  PROVE  /\ shell # <<>> /\ Head(shell) \in Messages
         /\ \E k \in Seq(Answers) : iopub' = Cat(iopub, k) /\ Replies(fix, Head(shell), k)
<1>0. shell \in Seq(Messages) /\ kgen \in Nat /\ iopub \in Seq(Events) /\ shell # <<>>
  BY KernelHas DEF Core, SettingTypes, KernelTypes, KernelHandles
<1>1. PICK s \in Messages : s = Head(shell)
  BY <1>0, HeadTailProperties
<1>2. PICK m \in Models \cup {None} : m = s.model
  BY MessageIs
<1>3. PICK upd : upd = Applied(s)
  OBVIOUS
<1>4. PICK fixed : fixed = Fixes(fix, s)
  OBVIOUS
<1>5. /\ m = None => upd = Nothing
      /\ upd = Nothing => fixed = Nothing
      /\ m # None => m \in Models /\ upd \in Parts(m) /\ fixed \in Parts(m)
  BY <1>2, <1>3, <1>4, FixesParts
<1>6. PICK e : e = Says("echo", m, s.n, upd)
  OBVIOUS
<1>7. PICK u : u = Says("update", m, 0, fixed)
  OBVIOUS
<1>8. PICK i : i = Says("idle", m, s.n, Nothing)
  OBVIOUS
<1>9. m # None => e \in Answers /\ u \in Answers /\ i \in Answers
  <2>1. ASSUME m # None PROVE e \in Events /\ u \in Events /\ i \in Events
    BY <1>0, <1>5, <1>6, <1>7, <1>8, <2>1, MessageIs, SaysTypes
  <2> QED BY <1>6, <1>7, <1>8, <2>1 DEF Answers, Says
<1>10. iopub' = iopub \o (IF upd = Nothing THEN <<>> ELSE <<e>>) \o (IF fixed = Nothing THEN <<>> ELSE <<u>>)
                      \o (IF m = None THEN <<>> ELSE <<i>>)
  BY <1>1, <1>2, <1>3, <1>4, <1>6, <1>7, <1>8, Zenon DEF KernelHandles, Applied, Fixes
<1>11. /\ e.kind = "echo" /\ e.model = m /\ e.n = s.n /\ e.upd = upd
       /\ u.kind = "update" /\ u.model = m /\ u.upd = fixed
       /\ i.kind = "idle" /\ i.model = m /\ i.n = s.n
  BY <1>6, <1>7, <1>8 DEF Says
<1>12. upd # Nothing => s.kind \in {"update", "flush"} /\ s.upd = upd
  BY <1>3 DEF Applied
<1>13. ASSUME NEW A \in Seq(Answers), NEW B \in Seq(Answers), NEW C \in Seq(Answers)
       PROVE  iopub \o A \o B \o C = Cat(iopub, A \o B \o C)
  <2>2. A \in Seq(Events) /\ B \in Seq(Events) /\ C \in Seq(Events)
    BY AnswersAreEvents
  <2>3. iopub \o A \o B \o C = Cat(Cat(Cat(iopub, A), B), C)
    BY DEF Cat
  <2>4. A \o B \o C = Cat(Cat(A, B), C)
    BY DEF Cat
  <2> QED BY <1>0, <2>2, <2>3, <2>4, RegroupEvents
<1>14. <<>> \in Seq(Answers) /\ \A x \in Answers : <<x>> \in Seq(Answers)
  BY EmptySeq
<1>15. CASE m = None
  <2>1. PICK k : k = <<>> \o <<>> \o <<>>
    OBVIOUS
  <2>2. iopub' = Cat(iopub, k)
    BY <1>5, <1>10, <1>13, <1>14, <1>15, <2>1
  <2>3. k = <<>>
    BY <2>1
  <2>4. Replies(fix, s, k)
    BY <1>2, <1>3, <1>4, <1>5, <1>15, <2>3 DEF Replies
  <2> QED BY <1>0, <1>1, <1>14, <2>2, <2>3, <2>4
<1>16. CASE m # None /\ upd = Nothing
  <2>1. PICK k : k = <<>> \o <<>> \o <<i>>
    OBVIOUS
  <2>2. iopub' = Cat(iopub, k)
    BY <1>5, <1>9, <1>10, <1>13, <1>14, <1>16, <2>1
  <2>3. k \in Seq(Answers) /\ Len(k) = 1 /\ k[1] = i
    BY <1>9, <1>16, <2>1, OneOf
  <2>4. Replies(fix, s, k)
    BY <1>2, <1>3, <1>4, <1>5, <1>11, <1>16, <2>3 DEF Replies
  <2> QED BY <1>0, <1>1, <2>2, <2>3, <2>4
<1>17. CASE m # None /\ upd # Nothing /\ fixed = Nothing
  <2>1. PICK k : k = <<e>> \o <<>> \o <<i>>
    OBVIOUS
  <2>2. iopub' = Cat(iopub, k)
    BY <1>9, <1>10, <1>13, <1>14, <1>17, <2>1
  <2>3. <<e>> \o <<>> = <<e>>
    OBVIOUS
  <2>4. k \in Seq(Answers) /\ Len(k) = 2 /\ k[1] = e /\ k[2] = i
    BY <1>9, <1>17, <2>1, <2>3, TwoOf
  <2>5. Replies(fix, s, k)
    BY <1>2, <1>3, <1>4, <1>11, <1>12, <1>17, <2>4 DEF Replies
  <2> QED BY <1>0, <1>1, <2>2, <2>4, <2>5
<1>18. CASE m # None /\ upd # Nothing /\ fixed # Nothing
  <2>1. PICK k : k = <<e>> \o <<u>> \o <<i>>
    OBVIOUS
  <2>2. iopub' = Cat(iopub, k)
    BY <1>9, <1>10, <1>13, <1>14, <1>18, <2>1
  <2>3. k \in Seq(Answers) /\ Len(k) = 3 /\ k[1] = e /\ k[2] = u /\ k[3] = i
    BY <1>9, <1>18, <2>1, ThreeOf
  <2>4. Replies(fix, s, k)
    BY <1>2, <1>3, <1>4, <1>11, <1>12, <1>18, <2>3 DEF Replies
  <2> QED BY <1>0, <1>1, <2>2, <2>3, <2>4
<1> QED BY <1>5, <1>15, <1>16, <1>17, <1>18

LEMMA KernelHandlesStep ==
  ASSUME Core, OpenInv, NEW fix \in Vals \cup {None}, KernelHandles(fix)
  PROVE  Core' /\ OpenInv'
<1>0. /\ DOMAIN kval = Models /\ \A n \in Models : kval[n] \in [AttrsOf(n) -> Vals] \cup {None}
      /\ kmsg \in [Outs -> Parents \cup {None}] /\ opened \in SUBSET Models
      /\ shell \in Seq(Messages) /\ budget \in Nat /\ kgen \in Nat
  BY KernelHas DEF Core, SettingTypes
<1>1. PICK s \in Messages : s = Head(shell)
  BY AnswerIs
<1>2. PICK k \in Seq(Answers) : iopub' = Cat(iopub, k)
  BY AnswerIs
<1>3. PICK upd : upd = Applied(s)
  OBVIOUS
<1>4. PICK fixed : fixed = Fixes(fix, s)
  OBVIOUS
<1>5. PICK m \in Models \cup {None} : m = s.model
  BY MessageIs
<1>6. PICK known \in BOOLEAN : known = (m # None /\ kval[m] # None)
  OBVIOUS
<1>7. /\ kgen = gen /\ KeepsStore /\ UNCHANGED <<sender, kgen, kmsg, opened>>
      /\ kval' = (IF known THEN [kval EXCEPT ![m] = Merge(fixed, Merge(upd, @))] ELSE kval)
      /\ fix # None => fixed # Nothing /\ budget > 0
      /\ budget' = IF fix = None THEN budget ELSE budget - 1
      /\ shell # <<>> /\ shell' = Tail(shell)
  BY <1>1, <1>3, <1>4, <1>5, <1>6, Zenon DEF KernelHandles, Applied, Fixes
<1>8. m # None => m \in Models /\ upd \in Parts(m) /\ fixed \in Parts(m)
  BY <1>3, <1>4, <1>5, FixesParts
<1>9. known => m \in Models /\ Merge(fixed, Merge(upd, kval[m])) \in [AttrsOf(m) -> Vals]
  <2>1. ASSUME known PROVE m \in Models /\ Merge(fixed, Merge(upd, kval[m])) \in [AttrsOf(m) -> Vals]
    <3>1. m \in Models /\ kval[m] \in [AttrsOf(m) -> Vals] /\ upd \in Parts(m) /\ fixed \in Parts(m)
      BY <1>0, <1>6, <1>8, <2>1
    <3>2. PICK w \in [AttrsOf(m) -> Vals] : w = Merge(upd, kval[m])
      BY <3>1, MergeFull
    <3>3. Merge(fixed, w) \in [AttrsOf(m) -> Vals]
      BY <3>1, MergeFull
    <3> QED BY <3>1, <3>2, <3>3
  <2> QED BY <2>1
<1>10. /\ DOMAIN kval' = Models
       /\ \A n \in Models : kval'[n] = IF known /\ n = m THEN Merge(fixed, Merge(upd, kval[m])) ELSE kval[n]
  BY <1>0, <1>7, <1>9
<1>11. \A n \in Models : kval'[n] \in [AttrsOf(n) -> Vals] \cup {None}
  BY <1>0, <1>9, <1>10
<1>12. \A n \in Models : ~(kval[n] # None /\ kval'[n] = None)
  BY <1>9, <1>10, ValueIsThere
<1>13. Grows(k)
  BY <1>2, <1>7, <1>12, AnswersGrow
<1>14. budget' \in Nat
  BY <1>0, <1>7
<1>15. shell' \in Seq(Messages)
  BY <1>0, <1>7, HeadTailProperties
<1> QED BY <1>0, <1>7, <1>10, <1>11, <1>13, <1>14, <1>15, KernelActs

-----------------------------------------------------------------------------
(* The steps that take an event, or start and end a kernel.                *)

LEMMA EventTakes ==
  ASSUME NEW kind, Event(kind)
  PROVE  iopub # <<>> /\ Takes /\ iopub[1].kind = kind /\ iopub[1].gen = gen
  BY DEF Event, Takes, Current

LEMMA PumpKeepsLive ==
  ASSUME Core, OpenInv, NEW kind, Event(kind), kind # "close", st' = st
  PROVE  OpenInv'
<1>1. iopub # <<>> /\ Takes /\ iopub[1].kind = kind
  BY EventTakes
<1>2. \A m \in Models : Live(m)' => Live(m) /\ ~Closes(m, 1)
  BY <1>1 DEF Live, Closes, EventAt
<1> QED BY <1>1, <1>2, OpenTakes

LEMMA StaleEventOpen ==
  ASSUME Core, OpenInv, StaleEvent
  PROVE  OpenInv'
<1>1. iopub # <<>> /\ Takes /\ iopub[1].gen # gen /\ st' = st
  BY DEF StaleEvent, Takes, Current, Drops, modelVars
<1>2. \A m \in Models : Live(m)' => Live(m) /\ ~Closes(m, 1)
  BY <1>1 DEF Live, Closes
<1> QED BY <1>1, <1>2, OpenTakes

LEMMA CommOpenOpen ==
  ASSUME Core, OpenInv, CommOpen
  PROVE  OpenInv'
<1>1. iopub # <<>> /\ Takes /\ iopub[1].kind = "open" /\ iopub[1].gen = gen
  BY EventTakes DEF CommOpen
<1>2. PICK m : m = Head(iopub).model
  OBVIOUS
<1>3. st' = [st EXCEPT ![m] = "live"] /\ m = iopub[1].model
  <2>1. st' = [st EXCEPT ![Head(iopub).model] = "live"]
    BY DEF CommOpen
  <2> QED BY <1>2, <2>1
<1>4. \A n \in Models : Live(n)' => (Live(n) /\ ~Closes(n, 1)) \/ Opens(n, 1)
  BY <1>1, <1>3 DEF Core, ModelTypes, Live, Closes, Opens, EventAt
<1> QED BY <1>1, <1>4, OpenTakes

LEMMA CommCloseOpen ==
  ASSUME Core, OpenInv, CommClose
  PROVE  OpenInv'
<1>1. iopub # <<>> /\ Takes
  BY EventTakes DEF CommClose
<1>2. PICK m : m = iopub[1].model
  OBVIOUS
<1>3. (st[m] = "none" /\ st' = st) \/ st' = [st EXCEPT ![m] = "none"]
  BY <1>2 DEF CommClose, Drops, modelVars
<1>4. \A n \in Models : Live(n)' => Live(n) /\ n # m
  BY <1>3 DEF Core, ModelTypes, Live
<1>5. \A n \in Models : Live(n)' => Live(n) /\ ~Closes(n, 1)
  BY <1>2, <1>4 DEF Closes, EventAt
<1> QED BY <1>1, <1>5, OpenTakes

LEMMA PumpOpen ==
  ASSUME Core, OpenInv, Pump
  PROVE  OpenInv'
<1>1. CASE LinkOpen \/ LinkClose
  <2>1. \E kind \in {"link", "unlink"} : Event(kind) /\ st' = st
    BY <1>1 DEF LinkOpen, LinkClose, modelVars
  <2> QED BY <2>1, PumpKeepsLive
<1>2. CASE KernelUpdate
  <2>1. Event("update") /\ st' = st
    BY <1>2 DEF KernelUpdate, Drops, modelVars
  <2> QED BY <2>1, PumpKeepsLive
<1>3. CASE CaptureUpdate
  <2>1. Event("capture") /\ st' = st
    BY <1>3 DEF CaptureUpdate, Drops, modelVars
  <2> QED BY <2>1, PumpKeepsLive
<1>4. CASE KernelEcho
  <2>1. Event("echo") /\ st' = st
    BY <1>4 DEF KernelEcho, Drops, modelVars
  <2> QED BY <2>1, PumpKeepsLive
<1>5. CASE Idle
  <2>1. Event("idle") /\ st' = st
    BY <1>5 DEF Idle
  <2> QED BY <2>1, PumpKeepsLive
<1>6. CASE RouteOutput \/ RouteClear \/ UpdateDisplay
  <2>1. \E kind \in {"stream", "clear", "display"} : Event(kind) /\ st' = st
    BY <1>6 DEF RouteOutput, RouteClear, UpdateDisplay, Captured
  <2> QED BY <2>1, PumpKeepsLive
<1> QED BY <1>1, <1>2, <1>3, <1>4, <1>5, <1>6, StaleEventOpen, CommOpenOpen, CommCloseOpen DEF Pump

LEMMA StartOpen ==
  ASSUME Core, OpenInv, Start
  PROVE  OpenInv'
<1>1. gen # kgen /\ gen' = gen /\ kgen' = gen /\ iopub' = iopub /\ st' = st
  BY DEF Start, KeepsStore, modelVars
<1>2. gen \in Nat /\ kgen \in Nat /\ kgen <= gen
  BY DEF Core, SettingTypes, OpenInv
<1>3. \A i \in 1..Len(iopub) : iopub[i].gen \in Nat
  <2>1. iopub \in Seq(Events)
    BY DEF Core, KernelTypes
  <2>2. \A i \in 1..Len(iopub) : iopub[i] \in Events
    BY <2>1, ElementOfSeq
  <2> QED BY <2>2 DEF Events, IsEvent
<1>4. \A i \in 1..Len(iopub) : iopub[i].gen <= kgen /\ iopub[i].gen # gen /\ iopub[i].gen <= gen
  BY <1>1, <1>2, <1>3 DEF OpenInv
<1>5. \A m \in Models : ~Live(m)'
  BY <1>1 DEF OpenInv, Live
<1>6. \A m \in Models : \A i \in 1..Len(iopub') : ~Opens(m, i)'
  BY <1>1, <1>4 DEF Opens
<1>7. kgen' <= gen' /\ \A i \in 1..Len(iopub') : iopub'[i].gen <= kgen'
  BY <1>1, <1>2, <1>4
<1> QED BY <1>5, <1>6, <1>7 DEF OpenInv

LEMMA ResetOpen ==
  ASSUME Core, OpenInv, NEW keep \in SUBSET Models, Reset(keep)
  PROVE  OpenInv'
<1>1. /\ gen' = gen + 1 /\ kgen' = kgen /\ iopub' = iopub
      /\ st' = [m \in Models |-> IF st[m] # "none" /\ m \in keep THEN "dead" ELSE "none"]
  BY DEF Reset
<1>2. gen \in Nat /\ kgen \in Nat /\ kgen <= gen
  BY DEF Core, SettingTypes, OpenInv
<1>3. \A i \in 1..Len(iopub) : iopub[i].gen \in Nat
  <2>1. iopub \in Seq(Events)
    BY DEF Core, KernelTypes
  <2>2. \A i \in 1..Len(iopub) : iopub[i] \in Events
    BY <2>1, ElementOfSeq
  <2> QED BY <2>2 DEF Events, IsEvent
<1>4. \A i \in 1..Len(iopub) : iopub[i].gen <= kgen /\ iopub[i].gen # gen + 1
  BY <1>2, <1>3 DEF OpenInv
<1>5. \A m \in Models : ~Live(m)'
  BY <1>1 DEF Live
<1>6. \A m \in Models : \A i \in 1..Len(iopub') : ~Opens(m, i)'
  BY <1>1, <1>4 DEF Opens
<1>7. kgen' <= gen' /\ \A i \in 1..Len(iopub') : iopub'[i].gen <= kgen'
  BY <1>1, <1>2, <1>4
<1> QED BY <1>5, <1>6, <1>7 DEF OpenInv
-----------------------------------------------------------------------------
(* What the proofs of the store rest on.                                   *)
StoreProofInv == Core /\ OpenInv

LEMMA InitStore ==
  ASSUME Init
  PROVE  StoreProofInv
<1>1. SettingTypes
  BY StoreAssumption DEF Init, SettingTypes
<1>2. ModelTypes
  <2>1. \A m \in Models : Blank(m) \in [AttrsOf(m) -> Vals]
    BY BlankType
  <2> QED BY <2>1 DEF Init, ModelTypes
<1>3. ExpectTypes /\ IdTypes /\ OutTypes
  BY DEF Init, ExpectTypes, IdTypes, OutTypes
<1>4. HeldTypes
  BY NothingParts DEF Init, HeldTypes
<1>5. FxTypes
  <2>1. fx = [a \in Actors |-> <<>>]
    BY DEF Init
  <2> QED BY <2>1, EmptySeq DEF FxTypes
<1>6. HoldInv /\ CaptureInv
  BY DEF Init, HoldInv, CaptureInv
<1>7. CaptureTypes
  <2>1. capture = [p \in Parents |-> <<>>] /\ clearing = {}
    BY DEF Init
  <2> QED BY <2>1, EmptySeq DEF CaptureTypes
<1>8. LinkTypes
  <2>1. links = <<>> /\ ends = [l \in Links |-> None]
    BY DEF Init
  <2> QED BY <2>1, EmptySeq DEF LinkTypes
<1>9. LockTypes
  <2>1. holder = None /\ apply = <<>> /\ todo = <<>> /\ steps = 0
    BY DEF Init
  <2> QED BY <2>1, EmptySeq, StoreAssumption DEF LockTypes
<1>10. TimeTypes
  BY DEF Init, TimeTypes
<1>11. KernelTypes
  <2>1. kval = [m \in Models |-> None] /\ kmsg = [o \in Outs |-> None] /\ shell = <<>> /\ iopub = <<>>
    BY DEF Init
  <2> QED BY <2>1, EmptySeq DEF KernelTypes
<1>12. OpenInv
  BY DEF Init, OpenInv, Live
<1> QED BY <1>1, <1>2, <1>3, <1>4, <1>5, <1>6, <1>7, <1>8, <1>9, <1>10, <1>11, <1>12
     DEF StoreProofInv, Core, CallInv, CallTypes

LEMMA StoreKept ==
  ASSUME StoreProofInv, UNCHANGED vars
  PROVE  StoreProofInv'
<1>1. KeepsStore /\ UNCHANGED <<sender, kernelVars, budget>>
  BY DEF vars, KeepsStore
<1>2. SettingTypes' /\ KernelTypes'
  BY <1>1 DEF StoreProofInv, Core, SettingTypes, KernelTypes, KeepsStore, kernelVars
<1>3. Core'
  BY <1>1, <1>2, KeepsStoreDoes DEF StoreProofInv, Core
<1>4. OpenInv'
  BY <1>1, OpenKept DEF StoreProofInv, KeepsStore, kernelVars, modelVars
<1> QED BY <1>3, <1>4 DEF StoreProofInv

LEMMA StoreStep ==
  ASSUME StoreProofInv, Next
  PROVE  StoreProofInv'
<1>0. Core /\ OpenInv
  BY DEF StoreProofInv
<1>1. CASE Store
  <2>1. Core'
    BY <1>0, <1>1, ApplyLinkStep, PropagateStep DEF Store
  <2>2. LockKeeps
    BY <1>1 DEF Store, ApplyLink, Propagate
  <2>3. OpenInv'
    BY <1>0, <2>2, OpenKept DEF LockKeeps, kernelVars
  <2> QED BY <2>1, <2>3 DEF StoreProofInv
<1>2. CASE Pump
  <2>1. Core'
    BY <1>0, <1>2, StaleEventStep, CommOpenStep, CommCloseStep, LinkOpenStep, LinkCloseStep, KernelUpdateStep,
       CaptureUpdateStep, KernelEchoStep, IdleStep, RouteOutputStep, RouteClearStep, UpdateDisplayStep DEF Pump
  <2> QED BY <1>0, <1>2, <2>1, PumpOpen DEF StoreProofInv
<1>3. CASE Frontend
  <2>1. Core'
    BY <1>0, <1>3, FrontendUpdateStep, FrontendCustomStep, ExecuteStep DEF Frontend
  <2>2. UNCHANGED <<gen, st, kernelVars>>
    BY <1>3 DEF Frontend, FrontendUpdate, FrontendCustom, Execute
  <2>3. OpenInv'
    BY <1>0, <2>2, OpenKept DEF kernelVars
  <2> QED BY <2>1, <2>3 DEF StoreProofInv
<1>4. ASSUME NEW a \in Actors, RunEffect(a) PROVE StoreProofInv'
  <2>1. UNCHANGED <<gen, modelVars, kgen, kval, iopub>>
    BY <1>4 DEF RunEffect
  <2>2. OpenInv'
    BY <1>0, <2>1, OpenKept DEF modelVars
  <2> QED BY <1>0, <1>4, <2>2, RunEffectStep DEF StoreProofInv
<1>5. CASE Time
  <2>1. Core'
    BY <1>0, <1>5, AgeStep, CheckFiresStep, TimerFiresStep, CadenceEndsStep DEF Time
  <2>2. UNCHANGED <<gen, st, kernelVars>>
    BY <1>5 DEF Time, Age, CheckFires, TimerFires, CadenceEnds, modelVars
  <2>3. OpenInv'
    BY <1>0, <2>2, OpenKept DEF kernelVars
  <2> QED BY <2>1, <2>3 DEF StoreProofInv
<1>6. CASE Session
  <2>1. ASSUME Unsend PROVE OpenInv'
    BY <1>0, <2>1, OpenKept DEF Unsend, KeepsStore, modelVars, kernelVars
  <2> QED BY <1>0, <1>6, <2>1, UnsendStep, StartStep, ResetStep, StartOpen, ResetOpen DEF Session, StoreProofInv
<1>7. CASE Kernel
  <2>1. ASSUME NEW m \in Models, NEW s \in SUBSET AttrsOf(m), NEW upd \in [s -> Vals], KernelSets(m, upd)
        PROVE  Core' /\ OpenInv'
    <3>1. upd \in Parts(m)
      BY DEF Parts
    <3> QED BY <1>0, <2>1, <3>1, KernelSetsStep
  <2>2. ASSUME NEW m \in Models, KernelOpens(m) \/ KernelCloses(m)
        PROVE  Core' /\ OpenInv'
    BY <1>0, <2>2, KernelOpensStep, KernelClosesStep
  <2>3. ASSUME KernelHandles(None) \/ \E v \in Vals : KernelHandles(v)
        PROVE  Core' /\ OpenInv'
    <3>1. PICK fix \in Vals \cup {None} : KernelHandles(fix)
      BY <2>3
    <3> QED BY <1>0, <3>1, KernelHandlesStep
  <2>4. \/ \E m \in Models : KernelOpens(m) \/ KernelCloses(m)
        \/ \E m \in Models : \E s \in SUBSET AttrsOf(m) : \E upd \in [s -> Vals] : KernelSets(m, upd)
        \/ KernelHandles(None) \/ \E v \in Vals : KernelHandles(v)
        \/ \/ \E l \in Links : KernelUnlinks(l) \/ \E e \in Ends : KernelLinks(l, e)
           \/ \E o \in Outs, p \in Parents \cup {None} : KernelCaptures(o, p)
           \/ \E p \in Parents : \/ \E i \in Pieces : KernelPrints(p, i)
                                 \/ \E wait \in BOOLEAN : KernelClears(p, wait)
           \/ \E i, j \in Pieces : KernelDisplays(i, j)
    BY <1>7 DEF Kernel
  <2>5. Core' /\ OpenInv'
    BY <1>0, <2>1, <2>2, <2>3, <2>4, KernelTellsStep
  <2> QED BY <2>5 DEF StoreProofInv
<1> QED BY <1>1, <1>2, <1>3, <1>4, <1>5, <1>6, <1>7 DEF Next

LEMMA StoreImplies ==
  ASSUME StoreProofInv
  PROVE  StoreInv
<1>0. Core /\ OpenInv
  BY DEF StoreProofInv
<1>1. /\ gen \in Nat /\ kgen \in Nat /\ sender \in BOOLEAN /\ budget \in Nat /\ opened \subseteq Models
      /\ st \in [Models -> {"none", "live", "dead"}]
      /\ msgid \in [Outs -> Parents \cup {None}] /\ kmsg \in [Outs -> Parents \cup {None}]
  BY <1>0 DEF Core, SettingTypes, ModelTypes, KernelTypes
<1>2. \A m \in Models : /\ val[m] \in [AttrsOf(m) -> Vals]
                        /\ expect[m] \in [AttrsOf(m) -> Nat]
                        /\ \E s \in SUBSET AttrsOf(m) : pending[m] \in [s -> Vals]
                        /\ kval[m] \in [AttrsOf(m) -> Vals] \cup {None}
  <2>1. ASSUME NEW m \in Models PROVE \E s \in SUBSET AttrsOf(m) : pending[m] \in [s -> Vals]
    <3>1. pending[m] \in Parts(m)
      BY <1>0 DEF Core, CallInv, CallTypes, HeldTypes
    <3> QED BY <3>1 DEF Parts
  <2>2. ASSUME NEW m \in Models
        PROVE  val[m] \in [AttrsOf(m) -> Vals] /\ kval[m] \in [AttrsOf(m) -> Vals] \cup {None}
    BY <1>0 DEF Core, ModelTypes, KernelTypes
  <2>3. ASSUME NEW m \in Models PROVE expect[m] \in [AttrsOf(m) -> Nat]
    BY <1>0 DEF Core, CallInv, CallTypes, ExpectTypes
  <2> QED BY <2>1, <2>2, <2>3
<1>3. inflight \in [Models -> Nat] /\ next \in [Models -> Nat] /\ aged \in [Models -> Nat]
  BY <1>0 DEF Core, CallInv, CallTypes, HeldTypes, IdTypes, TimeTypes
<1>4. /\ infl \subseteq Ids /\ ours \subseteq Ids /\ checks \subseteq Ids
      /\ flight \in [Outs -> Nat] /\ timers \in [Outs -> Nat]
      /\ waiting \subseteq Outs /\ armed \subseteq Outs /\ recent \subseteq Outs
  BY <1>0 DEF Core, CallInv, CallTypes, IdTypes, TimeTypes, OutTypes
<1>5. capture \in [Parents -> Seq(Outs)] /\ clearing \subseteq Outs
  BY <1>0 DEF Core, CaptureTypes
<1>6. links \in Seq(Links) /\ ends \in [Links -> Ends \cup {None}] /\ apply \in Seq(Links)
      /\ holder \in Actors \cup {None} /\ steps \in 0..LinkStepLimit
  <2>1. \A x \in Seq(Connected) : x \in Seq(Links)
    <3>1. ASSUME NEW x \in Seq(Connected) PROVE x \in Seq(Links)
      <4>1. Len(x) \in Nat /\ x \in [1..Len(x) -> Connected]
        BY LenProperties
      <4>2. x \in [1..Len(x) -> Links]
        BY <4>1 DEF Connected
      <4> QED BY <4>1, <4>2, SeqDef
    <3> QED BY <3>1
  <2>2. links \in Seq(Connected) /\ apply \in Seq(Connected)
    BY <1>0 DEF Core, LinkTypes, LockTypes
  <2> QED BY <1>0, <2>1, <2>2 DEF Core, LinkTypes, LockTypes
<1>7. TypeOK
  BY <1>1, <1>2, <1>3, <1>4, <1>5, <1>6 DEF TypeOK
<1>8. HeldWillGo
  BY <1>0 DEF Core, CallInv, HoldInv, Timed, HeldWillGo
<1>9. CapturesWillGo
  <2>1. waiting \in SUBSET Outs /\ CaptureInv
    BY <1>0 DEF Core, CallInv, CallTypes, OutTypes
  <2> QED BY <2>1 DEF CaptureInv, Ticks, CapturesWillGo
<1>10. LiveIsOpen
  <2>1. \A i \in DOMAIN iopub : i \in 1..Len(iopub)
    BY <1>0 DEF Core, KernelTypes
  <2>2. DOMAIN iopub = 1..Len(iopub)
    BY <1>0 DEF Core, KernelTypes
  <2> QED BY <1>0, <2>2 DEF OpenInv, Closes, EventAt, LiveIsOpen
<1> QED BY <1>7, <1>8, <1>9, <1>10 DEF StoreInv

(* Whatever the frontend, the kernel and the timers do, and however often  *)
(* the kernel is replaced: the store's variables keep their types, what an *)
(* update in flight holds back has the timer that sends it, what an Output *)
(* widget captured has its flush, and a model the store connects is one    *)
(* the current kernel has or is about to say it closed (widgets.rs).       *)
THEOREM StoreHolds == Spec => []StoreInv
<1>1. StoreProofInv /\ [Next]_vars => StoreProofInv'
  BY StoreStep, StoreKept
<1> QED BY <1>1, InitStore, StoreImplies, PTL DEF Spec
-----------------------------------------------------------------------------
(* The messages that wait in the tasks' effects.                           *)

At(k, j, g) == j \in 1..Len(k) /\ k[j].do = "send" /\ g \in k[j].msgs /\ g.model # None
Pends(g) == \E a \in Actors : \E j \in Nat : At(fx[a], j, g)

(* A message of a model's number is in one place.                          *)
Single ==
  \A a, b \in Actors : \A i, j \in Nat : \A g, h \in Messages :
    At(fx[a], i, g) /\ At(fx[b], j, h) /\ g.model = h.model /\ g.n = h.n => a = b /\ i = j /\ g = h

(* The effects k send the messages N, one of a model at most.              *)
Ships(k, N) ==
  /\ N \subseteq Messages /\ \A g \in N : \E j \in Nat : At(k, j, g)
  /\ \A j \in Nat : \A g \in Messages : At(k, j, g) => g \in N
  /\ \A i, j \in Nat : \A g, h \in Messages : At(k, i, g) /\ At(k, j, h) /\ g.model = h.model => i = j /\ g = h

LEMMA AtCat ==
  ASSUME NEW s \in Seq(Effects), NEW t \in Seq(Effects), NEW g
  PROVE  /\ \A j \in Nat : At(Cat(s, t), j, g) => At(s, j, g) \/ (j - Len(s) \in Nat /\ ~(j <= Len(s)) /\ At(t, j - Len(s), g))
         /\ \A j \in Nat : At(s, j, g) => At(Cat(s, t), j, g)
         /\ \A j \in Nat : At(t, j, g) => Len(s) + j \in Nat /\ At(Cat(s, t), Len(s) + j, g)
         /\ Len(s) \in Nat
<1>1. /\ Len(Cat(s, t)) = Len(s) + Len(t) /\ Len(s) \in Nat /\ Len(t) \in Nat
      /\ \A i \in 1..(Len(s) + Len(t)) : Cat(s, t)[i] = IF i <= Len(s) THEN s[i] ELSE t[i - Len(s)]
  BY ConcatProperties, LenProperties DEF Cat
<1>2. PICK c : c = Cat(s, t)
  OBVIOUS
<1>3. PICK p \in Nat : p = Len(s)
  BY <1>1
<1>4. PICK q \in Nat : q = Len(t)
  BY <1>1
<1>5. Len(c) = p + q /\ \A i \in 1..(p + q) : c[i] = IF i <= p THEN s[i] ELSE t[i - p]
  BY <1>1, <1>2, <1>3, <1>4
<1>6. ASSUME NEW j \in Nat, At(c, j, g) PROVE At(s, j, g) \/ (j - p \in Nat /\ ~(j <= p) /\ At(t, j - p, g))
  <2>1. j \in 1..(p + q) /\ c[j].do = "send" /\ g \in c[j].msgs /\ g.model # None
    BY <1>5, <1>6 DEF At
  <2>2. CASE j <= p
    <3>1. j \in 1..p /\ c[j] = s[j]
      BY <1>5, <2>1, <2>2
    <3> QED BY <1>3, <2>1, <3>1 DEF At
  <2>3. CASE ~(j <= p)
    <3>1. j - p \in 1..q /\ j - p \in Nat /\ c[j] = t[j - p]
      BY <1>5, <2>1, <2>3
    <3> QED BY <1>4, <2>1, <2>3, <3>1 DEF At
  <2> QED BY <2>2, <2>3
<1>7. ASSUME NEW j \in Nat, At(s, j, g) PROVE At(c, j, g)
  <2>1. j \in 1..p /\ s[j].do = "send" /\ g \in s[j].msgs /\ g.model # None
    BY <1>3, <1>7 DEF At
  <2>2. j \in 1..(p + q) /\ c[j] = s[j]
    BY <1>5, <2>1
  <2> QED BY <1>5, <2>1, <2>2 DEF At
<1>8. ASSUME NEW j \in Nat, At(t, j, g) PROVE p + j \in Nat /\ At(c, p + j, g)
  <2>1. j \in 1..q /\ t[j].do = "send" /\ g \in t[j].msgs /\ g.model # None
    BY <1>4, <1>8 DEF At
  <2>2. PICK r \in Nat : r = p + j
    OBVIOUS
  <2>3. r \in 1..(p + q) /\ ~(r <= p) /\ r - p = j
    BY <2>1, <2>2
  <2>4. c[r] = t[j]
    BY <1>5, <2>3
  <2>5. At(c, r, g)
    BY <1>5, <2>1, <2>3, <2>4 DEF At
  <2> QED BY <2>2, <2>5
<1> QED BY <1>1, <1>2, <1>3, <1>6, <1>7, <1>8

LEMMA ShipsCat ==
  ASSUME NEW s \in Seq(Effects), NEW t \in Seq(Effects), NEW M, NEW N, Ships(s, M), Ships(t, N),
         \A g \in M : \A h \in N : g.model # h.model
  PROVE  Ships(Cat(s, t), M \cup N)
<1>1. PICK c : c = Cat(s, t)
  OBVIOUS
<1>2. PICK p \in Nat : p = Len(s)
  BY AtCat
<1>3. \A g : \A j \in Nat : At(c, j, g) => At(s, j, g) \/ (j - p \in Nat /\ ~(j <= p) /\ At(t, j - p, g))
  BY <1>1, <1>2, AtCat
<1>4. \A g : \A j \in Nat : (At(s, j, g) => At(c, j, g)) /\ (At(t, j, g) => p + j \in Nat /\ At(c, p + j, g))
  BY <1>1, <1>2, AtCat
<1>5. \A g \in M \cup N : \E j \in Nat : At(c, j, g)
  BY <1>4 DEF Ships
<1>6. \A j \in Nat : \A g \in Messages : At(c, j, g) => g \in M \cup N
  BY <1>3 DEF Ships
<1>7. ASSUME NEW i \in Nat, NEW j \in Nat, NEW g \in Messages, NEW h \in Messages,
             At(c, i, g), At(c, j, h), g.model = h.model
      PROVE  i = j /\ g = h
  <2>1. CASE At(s, i, g) /\ At(s, j, h)
    BY <1>7, <2>1 DEF Ships
  <2>2. CASE i - p \in Nat /\ At(t, i - p, g) /\ j - p \in Nat /\ At(t, j - p, h)
    <3>1. PICK u \in Nat : u = i - p
      BY <2>2
    <3>2. PICK v \in Nat : v = j - p
      BY <2>2
    <3>3. u = v /\ g = h
      BY <1>7, <2>2, <3>1, <3>2 DEF Ships
    <3> QED BY <3>1, <3>2, <3>3
  <2>3. CASE At(s, i, g) /\ j - p \in Nat /\ At(t, j - p, h)
    <3>1. g \in M /\ h \in N
      BY <2>3 DEF Ships
    <3> QED BY <1>7, <3>1
  <2>4. CASE i - p \in Nat /\ At(t, i - p, g) /\ At(s, j, h)
    <3>1. g \in N /\ h \in M
      BY <2>4 DEF Ships
    <3> QED BY <1>7, <3>1
  <2> QED BY <1>3, <1>7, <2>1, <2>2, <2>3, <2>4
<1>8. M \cup N \subseteq Messages
  BY DEF Ships
<1>9. Ships(c, M \cup N)
  BY <1>5, <1>6, <1>7, <1>8 DEF Ships
<1> QED BY <1>1, <1>9

(* Effects that send no message to a model, and one that sends some.       *)
LEMMA ShipsNone ==
  /\ Ships(<<>>, {})
  /\ \A m, n : Ships(<<Check(m, n)>>, {})
  /\ \A S : Ships(<<FlushLater(S)>>, {})
  /\ Ships(<<Send({Message(None, 0, "execute", Nothing)})>>, {})
<1>1. Ships(<<>>, {})
  BY DEF Ships, At
<1>2. ASSUME NEW k, Len(k) = 1, k[1].do # "send" \/ \A g \in k[1].msgs : g.model = None
      PROVE  Ships(k, {})
  <2>1. \A j \in Nat : \A g : ~At(k, j, g)
    BY <1>2 DEF At
  <2> QED BY <2>1 DEF Ships
<1>3. ASSUME NEW m, NEW n PROVE Ships(<<Check(m, n)>>, {})
  <2>1. PICK k : k = <<Check(m, n)>>
    OBVIOUS
  <2>2. Len(k) = 1 /\ k[1].do # "send"
    BY <2>1 DEF Check
  <2> QED BY <1>2, <2>1, <2>2
<1>4. ASSUME NEW S PROVE Ships(<<FlushLater(S)>>, {})
  <2>1. PICK k : k = <<FlushLater(S)>>
    OBVIOUS
  <2>2. Len(k) = 1 /\ k[1].do # "send"
    BY <2>1 DEF FlushLater
  <2> QED BY <1>2, <2>1, <2>2
<1>5. Ships(<<Send({Message(None, 0, "execute", Nothing)})>>, {})
  <2>1. PICK k : k = <<Send({Message(None, 0, "execute", Nothing)})>>
    OBVIOUS
  <2>2. Len(k) = 1 /\ \A g \in k[1].msgs : g.model = None
    BY <2>1 DEF Send, Message
  <2> QED BY <1>2, <2>1, <2>2
<1> QED BY <1>1, <1>3, <1>4, <1>5

LEMMA ShipsSend ==
  ASSUME NEW M \in SUBSET Messages, \A g \in M : g.model # None,
         \A g, h \in M : g.model = h.model => g = h
  PROVE  Ships(<<Send(M)>>, M)
<1>1. PICK k : k = <<Send(M)>>
  OBVIOUS
<1>2. Len(k) = 1 /\ k[1].do = "send" /\ k[1].msgs = M
  BY <1>1 DEF Send
<1>3. \A g : \A j \in Nat : At(k, j, g) <=> j = 1 /\ g \in M
  BY <1>2 DEF At
<1>4. Ships(k, M)
  BY <1>3 DEF Ships
<1> QED BY <1>1, <1>4

(* A task's effects grow by k, which sends the messages N.                 *)
LEMMA PostsFx ==
  ASSUME FxTypes, Single, NEW a \in Actors, NEW k \in Seq(Effects), NEW N, Ships(k, N),
         fx' = [fx EXCEPT ![a] = Cat(@, k)],
         \A g \in Messages : \A h \in N : Pends(g) /\ g.model = h.model => g.n # h.n
  PROVE  /\ Single'
         /\ \A g \in Messages : (Pends(g)' => Pends(g) \/ g \in N) /\ (Pends(g) => Pends(g)') /\ (g \in N => Pends(g)')
<1>1. PICK s \in Seq(Effects) : s = fx[a]
  BY DEF FxTypes
<1>2. PICK c : c = Cat(s, k)
  OBVIOUS
<1>3. \A b \in Actors : fx'[b] = IF b = a THEN c ELSE fx[b]
  BY <1>1, <1>2 DEF FxTypes
<1>4. PICK p \in Nat : p = Len(s)
  BY AtCat
<1>5. \A g : \A j \in Nat : At(c, j, g) => At(s, j, g) \/ (j - p \in Nat /\ ~(j <= p) /\ At(k, j - p, g))
  BY <1>2, <1>4, AtCat
<1>6. \A g : \A j \in Nat : (At(s, j, g) => At(c, j, g)) /\ (At(k, j, g) => p + j \in Nat /\ At(c, p + j, g))
  BY <1>2, <1>4, AtCat
<1>7. ASSUME NEW b \in Actors, NEW j \in Nat, NEW g \in Messages, At(fx'[b], j, g)
      PROVE  At(fx[b], j, g) \/ (b = a /\ j - p \in Nat /\ At(k, j - p, g) /\ g \in N)
  <2>1. CASE b = a
    <3>1. At(c, j, g)
      BY <1>3, <1>7, <2>1
    <3>2. CASE At(s, j, g)
      BY <1>1, <2>1, <3>2
    <3>3. CASE j - p \in Nat /\ At(k, j - p, g)
      BY <2>1, <3>3 DEF Ships
    <3> QED BY <1>5, <3>1, <3>2, <3>3
  <2>2. CASE b # a
    BY <1>3, <1>7, <2>2
  <2> QED BY <2>1, <2>2
<1>8. ASSUME NEW g \in Messages, Pends(g)' PROVE Pends(g) \/ g \in N
  <2>1. PICK b \in Actors, j \in Nat : At(fx'[b], j, g)
    BY <1>8 DEF Pends, At
  <2> QED BY <1>7, <2>1 DEF Pends
<1>9. ASSUME NEW g \in Messages, Pends(g) PROVE Pends(g)'
  <2>1. PICK b \in Actors, j \in Nat : At(fx[b], j, g)
    BY <1>9 DEF Pends
  <2>2. At(fx'[b], j, g)
    BY <1>1, <1>3, <1>6, <2>1
  <2>3. At(fx[b], j, g)'
    BY <2>2 DEF At
  <2> QED BY <2>3 DEF Pends
<1>10. ASSUME NEW g \in N PROVE Pends(g)'
  <2>1. PICK j \in Nat : At(k, j, g)
    BY DEF Ships
  <2>2. PICK i \in Nat : i = p + j /\ At(c, i, g)
    BY <1>6, <2>1
  <2>3. At(fx'[a], i, g)
    BY <1>3, <2>2
  <2>4. At(fx[a], i, g)'
    BY <2>3 DEF At
  <2> QED BY <2>4 DEF Pends
<1>11. Single'
  <2>1. ASSUME NEW b \in Actors, NEW d \in Actors, NEW i \in Nat, NEW j \in Nat, NEW g \in Messages, NEW h \in Messages,
               At(fx'[b], i, g), At(fx'[d], j, h), g.model = h.model, g.n = h.n
        PROVE  b = d /\ i = j /\ g = h
    <3>1. CASE At(fx[b], i, g) /\ At(fx[d], j, h)
      BY <2>1, <3>1 DEF Single
    <3>2. CASE At(fx[b], i, g) /\ h \in N
      <4>1. Pends(g)
        BY <3>2 DEF Pends
      <4> QED BY <2>1, <3>2, <4>1
    <3>3. CASE g \in N /\ At(fx[d], j, h)
      <4>1. Pends(h)
        BY <3>3 DEF Pends
      <4> QED BY <2>1, <3>3, <4>1
    <3>4. CASE b = a /\ d = a /\ i - p \in Nat /\ At(k, i - p, g) /\ j - p \in Nat /\ At(k, j - p, h)
      <4>1. PICK u \in Nat : u = i - p
        BY <3>4
      <4>2. PICK v \in Nat : v = j - p
        BY <3>4
      <4>3. u = v /\ g = h
        BY <2>1, <3>4, <4>1, <4>2 DEF Ships
      <4> QED BY <3>4, <4>1, <4>2, <4>3
    <3> QED BY <1>7, <2>1, <3>1, <3>2, <3>3, <3>4
  <2>2. ASSUME NEW b \in Actors, NEW d \in Actors, NEW i \in Nat, NEW j \in Nat, NEW g \in Messages, NEW h \in Messages,
               At(fx[b], i, g)', At(fx[d], j, h)', g.model = h.model, g.n = h.n
        PROVE  b = d /\ i = j /\ g = h
    <3>1. At(fx'[b], i, g) /\ At(fx'[d], j, h)
      BY <2>2 DEF At
    <3> QED BY <2>1, <2>2, <3>1
  <2> QED BY <2>2 DEF Single
<1> QED BY <1>8, <1>9, <1>10, <1>11

(* They lose what stood first: what is left was d places further.          *)
LEMMA ShiftedFx ==
  ASSUME Single, NEW a \in Actors, NEW c, NEW d \in Nat, \A b \in Actors : fx'[b] = IF b = a THEN c ELSE fx[b],
         \A g \in Messages : \A j \in Nat : At(c, j, g) => At(fx[a], j + d, g)
  PROVE  Single' /\ \A g \in Messages : Pends(g)' => Pends(g)
<1>1. ASSUME NEW b \in Actors, NEW j \in Nat, NEW g \in Messages, At(fx'[b], j, g)
      PROVE  At(fx[b], j + IF b = a THEN d ELSE 0, g)
  BY <1>1
<1>2. ASSUME NEW g \in Messages, Pends(g)' PROVE Pends(g)
  <2>1. PICK b \in Actors, j \in Nat : At(fx'[b], j, g)
    BY <1>2 DEF Pends, At
  <2>2. PICK i \in Nat : i = j + IF b = a THEN d ELSE 0
    OBVIOUS
  <2>3. At(fx[b], i, g)
    BY <1>1, <2>1, <2>2
  <2> QED BY <2>3 DEF Pends
<1>3. ASSUME NEW b \in Actors, NEW e \in Actors, NEW i \in Nat, NEW j \in Nat, NEW g \in Messages, NEW h \in Messages,
             At(fx'[b], i, g), At(fx'[e], j, h), g.model = h.model, g.n = h.n
      PROVE  b = e /\ i = j /\ g = h
  <2>1. PICK u \in Nat : u = i + IF b = a THEN d ELSE 0
    OBVIOUS
  <2>2. PICK v \in Nat : v = j + IF e = a THEN d ELSE 0
    OBVIOUS
  <2>3. At(fx[b], u, g) /\ At(fx[e], v, h)
    BY <1>1, <1>3, <2>1, <2>2
  <2>4. b = e /\ u = v /\ g = h
    BY <1>3, <2>3 DEF Single
  <2> QED BY <2>1, <2>2, <2>4
<1>4. Single'
  <2>1. ASSUME NEW b \in Actors, NEW e \in Actors, NEW i \in Nat, NEW j \in Nat, NEW g \in Messages, NEW h \in Messages,
               At(fx[b], i, g)', At(fx[e], j, h)', g.model = h.model, g.n = h.n
        PROVE  b = e /\ i = j /\ g = h
    <3>1. At(fx'[b], i, g) /\ At(fx'[e], j, h)
      BY <2>1 DEF At
    <3> QED BY <1>3, <2>1, <3>1
  <2> QED BY <2>1 DEF Single
<1> QED BY <1>2, <1>4

LEMMA TailAt ==
  ASSUME NEW s \in Seq(Effects), s # <<>>
  PROVE  /\ Tail(s) \in Seq(Effects) /\ Head(s) \in Effects /\ Head(s) = s[1]
         /\ \A j \in Nat : \A g : At(Tail(s), j, g) => j # 0 /\ At(s, j + 1, g)
         /\ \A j \in Nat : \A g : At(s, j, g) => j = 1 \/ (j - 1 \in Nat /\ At(Tail(s), j - 1, g))
<1>1. /\ Head(s) \in Effects /\ Tail(s) \in Seq(Effects) /\ Len(Tail(s)) = Len(s) - 1 /\ Len(s) \in Nat
      /\ \A i \in 1..Len(Tail(s)) : Tail(s)[i] = s[i + 1]
  BY HeadTailProperties, LenProperties
<1>2. PICK t : t = Tail(s)
  OBVIOUS
<1>3. ASSUME NEW j \in Nat, NEW g, At(t, j, g) PROVE j # 0 /\ At(s, j + 1, g)
  <2>1. j \in 1..Len(t) /\ t[j] = s[j + 1] /\ j + 1 \in 1..Len(s)
    BY <1>1, <1>2, <1>3 DEF At
  <2> QED BY <1>3, <2>1 DEF At
<1>4. ASSUME NEW j \in Nat, NEW g, At(s, j, g), j # 1 PROVE j - 1 \in Nat /\ At(t, j - 1, g)
  <2>1. j \in 1..Len(s)
    BY <1>4 DEF At
  <2>2. PICK i \in Nat : i = j - 1
    BY <2>1
  <2>3. i \in 1..Len(t) /\ t[i] = s[j]
    BY <1>1, <1>2, <1>4, <2>1, <2>2
  <2>4. At(t, i, g)
    BY <1>4, <2>3 DEF At
  <2> QED BY <2>2, <2>4
<1> QED BY <1>1, <1>2, <1>3, <1>4

(* An effect that sends nothing runs.                                      *)
LEMMA QuietFx ==
  ASSUME FxTypes, Single, NEW a \in Actors, fx[a] # <<>>, Head(fx[a]).do # "send", fx' = [fx EXCEPT ![a] = Tail(@)]
  PROVE  /\ Single'
         /\ \A g \in Messages : (Pends(g)' => Pends(g)) /\ (Pends(g) => Pends(g)')
<1>1. PICK s \in Seq(Effects) : s = fx[a]
  BY DEF FxTypes
<1>2. PICK t : t = Tail(s)
  OBVIOUS
<1>3. \A b \in Actors : fx'[b] = IF b = a THEN t ELSE fx[b]
  BY <1>1, <1>2 DEF FxTypes
<1>4. s[1].do # "send"
  BY <1>1, TailAt
<1>5. \A g \in Messages : \A j \in Nat : At(t, j, g) => At(fx[a], j + 1, g)
  BY <1>1, <1>2, TailAt
<1>6. Single' /\ \A g \in Messages : Pends(g)' => Pends(g)
  BY <1>3, <1>5, ShiftedFx
<1>7. ASSUME NEW g \in Messages, Pends(g) PROVE Pends(g)'
  <2>1. PICK b \in Actors, j \in Nat : At(fx[b], j, g)
    BY <1>7 DEF Pends
  <2>2. \E i \in Nat : At(fx'[b], i, g)
    <3>1. CASE b = a
      <4>1. j # 1
        BY <1>1, <1>4, <2>1, <3>1 DEF At
      <4>2. j - 1 \in Nat /\ At(t, j - 1, g)
        BY <1>1, <1>2, <2>1, <3>1, <4>1, TailAt
      <4> QED BY <1>3, <3>1, <4>2
    <3>2. CASE b # a
      BY <1>3, <2>1, <3>2
    <3> QED BY <3>1, <3>2
  <2>3. PICK i \in Nat : At(fx'[b], i, g)
    BY <2>2
  <2>4. At(fx[b], i, g)'
    BY <2>3 DEF At
  <2> QED BY <2>4 DEF Pends
<1> QED BY <1>6, <1>7

(* One message of the first effect of a task goes.                         *)
LEMMA SendsFx ==
  ASSUME FxTypes, Single, NEW a \in Actors, fx[a] # <<>>, Head(fx[a]).do = "send", NEW msg \in Head(fx[a]).msgs,
         msg \in Messages,
         fx' = [fx EXCEPT ![a] = Cat(IF Head(@).msgs = {msg} THEN <<>> ELSE <<Send(Head(@).msgs \ {msg})>>, Tail(@))]
  PROVE  /\ Single'
         /\ \A g \in Messages : Pends(g)' => Pends(g) /\ ~(msg.model # None /\ g.model = msg.model /\ g.n = msg.n)
         /\ \A g \in Messages : Pends(g) => Pends(g)' \/ g = msg
         /\ msg.model # None => Pends(msg)
<1>1. PICK s \in Seq(Effects) : s = fx[a]
  BY DEF FxTypes
<1>2. PICK t \in Seq(Effects) : t = Tail(s)
  BY <1>1, TailAt
<1>3. PICK M \in SUBSET Messages : M = s[1].msgs /\ s[1].do = "send" /\ msg \in M
  <2>1. Head(s) = s[1] /\ Head(s) \in Effects /\ Head(s).do = "send"
    BY <1>1, TailAt
  <2>2. Head(s).msgs \in SUBSET Messages
    BY <2>1, EffectKinds
  <2> QED BY <1>1, <2>1, <2>2
<1>4. PICK k : k = IF M = {msg} THEN <<>> ELSE <<Send(M \ {msg})>>
  OBVIOUS
<1>5. k \in Seq(Effects)
  <2>1. Send(M \ {msg}) \in Effects
    BY EffectTypes
  <2> QED BY <1>4, <2>1, EmptySeq
<1>6. PICK c : c = Cat(k, t)
  OBVIOUS
<1>7. \A b \in Actors : fx'[b] = IF b = a THEN c ELSE fx[b]
  <2>1. Head(fx[a]).msgs = M
    BY <1>1, <1>3, TailAt
  <2>2. fx'[a] = Cat(IF M = {msg} THEN <<>> ELSE <<Send(M \ {msg})>>, Tail(fx[a]))
    BY <2>1 DEF FxTypes
  <2> QED BY <1>1, <1>2, <1>4, <1>6, <2>2 DEF FxTypes
<1>8. PICK d \in Nat : d = IF M = {msg} THEN 1 ELSE 0
  OBVIOUS
<1>9. PICK p \in Nat : p = Len(k) /\ p + d = 1
  <2>1. CASE M = {msg}
    <3>1. Len(k) = 0 /\ d = 1
      BY <1>4, <1>8, <2>1
    <3> QED BY <3>1
  <2>2. CASE M # {msg}
    <3>1. Len(k) = 1 /\ d = 0
      BY <1>4, <1>8, <2>2
    <3> QED BY <3>1
  <2> QED BY <2>1, <2>2
<1>10. \A j \in Nat : \A g \in Messages : At(k, j, g) => j = 1 /\ d = 0 /\ g \in M /\ g # msg
  BY <1>4, <1>8 DEF At, Send
<1>11. \A g \in Messages : g \in M /\ g # msg /\ g.model # None => At(k, 1, g)
  BY <1>4 DEF At, Send
<1>12. 1 \in 1..Len(s)
  BY <1>1
<1>13. ASSUME NEW g \in Messages, NEW j \in Nat, At(c, j, g)
       PROVE  At(s, j + d, g) /\ (j + d = 1 => g # msg)
  <2>1. CASE At(k, j, g)
    <3>1. j + d = 1 /\ g \in M /\ g # msg /\ g.model # None
      BY <1>10, <2>1 DEF At
    <3> QED BY <1>3, <1>12, <3>1 DEF At
  <2>2. CASE j - p \in Nat /\ ~(j <= p) /\ At(t, j - p, g)
    <3>1. PICK i \in Nat : i = j - p
      BY <2>2
    <3>2. i # 0 /\ At(s, i + 1, g)
      BY <1>1, <1>2, <2>2, <3>1, TailAt
    <3>3. i + 1 = j + d
      BY <1>9, <3>1
    <3> QED BY <3>2, <3>3
  <2> QED BY <1>2, <1>5, <1>6, <1>9, <1>13, <2>1, <2>2, AtCat
<1>14. Single' /\ \A g \in Messages : Pends(g)' => Pends(g)
  BY <1>1, <1>7, <1>13, ShiftedFx
<1>15. msg.model # None => At(s, 1, msg) /\ Pends(msg)
  <2>1. msg.model # None => At(s, 1, msg)
    BY <1>3, <1>12 DEF At
  <2> QED BY <1>1, <2>1 DEF Pends
<1>16. ASSUME NEW g \in Messages, Pends(g)', msg.model # None, g.model = msg.model, g.n = msg.n PROVE FALSE
  <2>1. PICK b \in Actors, j \in Nat : At(fx'[b], j, g)
    BY <1>16 DEF Pends, At
  <2>2. CASE b = a
    <3>1. PICK i \in Nat : i = j + d
      OBVIOUS
    <3>2. At(c, j, g)
      BY <1>7, <2>1, <2>2
    <3>3. At(fx[a], i, g) /\ (i = 1 => g # msg)
      BY <1>1, <1>13, <3>1, <3>2
    <3>4. i = 1 /\ g = msg
      BY <1>1, <1>15, <1>16, <3>3 DEF Single
    <3> QED BY <3>3, <3>4
  <2>3. CASE b # a
    <3>1. At(fx[b], j, g)
      BY <1>7, <2>1, <2>3
    <3>2. b = a
      BY <1>1, <1>15, <1>16, <3>1 DEF Single
    <3> QED BY <2>3, <3>2
  <2> QED BY <2>2, <2>3
<1>17. ASSUME NEW g \in Messages, Pends(g), g # msg PROVE Pends(g)'
  <2>1. PICK b \in Actors, j \in Nat : At(fx[b], j, g)
    BY <1>17 DEF Pends
  <2>2. \E i \in Nat : At(fx'[b], i, g)
    <3>1. CASE b = a /\ j = 1
      <4>1. g \in M /\ g.model # None
        BY <1>1, <1>3, <2>1, <3>1 DEF At
      <4>2. At(k, 1, g)
        BY <1>11, <1>17, <4>1
      <4>3. At(c, 1, g)
        BY <1>2, <1>5, <1>6, <4>2, AtCat
      <4> QED BY <1>7, <3>1, <4>3
    <3>2. CASE b = a /\ j # 1
      <4>1. j - 1 \in Nat /\ At(t, j - 1, g)
        BY <1>1, <1>2, <2>1, <3>2, TailAt
      <4>2. PICK i \in Nat : i = j - 1
        BY <4>1
      <4>3. p + i \in Nat /\ At(c, p + i, g)
        BY <1>2, <1>5, <1>6, <1>9, <4>1, <4>2, AtCat
      <4> QED BY <1>7, <3>2, <4>3
    <3>3. CASE b # a
      BY <1>7, <2>1, <3>3
    <3> QED BY <3>1, <3>2, <3>3
  <2>3. PICK i \in Nat : At(fx'[b], i, g)
    BY <2>2
  <2>4. At(fx[b], i, g)'
    BY <2>3 DEF At
  <2> QED BY <2>4 DEF Pends
<1> QED BY <1>14, <1>15, <1>16, <1>17
-----------------------------------------------------------------------------
(* The numbers of the messages, on their way to the kernel and back.       *)

(* A change of m on its way to the kernel, and back.                       *)
Fwd(g, m) == g.model = m /\ g.kind \in {"update", "flush"}
FwdAt(sh, i, m) == i \in 1..Len(sh) /\ Fwd(sh[i], m)
EchoAt(io, i, m) == i \in 1..Len(io) /\ io[i].kind = "echo" /\ io[i].model = m

(* They are in the order of their numbers; those on the way to or from the *)
(* kernel are below n; those that carry the attribute are at most e.       *)
InLine(io, sh, m) ==
  /\ \A i, j \in Nat : EchoAt(io, i, m) /\ EchoAt(io, j, m) /\ i < j => io[i].n < io[j].n
  /\ \A i, j \in Nat : EchoAt(io, i, m) /\ FwdAt(sh, j, m) => io[i].n < sh[j].n
  /\ \A i, j \in Nat : FwdAt(sh, i, m) /\ FwdAt(sh, j, m) /\ i < j => sh[i].n < sh[j].n
Above(io, sh, m, n) ==
  /\ \A i \in Nat : EchoAt(io, i, m) => io[i].n < n
  /\ \A i \in Nat : FwdAt(sh, i, m) => sh[i].n < n
Within(io, sh, m, x, e) ==
  /\ \A i \in Nat : EchoAt(io, i, m) /\ x \in DOMAIN io[i].upd => io[i].n <= e
  /\ \A i \in Nat : FwdAt(sh, i, m) /\ x \in DOMAIN sh[i].upd => sh[i].n <= e

(* No message gets a number twice, and none is older than it is.           *)
NumberInv ==
  /\ \A m \in Models : aged[m] <= next[m]
  /\ \A g \in Messages : Pends(g) => aged[g.model] < g.n /\ g.n <= next[g.model]
  /\ \A i \in 1..Len(shell) : shell[i].model # None => 0 < shell[i].n /\ shell[i].n <= next[shell[i].model]
  /\ \A i \in 1..Len(iopub) : iopub[i].kind \in {"idle", "echo"} => 0 < iopub[i].n /\ iopub[i].n <= next[iopub[i].model]

(* What waits to be sent was not sent.                                     *)
ApartInv ==
  \A g \in Messages : Pends(g) =>
    /\ \A i \in 1..Len(shell) : shell[i].model = g.model => shell[i].n # g.n
    /\ \A i \in 1..Len(iopub) : EventAt("idle", g.model, i) => iopub[i].n # g.n

(* What waits to be sent is the update, or the flush, in flight.           *)
FlightInv ==
  \A g \in Messages : Pends(g) /\ Live(g.model) =>
    (g.kind = "update" => inflight[g.model] = g.n) /\ (g.kind = "flush" => flight[g.model] = g.n)
KindInv ==
  \A g \in Messages : Pends(g) =>
    (g.kind = "update" => g.model \in Sliders) /\ (g.kind = "flush" => g.model \in Outs)
OutsApart == \A o \in Outs : inflight[o] = 0 /\ pending[o] = Nothing

(* A model is opened once, and nothing is sent to it before.               *)
OnceInv ==
  /\ \A m \in Models : Live(m) \/ next[m] # 0 => m \in opened
  /\ \A i \in 1..Len(iopub) : iopub[i].kind = "open" => iopub[i].model \in opened
  /\ \A m \in Models : \A i \in 1..Len(iopub) :
       Opens(m, i) => ~Live(m) /\ next[m] = 0 /\ \A j \in 1..Len(iopub) : Opens(m, j) => j = i
HeldLive ==
  /\ \A o \in waiting : Live(o)
  /\ \A m \in Models : pending[m] # Nothing => Live(m)

OrderInv ==
  \A m \in Models : Live(m) =>
    /\ InLine(iopub, shell, m)
    /\ \A g \in Messages : Pends(g) /\ Fwd(g, m) => Above(iopub, shell, m, g.n)
ExpectInv ==
  \A m \in Models : Live(m) => \A x \in AttrsOf(m) :
    /\ Within(iopub, shell, m, x, expect[m][x])
    /\ \A g \in Messages : Pends(g) /\ Fwd(g, m) /\ x \in DOMAIN g.upd => g.n <= expect[m][x]

WireInv == Single /\ NumberInv /\ ApartInv /\ OrderInv /\ ExpectInv
FlightsInv == FlightInv /\ KindInv /\ OutsApart

(* No link copies what an Output widget shows.                             *)
NoOutEnds == \A e \in Ends : e.source.model \notin Outs /\ e.target.model \notin Outs

-----------------------------------------------------------------------------
(* A call of the store makes the messages N.                               *)
Carried(N, m, x) == \E g \in N : Fwd(g, m) /\ x \in DOMAIN g.upd
Makes(N) ==
  /\ N \subseteq Messages /\ Single'
  /\ \A g \in Messages : (Pends(g)' => Pends(g) \/ g \in N) /\ (Pends(g) => Pends(g)') /\ (g \in N => Pends(g)')
  /\ \A g \in N : g.model \in Models /\ Live(g.model) /\ g.n = next[g.model] + 1 /\ next'[g.model] = g.n
  /\ \A m \in Models : next'[m] = next[m] \/ \E g \in N : g.model = m
Expects(N) ==
  \A m \in Models : Live(m) /\ Live(m)' => \A x \in AttrsOf(m) :
    /\ \A g \in N : Fwd(g, m) /\ x \in DOMAIN g.upd => expect'[m][x] = g.n
    /\ expect'[m][x] = expect[m][x] \/ Carried(N, m, x)
Posts(N) == Makes(N) /\ Expects(N)

(* What it sends of the captures that wait, and of what is held.           *)
Captures(N) == waiting' \subseteq waiting /\ \A o \in waiting : o \in waiting' \/ Carried(N, o, "outputs")
Holds(N) ==
  \A m \in Models : /\ pending'[m] # Nothing => Live(m)
                    /\ \A x \in DOMAIN pending[m] : x \in DOMAIN pending'[m] \/ Carried(N, m, x)

(* The flush in flight that b knows of is the one that waits.              *)
FlightOf(b) == \A g \in Messages : Pends(g) /\ Live(g.model) /\ g.kind = "flush" => b.flight[g.model] = g.n

LEMMA EmitFx ==
  ASSUME IdTypes, FxTypes, ModelTypes', NEW a \in Actors, NEW b \in Bases,
         NEW F \in SUBSET Outs, NEW m \in Models \cup {None}, NEW kind, NEW upd, NEW more \in Seq(Effects),
         \A n \in Nat : m # None => Message(m, n, kind, upd) \in Messages,
         Emit(a, b, F, m, kind, upd, more)
  PROVE  fx' = [fx EXCEPT ![a] = Cat(@, Emitted(F, m, kind, upd, more))]
<1>1. /\ Emitted(F, m, kind, upd, more) \in Seq(Effects)
      /\ Flushed(F) \in Seq(Effects) /\ Own(F, m, kind, upd) \in Seq(Effects)
      /\ Cat(Flushed(F), Own(F, m, kind, upd)) \in Seq(Effects)
  BY EmittedType
<1>2. fx' = [fx EXCEPT ![a] = Cat(Cat(Cat(@, Flushed(F)), Own(F, m, kind, upd)), more)]
  BY DEF Emit, Flushes, Flushed, Own, Cat
<1>3. fx[a] \in Seq(Effects)
  BY DEF FxTypes
<1>4. Cat(Cat(Cat(fx[a], Flushed(F)), Own(F, m, kind, upd)), more) = Cat(fx[a], Emitted(F, m, kind, upd, more))
  BY <1>1, <1>3, Regroup DEF Emitted
<1> QED BY <1>2, <1>4

(* The messages Emit makes.                                                *)
Mine(F, m, kind, upd) == IF m = None THEN {} ELSE {Message(m, OwnId(F, m), kind, upd)}
Made(F, m, kind, upd) == Flushes(F) \cup Mine(F, m, kind, upd)

LEMMA FlushIs ==
  ASSUME NEW F \in SUBSET Outs, NEW g \in Flushes(F)
  PROVE  g.model \in F /\ g.n = next[g.model] + 1 /\ g.kind = "flush" /\ DOMAIN g.upd = {"outputs"}
BY DEF Flushes, Message

LEMMA FlushOf ==
  ASSUME NEW F \in SUBSET Outs, NEW o \in F
  PROVE  \E g \in Flushes(F) : g.model = o
<1>1. PICK g : g = Message(o, next[o] + 1, "flush", [x \in {"outputs"} |-> val'[o][x]])
  OBVIOUS
<1>2. g \in Flushes(F)
  BY <1>1 DEF Flushes
<1>3. g.model = o
  BY <1>1 DEF Message
<1> QED BY <1>2, <1>3

LEMMA MineIs ==
  ASSUME NEW F, NEW m, NEW kind, NEW upd, NEW g \in Mine(F, m, kind, upd)
  PROVE  g.model = m /\ m # None /\ g.n = OwnId(F, m) /\ g.kind = kind /\ g.upd = upd
BY DEF Mine, Message

LEMMA EmitShips ==
  ASSUME IdTypes, ModelTypes', NEW F \in SUBSET Outs, NEW m \in Sliders \cup {None}, NEW kind, NEW upd,
         NEW more \in Seq(Effects), Ships(more, {}),
         \A n \in Nat : m # None => Message(m, n, kind, upd) \in Messages
  PROVE  Ships(Emitted(F, m, kind, upd, more), Made(F, m, kind, upd))
<1>1. /\ Flushes(F) \in SUBSET Messages
      /\ Flushed(F) \in Seq(Effects) /\ Own(F, m, kind, upd) \in Seq(Effects)
      /\ Cat(Flushed(F), Own(F, m, kind, upd)) \in Seq(Effects)
  BY EmittedType DEF Models
<1>2. None \notin Outs /\ None \notin Sliders /\ Outs \cap Sliders = {}
  BY StoreAssumption
<1>3. Ships(Flushed(F), Flushes(F))
  <2>1. CASE F = {}
    <3>1. Flushes(F) = {} /\ Flushed(F) = <<>>
      BY <2>1 DEF Flushes, Flushed
    <3> QED BY <3>1, ShipsNone
  <2>2. CASE F # {}
    <3>1. Flushed(F) = <<Send(Flushes(F))>>
      BY <2>2 DEF Flushed
    <3>2. \A g \in Flushes(F) : g.model # None
      BY <1>2, FlushIs
    <3>3. \A g, h \in Flushes(F) : g.model = h.model => g = h
      BY DEF Flushes, Message
    <3>4. Ships(<<Send(Flushes(F))>>, Flushes(F))
      BY <1>1, <3>2, <3>3, ShipsSend
    <3> QED BY <3>1, <3>4
  <2> QED BY <2>1, <2>2
<1>4. Ships(Own(F, m, kind, upd), Mine(F, m, kind, upd))
  <2>1. CASE m = None
    BY <2>1, ShipsNone DEF Own, Mine
  <2>2. CASE m # None
    <3>1. PICK g : g = Message(m, OwnId(F, m), kind, upd)
      OBVIOUS
    <3>2. Own(F, m, kind, upd) = <<Send({g})>> /\ Mine(F, m, kind, upd) = {g}
      BY <2>2, <3>1 DEF Own, Mine
    <3>3. g.model = m
      BY <3>1 DEF Message
    <3>4. OwnId(F, m) \in Nat
      BY <2>2 DEF OwnId, IdTypes, Models
    <3>5. {g} \in SUBSET Messages
      BY <2>2, <3>1, <3>4
    <3>6. Ships(<<Send({g})>>, {g})
      BY <2>2, <3>3, <3>5, ShipsSend
    <3> QED BY <3>2, <3>6
  <2> QED BY <2>1, <2>2
<1>5. Ships(Cat(Flushed(F), Own(F, m, kind, upd)), Made(F, m, kind, upd))
  <2>1. \A g \in Flushes(F) : \A h \in Mine(F, m, kind, upd) : g.model # h.model
    BY <1>2, FlushIs, MineIs
  <2> QED BY <1>1, <1>3, <1>4, <2>1, ShipsCat DEF Made
<1>6. PICK c \in Seq(Effects) : c = Cat(Flushed(F), Own(F, m, kind, upd))
  BY <1>1
<1>7. PICK N : N = Made(F, m, kind, upd)
  OBVIOUS
<1>8. Ships(c, N)
  BY <1>5, <1>6, <1>7
<1>9. Ships(Cat(c, more), N \cup {})
  BY <1>8, ShipsCat
<1>10. N \cup {} = N
  OBVIOUS
<1> QED BY <1>6, <1>7, <1>9, <1>10 DEF Emitted

LEMMA EmitPosts ==
  ASSUME IdTypes, ExpectTypes, OutTypes, FxTypes, ModelTypes', Single, NumberInv, HeldLive, NEW a \in Actors, NEW b \in Bases,
         NEW F \in SUBSET waiting, NEW m \in Sliders \cup {None}, m # None => Live(m), NEW kind, NEW upd,
         kind = "update" \/ DOMAIN upd = {},
         NEW more \in Seq(Effects), Ships(more, {}),
         \A n \in Nat : m # None => Message(m, n, kind, upd) \in Messages,
         Emit(a, b, F, m, kind, upd, more)
  PROVE  Posts(Made(F, m, kind, upd)) /\ Captures(Made(F, m, kind, upd))
<1>1. /\ None \notin Outs /\ None \notin Sliders /\ Outs \cap Sliders = {} /\ F \in SUBSET Outs
      /\ m \in Models \cup {None} /\ (m # None => m \in Models /\ m \notin F) /\ None \notin Models /\ Outs \subseteq Models
  BY StoreAssumption DEF OutTypes, Models
<1>2. PICK N : N = Made(F, m, kind, upd)
  OBVIOUS
<1>3. PICK k : k = Emitted(F, m, kind, upd, more)
  OBVIOUS
<1>4. k \in Seq(Effects) /\ Ships(k, N) /\ fx' = [fx EXCEPT ![a] = Cat(@, k)]
  BY <1>1, <1>2, <1>3, EmittedType, EmitShips, EmitFx
<1>5. N \subseteq Messages
  BY <1>4 DEF Ships
<1>6. \A n \in Models : next[n] \in Nat
  BY DEF IdTypes
<1>7. \A g \in N : (g.model \in F /\ g.kind = "flush" /\ DOMAIN g.upd = {"outputs"} /\ g.n = next[g.model] + 1)
                   \/ (g.model = m /\ m # None /\ g.kind = kind /\ g.upd = upd /\ g.n = next[m] + 1)
  <2>1. m # None => OwnId(F, m) = next[m] + 1
    BY <1>1, <1>6 DEF OwnId
  <2> QED BY <1>1, <1>2, <2>1, FlushIs, MineIs DEF Made
<1>8. \A o \in F : \E g \in N : g.model = o
  BY <1>1, <1>2, FlushOf DEF Made
<1>9. m # None => \E g \in N : g.model = m /\ g.kind = kind /\ g.upd = upd
  <2>1. ASSUME m # None PROVE \E g \in N : g.model = m /\ g.kind = kind /\ g.upd = upd
    <3>1. PICK g : g = Message(m, OwnId(F, m), kind, upd)
      OBVIOUS
    <3>2. g \in N
      BY <1>2, <2>1, <3>1 DEF Made, Mine
    <3>3. g.model = m /\ g.kind = kind /\ g.upd = upd
      BY <3>1 DEF Message
    <3> QED BY <3>2, <3>3
  <2> QED BY <2>1
<1>10. \A g \in N : g.model \in Models /\ Live(g.model) /\ g.n = next[g.model] + 1
  <2>1. \A o \in F : Live(o)
    BY DEF HeldLive
  <2> QED BY <1>1, <1>7, <2>1
<1>11. \A g \in Messages : \A h \in N : Pends(g) /\ g.model = h.model => g.n # h.n
  <2>1. ASSUME NEW g \in Messages, NEW h \in N, Pends(g), g.model = h.model PROVE g.n # h.n
    <3>1. g.n \in Nat /\ g.n <= next[h.model] /\ h.n = next[h.model] + 1 /\ next[h.model] \in Nat
      BY <1>6, <1>10, <2>1, MessageIs DEF NumberInv
    <3> QED BY <3>1
  <2> QED BY <2>1
<1>12. Single' /\ \A g \in Messages : (Pends(g)' => Pends(g) \/ g \in N) /\ (Pends(g) => Pends(g)') /\ (g \in N => Pends(g)')
  BY <1>4, <1>11, PostsFx
<1>13. \A n \in Models : next'[n] = next[n] + (IF n = m THEN 1 ELSE 0) + (IF n \in F THEN 1 ELSE 0)
  BY DEF Emit
<1>14. \A g \in N : next'[g.model] = g.n
  <2>1. ASSUME NEW g \in N PROVE next'[g.model] = g.n
    <3>1. (g.model \in F /\ g.model # m) \/ (g.model = m /\ m \notin F)
      BY <1>1, <1>7
    <3>2. g.n = next[g.model] + 1 /\ g.model \in Models
      BY <1>10
    <3> QED BY <1>6, <1>13, <3>1, <3>2
  <2> QED BY <2>1
<1>15. \A n \in Models : next'[n] = next[n] \/ \E g \in N : g.model = n
  <2>1. ASSUME NEW n \in Models, n # m, n \notin F PROVE next'[n] = next[n]
    BY <1>6, <1>13, <2>1
  <2> QED BY <1>1, <1>8, <1>9, <2>1
<1>16. \A n \in Models : \A x \in AttrsOf(n) :
         expect'[n][x] = CASE n = m /\ x \in DOMAIN upd -> OwnId(F, m)
                           [] ~(n = m /\ x \in DOMAIN upd) /\ n \in F -> next[n] + 1
                           [] OTHER -> expect[n][x]
  BY DEF Emit
<1>17. ASSUME NEW n \in Models, NEW x \in AttrsOf(n)
       PROVE  /\ \A g \in N : Fwd(g, n) /\ x \in DOMAIN g.upd => expect'[n][x] = g.n
              /\ expect'[n][x] = expect[n][x] \/ Carried(N, n, x)
  <2>1. CASE n = m /\ x \in DOMAIN upd
    <3>1. n \notin F /\ m # None
      BY <1>1, <2>1
    <3>2. expect'[n][x] = next[n] + 1
      <4>1. OwnId(F, m) = next[m] + 1
        BY <1>6, <2>1, <3>1 DEF OwnId
      <4> QED BY <1>16, <2>1, <4>1
    <3>3. \A g \in N : g.model = n => g.n = next[n] + 1
      BY <1>7, <2>1, <3>1
    <3>4. kind = "update"
      BY <2>1
    <3>5. Carried(N, n, x)
      BY <1>9, <2>1, <3>1, <3>4 DEF Carried, Fwd
    <3> QED BY <3>2, <3>3, <3>5 DEF Fwd
  <2>2. CASE ~(n = m /\ x \in DOMAIN upd) /\ n \in F
    <3>1. expect'[n][x] = next[n] + 1
      BY <1>16, <2>2
    <3>2. \A g \in N : g.model = n => g.n = next[n] + 1
      BY <1>1, <1>7, <2>2
    <3>3. n \in Outs /\ x = "outputs"
      BY <1>1, <2>2 DEF AttrsOf
    <3>4. PICK g \in N : g.model = n
      BY <1>8, <2>2
    <3>5. g.kind = "flush" /\ DOMAIN g.upd = {"outputs"}
      BY <1>1, <1>7, <2>2, <3>4
    <3>6. Carried(N, n, x)
      BY <3>3, <3>4, <3>5 DEF Carried, Fwd
    <3> QED BY <3>1, <3>2, <3>6 DEF Fwd
  <2>3. CASE ~(n = m /\ x \in DOMAIN upd) /\ n \notin F
    <3>1. expect'[n][x] = expect[n][x]
      BY <1>16, <2>3
    <3>2. \A g \in N : ~(Fwd(g, n) /\ x \in DOMAIN g.upd)
      BY <1>7, <2>3 DEF Fwd
    <3> QED BY <3>1, <3>2
  <2> QED BY <2>1, <2>2, <2>3
<1>18. Posts(N)
  BY <1>5, <1>10, <1>12, <1>14, <1>15, <1>17 DEF Posts, Makes, Expects
<1>19. Captures(N)
  <2>1. waiting' = waiting \ F
    BY DEF Emit
  <2>2. ASSUME NEW o \in F PROVE Carried(N, o, "outputs")
    <3>1. PICK g \in N : g.model = o
      BY <1>8
    <3>2. g.kind = "flush" /\ DOMAIN g.upd = {"outputs"}
      BY <1>1, <1>7, <3>1
    <3> QED BY <3>1, <3>2 DEF Carried, Fwd
  <2> QED BY <2>1, <2>2 DEF Captures
<1> QED BY <1>2, <1>18, <1>19

(* What a call of the store does to the messages.                          *)
CallDone(N) == Posts(N) /\ Captures(N) /\ Holds(N) /\ FlightsInv'
CallWire == CallTypes /\ TimeTypes /\ Single /\ NumberInv /\ FlightsInv /\ HeldLive

LEMMA FlightsAfter ==
  ASSUME FlightsInv, NEW N, Makes(N), st' = st,
         \A g \in N : g.kind = "update" => g.model \in Sliders /\ inflight'[g.model] = g.n,
         \A g \in N : g.kind = "flush" => g.model \in Outs /\ flight'[g.model] = g.n,
         \A g \in Messages : Pends(g) /\ Live(g.model) /\ g.kind = "update" => inflight'[g.model] = g.n,
         \A g \in Messages : Pends(g) /\ Live(g.model) /\ g.kind = "flush" => flight'[g.model] = g.n,
         \A o \in Outs : inflight'[o] = 0 /\ pending'[o] = Nothing
  PROVE  FlightsInv'
<1>1. \A m : Live(m)' <=> Live(m)
  BY DEF Live
<1>2. \A g \in Messages : Pends(g)' => Pends(g) \/ g \in N
  BY DEF Makes
<1>3. FlightInv'
  <2>1. ASSUME NEW g \in Messages, Pends(g)', Live(g.model)
        PROVE  (g.kind = "update" => inflight'[g.model] = g.n) /\ (g.kind = "flush" => flight'[g.model] = g.n)
    BY <1>2, <2>1
  <2> QED BY <1>1, <2>1 DEF FlightInv
<1>4. KindInv'
  <2>1. ASSUME NEW g \in Messages, Pends(g)'
        PROVE  (g.kind = "update" => g.model \in Sliders) /\ (g.kind = "flush" => g.model \in Outs)
    BY <1>2, <2>1 DEF FlightsInv, KindInv
  <2> QED BY <2>1 DEF KindInv
<1>5. OutsApart'
  BY DEF OutsApart
<1> QED BY <1>3, <1>4, <1>5 DEF FlightsInv

(* A message the store counts has a number.                                *)
LEMMA PendingNumber ==
  ASSUME TimeTypes, NumberInv, NEW g \in Messages, Pends(g)
  PROVE  g.n # 0 /\ g.n \in Nat /\ g.model \in Models /\ aged[g.model] \in Nat /\ aged[g.model] < g.n
<1>1. g.model \in Models
  BY MessageIs DEF Pends, At
<1>2. g.n \in Nat /\ aged[g.model] \in Nat /\ aged[g.model] < g.n
  BY <1>1, MessageIs DEF TimeTypes, NumberInv
<1>3. g.n # 0
  BY <1>2
<1> QED BY <1>1, <1>2, <1>3

LEMMA NothingMakes ==
  ASSUME Single, fx' = fx, next' = next
  PROVE  Makes({})
<1>1. Single'
  BY DEF Single, At
<1>2. ASSUME NEW g \in Messages PROVE (Pends(g)' => Pends(g)) /\ (Pends(g) => Pends(g)')
  BY DEF Pends, At
<1> QED BY <1>1, <1>2 DEF Makes

LEMMA NothingPosts ==
  ASSUME Single, fx' = fx, next' = next, \A m \in Models : Live(m) /\ Live(m)' => \A x \in AttrsOf(m) : expect'[m][x] = expect[m][x]
  PROVE  Posts({})
BY NothingMakes DEF Posts, Expects

LEMMA QuietPosts ==
  ASSUME FxTypes, Single, NEW a \in Actors, NEW k \in Seq(Effects), Ships(k, {}), fx' = [fx EXCEPT ![a] = Cat(@, k)],
         next' = next, \A m \in Models : Live(m) /\ Live(m)' => \A x \in AttrsOf(m) : expect'[m][x] = expect[m][x]
  PROVE  Posts({})
<1>1. PICK N : N = {}
  OBVIOUS
<1>2. Ships(k, N) /\ \A g \in Messages : \A h \in N : Pends(g) /\ g.model = h.model => g.n # h.n
  BY <1>1
<1>3. /\ Single'
      /\ \A g \in Messages : (Pends(g)' => Pends(g) \/ g \in N) /\ (Pends(g) => Pends(g)') /\ (g \in N => Pends(g)')
  BY <1>2, PostsFx
<1> QED BY <1>1, <1>3 DEF Posts, Makes, Expects

(* A call that sends nothing.                                              *)
LEMMA NoneDone ==
  ASSUME CallWire, st' = st, NEW b, FlightOf(b), EmitNone(b),
         \A g \in Messages : Pends(g) /\ Live(g.model) /\ g.kind = "update" => inflight'[g.model] = g.n,
         \A o \in Outs : inflight'[o] = 0 /\ pending'[o] = Nothing,
         \A m \in Models : /\ pending'[m] # Nothing => Live(m)
                           /\ \A x \in DOMAIN pending[m] : x \in DOMAIN pending'[m]
  PROVE  CallDone({})
<1>1. Posts({})
  BY NothingPosts DEF EmitNone, CallWire
<1>2. flight' = b.flight /\ waiting' = waiting
  BY DEF EmitNone
<1>3. FlightsInv'
  BY <1>1, <1>2, FlightsAfter DEF FlightOf, CallWire, Posts
<1> QED BY <1>1, <1>2, <1>3 DEF CallDone, Captures, Holds

LEMMA FlightIs ==
  ASSUME FlightsInv, NEW b, b.flight = flight
  PROVE  FlightOf(b)
BY DEF FlightOf, FlightsInv, FlightInv

(* One that sends messages.                                                *)
LEMMA EmitDone ==
  ASSUME CallWire, ModelTypes', st' = st, NEW a \in Actors, NEW b \in Bases, FlightOf(b),
         NEW F \in SUBSET waiting, \A o \in F : b.flight[o] = 0,
         NEW m \in Sliders \cup {None}, m # None => Live(m), NEW kind \in {"update", "custom", "none"}, NEW upd,
         kind = "update" \/ DOMAIN upd = {},
         NEW more \in Seq(Effects), Ships(more, {}),
         \A n \in Nat : m # None => Message(m, n, kind, upd) \in Messages,
         Emit(a, b, F, m, kind, upd, more),
         kind = "update" => inflight'[m] = OwnId(F, m),
         \A g \in Messages : Pends(g) /\ Live(g.model) /\ g.kind = "update" => inflight'[g.model] = g.n,
         \A o \in Outs : inflight'[o] = 0 /\ pending'[o] = Nothing,
         Holds(Made(F, m, kind, upd))
  PROVE  CallDone(Made(F, m, kind, upd))
<1> USE DEF CallWire, CallTypes
<1>1. Posts(Made(F, m, kind, upd)) /\ Captures(Made(F, m, kind, upd))
  BY EmitPosts
<1>2. F \in SUBSET Outs /\ Outs \subseteq Models /\ Sliders \subseteq Models
  BY DEF OutTypes, Models
<1>3. \A o \in Outs : flight'[o] = IF o \in F THEN next[o] + 1 ELSE b.flight[o]
  BY DEF Emit
<1>4. PICK N : N = Made(F, m, kind, upd)
  OBVIOUS
<1>5. \A g \in N : \/ g \in Flushes(F) /\ g.model \in F /\ g.n = next[g.model] + 1 /\ g.kind = "flush"
                   \/ g.model = m /\ m # None /\ g.n = OwnId(F, m) /\ g.kind = kind
  BY <1>2, <1>4, FlushIs, MineIs DEF Made
<1>6. \A g \in N : g.kind = "update" => g.model \in Sliders /\ inflight'[g.model] = g.n
  BY <1>5
<1>7. \A g \in N : g.kind = "flush" => g.model \in Outs /\ flight'[g.model] = g.n
  BY <1>2, <1>3, <1>5
<1>8. ASSUME NEW g \in Messages, Pends(g), Live(g.model), g.kind = "flush" PROVE flight'[g.model] = g.n
  <2>1. g.model \in Outs /\ b.flight[g.model] = g.n /\ g.n # 0
    BY <1>8, PendingNumber DEF FlightOf, FlightsInv, KindInv
  <2>2. g.model \notin F
    BY <2>1
  <2> QED BY <1>3, <2>1, <2>2
<1>9. FlightsInv'
  BY <1>1, <1>4, <1>6, <1>7, <1>8, FlightsAfter DEF Posts
<1> QED BY <1>1, <1>9 DEF CallDone

LEMMA SendDone ==
  ASSUME CallWire, ModelTypes', st' = st, NEW a \in Actors, NEW b \in Bases, b.flight = flight,
         NEW m \in Sliders, Live(m), NEW upd \in Parts(m), DOMAIN pending[m] \subseteq DOMAIN upd,
         \A g \in Messages : Pends(g) /\ g.kind = "update" => g.model # m,
         pending' = [pending EXCEPT ![m] = Nothing], SendUpdate(a, b, m, upd)
  PROVE  \E N : CallDone(N) /\ \A x \in DOMAIN upd : Carried(N, m, x)
<1> USE DEF CallWire, CallTypes
<1>1. PICK n : n = OwnId(Flushable, m)
  OBVIOUS
<1>2. m \in Models /\ m \notin Outs /\ m # None /\ Outs \subseteq Models
  BY StoreAssumption DEF Models
<1>3. n \in Nat
  BY <1>1, <1>2 DEF OwnId, IdTypes
<1>4. PICK c : c = [b EXCEPT !.infl = @ \ {<<m, inflight[m]>>}]
  OBVIOUS
<1>5. c \in Bases /\ c.flight = flight
  BY <1>4 DEF Bases
<1>6. PICK more : more = <<Check(m, n)>>
  OBVIOUS
<1>7. more \in Seq(Effects) /\ Ships(more, {})
  BY <1>2, <1>3, <1>6, EffectTypes, ShipsNone
<1>8. PICK F \in SUBSET waiting : F = Flushable /\ \A o \in F : c.flight[o] = 0
  <2>1. Flushable \in SUBSET waiting /\ \A o \in Flushable : flight[o] = 0
    BY DEF Flushable
  <2> QED BY <1>5, <2>1
<1>9. inflight' = [inflight EXCEPT ![m] = n] /\ Emit(a, c, F, m, "update", upd, more)
  BY <1>1, <1>4, <1>6, <1>8 DEF SendUpdate
<1>10. \A k \in Nat : m # None => Message(m, k, "update", upd) \in Messages
  BY <1>2, MessageTypes
<1>11. PICK N : N = Made(F, m, "update", upd)
  OBVIOUS
<1>12. \A x \in DOMAIN upd : Carried(N, m, x)
  <2>1. PICK g : g = Message(m, OwnId(F, m), "update", upd)
    OBVIOUS
  <2>2. g \in N
    BY <1>2, <1>11, <2>1 DEF Made, Mine
  <2>3. g.model = m /\ g.kind = "update" /\ g.upd = upd
    BY <2>1 DEF Message
  <2> QED BY <2>2, <2>3 DEF Carried, Fwd
<1>13. DOMAIN pending = Models /\ \A k \in Models : pending'[k] = IF k = m THEN Nothing ELSE pending[k]
  BY DEF HeldTypes
<1>14. Holds(N)
  BY <1>12, <1>13 DEF Holds, HeldLive
<1>15. \A k \in Models : inflight'[k] = IF k = m THEN n ELSE inflight[k]
  BY <1>9 DEF HeldTypes
<1>16. \A o \in Outs : inflight'[o] = 0 /\ pending'[o] = Nothing
  BY <1>2, <1>13, <1>15 DEF FlightsInv, OutsApart
<1>17. \A g \in Messages : Pends(g) /\ Live(g.model) /\ g.kind = "update" => inflight'[g.model] = g.n
  BY <1>15, PendingNumber DEF FlightsInv, FlightInv
<1>18. FlightOf(c)
  BY <1>5, FlightIs
<1>19. inflight'[m] = OwnId(F, m)
  BY <1>1, <1>2, <1>8, <1>15
<1>20. CallDone(N)
  BY <1>2, <1>5, <1>7, <1>8, <1>9, <1>10, <1>11, <1>14, <1>16, <1>17, <1>18, <1>19, EmitDone
<1> QED BY <1>12, <1>20

LEMMA QueueDone ==
  ASSUME CallWire, ModelTypes', st' = st, NEW a \in Actors,
         NEW m \in Sliders, Live(m), NEW upd \in Parts(m), QueueForKernel(a, m, upd)
  PROVE  \E N : CallDone(N) /\ \A x \in DOMAIN upd : x \in DOMAIN pending'[m] \/ Carried(N, m, x)
<1> USE DEF CallWire, CallTypes
<1>1. PICK b \in Bases : b = Base /\ b.flight = flight
  BY BaseIs
<1>2. m \in Models /\ m \notin Outs
  BY StoreAssumption DEF Models
<1>3. DOMAIN pending = Models /\ pending[m] \in Parts(m)
  BY <1>2 DEF HeldTypes
<1>4. \A w : DOMAIN Merge(upd, w) = DOMAIN upd \cup DOMAIN w
  BY DEF Merge
<1>5. CASE Held(m)
  <2>1. pending' = [pending EXCEPT ![m] = Merge(upd, @)] /\ inflight' = inflight /\ EmitNone(b)
    BY <1>1, <1>5 DEF QueueForKernel
  <2>2. \A k \in Models : pending'[k] = IF k = m THEN Merge(upd, pending[m]) ELSE pending[k]
    BY <1>3, <2>1
  <2>3. \A o \in Outs : inflight'[o] = 0 /\ pending'[o] = Nothing
    BY <1>2, <2>1, <2>2 DEF FlightsInv, OutsApart, Models
  <2>4. \A k \in Models : (pending'[k] # Nothing => Live(k)) /\ \A x \in DOMAIN pending[k] : x \in DOMAIN pending'[k]
    BY <1>4, <2>2 DEF HeldLive
  <2>5. \A g \in Messages : Pends(g) /\ Live(g.model) /\ g.kind = "update" => inflight'[g.model] = g.n
    BY <2>1 DEF FlightsInv, FlightInv
  <2>6. FlightOf(b)
    BY <1>1, FlightIs
  <2>7. CallDone({})
    BY <2>1, <2>3, <2>4, <2>5, <2>6, NoneDone
  <2> QED BY <1>2, <1>4, <2>2, <2>7
<1>6. CASE ~Held(m)
  <2>1. pending' = [pending EXCEPT ![m] = Nothing] /\ SendUpdate(a, b, m, Merge(upd, pending[m]))
    BY <1>1, <1>6 DEF QueueForKernel
  <2>2. PICK u \in Parts(m) : u = Merge(upd, pending[m])
    BY <1>3, MergeParts
  <2>3. DOMAIN u = DOMAIN upd \cup DOMAIN pending[m]
    BY <1>4, <2>2
  <2>4. ASSUME NEW g \in Messages, Pends(g), g.kind = "update", g.model = m PROVE FALSE
    <3>1. inflight[m] = g.n /\ aged[m] < g.n /\ aged[m] \in Nat /\ g.n \in Nat
      BY <2>4, PendingNumber DEF FlightsInv, FlightInv
    <3> QED BY <1>6, <3>1 DEF Held
  <2>5. \E N : CallDone(N) /\ \A x \in DOMAIN u : Carried(N, m, x)
    BY <1>1, <2>1, <2>2, <2>3, <2>4, SendDone
  <2> QED BY <2>3, <2>5
<1> QED BY <1>5, <1>6

LEMMA ReleaseDone ==
  ASSUME CallWire, ModelTypes', st' = st, NEW a \in Actors, NEW b \in Bases, b.flight = flight,
         NEW m \in Models, NEW n \in Nat, Release(a, b, m, n),
         \A g \in Messages : Pends(g) /\ g.kind = "update" => ~(g.model = m /\ g.n = n)
  PROVE  \E N : CallDone(N)
<1> USE DEF CallWire, CallTypes
<1>1. PICK c : c = [b EXCEPT !.infl = @ \ {<<m, n>>}]
  OBVIOUS
<1>2. c \in Bases /\ c.flight = flight
  BY <1>1 DEF Bases
<1>3. DOMAIN pending = Models /\ pending[m] \in Parts(m) /\ Outs \subseteq Models
  BY DEF HeldTypes, Models
<1>4. FlightOf(c)
  BY <1>2, FlightIs
<1>5. CASE inflight[m] # n
  <2>1. EmitNone(c) /\ inflight' = inflight /\ pending' = pending
    BY <1>1, <1>5 DEF Release
  <2>2. CallDone({})
    BY <1>4, <2>1, NoneDone DEF FlightsInv, FlightInv, OutsApart, HeldLive
  <2> QED BY <2>2
<1>6. CASE inflight[m] = n /\ pending[m] = Nothing
  <2>1. EmitNone(c) /\ inflight' = [inflight EXCEPT ![m] = 0] /\ pending' = pending
    BY <1>1, <1>6 DEF Release
  <2>2. \A k \in Models : inflight'[k] = IF k = m THEN 0 ELSE inflight[k]
    BY <2>1 DEF HeldTypes
  <2>3. \A g \in Messages : Pends(g) /\ Live(g.model) /\ g.kind = "update" => inflight'[g.model] = g.n
    <3>1. ASSUME NEW g \in Messages, Pends(g), Live(g.model), g.kind = "update" PROVE inflight'[g.model] = g.n
      <4>1. g.model \in Models /\ inflight[g.model] = g.n
        BY <3>1, PendingNumber DEF FlightsInv, FlightInv
      <4> QED BY <1>6, <2>2, <3>1, <4>1
    <3> QED BY <3>1
  <2>4. \A o \in Outs : inflight'[o] = 0 /\ pending'[o] = Nothing
    BY <1>3, <2>1, <2>2 DEF FlightsInv, OutsApart
  <2>5. CallDone({})
    BY <1>4, <2>1, <2>3, <2>4, NoneDone DEF HeldLive
  <2> QED BY <2>5
<1>7. CASE inflight[m] = n /\ pending[m] # Nothing
  <2>1. pending' = [pending EXCEPT ![m] = Nothing] /\ SendUpdate(a, c, m, pending[m])
    BY <1>1, <1>7 DEF Release
  <2>2. m \in Sliders /\ Live(m)
    BY <1>7 DEF FlightsInv, OutsApart, HeldLive, Models
  <2>3. ASSUME NEW g \in Messages, Pends(g), g.kind = "update", g.model = m PROVE FALSE
    BY <1>7, <2>2, <2>3 DEF FlightsInv, FlightInv
  <2>4. PICK u \in Parts(m) : u = pending[m]
    BY <1>3
  <2> QED BY <1>2, <2>1, <2>2, <2>3, <2>4, SendDone
<1> QED BY <1>5, <1>6, <1>7

LEMMA PacedDone ==
  ASSUME CallWire, ModelTypes', st' = st, NEW a \in Actors, NEW b \in Bases, FlightOf(b),
         NEW o \in Outs, PacedFlush(a, b, o), inflight' = inflight, pending' = pending
  PROVE  \E N : CallDone(N)
<1> USE DEF CallWire, CallTypes
<1>1. \A p \in Outs : inflight'[p] = 0 /\ pending'[p] = Nothing
  BY DEF FlightsInv, OutsApart
<1>2. \A g \in Messages : Pends(g) /\ Live(g.model) /\ g.kind = "update" => inflight'[g.model] = g.n
  BY DEF FlightsInv, FlightInv
<1>3. \A N : Holds(N)
  BY DEF Holds, HeldLive
<1>4. DOMAIN Nothing = {}
  BY DEF Nothing
<1>5. CASE o \notin waiting \/ b.flight[o] # 0 \/ (o \in recent /\ o \in b.armed)
  <2>1. EmitNone(b)
    BY <1>5 DEF PacedFlush
  <2>2. CallDone({})
    BY <1>1, <1>2, <2>1, NoneDone DEF HeldLive
  <2> QED BY <2>2
<1>6. CASE ~(o \notin waiting \/ b.flight[o] # 0 \/ (o \in recent /\ o \in b.armed)) /\ o \in recent
  <2>1. PICK c : c = [b EXCEPT !.armed = @ \cup {o}]
    OBVIOUS
  <2>2. c \in Bases /\ c.flight = b.flight
    BY <2>1 DEF Bases
  <2>3. PICK more : more = <<FlushLater({o})>>
    OBVIOUS
  <2>4. more \in Seq(Effects) /\ Ships(more, {})
    BY <2>3, EffectTypes, ShipsNone
  <2>5. Emit(a, c, {}, None, "none", Nothing, more)
    BY <1>6, <2>1, <2>3 DEF PacedFlush
  <2>6. FlightOf(c)
    BY <2>2 DEF FlightOf
  <2>7. CallDone(Made({}, None, "none", Nothing))
    BY <1>1, <1>2, <1>3, <1>4, <2>2, <2>4, <2>5, <2>6, EmitDone
  <2> QED BY <2>7
<1>7. CASE ~(o \notin waiting \/ b.flight[o] # 0 \/ (o \in recent /\ o \in b.armed)) /\ o \notin recent
  <2>1. Emit(a, b, {o}, None, "none", Nothing, <<>>)
    BY <1>7 DEF PacedFlush
  <2>2. <<>> \in Seq(Effects) /\ Ships(<<>>, {})
    BY ShipsNone, EmptySeq
  <2>3. {o} \in SUBSET waiting /\ \A p \in {o} : b.flight[p] = 0
    BY <1>7
  <2>4. CallDone(Made({o}, None, "none", Nothing))
    BY <1>1, <1>2, <1>3, <1>4, <2>1, <2>2, <2>3, EmitDone
  <2> QED BY <2>4
<1> QED BY <1>5, <1>6, <1>7
-----------------------------------------------------------------------------
(* The order of the numbers, as the channels change.                       *)

(* Of the events of the kinds K, io2 has some of io1 in their order.       *)
Sub(K, io2, io1) ==
  \E d \in Nat : \A i \in 1..Len(io2) : io2[i].kind \in K => i + d \in 1..Len(io1) /\ io2[i] = io1[i + d]

LEMMA SubSame == \A K : \A s \in Seq(Events) : Sub(K, s, s)
<1>1. ASSUME NEW K, NEW s \in Seq(Events) PROVE Sub(K, s, s)
  <2>1. \A i \in 1..Len(s) : i + 0 \in 1..Len(s) /\ s[i] = s[i + 0]
    BY LenProperties
  <2> QED BY <2>1 DEF Sub
<1> QED BY <1>1

LEMMA SubTail ==
  ASSUME NEW s \in Seq(Events), s # <<>>
  PROVE  \A K : Sub(K, Tail(s), s)
<1>1. PICK t : t = Tail(s)
  OBVIOUS
<1>2. Len(t) = Len(s) - 1 /\ Len(s) \in Nat /\ \A i \in 1..Len(t) : t[i] = s[i + 1]
  BY <1>1, HeadTailProperties, LenProperties
<1>3. \A i \in 1..Len(t) : i + 1 \in 1..Len(s) /\ t[i] = s[i + 1]
  BY <1>2
<1>4. \A K : Sub(K, t, s)
  BY <1>3 DEF Sub
<1> QED BY <1>1, <1>4

LEMMA SubAppend ==
  ASSUME NEW s \in Seq(Events), NEW e
  PROVE  \A K : e.kind \notin K => Sub(K, Append(s, e), s)
<1>1. PICK t : t = Append(s, e)
  OBVIOUS
<1>2. Len(s) \in Nat /\ Len(t) = Len(s) + 1 /\ t[Len(s) + 1] = e /\ \A i \in 1..Len(s) : t[i] = s[i]
  BY <1>1, LenProperties
<1>3. ASSUME NEW i \in 1..Len(t), t[i] # e PROVE i + 0 \in 1..Len(s) /\ t[i] = s[i + 0]
  BY <1>2, <1>3
<1>4. ASSUME NEW K, e.kind \notin K PROVE Sub(K, t, s)
  <2>1. \A i \in 1..Len(t) : t[i].kind \in K => i + 0 \in 1..Len(s) /\ t[i] = s[i + 0]
    BY <1>3, <1>4
  <2> QED BY <2>1 DEF Sub
<1> QED BY <1>1, <1>4

LEMMA LineSub ==
  ASSUME NEW io1, NEW io2, NEW sh1, NEW sh2, NEW m, Sub({"idle", "echo"}, io2, io1), sh2 \in {sh1, <<>>}
  PROVE  /\ InLine(io1, sh1, m) => InLine(io2, sh2, m)
         /\ \A n : Above(io1, sh1, m, n) => Above(io2, sh2, m, n)
         /\ \A x, e : Within(io1, sh1, m, x, e) => Within(io2, sh2, m, x, e)
<1>1. PICK d \in Nat : \A i \in 1..Len(io2) : io2[i].kind \in {"idle", "echo"} => i + d \in 1..Len(io1) /\ io2[i] = io1[i + d]
  BY DEF Sub
<1>2. ASSUME NEW i \in Nat, EchoAt(io2, i, m) PROVE EchoAt(io1, i + d, m) /\ io2[i] = io1[i + d] /\ i + d \in Nat
  BY <1>1, <1>2 DEF EchoAt
<1>3. ASSUME NEW i \in Nat, FwdAt(sh2, i, m) PROVE FwdAt(sh1, i, m) /\ sh2[i] = sh1[i]
  BY <1>3 DEF FwdAt
<1>4. ASSUME InLine(io1, sh1, m) PROVE InLine(io2, sh2, m)
  <2>1. ASSUME NEW i \in Nat, NEW j \in Nat, EchoAt(io2, i, m), EchoAt(io2, j, m), i < j PROVE io2[i].n < io2[j].n
    <3>1. PICK u \in Nat : u = i + d
      OBVIOUS
    <3>2. PICK v \in Nat : v = j + d
      OBVIOUS
    <3>3. u < v /\ EchoAt(io1, u, m) /\ EchoAt(io1, v, m) /\ io2[i] = io1[u] /\ io2[j] = io1[v]
      BY <1>2, <2>1, <3>1, <3>2
    <3> QED BY <1>4, <3>3 DEF InLine
  <2>2. ASSUME NEW i \in Nat, NEW j \in Nat, EchoAt(io2, i, m), FwdAt(sh2, j, m) PROVE io2[i].n < sh2[j].n
    <3>1. PICK u \in Nat : u = i + d
      OBVIOUS
    <3>2. EchoAt(io1, u, m) /\ io2[i] = io1[u] /\ FwdAt(sh1, j, m) /\ sh2[j] = sh1[j]
      BY <1>2, <1>3, <2>2, <3>1
    <3> QED BY <1>4, <3>2 DEF InLine
  <2>3. ASSUME NEW i \in Nat, NEW j \in Nat, FwdAt(sh2, i, m), FwdAt(sh2, j, m), i < j PROVE sh2[i].n < sh2[j].n
    BY <1>3, <1>4, <2>3 DEF InLine
  <2> QED BY <2>1, <2>2, <2>3 DEF InLine
<1>5. ASSUME NEW n, Above(io1, sh1, m, n) PROVE Above(io2, sh2, m, n)
  <2>1. \A i \in Nat : EchoAt(io2, i, m) => io2[i].n < n
    BY <1>2, <1>5 DEF Above
  <2>2. \A i \in Nat : FwdAt(sh2, i, m) => sh2[i].n < n
    BY <1>3, <1>5 DEF Above
  <2> QED BY <2>1, <2>2 DEF Above
<1>6. ASSUME NEW x, NEW e, Within(io1, sh1, m, x, e) PROVE Within(io2, sh2, m, x, e)
  <2>1. \A i \in Nat : EchoAt(io2, i, m) /\ x \in DOMAIN io2[i].upd => io2[i].n <= e
    BY <1>2, <1>6 DEF Within
  <2>2. \A i \in Nat : FwdAt(sh2, i, m) /\ x \in DOMAIN sh2[i].upd => sh2[i].n <= e
    BY <1>3, <1>6 DEF Within
  <2> QED BY <2>1, <2>2 DEF Within
<1> QED BY <1>4, <1>5, <1>6

(* A message is sent: it is the last of the channel.                       *)
LEMMA LinePush ==
  ASSUME NEW io, NEW sh \in Seq(Messages), NEW m, NEW g, NEW sh2, sh2 = Append(sh, g)
  PROVE  /\ InLine(io, sh, m) /\ (Fwd(g, m) => Above(io, sh, m, g.n)) => InLine(io, sh2, m)
         /\ \A n : Above(io, sh, m, n) /\ (Fwd(g, m) => g.n < n) => Above(io, sh2, m, n)
         /\ \A x, e : Within(io, sh, m, x, e) /\ (Fwd(g, m) /\ x \in DOMAIN g.upd => g.n <= e) => Within(io, sh2, m, x, e)
<1>1. Len(sh) \in Nat /\ Len(sh2) = Len(sh) + 1 /\ sh2[Len(sh) + 1] = g /\ \A i \in 1..Len(sh) : sh2[i] = sh[i]
  BY LenProperties
<1>2. ASSUME NEW i \in Nat, FwdAt(sh2, i, m)
      PROVE  (i = Len(sh) + 1 /\ sh2[i] = g /\ Fwd(g, m)) \/ (i <= Len(sh) /\ FwdAt(sh, i, m) /\ sh2[i] = sh[i])
  <2>1. i \in 1..(Len(sh) + 1) /\ Fwd(sh2[i], m)
    BY <1>1, <1>2 DEF FwdAt
  <2>2. CASE i = Len(sh) + 1
    BY <1>1, <2>1, <2>2
  <2>3. CASE i # Len(sh) + 1
    <3>1. i \in 1..Len(sh) /\ i <= Len(sh)
      BY <1>1, <2>1, <2>3
    <3> QED BY <1>1, <2>1, <3>1 DEF FwdAt
  <2> QED BY <2>2, <2>3
<1>3. ASSUME InLine(io, sh, m), Fwd(g, m) => Above(io, sh, m, g.n) PROVE InLine(io, sh2, m)
  <2>1. ASSUME NEW i \in Nat, NEW j \in Nat, FwdAt(sh2, i, m), FwdAt(sh2, j, m), i < j PROVE sh2[i].n < sh2[j].n
    <3>1. i <= Len(sh) /\ FwdAt(sh, i, m) /\ sh2[i] = sh[i]
      <4>1. j <= Len(sh) + 1
        BY <1>1, <2>1 DEF FwdAt
      <4>2. i # Len(sh) + 1
        BY <1>1, <2>1, <4>1
      <4> QED BY <1>2, <2>1, <4>2
    <3> QED BY <1>2, <1>3, <2>1, <3>1 DEF InLine, Above
  <2>2. \A i, j \in Nat : EchoAt(io, i, m) /\ FwdAt(sh2, j, m) => io[i].n < sh2[j].n
    BY <1>2, <1>3 DEF InLine, Above
  <2> QED BY <1>3, <2>1, <2>2 DEF InLine
<1>4. ASSUME NEW n, Above(io, sh, m, n), Fwd(g, m) => g.n < n PROVE Above(io, sh2, m, n)
  BY <1>2, <1>4 DEF Above
<1>5. ASSUME NEW x, NEW e, Within(io, sh, m, x, e), Fwd(g, m) /\ x \in DOMAIN g.upd => g.n <= e
      PROVE  Within(io, sh2, m, x, e)
  BY <1>2, <1>5 DEF Within
<1> QED BY <1>3, <1>4, <1>5

(* The kernel answers the first message with the events k.                 *)
LEMMA LineAnswer ==
  ASSUME NEW io \in Seq(Events), NEW sh \in Seq(Messages), sh # <<>>, NEW k \in Seq(Events), NEW io2, io2 = Cat(io, k),
         NEW sh2, sh2 = Tail(sh), NEW m,
         \A j \in 1..Len(k) : k[j].kind = "echo" =>
           j = 1 /\ Fwd(sh[1], k[j].model) /\ k[j].n = sh[1].n /\ DOMAIN k[j].upd \subseteq DOMAIN sh[1].upd
  PROVE  /\ InLine(io, sh, m) => InLine(io2, sh2, m)
         /\ \A n : Above(io, sh, m, n) => Above(io2, sh2, m, n)
         /\ \A x, e : Within(io, sh, m, x, e) => Within(io2, sh2, m, x, e)
<1>1. /\ Len(sh2) = Len(sh) - 1 /\ Len(sh) \in Nat /\ Len(sh) > 0
      /\ \A i \in 1..Len(sh2) : sh2[i] = sh[i + 1]
  BY HeadTailProperties, LenProperties
<1>2. PICK p \in Nat : p = Len(io)
  BY LenProperties
<1>3. PICK q \in Nat : q = Len(k)
  BY LenProperties
<1>4. ASSUME NEW i \in 1..Len(io2) PROVE (i \in 1..p /\ io2[i] = io[i]) \/ (i > p /\ i - p \in 1..q /\ io2[i] = k[i - p])
  <2>1. CASE i \in 1..p
    BY <1>2, <2>1, CatEvents
  <2>2. CASE i \notin 1..p
    <3>1. i - p \in 1..q /\ io2[i] = k[i - p]
      BY <1>2, <1>3, <2>2, CatEvents
    <3>2. i > p
      BY <1>4, <2>2, <3>1
    <3> QED BY <3>1, <3>2
  <2> QED BY <2>1, <2>2
<1>5. 1 \in 1..Len(sh)
  BY <1>1
<1>6. ASSUME NEW i \in Nat, EchoAt(io2, i, m)
      PROVE  \/ i <= p /\ EchoAt(io, i, m) /\ io2[i] = io[i]
             \/ i = p + 1 /\ FwdAt(sh, 1, m) /\ io2[i].n = sh[1].n /\ DOMAIN io2[i].upd \subseteq DOMAIN sh[1].upd
  <2>1. i \in 1..Len(io2) /\ io2[i].kind = "echo" /\ io2[i].model = m
    BY <1>6 DEF EchoAt
  <2>2. CASE i \in 1..p /\ io2[i] = io[i]
    BY <1>2, <2>1, <2>2 DEF EchoAt
  <2>3. CASE i - p \in 1..q /\ io2[i] = k[i - p]
    <3>1. PICK j \in 1..q : j = i - p
      BY <2>3
    <3>2. j = 1 /\ Fwd(sh[1], m) /\ io2[i].n = sh[1].n /\ DOMAIN io2[i].upd \subseteq DOMAIN sh[1].upd
      BY <1>3, <2>1, <2>3, <3>1
    <3>3. i = p + 1
      BY <3>1, <3>2
    <3> QED BY <1>5, <3>2, <3>3 DEF FwdAt
  <2> QED BY <1>4, <2>1, <2>2, <2>3
<1>7. ASSUME NEW i \in Nat, FwdAt(sh2, i, m) PROVE FwdAt(sh, i + 1, m) /\ sh2[i] = sh[i + 1] /\ 1 < i + 1 /\ i + 1 \in Nat
  <2>1. i \in 1..Len(sh2) /\ Fwd(sh2[i], m)
    BY <1>7 DEF FwdAt
  <2>2. i + 1 \in 1..Len(sh) /\ 1 < i + 1 /\ sh2[i] = sh[i + 1]
    BY <1>1, <2>1
  <2> QED BY <2>1, <2>2 DEF FwdAt
<1>8. ASSUME InLine(io, sh, m) PROVE InLine(io2, sh2, m)
  <2>1. ASSUME NEW i \in Nat, NEW j \in Nat, EchoAt(io2, i, m), EchoAt(io2, j, m), i < j PROVE io2[i].n < io2[j].n
    <3>1. i <= p /\ EchoAt(io, i, m) /\ io2[i] = io[i]
      <4>1. j <= p + 1
        BY <1>6, <2>1
      <4>2. i # p + 1
        BY <2>1, <4>1
      <4> QED BY <1>6, <2>1, <4>2
    <3> QED BY <1>6, <1>8, <2>1, <3>1 DEF InLine
  <2>2. ASSUME NEW i \in Nat, NEW j \in Nat, EchoAt(io2, i, m), FwdAt(sh2, j, m) PROVE io2[i].n < sh2[j].n
    <3>1. PICK v \in Nat : v = j + 1
      OBVIOUS
    <3>2. FwdAt(sh, v, m) /\ sh2[j] = sh[v] /\ 1 < v
      BY <1>7, <2>2, <3>1
    <3>3. 1 \in Nat
      OBVIOUS
    <3>4. CASE i <= p /\ EchoAt(io, i, m) /\ io2[i] = io[i]
      BY <1>8, <3>2, <3>4 DEF InLine
    <3>5. CASE FwdAt(sh, 1, m) /\ io2[i].n = sh[1].n
      <4>1. sh[1].n < sh[v].n
        BY <1>8, <3>2, <3>3, <3>5 DEF InLine
      <4> QED BY <3>2, <3>5, <4>1
    <3> QED BY <1>6, <2>2, <3>4, <3>5
  <2>3. ASSUME NEW i \in Nat, NEW j \in Nat, FwdAt(sh2, i, m), FwdAt(sh2, j, m), i < j PROVE sh2[i].n < sh2[j].n
    <3>1. PICK u \in Nat : u = i + 1
      OBVIOUS
    <3>2. PICK v \in Nat : v = j + 1
      OBVIOUS
    <3>3. FwdAt(sh, u, m) /\ sh2[i] = sh[u]
      BY <1>7, <2>3, <3>1
    <3>4. FwdAt(sh, v, m) /\ sh2[j] = sh[v]
      BY <1>7, <2>3, <3>2
    <3>5. u < v
      BY <2>3, <3>1, <3>2
    <3> QED BY <1>8, <3>3, <3>4, <3>5 DEF InLine
  <2> QED BY <2>1, <2>2, <2>3 DEF InLine
<1>9. ASSUME NEW n, Above(io, sh, m, n) PROVE Above(io2, sh2, m, n)
  <2>1. \A i \in Nat : EchoAt(io2, i, m) => io2[i].n < n
    BY <1>6, <1>9 DEF Above
  <2>2. \A i \in Nat : FwdAt(sh2, i, m) => sh2[i].n < n
    BY <1>7, <1>9 DEF Above
  <2> QED BY <2>1, <2>2 DEF Above
<1>10. ASSUME NEW x, NEW e, Within(io, sh, m, x, e) PROVE Within(io2, sh2, m, x, e)
  <2>1. \A i \in Nat : EchoAt(io2, i, m) /\ x \in DOMAIN io2[i].upd => io2[i].n <= e
    BY <1>6, <1>10 DEF Within
  <2>2. \A i \in Nat : FwdAt(sh2, i, m) /\ x \in DOMAIN sh2[i].upd => sh2[i].n <= e
    BY <1>7, <1>10 DEF Within
  <2> QED BY <2>1, <2>2 DEF Within
<1> QED BY <1>8, <1>9, <1>10

LEMMA EventNumber ==
  ASSUME NEW e \in Events, e.kind \in {"idle", "echo"}
  PROVE  e.model \in Models /\ e.n \in Nat /\ (e.kind = "echo" => e.upd \in Parts(e.model))
<1>1. IsEvent(e)
  BY DEF Events
<1>2. CASE e.kind = "idle"
  BY <1>1, <1>2 DEF IsEvent
<1>3. CASE e.kind = "echo"
  BY <1>1, <1>3 DEF IsEvent
<1> QED BY <1>2, <1>3

(* The first echo has the number awaited: no other has one.                *)
LEMMA LineLast ==
  ASSUME NEW io \in Seq(Events), NEW sh \in Seq(Messages), NEW m, NEW x, NEW e \in Nat,
         InLine(io, sh, m), Within(io, sh, m, x, e), EchoAt(io, 1, m), io[1].n = e
  PROVE  /\ \A i \in Nat : 1 < i /\ EchoAt(io, i, m) => x \notin DOMAIN io[i].upd
         /\ \A i \in Nat : FwdAt(sh, i, m) => x \notin DOMAIN sh[i].upd
<1>1. 1 \in Nat
  OBVIOUS
<1>2. ASSUME NEW i \in Nat, 1 < i, EchoAt(io, i, m), x \in DOMAIN io[i].upd PROVE FALSE
  <2>1. e < io[i].n /\ io[i].n <= e
    BY <1>1, <1>2 DEF InLine, Within
  <2>2. io[i] \in Events /\ io[i].kind = "echo"
    BY <1>2, ElementOfSeq DEF EchoAt
  <2>3. io[i].n \in Nat
    BY <2>2, EventNumber
  <2> QED BY <2>1, <2>3
<1>3. ASSUME NEW i \in Nat, FwdAt(sh, i, m), x \in DOMAIN sh[i].upd PROVE FALSE
  <2>1. e < sh[i].n /\ sh[i].n <= e
    BY <1>1, <1>3 DEF InLine, Within
  <2>2. sh[i] \in Messages
    BY <1>3, ElementOfSeq DEF FwdAt
  <2>3. sh[i].n \in Nat
    BY <2>2, MessageIs
  <2> QED BY <2>1, <2>3
<1> QED BY <1>2, <1>3
-----------------------------------------------------------------------------
(* The messages through a step.                                            *)

(* What is on its way is below the next number.                            *)
LEMMA Fresh ==
  ASSUME KernelTypes, IdTypes, NumberInv, NEW m \in Models
  PROVE  /\ Above(iopub, shell, m, next[m] + 1)
         /\ \A x : Within(iopub, shell, m, x, next[m] + 1)
<1>1. next[m] \in Nat /\ m # None
  BY StoreAssumption DEF IdTypes, Models
<1>2. ASSUME NEW i \in Nat, EchoAt(iopub, i, m) PROVE iopub[i].n < next[m] + 1 /\ iopub[i].n <= next[m] + 1
  <2>1. i \in 1..Len(iopub) /\ iopub[i].kind = "echo" /\ iopub[i].model = m
    BY <1>2 DEF EchoAt
  <2>2. iopub[i].n \in Nat
    BY <2>1, ElementOfSeq, EventNumber DEF KernelTypes
  <2>3. iopub[i].n <= next[m]
    BY <2>1 DEF NumberInv
  <2> QED BY <1>1, <2>2, <2>3
<1>3. ASSUME NEW i \in Nat, FwdAt(shell, i, m) PROVE shell[i].n < next[m] + 1 /\ shell[i].n <= next[m] + 1
  <2>1. i \in 1..Len(shell) /\ shell[i].model = m
    BY <1>3 DEF FwdAt, Fwd
  <2>2. shell[i].n \in Nat
    BY <2>1, ElementOfSeq, MessageIs DEF KernelTypes
  <2>3. shell[i].n <= next[m]
    BY <1>1, <2>1 DEF NumberInv
  <2> QED BY <1>1, <2>2, <2>3
<1> QED BY <1>2, <1>3 DEF Above, Within

LEMMA PendsIs ==
  ASSUME NEW g \in Messages, Pends(g)
  PROVE  g.model \in Models /\ g.n \in Nat /\ (Fwd(g, g.model) => g.upd \in Parts(g.model))
BY MessageIs DEF Pends, At, Fwd

LEMMA SubAt ==
  ASSUME NEW K, NEW io2, NEW io1, Sub(K, io2, io1), NEW i \in 1..Len(io2), io2[i].kind \in K
  PROVE  \E j \in 1..Len(io1) : io1[j] = io2[i]
BY DEF Sub

(* Nothing is on its way of a model that was sent nothing.                 *)
LEMMA NoneYet ==
  ASSUME KernelTypes, NumberInv, TimeTypes, NEW m \in Models, next[m] = 0
  PROVE  /\ InLine(iopub, shell, m) /\ (\A n : Above(iopub, shell, m, n)) /\ (\A x, e : Within(iopub, shell, m, x, e))
         /\ \A g \in Messages : Pends(g) => g.model # m
<1>1. m # None
  BY StoreAssumption DEF Models
<1>2. ASSUME NEW i \in Nat, EchoAt(iopub, i, m) PROVE FALSE
  <2>1. i \in 1..Len(iopub) /\ iopub[i].kind = "echo" /\ iopub[i].model = m
    BY <1>2 DEF EchoAt
  <2>2. iopub[i].n \in Nat
    BY <2>1, ElementOfSeq, EventNumber DEF KernelTypes
  <2>3. 0 < iopub[i].n /\ iopub[i].n <= 0
    BY <2>1 DEF NumberInv
  <2> QED BY <2>2, <2>3
<1>3. ASSUME NEW i \in Nat, FwdAt(shell, i, m) PROVE FALSE
  <2>1. i \in 1..Len(shell) /\ shell[i].model = m
    BY <1>3 DEF FwdAt, Fwd
  <2>2. shell[i].n \in Nat
    BY <2>1, ElementOfSeq, MessageIs DEF KernelTypes
  <2>3. 0 < shell[i].n /\ shell[i].n <= 0
    BY <1>1, <2>1 DEF NumberInv
  <2> QED BY <2>2, <2>3
<1>4. ASSUME NEW g \in Messages, Pends(g), g.model = m PROVE FALSE
  <2>1. g.n # 0 /\ g.n \in Nat
    BY <1>4, PendingNumber
  <2>2. g.n <= 0
    BY <1>4 DEF NumberInv
  <2> QED BY <2>1, <2>2
<1>5. InLine(iopub, shell, m)
  BY <1>2, <1>3 DEF InLine
<1>6. \A n : Above(iopub, shell, m, n)
  BY <1>2, <1>3 DEF Above
<1>7. \A x, e : Within(iopub, shell, m, x, e)
  BY <1>2, <1>3 DEF Within
<1> QED BY <1>4, <1>5, <1>6, <1>7

TrackInv == Single /\ NumberInv /\ ApartInv /\ OrderInv
LEMMA TrackKept ==
  ASSUME KernelTypes, IdTypes, TimeTypes, TrackInv, NEW N, Makes(N),
         Sub({"idle", "echo"}, iopub', iopub), shell' \in {shell, <<>>},
         aged' = aged, \A m \in Models : Live(m)' => Live(m) \/ next[m] = 0
  PROVE  TrackInv'
<1> USE DEF TrackInv
<1>1. /\ \A m \in Models : next[m] \in Nat /\ aged[m] \in Nat /\ aged[m] <= next[m] /\ m # None
      /\ \A g \in N : g.model \in Models /\ g.n = next[g.model] + 1 /\ next'[g.model] = g.n
  BY StoreAssumption DEF IdTypes, TimeTypes, NumberInv, Models, Makes
<1>2. ASSUME NEW m \in Models PROVE next'[m] \in Nat /\ next[m] <= next'[m] /\ (next'[m] = next[m] \/ next'[m] = next[m] + 1)
  <2>1. CASE next'[m] = next[m]
    BY <1>1, <2>1
  <2>2. CASE \E g \in N : g.model = m
    <3>1. next'[m] = next[m] + 1
      BY <1>1, <2>2
    <3> QED BY <1>1, <3>1
  <2> QED BY <2>1, <2>2 DEF Makes
<1>3. \A g \in Messages : Pends(g)' => Pends(g) \/ g \in N
  BY DEF Makes
<1>4. \A i \in 1..Len(shell') : i \in 1..Len(shell) /\ shell'[i] = shell[i]
  OBVIOUS
<1>5. \A i \in 1..Len(iopub') : iopub'[i].kind \in {"idle", "echo"} => \E j \in 1..Len(iopub) : iopub[j] = iopub'[i]
  BY SubAt
<1>6. NumberInv'
  <2>1. \A m \in Models : aged[m] <= next'[m]
    BY <1>1, <1>2
  <2>2. ASSUME NEW g \in Messages, Pends(g)' PROVE aged[g.model] < g.n /\ g.n <= next'[g.model]
    <3>1. CASE g \in N
      BY <1>1, <3>1
    <3>2. CASE Pends(g)
      <4>1. g.model \in Models /\ g.n \in Nat /\ aged[g.model] < g.n /\ g.n <= next[g.model]
        BY <3>2, PendsIs DEF NumberInv
      <4> QED BY <1>1, <1>2, <4>1
    <3> QED BY <1>3, <2>2, <3>1, <3>2
  <2>3. ASSUME NEW i \in 1..Len(shell), shell[i].model # None PROVE 0 < shell[i].n /\ shell[i].n <= next'[shell[i].model]
    <3>1. shell[i].n \in Nat /\ shell[i].model \in Models
      BY <2>3, ElementOfSeq, MessageIs DEF KernelTypes
    <3>2. 0 < shell[i].n /\ shell[i].n <= next[shell[i].model]
      BY <2>3 DEF NumberInv
    <3> QED BY <1>1, <1>2, <3>1, <3>2
  <2>4. ASSUME NEW i \in 1..Len(shell'), shell'[i].model # None PROVE 0 < shell'[i].n /\ shell'[i].n <= next'[shell'[i].model]
    BY <1>4, <2>3, <2>4
  <2>5. ASSUME NEW i \in 1..Len(iopub), iopub[i].kind \in {"idle", "echo"}
        PROVE  0 < iopub[i].n /\ iopub[i].n <= next'[iopub[i].model]
    <3>1. iopub[i].n \in Nat /\ iopub[i].model \in Models
      BY <2>5, ElementOfSeq, EventNumber DEF KernelTypes
    <3>2. 0 < iopub[i].n /\ iopub[i].n <= next[iopub[i].model]
      BY <2>5 DEF NumberInv
    <3> QED BY <1>1, <1>2, <3>1, <3>2
  <2>6. ASSUME NEW i \in 1..Len(iopub'), iopub'[i].kind \in {"idle", "echo"}
        PROVE  0 < iopub'[i].n /\ iopub'[i].n <= next'[iopub'[i].model]
    BY <1>5, <2>5, <2>6
  <2> QED BY <2>1, <2>2, <2>4, <2>6 DEF NumberInv
<1>7. ApartInv'
  <2>1. ASSUME NEW g \in Messages, Pends(g)', NEW i \in 1..Len(shell), shell[i].model = g.model PROVE shell[i].n # g.n
    <3>1. CASE Pends(g)
      BY <2>1, <3>1 DEF ApartInv
    <3>2. CASE g \in N
      <4>1. g.model \in Models /\ g.n = next[g.model] + 1 /\ next[g.model] \in Nat /\ g.model # None
        BY <1>1, <3>2
      <4>2. shell[i].n <= next[g.model]
        BY <2>1, <4>1 DEF NumberInv
      <4> QED BY <4>1, <4>2
    <3> QED BY <1>3, <2>1, <3>1, <3>2
  <2>2. ASSUME NEW g \in Messages, Pends(g)', NEW i \in 1..Len(iopub), EventAt("idle", g.model, i) PROVE iopub[i].n # g.n
    <3>1. CASE Pends(g)
      BY <2>2, <3>1 DEF ApartInv
    <3>2. CASE g \in N
      <4>1. g.n = next[g.model] + 1 /\ next[g.model] \in Nat
        BY <1>1, <3>2
      <4>2. iopub[i].n <= next[g.model]
        BY <2>2 DEF NumberInv, EventAt
      <4> QED BY <4>1, <4>2
    <3> QED BY <1>3, <2>2, <3>1, <3>2
  <2>3. ASSUME NEW g \in Messages, Pends(g)'
        PROVE  /\ \A i \in 1..Len(shell') : shell'[i].model = g.model => shell'[i].n # g.n
               /\ \A i \in 1..Len(iopub') : iopub'[i].kind = "idle" /\ iopub'[i].model = g.model => iopub'[i].n # g.n
    <3>1. \A i \in 1..Len(shell') : shell'[i].model = g.model => shell'[i].n # g.n
      BY <1>4, <2>1, <2>3
    <3>2. ASSUME NEW i \in 1..Len(iopub'), iopub'[i].kind = "idle", iopub'[i].model = g.model PROVE iopub'[i].n # g.n
      <4>1. PICK j \in 1..Len(iopub) : iopub[j] = iopub'[i]
        BY <1>5, <3>2
      <4>2. EventAt("idle", g.model, j)
        BY <3>2, <4>1 DEF EventAt
      <4> QED BY <2>2, <2>3, <4>1, <4>2
    <3> QED BY <3>1, <3>2
  <2> QED BY <2>3 DEF ApartInv, EventAt
<1>8. ASSUME NEW m \in Models, Live(m)'
      PROVE  /\ InLine(iopub', shell', m)
             /\ \A g \in Messages : Pends(g)' /\ Fwd(g, m) => Above(iopub', shell', m, g.n)
  <2>3. InLine(iopub, shell, m) /\ \A g \in Messages : Pends(g) /\ Fwd(g, m) => Above(iopub, shell, m, g.n)
    BY <1>8, NoneYet DEF OrderInv
  <2>1. InLine(iopub', shell', m)
    BY <2>3, LineSub
  <2>2. ASSUME NEW g \in Messages, Pends(g)', Fwd(g, m) PROVE Above(iopub', shell', m, g.n)
    <3>1. Above(iopub, shell, m, g.n)
      <4>1. CASE Pends(g)
        BY <2>2, <2>3, <4>1
      <4>2. CASE g \in N
        <5>1. g.n = next[m] + 1
          BY <1>1, <2>2, <4>2 DEF Fwd
        <5> QED BY <5>1, Fresh
      <4> QED BY <1>3, <2>2, <4>1, <4>2
    <3> QED BY <3>1, LineSub
  <2> QED BY <2>1, <2>2
<1>9. OrderInv'
  BY <1>8 DEF OrderInv, InLine, Above, EchoAt, FwdAt
<1> QED BY <1>6, <1>7, <1>9 DEF Makes

LEMMA ExpectKept ==
  ASSUME KernelTypes, IdTypes, TimeTypes, NumberInv, ExpectInv, NEW N, Posts(N),
         Sub({"idle", "echo"}, iopub', iopub), shell' \in {shell, <<>>},
         \A m \in Models : Live(m)' => Live(m) \/ (next[m] = 0 /\ next'[m] = 0)
  PROVE  ExpectInv'
<1>1. /\ \A m \in Models : next[m] \in Nat
      /\ \A g \in N : g.model \in Models /\ g.n = next[g.model] + 1 /\ next'[g.model] = g.n
  BY DEF IdTypes, Posts, Makes
<1>2. \A g \in Messages : Pends(g)' => Pends(g) \/ g \in N
  BY DEF Posts, Makes
<1>3. ASSUME NEW m \in Models, Live(m)', Live(m), NEW x \in AttrsOf(m)
      PROVE  /\ Within(iopub', shell', m, x, expect'[m][x])
             /\ \A g \in Messages : Pends(g)' /\ Fwd(g, m) /\ x \in DOMAIN g.upd => g.n <= expect'[m][x]
  <2>1. \A g \in N : Fwd(g, m) /\ x \in DOMAIN g.upd => expect'[m][x] = g.n /\ g.n = next[m] + 1
    BY <1>1, <1>3 DEF Posts, Expects, Fwd
  <2>2. \A g \in Messages : Pends(g) /\ Fwd(g, m) => g.n \in Nat /\ g.n <= next[m]
    BY PendsIs DEF NumberInv, Fwd
  <2>3. CASE Carried(N, m, x)
    <3>1. expect'[m][x] = next[m] + 1
      BY <2>1, <2>3 DEF Carried
    <3>2. Within(iopub, shell, m, x, next[m] + 1)
      BY Fresh
    <3>3. Within(iopub', shell', m, x, next[m] + 1)
      <4>1. PICK e : e = next[m] + 1
        OBVIOUS
      <4>2. Within(iopub, shell, m, x, e)
        BY <3>2, <4>1
      <4>3. Within(iopub', shell', m, x, e)
        BY <4>2, LineSub
      <4> QED BY <4>1, <4>3
    <3>4. \A g \in Messages : Pends(g)' /\ Fwd(g, m) /\ x \in DOMAIN g.upd => g.n <= next[m] + 1
      <4>1. next[m] \in Nat
        BY <1>1
      <4>2. ASSUME NEW g \in Messages, Pends(g)', Fwd(g, m), x \in DOMAIN g.upd PROVE g.n <= next[m] + 1
        <5>1. CASE Pends(g)
          <6>1. g.n \in Nat /\ g.n <= next[m]
            BY <2>2, <4>2, <5>1
          <6> QED BY <4>1, <6>1
        <5>2. CASE g \in N
          <6>1. g.n = next[m] + 1
            BY <2>1, <4>2, <5>2
          <6> QED BY <4>1, <6>1
        <5> QED BY <1>2, <4>2, <5>1, <5>2
      <4> QED BY <4>2
    <3> QED BY <3>1, <3>3, <3>4
  <2>4. CASE ~Carried(N, m, x)
    <3>1. expect'[m][x] = expect[m][x]
      BY <1>3, <2>4 DEF Posts, Expects
    <3>2. Within(iopub, shell, m, x, expect[m][x])
      BY <1>3 DEF ExpectInv
    <3>3. Within(iopub', shell', m, x, expect[m][x])
      BY <3>2, LineSub
    <3>4. \A g \in Messages : Pends(g)' /\ Fwd(g, m) /\ x \in DOMAIN g.upd => g.n <= expect[m][x]
      BY <1>2, <1>3, <2>4 DEF Carried, ExpectInv
    <3> QED BY <3>1, <3>3, <3>4
  <2> QED BY <2>3, <2>4
<1>4. ASSUME NEW m \in Models, next[m] = 0, next'[m] = 0, NEW x \in AttrsOf(m)
      PROVE  /\ Within(iopub', shell', m, x, expect'[m][x])
             /\ \A g \in Messages : Pends(g)' /\ Fwd(g, m) /\ x \in DOMAIN g.upd => g.n <= expect'[m][x]
  <2>1. PICK e : e = expect'[m][x]
    OBVIOUS
  <2>2. Within(iopub, shell, m, x, e)
    BY <1>4, NoneYet
  <2>3. Within(iopub', shell', m, x, e)
    BY <2>2, LineSub
  <2>4. ASSUME NEW g \in Messages, Pends(g)', Fwd(g, m) PROVE FALSE
    <3>1. g.model = m
      BY <2>4 DEF Fwd
    <3>2. ~Pends(g)
      BY <1>4, <3>1, NoneYet
    <3>3. g \in N
      BY <1>2, <2>4, <3>2
    <3>4. g.n = 1 /\ g.n = 0
      BY <1>1, <1>4, <3>1, <3>3
    <3> QED BY <3>4
  <2> QED BY <2>1, <2>3, <2>4
<1>5. ASSUME NEW m \in Models, Live(m)', NEW x \in AttrsOf(m)
      PROVE  /\ Within(iopub', shell', m, x, expect'[m][x])
             /\ \A g \in Messages : Pends(g)' /\ Fwd(g, m) /\ x \in DOMAIN g.upd => g.n <= expect'[m][x]
  BY <1>3, <1>4, <1>5
<1>6. ExpectInv'
  BY <1>5 DEF ExpectInv, Within, EchoAt, FwdAt
<1> QED BY <1>6

(* What the proof that the echoes are in order rests on.                   *)
MessageInv == WireInv /\ OnceInv /\ HeldLive /\ FlightsInv

LEMMA OnceKept ==
  ASSUME OnceInv, NEW N, Makes(N), gen' = gen, opened \subseteq opened',
         \A m \in Models : Live(m)' => Live(m) \/ (m \in opened' /\ \A i \in 1..Len(iopub') : ~Opens(m, i)'),
         Sub({"open"}, iopub', iopub)
  PROVE  OnceInv'
<1>1. PICK d \in Nat : \A i \in 1..Len(iopub') : iopub'[i].kind \in {"open"} => i + d \in 1..Len(iopub) /\ iopub'[i] = iopub[i + d]
  BY DEF Sub
<1>2. ASSUME NEW m \in Models, Live(m)' \/ next'[m] # 0 PROVE m \in opened'
  <2>1. next'[m] = next[m] \/ Live(m)
    BY DEF Makes
  <2> QED BY <1>2, <2>1 DEF OnceInv
<1>3. ASSUME NEW i \in 1..Len(iopub'), iopub'[i].kind = "open" PROVE iopub'[i].model \in opened'
  BY <1>1, <1>3 DEF OnceInv
<1>4. ASSUME NEW m \in Models, NEW i \in 1..Len(iopub'), Opens(m, i)'
      PROVE  ~Live(m)' /\ next'[m] = 0 /\ \A j \in 1..Len(iopub') : Opens(m, j)' => j = i
  <2>1. \A j \in 1..Len(iopub') : Opens(m, j)' => j + d \in 1..Len(iopub) /\ Opens(m, j + d)
    BY <1>1 DEF Opens, EventAt
  <2>2. i + d \in 1..Len(iopub) /\ Opens(m, i + d)
    BY <1>4, <2>1
  <2>3. ~Live(m) /\ next[m] = 0 /\ \A j \in 1..Len(iopub) : Opens(m, j) => j = i + d
    BY <2>2 DEF OnceInv
  <2>4. next'[m] = 0
    BY <2>3 DEF Makes
  <2>5. ASSUME NEW j \in 1..Len(iopub'), Opens(m, j)' PROVE j = i
    <3>1. j + d = i + d
      BY <2>1, <2>3, <2>5
    <3> QED BY <3>1
  <2> QED BY <1>4, <2>3, <2>4, <2>5
<1> QED BY <1>2, <1>3, <1>4 DEF OnceInv

(* An event is taken, or none.                                             *)
Quieter == iopub' = iopub \/ (iopub # <<>> /\ iopub' = Tail(iopub))

(* No idle, echo or open is added.                                         *)
Passes == Sub({"idle", "echo"}, iopub', iopub) /\ Sub({"open"}, iopub', iopub)

LEMMA QuieterPasses ==
  ASSUME KernelTypes, Quieter
  PROVE  Passes
BY SubSame, SubTail DEF Quieter, KernelTypes, Passes

LEMMA StepKept ==
  ASSUME Core, MessageInv, NEW N, Posts(N), FlightsInv', HeldLive', gen' = gen, opened' = opened, aged' = aged,
         shell' = shell, Passes, \A m \in Models : Live(m)' => Live(m)
  PROVE  MessageInv'
<1>1. KernelTypes /\ IdTypes /\ TimeTypes /\ WireInv /\ OnceInv
  BY DEF Core, CallInv, CallTypes, MessageInv
<1>2. Makes(N)
  BY DEF Posts
<1>3. WireInv'
  <2>1. TrackInv'
    BY <1>1, <1>2, TrackKept DEF WireInv, TrackInv, Passes
  <2>2. ExpectInv'
    BY <1>1, ExpectKept DEF WireInv, Passes
  <2> QED BY <2>1, <2>2 DEF WireInv, TrackInv
<1>4. OnceInv'
  BY <1>1, <1>2, OnceKept DEF Passes
<1> QED BY <1>3, <1>4 DEF MessageInv

(* A call whose messages are N, and the values it changes.                 *)
Covers(N) ==
  \A m \in Models : \A x \in AttrsOf(m) :
    val'[m][x] # val[m][x] => x \in DOMAIN pending'[m] \/ Carried(N, m, x)
Calls == \E N : CallDone(N) /\ Covers(N)

LEMMA HeldLiveAfter ==
  ASSUME HeldLive, NEW N, Captures(N), Holds(N), st' = st
  PROVE  HeldLive'
BY DEF HeldLive, Captures, Holds, Live

(* A call that is done and moves nothing else of the messages.             *)
Settles == st' = st /\ gen' = gen /\ opened' = opened /\ aged' = aged /\ shell' = shell /\ Passes
LEMMA DoneKeeps ==
  ASSUME Core, MessageInv, NEW N, CallDone(N), Settles
  PROVE  MessageInv'
<1>1. HeldLive'
  BY HeldLiveAfter DEF CallDone, MessageInv, Settles
<1>2. \A m \in Models : Live(m)' => Live(m)
  BY DEF Live, Settles
<1> QED BY <1>1, <1>2, StepKept DEF CallDone, Settles

LEMMA WireOf ==
  ASSUME Core, MessageInv
  PROVE  CallWire
BY DEF Core, CallInv, MessageInv, WireInv, CallWire

(* Nothing of the messages moves.                                          *)
LEMMA SameDone ==
  ASSUME CallWire, st' = st, UNCHANGED <<updVars, next, waiting, flight, fx>>
  PROVE  CallDone({})
<1>1. inflight' = inflight /\ pending' = pending /\ waiting' = waiting /\ flight' = flight /\ expect' = expect
      /\ next' = next /\ fx' = fx
  BY DEF updVars
<1>2. Posts({})
  BY <1>1, NothingPosts DEF CallWire
<1>3. FlightsInv'
  BY <1>1, <1>2, FlightsAfter DEF CallWire, FlightsInv, FlightInv, OutsApart, Posts
<1> QED BY <1>1, <1>2, <1>3 DEF CallDone, Captures, Holds, CallWire, HeldLive

LEMMA SameCalls ==
  ASSUME CallWire, st' = st, val' = val, UNCHANGED <<updVars, idVars, outVars, fx>>
  PROVE  Calls
<1>1. CallDone({})
  BY SameDone DEF idVars, outVars
<1> QED BY <1>1 DEF Calls, Covers

LEMMA CallsOf ==
  ASSUME val' = val, NEW N, CallDone(N)
  PROVE  Calls
BY DEF Calls, Covers
-----------------------------------------------------------------------------
(* The copies along links.                                                 *)
LEMMA CopyCalls ==
  ASSUME CallWire, ModelTypes, ModelTypes', st' = st, holder \in Actors, NEW from, NEW to,
         from.model \in Models, from.attr \in AttrsOf(from.model),
         to.model \in Models => to.attr \in AttrsOf(to.model), to.model \notin Outs,
         NEW rest, CopyAttr(from, to, rest)
  PROVE  Calls
<1>1. CASE Live(to.model) /\ val[to.model][to.attr] # val[from.model][from.attr]
  <2>1. to.model \in Sliders /\ to.attr \in AttrsOf(to.model)
    BY <1>1 DEF Live, Models
  <2>2. PICK m \in Sliders : m = to.model
    BY <2>1
  <2>3. PICK x \in AttrsOf(m) : x = to.attr
    BY <2>1, <2>2
  <2>4. PICK v \in Vals : v = val[from.model][from.attr]
    BY DEF ModelTypes
  <2>5. val' = [val EXCEPT ![m][x] = v] /\ QueueForKernel(holder, m, [y \in {x} |-> v]) /\ Live(m)
    BY <1>1, <2>2, <2>3, <2>4 DEF CopyAttr
  <2>6. [y \in {x} |-> v] \in Parts(m)
    <3>1. {x} \in SUBSET AttrsOf(m) /\ [y \in {x} |-> v] \in [{x} -> Vals]
      OBVIOUS
    <3> QED BY <3>1 DEF Parts
  <2>7. PICK u \in Parts(m) : u = [y \in {x} |-> v]
    BY <2>6
  <2>8. PICK N : CallDone(N) /\ \A y \in DOMAIN u : y \in DOMAIN pending'[m] \/ Carried(N, m, y)
    BY <2>5, <2>7, QueueDone
  <2>9. \A k \in Models : \A y \in AttrsOf(k) : ~(k = m /\ y = x) => val'[k][y] = val[k][y]
    BY <2>5 DEF ModelTypes
  <2>10. Covers(N)
    BY <2>7, <2>8, <2>9 DEF Covers
  <2> QED BY <2>8, <2>10 DEF Calls
<1>2. CASE ~(Live(to.model) /\ val[to.model][to.attr] # val[from.model][from.attr])
  BY <1>2, SameCalls DEF CopyAttr
<1> QED BY <1>1, <1>2

LEMMA LinkEnd ==
  ASSUME NoOutEnds, LinkTypes, NEW l \in Connected, NEW p \in {ends[l].source, ends[l].target}
  PROVE  p.model \notin Outs /\ (p.model \in Models => p.attr \in AttrsOf(p.model))
BY ConnectedEnds, EndAttr DEF NoOutEnds

LEMMA ApplyLinkCalls ==
  ASSUME NoOutEnds, Core, Core', MessageInv, ApplyLink
  PROVE  Calls
<1>1. CallWire /\ ModelTypes /\ ModelTypes' /\ LinkTypes /\ LockTypes /\ st' = st
  BY WireOf DEF Core, ApplyLink, LockKeeps
<1>2. holder \in Actors /\ apply \in Seq(Connected) /\ apply # <<>>
  BY <1>1 DEF LockTypes, ApplyLink
<1>3. PICK l \in Connected : l = Head(apply)
  BY <1>2, HeadTailProperties
<1>4. PICK e : e = ends[l]
  OBVIOUS
<1>5. CASE Live(e.source.model) /\ Live(e.target.model)
  <2>1. PICK from : from = e.source
    OBVIOUS
  <2>2. PICK to : to = e.target
    OBVIOUS
  <2>3. CopyAttr(from, to, <<>>)
    BY <1>3, <1>4, <1>5, <2>1, <2>2 DEF ApplyLink
  <2>4. from.model \in Models /\ from.attr \in AttrsOf(from.model)
    BY <1>1, <1>4, <1>5, <2>1, LinkEnd DEF Live
  <2>5. to.model \notin Outs /\ (to.model \in Models => to.attr \in AttrsOf(to.model))
    BY <1>1, <1>4, <2>2, LinkEnd
  <2> QED BY <1>1, <1>2, <2>3, <2>4, <2>5, CopyCalls
<1>6. CASE ~(Live(e.source.model) /\ Live(e.target.model))
  <2>1. UNCHANGED <<todo, val, updVars, idVars, outVars, fx>>
    BY <1>3, <1>4, <1>6 DEF ApplyLink
  <2> QED BY <1>1, <2>1, SameCalls
<1> QED BY <1>5, <1>6

LEMMA PropagateCalls ==
  ASSUME NoOutEnds, Core, Core', MessageInv, Propagate
  PROVE  Calls
<1>1. CallWire /\ ModelTypes /\ ModelTypes' /\ LinkTypes /\ LockTypes /\ st' = st
  BY WireOf DEF Core, Propagate, LockKeeps
<1>2. holder \in Actors /\ todo \in Seq(Changes(Connected)) /\ todo # <<>>
  BY <1>1 DEF LockTypes, Propagate
<1>3. PICK i \in Changes(Connected) : i = Head(todo)
  BY <1>2, HeadTailProperties
<1>4. i.model \in Models /\ i.left \in Seq(Connected)
  BY DEF Changes
<1> DEFINE way == IF i.left = <<>> THEN <<>> ELSE Copies(Head(i.left), i.model, i.attr)
           rest == IF i.left = <<>> THEN Tail(todo) ELSE <<[i EXCEPT !.left = Tail(@)]>> \o Tail(todo)
<1>5. \/ way = <<>>
      \/ \E l \in Connected : \E from, to \in {ends[l].source, ends[l].target} :
           way = <<from, to>> /\ from.model \in Models
  <2>1. CASE i.left = <<>>
    BY <2>1
  <2>2. CASE i.left # <<>>
    <3>1. PICK l \in Connected : l = Head(i.left)
      BY <1>4, <2>2, HeadTailProperties
    <3>2. PICK m \in Models : m = i.model
      BY <1>4
    <3>3. way = Copies(l, m, i.attr)
      BY <2>2, <3>1, <3>2
    <3>4. \/ Copies(l, m, i.attr) = <<>>
          \/ Copies(l, m, i.attr) = <<ends[l].source, ends[l].target>> /\ ends[l].source.model = m
          \/ Copies(l, m, i.attr) = <<ends[l].target, ends[l].source>> /\ ends[l].target.model = m
      BY DEF Copies
    <3> HIDE DEF way
    <3> QED BY <3>3, <3>4
  <2> QED BY <2>1, <2>2
<1>6. /\ way = <<>> \/ AtLimit => UNCHANGED <<val, updVars, idVars, outVars, fx>>
      /\ way # <<>> /\ ~AtLimit => CopyAttr(way[1], way[2], rest)
  BY <1>3 DEF Propagate
<1> HIDE DEF way, rest
<1>7. CASE way = <<>> \/ AtLimit
  BY <1>1, <1>6, <1>7, SameCalls
<1>8. CASE way # <<>> /\ ~AtLimit
  <2>4. PICK l \in Connected : \E from, to \in {ends[l].source, ends[l].target} :
          way = <<from, to>> /\ from.model \in Models
    BY <1>5, <1>8
  <2>1. PICK from \in {ends[l].source, ends[l].target}, to \in {ends[l].source, ends[l].target} :
          way = <<from, to>> /\ from.model \in Models
    BY <2>4
  <2>2. CopyAttr(from, to, rest)
    BY <1>6, <1>8, <2>1
  <2>3. from.attr \in AttrsOf(from.model) /\ to.model \notin Outs /\ (to.model \in Models => to.attr \in AttrsOf(to.model))
    BY <1>1, <2>1, LinkEnd
  <2> QED BY <1>1, <1>2, <2>1, <2>2, <2>3, CopyCalls
<1> QED BY <1>7, <1>8
-----------------------------------------------------------------------------
(* The calls of the pump, the frontend and the timers.                     *)
LEMMA EventQuieter ==
  ASSUME NEW kind, Event(kind)
  PROVE  /\ Quieter /\ gen' = gen /\ opened' = opened /\ aged' = aged /\ shell' = shell
         /\ iopub # <<>> /\ Head(iopub).kind = kind /\ iopub' = Tail(iopub) /\ Head(iopub).gen = gen
BY DEF Event, Quieter, timeVars, Current

LEMMA DropCalls ==
  ASSUME CallWire, Drops
  PROVE  Calls /\ st' = st
<1>1. UNCHANGED <<st, val, updVars, idVars, outVars, fx>>
  BY DEF Drops, modelVars
<1> QED BY <1>1, SameCalls

LEMMA CaptureUpdateCalls ==
  ASSUME Core, Core', MessageInv, CaptureUpdate
  PROVE  Calls /\ st' = st
<1>1. CallWire /\ ModelTypes'
  BY WireOf DEF Core
<1>2. IsEvent(Head(iopub)) /\ Head(iopub).kind = "capture"
  BY EventDoes DEF CaptureUpdate
<1>3. PICK o \in Outs : o = Head(iopub).model
  BY <1>2 DEF IsEvent
<1>4. CASE Drops
  BY <1>1, <1>4, DropCalls
<1>5. CASE ~Drops
  <2>1. val' = val /\ st' = st /\ inflight' = inflight /\ pending' = pending /\ (PacedFlush("pump", Base, o) \/ EmitNone(Base))
    BY <1>3, <1>5 DEF CaptureUpdate
  <2>2. PICK b \in Bases : b = Base /\ b.flight = flight
    BY BaseIs DEF Core, CallInv, CallTypes
  <2>3. FlightOf(b)
    BY <2>2, FlightIs DEF MessageInv
  <2>4. CASE PacedFlush("pump", b, o)
    BY <1>1, <2>1, <2>3, <2>4, PacedDone, CallsOf DEF Actors
  <2>5. CASE EmitNone(b)
    <3>1. CallDone({})
      BY <1>1, <2>1, <2>3, <2>5, NoneDone DEF CallWire, FlightsInv, FlightInv, OutsApart, HeldLive
    <3> QED BY <2>1, <3>1, CallsOf
  <2> QED BY <2>1, <2>2, <2>4, <2>5
<1> QED BY <1>4, <1>5

LEMMA IdleCalls ==
  ASSUME Core, Core', MessageInv, Idle
  PROVE  Calls /\ st' = st
<1>1. CallWire /\ ModelTypes'
  BY WireOf DEF Core
<1>2. IsEvent(Head(iopub)) /\ Head(iopub).kind = "idle"
  BY EventDoes DEF Idle
<1>3. PICK n \in Nat : n = Head(iopub).n
  BY <1>2 DEF IsEvent
<1>4. PICK m \in Models : m = Head(iopub).model
  BY <1>2 DEF IsEvent
<1>5. PICK d : d = Base
  OBVIOUS
<1>6. d \in Bases /\ d.flight = flight
  BY <1>5, BaseIs DEF Core, CallInv, CallTypes
<1>7. PICK b : b = [d EXCEPT !.ours = @ \ {<<m, n>>}]
  OBVIOUS
<1>8. b \in Bases /\ b.flight = flight
  BY <1>6, <1>7 DEF Bases
<1>9. val' = val /\ st' = st
  BY DEF Idle
(* What is idle was sent.                                                  *)
<1>10. \A g \in Messages : Pends(g) => ~(g.model = m /\ g.n = n)
  <2>1. iopub # <<>> /\ Len(iopub) \in Nat /\ Head(iopub) = iopub[1] /\ 1 \in 1..Len(iopub)
    <3>1. iopub # <<>> /\ iopub \in Seq(Events)
      BY DEF Idle, Event, Core, KernelTypes
    <3> QED BY <3>1, HeadTailProperties, LenProperties
  <2>2. EventAt("idle", m, 1) /\ iopub[1].n = n
    BY <1>2, <1>3, <1>4, <2>1 DEF EventAt
  <2> QED BY <2>1, <2>2 DEF MessageInv, WireInv, ApartInv
<1>11. CASE <<m, n>> \notin infl
  <2>1. EmitNone(b) /\ inflight' = inflight /\ pending' = pending
    BY <1>3, <1>4, <1>5, <1>7, <1>11 DEF Idle
  <2>2. FlightOf(b)
    BY <1>8, FlightIs DEF MessageInv
  <2>3. CallDone({})
    BY <1>1, <1>9, <2>1, <2>2, NoneDone DEF CallWire, FlightsInv, FlightInv, OutsApart, HeldLive
  <2> QED BY <1>9, <2>3, CallsOf
<1>12. CASE <<m, n>> \in infl /\ m \in Outs /\ flight[m] = n
  <2>1. PICK c : c = [b EXCEPT !.infl = @ \ {<<m, n>>}, !.flight[m] = 0]
    OBVIOUS
  <2>2. PacedFlush("pump", c, m) /\ inflight' = inflight /\ pending' = pending
    BY <1>3, <1>4, <1>5, <1>7, <1>12, <2>1 DEF Idle
  <2>3. c \in Bases /\ \A p \in Outs : c.flight[p] = IF p = m THEN 0 ELSE flight[p]
    BY <1>8, <1>12, <2>1 DEF Bases
  <2>4. FlightOf(c)
    <3>1. ASSUME NEW g \in Messages, Pends(g), Live(g.model), g.kind = "flush" PROVE c.flight[g.model] = g.n
      <4>1. g.model \in Outs /\ flight[g.model] = g.n
        BY <3>1 DEF MessageInv, FlightsInv, FlightInv, KindInv
      <4>2. g.model # m
        BY <1>10, <1>12, <3>1, <4>1
      <4> QED BY <2>3, <4>1, <4>2
    <3> QED BY <3>1 DEF FlightOf
  <2> QED BY <1>1, <1>9, <1>12, <2>2, <2>3, <2>4, PacedDone, CallsOf DEF Actors
<1>13. CASE <<m, n>> \in infl /\ ~(m \in Outs /\ flight[m] = n)
  <2>1. Release("pump", b, m, n)
    BY <1>3, <1>4, <1>5, <1>7, <1>13 DEF Idle
  <2> QED BY <1>1, <1>8, <1>9, <1>10, <2>1, ReleaseDone, CallsOf DEF Actors
<1> QED BY <1>11, <1>12, <1>13

LEMMA CheckFiresCalls ==
  ASSUME Core, Core', MessageInv, NEW m \in Models, NEW n \in 1..next[m], CheckFires(m, n)
  PROVE  Calls /\ st' = st
<1>1. CallWire /\ ModelTypes' /\ val' = val /\ st' = st
  BY WireOf DEF Core, CheckFires
<1>2. PICK b \in Bases : b = Base /\ b.flight = flight
  BY BaseIs DEF Core, CallInv, CallTypes
<1>3. n \in Nat /\ n <= aged[m]
  BY DEF CheckFires
<1>4. \A g \in Messages : Pends(g) => ~(g.model = m /\ g.n = n)
  <2>1. ASSUME NEW g \in Messages, Pends(g), g.model = m, g.n = n PROVE FALSE
    <3>1. aged[m] < n /\ aged[m] \in Nat
      BY <1>1, <2>1, PendingNumber DEF CallWire
    <3> QED BY <1>3, <3>1
  <2> QED BY <2>1
<1>5. Release("timer", b, m, n)
  BY <1>2 DEF CheckFires
<1> QED BY <1>1, <1>2, <1>3, <1>4, <1>5, ReleaseDone, CallsOf DEF Actors

LEMMA TimerFiresCalls ==
  ASSUME Core, Core', MessageInv, NEW o \in Outs, TimerFires(o)
  PROVE  Calls /\ st' = st
<1>1. CallWire /\ ModelTypes' /\ val' = val /\ st' = st /\ inflight' = inflight /\ pending' = pending
  BY WireOf DEF Core, TimerFires
<1>2. PICK d : d = Base
  OBVIOUS
<1>3. d \in Bases /\ d.flight = flight
  BY <1>2, BaseIs DEF Core, CallInv, CallTypes
<1>4. PICK b : b = [d EXCEPT !.armed = @ \ {o}]
  OBVIOUS
<1>5. b \in Bases /\ b.flight = flight
  BY <1>3, <1>4 DEF Bases
<1>6. PacedFlush("timer", b, o)
  BY <1>2, <1>4 DEF TimerFires
<1>7. FlightOf(b)
  BY <1>5, FlightIs DEF MessageInv
<1> QED BY <1>1, <1>5, <1>6, <1>7, PacedDone, CallsOf DEF Actors

LEMMA FrontendUpdateCalls ==
  ASSUME Core, Core', MessageInv, NEW m \in Sliders, NEW x \in Attrs, NEW v \in Vals, FrontendUpdate(m, x, v)
  PROVE  Calls /\ st' = st
<1>1. CallWire /\ ModelTypes' /\ ModelTypes /\ st' = st
  BY WireOf DEF Core, FrontendUpdate
<1>2. x \in AttrsOf(m)
  BY StoreAssumption DEF AttrsOf
<1>3. PICK u \in Parts(m) : u = [y \in {x} |-> v]
  <2>1. {x} \in SUBSET AttrsOf(m) /\ [y \in {x} |-> v] \in [{x} -> Vals]
    BY <1>2
  <2> QED BY <2>1 DEF Parts
<1>4. val' = [val EXCEPT ![m][x] = v] /\ QueueForKernel("reader", m, u) /\ Live(m)
  BY <1>3 DEF FrontendUpdate
<1>5. PICK N : CallDone(N) /\ \A y \in DOMAIN u : y \in DOMAIN pending'[m] \/ Carried(N, m, y)
  BY <1>1, <1>4, QueueDone DEF Actors
<1>6. \A k \in Models : \A y \in AttrsOf(k) : ~(k = m /\ y = x) => val'[k][y] = val[k][y]
  BY <1>1, <1>4 DEF ModelTypes
<1>7. Covers(N)
  BY <1>3, <1>5, <1>6 DEF Covers
<1> QED BY <1>1, <1>5, <1>7 DEF Calls

(* A message, or a run's request, with the captures before it.             *)
LEMMA FlushCalls ==
  ASSUME Core, Core', MessageInv, NEW a \in Actors, NEW m \in Sliders \cup {None}, m # None => Live(m),
         NEW kind \in {"custom", "none"}, NEW more \in Seq(Effects), Ships(more, {}),
         \A n \in Nat : m # None => Message(m, n, kind, Nothing) \in Messages,
         Emit(a, Base, Flushable, m, kind, Nothing, more),
         st' = st, val' = val, inflight' = inflight, pending' = pending
  PROVE  Calls
<1>1. CallWire /\ ModelTypes'
  BY WireOf DEF Core
<1>2. PICK b \in Bases : b = Base /\ b.flight = flight
  BY BaseIs DEF Core, CallInv, CallTypes
<1>3. FlightOf(b)
  BY <1>2, FlightIs DEF MessageInv
<1>4. PICK F \in SUBSET waiting : F = Flushable /\ \A o \in F : b.flight[o] = 0
  <2>1. Flushable \in SUBSET waiting /\ \A o \in Flushable : flight[o] = 0
    BY DEF Flushable
  <2> QED BY <1>2, <2>1
<1>5. \A p \in Outs : inflight'[p] = 0 /\ pending'[p] = Nothing
  BY DEF MessageInv, FlightsInv, OutsApart
<1>6. \A g \in Messages : Pends(g) /\ Live(g.model) /\ g.kind = "update" => inflight'[g.model] = g.n
  BY DEF MessageInv, FlightsInv, FlightInv
<1>7. \A N : Holds(N)
  BY DEF Holds, HeldLive, MessageInv
<1>8. DOMAIN Nothing = {}
  BY DEF Nothing
<1>9. Emit(a, b, F, m, kind, Nothing, more) /\ kind \in {"update", "custom", "none"} /\ kind # "update"
  BY <1>2, <1>4
<1>10. CallDone(Made(F, m, kind, Nothing))
  BY <1>1, <1>3, <1>4, <1>5, <1>6, <1>7, <1>8, <1>9, EmitDone
<1> QED BY <1>10, CallsOf

LEMMA FrontendCustomCalls ==
  ASSUME Core, Core', MessageInv, NEW m \in Sliders, FrontendCustom(m)
  PROVE  Calls /\ st' = st
<1>1. /\ Emit("reader", Base, Flushable, m, "custom", Nothing, <<>>) /\ Live(m)
      /\ st' = st /\ val' = val /\ inflight' = inflight /\ pending' = pending
  BY DEF FrontendCustom
<1>2. <<>> \in Seq(Effects) /\ Ships(<<>>, {}) /\ m \in Models
  BY ShipsNone, EmptySeq DEF Models
<1>3. \A n \in Nat : m # None => Message(m, n, "custom", Nothing) \in Messages
  BY <1>2, NothingParts, MessageTypes
<1> QED BY <1>1, <1>2, <1>3, FlushCalls DEF Actors

LEMMA ExecuteCalls ==
  ASSUME Core, Core', MessageInv, Execute
  PROVE  Calls /\ st' = st
<1>1. PICK more : more = <<Send({Message(None, 0, "execute", Nothing)})>>
  OBVIOUS
<1>2. more \in Seq(Effects)
  <2>1. Send({Message(None, 0, "execute", Nothing)}) \in Effects
    BY ExecuteTypes, EffectTypes
  <2> QED BY <1>1, <2>1
<1>3. Ships(more, {})
  BY <1>1, ShipsNone
<1>4. /\ Emit("run", Base, Flushable, None, "none", Nothing, more)
      /\ st' = st /\ val' = val /\ inflight' = inflight /\ pending' = pending
  BY <1>1 DEF Execute
<1> QED BY <1>2, <1>3, <1>4, FlushCalls DEF Actors
-----------------------------------------------------------------------------
(* The steps that move no message.                                         *)
LEMMA QuietKeeps ==
  ASSUME Core, MessageInv, UNCHANGED <<updVars, next, waiting, flight, fx>>, Settles
  PROVE  MessageInv'
<1>1. CallWire /\ st' = st
  BY WireOf DEF Settles
<1>2. CallDone({})
  BY <1>1, SameDone
<1> QED BY <1>2, DoneKeeps

LEMMA EventSettles ==
  ASSUME Core, NEW kind, Event(kind), st' = st
  PROVE  Settles
BY EventQuieter, QuieterPasses DEF Settles, Core

LEMMA CallsSettle ==
  ASSUME Core, MessageInv, Calls, Settles
  PROVE  MessageInv'
BY DoneKeeps DEF Calls

LEMMA DropKeeps ==
  ASSUME Core, MessageInv, NEW kind, Event(kind), Drops
  PROVE  MessageInv'
<1>1. st' = st /\ UNCHANGED <<updVars, next, waiting, flight, fx>>
  BY DEF Drops, modelVars, idVars, outVars
<1> QED BY <1>1, EventSettles, QuietKeeps

(* What widgets captured is held for them.                                 *)
LEMMA CapturedKeeps ==
  ASSUME Core, MessageInv, NEW kind, Event(kind), NEW S \in SUBSET Outs, \A o \in S : Live(o), Captured(S)
  PROVE  MessageInv'
<1>1. /\ waiting' = waiting \cup S
      /\ st' = st /\ inflight' = inflight /\ pending' = pending /\ expect' = expect /\ next' = next /\ flight' = flight
  BY DEF Captured, updVars, idVars
<1>2. Settles
  BY <1>1, EventSettles
<1>3. FxTypes /\ Single /\ FlightsInv /\ HeldLive
  BY DEF Core, CallInv, CallTypes, MessageInv, WireInv
<1>4. PICK k : k \in Seq(Effects) /\ Ships(k, {}) /\ fx' = [fx EXCEPT !["pump"] = Cat(@, k)]
  <2>1. PICK arm \in SUBSET Outs : fx' = [fx EXCEPT !["pump"] = IF arm = {} THEN <<>> ELSE <<FlushLater(arm)>>]
    BY DEF Captured
  <2>2. PICK k : k = IF arm = {} THEN <<>> ELSE <<FlushLater(arm)>>
    OBVIOUS
  <2>3. FlushLater(arm) \in Effects
    BY EffectTypes
  <2>4. k \in Seq(Effects)
    BY <2>2, <2>3, EmptySeq
  <2>5. Ships(k, {})
    BY <2>2, ShipsNone
  <2>6. fx["pump"] = <<>>
    BY EventDoes
  <2>7. Cat(<<>>, k) = k
    BY <2>4, ConcatEmptySeq DEF Cat
  <2>8. fx' = [fx EXCEPT !["pump"] = Cat(@, k)]
    BY <2>1, <2>2, <2>6, <2>7, <1>3 DEF FxTypes
  <2> QED BY <2>4, <2>5, <2>8
<1>5. Posts({})
  BY <1>1, <1>3, <1>4, QuietPosts DEF Actors
<1>6. FlightsInv'
  BY <1>1, <1>3, <1>5, FlightsAfter DEF FlightsInv, FlightInv, OutsApart, Posts
<1>7. HeldLive'
  BY <1>1, <1>3 DEF HeldLive, Live
<1>8. \A m \in Models : Live(m)' => Live(m)
  BY <1>1 DEF Live
<1> QED BY <1>2, <1>5, <1>6, <1>7, <1>8, StepKept DEF Settles

LEMMA CaptorLive ==
  ASSUME NEW p
  PROVE  Captor(p) \in SUBSET Outs /\ \A o \in Captor(p) : Live(o)
BY DEF Captor

LEMMA RoutesKeep ==
  ASSUME Core, MessageInv, RouteOutput \/ RouteClear \/ UpdateDisplay
  PROVE  MessageInv'
<1>1. CASE RouteOutput
  <2>1. Event("stream") /\ Captured(Captor(Head(iopub).parent))
    BY <1>1 DEF RouteOutput
  <2> QED BY <2>1, CaptorLive, CapturedKeeps
<1>2. CASE RouteClear
  <2>1. Event("clear") /\ Captured(Captor(Head(iopub).parent))
    BY <1>2 DEF RouteClear
  <2> QED BY <2>1, CaptorLive, CapturedKeeps
<1>3. CASE UpdateDisplay
  <2>1. PICK S : S = {o \in Outs : Live(o) /\ Head(iopub).n \in val[o]["outputs"]}
    OBVIOUS
  <2>2. Event("display") /\ Captured(S)
    BY <1>3, <2>1 DEF UpdateDisplay
  <2> QED BY <2>1, <2>2, CapturedKeeps
<1> QED BY <1>1, <1>2, <1>3

LEMMA LinksKeep ==
  ASSUME Core, MessageInv, LinkOpen \/ LinkClose
  PROVE  MessageInv'
<1>1. (Event("link") \/ Event("unlink")) /\ UNCHANGED <<modelVars, updVars, idVars, outVars, fx>>
  BY DEF LinkOpen, LinkClose
<1>2. st' = st /\ UNCHANGED <<updVars, next, waiting, flight, fx>>
  BY <1>1 DEF modelVars, idVars, outVars
<1> QED BY <1>1, <1>2, EventSettles, QuietKeeps

LEMMA KernelUpdateKeeps ==
  ASSUME Core, MessageInv, KernelUpdate
  PROVE  MessageInv'
<1>1. Event("update")
  BY DEF KernelUpdate
<1>2. CASE Drops
  BY <1>1, <1>2, DropKeeps
<1>3. CASE ~Drops
  <2>1. st' = st /\ UNCHANGED <<updVars, next, waiting, flight, fx>>
    BY <1>3 DEF KernelUpdate, idVars, outVars
  <2> QED BY <1>1, <2>1, EventSettles, QuietKeeps
<1> QED BY <1>2, <1>3

LEMMA StaleEventKeeps ==
  ASSUME Core, MessageInv, StaleEvent
  PROVE  MessageInv'
<1>1. /\ Quieter /\ gen' = gen /\ opened' = opened /\ aged' = aged /\ shell' = shell /\ Drops
  BY DEF StaleEvent, Quieter, timeVars
<1>2. st' = st /\ UNCHANGED <<updVars, next, waiting, flight, fx>>
  BY <1>1 DEF Drops, modelVars, idVars, outVars
<1>3. Settles
  BY <1>1, <1>2, QuieterPasses DEF Settles, Core
<1> QED BY <1>2, <1>3, QuietKeeps
-----------------------------------------------------------------------------
(* An echo.  One that is awaited is the last that carries the attribute:   *)
(* nothing that carries it is behind it.                                   *)
LEMMA EchoLast ==
  ASSUME Core, MessageInv, NEW m \in Models, Live(m), EchoAt(iopub, 1, m),
         NEW x \in AttrsOf(m), x \in DOMAIN iopub[1].upd
  PROVE  /\ expect[m][x] # 0
         /\ expect[m][x] = iopub[1].n =>
              /\ \A i \in Nat : 1 < i /\ EchoAt(iopub, i, m) => x \notin DOMAIN iopub[i].upd
              /\ \A i \in Nat : FwdAt(shell, i, m) => x \notin DOMAIN shell[i].upd
              /\ \A g \in Messages : Pends(g) /\ Fwd(g, m) => x \notin DOMAIN g.upd
<1>1. iopub \in Seq(Events) /\ shell \in Seq(Messages) /\ expect[m][x] \in Nat
  BY DEF Core, KernelTypes, CallInv, CallTypes, ExpectTypes
<1>2. iopub[1] \in Events /\ iopub[1].kind = "echo" /\ 1 \in 1..Len(iopub) /\ iopub[1].model = m
  BY <1>1, ElementOfSeq DEF EchoAt
<1>3. iopub[1].n \in Nat
  BY <1>2, EventNumber
<1>4. 0 < iopub[1].n
  BY <1>2 DEF MessageInv, WireInv, NumberInv
<1>5. InLine(iopub, shell, m) /\ Within(iopub, shell, m, x, expect[m][x])
  BY DEF MessageInv, WireInv, OrderInv, ExpectInv
<1>6. iopub[1].n <= expect[m][x]
  BY <1>5 DEF Within
<1>7. expect[m][x] # 0
  BY <1>1, <1>3, <1>4, <1>6
<1>8. ASSUME expect[m][x] = iopub[1].n
      PROVE  /\ \A i \in Nat : 1 < i /\ EchoAt(iopub, i, m) => x \notin DOMAIN iopub[i].upd
             /\ \A i \in Nat : FwdAt(shell, i, m) => x \notin DOMAIN shell[i].upd
  <2>1. PICK e \in Nat : e = expect[m][x]
    BY <1>1
  <2> QED BY <1>1, <1>5, <1>8, <2>1, LineLast
<1>9. ASSUME expect[m][x] = iopub[1].n, NEW g \in Messages, Pends(g), Fwd(g, m), x \in DOMAIN g.upd PROVE FALSE
  <2>1. g.n <= expect[m][x]
    BY <1>9 DEF MessageInv, WireInv, ExpectInv
  <2>2. iopub[1].n < g.n
    BY <1>9 DEF MessageInv, WireInv, OrderInv, Above
  <2>3. g.n \in Nat
    BY MessageIs
  <2> QED BY <1>3, <1>9, <2>1, <2>2, <2>3
<1> QED BY <1>7, <1>8, <1>9

LEMMA EchoHead ==
  ASSUME Core, Event("echo")
  PROVE  /\ Head(iopub) = iopub[1] /\ EchoAt(iopub, 1, Head(iopub).model)
         /\ Head(iopub).model \in Models /\ Head(iopub).upd \in Parts(Head(iopub).model)
         /\ Head(iopub).n \in Nat
         /\ \A i \in Nat : \A m : EchoAt(iopub', i, m) => i + 1 \in Nat /\ 1 < i + 1 /\ EchoAt(iopub, i + 1, m) /\ iopub'[i] = iopub[i + 1]
<1>1. iopub \in Seq(Events) /\ iopub # <<>> /\ Head(iopub).kind = "echo" /\ iopub' = Tail(iopub)
  BY EventQuieter DEF Core, KernelTypes
<1>2. /\ Head(iopub) = iopub[1] /\ 1 \in 1..Len(iopub) /\ Head(iopub) \in Events /\ Len(iopub) \in Nat
      /\ Len(iopub') = Len(iopub) - 1 /\ \A i \in 1..Len(iopub') : iopub'[i] = iopub[i + 1]
  BY <1>1, HeadTailProperties, LenProperties
<1>3. Head(iopub).model \in Models /\ Head(iopub).upd \in Parts(Head(iopub).model) /\ Head(iopub).n \in Nat
  BY <1>1, <1>2, EventNumber
<1>4. ASSUME NEW i \in Nat, NEW m, EchoAt(iopub', i, m)
      PROVE  i + 1 \in Nat /\ 1 < i + 1 /\ EchoAt(iopub, i + 1, m) /\ iopub'[i] = iopub[i + 1]
  <2>1. i \in 1..Len(iopub') /\ iopub'[i] = iopub[i + 1]
    BY <1>2, <1>4 DEF EchoAt
  <2>2. i + 1 \in 1..Len(iopub) /\ 1 < i + 1
    BY <1>2, <2>1
  <2> QED BY <1>4, <2>1, <2>2 DEF EchoAt
<1> QED BY <1>1, <1>2, <1>3, <1>4 DEF EchoAt

LEMMA PartDomain ==
  ASSUME NEW m, NEW u \in Parts(m)
  PROVE  DOMAIN u \subseteq AttrsOf(m)
BY DEF Parts

LEMMA EchoExpects ==
  ASSUME Core, MessageInv, KernelEcho, Live(Head(iopub).model)
  PROVE  ExpectInv'
<1>1. PICK e : e = Head(iopub)
  OBVIOUS
<1>2. Event("echo")
  BY DEF KernelEcho
<1>3. /\ e = iopub[1] /\ EchoAt(iopub, 1, e.model) /\ e.model \in Models /\ e.upd \in Parts(e.model)
      /\ \A i \in Nat : \A m : EchoAt(iopub', i, m) => i + 1 \in Nat /\ 1 < i + 1 /\ EchoAt(iopub, i + 1, m) /\ iopub'[i] = iopub[i + 1]
  BY <1>1, <1>2, EchoHead
<1>4. PICK m \in Models : m = e.model
  BY <1>3
<1>5. /\ st' = st /\ fx' = fx /\ shell' = shell
      /\ expect' = [expect EXCEPT ![m] = [x \in AttrsOf(m) |-> IF x \in DOMAIN e.upd /\ EchoMatches(e, x) THEN 0 ELSE expect[m][x]]]
  BY <1>1, <1>2, <1>4, EventQuieter DEF KernelEcho
<1>6. DOMAIN expect = Models
  BY DEF Core, CallInv, CallTypes, ExpectTypes
<1>7. \A g \in Messages : Pends(g)' => Pends(g)
  BY <1>5, NothingMakes DEF Pends, At
<1>8. \A K : Sub(K, iopub', iopub)
  <2>1. iopub \in Seq(Events) /\ iopub # <<>> /\ iopub' = Tail(iopub)
    BY <1>2, EventQuieter DEF Core, KernelTypes
  <2> QED BY <2>1, SubTail
<1>9. ASSUME NEW k \in Models, Live(k)', NEW x \in AttrsOf(k)
      PROVE  /\ Within(iopub', shell', k, x, expect'[k][x])
             /\ \A g \in Messages : Pends(g)' /\ Fwd(g, k) /\ x \in DOMAIN g.upd => g.n <= expect'[k][x]
  <2>1. Live(k)
    BY <1>5, <1>9 DEF Live
  <2>2. /\ Within(iopub, shell, k, x, expect[k][x])
        /\ \A g \in Messages : Pends(g) /\ Fwd(g, k) /\ x \in DOMAIN g.upd => g.n <= expect[k][x]
    BY <2>1 DEF MessageInv, WireInv, ExpectInv
  <2>3. CASE k = m /\ x \in DOMAIN e.upd /\ expect[m][x] = e.n
    <3>1. /\ \A i \in Nat : 1 < i /\ EchoAt(iopub, i, m) => x \notin DOMAIN iopub[i].upd
          /\ \A i \in Nat : FwdAt(shell, i, m) => x \notin DOMAIN shell[i].upd
          /\ \A g \in Messages : Pends(g) /\ Fwd(g, m) => x \notin DOMAIN g.upd
      BY <1>3, <1>4, <2>1, <2>3, EchoLast
    <3>2. \A i \in Nat : EchoAt(iopub', i, m) => x \notin DOMAIN iopub'[i].upd
      BY <1>3, <3>1
    <3>3. \A i \in Nat : FwdAt(shell', i, m) => x \notin DOMAIN shell'[i].upd
      BY <1>5, <3>1
    <3>4. Within(iopub', shell', k, x, expect'[k][x])
      BY <2>3, <3>2, <3>3 DEF Within
    <3> QED BY <1>7, <2>3, <3>1, <3>4
  <2>4. CASE ~(k = m /\ x \in DOMAIN e.upd /\ expect[m][x] = e.n)
    <3>1. expect'[k][x] = expect[k][x]
      BY <1>4, <1>5, <1>6, <2>4 DEF EchoMatches
    <3>2. Within(iopub', shell', k, x, expect[k][x])
      BY <1>5, <1>8, <2>2, LineSub
    <3> QED BY <1>7, <2>2, <3>1, <3>2
  <2> QED BY <2>3, <2>4
<1> QED BY <1>9 DEF ExpectInv, Within, EchoAt, FwdAt

LEMMA KernelEchoKeeps ==
  ASSUME Core, MessageInv, KernelEcho
  PROVE  MessageInv'
<1>1. Event("echo")
  BY DEF KernelEcho
<1>2. CASE ~Live(Head(iopub).model)
  <2>1. Drops
    BY <1>2 DEF KernelEcho
  <2> QED BY <1>1, <2>1, DropKeeps
<1>3. CASE Live(Head(iopub).model)
  <2>1. /\ st' = st /\ inflight' = inflight /\ pending' = pending /\ next' = next /\ fx' = fx
        /\ waiting' = waiting /\ flight' = flight
    BY <1>3 DEF KernelEcho, idVars, outVars
  <2>2. Settles
    BY <1>1, <2>1, EventSettles
  <2>3. ExpectInv'
    BY <1>3, EchoExpects
  <2>4. Single /\ TrackInv /\ OnceInv /\ HeldLive /\ FlightsInv /\ KernelTypes /\ IdTypes /\ TimeTypes
    BY DEF MessageInv, WireInv, TrackInv, Core, CallInv, CallTypes
  <2>5. Makes({})
    BY <2>1, <2>4, NothingMakes
  <2>6. \A m \in Models : Live(m)' => Live(m)
    BY <2>1 DEF Live
  <2>7. TrackInv'
    BY <2>2, <2>4, <2>5, <2>6, TrackKept DEF Settles, Passes
  <2>8. OnceInv'
    BY <2>2, <2>4, <2>5, <2>6, OnceKept DEF Settles, Passes
  <2>9. FlightsInv'
    BY <2>1, <2>4, <2>5, FlightsAfter DEF FlightsInv, FlightInv, OutsApart
  <2>10. HeldLive'
    BY <2>1, <2>4 DEF HeldLive, Live
  <2> QED BY <2>3, <2>7, <2>8, <2>9, <2>10 DEF MessageInv, WireInv, TrackInv
<1> QED BY <1>2, <1>3
-----------------------------------------------------------------------------
(* A model is opened or closed: what the store held for it is forgotten.   *)
LEMMA DropStep ==
  ASSUME Core, MessageInv, NEW m \in Models, DropModel(m), ~(Live(m) /\ Live(m)'),
         gen' = gen, opened' = opened, aged' = aged, shell' = shell, Passes,
         \A k \in Models : k # m => (Live(k)' <=> Live(k)),
         Live(m)' => next[m] = 0 /\ m \in opened /\ \A i \in 1..Len(iopub') : ~Opens(m, i)'
  PROVE  MessageInv'
<1>1. /\ waiting' = waiting \ {m} /\ next' = next /\ fx' = fx
      /\ expect' = [expect EXCEPT ![m] = [x \in AttrsOf(m) |-> 0]]
      /\ inflight' = [inflight EXCEPT ![m] = 0] /\ pending' = [pending EXCEPT ![m] = Nothing]
      /\ flight' = [o \in Outs |-> IF o = m THEN 0 ELSE flight[o]]
  BY DEF DropModel
<1>2. /\ Single /\ TrackInv /\ OnceInv /\ HeldLive /\ FlightsInv /\ KernelTypes /\ IdTypes /\ TimeTypes /\ NumberInv /\ ExpectInv
      /\ inflight \in [Models -> Nat] /\ DOMAIN pending = Models /\ DOMAIN expect = Models
  BY DEF MessageInv, WireInv, TrackInv, Core, CallInv, CallTypes, HeldTypes, ExpectTypes
<1>3. Posts({})
  <2>1. \A k \in Models : Live(k) /\ Live(k)' => \A x \in AttrsOf(k) : expect'[k][x] = expect[k][x]
    BY <1>1, <1>2
  <2> QED BY <1>1, <1>2, <2>1, NothingPosts
<1>4. Makes({})
  BY <1>3 DEF Posts
<1>5. \A k \in Models : Live(k)' => Live(k) \/ (next[k] = 0 /\ next'[k] = 0)
  BY <1>1
<1>6. TrackInv'
  BY <1>2, <1>4, <1>5, TrackKept DEF Passes
<1>7. ExpectInv'
  BY <1>2, <1>3, <1>5, ExpectKept DEF Passes
<1>8. OnceInv'
  BY <1>2, <1>4, OnceKept DEF Passes
<1>9. HeldLive'
  <2>1. \A o \in waiting' : o # m /\ o \in Models /\ Live(o)
    BY <1>1, <1>2 DEF HeldLive, Live
  <2>2. \A k \in Models : pending'[k] # Nothing => k # m /\ Live(k)
    BY <1>1, <1>2 DEF HeldLive
  <2>3. \A o \in waiting' : Live(o)'
    BY <2>1
  <2>4. \A k \in Models : pending'[k] # Nothing => Live(k)'
    BY <2>2
  <2> QED BY <2>3, <2>4 DEF HeldLive, Live
<1>10. \A g \in Messages : Pends(g)' => Pends(g) /\ g.model \in Models
  BY <1>4, PendsIs DEF Makes
<1>11. FlightInv'
  <2>1. ASSUME NEW g \in Messages, Pends(g)', Live(g.model)'
        PROVE  (g.kind = "update" => inflight'[g.model] = g.n) /\ (g.kind = "flush" => flight'[g.model] = g.n)
    <3>1. Pends(g) /\ g.model \in Models
      BY <1>10, <2>1
    <3>2. g.model # m
      BY <1>2, <2>1, <3>1, NoneYet
    <3>3. Live(g.model)
      BY <2>1, <3>1, <3>2
    <3>4. g.kind = "flush" => g.model \in Outs
      BY <1>2, <3>1 DEF FlightsInv, KindInv
    <3>5. (g.kind = "update" => inflight[g.model] = g.n) /\ (g.kind = "flush" => flight[g.model] = g.n)
      BY <1>2, <3>1, <3>3 DEF FlightsInv, FlightInv
    <3> QED BY <1>1, <1>2, <3>1, <3>2, <3>4, <3>5
  <2> QED BY <2>1 DEF FlightInv, Live
<1>12. KindInv'
  <2>1. \A g \in Messages : Pends(g)' => (g.kind = "update" => g.model \in Sliders) /\ (g.kind = "flush" => g.model \in Outs)
    BY <1>2, <1>10 DEF FlightsInv, KindInv
  <2> QED BY <2>1 DEF KindInv
<1>13. OutsApart'
  BY <1>1, <1>2 DEF FlightsInv, OutsApart
<1> QED BY <1>6, <1>7, <1>8, <1>9, <1>11, <1>12, <1>13 DEF MessageInv, WireInv, TrackInv, FlightsInv

LEMMA CommOpenKeeps ==
  ASSUME Core, MessageInv, CommOpen
  PROVE  MessageInv'
<1>1. PICK m : m = Head(iopub).model
  OBVIOUS
<1>2. Event("open") /\ DropModel(m) /\ st' = [st EXCEPT ![m] = "live"]
  BY <1>1 DEF CommOpen
<1>3. /\ Quieter /\ gen' = gen /\ opened' = opened /\ aged' = aged /\ shell' = shell
      /\ iopub # <<>> /\ iopub \in Seq(Events) /\ iopub' = Tail(iopub) /\ Head(iopub).gen = gen
  BY <1>2, EventQuieter DEF Core, KernelTypes
<1>4. Passes /\ st \in [Models -> {"none", "live", "dead"}]
  BY <1>3, QuieterPasses DEF Core, ModelTypes
<1>5. m \in Models /\ Head(iopub).kind = "open"
  BY <1>1, <1>2, EventDoes DEF IsEvent
<1>6. /\ Head(iopub) = iopub[1] /\ 1 \in 1..Len(iopub) /\ Len(iopub) \in Nat
      /\ Len(iopub') = Len(iopub) - 1 /\ \A i \in 1..Len(iopub') : iopub'[i] = iopub[i + 1]
  BY <1>3, HeadTailProperties, LenProperties
<1>7. Opens(m, 1)
  BY <1>1, <1>3, <1>5, <1>6 DEF Opens, EventAt
<1>8. ~Live(m) /\ next[m] = 0 /\ (\A j \in 1..Len(iopub) : Opens(m, j) => j = 1) /\ m \in opened
  BY <1>1, <1>5, <1>6, <1>7 DEF MessageInv, OnceInv
<1>9. ASSUME NEW i \in 1..Len(iopub'), Opens(m, i)' PROVE FALSE
  <2>1. i + 1 \in 1..Len(iopub) /\ iopub'[i] = iopub[i + 1] /\ i + 1 # 1
    BY <1>6
  <2>2. Opens(m, i + 1)
    BY <1>3, <1>9, <2>1 DEF Opens, EventAt
  <2> QED BY <1>8, <2>1, <2>2
<1>10. \A k \in Models : k # m => (Live(k)' <=> Live(k))
  BY <1>2, <1>4 DEF Live
<1> QED BY <1>2, <1>3, <1>4, <1>5, <1>8, <1>9, <1>10, DropStep

LEMMA CommCloseKeeps ==
  ASSUME Core, MessageInv, CommClose
  PROVE  MessageInv'
<1>1. PICK m : m = Head(iopub).model
  OBVIOUS
<1>2. Event("close")
  BY DEF CommClose
<1>3. CASE Drops
  BY <1>2, <1>3, DropKeeps
<1>4. CASE ~Drops
  <2>1. DropModel(m) /\ st' = [st EXCEPT ![m] = "none"]
    BY <1>1, <1>4 DEF CommClose
  <2>2. Quieter /\ gen' = gen /\ opened' = opened /\ aged' = aged /\ shell' = shell
    BY <1>2, EventQuieter
  <2>3. Passes /\ st \in [Models -> {"none", "live", "dead"}]
    BY <2>2, QuieterPasses DEF Core, ModelTypes
  <2>4. m \in Models
    BY <1>1, <1>2, EventDoes DEF IsEvent
  <2>5. ~Live(m)'
    BY <2>1, <2>3, <2>4 DEF Live
  <2>6. \A k \in Models : k # m => (Live(k)' <=> Live(k))
    BY <2>1, <2>3 DEF Live
  <2> QED BY <2>1, <2>2, <2>3, <2>4, <2>5, <2>6, DropStep
<1> QED BY <1>3, <1>4

(* The kernel goes: nothing is connected, and nothing is on its way.       *)
LEMMA ResetKeeps ==
  ASSUME Core, OpenInv, MessageInv, NEW keep \in SUBSET Models, Reset(keep)
  PROVE  MessageInv'
<1>1. /\ gen' = gen + 1 /\ st' = [m \in Models |-> IF st[m] # "none" /\ m \in keep THEN "dead" ELSE "none"]
      /\ inflight' = [m \in Models |-> 0] /\ pending' = [m \in Models |-> Nothing]
      /\ waiting' = {} /\ shell' = <<>> /\ next' = next /\ fx' = fx /\ aged' = aged
      /\ iopub' = iopub /\ opened' = opened
  BY DEF Reset, timeVars
<1>2. /\ Single /\ TrackInv /\ OnceInv /\ FlightsInv /\ KernelTypes /\ IdTypes /\ TimeTypes
      /\ gen \in Nat /\ kgen \in Nat
  BY DEF MessageInv, WireInv, TrackInv, Core, CallInv, CallTypes, SettingTypes
<1>3. \A m \in Models : ~Live(m)'
  BY <1>1 DEF Live
<1>4. Makes({})
  BY <1>1, <1>2, NothingMakes
<1>5. \A K : Sub(K, iopub', iopub)
  BY <1>1, <1>2, SubSame DEF KernelTypes
<1>6. TrackInv'
  BY <1>1, <1>2, <1>3, <1>4, <1>5, TrackKept
<1>7. ExpectInv'
  <2>1. \A m \in Models : Live(m)' => FALSE
    BY <1>3
  <2> QED BY <2>1 DEF ExpectInv, Live
<1>8. OnceInv'
  <2>1. \A m \in Models : next'[m] # 0 => m \in opened'
    BY <1>1, <1>2 DEF OnceInv
  <2>2. \A i \in 1..Len(iopub') : iopub'[i].kind = "open" => iopub'[i].model \in opened'
    BY <1>1, <1>2 DEF OnceInv
  <2>3. ASSUME NEW m, NEW i \in 1..Len(iopub'), Opens(m, i)' PROVE FALSE
    <3>1. iopub[i].gen <= kgen /\ kgen <= gen /\ iopub[i] \in Events
      BY <1>1, <1>2, ElementOfSeq DEF OpenInv, KernelTypes
    <3>2. iopub[i].gen \in Nat
      BY <3>1 DEF Events, IsEvent
    <3>3. iopub[i].gen = gen + 1
      BY <1>1, <2>3 DEF Opens
    <3> QED BY <1>2, <3>1, <3>2, <3>3
  <2> QED BY <1>3, <2>1, <2>2, <2>3 DEF OnceInv, Live
<1>9. \A g \in Messages : Pends(g)' => Pends(g)
  BY <1>4 DEF Makes
<1>10. FlightInv'
  <2>1. \A g \in Messages : Pends(g)' => g.model \in Models
    BY <1>9, PendsIs
  <2>2. \A g \in Messages : Pends(g)' => ~Live(g.model)'
    BY <1>3, <2>1
  <2> QED BY <2>2 DEF FlightInv, Live
<1>11. KindInv'
  <2>1. \A g \in Messages : Pends(g)' => (g.kind = "update" => g.model \in Sliders) /\ (g.kind = "flush" => g.model \in Outs)
    BY <1>2, <1>9 DEF FlightsInv, KindInv
  <2> QED BY <2>1 DEF KindInv
<1>12. OutsApart' /\ HeldLive'
  BY <1>1 DEF OutsApart, HeldLive, Models
<1> QED BY <1>6, <1>7, <1>8, <1>10, <1>11, <1>12 DEF MessageInv, WireInv, TrackInv, FlightsInv

LEMMA StartKeeps ==
  ASSUME Core, MessageInv, Start \/ Unsend
  PROVE  MessageInv'
<1>1. /\ Quieter /\ st' = st /\ gen' = gen /\ opened' = opened /\ aged' = aged /\ shell' = shell
      /\ UNCHANGED <<updVars, next, waiting, flight, fx>>
  BY DEF Start, Unsend, KeepsStore, Quieter, modelVars, idVars, outVars, timeVars, kernelVars
<1>2. Settles
  BY <1>1, QuieterPasses DEF Settles, Core
<1> QED BY <1>1, <1>2, QuietKeeps

LEMMA CadenceKeeps ==
  ASSUME Core, MessageInv, NEW o \in Outs, CadenceEnds(o)
  PROVE  MessageInv'
<1>1. /\ Quieter /\ st' = st /\ gen' = gen /\ opened' = opened /\ aged' = aged /\ shell' = shell
      /\ UNCHANGED <<updVars, next, waiting, flight, fx>>
  BY DEF CadenceEnds, Quieter, modelVars, idVars, timeVars, kernelVars
<1>2. Settles
  BY <1>1, QuieterPasses DEF Settles, Core
<1> QED BY <1>1, <1>2, QuietKeeps
-----------------------------------------------------------------------------
(* The effects of a call run, one message at a time.                       *)

(* Two changes of one model never wait to be sent at the same time.        *)
LEMMA OneWaits ==
  ASSUME Single, FlightsInv, NEW m \in Models, Live(m), NEW g \in Messages, NEW h \in Messages,
         Pends(g), Pends(h), Fwd(g, m), Fwd(h, m)
  PROVE  g.n = h.n
<1>1. g.kind = h.kind
  BY StoreAssumption DEF FlightsInv, KindInv, Fwd
<1>2. /\ g.kind = "update" => inflight[m] = g.n
      /\ h.kind = "update" => inflight[m] = h.n
      /\ g.kind = "flush" => flight[m] = g.n
      /\ h.kind = "flush" => flight[m] = h.n
  BY DEF FlightsInv, FlightInv, Fwd
<1> QED BY <1>1, <1>2 DEF Fwd

LEMMA SentKeeps ==
  ASSUME Core, MessageInv, NEW msg \in Messages, msg.model # None => Pends(msg), Single',
         \A g \in Messages : Pends(g)' => Pends(g) /\ ~(msg.model # None /\ g.model = msg.model /\ g.n = msg.n),
         shell' = Append(shell, msg) \/ shell' = shell,
         UNCHANGED <<gen, st, updVars, next, waiting, flight, aged, iopub, opened>>
  PROVE  MessageInv'
<1>1. /\ Single /\ NumberInv /\ ApartInv /\ OrderInv /\ ExpectInv /\ OnceInv /\ HeldLive /\ FlightsInv
      /\ TimeTypes /\ shell \in Seq(Messages)
  BY DEF MessageInv, WireInv, Core, KernelTypes
<1>2. inflight' = inflight /\ pending' = pending /\ expect' = expect
  BY DEF updVars
<1>3. \A m \in Models : m # None
  BY StoreAssumption DEF Models
<1>4. \A i \in 1..Len(shell') : shell'[i] = msg \/ (i \in 1..Len(shell) /\ shell'[i] = shell[i])
  <2>1. CASE shell' = shell
    BY <2>1
  <2>2. CASE shell' = Append(shell, msg)
    <3>1. Len(shell) \in Nat /\ Len(shell') = Len(shell) + 1 /\ shell'[Len(shell) + 1] = msg
          /\ \A i \in 1..Len(shell) : shell'[i] = shell[i]
      BY <1>1, <2>2, LenProperties
    <3> QED BY <3>1
  <2> QED BY <2>1, <2>2
<1>5. msg.model # None => 0 < msg.n /\ msg.n <= next[msg.model]
  <2>1. ASSUME msg.model # None PROVE 0 < msg.n /\ msg.n <= next[msg.model]
    <3>1. msg.n # 0 /\ msg.n \in Nat
      BY <1>1, <2>1, PendingNumber
    <3>2. msg.n <= next[msg.model]
      BY <1>1, <2>1 DEF NumberInv
    <3> QED BY <3>1, <3>2
  <2> QED BY <2>1
<1>6. NumberInv'
  <2>1. \A g \in Messages : Pends(g)' => aged[g.model] < g.n /\ g.n <= next[g.model]
    BY <1>1 DEF NumberInv
  <2>2. \A i \in 1..Len(shell') : shell'[i].model # None => 0 < shell'[i].n /\ shell'[i].n <= next[shell'[i].model]
    BY <1>1, <1>4, <1>5 DEF NumberInv
  <2> QED BY <1>1, <2>1, <2>2 DEF NumberInv
<1>7. ApartInv'
  <2>1. ASSUME NEW g \in Messages, Pends(g)'
        PROVE  /\ \A i \in 1..Len(shell') : shell'[i].model = g.model => shell'[i].n # g.n
               /\ \A i \in 1..Len(iopub') : EventAt("idle", g.model, i)' => iopub'[i].n # g.n
    <3>1. Pends(g) /\ ~(msg.model # None /\ g.model = msg.model /\ g.n = msg.n) /\ g.model # None
      BY <1>3, <2>1, PendsIs
    <3>2. /\ \A i \in 1..Len(shell) : shell[i].model = g.model => shell[i].n # g.n
          /\ \A i \in 1..Len(iopub) : EventAt("idle", g.model, i) => iopub[i].n # g.n
      BY <1>1, <3>1 DEF ApartInv
    <3> QED BY <1>4, <3>1, <3>2 DEF EventAt
  <2> QED BY <2>1 DEF ApartInv, EventAt
<1>8. ASSUME NEW m \in Models, Live(m)
      PROVE  /\ InLine(iopub', shell', m)
             /\ \A g \in Messages : Pends(g)' /\ Fwd(g, m) => Above(iopub', shell', m, g.n)
             /\ \A x \in AttrsOf(m) : /\ Within(iopub', shell', m, x, expect[m][x])
                                      /\ \A g \in Messages : Pends(g)' /\ Fwd(g, m) /\ x \in DOMAIN g.upd => g.n <= expect[m][x]
  <2>1. /\ InLine(iopub, shell, m)
        /\ \A g \in Messages : Pends(g) /\ Fwd(g, m) => Above(iopub, shell, m, g.n)
        /\ \A x \in AttrsOf(m) : /\ Within(iopub, shell, m, x, expect[m][x])
                                 /\ \A g \in Messages : Pends(g) /\ Fwd(g, m) /\ x \in DOMAIN g.upd => g.n <= expect[m][x]
    BY <1>1, <1>8 DEF OrderInv, ExpectInv
  <2>2. CASE shell' = shell
    BY <2>1, <2>2
  <2>3. CASE shell' = Append(shell, msg)
    <3>1. Fwd(msg, m) => Pends(msg) /\ msg.model = m
      BY <1>3 DEF Fwd
    <3>2. InLine(iopub, shell', m)
      BY <1>1, <2>1, <2>3, <3>1, LinePush
    <3>3. ASSUME NEW g \in Messages, Pends(g)', Fwd(g, m) PROVE Above(iopub, shell', m, g.n)
      <4>1. Pends(g) /\ ~(msg.model # None /\ g.model = msg.model /\ g.n = msg.n)
        BY <3>3
      <4>2. ~Fwd(msg, m)
        BY <1>1, <1>3, <1>8, <3>1, <3>3, <4>1, OneWaits DEF Fwd
      <4>3. Above(iopub, shell, m, g.n)
        BY <2>1, <3>3, <4>1
      <4> QED BY <1>1, <2>3, <4>2, <4>3, LinePush
    <3>4. ASSUME NEW x \in AttrsOf(m) PROVE Within(iopub, shell', m, x, expect[m][x])
      <4>1. Within(iopub, shell, m, x, expect[m][x]) /\ (Fwd(msg, m) /\ x \in DOMAIN msg.upd => msg.n <= expect[m][x])
        BY <2>1, <3>1
      <4>2. PICK e : e = expect[m][x]
        OBVIOUS
      <4>3. Within(iopub, shell', m, x, e)
        BY <1>1, <2>3, <4>1, <4>2, LinePush
      <4> QED BY <4>2, <4>3
    <3> QED BY <2>1, <3>2, <3>3, <3>4
  <2> QED BY <2>2, <2>3
<1>9. OrderInv'
  BY <1>8 DEF OrderInv, InLine, Above, EchoAt, FwdAt, Live
<1>10. ExpectInv'
  BY <1>2, <1>8 DEF ExpectInv, Within, EchoAt, FwdAt, Live
<1>11. OnceInv'
  BY <1>1 DEF OnceInv, Live, Opens, EventAt
<1>12. HeldLive'
  BY <1>1, <1>2 DEF HeldLive, Live
<1>13. FlightsInv'
  <2>1. ASSUME NEW g \in Messages, Pends(g)'
        PROVE  /\ Live(g.model) => (g.kind = "update" => inflight[g.model] = g.n) /\ (g.kind = "flush" => flight[g.model] = g.n)
               /\ (g.kind = "update" => g.model \in Sliders) /\ (g.kind = "flush" => g.model \in Outs)
    BY <1>1, <2>1 DEF FlightsInv, FlightInv, KindInv
  <2>2. FlightInv'
    BY <1>2, <2>1 DEF FlightInv, Live
  <2>3. KindInv'
    BY <2>1 DEF KindInv
  <2>4. OutsApart'
    BY <1>1, <1>2 DEF FlightsInv, OutsApart
  <2> QED BY <2>2, <2>3, <2>4 DEF FlightsInv
<1> QED BY <1>6, <1>7, <1>9, <1>10, <1>11, <1>12, <1>13 DEF MessageInv, WireInv

LEMMA RunEffectKeeps ==
  ASSUME Core, MessageInv, NEW a \in Actors, RunEffect(a)
  PROVE  MessageInv'
<1>1. FxTypes /\ Single /\ fx[a] \in Seq(Effects)
  BY DEF Core, CallInv, CallTypes, FxTypes, MessageInv, WireInv
<1>2. /\ fx[a] # <<>> /\ UNCHANGED <<gen, st, updVars, next, waiting, flight, aged, iopub, opened>>
  BY DEF RunEffect, modelVars, idVars, outVars
<1>3. Head(fx[a]) \in Effects
  BY <1>1, <1>2, HeadTailProperties
<1>4. CASE Head(fx[a]).do = "send"
  <2>1. PICK msg \in Head(fx[a]).msgs :
          /\ shell' = IF sender THEN Append(shell, msg) ELSE shell
          /\ fx' = [fx EXCEPT ![a] = Cat(IF Head(fx[a]).msgs = {msg} THEN <<>> ELSE <<Send(Head(fx[a]).msgs \ {msg})>>, Tail(@))]
    BY <1>4 DEF RunEffect, Cat
  <2>2. msg \in Messages
    BY <1>3, <1>4, EffectKinds
  <2>3. fx' = [fx EXCEPT ![a] = Cat(IF Head(@).msgs = {msg} THEN <<>> ELSE <<Send(Head(@).msgs \ {msg})>>, Tail(@))]
    BY <2>1
  <2>4. /\ Single'
        /\ \A g \in Messages : Pends(g)' => Pends(g) /\ ~(msg.model # None /\ g.model = msg.model /\ g.n = msg.n)
        /\ msg.model # None => Pends(msg)
    BY <1>1, <1>2, <1>4, <2>2, <2>3, SendsFx
  <2>5. shell' = Append(shell, msg) \/ shell' = shell
    BY <2>1
  <2> QED BY <1>2, <2>2, <2>4, <2>5, SentKeeps
<1>5. CASE Head(fx[a]).do # "send"
  <2>1. fx' = [fx EXCEPT ![a] = Tail(@)] /\ shell' = shell
    BY <1>5 DEF RunEffect
  <2>2. Single' /\ \A g \in Messages : (Pends(g)' => Pends(g)) /\ (Pends(g) => Pends(g)')
    BY <1>1, <1>2, <1>5, <2>1, QuietFx
  <2>3. expect' = expect /\ inflight' = inflight /\ pending' = pending
    BY <1>2 DEF updVars
  <2>4. Posts({})
    BY <1>2, <2>2, <2>3 DEF Posts, Makes, Expects
  <2>5. FlightsInv' /\ HeldLive' /\ \A m \in Models : Live(m)' => Live(m)
    <3>1. FlightsInv /\ HeldLive
      BY DEF MessageInv
    <3>2. FlightsInv'
      BY <1>2, <2>3, <2>4, <3>1, FlightsAfter DEF FlightsInv, FlightInv, OutsApart, Posts
    <3>3. HeldLive'
      BY <1>2, <2>3, <3>1 DEF HeldLive, Live
    <3> QED BY <1>2, <3>2, <3>3 DEF Live
  <2>6. Passes
    BY <1>2, QuieterPasses DEF Quieter, Core
  <2> QED BY <1>2, <2>1, <2>4, <2>5, <2>6, StepKept
<1> QED BY <1>4, <1>5

(* What waits to be sent was not sent: it does not age.                    *)
LEMMA PendsUnsent ==
  ASSUME FxTypes, NEW g \in Messages, Pends(g)
  PROVE  g \in Unsent
<1>1. PICK a \in Actors : \E j \in Nat : At(fx[a], j, g)
  BY DEF Pends
<1>2. PICK j \in Nat : At(fx[a], j, g)
  BY <1>1
<1>3. DOMAIN fx[a] = 1..Len(fx[a])
  BY LenProperties DEF FxTypes
<1>4. j \in Sends(a) /\ g \in fx[a][j].msgs
  BY <1>2, <1>3 DEF At, Sends
<1> QED BY <1>4 DEF Unsent

LEMMA AgeKeeps ==
  ASSUME Core, MessageInv, NEW m \in Models, Age(m)
  PROVE  MessageInv'
<1>1. /\ aged[m] < next[m] /\ aged' = [aged EXCEPT ![m] = @ + 1]
      /\ \A g \in Unsent : <<g.model, g.n>> # <<m, aged[m] + 1>>
      /\ UNCHANGED <<gen, st, updVars, next, waiting, flight, fx, shell, iopub, opened>>
  BY DEF Age, modelVars, idVars, outVars, kernelVars
<1>2. inflight' = inflight /\ pending' = pending /\ expect' = expect
  BY <1>1 DEF updVars
<1>3. /\ Single /\ NumberInv /\ ApartInv /\ OrderInv /\ ExpectInv /\ OnceInv /\ HeldLive /\ FlightsInv
      /\ TimeTypes /\ FxTypes /\ aged \in [Models -> Nat] /\ next \in [Models -> Nat]
  BY DEF MessageInv, WireInv, Core, CallInv, CallTypes, TimeTypes, IdTypes
<1>4. Makes({})
  BY <1>1, <1>3, NothingMakes
<1>5. \A g \in Messages : Pends(g)' => Pends(g)
  BY <1>4 DEF Makes
<1>6. NumberInv'
  <2>1. \A k \in Models : aged'[k] <= next'[k]
    BY <1>1, <1>3 DEF NumberInv
  <2>2. ASSUME NEW g \in Messages, Pends(g)' PROVE aged'[g.model] < g.n /\ g.n <= next'[g.model]
    <3>1. g.model \in Models /\ g.n \in Nat /\ aged[g.model] < g.n /\ g.n <= next[g.model]
      BY <1>3, <1>5, <2>2, PendingNumber DEF NumberInv
    <3>2. g.model = m => g.n # aged[m] + 1
      BY <1>1, <1>3, <1>5, <2>2, PendsUnsent
    <3> QED BY <1>1, <1>3, <3>1, <3>2
  <2>3. \A i \in 1..Len(shell) : shell[i].model # None => 0 < shell[i].n /\ shell[i].n <= next[shell[i].model]
    BY <1>3 DEF NumberInv
  <2>4. \A i \in 1..Len(iopub) : iopub[i].kind \in {"idle", "echo"} => 0 < iopub[i].n /\ iopub[i].n <= next[iopub[i].model]
    BY <1>3 DEF NumberInv
  <2> QED BY <1>1, <2>1, <2>2, <2>3, <2>4 DEF NumberInv
<1>7. ApartInv'
  BY <1>1, <1>3, <1>5 DEF ApartInv, EventAt
<1>8. ASSUME NEW k \in Models, Live(k)
      PROVE  /\ InLine(iopub', shell', k)
             /\ \A g \in Messages : Pends(g)' /\ Fwd(g, k) => Above(iopub', shell', k, g.n)
             /\ \A x \in AttrsOf(k) : /\ Within(iopub', shell', k, x, expect'[k][x])
                                      /\ \A g \in Messages : Pends(g)' /\ Fwd(g, k) /\ x \in DOMAIN g.upd => g.n <= expect'[k][x]
  BY <1>1, <1>2, <1>3, <1>5, <1>8 DEF OrderInv, ExpectInv
<1>9. OrderInv'
  BY <1>1, <1>8 DEF OrderInv, InLine, Above, EchoAt, FwdAt, Live
<1>10. ExpectInv'
  BY <1>1, <1>8 DEF ExpectInv, Within, EchoAt, FwdAt, Live
<1>11. OnceInv' /\ HeldLive'
  BY <1>1, <1>2, <1>3 DEF OnceInv, HeldLive, Live, Opens, EventAt
<1>12. FlightsInv'
  BY <1>1, <1>2, <1>3, <1>4, FlightsAfter DEF FlightsInv, FlightInv, OutsApart
<1> QED BY <1>4, <1>6, <1>7, <1>9, <1>10, <1>11, <1>12 DEF MessageInv, WireInv, Makes
-----------------------------------------------------------------------------
(* The kernel.                                                             *)
LEMMA KernelKeepsStore ==
  ASSUME KeepsStore
  PROVE  gen' = gen /\ st' = st /\ aged' = aged /\ UNCHANGED <<updVars, next, waiting, flight, fx>>
BY DEF KeepsStore, modelVars, idVars, outVars, timeVars

(* It says something of its own.                                           *)
LEMMA SaysKeeps ==
  ASSUME Core, MessageInv, KernelCode, opened' = opened, NEW e, iopub' = Append(iopub, e), e.kind \notin {"idle", "echo", "open"}
  PROVE  MessageInv'
<1>1. gen' = gen /\ st' = st /\ aged' = aged /\ shell' = shell /\ UNCHANGED <<updVars, next, waiting, flight, fx>>
  BY KernelKeepsStore DEF KernelCode, KernelRuns
<1>2. Passes
  BY SubAppend DEF Passes, Core, KernelTypes
<1> QED BY <1>1, <1>2, QuietKeeps DEF Settles

LEMMA KernelCodeKeeps ==
  ASSUME Core, MessageInv, Kernel
  PROVE  \/ MessageInv'
         \/ \E m \in Models : KernelOpens(m)
         \/ \E fix \in Vals \cup {None} : KernelHandles(fix)
<1>1. ASSUME NEW m \in Models, KernelCloses(m) PROVE MessageInv'
  <2>1. PICK e : e = Says("close", m, 0, Nothing)
    OBVIOUS
  <2>2. KernelCode /\ opened' = opened /\ iopub' = Append(iopub, e) /\ e.kind = "close"
    BY <1>1, <2>1 DEF KernelCloses, Says
  <2> QED BY <2>2, SaysKeeps
<1>2. ASSUME NEW m \in Models, NEW upd, KernelSets(m, upd) PROVE MessageInv'
  <2>1. PICK e : e = Says("update", m, 0, upd)
    OBVIOUS
  <2>2. KernelCode /\ opened' = opened /\ iopub' = Append(iopub, e) /\ e.kind = "update"
    BY <1>2, <2>1 DEF KernelSets, Says
  <2> QED BY <2>2, SaysKeeps
<1>3. ASSUME NEW l \in Links, KernelUnlinks(l) PROVE MessageInv'
  <2>1. PICK e : e = Says("unlink", l, 0, Nothing)
    OBVIOUS
  <2>2. KernelCode /\ opened' = opened /\ iopub' = Append(iopub, e) /\ e.kind = "unlink"
    BY <1>3, <2>1 DEF KernelUnlinks, Says
  <2> QED BY <2>2, SaysKeeps
<1>4. ASSUME NEW l \in Links, NEW g \in Ends, KernelLinks(l, g) PROVE MessageInv'
  <2>1. PICK e : e = Says("link", l, 0, g)
    OBVIOUS
  <2>2. KernelCode /\ opened' = opened /\ iopub' = Append(iopub, e) /\ e.kind = "link"
    BY <1>4, <2>1 DEF KernelLinks, Says
  <2> QED BY <2>2, SaysKeeps
<1>5. ASSUME NEW o \in Outs, NEW p \in Parents \cup {None}, KernelCaptures(o, p) PROVE MessageInv'
  <2>1. PICK e : e = [Says("capture", o, 0, Nothing) EXCEPT !.parent = p]
    OBVIOUS
  <2>2. KernelCode /\ opened' = opened /\ iopub' = Append(iopub, e) /\ e.kind = "capture"
    BY <1>5, <2>1 DEF KernelCaptures, Says
  <2> QED BY <2>2, SaysKeeps
<1>6. ASSUME NEW p \in Parents, NEW i \in Pieces, KernelPrints(p, i) PROVE MessageInv'
  <2>1. PICK e : e = [Says("stream", None, i, Nothing) EXCEPT !.parent = p]
    OBVIOUS
  <2>2. KernelCode /\ opened' = opened /\ iopub' = Append(iopub, e) /\ e.kind = "stream"
    BY <1>6, <2>1 DEF KernelPrints, Says
  <2> QED BY <2>2, SaysKeeps
<1>7. ASSUME NEW p \in Parents, NEW w \in BOOLEAN, KernelClears(p, w) PROVE MessageInv'
  <2>1. PICK e : e = [Says("clear", None, 0, w) EXCEPT !.parent = p]
    OBVIOUS
  <2>2. KernelCode /\ opened' = opened /\ iopub' = Append(iopub, e) /\ e.kind = "clear"
    BY <1>7, <2>1 DEF KernelClears, Says
  <2> QED BY <2>2, SaysKeeps
<1>8. ASSUME NEW i \in Pieces, NEW j \in Pieces, KernelDisplays(i, j) PROVE MessageInv'
  <2>1. PICK e : e = Says("display", None, i, j)
    OBVIOUS
  <2>2. KernelCode /\ opened' = opened /\ iopub' = Append(iopub, e) /\ e.kind = "display"
    BY <1>8, <2>1 DEF KernelDisplays, Says
  <2> QED BY <2>2, SaysKeeps
<1> QED BY <1>1, <1>2, <1>3, <1>4, <1>5, <1>6, <1>7, <1>8 DEF Kernel

(* A model is opened for the first time.                                   *)
LEMMA KernelOpensKeeps ==
  ASSUME Core, MessageInv, NEW m \in Models, KernelOpens(m)
  PROVE  MessageInv'
<1>1. PICK e : e = Says("open", m, 0, Blank(m))
  OBVIOUS
<1>2. KernelRuns /\ m \notin opened /\ st[m] = "none" /\ opened' = opened \cup {m} /\ iopub' = Append(iopub, e)
  BY <1>1 DEF KernelOpens
<1>3. /\ gen' = gen /\ st' = st /\ aged' = aged /\ shell' = shell /\ next' = next /\ waiting' = waiting
      /\ flight' = flight /\ fx' = fx /\ inflight' = inflight /\ pending' = pending /\ expect' = expect
  BY <1>2, KernelKeepsStore DEF KernelRuns, updVars
<1>4. /\ Single /\ TrackInv /\ NumberInv /\ ExpectInv /\ OnceInv /\ HeldLive /\ FlightsInv /\ KernelTypes /\ IdTypes /\ TimeTypes
      /\ iopub \in Seq(Events)
  BY DEF MessageInv, WireInv, TrackInv, Core, CallInv, CallTypes, KernelTypes
<1>5. e.kind = "open" /\ e.model = m
  BY <1>1 DEF Says
<1>6. Sub({"idle", "echo"}, iopub', iopub)
  BY <1>2, <1>4, <1>5, SubAppend
<1>7. Posts({}) /\ Makes({})
  BY <1>3, <1>4, NothingPosts DEF Posts
<1>8. \A k \in Models : Live(k)' <=> Live(k)
  BY <1>3 DEF Live
<1>9. TrackInv' /\ ExpectInv'
  BY <1>3, <1>4, <1>6, <1>7, <1>8, TrackKept, ExpectKept
<1>10. FlightsInv'
  BY <1>3, <1>4, <1>7, FlightsAfter DEF FlightsInv, FlightInv, OutsApart
<1>11. HeldLive'
  BY <1>3, <1>4 DEF HeldLive, Live
<1>12. OnceInv'
  <2>1. Len(iopub) \in Nat /\ Len(iopub') = Len(iopub) + 1 /\ iopub'[Len(iopub) + 1] = e
        /\ \A i \in 1..Len(iopub) : iopub'[i] = iopub[i]
    BY <1>2, <1>4, LenProperties
  <2>2. ~Live(m) /\ next[m] = 0 /\ \A i \in 1..Len(iopub) : iopub[i].kind = "open" => iopub[i].model # m
    BY <1>2, <1>4 DEF OnceInv
  <2>3. \A i \in 1..Len(iopub') : (i \in 1..Len(iopub) /\ iopub'[i] = iopub[i]) \/ (i = Len(iopub) + 1 /\ iopub'[i] = e)
    BY <2>1
  <2>4. \A k \in Models : Live(k)' \/ next'[k] # 0 => k \in opened'
    BY <1>2, <1>3, <1>4, <1>8 DEF OnceInv
  <2>5. \A i \in 1..Len(iopub') : iopub'[i].kind = "open" => iopub'[i].model \in opened'
    BY <1>2, <1>4, <1>5, <2>3 DEF OnceInv
  <2>6. ASSUME NEW k \in Models, NEW i \in 1..Len(iopub'), Opens(k, i)'
        PROVE  ~Live(k) /\ next[k] = 0 /\ \A j \in 1..Len(iopub') : Opens(k, j)' => j = i
    <3>1. \A j \in 1..Len(iopub') : Opens(k, j)' => (j \in 1..Len(iopub) /\ Opens(k, j)) \/ (j = Len(iopub) + 1 /\ k = m)
      BY <1>3, <1>5, <2>3 DEF Opens, EventAt
    <3>2. CASE k = m
      <4>1. \A j \in 1..Len(iopub) : ~Opens(k, j)
        BY <2>2, <3>2 DEF Opens, EventAt
      <4> QED BY <2>2, <2>6, <3>1, <3>2, <4>1
    <3>3. CASE k # m
      BY <1>4, <2>6, <3>1, <3>3 DEF OnceInv
    <3> QED BY <3>2, <3>3
  <2> QED BY <1>3, <1>8, <2>4, <2>5, <2>6 DEF OnceInv
<1> QED BY <1>9, <1>10, <1>11, <1>12 DEF MessageInv, WireInv, TrackInv

(* Each event of two parts is of one of them.                              *)
LEMMA CatParts ==
  ASSUME NEW s \in Seq(Events), NEW t \in Seq(Events), NEW i \in 1..Len(Cat(s, t))
  PROVE  \/ i \in 1..Len(s) /\ Cat(s, t)[i] = s[i]
         \/ \E j \in 1..Len(t) : Cat(s, t)[i] = t[j]
<1>1. CASE i \in 1..Len(s)
  BY <1>1, CatEvents
<1>2. CASE i \notin 1..Len(s)
  <2>1. i - Len(s) \in 1..Len(t) /\ Cat(s, t)[i] = t[i - Len(s)]
    BY <1>2, CatEvents
  <2> QED BY <2>1
<1> QED BY <1>1, <1>2

LEMMA KernelHandlesKeeps ==
  ASSUME Core, MessageInv, NEW fix \in Vals \cup {None}, KernelHandles(fix)
  PROVE  MessageInv'
<1>1. /\ Single /\ NumberInv /\ ApartInv /\ OrderInv /\ ExpectInv /\ OnceInv /\ HeldLive /\ FlightsInv
      /\ KernelTypes /\ IdTypes /\ TimeTypes
      /\ iopub \in Seq(Events) /\ shell \in Seq(Messages)
  BY DEF MessageInv, WireInv, Core, CallInv, CallTypes, KernelTypes
<1>2. PICK s \in Messages : s = Head(shell) /\ shell # <<>>
  BY AnswerIs
<1>3. PICK k \in Seq(Answers) : iopub' = Cat(iopub, k) /\ Replies(fix, s, k)
  BY <1>2, AnswerIs
<1>4. k \in Seq(Events)
  BY AnswersAreEvents
<1>5. /\ shell' = Tail(shell) /\ opened' = opened /\ gen' = gen /\ st' = st /\ aged' = aged
      /\ next' = next /\ waiting' = waiting /\ flight' = flight /\ fx' = fx
      /\ inflight' = inflight /\ pending' = pending /\ expect' = expect
  BY KernelKeepsStore DEF KernelHandles, updVars
<1>6. /\ shell[1] = s /\ 1 \in 1..Len(shell)
      /\ \A i \in 1..Len(shell') : i + 1 \in 1..Len(shell) /\ shell'[i] = shell[i + 1] /\ i # 0
  <2>1. Len(shell') = Len(shell) - 1 /\ Len(shell) \in Nat /\ Len(shell) > 0 /\ shell[1] = s
        /\ \A i \in 1..Len(shell') : shell'[i] = shell[i + 1]
    BY <1>1, <1>2, <1>5, HeadTailProperties, LenProperties
  <2> QED BY <2>1
<1>7. \A j \in 1..Len(k) : k[j].kind \in {"idle", "echo"} => k[j].model = s.model /\ k[j].n = s.n /\ s.model # None
  <2>1. s.kind \in {"update", "flush"} => s.model # None
    BY MessageIs, StoreAssumption DEF Models
  <2> QED BY <1>3, <2>1 DEF Replies
<1>8. \A j \in 1..Len(k) : k[j].kind # "open"
  BY <1>3 DEF Replies
<1>9. \A i \in 1..Len(iopub') : \/ i \in 1..Len(iopub) /\ iopub'[i] = iopub[i]
                                \/ \E j \in 1..Len(k) : iopub'[i] = k[j]
  <2>1. PICK c : c = Cat(iopub, k)
    OBVIOUS
  <2>2. \A i \in 1..Len(c) : (i \in 1..Len(iopub) /\ c[i] = iopub[i]) \/ \E j \in 1..Len(k) : c[i] = k[j]
    BY <1>1, <1>4, <2>1, CatParts
  <2>3. iopub' = c
    BY <1>3, <2>1
  <2> QED BY <2>2, <2>3
<1>10. s.model # None => 0 < s.n /\ s.n <= next[s.model]
  BY <1>1, <1>6 DEF NumberInv
<1>11. Makes({})
  BY <1>1, <1>5, NothingMakes
<1>12. \A g \in Messages : Pends(g)' => Pends(g)
  BY <1>11 DEF Makes
<1>13. NumberInv'
  <2>1. \A g \in Messages : Pends(g)' => aged[g.model] < g.n /\ g.n <= next[g.model]
    BY <1>1, <1>12 DEF NumberInv
  <2>2. \A i \in 1..Len(shell') : shell'[i].model # None => 0 < shell'[i].n /\ shell'[i].n <= next[shell'[i].model]
    BY <1>1, <1>6 DEF NumberInv
  <2>3. \A i \in 1..Len(iopub') : iopub'[i].kind \in {"idle", "echo"} => 0 < iopub'[i].n /\ iopub'[i].n <= next[iopub'[i].model]
    BY <1>1, <1>7, <1>9, <1>10 DEF NumberInv
  <2> QED BY <1>1, <1>5, <2>1, <2>2, <2>3 DEF NumberInv
<1>14. ApartInv'
  <2>1. ASSUME NEW g \in Messages, Pends(g)'
        PROVE  /\ \A i \in 1..Len(shell') : shell'[i].model = g.model => shell'[i].n # g.n
               /\ \A i \in 1..Len(iopub') : EventAt("idle", g.model, i)' => iopub'[i].n # g.n
    <3>1. /\ \A i \in 1..Len(shell) : shell[i].model = g.model => shell[i].n # g.n
          /\ \A i \in 1..Len(iopub) : EventAt("idle", g.model, i) => iopub[i].n # g.n
      BY <1>1, <1>12, <2>1 DEF ApartInv
    <3>2. \A j \in 1..Len(k) : k[j].kind = "idle" /\ k[j].model = g.model => k[j].n # g.n
      BY <1>6, <1>7, <3>1
    <3>3. \A i \in 1..Len(iopub') : EventAt("idle", g.model, i)' => iopub'[i].n # g.n
      BY <1>9, <3>1, <3>2 DEF EventAt
    <3> QED BY <1>6, <3>1, <3>3
  <2> QED BY <2>1 DEF ApartInv, EventAt
<1>15. \A m \in Models : /\ InLine(iopub, shell, m) => InLine(iopub', shell', m)
                         /\ \A n : Above(iopub, shell, m, n) => Above(iopub', shell', m, n)
                         /\ \A x, e : Within(iopub, shell, m, x, e) => Within(iopub', shell', m, x, e)
  <2>1. \A j \in 1..Len(k) : k[j].kind = "echo" =>
           j = 1 /\ Fwd(shell[1], k[j].model) /\ k[j].n = shell[1].n /\ DOMAIN k[j].upd \subseteq DOMAIN shell[1].upd
    BY <1>3, <1>6 DEF Replies, Fwd
  <2> QED BY <1>1, <1>2, <1>3, <1>4, <1>5, <2>1, LineAnswer
<1>16. ASSUME NEW m \in Models, Live(m)
       PROVE  /\ InLine(iopub', shell', m)
              /\ \A g \in Messages : Pends(g)' /\ Fwd(g, m) => Above(iopub', shell', m, g.n)
              /\ \A x \in AttrsOf(m) : /\ Within(iopub', shell', m, x, expect[m][x])
                                       /\ \A g \in Messages : Pends(g)' /\ Fwd(g, m) /\ x \in DOMAIN g.upd => g.n <= expect[m][x]
  BY <1>1, <1>12, <1>15, <1>16 DEF OrderInv, ExpectInv
<1>17. OrderInv'
  BY <1>5, <1>16 DEF OrderInv, InLine, Above, EchoAt, FwdAt, Live
<1>18. ExpectInv'
  BY <1>5, <1>16 DEF ExpectInv, Within, EchoAt, FwdAt, Live
<1>19. HeldLive'
  BY <1>1, <1>5 DEF HeldLive, Live
<1>20. FlightsInv'
  BY <1>1, <1>5, <1>11, FlightsAfter DEF FlightsInv, FlightInv, OutsApart
<1>21. OnceInv'
  <2>1. \A i \in 1..Len(iopub') : iopub'[i].kind = "open" => i \in 1..Len(iopub) /\ iopub'[i] = iopub[i]
    BY <1>8, <1>9
  <2>2. Sub({"open"}, iopub', iopub)
    <3>1. Len(iopub') \in Nat
      BY <1>1, <1>3, <1>4, CatEvents, LenProperties
    <3>2. \A i \in 1..Len(iopub') : iopub'[i].kind \in {"open"} => i + 0 \in 1..Len(iopub) /\ iopub'[i] = iopub[i + 0]
      BY <2>1, <3>1
    <3> QED BY <3>2 DEF Sub
  <2>3. \A m \in Models : Live(m)' => Live(m)
    BY <1>5 DEF Live
  <2> QED BY <1>1, <1>5, <1>11, <2>2, <2>3, OnceKept
<1> QED BY <1>11, <1>13, <1>14, <1>17, <1>18, <1>19, <1>20, <1>21 DEF MessageInv, WireInv, Makes
-----------------------------------------------------------------------------
(* Every step keeps what is known of the messages.                         *)
LEMMA MessageInit ==
  ASSUME Init
  PROVE  MessageInv
<1>1. /\ shell = <<>> /\ iopub = <<>> /\ Len(shell) = 0 /\ Len(iopub) = 0 /\ waiting = {} /\ opened = {}
      /\ fx = [a \in Actors |-> <<>>]
      /\ inflight = [m \in Models |-> 0] /\ pending = [m \in Models |-> Nothing] /\ next = [m \in Models |-> 0]
      /\ aged = [m \in Models |-> 0]
  BY DEF Init
<1>2. \A m \in Models : ~Live(m)
  BY DEF Init, Live
<1>3. \A a \in Actors : \A j \in Nat : \A g : ~At(fx[a], j, g)
  <2>1. Len(<<>>) = 0
    OBVIOUS
  <2>2. \A a \in Actors : Len(fx[a]) = 0
    BY <1>1, <2>1
  <2> QED BY <2>2 DEF At
<1>4. \A g : ~Pends(g)
  BY <1>3 DEF Pends
<1>5. Single
  BY <1>3 DEF Single
<1>6. NumberInv /\ ApartInv
  BY <1>1, <1>4 DEF NumberInv, ApartInv
<1>7. OrderInv /\ ExpectInv
  BY <1>2 DEF OrderInv, ExpectInv
<1>8. OnceInv
  BY <1>1, <1>2 DEF OnceInv
<1>9. HeldLive
  BY <1>1 DEF HeldLive
<1>10. FlightsInv
  BY <1>1, <1>4 DEF FlightsInv, FlightInv, KindInv, OutsApart, Models
<1> QED BY <1>5, <1>6, <1>7, <1>8, <1>9, <1>10 DEF MessageInv, WireInv

LEMMA StaysSettles ==
  ASSUME Core, UNCHANGED <<gen, st, opened, aged, shell, iopub>>
  PROVE  Settles
<1>1. Passes
  BY QuieterPasses DEF Quieter, Core
<1> QED BY <1>1 DEF Settles

LEMMA StoreKeeps ==
  ASSUME NoOutEnds, Core, Core', MessageInv, Store
  PROVE  MessageInv'
<1>1. LockKeeps
  BY DEF Store, ApplyLink, Propagate
<1>2. Settles
  BY <1>1, StaysSettles DEF LockKeeps, timeVars, kernelVars
<1>3. Calls
  BY ApplyLinkCalls, PropagateCalls DEF Store
<1> QED BY <1>2, <1>3, CallsSettle

LEMMA FrontendKeeps ==
  ASSUME Core, Core', MessageInv, Frontend
  PROVE  MessageInv'
<1>1. UNCHANGED <<gen, st, opened, aged, shell, iopub>>
  BY DEF Frontend, FrontendUpdate, FrontendCustom, Execute, timeVars, kernelVars
<1>2. Settles
  BY <1>1, StaysSettles
<1>3. Calls
  BY FrontendUpdateCalls, FrontendCustomCalls, ExecuteCalls DEF Frontend
<1> QED BY <1>2, <1>3, CallsSettle

LEMMA TimeKeeps ==
  ASSUME Core, Core', MessageInv, Time
  PROVE  MessageInv'
<1>1. ASSUME NEW m \in Models, NEW n \in 1..next[m], CheckFires(m, n) PROVE MessageInv'
  <2>1. UNCHANGED <<gen, st, opened, aged, shell, iopub>>
    BY <1>1 DEF CheckFires, kernelVars
  <2> QED BY <1>1, <2>1, StaysSettles, CheckFiresCalls, CallsSettle
<1>2. ASSUME NEW o \in Outs, TimerFires(o) PROVE MessageInv'
  <2>1. UNCHANGED <<gen, st, opened, aged, shell, iopub>>
    BY <1>2 DEF TimerFires, kernelVars
  <2> QED BY <1>2, <2>1, StaysSettles, TimerFiresCalls, CallsSettle
<1> QED BY <1>1, <1>2, AgeKeeps, CadenceKeeps DEF Time

LEMMA PumpKeeps ==
  ASSUME Core, Core', MessageInv, Pump
  PROVE  MessageInv'
<1>1. CASE CaptureUpdate
  <2>1. Event("capture")
    BY <1>1 DEF CaptureUpdate
  <2> QED BY <1>1, <2>1, CaptureUpdateCalls, EventSettles, CallsSettle
<1>2. CASE Idle
  <2>1. Event("idle")
    BY <1>2 DEF Idle
  <2> QED BY <1>2, <2>1, IdleCalls, EventSettles, CallsSettle
<1> QED BY <1>1, <1>2, StaleEventKeeps, CommOpenKeeps, CommCloseKeeps, LinksKeep, KernelUpdateKeeps,
           KernelEchoKeeps, RoutesKeep DEF Pump

LEMMA MessageStep ==
  ASSUME NoOutEnds, Core, Core', OpenInv, MessageInv, [Next]_vars
  PROVE  MessageInv'
<1>1. CASE UNCHANGED vars
  <2>1. UNCHANGED <<gen, st, opened, aged, shell, iopub>> /\ UNCHANGED <<updVars, next, waiting, flight, fx>>
    BY <1>1 DEF vars, modelVars, idVars, outVars, timeVars, kernelVars
  <2> QED BY <2>1, StaysSettles, QuietKeeps
<1>2. CASE Session
  BY <1>2, StartKeeps, ResetKeeps DEF Session
<1>3. CASE Kernel
  BY <1>3, KernelCodeKeeps, KernelOpensKeeps, KernelHandlesKeeps
<1>4. CASE \E a \in Actors : RunEffect(a)
  BY <1>4, RunEffectKeeps
<1> QED BY <1>1, <1>2, <1>3, <1>4, StoreKeeps, PumpKeeps, FrontendKeeps, TimeKeeps DEF Next
-----------------------------------------------------------------------------
(* An echo is taken out of the channel: no other step changes a value then. *)
LEMMA EchoOnly ==
  ASSUME Core, [Next]_vars, iopub # <<>>, iopub' = Tail(iopub), Head(iopub).kind = "echo", val' # val
  PROVE  KernelEcho
<1>1. iopub' # iopub
  <2>1. iopub \in Seq(Events)
    BY DEF Core, KernelTypes
  <2>2. PICK t \in Seq(Events) : t = Tail(iopub) /\ Len(t) = Len(iopub) - 1
    BY <2>1, HeadTailProperties
  <2>3. PICK n \in Nat : n = Len(iopub)
    BY <2>1, LenProperties
  <2>4. Len(t) # n
    <3>1. Len(t) = n - 1
      BY <2>2, <2>3
    <3>2. n - 1 # n
      OBVIOUS
    <3> QED BY <3>1, <3>2
  <2> QED BY <2>2, <2>3, <2>4
<1>2. ~UNCHANGED vars
  BY DEF vars, modelVars
<1>3. ~Store
  BY <1>1 DEF Store, ApplyLink, Propagate, LockKeeps, kernelVars
<1>4. ~Frontend
  BY <1>1 DEF Frontend, FrontendUpdate, FrontendCustom, Execute, kernelVars
<1>5. ~(\E a \in Actors : RunEffect(a))
  BY <1>1 DEF RunEffect
<1>6. ~Time
  BY <1>1 DEF Time, Age, CheckFires, TimerFires, CadenceEnds, kernelVars
<1>7. ~Session
  BY <1>1 DEF Session, Unsend, Start, Reset, kernelVars
<1>8. Kernel => KeepsStore
  BY DEF Kernel, KernelOpens, KernelCloses, KernelSets, KernelUnlinks, KernelLinks, KernelCaptures, KernelPrints,
         KernelClears, KernelDisplays, KernelHandles, KernelCode, KernelRuns
<1>9. ~Kernel
  BY <1>8 DEF KeepsStore, modelVars
<1>10. ~StaleEvent
  BY DEF StaleEvent, Drops, modelVars
<1>11. \A kind : Event(kind) => kind = "echo"
  BY DEF Event
<1>12. Pump
  BY <1>2, <1>3, <1>4, <1>5, <1>6, <1>7, <1>9 DEF Next
<1> QED BY <1>10, <1>11, <1>12 DEF Pump, CommOpen, CommClose, LinkOpen, LinkClose, KernelUpdate, CaptureUpdate, Idle,
           RouteOutput, RouteClear, UpdateDisplay

(* A message of m that carries something is a change on its way.           *)
LEMMA CarriesFwd ==
  ASSUME NEW g \in Messages, NEW x \in DOMAIN g.upd, g.model \in Models
  PROVE  Fwd(g, g.model)
<1>1. DOMAIN Nothing = {}
  BY DEF Nothing
<1>2. g.kind \in {"update", "flush"}
  BY <1>1 DEF Messages
<1> QED BY <1>2 DEF Fwd

LEMMA UnsentPends ==
  ASSUME FxTypes, NEW g \in Unsent, g.model # None
  PROVE  g \in Messages /\ Pends(g)
<1>1. PICK a \in Actors : g \in UNION {fx[a][i].msgs : i \in Sends(a)}
  BY DEF Unsent
<1>2. PICK i \in Sends(a) : g \in fx[a][i].msgs
  BY <1>1
<1>3. fx[a] \in Seq(Effects)
  BY DEF FxTypes
<1>4. i \in 1..Len(fx[a]) /\ i \in Nat /\ fx[a][i].do = "send"
  <2>1. i \in DOMAIN fx[a] /\ fx[a][i].do = "send"
    BY <1>2 DEF Sends
  <2>2. DOMAIN fx[a] = 1..Len(fx[a]) /\ Len(fx[a]) \in Nat
    BY <1>3, LenProperties
  <2> QED BY <2>1, <2>2
<1>5. fx[a][i] \in Effects
  BY <1>3, <1>4, ElementOfSeq
<1>6. g \in Messages
  BY <1>2, <1>4, <1>5 DEF Effects
<1> QED BY <1>2, <1>4, <1>6 DEF Pends, At

LEMMA EchoTakes ==
  ASSUME Core, MessageInv, KernelEcho, NEW m \in Models, m = Head(iopub).model,
         NEW x \in AttrsOf(m), val'[m][x] # val[m][x]
  PROVE  ~Newer(m, x)
<1>1. PICK e : e = Head(iopub)
  OBVIOUS
<1>2. Event("echo")
  BY DEF KernelEcho
<1>3. e = iopub[1] /\ EchoAt(iopub, 1, m)
  BY <1>1, <1>2, EchoHead
<1>4. Live(m)
  <2>1. ASSUME ~Live(m) PROVE FALSE
    <3>1. Drops
      BY <2>1 DEF KernelEcho
    <3> QED BY <3>1 DEF Drops, modelVars
  <2> QED BY <2>1
<1>5. x \in DOMAIN e.upd /\ EchoApplies(e, x)
  <2>1. PICK applied : applied = {y \in DOMAIN e.upd : EchoApplies(e, y) /\ val[m][y] # e.upd[y]}
    OBVIOUS
  <2>2. val' = [val EXCEPT ![m] = [y \in AttrsOf(m) |-> IF y \in applied THEN e.upd[y] ELSE @[y]]]
    BY <1>1, <1>4, <2>1 DEF KernelEcho
  <2>3. DOMAIN val = Models
    BY DEF Core, ModelTypes
  <2>4. val'[m][x] = IF x \in applied THEN e.upd[x] ELSE val[m][x]
    BY <2>2, <2>3
  <2>5. x \in applied
    BY <2>4
  <2> QED BY <2>1, <2>5
<1>6. expect[m][x] # 0
  BY <1>3, <1>4, <1>5, EchoLast
<1>7. expect[m][x] = iopub[1].n /\ x \notin DOMAIN pending[m]
  BY <1>1, <1>3, <1>5, <1>6 DEF EchoApplies, EchoMatches
<1>8. /\ \A i \in Nat : 1 < i /\ EchoAt(iopub, i, m) => x \notin DOMAIN iopub[i].upd
      /\ \A i \in Nat : FwdAt(shell, i, m) => x \notin DOMAIN shell[i].upd
      /\ \A g \in Messages : Pends(g) /\ Fwd(g, m) => x \notin DOMAIN g.upd
  BY <1>3, <1>4, <1>5, <1>7, EchoLast
<1>9. shell \in Seq(Messages) /\ iopub \in Seq(Events) /\ FxTypes /\ m # None
  BY MessageIs, StoreAssumption DEF Core, KernelTypes, CallInv, CallTypes, Models
<1>10. ~(\E i \in DOMAIN shell : shell[i].model = m /\ x \in DOMAIN shell[i].upd)
  <2>1. ASSUME NEW i \in DOMAIN shell, shell[i].model = m, x \in DOMAIN shell[i].upd PROVE FALSE
    <3>1. DOMAIN shell = 1..Len(shell) /\ Len(shell) \in Nat
      BY <1>9, LenProperties
    <3>2. i \in 1..Len(shell) /\ i \in Nat
      BY <3>1
    <3>3. shell[i] \in Messages
      BY <1>9, <3>2, ElementOfSeq
    <3>4. Fwd(shell[i], m)
      BY <2>1, <3>3, CarriesFwd
    <3> QED BY <1>8, <2>1, <3>2, <3>4 DEF FwdAt
  <2> QED BY <2>1
<1>11. ~(\E msg \in Unsent : msg.model = m /\ x \in DOMAIN msg.upd)
  <2>1. ASSUME NEW msg \in Unsent, msg.model = m, x \in DOMAIN msg.upd PROVE FALSE
    <3>1. msg \in Messages /\ Pends(msg)
      BY <1>9, <2>1, UnsentPends
    <3>2. Fwd(msg, m)
      BY <2>1, <3>1, CarriesFwd
    <3> QED BY <1>8, <2>1, <3>1, <3>2
  <2> QED BY <2>1
<1>12. ~(\E i \in 2..Len(iopub) : iopub[i].kind = "echo" /\ iopub[i].model = m /\ x \in DOMAIN iopub[i].upd)
  <2>1. ASSUME NEW i \in 2..Len(iopub), iopub[i].kind = "echo", iopub[i].model = m, x \in DOMAIN iopub[i].upd PROVE FALSE
    <3>1. Len(iopub) \in Nat
      BY <1>9, LenProperties
    <3>2. i \in Nat /\ 1 < i /\ i \in 1..Len(iopub)
      BY <3>1
    <3> QED BY <1>8, <2>1, <3>2 DEF EchoAt
  <2> QED BY <2>1
<1> QED BY <1>7, <1>10, <1>11, <1>12 DEF Newer

LEMMA EchoStep ==
  ASSUME Core, MessageInv, [Next]_vars, NEW m \in Models, NEW x \in AttrsOf(m),
         iopub # <<>>, iopub' = Tail(iopub), Head(iopub).kind = "echo", Head(iopub).model = m, val'[m][x] # val[m][x]
  PROVE  ~Newer(m, x)
<1>1. val' # val
  OBVIOUS
<1>2. KernelEcho
  BY <1>1, EchoOnly
<1> QED BY <1>2, EchoTakes

(* Whatever is set, by the frontend or the kernel, and however the calls   *)
(* and their answers interleave: the echo the store applies never takes    *)
(* back a newer change of the attribute, one that is held, waits to be     *)
(* sent, is with the kernel or is echoed later (widgets.rs, kernel_echo).  *)
(* A link may not copy what an Output widget shows: only flush_outputs     *)
(* would send it then, and updates of it too, each with its own flight.    *)
THEOREM EchoHolds ==
  ASSUME NoOutEnds
  PROVE  Spec => EchoKeepsNewer
<1> DEFINE Inv == StoreProofInv /\ MessageInv
           KeepsNewer == \A m \in Models : \A x \in AttrsOf(m) :
                     /\ iopub # <<>> /\ iopub' = Tail(iopub) /\ Head(iopub).kind = "echo"
                     /\ Head(iopub).model = m /\ val'[m][x] # val[m][x]
                     => ~Newer(m, x)
<1>1. Init => Inv
  BY InitStore, MessageInit
<1>2. Inv /\ [Next]_vars => Inv'
  <2>1. ASSUME Inv, [Next]_vars PROVE Inv'
    <3>1. StoreProofInv'
      BY <2>1, StoreStep, StoreKept
    <3>2. Core /\ OpenInv /\ Core' /\ MessageInv
      BY <2>1, <3>1 DEF StoreProofInv
    <3> QED BY <2>1, <3>1, <3>2, MessageStep
  <2> QED BY <2>1
<1>3. Inv /\ [Next]_vars => KeepsNewer
  BY EchoStep DEF StoreProofInv
<1> QED BY <1>1, <1>2, <1>3, PTL DEF Spec, EchoKeepsNewer
-----------------------------------------------------------------------------
(* What the store will hold once it has taken the events that are on their *)
(* way: the value the last event that counts brings, else what it has.     *)
Counts(io, i, m, x, e, g) ==
  /\ i \in 1..Len(io) /\ io[i].model = m /\ io[i].gen = g
  /\ \/ io[i].kind \in {"open", "update"}
     \/ io[i].kind = "echo" /\ io[i].n = e
  /\ x \in DOMAIN io[i].upd
Settled(io, m, x, e, g) == \A i \in Nat : ~Counts(io, i, m, x, e, g)
LastAt(io, i, m, x, e, g) == Counts(io, i, m, x, e, g) /\ \A j \in Nat : Counts(io, j, m, x, e, g) => j <= i
Agrees(io, m, x, e, g, v, w) ==
  \/ Settled(io, m, x, e, g) /\ v = w
  \/ \E i \in Nat : LastAt(io, i, m, x, e, g) /\ io[i].upd[x] = w

Shifts(s, t, m, x, e, g) ==
  /\ \A i \in Nat : Counts(t, i, m, x, e, g) => Counts(s, i + 1, m, x, e, g) /\ t[i] = s[i + 1] /\ i + 1 \in Nat
  /\ \A i \in Nat : Counts(s, i, m, x, e, g) => i = 1 \/ (i - 1 \in Nat /\ Counts(t, i - 1, m, x, e, g) /\ t[i - 1] = s[i])
LEMMA CountsTail ==
  ASSUME NEW s \in Seq(Events), s # <<>>, NEW t, t = Tail(s), NEW m, NEW x, NEW e, NEW g
  PROVE  Shifts(s, t, m, x, e, g)
<1>1. Len(t) = Len(s) - 1 /\ Len(s) \in Nat /\ Len(s) > 0 /\ \A i \in 1..Len(t) : t[i] = s[i + 1]
  BY HeadTailProperties, LenProperties
<1>2. ASSUME NEW i \in Nat, Counts(t, i, m, x, e, g)
      PROVE  Counts(s, i + 1, m, x, e, g) /\ t[i] = s[i + 1] /\ i + 1 \in Nat
  <2>1. i \in 1..Len(t)
    BY <1>2 DEF Counts
  <2>2. t[i] = s[i + 1] /\ i + 1 \in 1..Len(s) /\ i + 1 \in Nat
    BY <1>1, <2>1
  <2> QED BY <1>2, <2>2 DEF Counts
<1>3. ASSUME NEW i \in Nat, Counts(s, i, m, x, e, g), i # 1
      PROVE  i - 1 \in Nat /\ Counts(t, i - 1, m, x, e, g) /\ t[i - 1] = s[i]
  <2>1. i \in 1..Len(s)
    BY <1>3 DEF Counts
  <2>2. PICK j \in Nat : j = i - 1
    BY <2>1
  <2>3. j \in 1..Len(t) /\ j + 1 = i
    BY <1>1, <1>3, <2>1, <2>2
  <2>4. t[j] = s[i]
    BY <1>1, <2>3
  <2>5. Counts(t, j, m, x, e, g)
    BY <1>3, <2>3, <2>4 DEF Counts
  <2> QED BY <2>2, <2>4, <2>5
<1>4. \A i \in Nat : Counts(s, i, m, x, e, g) => i = 1 \/ (i - 1 \in Nat /\ Counts(t, i - 1, m, x, e, g) /\ t[i - 1] = s[i])
  BY <1>3
<1> QED BY <1>2, <1>4 DEF Shifts

(* The first event is taken: the value is its own if it counts.            *)
LEMMA AgreesTail ==
  ASSUME NEW s \in Seq(Events), s # <<>>, NEW t, t = Tail(s), NEW m, NEW x, NEW e, NEW g, NEW v, NEW w, NEW v2,
         Agrees(s, m, x, e, g, v, w),
         Counts(s, 1, m, x, e, g) => v2 = s[1].upd[x],
         ~Counts(s, 1, m, x, e, g) => v2 = v
  PROVE  Agrees(t, m, x, e, g, v2, w)
<1>0. /\ \A i \in Nat : Counts(t, i, m, x, e, g) => Counts(s, i + 1, m, x, e, g) /\ i + 1 \in Nat
      /\ \A i \in Nat : Counts(s, i, m, x, e, g) => i = 1 \/ (i - 1 \in Nat /\ Counts(t, i - 1, m, x, e, g) /\ t[i - 1] = s[i])
  <2>1. Shifts(s, t, m, x, e, g)
    BY CountsTail
  <2> QED BY <2>1 DEF Shifts
<1>1. CASE Settled(s, m, x, e, g) /\ v = w
  <2>1. Settled(t, m, x, e, g)
    BY <1>0, <1>1 DEF Settled
  <2> QED BY <1>1, <2>1 DEF Agrees, Settled
<1>2. ASSUME NEW i \in Nat, LastAt(s, i, m, x, e, g), s[i].upd[x] = w PROVE Agrees(t, m, x, e, g, v2, w)
  <2>1. Counts(s, i, m, x, e, g) /\ \A j \in Nat : Counts(s, j, m, x, e, g) => j <= i
    BY <1>2 DEF LastAt
  <2>2. CASE i = 1
    <3>1. ASSUME NEW j \in Nat, Counts(t, j, m, x, e, g) PROVE FALSE
      <4>1. j + 1 \in Nat /\ Counts(s, j + 1, m, x, e, g)
        BY <1>0, <3>1
      <4>2. CASE j = 0
        BY <3>1, <4>2 DEF Counts
      <4>3. CASE j # 0
        BY <2>1, <2>2, <4>1, <4>3
      <4> QED BY <4>2, <4>3
    <3>2. v2 = w
      BY <1>2, <2>1, <2>2
    <3> QED BY <3>1, <3>2 DEF Agrees, Settled
  <2>3. CASE i # 1
    <3>0. i - 1 \in Nat /\ Counts(t, i - 1, m, x, e, g) /\ t[i - 1] = s[i]
      BY <1>0, <2>1, <2>3
    <3>1. PICK k \in Nat : k = i - 1 /\ Counts(t, k, m, x, e, g) /\ t[k] = s[i]
      BY <3>0
    <3>2. ASSUME NEW j \in Nat, Counts(t, j, m, x, e, g) PROVE j <= k
      <4>1. j + 1 \in Nat /\ Counts(s, j + 1, m, x, e, g)
        BY <1>0, <3>2
      <4>2. j + 1 <= i
        BY <2>1, <4>1
      <4> QED BY <3>1, <4>2
    <3>3. LastAt(t, k, m, x, e, g) /\ t[k].upd[x] = w
      BY <1>2, <3>1, <3>2 DEF LastAt
    <3> QED BY <3>3 DEF Agrees
  <2> QED BY <2>2, <2>3
<1> QED BY <1>1, <1>2 DEF Agrees

(* Another number is expected, that counts for the same events.            *)
LEMMA AgreesExpect ==
  ASSUME NEW s, NEW m, NEW x, NEW e, NEW e2, NEW g, NEW v, NEW w, Agrees(s, m, x, e, g, v, w),
         \A i \in Nat : Counts(s, i, m, x, e, g) <=> Counts(s, i, m, x, e2, g)
  PROVE  Agrees(s, m, x, e2, g, v, w)
<1>1. CASE Settled(s, m, x, e, g) /\ v = w
  BY <1>1 DEF Settled, Agrees
<1>2. ASSUME NEW i \in Nat, LastAt(s, i, m, x, e, g), s[i].upd[x] = w PROVE Agrees(s, m, x, e2, g, v, w)
  BY <1>2 DEF LastAt, Agrees
<1> QED BY <1>1, <1>2 DEF Agrees

(* An event that counts is on its way: what the store has does not matter. *)
LEMMA AgreesAny ==
  ASSUME NEW s, NEW m, NEW x, NEW e, NEW g, NEW v, NEW w, NEW v2, NEW i \in Nat, Counts(s, i, m, x, e, g),
         Agrees(s, m, x, e, g, v, w)
  PROVE  Agrees(s, m, x, e, g, v2, w)
BY DEF Agrees, Settled

Adds(s, k, t, m, x, e, g) ==
  /\ Len(s) \in Nat
  /\ \A i \in Nat : Counts(s, i, m, x, e, g) => i <= Len(s) /\ Counts(t, i, m, x, e, g) /\ t[i] = s[i]
  /\ \A i \in Nat : Counts(k, i, m, x, e, g) =>
       Len(s) + i \in Nat /\ Counts(t, Len(s) + i, m, x, e, g) /\ t[Len(s) + i] = k[i]
  /\ \A i \in Nat : Counts(t, i, m, x, e, g) =>
       \/ i <= Len(s) /\ Counts(s, i, m, x, e, g)
       \/ ~(i <= Len(s)) /\ i - Len(s) \in Nat /\ Counts(k, i - Len(s), m, x, e, g)
LEMMA CountsCat ==
  ASSUME NEW s \in Seq(Events), NEW k \in Seq(Events), NEW t, t = Cat(s, k), NEW m, NEW x, NEW e, NEW g
  PROVE  Adds(s, k, t, m, x, e, g)
<1>1. /\ Len(s) \in Nat /\ Len(k) \in Nat /\ Len(t) = Len(s) + Len(k)
      /\ \A i \in 1..Len(s) : i \in 1..Len(t) /\ t[i] = s[i]
      /\ \A i \in 1..Len(k) : Len(s) + i \in 1..Len(t) /\ t[Len(s) + i] = k[i]
      /\ \A i \in 1..Len(t) : i \notin 1..Len(s) => i - Len(s) \in 1..Len(k) /\ t[i] = k[i - Len(s)]
  BY CatEvents
<1>2. ASSUME NEW i \in Nat, Counts(s, i, m, x, e, g) PROVE i <= Len(s) /\ Counts(t, i, m, x, e, g) /\ t[i] = s[i]
  <2>1. i \in 1..Len(s)
    BY <1>2 DEF Counts
  <2>2. i \in 1..Len(t) /\ t[i] = s[i]
    BY <1>1, <2>1
  <2>3. i <= Len(s)
    BY <1>1, <2>1
  <2> QED BY <1>2, <2>2, <2>3 DEF Counts
<1>3. ASSUME NEW i \in Nat, Counts(k, i, m, x, e, g)
      PROVE  Len(s) + i \in Nat /\ Counts(t, Len(s) + i, m, x, e, g) /\ t[Len(s) + i] = k[i]
  <2>1. i \in 1..Len(k)
    BY <1>3 DEF Counts
  <2>2. PICK j \in Nat : j = Len(s) + i
    BY <1>1
  <2>3. j \in 1..Len(t) /\ t[j] = k[i]
    BY <1>1, <2>1, <2>2
  <2>4. Counts(t, j, m, x, e, g)
    BY <1>3, <2>3 DEF Counts
  <2> QED BY <2>2, <2>3, <2>4
<1>4. ASSUME NEW i \in Nat, Counts(t, i, m, x, e, g)
      PROVE  \/ i <= Len(s) /\ Counts(s, i, m, x, e, g)
             \/ ~(i <= Len(s)) /\ i - Len(s) \in Nat /\ Counts(k, i - Len(s), m, x, e, g)
  <2>1. i \in 1..Len(t)
    BY <1>4 DEF Counts
  <2>2. CASE i \in 1..Len(s)
    <3>1. t[i] = s[i] /\ i <= Len(s)
      BY <1>1, <2>2
    <3> QED BY <1>4, <2>2, <3>1 DEF Counts
  <2>3. CASE i \notin 1..Len(s)
    <3>1. i - Len(s) \in 1..Len(k) /\ t[i] = k[i - Len(s)]
      BY <1>1, <2>1, <2>3
    <3>2. ~(i <= Len(s)) /\ i - Len(s) \in Nat
      BY <1>1, <2>1, <2>3
    <3>3. PICK j \in Nat : j = i - Len(s)
      BY <3>2
    <3>4. Counts(k, j, m, x, e, g)
      BY <1>4, <3>1, <3>3 DEF Counts
    <3> QED BY <3>2, <3>3, <3>4
  <2> QED BY <2>2, <2>3
<1> QED BY <1>1, <1>2, <1>3, <1>4 DEF Adds

(* Events are added, none of which counts.                                 *)
LEMMA AgreesCat ==
  ASSUME NEW s \in Seq(Events), NEW k \in Seq(Events), NEW t, t = Cat(s, k), NEW m, NEW x, NEW e, NEW g, NEW v, NEW w,
         Agrees(s, m, x, e, g, v, w), Settled(k, m, x, e, g)
  PROVE  Agrees(t, m, x, e, g, v, w)
<1>0. \A i \in Nat : Counts(s, i, m, x, e, g) => Counts(t, i, m, x, e, g) /\ t[i] = s[i]
  <2>1. Adds(s, k, t, m, x, e, g)
    BY CountsCat
  <2> QED BY <2>1 DEF Adds
<1>1. \A i \in Nat : Counts(t, i, m, x, e, g) => Counts(s, i, m, x, e, g)
  BY CountsCat DEF Settled, Adds
<1>2. CASE Settled(s, m, x, e, g) /\ v = w
  BY <1>1, <1>2 DEF Settled, Agrees
<1>3. ASSUME NEW i \in Nat, LastAt(s, i, m, x, e, g), s[i].upd[x] = w PROVE Agrees(t, m, x, e, g, v, w)
  <2>1. Counts(t, i, m, x, e, g) /\ t[i] = s[i]
    BY <1>0, <1>3 DEF LastAt
  <2>2. LastAt(t, i, m, x, e, g) /\ t[i].upd[x] = w
    BY <1>1, <1>3, <2>1 DEF LastAt
  <2> QED BY <2>2 DEF Agrees
<1> QED BY <1>2, <1>3 DEF Agrees

(* Events are added, and the last that counts brings w.                    *)
LEMMA AgreesNew ==
  ASSUME NEW s \in Seq(Events), NEW k \in Seq(Events), NEW t, t = Cat(s, k), NEW m, NEW x, NEW e, NEW g, NEW v, NEW w,
         NEW i \in Nat, LastAt(k, i, m, x, e, g), k[i].upd[x] = w
  PROVE  Agrees(t, m, x, e, g, v, w)
<1>1. Counts(k, i, m, x, e, g) /\ \A j \in Nat : Counts(k, j, m, x, e, g) => j <= i
  BY DEF LastAt
<1>2. PICK n \in Nat : n = Len(s)
  <2>1. Adds(s, k, t, m, x, e, g)
    BY CountsCat
  <2> QED BY <2>1 DEF Adds
<1>0. /\ \A j \in Nat : Counts(k, j, m, x, e, g) => Counts(t, Len(s) + j, m, x, e, g) /\ t[Len(s) + j] = k[j]
      /\ \A j \in Nat : Counts(t, j, m, x, e, g) => j <= Len(s) \/ (j - Len(s) \in Nat /\ Counts(k, j - Len(s), m, x, e, g))
  <2>1. Adds(s, k, t, m, x, e, g)
    BY CountsCat
  <2> QED BY <2>1 DEF Adds
<1>3. PICK p \in Nat : p = n + i
  OBVIOUS
<1>4. Counts(t, p, m, x, e, g) /\ t[p] = k[i]
  BY <1>0, <1>1, <1>2, <1>3
<1>5. ASSUME NEW j \in Nat, Counts(t, j, m, x, e, g) PROVE j <= p
  <2>1. j <= n \/ (j - n \in Nat /\ Counts(k, j - n, m, x, e, g))
    BY <1>0, <1>2, <1>5
  <2>2. j <= n \/ j - n <= i
    BY <1>1, <2>1
  <2> QED BY <1>3, <2>2
<1>6. LastAt(t, p, m, x, e, g) /\ t[p].upd[x] = w
  BY <1>4, <1>5 DEF LastAt
<1> QED BY <1>6 DEF Agrees
-----------------------------------------------------------------------------
(* A change of the attribute is on its way to the kernel; it has a number. *)
Brings(g, m, x) == Fwd(g, m) /\ x \in DOMAIN g.upd
OnWay(m, x) ==
  \/ \E g \in Messages : Pends(g) /\ Brings(g, m, x)
  \/ \E i \in 1..Len(shell) : Brings(shell[i], m, x)
OnWayAs(m, x, e) ==
  \/ \E g \in Messages : Pends(g) /\ Brings(g, m, x) /\ g.n = e
  \/ \E i \in 1..Len(shell) : Brings(shell[i], m, x) /\ shell[i].n = e

(* What is expected is the last change on its way.                         *)
LatestInv ==
  sender => \A m \in Models : Live(m) => \A x \in AttrsOf(m) : OnWay(m, x) => OnWayAs(m, x, expect[m][x])

(* Unless the kernel has still to hear of a change, what is on the way to  *)
(* the store brings it what the kernel has.                                *)
Ahead(m, x) == x \in DOMAIN pending[m] \/ m \in waiting \/ OnWay(m, x)
Known(m) == Live(m) \/ \E i \in 1..Len(iopub) : Opens(m, i)
Agree(m, x) == Agrees(iopub, m, x, expect[m][x], gen, val[m][x], kval[m][x])
AgreeInv ==
  sender /\ kgen = gen =>
    \A m \in Models : Known(m) /\ kval[m] # None => \A x \in AttrsOf(m) : Ahead(m, x) \/ Agree(m, x)
LastInv == LatestInv /\ AgreeInv

(* Nothing was sent to a model before it opened.                           *)
LEMMA OpeningFresh ==
  ASSUME Core, MessageInv, NEW m \in Models, NEW i \in 1..Len(iopub), Opens(m, i)
  PROVE  /\ ~Live(m) /\ next[m] = 0 /\ \A x : ~Ahead(m, x)
         /\ \A j \in 1..Len(iopub) : ~(iopub[j].kind = "echo" /\ iopub[j].model = m)
<1>1. ~Live(m) /\ next[m] = 0
  BY DEF MessageInv, OnceInv
<1>2. NumberInv /\ HeldLive /\ aged[m] \in Nat
  BY DEF MessageInv, WireInv, Core, TimeTypes
<1>3. \A j \in 1..Len(iopub) : ~(iopub[j].kind = "echo" /\ iopub[j].model = m)
  <2>1. ASSUME NEW j \in 1..Len(iopub), iopub[j].kind = "echo", iopub[j].model = m PROVE FALSE
    <3>1. 0 < iopub[j].n /\ iopub[j].n <= 0
      BY <1>1, <1>2, <2>1 DEF NumberInv
    <3>2. iopub[j] \in Events
      BY ElementOfSeq DEF Core, KernelTypes
    <3>3. iopub[j].n \in Nat
      BY <2>1, <3>2, EventNumber
    <3> QED BY <3>1, <3>3
  <2> QED BY <2>1
<1>4. ASSUME NEW g \in Messages, Pends(g), g.model = m PROVE FALSE
  <2>1. aged[m] < g.n /\ g.n <= 0
    BY <1>1, <1>2, <1>4 DEF NumberInv
  <2>2. g.n \in Nat
    BY MessageIs
  <2> QED BY <1>2, <2>1, <2>2
<1>5. ASSUME NEW j \in 1..Len(shell), shell[j].model = m PROVE FALSE
  <2>1. m # None
    BY StoreAssumption DEF Models
  <2>2. 0 < shell[j].n /\ shell[j].n <= 0
    BY <1>1, <1>2, <1>5, <2>1 DEF NumberInv
  <2>3. shell[j] \in Messages
    BY ElementOfSeq DEF Core, KernelTypes
  <2>4. shell[j].n \in Nat
    BY <2>3, MessageIs
  <2> QED BY <2>2, <2>4
<1>6. m \notin waiting /\ pending[m] = Nothing
  BY <1>1, <1>2 DEF HeldLive
<1>7. DOMAIN Nothing = {}
  BY DEF Nothing
<1>8. ASSUME NEW x PROVE ~Ahead(m, x)
  BY <1>4, <1>5, <1>6, <1>7 DEF Ahead, OnWay, Brings, Fwd
<1> QED BY <1>1, <1>3, <1>8

LEMMA OpeningAgree ==
  ASSUME Core, MessageInv, AgreeInv, sender, kgen = gen, NEW m \in Models, NEW i \in 1..Len(iopub), Opens(m, i),
         kval[m] # None, NEW x \in AttrsOf(m), NEW e, NEW v
  PROVE  Agrees(iopub, m, x, e, gen, v, kval[m][x]) /\ Counts(iopub, i, m, x, e, gen)
<1>1. ~Ahead(m, x) /\ \A j \in 1..Len(iopub) : ~(iopub[j].kind = "echo" /\ iopub[j].model = m)
  BY OpeningFresh
<1>2. Agrees(iopub, m, x, expect[m][x], gen, val[m][x], kval[m][x])
  BY <1>1 DEF AgreeInv, Known, Agree
<1>3. \A j \in Nat : Counts(iopub, j, m, x, expect[m][x], gen) <=> Counts(iopub, j, m, x, e, gen)
  BY <1>1 DEF Counts
<1>4. Agrees(iopub, m, x, e, gen, val[m][x], kval[m][x])
  BY <1>2, <1>3, AgreesExpect
<1>5. Counts(iopub, i, m, x, e, gen) /\ i \in Nat
  <2>1. iopub[i] \in Events /\ Len(iopub) \in Nat
    BY ElementOfSeq, LenProperties DEF Core, KernelTypes
  <2>2. iopub[i].kind = "open" /\ iopub[i].model = m /\ iopub[i].gen = gen
    BY DEF Opens, EventAt
  <2>3. IsEvent(iopub[i])
    BY <2>1 DEF Events
  <2>4. x \in DOMAIN iopub[i].upd
    BY <2>2, <2>3 DEF IsEvent
  <2>5. i \in Nat
    BY <2>1
  <2> QED BY <2>2, <2>4, <2>5 DEF Counts
<1>6. Agrees(iopub, m, x, e, gen, v, kval[m][x])
  BY <1>4, <1>5, AgreesAny
<1> QED BY <1>5, <1>6

(* A step that takes an event, or none: what opens needs no more.          *)
LEMMA PumpAgree ==
  ASSUME Core, MessageInv, AgreeInv, gen' = gen, kgen' = kgen, sender' => sender, kval' = kval, Quieter,
         \A m \in Models : \A x \in AttrsOf(m) :
           sender /\ kgen = gen /\ Live(m)' /\ kval[m] # None => Ahead(m, x)' \/ Agree(m, x)'
  PROVE  AgreeInv'
<1>1. ASSUME sender, kgen = gen, NEW m \in Models, kval[m] # None, ~Live(m)', NEW j \in 1..Len(iopub'), Opens(m, j)',
             NEW x \in AttrsOf(m)
      PROVE  Agree(m, x)'
  <2>1. PICK e : e = expect'[m][x]
    OBVIOUS
  <2>2. PICK v : v = val'[m][x]
    OBVIOUS
  <2>3. PICK w : w = kval[m][x]
    OBVIOUS
  <2>4. Agrees(iopub', m, x, e, gen, v, w)
    <3>1. CASE iopub' = iopub
      <4>1. j \in 1..Len(iopub) /\ Opens(m, j)
        BY <1>1, <3>1 DEF Opens, EventAt
      <4> QED BY <1>1, <2>3, <3>1, <4>1, OpeningAgree
    <3>2. CASE iopub # <<>> /\ iopub' = Tail(iopub)
      <4>1. iopub \in Seq(Events)
        BY DEF Core, KernelTypes
      <4>2. /\ Len(iopub') = Len(iopub) - 1 /\ Len(iopub) \in Nat
            /\ \A i \in 1..Len(iopub') : iopub'[i] = iopub[i + 1]
        BY <3>2, <4>1, HeadTailProperties, LenProperties
      <4>3. j + 1 \in 1..Len(iopub) /\ iopub'[j] = iopub[j + 1] /\ j \in Nat
        BY <4>2
      <4>4. PICK p \in 1..Len(iopub) : p = j + 1
        BY <4>3
      <4>5. Opens(m, p)
        BY <1>1, <4>3, <4>4 DEF Opens, EventAt
      <4>6. Agrees(iopub, m, x, e, gen, v, w) /\ Counts(iopub, p, m, x, e, gen)
        BY <1>1, <2>3, <4>5, OpeningAgree
      <4>7. Counts(iopub', j, m, x, e, gen)
        BY <4>3, <4>4, <4>6 DEF Counts
      <4>8. PICK u : (Counts(iopub, 1, m, x, e, gen) => u = iopub[1].upd[x]) /\ (~Counts(iopub, 1, m, x, e, gen) => u = v)
        OBVIOUS
      <4>9. Agrees(iopub', m, x, e, gen, u, w)
        BY <3>2, <4>1, <4>6, <4>8, AgreesTail
      <4> QED BY <4>3, <4>7, <4>9, AgreesAny
    <3> QED BY <3>1, <3>2 DEF Quieter
  <2> QED BY <2>1, <2>2, <2>3, <2>4 DEF Agree
<1>2. ASSUME sender', kgen' = gen', NEW m \in Models, Known(m)', kval'[m] # None, NEW x \in AttrsOf(m)
      PROVE  Ahead(m, x)' \/ Agree(m, x)'
  <2>1. CASE Live(m)'
    BY <1>2, <2>1
  <2>2. CASE ~Live(m)'
    <3>1. PICK j \in 1..Len(iopub') : Opens(m, j)'
      BY <1>2, <2>2 DEF Known
    <3> QED BY <1>1, <1>2, <2>2, <3>1
  <2> QED BY <2>1, <2>2
<1> QED BY <1>2 DEF AgreeInv

(* The event that is taken, if any, is what the value of m comes from.     *)
LEMMA StayOne ==
  ASSUME Core, AgreeInv, sender, kgen = gen, gen' = gen, kval' = kval, NEW m \in Models, Live(m), kval[m] # None,
         NEW x \in AttrsOf(m), ~Ahead(m, x), expect'[m][x] = expect[m][x],
         \/ iopub' = iopub /\ val'[m][x] = val[m][x]
         \/ /\ iopub # <<>> /\ iopub' = Tail(iopub)
            /\ Counts(iopub, 1, m, x, expect[m][x], gen) => val'[m][x] = iopub[1].upd[x]
            /\ ~Counts(iopub, 1, m, x, expect[m][x], gen) => val'[m][x] = val[m][x]
  PROVE  Agree(m, x)'
<1>1. Agrees(iopub, m, x, expect[m][x], gen, val[m][x], kval[m][x])
  BY DEF AgreeInv, Known, Agree
<1>2. CASE iopub' = iopub /\ val'[m][x] = val[m][x]
  BY <1>1, <1>2 DEF Agree
<1>3. CASE /\ iopub # <<>> /\ iopub' = Tail(iopub)
           /\ Counts(iopub, 1, m, x, expect[m][x], gen) => val'[m][x] = iopub[1].upd[x]
           /\ ~Counts(iopub, 1, m, x, expect[m][x], gen) => val'[m][x] = val[m][x]
  <2>1. PICK e : e = expect[m][x]
    OBVIOUS
  <2>2. PICK v : v = val[m][x]
    OBVIOUS
  <2>3. PICK v2 : v2 = val'[m][x]
    OBVIOUS
  <2>4. PICK w : w = kval[m][x]
    OBVIOUS
  <2>5. iopub \in Seq(Events)
    BY DEF Core, KernelTypes
  <2>6. Agrees(iopub', m, x, e, gen, v2, w)
    BY <1>1, <1>3, <2>1, <2>2, <2>3, <2>4, <2>5, AgreesTail
  <2> QED BY <2>1, <2>3, <2>4, <2>6 DEF Agree
<1> QED BY <1>2, <1>3

(* An event that is taken and brings no value.                             *)
Idles ==
  \/ iopub' = iopub
  \/ /\ iopub # <<>> /\ iopub' = Tail(iopub)
     /\ Head(iopub).kind \notin {"open", "update", "echo"} \/ Head(iopub).gen # gen
LEMMA StayAgree ==
  ASSUME Core, MessageInv, AgreeInv, gen' = gen, st' = st, kgen' = kgen, sender' => sender, kval' = kval, Idles,
         \A m \in Models : Live(m) => \A x \in AttrsOf(m) :
           \/ Ahead(m, x)'
           \/ ~Ahead(m, x) /\ val'[m][x] = val[m][x] /\ expect'[m][x] = expect[m][x]
  PROVE  AgreeInv'
<1>1. Quieter
  BY DEF Idles, Quieter
<1>2. ASSUME NEW m \in Models, NEW x \in AttrsOf(m), sender, kgen = gen, Live(m)', kval[m] # None, ~Ahead(m, x)'
      PROVE  Agree(m, x)'
  <2>1. Live(m)
    BY <1>2 DEF Live
  <2>2. ~Ahead(m, x) /\ val'[m][x] = val[m][x] /\ expect'[m][x] = expect[m][x]
    BY <1>2, <2>1
  <2>3. iopub # <<>> => Head(iopub) = iopub[1]
    BY HeadTailProperties DEF Core, KernelTypes
  <2>4. \/ iopub' = iopub
        \/ iopub # <<>> /\ iopub' = Tail(iopub) /\ ~Counts(iopub, 1, m, x, expect[m][x], gen)
    BY <2>3 DEF Idles, Counts
  <2> QED BY <1>2, <2>1, <2>2, <2>4, StayOne
<1> QED BY <1>1, <1>2, PumpAgree
-----------------------------------------------------------------------------
(* The calls: what they change of a value is on its way, or is held.       *)
LEMMA MadeOnWay ==
  ASSUME NEW N, Makes(N), NEW m, NEW x, Carried(N, m, x)
  PROVE  OnWay(m, x)'
<1>1. PICK g \in N : Fwd(g, m) /\ x \in DOMAIN g.upd
  BY DEF Carried
<1>2. g \in Messages /\ Pends(g)'
  BY DEF Makes
<1>3. \E h \in Messages : Pends(h)' /\ Brings(h, m, x)
  BY <1>1, <1>2 DEF Brings
<1> QED BY <1>3 DEF OnWay

LEMMA WayStays ==
  ASSUME NEW m, NEW x, shell' = shell, \A g \in Messages : Pends(g) => Pends(g)'
  PROVE  /\ OnWay(m, x) => OnWay(m, x)'
         /\ \A e : OnWayAs(m, x, e) => OnWayAs(m, x, e)'
<1>1. OnWay(m, x) => OnWay(m, x)'
  BY DEF OnWay
<1>2. ASSUME NEW e, OnWayAs(m, x, e) PROVE OnWayAs(m, x, e)'
  BY <1>2 DEF OnWayAs
<1> QED BY <1>1, <1>2

LEMMA CallAhead ==
  ASSUME OutTypes, NEW N, Posts(N), Captures(N), Holds(N), Covers(N), shell' = shell, st' = st, NEW m \in Models, Live(m),
         NEW x \in AttrsOf(m), ~Ahead(m, x)'
  PROVE  ~Ahead(m, x) /\ val'[m][x] = val[m][x] /\ expect'[m][x] = expect[m][x]
<1>1. ~OnWay(m, x)' /\ m \notin waiting' /\ x \notin DOMAIN pending'[m]
  BY DEF Ahead
<1>2. Makes(N) /\ ~Carried(N, m, x)
  BY <1>1, MadeOnWay DEF Posts
<1>3. ~OnWay(m, x)
  BY <1>1, <1>2, WayStays DEF Makes
<1>4. x \notin DOMAIN pending[m]
  BY <1>1, <1>2 DEF Holds
<1>5. m \notin waiting
  <2>1. ASSUME m \in waiting PROVE FALSE
    <3>1. Carried(N, m, "outputs")
      BY <1>1, <2>1 DEF Captures
    <3>2. x = "outputs"
      BY <2>1 DEF AttrsOf, OutTypes
    <3> QED BY <1>2, <3>1, <3>2
  <2> QED BY <2>1
<1>6. val'[m][x] = val[m][x]
  BY <1>1, <1>2 DEF Covers
<1>7. expect'[m][x] = expect[m][x]
  <2>1. Live(m)'
    BY DEF Live
  <2> QED BY <1>2, <2>1 DEF Posts, Expects
<1> QED BY <1>3, <1>4, <1>5, <1>6, <1>7 DEF Ahead

LEMMA WayGoes ==
  ASSUME NEW N, Makes(N), shell' = shell, NEW m, NEW x, OnWay(m, x)', ~Carried(N, m, x)
  PROVE  OnWay(m, x)
<1>1. \A g \in Messages : Pends(g)' => Pends(g) \/ g \in N
  BY DEF Makes
<1>2. \A g \in N : ~Brings(g, m, x)
  BY DEF Carried, Brings
<1>3. CASE \E g \in Messages : Pends(g)' /\ Brings(g, m, x)
  BY <1>1, <1>2, <1>3 DEF OnWay
<1>4. CASE \E i \in 1..Len(shell') : Brings(shell'[i], m, x)
  BY <1>4 DEF OnWay
<1> QED BY <1>3, <1>4 DEF OnWay

LEMMA CallLatest ==
  ASSUME LatestInv, NEW N, Posts(N), shell' = shell, sender' => sender, \A m \in Models : Live(m)' => Live(m)
  PROVE  LatestInv'
<1>1. Makes(N)
  BY DEF Posts
<1>2. ASSUME sender', NEW m \in Models, Live(m)', NEW x \in AttrsOf(m), OnWay(m, x)'
      PROVE  OnWayAs(m, x, expect[m][x])'
  <2>1. Live(m)
    BY <1>2
  <2>2. CASE Carried(N, m, x)
    <3>1. PICK g \in N : Fwd(g, m) /\ x \in DOMAIN g.upd
      BY <2>2 DEF Carried
    <3>2. g \in Messages /\ Pends(g)'
      BY <1>1 DEF Makes
    <3>3. expect'[m][x] = g.n
      BY <1>2, <2>1, <3>1 DEF Posts, Expects
    <3> QED BY <3>1, <3>2, <3>3 DEF OnWayAs, Brings
  <2>3. CASE ~Carried(N, m, x)
    <3>1. OnWay(m, x)
      BY <1>1, <1>2, <2>3, WayGoes
    <3>2. OnWayAs(m, x, expect[m][x])
      BY <1>2, <2>1, <3>1 DEF LatestInv
    <3>3. expect'[m][x] = expect[m][x]
      BY <1>2, <2>1, <2>3 DEF Posts, Expects
    <3>4. PICK e : e = expect[m][x]
      OBVIOUS
    <3>5. OnWayAs(m, x, e)'
      BY <1>1, <3>2, <3>4, WayStays DEF Makes
    <3> QED BY <3>3, <3>4, <3>5 DEF OnWayAs
  <2> QED BY <2>2, <2>3
<1> QED BY <1>2 DEF LatestInv

LEMMA CallsLast ==
  ASSUME Core, MessageInv, LastInv, Calls, gen' = gen, st' = st, shell' = shell, kgen' = kgen, kval' = kval,
         sender' => sender, Idles
  PROVE  LastInv'
<1>1. PICK N : CallDone(N) /\ Covers(N)
  BY DEF Calls
<1>2. Posts(N) /\ Captures(N) /\ Holds(N) /\ OutTypes
  BY <1>1 DEF CallDone, Core, CallInv, CallTypes
<1>3. LatestInv'
  BY <1>2, CallLatest DEF LastInv, Live
<1>4. \A m \in Models : Live(m) => \A x \in AttrsOf(m) :
        \/ Ahead(m, x)'
        \/ ~Ahead(m, x) /\ val'[m][x] = val[m][x] /\ expect'[m][x] = expect[m][x]
  BY <1>1, <1>2, CallAhead
<1>5. AgreeInv'
  BY <1>4, StayAgree DEF LastInv
<1> QED BY <1>3, <1>5 DEF LastInv

LEMMA EventIdles ==
  ASSUME Core, NEW kind, Event(kind)
  PROVE  /\ gen' = gen /\ shell' = shell /\ kgen' = kgen /\ kval' = kval /\ sender' = sender /\ Quieter
         /\ iopub # <<>> /\ iopub' = Tail(iopub) /\ Head(iopub) = iopub[1] /\ iopub[1].kind = kind /\ iopub[1].gen = gen
         /\ kind \notin {"open", "update", "echo"} => Idles
<1>1. iopub # <<>> /\ iopub' = Tail(iopub) /\ Head(iopub).kind = kind /\ Head(iopub).gen = gen
  BY DEF Event, Current
<1>2. Head(iopub) = iopub[1]
  BY <1>1, HeadTailProperties DEF Core, KernelTypes
<1> QED BY <1>1, <1>2 DEF Event, Idles, Quieter

(* Nothing of the messages moves, and no value changes.                    *)
LEMMA SameLast ==
  ASSUME Core, MessageInv, LastInv, UNCHANGED <<gen, st, val, updVars, next, waiting, flight, fx, shell, kgen, kval>>,
         sender' => sender, Idles
  PROVE  LastInv'
<1>1. CallWire /\ st' = st /\ val' = val /\ UNCHANGED <<updVars, next, waiting, flight, fx>>
  BY WireOf
<1>2. CallDone({})
  BY <1>1, SameDone
<1>3. Calls
  BY <1>1, <1>2 DEF Calls, Covers
<1> QED BY <1>3, CallsLast
-----------------------------------------------------------------------------
(* The events, on what the store and the kernel hold.                      *)
LEMMA WaySame ==
  ASSUME fx' = fx, shell' = shell, NEW m, NEW x
  PROVE  /\ (OnWay(m, x)' => OnWay(m, x)) /\ (OnWay(m, x) => OnWay(m, x)')
         /\ \A e : OnWayAs(m, x, e) => OnWayAs(m, x, e)'
<1>1. \A g \in Messages : (Pends(g)' => Pends(g)) /\ (Pends(g) => Pends(g)')
  BY DEF Pends, At
<1>2. OnWay(m, x)' => OnWay(m, x)
  BY <1>1 DEF OnWay
<1> QED BY <1>1, <1>2, WayStays

(* An event of m that is taken leaves the other models alone.              *)
LEMMA TakeAgree ==
  ASSUME Core, MessageInv, AgreeInv, NEW kind, Event(kind), NEW m, m = Head(iopub).model, fx' = fx, shell' = shell,
         \A k \in Models : k # m =>
           /\ Live(k)' => Live(k)
           /\ pending'[k] = pending[k] /\ (k \in waiting => k \in waiting')
           /\ \A x \in AttrsOf(k) : val'[k][x] = val[k][x] /\ expect'[k][x] = expect[k][x],
         m \in Models /\ Live(m)' /\ sender /\ kgen = gen /\ kval[m] # None =>
           \A x \in AttrsOf(m) : Ahead(m, x)' \/ Agree(m, x)'
  PROVE  AgreeInv'
<1>1. /\ gen' = gen /\ kgen' = kgen /\ kval' = kval /\ sender' = sender /\ Quieter
      /\ iopub # <<>> /\ iopub' = Tail(iopub) /\ Head(iopub) = iopub[1]
  BY EventIdles
<1>2. ASSUME NEW k \in Models, k # m, NEW x \in AttrsOf(k), sender, kgen = gen, Live(k)', kval[k] # None, ~Ahead(k, x)'
      PROVE  Agree(k, x)'
  <2>1. ~Ahead(k, x)
    BY <1>2, WaySame DEF Ahead
  <2>2. ~Counts(iopub, 1, k, x, expect[k][x], gen)
    BY <1>1, <1>2 DEF Counts
  <2>3. Live(k) /\ val'[k][x] = val[k][x] /\ expect'[k][x] = expect[k][x]
    BY <1>2
  <2> QED BY <1>1, <1>2, <2>1, <2>2, <2>3, StayOne
<1>3. \A k \in Models : \A x \in AttrsOf(k) :
        sender /\ kgen = gen /\ Live(k)' /\ kval[k] # None => Ahead(k, x)' \/ Agree(k, x)'
  BY <1>2
<1> QED BY <1>1, <1>3, PumpAgree

LEMMA DropLast ==
  ASSUME Core, MessageInv, LastInv, NEW kind, Event(kind), Drops,
         kind \in {"open", "update", "echo"} => ~Live(Head(iopub).model)
  PROVE  LastInv'
<1>1. gen' = gen /\ shell' = shell /\ kgen' = kgen /\ kval' = kval /\ sender' = sender
  BY EventIdles
<1>2. UNCHANGED <<st, val, updVars, next, waiting, flight, fx>> /\ pending' = pending /\ expect' = expect
  BY DEF Drops, modelVars, idVars, outVars, updVars
<1>3. CASE kind \notin {"open", "update", "echo"}
  BY <1>1, <1>2, <1>3, EventIdles, SameLast
<1>4. CASE kind \in {"open", "update", "echo"}
  <2>1. LatestInv'
    <3>1. Single
      BY DEF MessageInv, WireInv
    <3>2. Posts({})
      BY <1>2, <3>1, NothingPosts
    <3>3. \A k \in Models : Live(k)' => Live(k)
      BY <1>2 DEF Live
    <3> QED BY <1>1, <3>2, <3>3, CallLatest DEF LastInv
  <2>2. PICK m : m = Head(iopub).model
    OBVIOUS
  <2>3. ~Live(m)'
    BY <1>2, <1>4, <2>2 DEF Live
  <2>4. \A k \in Models : Live(k)' => Live(k)
    BY <1>2 DEF Live
  <2>5. AgreeInv'
    BY <1>1, <1>2, <2>2, <2>3, <2>4, TakeAgree DEF LastInv
  <2> QED BY <2>1, <2>5 DEF LastInv
<1> QED BY <1>3, <1>4

LEMMA KernelUpdateLast ==
  ASSUME Core, MessageInv, LastInv, KernelUpdate
  PROVE  LastInv'
<1>1. Event("update")
  BY DEF KernelUpdate
<1>2. PICK e : e = Head(iopub)
  OBVIOUS
<1>3. PICK m : m = e.model
  OBVIOUS
<1>4. CASE ~Live(m)
  <2>1. Drops
    BY <1>2, <1>3, <1>4 DEF KernelUpdate
  <2> QED BY <1>1, <1>2, <1>3, <1>4, <2>1, DropLast
<1>5. CASE Live(m)
  <2>1. /\ val' = [val EXCEPT ![m] = Merge(e.upd, @)] /\ st' = st /\ fx' = fx /\ waiting' = waiting
        /\ pending' = pending /\ expect' = expect /\ next' = next
    BY <1>2, <1>3, <1>5 DEF KernelUpdate, updVars, outVars, idVars
  <2>2. shell' = shell /\ sender' = sender /\ gen' = gen /\ kval' = kval /\ kgen' = kgen /\ iopub # <<>>
        /\ iopub' = Tail(iopub) /\ e = iopub[1] /\ e.kind = "update" /\ e.gen = gen /\ 1 \in 1..Len(iopub)
    <3>1. Len(iopub) \in Nat /\ Len(iopub) > 0
      BY <1>1, EventIdles, HeadTailProperties, LenProperties, EmptySeq DEF Core, KernelTypes
    <3>2. 1 \in 1..Len(iopub)
      BY <3>1
    <3> QED BY <1>1, <1>2, <3>2, EventIdles
  <2>3. \A k \in Models : Live(k)' => Live(k)
    BY <2>1 DEF Live
  <2>4. LatestInv'
    <3>1. Single
      BY DEF MessageInv, WireInv
    <3>2. Posts({})
      BY <2>1, <3>1, NothingPosts
    <3> QED BY <2>2, <2>3, <3>2, CallLatest DEF LastInv
  <2>5. DOMAIN val = Models /\ (m \in Models => DOMAIN val[m] = AttrsOf(m))
    BY DEF Core, ModelTypes
  <2>6. ASSUME m \in Models, Live(m)', sender, kgen = gen, kval[m] # None, NEW x \in AttrsOf(m), ~Ahead(m, x)'
        PROVE  Agree(m, x)'
    <3>1. ~Ahead(m, x)
      BY <2>1, <2>2, <2>6, WaySame DEF Ahead
    <3>2. val'[m] = Merge(e.upd, val[m])
      BY <2>1, <2>5, <2>6
    <3>3. val'[m][x] = IF x \in DOMAIN e.upd THEN e.upd[x] ELSE val[m][x]
      BY <2>5, <2>6, <3>2 DEF Merge
    <3>4. Counts(iopub, 1, m, x, expect[m][x], gen) => val'[m][x] = iopub[1].upd[x]
      BY <2>2, <3>3 DEF Counts
    <3>5. ~Counts(iopub, 1, m, x, expect[m][x], gen) => val'[m][x] = val[m][x]
      BY <1>3, <2>2, <3>3 DEF Counts
    <3> QED BY <1>5, <2>1, <2>2, <2>6, <3>1, <3>4, <3>5, StayOne DEF LastInv
  <2>7. \A k \in Models : k # m => val'[k] = val[k]
    BY <2>1, <2>5
  <2>8. AgreeInv'
    BY <1>1, <1>2, <1>3, <2>1, <2>2, <2>3, <2>6, <2>7, TakeAgree DEF LastInv
  <2> QED BY <2>4, <2>8 DEF LastInv
<1> QED BY <1>4, <1>5

LEMMA LatestSame ==
  ASSUME LatestInv, fx' = fx, shell' = shell, sender' => sender,
         \A m \in Models : Live(m)' => \A x \in AttrsOf(m) : ~OnWay(m, x) \/ (Live(m) /\ expect'[m][x] = expect[m][x])
  PROVE  LatestInv'
<1>1. ASSUME sender', NEW m \in Models, Live(m)', NEW x \in AttrsOf(m), OnWay(m, x)'
      PROVE  OnWayAs(m, x, expect[m][x])'
  <2>1. OnWay(m, x)
    BY <1>1, WaySame
  <2>2. Live(m) /\ expect'[m][x] = expect[m][x]
    BY <1>1, <2>1
  <2>3. PICK e : e = expect[m][x]
    OBVIOUS
  <2>4. OnWayAs(m, x, e)
    BY <1>1, <2>1, <2>2, <2>3 DEF LatestInv
  <2>5. OnWayAs(m, x, e)'
    BY <2>4, WaySame
  <2> QED BY <2>2, <2>3, <2>5 DEF OnWayAs
<1> QED BY <1>1 DEF LatestInv

(* The first event of a channel that is taken.                             *)
LEMMA TakesFirst ==
  ASSUME Core, NEW kind, Event(kind)
  PROVE  1 \in 1..Len(iopub) /\ 1 \in Nat /\ Head(iopub) = iopub[1] /\ iopub[1] \in Events
<1>1. iopub \in Seq(Events) /\ iopub # <<>>
  BY EventIdles DEF Core, KernelTypes
<1>2. Len(iopub) \in Nat /\ Len(iopub) > 0 /\ Head(iopub) = iopub[1] /\ Head(iopub) \in Events
  BY <1>1, HeadTailProperties, LenProperties, EmptySeq
<1>3. 1 \in 1..Len(iopub)
  BY <1>2
<1> QED BY <1>2, <1>3

LEMMA CommOpenLast ==
  ASSUME Core, MessageInv, LastInv, CommOpen
  PROVE  LastInv'
<1>1. PICK m : m = Head(iopub).model
  OBVIOUS
<1>2. Event("open") /\ DropModel(m) /\ st' = [st EXCEPT ![m] = "live"] /\ val' = [val EXCEPT ![m] = Head(iopub).upd]
  BY <1>1 DEF CommOpen
<1>3. /\ gen' = gen /\ shell' = shell /\ kgen' = kgen /\ kval' = kval /\ sender' = sender
      /\ iopub # <<>> /\ iopub' = Tail(iopub) /\ Head(iopub) = iopub[1] /\ iopub[1].kind = "open" /\ iopub[1].gen = gen
  BY <1>2, EventIdles
<1>4. 1 \in 1..Len(iopub) /\ iopub \in Seq(Events)
  BY <1>2, TakesFirst DEF Core, KernelTypes
<1>5. m \in Models
  BY <1>1, <1>2, EventDoes DEF IsEvent
<1>6. Opens(m, 1)
  BY <1>1, <1>3 DEF Opens, EventAt
<1>7. \A x : ~Ahead(m, x)
  BY <1>4, <1>5, <1>6, OpeningFresh
<1>8. /\ waiting' = waiting \ {m} /\ fx' = fx
      /\ expect' = [expect EXCEPT ![m] = [x \in AttrsOf(m) |-> 0]] /\ pending' = [pending EXCEPT ![m] = Nothing]
  BY <1>2 DEF DropModel
<1>9. DOMAIN st = Models /\ DOMAIN val = Models /\ DOMAIN expect = Models /\ DOMAIN pending = Models
  BY DEF Core, ModelTypes, CallInv, CallTypes, ExpectTypes, HeldTypes
<1>10. \A k \in Models : k # m =>
         /\ Live(k)' => Live(k)
         /\ pending'[k] = pending[k] /\ (k \in waiting => k \in waiting')
         /\ \A x \in AttrsOf(k) : val'[k][x] = val[k][x] /\ expect'[k][x] = expect[k][x]
  BY <1>2, <1>8, <1>9 DEF Live
<1>11. LatestInv'
  <2>1. \A k \in Models : Live(k)' => \A x \in AttrsOf(k) : ~OnWay(k, x) \/ (Live(k) /\ expect'[k][x] = expect[k][x])
    BY <1>7, <1>10 DEF Ahead
  <2> QED BY <1>3, <1>8, <2>1, LatestSame DEF LastInv
<1>12. ASSUME sender, kgen = gen, kval[m] # None, NEW x \in AttrsOf(m) PROVE Agree(m, x)'
  <2>1. PICK e : e = expect'[m][x]
    OBVIOUS
  <2>2. PICK v : v = iopub[1].upd[x]
    OBVIOUS
  <2>3. PICK w : w = kval[m][x]
    OBVIOUS
  <2>4. Agrees(iopub, m, x, e, gen, v, w) /\ Counts(iopub, 1, m, x, e, gen)
    BY <1>4, <1>5, <1>6, <1>12, <2>3, OpeningAgree DEF LastInv
  <2>5. Agrees(iopub', m, x, e, gen, v, w)
    <3>1. PICK t : t = iopub' /\ t = Tail(iopub)
      BY <1>3
    <3>2. iopub # <<>> /\ iopub \in Seq(Events)
      BY <1>3, <1>4
    <3>3. /\ Counts(iopub, 1, m, x, e, gen) => v = iopub[1].upd[x]
          /\ ~Counts(iopub, 1, m, x, e, gen) => v = v
      BY <2>2
    <3>4. Agrees(t, m, x, e, gen, v, w)
      BY <2>4, <3>1, <3>2, <3>3, AgreesTail
    <3> QED BY <3>1, <3>4
  <2>6. val'[m][x] = v
    BY <1>2, <1>3, <1>5, <1>9, <2>2
  <2> QED BY <1>3, <2>1, <2>3, <2>5, <2>6 DEF Agree
<1>13. AgreeInv'
  BY <1>1, <1>2, <1>3, <1>8, <1>10, <1>12, TakeAgree DEF LastInv
<1> QED BY <1>11, <1>13 DEF LastInv

LEMMA CommCloseLast ==
  ASSUME Core, MessageInv, LastInv, CommClose
  PROVE  LastInv'
<1>1. PICK m : m = Head(iopub).model
  OBVIOUS
<1>2. Event("close")
  BY DEF CommClose
<1>3. CASE Drops
  BY <1>2, <1>3, DropLast
<1>4. CASE ~Drops
  <2>1. DropModel(m) /\ st' = [st EXCEPT ![m] = "none"] /\ val' = [val EXCEPT ![m] = Blank(m)]
    BY <1>1, <1>4 DEF CommClose
  <2>2. shell' = shell /\ sender' = sender
    BY <1>2, EventIdles
  <2>3. /\ waiting' = waiting \ {m} /\ fx' = fx
        /\ expect' = [expect EXCEPT ![m] = [x \in AttrsOf(m) |-> 0]] /\ pending' = [pending EXCEPT ![m] = Nothing]
    BY <2>1 DEF DropModel
  <2>4. DOMAIN st = Models /\ DOMAIN val = Models /\ DOMAIN expect = Models /\ DOMAIN pending = Models
    BY DEF Core, ModelTypes, CallInv, CallTypes, ExpectTypes, HeldTypes
  <2>5. m \in Models
    BY <1>1, <1>2, EventDoes DEF IsEvent
  <2>6. ~Live(m)'
    BY <2>1, <2>4, <2>5 DEF Live
  <2>7. \A k \in Models : k # m =>
          /\ Live(k)' => Live(k)
          /\ pending'[k] = pending[k] /\ (k \in waiting => k \in waiting')
          /\ \A x \in AttrsOf(k) : val'[k][x] = val[k][x] /\ expect'[k][x] = expect[k][x]
    BY <2>1, <2>3, <2>4 DEF Live
  <2>8. LatestInv'
    <3>1. \A k \in Models : Live(k)' => \A x \in AttrsOf(k) : ~OnWay(k, x) \/ (Live(k) /\ expect'[k][x] = expect[k][x])
      BY <2>6, <2>7
    <3> QED BY <2>2, <2>3, <3>1, LatestSame DEF LastInv
  <2>9. AgreeInv'
    BY <1>1, <1>2, <2>2, <2>3, <2>6, <2>7, TakeAgree DEF LastInv
  <2> QED BY <2>8, <2>9 DEF LastInv
<1> QED BY <1>3, <1>4

(* What is expected came back: nothing of it is behind, or on its way.     *)
LEMMA EchoOver ==
  ASSUME Core, MessageInv, Event("echo"), NEW m \in Models, m = Head(iopub).model, Live(m),
         NEW x \in AttrsOf(m), x \in DOMAIN iopub[1].upd, expect[m][x] = iopub[1].n
  PROVE  /\ ~OnWay(m, x)
         /\ \A e, f : \A i \in Nat : Counts(iopub', i, m, x, e, gen) => Counts(iopub', i, m, x, f, gen)
<1>1. EchoAt(iopub, 1, m)
  BY EchoHead
<1>2. /\ \A i \in Nat : 1 < i /\ EchoAt(iopub, i, m) => x \notin DOMAIN iopub[i].upd
      /\ \A i \in Nat : FwdAt(shell, i, m) => x \notin DOMAIN shell[i].upd
      /\ \A g \in Messages : Pends(g) /\ Fwd(g, m) => x \notin DOMAIN g.upd
  BY <1>1, EchoLast
<1>3. ~OnWay(m, x)
  BY <1>2 DEF OnWay, Brings, FwdAt
<1>4. \A i \in Nat : \A k : EchoAt(iopub', i, k) => i + 1 \in Nat /\ 1 < i + 1 /\ EchoAt(iopub, i + 1, k) /\ iopub'[i] = iopub[i + 1]
  BY EchoHead
<1>5. ASSUME NEW i \in Nat, EchoAt(iopub', i, m) PROVE x \notin DOMAIN iopub'[i].upd
  <2>1. i + 1 \in Nat /\ 1 < i + 1 /\ EchoAt(iopub, i + 1, m) /\ iopub'[i] = iopub[i + 1]
    BY <1>4, <1>5
  <2> QED BY <1>2, <2>1
<1>6. ASSUME NEW e, NEW f, NEW i \in Nat, Counts(iopub', i, m, x, e, gen) PROVE Counts(iopub', i, m, x, f, gen)
  <2>1. ~EchoAt(iopub', i, m)
    BY <1>5, <1>6 DEF Counts
  <2> QED BY <1>6, <2>1 DEF Counts, EchoAt
<1> QED BY <1>3, <1>6

(* What an echo changes of what m has, and what is left to expect of it.   *)
LEMMA EchoChanges ==
  ASSUME Core, MessageInv, KernelEcho, NEW m \in Models, m = Head(iopub).model, Live(m), NEW x \in AttrsOf(m)
  PROVE  /\ x \in DOMAIN iopub[1].upd /\ expect[m][x] = iopub[1].n =>
              /\ expect'[m][x] = 0
              /\ x \in DOMAIN pending[m] \/ m \in waiting \/ val'[m][x] = iopub[1].upd[x]
         /\ ~(x \in DOMAIN iopub[1].upd /\ expect[m][x] = iopub[1].n) =>
              expect'[m][x] = expect[m][x] /\ val'[m][x] = val[m][x]
<1>1. PICK e : e = Head(iopub)
  OBVIOUS
<1>2. Event("echo")
  BY DEF KernelEcho
<1>3. e = iopub[1] /\ EchoAt(iopub, 1, m)
  BY <1>1, <1>2, EchoHead
<1>4. PICK applied : applied = {y \in DOMAIN e.upd : EchoApplies(e, y) /\ val[m][y] # e.upd[y]}
  OBVIOUS
<1>5. /\ val' = [val EXCEPT ![m] = [y \in AttrsOf(m) |-> IF y \in applied THEN e.upd[y] ELSE @[y]]]
      /\ expect' = [expect EXCEPT ![m] = [y \in AttrsOf(m) |-> IF y \in DOMAIN e.upd /\ EchoMatches(e, y) THEN 0 ELSE expect[m][y]]]
  BY <1>1, <1>4 DEF KernelEcho
<1>6. DOMAIN val = Models /\ DOMAIN expect = Models
  BY DEF Core, ModelTypes, CallInv, CallTypes, ExpectTypes
<1>7. val'[m][x] = IF x \in applied THEN e.upd[x] ELSE val[m][x]
  BY <1>5, <1>6
<1>8. expect'[m][x] = IF x \in DOMAIN e.upd /\ expect[m][x] = e.n THEN 0 ELSE expect[m][x]
  BY <1>1, <1>5, <1>6 DEF EchoMatches
<1>9. ASSUME x \in DOMAIN e.upd, expect[m][x] = e.n, x \notin DOMAIN pending[m], m \notin waiting PROVE val'[m][x] = e.upd[x]
  <2>1. EchoApplies(e, x)
    BY <1>1, <1>9 DEF EchoApplies, EchoMatches
  <2> QED BY <1>4, <1>7, <1>9, <2>1
<1>10. ASSUME ~(x \in DOMAIN e.upd /\ expect[m][x] = e.n) PROVE val'[m][x] = val[m][x]
  <2>1. CASE x \in DOMAIN e.upd
    <3>1. expect[m][x] # 0
      BY <1>3, <2>1, EchoLast
    <3>2. ~EchoApplies(e, x)
      BY <1>1, <1>10, <2>1, <3>1 DEF EchoApplies, EchoMatches
    <3> QED BY <1>4, <1>7, <3>2
  <2>2. CASE x \notin DOMAIN e.upd
    BY <1>4, <1>7, <2>2
  <2> QED BY <2>1, <2>2
<1> QED BY <1>3, <1>8, <1>9, <1>10

LEMMA KernelEchoLast ==
  ASSUME Core, MessageInv, LastInv, KernelEcho
  PROVE  LastInv'
<1>1. Event("echo")
  BY DEF KernelEcho
<1>2. PICK m : m = Head(iopub).model
  OBVIOUS
<1>3. CASE ~Live(m)
  <2>1. Drops
    BY <1>2, <1>3 DEF KernelEcho
  <2> QED BY <1>1, <1>2, <1>3, <2>1, DropLast
<1>4. ASSUME Live(m) PROVE LastInv'
  <2>1. m \in Models /\ EchoAt(iopub, 1, m) /\ iopub \in Seq(Events)
    BY <1>1, <1>2, EchoHead DEF Core, KernelTypes
  <2>2. /\ st' = st /\ fx' = fx /\ waiting' = waiting /\ pending' = pending
        /\ \A k \in Models : k # m => val'[k] = val[k] /\ expect'[k] = expect[k]
    <3>1. DOMAIN val = Models /\ DOMAIN expect = Models
      BY DEF Core, ModelTypes, CallInv, CallTypes, ExpectTypes
    <3> QED BY <1>2, <1>4, <3>1 DEF KernelEcho, outVars
  <2>3. /\ shell' = shell /\ sender' = sender /\ gen' = gen /\ kgen' = kgen /\ kval' = kval
        /\ iopub # <<>> /\ iopub' = Tail(iopub) /\ iopub[1].gen = gen
    BY <1>1, EventIdles
  <2>4. \A k \in Models : Live(k)' => Live(k)
    BY <2>2 DEF Live
  <2>5. LatestInv'
    <3>1. ASSUME NEW k \in Models, Live(k)', NEW x \in AttrsOf(k) PROVE ~OnWay(k, x) \/ (Live(k) /\ expect'[k][x] = expect[k][x])
      <4>1. CASE k # m
        BY <2>2, <2>4, <3>1, <4>1
      <4>2. CASE k = m /\ x \in DOMAIN iopub[1].upd /\ expect[m][x] = iopub[1].n
        BY <1>1, <1>2, <1>4, <2>1, <3>1, <4>2, EchoOver
      <4>3. CASE k = m /\ ~(x \in DOMAIN iopub[1].upd /\ expect[m][x] = iopub[1].n)
        BY <1>2, <1>4, <2>1, <3>1, <4>3, EchoChanges
      <4> QED BY <4>1, <4>2, <4>3
    <3> QED BY <2>2, <2>3, <3>1, LatestSame DEF LastInv
  <2>6. ASSUME sender, kgen = gen, kval[m] # None, NEW x \in AttrsOf(m), ~Ahead(m, x)' PROVE Agree(m, x)'
    <3>1. ~Ahead(m, x)
      BY <2>2, <2>3, <2>6, WaySame DEF Ahead
    <3>2. CASE x \in DOMAIN iopub[1].upd /\ expect[m][x] = iopub[1].n
      <4>1. expect'[m][x] = 0 /\ val'[m][x] = iopub[1].upd[x]
        BY <1>2, <1>4, <2>1, <3>1, <3>2, EchoChanges DEF Ahead
      <4>2. PICK e : e = expect[m][x]
        OBVIOUS
      <4>3. PICK v : v = val[m][x]
        OBVIOUS
      <4>4. PICK w : w = kval[m][x]
        OBVIOUS
      <4>5. PICK v2 : v2 = iopub[1].upd[x]
        OBVIOUS
      <4>6. PICK t : t = iopub' /\ t = Tail(iopub)
        BY <2>3
      <4>7. Agrees(iopub, m, x, e, gen, v, w)
        BY <1>4, <2>1, <2>6, <3>1, <4>2, <4>3, <4>4 DEF LastInv, AgreeInv, Known, Agree
      <4>8. Counts(iopub, 1, m, x, e, gen)
        BY <2>1, <2>3, <3>2, <4>2 DEF Counts, EchoAt
      <4>9. Agrees(t, m, x, e, gen, v2, w)
        <5>1. iopub # <<>> /\ iopub \in Seq(Events) /\ t = Tail(iopub)
          BY <2>1, <2>3, <4>6
        <5>2. /\ Counts(iopub, 1, m, x, e, gen) => v2 = iopub[1].upd[x]
              /\ ~Counts(iopub, 1, m, x, e, gen) => v2 = v
          BY <4>5, <4>8
        <5> QED BY <4>7, <5>1, <5>2, AgreesTail
      <4>10. \A a, b : \A i \in Nat : Counts(t, i, m, x, a, gen) => Counts(t, i, m, x, b, gen)
        <5>1. \A a, b : \A i \in Nat : Counts(iopub', i, m, x, a, gen) => Counts(iopub', i, m, x, b, gen)
          BY <1>1, <1>2, <1>4, <2>1, <3>2, EchoOver
        <5> QED BY <4>6, <5>1
      <4>12. PICK f : f = 0
        OBVIOUS
      <4>13. \A i \in Nat : Counts(t, i, m, x, e, gen) <=> Counts(t, i, m, x, f, gen)
        BY <4>10
      <4>11. Agrees(t, m, x, f, gen, v2, w)
        BY <4>9, <4>13, AgreesExpect
      <4> QED BY <4>12,  <2>3, <4>1, <4>4, <4>5, <4>6, <4>11 DEF Agree
    <3>3. CASE ~(x \in DOMAIN iopub[1].upd /\ expect[m][x] = iopub[1].n)
      <4>1. expect'[m][x] = expect[m][x] /\ val'[m][x] = val[m][x]
        BY <1>2, <1>4, <2>1, <3>3, EchoChanges
      <4>2. ~Counts(iopub, 1, m, x, expect[m][x], gen)
        BY <2>1, <3>3 DEF Counts, EchoAt
      <4> QED BY <1>4, <2>1, <2>3, <2>6, <3>1, <4>1, <4>2, StayOne DEF LastInv
    <3> QED BY <3>2, <3>3
  <2>7. \A x \in AttrsOf(m) : sender /\ kgen = gen /\ kval[m] # None => Ahead(m, x)' \/ Agree(m, x)'
    BY <2>6
  <2>8. AgreeInv'
    BY <1>1, <1>2, <2>2, <2>3, <2>4, <2>7, TakeAgree DEF LastInv
  <2> QED BY <2>5, <2>8 DEF LastInv
<1> QED BY <1>3, <1>4
-----------------------------------------------------------------------------
(* What widgets captured is ahead of the kernel until it is sent.          *)
LEMMA CapturedPosts ==
  ASSUME Core, MessageInv, NEW kind, Event(kind), NEW S \in SUBSET Outs, Captured(S)
  PROVE  Posts({})
<1>1. expect' = expect /\ next' = next
  BY DEF Captured, updVars, idVars
<1>2. FxTypes /\ Single
  BY DEF Core, CallInv, CallTypes, MessageInv, WireInv
<1>3. PICK arm \in SUBSET Outs : fx' = [fx EXCEPT !["pump"] = IF arm = {} THEN <<>> ELSE <<FlushLater(arm)>>]
  BY DEF Captured
<1>4. PICK k : k = IF arm = {} THEN <<>> ELSE <<FlushLater(arm)>>
  OBVIOUS
<1>5. FlushLater(arm) \in Effects
  BY EffectTypes
<1>6. k \in Seq(Effects)
  BY <1>4, <1>5, EmptySeq
<1>7. Ships(k, {})
  BY <1>4, ShipsNone
<1>8. fx["pump"] = <<>>
  BY EventDoes
<1>9. Cat(<<>>, k) = k
  BY <1>6, ConcatEmptySeq DEF Cat
<1>10. fx' = [fx EXCEPT !["pump"] = Cat(@, k)]
  BY <1>2, <1>3, <1>4, <1>8, <1>9 DEF FxTypes
<1> QED BY <1>1, <1>2, <1>6, <1>7, <1>10, QuietPosts DEF Actors

LEMMA CapturedLast ==
  ASSUME Core, MessageInv, LastInv, NEW kind, Event(kind), kind \notin {"open", "update", "echo"},
         NEW S \in SUBSET Outs, Captured(S), \A m \in Models : m \in S \/ val'[m] = val[m]
  PROVE  LastInv'
<1>1. gen' = gen /\ shell' = shell /\ kgen' = kgen /\ kval' = kval /\ sender' = sender /\ Idles
  BY EventIdles
<1>2. st' = st /\ waiting' = waiting \cup S /\ pending' = pending /\ expect' = expect
  BY DEF Captured, updVars
<1>3. Posts({})
  BY CapturedPosts
<1>4. LatestInv'
  BY <1>1, <1>2, <1>3, CallLatest DEF LastInv, Live
<1>5. ASSUME NEW m \in Models, NEW x \in AttrsOf(m), ~Ahead(m, x)'
      PROVE  ~Ahead(m, x) /\ val'[m][x] = val[m][x] /\ expect'[m][x] = expect[m][x]
  <2>1. m \notin waiting /\ m \notin S /\ x \notin DOMAIN pending[m] /\ ~OnWay(m, x)'
    BY <1>2, <1>5 DEF Ahead
  <2>2. ~OnWay(m, x)
    BY <1>1, <1>3, <2>1, WayStays DEF Posts, Makes
  <2> QED BY <1>2, <2>1, <2>2 DEF Ahead
<1>6. AgreeInv'
  BY <1>1, <1>2, <1>5, StayAgree DEF LastInv
<1> QED BY <1>4, <1>6 DEF LastInv

LEMMA RoutesLast ==
  ASSUME Core, MessageInv, LastInv, RouteOutput \/ RouteClear \/ UpdateDisplay
  PROVE  LastInv'
<1>1. CASE RouteOutput
  <2>1. PICK S \in SUBSET Outs : S = Captor(Head(iopub).parent)
    BY CaptorLive
  <2>2. Event("stream") /\ Captured(S) /\ \A m \in Models : m \in S \/ val'[m] = val[m]
    BY <1>1, <2>1 DEF RouteOutput
  <2> QED BY <2>2, CapturedLast
<1>2. CASE RouteClear
  <2>1. PICK S \in SUBSET Outs : S = Captor(Head(iopub).parent)
    BY CaptorLive
  <2>2. Event("clear") /\ Captured(S) /\ \A m \in Models : m \in S \/ val'[m] = val[m]
    BY <1>2, <2>1 DEF RouteClear
  <2> QED BY <2>2, CapturedLast
<1>3. CASE UpdateDisplay
  <2>1. PICK S \in SUBSET Outs : S = {o \in Outs : Live(o) /\ Head(iopub).n \in val[o]["outputs"]}
    OBVIOUS
  <2>2. Event("display") /\ Captured(S) /\ \A m \in Models : m \in S \/ val'[m] = val[m]
    BY <1>3, <2>1 DEF UpdateDisplay
  <2> QED BY <2>2, CapturedLast
<1> QED BY <1>1, <1>2, <1>3
-----------------------------------------------------------------------------
(* The steps that move no message, and the calls.                          *)
LEMMA QuietEventsLast ==
  ASSUME Core, MessageInv, LastInv, StaleEvent \/ LinkOpen \/ LinkClose
  PROVE  LastInv'
<1>1. CASE StaleEvent
  <2>1. UNCHANGED <<gen, st, val, updVars, next, waiting, flight, fx, shell, kgen, kval, sender>>
    BY <1>1 DEF StaleEvent, Drops, modelVars, idVars, outVars
  <2>2. Idles
    BY <1>1 DEF StaleEvent, Idles, Current
  <2> QED BY <2>1, <2>2, SameLast
<1>2. CASE LinkOpen \/ LinkClose
  <2>1. UNCHANGED <<st, val, updVars, next, waiting, flight, fx>>
    BY <1>2 DEF LinkOpen, LinkClose, modelVars, idVars, outVars
  <2>2. Event("link") \/ Event("unlink")
    BY <1>2 DEF LinkOpen, LinkClose
  <2>3. gen' = gen /\ shell' = shell /\ kgen' = kgen /\ kval' = kval /\ sender' = sender /\ Idles
    BY <2>2, EventIdles
  <2> QED BY <2>1, <2>3, SameLast
<1> QED BY <1>1, <1>2

LEMMA PumpLast ==
  ASSUME Core, Core', MessageInv, LastInv, Pump
  PROVE  LastInv'
<1>1. CASE CaptureUpdate
  <2>1. Calls /\ st' = st
    BY <1>1, CaptureUpdateCalls
  <2>2. Event("capture")
    BY <1>1 DEF CaptureUpdate
  <2>3. gen' = gen /\ shell' = shell /\ kgen' = kgen /\ kval' = kval /\ sender' = sender /\ Idles
    BY <2>2, EventIdles
  <2> QED BY <2>1, <2>3, CallsLast
<1>2. CASE Idle
  <2>1. Calls /\ st' = st
    BY <1>2, IdleCalls
  <2>2. Event("idle")
    BY <1>2 DEF Idle
  <2>3. gen' = gen /\ shell' = shell /\ kgen' = kgen /\ kval' = kval /\ sender' = sender /\ Idles
    BY <2>2, EventIdles
  <2> QED BY <2>1, <2>3, CallsLast
<1> QED BY <1>1, <1>2, CommOpenLast, CommCloseLast, QuietEventsLast, KernelUpdateLast, KernelEchoLast, RoutesLast DEF Pump

LEMMA StoreLast ==
  ASSUME NoOutEnds, Core, Core', MessageInv, LastInv, Store
  PROVE  LastInv'
<1>1. LockKeeps
  BY DEF Store, ApplyLink, Propagate
<1>2. gen' = gen /\ st' = st /\ shell' = shell /\ kgen' = kgen /\ kval' = kval /\ sender' = sender /\ Idles
  BY <1>1 DEF LockKeeps, kernelVars, Idles
<1>3. Calls
  BY ApplyLinkCalls, PropagateCalls DEF Store
<1> QED BY <1>2, <1>3, CallsLast

LEMMA FrontendLast ==
  ASSUME Core, Core', MessageInv, LastInv, Frontend
  PROVE  LastInv'
<1>1. UNCHANGED <<gen, st, shell, kgen, kval, sender, iopub>>
  BY DEF Frontend, FrontendUpdate, FrontendCustom, Execute, kernelVars
<1>2. Idles
  BY <1>1 DEF Idles
<1>3. Calls
  BY FrontendUpdateCalls, FrontendCustomCalls, ExecuteCalls DEF Frontend
<1> QED BY <1>1, <1>2, <1>3, CallsLast

LEMMA TimeLast ==
  ASSUME Core, Core', MessageInv, LastInv, Time
  PROVE  LastInv'
<1>1. UNCHANGED <<gen, st, shell, kgen, kval, sender, iopub>>
  BY DEF Time, Age, CheckFires, TimerFires, CadenceEnds, modelVars, kernelVars
<1>2. Idles
  BY <1>1 DEF Idles
<1>3. CASE \E m \in Models : \E n \in 1..next[m] : CheckFires(m, n)
  BY <1>1, <1>2, <1>3, CheckFiresCalls, CallsLast
<1>4. CASE \E o \in Outs : TimerFires(o)
  BY <1>1, <1>2, <1>4, TimerFiresCalls, CallsLast
<1>5. CASE (\E m \in Models : Age(m)) \/ \E o \in Outs : CadenceEnds(o)
  <2>1. UNCHANGED <<val, updVars, next, waiting, flight, fx>>
    BY <1>5 DEF Age, CadenceEnds, modelVars, idVars, outVars
  <2> QED BY <1>1, <1>2, <2>1, SameLast
<1> QED BY <1>3, <1>4, <1>5 DEF Time

LEMMA SessionLast ==
  ASSUME Core, OpenInv, MessageInv, LastInv, Session
  PROVE  LastInv'
<1>1. CASE Unsend
  <2>1. ~sender'
    BY <1>1 DEF Unsend
  <2> QED BY <2>1 DEF LastInv, LatestInv, AgreeInv
<1>2. CASE \E keep \in SUBSET Models : Reset(keep)
  <2>1. ~sender'
    BY <1>2 DEF Reset
  <2> QED BY <2>1 DEF LastInv, LatestInv, AgreeInv
<1>3. CASE Start
  <2>1. gen # kgen /\ st' = st /\ kval' = [m \in Models |-> None]
    BY <1>3 DEF Start, KeepsStore, modelVars
  <2>2. \A m \in Models : ~Live(m)'
    BY <2>1 DEF OpenInv, Live
  <2>3. LatestInv'
    BY <2>2 DEF LatestInv
  <2>4. AgreeInv'
    BY <2>1 DEF AgreeInv
  <2> QED BY <2>3, <2>4 DEF LastInv
<1> QED BY <1>1, <1>2, <1>3 DEF Session
-----------------------------------------------------------------------------
(* What the kernel says, and what it has then.                             *)
LEMMA KnownBefore ==
  ASSUME Core, NEW k \in Seq(Events), iopub' = Cat(iopub, k), st' = st, gen' = gen, NEW m, Known(m)',
         \A j \in 1..Len(k) : ~(k[j].kind = "open" /\ k[j].model = m)
  PROVE  Known(m)
<1>1. CASE Live(m)'
  BY <1>1 DEF Known, Live
<1>2. CASE \E i \in 1..Len(iopub') : Opens(m, i)'
  <2>1. PICK i \in 1..Len(iopub') : Opens(m, i)'
    BY <1>2
  <2>2. PICK c : c = Cat(iopub, k)
    OBVIOUS
  <2>3. c[i].kind = "open" /\ c[i].model = m /\ c[i].gen = gen /\ i \in 1..Len(c)
    BY <2>1, <2>2 DEF Opens, EventAt
  <2>4. iopub \in Seq(Events)
    BY DEF Core, KernelTypes
  <2>5. \/ i \in 1..Len(iopub) /\ c[i] = iopub[i]
        \/ \E j \in 1..Len(k) : c[i] = k[j]
    BY <2>2, <2>3, <2>4, CatParts
  <2>6. i \in 1..Len(iopub) /\ c[i] = iopub[i]
    BY <2>3, <2>5
  <2> QED BY <2>3, <2>6 DEF Known, Opens, EventAt
<1> QED BY <1>1, <1>2 DEF Known

(* Each model it has is as before, or the last that was said brings it.    *)
Brought(k, m, x) ==
  \/ Ahead(m, x)'
  \/ \E i \in Nat : LastAt(k, i, m, x, expect[m][x], gen) /\ k[i].upd[x] = kval'[m][x]
  \/ /\ Settled(k, m, x, expect[m][x], gen) /\ ~Ahead(m, x) /\ Known(m)
     /\ kval[m] # None /\ kval'[m][x] = kval[m][x]
LEMMA SaidAgree ==
  ASSUME Core, AgreeInv, NEW k \in Seq(Events), iopub' = Cat(iopub, k),
         kgen = gen, kgen' = kgen, gen' = gen, sender' = sender, val' = val, expect' = expect,
         sender => \A m \in Models : Known(m)' /\ kval'[m] # None => \A x \in AttrsOf(m) : Brought(k, m, x)
  PROVE  AgreeInv'
<1>1. ASSUME sender, NEW m \in Models, Known(m)', kval'[m] # None, NEW x \in AttrsOf(m), ~Ahead(m, x)'
      PROVE  Agree(m, x)'
  <2>1. PICK e : e = expect[m][x]
    OBVIOUS
  <2>2. PICK v : v = val[m][x]
    OBVIOUS
  <2>3. PICK w : w = kval'[m][x]
    OBVIOUS
  <2>4. PICK t : t = iopub' /\ t = Cat(iopub, k)
    OBVIOUS
  <2>5. iopub \in Seq(Events)
    BY DEF Core, KernelTypes
  <2>6. Brought(k, m, x)
    BY <1>1
  <2>7. Agrees(t, m, x, e, gen, v, w)
    <3>1. CASE \E i \in Nat : LastAt(k, i, m, x, e, gen) /\ k[i].upd[x] = w
      BY <2>4, <2>5, <3>1, AgreesNew
    <3>2. CASE Settled(k, m, x, e, gen) /\ ~Ahead(m, x) /\ Known(m) /\ kval[m] # None /\ w = kval[m][x]
      <4>1. Agrees(iopub, m, x, e, gen, v, w)
        BY <1>1, <2>1, <2>2, <3>2 DEF AgreeInv, Agree
      <4> QED BY <2>4, <2>5, <3>2, <4>1, AgreesCat
    <3> QED BY <1>1, <2>1, <2>3, <2>6, <3>1, <3>2 DEF Brought
  <2> QED BY <2>1, <2>2, <2>3, <2>4, <2>7 DEF Agree
<1>2. ASSUME sender', NEW m \in Models, Known(m)', kval'[m] # None, NEW x \in AttrsOf(m) PROVE Ahead(m, x)' \/ Agree(m, x)'
  BY <1>1, <1>2
<1> QED BY <1>2 DEF AgreeInv

(* It says one thing.                                                      *)
LEMMA SaidOne ==
  ASSUME Core, Core', NEW e, iopub' = Append(iopub, e)
  PROVE  /\ <<e>> \in Seq(Events) /\ iopub' = Cat(iopub, <<e>>)
         /\ \A j \in 1..Len(<<e>>) : <<e>>[j] = e
         /\ \A i : \A m, x, n, g : Counts(<<e>>, i, m, x, n, g) =>
              /\ i = 1 /\ e.model = m /\ e.gen = g /\ x \in DOMAIN e.upd
              /\ e.kind \in {"open", "update"} \/ (e.kind = "echo" /\ e.n = n)
         /\ \A m, x, n, g : e.model = m /\ e.gen = g /\ x \in DOMAIN e.upd /\ e.kind \in {"open", "update"} =>
              LastAt(<<e>>, 1, m, x, n, g) /\ 1 \in Nat
<1>1. iopub \in Seq(Events) /\ iopub' \in Seq(Events)
  BY DEF Core, KernelTypes
<1>2. Len(iopub') = Len(iopub) + 1 /\ iopub'[Len(iopub) + 1] = e /\ Len(iopub) + 1 \in 1..Len(iopub')
  <2>1. Len(iopub) \in Nat /\ Len(iopub') = Len(iopub) + 1 /\ iopub'[Len(iopub) + 1] = e
    BY <1>1, LenProperties
  <2> QED BY <2>1
<1>3. e \in Events
  BY <1>1, <1>2, ElementOfSeq
<1>4. PICK k : k = <<e>>
  OBVIOUS
<1>5. k \in Seq(Events) /\ Len(k) = 1 /\ k[1] = e
  BY <1>3, <1>4
<1>6. iopub' = Cat(iopub, k)
  BY <1>1, <1>3, <1>4, AppendIsConcat DEF Cat
<1>7. \A j \in 1..Len(k) : j = 1
  BY <1>5
<1>8. ASSUME NEW i, NEW m, NEW x, NEW n, NEW g, Counts(k, i, m, x, n, g)
      PROVE  /\ i = 1 /\ e.model = m /\ e.gen = g /\ x \in DOMAIN e.upd
             /\ e.kind \in {"open", "update"} \/ (e.kind = "echo" /\ e.n = n)
  BY <1>5, <1>7, <1>8 DEF Counts
<1>9. ASSUME NEW m, NEW x, NEW n, NEW g, e.model = m, e.gen = g, x \in DOMAIN e.upd, e.kind \in {"open", "update"}
      PROVE  LastAt(k, 1, m, x, n, g) /\ 1 \in Nat
  <2>1. 1 \in 1..Len(k)
    BY <1>5
  <2>2. Counts(k, 1, m, x, n, g)
    BY <1>5, <1>9, <2>1 DEF Counts
  <2>3. \A j \in Nat : Counts(k, j, m, x, n, g) => j <= 1
    BY <1>8
  <2> QED BY <2>2, <2>3 DEF LastAt
<1> QED BY <1>4, <1>5, <1>6, <1>7, <1>8, <1>9

LEMMA SaidLatest ==
  ASSUME LatestInv, KernelRuns
  PROVE  /\ LatestInv' /\ st' = st /\ val' = val /\ expect' = expect /\ gen' = gen /\ kgen' = kgen /\ kgen = gen
         /\ sender' = sender /\ \A m, x : ~Ahead(m, x)' => ~Ahead(m, x)
<1>1. UNCHANGED <<gen, st, val, expect, pending, waiting, fx, shell, sender, kgen>> /\ kgen = gen
  BY DEF KernelRuns, KeepsStore, modelVars, updVars, outVars
<1>2. LatestInv'
  BY <1>1, LatestSame DEF Live
<1>3. \A m, x : ~Ahead(m, x)' => ~Ahead(m, x)
  BY <1>1, WaySame DEF Ahead
<1> QED BY <1>1, <1>2, <1>3

LEMMA SaysLast ==
  ASSUME Core, Core', LastInv, KernelRuns, NEW e, iopub' = Append(iopub, e), e.kind \notin {"open", "update", "echo"},
         \A m \in Models : kval'[m] = kval[m] \/ kval'[m] = None
  PROVE  LastInv'
<1>1. LatestInv'
  BY SaidLatest DEF LastInv
<1>2. /\ st' = st /\ val' = val /\ expect' = expect /\ gen' = gen /\ kgen' = kgen /\ kgen = gen
      /\ sender' = sender /\ \A m, x : ~Ahead(m, x)' => ~Ahead(m, x)
  BY SaidLatest DEF LastInv
<1>3. PICK k \in Seq(Events) : /\ iopub' = Cat(iopub, k) /\ \A j \in 1..Len(k) : k[j].kind # "open"
                               /\ \A m, x, n, g : Settled(k, m, x, n, g)
  <2>1. /\ <<e>> \in Seq(Events) /\ iopub' = Cat(iopub, <<e>>) /\ \A j \in 1..Len(<<e>>) : <<e>>[j].kind # "open"
    BY SaidOne
  <2>2. \A m, x, n, g : Settled(<<e>>, m, x, n, g)
    BY SaidOne DEF Settled
  <2> QED BY <2>1, <2>2
<1>4. ASSUME NEW m \in Models, Known(m)', kval'[m] # None, NEW x \in AttrsOf(m) PROVE Brought(k, m, x)
  <2>1. Known(m)
    BY <1>2, <1>3, <1>4, KnownBefore
  <2>2. kval'[m] = kval[m]
    BY <1>4
  <2> QED BY <1>2, <1>3, <1>4, <2>1, <2>2 DEF Brought
<1>5. AgreeInv'
  BY <1>2, <1>3, <1>4, SaidAgree DEF LastInv
<1> QED BY <1>1, <1>5 DEF LastInv

(* It says what it sets.                                                   *)
LEMMA SetsLast ==
  ASSUME Core, Core', LastInv, KernelRuns, NEW e, iopub' = Append(iopub, e), e.kind = "update" \/ e.kind = "open",
         e.gen = gen, e.model \in Models, e.kind = "open" => DOMAIN e.upd = AttrsOf(e.model),
         \A x \in DOMAIN e.upd : kval'[e.model][x] = e.upd[x],
         e.kind = "update" => kval[e.model] # None /\ \A x \in AttrsOf(e.model) : x \in DOMAIN e.upd \/ kval'[e.model][x] = kval[e.model][x],
         \A m \in Models : m = e.model \/ kval'[m] = kval[m]
  PROVE  LastInv'
<1>1. LatestInv'
  BY SaidLatest DEF LastInv
<1>2. /\ st' = st /\ val' = val /\ expect' = expect /\ gen' = gen /\ kgen' = kgen /\ kgen = gen
      /\ sender' = sender /\ \A m, x : ~Ahead(m, x)' => ~Ahead(m, x)
  BY SaidLatest DEF LastInv
<1>3. PICK k \in Seq(Events) :
        /\ iopub' = Cat(iopub, k) /\ \A j \in 1..Len(k) : k[j] = e
        /\ \A m, x, n, g : ~(e.model = m /\ x \in DOMAIN e.upd) => Settled(k, m, x, n, g)
        /\ \A x, n : x \in DOMAIN e.upd => LastAt(k, 1, e.model, x, n, gen) /\ 1 \in Nat
        /\ k[1] = e
  <2>1. /\ <<e>> \in Seq(Events) /\ iopub' = Cat(iopub, <<e>>) /\ \A j \in 1..Len(<<e>>) : <<e>>[j] = e
    BY SaidOne
  <2>2. \A m, x, n, g : ~(e.model = m /\ x \in DOMAIN e.upd) => Settled(<<e>>, m, x, n, g)
    BY SaidOne DEF Settled
  <2>3. \A x, n : x \in DOMAIN e.upd => LastAt(<<e>>, 1, e.model, x, n, gen) /\ 1 \in Nat
    BY SaidOne
  <2>4. <<e>>[1] = e
    OBVIOUS
  <2> QED BY <2>1, <2>2, <2>3, <2>4
<1>4. ASSUME NEW m \in Models, Known(m)', kval'[m] # None, NEW x \in AttrsOf(m) PROVE Brought(k, m, x)
  <2>1. CASE e.model = m /\ x \in DOMAIN e.upd
    <3>1. LastAt(k, 1, m, x, expect[m][x], gen) /\ 1 \in Nat /\ k[1].upd[x] = kval'[m][x]
      BY <1>3, <2>1
    <3> QED BY <3>1 DEF Brought
  <2>2. CASE ~(e.model = m /\ x \in DOMAIN e.upd)
    <3>1. kval[m] # None /\ kval'[m][x] = kval[m][x] /\ ~(e.kind = "open" /\ e.model = m)
      BY <1>4, <2>2
    <3>2. Known(m)
      BY <1>2, <1>3, <1>4, <3>1, KnownBefore
    <3>3. Settled(k, m, x, expect[m][x], gen)
      BY <1>3, <2>2
    <3> QED BY <1>2, <3>1, <3>2, <3>3 DEF Brought
  <2> QED BY <2>1, <2>2
<1>5. AgreeInv'
  BY <1>2, <1>3, <1>4, SaidAgree DEF LastInv
<1> QED BY <1>1, <1>5 DEF LastInv
-----------------------------------------------------------------------------
(* The kernel handles a message: of its answers the last one that brings an *)
(* attribute brings what the kernel has then.                               *)
LEMMA ReplyCounts ==
  ASSUME NEW fix, NEW s, NEW k \in Seq(Answers), Replies(fix, s, k), kgen = gen
  PROVE  /\ \A m, x, n : m # s.model \/ x \notin DOMAIN Applied(s) => Settled(k, m, x, n, gen)
         /\ \A x, n : x \in DOMAIN Fixes(fix, s) =>
              LastAt(k, 2, s.model, x, n, gen) /\ k[2].upd = Fixes(fix, s) /\ 2 \in Nat
         /\ \A x : x \in DOMAIN Applied(s) /\ x \notin DOMAIN Fixes(fix, s) =>
              LastAt(k, 1, s.model, x, s.n, gen) /\ k[1].upd = Applied(s) /\ 1 \in Nat
         /\ \A j \in 1..Len(k) : k[j].kind # "open"
<1>1. PICK upd : upd = Applied(s)
  OBVIOUS
<1>2. PICK fixed : fixed = Fixes(fix, s)
  OBVIOUS
<1>3. DOMAIN fixed \subseteq DOMAIN upd
  BY <1>1, <1>2 DEF Fixes
<1>4. DOMAIN Nothing = {}
  BY DEF Nothing
<1>5. \A j \in 1..Len(k) :
       \/ j = 1 /\ k[j].kind = "echo" /\ k[j].model = s.model /\ k[j].n = s.n /\ k[j].upd = upd
       \/ j = 2 /\ k[j].kind = "update" /\ k[j].model = s.model /\ k[j].upd = fixed
       \/ k[j].kind = "idle"
  BY <1>1, <1>2 DEF Replies
<1>6. \A j \in 1..Len(k) : k[j].gen = gen
  BY ElementOfSeq DEF Answers
<1>7. ASSUME NEW m, NEW x, NEW n, NEW j, Counts(k, j, m, x, n, gen)
      PROVE  /\ m = s.model /\ x \in DOMAIN upd
             /\ j = 1 \/ (j = 2 /\ x \in DOMAIN fixed)
  <2>1. j \in 1..Len(k) /\ k[j].kind \in {"open", "update", "echo"} /\ k[j].model = m /\ x \in DOMAIN k[j].upd
    BY <1>7 DEF Counts
  <2> QED BY <1>3, <1>5, <2>1
<1>8. \A m, x, n : m # s.model \/ x \notin DOMAIN upd => Settled(k, m, x, n, gen)
  BY <1>7 DEF Settled
<1>9. ASSUME NEW x, NEW n, x \in DOMAIN fixed
      PROVE  LastAt(k, 2, s.model, x, n, gen) /\ k[2].upd = fixed
  <2>1. fixed # Nothing
    BY <1>4, <1>9
  <2>2. 2 \in 1..Len(k) /\ k[2].kind = "update"
    BY <1>2, <2>1 DEF Replies
  <2>3. k[2].model = s.model /\ k[2].upd = fixed /\ k[2].gen = gen
    BY <1>5, <1>6, <2>2
  <2>4. Counts(k, 2, s.model, x, n, gen)
    BY <1>9, <2>2, <2>3 DEF Counts
  <2>5. \A j \in Nat : Counts(k, j, s.model, x, n, gen) => j <= 2
    BY <1>7
  <2> QED BY <2>3, <2>4, <2>5 DEF LastAt
<1>10. ASSUME NEW x, x \in DOMAIN upd, x \notin DOMAIN fixed
       PROVE  LastAt(k, 1, s.model, x, s.n, gen) /\ k[1].upd = upd
  <2>1. upd # Nothing
    BY <1>4, <1>10
  <2>2. 1 \in 1..Len(k) /\ k[1].kind = "echo"
    BY <1>1, <2>1 DEF Replies
  <2>3. k[1].model = s.model /\ k[1].n = s.n /\ k[1].upd = upd /\ k[1].gen = gen
    BY <1>5, <1>6, <2>2
  <2>4. Counts(k, 1, s.model, x, s.n, gen)
    BY <1>10, <2>2, <2>3 DEF Counts
  <2>5. \A j \in Nat : Counts(k, j, s.model, x, s.n, gen) => j <= 1
    BY <1>7, <1>10
  <2> QED BY <2>3, <2>4, <2>5 DEF LastAt
<1>11. \A j \in 1..Len(k) : k[j].kind # "open"
  BY <1>5
<1> QED BY <1>1, <1>2, <1>8, <1>9, <1>10, <1>11

(* A message with the number that is expected is the last with a change.   *)
LEMMA HeadLast ==
  ASSUME Core, MessageInv, NEW m \in Models, Live(m), NEW x \in AttrsOf(m), 1 \in 1..Len(shell),
         Brings(shell[1], m, x), shell[1].n = expect[m][x]
  PROVE  /\ \A g \in Messages : ~(Pends(g) /\ Brings(g, m, x))
         /\ \A i \in 1..Len(shell) : Brings(shell[i], m, x) => i = 1
<1>1. shell \in Seq(Messages) /\ OrderInv /\ ExpectInv
  BY DEF Core, KernelTypes, MessageInv, WireInv
<1>2. FwdAt(shell, 1, m)
  BY DEF FwdAt, Brings
<1>3. PICK e : e = expect[m][x]
  OBVIOUS
<1>4. /\ InLine(iopub, shell, m) /\ Within(iopub, shell, m, x, e)
      /\ \A g \in Messages : Pends(g) /\ Fwd(g, m) => Above(iopub, shell, m, g.n)
      /\ \A g \in Messages : Pends(g) /\ Fwd(g, m) /\ x \in DOMAIN g.upd => g.n <= e
  BY <1>1, <1>3 DEF OrderInv, ExpectInv
<1>5. shell[1] \in Messages /\ Len(shell) \in Nat
  BY <1>1, ElementOfSeq, LenProperties
<1>6. shell[1].n \in Nat /\ e \in Nat
  BY <1>3, <1>5, MessageIs
<1>7. ASSUME NEW g \in Messages, Pends(g), Brings(g, m, x) PROVE FALSE
  <2>1. Fwd(g, m) /\ x \in DOMAIN g.upd
    BY <1>7 DEF Brings
  <2>2. g.n <= e /\ g.n \in Nat
    BY <1>4, <1>7, <2>1, MessageIs
  <2>3. Above(iopub, shell, m, g.n)
    BY <1>4, <1>7, <2>1
  <2>4. shell[1].n < g.n
    BY <1>2, <2>3 DEF Above
  <2> QED BY <1>3, <1>6, <2>2, <2>4
<1>8. ASSUME NEW i \in 1..Len(shell), Brings(shell[i], m, x), i # 1 PROVE FALSE
  <2>1. i \in Nat /\ 1 < i
    BY <1>5, <1>8
  <2>2. FwdAt(shell, i, m) /\ x \in DOMAIN shell[i].upd
    BY <1>8 DEF FwdAt, Brings
  <2>3. shell[i].n <= e
    BY <1>4, <2>1, <2>2 DEF Within
  <2>4. shell[1].n < shell[i].n
    BY <1>2, <1>4, <2>1, <2>2 DEF InLine
  <2>5. shell[i] \in Messages
    BY <1>1, ElementOfSeq
  <2>6. shell[i].n \in Nat
    BY <2>5, MessageIs
  <2> QED BY <1>3, <1>6, <2>3, <2>4, <2>6
<1> QED BY <1>7, <1>8

LEMMA WayHeads ==
  ASSUME Core, shell # <<>>, shell' = Tail(shell), fx' = fx, NEW m, NEW x
  PROVE  /\ shell[1] = Head(shell) /\ 1 \in 1..Len(shell)
         /\ OnWay(m, x)' => OnWay(m, x)
         /\ OnWay(m, x) => OnWay(m, x)' \/ Brings(shell[1], m, x)
         /\ \A e : OnWayAs(m, x, e) => OnWayAs(m, x, e)' \/ (Brings(shell[1], m, x) /\ shell[1].n = e)
         /\ OnWay(m, x)' => (\E g \in Messages : Pends(g) /\ Brings(g, m, x)) \/ \E i \in 1..Len(shell) : i # 1 /\ Brings(shell[i], m, x)
<1>1. shell \in Seq(Messages)
  BY DEF Core, KernelTypes
<1>2. /\ Len(shell') = Len(shell) - 1 /\ Len(shell) \in Nat /\ Len(shell) > 0
      /\ shell[1] = Head(shell) /\ \A i \in 1..Len(shell') : shell'[i] = shell[i + 1]
  BY <1>1, HeadTailProperties, LenProperties
<1>3. 1 \in 1..Len(shell)
  BY <1>2
<1>4. \A i \in 1..Len(shell') : i + 1 \in 1..Len(shell) /\ i + 1 # 1 /\ shell'[i] = shell[i + 1]
  BY <1>2
<1>5. ASSUME NEW i \in 1..Len(shell), i # 1 PROVE i - 1 \in 1..Len(shell') /\ shell'[i - 1] = shell[i]
  <2>1. PICK j : j = i - 1
    OBVIOUS
  <2>2. j \in 1..Len(shell') /\ j + 1 = i
    BY <1>2, <1>5, <2>1
  <2> QED BY <1>2, <2>1, <2>2
<1>6. \A g \in Messages : (Pends(g)' => Pends(g)) /\ (Pends(g) => Pends(g)')
  BY DEF Pends, At
<1>7. OnWay(m, x)' => (\E g \in Messages : Pends(g) /\ Brings(g, m, x)) \/ \E i \in 1..Len(shell) : i # 1 /\ Brings(shell[i], m, x)
  <2>1. ASSUME NEW i \in 1..Len(shell'), Brings(shell'[i], m, x)
        PROVE  \E j \in 1..Len(shell) : j # 1 /\ Brings(shell[j], m, x)
    BY <1>4, <2>1
  <2>2. OnWay(m, x)' => (\E g \in Messages : Pends(g)' /\ Brings(g, m, x)) \/ \E i \in 1..Len(shell') : Brings(shell'[i], m, x)
    BY DEF OnWay
  <2> QED BY <1>6, <2>1, <2>2
<1>8. OnWay(m, x) => OnWay(m, x)' \/ Brings(shell[1], m, x)
  <2>1. ASSUME NEW i \in 1..Len(shell), Brings(shell[i], m, x), i # 1 PROVE OnWay(m, x)'
    BY <1>5, <2>1 DEF OnWay
  <2>2. ASSUME NEW g \in Messages, Pends(g), Brings(g, m, x) PROVE OnWay(m, x)'
    BY <1>6, <2>2 DEF OnWay
  <2> QED BY <2>1, <2>2 DEF OnWay
<1>9. ASSUME NEW e, OnWayAs(m, x, e), ~(Brings(shell[1], m, x) /\ shell[1].n = e) PROVE OnWayAs(m, x, e)'
  <2>1. ASSUME NEW i \in 1..Len(shell), Brings(shell[i], m, x), shell[i].n = e PROVE OnWayAs(m, x, e)'
    <3>1. i # 1
      BY <1>9, <2>1
    <3> QED BY <1>5, <2>1, <3>1 DEF OnWayAs
  <2>2. ASSUME NEW g \in Messages, Pends(g), Brings(g, m, x), g.n = e PROVE OnWayAs(m, x, e)'
    BY <1>6, <2>2 DEF OnWayAs
  <2> QED BY <1>9, <2>1, <2>2 DEF OnWayAs
<1> QED BY <1>2, <1>3, <1>7, <1>8, <1>9 DEF OnWay

LEMMA AsOnWay ==
  ASSUME NEW m, NEW x, NEW e, OnWayAs(m, x, e)
  PROVE  OnWay(m, x)
BY DEF OnWay, OnWayAs

LEMMA HandledLatest ==
  ASSUME Core, MessageInv, LatestInv, shell # <<>>, shell' = Tail(shell), fx' = fx, st' = st, expect' = expect, sender' = sender
  PROVE  LatestInv'
<1>1. ASSUME sender, NEW m \in Models, Live(m), NEW x \in AttrsOf(m), OnWay(m, x)' PROVE OnWayAs(m, x, expect[m][x])'
  <2>1. PICK e : e = expect[m][x]
    OBVIOUS
  <2>2. OnWay(m, x)
    BY <1>1, WayHeads
  <2>3. OnWayAs(m, x, e)
    BY <1>1, <2>1, <2>2 DEF LatestInv
  <2>4. OnWayAs(m, x, e)' \/ (Brings(shell[1], m, x) /\ shell[1].n = e)
    BY <2>3, WayHeads
  <2>5. ASSUME Brings(shell[1], m, x), shell[1].n = e PROVE FALSE
    <3>1. (\E g \in Messages : Pends(g) /\ Brings(g, m, x)) \/ \E i \in 1..Len(shell) : i # 1 /\ Brings(shell[i], m, x)
      BY <1>1, WayHeads
    <3>2. 1 \in 1..Len(shell)
      BY WayHeads
    <3>3. /\ \A g \in Messages : ~(Pends(g) /\ Brings(g, m, x))
          /\ \A i \in 1..Len(shell) : Brings(shell[i], m, x) => i = 1
      BY <1>1, <2>1, <2>5, <3>2, HeadLast
    <3> QED BY <3>1, <3>3
  <2>6. OnWayAs(m, x, e)'
    BY <2>4, <2>5
  <2>7. e = expect'[m][x]
    BY <2>1
  <2> QED BY <2>6, <2>7 DEF OnWayAs
<1>2. ASSUME sender', NEW m \in Models, Live(m)', NEW x \in AttrsOf(m), OnWay(m, x)' PROVE OnWayAs(m, x, expect[m][x])'
  <2>1. Live(m)
    BY <1>2 DEF Live
  <2> QED BY <1>1, <1>2, <2>1
<1> QED BY <1>2 DEF LatestInv
-----------------------------------------------------------------------------
LEMMA KernelHandlesLast ==
  ASSUME Core, MessageInv, LastInv, NEW fix \in Vals \cup {None}, KernelHandles(fix)
  PROVE  LastInv'
<1>1. PICK s \in Messages : s = Head(shell) /\ shell # <<>>
  BY AnswerIs
<1>2. PICK k \in Seq(Answers) : iopub' = Cat(iopub, k) /\ Replies(fix, s, k)
  BY <1>1, AnswerIs
<1>3. k \in Seq(Events)
  BY AnswersAreEvents
<1>4. PICK upd : upd = Applied(s)
  OBVIOUS
<1>5. PICK fixed : fixed = Fixes(fix, s)
  OBVIOUS
<1>6. PICK m \in Models \cup {None} : m = s.model
  BY MessageIs
<1>7. PICK known \in BOOLEAN : known = (m # None /\ kval[m] # None)
  OBVIOUS
<1>8. /\ kgen = gen /\ KeepsStore /\ UNCHANGED <<sender, kgen>>
      /\ kval' = (IF known THEN [kval EXCEPT ![m] = Merge(fixed, Merge(upd, @))] ELSE kval)
      /\ shell' = Tail(shell)
  BY <1>1, <1>4, <1>5, <1>6, <1>7, Zenon DEF KernelHandles, Applied, Fixes
<1>9. /\ gen' = gen /\ st' = st /\ fx' = fx /\ val' = val /\ expect' = expect /\ pending' = pending /\ waiting' = waiting
  BY <1>8 DEF KeepsStore, modelVars, updVars, outVars
<1>10. DOMAIN kval = Models /\ \A n \in Models : kval[n] \in [AttrsOf(n) -> Vals] \cup {None}
  BY KernelHas
<1>11. \A n \in Models : kval'[n] = IF known /\ n = m THEN Merge(fixed, Merge(upd, kval[m])) ELSE kval[n]
  BY <1>8, <1>10
<1>12. ~known => upd = Nothing /\ fixed = Nothing
  BY <1>1, <1>4, <1>5, <1>6, <1>7, FixesParts DEF Applied
<1>13. DOMAIN Nothing = {} /\ DOMAIN fixed \subseteq DOMAIN upd
  BY <1>4, <1>5 DEF Nothing, Fixes
<1>14. ASSUME NEW n \in Models, NEW x \in AttrsOf(n), kval'[n] # None
       PROVE  /\ kval[n] # None
              /\ n = m /\ x \in DOMAIN fixed => kval'[n][x] = fixed[x]
              /\ n = m /\ x \in DOMAIN upd /\ x \notin DOMAIN fixed => kval'[n][x] = upd[x]
              /\ n # m \/ x \notin DOMAIN upd => kval'[n][x] = kval[n][x]
  <2>1. CASE known /\ n = m
    <3>1. kval[n] # None /\ kval[n] \in [AttrsOf(n) -> Vals]
      BY <1>7, <1>10, <2>1
    <3>2. PICK w : w = Merge(upd, kval[n])
      OBVIOUS
    <3>3. /\ x \in DOMAIN w /\ (x \in DOMAIN upd => w[x] = upd[x]) /\ (x \notin DOMAIN upd => w[x] = kval[n][x])
      BY <3>1, <3>2 DEF Merge
    <3>4. kval'[n] = Merge(fixed, w)
      BY <1>11, <2>1, <3>2
    <3>5. (x \in DOMAIN fixed => Merge(fixed, w)[x] = fixed[x]) /\ (x \notin DOMAIN fixed => Merge(fixed, w)[x] = w[x])
      BY <3>3 DEF Merge
    <3> QED BY <1>13, <2>1, <3>1, <3>3, <3>4, <3>5
  <2>2. CASE ~(known /\ n = m)
    <3>1. kval'[n] = kval[n]
      BY <1>11, <2>2
    <3>2. n = m => DOMAIN upd = {} /\ DOMAIN fixed = {}
      BY <1>12, <1>13, <2>2
    <3> QED BY <1>14, <3>1, <3>2
  <2> QED BY <2>1, <2>2
<1>15. /\ \A n, x, e : n # m \/ x \notin DOMAIN upd => Settled(k, n, x, e, gen)
       /\ \A x, e : x \in DOMAIN fixed => LastAt(k, 2, m, x, e, gen) /\ k[2].upd = fixed /\ 2 \in Nat
       /\ \A x : x \in DOMAIN upd /\ x \notin DOMAIN fixed => LastAt(k, 1, m, x, s.n, gen) /\ k[1].upd = upd /\ 1 \in Nat
       /\ \A j \in 1..Len(k) : k[j].kind # "open"
  BY <1>2, <1>4, <1>5, <1>6, <1>8, ReplyCounts
<1>16. s = shell[1] /\ 1 \in 1..Len(shell)
  BY <1>1, <1>8, <1>9, WayHeads
<1>17. \A x : x \in DOMAIN upd => Brings(s, m, x)
  BY <1>4, <1>6, <1>13 DEF Applied, Brings, Fwd
<1>18. ASSUME NEW n \in Models, NEW x \in AttrsOf(n), kval'[n] # None, Brings(s, n, x) PROVE n = m /\ x \in DOMAIN upd
  <2>1. s.model = n /\ s.kind \in {"update", "flush"} /\ x \in DOMAIN s.upd
    BY <1>18 DEF Brings, Fwd
  <2>2. kval[n] # None /\ n # None
    BY <1>14, <1>18, StoreAssumption DEF Models
  <2>3. upd = s.upd
    BY <1>4, <2>1, <2>2 DEF Applied
  <2> QED BY <1>6, <2>1, <2>3
<1>19. LatestInv'
  BY <1>1, <1>8, <1>9, HandledLatest DEF LastInv
<1>20. ASSUME sender, NEW n \in Models, Known(n)', kval'[n] # None, NEW x \in AttrsOf(n)
       PROVE  Brought(k, n, x)
  <2>1. Known(n)
    BY <1>2, <1>3, <1>9, <1>15, <1>20, KnownBefore
  <2>2. kval[n] # None
    BY <1>14, <1>20
  <2>3. CASE n = m /\ x \in DOMAIN fixed
    <3>1. LastAt(k, 2, n, x, expect[n][x], gen) /\ k[2].upd = fixed /\ 2 \in Nat
      BY <1>15, <2>3
    <3>2. k[2].upd[x] = kval'[n][x]
      BY <1>14, <1>20, <2>3, <3>1
    <3> QED BY <3>1, <3>2 DEF Brought
  <2>4. CASE n = m /\ x \in DOMAIN upd /\ x \notin DOMAIN fixed
    <3>1. LastAt(k, 1, n, x, s.n, gen) /\ k[1].upd = upd /\ 1 \in Nat
      BY <1>15, <2>4
    <3>2. k[1].upd[x] = kval'[n][x]
      BY <1>14, <1>20, <2>4, <3>1
    <3>3. CASE s.n = expect[n][x]
      BY <3>1, <3>2, <3>3 DEF Brought
    <3>4. CASE s.n # expect[n][x]
      <4>1. Brings(shell[1], n, x)
        BY <1>16, <1>17, <2>4
      <4>2. OnWay(n, x)
        BY <1>16, <4>1 DEF OnWay
      <4>3. Live(n)
        <5>1. ASSUME NEW i \in 1..Len(iopub), Opens(n, i) PROVE FALSE
          BY <4>2, <5>1, OpeningFresh DEF Ahead
        <5> QED BY <2>1, <5>1 DEF Known
      <4>4. PICK e : e = expect[n][x]
        OBVIOUS
      <4>5. OnWayAs(n, x, e)
        BY <1>20, <4>2, <4>3, <4>4 DEF LastInv, LatestInv
      <4>6. OnWayAs(n, x, e)'
        BY <1>1, <1>8, <1>9, <1>16, <3>4, <4>4, <4>5, WayHeads
      <4>7. OnWay(n, x)'
        BY <4>6 DEF OnWay, OnWayAs
      <4> QED BY <4>7 DEF Brought, Ahead
    <3> QED BY <3>3, <3>4
  <2>5. CASE n # m \/ x \notin DOMAIN upd
    <3>1. Settled(k, n, x, expect[n][x], gen) /\ kval'[n][x] = kval[n][x]
      BY <1>14, <1>15, <1>20, <2>5
    <3>2. ~Brings(shell[1], n, x)
      BY <1>16, <1>18, <1>20, <2>5
    <3>3. OnWay(n, x) => OnWay(n, x)'
      BY <1>1, <1>8, <1>9, <3>2, WayHeads
    <3>4. Ahead(n, x) => Ahead(n, x)'
      BY <1>9, <3>3 DEF Ahead
    <3> QED BY <2>1, <2>2, <3>1, <3>4 DEF Brought
  <2> QED BY <2>3, <2>4, <2>5
<1>21. AgreeInv'
  BY <1>2, <1>3, <1>8, <1>9, <1>20, SaidAgree DEF LastInv
<1> QED BY <1>19, <1>21 DEF LastInv
-----------------------------------------------------------------------------
(* The kernel's own code.                                                  *)
LEMMA KernelOpensLast ==
  ASSUME Core, Core', LastInv, NEW m \in Models, KernelOpens(m)
  PROVE  LastInv'
<1>1. PICK v : v = Blank(m) /\ DOMAIN v = AttrsOf(m)
  <2>1. DOMAIN Blank(m) = AttrsOf(m)
    BY DEF Blank
  <2> QED BY <2>1
<1>2. PICK e : e = Says("open", m, 0, v)
  OBVIOUS
<1>3. KernelRuns /\ kval' = [kval EXCEPT ![m] = v] /\ iopub' = Append(iopub, e)
  BY <1>1, <1>2 DEF KernelOpens
<1>4. e.kind = "open" /\ e.gen = gen /\ e.model = m /\ e.upd = v
  BY <1>2, <1>3 DEF Says, KernelRuns
<1>5. kval'[m] = v /\ \A n \in Models : n = m \/ kval'[n] = kval[n]
  BY <1>3, KernelHas
<1>6. \A x \in DOMAIN e.upd : kval'[e.model][x] = e.upd[x]
  BY <1>4, <1>5
<1> QED BY <1>1, <1>3, <1>4, <1>5, <1>6, SetsLast

LEMMA KernelSetsLast ==
  ASSUME Core, Core', LastInv, NEW m \in Models, NEW upd, KernelSets(m, upd)
  PROVE  LastInv'
<1>1. PICK e : e = Says("update", m, 0, upd)
  OBVIOUS
<1>2. KernelRuns /\ kval[m] # None /\ kval' = [kval EXCEPT ![m] = Merge(upd, @)] /\ iopub' = Append(iopub, e)
  BY <1>1 DEF KernelSets, KernelCode
<1>3. e.kind = "update" /\ e.gen = gen /\ e.model = m /\ e.upd = upd
  BY <1>1, <1>2 DEF Says, KernelRuns
<1>4. kval'[m] = Merge(upd, kval[m]) /\ \A n \in Models : n = m \/ kval'[n] = kval[n]
  BY <1>2, KernelHas
<1>5. kval[m] \in [AttrsOf(m) -> Vals]
  BY <1>2, KernelHas
<1>6. /\ \A x \in DOMAIN upd : kval'[m][x] = upd[x]
      /\ \A x \in AttrsOf(m) : x \in DOMAIN upd \/ kval'[m][x] = kval[m][x]
  BY <1>4, <1>5 DEF Merge
<1>7. \A x \in DOMAIN e.upd : kval'[e.model][x] = e.upd[x]
  BY <1>3, <1>6
<1>8. \A x \in AttrsOf(e.model) : x \in DOMAIN e.upd \/ kval'[e.model][x] = kval[e.model][x]
  BY <1>3, <1>6
<1>9. e.model \in Models /\ kval[e.model] # None /\ e.kind # "open" /\ \A n \in Models : n = e.model \/ kval'[n] = kval[n]
  BY <1>2, <1>3, <1>4
<1> QED BY <1>2, <1>3, <1>7, <1>8, <1>9, SetsLast

LEMMA KernelClosesLast ==
  ASSUME Core, Core', LastInv, NEW m \in Models, KernelCloses(m)
  PROVE  LastInv'
<1>1. PICK e : e = Says("close", m, 0, Nothing)
  OBVIOUS
<1>2. KernelRuns /\ kval' = [kval EXCEPT ![m] = None] /\ iopub' = Append(iopub, e) /\ e.kind = "close"
  BY <1>1 DEF KernelCloses, KernelCode, Says
<1>3. \A n \in Models : kval'[n] = kval[n] \/ kval'[n] = None
  BY <1>2, KernelHas
<1> QED BY <1>2, <1>3, SaysLast

(* It says something that brings no value.                                 *)
LEMMA KernelSaysLast ==
  ASSUME Core, Core', LastInv,
         \/ \E l \in Links : KernelUnlinks(l) \/ \E e \in Ends : KernelLinks(l, e)
         \/ \E o \in Outs, p \in Parents \cup {None} : KernelCaptures(o, p)
         \/ \E p \in Parents : \/ \E i \in Pieces : KernelPrints(p, i)
                               \/ \E wait \in BOOLEAN : KernelClears(p, wait)
         \/ \E i, j \in Pieces : KernelDisplays(i, j)
  PROVE  LastInv'
<1>0. ASSUME KernelCode, kval' = kval, NEW e, iopub' = Append(iopub, e),
             e.kind \in {"unlink", "link", "capture", "stream", "clear", "display"}
      PROVE  LastInv'
  <2>1. KernelRuns
    BY <1>0 DEF KernelCode
  <2>2. e.kind \notin {"open", "update", "echo"}
    BY <1>0
  <2>3. \A m \in Models : kval'[m] = kval[m] \/ kval'[m] = None
    BY <1>0
  <2> QED BY <1>0, <2>1, <2>2, <2>3, SaysLast
<1>1. ASSUME NEW l \in Links, KernelUnlinks(l) PROVE LastInv'
  <2>1. PICK e : e = Says("unlink", l, 0, Nothing)
    OBVIOUS
  <2>2. KernelCode /\ kval' = kval /\ iopub' = Append(iopub, e) /\ e.kind = "unlink"
    BY <1>1, <2>1 DEF KernelUnlinks, Says
  <2> QED BY <1>0, <2>2
<1>2. ASSUME NEW l \in Links, NEW g \in Ends, KernelLinks(l, g) PROVE LastInv'
  <2>1. PICK e : e = Says("link", l, 0, g)
    OBVIOUS
  <2>2. KernelCode /\ kval' = kval /\ iopub' = Append(iopub, e) /\ e.kind = "link"
    BY <1>2, <2>1 DEF KernelLinks, Says
  <2> QED BY <1>0, <2>2
<1>3. ASSUME NEW o \in Outs, NEW p \in Parents \cup {None}, KernelCaptures(o, p) PROVE LastInv'
  <2>1. PICK e : e = [Says("capture", o, 0, Nothing) EXCEPT !.parent = p]
    OBVIOUS
  <2>2. KernelCode /\ kval' = kval /\ iopub' = Append(iopub, e) /\ e.kind = "capture"
    BY <1>3, <2>1 DEF KernelCaptures, Says
  <2> QED BY <1>0, <2>2
<1>4. ASSUME NEW p \in Parents, NEW i \in Pieces, KernelPrints(p, i) PROVE LastInv'
  <2>1. PICK e : e = [Says("stream", None, i, Nothing) EXCEPT !.parent = p]
    OBVIOUS
  <2>2. KernelCode /\ kval' = kval /\ iopub' = Append(iopub, e) /\ e.kind = "stream"
    BY <1>4, <2>1 DEF KernelPrints, Says
  <2> QED BY <1>0, <2>2
<1>5. ASSUME NEW p \in Parents, NEW w \in BOOLEAN, KernelClears(p, w) PROVE LastInv'
  <2>1. PICK e : e = [Says("clear", None, 0, w) EXCEPT !.parent = p]
    OBVIOUS
  <2>2. KernelCode /\ kval' = kval /\ iopub' = Append(iopub, e) /\ e.kind = "clear"
    BY <1>5, <2>1 DEF KernelClears, Says
  <2> QED BY <1>0, <2>2
<1>6. ASSUME NEW i \in Pieces, NEW j \in Pieces, KernelDisplays(i, j) PROVE LastInv'
  <2>1. PICK e : e = Says("display", None, i, j)
    OBVIOUS
  <2>2. KernelCode /\ kval' = kval /\ iopub' = Append(iopub, e) /\ e.kind = "display"
    BY <1>6, <2>1 DEF KernelDisplays, Says
  <2> QED BY <1>0, <2>2
<1> QED BY <1>1, <1>2, <1>3, <1>4, <1>5, <1>6

LEMMA KernelLast ==
  ASSUME Core, Core', MessageInv, LastInv, Kernel
  PROVE  LastInv'
<1>1. ASSUME KernelHandles(None) \/ \E v \in Vals : KernelHandles(v) PROVE LastInv'
  <2>1. PICK fix \in Vals \cup {None} : KernelHandles(fix)
    BY <1>1
  <2> QED BY <2>1, KernelHandlesLast
<1>2. ASSUME NEW m \in Models, KernelOpens(m) \/ KernelCloses(m) \/ \E upd : KernelSets(m, upd) PROVE LastInv'
  BY <1>2, KernelOpensLast, KernelClosesLast, KernelSetsLast
<1>3. \/ \E m \in Models : KernelOpens(m) \/ KernelCloses(m) \/ \E upd : KernelSets(m, upd)
      \/ KernelHandles(None) \/ \E v \in Vals : KernelHandles(v)
      \/ \/ \E l \in Links : KernelUnlinks(l) \/ \E e \in Ends : KernelLinks(l, e)
         \/ \E o \in Outs, p \in Parents \cup {None} : KernelCaptures(o, p)
         \/ \E p \in Parents : \/ \E i \in Pieces : KernelPrints(p, i)
                               \/ \E wait \in BOOLEAN : KernelClears(p, wait)
         \/ \E i, j \in Pieces : KernelDisplays(i, j)
  BY DEF Kernel
<1> QED BY <1>1, <1>2, <1>3, KernelSaysLast
-----------------------------------------------------------------------------
(* An effect that runs moves a message on.                                 *)
LEMMA SentWay ==
  ASSUME Core, NEW msg \in Messages, msg.model # None => Pends(msg), shell' = Append(shell, msg),
         \A g \in Messages : Pends(g)' => Pends(g), \A g \in Messages : Pends(g) => Pends(g)' \/ g = msg,
         NEW m \in Models, NEW x
  PROVE  /\ (OnWay(m, x)' => OnWay(m, x)) /\ (OnWay(m, x) => OnWay(m, x)')
         /\ \A e : OnWayAs(m, x, e) => OnWayAs(m, x, e)'
<1>1. shell \in Seq(Messages)
  BY DEF Core, KernelTypes
<1>2. /\ Len(shell) \in Nat /\ Len(shell') = Len(shell) + 1 /\ shell'[Len(shell) + 1] = msg
      /\ \A i \in 1..Len(shell) : shell'[i] = shell[i]
  BY <1>1, LenProperties
<1>3. \A i \in 1..Len(shell) : i \in 1..Len(shell') /\ shell'[i] = shell[i]
  BY <1>2
<1>4. \A i \in 1..Len(shell') : shell'[i] = msg \/ (i \in 1..Len(shell) /\ shell'[i] = shell[i])
  BY <1>2
<1>5. PICK i \in 1..Len(shell') : shell'[i] = msg
  BY <1>2
<1>6. Brings(msg, m, x) => Pends(msg)
  <2>1. m # None
    BY StoreAssumption DEF Models
  <2> QED BY <2>1 DEF Brings, Fwd
<1>7. OnWay(m, x)' => OnWay(m, x)
  <2>1. ASSUME NEW j \in 1..Len(shell'), Brings(shell'[j], m, x) PROVE OnWay(m, x)
    BY <1>4, <1>6, <2>1 DEF OnWay
  <2>2. ASSUME NEW g \in Messages, Pends(g)', Brings(g, m, x) PROVE OnWay(m, x)
    BY <2>2 DEF OnWay
  <2> QED BY <2>1, <2>2 DEF OnWay
<1>8. OnWay(m, x) => OnWay(m, x)'
  BY <1>3, <1>5 DEF OnWay
<1>9. ASSUME NEW e, OnWayAs(m, x, e) PROVE OnWayAs(m, x, e)'
  BY <1>3, <1>5, <1>9 DEF OnWayAs
<1> QED BY <1>7, <1>8, <1>9

LEMMA RunEffectLast ==
  ASSUME Core, MessageInv, LastInv, NEW a \in Actors, RunEffect(a)
  PROVE  LastInv'
<1>1. FxTypes /\ Single /\ fx[a] \in Seq(Effects)
  BY DEF Core, CallInv, CallTypes, FxTypes, MessageInv, WireInv
<1>2. /\ fx[a] # <<>> /\ UNCHANGED <<gen, st, val, waiting, iopub, sender, kgen, kval>>
      /\ pending' = pending /\ expect' = expect
  BY DEF RunEffect, modelVars, updVars, outVars
<1>3. Head(fx[a]) \in Effects
  BY <1>1, <1>2, HeadTailProperties
<1>4. ASSUME sender, NEW m \in Models, NEW x
      PROVE  /\ (OnWay(m, x)' => OnWay(m, x)) /\ (OnWay(m, x) => OnWay(m, x)')
             /\ \A e : OnWayAs(m, x, e) => OnWayAs(m, x, e)'
  <2>1. CASE Head(fx[a]).do = "send"
    <3>1. PICK msg \in Head(fx[a]).msgs :
            /\ shell' = IF sender THEN Append(shell, msg) ELSE shell
            /\ fx' = [fx EXCEPT ![a] = Cat(IF Head(fx[a]).msgs = {msg} THEN <<>> ELSE <<Send(Head(fx[a]).msgs \ {msg})>>, Tail(@))]
      BY <2>1 DEF RunEffect, Cat
    <3>2. msg \in Messages
      BY <1>3, <2>1, EffectKinds
    <3>3. fx' = [fx EXCEPT ![a] = Cat(IF Head(@).msgs = {msg} THEN <<>> ELSE <<Send(Head(@).msgs \ {msg})>>, Tail(@))]
      BY <3>1
    <3>4. /\ \A g \in Messages : Pends(g)' => Pends(g)
          /\ \A g \in Messages : Pends(g) => Pends(g)' \/ g = msg
          /\ msg.model # None => Pends(msg)
      BY <1>1, <1>2, <2>1, <3>2, <3>3, SendsFx
    <3>5. shell' = Append(shell, msg)
      BY <1>4, <3>1
    <3> QED BY <3>2, <3>4, <3>5, SentWay
  <2>2. CASE Head(fx[a]).do # "send"
    <3>1. fx' = [fx EXCEPT ![a] = Tail(@)] /\ shell' = shell
      BY <2>2 DEF RunEffect
    <3>2. \A g \in Messages : (Pends(g)' => Pends(g)) /\ (Pends(g) => Pends(g)')
      BY <1>1, <1>2, <2>2, <3>1, QuietFx
    <3>3. OnWay(m, x)' => OnWay(m, x)
      BY <3>1, <3>2 DEF OnWay
    <3> QED BY <3>1, <3>2, <3>3, WayStays
  <2> QED BY <2>1, <2>2
<1>5. ASSUME sender, NEW m \in Models, Live(m), NEW x \in AttrsOf(m), OnWay(m, x)' PROVE OnWayAs(m, x, expect[m][x])'
  <2>1. PICK e : e = expect[m][x]
    OBVIOUS
  <2>2. OnWayAs(m, x, e)
    BY <1>4, <1>5, <2>1 DEF LastInv, LatestInv
  <2>3. OnWayAs(m, x, e)'
    BY <1>4, <1>5, <2>2
  <2>4. e = expect'[m][x]
    BY <1>2, <2>1
  <2> QED BY <2>3, <2>4 DEF OnWayAs
<1>6. LatestInv'
  BY <1>2, <1>5 DEF LatestInv, Live
<1>7. AgreeInv'
  <2>1. CASE sender
    <3>1. \A m \in Models : Live(m) => \A x \in AttrsOf(m) :
            Ahead(m, x)' \/ (~Ahead(m, x) /\ val'[m][x] = val[m][x] /\ expect'[m][x] = expect[m][x])
      BY <1>2, <1>4, <2>1 DEF Ahead
    <3>2. Idles
      BY <1>2 DEF Idles
    <3> QED BY <1>2, <3>1, <3>2, StayAgree DEF LastInv
  <2>2. CASE ~sender
    BY <1>2, <2>2 DEF AgreeInv
  <2> QED BY <2>1, <2>2
<1> QED BY <1>6, <1>7 DEF LastInv
-----------------------------------------------------------------------------
(* Every step keeps what is known of the last changes.                     *)
LEMMA LastInit ==
  ASSUME Init
  PROVE  LastInv
<1>1. \A m \in Models : ~Live(m)
  BY DEF Init, Live
<1>2. LatestInv
  BY <1>1 DEF LatestInv
<1>3. AgreeInv
  BY DEF Init, AgreeInv
<1> QED BY <1>2, <1>3 DEF LastInv

LEMMA LastStep ==
  ASSUME NoOutEnds, Core, Core', OpenInv, MessageInv, LastInv, [Next]_vars
  PROVE  LastInv'
<1>1. CASE UNCHANGED vars
  <2>1. UNCHANGED <<gen, st, val, updVars, next, waiting, flight, fx, shell, kgen, kval>>
    BY <1>1 DEF vars, modelVars, idVars, outVars, kernelVars
  <2>2. sender' = sender /\ Idles
    BY <1>1 DEF vars, kernelVars, Idles
  <2> QED BY <2>1, <2>2, SameLast
<1>2. CASE \E a \in Actors : RunEffect(a)
  BY <1>2, RunEffectLast
<1> QED BY <1>1, <1>2, StoreLast, PumpLast, FrontendLast, TimeLast, SessionLast, KernelLast DEF Next

(* When nothing is on its way no change is, and no event counts.           *)
LEMMA QuietNow ==
  ASSUME Core, OpenInv, LastInv
  PROVE  QuietAgrees
<1>1. ASSUME Quiet, NEW m \in Models, Live(m) PROVE val[m] = kval[m]
  <2>1. /\ sender /\ kgen = gen /\ shell = <<>> /\ iopub = <<>> /\ waiting = {}
        /\ \A a \in Actors : fx[a] = <<>>
        /\ pending[m] = Nothing
    BY <1>1 DEF Quiet
  <2>2. Len(<<>>) = 0
    OBVIOUS
  <2>3. Len(shell) = 0 /\ Len(iopub) = 0 /\ \A a \in Actors : Len(fx[a]) = 0
    BY <2>1, <2>2
  <2>4. DOMAIN Nothing = {}
    BY DEF Nothing
  <2>5. \A g : ~Pends(g)
    BY <2>3 DEF Pends, At
  <2>6. \A x : ~Ahead(m, x)
    BY <2>1, <2>3, <2>4, <2>5 DEF Ahead, OnWay
  <2>7. kval[m] # None
    BY <1>1, <2>3 DEF OpenInv
  <2>8. ASSUME NEW x \in AttrsOf(m) PROVE val[m][x] = kval[m][x]
    <3>1. Agrees(iopub, m, x, expect[m][x], gen, val[m][x], kval[m][x])
      BY <1>1, <2>1, <2>6, <2>7 DEF LastInv, AgreeInv, Known, Agree
    <3>2. \A i : ~Counts(iopub, i, m, x, expect[m][x], gen)
      BY <2>3 DEF Counts
    <3> QED BY <3>1, <3>2 DEF Agrees, LastAt
  <2>9. val[m] \in [AttrsOf(m) -> Vals] /\ kval[m] \in [AttrsOf(m) -> Vals]
    BY <2>7, KernelHas DEF Core, ModelTypes
  <2> QED BY <2>8, <2>9
<1> QED BY <1>1 DEF QuietAgrees

(* Whatever the frontend and the kernel set, however their changes, the    *)
(* echoes, the flushes of captures and a replaced kernel interleave: once  *)
(* nothing is on its way, every model the store connects shows what the    *)
(* kernel has of it (widgets.rs).  Until then, for each attribute, either  *)
(* a change of the frontend is still ahead of the kernel, or the last      *)
(* event the store will take in brings the kernel's value: the answer to   *)
(* the last change that was sent, whose number the store expects, or what  *)
(* the kernel's code set since.  NoOutEnds is as for EchoHolds.            *)
THEOREM QuietHolds ==
  ASSUME NoOutEnds
  PROVE  Spec => []QuietAgrees
<1> DEFINE Inv == StoreProofInv /\ MessageInv /\ LastInv
<1>1. Init => Inv
  BY InitStore, MessageInit, LastInit
<1>2. Inv /\ [Next]_vars => Inv'
  <2>1. ASSUME Inv, [Next]_vars PROVE Inv'
    <3>1. StoreProofInv'
      BY <2>1, StoreStep, StoreKept
    <3>2. Core /\ OpenInv /\ Core' /\ MessageInv /\ LastInv
      BY <2>1, <3>1 DEF StoreProofInv
    <3> QED BY <2>1, <3>1, <3>2, MessageStep, LastStep
  <2> QED BY <2>1
<1>3. Inv => QuietAgrees
  BY QuietNow DEF StoreProofInv
<1> QED BY <1>1, <1>2, <1>3, PTL DEF Spec
=============================================================================
