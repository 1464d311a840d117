--------------------------- MODULE InferenceProofs ---------------------------
(* Proofs about Inference, for any application, any number of contexts, tensors,
   workers and packets, and whichever driver call fails: nothing that exists has
   lost what it was made from (NoDangling), the environment's counts are exact
   (EnvCounted), what is left in the end is what CleanedUp says, every call
   addresses the context or the device it is made for (OwnContext), and every
   result is of the packet's own tensors (OwnResult).

   Construction and destruction run sequences of calls.  The invariant says of
   the calls that are left what makes the rest of them safe from any state the
   failures before can have led to; the module shows once per sequence of
   Contexts that it is so at the start, and once per kind of call that it stays
   so.  It says the same of the calls a node has left: that each will read the
   node's own packet, once the device has executed what is queued. *)
EXTENDS Inference, Loops, FiniteSetTheorems, TLAPS

(* What an owner's objects need of the same owner, and the objects it can have. *)
Local(class, kind, o) ==
  IF IsAcl(class)
  THEN CASE o = env -> {}
         [] o = <<"context", 0>> -> {env}
         [] OTHER -> {<<"context", 0>>}
  ELSE CASE o = <<"engine", 0>> -> {<<"runtime", 0>>}
         [] o = <<"exec", 0>> -> (IF kind = "model" THEN {<<"engine", 0>>} ELSE {})
                                 \union (IF class = "FusionTrt" THEN {<<"stream", 0>>} ELSE {})
         [] OTHER -> {}

Five == {env} \union ({"context", "stream", "model", "desc"} \X {0})

Full(class, kind, ins, outs) ==
  IF IsAcl(class)
  THEN Five \union ({"inSet", "outSet"} \X {0})
            \union ({"in", "inBuffer"} \X (1 .. ins)) \union ({"out", "outBuffer"} \X (1 .. outs))
  ELSE IF kind = "model"
  THEN ({"engine", "runtime"} \X {0})
       \union (IF class = "FusionTrt" THEN {"exec", "stream"} \X {0} ELSE {})
  ELSE ({"stream", "exec"} \X {0}) \union
       (IF class = "FusionTrt" THEN ({"in"} \X (1 .. ins)) \union {<<"out", 1>>}
        ELSE IF class = "ReidTrt" THEN {"in", "out", "host"} \X {1}
        ELSE {<<"in", 1>>} \union ({"out", "host"} \X (1 .. outs)))

(* Calls, what a sequence of them creates and what it releases. *)
Ops   == {"get", "take", "own", "free", "bind", "try", "check"}
Undos == {"none", "destroy", "stage", "model", "trt", "-"}
Names == {"env", "context", "stream", "model", "desc", "inSet", "outSet", "in", "inBuffer", "out",
          "outBuffer", "runtime", "engine", "exec", "host", "current", "tensors", "bindings",
              "open",
          "aclmdlGetDesc", "queryTensorDesc", "model_info", "dims", "setInputShape"}
CallSet == [op : Ops, obj : Names \X Nat, undo : Undos]
Makes(call) == call.op \in {"get", "take"}
MadeBy(s)   == {s[i].obj : i \in {j \in DOMAIN s : Makes(s[j])}}
FreedBy(s)  == {s[i].obj : i \in {j \in DOMAIN s : s[j].op = "free"}}

(* No call of s, run by an owner that has the objects H, creates something
   without what it needs or releases something that is still needed. *)
Ordered(s) == \A i, j \in DOMAIN s : i < j /\ s[i].op = "free" => ~Makes(s[j])
Grounded(class, kind, H, s) ==
  \A i \in DOMAIN s : Makes(s[i]) =>
    \A n \in Local(class, kind, s[i].obj) :
      n \in H \/ \E k \in 1 .. i - 1 : Makes(s[k]) /\ s[k].obj = n
Orderly(class, kind, H, s) ==
  \A i \in DOMAIN s : s[i].op = "free" =>
    \A p \in H \union MadeBy(s) : s[i].obj \in Local(class, kind, p) =>
      \E k \in 1 .. i - 1 : s[k].op = "free" /\ s[k].obj = p
Sound(class, kind, H, s) ==
  Ordered(s) /\ Grounded(class, kind, H, s) /\ Orderly(class, kind, H, s)

Rooted(class, kind, H) == \A o \in H : Local(class, kind, o) \subseteq H

(* A constructor under way: what its clean-up relies on.  A buffer is unknown to
   the members between a "take" and the "own" that follows it, and another call
   may fail in between only for an output. *)
OwnsNext(s, k) ==
  /\ k \in DOMAIN s /\ s[k].op = "own"
  /\ \A j \in 1 .. k - 1 : s[j].op # "take"
  /\ k = 1 \/ s[k].obj \in {"out"} \X Nat

Taking(s) ==
  \A i \in DOMAIN s : s[i].op = "take" =>
    /\ s[i].obj \in {"in", "out"} \X Nat
    /\ \E k \in DOMAIN s : /\ k > i /\ s[k].op = "own" /\ s[k].obj = s[i].obj
                           /\ \A j \in i + 1 .. k - 1 : s[j].op # "take"
                           /\ k = i + 1 \/ s[k].obj \in {"out"} \X Nat

Undone(class, H, s) ==
  \A i \in DOMAIN s :
    /\ s[i].undo = "none" => H = {} /\ \A j \in 1 .. i - 1 : ~Makes(s[j])
    /\ s[i].undo = "stage" =>
         /\ IsAcl(class)
         /\ \A o \in Five : o \in H \/ \E j \in 1 .. i - 1 : Makes(s[j]) /\ s[j].obj = o

Building(class, kind, H, W, s) ==
  /\ \A i \in DOMAIN s : s[i].op = "free" => ~IsAcl(class) /\ s[i].obj \in {"stream", "exec"} \X {0}
  /\ \A i \in DOMAIN s : s[i].op = "take" => ~IsAcl(class)
  /\ Taking(s)
  /\ H = W \/ \E k \in DOMAIN s : OwnsNext(s, k) /\ H \ W = {s[k].obj}
  /\ Undone(class, H, s)
  /\ ~IsAcl(class) /\ kind = "model" => <<"engine", 0>> \in H \union MadeBy(s)

(* A clean-up only sets the context and releases. *)
Cleaning(s) == \A i \in DOMAIN s : s[i].op \in {"bind", "free"}

(* What needs the device is made after it was set. *)
Bound(s) ==
  \A i \in DOMAIN s :
    Makes(s[i]) /\ s[i].obj[1] \notin Exempt => \E j \in 1 .. i - 1 : s[j].op = "bind"

(* A constructor runs and nothing has thrown; what an owner can have; the order
   of creation. *)
Constructing == phase = "create" /\ thrower = None
Fulls(x) == Full(Class(x), x[1], Ins(Class(x)), Outs(Class(x)))
Precedes(x, y) == x[2] < y[2] \/ (x[2] = y[2] /\ x[3] < y[3])

(* The shapes of the variables, so far as the proofs use them. *)
Types ==
  /\ app \in Apps /\ io \in [ToSet(Classes) -> Shapes]
  /\ owner \in Owners /\ thrower \in Owners \union {None}
  /\ standing \subseteq Owners \ {thrower}
  /\ held = [x \in Owners |-> held[x]] /\ owned = [x \in Owners |-> owned[x]]
  /\ current = [t \in Threads |-> current[t]]
  /\ todo \in Seq(CallSet) /\ phase \in {"create", "run", "down", "done"}

(* When calls are left, who stands, and that main creates in order. *)
Phases ==
  /\ phase \in {"run", "done"} => todo = << >>
  /\ phase = "done" => standing = {}
  /\ thrower # None => phase # "run"
  /\ thrower # None /\ phase = "create" => owner = thrower
  /\ todo # << >> => owner \notin standing
  /\ phase = "create" => \A x \in standing : Precedes(x, owner)

(* The calls left are in a good order, and those of a constructor are such that
   a failure at any of them can be cleaned up. *)
Calls ==
  /\ Sound(Class(owner), owner[1], held[owner], todo)
  /\ IF Constructing THEN Building(Class(owner), owner[1], held[owner], owned[owner], todo)
     ELSE Cleaning(todo)
  /\ MadeBy(todo) \subseteq Fulls(owner)

(* What exists has what it needs, and members know it all but an Orin buffer
   between its allocation and the assignment to its member. *)
Holdings ==
  /\ \A x \in Owners : owned[x] \subseteq held[x] /\ held[x] \subseteq Fulls(x)
  /\ \A x \in Owners : \A o \in held[x] \ owned[x] : ~IsAcl(Class(x)) /\ o \in {"in", "out"} \X Nat
  /\ \A x \in Owners : Rooted(Class(x), x[1], held[x])
  /\ \A x \in Contexts : ~IsAcl(Class(x)) /\ <<"exec", 0>> \in held[x]
         => <<"engine", 0>> \in held[ModelOf(x)]

(* What the clean-up under way, if it is x's, will not release. *)
Kept(H, W, s) == H \ (W \intersect FreedBy(s))
Rest(x) == IF x = owner /\ ~Constructing THEN Kept(held[x], owned[x], todo) ELSE held[x]

(* Nothing will remain but what a constructor that threw leaves. *)
Remains ==
  /\ \A x \in Owners : x # thrower /\ ~(x = owner /\ Constructing) =>
       held[x] = owned[x] /\ (x \notin standing => Rest(x) = {})
  /\ thrower # None =>
       IF IsAcl(Class(thrower)) THEN Rest(thrower) \in {{}, Five}
       ELSE Rest(thrower) = {} \/ \E i \in 1 .. MaxIO : Rest(thrower) = {<<"out", i>>}

(* No engine goes before the execution contexts made from it. *)
Engines ==
  /\ Constructing /\ ~IsAcl(Class(owner)) /\ owner[1] = "context"
         => <<"engine", 0>> \in held[ModelOf(owner)]
  /\ owner[1] = "model" => \A c \in Contexts : ModelOf(c) = owner => <<"exec", 0>> \notin held[c]

dev == <<"device", Device, 0>>
(* The main thread addresses what its next call is made for, or sets it first. *)
Addressed ==
  /\ IsAcl(Class(owner)) /\ <<"context", 0>> \in held[owner] /\ todo # << >> =>
       current["main"] = owner \/ Head(todo).op = "bind"
  /\ ~IsAcl(Class(owner)) =>
       \/ current["main"] = dev
       \/ (\A x \in Owners : \A o \in held[x] : o[1] \in Exempt) /\ Bound(todo)

(* So does every worker at a node. *)
AtWork ==
  /\ work = [t \in Workers |-> [packet |-> work[t].packet, context |-> work[t].context,
         calls |-> work[t].calls]]
  /\ \A t \in Workers : (Busy(t) /\ NextCall(t).op # "bind")
         => current[t] = Address(work[t].context)

(* What construction, failure and destruction keep. *)
Core == Types /\ Phases /\ Calls /\ Holdings /\ Remains /\ Engines /\ Addressed

------------------------------------------------------------------------------
(* One call: how a sequence fares when its first call has run. *)

(* What one call does to the objects an owner has and to those its members know. *)
Effect(h, H, W, H2, W2) ==
  \/ h.op = "get"  /\ h.obj \notin H /\ H2 = H \union {h.obj} /\ W2 = W \union {h.obj}
  \/ h.op = "take" /\ h.obj \notin H /\ H2 = H \union {h.obj} /\ W2 = W
  \/ h.op = "own"  /\ h.obj \in H /\ H2 = H /\ W2 = W \union {h.obj}
  \/ h.op = "free" /\ h.obj \in W /\ H2 = H \ {h.obj} /\ W2 = W \ {h.obj}
  \/ (h.op = "free" => h.obj \notin W) /\ h.op \notin {"get", "take", "own"} /\ H2 = H /\ W2 = W

(* A sequence and what is left of it after its first element. *)
LEMMA TailFacts ==
  ASSUME NEW A, NEW s \in Seq(A), s # << >>
  PROVE  /\ Tail(s) \in Seq(A) /\ 1 \in DOMAIN s /\ Head(s) = s[1] /\ Head(s) \in A
         /\ \A i \in DOMAIN s : i \in Nat \ {0} /\ s[i] \in A /\ \A k \in 1 .. i : k \in DOMAIN s
         /\ \A i \in DOMAIN Tail(s) : i \in Nat \ {0} /\ i + 1 \in DOMAIN s /\ Tail(s)[i] = s[i + 1]
         /\ \A i \in DOMAIN s : i # 1 => i - 1 \in DOMAIN Tail(s) /\ Tail(s)[i - 1] = s[i]
  OBVIOUS

(* What a sequence creates and releases, and what its tail does. *)
LEMMA MadeFreed ==
  ASSUME NEW s \in Seq(CallSet), s # << >>
  PROVE  /\ MadeBy(s) = MadeBy(Tail(s)) \union (IF Makes(Head(s)) THEN {Head(s).obj} ELSE {})
         /\ FreedBy(s) = FreedBy(Tail(s)) \union (IF Head(s).op = "free" THEN {Head(s).obj} ELSE {})
<1> DEFINE t == Tail(s)
           h == Head(s)
<1>1. /\ 1 \in DOMAIN s /\ h = s[1]
      /\ \A i \in DOMAIN t : i + 1 \in DOMAIN s /\ t[i] = s[i + 1]
      /\ \A i \in DOMAIN s : i # 1 => i - 1 \in DOMAIN t /\ t[i - 1] = s[i]
  BY TailFacts
<1> HIDE DEF t, h
<1>2. ASSUME NEW o PROVE o \in MadeBy(s) <=> o \in MadeBy(t) \/ (Makes(h) /\ o = h.obj)
  <2>1. ASSUME o \in MadeBy(s) PROVE o \in MadeBy(t) \/ (Makes(h) /\ o = h.obj)
    <3>1. PICK i \in DOMAIN s : Makes(s[i]) /\ s[i].obj = o
      BY <2>1 DEF MadeBy
    <3> QED
      BY <1>1, <3>1 DEF MadeBy
  <2>2. ASSUME o \in MadeBy(t) PROVE o \in MadeBy(s)
    <3>1. PICK i \in DOMAIN t : Makes(t[i]) /\ t[i].obj = o
      BY <2>2 DEF MadeBy
    <3>2. i + 1 \in DOMAIN s /\ s[i + 1] = t[i]
      BY <1>1
    <3> QED
      BY <3>1, <3>2 DEF MadeBy
  <2> QED
    BY <1>1, <2>1, <2>2 DEF MadeBy
<1>3. ASSUME NEW o PROVE o \in FreedBy(s) <=> o \in FreedBy(t) \/ (h.op = "free" /\ o = h.obj)
  <2>1. ASSUME o \in FreedBy(s) PROVE o \in FreedBy(t) \/ (h.op = "free" /\ o = h.obj)
    <3>1. PICK i \in DOMAIN s : s[i].op = "free" /\ s[i].obj = o
      BY <2>1 DEF FreedBy
    <3> QED
      BY <1>1, <3>1 DEF FreedBy
  <2>2. ASSUME o \in FreedBy(t) PROVE o \in FreedBy(s)
    <3>1. PICK i \in DOMAIN t : t[i].op = "free" /\ t[i].obj = o
      BY <2>2 DEF FreedBy
    <3>2. i + 1 \in DOMAIN s /\ s[i + 1] = t[i]
      BY <1>1
    <3> QED
      BY <3>1, <3>2 DEF FreedBy
  <2> QED
    BY <1>1, <2>1, <2>2 DEF FreedBy
<1> QED
  BY <1>2, <1>3 DEF t, h

(* Objects the members do not know of play no part in what needs what. *)
Inert(class, H, W) == \A o \in H \ W : ~IsAcl(class) /\ o \in {"in", "out"} \X Nat

(* A call that the rest of the program was prepared for leaves the rest so. *)
LEMMA SoundStep ==
  ASSUME NEW class, NEW kind, NEW H, NEW W, NEW H2, NEW W2, NEW s \in Seq(CallSet), s # << >>,
         Effect(Head(s), H, W, H2, W2), Sound(class, kind, H, s), Inert(class, H, W)
  PROVE  Sound(class, kind, H2, Tail(s))
<1> DEFINE t == Tail(s)
           h == Head(s)
<1>1. /\ t \in Seq(CallSet) /\ 1 \in DOMAIN s /\ h = s[1]
      /\ \A i \in DOMAIN s : i \in Nat \ {0} /\ \A k \in 1 .. i : k \in DOMAIN s
      /\ \A i \in DOMAIN t : i \in Nat \ {0} /\ i + 1 \in DOMAIN s /\ t[i] = s[i + 1]
      /\ \A i \in DOMAIN s : i # 1 => i - 1 \in DOMAIN t /\ t[i - 1] = s[i]
  BY TailFacts
<1>2. MadeBy(s) = MadeBy(t) \union (IF Makes(h) THEN {h.obj} ELSE {})
  BY MadeFreed
<1>3. Ordered(s) /\ Grounded(class, kind, H, s) /\ Orderly(class, kind, H, s)
  BY DEF Sound
<1> HIDE DEF t, h
<1>4. Ordered(t)
  BY <1>1, <1>3, SMTT(60) DEF Ordered
<1>5. h.op = "free" => \A i \in DOMAIN t : ~Makes(t[i])
  BY <1>1, <1>3 DEF Ordered
<1>6. Grounded(class, kind, H2, t)
  <2> SUFFICES ASSUME NEW i \in DOMAIN t, Makes(t[i]), NEW n \in Local(class, kind, t[i].obj),
         n \notin H2
               PROVE  \E k \in 1 .. i - 1 : Makes(t[k]) /\ t[k].obj = n
    BY DEF Grounded
  <2>1. h.op # "free"
    BY <1>5
  <2>2. H \subseteq H2 /\ (Makes(h) => h.obj \in H2)
    BY <2>1 DEF Effect, h, Makes
  <2>6. i + 1 \in DOMAIN s /\ s[i + 1] = t[i] /\ n \notin H /\ (i + 1) - 1 = i
    BY <1>1, <2>2
  <2>3. PICK k \in 1 .. i : Makes(s[k]) /\ s[k].obj = n
    BY <1>3, <2>6 DEF Grounded
  <2>4. k # 1
    BY <1>1, <2>2, <2>3
  <2>5. k - 1 \in 1 .. i - 1 /\ t[k - 1] = s[k]
    BY <1>1, <2>4, SMTT(60)
  <2> QED
    BY <2>3, <2>5
<1>7. Orderly(class, kind, H2, t)
  <2> SUFFICES ASSUME NEW i \in DOMAIN t, t[i].op = "free", NEW p \in H2
         \union MadeBy(t), t[i].obj \in Local(class, kind, p)
               PROVE  \E k \in 1 .. i - 1 : t[k].op = "free" /\ t[k].obj = p
    BY DEF Orderly
  <2>1. p \in H \union MadeBy(s)
    BY <1>2 DEF Effect, h, Makes
  <2>2. PICK k \in 1 .. i : s[k].op = "free" /\ s[k].obj = p
    BY <1>1, <1>3, <2>1 DEF Orderly
  <2>3. k # 1
    <3> SUFFICES ASSUME k = 1 PROVE FALSE
      OBVIOUS
    <3>1. h.op = "free" /\ h.obj = p
      BY <1>1, <2>2
    <3>2. MadeBy(t) = {}
      BY <1>5, <3>1 DEF MadeBy
    <3>3. p \in H2
      BY <3>2
    <3>4. p \in H \ W
      BY <3>1, <3>3 DEF Effect, h
    <3>5. Local(class, kind, p) = {}
      BY <3>4 DEF Inert, Local
    <3> QED
      BY <3>5
  <2>4. k - 1 \in 1 .. i - 1 /\ t[k - 1] = s[k]
    BY <1>1, <2>3, SMTT(60)
  <2> QED
    BY <2>2, <2>4
<1> QED
  BY <1>4, <1>6, <1>7 DEF Sound, t

(* So does what exists stay rooted in what it needs. *)
LEMMA RootedStep ==
  ASSUME NEW class, NEW kind, NEW H, NEW W, NEW H2, NEW W2, NEW s \in Seq(CallSet), s # << >>,
         Effect(Head(s), H, W, H2, W2), Sound(class, kind, H, s), Rooted(class, kind, H)
  PROVE  Rooted(class, kind, H2)
<1> DEFINE h == Head(s)
<1>1. 1 \in DOMAIN s /\ h = s[1]
  BY TailFacts
<1>2. Grounded(class, kind, H, s) /\ Orderly(class, kind, H, s)
  BY DEF Sound
<1> HIDE DEF h
<1>3. Makes(h) => Local(class, kind, h.obj) \subseteq H
  BY <1>1, <1>2 DEF Grounded
<1>4. h.op = "free" => \A p \in H : h.obj \notin Local(class, kind, p)
  BY <1>1, <1>2 DEF Orderly
<1> QED
  BY <1>3, <1>4 DEF Effect, Rooted, Makes, h

(* A constructor's preparations for its clean-up hold call after call. *)
LEMMA BuildStep ==
  ASSUME NEW class, NEW kind, NEW H, NEW W, NEW H2, NEW W2, NEW s \in Seq(CallSet), s # << >>,
         Effect(Head(s), H, W, H2, W2), Building(class, kind, H, W, s), W \subseteq H
  PROVE  Building(class, kind, H2, W2, Tail(s))
<1> DEFINE t == Tail(s)
           h == Head(s)
<1>1. /\ t \in Seq(CallSet) /\ 1 \in DOMAIN s /\ h = s[1]
      /\ \A i \in DOMAIN s : i \in Nat \ {0} /\ \A k \in 1 .. i : k \in DOMAIN s
      /\ \A i \in DOMAIN t : i \in Nat \ {0} /\ i + 1 \in DOMAIN s /\ t[i] = s[i + 1]
      /\ \A i \in DOMAIN s : i # 1 => i - 1 \in DOMAIN t /\ t[i - 1] = s[i]
  BY TailFacts
<1>2. MadeBy(s) = MadeBy(t) \union (IF Makes(h) THEN {h.obj} ELSE {})
  BY MadeFreed
<1> HIDE DEF t, h
<1>0. PICK n \in Nat : DOMAIN s = 1 .. n
  <2>1. Len(s) \in Nat /\ DOMAIN s = 1 .. Len(s)
    OBVIOUS
  <2> QED
    BY <2>1
<1>3. h.op = "free" => ~IsAcl(class) /\ h.obj \in {"stream", "exec"} \X {0}
  BY <1>1 DEF Building
<1>4. \A i \in DOMAIN t : t[i].op = "free" => ~IsAcl(class)
          /\ t[i].obj \in {"stream", "exec"} \X {0}
  BY <1>1, SMTT(60) DEF Building
<1>5. \A i \in DOMAIN t : t[i].op = "take" => ~IsAcl(class)
  BY <1>1 DEF Building
<1>6. Taking(t)
  <2> SUFFICES ASSUME NEW i \in DOMAIN t, t[i].op = "take"
               PROVE  /\ t[i].obj \in {"in", "out"} \X Nat
                      /\ \E k \in DOMAIN t : /\ k > i /\ t[k].op = "own" /\ t[k].obj = t[i].obj
                                             /\ \A j \in i + 1 .. k - 1 : t[j].op # "take"
                                             /\ k = i + 1 \/ t[k].obj \in {"out"} \X Nat
    BY DEF Taking
  <2>1. i + 1 \in DOMAIN s /\ t[i] = s[i + 1] /\ i \in Nat
    BY <1>1
  <2>2. Taking(s)
    BY DEF Building
  <2>3. /\ s[i + 1].obj \in {"in", "out"} \X Nat
        /\ \E k \in DOMAIN s : /\ k > i + 1 /\ s[k].op = "own" /\ s[k].obj = s[i + 1].obj
                               /\ \A j \in (i + 1) + 1 .. k - 1 : s[j].op # "take"
                               /\ k = (i + 1) + 1 \/ s[k].obj \in {"out"} \X Nat
    BY <2>1, <2>2 DEF Taking
  <2>4. PICK k \in DOMAIN s : /\ k > i + 1 /\ s[k].op = "own" /\ s[k].obj = s[i + 1].obj
                              /\ \A j \in (i + 1) + 1 .. k - 1 : s[j].op # "take"
                              /\ k = (i + 1) + 1 \/ s[k].obj \in {"out"} \X Nat
    BY <2>3
  <2>5. k - 1 \in DOMAIN t /\ t[k - 1] = s[k] /\ k - 1 > i /\ k \in Nat
            /\ (k = (i + 1) + 1 => k - 1 = i + 1)
    BY <1>1, <2>1, <2>4, SMTT(60)
  <2>6. ASSUME NEW j \in i + 1 .. (k - 1) - 1 PROVE t[j].op # "take"
    <3>1. j + 1 \in (i + 1) + 1 .. k - 1 /\ j + 1 \in DOMAIN s /\ j + 1 # 1 /\ (j + 1) - 1 = j
      BY <1>0, <2>1, <2>5
    <3>2. t[j] = s[j + 1]
      BY <1>1, <3>1
    <3> QED
      BY <2>4, <3>1, <3>2
  <2> QED
    BY <2>1, <2>3, <2>4, <2>5, <2>6
<1>7. H2 = W2 \/ \E k \in DOMAIN t : OwnsNext(t, k) /\ H2 \ W2 = {t[k].obj}
  <2>1. ASSUME NEW k \in DOMAIN s, OwnsNext(s, k), k # 1
        PROVE  k - 1 \in DOMAIN t /\ OwnsNext(t, k - 1) /\ t[k - 1].obj = s[k].obj
    <3>1. k - 1 \in DOMAIN t /\ t[k - 1] = s[k] /\ s[k].op = "own" /\ s[k].obj \in {"out"} \X Nat
              /\ k \in Nat
      BY <1>1, <2>1 DEF OwnsNext
    <3>2. ASSUME NEW j \in 1 .. (k - 1) - 1 PROVE t[j].op # "take"
      <4>1. j + 1 \in 1 .. k - 1 /\ j + 1 \in DOMAIN s /\ j + 1 # 1 /\ (j + 1) - 1 = j
        BY <1>0, <3>1
      <4>2. t[j] = s[j + 1]
        BY <1>1, <4>1
      <4> QED
        BY <2>1, <4>1, <4>2 DEF OwnsNext
    <3> QED
      BY <3>1, <3>2 DEF OwnsNext
  <2>2. CASE h.op = "take"
    <3>1. H = W
      <4>1. ASSUME NEW k \in DOMAIN s, OwnsNext(s, k) PROVE FALSE
        BY <1>1, <2>2, <4>1 DEF OwnsNext
      <4> QED
        BY <4>1 DEF Building
    <3>2. H2 \ W2 = {h.obj}
      BY <2>2, <3>1 DEF Effect, h
    <3>3. PICK k \in DOMAIN s : /\ k > 1 /\ s[k].op = "own" /\ s[k].obj = h.obj
                                /\ \A j \in 2 .. k - 1 : s[j].op # "take"
                                /\ k = 2 \/ s[k].obj \in {"out"} \X Nat
      BY <1>1, <2>2 DEF Building, Taking
    <3>4. k - 1 \in DOMAIN t /\ t[k - 1] = s[k] /\ k \in Nat
      BY <1>1, <3>3
    <3>5. ASSUME NEW j \in 1 .. (k - 1) - 1 PROVE t[j].op # "take"
      <4>1. j + 1 \in 2 .. k - 1 /\ j + 1 \in DOMAIN s /\ j + 1 # 1 /\ (j + 1) - 1 = j
        BY <1>0, <3>3, <3>4
      <4>2. t[j] = s[j + 1]
        BY <1>1, <4>1
      <4> QED
        BY <3>3, <4>1, <4>2
    <3>6. OwnsNext(t, k - 1)
      BY <3>3, <3>4, <3>5 DEF OwnsNext
    <3> QED
      BY <3>2, <3>3, <3>4, <3>6
  <2>3. CASE h.op # "take"
    <3>1. CASE H = W
      <4>1. H2 = W2
        BY <2>3, <3>1 DEF Effect, h
      <4> QED
        BY <4>1
    <3>2. CASE H # W
      <4>1. PICK k \in DOMAIN s : OwnsNext(s, k) /\ H \ W = {s[k].obj}
        BY <3>2 DEF Building
      <4>2. CASE k = 1
        <5>1. h.op = "own" /\ H \ W = {h.obj}
          BY <1>1, <4>1, <4>2 DEF OwnsNext
        <5>2. H2 = W2
          BY <5>1 DEF Effect, h
        <5> QED
          BY <5>2
      <4>3. CASE k # 1
        <5>1. H2 = W2 \/ H2 \ W2 = {s[k].obj}
          BY <2>3, <4>1 DEF Effect, h
        <5> QED
          BY <2>1, <4>1, <4>3, <5>1
      <4> QED
        BY <4>2, <4>3
    <3> QED
      BY <3>1, <3>2
  <2> QED
    BY <2>2, <2>3
<1>8. Undone(class, H2, t)
  <2>1. Undone(class, H, s)
    BY DEF Building
  <2>2. ASSUME NEW i \in DOMAIN t, t[i].undo = "none"
        PROVE  H2 = {} /\ \A j \in 1 .. i - 1 : ~Makes(t[j])
    <3>1. i + 1 \in DOMAIN s /\ s[i + 1].undo = "none" /\ (i + 1) - 1 = i /\ i \in Nat \ {0}
      BY <1>1, <2>2
    <3>2. H = {} /\ \A j \in 1 .. i : ~Makes(s[j])
      BY <2>1, <3>1 DEF Undone
    <3>3. ~Makes(h)
      <4>1. 1 \in 1 .. i
        BY <3>1
      <4> QED
        BY <1>1, <3>2, <4>1
    <3>4. H2 = {}
      BY <3>2, <3>3 DEF Effect, Makes, h
    <3>5. ASSUME NEW j \in 1 .. i - 1 PROVE ~Makes(t[j])
      <4>1. j + 1 \in 1 .. i /\ j + 1 \in DOMAIN s /\ j + 1 # 1 /\ (j + 1) - 1 = j
        BY <1>0, <3>1
      <4>2. t[j] = s[j + 1]
        BY <1>1, <4>1
      <4> QED
        BY <3>2, <4>1, <4>2
    <3> QED
      BY <3>4, <3>5
  <2>3. ASSUME NEW i \in DOMAIN t, t[i].undo = "stage"
        PROVE  IsAcl(class) /\ \A o \in Five : o \in H2 \/ \E j \in 1 .. i - 1 : Makes(t[j])
           /\ t[j].obj = o
    <3>1. i + 1 \in DOMAIN s /\ s[i + 1].undo = "stage" /\ (i + 1) - 1 = i /\ i \in Nat \ {0}
      BY <1>1, <2>3
    <3>2. IsAcl(class) /\ \A o \in Five : o \in H \/ \E j \in 1 .. i : Makes(s[j]) /\ s[j].obj = o
      BY <2>1, <3>1 DEF Undone
    <3>3. h.op # "free"
      BY <1>3, <3>2
    <3>4. H \subseteq H2 /\ (Makes(h) => h.obj \in H2)
      BY <3>3 DEF Effect, Makes, h
    <3>5. ASSUME NEW o \in Five, o \notin H2 PROVE \E j \in 1 .. i - 1 : Makes(t[j]) /\ t[j].obj = o
      <4>1. PICK j \in 1 .. i : Makes(s[j]) /\ s[j].obj = o
        BY <3>2, <3>4, <3>5
      <4>2. j # 1
        BY <1>1, <3>4, <3>5, <4>1
      <4>4. j - 1 \in 1 .. i - 1 /\ j \in DOMAIN s
        BY <1>0, <3>1, <4>2
      <4>3. j - 1 \in 1 .. i - 1 /\ t[j - 1] = s[j]
        BY <1>1, <4>2, <4>4
      <4> QED
        BY <4>1, <4>3
    <3> QED
      BY <3>2, <3>5
  <2> QED
    BY <2>2, <2>3 DEF Undone
<1>9. ~IsAcl(class) /\ kind = "model" => <<"engine", 0>> \in H2 \union MadeBy(t)
  <2> SUFFICES ASSUME ~IsAcl(class), kind = "model" PROVE <<"engine", 0>> \in H2 \union MadeBy(t)
    OBVIOUS
  <2>1. <<"engine", 0>> \in H \union MadeBy(s)
    BY DEF Building
  <2>2. CASE Makes(h) /\ h.obj = <<"engine", 0>>
    BY <2>2 DEF Effect, Makes, h
  <2>3. CASE ~(Makes(h) /\ h.obj = <<"engine", 0>>)
    <3>1. <<"engine", 0>> \in H \union MadeBy(t)
      BY <1>2, <2>1, <2>3
    <3>2. h.op = "free" => h.obj # <<"engine", 0>>
      BY <1>3
    <3>3. <<"engine", 0>> \in H => <<"engine", 0>> \in H2
      BY <3>2 DEF Effect, h
    <3> QED
      BY <3>1, <3>3
  <2> QED
    BY <2>2, <2>3
<1> QED
  BY <1>4, <1>5, <1>6, <1>7, <1>8, <1>9 DEF Building, t

(* A clean-up goes on as such; a call of it takes from what is left to release,
   and what it will not release stays as it is. *)
LEMMA CleanStep ==
  ASSUME NEW H, NEW W, NEW H2, NEW W2, NEW s \in Seq(CallSet), s # << >>,
         Effect(Head(s), H, W, H2, W2), Cleaning(s)
  PROVE  /\ Cleaning(Tail(s))
         /\ H2 \subseteq H /\ (H = W => H2 = W2)
         /\ Kept(H2, W2, Tail(s)) = Kept(H, W, s)
<1> DEFINE t == Tail(s)
           h == Head(s)
<1>1. /\ 1 \in DOMAIN s /\ h = s[1]
      /\ \A i \in DOMAIN t : i + 1 \in DOMAIN s /\ t[i] = s[i + 1]
  BY TailFacts
<1>2. FreedBy(s) = FreedBy(t) \union (IF h.op = "free" THEN {h.obj} ELSE {})
  BY MadeFreed
<1> HIDE DEF t, h
<1>3. h.op \in {"bind", "free"} /\ Cleaning(t)
  BY <1>1 DEF Cleaning
<1>4. H2 \subseteq H /\ (H = W => H2 = W2)
  BY <1>3 DEF Effect, h
<1>5. Kept(H2, W2, t) = Kept(H, W, s)
  <2>1. H2 \ (W2 \intersect FreedBy(t)) = H \ (W \intersect FreedBy(s))
    BY <1>2, <1>3 DEF Effect, h
  <2> QED
    BY <2>1 DEF Kept
<1> QED
  BY <1>3, <1>4, <1>5 DEF t

(* Short sequences. *)
LEMMA Tuples ==
  ASSUME NEW A
  PROVE  /\ \A a \in A : <<a>> \in Seq(A) /\ Len(<<a>>) = 1 /\ <<a>>[1] = a
         /\ \A a, b \in A : <<a, b>> \in Seq(A) /\ Len(<<a, b>>) = 2 /\ <<a, b>>[1] = a
                /\ <<a, b>>[2] = b
         /\ \A a, b, c \in A : <<a, b, c>> \in Seq(A) /\ Len(<<a, b, c>>) = 3
                               /\ <<a, b, c>>[1] = a /\ <<a, b, c>>[2] = b /\ <<a, b, c>>[3] = c
         /\ \A a, b, c, d \in A :
              <<a, b, c, d>> \in Seq(A) /\ Len(<<a, b, c, d>>) = 4 /\ <<a, b, c, d>>[1] = a
              /\ <<a, b, c, d>>[2] = b /\ <<a, b, c, d>>[3] = c /\ <<a, b, c, d>>[4] = d
         /\ \A a, b, c, d, e \in A :
              <<a, b, c, d, e>> \in Seq(A) /\ Len(<<a, b, c, d, e>>) = 5 /\ <<a, b, c, d, e>>[1] = a
              /\ <<a, b, c, d, e>>[2] = b /\ <<a, b, c, d, e>>[3] = c /\ <<a, b, c, d, e>>[4] = d
              /\ <<a, b, c, d, e>>[5] = e
  OBVIOUS

(* What an Ascend object needs, and what one on Orin does. *)
LEMMA LocalAcl ==
  ASSUME NEW class, IsAcl(class), NEW kind
  PROVE  /\ env # <<"context", 0>>
         /\ Local(class, kind, env) = {}
         /\ Local(class, kind, <<"context", 0>>) = {env}
         /\ \A o : o # env /\ o # <<"context", 0>> => Local(class, kind, o) = {<<"context", 0>>}
  BY DEF Local, env

(* What each Orin object needs of its owner. *)
LEMMA LocalTrt ==
  ASSUME NEW class, ~IsAcl(class), NEW kind
  PROVE  /\ Local(class, kind, <<"engine", 0>>) = {<<"runtime", 0>>}
         /\ Local(class, kind, <<"exec", 0>>) = (IF kind = "model" THEN {<<"engine", 0>>} ELSE {})
                                   \union (IF class = "FusionTrt" THEN {<<"stream", 0>>} ELSE {})
         /\ \A o : o # <<"engine", 0>> /\ o # <<"exec", 0>> => Local(class, kind, o) = {}
  BY DEF Local

(* The objects every Ascend context creates first. *)
LEMMA FiveFacts ==
  /\ \A o : o \in Five <=> o = env \/ o = <<"context", 0>> \/ o = <<"stream", 0>>
         \/ o = <<"model", 0>> \/ o = <<"desc", 0>>
  /\ env # <<"context", 0>> /\ env # <<"stream", 0>> /\ env # <<"model", 0>> /\ env # <<"desc", 0>>
  /\ <<"context", 0>> # <<"stream", 0>> /\ <<"context", 0>> # <<"model", 0>>
         /\ <<"context", 0>> # <<"desc", 0>>
  /\ {env, <<"context", 0>>, <<"stream", 0>>, <<"model", 0>>, <<"desc", 0>>} = Five
  BY DEF Five, env

------------------------------------------------------------------------------
(* The Ascend sequences. *)

(* The calls of an Ascend constructor after init, for an owner that can have the
   objects F. *)
StageCalls(F) ==
  {c \in CallSet : /\ c.op \in {"get", "bind", "check", "try"} /\ c.undo \in {"stage", "destroy"}
                   /\ c.op = "get" => c.obj \in F \ Five}

(* A constructor of this form is sound from its first call on. *)
LEMMA AclForm ==
  ASSUME NEW class, IsAcl(class), NEW kind, NEW F, Five \subseteq F, NEW T \in Seq(StageCalls(F))
  PROVE  /\ AclInit \o T \in Seq(CallSet)
         /\ Sound(class, kind, {}, AclInit \o T)
         /\ Building(class, kind, {}, {}, AclInit \o T)
         /\ MadeBy(AclInit \o T) \subseteq F
<1> DEFINE s == AclInit \o T
<1>1. /\ AclInit \in Seq(CallSet) /\ Len(AclInit) = 8
      /\ AclInit[1].obj = env /\ AclInit[1].op = "get" /\ AclInit[1].undo = "none"
      /\ AclInit[2].obj = <<"context", 0>> /\ AclInit[2].op = "get" /\ AclInit[2].undo = "destroy"
      /\ AclInit[3].op = "bind" /\ AclInit[3].undo = "destroy"
      /\ AclInit[4].obj = <<"stream", 0>> /\ AclInit[4].op = "get" /\ AclInit[4].undo = "destroy"
      /\ AclInit[5].obj = <<"model", 0>> /\ AclInit[5].op = "get" /\ AclInit[5].undo = "destroy"
      /\ AclInit[6].obj = <<"desc", 0>> /\ AclInit[6].op = "get" /\ AclInit[6].undo = "destroy"
      /\ AclInit[7].op = "try" /\ AclInit[7].undo = "destroy"
      /\ AclInit[8].op = "try" /\ AclInit[8].undo = "destroy"
  <2> DEFINE a1 == Get("env", "none")         a2 == Get("context", "destroy")
             a3 == Bind("destroy")            a4 == Get("stream", "destroy")
             a5 == Get("model", "destroy")    a6 == Get("desc", "destroy")
             a7 == Try("aclmdlGetDesc", "destroy") a8 == Try("queryTensorDesc", "destroy")
  <2>1. a1 \in CallSet /\ a1.obj = env /\ a1.op = "get" /\ a1.undo = "none"
    BY DEF Get, env, Step, CallSet, Ops, Names, Undos
  <2>2. a2 \in CallSet /\ a2.obj = <<"context", 0>> /\ a2.op = "get" /\ a2.undo = "destroy"
    BY DEF Get, Step, CallSet, Ops, Names, Undos
  <2>3. a3 \in CallSet /\ a3.op = "bind" /\ a3.undo = "destroy"
    BY DEF Bind, Step, CallSet, Ops, Names, Undos
  <2>4. a4 \in CallSet /\ a4.obj = <<"stream", 0>> /\ a4.op = "get" /\ a4.undo = "destroy"
    BY DEF Get, Step, CallSet, Ops, Names, Undos
  <2>5. a5 \in CallSet /\ a5.obj = <<"model", 0>> /\ a5.op = "get" /\ a5.undo = "destroy"
    BY DEF Get, Step, CallSet, Ops, Names, Undos
  <2>6. a6 \in CallSet /\ a6.obj = <<"desc", 0>> /\ a6.op = "get" /\ a6.undo = "destroy"
    BY DEF Get, Step, CallSet, Ops, Names, Undos
  <2>7. a7 \in CallSet /\ a7.op = "try" /\ a7.undo = "destroy" /\ a8 \in CallSet /\ a8.op = "try"
            /\ a8.undo = "destroy"
    BY DEF Try, Step, CallSet, Ops, Names, Undos
  <2>8. AclInit = <<a1, a2, a3, a4, a5, a6, a7, a8>>
    BY DEF AclInit
  <2> HIDE DEF a1, a2, a3, a4, a5, a6, a7, a8
  <2>9. /\ AclInit \in Seq(CallSet) /\ Len(AclInit) = 8
        /\ AclInit[1] = a1 /\ AclInit[2] = a2 /\ AclInit[3] = a3 /\ AclInit[4] = a4
        /\ AclInit[5] = a5 /\ AclInit[6] = a6 /\ AclInit[7] = a7 /\ AclInit[8] = a8
    BY <2>1, <2>2, <2>3, <2>4, <2>5, <2>6, <2>7, <2>8
  <2> QED
    BY <2>1, <2>2, <2>3, <2>4, <2>5, <2>6, <2>7, <2>9
<1>2. T \in Seq(CallSet)
  BY DEF StageCalls
<1>3. PICK n \in Nat : n = Len(T)
  BY <1>2
<1>4. /\ s \in Seq(CallSet) /\ DOMAIN s = 1 .. 8 + n
      /\ \A i \in 1 .. 8 : s[i] = AclInit[i]
      /\ \A i \in 1 .. n : s[8 + i] \in StageCalls(F)
  <2>1. PICK a \in Seq(CallSet) : a = AclInit /\ Len(a) = 8
    BY <1>1
  <2>2. /\ a \o T \in Seq(CallSet) /\ DOMAIN (a \o T) = 1 .. 8 + n
        /\ \A i \in 1 .. 8 : (a \o T)[i] = a[i]
        /\ \A i \in 1 .. n : (a \o T)[8 + i] = T[i]
    <3>1. /\ a \o T \in Seq(CallSet) /\ DOMAIN (a \o T) = 1 .. Len(a) + Len(T)
          /\ \A i \in 1 .. Len(a) : (a \o T)[i] = a[i]
          /\ \A i \in 1 .. Len(T) : (a \o T)[Len(a) + i] = T[i]
      BY <1>2, Joined
    <3> QED
      BY <1>3, <2>1, <3>1
  <2>3. \A i \in 1 .. n : T[i] \in StageCalls(F)
    BY <1>3
  <2> QED
    BY <2>1, <2>2, <2>3
<1> HIDE DEF s
<1>5. /\ s[1].obj = env /\ Makes(s[1])
      /\ s[2].obj = <<"context", 0>> /\ Makes(s[2])
      /\ \A i \in DOMAIN s : s[i].op \in {"get", "bind", "check", "try"}
      /\ \A i \in DOMAIN s : Makes(s[i]) => s[i].obj \in F
      /\ \A i \in DOMAIN s : i > 2 /\ Makes(s[i]) => s[i].obj # env /\ s[i].obj # <<"context", 0>>
  <2>1. s[1].obj = env /\ Makes(s[1]) /\ s[2].obj = <<"context", 0>> /\ Makes(s[2])
    BY <1>1, <1>4 DEF Makes
  <2>2. ASSUME NEW i \in 1 .. 8
        PROVE  s[i].op \in {"get", "bind", "check", "try"} /\ (Makes(s[i]) => s[i].obj \in Five)
               /\ (i > 2 /\ Makes(s[i]) => s[i].obj # env /\ s[i].obj # <<"context", 0>>)
    <3>1. i \in {1, 2, 3, 4, 5, 6, 7, 8}
      OBVIOUS
    <3>2. s[i] = AclInit[i]
      BY <1>4
    <3>3. env \in Five /\ <<"context", 0>> \in Five /\ <<"stream", 0>> \in Five
              /\ <<"model", 0>> \in Five /\ <<"desc", 0>> \in Five
      BY DEF Five
    <3>4. CASE i \in {1, 2}
      <4>1. s[i].op = "get" /\ s[i].obj \in {env, <<"context", 0>>}
        BY <1>1, <3>2, <3>4
      <4>2. ~(i > 2)
        BY <3>4
      <4> QED
        BY <3>3, <4>1, <4>2
    <3>5. CASE i \in {3, 7, 8}
      BY <1>1, <3>2, <3>5 DEF Makes
    <3>6. CASE i \in {4, 5, 6}
      <4>1. s[i].op = "get" /\ s[i].obj \in {<<"stream", 0>>, <<"model", 0>>, <<"desc", 0>>}
        BY <1>1, <3>2, <3>6
      <4> QED
        BY <3>3, <4>1, FiveFacts
    <3> QED
      BY <3>1, <3>4, <3>5, <3>6
  <2>3. ASSUME NEW i \in 9 .. 8 + n
        PROVE  s[i].op \in {"get", "bind", "check", "try"} /\ (Makes(s[i]) => s[i].obj \in F \ Five)
    <3>1. i - 8 \in 1 .. n /\ 8 + (i - 8) = i
      OBVIOUS
    <3>2. s[i] \in StageCalls(F)
      BY <1>4, <3>1
    <3> QED
      BY <3>2 DEF StageCalls, Makes
  <2>4. \A i \in DOMAIN s : i \in 1 .. 8 \/ i \in 9 .. 8 + n
    BY <1>4
  <2>5. env \in Five /\ <<"context", 0>> \in Five
    BY DEF Five
  <2> QED
    BY <2>1, <2>2, <2>3, <2>4, <2>5
<1>6. Sound(class, kind, {}, s)
  <2>1. Ordered(s) /\ Orderly(class, kind, {}, s)
    BY <1>5 DEF Ordered, Orderly
  <2>2. ASSUME NEW i \in DOMAIN s, Makes(s[i]), NEW o \in Local(class, kind, s[i].obj)
        PROVE  \E k \in 1 .. i - 1 : Makes(s[k]) /\ s[k].obj = o
    <3>1. i \in Nat /\ i >= 1
      BY <1>4
    <3>2. CASE i = 1
      BY <1>5, <2>2, <3>2, LocalAcl
    <3>3. CASE i = 2
      <4>1. o = env
        BY <1>5, <2>2, <3>3, LocalAcl
      <4>2. 1 \in 1 .. i - 1
        BY <3>3
      <4> QED
        BY <1>5, <4>1, <4>2
    <3>4. CASE i > 2
      <4>3. s[i].obj # env /\ s[i].obj # <<"context", 0>>
        BY <1>5, <2>2, <3>4
      <4>4. Local(class, kind, s[i].obj) = {<<"context", 0>>}
        BY <4>3, LocalAcl
      <4>1. o = <<"context", 0>>
        BY <2>2, <4>4
      <4>2. 2 \in 1 .. i - 1
        BY <3>1, <3>4
      <4> QED
        BY <1>5, <4>1, <4>2
    <3> QED
      BY <3>1, <3>2, <3>3, <3>4
  <2> QED
    BY <2>1, <2>2 DEF Sound, Grounded
<1>7. Undone(class, {}, s)
  <2>1. ASSUME NEW i \in DOMAIN s, s[i].undo = "none" PROVE i = 1
    <3>1. i \in {2, 3, 4, 5, 6, 7, 8} \/ i - 8 \in 1 .. n \/ i = 1
      BY <1>4, SMTT(60)
    <3>2. i - 8 \in 1 .. n => s[i].undo # "none"
      <4>1. i - 8 \in 1 .. n => 8 + (i - 8) = i
        BY <1>4
      <4> QED
        BY <1>4, <4>1 DEF StageCalls
    <3> QED
      BY <1>1, <1>4, <2>1, <3>1, <3>2, SMTT(60)
  <2>2. ASSUME NEW i \in DOMAIN s, s[i].undo = "stage" PROVE i \in Nat /\ i > 8
    <3>1. i \in Nat /\ (i \in {1, 2, 3, 4, 5, 6, 7, 8} \/ i > 8)
      BY <1>4
    <3> QED
      BY <1>1, <1>4, <2>2, <3>1, SMTT(60)
  <2>3. ASSUME NEW i \in Nat, i > 8, NEW o \in Five
        PROVE \E j \in 1 .. i - 1 : Makes(s[j]) /\ s[j].obj = o
    <3>1. 1 \in 1 .. i - 1 /\ 2 \in 1 .. i - 1 /\ 4 \in 1 .. i - 1 /\ 5 \in 1 .. i - 1
              /\ 6 \in 1 .. i - 1
      BY <2>3
    <3>2. Makes(s[1]) /\ Makes(s[2]) /\ Makes(s[4]) /\ Makes(s[5]) /\ Makes(s[6])
      BY <1>1, <1>4 DEF Makes
    <3>3. o \in {s[1].obj, s[2].obj, s[4].obj, s[5].obj, s[6].obj}
      <4>1. /\ s[1].obj = env /\ s[2].obj = <<"context", 0>> /\ s[4].obj = <<"stream", 0>>
            /\ s[5].obj = <<"model", 0>> /\ s[6].obj = <<"desc", 0>>
        BY <1>1, <1>4
      <4> QED
        BY <4>1, FiveFacts
    <3> QED
      BY <3>1, <3>2, <3>3
  <2> QED
    BY <2>1, <2>2, <2>3, SMTT(60) DEF Undone
<1>8. Building(class, kind, {}, {}, s)
  BY <1>5, <1>7 DEF Building, Taking
<1>9. MadeBy(s) \subseteq F
  BY <1>5 DEF MadeBy
<1> QED
  BY <1>4, <1>6, <1>8, <1>9 DEF s

(* What the clean-up of the stage calls: it leaves what init created. *)
StageFrees == {c \in CallSet : c.op = "bind" \/ (c.op = "free" /\ c.obj \notin Five)}

DestroyEnd == <<Free("desc"), Free("model"), Free("stream"), Free("context"), Free("env")>>

(* A clean-up of this form is sound, whatever has been created. *)
LEMMA AclUndoForm ==
  ASSUME NEW class, IsAcl(class), NEW kind, NEW F, NEW R \in Seq(StageFrees),
     F \ Five \subseteq FreedBy(R),
         NEW H, H \subseteq F
  PROVE  /\ R \in Seq(CallSet) /\ R \o DestroyEnd \in Seq(CallSet)
         /\ Cleaning(R) /\ Cleaning(R \o DestroyEnd)
         /\ Sound(class, kind, H, R) /\ Sound(class, kind, H, R \o DestroyEnd)
         /\ F \subseteq FreedBy(R \o DestroyEnd)
         /\ FreedBy(R) \intersect Five = {}
<1> DEFINE s == R \o DestroyEnd
<1>1. /\ DestroyEnd \in Seq(CallSet) /\ Len(DestroyEnd) = 5
      /\ DestroyEnd[1].obj = <<"desc", 0>> /\ DestroyEnd[2].obj = <<"model", 0>>
      /\ DestroyEnd[3].obj = <<"stream", 0>> /\ DestroyEnd[4].obj = <<"context", 0>>
      /\ DestroyEnd[5].obj = env
      /\ DestroyEnd[1].op = "free" /\ DestroyEnd[2].op = "free" /\ DestroyEnd[3].op = "free"
      /\ DestroyEnd[4].op = "free" /\ DestroyEnd[5].op = "free"
  <2>1. ASSUME NEW name \in Names
        PROVE  Free(name) \in CallSet /\ Free(name).op = "free" /\ Free(name).obj = <<name, 0>>
    BY DEF Free, Step, CallSet, Ops, Names, Undos
  <2>2. /\ DestroyEnd \in Seq(CallSet) /\ Len(DestroyEnd) = 5
        /\ DestroyEnd[1] = Free("desc") /\ DestroyEnd[2] = Free("model")
               /\ DestroyEnd[3] = Free("stream")
        /\ DestroyEnd[4] = Free("context") /\ DestroyEnd[5] = Free("env")
    <3>1. PICK a, b, c, d, e \in CallSet : /\ a = Free("desc") /\ b = Free("model") /\ c = Free("stream")
                                           /\ d = Free("context") /\ e = Free("env")
      BY <2>1 DEF Names
    <3> QED
      BY <3>1, Tuples DEF DestroyEnd
  <2> QED
    BY <2>1, <2>2 DEF env, Names
<1>2. R \in Seq(CallSet)
  BY DEF StageFrees
<1>3. PICK n \in Nat : n = Len(R)
  BY <1>2
<1>4. /\ s \in Seq(CallSet) /\ DOMAIN s = 1 .. n + 5 /\ DOMAIN R = 1 .. n
      /\ \A i \in 1 .. n : s[i] = R[i] /\ R[i] \in StageFrees
      /\ \A i \in 1 .. 5 : s[n + i] = DestroyEnd[i]
  <2>1. PICK e \in Seq(CallSet) : e = DestroyEnd /\ Len(e) = 5
    BY <1>1
  <2>2. /\ R \o e \in Seq(CallSet) /\ DOMAIN (R \o e) = 1 .. n + 5 /\ DOMAIN R = 1 .. n
        /\ \A i \in 1 .. n : (R \o e)[i] = R[i]
        /\ \A i \in 1 .. 5 : (R \o e)[n + i] = e[i]
    <3>1. /\ R \o e \in Seq(CallSet) /\ DOMAIN (R \o e) = 1 .. Len(R) + Len(e)
                 /\ DOMAIN R = 1 .. Len(R)
          /\ \A i \in 1 .. Len(R) : (R \o e)[i] = R[i]
          /\ \A i \in 1 .. Len(e) : (R \o e)[Len(R) + i] = e[i]
      BY <1>2, Joined
    <3> QED
      BY <1>3, <2>1, <3>1
  <2>3. \A i \in 1 .. n : R[i] \in StageFrees
    BY <1>3
  <2> QED
    BY <2>1, <2>2, <2>3
<1>5. /\ s[n + 1].obj = <<"desc", 0>> /\ s[n + 2].obj = <<"model", 0>>
      /\ s[n + 3].obj = <<"stream", 0>> /\ s[n + 4].obj = <<"context", 0>> /\ s[n + 5].obj = env
      /\ s[n + 1].op = "free" /\ s[n + 2].op = "free" /\ s[n + 3].op = "free"
      /\ s[n + 4].op = "free" /\ s[n + 5].op = "free"
  BY <1>1, <1>4, SMTT(60)
<1> HIDE DEF s
<1>6. Cleaning(R) /\ Cleaning(s)
  <2>1. \A i \in 1 .. n : R[i].op \in {"bind", "free"}
    BY <1>4 DEF StageFrees
  <2>2. \A i \in 1 .. n + 5 : i \in 1 .. n \/ i \in {n + 1, n + 2, n + 3, n + 4, n + 5}
    OBVIOUS
  <2> QED
    BY <1>4, <1>5, <2>1, <2>2 DEF Cleaning
<1>7. FreedBy(R) \intersect Five = {}
  BY <1>4 DEF FreedBy, StageFrees
<1>8. F \subseteq FreedBy(s)
  <2> SUFFICES ASSUME NEW o \in F PROVE \E i \in DOMAIN s : s[i].op = "free" /\ s[i].obj = o
    BY DEF FreedBy
  <2>1. CASE o \in Five
    <3>1. n + 1 \in DOMAIN s /\ n + 2 \in DOMAIN s /\ n + 3 \in DOMAIN s /\ n + 4 \in DOMAIN s
              /\ n + 5 \in DOMAIN s
      BY <1>4, SMTT(60)
    <3>2. o \in {s[n + 1].obj, s[n + 2].obj, s[n + 3].obj, s[n + 4].obj, s[n + 5].obj}
      BY <1>5, <2>1, FiveFacts
    <3> QED
      BY <1>5, <3>1, <3>2
  <2>2. CASE o \notin Five
    <3>1. PICK i \in 1 .. n : R[i].op = "free" /\ R[i].obj = o
      BY <1>4, <2>2 DEF FreedBy
    <3> QED
      BY <1>4, <3>1, SMTT(60)
  <2> QED
    BY <2>1, <2>2
<1>9. MadeBy(R) = {} /\ MadeBy(s) = {} /\ Ordered(R) /\ Ordered(s)
      /\ (\A i \in DOMAIN R : ~Makes(R[i])) /\ (\A i \in DOMAIN s : ~Makes(s[i]))
  BY <1>6 DEF Cleaning, MadeBy, Ordered, Makes
<1>10. Sound(class, kind, H, R)
  <2>1. ASSUME NEW i \in DOMAIN R, R[i].op = "free", NEW p
        PROVE R[i].obj \notin Local(class, kind, p)
    <3>1. R[i].obj \notin Five
      BY <1>4, <2>1 DEF StageFrees
    <3>2. R[i].obj # env /\ R[i].obj # <<"context", 0>>
      BY <3>1, FiveFacts
    <3>3. p = env \/ p = <<"context", 0>> \/ (p # env /\ p # <<"context", 0>>)
      OBVIOUS
    <3>4. Local(class, kind, p) \in {{}, {env}, {<<"context", 0>>}}
      BY <3>3, LocalAcl
    <3> QED
      BY <3>2, <3>4
  <2> QED
    BY <1>9, <2>1 DEF Sound, Grounded, Orderly
<1>11. Sound(class, kind, H, s)
  <2> SUFFICES ASSUME NEW i \in DOMAIN s, s[i].op = "free", NEW p \in H,
         s[i].obj \in Local(class, kind, p)
               PROVE  \E k \in 1 .. i - 1 : s[k].op = "free" /\ s[k].obj = p
    BY <1>9 DEF Sound, Grounded, Orderly
  <2>1. s[i].obj \in {env, <<"context", 0>>}
    BY LocalAcl
  <2>2. CASE i \in 1 .. n
    <3>1. s[i].obj \notin Five
      BY <1>4, <2>2 DEF StageFrees
    <3> QED
      BY <2>1, <3>1, FiveFacts
  <2>3. CASE i = n + 5
    <3>1. p = <<"context", 0>>
      <4>1. env \in Local(class, kind, p)
        BY <1>5, <2>3
      <4>2. env # <<"context", 0>> /\ p # env
        BY <4>1, LocalAcl
      <4>3. p # <<"context", 0>> => Local(class, kind, p) = {<<"context", 0>>}
        BY <4>2, LocalAcl
      <4> QED
        BY <4>1, <4>2, <4>3
    <3>2. n + 4 \in 1 .. i - 1
      BY <2>3
    <3> QED
      BY <1>5, <3>1, <3>2
  <2>4. CASE i = n + 4
    <3>1. p \notin {env, <<"context", 0>>}
      BY <1>5, <2>4, LocalAcl, SMTT(60)
    <3>2. PICK k \in DOMAIN s : s[k].op = "free" /\ s[k].obj = p
      BY <1>8 DEF FreedBy
    <3>3. k # n + 4 /\ k # n + 5
      BY <1>5, <3>1, <3>2
    <3>4. k \in 1 .. i - 1
      BY <1>4, <2>4, <3>3, SMTT(60)
    <3> QED
      BY <3>2, <3>4
  <2>5. CASE i \in {n + 1, n + 2, n + 3}
    <3>1. s[i].obj \in {<<"desc", 0>>, <<"model", 0>>, <<"stream", 0>>}
      BY <1>5, <2>5
    <3> QED
      BY <2>1, <3>1, FiveFacts
  <2>6. i \in 1 .. n \/ i \in {n + 1, n + 2, n + 3} \/ i = n + 4 \/ i = n + 5
    BY <1>4
  <2> QED
    BY <2>2, <2>3, <2>4, <2>5, <2>6
<1> QED
  BY <1>2, <1>4, <1>6, <1>7, <1>8, <1>10, <1>11 DEF s

(* The loop of a program, with calls of one kind. *)
LEMMA LoopSeq ==
  ASSUME NEW A, NEW n \in Nat, NEW f, \A i \in 1 .. n : f[i] \in Seq(A), f = [i \in 1 .. n |-> f[i]]
  PROVE  FlattenSeq(f) \in Seq(A)
<1>1. Closed(Seq(A), A)
  BY DEF Closed
<1>2. f \in Seq(Seq(A))
  OBVIOUS
<1> QED
  BY <1>1, <1>2, FlattenIn

(* What the rounds of a loop release, the loop does. *)
LEMMA LoopFrees ==
  ASSUME NEW n \in Nat, NEW f, \A i \in 1 .. n : f[i] \in Seq(CallSet), f = [i \in 1 .. n |-> f[i]],
         NEW k \in 1 .. n
  PROVE  FreedBy(f[k]) \subseteq FreedBy(FlattenSeq(f))
<1>1. f \in Seq(Seq(CallSet)) /\ DOMAIN f = 1 .. n
  OBVIOUS
<1>2. \A j \in DOMAIN f[k] : \E m \in DOMAIN FlattenSeq(f) : FlattenSeq(f)[m] = f[k][j]
  BY <1>1, FlattenHas
<1>3. ASSUME NEW o \in FreedBy(f[k]) PROVE o \in FreedBy(FlattenSeq(f))
  <2>1. PICK j \in DOMAIN f[k] : f[k][j].op = "free" /\ f[k][j].obj = o
    BY DEF FreedBy
  <2>2. PICK m \in DOMAIN FlattenSeq(f) : FlattenSeq(f)[m] = f[k][j]
    BY <1>2
  <2> QED
    BY <2>1, <2>2 DEF FreedBy
<1> QED
  BY <1>3

(* One part after the other. *)
LEMMA JoinedFrees ==
  ASSUME NEW s \in Seq(CallSet), NEW t \in Seq(CallSet)
  PROVE  FreedBy(s \o t) = FreedBy(s) \union FreedBy(t)
<1>1. ASSUME NEW i \in DOMAIN s PROVE i \in DOMAIN (s \o t) /\ (s \o t)[i] = s[i]
  BY Joined
<1>2. ASSUME NEW i \in DOMAIN t PROVE Len(s) + i \in DOMAIN (s \o t) /\ (s \o t)[Len(s) + i] = t[i]
  BY Joined
<1>3. ASSUME NEW i \in DOMAIN (s \o t)
      PROVE  (i \in DOMAIN s /\ (s \o t)[i] = s[i]) \/ \E j \in DOMAIN t : (s \o t)[i] = t[j]
  <2>1. CASE i \in 1 .. Len(s)
    BY <2>1, Joined
  <2>2. CASE i \notin 1 .. Len(s)
    <3>1. i - Len(s) \in DOMAIN t /\ Len(s) + (i - Len(s)) = i
      BY <2>2, Joined
    <3> QED
      BY <3>1, Joined
  <2> QED
    BY <2>1, <2>2
<1> DEFINE u == s \o t
<1> HIDE DEF u
<1>4. ASSUME NEW o \in FreedBy(u) PROVE o \in FreedBy(s) \union FreedBy(t)
  <2>1. PICK i \in DOMAIN u : u[i].op = "free" /\ u[i].obj = o
    BY DEF FreedBy
  <2> QED
    BY <1>3, <2>1 DEF FreedBy, u
<1>5. FreedBy(s) \subseteq FreedBy(u)
  BY <1>1 DEF FreedBy, u
<1>6. FreedBy(t) \subseteq FreedBy(u)
  BY <1>2 DEF FreedBy, u
<1> QED
  BY <1>4, <1>5, <1>6 DEF u

(* A sequence of one call. *)
LEMMA OneCall ==
  ASSUME NEW c \in CallSet
  PROVE  /\ <<c>> \in Seq(CallSet) /\ MadeBy(<<c>>) = (IF Makes(c) THEN {c.obj} ELSE {})
         /\ FreedBy(<<c>>) = (IF c.op = "free" THEN {c.obj} ELSE {})
<1>1. DOMAIN <<c>> = {1} /\ <<c>>[1] = c /\ <<c>> \in Seq(CallSet)
  OBVIOUS
<1> DEFINE s == <<c>>
<1> HIDE DEF s
<1>2. DOMAIN s = {1} /\ s[1] = c
  BY <1>1 DEF s
<1>3. MadeBy(s) = (IF Makes(c) THEN {c.obj} ELSE {})
  BY <1>2 DEF MadeBy
<1>4. FreedBy(s) = (IF c.op = "free" THEN {c.obj} ELSE {})
  BY <1>2 DEF FreedBy
<1> QED
  BY <1>1, <1>3, <1>4 DEF s

(* prepareStage's calls are of the kind the constructor's form asks for. *)
LEMMA AclStageForm ==
  ASSUME NEW class, IsAcl(class), Ins(class) \in Nat, Outs(class) \in Nat
  PROVE  AclStage(class) \in Seq(StageCalls(Full(class, "context", Ins(class), Outs(class))))
<1>1. PICK n \in Nat, m \in Nat : n = Ins(class) /\ m = Outs(class)
  OBVIOUS
<1> DEFINE F == Full(class, "context", n, m)
           C == StageCalls(F)
           ins == [i \in 1 .. n |-> <<GetAt("in", i, "stage"), GetAt("inBuffer", i, "stage")>>]
           outs == [i \in 1 .. m |-> <<GetAt("out", i, "stage"), GetAt("outBuffer", i, "stage")>>]
           first == <<Bind("stage"), Get("inSet", "stage"), Get("outSet", "stage")>>
<1>2. AclStage(class) = first \o FlattenSeq(ins) \o FlattenSeq(outs)
  BY <1>1 DEF AclStage, ForEach
<1>3. F = Five \union ({"inSet", "outSet"} \X {0}) \union ({"in", "inBuffer"} \X (1 .. n))
          \union ({"out", "outBuffer"} \X (1 .. m))
  BY DEF Full
<1>4. ASSUME NEW name \in {"inSet", "outSet"} PROVE Get(name, "stage") \in C
  <2>1. <<name, 0>> \in F \ Five
    BY <1>3, FiveFacts DEF env
  <2> QED
    BY <2>1 DEF Get, Step, StageCalls, CallSet, Ops, Names, Undos
<1>5. ASSUME NEW i \in 1 .. n, NEW name \in {"in", "inBuffer"} PROVE GetAt(name, i, "stage") \in C
  <2>1. <<name, i>> \in F \ Five
    BY <1>3, FiveFacts DEF env
  <2> QED
    BY <2>1 DEF GetAt, Step, StageCalls, CallSet, Ops, Names, Undos
<1>6. ASSUME NEW i \in 1 .. m, NEW name \in {"out", "outBuffer"} PROVE GetAt(name, i, "stage") \in C
  <2>1. <<name, i>> \in F \ Five
    BY <1>3, FiveFacts DEF env
  <2> QED
    BY <2>1 DEF GetAt, Step, StageCalls, CallSet, Ops, Names, Undos
<1>7. Bind("stage") \in C
  BY DEF Bind, Step, StageCalls, CallSet, Ops, Names, Undos
<1>8. first \in Seq(C)
  <2>1. Get("inSet", "stage") \in C /\ Get("outSet", "stage") \in C
    BY <1>4
  <2> HIDE DEF C
  <2> QED
    BY <1>7, <2>1
<1>9. \A i \in 1 .. n : ins[i] \in Seq(C)
  <2> SUFFICES ASSUME NEW i \in 1 .. n PROVE ins[i] \in Seq(C)
    OBVIOUS
  <2>1. GetAt("in", i, "stage") \in C /\ GetAt("inBuffer", i, "stage") \in C
    BY <1>5
  <2> HIDE DEF C
  <2> QED
    BY <2>1
<1>10. \A i \in 1 .. m : outs[i] \in Seq(C)
  <2> SUFFICES ASSUME NEW i \in 1 .. m PROVE outs[i] \in Seq(C)
    OBVIOUS
  <2>1. GetAt("out", i, "stage") \in C /\ GetAt("outBuffer", i, "stage") \in C
    BY <1>6
  <2> HIDE DEF C
  <2> QED
    BY <2>1
<1>11. ins = [i \in 1 .. n |-> ins[i]] /\ outs = [i \in 1 .. m |-> outs[i]]
  OBVIOUS
<1> HIDE DEF ins, outs, first, C
<1>12. FlattenSeq(ins) \in Seq(C) /\ FlattenSeq(outs) \in Seq(C)
  BY <1>9, <1>10, <1>11, LoopSeq
<1>13. first \o FlattenSeq(ins) \o FlattenSeq(outs) \in Seq(C)
  BY <1>8, <1>12
<1> QED
  BY <1>1, <1>2, <1>13 DEF C

(* release of the stage: what prepareStage has created, and no more. *)
LEMMA AclReleaseForm ==
  ASSUME NEW class, IsAcl(class), Ins(class) \in Nat, Outs(class) \in Nat
  PROVE  /\ AclRelease(class) \in Seq(StageFrees)
         /\ AclRelease(class) # << >> /\ Head(AclRelease(class)).op = "bind"
         /\ Full(class, "context", Ins(class),
                Outs(class)) \ Five \subseteq FreedBy(AclRelease(class))
<1>1. PICK n \in Nat, m \in Nat : n = Ins(class) /\ m = Outs(class)
  OBVIOUS
<1> DEFINE F == Full(class, "context", n, m)
           bind == <<Bind("-")>>
           a == [i \in 1 .. n |-> <<FreeAt("inBuffer", i)>>]
           b == <<Free("inSet")>>
           c == [i \in 1 .. m |-> <<FreeAt("outBuffer", i)>>]
           d == <<Free("outSet")>>
           e == [i \in 1 .. n |-> <<FreeAt("in", i)>>]
           f == [i \in 1 .. m |-> <<FreeAt("out", i)>>]
<1>2. AclRelease(class) = bind \o FlattenSeq(a) \o b \o FlattenSeq(c) \o d \o FlattenSeq(e)
          \o FlattenSeq(f)
  BY <1>1 DEF AclRelease, ForEach
<1>3. F = Five \union ({"inSet", "outSet"} \X {0}) \union ({"in", "inBuffer"} \X (1 .. n))
          \union ({"out", "outBuffer"} \X (1 .. m))
  BY DEF Full
<1>4. ASSUME NEW name \in {"inSet", "outSet"}
      PROVE Free(name) \in StageFrees /\ FreedBy(<<Free(name)>>) = {<<name, 0>>}
  <2>1. <<name, 0>> \notin Five
    BY FiveFacts DEF env
  <2>2. Free(name) \in StageFrees /\ Free(name).op = "free" /\ Free(name).obj = <<name, 0>>
    BY <2>1 DEF Free, Step, StageFrees, CallSet, Ops, Names, Undos
  <2>3. Free(name) \in CallSet
    BY <2>2 DEF StageFrees
  <2> QED
    BY <2>2, <2>3, OneCall
<1>5. ASSUME NEW i \in Nat \ {0}, NEW name \in {"in", "inBuffer", "out", "outBuffer"}
      PROVE  <<FreeAt(name, i)>> \in Seq(StageFrees) /\ FreedBy(<<FreeAt(name, i)>>) = {<<name, i>>}
  <2>1. <<name, i>> \notin Five
    BY FiveFacts DEF env
  <2>2. FreeAt(name, i) \in StageFrees /\ FreeAt(name, i).op = "free"
            /\ FreeAt(name, i).obj = <<name, i>>
    BY <2>1 DEF FreeAt, Step, StageFrees, CallSet, Ops, Names, Undos
  <2>3. FreeAt(name, i) \in CallSet
    BY <2>2 DEF StageFrees
  <2>4. <<FreeAt(name, i)>> \in Seq(StageFrees)
    BY <2>2
  <2> QED
    BY <2>2, <2>3, <2>4, OneCall
<1>6. Bind("-") \in StageFrees /\ Bind("-").op = "bind"
  BY DEF Bind, Step, StageFrees, CallSet, Ops, Names, Undos
<1>7. bind \in Seq(StageFrees) /\ b \in Seq(StageFrees) /\ d \in Seq(StageFrees)
  <2>1. Free("inSet") \in StageFrees /\ Free("outSet") \in StageFrees
    BY <1>4
  <2> QED
    BY <1>6, <2>1
<1>8. \A i \in 1 .. n : a[i] \in Seq(StageFrees) /\ e[i] \in Seq(StageFrees)
                        /\ FreedBy(a[i]) = {<<"inBuffer", i>>} /\ FreedBy(e[i]) = {<<"in", i>>}
  <2> SUFFICES ASSUME NEW i \in 1 .. n
               PROVE  /\ a[i] \in Seq(StageFrees) /\ e[i] \in Seq(StageFrees)
                      /\ FreedBy(a[i]) = {<<"inBuffer", i>>} /\ FreedBy(e[i]) = {<<"in", i>>}
    OBVIOUS
  <2>1. a[i] = <<FreeAt("inBuffer", i)>> /\ e[i] = <<FreeAt("in", i)>> /\ i \in Nat \ {0}
    OBVIOUS
  <2> HIDE DEF a, e
  <2>2. a[i] \in Seq(StageFrees) /\ FreedBy(a[i]) = {<<"inBuffer", i>>}
    BY <1>5, <2>1
  <2>3. e[i] \in Seq(StageFrees) /\ FreedBy(e[i]) = {<<"in", i>>}
    BY <1>5, <2>1
  <2> QED
    BY <2>2, <2>3
<1>9. \A i \in 1 .. m : c[i] \in Seq(StageFrees) /\ f[i] \in Seq(StageFrees)
                        /\ FreedBy(c[i]) = {<<"outBuffer", i>>} /\ FreedBy(f[i]) = {<<"out", i>>}
  <2> SUFFICES ASSUME NEW i \in 1 .. m
               PROVE  /\ c[i] \in Seq(StageFrees) /\ f[i] \in Seq(StageFrees)
                      /\ FreedBy(c[i]) = {<<"outBuffer", i>>} /\ FreedBy(f[i]) = {<<"out", i>>}
    OBVIOUS
  <2>1. c[i] = <<FreeAt("outBuffer", i)>> /\ f[i] = <<FreeAt("out", i)>> /\ i \in Nat \ {0}
    OBVIOUS
  <2> HIDE DEF c, f
  <2>2. c[i] \in Seq(StageFrees) /\ FreedBy(c[i]) = {<<"outBuffer", i>>}
    BY <1>5, <2>1
  <2>3. f[i] \in Seq(StageFrees) /\ FreedBy(f[i]) = {<<"out", i>>}
    BY <1>5, <2>1
  <2> QED
    BY <2>2, <2>3
<1>10. /\ a = [i \in 1 .. n |-> a[i]] /\ e = [i \in 1 .. n |-> e[i]]
       /\ c = [i \in 1 .. m |-> c[i]] /\ f = [i \in 1 .. m |-> f[i]]
  OBVIOUS
<1>11. FreedBy(b) = {<<"inSet", 0>>} /\ FreedBy(d) = {<<"outSet", 0>>}
  BY <1>4
<1>12. bind[1] = Bind("-") /\ Len(bind) # 0
  OBVIOUS
<1> HIDE DEF a, b, c, d, e, f, bind
<1>13. /\ FlattenSeq(a) \in Seq(StageFrees) /\ FlattenSeq(e) \in Seq(StageFrees)
       /\ FlattenSeq(c) \in Seq(StageFrees) /\ FlattenSeq(f) \in Seq(StageFrees)
  BY <1>8, <1>9, <1>10, LoopSeq
<1>14. StageFrees \subseteq CallSet
  BY DEF StageFrees
<1>15. \A i \in 1 .. n : <<"inBuffer", i>> \in FreedBy(FlattenSeq(a))
           /\ <<"in", i>> \in FreedBy(FlattenSeq(e))
  <2>1. \A i \in 1 .. n : a[i] \in Seq(CallSet) /\ e[i] \in Seq(CallSet)
    BY <1>8, <1>14
  <2> QED
    BY <1>8, <1>10, <2>1, LoopFrees
<1>16. \A i \in 1 .. m : <<"outBuffer", i>> \in FreedBy(FlattenSeq(c))
           /\ <<"out", i>> \in FreedBy(FlattenSeq(f))
  <2>1. \A i \in 1 .. m : c[i] \in Seq(CallSet) /\ f[i] \in Seq(CallSet)
    BY <1>9, <1>14
  <2> QED
    BY <1>9, <1>10, <2>1, LoopFrees
<1>17. PICK A \in Seq(StageFrees), Cc \in Seq(StageFrees), E \in Seq(StageFrees),
           G \in Seq(StageFrees) :
         A = FlattenSeq(a) /\ Cc = FlattenSeq(c) /\ E = FlattenSeq(e) /\ G = FlattenSeq(f)
  BY <1>13
<1> DEFINE r1 == bind \o A
           r2 == r1 \o b
           r3 == r2 \o Cc
           r4 == r3 \o d
           r5 == r4 \o E
           r6 == r5 \o G
<1>18. /\ r1 \in Seq(StageFrees) /\ r2 \in Seq(StageFrees) /\ r3 \in Seq(StageFrees)
       /\ r4 \in Seq(StageFrees) /\ r5 \in Seq(StageFrees) /\ r6 \in Seq(StageFrees)
  BY <1>7
<1>19. r6[1] = bind[1] /\ Len(r6) # 0
  <2>1. ASSUME NEW s \in Seq(StageFrees), NEW t \in Seq(StageFrees), Len(s) # 0, s[1] = bind[1]
        PROVE  Len(s \o t) # 0 /\ (s \o t)[1] = bind[1]
    BY <2>1, Joined
  <2> HIDE DEF bind
  <2>2. Len(bind \o A) # 0 /\ (bind \o A)[1] = bind[1]
    <3>1. bind \in Seq(StageFrees) /\ A \in Seq(StageFrees) /\ Len(bind) # 0
      BY <1>7, <1>12
    <3> QED
      BY <2>1, <3>1
  <2>3. Len(r2) # 0 /\ r2[1] = bind[1]
    BY <1>7, <1>18, <2>1, <2>2
  <2>4. Len(r3) # 0 /\ r3[1] = bind[1]
    BY <1>18, <2>1, <2>3
  <2>5. Len(r4) # 0 /\ r4[1] = bind[1]
    BY <1>7, <1>18, <2>1, <2>4
  <2>6. Len(r5) # 0 /\ r5[1] = bind[1]
    BY <1>18, <2>1, <2>5
  <2> QED
    BY <1>18, <2>1, <2>6
<1>20. AclRelease(class) = r6
  BY <1>2, <1>17
<1>21. ASSUME NEW s \in Seq(StageFrees), NEW t \in Seq(StageFrees)
       PROVE  FreedBy(s \o t) = FreedBy(s) \union FreedBy(t)
  <2>1. s \in Seq(CallSet) /\ t \in Seq(CallSet)
    BY <1>14
  <2> QED
    BY <2>1, JoinedFrees
<1>22. FreedBy(r6) = FreedBy(bind) \union FreedBy(A) \union FreedBy(b) \union FreedBy(Cc)
           \union FreedBy(d) \union FreedBy(E) \union FreedBy(G)
  <2>1. FreedBy(r1) = FreedBy(bind) \union FreedBy(A)
    BY <1>7, <1>21
  <2>2. FreedBy(r2) = FreedBy(r1) \union FreedBy(b)
    BY <1>7, <1>18, <1>21
  <2>3. FreedBy(r3) = FreedBy(r2) \union FreedBy(Cc)
    BY <1>18, <1>21
  <2>4. FreedBy(r4) = FreedBy(r3) \union FreedBy(d)
    BY <1>7, <1>18, <1>21
  <2>5. FreedBy(r5) = FreedBy(r4) \union FreedBy(E)
    BY <1>18, <1>21
  <2>6. FreedBy(r6) = FreedBy(r5) \union FreedBy(G)
    BY <1>18, <1>21
  <2> HIDE DEF r1, r2, r3, r4, r5, r6
  <2> QED
    BY <2>1, <2>2, <2>3, <2>4, <2>5, <2>6
<1> HIDE DEF r1, r2, r3, r4, r5, r6, F
<1>23. ASSUME NEW o \in F \ Five PROVE o \in FreedBy(r6)
  <2>1. CASE o \in {"inSet", "outSet"} \X {0}
    BY <1>11, <1>22, <2>1
  <2>2. CASE o \in {"in", "inBuffer"} \X (1 .. n)
    <3>1. PICK i \in 1 .. n : o = <<"in", i>> \/ o = <<"inBuffer", i>>
      BY <2>2
    <3> QED
      BY <1>15, <1>17, <1>22, <3>1
  <2>3. CASE o \in {"out", "outBuffer"} \X (1 .. m)
    <3>1. PICK i \in 1 .. m : o = <<"out", i>> \/ o = <<"outBuffer", i>>
      BY <2>3
    <3> QED
      BY <1>16, <1>17, <1>22, <3>1
  <2> QED
    BY <1>3, <2>1, <2>2, <2>3
<1>24. r6 # << >> /\ Head(r6).op = "bind"
  BY <1>6, <1>12, <1>18, <1>19, SMTT(60)
<1> QED
  BY <1>1, <1>18, <1>20, <1>23, <1>24 DEF F

(* Concatenation is associative. *)
LEMMA Regrouped ==
  ASSUME NEW A, NEW s \in Seq(A), NEW t \in Seq(A), NEW u \in Seq(A)
  PROVE  (s \o t) \o u = s \o (t \o u)
  OBVIOUS

(* What was chosen at the start: the application and the shapes of its models. *)
Chosen == app \in Apps /\ io \in [ToSet(Classes) -> Shapes]

(* The classes of an application are all of one kind. *)
LEMMA ClassFacts ==
  ASSUME Chosen, NEW x \in Owners
  PROVE  /\ x[1] \in {"context", "model"}
         /\ IF IsAcl(Class(x))
            THEN Class(x) \in {"YoloxAcl", "DetectionAcl", "ReidAcl", "FusionAcl"}
                /\ x[1] = "context"
            ELSE Class(x) \in {"YoloxTrt", "DetectionTrt", "ReidTrt", "FusionTrt"}
         /\ Ins(Class(x)) \in 1 .. MaxIO /\ Outs(Class(x)) \in 1 .. MaxIO
         /\ x[1] = "model" <=> x \in Models
         /\ x[1] = "context" <=> x \in Contexts
         /\ ~IsAcl(Class(x)) => ModelOf(x) \in Models /\ Class(ModelOf(x)) = Class(x)
<1>1. x \in Contexts \/ x \in Models
  BY DEF Owners
<1>2. x[2] \in DOMAIN Classes /\ x[1] \in {"context", "model"} /\ (x[1] = "model" <=> x \in Models)
          /\ (x[1] = "context" <=> x \in Contexts)
      /\ x[2] \in 1 .. Len(Classes)
  <2>1. Len(Classes) \in Nat /\ DOMAIN Classes = 1 .. Len(Classes)
    <3>1. app \in {"yolox310p", "deepsort310p", "fusion310p", "yoloxOrin", "deepsortOrin",
              "fusionOrin"}
      BY ContextsAssumption DEF ClassesOf, Chosen
    <3>2. ASSUME NEW a, NEW b
          PROVE  /\ Len(<<a>>) = 1 /\ DOMAIN <<a>> = {1}
                 /\ Len(<<a, b>>) = 2 /\ DOMAIN <<a, b>> = {1, 2}
      OBVIOUS
    <3>3. (Len(Classes) = 1 /\ DOMAIN Classes = {1})
              \/ (Len(Classes) = 2 /\ DOMAIN Classes = {1, 2})
      BY <3>1, <3>2 DEF Classes, ClassesOf
    <3> QED
      BY <3>3
  <2> QED
    BY <1>1, <2>1 DEF Contexts, Models
<1>3. Class(x) \in ToSet(Classes)
  BY <1>2 DEF Class, ToSet
<1>4. Ins(Class(x)) \in 1 .. MaxIO /\ Outs(Class(x)) \in 1 .. MaxIO
  BY <1>3 DEF Chosen, Shapes, Ins, Outs
<1>5. Class(x) \in {"YoloxAcl", "DetectionAcl", "ReidAcl", "FusionAcl", "YoloxTrt", "DetectionTrt",
          "ReidTrt", "FusionTrt"}
  <2>1. app \in {"yolox310p", "deepsort310p", "fusion310p", "yoloxOrin", "deepsortOrin",
            "fusionOrin"}
    BY ContextsAssumption DEF ClassesOf, Chosen
  <2> QED
    BY <1>2, <2>1 DEF Class, Classes, ClassesOf
<1>6. x \in Models => ~IsAcl(Class(x))
  BY <1>2 DEF Models, Class
<1>7. ~IsAcl(Class(x)) => ModelOf(x) \in Models /\ Class(ModelOf(x)) = Class(x)
  BY <1>2 DEF ModelOf, Models, Class
<1> QED
  BY <1>2, <1>4, <1>5, <1>6, <1>7 DEF IsAcl, AclClasses

(* An application is an Ascend or an Orin application: its owners are all of one kind. *)
LEMMA OneKind ==
  ASSUME Chosen, NEW x \in Owners, NEW y \in Owners
  PROVE  IsAcl(Class(x)) <=> IsAcl(Class(y))
<1>1. app \in {"yolox310p", "deepsort310p", "fusion310p", "yoloxOrin", "deepsortOrin", "fusionOrin"}
  BY ContextsAssumption DEF ClassesOf, Chosen
<1>2. x[2] \in 1 .. Len(Classes) /\ y[2] \in 1 .. Len(Classes)
  BY DEF Owners, Contexts, Models
<1>3. CASE app \in {"yolox310p", "deepsort310p", "fusion310p"}
  <2>1. \A k \in 1 .. Len(Classes) : Classes[k] \in AclClasses
    BY <1>3 DEF Classes, ClassesOf, AclClasses
  <2> QED
    BY <1>2, <2>1 DEF IsAcl, Class
<1>4. CASE app \in {"yoloxOrin", "deepsortOrin", "fusionOrin"}
  <2>1. \A k \in 1 .. Len(Classes) : Classes[k] \notin AclClasses
    BY <1>4 DEF Classes, ClassesOf, AclClasses
  <2> QED
    BY <1>2, <2>1 DEF IsAcl, Class
<1> QED
  BY <1>1, <1>3, <1>4

(* The forms of the four Ascend constructors and of their clean-up. *)
LEMMA AclForms ==
  ASSUME NEW class, IsAcl(class), Ins(class) \in Nat, Outs(class) \in Nat
  PROVE  LET F == Full(class, "context", Ins(class), Outs(class)) IN
         /\ \E T \in Seq(StageCalls(F)) : AclConstructor(class) = AclInit \o T
         /\ \E T \in Seq(StageCalls(F)) :
              AclConstructor(class) \o <<Try("model_info", "destroy")>> = AclInit \o T
         /\ \E R \in Seq(StageFrees) : /\ AclDestroy(class) = R \o DestroyEnd /\ F \ Five \subseteq FreedBy(R)
                                       /\ R # << >> /\ Head(R).op = "bind"
<1> DEFINE F == Full(class, "context", Ins(class), Outs(class))
           check == Step("check", <<"tensors", 0>>, "stage")
           last == Try("model_info", "destroy")
           stage == AclStage(class)
<1>1. AclStage(class) \in Seq(StageCalls(F))
  BY AclStageForm
<1>2. check \in StageCalls(F) /\ last \in StageCalls(F)
  BY DEF Step, Try, StageCalls, CallSet, Ops, Names, Undos
<1>3. PICK C : StageCalls(F) \union CallSet = C
  OBVIOUS
<1>4. AclInit \in Seq(C)
  <2>1. AclInit \in Seq(CallSet)
    BY DEF AclInit, Get, Bind, Try, Step, CallSet, Ops, Names, Undos
  <2> QED
    BY <1>3, <2>1
<1>5. AclConstructor(class) = (AclInit \o stage) \o <<check>>
  BY DEF AclConstructor
<1> DEFINE S == StageCalls(F)
<1>6. S \subseteq C /\ check \in S /\ last \in S /\ stage \in Seq(S)
  BY <1>1, <1>2, <1>3
<1> HIDE DEF S, check, last, stage
<1>7. stage \o <<check>> \in Seq(S) /\ AclConstructor(class) = AclInit \o (stage \o <<check>>)
  <2>1. <<check>> \in Seq(C) /\ stage \in Seq(C) /\ stage \o <<check>> \in Seq(S)
    BY <1>6
  <2> QED
    BY <1>4, <1>5, <2>1, Regrouped, SMTT(60)
<1>8. /\ (stage \o <<check>>) \o <<last>> \in Seq(S)
      /\ AclConstructor(class) \o <<last>> = AclInit \o ((stage \o <<check>>) \o <<last>>)
  <2>1. PICK q \in Seq(S) : q = stage \o <<check>>
    BY <1>7
  <2>2. q \o <<last>> \in Seq(S) /\ <<last>> \in Seq(C) /\ q \in Seq(C)
    BY <1>6
  <2>3. (AclInit \o q) \o <<last>> = AclInit \o (q \o <<last>>)
    BY <1>4, <2>2, Regrouped, SMTT(60)
  <2> QED
    BY <1>7, <2>1, <2>2, <2>3
<1>9. \E R \in Seq(StageFrees) : /\ AclDestroy(class) = R \o DestroyEnd /\ F \ Five \subseteq FreedBy(R)
                                 /\ R # << >> /\ Head(R).op = "bind"
  <2>1. PICK r \in Seq(StageFrees) : r = AclRelease(class) /\ F \ Five \subseteq FreedBy(r)
    BY AclReleaseForm
  <2>6. Bind("-") \in StageFrees /\ Bind("-").op = "bind"
    BY DEF Bind, Step, StageFrees, CallSet, Ops, Names, Undos
  <2>2. PICK b \in StageFrees : b = Bind("-") /\ b.op = "bind"
    BY <2>6
  <2>3. <<b>> \o r \in Seq(StageFrees) /\ Head(<<b>> \o r) = b /\ <<b>> \o r # << >>
    OBVIOUS
  <2>4. FreedBy(r) \subseteq FreedBy(<<b>> \o r)
    <3>1. StageFrees \subseteq CallSet
      BY DEF StageFrees
    <3>2. <<b>> \in Seq(CallSet) /\ r \in Seq(CallSet)
      BY <3>1
    <3> QED
      BY <3>2, JoinedFrees
  <2>5. AclDestroy(class) = (<<b>> \o r) \o DestroyEnd
    BY <2>1, <2>2 DEF AclDestroy, DestroyEnd
  <2> QED
    BY <2>1, <2>2, <2>3, <2>4, <2>5
<1> QED
  BY <1>7, <1>8, <1>9 DEF S, last

------------------------------------------------------------------------------
(* The Orin sequences. *)

(* What an Orin context creates after its execution context: buffers. *)
BufferCalls(F) ==
  {c \in CallSet : /\ c.op \in {"get", "take", "own", "try"} /\ c.undo \in {"trt", "-"}
                   /\ Makes(c) => c.obj \in F /\ c.obj # <<"engine", 0>> /\ c.obj # <<"exec", 0>>}
Buffers(F) == {s \in Seq(BufferCalls(F)) : Taking(s)}

(* Buffers are taken and kept part by part. *)
LEMMA BuffersClosed ==
  ASSUME NEW F
  PROVE  Closed(Buffers(F), BufferCalls(F))
<1> DEFINE A == BufferCalls(F)
<1>1. Buffers(F) \subseteq Seq(A)
  BY DEF Buffers
<1>2. << >> \in Buffers(F)
  BY DEF Buffers, Taking
<1>3. ASSUME NEW s \in Buffers(F), NEW t \in Buffers(F) PROVE s \o t \in Buffers(F)
  <2>1. s \in Seq(A) /\ t \in Seq(A) /\ Taking(s) /\ Taking(t)
    BY DEF Buffers
  <2>2. PICK n \in Nat, m \in Nat : n = Len(s) /\ m = Len(t)
    BY <2>1
  <2> HIDE DEF A
  <2>3. /\ s \o t \in Seq(A) /\ DOMAIN s = 1 .. n /\ DOMAIN t = 1 .. m
        /\ DOMAIN (s \o t) = 1 .. n + m
        /\ \A i \in 1 .. n : (s \o t)[i] = s[i]
        /\ \A i \in 1 .. m : (s \o t)[n + i] = t[i]
    BY <2>1, <2>2, Joined
  <2> DEFINE u == s \o t
  <2> HIDE DEF u
  <2>4. u \in Seq(A) /\ DOMAIN u = 1 .. n + m /\ (\A i \in 1 .. n : u[i] = s[i])
            /\ (\A i \in 1 .. m : u[n + i] = t[i])
    BY <2>3 DEF u
  <2>5. ASSUME NEW i \in 1 .. n, u[i].op = "take"
        PROVE  /\ u[i].obj \in {"in", "out"} \X Nat
               /\ \E k \in DOMAIN u : /\ k > i /\ u[k].op = "own" /\ u[k].obj = u[i].obj
                                      /\ \A j \in i + 1 .. k - 1 : u[j].op # "take"
                                      /\ k = i + 1 \/ u[k].obj \in {"out"} \X Nat
    <3>1. s[i].op = "take" /\ u[i] = s[i] /\ i \in DOMAIN s
      BY <2>3, <2>4, <2>5
    <3>2. s[i].obj \in {"in", "out"} \X Nat
      BY <2>1, <3>1 DEF Taking
    <3>3. PICK k \in DOMAIN s : /\ k > i /\ s[k].op = "own" /\ s[k].obj = s[i].obj
                                /\ \A j \in i + 1 .. k - 1 : s[j].op # "take"
                                /\ k = i + 1 \/ s[k].obj \in {"out"} \X Nat
      BY <2>1, <3>1 DEF Taking
    <3>4. k \in 1 .. n /\ k \in DOMAIN u /\ u[k] = s[k]
      BY <2>3, <2>4
    <3>5. ASSUME NEW j \in i + 1 .. k - 1 PROVE u[j].op # "take"
      <4>1. j \in 1 .. n
        BY <3>4
      <4> QED
        BY <2>4, <3>3, <4>1
    <3> QED
      BY <3>1, <3>2, <3>3, <3>4, <3>5
  <2>6. ASSUME NEW h \in 1 .. m, NEW i, i = n + h, u[i].op = "take"
        PROVE  /\ u[i].obj \in {"in", "out"} \X Nat
               /\ \E k \in DOMAIN u : /\ k > i /\ u[k].op = "own" /\ u[k].obj = u[i].obj
                                      /\ \A j \in i + 1 .. k - 1 : u[j].op # "take"
                                      /\ k = i + 1 \/ u[k].obj \in {"out"} \X Nat
    <3>1. t[h].op = "take" /\ u[i] = t[h] /\ h \in DOMAIN t
      BY <2>3, <2>4, <2>6
    <3>2. t[h].obj \in {"in", "out"} \X Nat
      BY <2>1, <3>1 DEF Taking
    <3>3. PICK k \in DOMAIN t : /\ k > h /\ t[k].op = "own" /\ t[k].obj = t[h].obj
                                /\ \A j \in h + 1 .. k - 1 : t[j].op # "take"
                                /\ k = h + 1 \/ t[k].obj \in {"out"} \X Nat
      BY <2>1, <3>1 DEF Taking
    <3>4. k \in 1 .. m
      BY <2>3
    <3>5. n + k \in DOMAIN u /\ u[n + k] = t[k] /\ n + k > i /\ (k = h + 1 => n + k = i + 1)
      <4>1. n + k \in 1 .. n + m /\ (k > h => n + k > n + h) /\ (k = h + 1 => n + k = (n + h) + 1)
        BY <3>4
      <4> QED
        BY <2>4, <2>6, <3>3, <3>4, <4>1
    <3>6. ASSUME NEW j \in i + 1 .. (n + k) - 1 PROVE u[j].op # "take"
      <4>1. j - n \in 1 .. m /\ n + (j - n) = j /\ j - n \in h + 1 .. k - 1
        BY <2>6, <3>4
      <4>2. u[n + (j - n)] = t[j - n]
        BY <2>4, <4>1
      <4> QED
        BY <3>3, <4>1, <4>2
    <3> QED
      BY <3>1, <3>2, <3>3, <3>5, <3>6
  <2>7. ASSUME NEW i \in 1 .. n + m PROVE i \in 1 .. n \/ \E h \in 1 .. m : i = n + h
    <3>1. i \in 1 .. n \/ (i - n \in 1 .. m /\ i = n + (i - n))
      OBVIOUS
    <3> QED
      BY <3>1
  <2>8. Taking(u)
    <3> SUFFICES ASSUME NEW i \in 1 .. n + m, u[i].op = "take"
                 PROVE  /\ u[i].obj \in {"in", "out"} \X Nat
                        /\ \E k \in DOMAIN u : /\ k > i /\ u[k].op = "own" /\ u[k].obj = u[i].obj
                                               /\ \A j \in i + 1 .. k - 1 : u[j].op # "take"
                                               /\ k = i + 1 \/ u[k].obj \in {"out"} \X Nat
      BY <2>4 DEF Taking
    <3>1. CASE i \in 1 .. n
      BY <2>5, <3>1
    <3>2. CASE i \notin 1 .. n
      <4>1. PICK h \in 1 .. m : i = n + h
        BY <2>7, <3>2
      <4> QED
        BY <2>6, <4>1
    <3> QED
      BY <3>1, <3>2
  <2> QED
    BY <2>4, <2>8 DEF Buffers, u, A
<1> QED
  BY <1>1, <1>2, <1>3 DEF Closed

TrtStart == <<Bind("trt"), Get("stream", "trt"), Get("exec", "trt")>>

(* A constructor of this form is sound from its first call on. *)
LEMMA TrtForm ==
  ASSUME NEW class, ~IsAcl(class), NEW F, {"stream", "exec"} \X {0} \subseteq F,
     NEW T \in Buffers(F)
  PROVE  /\ TrtStart \o T \in Seq(CallSet)
         /\ Sound(class, "context", {}, TrtStart \o T)
         /\ Building(class, "context", {}, {}, TrtStart \o T)
         /\ Bound(TrtStart \o T)
         /\ MadeBy(TrtStart \o T) \subseteq F
<1> DEFINE s == TrtStart \o T
<1>1. /\ TrtStart \in Seq(CallSet) /\ Len(TrtStart) = 3
      /\ TrtStart[1].op = "bind" /\ TrtStart[1].undo = "trt"
      /\ TrtStart[2].op = "get" /\ TrtStart[2].obj = <<"stream", 0>> /\ TrtStart[2].undo = "trt"
      /\ TrtStart[3].op = "get" /\ TrtStart[3].obj = <<"exec", 0>> /\ TrtStart[3].undo = "trt"
  <2>1. Bind("trt") \in CallSet /\ Get("stream", "trt") \in CallSet
            /\ Get("exec", "trt") \in CallSet
    BY DEF Bind, Get, Step, CallSet, Ops, Names, Undos
  <2>2. TrtStart \in Seq(CallSet) /\ Len(TrtStart) = 3 /\ TrtStart[1] = Bind("trt")
        /\ TrtStart[2] = Get("stream", "trt") /\ TrtStart[3] = Get("exec", "trt")
    BY <2>1, Tuples DEF TrtStart
  <2> QED
    BY <2>2 DEF Bind, Get, Step
<1>2. T \in Seq(CallSet) /\ Taking(T) /\ T \in Seq(BufferCalls(F))
  BY DEF Buffers, BufferCalls
<1>3. PICK n \in Nat : n = Len(T)
  BY <1>2
<1>4. /\ s \in Seq(CallSet) /\ DOMAIN s = 1 .. 3 + n /\ DOMAIN T = 1 .. n
      /\ \A i \in 1 .. 3 : s[i] = TrtStart[i]
      /\ \A i \in 1 .. n : s[3 + i] = T[i] /\ T[i] \in BufferCalls(F)
  <2>1. PICK a \in Seq(CallSet) : a = TrtStart /\ Len(a) = 3
    BY <1>1
  <2>2. /\ a \o T \in Seq(CallSet) /\ DOMAIN (a \o T) = 1 .. 3 + n /\ DOMAIN T = 1 .. n
        /\ \A i \in 1 .. 3 : (a \o T)[i] = a[i]
        /\ \A i \in 1 .. n : (a \o T)[3 + i] = T[i]
    <3>1. /\ a \o T \in Seq(CallSet) /\ DOMAIN (a \o T) = 1 .. Len(a) + Len(T)
                 /\ DOMAIN T = 1 .. Len(T)
          /\ \A i \in 1 .. Len(a) : (a \o T)[i] = a[i]
          /\ \A i \in 1 .. Len(T) : (a \o T)[Len(a) + i] = T[i]
      BY <1>2, Joined
    <3> QED
      BY <1>3, <2>1, <3>1
  <2>3. \A i \in 1 .. n : T[i] \in BufferCalls(F)
    BY <1>2, <1>3
  <2> QED
    BY <2>1, <2>2, <2>3
<1> HIDE DEF s
<1>5. /\ s[1].op = "bind" /\ s[2].op = "get" /\ s[2].obj = <<"stream", 0>> /\ s[3].op = "get"
      /\ s[3].obj = <<"exec", 0>> /\ s[1].undo = "trt" /\ s[2].undo = "trt" /\ s[3].undo = "trt"
  BY <1>1, <1>4
<1>6. ASSUME NEW i \in DOMAIN s
      PROVE  /\ s[i].op \in {"bind", "get", "take", "own", "try"} /\ s[i].undo \in {"trt", "-"}
             /\ Makes(s[i]) => s[i].obj \in F /\ s[i].obj # <<"engine", 0>>
                    /\ (s[i].obj = <<"exec", 0>> => i = 3) /\ i # 1
             /\ s[i].op = "take" => i > 3
  <2>1. CASE i \in 1 .. 3
    <3>1. i \in {1, 2, 3}
      BY <2>1
    <3> QED
      BY <1>5, <3>1 DEF Makes
  <2>2. CASE i \notin 1 .. 3
    <3>1. i - 3 \in 1 .. n /\ 3 + (i - 3) = i /\ i > 3
      BY <1>4, <2>2
    <3>2. s[i] \in BufferCalls(F)
      BY <1>4, <3>1
    <3> QED
      BY <3>1, <3>2 DEF BufferCalls
  <2> QED
    BY <2>1, <2>2
<1>7. Ordered(s) /\ Orderly(class, "context", {}, s)
  BY <1>6 DEF Ordered, Orderly
<1>8. Grounded(class, "context", {}, s)
  <2> SUFFICES ASSUME NEW i \in DOMAIN s, Makes(s[i]), NEW o \in Local(class, "context", s[i].obj)
               PROVE  \E k \in 1 .. i - 1 : Makes(s[k]) /\ s[k].obj = o
    BY DEF Grounded
  <2>1. s[i].obj = <<"exec", 0>>
    BY <1>6, LocalTrt
  <2>2. i = 3 /\ o = <<"stream", 0>>
    BY <1>6, <2>1, LocalTrt
  <2>3. 2 \in 1 .. i - 1
    BY <2>2
  <2> QED
    BY <1>5, <2>2, <2>3 DEF Makes
<1>9. Taking(s)
  <2> SUFFICES ASSUME NEW i \in DOMAIN s, s[i].op = "take"
               PROVE  /\ s[i].obj \in {"in", "out"} \X Nat
                      /\ \E k \in DOMAIN s : /\ k > i /\ s[k].op = "own" /\ s[k].obj = s[i].obj
                                             /\ \A j \in i + 1 .. k - 1 : s[j].op # "take"
                                             /\ k = i + 1 \/ s[k].obj \in {"out"} \X Nat
    BY DEF Taking
  <2>1. PICK h \in 1 .. n : i = 3 + h /\ i \in Nat
    <3>1. i > 3
      BY <1>6
    <3>2. i - 3 \in 1 .. n /\ i = 3 + (i - 3)
      BY <1>4, <3>1
    <3> QED
      BY <3>2
  <2>2. s[i] = T[h] /\ h \in DOMAIN T
    BY <1>4, <2>1
  <2>3. T[h].obj \in {"in", "out"} \X Nat
    BY <1>2, <2>2 DEF Taking
  <2>4. PICK k \in DOMAIN T : /\ k > h /\ T[k].op = "own" /\ T[k].obj = T[h].obj
                              /\ \A j \in h + 1 .. k - 1 : T[j].op # "take"
                              /\ k = h + 1 \/ T[k].obj \in {"out"} \X Nat
    BY <1>2, <2>2 DEF Taking
  <2>5. k \in 1 .. n
    BY <1>4
  <2>6. 3 + k \in DOMAIN s /\ s[3 + k] = T[k] /\ 3 + k > i /\ (k = h + 1 => 3 + k = i + 1)
    BY <1>4, <2>1, <2>4, <2>5
  <2>7. ASSUME NEW j \in i + 1 .. (3 + k) - 1 PROVE s[j].op # "take"
    <3>1. j - 3 \in 1 .. n /\ 3 + (j - 3) = j /\ j - 3 \in h + 1 .. k - 1
      BY <2>1, <2>5
    <3>2. s[3 + (j - 3)] = T[j - 3]
      BY <1>4, <3>1
    <3> QED
      BY <2>4, <3>1, <3>2
  <2> QED
    BY <2>2, <2>3, <2>4, <2>6, <2>7
<1>10. Building(class, "context", {}, {}, s)
  BY <1>6, <1>9 DEF Building, Undone
<1>11. Bound(s)
  <2> SUFFICES ASSUME NEW i \in DOMAIN s, Makes(s[i]) PROVE \E j \in 1 .. i - 1 : s[j].op = "bind"
    BY DEF Bound
  <2>1. 1 \in 1 .. i - 1
    BY <1>4, <1>6
  <2> QED
    BY <1>5, <2>1
<1>12. MadeBy(s) \subseteq F
  BY <1>6 DEF MadeBy
<1> QED
  BY <1>4, <1>7, <1>8, <1>10, <1>11, <1>12 DEF Sound, s

(* The calls of the buffers, one for one. *)
LEMMA BufferParts ==
  ASSUME NEW F
  PROVE  /\ \A name \in {"in", "out", "host"}, i \in Nat : <<name, i>> \in F =>
              /\ GetAt(name, i, "trt") \in BufferCalls(F)
              /\ <<GetAt(name, i, "trt")>> \in Buffers(F)
         /\ Try("setInputShape", "trt") \in BufferCalls(F)
                /\ <<Try("setInputShape", "trt")>> \in Buffers(F)
         /\ \A i \in Nat : <<"in", i>> \in F
                => <<Step("take", <<"in", i>>, "trt"), Own("in", i)>> \in Buffers(F)
         /\ \A i \in Nat : <<"out", i>> \in F /\ <<"host", i>> \in F =>
              <<Step("take", <<"out", i>>, "trt"), GetAt("host", i, "trt"),
                  Own("out", i)>> \in Buffers(F)
<1> DEFINE A == BufferCalls(F)
<1>1. ASSUME NEW name \in {"in", "out", "host"}, NEW i \in Nat, <<name, i>> \in F
      PROVE  GetAt(name, i, "trt") \in A /\ GetAt(name, i, "trt").op = "get"
  BY <1>1 DEF GetAt, Step, BufferCalls, CallSet, Ops, Names, Undos
<1>2. Try("setInputShape", "trt") \in A /\ Try("setInputShape", "trt").op = "try"
  BY DEF Try, Step, BufferCalls, CallSet, Ops, Names, Undos, Makes
<1>3. ASSUME NEW name \in {"in", "out"}, NEW i \in Nat, <<name, i>> \in F
      PROVE  /\ Step("take", <<name, i>>, "trt") \in A
                    /\ Step("take", <<name, i>>, "trt").op = "take"
             /\ Own(name, i) \in A /\ Own(name, i).op = "own"
             /\ Step("take", <<name, i>>, "trt").obj = <<name, i>> /\ Own(name, i).obj = <<name, i>>
  BY <1>3 DEF Own, Step, BufferCalls, CallSet, Ops, Names, Undos, Makes
<1> HIDE DEF A
<1>4. ASSUME NEW c \in A, c.op # "take" PROVE <<c>> \in Seq(A) /\ Taking(<<c>>)
  <2>1. DOMAIN <<c>> = {1} /\ <<c>>[1] = c /\ <<c>> \in Seq(A)
    OBVIOUS
  <2> DEFINE s == <<c>>
  <2> HIDE DEF s
  <2>2. DOMAIN s = {1} /\ s[1] = c
    BY <2>1 DEF s
  <2>3. Taking(s)
    BY <1>4, <2>2 DEF Taking
  <2> QED
    BY <2>1, <2>3 DEF s
<1>5. ASSUME NEW c \in A, NEW d \in A, c.op = "take", d.op = "own", c.obj = d.obj,
         c.obj \in {"in"} \X Nat
      PROVE  <<c, d>> \in Seq(A) /\ Taking(<<c, d>>)
  <2>1. DOMAIN <<c, d>> = {1, 2} /\ <<c, d>>[1] = c /\ <<c, d>>[2] = d /\ <<c, d>> \in Seq(A)
    OBVIOUS
  <2> DEFINE s == <<c, d>>
  <2> HIDE DEF s
  <2>2. DOMAIN s = {1, 2} /\ s[1] = c /\ s[2] = d
    BY <2>1 DEF s
  <2>3. Taking(s)
    <3> SUFFICES ASSUME NEW i \in DOMAIN s, s[i].op = "take"
                 PROVE  /\ s[i].obj \in {"in", "out"} \X Nat
                        /\ \E k \in DOMAIN s : /\ k > i /\ s[k].op = "own" /\ s[k].obj = s[i].obj
                                               /\ \A j \in i + 1 .. k - 1 : s[j].op # "take"
                                               /\ k = i + 1 \/ s[k].obj \in {"out"} \X Nat
      BY DEF Taking
    <3>1. i = 1 /\ 2 \in DOMAIN s /\ \A j \in i + 1 .. 2 - 1 : FALSE
      BY <1>5, <2>2
    <3> QED
      BY <1>5, <2>2, <3>1
  <2> QED
    BY <2>1, <2>3 DEF s
<1>6. ASSUME NEW c \in A, NEW e \in A, NEW d \in A, c.op = "take", e.op = "get", d.op = "own",
             c.obj = d.obj, c.obj \in {"out"} \X Nat
      PROVE  <<c, e, d>> \in Seq(A) /\ Taking(<<c, e, d>>)
  <2>1. DOMAIN <<c, e, d>> = {1, 2, 3} /\ <<c, e, d>>[1] = c /\ <<c, e, d>>[2] = e
            /\ <<c, e, d>>[3] = d
        /\ <<c, e, d>> \in Seq(A)
    OBVIOUS
  <2> DEFINE s == <<c, e, d>>
  <2> HIDE DEF s
  <2>2. DOMAIN s = {1, 2, 3} /\ s[1] = c /\ s[2] = e /\ s[3] = d
    BY <2>1 DEF s
  <2>3. Taking(s)
    <3> SUFFICES ASSUME NEW i \in DOMAIN s, s[i].op = "take"
                 PROVE  /\ s[i].obj \in {"in", "out"} \X Nat
                        /\ \E k \in DOMAIN s : /\ k > i /\ s[k].op = "own" /\ s[k].obj = s[i].obj
                                               /\ \A j \in i + 1 .. k - 1 : s[j].op # "take"
                                               /\ k = i + 1 \/ s[k].obj \in {"out"} \X Nat
      BY DEF Taking
    <3>1. i = 1 /\ 3 \in DOMAIN s /\ \A j \in i + 1 .. 3 - 1 : j = 2
      BY <1>6, <2>2
    <3> QED
      BY <1>6, <2>2, <3>1
  <2> QED
    BY <2>1, <2>3 DEF s
<1>7. ASSUME NEW name \in {"in", "out", "host"}, NEW i \in Nat, <<name, i>> \in F
      PROVE  GetAt(name, i, "trt") \in A /\ <<GetAt(name, i, "trt")>> \in Seq(A)
         /\ Taking(<<GetAt(name, i, "trt")>>)
  <2>1. PICK c \in A : c = GetAt(name, i, "trt") /\ c.op = "get"
    BY <1>1, <1>7
  <2> QED
    BY <1>4, <2>1
<1>8. <<Try("setInputShape", "trt")>> \in Seq(A) /\ Taking(<<Try("setInputShape", "trt")>>)
  <2>1. PICK c \in A : c = Try("setInputShape", "trt") /\ c.op = "try"
    BY <1>2
  <2> QED
    BY <1>4, <2>1
<1>9. ASSUME NEW i \in Nat, <<"in", i>> \in F
      PROVE  LET s == <<Step("take", <<"in", i>>, "trt"), Own("in", i)>> IN s \in Seq(A)
         /\ Taking(s)
  <2>1. PICK c \in A, d \in A : c = Step("take", <<"in", i>>, "trt") /\ d = Own("in", i)
                                /\ c.op = "take" /\ d.op = "own" /\ c.obj = <<"in", i>>
                                       /\ d.obj = <<"in", i>>
    BY <1>3, <1>9
  <2>2. c.obj \in {"in"} \X Nat
    BY <2>1
  <2> QED
    BY <1>5, <2>1, <2>2
<1>10. ASSUME NEW i \in Nat, <<"out", i>> \in F, <<"host", i>> \in F
       PROVE  LET s == <<Step("take", <<"out", i>>, "trt"), GetAt("host", i, "trt"),
          Own("out", i)>> IN
              s \in Seq(A) /\ Taking(s)
  <2>1. PICK c \in A, d \in A : c = Step("take", <<"out", i>>, "trt") /\ d = Own("out", i)
                                /\ c.op = "take" /\ d.op = "own" /\ c.obj = <<"out", i>>
                                       /\ d.obj = <<"out", i>>
    BY <1>3, <1>10
  <2>2. PICK e \in A : e = GetAt("host", i, "trt") /\ e.op = "get"
    BY <1>1, <1>10
  <2>3. c.obj \in {"out"} \X Nat
    BY <2>1
  <2> QED
    BY <1>6, <2>1, <2>2, <2>3
<1> QED
  BY <1>1, <1>2, <1>7, <1>8, <1>9, <1>10 DEF Buffers, A

(* The loop of a program, of rounds that are buffers. *)
LEMMA BufferLoop ==
  ASSUME NEW F, NEW n \in Nat, NEW f, \A i \in 1 .. n : f[i] \in Buffers(F),
     f = [i \in 1 .. n |-> f[i]]
  PROVE  FlattenSeq(f) \in Buffers(F)
<1>1. Closed(Buffers(F), BufferCalls(F))
  BY BuffersClosed
<1>2. f \in Seq(Buffers(F))
  OBVIOUS
<1> QED
  BY <1>1, <1>2, FlattenIn

(* The allocations of the Orin contexts. *)
LEMMA AllocateForms ==
  ASSUME NEW class, ~IsAcl(class), Ins(class) \in Nat, Outs(class) \in Nat,
         NEW F, F = Full(class, "context", Ins(class), Outs(class))
  PROVE  /\ {"stream", "exec"} \X {0} \subseteq F
         /\ class \notin {"FusionTrt", "ReidTrt"} => TrtAllocate(class) \in Buffers(F)
         /\ class = "ReidTrt" => ReidTrtAllocate \in Buffers(F)
         /\ class = "FusionTrt"
                => <<Try("setInputShape", "trt")>> \o FusionTrtAllocate \in Buffers(F)
<1>1. PICK n \in Nat, m \in Nat : n = Ins(class) /\ m = Outs(class)
  OBVIOUS
<1>2. Closed(Buffers(F), BufferCalls(F))
  BY BuffersClosed
<1>3. {"stream", "exec"} \X {0} \subseteq F
  BY DEF Full
<1>4. ASSUME class \notin {"FusionTrt", "ReidTrt"} PROVE TrtAllocate(class) \in Buffers(F)
  <2> DEFINE f == [o \in 1 .. m |-> <<Step("take", <<"out", o>>, "trt"), GetAt("host", o, "trt"),
          Own("out", o)>>]
             in == <<GetAt("in", 1, "trt")>>
  <2>1. F = ({"stream", "exec"} \X {0}) \union {<<"in", 1>>} \union ({"out", "host"} \X (1 .. m))
    BY <1>1, <1>4 DEF Full
  <2>2. ASSUME NEW i \in 1 .. m PROVE f[i] \in Buffers(F)
    <3>1. <<"out", i>> \in F /\ <<"host", i>> \in F /\ i \in Nat
      BY <2>1
    <3>2. f[i] = <<Step("take", <<"out", i>>, "trt"), GetAt("host", i, "trt"), Own("out", i)>>
      OBVIOUS
    <3> HIDE DEF f
    <3> QED
      BY <3>1, <3>2, BufferParts
  <2>3. f = [i \in 1 .. m |-> f[i]]
    OBVIOUS
  <2>4. in \in Buffers(F)
    <3>1. <<"in", 1>> \in F /\ 1 \in Nat
      BY <2>1
    <3> QED
      BY <3>1, BufferParts
  <2>5. TrtAllocate(class) = in \o FlattenSeq(f)
    BY <1>1 DEF TrtAllocate, ForEach
  <2> HIDE DEF f, in
  <2>6. FlattenSeq(f) \in Buffers(F)
    BY <2>2, <2>3, BufferLoop
  <2> QED
    BY <1>2, <2>4, <2>5, <2>6 DEF Closed
<1>5. ASSUME class = "ReidTrt" PROVE ReidTrtAllocate \in Buffers(F)
  <2>1. F = ({"stream", "exec"} \X {0}) \union ({"in", "out", "host"} \X {1})
    BY <1>1, <1>5 DEF Full
  <2>2. <<"in", 1>> \in F /\ <<"out", 1>> \in F /\ <<"host", 1>> \in F
    BY <2>1
  <2>3. PICK B : B = Buffers(F)
    OBVIOUS
  <2> DEFINE a == GetAt("in", 1, "trt")
             b == GetAt("out", 1, "trt")
             c == GetAt("host", 1, "trt")
  <2>4. <<a>> \in B /\ <<b>> \in B /\ <<c>> \in B
    BY <2>2, <2>3, BufferParts
  <2>5. ReidTrtAllocate = (<<a>> \o <<b>>) \o <<c>>
    BY DEF ReidTrtAllocate
  <2> HIDE DEF a, b, c
  <2> QED
    BY <1>2, <2>3, <2>4, <2>5 DEF Closed
<1>6. ASSUME class = "FusionTrt"
      PROVE <<Try("setInputShape", "trt")>> \o FusionTrtAllocate \in Buffers(F)
  <2> DEFINE f == [i \in 1 .. n |-> <<Step("take", <<"in", i>>, "trt"), Own("in", i)>>]
             out == <<GetAt("out", 1, "trt")>>
             try == <<Try("setInputShape", "trt")>>
  <2>1. F = ({"stream", "exec"} \X {0}) \union (({"in"} \X (1 .. n)) \union {<<"out", 1>>})
    BY <1>1, <1>6 DEF Full
  <2>2. ASSUME NEW i \in 1 .. n PROVE f[i] \in Buffers(F)
    <3>1. <<"in", i>> \in F /\ i \in Nat
      BY <2>1
    <3>2. f[i] = <<Step("take", <<"in", i>>, "trt"), Own("in", i)>>
      OBVIOUS
    <3> HIDE DEF f
    <3> QED
      BY <3>1, <3>2, BufferParts
  <2>3. f = [i \in 1 .. n |-> f[i]]
    OBVIOUS
  <2>4. out \in Buffers(F) /\ try \in Buffers(F)
    <3>1. <<"out", 1>> \in F /\ 1 \in Nat
      BY <2>1
    <3> QED
      BY <3>1, BufferParts
  <2>5. FusionTrtAllocate = FlattenSeq(f) \o out
    BY <1>1, <1>6 DEF FusionTrtAllocate, ForEach
  <2> HIDE DEF f, out, try
  <2>6. FlattenSeq(f) \in Buffers(F)
    BY <2>2, <2>3, BufferLoop
  <2>7. FlattenSeq(f) \o out \in Buffers(F)
    BY <1>2, <2>4, <2>6 DEF Closed
  <2>8. try \o FusionTrtAllocate \in Buffers(F)
    BY <1>2, <2>4, <2>5, <2>7 DEF Closed
  <2> QED
    BY <2>8 DEF try
<1> QED
  BY <1>3, <1>4, <1>5, <1>6

(* A sequence of releases is a sound clean-up of F when each comes after those
   of what needs the object. *)
LEMMA FreesForm ==
  ASSUME NEW class, NEW kind, NEW F, NEW D \in Seq(CallSet), \A i \in DOMAIN D : D[i].op = "free",
         \A i \in DOMAIN D : \A p \in F : D[i].obj \in Local(class, kind, p)
             => \E k \in 1 .. i - 1 : D[k].obj = p,
         NEW H, H \subseteq F
  PROVE  Cleaning(D) /\ Sound(class, kind, H, D)
<1>1. \A i \in DOMAIN D : ~Makes(D[i])
  BY DEF Makes
<1>2. MadeBy(D) = {}
  BY <1>1 DEF MadeBy
<1>3. Orderly(class, kind, H, D)
  <2> SUFFICES ASSUME NEW i \in DOMAIN D, NEW p \in H, D[i].obj \in Local(class, kind, p)
               PROVE  \E k \in 1 .. i - 1 : D[k].op = "free" /\ D[k].obj = p
    BY <1>2 DEF Orderly
  <2>1. PICK k \in 1 .. i - 1 : D[k].obj = p
    OBVIOUS
  <2>2. k \in DOMAIN D
    <3>1. Len(D) \in Nat /\ DOMAIN D = 1 .. Len(D)
      OBVIOUS
    <3> QED
      BY <3>1
  <2> QED
    BY <2>1, <2>2
<1> QED
  BY <1>1, <1>3 DEF Cleaning, Sound, Ordered, Grounded

(* The sequences of releases. *)
Frees == {c \in CallSet : c.op = "free"}

(* The calls that release one object. *)
LEMMA FreeCalls ==
  ASSUME NEW name \in Names, NEW i \in Nat
  PROVE  /\ FreeAt(name, i) \in Frees /\ Free(name) \in Frees
         /\ FreeAt(name, i).obj = <<name, i>> /\ Free(name).obj = <<name, 0>>
         /\ <<FreeAt(name, i)>> \in Seq(Frees) /\ <<Free(name)>> \in Seq(Frees)
         /\ FreedBy(<<FreeAt(name, i)>>) = {<<name, i>>} /\ FreedBy(<<Free(name)>>) = {<<name, 0>>}
<1>1. FreeAt(name, i) \in Frees /\ Free(name) \in Frees
  BY DEF FreeAt, Free, Step, Frees, CallSet, Ops, Names, Undos
<1>2. FreeAt(name, i).obj = <<name, i>> /\ Free(name).obj = <<name, 0>>
  BY DEF FreeAt, Free, Step
<1>3. ASSUME NEW c \in Frees PROVE <<c>> \in Seq(Frees) /\ FreedBy(<<c>>) = {c.obj}
  <2>1. c \in CallSet /\ c.op = "free"
    BY DEF Frees
  <2>2. FreedBy(<<c>>) = {c.obj}
    BY <2>1, OneCall
  <2> QED
    BY <2>2
<1> QED
  BY <1>1, <1>2, <1>3

(* The engines are created soundly. *)
LEMMA TrtModelForm ==
  ASSUME NEW class, ~IsAcl(class)
  PROVE  /\ TrtModel \in Seq(CallSet) /\ Sound(class, "model", {}, TrtModel)
         /\ Building(class, "model", {}, {}, TrtModel) /\ Bound(TrtModel)
         /\ MadeBy(TrtModel) = {"engine", "runtime"} \X {0}
<1> DEFINE s == TrtModel
<1>1. /\ s \in Seq(CallSet) /\ DOMAIN s = {1, 2, 3, 4}
      /\ s[1] = Try("open", "none") /\ s[2] = Get("runtime", "none")
             /\ s[3] = Get("engine", "model")
      /\ s[4] = Step("check", <<"bindings", 0>>, "model")
  <2>1. PICK a, b, c, d \in CallSet : /\ a = Try("open", "none") /\ b = Get("runtime", "none")
                                      /\ c = Get("engine", "model")
                                             /\ d = Step("check", <<"bindings", 0>>, "model")
    <3>1. Try("open", "none") \in CallSet /\ Get("runtime", "none") \in CallSet
      BY DEF Try, Get, Step, CallSet, Ops, Names, Undos
    <3>2. Get("engine", "model") \in CallSet
              /\ Step("check", <<"bindings", 0>>, "model") \in CallSet
      BY DEF Get, Step, CallSet, Ops, Names, Undos
    <3> QED
      BY <3>1, <3>2
  <2>2. <<a, b, c, d>> \in Seq(CallSet) /\ DOMAIN <<a, b, c, d>> = {1, 2, 3, 4}
        /\ <<a, b, c, d>>[1] = a /\ <<a, b, c, d>>[2] = b /\ <<a, b, c, d>>[3] = c
               /\ <<a, b, c, d>>[4] = d
    OBVIOUS
  <2>3. s = <<a, b, c, d>>
    BY <2>1 DEF TrtModel
  <2> QED
    BY <2>1, <2>2, <2>3
<1>2. /\ s[1].op = "try" /\ s[2].op = "get" /\ s[3].op = "get" /\ s[4].op = "check"
      /\ s[2].obj = <<"runtime", 0>> /\ s[3].obj = <<"engine", 0>>
      /\ s[1].undo = "none" /\ s[2].undo = "none" /\ s[3].undo = "model" /\ s[4].undo = "model"
  BY <1>1 DEF Try, Get, Step
<1> HIDE DEF s
<1>3. \A i \in DOMAIN s : Makes(s[i]) => i \in {2, 3}
          /\ s[i].obj \in {<<"runtime", 0>>, <<"engine", 0>>}
  BY <1>1, <1>2 DEF Makes
<1>4. Ordered(s) /\ Orderly(class, "model", {}, s)
  BY <1>1, <1>2 DEF Ordered, Orderly
<1>5. Grounded(class, "model", {}, s)
  <2> SUFFICES ASSUME NEW i \in DOMAIN s, Makes(s[i]), NEW o \in Local(class, "model", s[i].obj)
               PROVE  \E k \in 1 .. i - 1 : Makes(s[k]) /\ s[k].obj = o
    BY DEF Grounded
  <2>1. i = 3 /\ o = <<"runtime", 0>>
    <3>1. /\ Local(class, "model", <<"runtime", 0>>) = {}
          /\ Local(class, "model", <<"engine", 0>>) = {<<"runtime", 0>>}
      BY LocalTrt
    <3>2. (i = 2 => s[i].obj = <<"runtime", 0>>) /\ (i = 3 => s[i].obj = <<"engine", 0>>)
      BY <1>2
    <3> QED
      BY <1>3, <3>1, <3>2
  <2>2. 2 \in 1 .. i - 1
    BY <2>1
  <2> QED
    BY <1>2, <2>1, <2>2 DEF Makes
<1>6. MadeBy(s) = {"engine", "runtime"} \X {0}
  <2>1. s[2].obj \in MadeBy(s) /\ s[3].obj \in MadeBy(s)
    BY <1>1, <1>2 DEF MadeBy, Makes
  <2>2. \A o \in MadeBy(s) : o \in {<<"runtime", 0>>, <<"engine", 0>>}
    BY <1>3 DEF MadeBy
  <2> QED
    BY <1>2, <2>1, <2>2
<1>7. Undone(class, {}, s)
  <2>1. ASSUME NEW i \in DOMAIN s, s[i].undo = "none" PROVE \A j \in 1 .. i - 1 : ~Makes(s[j])
    <3>1. i \in {1, 2}
      BY <1>1, <1>2, <2>1
    <3>2. \A j \in 1 .. i - 1 : j = 1
      BY <3>1
    <3> QED
      BY <1>2, <3>2 DEF Makes
  <2> QED
    BY <1>1, <1>2, <2>1 DEF Undone
<1>8. Building(class, "model", {}, {}, s)
  BY <1>1, <1>2, <1>6, <1>7 DEF Building, Taking
<1>9. Bound(s)
  BY <1>3 DEF Bound, Exempt
<1> QED
  BY <1>1, <1>4, <1>5, <1>6, <1>8, <1>9 DEF Sound, s

(* The fusion engine is inspected with a stream and an execution context. *)
LEMMA FusionModelForm ==
  ASSUME NEW class, class = "FusionTrt"
  PROVE  LET s == FusionTrtLoad \o FusionTrtInspect IN
         /\ s \in Seq(CallSet) /\ Sound(class, "model", {}, s)
         /\ Building(class, "model", {}, {}, s) /\ Bound(s)
         /\ MadeBy(s) = {"engine", "runtime", "exec", "stream"} \X {0}
<1> DEFINE s == FusionTrtLoad \o FusionTrtInspect
<1>0. ~IsAcl(class)
  BY DEF IsAcl, AclClasses
<1>1. /\ s \in Seq(CallSet) /\ DOMAIN s = 1 .. 10
      /\ s[1] = Try("open", "none") /\ s[2] = Get("runtime", "none")
             /\ s[3] = Get("engine", "model")
      /\ s[4] = Bind("model") /\ s[5] = Get("stream", "model") /\ s[6] = Get("exec", "model")
      /\ s[7] = Step("check", <<"bindings", 0>>, "model") /\ s[8] = Try("dims", "model")
      /\ s[9] = Free("exec") /\ s[10] = Free("stream")
  <2>1. PICK a \in CallSet, b \in CallSet, c \in CallSet :
               a = Try("open", "none") /\ b = Get("runtime", "none") /\ c = Get("engine", "model")
    <3>1. Try("open", "none") \in CallSet /\ Get("runtime", "none") \in CallSet
              /\ Get("engine", "model") \in CallSet
      BY DEF Try, Get, Step, CallSet, Ops, Names, Undos
    <3> QED
      BY <3>1
  <2>2. PICK d \in CallSet, e \in CallSet, f \in CallSet, g \in CallSet :
               d = Bind("model") /\ e = Get("stream", "model") /\ f = Get("exec", "model")
               /\ g = Step("check", <<"bindings", 0>>, "model")
    <3>1. Bind("model") \in CallSet /\ Get("stream", "model") \in CallSet
      BY DEF Bind, Get, Step, CallSet, Ops, Names, Undos
    <3>2. Get("exec", "model") \in CallSet /\ Step("check", <<"bindings", 0>>, "model") \in CallSet
      BY DEF Get, Step, CallSet, Ops, Names, Undos
    <3> QED
      BY <3>1, <3>2
  <2>3. PICK h \in CallSet, i \in CallSet, j \in CallSet :
               h = Try("dims", "model") /\ i = Free("exec") /\ j = Free("stream")
    <3>1. Try("dims", "model") \in CallSet /\ Free("exec") \in CallSet /\ Free("stream") \in CallSet
      BY DEF Try, Free, Step, CallSet, Ops, Names, Undos
    <3> QED
      BY <3>1
  <2>4. s = <<a, b, c>> \o <<d, e, f, g, h, i, j>>
    BY <2>1, <2>2, <2>3 DEF FusionTrtLoad, FusionTrtInspect
  <2> DEFINE u == <<a, b, c>>
             v == <<d, e, f, g, h, i, j>>
  <2>5. u \in Seq(CallSet) /\ Len(u) = 3 /\ u[1] = a /\ u[2] = b /\ u[3] = c
    OBVIOUS
  <2>6. /\ v \in Seq(CallSet) /\ Len(v) = 7 /\ v[1] = d /\ v[2] = e /\ v[3] = f /\ v[4] = g
        /\ v[5] = h /\ v[6] = i /\ v[7] = j
    OBVIOUS
  <2> HIDE DEF u, v, s
  <2>7. /\ u \o v \in Seq(CallSet) /\ DOMAIN (u \o v) = 1 .. Len(u) + Len(v)
        /\ \A k \in 1 .. Len(u) : (u \o v)[k] = u[k]
        /\ \A k \in 1 .. Len(v) : (u \o v)[Len(u) + k] = v[k]
    <3>1. PICK w \in Seq(CallSet), z \in Seq(CallSet) : w = u /\ z = v
      BY <2>5, <2>6
    <3>2. /\ w \o z \in Seq(CallSet) /\ DOMAIN (w \o z) = 1 .. Len(w) + Len(z)
          /\ \A k \in 1 .. Len(w) : (w \o z)[k] = w[k]
          /\ \A k \in 1 .. Len(z) : (w \o z)[Len(w) + k] = z[k]
      BY Joined
    <3> QED
      BY <3>1, <3>2
  <2>8. s = u \o v
    BY <2>4 DEF u, v
  <2>9. /\ s \in Seq(CallSet) /\ DOMAIN s = 1 .. 10
        /\ \A k \in 1 .. 3 : s[k] = u[k]
        /\ \A k \in 1 .. 7 : s[3 + k] = v[k]
    <3>1. 3 + 7 = 10 /\ Len(u) = 3 /\ Len(v) = 7
      BY <2>5, <2>6
    <3> QED
      BY <2>7, <2>8, <3>1
  <2>10. s[1] = a /\ s[2] = b /\ s[3] = c
    BY <2>5, <2>9
  <2>11. s[4] = d /\ s[5] = e /\ s[6] = f /\ s[7] = g /\ s[8] = h /\ s[9] = i /\ s[10] = j
    <3>1. s[3 + 1] = d /\ s[3 + 2] = e /\ s[3 + 3] = f /\ s[3 + 4] = g
      BY <2>6, <2>9
    <3>2. s[3 + 5] = h /\ s[3 + 6] = i /\ s[3 + 7] = j
      BY <2>6, <2>9
    <3> QED
      BY <3>1, <3>2
  <2> QED
    BY <2>1, <2>2, <2>3, <2>9, <2>10, <2>11
<1>2. /\ s[1].op = "try" /\ s[2].op = "get" /\ s[3].op = "get" /\ s[4].op = "bind"
             /\ s[5].op = "get"
      /\ s[6].op = "get" /\ s[7].op = "check" /\ s[8].op = "try" /\ s[9].op = "free"
             /\ s[10].op = "free"
  BY <1>1 DEF Try, Get, Free, Bind, Step
<1>3. /\ s[2].obj = <<"runtime", 0>> /\ s[3].obj = <<"engine", 0>> /\ s[5].obj = <<"stream", 0>>
      /\ s[6].obj = <<"exec", 0>> /\ s[9].obj = <<"exec", 0>> /\ s[10].obj = <<"stream", 0>>
  BY <1>1 DEF Get, Free, Step
<1>4. /\ s[1].undo = "none" /\ s[2].undo = "none" /\ s[3].undo = "model" /\ s[4].undo = "model"
      /\ s[5].undo = "model" /\ s[6].undo = "model" /\ s[7].undo = "model" /\ s[8].undo = "model"
      /\ s[9].undo = "-" /\ s[10].undo = "-"
  BY <1>1 DEF Try, Get, Free, Bind, Step
<1> HIDE DEF s
<1>5. DOMAIN s = {1, 2, 3, 4, 5, 6, 7, 8, 9, 10}
  BY <1>1
<1>6. \A i \in DOMAIN s : Makes(s[i]) => i \in {2, 3, 5, 6}
  BY <1>2, <1>5 DEF Makes
<1>7. \A i \in DOMAIN s : s[i].op = "free" => i \in {9, 10}
  BY <1>2, <1>5
<1>8. Ordered(s)
  BY <1>5, <1>6, <1>7 DEF Ordered
<1>9. MadeBy(s) = {"engine", "runtime", "exec", "stream"} \X {0}
  <2>1. s[2].obj \in MadeBy(s) /\ s[3].obj \in MadeBy(s) /\ s[5].obj \in MadeBy(s)
            /\ s[6].obj \in MadeBy(s)
    BY <1>2, <1>5 DEF MadeBy, Makes
  <2>2. \A o \in MadeBy(s) : o \in {s[2].obj, s[3].obj, s[5].obj, s[6].obj}
    BY <1>6 DEF MadeBy
  <2> HIDE DEF Makes
  <2>3. MadeBy(s) = {s[2].obj, s[3].obj, s[5].obj, s[6].obj}
    BY <2>1, <2>2
  <2> QED
    BY <1>3, <2>3
<1>10. /\ Local(class, "model", <<"runtime", 0>>) = {}
              /\ Local(class, "model", <<"stream", 0>>) = {}
       /\ Local(class, "model", <<"engine", 0>>) = {<<"runtime", 0>>}
       /\ Local(class, "model", <<"exec", 0>>) = {<<"engine", 0>>, <<"stream", 0>>}
  BY <1>0, LocalTrt
<1>11. Grounded(class, "model", {}, s)
  <2> SUFFICES ASSUME NEW i \in DOMAIN s, Makes(s[i]), NEW o \in Local(class, "model", s[i].obj)
               PROVE  \E k \in 1 .. i - 1 : Makes(s[k]) /\ s[k].obj = o
    BY DEF Grounded
  <2>1. (i = 3 /\ o = <<"runtime", 0>>) \/ (i = 6 /\ o \in {<<"engine", 0>>, <<"stream", 0>>})
    BY <1>3, <1>6, <1>10
  <2>2. Makes(s[2]) /\ Makes(s[3]) /\ Makes(s[5])
    BY <1>2 DEF Makes
  <2>3. (i = 3 => 2 \in 1 .. i - 1) /\ (i = 6 => 3 \in 1 .. i - 1 /\ 5 \in 1 .. i - 1)
    OBVIOUS
  <2> QED
    BY <1>3, <2>1, <2>2, <2>3
<1>12. Orderly(class, "model", {}, s)
  <2> SUFFICES ASSUME NEW i \in {9, 10},
         NEW p \in {<<"engine", 0>>, <<"runtime", 0>>, <<"exec", 0>>, <<"stream", 0>>},
                      s[i].obj \in Local(class, "model", p)
               PROVE  \E k \in 1 .. i - 1 : s[k].op = "free" /\ s[k].obj = p
    BY <1>7, <1>9 DEF Orderly
  <2>1. i = 10 /\ p = <<"exec", 0>>
    BY <1>3, <1>10
  <2>2. 9 \in 1 .. i - 1
    BY <2>1
  <2> QED
    BY <1>2, <1>3, <2>1, <2>2
<1>13. Undone(class, {}, s)
  <2>1. ASSUME NEW i \in DOMAIN s, s[i].undo = "none" PROVE \A j \in 1 .. i - 1 : ~Makes(s[j])
    <3>1. i \in {1, 2}
      BY <1>4, <1>5, <2>1
    <3>2. \A j \in 1 .. i - 1 : j = 1
      BY <3>1
    <3> QED
      BY <1>2, <3>2 DEF Makes
  <2>2. \A i \in DOMAIN s : s[i].undo # "stage"
    BY <1>4, <1>5
  <2> QED
    BY <2>1, <2>2 DEF Undone
<1>14. Building(class, "model", {}, {}, s)
  <2>1. \A i \in DOMAIN s : s[i].op # "take"
    BY <1>2, <1>5
  <2>2. \A i \in DOMAIN s : s[i].op = "free" => s[i].obj \in {"stream", "exec"} \X {0}
    <3>1. <<"exec", 0>> \in {"stream", "exec"} \X {0}
              /\ <<"stream", 0>> \in {"stream", "exec"} \X {0}
      OBVIOUS
    <3> QED
      BY <1>3, <1>7, <3>1
  <2> QED
    BY <1>0, <1>9, <1>13, <2>1, <2>2 DEF Building, Taking
<1>15. Bound(s)
  <2> SUFFICES ASSUME NEW i \in DOMAIN s, Makes(s[i]), s[i].obj[1] \notin Exempt
               PROVE  \E j \in 1 .. i - 1 : s[j].op = "bind"
    BY DEF Bound
  <2>1. i \in {5, 6}
    BY <1>3, <1>6 DEF Exempt
  <2>2. 4 \in 1 .. i - 1
    BY <2>1
  <2> QED
    BY <1>2, <2>2
<1> QED
  BY <1>1, <1>8, <1>9, <1>11, <1>12, <1>14, <1>15 DEF Sound, s

(* One release after another. *)
LEMMA FreesJoin ==
  ASSUME NEW s \in Seq(Frees), NEW t \in Seq(Frees)
  PROVE  s \o t \in Seq(Frees) /\ FreedBy(s \o t) = FreedBy(s) \union FreedBy(t)
<1>1. s \in Seq(CallSet) /\ t \in Seq(CallSet)
  BY DEF Frees
<1> QED
  BY <1>1, JoinedFrees

(* Loops of releases, of one object or of two each round. *)
LEMMA FreesLoop ==
  ASSUME NEW name \in Names, NEW n \in Nat
  PROVE  LET f == [i \in 1 .. n |-> <<FreeAt(name, i)>>] IN
         /\ FlattenSeq(f) \in Seq(Frees)
         /\ \A i \in 1 .. n : <<name, i>> \in FreedBy(FlattenSeq(f))
<1> DEFINE f == [i \in 1 .. n |-> <<FreeAt(name, i)>>]
<1>1. ASSUME NEW i \in 1 .. n
      PROVE f[i] \in Seq(Frees) /\ f[i] \in Seq(CallSet) /\ <<name, i>> \in FreedBy(f[i])
  <2>1. f[i] = <<FreeAt(name, i)>> /\ i \in Nat
    OBVIOUS
  <2> HIDE DEF f
  <2>2. f[i] \in Seq(Frees) /\ <<name, i>> \in FreedBy(f[i])
    BY <2>1, FreeCalls
  <2> QED
    BY <2>2 DEF Frees
<1>2. f = [i \in 1 .. n |-> f[i]]
  OBVIOUS
<1> HIDE DEF f
<1>3. FlattenSeq(f) \in Seq(Frees)
  BY <1>1, <1>2, LoopSeq
<1>4. ASSUME NEW i \in 1 .. n PROVE <<name, i>> \in FreedBy(FlattenSeq(f))
  <2>1. FreedBy(f[i]) \subseteq FreedBy(FlattenSeq(f))
    BY <1>1, <1>2, LoopFrees
  <2> QED
    BY <1>1, <2>1
<1> QED
  BY <1>3, <1>4 DEF f

(* A loop that releases two objects in each round. *)
LEMMA FreesLoop2 ==
  ASSUME NEW a \in Names, NEW b \in Names, NEW n \in Nat
  PROVE  LET f == [i \in 1 .. n |-> <<FreeAt(a, i), FreeAt(b, i)>>] IN
         /\ FlattenSeq(f) \in Seq(Frees)
         /\ \A i \in 1 .. n : <<a, i>> \in FreedBy(FlattenSeq(f))
                /\ <<b, i>> \in FreedBy(FlattenSeq(f))
<1> DEFINE f == [i \in 1 .. n |-> <<FreeAt(a, i), FreeAt(b, i)>>]
<1>1. ASSUME NEW i \in 1 .. n
      PROVE  /\ f[i] \in Seq(Frees) /\ f[i] \in Seq(CallSet)
             /\ <<a, i>> \in FreedBy(f[i]) /\ <<b, i>> \in FreedBy(f[i])
  <2>1. f[i] = <<FreeAt(a, i)>> \o <<FreeAt(b, i)>> /\ i \in Nat
    OBVIOUS
  <2> HIDE DEF f
  <2>2. PICK u \in Seq(Frees), v \in Seq(Frees) :
          /\ u = <<FreeAt(a, i)>> /\ v = <<FreeAt(b, i)>>
          /\ <<a, i>> \in FreedBy(u) /\ <<b, i>> \in FreedBy(v)
    BY <2>1, FreeCalls
  <2>3. u \o v \in Seq(Frees) /\ FreedBy(u \o v) = FreedBy(u) \union FreedBy(v)
    BY FreesJoin
  <2> QED
    BY <2>1, <2>2, <2>3 DEF Frees
<1>2. f = [i \in 1 .. n |-> f[i]]
  OBVIOUS
<1> HIDE DEF f
<1>3. FlattenSeq(f) \in Seq(Frees)
  BY <1>1, <1>2, LoopSeq
<1>4. ASSUME NEW i \in 1 .. n
      PROVE <<a, i>> \in FreedBy(FlattenSeq(f)) /\ <<b, i>> \in FreedBy(FlattenSeq(f))
  <2>1. FreedBy(f[i]) \subseteq FreedBy(FlattenSeq(f))
    BY <1>1, <1>2, LoopFrees
  <2> QED
    BY <1>1, <2>1
<1> QED
  BY <1>3, <1>4 DEF f

(* The names of the calls. *)
LEMMA KnownNames ==
  /\ "in" \in Names /\ "out" \in Names /\ "host" \in Names /\ "stream" \in Names /\ "exec" \in Names
  /\ "engine" \in Names /\ "runtime" \in Names
  BY DEF Names

(* What the destructors of the Orin contexts release. *)
LEMMA TrtContextFrees ==
  ASSUME NEW class, ~IsAcl(class), Ins(class) \in Nat, Outs(class) \in Nat,
         NEW F, F = Full(class, "context", Ins(class), Outs(class))
  PROVE  /\ class \notin {"FusionTrt", "ReidTrt"} => TrtDestructor(class) \in Seq(Frees)
                /\ F \subseteq FreedBy(TrtDestructor(class))
         /\ class = "ReidTrt" => ReidTrtDestructor \in Seq(Frees)
                /\ F \subseteq FreedBy(ReidTrtDestructor)
         /\ class = "FusionTrt" => /\ FusionTrtDestructor \in Seq(Frees) /\ F \subseteq FreedBy(FusionTrtDestructor)
                                   /\ Len(FusionTrtDestructor) # 0
                                          /\ FusionTrtDestructor[1].obj = <<"exec", 0>>
<1>1. PICK n \in Nat, m \in Nat : n = Ins(class) /\ m = Outs(class)
  OBVIOUS
<1>2. ASSUME NEW name \in {"stream", "exec"}
      PROVE <<Free(name)>> \in Seq(Frees) /\ FreedBy(<<Free(name)>>) = {<<name, 0>>}
  BY FreeCalls, KnownNames
<1>3. ASSUME NEW name \in {"in", "out", "host"}
      PROVE  <<FreeAt(name, 1)>> \in Seq(Frees) /\ FreedBy(<<FreeAt(name, 1)>>) = {<<name, 1>>}
  BY FreeCalls, KnownNames
<1>4. PICK st \in Seq(Frees), ex \in Seq(Frees) :
        /\ st = <<Free("stream")>> /\ ex = <<Free("exec")>>
        /\ FreedBy(st) = {<<"stream", 0>>} /\ FreedBy(ex) = {<<"exec", 0>>}
  BY <1>2
<1>5. PICK in \in Seq(Frees), out \in Seq(Frees), host \in Seq(Frees) :
        /\ in = <<FreeAt("in", 1)>> /\ out = <<FreeAt("out", 1)>> /\ host = <<FreeAt("host", 1)>>
        /\ FreedBy(in) = {<<"in", 1>>} /\ FreedBy(out) = {<<"out", 1>>}
               /\ FreedBy(host) = {<<"host", 1>>}
  BY <1>3
<1>6. st \o ex \in Seq(Frees) /\ FreedBy(st \o ex) = {<<"stream", 0>>, <<"exec", 0>>}
      /\ <<Free("stream"), Free("exec")>> = st \o ex
  <2>1. st \o ex \in Seq(Frees) /\ FreedBy(st \o ex) = FreedBy(st) \union FreedBy(ex)
    BY FreesJoin
  <2>2. <<Free("stream"), Free("exec")>> = <<Free("stream")>> \o <<Free("exec")>>
    OBVIOUS
  <2> QED
    BY <1>4, <2>1, <2>2
<1>7. ASSUME class \notin {"FusionTrt", "ReidTrt"}
      PROVE  TrtDestructor(class) \in Seq(Frees) /\ F \subseteq FreedBy(TrtDestructor(class))
  <2> DEFINE f == [o \in 1 .. m |-> <<FreeAt("out", o), FreeAt("host", o)>>]
  <2>1. F = ({"stream", "exec"} \X {0}) \union {<<"in", 1>>} \union ({"out", "host"} \X (1 .. m))
    BY <1>1, <1>7 DEF Full
  <2>2. PICK g \in Seq(Frees) :
          g = FlattenSeq(f) /\ \A i \in 1 .. m : <<"out", i>> \in FreedBy(g)
              /\ <<"host", i>> \in FreedBy(g)
    BY FreesLoop2, KnownNames
  <2>3. TrtDestructor(class) = (in \o g) \o (st \o ex)
    BY <1>1, <1>5, <1>6, <2>2 DEF TrtDestructor, TrtReleaseBuffers, ForEach
  <2>4. PICK h \in Seq(Frees) : h = in \o g /\ FreedBy(h) = FreedBy(in) \union FreedBy(g)
    BY FreesJoin
  <2>5. h \o (st \o ex) \in Seq(Frees)
            /\ FreedBy(h \o (st \o ex)) = FreedBy(h) \union FreedBy(st \o ex)
    BY <1>6, FreesJoin
  <2>6. ASSUME NEW o \in F PROVE o \in FreedBy(h \o (st \o ex))
    <3>1. CASE o \in {"out", "host"} \X (1 .. m)
      <4>1. PICK i \in 1 .. m : o = <<"out", i>> \/ o = <<"host", i>>
        BY <3>1
      <4> QED
        BY <2>2, <2>4, <2>5, <4>1
    <3>2. CASE o \in {<<"stream", 0>>, <<"exec", 0>>, <<"in", 1>>}
      BY <1>5, <1>6, <2>4, <2>5, <3>2
    <3>3. o \in {"stream", "exec"} \X {0} => o \in {<<"stream", 0>>, <<"exec", 0>>}
      OBVIOUS
    <3> QED
      BY <2>1, <3>1, <3>2, <3>3
  <2> QED
    BY <2>3, <2>4, <2>5, <2>6
<1>8. ASSUME class = "ReidTrt"
      PROVE ReidTrtDestructor \in Seq(Frees) /\ F \subseteq FreedBy(ReidTrtDestructor)
  <2>1. F = ({"stream", "exec"} \X {0}) \union ({"in", "out", "host"} \X {1})
    BY <1>1, <1>8 DEF Full
  <2>2. PICK g \in Seq(Frees) : g = in \o out /\ FreedBy(g) = FreedBy(in) \union FreedBy(out)
    BY FreesJoin
  <2>3. PICK h \in Seq(Frees) : h = g \o host /\ FreedBy(h) = FreedBy(g) \union FreedBy(host)
    BY FreesJoin
  <2>4. ReidTrtDestructor = h \o (st \o ex)
    <3>1. <<FreeAt("in", 1), FreeAt("out", 1), FreeAt("host", 1)>> = (<<FreeAt("in", 1)>>
              \o <<FreeAt("out", 1)>>) \o <<FreeAt("host", 1)>>
      OBVIOUS
    <3> QED
      BY <1>5, <1>6, <2>2, <2>3, <3>1 DEF ReidTrtDestructor, ReidTrtReleaseBuffers
  <2>5. h \o (st \o ex) \in Seq(Frees)
            /\ FreedBy(h \o (st \o ex)) = FreedBy(h) \union FreedBy(st \o ex)
    BY <1>6, FreesJoin
  <2>6. FreedBy(h \o (st \o ex)) = {<<"in", 1>>, <<"out", 1>>, <<"host", 1>>, <<"stream", 0>>,
            <<"exec", 0>>}
    BY <1>5, <1>6, <2>2, <2>3, <2>5
  <2>7. F = {<<"in", 1>>, <<"out", 1>>, <<"host", 1>>, <<"stream", 0>>, <<"exec", 0>>}
    BY <2>1
  <2> QED
    BY <2>4, <2>5, <2>6, <2>7
<1>9. ASSUME class = "FusionTrt"
      PROVE  /\ FusionTrtDestructor \in Seq(Frees) /\ F \subseteq FreedBy(FusionTrtDestructor)
             /\ Len(FusionTrtDestructor) # 0 /\ FusionTrtDestructor[1].obj = <<"exec", 0>>
  <2> DEFINE f == [i \in 1 .. n |-> <<FreeAt("in", i)>>]
  <2>1. F = ({"stream", "exec"} \X {0}) \union (({"in"} \X (1 .. n)) \union {<<"out", 1>>})
    BY <1>1, <1>9 DEF Full
  <2>2. PICK g \in Seq(Frees) : g = FlattenSeq(f) /\ \A i \in 1 .. n : <<"in", i>> \in FreedBy(g)
    BY FreesLoop, KnownNames
  <2>3. FusionTrtDestructor = ((ex \o g) \o out) \o st
    BY <1>1, <1>4, <1>5, <1>9, <2>2 DEF FusionTrtDestructor, FusionTrtReleaseBuffers, ForEach
  <2>4. PICK h \in Seq(Frees) : h = ex \o g /\ FreedBy(h) = FreedBy(ex) \union FreedBy(g)
    BY FreesJoin
  <2>5. PICK j \in Seq(Frees) : j = h \o out /\ FreedBy(j) = FreedBy(h) \union FreedBy(out)
    BY FreesJoin
  <2>6. PICK k \in Seq(Frees) : k = j \o st /\ FreedBy(k) = FreedBy(j) \union FreedBy(st)
    BY FreesJoin
  <2>7. ASSUME NEW o \in F PROVE o \in FreedBy(k)
    <3>1. CASE o \in {"in"} \X (1 .. n)
      <4>1. PICK i \in 1 .. n : o = <<"in", i>>
        BY <3>1, SMTT(60)
      <4> QED
        BY <2>2, <2>4, <2>5, <2>6, <4>1
    <3>2. CASE o \in {<<"stream", 0>>, <<"exec", 0>>, <<"out", 1>>}
      BY <1>4, <1>5, <2>4, <2>5, <2>6, <3>2
    <3>3. o \in {"stream", "exec"} \X {0} => o \in {<<"stream", 0>>, <<"exec", 0>>}
      OBVIOUS
    <3> QED
      BY <2>1, <3>1, <3>2, <3>3
  <2>8. Len(k) # 0 /\ k[1] = Free("exec")
    <3>1. ASSUME NEW s \in Seq(Frees), NEW t \in Seq(Frees), Len(s) # 0
          PROVE  Len(s \o t) # 0 /\ (s \o t)[1] = s[1]
      BY <3>1, Joined, SMTT(60)
    <3>2. Len(ex) # 0 /\ ex[1] = Free("exec")
      BY <1>4
    <3>3. Len(h) # 0 /\ h[1] = Free("exec")
      BY <2>4, <3>1, <3>2
    <3>4. Len(j) # 0 /\ j[1] = Free("exec")
      BY <2>5, <3>1, <3>3
    <3> QED
      BY <2>6, <3>1, <3>4
  <2>9. Free("exec").obj = <<"exec", 0>>
    BY FreeCalls, KnownNames
  <2> QED
    BY <2>3, <2>4, <2>5, <2>6, <2>7, <2>8, <2>9
<1> QED
  BY <1>7, <1>8, <1>9

(* Destructors of the engines. *)
LEMMA TrtModelUndo ==
  ASSUME NEW class, ~IsAcl(class), class # "FusionTrt",
         NEW ins, NEW outs, NEW F, F = Full(class, "model", ins, outs), NEW H, H \subseteq F
  PROVE  /\ TrtModelDestroy \in Seq(CallSet) /\ Cleaning(TrtModelDestroy)
         /\ Sound(class, "model", H, TrtModelDestroy) /\ F \subseteq FreedBy(TrtModelDestroy)
<1>1. F = {<<"engine", 0>>, <<"runtime", 0>>}
  BY DEF Full
<1>2. PICK a \in Frees, b \in Frees : a = Free("engine") /\ b = Free("runtime")
                                      /\ a.obj = <<"engine", 0>> /\ b.obj = <<"runtime", 0>>
  BY FreeCalls, KnownNames
<1>3. PICK D \in Seq(Frees) : D = TrtModelDestroy /\ DOMAIN D = {1, 2} /\ D[1] = a /\ D[2] = b
  <2>1. <<a, b>> \in Seq(Frees) /\ DOMAIN <<a, b>> = {1, 2} /\ <<a, b>>[1] = a /\ <<a, b>>[2] = b
    OBVIOUS
  <2> QED
    BY <1>2, <2>1 DEF TrtModelDestroy
<1>4. D \in Seq(CallSet) /\ \A i \in DOMAIN D : D[i].op = "free"
  BY DEF Frees
<1>5. /\ Local(class, "model", <<"engine", 0>>) = {<<"runtime", 0>>}
      /\ Local(class, "model", <<"runtime", 0>>) = {}
  BY LocalTrt
<1>6. ASSUME NEW i \in DOMAIN D, NEW p \in F, D[i].obj \in Local(class, "model", p)
      PROVE  \E k \in 1 .. i - 1 : D[k].obj = p
  <2>1. p = <<"engine", 0>> /\ i = 2
    BY <1>1, <1>2, <1>3, <1>5, <1>6
  <2>2. 1 \in 1 .. i - 1
    BY <2>1
  <2> QED
    BY <1>2, <1>3, <2>1, <2>2
<1>7. Cleaning(D) /\ Sound(class, "model", H, D)
  BY <1>4, <1>6, FreesForm
<1>8. F \subseteq FreedBy(D)
  BY <1>1, <1>2, <1>3, <1>4 DEF FreedBy
<1> QED
  BY <1>3, <1>4, <1>7, <1>8

(* What the clean-up of a fusion engine is ready for and releases. *)
LEMMA FusionModelUndo ==
  ASSUME NEW class, class = "FusionTrt",
         NEW ins, NEW outs, NEW F, F = Full(class, "model", ins, outs), NEW H, H \subseteq F
  PROVE  /\ FusionTrtModelDestroy \in Seq(CallSet) /\ Cleaning(FusionTrtModelDestroy)
         /\ Sound(class, "model", H, FusionTrtModelDestroy)
                /\ F \subseteq FreedBy(FusionTrtModelDestroy)
<1>0. ~IsAcl(class)
  BY DEF IsAcl, AclClasses
<1>1. F = {<<"engine", 0>>, <<"runtime", 0>>, <<"exec", 0>>, <<"stream", 0>>}
  BY <1>0 DEF Full
<1>2. PICK a \in Frees, b \in Frees : a = Free("exec") /\ b = Free("stream")
                                      /\ a.obj = <<"exec", 0>> /\ b.obj = <<"stream", 0>>
  BY FreeCalls, KnownNames
<1>20. PICK c \in Frees, d \in Frees : c = Free("engine") /\ d = Free("runtime")
                                      /\ c.obj = <<"engine", 0>> /\ d.obj = <<"runtime", 0>>
  BY FreeCalls, KnownNames
<1>3. PICK D \in Seq(Frees) : D = FusionTrtModelDestroy /\ DOMAIN D = {1, 2, 3, 4}
                              /\ D[1] = a /\ D[2] = b /\ D[3] = c /\ D[4] = d
  <2>1. <<a, b, c, d>> \in Seq(Frees) /\ DOMAIN <<a, b, c, d>> = {1, 2, 3, 4}
            /\ <<a, b, c, d>>[1] = a
        /\ <<a, b, c, d>>[2] = b /\ <<a, b, c, d>>[3] = c /\ <<a, b, c, d>>[4] = d
    OBVIOUS
  <2> QED
    BY <1>2, <1>20, <2>1 DEF FusionTrtModelDestroy
<1>4. D \in Seq(CallSet) /\ \A i \in DOMAIN D : D[i].op = "free"
  BY DEF Frees
<1>5. /\ Local(class, "model", <<"engine", 0>>) = {<<"runtime", 0>>}
      /\ Local(class, "model", <<"exec", 0>>) = {<<"engine", 0>>, <<"stream", 0>>}
      /\ Local(class, "model", <<"runtime", 0>>) = {} /\ Local(class, "model", <<"stream", 0>>) = {}
  BY <1>0, LocalTrt
<1>6. ASSUME NEW i \in DOMAIN D, NEW p \in F, D[i].obj \in Local(class, "model", p)
      PROVE  \E k \in 1 .. i - 1 : D[k].obj = p
  <2>1. (p = <<"engine", 0>> /\ i = 4) \/ (p = <<"exec", 0>> /\ i \in {2, 3})
    <3>1. p \in {<<"engine", 0>>, <<"exec", 0>>}
      BY <1>1, <1>5, <1>6
    <3>2. p = <<"engine", 0>> => D[i].obj = <<"runtime", 0>>
      BY <1>5, <1>6
    <3>3. p = <<"exec", 0>> => D[i].obj \in {<<"engine", 0>>, <<"stream", 0>>}
      BY <1>5, <1>6
    <3>4. /\ D[1].obj = <<"exec", 0>> /\ D[2].obj = <<"stream", 0>> /\ D[3].obj = <<"engine", 0>>
          /\ D[4].obj = <<"runtime", 0>> /\ i \in {1, 2, 3, 4}
      BY <1>2, <1>20, <1>3
    <3> QED
      BY <3>1, <3>2, <3>3, <3>4
  <2>2. (i = 4 => 3 \in 1 .. i - 1) /\ (i \in {2, 3} => 1 \in 1 .. i - 1)
    OBVIOUS
  <2> QED
    BY <1>2, <1>20, <1>3, <2>1, <2>2
<1>7. Cleaning(D) /\ Sound(class, "model", H, D)
  <2>1. \A i \in DOMAIN D : \A p \in F : D[i].obj \in Local(class, "model", p)
            => \E k \in 1 .. i - 1 : D[k].obj = p
    BY <1>6
  <2>2. ASSUME NEW cl, NEW kd,
               \A i \in DOMAIN D : \A p \in F : D[i].obj \in Local(cl, kd, p)
                   => \E k \in 1 .. i - 1 : D[k].obj = p
        PROVE  Cleaning(D) /\ Sound(cl, kd, H, D)
    BY <1>4, <2>2, FreesForm
  <2> QED
    BY <2>1, <2>2
<1>8. F \subseteq FreedBy(D)
  BY <1>1, <1>2, <1>20, <1>3, <1>4 DEF FreedBy
<1> QED
  BY <1>3, <1>4, <1>7, <1>8

------------------------------------------------------------------------------
(* Every constructor and every clean-up. *)

(* The program and the destructor of each class. *)
LEMMA ProgramOf ==
  ASSUME NEW x
  PROVE  /\ x[1] = "model" =>
              Program(x) = IF Class(x) = "FusionTrt" THEN FusionTrtLoad
                  \o FusionTrtInspect ELSE TrtModel
         /\ x[1] # "model" =>
              /\ Class(x) = "YoloxAcl" => Program(x) = AclConstructor("YoloxAcl")
              /\ Class(x) = "DetectionAcl" => Program(x) = DetectionAclConstructor
              /\ Class(x) = "ReidAcl" => Program(x) = ReidAclConstructor
              /\ Class(x) = "FusionAcl" => Program(x) = CreateFusionAcl(x)
              /\ Class(x) = "YoloxTrt" => Program(x) = TrtConstructor("YoloxTrt")
              /\ Class(x) = "DetectionTrt" => Program(x) = DetectionTrtConstructor
              /\ Class(x) = "ReidTrt" => Program(x) = ReidTrtConstructor
              /\ Class(x) = "FusionTrt" => Program(x) = FusionTrtConstructor
  BY DEF Program, DetectionTrtModel, ReidTrtModel

(* The destructor of each class. *)
LEMMA DestructorOf ==
  ASSUME NEW x
  PROVE  /\ x[1] = "model" =>
              Destructor(x) = IF Class(x) = "FusionTrt" THEN FusionTrtModelDestroy ELSE TrtModelDestroy
         /\ x[1] # "model" =>
              /\ Class(x) = "YoloxAcl" => Destructor(x) = AclDestroy("YoloxAcl")
              /\ Class(x) = "DetectionAcl" => Destructor(x) = DetectionAclDestroy
              /\ Class(x) = "ReidAcl" => Destructor(x) = ReidAclDestroy
              /\ Class(x) = "FusionAcl" => Destructor(x) = FusionAclDestroy
              /\ Class(x) = "YoloxTrt" => Destructor(x) = TrtDestructor("YoloxTrt")
              /\ Class(x) = "DetectionTrt" => Destructor(x) = DetectionTrtDestructor
              /\ Class(x) = "ReidTrt" => Destructor(x) = ReidTrtDestructor
              /\ Class(x) = "FusionTrt" => Destructor(x) = FusionTrtDestructor
  BY DEF Destructor

(* The copies of the Ascend code are copies. *)
LEMMA Copies ==
  /\ DetectionAclConstructor = AclConstructor("DetectionAcl")
         /\ DetectionAclDestroy = AclDestroy("DetectionAcl")
  /\ ReidAclConstructor = AclConstructor("ReidAcl") /\ ReidAclDestroy = AclDestroy("ReidAcl")
  /\ FusionAclConstructor = AclConstructor("FusionAcl")
         /\ FusionAclDestroy = AclDestroy("FusionAcl")
  /\ DetectionTrtConstructor = TrtConstructor("DetectionTrt")
         /\ DetectionTrtDestructor = TrtDestructor("DetectionTrt")
<1>1. DetectionAclConstructor = AclConstructor("DetectionAcl")
          /\ DetectionAclDestroy = AclDestroy("DetectionAcl")
  BY DEF DetectionAclConstructor, AclConstructor, DetectionAclInit, DetectionAclStage,
     DetectionAclDestroy, AclDestroy, DetectionAclRelease
<1>2. ReidAclConstructor = AclConstructor("ReidAcl") /\ ReidAclDestroy = AclDestroy("ReidAcl")
  BY DEF ReidAclConstructor, AclConstructor, ReidAclInit, ReidAclStage, ReidAclDestroy, AclDestroy,
     ReidAclRelease
<1>3. FusionAclConstructor = AclConstructor("FusionAcl")
          /\ FusionAclDestroy = AclDestroy("FusionAcl")
  BY DEF FusionAclConstructor, AclConstructor, FusionAclInit, FusionAclStage, FusionAclDestroy,
     AclDestroy, FusionAclRelease
<1>4. DetectionTrtConstructor = TrtConstructor("DetectionTrt")
          /\ DetectionTrtDestructor = TrtDestructor("DetectionTrt")
  BY DEF DetectionTrtConstructor, TrtConstructor, DetectionTrtAllocate, DetectionTrtDestructor,
     TrtDestructor, DetectionTrtReleaseBuffers
<1> QED
  BY <1>1, <1>2, <1>3, <1>4

(* What holds of a program when its constructor starts. *)
Ready(x, P) ==
  /\ P \in Seq(CallSet) /\ Sound(Class(x), x[1], {}, P) /\ Building(Class(x), x[1], {}, {}, P)
  /\ MadeBy(P) \subseteq Fulls(x) /\ (~IsAcl(Class(x)) => Bound(P))

(* Every constructor is ready to start: what each of its calls needs comes before it,
   and whichever call fails the clean-up can cope with. *)
LEMMA ProgramForm ==
  ASSUME Chosen, NEW x \in Owners
  PROVE  Ready(x, Program(x))
<1> DEFINE class == Class(x)
           F == Fulls(x)
<1>0. Ins(class) \in Nat /\ Outs(class) \in Nat
  BY ClassFacts, ContextsAssumption
<1>1. CASE IsAcl(class)
  <2>1. x[1] = "context" /\ class \in {"YoloxAcl", "DetectionAcl", "ReidAcl", "FusionAcl"}
    BY <1>1, ClassFacts
  <2>2. Program(x) = AclConstructor(class)
            \/ Program(x) = AclConstructor(class) \o <<Try("model_info", "destroy")>>
    BY <2>1, ProgramOf, Copies DEF CreateFusionAcl
  <2>3. F = Full(class, "context", Ins(class), Outs(class))
    BY <2>1 DEF Fulls
  <2>4. Five \subseteq F
    BY <1>1, <2>3 DEF Full
  <2>5. PICK T \in Seq(StageCalls(F)) : Program(x) = AclInit \o T
    BY <1>0, <1>1, <2>2, <2>3, AclForms
  <2> HIDE DEF class, F
  <2>6. /\ AclInit \o T \in Seq(CallSet)
        /\ Sound(class, "context", {}, AclInit \o T)
        /\ Building(class, "context", {}, {}, AclInit \o T)
        /\ MadeBy(AclInit \o T) \subseteq F
    BY <1>1, <2>4, AclForm
  <2> QED
    BY <1>1, <2>1, <2>5, <2>6 DEF Ready, class, F
<1>2. CASE ~IsAcl(class) /\ x[1] = "context"
  <2>1. class \in {"YoloxTrt", "DetectionTrt", "ReidTrt", "FusionTrt"}
    BY <1>2, ClassFacts
  <2>2. F = Full(class, "context", Ins(class), Outs(class))
    BY <1>2 DEF Fulls
  <2>3. \E T \in Buffers(F) : Program(x) = TrtStart \o T
    <3>1. CASE class \in {"YoloxTrt", "DetectionTrt"}
      <4>1. Program(x) = TrtConstructor(class)
        BY <1>2, <3>1, ProgramOf, Copies
      <4>2. Program(x) = TrtStart \o TrtAllocate(class)
        BY <4>1 DEF TrtConstructor, TrtStart
      <4>3. TrtAllocate(class) \in Buffers(F)
        BY <1>0, <1>2, <2>2, <3>1, AllocateForms
      <4> QED
        BY <4>2, <4>3
    <3>2. CASE class = "ReidTrt"
      <4>1. Program(x) = TrtStart \o ReidTrtAllocate
        BY <1>2, <3>2, ProgramOf DEF ReidTrtConstructor, TrtStart
      <4>2. ReidTrtAllocate \in Buffers(F)
        BY <1>0, <1>2, <2>2, <3>2, AllocateForms
      <4> QED
        BY <4>1, <4>2
    <3>3. CASE class = "FusionTrt"
      <4> DEFINE try == <<Try("setInputShape", "trt")>>
      <4>1. Program(x) = (TrtStart \o try) \o FusionTrtAllocate
        <5>1. Program(x) = FusionTrtConstructor
          BY <1>2, <3>3, ProgramOf
        <5>2. <<Bind("trt"), Get("stream", "trt"), Get("exec", "trt"),
                  Try("setInputShape", "trt")>> = TrtStart \o try
          BY DEF TrtStart
        <5> QED
          BY <5>1, <5>2 DEF FusionTrtConstructor
      <4>2. try \o FusionTrtAllocate \in Buffers(F)
        BY <1>0, <1>2, <2>2, <3>3, AllocateForms
      <4>3. TrtStart \in Seq(CallSet) /\ try \in Seq(CallSet) /\ FusionTrtAllocate \in Seq(CallSet)
        <5>1. TrtStart \in Seq(CallSet)
          <6>1. Bind("trt") \in CallSet /\ Get("stream", "trt") \in CallSet
                    /\ Get("exec", "trt") \in CallSet
            BY DEF Bind, Get, Step, CallSet, Ops, Names, Undos
          <6> QED
            BY <6>1, Tuples DEF TrtStart
        <5>2. try \in Seq(CallSet)
          <6>1. Try("setInputShape", "trt") \in CallSet
            BY DEF Try, Step, CallSet, Ops, Names, Undos
          <6> QED
            BY <6>1
        <5>3. FusionTrtAllocate \in Seq(CallSet)
          <6> DEFINE f == [i \in 1 .. Ins("FusionTrt") |-> <<Step("take", <<"in", i>>, "trt"),
                  Own("in", i)>>]
          <6>1. ASSUME NEW i \in 1 .. Ins("FusionTrt") PROVE f[i] \in Seq(CallSet)
            <7>1. Step("take", <<"in", i>>, "trt") \in CallSet /\ Own("in", i) \in CallSet
              BY DEF Step, Own, CallSet, Ops, Names, Undos
            <7> QED
              BY <7>1
          <6>2. f = [i \in 1 .. Ins("FusionTrt") |-> f[i]]
            OBVIOUS
          <6>3. FusionTrtAllocate = FlattenSeq(f) \o <<GetAt("out", 1, "trt")>>
            BY DEF FusionTrtAllocate, ForEach
          <6>4. GetAt("out", 1, "trt") \in CallSet
            BY DEF GetAt, Step, CallSet, Ops, Names, Undos
          <6> HIDE DEF f
          <6>5. FlattenSeq(f) \in Seq(CallSet)
            BY <1>0, <3>3, <6>1, <6>2, LoopSeq
          <6> QED
            BY <6>3, <6>4, <6>5
        <5> QED
          BY <5>1, <5>2, <5>3
      <4>4. (TrtStart \o try) \o FusionTrtAllocate = TrtStart \o (try \o FusionTrtAllocate)
        <5> HIDE DEF try
        <5> QED
          BY <4>3, Regrouped, SMTT(60)
      <4> QED
        BY <4>1, <4>2, <4>4
    <3> QED
      BY <2>1, <3>1, <3>2, <3>3
  <2>4. PICK T \in Buffers(F) : Program(x) = TrtStart \o T
    BY <2>3
  <2>5. {"stream", "exec"} \X {0} \subseteq F
    BY <1>0, <1>2, <2>2, AllocateForms
  <2> HIDE DEF class, F
  <2>6. /\ TrtStart \o T \in Seq(CallSet)
        /\ Sound(class, "context", {}, TrtStart \o T)
        /\ Building(class, "context", {}, {}, TrtStart \o T)
        /\ Bound(TrtStart \o T)
        /\ MadeBy(TrtStart \o T) \subseteq F
    BY <1>2, <2>5, TrtForm
  <2> QED
    BY <1>2, <2>4, <2>6 DEF Ready, class, F
<1>3. CASE ~IsAcl(class) /\ x[1] = "model"
  <2>1. CASE class = "FusionTrt"
    <3>1. F = {"engine", "runtime", "exec", "stream"} \X {0}
      BY <1>3, <2>1 DEF Fulls, Full
    <3>2. Program(x) = FusionTrtLoad \o FusionTrtInspect
      BY <1>3, <2>1, ProgramOf
    <3> QED
      BY <1>3, <2>1, <3>1, <3>2, FusionModelForm DEF Ready
  <2>2. CASE class # "FusionTrt"
    <3>1. F = {"engine", "runtime"} \X {0}
      BY <1>3, <2>2 DEF Fulls, Full
    <3>2. Program(x) = TrtModel
      BY <1>3, <2>2, ProgramOf
    <3> QED
      BY <1>3, <2>2, <3>1, <3>2, TrtModelForm DEF Ready
  <2> QED
    BY <2>1, <2>2
<1> QED
  BY <1>1, <1>2, <1>3, ClassFacts

(* What holds of a clean-up when it starts. *)
CleansUp(x, H, D) == D \in Seq(CallSet) /\ Cleaning(D) /\ Sound(Class(x), x[1], H, D)
Binds(x, D) == IsAcl(Class(x)) => D # << >> /\ Head(D).op = "bind"

(* Every destructor releases all its owner can have, each object before what it needs. *)
LEMMA DestructorForm ==
  ASSUME Chosen, NEW x \in Owners, NEW H, H \subseteq Fulls(x)
  PROVE  CleansUp(x, H, Destructor(x)) /\ Fulls(x) \subseteq FreedBy(Destructor(x))
     /\ Binds(x, Destructor(x))
<1> DEFINE class == Class(x)
           F == Fulls(x)
<1>0. Ins(class) \in Nat /\ Outs(class) \in Nat
  BY ClassFacts, ContextsAssumption
<1>1. CASE IsAcl(class)
  <2>1. x[1] = "context" /\ class \in {"YoloxAcl", "DetectionAcl", "ReidAcl", "FusionAcl"}
    BY <1>1, ClassFacts
  <2>2. Destructor(x) = AclDestroy(class)
    BY <2>1, DestructorOf, Copies
  <2>3. F = Full(class, "context", Ins(class), Outs(class))
    BY <2>1 DEF Fulls
  <2>4. PICK R \in Seq(StageFrees) : /\ Destructor(x) = R \o DestroyEnd /\ F \ Five \subseteq FreedBy(R)
                                     /\ R # << >> /\ Head(R).op = "bind"
    BY <1>0, <1>1, <2>2, <2>3, AclForms
  <2> HIDE DEF class, F
  <2>5. /\ R \o DestroyEnd \in Seq(CallSet) /\ Cleaning(R \o DestroyEnd)
        /\ Sound(class, "context", H, R \o DestroyEnd)
        /\ F \subseteq FreedBy(R \o DestroyEnd)
    BY <1>1, <2>4, AclUndoForm DEF F
  <2>6. R \o DestroyEnd # << >> /\ Head(R \o DestroyEnd) = Head(R)
    <3>1. DestroyEnd \in Seq(CallSet) /\ R \in Seq(CallSet)
      <4>1. ASSUME NEW name \in Names PROVE Free(name) \in CallSet
        BY DEF Free, Step, CallSet, Ops, Names, Undos
      <4>2. Free("desc") \in CallSet /\ Free("model") \in CallSet /\ Free("stream") \in CallSet
            /\ Free("context") \in CallSet /\ Free("env") \in CallSet
        BY <4>1 DEF Names
      <4>3. PICK a, b, c, d, e \in CallSet : /\ a = Free("desc") /\ b = Free("model") /\ c = Free("stream")
                                             /\ d = Free("context") /\ e = Free("env")
        BY <4>2
      <4>4. DestroyEnd \in Seq(CallSet)
        BY <4>3, Tuples DEF DestroyEnd
      <4>5. R \in Seq(CallSet)
        BY DEF StageFrees
      <4> QED
        BY <4>4, <4>5
    <3>2. ASSUME NEW s \in Seq(CallSet), NEW t \in Seq(CallSet), s # << >>
          PROVE  s \o t # << >> /\ Head(s \o t) = Head(s)
      BY <3>2
    <3> QED
      BY <2>4, <3>1, <3>2
  <2> QED
    BY <2>1, <2>4, <2>5, <2>6 DEF CleansUp, Binds, class, F
<1>2. CASE ~IsAcl(class) /\ x[1] = "context"
  <2>1. class \in {"YoloxTrt", "DetectionTrt", "ReidTrt", "FusionTrt"}
    BY <1>2, ClassFacts
  <2>2. F = Full(class, "context", Ins(class), Outs(class))
    BY <1>2 DEF Fulls
  <2>3. Destructor(x) \in Seq(Frees) /\ F \subseteq FreedBy(Destructor(x))
        /\ (class = "FusionTrt" => Len(Destructor(x)) # 0 /\ Destructor(x)[1].obj = <<"exec", 0>>)
    <3>1. CASE class \in {"YoloxTrt", "DetectionTrt"}
      <4>1. Destructor(x) = TrtDestructor(class)
        BY <1>2, <3>1, DestructorOf, Copies
      <4> QED
        BY <1>0, <1>2, <2>2, <3>1, <4>1, TrtContextFrees
    <3>2. CASE class = "ReidTrt"
      <4>1. Destructor(x) = ReidTrtDestructor
        BY <1>2, <3>2, DestructorOf
      <4> QED
        BY <1>0, <1>2, <2>2, <3>2, <4>1, TrtContextFrees
    <3>3. CASE class = "FusionTrt"
      <4>1. Destructor(x) = FusionTrtDestructor
        BY <1>2, <3>3, DestructorOf
      <4> QED
        BY <1>0, <1>2, <2>2, <3>3, <4>1, TrtContextFrees
    <3> QED
      BY <2>1, <3>1, <3>2, <3>3
  <2>4. PICK D \in Seq(Frees) : D = Destructor(x)
    BY <2>3
  <2>5. D \in Seq(CallSet) /\ \A i \in DOMAIN D : D[i].op = "free"
    BY DEF Frees
  <2>6. <<"engine", 0>> \notin F
    BY <1>2, <2>2 DEF Full
  <2> HIDE DEF class, F
  <2>7. \A i \in DOMAIN D : \A p \in F : D[i].obj \in Local(class, "context", p)
            => \E k \in 1 .. i - 1 : D[k].obj = p
    <3> SUFFICES ASSUME NEW i \in DOMAIN D, NEW p \in F, D[i].obj \in Local(class, "context", p)
                 PROVE  \E k \in 1 .. i - 1 : D[k].obj = p
      OBVIOUS
    <3>1. p = <<"exec", 0>>
      BY <1>2, <2>6, LocalTrt
    <3>2. class = "FusionTrt" /\ D[i].obj = <<"stream", 0>>
      BY <1>2, <3>1, LocalTrt
    <3>3. D[1].obj = <<"exec", 0>>
      BY <2>3, <2>4, <3>2
    <3>4. i # 1 /\ i \in Nat /\ i >= 1
      <4>1. DOMAIN D = 1 .. Len(D)
        OBVIOUS
      <4> QED
        BY <3>2, <3>3, <4>1
    <3>5. 1 \in 1 .. i - 1
      BY <3>4
    <3> QED
      BY <3>1, <3>3, <3>5
  <2>8. Cleaning(D) /\ Sound(class, "context", H, D)
    BY <2>5, <2>7, FreesForm DEF F
  <2> QED
    BY <1>2, <2>3, <2>4, <2>5, <2>8 DEF CleansUp, Binds, class, F
<1>3. CASE ~IsAcl(class) /\ x[1] = "model"
  <2>1. CASE class = "FusionTrt"
    <3>1. Destructor(x) = FusionTrtModelDestroy
      BY <1>3, <2>1, DestructorOf
    <3>2. F = Full(class, "model", Ins(class), Outs(class))
      BY <1>3 DEF Fulls
    <3> QED
      BY <1>3, <2>1, <3>1, <3>2, FusionModelUndo DEF CleansUp, Binds
  <2>2. CASE class # "FusionTrt"
    <3>1. Destructor(x) = TrtModelDestroy
      BY <1>3, <2>2, DestructorOf
    <3>2. F = Full(class, "model", Ins(class), Outs(class))
      BY <1>3 DEF Fulls
    <3> QED
      BY <1>3, <2>2, <3>1, <3>2, TrtModelUndo DEF CleansUp, Binds
  <2> QED
    BY <2>1, <2>2
<1> QED
  BY <1>1, <1>2, <1>3, ClassFacts

(* The clean-up of a failed prepareStage leaves what init created. *)
LEMMA StageUndoForm ==
  ASSUME Chosen, NEW x \in Owners, NEW H, H \subseteq Fulls(x), IsAcl(Class(x))
  PROVE  LET R == Undo(x, "stage") IN
         CleansUp(x, H, R) /\ Binds(x, R) /\ FreedBy(R) \intersect Five = {}
             /\ Fulls(x) \ Five \subseteq FreedBy(R)
<1> DEFINE class == Class(x)
           F == Fulls(x)
<1>0. Ins(class) \in Nat /\ Outs(class) \in Nat
  BY ClassFacts, ContextsAssumption
<1>1. x[1] = "context"
  BY ClassFacts
<1>2. Undo(x, "stage") = AclRelease(class)
  BY DEF Undo, DetectionAclRelease, ReidAclRelease, FusionAclRelease
<1>3. F = Full(class, "context", Ins(class), Outs(class))
  BY <1>1 DEF Fulls
<1>4. PICK R \in Seq(StageFrees) : R = Undo(x, "stage") /\ R # << >> /\ Head(R).op = "bind"
          /\ F \ Five \subseteq FreedBy(R)
  BY <1>0, <1>2, <1>3, AclReleaseForm
<1> HIDE DEF class, F
<1>5. R \in Seq(CallSet) /\ Cleaning(R) /\ Sound(class, "context", H, R)
          /\ FreedBy(R) \intersect Five = {}
  BY <1>4, AclUndoForm DEF F, class
<1> QED
  BY <1>1, <1>4, <1>5 DEF CleansUp, Binds, class, F

(* The clean-up of a call that had nothing to undo, and of one that runs the destructor. *)
LEMMA OtherUndos ==
  ASSUME NEW x, NEW undo
  PROVE  (undo = "none" => Undo(x, undo) = << >>)
     /\ (undo \notin {"none", "stage"} => Undo(x, undo) = Destructor(x))
  BY DEF Undo

------------------------------------------------------------------------------
(* A driver call of the main thread. *)

(* What the application fixes. *)
LEMMA Fixed ==
  ASSUME UNCHANGED <<app, io>>
  PROVE  /\ Owners' = Owners /\ Contexts' = Contexts /\ Models' = Models /\ Classes' = Classes
         /\ \A x : Class(x)' = Class(x) /\ Fulls(x)' = Fulls(x)
         /\ Chosen => Chosen'
<1>1. Classes' = Classes /\ Count' = Count
  BY DEF Classes, Count
<1>2. \A x : Class(x)' = Class(x)
  BY <1>1 DEF Class
<1>3. \A c : Ins(c)' = Ins(c) /\ Outs(c)' = Outs(c)
  BY DEF Ins, Outs
<1>4. \A x : Fulls(x)' = Fulls(x)
  BY <1>2, <1>3 DEF Fulls
<1>5. Contexts' = Contexts /\ Models' = Models
  BY <1>1 DEF Contexts, Models, IsAcl
<1> QED
  BY <1>1, <1>2, <1>4, <1>5 DEF Owners, Chosen

(* Everything that is there belongs to the owner whose calls they are. *)
LEMMA CallEffect ==
  ASSUME Types, Call
  PROVE  /\ Effect(Head(todo), held[owner], owned[owner], held'[owner], owned'[owner])
         /\ held' = [x \in Owners |-> held'[x]] /\ owned' = [x \in Owners |-> owned'[x]]
         /\ \A x \in Owners : x # owner => held'[x] = held[x] /\ owned'[x] = owned[x]
         /\ current' = [t \in Threads |-> current'[t]]
         /\ \A t \in Threads : t # "main" => current'[t] = current[t]
<1>1. owner \in Owners /\ held = [x \in Owners |-> held[x]] /\ owned = [x \in Owners |-> owned[x]]
      /\ current = [t \in Threads |-> current[t]]
  BY DEF Types
<1>2. CASE Create
  BY <1>1, <1>2 DEF Create, Effect
<1>3. CASE Keep
  BY <1>1, <1>3 DEF Keep, Effect
<1>4. CASE AddressThread
  BY <1>1, <1>4 DEF AddressThread, Effect
<1>5. CASE Destroy
  BY <1>1, <1>5 DEF Destroy, Effect
<1>6. CASE Passed
  BY <1>1, <1>6 DEF Passed, Effect
<1> QED
  BY <1>2, <1>3, <1>4, <1>5, <1>6 DEF Call

(* A driver call of the main thread keeps the types and the phases. *)
LEMMA CallTypes ==
  ASSUME Types, Phases, Call
  PROVE  Types' /\ Phases'
<1>1. Owners' = Owners
  BY Fixed DEF Call
<1>2. Tail(todo) \in Seq(CallSet) /\ todo' = Tail(todo)
  BY TailFacts DEF Call, Types
<1>3. Types'
  BY <1>1, <1>2, CallEffect DEF Types, Call, Classes
<1>4. Phases'
  BY <1>2 DEF Phases, Call, Precedes
<1> QED
  BY <1>3, <1>4

(* The calls left are as good as those before. *)
LEMMA CallCalls ==
  ASSUME Types, Calls, Holdings, Call
  PROVE  Calls'
<1> DEFINE c == Class(owner)
           k == owner[1]
           H == held[owner]
           W == owned[owner]
           H2 == held'[owner]
           W2 == owned'[owner]
<1>1. Effect(Head(todo), H, W, H2, W2)
  BY CallEffect
<1>2. todo \in Seq(CallSet) /\ todo # << >> /\ owner \in Owners
  BY DEF Types, Call
<1>3. W \subseteq H /\ H \subseteq Fulls(owner) /\ Inert(c, H, W)
  BY <1>2 DEF Holdings, Inert
<1>4. Sound(c, k, H, todo) /\ MadeBy(todo) \subseteq Fulls(owner)
  BY DEF Calls
<1>5. Sound(c, k, H2, Tail(todo))
  BY <1>1, <1>2, <1>3, <1>4, SoundStep
<1>6. MadeBy(Tail(todo)) \subseteq Fulls(owner)
  <2>1. PICK F : F = Fulls(owner)
    OBVIOUS
  <2>2. W \subseteq H /\ H \subseteq F /\ MadeBy(todo) \subseteq F
    BY <1>3, <1>4, <2>1
  <2> HIDE DEF H, W, H2, W2
  <2>3. MadeBy(Tail(todo)) \subseteq F
    BY <1>2, <2>2, MadeFreed
  <2> QED
    BY <2>1, <2>3
<1>7. Constructing => Building(c, k, H2, W2, Tail(todo))
  BY <1>1, <1>2, <1>3, BuildStep DEF Calls
<1>8. ~Constructing => Cleaning(Tail(todo))
  BY <1>1, <1>2, CleanStep DEF Calls
<1>9. /\ todo' = Tail(todo) /\ owner' = owner /\ Constructing' = Constructing
      /\ Class(owner)' = c /\ Fulls(owner)' = Fulls(owner)
  BY Fixed DEF Call, Constructing, Class, Classes, Fulls, Ins, Outs
<1> QED
  BY <1>5, <1>6, <1>7, <1>8, <1>9 DEF Calls

(* The objects of an owner of each kind. *)
LEMMA FullFacts ==
  ASSUME Chosen, NEW x \in Owners, ~IsAcl(Class(x))
  PROVE  /\ env \notin Fulls(x) /\ <<"context", 0>> \notin Fulls(x)
         /\ <<"engine", 0>> \in Fulls(x) => x[1] = "model"
         /\ \A i : <<"out", i>> \in Fulls(x) => i \in 1 .. MaxIO
<1>1. Ins(Class(x)) \in 1 .. MaxIO /\ Outs(Class(x)) \in 1 .. MaxIO /\ MaxIO \in Nat \ {0}
  BY ClassFacts, ContextsAssumption
<1> DEFINE n == Ins(Class(x))
           m == Outs(Class(x))
<1>2. Fulls(x) = Full(Class(x), x[1], n, m)
  BY DEF Fulls
<1>3. \/ x[1] = "model" /\ Fulls(x) \subseteq {"engine", "runtime", "exec", "stream"} \X {0}
      \/ /\ x[1] # "model"
         /\ Fulls(x) \subseteq ({"stream", "exec"} \X {0}) \union ({"in"} \X (1 .. n))
                \union {<<"in", 1>>, <<"host", 1>>, <<"out", 1>>}
                               \union ({"out", "host"} \X (1 .. m))
  BY <1>2 DEF Full
<1>4. env \notin Fulls(x) /\ <<"context", 0>> \notin Fulls(x)
  BY <1>3 DEF env
<1>5. <<"engine", 0>> \in Fulls(x) => x[1] = "model"
  BY <1>3
<1>6. \A i : <<"out", i>> \in Fulls(x) => i \in 1 .. MaxIO
  BY <1>1, <1>3
<1> QED
  BY <1>4, <1>5, <1>6

(* What exists after a call still has what it needs. *)
LEMMA CallHoldings ==
  ASSUME Types, Calls, Holdings, Engines, Call
  PROVE  Holdings'
<1> DEFINE c == Class(owner)
           k == owner[1]
           H == held[owner]
           W == owned[owner]
           H2 == held'[owner]
           W2 == owned'[owner]
           h == Head(todo)
<1>1. Effect(h, H, W, H2, W2)
  BY CallEffect
<1>2. todo \in Seq(CallSet) /\ todo # << >> /\ owner \in Owners /\ Chosen
  BY DEF Types, Call, Chosen
<1>3. W \subseteq H /\ H \subseteq Fulls(owner) /\ \A o \in H \ W : ~IsAcl(c)
          /\ o \in {"in", "out"} \X Nat
  BY <1>2 DEF Holdings
<1>4. Sound(c, k, H, todo) /\ MadeBy(todo) \subseteq Fulls(owner) /\ Rooted(c, k, H)
  BY <1>2 DEF Calls, Holdings
<1>5. W2 \subseteq H2 /\ H2 \subseteq Fulls(owner)
  <2>1. PICK F : F = Fulls(owner)
    OBVIOUS
  <2>2. W \subseteq H /\ H \subseteq F /\ MadeBy(todo) \subseteq F
    BY <1>3, <1>4, <2>1
  <2> HIDE DEF H, W, H2, W2
  <2>3. MadeBy(todo) = MadeBy(Tail(todo)) \union (IF Makes(h) THEN {h.obj} ELSE {})
    BY <1>2, MadeFreed
  <2> HIDE DEF h
  <2>4. Makes(h) => h.obj \in F
    BY <2>2, <2>3
  <2>5. W2 \subseteq H2 /\ H2 \subseteq F
    BY <1>1, <2>2, <2>4 DEF Effect, Makes
  <2> QED
    BY <2>1, <2>5
<1>6. Rooted(c, k, H2)
  BY <1>1, <1>2, <1>4, RootedStep
<1>10. h = todo[1] /\ 1 \in DOMAIN todo
  BY <1>2, TailFacts
<1>7. h.op = "take" => ~IsAcl(c) /\ h.obj \in {"in", "out"} \X Nat
  <2>1. CASE Constructing
    BY <1>10, <2>1 DEF Calls, Building, Taking
  <2>2. CASE ~Constructing
    BY <1>10, <2>2 DEF Calls, Cleaning
  <2> QED
    BY <2>1, <2>2
<1>8. \A o \in H2 \ W2 : ~IsAcl(c) /\ o \in {"in", "out"} \X Nat
  BY <1>1, <1>3, <1>7 DEF Effect
<1>9. ASSUME NEW x \in Contexts, ~IsAcl(Class(x)), <<"exec", 0>> \in held'[x]
      PROVE  <<"engine", 0>> \in held'[ModelOf(x)]
  <2>1. x \in Owners /\ ModelOf(x) \in Models /\ ModelOf(x) \in Owners /\ x[1] = "context"
            /\ ModelOf(x)[1] = "model"
    BY <1>2, <1>9, ClassFacts DEF Owners, ModelOf
  <2>2. x # ModelOf(x)
    BY <2>1
  <2>3. CASE x # owner /\ ModelOf(x) # owner
    BY <1>9, <2>1, <2>3, CallEffect DEF Holdings
  <2>4. CASE x = owner
    <3>1. held'[ModelOf(x)] = held[ModelOf(x)]
      BY <2>1, <2>2, <2>4, CallEffect
    <3>2. CASE <<"exec", 0>> \in H
      BY <1>9, <2>4, <3>1, <3>2 DEF Holdings
    <3>3. CASE <<"exec", 0>> \notin H
      <4>1. Makes(h)
        BY <1>1, <1>9, <2>4, <3>3 DEF Effect, Makes
      <4>2. Constructing
        BY <1>10, <4>1 DEF Calls, Cleaning, Makes
      <4> QED
        BY <1>9, <2>1, <2>4, <3>1, <4>2 DEF Engines
    <3> QED
      BY <3>2, <3>3
  <2>5. CASE ModelOf(x) = owner
    <3>1. <<"exec", 0>> \in held[x]
      BY <1>9, <2>1, <2>2, <2>5, CallEffect
    <3> QED
      BY <2>1, <2>5, <3>1 DEF Engines
  <2> QED
    BY <2>3, <2>4, <2>5
<1>11. /\ owner' = owner /\ Owners' = Owners /\ Contexts' = Contexts
       /\ \A x : Class(x)' = Class(x) /\ Fulls(x)' = Fulls(x)
  BY Fixed DEF Call
<1>12. ASSUME NEW x \in Owners
       PROVE  /\ owned'[x] \subseteq held'[x] /\ held'[x] \subseteq Fulls(x)
              /\ \A o \in held'[x] \ owned'[x] : ~IsAcl(Class(x)) /\ o \in {"in", "out"} \X Nat
              /\ Rooted(Class(x), x[1], held'[x])
  <2>1. CASE x = owner
    BY <1>5, <1>6, <1>8, <2>1
  <2>2. CASE x # owner
    <3>1. held'[x] = held[x] /\ owned'[x] = owned[x]
      BY <2>2, CallEffect
    <3> QED
      BY <3>1 DEF Holdings
  <2> QED
    BY <2>1, <2>2
<1> QED
  BY <1>9, <1>11, <1>12 DEF Holdings

(* No owner is nobody. *)
LEMMA NoneIsNobody == None \notin Owners
  BY DEF None, Owners, Contexts, Models

(* A call of a clean-up does not change what the clean-up will leave. *)
LEMMA CallRemains ==
  ASSUME Types, Calls, Remains, Call
  PROVE  Remains'
<1>1. /\ owner' = owner /\ Owners' = Owners /\ thrower' = thrower /\ standing' = standing
      /\ Constructing' = Constructing /\ todo' = Tail(todo)
      /\ \A x : Class(x)' = Class(x)
  BY Fixed DEF Call, Constructing
<1>2. todo \in Seq(CallSet) /\ todo # << >> /\ owner \in Owners
  BY DEF Types, Call
<1>3. Effect(Head(todo), held[owner], owned[owner], held'[owner], owned'[owner])
  BY CallEffect
<1>4. ASSUME ~Constructing
      PROVE  /\ held[owner] = owned[owner] => held'[owner] = owned'[owner]
             /\ Kept(held'[owner], owned'[owner], Tail(todo)) = Kept(held[owner], owned[owner],
                    todo)
  <2>1. Cleaning(todo)
    BY <1>4 DEF Calls
  <2> QED
    BY <1>2, <1>3, <2>1, CleanStep
<1>5. \A x \in Owners : x # owner => held'[x] = held[x] /\ owned'[x] = owned[x]
  BY CallEffect
<1>6. ASSUME NEW x \in Owners, ~(x = owner /\ Constructing) PROVE Rest(x)' = Rest(x)
  <2>1. CASE x = owner
    BY <1>1, <1>4, <1>6, <2>1 DEF Rest
  <2>2. CASE x # owner
    BY <1>1, <1>5, <1>6, <2>2 DEF Rest
  <2> QED
    BY <2>1, <2>2
<1>7. ASSUME NEW x \in Owners, x # thrower, ~(x = owner /\ Constructing)
      PROVE  held'[x] = owned'[x] /\ (x \notin standing => Rest(x)' = {})
  <2>1. held[x] = owned[x] /\ (x \notin standing => Rest(x) = {})
    BY <1>7 DEF Remains
  <2> QED
    BY <1>4, <1>5, <1>6, <1>7, <2>1
<1>8. ASSUME thrower # None
      PROVE  IF IsAcl(Class(thrower)) THEN Rest(thrower)' \in {{}, Five}
             ELSE Rest(thrower)' = {} \/ \E i \in 1 .. MaxIO : Rest(thrower)' = {<<"out", i>>}
  <2>1. thrower \in Owners /\ ~Constructing
    BY <1>8 DEF Types, Constructing
  <2>2. Rest(thrower)' = Rest(thrower)
    BY <1>6, <2>1, <1>1
  <2> QED
    BY <1>8, <2>2 DEF Remains
<1> QED
  BY <1>1, <1>7, <1>8 DEF Remains

(* The engine of the context under construction stays; no context outlives its engine. *)
LEMMA CallEngines ==
  ASSUME Types, Engines, Call
  PROVE  Engines'
<1>1. /\ owner' = owner /\ Contexts' = Contexts /\ Constructing' = Constructing
      /\ \A x : Class(x)' = Class(x)
  BY Fixed DEF Call, Constructing
<1>2. \A x \in Owners : x # owner => held'[x] = held[x]
  BY CallEffect
<1>3. owner \in Owners /\ Chosen
  BY DEF Types, Chosen
<1>4. ASSUME Constructing, ~IsAcl(Class(owner)), owner[1] = "context"
      PROVE  <<"engine", 0>> \in held'[ModelOf(owner)]
  <2>1. ModelOf(owner) \in Models /\ ModelOf(owner)[1] = "model"
    BY <1>3, <1>4, ClassFacts DEF ModelOf
  <2>2. ModelOf(owner) \in Owners /\ ModelOf(owner) # owner
    BY <1>4, <2>1 DEF Owners
  <2> QED
    BY <1>2, <1>4, <2>2 DEF Engines
<1>5. ASSUME owner[1] = "model", NEW c \in Contexts, ModelOf(c) = owner
      PROVE  <<"exec", 0>> \notin held'[c]
  <2>1. c \in Owners /\ c # owner
    BY <1>5 DEF Owners, Contexts
  <2> QED
    BY <1>2, <1>5, <2>1 DEF Engines
<1> QED
  BY <1>1, <1>4, <1>5 DEF Engines, ModelOf

(* The rest of a program that needs no address before its first bind. *)
LEMMA BoundStep ==
  ASSUME NEW s \in Seq(CallSet), s # << >>, Bound(s), Head(s).op # "bind"
  PROVE  Bound(Tail(s)) /\ (Makes(Head(s)) => Head(s).obj[1] \in Exempt)
<1> DEFINE t == Tail(s)
           h == Head(s)
<1>1. /\ t \in Seq(CallSet) /\ 1 \in DOMAIN s /\ h = s[1]
      /\ \A i \in DOMAIN t : i \in Nat \ {0} /\ i + 1 \in DOMAIN s /\ t[i] = s[i + 1]
      /\ \A i \in DOMAIN s : i # 1 => i - 1 \in DOMAIN t /\ t[i - 1] = s[i]
  BY TailFacts
<1>2. PICK n \in Nat : DOMAIN s = 1 .. n
  <2>1. Len(s) \in Nat /\ DOMAIN s = 1 .. Len(s)
    OBVIOUS
  <2> QED
    BY <2>1
<1> HIDE DEF t, h
<1>3. Makes(h) => h.obj[1] \in Exempt
  BY <1>1 DEF Bound
<1>4. Bound(t)
  <2> SUFFICES ASSUME NEW i \in DOMAIN t, Makes(t[i]), t[i].obj[1] \notin Exempt
               PROVE  \E j \in 1 .. i - 1 : t[j].op = "bind"
    BY DEF Bound
  <2>1. i + 1 \in DOMAIN s /\ t[i] = s[i + 1] /\ i \in Nat \ {0}
    BY <1>1
  <2>2. PICK j \in 1 .. (i + 1) - 1 : s[j].op = "bind"
    BY <2>1 DEF Bound
  <2>3. j # 1
    BY <1>1, <2>2 DEF h
  <2>4. j \in DOMAIN s /\ j - 1 \in 1 .. i - 1
    BY <1>2, <2>1, <2>3
  <2>5. t[j - 1] = s[j]
    BY <1>1, <2>3, <2>4
  <2> QED
    BY <2>2, <2>4, <2>5
<1> QED
  BY <1>3, <1>4 DEF t, h

(* The main thread addresses the owner's context, or the device, after the call too. *)
LEMMA CallAddressed ==
  ASSUME Types, Calls, Holdings, Holdings', Addressed, Call
  PROVE  Addressed'
<1> DEFINE h == Head(todo)
           o == h.obj
<1>1. /\ owner' = owner /\ Owners' = Owners /\ todo' = Tail(todo)
      /\ \A x : Class(x)' = Class(x)
  BY Fixed DEF Call
<1>2. todo \in Seq(CallSet) /\ todo # << >> /\ owner \in Owners /\ Chosen
  BY DEF Types, Call, Chosen
<1>3. Effect(h, held[owner], owned[owner], held'[owner], owned'[owner])
  BY CallEffect
<1>4. h = todo[1] /\ 1 \in DOMAIN todo
  BY <1>2, TailFacts
<1>5. "main" \in Threads /\ current = [t \in Threads |-> current[t]]
  BY DEF Types, Threads
<1>6. ASSUME IsAcl(Class(owner)), <<"context", 0>> \in held'[owner]
      PROVE  current'["main"] = owner
  <2>1. env \in held'[owner]
    <3>1. Rooted(Class(owner), owner[1], held'[owner])
      BY <1>1, <1>2 DEF Holdings
    <3> QED
      BY <1>6, <3>1, LocalAcl DEF Rooted
  <2>2. held[owner] = owned[owner]
    BY <1>2, <1>6 DEF Holdings
  <2>3. CASE Create
    <3>1. CASE o = <<"context", 0>>
      BY <1>5, <2>3, <3>1 DEF Create
    <3>2. CASE o # <<"context", 0>>
      <4>1. current' = current /\ <<"context", 0>> \in held[owner] /\ h.op # "bind"
        BY <1>2, <1>6, <2>3, <3>2 DEF Create, Types
      <4> QED
        BY <1>2, <1>6, <4>1 DEF Addressed
    <3> QED
      BY <3>1, <3>2
  <2>4. CASE Keep
    <3>1. current' = current /\ <<"context", 0>> \in held[owner] /\ h.op # "bind"
      BY <1>6, <2>4 DEF Keep
    <3> QED
      BY <1>2, <1>6, <3>1 DEF Addressed
  <2>5. CASE AddressThread
    <3>1. <<"context", 0>> \in owned[owner]
      BY <1>6, <2>2, <2>5 DEF AddressThread
    <3> QED
      BY <1>5, <1>6, <2>5, <3>1 DEF AddressThread, Address
  <2>6. CASE Destroy
    <3>1. <<"context", 0>> \in held[owner] /\ h.op # "bind"
      BY <1>2, <1>6, <2>6 DEF Destroy, Types
    <3>2. CASE o \notin owned[owner]
      BY <1>2, <1>6, <2>6, <3>1, <3>2 DEF Destroy, Addressed
    <3>3. CASE o \in owned[owner]
      <4>1. o \notin held'[owner]
        BY <1>2, <2>6, <3>3 DEF Destroy, Types
      <4>2. o # env /\ o # <<"context", 0>>
        BY <1>6, <2>1, <4>1
      <4>3. current' = current
        BY <2>6, <3>3, <4>2 DEF Destroy
      <4> QED
        BY <1>2, <1>6, <3>1, <4>3 DEF Addressed
    <3> QED
      BY <3>2, <3>3
  <2>7. CASE Passed
    <3>1. current' = current /\ <<"context", 0>> \in held[owner] /\ h.op # "bind"
      BY <1>6, <2>7 DEF Passed
    <3> QED
      BY <1>2, <1>6, <3>1 DEF Addressed
  <2> QED
    BY <2>3, <2>4, <2>5, <2>6, <2>7 DEF Call
<1>7. ASSUME ~IsAcl(Class(owner))
      PROVE  \/ current'["main"] = dev
             \/ (\A x \in Owners : \A p \in held'[x] : p[1] \in Exempt) /\ Bound(Tail(todo))
  <2>1. env \notin Fulls(owner) /\ <<"context", 0>> \notin Fulls(owner)
    BY <1>2, <1>7, FullFacts
  <2>2. Makes(h) => o \in Fulls(owner)
    <3>1. Makes(h) => o \in MadeBy(todo)
      BY <1>4 DEF MadeBy
    <3> QED
      BY <3>1 DEF Calls
  <2>3. owned[owner] \subseteq Fulls(owner)
    BY <1>2 DEF Holdings
  <2>4. CASE h.op = "bind"
    <3>1. AddressThread
      BY <2>4 DEF Call, Create, Keep, Destroy, Passed
    <3> QED
      BY <1>5, <1>7, <3>1 DEF AddressThread, Address, dev
  <2>5. CASE h.op # "bind"
    <3>1. current' = current
      <4>1. CASE Create
        BY <2>1, <2>2, <4>1 DEF Create, Makes
      <4>2. CASE Keep
        BY <4>2 DEF Keep
      <4>3. CASE AddressThread
        BY <2>5, <4>3 DEF AddressThread
      <4>4. CASE Destroy
        BY <2>1, <2>3, <4>4 DEF Destroy
      <4>5. CASE Passed
        BY <4>5 DEF Passed
      <4> QED
        BY <4>1, <4>2, <4>3, <4>4, <4>5 DEF Call
    <3>2. CASE current["main"] = dev
      BY <3>1, <3>2
    <3>3. CASE current["main"] # dev
      <4>1. (\A x \in Owners : \A p \in held[x] : p[1] \in Exempt) /\ Bound(todo)
        BY <1>7, <3>3 DEF Addressed
      <4>2. Bound(Tail(todo)) /\ (Makes(h) => o[1] \in Exempt)
        BY <1>2, <2>5, <4>1, BoundStep
      <4>3. ASSUME NEW x \in Owners, NEW p \in held'[x] PROVE p[1] \in Exempt
        <5>1. p \in held[x] \/ (Makes(h) /\ p = o)
          BY <1>3, CallEffect DEF Effect, Makes
        <5> QED
          BY <4>1, <4>2, <5>1
      <4> QED
        BY <4>2, <4>3
    <3> QED
      BY <3>2, <3>3
  <2> QED
    BY <2>4, <2>5
<1> QED
  BY <1>1, <1>6, <1>7 DEF Addressed, dev

------------------------------------------------------------------------------
(* A call that fails, and the order of construction and destruction. *)

(* Nothing to do is a clean-up; and a clean-up creates nothing. *)
LEMMA CleanFacts ==
  ASSUME NEW x, NEW H
  PROVE  /\ CleansUp(x, H, << >>)
         /\ \A D \in Seq(CallSet) : Cleaning(D) => MadeBy(D) = {} /\ Bound(D)
<1>1. << >> \in Seq(CallSet) /\ DOMAIN << >> = {}
  OBVIOUS
<1>2. CleansUp(x, H, << >>)
  BY <1>1 DEF CleansUp, Cleaning, Sound, Ordered, Grounded, Orderly
<1>3. ASSUME NEW D \in Seq(CallSet), Cleaning(D) PROVE MadeBy(D) = {} /\ Bound(D)
  BY <1>3 DEF Cleaning, MadeBy, Bound, Makes
<1> QED
  BY <1>2, <1>3

(* What a failed call's clean-up is ready for, and what it leaves. *)
LEMMA UndoForm ==
  ASSUME Types, Phases, Calls, Holdings, Throw
  PROVE  /\ CleansUp(owner, held[owner], Undo(owner, Head(todo).undo))
         /\ Undo(owner, Head(todo).undo) # << >> => Binds(owner, Undo(owner, Head(todo).undo))
         /\ IF IsAcl(Class(owner))
            THEN Kept(held[owner], owned[owner], Undo(owner, Head(todo).undo)) \in {{}, Five}
            ELSE \/ Kept(held[owner], owned[owner], Undo(owner, Head(todo).undo)) = {}
                 \/ \E i \in 1 .. MaxIO :
                      Kept(held[owner], owned[owner], Undo(owner, Head(todo).undo)) = {<<"out", i>>}
<1>1. owner \in Owners /\ Chosen /\ Constructing /\ todo \in Seq(CallSet) /\ todo # << >>
  BY DEF Types, Chosen, Throw, Constructing
<1> DEFINE c == Class(owner)
           F == Fulls(owner)
<1>2. PICK H, W, u, D : H = held[owner] /\ W = owned[owner] /\ u = Head(todo).undo
          /\ D = Undo(owner, Head(todo).undo)
  OBVIOUS
<1>3. /\ W \subseteq H /\ H \subseteq F
      /\ \A o \in H \ W : ~IsAcl(c)
  BY <1>1, <1>2 DEF Holdings
<1>4. 1 \in DOMAIN todo /\ Head(todo) = todo[1] /\ todo[1].op # "own"
  <2>1. 1 \in DOMAIN todo /\ Head(todo) = todo[1]
    BY <1>1, TailFacts
  <2> QED
    BY <2>1 DEF Throw
<1>5. Building(c, owner[1], H, W, todo)
  BY <1>1, <1>2 DEF Calls
<1>6. /\ u = "none" => H = {}
      /\ u = "stage" => IsAcl(c) /\ Five \subseteq H
  <2>1. Undone(c, H, todo) /\ todo[1].undo = u
    BY <1>2, <1>4, <1>5 DEF Building
  <2>2. \A j : j \notin 1 .. 1 - 1
    OBVIOUS
  <2> QED
    BY <1>4, <2>1, <2>2 DEF Undone
<1>7. IF IsAcl(c) THEN H = W
      ELSE H = W \/ \E i \in 1 .. MaxIO : H \ W = {<<"out", i>>}
  <2>1. CASE H = W
    BY <2>1
  <2>2. CASE H # W
    <3>1. PICK k \in DOMAIN todo : OwnsNext(todo, k) /\ H \ W = {todo[k].obj}
      BY <1>5, <2>2 DEF Building
    <3>2. ~IsAcl(c)
      BY <1>3, <3>1
    <3>3. todo[k].obj \in {"out"} \X Nat
      BY <1>4, <3>1 DEF OwnsNext
    <3>4. PICK i \in Nat : todo[k].obj = <<"out", i>>
      BY <3>3
    <3>5. <<"out", i>> \in F
      BY <1>3, <3>1, <3>4
    <3>6. i \in 1 .. MaxIO
      BY <1>1, <3>2, <3>5, FullFacts
    <3> QED
      BY <3>1, <3>2, <3>4, <3>6
  <2> QED
    BY <2>1, <2>2
<1> HIDE DEF c, F
<1>8. CASE u = "none"
  <2>1. D = << >>
    BY <1>2, <1>8, OtherUndos
  <2>2. Kept(H, W, D) = {}
    BY <1>6, <1>8 DEF Kept
  <2> QED
    BY <1>2, <2>1, <2>2, CleanFacts
<1>9. CASE u = "stage"
  <2>1. IsAcl(c) /\ Five \subseteq H /\ H = W
    BY <1>6, <1>7, <1>9
  <2>2. CleansUp(owner, H, D) /\ Binds(owner, D) /\ FreedBy(D) \intersect Five = {}
            /\ F \ Five \subseteq FreedBy(D)
    BY <1>1, <1>2, <1>3, <1>9, <2>1, StageUndoForm DEF c, F
  <2>3. H \ (W \intersect FreedBy(D)) = Five
    BY <1>3, <2>1, <2>2
  <2>4. Kept(H, W, D) = Five
    BY <2>3 DEF Kept
  <2> QED
    BY <1>2, <2>1, <2>2, <2>4 DEF c
<1>10. CASE u \notin {"none", "stage"}
  <2>1. D = Destructor(owner)
    BY <1>2, <1>10, OtherUndos
  <2>2. CleansUp(owner, H, D) /\ Binds(owner, D) /\ F \subseteq FreedBy(D)
    BY <1>1, <1>3, <2>1, DestructorForm DEF F
  <2>3. H \ (W \intersect FreedBy(D)) = H \ W
    BY <1>3, <2>2
  <2>4. Kept(H, W, D) = H \ W
    BY <2>3 DEF Kept
  <2>5. CASE IsAcl(c)
    <3>1. Kept(H, W, D) = {}
      BY <1>7, <2>4, <2>5
    <3> QED
      BY <1>2, <2>2, <2>5, <3>1 DEF c
  <2>6. CASE ~IsAcl(c)
    <3>1. Kept(H, W, D) = {} \/ \E i \in 1 .. MaxIO : Kept(H, W, D) = {<<"out", i>>}
      BY <1>7, <2>4, <2>6
    <3> QED
      BY <1>2, <2>2, <2>6, <3>1 DEF c
  <2> QED
    BY <2>5, <2>6
<1> QED
  BY <1>8, <1>9, <1>10

(* A call of a constructor fails. *)
LEMMA ThrowKeeps ==
  ASSUME Types, Phases, Calls, Holdings, Remains, Engines, Addressed, Throw
  PROVE  Types' /\ Phases' /\ Calls' /\ Holdings' /\ Remains' /\ Engines' /\ Addressed'
<1>1. owner \in Owners /\ Chosen /\ Constructing /\ todo \in Seq(CallSet) /\ todo # << >>
          /\ owner \notin standing
      /\ phase = "create" /\ thrower = None
  BY DEF Types, Chosen, Throw, Constructing, Phases
<1>2. PICK D : D = Undo(owner, Head(todo).undo)
  OBVIOUS
<1>3. /\ todo' = D /\ thrower' = owner
      /\ UNCHANGED <<app, io, owner, held, owned, standing, phase, current>>
  BY <1>2 DEF Throw
<1>4. /\ Owners' = Owners /\ Contexts' = Contexts /\ Models' = Models /\ Classes' = Classes
      /\ \A x : Class(x)' = Class(x) /\ Fulls(x)' = Fulls(x)
  BY <1>3, Fixed
<1>5. owner # None /\ ~Constructing'
  BY <1>1, <1>3, NoneIsNobody DEF Constructing
<1>6. /\ CleansUp(owner, held[owner], D)
      /\ D # << >> => Binds(owner, D)
      /\ IF IsAcl(Class(owner)) THEN Kept(held[owner], owned[owner], D) \in {{}, Five}
         ELSE Kept(held[owner], owned[owner], D) = {}
             \/ \E i \in 1 .. MaxIO : Kept(held[owner], owned[owner], D) = {<<"out", i>>}
  BY <1>2, UndoForm
<1>7. D \in Seq(CallSet) /\ Cleaning(D) /\ Sound(Class(owner), owner[1], held[owner], D)
  BY <1>6 DEF CleansUp
<1>8. MadeBy(D) = {} /\ Bound(D)
  BY <1>7, CleanFacts
<1>9. Types'
  BY <1>1, <1>3, <1>4, <1>7 DEF Types
<1>10. Phases'
  BY <1>1, <1>3 DEF Phases, Precedes
<1>11. Calls'
  BY <1>3, <1>4, <1>5, <1>7, <1>8 DEF Calls
<1>12. Holdings'
  BY <1>3, <1>4 DEF Holdings, ModelOf
<1>13. Remains'
  <2>1. \A x \in Owners : x # owner => Rest(x)' = held[x] /\ Rest(x) = held[x]
    BY <1>3 DEF Rest
  <2>2. Rest(owner)' = Kept(held[owner], owned[owner], D)
    BY <1>3, <1>5 DEF Rest
  <2>3. ASSUME NEW x \in Owners, x # owner
        PROVE  held[x] = owned[x] /\ (x \notin standing => Rest(x)' = {})
    BY <1>1, <2>1, <2>3, NoneIsNobody DEF Remains
  <2>4. IF IsAcl(Class(owner)) THEN Rest(owner)' \in {{}, Five}
        ELSE Rest(owner)' = {} \/ \E i \in 1 .. MaxIO : Rest(owner)' = {<<"out", i>>}
    BY <1>6, <2>2
  <2> QED
    BY <1>3, <1>4, <2>3, <2>4 DEF Remains
<1>14. Engines'
  BY <1>3, <1>4, <1>5 DEF Engines, ModelOf
<1>15. Addressed'
  BY <1>3, <1>4, <1>6, <1>8 DEF Addressed, Binds, dev
<1> QED
  BY <1>9, <1>10, <1>11, <1>12, <1>13, <1>14, <1>15

(* An application has a class and a class has an instance. *)
LEMMA ClassCount ==
  ASSUME NEW a \in Apps
  PROVE  /\ Len(ClassesOf[a]) \in Nat \ {0}
         /\ Instances[a] \in Nat \ {0}
<1>1. a \in {"yolox310p", "deepsort310p", "fusion310p", "yoloxOrin", "deepsortOrin", "fusionOrin"}
  BY ContextsAssumption DEF ClassesOf
<1>2. Len(<<"YoloxAcl">>) = 1 /\ Len(<<"DetectionAcl", "ReidAcl">>) = 2 /\ Len(<<"FusionAcl">>) = 1
      /\ Len(<<"YoloxTrt">>) = 1 /\ Len(<<"DetectionTrt", "ReidTrt">>) = 2
             /\ Len(<<"FusionTrt">>) = 1
  OBVIOUS
<1>3. Len(ClassesOf[a]) \in {1, 2}
  BY <1>1, <1>2 DEF ClassesOf
<1>4. Len(ClassesOf[a]) \in Nat \ {0}
  BY <1>3, SMTT(60)
<1>5. Instances[a] \in Nat \ {0}
  BY ContextsAssumption
<1> QED
  BY <1>4, <1>5

(* What the creation of a class begins with is one of the owners. *)
LEMMA FirstIsOwner ==
  ASSUME app \in Apps, NEW k \in 1 .. Len(Classes)
  PROVE  FirstOf(k) \in Owners
<1>1. Count \in Nat \ {0}
  BY ClassCount DEF Count
<1>2. <<"context", k, 1>> \in Contexts
  BY <1>1 DEF Contexts
<1>3. CASE IsAcl(Classes[k])
  BY <1>2, <1>3 DEF FirstOf, Owners
<1>4. CASE ~IsAcl(Classes[k])
  BY <1>4 DEF FirstOf, Owners, Models
<1> QED
  BY <1>3, <1>4

(* What follows each owner but the last: an owner, later in main's order. *)
LEMMA NextOwner ==
  ASSUME app \in Apps, NEW x \in Owners, ~IsLast(x)
  PROVE  /\ CreateContexts(x) \in Owners
         /\ x[2] \in Nat /\ x[3] \in Nat /\ Precedes(x, CreateContexts(x))
         /\ \/ /\ CreateContexts(x) = <<"context", x[2], x[3] + 1>>
               /\ x[1] = "model" => x = ModelOf(CreateContexts(x))
            \/ x[1] = "context" /\ CreateContexts(x) = FirstOf(x[2] + 1)
<1>1. Count \in Nat \ {0} /\ Len(Classes) \in Nat \ {0}
  BY ClassCount DEF Count, Classes
<1>2. x[2] \in 1 .. Len(Classes) /\ x[3] \in 0 .. Count
      /\ (x[3] = Count => x = <<"context", x[2], Count>>)
      /\ (x[1] = "model" => x = <<"model", x[2], 0>>)
  BY <1>1 DEF Owners, Contexts, Models
<1>3. CASE x[3] < Count
  <2>1. <<"context", x[2], x[3] + 1>> \in Contexts
    BY <1>1, <1>2, <1>3 DEF Contexts
  <2>2. CreateContexts(x) = <<"context", x[2], x[3] + 1>>
    BY <1>3 DEF CreateContexts
  <2>3. Precedes(x, CreateContexts(x))
    BY <1>2, <2>2 DEF Precedes
  <2> QED
    BY <1>2, <2>1, <2>2, <2>3 DEF Owners, ModelOf
<1>4. CASE x[3] = Count
  <2>1. x[2] # Len(Classes)
    BY <1>2, <1>4 DEF IsLast
  <2>2. x[2] + 1 \in 1 .. Len(Classes)
    BY <1>1, <1>2, <2>1
  <2>3. FirstOf(x[2] + 1) \in Owners
    BY <2>2, FirstIsOwner
  <2>4. CreateContexts(x) = FirstOf(x[2] + 1)
    BY <1>1, <1>4 DEF CreateContexts
  <2>5. Precedes(x, CreateContexts(x))
    BY <1>2, <2>4 DEF Precedes, FirstOf
  <2>6. x[1] = "context"
    BY <1>2, <1>4
  <2> QED
    BY <1>2, <2>3, <2>4, <2>5, <2>6
<1> QED
  BY <1>1, <1>2, <1>3, <1>4

(* An owner's place in main's order. *)
LEMMA Places == \A x \in Owners : x[2] \in Nat /\ x[3] \in Nat
<1>1. \A x \in Contexts : x[2] \in Nat /\ x[3] \in Nat
  BY DEF Contexts
<1>2. \A x \in Models : x[2] \in Nat /\ x[3] \in Nat
  BY DEF Models
<1> QED
  BY <1>1, <1>2 DEF Owners

(* When a constructor returns, its owner's members know all it holds. *)
LEMMA AllKnown ==
  ASSUME Calls, Constructing, todo = << >>
  PROVE  /\ held[owner] = owned[owner]
         /\ ~IsAcl(Class(owner)) /\ owner[1] = "model" => <<"engine", 0>> \in held[owner]
<1>1. DOMAIN todo = {}
  OBVIOUS
<1>2. Building(Class(owner), owner[1], held[owner], owned[owner], todo) /\ MadeBy(todo) = {}
  BY <1>1 DEF Calls, MadeBy
<1> QED
  BY <1>1, <1>2 DEF Building

(* The last constructor has returned. *)
LEMMA LastKeeps ==
  ASSUME Types, Phases, Calls, Holdings, Remains, Engines, Addressed, Constructed, IsLast(owner)
  PROVE  Types' /\ Phases' /\ Calls' /\ Holdings' /\ Remains' /\ Engines' /\ Addressed'
<1>1. owner \in Owners /\ Constructing /\ todo = << >> /\ thrower = None /\ phase' = "run"
      /\ standing' = standing \union {owner}
      /\ UNCHANGED <<app, io, owner, todo, held, owned, thrower, current>>
  BY DEF Types, Constructed, Constructing
<1>2. /\ Owners' = Owners /\ Contexts' = Contexts /\ Models' = Models /\ Classes' = Classes
      /\ \A x : Class(x)' = Class(x) /\ Fulls(x)' = Fulls(x)
  BY <1>1, Fixed
<1>3. ~Constructing'
  BY <1>1 DEF Constructing
<1>4. CleansUp(owner, held[owner], << >>)
  BY CleanFacts
<1>5. << >> \in Seq(CallSet) /\ Cleaning(<< >>) /\ Sound(Class(owner), owner[1], held[owner], << >>)
  BY <1>4 DEF CleansUp
<1>6. MadeBy(<< >>) = {} /\ Bound(<< >>)
  BY <1>5, CleanFacts
<1>7. Types'
  BY <1>1, <1>2, NoneIsNobody DEF Types
<1>8. Phases'
  BY <1>1 DEF Phases
<1>9. Calls'
  BY <1>1, <1>2, <1>3, <1>5, <1>6 DEF Calls
<1>10. Holdings'
  BY <1>1, <1>2 DEF Holdings, ModelOf
<1>11. Remains'
  <2>1. ASSUME NEW x \in Owners
        PROVE  held[x] = owned[x] /\ (x \notin standing' => Rest(x)' = {})
    <3>1. CASE x = owner
      BY <1>1, <3>1, AllKnown
    <3>2. CASE x # owner
      <4>1. held[x] = owned[x] /\ (x \notin standing => Rest(x) = {})
        BY <1>1, <3>2, NoneIsNobody DEF Remains
      <4>2. Rest(x) = held[x] /\ Rest(x)' = held[x]
        BY <1>1, <3>2 DEF Rest
      <4> QED
        BY <1>1, <4>1, <4>2
    <3> QED
      BY <3>1, <3>2
  <2> QED
    BY <1>1, <1>2, <2>1 DEF Remains
<1>12. Engines'
  BY <1>1, <1>2, <1>3 DEF Engines, ModelOf
<1>13. Addressed'
  BY <1>1, <1>2 DEF Addressed, dev
<1> QED
  BY <1>7, <1>8, <1>9, <1>10, <1>11, <1>12, <1>13

(* A constructor has returned and the next one starts. *)
LEMMA NextKeeps ==
  ASSUME Types, Phases, Calls, Holdings, Remains, Engines, Addressed, Constructed, ~IsLast(owner)
  PROVE  Types' /\ Phases' /\ Calls' /\ Holdings' /\ Remains' /\ Engines' /\ Addressed'
<1>1. owner \in Owners /\ Chosen /\ Constructing /\ todo = << >> /\ thrower = None
          /\ phase = "create"
  BY DEF Types, Constructed, Constructing, Chosen
<1>2. PICK y : y = CreateContexts(owner)
  OBVIOUS
<1>3. /\ owner' = y /\ todo' = Program(y) /\ standing' = standing \union {owner}
      /\ UNCHANGED <<app, io, held, owned, thrower, current, phase>>
  BY <1>2 DEF Constructed
<1>4. /\ y \in Owners /\ Precedes(owner, y)
      /\ \/ y = <<"context", owner[2], owner[3] + 1>> /\ (owner[1] = "model" => owner = ModelOf(y))
         \/ owner[1] = "context" /\ y = FirstOf(owner[2] + 1)
  BY <1>1, <1>2, NextOwner DEF Chosen
<1>5. /\ Owners' = Owners /\ Contexts' = Contexts /\ Models' = Models /\ Classes' = Classes
      /\ \A x : Class(x)' = Class(x) /\ Fulls(x)' = Fulls(x)
  BY <1>3, Fixed
<1>6. Constructing'
  BY <1>1, <1>3 DEF Constructing
<1>7. standing \subseteq Owners /\ \A x \in standing : Precedes(x, owner)
  BY <1>1 DEF Types, Phases
<1>8. y # owner /\ y \notin standing /\ \A x \in standing : Precedes(x, y)
  <2>1. owner[2] \in Nat /\ owner[3] \in Nat /\ y[2] \in Nat /\ y[3] \in Nat
    BY <1>1, <1>4, Places
  <2>2. y # owner
    BY <1>4, <2>1 DEF Precedes
  <2>3. ASSUME NEW x \in standing PROVE Precedes(x, y) /\ x # y
    <3>1. x[2] \in Nat /\ x[3] \in Nat /\ Precedes(x, owner)
      BY <1>7, Places
    <3> QED
      BY <1>4, <2>1, <3>1 DEF Precedes
  <2> QED
    BY <2>2, <2>3
<1>9. ASSUME NEW x \in Owners, x # owner, x \notin standing
      PROVE  held[x] = {} /\ owned[x] = {}
  <2>1. held[x] = owned[x] /\ Rest(x) = {}
    BY <1>1, <1>9, NoneIsNobody DEF Remains
  <2> QED
    BY <1>9, <2>1 DEF Rest
<1>10. held[y] = {} /\ owned[y] = {}
  BY <1>4, <1>8, <1>9
<1>11. Ready(y, Program(y))
  BY <1>1, <1>4, ProgramForm
<1>12. Types'
  BY <1>1, <1>3, <1>4, <1>5, <1>11, NoneIsNobody DEF Types, Ready
<1>13. Phases'
  BY <1>1, <1>3, <1>4, <1>8 DEF Phases, Precedes
<1>14. Calls'
  BY <1>3, <1>5, <1>6, <1>10, <1>11 DEF Calls, Ready
<1>15. Holdings'
  BY <1>3, <1>5 DEF Holdings, ModelOf
<1>16. Remains'
  <2>1. ASSUME NEW x \in Owners, x # y
        PROVE  held[x] = owned[x] /\ (x \notin standing' => Rest(x)' = {})
    <3>1. Rest(x)' = held[x]
      BY <1>3, <2>1 DEF Rest
    <3>2. held[x] = owned[x]
      <4>1. CASE x = owner
        BY <1>1, <4>1, AllKnown
      <4>2. CASE x # owner
        BY <1>1, <4>2, NoneIsNobody DEF Remains
      <4> QED
        BY <4>1, <4>2
    <3> QED
      BY <1>3, <1>9, <3>1, <3>2
  <2> QED
    BY <1>1, <1>3, <1>5, <1>6, <2>1 DEF Remains
<1>17. Engines'
  <2>1. ASSUME ~IsAcl(Class(y)), y[1] = "context" PROVE <<"engine", 0>> \in held[ModelOf(y)]
    <3>1. CASE y = <<"context", owner[2], owner[3] + 1>>
      <4>1. Class(owner) = Class(y) /\ ModelOf(owner) = ModelOf(y)
        BY <3>1 DEF Class, ModelOf
      <4>2. CASE owner[1] = "model"
        <5>1. owner = ModelOf(y)
          BY <1>4, <3>1, <4>2 DEF FirstOf
        <5> QED
          BY <1>1, <2>1, <4>1, <4>2, <5>1, AllKnown
      <4>3. CASE owner[1] = "context"
        BY <1>1, <2>1, <4>1, <4>3 DEF Engines
      <4> QED
        BY <1>1, <4>2, <4>3, ClassFacts
    <3>2. CASE owner[1] = "context" /\ y = FirstOf(owner[2] + 1)
      <4>1. IsAcl(Classes[owner[2] + 1]) /\ y[2] = owner[2] + 1
        BY <2>1, <3>2 DEF FirstOf
      <4> QED
        BY <2>1, <4>1 DEF Class
    <3> QED
      BY <1>4, <3>1, <3>2
  <2>2. ASSUME y[1] = "model", NEW c \in Contexts, ModelOf(c) = y PROVE <<"exec", 0>> \notin held[c]
    <3>1. y[2] = owner[2] + 1 /\ c[2] = y[2]
      BY <1>4, <2>2 DEF FirstOf, ModelOf
    <3>2. c \in Owners /\ c[2] \in Nat /\ owner[2] \in Nat /\ c[3] \in Nat /\ owner[3] \in Nat
      BY <1>1, Places DEF Owners
    <3>3. c # owner /\ ~Precedes(c, owner)
      BY <3>1, <3>2 DEF Precedes
    <3> QED
      BY <1>7, <1>9, <3>2, <3>3
  <2> QED
    BY <1>3, <1>5, <2>1, <2>2 DEF Engines, ModelOf
<1>18. Addressed'
  <2>1. <<"context", 0>> \notin held[y]
    BY <1>10
  <2>2. ASSUME ~IsAcl(Class(y))
        PROVE  current["main"] = dev
           \/ ((\A x \in Owners : \A o \in held[x] : o[1] \in Exempt) /\ Bound(Program(y)))
    <3>1. ~IsAcl(Class(owner))
      BY <1>1, <1>4, <2>2, OneKind
    <3> QED
      BY <1>11, <2>2, <3>1 DEF Addressed, Ready
  <2> QED
    BY <1>3, <1>5, <2>1, <2>2 DEF Addressed, dev
<1> QED
  BY <1>12, <1>13, <1>14, <1>15, <1>16, <1>17, <1>18

(* The phase changes and nothing else does. *)
LEMMA PhaseMoves ==
  ASSUME Calls, Holdings, Remains, Engines, Addressed, ~Constructing, ~Constructing',
         UNCHANGED <<app, io, owner, todo, held, owned, standing, thrower, current>>
  PROVE  Calls' /\ Holdings' /\ Remains' /\ Engines' /\ Addressed'
<1>1. /\ Owners' = Owners /\ Contexts' = Contexts /\ Models' = Models /\ Classes' = Classes
      /\ \A x : Class(x)' = Class(x) /\ Fulls(x)' = Fulls(x)
  BY Fixed
<1>2. \A x : Rest(x)' = Rest(x)
  BY DEF Rest
<1>3. Calls'
  BY <1>1 DEF Calls
<1>4. Holdings'
  BY <1>1 DEF Holdings, ModelOf
<1>5. Remains'
  BY <1>1, <1>2 DEF Remains
<1>6. Engines'
  BY <1>1 DEF Engines, ModelOf
<1>7. Addressed'
  BY <1>1 DEF Addressed, dev
<1> QED
  BY <1>3, <1>4, <1>5, <1>6, <1>7

(* The exception reaches main. *)
LEMMA UnwindKeeps ==
  ASSUME Types, Phases, Calls, Holdings, Remains, Engines, Addressed, Unwind
  PROVE  Types' /\ Phases' /\ Calls' /\ Holdings' /\ Remains' /\ Engines' /\ Addressed'
<1>1. Owners' = Owners /\ Classes' = Classes
  BY Fixed DEF Unwind
<1>2. Types' /\ Phases'
  BY <1>1 DEF Types, Phases, Unwind
<1> QED
  BY <1>2, PhaseMoves DEF Unwind, Constructing

(* The last destructor has returned. *)
LEMMA GoneKeeps ==
  ASSUME Types, Phases, Calls, Holdings, Remains, Engines, Addressed, Gone
  PROVE  Types' /\ Phases' /\ Calls' /\ Holdings' /\ Remains' /\ Engines' /\ Addressed'
<1>1. Owners' = Owners /\ Classes' = Classes
  BY Fixed DEF Gone
<1>2. Types' /\ Phases'
  BY <1>1 DEF Types, Phases, Gone
<1> QED
  BY <1>2, PhaseMoves DEF Gone, Constructing

(* The pipeline has drained. *)
LEMMA ShutDownKeeps ==
  ASSUME Types, Phases, Calls, Holdings, Remains, Engines, Addressed, ShutDown
  PROVE  Types' /\ Phases' /\ Calls' /\ Holdings' /\ Remains' /\ Engines' /\ Addressed'
<1>1. Owners' = Owners /\ Classes' = Classes
  BY Fixed DEF ShutDown
<1>2. Types' /\ Phases'
  BY <1>1 DEF Types, Phases, ShutDown
<1> QED
  BY <1>2, PhaseMoves DEF ShutDown, Constructing

(* Between the calls of one owner and those of the next nothing is being released. *)
LEMMA NothingUnderWay ==
  ASSUME todo = << >>
  PROVE  \A x : Rest(x) = held[x]
<1>1. FreedBy(<< >>) = {}
  <2>1. DOMAIN << >> = {}
    OBVIOUS
  <2> QED
    BY <2>1 DEF FreedBy
<1>2. \A H, W : Kept(H, W, << >>) = H
  BY <1>1 DEF Kept
<1> QED
  BY <1>2 DEF Rest

(* A destructor starts. *)
LEMMA DestructKeeps ==
  ASSUME Types, Phases, Calls, Holdings, Remains, Engines, Addressed, Destruct
  PROVE  Types' /\ Phases' /\ Calls' /\ Holdings' /\ Remains' /\ Engines' /\ Addressed'
<1>1. PICK x \in standing : /\ Unused(x) /\ owner' = x /\ todo' = Destructor(x) /\ standing' = standing \ {x}
                            /\ UNCHANGED <<app, io, held, owned, thrower, phase, current>>
  BY DEF Destruct
<1>2. /\ owner \in Owners /\ x \in Owners /\ x # thrower /\ Chosen /\ todo = << >> /\ phase = "down"
      /\ ~Constructing /\ ~Constructing'
  BY <1>1 DEF Types, Destruct, Constructing, Chosen
<1>3. /\ Owners' = Owners /\ Contexts' = Contexts /\ Models' = Models /\ Classes' = Classes
      /\ \A z : Class(z)' = Class(z) /\ Fulls(z)' = Fulls(z)
  BY <1>1, Fixed
<1>4. PICK D, F : D = Destructor(x) /\ F = Fulls(x)
  OBVIOUS
<1>5. held[x] \subseteq F
  BY <1>2, <1>4 DEF Holdings
<1>6. CleansUp(x, held[x], D) /\ F \subseteq FreedBy(D) /\ Binds(x, D)
  BY <1>2, <1>4, <1>5, DestructorForm
<1>7. D \in Seq(CallSet) /\ Cleaning(D) /\ Sound(Class(x), x[1], held[x], D)
  BY <1>6 DEF CleansUp
<1>8. MadeBy(D) = {} /\ Bound(D)
  BY <1>7, CleanFacts
<1>9. \A z : Rest(z) = held[z]
  BY <1>2, NothingUnderWay
<1>10. Types'
  BY <1>1, <1>2, <1>3, <1>4, <1>7 DEF Types
<1>11. Phases'
  BY <1>1, <1>2 DEF Phases
<1>12. Calls'
  BY <1>1, <1>2, <1>3, <1>4, <1>7, <1>8 DEF Calls
<1>13. Holdings'
  BY <1>1, <1>3 DEF Holdings, ModelOf
<1>14. Remains'
  <2>1. ASSUME NEW z \in Owners, z # thrower
        PROVE  held[z] = owned[z] /\ (z \notin standing' => Rest(z)' = {})
    <3>1. held[z] = owned[z] /\ (z \notin standing => held[z] = {})
      BY <1>2, <1>9, <2>1 DEF Remains
    <3>2. CASE z = x
      <4>1. Kept(held[x], owned[x], D) = {}
        BY <1>5, <1>6, <3>1, <3>2 DEF Kept
      <4>2. Rest(x)' = Kept(held[x], owned[x], D)
        BY <1>1, <1>2, <1>4 DEF Rest
      <4> QED
        BY <3>1, <3>2, <4>1, <4>2
    <3>3. CASE z # x
      <4>1. Rest(z)' = held[z]
        BY <1>1, <3>3 DEF Rest
      <4> QED
        BY <1>1, <3>1, <3>3, <4>1
    <3> QED
      BY <3>2, <3>3
  <2>2. Rest(thrower)' = Rest(thrower)
    <3>1. Rest(thrower)' = held[thrower]
      BY <1>1, <1>2 DEF Rest
    <3> QED
      BY <1>9, <3>1
  <2>3. thrower # None => IF IsAcl(Class(thrower)) THEN Rest(thrower)' \in {{}, Five}
                          ELSE Rest(thrower)' = {}
                              \/ \E i \in 1 .. MaxIO : Rest(thrower)' = {<<"out", i>>}
    BY <2>2 DEF Remains
  <2> QED
    BY <1>1, <1>2, <1>3, <2>1, <2>3 DEF Remains
<1>15. Engines'
  <2>1. ASSUME x[1] = "model", NEW c \in Contexts, ModelOf(c) = x PROVE <<"exec", 0>> \notin held[c]
    <3>1. c \in Owners /\ c[1] = "context" /\ Class(c) = Class(x)
      BY <2>1 DEF Owners, Contexts, Class, ModelOf
    <3>2. c \notin standing
      BY <1>1, <2>1, <3>1 DEF Unused
    <3>3. CASE c # thrower
      BY <1>2, <1>9, <3>1, <3>2, <3>3 DEF Remains
    <3>4. CASE c = thrower
      <4>1. thrower # None /\ ~IsAcl(Class(thrower))
        BY <1>2, <2>1, <3>1, <3>4, ClassFacts, NoneIsNobody
      <4>2. held[c] = {} \/ \E i \in 1 .. MaxIO : held[c] = {<<"out", i>>}
        BY <1>9, <3>4, <4>1 DEF Remains
      <4> QED
        BY <4>2
    <3> QED
      BY <3>3, <3>4
  <2> QED
    BY <1>1, <1>2, <1>3, <2>1 DEF Engines, ModelOf
<1>16. Addressed'
  <2>1. ASSUME ~IsAcl(Class(x))
        PROVE  current["main"] = dev
           \/ ((\A z \in Owners : \A o \in held[z] : o[1] \in Exempt) /\ Bound(D))
    <3>1. ~IsAcl(Class(owner))
      BY <1>2, <2>1, OneKind
    <3> QED
      BY <1>8, <3>1 DEF Addressed
  <2> QED
    BY <1>1, <1>3, <1>4, <1>6, <2>1 DEF Addressed, Binds, dev
<1> QED
  BY <1>10, <1>11, <1>12, <1>13, <1>14, <1>15, <1>16

(* Every step of construction, failure and destruction. *)
LEMMA LifeKeeps ==
  ASSUME Core, LifeNext
  PROVE  Core'
<1>0. Types /\ Phases /\ Calls /\ Holdings /\ Remains /\ Engines /\ Addressed
  BY DEF Core
<1>1. CASE Call
  <2>1. Types' /\ Phases' /\ Calls' /\ Remains' /\ Engines' /\ Holdings'
    BY <1>0, <1>1, CallTypes, CallCalls, CallHoldings, CallRemains, CallEngines
  <2>2. Addressed'
    BY <1>0, <1>1, <2>1, CallAddressed
  <2> QED
    BY <2>1, <2>2 DEF Core
<1>2. CASE Throw
  BY <1>0, <1>2, ThrowKeeps DEF Core
<1>3. CASE Constructed
  BY <1>0, <1>3, LastKeeps, NextKeeps DEF Core
<1>4. CASE Unwind
  BY <1>0, <1>4, UnwindKeeps DEF Core
<1>5. CASE Destruct
  BY <1>0, <1>5, DestructKeeps DEF Core
<1>6. CASE Gone
  BY <1>0, <1>6, GoneKeeps DEF Core
<1> QED
  BY <1>1, <1>2, <1>3, <1>4, <1>5, <1>6 DEF LifeNext

------------------------------------------------------------------------------
(* The beginning, and the nodes at work. *)

(* In the beginning. *)
LEMMA InitKeeps ==
  ASSUME Init
  PROVE  Core /\ AtWork
<1>1. /\ app \in Apps /\ io \in [ToSet(Classes) -> Shapes]
      /\ owner = FirstOf(1) /\ todo = Program(owner) /\ standing = {} /\ thrower = None
             /\ phase = "create"
      /\ held = [x \in Owners |-> {}] /\ owned = [x \in Owners |-> {}]
      /\ current = [t \in Threads |-> None]
  BY DEF Init, LifeInit, Classes
<1>2. owner \in Owners
  <2>1. 1 \in 1 .. Len(Classes)
    BY <1>1, ClassCount DEF Classes
  <2> QED
    BY <1>1, <2>1, FirstIsOwner
<1>3. Chosen /\ Constructing
  BY <1>1 DEF Chosen, Constructing
<1>4. Ready(owner, todo)
  BY <1>1, <1>2, <1>3, ProgramForm
<1>5. \A x \in Owners : held[x] = {} /\ owned[x] = {}
  BY <1>1
<1>6. Types
  BY <1>1, <1>2, <1>4 DEF Types, Ready
<1>7. Phases
  BY <1>1 DEF Phases
<1>8. Calls
  BY <1>2, <1>3, <1>4, <1>5 DEF Calls, Ready
<1>9. Holdings
  <2>1. \A x \in Contexts : x \in Owners
    BY DEF Owners
  <2> QED
    BY <1>5, <2>1 DEF Holdings, Rooted
<1>10. Remains
  BY <1>1, <1>3, <1>5 DEF Remains, Rest
<1>11. Engines
  <2>1. owner[1] = "context" => IsAcl(Class(owner))
    BY <1>1 DEF FirstOf, Class
  <2>2. \A x \in Contexts : x \in Owners
    BY DEF Owners
  <2> QED
    BY <1>5, <2>1, <2>2 DEF Engines
<1>12. Addressed
  BY <1>2, <1>4, <1>5 DEF Addressed, Ready
<1>13. AtWork
  <2>1. work = [t \in Workers |-> Idle]
    BY DEF Init, FlowInit
  <2> QED
    BY <2>1 DEF AtWork, Busy, Idle
<1> QED
  BY <1>6, <1>7, <1>8, <1>9, <1>10, <1>11, <1>12, <1>13 DEF Core

(* The calls of the nodes. *)
DoOps  == {"bind", "copyIn", "copyOut", "copyHost", "queueIn", "queueOut", "waitOut", "enqueue",
    "synchronize"}
DoSet  == [op : DoOps, index : Nat, crop : Nat]
Begins == {s \in Seq(DoSet) : s # << >> => Head(s).op = "bind"}

(* Programs that begin with a bind stay so when more calls follow. *)
LEMMA BeginsClosed == Closed(Begins, DoSet) /\ \A s \in Begins, t \in Seq(DoSet) : s # << >>
    => s \o t \in Begins
<1>1. << >> \in Begins
  BY DEF Begins
<1>2. ASSUME NEW s \in Begins, NEW t \in Seq(DoSet), s # << >> PROVE s \o t \in Begins
  <2>1. PICK A : A = DoSet
    OBVIOUS
  <2>2. s \in Seq(A) /\ t \in Seq(A) /\ Head(s).op = "bind"
    BY <1>2, <2>1 DEF Begins
  <2>3. s \o t \in Seq(A) /\ Head(s \o t) = Head(s)
    BY <1>2, <2>2
  <2> QED
    BY <2>1, <2>2, <2>3 DEF Begins
<1>3. ASSUME NEW s \in Begins, NEW t \in Begins PROVE s \o t \in Begins
  <2>1. CASE s = << >>
    <3>1. t \in Seq(DoSet)
      BY DEF Begins
    <3>2. s \o t = t
      <4>1. PICK A : A = DoSet
        OBVIOUS
      <4> QED
        BY <2>1, <3>1, <4>1
    <3> QED
      BY <3>2
  <2>2. CASE s # << >>
    BY <1>2, <2>2 DEF Begins
  <2> QED
    BY <2>1, <2>2
<1> QED
  BY <1>1, <1>2, <1>3 DEF Closed, Begins

(* The calls of a node are calls. *)
LEMMA DoIn ==
  ASSUME NEW op \in DoOps, NEW index \in Nat, NEW crop \in Nat
  PROVE  Do(op, index, crop) \in DoSet
  BY DEF Do, DoSet

(* The three methods of the Ascend contexts each begin with a bind. *)
LEMMA AclParts ==
  ASSUME NEW class, NEW crop \in Nat, Ins(class) \in Nat, Outs(class) \in Nat
  PROVE  /\ CopyInputsToStage(class, crop) \in Begins
         /\ ExecuteStage(class, crop) \in Begins
         /\ CopyOutputsFromStage(class, crop) \in Begins
<1>1. PICK A, b, e, w : A = DoSet /\ b = Do("bind", 0, crop) /\ e = Do("enqueue", 0, crop)
          /\ w = Do("synchronize", 0, crop)
  OBVIOUS
<1>2. b \in A /\ e \in A /\ w \in A /\ b.op = "bind"
  <2>1. b \in DoSet /\ e \in DoSet /\ w \in DoSet
    BY <1>1, DoIn DEF DoOps
  <2> QED
    BY <1>1, <2>1 DEF Do
<1>3. PICK i, o : /\ i = [k \in 1 .. Ins(class) |-> Do("copyIn", k, crop)]
                  /\ o = [k \in 1 .. Outs(class) |-> Do("copyOut", k, crop)]
  OBVIOUS
<1>4. i \in Seq(A) /\ o \in Seq(A)
  <2>1. \A k \in Nat : Do("copyIn", k, crop) \in A /\ Do("copyOut", k, crop) \in A
    BY <1>1, DoIn DEF DoOps
  <2> QED
    BY <1>3, <2>1, SMTT(60)
<1>5. /\ <<b>> \o i \in Seq(A) /\ Head(<<b>> \o i) = b
      /\ <<b>> \o o \in Seq(A) /\ Head(<<b>> \o o) = b
      /\ <<b, e, w>> \in Seq(A) /\ Head(<<b, e, w>>) = b
  BY <1>2, <1>4
<1>6. /\ CopyInputsToStage(class, crop) = <<b>> \o i
      /\ ExecuteStage(class, crop) = <<b, e, w>>
      /\ CopyOutputsFromStage(class, crop) = <<b>> \o o
  BY <1>1, <1>3 DEF CopyInputsToStage, ExecuteStage, CopyOutputsFromStage
<1> QED
  BY <1>1, <1>2, <1>5, <1>6 DEF Begins

(* The parts of the Orin nodes. *)
LEMMA TrtParts ==
  ASSUME NEW class, NEW crop \in Nat, Outs(class) \in Nat
  PROVE  /\ BindCurrentThread \in Begins /\ BindCurrentThread # << >>
         /\ CopyToDevice(crop) \in Seq(DoSet) /\ ExecuteModel(crop) \in Seq(DoSet)
         /\ CopyToHost(class, crop) \in Seq(DoSet) /\ CopyToPacket(class, crop) \in Seq(DoSet)
         /\ ReidCopyToHost(crop) \in Seq(DoSet) /\ FusionCopyOutput(crop) \in Seq(DoSet)
         /\ \A i \in Nat : FusionCopyInput(i, crop) \in Seq(DoSet)
<1>1. PICK A : A = DoSet
  OBVIOUS
<1>2. /\ \A k \in Nat : /\ Do("queueIn", k, crop) \in A /\ Do("queueOut", k, crop) \in A
                        /\ Do("copyHost", k, crop) \in A /\ Do("waitOut", k, crop) \in A
      /\ Do("enqueue", 0, crop) \in A /\ Do("synchronize", 0, crop) \in A
      /\ Do("bind", 0, 1) \in A /\ Do("bind", 0, 1).op = "bind"
  <2>1. Do("bind", 0, 1).op = "bind"
    BY DEF Do
  <2> QED
    BY <1>1, <2>1, DoIn DEF DoOps
<1>3. ASSUME NEW a \in A, NEW b \in A, NEW c \in A
      PROVE  <<a>> \in Seq(A) /\ <<a, b>> \in Seq(A) /\ <<a, b, c>> \in Seq(A) /\ Head(<<a>>) = a
         /\ <<a>> # << >>
  OBVIOUS
<1>4. BindCurrentThread \in Begins /\ BindCurrentThread # << >>
  BY <1>1, <1>2, <1>3 DEF BindCurrentThread, Begins
<1>5. CopyToDevice(crop) \in Seq(A) /\ ExecuteModel(crop) \in Seq(A)
  BY <1>2, <1>3 DEF CopyToDevice, ExecuteModel
<1>6. ReidCopyToHost(crop) \in Seq(A) /\ FusionCopyOutput(crop) \in Seq(A)
      /\ \A i \in Nat : FusionCopyInput(i, crop) \in Seq(A)
  BY <1>2, <1>3 DEF ReidCopyToHost, FusionCopyOutput, FusionCopyInput
<1>7. CopyToHost(class, crop) \in Seq(A) /\ CopyToPacket(class, crop) \in Seq(A)
  <2>1. PICK q, h, w : /\ q = [o \in 1 .. Outs(class) |-> Do("queueOut", o, crop)]
                       /\ h = [o \in 1 .. Outs(class) |-> Do("copyHost", o, crop)]
                       /\ w = Do("synchronize", 0, crop)
    OBVIOUS
  <2>2. q \in Seq(A) /\ h \in Seq(A) /\ w \in A
    BY <1>2, <2>1, SMTT(60)
  <2>3. q \o <<w>> \in Seq(A)
    BY <2>2
  <2> QED
    BY <2>1, <2>2, <2>3 DEF CopyToHost, CopyToPacket
<1> QED
  BY <1>1, <1>4, <1>5, <1>6, <1>7

(* The node of each class. *)
LEMMA NodeOf ==
  /\ NodeProgram("YoloxAcl") = (CopyInputsToStage("YoloxAcl", 1) \o ExecuteStage("YoloxAcl", 1))
         \o CopyOutputsFromStage("YoloxAcl", 1)
  /\ NodeProgram("DetectionAcl") =
       (CopyInputsToStage("DetectionAcl", 1) \o ExecuteStage("DetectionAcl", 1))
           \o CopyOutputsFromStage("DetectionAcl", 1)
  /\ NodeProgram("ReidAcl") =
       FlattenSeq([k \in 1 .. Crops |-> (CopyInputsToStage("ReidAcl", k)
           \o ExecuteStage("ReidAcl", k)) \o CopyOutputsFromStage("ReidAcl", k)])
  /\ NodeProgram("FusionAcl") =
       (CopyInputsToStage("FusionAcl", 1) \o ExecuteStage("FusionAcl", 1))
           \o CopyOutputsFromStage("FusionAcl", 1)
  /\ \A class \in {"YoloxTrt", "DetectionTrt"} :
       NodeProgram(class) =
         (((BindCurrentThread \o CopyToDevice(1)) \o ExecuteModel(1)) \o CopyToHost(class, 1))
             \o CopyToPacket(class, 1)
  /\ NodeProgram("ReidTrt") =
       BindCurrentThread
           \o FlattenSeq([k \in 1 .. Crops |-> (CopyToDevice(k) \o ExecuteModel(k))
               \o ReidCopyToHost(k)])
  /\ NodeProgram("FusionTrt") =
       (((BindCurrentThread \o FusionCopyInput(1, 1)) \o FusionCopyInput(2, 1)) \o ExecuteModel(1))
           \o FusionCopyOutput(1)
<1>1. NodeProgram("YoloxAcl") = (CopyInputsToStage("YoloxAcl", 1) \o ExecuteStage("YoloxAcl", 1))
          \o CopyOutputsFromStage("YoloxAcl", 1)
  BY DEF NodeProgram
<1>2. NodeProgram("DetectionAcl") =
       (CopyInputsToStage("DetectionAcl", 1) \o ExecuteStage("DetectionAcl", 1))
           \o CopyOutputsFromStage("DetectionAcl", 1)
  BY DEF NodeProgram, DetectionCopyInputs, DetectionExecuteStage, DetectionCopyOutputs
<1>3. NodeProgram("ReidAcl") =
       FlattenSeq([k \in 1 .. Crops |-> (CopyInputsToStage("ReidAcl", k)
           \o ExecuteStage("ReidAcl", k)) \o CopyOutputsFromStage("ReidAcl", k)])
  BY DEF NodeProgram, EachCrop, ReidCopyInputs, ReidExecuteStage, ReidCopyOutputs
<1>4. NodeProgram("FusionAcl") =
       (CopyInputsToStage("FusionAcl", 1) \o ExecuteStage("FusionAcl", 1))
           \o CopyOutputsFromStage("FusionAcl", 1)
  BY DEF NodeProgram, FusionCopyInputs, FusionExecuteStage, FusionCopyOutputs
<1>5. NodeProgram("YoloxTrt") =
         (((BindCurrentThread \o CopyToDevice(1)) \o ExecuteModel(1)) \o CopyToHost("YoloxTrt", 1))
             \o CopyToPacket("YoloxTrt", 1)
  BY DEF NodeProgram
<1>6. NodeProgram("DetectionTrt") =
         (((BindCurrentThread \o CopyToDevice(1)) \o ExecuteModel(1))
             \o CopyToHost("DetectionTrt", 1)) \o CopyToPacket("DetectionTrt", 1)
  BY DEF NodeProgram, DetectionCopyToDevice, DetectionExecuteModel, DetectionCopyToHost
<1>7. NodeProgram("ReidTrt") =
       BindCurrentThread
           \o FlattenSeq([k \in 1 .. Crops |-> (CopyToDevice(k) \o ExecuteModel(k))
               \o ReidCopyToHost(k)])
  BY DEF NodeProgram, EachCrop, ReidCopyToDevice, ReidExecute
<1>8. NodeProgram("FusionTrt") =
       (((BindCurrentThread \o FusionCopyInput(1, 1)) \o FusionCopyInput(2, 1)) \o ExecuteModel(1))
           \o FusionCopyOutput(1)
  BY DEF NodeProgram, FusionExecute
<1> QED
  BY <1>1, <1>2, <1>3, <1>4, <1>5, <1>6, <1>7, <1>8

(* Whatever its class, a node's first call makes the thread address its context. *)
LEMMA NodeStarts ==
  ASSUME Chosen, NEW c \in Owners
  PROVE  NodeProgram(Class(c)) \in Begins
<1>0. PICK class : class = Class(c)
  OBVIOUS
<1>1. /\ class \in {"YoloxAcl", "DetectionAcl", "ReidAcl", "FusionAcl", "YoloxTrt", "DetectionTrt",
             "ReidTrt", "FusionTrt"}
      /\ Ins(class) \in Nat /\ Outs(class) \in Nat /\ Crops \in Nat
  BY <1>0, ClassFacts, ContextsAssumption, InferenceAssumption
<1>2. \A s \in Begins, t \in Begins : s \o t \in Begins
  BY BeginsClosed DEF Closed
<1>3. \A s \in Begins, t \in Seq(DoSet) : s # << >> => s \o t \in Begins
  BY BeginsClosed
<1>4. ASSUME NEW s \in Begins, NEW t \in Seq(DoSet), s # << >> PROVE s \o t # << >>
  <2>1. PICK A : A = DoSet
    OBVIOUS
  <2>2. s \in Seq(A) /\ t \in Seq(A)
    BY <2>1 DEF Begins
  <2> QED
    BY <1>4, <2>2
<1>5. ASSUME NEW ss, ss \in Seq(Begins) PROVE FlattenSeq(ss) \in Begins
  BY <1>5, BeginsClosed, FlattenIn
<1>6. ASSUME class \in {"YoloxAcl", "DetectionAcl", "FusionAcl"}
      PROVE  NodeProgram(class) \in Begins
  <2>1. NodeProgram(class) = (CopyInputsToStage(class, 1) \o ExecuteStage(class, 1))
            \o CopyOutputsFromStage(class, 1)
    BY <1>6, NodeOf
  <2> QED
    BY <1>1, <1>2, <2>1, AclParts
<1>7. ASSUME class = "ReidAcl" PROVE NodeProgram(class) \in Begins
  <2> DEFINE ss == [k \in 1 .. Crops |-> (CopyInputsToStage("ReidAcl", k)
          \o ExecuteStage("ReidAcl", k)) \o CopyOutputsFromStage("ReidAcl", k)]
  <2>1. \A k \in 1 .. Crops : ss[k] \in Begins
    BY <1>1, <1>2, <1>7, AclParts
  <2>2. ss = [k \in 1 .. Crops |-> ss[k]]
    OBVIOUS
  <2>3. NodeProgram(class) = FlattenSeq(ss)
    BY <1>7, NodeOf
  <2> HIDE DEF ss
  <2>4. ss \in Seq(Begins)
    BY <1>1, <2>1, <2>2
  <2> QED
    BY <1>5, <2>3, <2>4
<1>8. ASSUME class \in {"YoloxTrt", "DetectionTrt"}
      PROVE  NodeProgram(class) \in Begins
  <2>1. NodeProgram(class) =
          (((BindCurrentThread \o CopyToDevice(1)) \o ExecuteModel(1)) \o CopyToHost(class, 1))
              \o CopyToPacket(class, 1)
    BY <1>8, NodeOf
  <2> QED
    BY <1>1, <1>3, <1>4, <2>1, TrtParts
<1>9. ASSUME class = "FusionTrt" PROVE NodeProgram(class) \in Begins
  <2>1. NodeProgram(class) =
          (((BindCurrentThread \o FusionCopyInput(1, 1)) \o FusionCopyInput(2, 1))
              \o ExecuteModel(1)) \o FusionCopyOutput(1)
    BY <1>9, NodeOf
  <2> QED
    BY <1>1, <1>3, <1>4, <2>1, TrtParts
<1>10. ASSUME class = "ReidTrt" PROVE NodeProgram(class) \in Begins
  <2> DEFINE ss == [k \in 1 .. Crops |-> (CopyToDevice(k) \o ExecuteModel(k)) \o ReidCopyToHost(k)]
  <2>1. ASSUME NEW k \in 1 .. Crops PROVE ss[k] \in Seq(DoSet)
    <3>0. k \in Nat
      BY <1>1
    <3>1. PICK A, s, t, u : A = DoSet /\ s = CopyToDevice(k) /\ t = ExecuteModel(k)
              /\ u = ReidCopyToHost(k)
      OBVIOUS
    <3>2. s \in Seq(A) /\ t \in Seq(A) /\ u \in Seq(A)
      BY <1>1, <3>0, <3>1, TrtParts
    <3>3. (s \o t) \o u \in Seq(A)
      BY <3>2
    <3> QED
      BY <3>1, <3>3
  <2>2. ss = [k \in 1 .. Crops |-> ss[k]]
    OBVIOUS
  <2>3. NodeProgram(class) = BindCurrentThread \o FlattenSeq(ss)
    BY <1>10, NodeOf
  <2> HIDE DEF ss
  <2>4. ss \in Seq(Seq(DoSet))
    BY <1>1, <2>1, <2>2
  <2>5. FlattenSeq(ss) \in Seq(DoSet)
    <3>1. Closed(Seq(DoSet), DoSet)
      <4>1. PICK A : A = DoSet
        OBVIOUS
      <4>2. \A s, t \in Seq(A) : s \o t \in Seq(A)
        OBVIOUS
      <4> QED
        BY <4>1, <4>2 DEF Closed
    <3> QED
      BY <2>4, <3>1, FlattenIn
  <2> QED
    BY <1>1, <1>3, <2>3, <2>5, TrtParts
<1> QED
  BY <1>0, <1>1, <1>6, <1>7, <1>8, <1>9, <1>10

(* What the workers and the device do leaves construction and destruction alone. *)
LEMMA CoreUnmoved ==
  ASSUME Core, UNCHANGED <<app, io, todo, owner, held, owned, standing, thrower, phase>>,
         current' = [t \in Threads |-> current'[t]], current'["main"] = current["main"]
  PROVE  Core'
<1>1. /\ Owners' = Owners /\ Contexts' = Contexts /\ Models' = Models /\ Classes' = Classes
      /\ \A x : Class(x)' = Class(x) /\ Fulls(x)' = Fulls(x)
  BY Fixed
<1>2. Constructing' = Constructing
  BY DEF Constructing
<1>3. \A x : Rest(x)' = Rest(x)
  BY <1>2 DEF Rest
<1>4. Types'
  BY <1>1 DEF Core, Types
<1>5. Phases'
  BY DEF Core, Phases, Precedes
<1>6. Calls'
  BY <1>1, <1>2 DEF Core, Calls
<1>7. Holdings'
  BY <1>1 DEF Core, Holdings, ModelOf
<1>8. Remains'
  BY <1>1, <1>2, <1>3 DEF Core, Remains
<1>9. Engines'
  BY <1>1, <1>2 DEF Core, Engines, ModelOf
<1>10. Addressed'
  BY <1>1 DEF Core, Addressed, dev
<1> QED
  BY <1>4, <1>5, <1>6, <1>7, <1>8, <1>9, <1>10 DEF Core

(* The main thread's calls leave the workers' threads alone. *)
LEMMA MainAtWork ==
  ASSUME Types, AtWork, LifeNext, UNCHANGED work
  PROVE  AtWork'
<1>1. \A t \in Workers : current'[t] = current[t]
  <2>1. \A t \in Workers : t \in Threads /\ t # "main"
    BY ContextsAssumption DEF Threads
  <2>2. CASE Call
    BY <2>1, <2>2, CallEffect
  <2>3. CASE ~Call
    BY <2>3 DEF LifeNext, Throw, Constructed, Unwind, Destruct, Gone
  <2> QED
    BY <2>2, <2>3
<1>2. app' = app
  BY DEF LifeNext, Call, Throw, Constructed, Unwind, Destruct, Gone
<1>3. \A x : Address(x)' = Address(x)
  BY <1>2 DEF Address, Class, Classes
<1> QED
  BY <1>1, <1>3 DEF AtWork, Busy, NextCall

(* What a worker's call does to its own work. *)
LEMMA Advances ==
  ASSUME AtWork, NEW t \in Workers, Advance(t)
  PROVE  /\ \A u \in Workers : u # t => work'[u] = work[u]
         /\ work'[t].packet = work[t].packet /\ work'[t].context = work[t].context
         /\ work'[t].calls = Tail(work[t].calls)
         /\ work' = [u \in Workers |-> [packet |-> work'[u].packet, context |-> work'[u].context,
                calls |-> work'[u].calls]]
<1>1. work = [u \in Workers |-> [packet |-> work[u].packet, context |-> work[u].context,
          calls |-> work[u].calls]]
  BY DEF AtWork
<1>2. PICK p, c, s : work[t] = [packet |-> p, context |-> c, calls |-> s]
  BY <1>1
<1>3. PICK r : r = [work[t] EXCEPT !.calls = Tail(@)] /\ work' = [work EXCEPT ![t] = r]
  BY DEF Advance
<1>4. r = [packet |-> p, context |-> c, calls |-> Tail(s)]
  <2>1. work[t].calls = s
    BY <1>2
  <2>2. PICK w, a : w = work[t] /\ a = Tail(s)
    OBVIOUS
  <2>3. r = [w EXCEPT !.calls = a]
    BY <1>3, <2>1, <2>2
  <2>4. w = [packet |-> p, context |-> c, calls |-> s]
    BY <1>2, <2>2
  <2>5. r = [packet |-> p, context |-> c, calls |-> a]
    BY <2>3, <2>4
  <2> QED
    BY <2>2, <2>5
<1>5. work' = [u \in Workers |-> IF u = t THEN r ELSE work[u]]
  BY <1>1, <1>3
<1>6. work'[t] = r /\ \A u \in Workers : u # t => work'[u] = work[u]
  BY <1>5
<1>7. r.packet = work[t].packet /\ r.context = work[t].context /\ r.calls = Tail(work[t].calls)
      /\ r = [packet |-> r.packet, context |-> r.context, calls |-> r.calls]
  BY <1>2, <1>4
<1>8. \A u \in Workers : work'[u] = [packet |-> work'[u].packet, context |-> work'[u].context,
          calls |-> work'[u].calls]
  BY <1>1, <1>6, <1>7
<1> QED
  BY <1>5, <1>6, <1>7, <1>8

(* A worker's call. *)
LEMMA NodeCallKeeps ==
  ASSUME Core, AtWork, NEW t \in Workers, NodeCall(t)
  PROVE  Core' /\ AtWork'
<1>1. t \in Threads /\ t # "main" /\ "main" \in Threads /\ \A u \in Workers : u \in Threads
  BY ContextsAssumption DEF Threads
<1>2. current = [u \in Threads |-> current[u]]
  BY DEF Core, Types
<1>3. work = [u \in Workers |-> [packet |-> work[u].packet, context |-> work[u].context,
          calls |-> work[u].calls]]
  BY DEF AtWork
<1>4. UNCHANGED <<app, io, todo, owner, held, owned, standing, thrower, phase>>
  BY DEF NodeCall
<1>5. Advance(t)
  BY DEF NodeCall
<1>6. /\ \A u \in Workers : u # t => work'[u] = work[u]
      /\ work'[t].packet = work[t].packet /\ work'[t].context = work[t].context
      /\ work' = [u \in Workers |-> [packet |-> work'[u].packet, context |-> work'[u].context,
             calls |-> work'[u].calls]]
  BY <1>5, Advances
<1>7. \A x : Address(x)' = Address(x)
  BY <1>4 DEF Address, Class, Classes
<1>8. /\ current' = [u \in Threads |-> current'[u]]
      /\ \A u \in Threads : u # t => current'[u] = current[u]
      /\ current'[t] = IF NextCall(t).op = "bind" THEN Address(work[t].context) ELSE current[t]
  <2>1. CASE BindThread(t)
    BY <1>1, <1>2, <2>1 DEF BindThread
  <2>2. CASE CopyIn(t) \/ Enqueue(t) \/ Synchronize(t) \/ CopyOut(t)
    BY <1>2, <2>2 DEF CopyIn, Enqueue, Synchronize, CopyOut
  <2> QED
    BY <2>1, <2>2 DEF NodeCall
<1>9. Core'
  BY <1>1, <1>4, <1>8, CoreUnmoved
<1>10. current'[t] = Address(work[t].context)
  BY <1>8 DEF AtWork, NodeCall
<1>11. ASSUME NEW u \in Workers, (Busy(u) /\ NextCall(u).op # "bind")'
       PROVE  current'[u] = Address(work'[u].context)
  <2>1. CASE u = t
    BY <1>6, <1>10, <2>1
  <2>2. CASE u # t
    <3>1. work'[u] = work[u] /\ current'[u] = current[u]
      BY <1>1, <1>6, <1>8, <2>2
    <3> QED
      BY <1>11, <3>1 DEF AtWork, Busy, NextCall
  <2> QED
    BY <2>1, <2>2
<1>12. AtWork'
  BY <1>6, <1>7, <1>11 DEF AtWork
<1> QED
  BY <1>9, <1>12

(* A worker is done with a packet, one way or the other, or given one. *)
LEMMA WorkMoves ==
  ASSUME Core, AtWork, NEW t \in Workers, NEW p, NEW c, NEW s,
         work' = [work EXCEPT ![t] = [packet |-> p, context |-> c, calls |-> s]],
         p = "-" \/ s = << >> \/ Head(s).op = "bind", UNCHANGED lifeVars
  PROVE  Core' /\ AtWork'
<1>1. UNCHANGED <<app, io, todo, owner, held, owned, standing, thrower, phase, current>>
  BY DEF lifeVars
<1>2. current' = [u \in Threads |-> current'[u]]
  BY <1>1 DEF Core, Types
<1>3. Core'
  BY <1>1, <1>2, CoreUnmoved
<1>4. work = [u \in Workers |-> [packet |-> work[u].packet, context |-> work[u].context,
          calls |-> work[u].calls]]
  BY DEF AtWork
<1>5. work' = [u \in Workers |-> IF u = t THEN [packet |-> p, context |-> c,
          calls |-> s] ELSE work[u]]
  BY <1>4
<1>6. work' = [u \in Workers |-> [packet |-> work'[u].packet, context |-> work'[u].context,
          calls |-> work'[u].calls]]
  BY <1>4, <1>5
<1>7. \A x : Address(x)' = Address(x)
  BY <1>1 DEF Address, Class, Classes
<1>8. ASSUME NEW u \in Workers, (Busy(u) /\ NextCall(u).op # "bind")'
      PROVE  current'[u] = Address(work'[u].context)
  <2>1. u # t
    <3> SUFFICES ASSUME u = t PROVE FALSE
      OBVIOUS
    <3>1. work'[u].packet = p /\ work'[u].calls = s
      BY <1>5
    <3> QED
      BY <1>8, <3>1 DEF Busy, NextCall
  <2>2. work'[u] = work[u]
    BY <1>5, <2>1
  <2> QED
    BY <1>1, <1>8, <2>2 DEF AtWork, Busy, NextCall
<1>9. AtWork'
  BY <1>6, <1>7, <1>8 DEF AtWork
<1> QED
  BY <1>3, <1>9

(* Nothing the invariant speaks of changes. *)
LEMMA BothUnmoved ==
  ASSUME Core, AtWork, UNCHANGED <<lifeVars, work>>
  PROVE  Core' /\ AtWork'
<1>1. UNCHANGED <<app, io, todo, owner, held, owned, standing, thrower, phase, current>>
          /\ work' = work
  BY DEF lifeVars
<1>2. Core'
  BY <1>1, CoreUnmoved DEF Core, Types
<1>3. \A x : Address(x)' = Address(x)
  BY <1>1 DEF Address, Class, Classes
<1>4. AtWork'
  BY <1>1, <1>3 DEF AtWork, Busy, NextCall
<1> QED
  BY <1>2, <1>4

(* Every step of the system. *)
LEMMA StepKeeps ==
  ASSUME Core, AtWork, [Next]_vars
  PROVE  Core' /\ AtWork'
<1>1. CASE Main
  BY <1>1, LifeKeeps, MainAtWork DEF Main, flowVars, Core
<1>2. ASSUME NEW t \in Workers, NodeCall(t) PROVE Core' /\ AtWork'
  BY <1>2, NodeCallKeeps
<1>3. ASSUME NEW t \in Workers, NodeReturns(t) \/ NodeFails(t) PROVE Core' /\ AtWork'
  <2>1. UNCHANGED lifeVars
            /\ work' = [work EXCEPT ![t] = [packet |-> "-", context |-> None, calls |-> << >>]]
    BY <1>3 DEF NodeReturns, NodeFails, Return, Idle
  <2> QED
    BY <2>1, WorkMoves
<1>4. ASSUME NEW t \in Workers, NEW p \in Packets, NEW c \in Contexts, StartNode(t, p, c)
      PROVE  Core' /\ AtWork'
  <2>1. UNCHANGED lifeVars
            /\ work' = [work EXCEPT ![t] = [packet |-> p, context |-> c,
                   calls |-> NodeProgram(Class(c))]]
    BY <1>4 DEF StartNode
  <2>2. NodeProgram(Class(c)) \in Begins
    BY NodeStarts DEF Core, Types, Chosen, Owners
  <2>3. NodeProgram(Class(c)) = << >> \/ Head(NodeProgram(Class(c))).op = "bind"
    BY <2>2 DEF Begins
  <2> QED
    BY <2>1, <2>3, WorkMoves
<1>5. CASE \E c \in Contexts : DeviceStep(c)
  BY <1>5, BothUnmoved DEF DeviceStep
<1>6. CASE ShutDown
  <2>1. Core'
    BY <1>6, ShutDownKeeps DEF Core
  <2>2. UNCHANGED <<app, current, work>>
    BY <1>6 DEF ShutDown, flowVars
  <2>3. \A x : Address(x)' = Address(x)
    BY <2>2 DEF Address, Class, Classes
  <2>4. AtWork'
    BY <2>2, <2>3 DEF AtWork, Busy, NextCall
  <2> QED
    BY <2>1, <2>4
<1>7. CASE Done \/ UNCHANGED vars
  BY <1>7, BothUnmoved DEF Done, vars, flowVars
<1> QED
  BY <1>1, <1>2, <1>3, <1>4, <1>5, <1>6, <1>7 DEF Next

(* What the invariant says of the properties. *)
LEMMA NeedsHeld ==
  ASSUME Core
  PROVE  \A x \in Owners : \A o \in held[x] : \A n \in Needs(x, o) : n[2] \in held[n[1]]
<1> SUFFICES ASSUME NEW x \in Owners, NEW o \in held[x], NEW n \in Needs(x, o)
             PROVE  n[2] \in held[n[1]]
  OBVIOUS
<1>1. Rooted(Class(x), x[1], held[x]) /\ Chosen
  BY DEF Core, Holdings, Types, Chosen
<1>2. CASE IsAcl(Class(x))
  <2>1. Local(Class(x), x[1], o) \subseteq held[x]
    BY <1>1 DEF Rooted
  <2>2. CASE o = env
    BY <1>2, <2>2, LocalAcl DEF Needs
  <2>3. CASE o = <<"context", 0>>
    <3>1. n = <<x, env>>
      BY <1>2, <2>3, LocalAcl DEF Needs
    <3>2. env \in held[x]
      BY <1>2, <2>1, <2>3, LocalAcl
    <3> QED
      BY <3>1, <3>2
  <2>4. CASE o # env /\ o # <<"context", 0>>
    <3>1. n = <<x, <<"context", 0>>>>
      BY <1>2, <2>4 DEF Needs
    <3>2. Local(Class(x), x[1], o) = {<<"context", 0>>}
      BY <1>2, <2>4, LocalAcl
    <3>3. <<"context", 0>> \in held[x]
      BY <2>1, <3>2
    <3> QED
      BY <3>1, <3>3
  <2> QED
    BY <2>2, <2>3, <2>4
<1>3. CASE ~IsAcl(Class(x))
  <2>1. Local(Class(x), x[1], o) \subseteq held[x]
    BY <1>1 DEF Rooted
  <2>2. CASE o = <<"engine", 0>>
    <3>1. n = <<x, <<"runtime", 0>>>>
      BY <1>3, <2>2 DEF Needs
    <3>2. <<"runtime", 0>> \in held[x]
      BY <1>3, <2>1, <2>2, LocalTrt
    <3> QED
      BY <3>1, <3>2
  <2>3. CASE o = <<"exec", 0>>
    <3>1. \/ n = <<IF x[1] = "model" THEN x ELSE ModelOf(x), <<"engine", 0>>>>
          \/ Class(x) = "FusionTrt" /\ n = <<x, <<"stream", 0>>>>
      BY <1>3, <2>3 DEF Needs
    <3>2. Class(x) = "FusionTrt" => <<"stream", 0>> \in held[x]
      BY <1>3, <2>1, <2>3, LocalTrt
    <3>3. x[1] = "model" => <<"engine", 0>> \in held[x]
      BY <1>3, <2>1, <2>3, LocalTrt
    <3>4. x[1] # "model" => <<"engine", 0>> \in held[ModelOf(x)]
      BY <1>1, <1>3, <2>3, ClassFacts DEF Core, Holdings
    <3> QED
      BY <3>1, <3>2, <3>3, <3>4
  <2>4. CASE o # <<"engine", 0>> /\ o # <<"exec", 0>>
    BY <1>3, <2>4 DEF Needs
  <2> QED
    BY <2>2, <2>3, <2>4
<1> QED
  BY <1>2, <1>3

(* When main is done nothing is left but what a constructor that threw leaves. *)
LEMMA CoreCleanedUp ==
  ASSUME Core
  PROVE  CleanedUp
<1> SUFFICES ASSUME phase = "done"
             PROVE  /\ \A x \in Owners :
                         held[x] \subseteq
                           IF x # thrower THEN {}
                           ELSE IF IsAcl(Class(x))
                           THEN {env} \union ({"context", "stream", "model", "desc"} \X {0})
                           ELSE {"out"} \X (1 .. MaxIO)
                    /\ \A x \in Owners : ~IsAcl(Class(x)) => Cardinality(held[x]) <= 1
                    /\ \A x \in Owners : IsAcl(Class(x)) => Cardinality(held[x]) \in {0, 5}
  BY DEF CleanedUp
<1>1. todo = << >> /\ standing = {} /\ ~Constructing
  BY DEF Core, Phases, Constructing
<1>2. \A x : Rest(x) = held[x]
  BY <1>1, NothingUnderWay
<1>3. ASSUME NEW x \in Owners
      PROVE  /\ x # thrower => held[x] = {}
             /\ IF IsAcl(Class(x)) THEN held[x] \in {{}, Five}
                ELSE held[x] = {} \/ \E i \in 1 .. MaxIO : held[x] = {<<"out", i>>}
  <2>1. CASE x # thrower
    BY <1>1, <1>2, <2>1 DEF Core, Remains
  <2>2. CASE x = thrower
    <3>1. thrower # None
      BY <2>2, NoneIsNobody
    <3> QED
      BY <1>2, <2>2, <3>1 DEF Core, Remains
  <2> QED
    BY <2>1, <2>2
<1>4. \A x \in Owners :
        held[x] \subseteq IF x # thrower THEN {} ELSE IF IsAcl(Class(x)) THEN Five ELSE {"out"} \X (1 .. MaxIO)
  BY <1>3
<1>5. Cardinality({}) = 0 /\ \A o : Cardinality({o}) = 1
  BY FS_EmptySet, FS_Singleton
<1>6. Cardinality(Five) = 5
  <2>1. PICK a, b, c, d, e : a = env /\ b = <<"context", 0>> /\ c = <<"stream", 0>>
            /\ d = <<"model", 0>> /\ e = <<"desc", 0>>
    OBVIOUS
  <2>2. {a, b, c, d, e} = Five
    BY <2>1, FiveFacts
  <2>3. /\ a # b /\ a # c /\ a # d /\ a # e /\ b # c /\ b # d /\ b # e
        /\ c # d /\ c # e /\ d # e
    BY <2>1, FiveFacts
  <2>4. IsFiniteSet({e}) /\ Cardinality({e}) = 1
    BY FS_Singleton
  <2>5. {d, e} = {e} \union {d} /\ {c, d, e} = {d, e} \union {c}
            /\ {b, c, d, e} = {c, d, e} \union {b}
        /\ {a, b, c, d, e} = {b, c, d, e} \union {a}
    OBVIOUS
  <2>6. IsFiniteSet({d, e}) /\ Cardinality({d, e}) = 2
    BY <2>3, <2>4, <2>5, FS_AddElement
  <2>7. IsFiniteSet({c, d, e}) /\ Cardinality({c, d, e}) = 3
    BY <2>3, <2>5, <2>6, FS_AddElement
  <2>8. IsFiniteSet({b, c, d, e}) /\ Cardinality({b, c, d, e}) = 4
    BY <2>3, <2>5, <2>7, FS_AddElement
  <2>9. Cardinality({a, b, c, d, e}) = 5
    BY <2>3, <2>5, <2>8, FS_AddElement
  <2> QED
    BY <2>2, <2>9
<1>7. ASSUME NEW x \in Owners, ~IsAcl(Class(x)) PROVE Cardinality(held[x]) <= 1
  <2>1. held[x] = {} \/ \E o : held[x] = {o}
    BY <1>3, <1>7
  <2>2. Cardinality(held[x]) = 0 \/ Cardinality(held[x]) = 1
    BY <1>5, <2>1
  <2> QED
    BY <2>2
<1>8. \A x \in Owners : IsAcl(Class(x)) => Cardinality(held[x]) \in {0, 5}
  BY <1>3, <1>5, <1>6
<1> QED
  BY <1>4, <1>7, <1>8 DEF Five

(* Every call addresses what it is made for. *)
LEMMA CoreOwnContext ==
  ASSUME Core, AtWork
  PROVE  OwnContext
<1>1. ASSUME todo # << >>, NEW h, h = Head(todo), Makes(h)
         \/ (h.op = "free" /\ h.obj \in owned[owner]),
             h.obj[1] \notin Exempt
      PROVE  current["main"] = Address(owner)
  <2>1. owner \in Owners /\ todo \in Seq(CallSet) /\ 1 \in DOMAIN todo /\ h = todo[1]
            /\ h.op # "bind" /\ Chosen
    BY <1>1, TailFacts DEF Core, Types, Makes, Chosen
  <2>2. owned[owner] \subseteq held[owner] /\ Rooted(Class(owner), owner[1], held[owner])
    BY <2>1 DEF Core, Holdings
  <2>3. CASE IsAcl(Class(owner))
    <3>1. h.obj # env /\ h.obj # <<"context", 0>>
      BY <1>1 DEF env, Exempt
    <3>2. Local(Class(owner), owner[1], h.obj) = {<<"context", 0>>}
      BY <2>3, <3>1, LocalAcl
    <3>3. <<"context", 0>> \in held[owner]
      <4>1. CASE Makes(h)
        <5>1. Grounded(Class(owner), owner[1], held[owner], todo)
          BY DEF Core, Calls, Sound
        <5>2. \A k : k \notin 1 .. 1 - 1
          OBVIOUS
        <5> QED
          BY <2>1, <3>2, <4>1, <5>1, <5>2 DEF Grounded
      <4>2. CASE ~Makes(h)
        BY <1>1, <2>2, <3>2, <4>2 DEF Rooted
      <4> QED
        BY <4>1, <4>2
    <3>4. current["main"] = owner
      BY <1>1, <2>1, <2>3, <3>3 DEF Core, Addressed
    <3> QED
      BY <2>3, <3>4 DEF Address
  <2>4. CASE ~IsAcl(Class(owner))
    <3>1. current["main"] = dev
      <4> SUFFICES ASSUME (\A x \in Owners : \A o \in held[x] : o[1] \in Exempt), Bound(todo)
                   PROVE FALSE
        BY <2>4 DEF Core, Addressed
      <4>1. CASE Makes(h)
        <5>1. \A k : k \notin 1 .. 1 - 1
          OBVIOUS
        <5> QED
          BY <1>1, <2>1, <4>1, <5>1 DEF Bound
      <4>2. CASE ~Makes(h)
        BY <1>1, <2>1, <2>2, <4>2
      <4> QED
        BY <4>1, <4>2
    <3> QED
      BY <2>4, <3>1 DEF Address, dev
  <2> QED
    BY <2>3, <2>4
<1>2. \A t \in Workers : (Busy(t) /\ NextCall(t).op \notin {"bind", "copyHost"})
        => current[t] = Address(work[t].context)
  BY DEF AtWork
<1> QED
  BY <1>1, <1>2 DEF OwnContext, Makes

------------------------------------------------------------------------------
(* The reference counts of the environment. *)

(* The count is right because an owner that points to the environment holds it:
   no destructor releases what its object did not acquire, and none twice. *)
EnvInv ==
  /\ app \in Apps
  /\ owner \in Owners
  /\ held = [x \in Owners |-> held[x]] /\ owned = [x \in Owners |-> owned[x]]
  /\ \A x \in Owners : owned[x] \subseteq held[x]
  /\ IsFiniteSet(Holders)
  /\ EnvCounted

(* In the beginning nobody holds the environment. *)
LEMMA InitEnvInv ==
  ASSUME Init
  PROVE  EnvInv
<1>1. app \in Apps /\ owner = FirstOf(1)
  BY DEF Init, LifeInit
<1>2. 1 \in 1 .. Len(Classes)
  BY <1>1, ClassCount DEF Classes
<1>3. owner \in Owners
  BY <1>1, <1>2, FirstIsOwner
<1>4. held = [x \in Owners |-> {}] /\ owned = [x \in Owners |-> {}]
  BY DEF Init, LifeInit
<1>5. Holders = {}
  BY <1>4 DEF Holders
<1>6. EnvCounted
  <2>1. gRefCount = 0 /\ gDeviceRefCounts = << >> /\ up = FALSE /\ devices = {}
    BY DEF Init, LifeInit, EnvInit
  <2>2. Cardinality(Holders) = 0
    BY <1>5, FS_EmptySet
  <2>3. (gRefCount > 0) = FALSE
    BY <2>1
  <2>4. up = (gRefCount > 0) /\ devices = IF up THEN {Device} ELSE {}
    BY <2>1, <2>3
  <2>5. << >> = [d \in {} |-> gRefCount]
    OBVIOUS
  <2> QED
    BY <2>1, <2>2, <2>4, <2>5, Zenon DEF EnvCounted
<1> QED
  BY <1>1, <1>3, <1>4, <1>5, <1>6, FS_EmptySet DEF EnvInv

------------------------------------------------------------------------------
(* The two operations of the environment, on counts that agree with n holders. *)
Agrees(n) ==
  /\ gRefCount = n
  /\ up = (gRefCount > 0)
  /\ devices = IF up THEN {Device} ELSE {}
  /\ gDeviceRefCounts = [d \in devices |-> gRefCount]

(* acquire adds one holder. *)
LEMMA AcquireCounts ==
  ASSUME NEW n \in Nat, Agrees(n), Acquire(Device)
  PROVE  Agrees(n + 1)'
<1>1. gRefCount' = n + 1 /\ gRefCount' > 0 /\ up' = TRUE
  BY DEF Agrees, Acquire
<1>2. devices' = {Device}
  <2>1. devices \subseteq {Device}
    BY DEF Agrees
  <2> QED
    BY <2>1 DEF Acquire
<1>3. gDeviceRefCounts' = [d \in {Device} |-> n + 1]
  <2>1. CASE n = 0
    <3>1. DOMAIN gDeviceRefCounts = {}
      <4>1. ~ (gRefCount > 0)
        BY <2>1 DEF Agrees
      <4>2. devices = {}
        BY <4>1, Zenon DEF Agrees
      <4> QED
        BY <4>2, Zenon DEF Agrees
    <3> QED
      BY <2>1, <3>1 DEF Acquire
  <2>2. CASE n # 0
    <3>1. gDeviceRefCounts = [d \in {Device} |-> n]
      <4>1. gRefCount > 0
        BY <2>2 DEF Agrees
      <4>2. devices = {Device}
        BY <4>1, Zenon DEF Agrees
      <4> QED
        BY <4>2, Zenon DEF Agrees
    <3> QED
      BY <3>1 DEF Acquire
  <2> QED
    BY <2>1, <2>2
<1>4. up' = (gRefCount' > 0)
  BY <1>1, Zenon
<1> QED
  BY <1>1, <1>2, <1>3, <1>4, Zenon DEF Agrees

(* release takes one away; the last one resets the device and finalizes. *)
LEMMA ReleaseCounts ==
  ASSUME NEW n \in Nat, n # 0, Agrees(n), Release(Device)
  PROVE  Agrees(n - 1)'
<1>1. gRefCount = n /\ devices = {Device} /\ gDeviceRefCounts = [d \in {Device} |-> n]
  <2>1. gRefCount > 0
    BY DEF Agrees
  <2>2. up
    BY <2>1, Zenon DEF Agrees
  <2> QED
    BY <2>2, Zenon DEF Agrees
<1>2. gRefCount' = n - 1 /\ up' = (gRefCount > 1)
  BY <1>1 DEF Release
<1>3. CASE n = 1
  <2>1. (gRefCount > 1) = FALSE /\ (gRefCount' > 0) = FALSE
    BY <1>1, <1>2, <1>3
  <2>2. up' = (gRefCount' > 0)
    BY <1>2, <2>1, Zenon
  <2>3. devices' = {}
    BY <1>1, <1>3 DEF Release
  <2>4. gDeviceRefCounts' = [d \in {} |-> n - 1]
    <3>1. gDeviceRefCounts' = [e \in DOMAIN gDeviceRefCounts \ {Device} |-> gDeviceRefCounts[e]]
      BY <1>1, <1>3 DEF Release
    <3>2. DOMAIN gDeviceRefCounts \ {Device} = {}
      BY <1>1
    <3> QED
      BY <3>1, <3>2
  <2> QED
    BY <1>2, <2>1, <2>2, <2>3, <2>4, Zenon DEF Agrees
<1>4. CASE n # 1
  <2>1. gRefCount > 1 /\ gRefCount' > 0
    BY <1>1, <1>2, <1>4
  <2>2. up' = (gRefCount' > 0)
    BY <1>2, <2>1, Zenon
  <2>3. devices' = {Device} /\ gDeviceRefCounts' = [d \in {Device} |-> n - 1]
    BY <1>1, <1>4 DEF Release
  <2> QED
    BY <1>2, <2>1, <2>2, <2>3, Zenon DEF Agrees
<1> QED
  BY <1>3, <1>4

------------------------------------------------------------------------------
(* EnvCounted speaks of as many holders as there are. *)
LEMMA CountsAgree == EnvCounted <=> Agrees(Cardinality(Holders))
  BY DEF EnvCounted, Agrees

(* The variables the invariant speaks of. *)
countVars == <<app, owner, held, owned, gRefCount, gDeviceRefCounts, up, devices>>

(* What changes none of these variables keeps the invariant. *)
LEMMA Unmoved ==
  ASSUME EnvInv, UNCHANGED countVars
  PROVE  EnvInv'
<1>1. Owners' = Owners
  BY DEF countVars, Owners, Contexts, Models, Count, Classes, IsAcl, AclClasses
<1>2. Holders' = Holders
  BY <1>1 DEF countVars, Holders, env
<1>3. EnvCounted'
  BY <1>2 DEF EnvInv, EnvCounted, countVars
<1> QED
  BY <1>1, <1>2, <1>3 DEF EnvInv, countVars

(* The owners depend on the application only. *)
LEMMA OwnersFixed ==
  ASSUME UNCHANGED app
  PROVE  Owners' = Owners
  BY DEF Owners, Contexts, Models, Count, Classes, IsAcl, AclClasses

(* A call that creates something: the environment, or anything else. *)
LEMMA CreateCounts ==
  ASSUME EnvInv, Create, UNCHANGED <<app, owner>>
  PROVE  EnvInv'
<1> DEFINE o == Head(todo).obj
<1>1. /\ o \notin held[owner] /\ Acquired(o)
      /\ held' = [held EXCEPT ![owner] = @ \union {o}]
      /\ owned' = owned \/ owned' = [owned EXCEPT ![owner] = @ \union {o}]
  BY DEF Create
<1>2. Owners' = Owners /\ owner \in Owners
  BY OwnersFixed DEF EnvInv
<1>3. /\ held' = [x \in Owners' |-> held'[x]] /\ owned' = [x \in Owners' |-> owned'[x]]
      /\ \A x \in Owners' : owned'[x] \subseteq held'[x]
  BY <1>1, <1>2 DEF EnvInv
<1>4. CASE o = env
  <2>1. Holders' = Holders \union {owner} /\ owner \notin Holders
    BY <1>1, <1>2, <1>4 DEF EnvInv, Holders, env
  <2>2. IsFiniteSet(Holders') /\ Cardinality(Holders') = Cardinality(Holders) + 1
    BY <2>1, FS_AddElement DEF EnvInv
  <2>3. PICK n \in Nat : n = Cardinality(Holders)
    BY FS_CardinalityType DEF EnvInv
  <2>4. EnvCounted'
    <3>1. Acquire(Device) /\ Agrees(n)
      BY <1>1, <1>4, <2>3, CountsAgree DEF Acquired, EnvInv
    <3>2. Agrees(n + 1)'
      BY <3>1, AcquireCounts
    <3> QED
      BY <2>2, <2>3, <3>2 DEF EnvCounted, Agrees
  <2> QED
    BY <1>2, <1>3, <2>2, <2>4 DEF EnvInv
<1>5. CASE o # env
  <2>1. Holders' = Holders
    BY <1>1, <1>2, <1>5 DEF EnvInv, Holders, env
  <2>2. UNCHANGED envVars
    BY <1>1, <1>5 DEF Acquired
  <2>3. EnvCounted'
    BY <2>1, <2>2 DEF EnvInv, EnvCounted, envVars
  <2> QED
    BY <1>2, <1>3, <2>1, <2>3 DEF EnvInv
<1> QED
  BY <1>4, <1>5

(* A call that releases something, if the member still points to it. *)
LEMMA DestroyCounts ==
  ASSUME EnvInv, Destroy, UNCHANGED <<app, owner>>
  PROVE  EnvInv'
<1> DEFINE o == Head(todo).obj
<1>1. CASE o \notin owned[owner]
  <2>1. UNCHANGED countVars
    BY <1>1 DEF Destroy, countVars, envVars
  <2> QED
    BY <2>1, Unmoved
<1>2. CASE o \in owned[owner]
  <2>1. /\ Released(o)
        /\ held'  = [held  EXCEPT ![owner] = @ \ {o}]
        /\ owned' = [owned EXCEPT ![owner] = @ \ {o}]
    BY <1>2 DEF Destroy
  <2>2. Owners' = Owners /\ owner \in Owners
    BY OwnersFixed DEF EnvInv
  <2>3. /\ held' = [x \in Owners' |-> held'[x]] /\ owned' = [x \in Owners' |-> owned'[x]]
        /\ \A x \in Owners' : owned'[x] \subseteq held'[x]
    BY <2>1, <2>2 DEF EnvInv
  <2>4. CASE o = env
    <3>1. Holders' = Holders \ {owner} /\ owner \in Holders
      BY <1>2, <2>1, <2>2, <2>4 DEF EnvInv, Holders, env
    <3>2. IsFiniteSet(Holders') /\ Cardinality(Holders') = Cardinality(Holders) - 1
      BY <3>1, FS_RemoveElement DEF EnvInv
    <3>3. PICK n \in Nat : n = Cardinality(Holders) /\ n # 0
      BY <3>1, FS_CardinalityType, FS_EmptySet DEF EnvInv
    <3>4. EnvCounted'
      <4>1. Release(Device) /\ Agrees(n)
        BY <2>1, <2>4, <3>3, CountsAgree DEF Released, EnvInv
      <4>2. Agrees(n - 1)'
        BY <3>3, <4>1, ReleaseCounts
      <4> QED
        BY <3>2, <3>3, <4>2 DEF EnvCounted, Agrees
    <3> QED
      BY <2>2, <2>3, <3>2, <3>4 DEF EnvInv
  <2>5. CASE o # env
    <3>1. Holders' = Holders
      BY <2>1, <2>2, <2>5 DEF EnvInv, Holders, env
    <3>2. UNCHANGED envVars
      BY <2>1, <2>5 DEF Released
    <3>3. EnvCounted'
      BY <3>1, <3>2 DEF EnvInv, EnvCounted, envVars
    <3> QED
      BY <2>2, <2>3, <3>1, <3>3 DEF EnvInv
  <2> QED
    BY <2>4, <2>5
<1> QED
  BY <1>1, <1>2

(* A buffer becomes a member. *)
LEMMA KeepCounts ==
  ASSUME EnvInv, Keep, UNCHANGED <<app, owner>>
  PROVE  EnvInv'
<1>1. Owners' = Owners /\ owner \in Owners
  BY OwnersFixed DEF EnvInv
<1>2. Holders' = Holders
  BY <1>1 DEF Keep, Holders, env
<1>3. EnvCounted'
  BY <1>2 DEF EnvInv, EnvCounted, Keep, envVars
<1>4. owned' = [x \in Owners' |-> owned'[x]] /\ \A x \in Owners' : owned'[x] \subseteq held'[x]
  BY <1>1 DEF EnvInv, Keep
<1> QED
  BY <1>1, <1>2, <1>3, <1>4 DEF EnvInv, Keep

(* Every driver call of the main thread keeps the invariant. *)
LEMMA CallCounts ==
  ASSUME EnvInv, Call
  PROVE  EnvInv'
<1>1. UNCHANGED <<app, owner>>
  BY DEF Call
<1>2. CASE Create
  BY <1>1, <1>2, CreateCounts
<1>3. CASE Keep
  BY <1>1, <1>3, KeepCounts
<1>4. CASE AddressThread
  BY <1>1, <1>4, Unmoved DEF AddressThread, countVars, envVars
<1>5. CASE Destroy
  BY <1>1, <1>5, DestroyCounts
<1>6. CASE Passed
  BY <1>1, <1>6, Unmoved DEF Passed, countVars, envVars
<1> QED
  BY <1>2, <1>3, <1>4, <1>5, <1>6 DEF Call

(* Another owner's calls begin. *)
LEMMA OwnerMoves ==
  ASSUME EnvInv, UNCHANGED <<app, held, owned, gRefCount, gDeviceRefCounts, up, devices>>,
         owner' \in Owners
  PROVE  EnvInv'
<1>1. Owners' = Owners
  BY OwnersFixed
<1>2. Holders' = Holders
  BY <1>1 DEF Holders, env
<1>3. EnvCounted'
  BY <1>2 DEF EnvInv, EnvCounted
<1> QED
  BY <1>1, <1>2, <1>3 DEF EnvInv

(* So does every step of construction, failure and destruction. *)
LEMMA LifeCounts ==
  ASSUME EnvInv, standing \subseteq Owners, LifeNext
  PROVE  EnvInv'
<1>1. CASE Call
  BY <1>1, CallCounts
<1>2. CASE Throw
  <2>1. UNCHANGED envVars
    BY <1>2 DEF Throw, AcquireFails
  <2> QED
    BY <1>2, <2>1, Unmoved DEF Throw, countVars, envVars
<1>3. CASE Constructed
  <2>1. CASE IsLast(owner)
    BY <1>3, <2>1, Unmoved DEF Constructed, countVars, envVars
  <2>2. CASE ~IsLast(owner)
    <3>1. owner' \in Owners
      BY <1>3, <2>2, NextOwner DEF Constructed, EnvInv
    <3> QED
      BY <1>3, <3>1, OwnerMoves DEF Constructed, envVars
  <2> QED
    BY <2>1, <2>2
<1>4. CASE Unwind
  BY <1>4, Unmoved DEF Unwind, countVars, envVars
<1>5. CASE Destruct
  <2>1. owner' \in Owners
    BY <1>5 DEF Destruct
  <2> QED
    BY <1>5, <2>1, OwnerMoves DEF Destruct, envVars
<1>6. CASE Gone
  BY <1>6, Unmoved DEF Gone, countVars, envVars
<1> QED
  BY <1>1, <1>2, <1>3, <1>4, <1>5, <1>6 DEF LifeNext

(* And every step of the system. *)
LEMMA StepCounts ==
  ASSUME EnvInv, standing \subseteq Owners, [Next]_vars
  PROVE  EnvInv'
<1>1. CASE Main
  BY <1>1, LifeCounts DEF Main
<1>2. CASE \E t \in Workers : NodeCall(t) \/ NodeReturns(t) \/ NodeFails(t)
  <2>1. UNCHANGED countVars
    BY <1>2 DEF NodeCall, NodeReturns, NodeFails, Return, countVars, lifeVars, envVars
  <2> QED
    BY <2>1, Unmoved
<1>3. CASE \E t \in Workers, p \in Packets, c \in Contexts : StartNode(t, p, c)
  BY <1>3, Unmoved DEF StartNode, countVars, lifeVars, envVars
<1>4. CASE \E c \in Contexts : DeviceStep(c)
  BY <1>4, Unmoved DEF DeviceStep, countVars, lifeVars, envVars
<1>5. CASE ShutDown
  BY <1>5, Unmoved DEF ShutDown, countVars, envVars
<1>6. CASE Done \/ UNCHANGED vars
  BY <1>6, Unmoved DEF Done, vars, countVars, lifeVars, envVars
<1> QED
  BY <1>1, <1>2, <1>3, <1>4, <1>5, <1>6 DEF Next

------------------------------------------------------------------------------
(* Results.  The rest of the module follows what the tensors hold.  The device
   executes a context's stream behind the nodes: what a context will hold when
   its stream has been executed is what the next node finds, whatever an earlier
   packet that failed has left there. *)

(* What a device holds for one context: inputs, outputs, and host outputs. *)
InT == [1 .. MaxIO -> SUBSET (Packets \X Nat)]
OutT == [1 .. MaxIO -> SUBSET SUBSET (Packets \X Nat)]
Devs == [in : InT, out : OutT, host : OutT]
Queueing == {"queueIn", "enqueue", "queueOut"}
Items == [op : Queueing, index : Nat, contents : SUBSET (Packets \X Nat)]

(* What a device holds when it has executed o, for a model with the inputs I. *)
After(I, o, d) ==
  [in   |-> IF o.op = "queueIn" THEN [d.in EXCEPT ![o.index] = o.contents] ELSE d.in,
   out  |-> IF o.op = "enqueue" THEN [k \in 1 .. MaxIO |-> {d.in[i] : i \in I}] ELSE d.out,
   host |-> IF o.op = "queueOut" THEN [d.host EXCEPT ![o.index] = d.out[o.index]] ELSE d.host]

(* What it will hold, e, when it has executed all of the stream s. *)
Future(I, d, s, e) ==
  \E f \in [0 .. Len(s) -> Devs] :
    /\ f[0] = d /\ f[Len(s)] = e
    /\ \A n \in 1 .. Len(s) : f[n] = After(I, s[n], f[n - 1])

(* What it has executed leaves it in a state it can be in. *)
LEMMA AfterIn ==
  ASSUME NEW I \in SUBSET (1 .. MaxIO), NEW o \in Items, NEW d \in Devs
  PROVE  After(I, o, d) \in Devs
<1>1. PICK a \in InT, b \in OutT, c \in OutT : d = [in |-> a, out |-> b, host |-> c]
  BY DEF Devs
<1>2. d.in = a /\ d.out = b /\ d.host = c
  BY <1>1
<1>3. [a EXCEPT ![o.index] = o.contents] \in InT
  BY DEF Items, InT
<1>4. [k \in 1 .. MaxIO |-> {a[i] : i \in I}] \in OutT
  BY DEF InT, OutT
<1>5. [c EXCEPT ![o.index] = b[o.index]] \in OutT
  <2>1. CASE o.index \in 1 .. MaxIO
    BY <2>1 DEF OutT
  <2>2. CASE o.index \notin 1 .. MaxIO
    <3>1. [c EXCEPT ![o.index] = b[o.index]] = c
      BY <2>2 DEF OutT
    <3> QED BY <3>1
  <2> QED BY <2>1, <2>2
<1>6. PICK x, y, z : /\ x = (IF o.op = "queueIn" THEN [a EXCEPT ![o.index] = o.contents] ELSE a)
                     /\ y = (IF o.op = "enqueue"
                             THEN [k \in 1 .. MaxIO |-> {a[i] : i \in I}] ELSE b)
                     /\ z = (IF o.op = "queueOut"
                             THEN [c EXCEPT ![o.index] = b[o.index]] ELSE c)
  OBVIOUS
<1>7. x \in InT /\ y \in OutT /\ z \in OutT
  BY <1>3, <1>4, <1>5, <1>6
<1>8. After(I, o, d) = [in |-> x, out |-> y, host |-> z]
  BY <1>2, <1>6 DEF After
<1> QED
  BY <1>7, <1>8 DEF Devs

(* Nothing queued: it is there. *)
LEMMA FutureNow ==
  ASSUME NEW I, NEW d \in Devs
  PROVE  Future(I, d, << >>, d) /\ \A e : Future(I, d, << >>, e) => e = d
<1>1. Future(I, d, << >>, d)
  <2> DEFINE f == [n \in 0 .. 0 |-> d]
  <2>1. f \in [0 .. 0 -> Devs] /\ f[0] = d
    OBVIOUS
  <2>2. Len(<< >>) = 0 /\ \A n \in 1 .. 0 : FALSE
    OBVIOUS
  <2> HIDE DEF f
  <2> QED BY <2>1, <2>2 DEF Future
<1>2. ASSUME NEW e, Future(I, d, << >>, e) PROVE e = d
  BY <1>2 DEF Future
<1> QED BY <1>1, <1>2

(* Every stream has a future. *)
LEMMA FutureIs ==
  ASSUME NEW I \in SUBSET (1 .. MaxIO), NEW d \in Devs, NEW s \in Seq(Items)
  PROVE  \E e \in Devs : Future(I, d, s, e)
<1>1. PICK N \in Nat : N = Len(s)
  OBVIOUS
<1>2. \A n \in 1 .. N : s[n] \in Items
  BY <1>1
<1>3. PICK A : A = Devs
  OBVIOUS
<1>4. PICK step \in [1 .. N -> [A -> A]] :
        \A n \in 1 .. N : \A x \in A : step[n][x] = After(I, s[n], x)
  <2> DEFINE st == [n \in 1 .. N |-> [x \in A |-> After(I, s[n], x)]]
  <2>1. \A n \in 1 .. N : \A x \in A : After(I, s[n], x) \in A
    BY <1>2, <1>3, AfterIn
  <2>2. st \in [1 .. N -> [A -> A]]
    BY <2>1
  <2> QED BY <2>2
<1>20. PICK base \in A : base = d
  BY <1>3
<1>21. PICK f : Loop(A, base, N, step, f)
  BY LoopRuns
<1>5. f \in [0 .. N -> A] /\ f[0] = d /\ \A n \in 1 .. N : f[n] = step[n][f[n - 1]]
  BY <1>20, <1>21 DEF Loop
<1>6. ASSUME NEW n \in 1 .. N PROVE f[n] = After(I, s[n], f[n - 1])
  <2>1. f[n - 1] \in A
    BY <1>5
  <2> QED BY <1>4, <1>5, <2>1
<1>7. f[N] \in A
  BY <1>5
<1> QED BY <1>1, <1>3, <1>5, <1>6, <1>7 DEF Future

(* One more operation is queued. *)
LEMMA FutureQueued ==
  ASSUME NEW I \in SUBSET (1 .. MaxIO), NEW d \in Devs, NEW s \in Seq(Items), NEW e \in Devs,
         NEW o \in Items, Future(I, d, s, e)
  PROVE  Future(I, d, Append(s, o), After(I, o, e))
<1>1. PICK N \in Nat : N = Len(s)
  OBVIOUS
<1>2. PICK f \in [0 .. N -> Devs] : /\ f[0] = d /\ f[N] = e
                                    /\ \A n \in 1 .. N : f[n] = After(I, s[n], f[n - 1])
  BY <1>1 DEF Future
<1>3. PICK t, x : t = Append(s, o) /\ x = After(I, o, e)
  OBVIOUS
<1>4. Len(t) = N + 1 /\ t[N + 1] = o /\ \A n \in 1 .. N : t[n] = s[n]
  BY <1>1, <1>3
<1>5. x \in Devs
  BY <1>3, AfterIn
<1> DEFINE g == [n \in 0 .. N + 1 |-> IF n = N + 1 THEN x ELSE f[n]]
<1>6. g \in [0 .. N + 1 -> Devs] /\ g[N + 1] = x /\ \A n \in 0 .. N : g[n] = f[n]
  BY <1>5
<1> HIDE DEF g
<1>7. ASSUME NEW n \in 1 .. N + 1 PROVE g[n] = After(I, t[n], g[n - 1])
  <2>1. CASE n = N + 1
    <3>1. g[n - 1] = e
      BY <1>2, <1>6, <2>1
    <3> QED BY <1>3, <1>4, <1>6, <2>1, <3>1
  <2>2. CASE n \in 1 .. N
    <3>1. g[n - 1] = f[n - 1] /\ g[n] = f[n] /\ t[n] = s[n]
      BY <1>4, <1>6, <2>2
    <3> QED BY <1>2, <2>2, <3>1
  <2> QED BY <2>1, <2>2
<1>8. g[0] = d
  BY <1>2, <1>6
<1> QED BY <1>3, <1>4, <1>6, <1>7, <1>8 DEF Future

(* The first operation is executed. *)
LEMMA FutureExecuted ==
  ASSUME NEW I, NEW d \in Devs, NEW s \in Seq(Items), NEW e, s # << >>, Future(I, d, s, e)
  PROVE  Future(I, After(I, Head(s), d), Tail(s), e)
<1>1. PICK N \in Nat : N = Len(s) /\ N >= 1
  OBVIOUS
<1>2. PICK f \in [0 .. N -> Devs] : /\ f[0] = d /\ f[N] = e
                                    /\ \A n \in 1 .. N : f[n] = After(I, s[n], f[n - 1])
  BY <1>1 DEF Future
<1>3. PICK t : t = Tail(s)
  OBVIOUS
<1>4. Len(t) = N - 1 /\ \A n \in 1 .. N - 1 : t[n] = s[n + 1]
  BY <1>1, <1>3
<1> DEFINE g == [n \in 0 .. N - 1 |-> f[n + 1]]
<1>5. g \in [0 .. N - 1 -> Devs] /\ \A n \in 0 .. N - 1 : g[n] = f[n + 1]
  BY <1>1
<1> HIDE DEF g
<1>6. ASSUME NEW n \in 1 .. N - 1 PROVE g[n] = After(I, t[n], g[n - 1])
  <2>1. n + 1 \in 1 .. N /\ (n + 1) - 1 = n /\ n - 1 \in 0 .. N - 1 /\ (n - 1) + 1 = n
    BY <1>1
  <2>2. g[n - 1] = f[n] /\ g[n] = f[n + 1] /\ t[n] = s[n + 1]
    BY <1>4, <1>5, <2>1
  <2> QED BY <1>2, <2>1, <2>2
<1>7. g[0] = After(I, Head(s), d)
  <2>1. 0 \in 0 .. N - 1 /\ 1 \in 1 .. N /\ Head(s) = s[1] /\ 0 + 1 = 1 /\ 1 - 1 = 0
    BY <1>1
  <2>2. g[0] = f[1] /\ f[1] = After(I, s[1], f[0])
    BY <1>2, <1>5, <2>1
  <2> QED BY <1>2, <2>1, <2>2
<1>8. g[N - 1] = e
  <2>1. N - 1 \in 0 .. N - 1 /\ (N - 1) + 1 = N
    BY <1>1
  <2> QED BY <1>2, <1>5, <2>1
<1> QED BY <1>3, <1>4, <1>5, <1>6, <1>7, <1>8 DEF Future

(* An input copied by the host, past the stream. *)
WithInput(d, i, x) == [in |-> [d.in EXCEPT ![i] = x], out |-> d.out, host |-> d.host]

(* A stream that holds only executions, and the future of one past which an input
   is copied. *)
EnqueuesOnly(q) == \A n \in DOMAIN q : q[n].op = "enqueue"
CopiedFuture(I, d, s, e, i, x) ==
  \E e2 \in Devs : /\ Future(I, WithInput(d, i, x), s, e2)
                   /\ e2.in = [e.in EXCEPT ![i] = x] /\ e2.host = e.host

(* An input copied past a stream that holds only executions is there in the end,
   and the host outputs are what they would have been. *)
LEMMA FutureCopied ==
  ASSUME NEW I \in SUBSET (1 .. MaxIO), NEW d \in Devs, NEW s \in Seq(Items), NEW e \in Devs,
         Future(I, d, s, e), EnqueuesOnly(s),
         NEW i \in Nat, NEW x \in SUBSET (Packets \X Nat)
  PROVE  CopiedFuture(I, d, s, e, i, x)
<1>1. PICK N \in Nat : N = Len(s) /\ DOMAIN s = 1 .. N
  OBVIOUS
<1>2. PICK f \in [0 .. N -> Devs] : /\ f[0] = d /\ f[N] = e
                                    /\ \A n \in 1 .. N : f[n] = After(I, s[n], f[n - 1])
  BY <1>1 DEF Future
<1> DEFINE in(n) == [f[n].in EXCEPT ![i] = x]
           out(n) == IF n = 0 THEN d.out ELSE [k \in 1 .. MaxIO |-> {in(n)[j] : j \in I}]
           g == [n \in 0 .. N |-> [in |-> in(n), out |-> out(n), host |-> f[n].host]]
<1>3. ASSUME NEW n \in 0 .. N PROVE g[n] \in Devs
  <2>1. f[n] \in Devs
    OBVIOUS
  <2>2. f[n].in \in InT /\ f[n].host \in OutT /\ d.out \in OutT
    BY <2>1 DEF Devs
  <2>3. in(n) \in InT
    BY <2>2 DEF InT
  <2> HIDE DEF in
  <2>4. [k \in 1 .. MaxIO |-> {in(n)[j] : j \in I}] \in OutT
    BY <2>3 DEF InT, OutT
  <2>5. out(n) \in OutT
    BY <2>2, <2>4
  <2> HIDE DEF out
  <2> QED BY <2>2, <2>3, <2>5 DEF Devs
<1>4. \A n \in 0 .. N : /\ g[n] = [in |-> in(n), out |-> out(n), host |-> f[n].host]
                        /\ g[n].in = in(n) /\ g[n].out = out(n) /\ g[n].host = f[n].host
  OBVIOUS
<1>5. g = [n \in 0 .. N |-> g[n]]
  OBVIOUS
<1> HIDE DEF g
<1>6. g \in [0 .. N -> Devs]
  BY <1>3, <1>5
<1>7. ASSUME NEW n \in 1 .. N PROVE g[n] = After(I, s[n], g[n - 1])
  <2>1. n \in 0 .. N /\ n - 1 \in 0 .. N /\ n # 0 /\ s[n].op = "enqueue"
    BY <1>1 DEF EnqueuesOnly
  <2>2. f[n] = After(I, s[n], f[n - 1])
    BY <1>2
  <2>3. f[n].in = f[n - 1].in /\ f[n].host = f[n - 1].host
    BY <2>1, <2>2 DEF After
  <2>4. in(n - 1) = in(n)
    BY <2>3
  <2>5. out(n) = [k \in 1 .. MaxIO |-> {in(n)[j] : j \in I}]
    BY <2>1
  <2> HIDE DEF in, out
  <2>6. After(I, s[n], g[n - 1]) =
          [in |-> g[n - 1].in, out |-> [k \in 1 .. MaxIO |-> {g[n - 1].in[j] : j \in I}],
           host |-> g[n - 1].host]
    BY <2>1 DEF After
  <2>7. g[n - 1].in = in(n) /\ g[n - 1].host = f[n].host
    BY <1>4, <2>1, <2>3, <2>4
  <2>8. After(I, s[n], g[n - 1]) = [in |-> in(n), out |-> out(n), host |-> f[n].host]
    BY <2>5, <2>6, <2>7
  <2> QED BY <1>4, <2>1, <2>8
<1>8. g[0] = WithInput(d, i, x)
  <2>1. in(0) = [d.in EXCEPT ![i] = x] /\ out(0) = d.out /\ f[0].host = d.host
    BY <1>2
  <2>2. g[0] = [in |-> in(0), out |-> out(0), host |-> f[0].host]
    <3>1. 0 \in 0 .. N
      OBVIOUS
    <3> HIDE DEF in, out
    <3> QED BY <1>4, <3>1
  <2> HIDE DEF in, out
  <2> QED BY <2>1, <2>2 DEF WithInput
<1>9. g[N] \in Devs /\ g[N].in = [e.in EXCEPT ![i] = x] /\ g[N].host = e.host
  <2>1. N \in 0 .. N /\ f[N] = e
    BY <1>2
  <2>2. in(N) = [e.in EXCEPT ![i] = x]
    BY <2>1
  <2> HIDE DEF in, out
  <2> QED BY <1>3, <1>4, <2>1, <2>2
<1> HIDE DEF in, out
<1> QED BY <1>1, <1>6, <1>7, <1>8, <1>9 DEF Future, CopiedFuture
------------------------------------------------------------------------------
(* What a node knows of the tensors, call by call. *)

(* What a node knows of the device when its stream is empty: which crop of its
   packet each tensor is of, 0 if nothing, and whether the stream is empty. *)
Marks == [1 .. MaxIO -> Nat]
Knowledge == [in : Marks, out : Marks, host : Marks, idle : {"yes", "no"}]

(* The call a takes K to L, if the model reads the inputs `need` and the class
   makes the calls `ops`.  What is read is right. *)
Does(need, ops, a, K, L) ==
  /\ a.op \in ops
  /\ \A i \in 1 .. MaxIO : L.in[i] # 0 =>
       IF a.op \in {"copyIn", "queueIn"} /\ a.index = i THEN L.in[i] = a.crop ELSE L.in[i] = K.in[i]
  /\ \A i \in 1 .. MaxIO : L.out[i] # 0 =>
       /\ a.op # "copyIn"
       /\ IF a.op = "enqueue" THEN \A j \in need : K.in[j] = L.out[i] ELSE L.out[i] = K.out[i]
  /\ \A i \in 1 .. MaxIO : L.host[i] # 0 =>
       IF a.op = "queueOut" /\ a.index = i THEN L.host[i] = K.out[i] ELSE L.host[i] = K.host[i]
  /\ L.idle = "yes" => a.op = "synchronize" \/ (K.idle = "yes" /\ a.op \notin Queueing)
  /\ a.op \in {"copyOut", "copyHost", "waitOut"} => a.index \in 1 .. MaxIO /\ a.crop # 0
  /\ a.op = "copyOut"  => K.out[a.index]  = a.crop /\ K.idle = "yes"
  /\ a.op = "copyHost" => K.host[a.index] = a.crop /\ K.idle = "yes"
  /\ a.op = "waitOut"  => K.out[a.index]  = a.crop

(* The calls s, one after the other. *)
Leads(need, ops, K, s, L) ==
  \E g \in [0 .. Len(s) -> Knowledge] :
    /\ g[0] = K /\ g[Len(s)] = L
    /\ \A n \in 1 .. Len(s) : Does(need, ops, s[n], g[n - 1], g[n])

(* What is known of the packet p is so on the device. *)
TrueOf(p, K, e) ==
  \A i \in 1 .. MaxIO :
    /\ K.in[i]   # 0 => e.in[i]   = {<<p, K.in[i]>>}
    /\ K.out[i]  # 0 => e.out[i]  = {{<<p, K.out[i]>>}}
    /\ K.host[i] # 0 => e.host[i] = {{<<p, K.host[i]>>}}

(* A node at work on p with the calls s left, on a context that holds d and has
   the stream q still to execute, will read what is right. *)
OnTrack(p, need, ops, I, d, q, s) ==
  \E K \in Knowledge, e \in Devs, L \in Knowledge :
    /\ Future(I, d, q, e) /\ TrueOf(p, K, e) /\ (K.idle = "yes" => q = << >>)
    /\ Leads(need, ops, K, s, L)

(* No call teaches nothing. *)
LEMMA LeadsNowhere ==
  ASSUME NEW need, NEW ops, NEW K \in Knowledge
  PROVE  Leads(need, ops, K, << >>, K)
<1> DEFINE g == [n \in 0 .. 0 |-> K]
<1>1. g \in [0 .. 0 -> Knowledge] /\ g[0] = K
  OBVIOUS
<1>2. Len(<< >>) = 0 /\ \A n \in 1 .. 0 : FALSE
  OBVIOUS
<1> HIDE DEF g
<1> QED BY <1>1, <1>2 DEF Leads

(* One call. *)
LEMMA LeadsOne ==
  ASSUME NEW need, NEW ops, NEW K \in Knowledge, NEW L \in Knowledge, NEW a \in DoSet,
         Does(need, ops, a, K, L)
  PROVE  Leads(need, ops, K, <<a>>, L)
<1> DEFINE g == [n \in 0 .. 1 |-> IF n = 0 THEN K ELSE L]
<1>1. g \in [0 .. 1 -> Knowledge] /\ g[0] = K /\ g[1] = L
  OBVIOUS
<1>2. PICK s : s = <<a>>
  OBVIOUS
<1>3. Len(s) = 1 /\ s[1] = a
  BY <1>2
<1> HIDE DEF g
<1>4. \A n \in 1 .. 1 : n = 1 /\ n - 1 = 0
  OBVIOUS
<1> QED BY <1>1, <1>2, <1>3, <1>4 DEF Leads

(* Calls after calls. *)
LEMMA LeadsOn ==
  ASSUME NEW need, NEW ops, NEW K, NEW L, NEW M, NEW s \in Seq(DoSet), NEW t \in Seq(DoSet),
         Leads(need, ops, K, s, L), Leads(need, ops, L, t, M)
  PROVE  Leads(need, ops, K, s \o t, M)
<1>1. PICK A, u : A = DoSet /\ u = s \o t
  OBVIOUS
<1>2. PICK k \in Nat, l \in Nat : k = Len(s) /\ l = Len(t)
  OBVIOUS
<1>3. /\ Len(u) = k + l /\ \A i \in 1 .. k : u[i] = s[i]
      /\ \A i \in 1 .. l : u[k + i] = t[i]
  BY <1>1, <1>2, Joined
<1>4. PICK g \in [0 .. k -> Knowledge] :
        /\ g[0] = K /\ g[k] = L
        /\ \A n \in 1 .. k : Does(need, ops, s[n], g[n - 1], g[n])
  BY <1>2 DEF Leads
<1>5. PICK h \in [0 .. l -> Knowledge] :
        /\ h[0] = L /\ h[l] = M
        /\ \A n \in 1 .. l : Does(need, ops, t[n], h[n - 1], h[n])
  BY <1>2 DEF Leads
<1> DEFINE f == [n \in 0 .. k + l |-> IF n <= k THEN g[n] ELSE h[n - k]]
<1>6. f \in [0 .. k + l -> Knowledge]
  <2>1. \A n \in 0 .. k + l : ~ n <= k => n - k \in 0 .. l
    OBVIOUS
  <2> QED BY <2>1
<1>7. (\A n \in 0 .. k : f[n] = g[n]) /\ \A n \in 1 .. l : f[k + n] = h[n]
  <2>1. \A n \in 1 .. l : k + n \in 0 .. k + l /\ ~ k + n <= k /\ (k + n) - k = n
    OBVIOUS
  <2> QED BY <2>1
<1> HIDE DEF f
<1>8. \A n \in 0 .. l : f[k + n] = h[n]
  <2>1. f[k + 0] = h[0]
    BY <1>4, <1>5, <1>7
  <2>2. \A n \in 0 .. l : n = 0 \/ n \in 1 .. l
    OBVIOUS
  <2> QED BY <1>7, <2>1, <2>2
<1>9. ASSUME NEW n \in 1 .. k + l PROVE Does(need, ops, u[n], f[n - 1], f[n])
  <2>1. CASE n \in 1 .. k
    <3>1. f[n - 1] = g[n - 1] /\ f[n] = g[n] /\ u[n] = s[n]
      BY <1>3, <1>7, <2>1
    <3> QED BY <1>4, <2>1, <3>1
  <2>2. CASE n \notin 1 .. k
    <3>1. PICK m \in 1 .. l : n = k + m
      <4>1. n - k \in 1 .. l /\ n = k + (n - k)
        BY <2>2
      <4> QED BY <4>1
    <3>2. m - 1 \in 0 .. l /\ m \in 0 .. l /\ n - 1 = k + (m - 1)
      BY <3>1
    <3>3. f[n - 1] = h[m - 1] /\ f[n] = h[m] /\ u[n] = t[m]
      BY <1>3, <1>8, <3>1, <3>2
    <3> QED BY <1>5, <3>3
  <2> QED BY <2>1, <2>2
<1>10. f[0] = K /\ f[k + l] = M
  BY <1>4, <1>5, <1>7, <1>8
<1> QED BY <1>1, <1>3, <1>6, <1>9, <1>10 DEF Leads

(* The first call, and the others. *)
LEMMA LeadsFirst ==
  ASSUME NEW need, NEW ops, NEW K, NEW M, NEW s \in Seq(DoSet), s # << >>, Leads(need, ops, K, s, M)
  PROVE  \E L \in Knowledge : Does(need, ops, Head(s), K, L) /\ Leads(need, ops, L, Tail(s), M)
<1>1. PICK N \in Nat : N = Len(s) /\ N >= 1
  OBVIOUS
<1>2. PICK f \in [0 .. N -> Knowledge] : /\ f[0] = K /\ f[N] = M
                     /\ \A n \in 1 .. N : Does(need, ops, s[n], f[n - 1], f[n])
  BY <1>1 DEF Leads
<1>3. PICK t : t = Tail(s)
  OBVIOUS
<1>4. Len(t) = N - 1 /\ \A n \in 1 .. N - 1 : t[n] = s[n + 1]
  BY <1>1, <1>3
<1> DEFINE g == [n \in 0 .. N - 1 |-> f[n + 1]]
<1>5. g \in [0 .. N - 1 -> Knowledge] /\ \A n \in 0 .. N - 1 : g[n] = f[n + 1]
  BY <1>1
<1> HIDE DEF g
<1>6. ASSUME NEW n \in 1 .. N - 1 PROVE Does(need, ops, t[n], g[n - 1], g[n])
  <2>1. n + 1 \in 1 .. N /\ (n + 1) - 1 = n /\ n - 1 \in 0 .. N - 1 /\ (n - 1) + 1 = n
    BY <1>1
  <2>2. g[n - 1] = f[n] /\ g[n] = f[n + 1] /\ t[n] = s[n + 1]
    BY <1>4, <1>5, <2>1
  <2> QED BY <1>2, <2>1, <2>2
<1>7. g[0] = f[1] /\ g[0] \in Knowledge /\ Does(need, ops, Head(s), K, f[1])
  <2>1. 0 \in 0 .. N - 1 /\ 1 \in 1 .. N /\ Head(s) = s[1] /\ 0 + 1 = 1 /\ 1 - 1 = 0
    BY <1>1
  <2>2. g[0] = f[1] /\ Does(need, ops, s[1], f[0], f[1])
    BY <1>2, <1>5, <2>1
  <2> QED BY <1>2, <1>5, <2>1, <2>2
<1>8. g[N - 1] = M
  <2>1. N - 1 \in 0 .. N - 1 /\ (N - 1) + 1 = N
    BY <1>1
  <2> QED BY <1>2, <1>5, <2>1
<1>9. Leads(need, ops, g[0], t, M)
  BY <1>4, <1>5, <1>6, <1>8 DEF Leads
<1> QED BY <1>3, <1>7, <1>9

(* A loop of calls, one knowledge per round. *)
LEMMA LeadsLoop ==
  ASSUME NEW need, NEW ops, NEW N \in Nat, NEW s \in Seq(DoSet), Len(s) = N,
         NEW g \in [0 .. N -> Knowledge],
         \A n \in 1 .. N : Does(need, ops, s[n], g[n - 1], g[n])
  PROVE  Leads(need, ops, g[0], s, g[N])
  BY DEF Leads

------------------------------------------------------------------------------
(* The calls and the device. *)

(* A call of the worker's own that changes nothing on the device. *)
LEMMA TrueOfPlain ==
  ASSUME NEW p, NEW need, NEW ops, NEW K \in Knowledge, NEW L \in Knowledge, NEW e, NEW a \in DoSet,
         TrueOf(p, K, e), Does(need, ops, a, K, L),
         a.op \notin {"copyIn", "queueIn", "queueOut", "enqueue"}
  PROVE  TrueOf(p, L, e)
  BY DEF TrueOf, Does

(* A copy made by the host at once. *)
LEMMA TrueOfCopied ==
  ASSUME NEW p, NEW need, NEW ops, NEW K \in Knowledge, NEW L \in Knowledge, NEW e \in Devs,
         NEW a \in DoSet, NEW e2 \in Devs,
         TrueOf(p, K, e), Does(need, ops, a, K, L), a.op = "copyIn",
         e2.in = [e.in EXCEPT ![a.index] = {<<p, a.crop>>}], e2.host = e.host
  PROVE  TrueOf(p, L, e2)
<1>1. PICK x \in InT : x = e.in
  BY DEF Devs
<1>2. \A i \in 1 .. MaxIO : e2.in[i] = IF i = a.index THEN {<<p, a.crop>>} ELSE x[i]
  BY <1>1 DEF InT
<1>3. ASSUME NEW i \in 1 .. MaxIO PROVE L.in[i] # 0 => e2.in[i] = {<<p, L.in[i]>>}
  BY <1>1, <1>2 DEF TrueOf, Does
<1>4. ASSUME NEW i \in 1 .. MaxIO
      PROVE  L.out[i] = 0 /\ (L.host[i] # 0 => e2.host[i] = {{<<p, L.host[i]>>}})
  BY DEF TrueOf, Does
<1> QED BY <1>3, <1>4 DEF TrueOf

(* Work for the stream, once the device has executed it. *)
LEMMA TrueOfQueued ==
  ASSUME NEW p, NEW need, NEW I \in SUBSET (1 .. MaxIO), I # {}, NEW ops, NEW K \in Knowledge,
         NEW L \in Knowledge, NEW e \in Devs, NEW a \in DoSet, NEW o,
         TrueOf(p, K, e), Does(need, ops, a, K, L), a.op \in Queueing,
         o.op = a.op, o.index = a.index, a.op = "queueIn" => o.contents = {<<p, a.crop>>},
         a.op = "enqueue" => I = need
  PROVE  TrueOf(p, L, After(I, o, e))
<1>1. PICK x \in InT, y \in OutT, z \in OutT : x = e.in /\ y = e.out /\ z = e.host
  BY DEF Devs
<1>2. PICK e2 : e2 = After(I, o, e)
  OBVIOUS
<1>3. /\ e2.in = IF a.op = "queueIn" THEN [x EXCEPT ![a.index] = {<<p, a.crop>>}] ELSE x
      /\ e2.out = IF a.op = "enqueue" THEN [k \in 1 .. MaxIO |-> {x[i] : i \in I}] ELSE y
      /\ e2.host = IF a.op = "queueOut" THEN [z EXCEPT ![a.index] = y[a.index]] ELSE z
  BY <1>1, <1>2 DEF After
<1>4. ASSUME NEW i \in 1 .. MaxIO, L.in[i] # 0 PROVE e2.in[i] = {<<p, L.in[i]>>}
  <2>1. e2.in[i] = IF a.op = "queueIn" /\ i = a.index THEN {<<p, a.crop>>} ELSE x[i]
    BY <1>3 DEF InT
  <2> QED BY <1>1, <1>4, <2>1 DEF TrueOf, Does, Queueing
<1>5. ASSUME NEW i \in 1 .. MaxIO, L.out[i] # 0 PROVE e2.out[i] = {{<<p, L.out[i]>>}}
  <2>1. CASE a.op = "enqueue"
    <3>1. \A j \in I : K.in[j] = L.out[i]
      BY <1>5, <2>1 DEF Does
    <3>2. \A j \in I : x[j] = {<<p, L.out[i]>>}
      BY <1>1, <1>5, <3>1 DEF TrueOf
    <3>3. e2.out[i] = {x[j] : j \in I}
      BY <1>3, <2>1
    <3> QED BY <3>2, <3>3, ZenonT(60)
  <2>2. CASE a.op # "enqueue"
    <3>1. e2.out[i] = y[i]
      BY <1>3, <2>2
    <3> QED BY <1>1, <1>5, <2>2, <3>1 DEF TrueOf, Does
  <2> QED BY <2>1, <2>2
<1>6. ASSUME NEW i \in 1 .. MaxIO, L.host[i] # 0 PROVE e2.host[i] = {{<<p, L.host[i]>>}}
  <2>1. e2.host[i] = IF a.op = "queueOut" /\ i = a.index THEN y[i] ELSE z[i]
    BY <1>3 DEF OutT
  <2> QED BY <1>1, <1>6, <2>1 DEF TrueOf, Does
<1> QED BY <1>2, <1>4, <1>5, <1>6 DEF TrueOf
------------------------------------------------------------------------------
(* What the calls make known. *)

(* The inputs up to n are of crop k, the outputs of crop m, the host outputs up
   to h of crop k. *)
Knows(k, n, m, h, idle) ==
  [in   |-> [i \in 1 .. MaxIO |-> IF i <= n THEN k ELSE 0],
   out  |-> [i \in 1 .. MaxIO |-> m],
   host |-> [i \in 1 .. MaxIO |-> IF i <= h THEN k ELSE 0],
   idle |-> idle]
Nothing == Knows(0, 0, 0, 0, "no")

(* The same, tensor by tensor. *)
Known(K, k, n, m, h, idle) ==
  /\ K.idle = idle
  /\ \A i \in 1 .. MaxIO : /\ K.in[i] = (IF i <= n THEN k ELSE 0)
                           /\ K.out[i] = m
                           /\ K.host[i] = (IF i <= h THEN k ELSE 0)

(* What Knows says, tensor by tensor. *)
LEMMA KnowsFacts ==
  ASSUME NEW k \in Nat, NEW n \in Nat, NEW m \in Nat, NEW h \in Nat, NEW idle \in {"yes", "no"}
  PROVE  /\ Knows(k, n, m, h, idle) \in Knowledge
         /\ Known(Knows(k, n, m, h, idle), k, n, m, h, idle)
  BY DEF Knows, Knowledge, Marks, Known

(* What a node knows at the start: nothing. *)
LEMMA NothingFacts ==
  /\ Nothing \in Knowledge /\ Nothing.idle = "no"
  /\ \A i \in 1 .. MaxIO : Nothing.in[i] = 0 /\ Nothing.out[i] = 0 /\ Nothing.host[i] = 0
  /\ \A k \in Nat : Knows(k, 0, 0, 0, "no") = Nothing
<1>1. ASSUME NEW k \in Nat PROVE Knows(k, 0, 0, 0, "no") = Nothing
  <2>1. [i \in 1 .. MaxIO |-> IF i <= 0 THEN k ELSE 0] = [i \in 1 .. MaxIO |-> IF i <= 0 THEN 0 ELSE 0]
    OBVIOUS
  <2> QED BY <2>1 DEF Knows, Nothing
<1> QED BY <1>1, KnowsFacts DEF Nothing, Known

(* The fields of a call. *)
LEMMA DoFacts ==
  ASSUME NEW op, NEW index, NEW crop
  PROVE  Do(op, index, crop).op = op /\ Do(op, index, crop).index = index
         /\ Do(op, index, crop).crop = crop
  BY DEF Do

(* It is always possible to forget. *)
LEMMA DoesForget ==
  ASSUME NEW need, NEW ops, NEW a, NEW K, NEW L, Does(need, ops, a, K, L)
  PROVE  Does(need, ops, a, K, Nothing)
  BY NothingFacts DEF Does

(* So it is after a last call. *)
LEMMA LeadsForget ==
  ASSUME NEW need, NEW ops, NEW K, NEW L, NEW s \in Seq(DoSet), s # << >>, Leads(need, ops, K, s, L)
  PROVE  Leads(need, ops, K, s, Nothing)
<1>1. PICK N \in Nat : N = Len(s) /\ N >= 1
  OBVIOUS
<1>2. PICK f \in [0 .. N -> Knowledge] : /\ f[0] = K
                     /\ \A n \in 1 .. N : Does(need, ops, s[n], f[n - 1], f[n])
  BY <1>1 DEF Leads
<1> DEFINE g == [n \in 0 .. N |-> IF n = N THEN Nothing ELSE f[n]]
<1>3. g \in [0 .. N -> Knowledge]
  BY NothingFacts
<1>4. g[N] = Nothing /\ \A n \in 0 .. N : n # N => g[n] = f[n]
  OBVIOUS
<1> HIDE DEF g
<1>5. ASSUME NEW n \in 1 .. N PROVE Does(need, ops, s[n], g[n - 1], g[n])
  <2>1. g[n - 1] = f[n - 1]
    BY <1>4
  <2>2. Does(need, ops, s[n], f[n - 1], f[n])
    BY <1>2
  <2>3. Does(need, ops, s[n], f[n - 1], Nothing)
    BY <2>2, DoesForget
  <2>4. n = N \/ g[n] = f[n]
    BY <1>4
  <2> QED BY <1>4, <2>1, <2>2, <2>3, <2>4
<1>6. g[0] = K
  BY <1>1, <1>2, <1>4
<1> QED BY <1>1, <1>3, <1>4, <1>5, <1>6 DEF Leads

(* What each call makes known. *)
LEMMA DoesBind ==
  ASSUME NEW need, NEW ops, "bind" \in ops, NEW K, NEW k
  PROVE  Does(need, ops, Do("bind", 0, k), K, K)
  BY DoFacts DEF Does, Queueing

(* A copy in: one input more. *)
LEMMA DoesCopyIn ==
  ASSUME NEW need, NEW ops, NEW op \in {"copyIn", "queueIn"}, op \in ops,
         NEW k \in Nat, NEW n \in Nat \ {0}
  PROVE  Does(need, ops, Do(op, n, k), Knows(k, n - 1, 0, 0, "no"), Knows(k, n, 0, 0, "no"))
<1>1. PICK K, L, a : /\ K = Knows(k, n - 1, 0, 0, "no") /\ L = Knows(k, n, 0, 0, "no")
                     /\ a = Do(op, n, k)
  OBVIOUS
<1>2. a.op = op /\ a.index = n /\ a.crop = k
  BY <1>1, DoFacts
<1>3. /\ L.idle = "no"
      /\ \A i \in 1 .. MaxIO : /\ L.in[i] = (IF i <= n THEN k ELSE 0)
                               /\ K.in[i] = (IF i <= n - 1 THEN k ELSE 0)
                               /\ L.out[i] = 0 /\ L.host[i] = 0
  <2>0. n - 1 \in Nat
    OBVIOUS
  <2>1. Known(K, k, n - 1, 0, 0, "no") /\ Known(L, k, n, 0, 0, "no")
    BY <1>1, <2>0, KnowsFacts
  <2> QED BY <2>1 DEF Known
<1>4. \A i \in 1 .. MaxIO : L.in[i] # 0 => IF n = i THEN L.in[i] = k ELSE L.in[i] = K.in[i]
  BY <1>3
<1>5. Does(need, ops, a, K, L)
  BY <1>2, <1>3, <1>4 DEF Does
<1> QED BY <1>1, <1>5

(* An execution: the outputs are of the crop the inputs are of. *)
LEMMA DoesEnqueue ==
  ASSUME NEW ops, "enqueue" \in ops, NEW k \in Nat, NEW n \in Nat,
         NEW need \in SUBSET (1 .. MaxIO), need \subseteq 1 .. n
  PROVE  Does(need, ops, Do("enqueue", 0, k), Knows(k, n, 0, 0, "no"), Knows(k, 0, k, 0, "no"))
<1>1. PICK K, L, a : /\ K = Knows(k, n, 0, 0, "no") /\ L = Knows(k, 0, k, 0, "no")
                     /\ a = Do("enqueue", 0, k)
  OBVIOUS
<1>2. a.op = "enqueue"
  BY <1>1, DoFacts
<1>3. /\ L.idle = "no"
      /\ \A i \in 1 .. MaxIO : /\ L.in[i] = 0 /\ L.out[i] = k /\ L.host[i] = 0
                               /\ K.in[i] = (IF i <= n THEN k ELSE 0)
  <2>1. Known(K, k, n, 0, 0, "no") /\ Known(L, k, 0, k, 0, "no")
    BY <1>1, KnowsFacts
  <2> QED BY <2>1 DEF Known
<1>4. \A j \in need : K.in[j] = k
  BY <1>3
<1>5. Does(need, ops, a, K, L)
  BY <1>2, <1>3, <1>4 DEF Does
<1> QED BY <1>1, <1>5

(* A wait: the stream is empty. *)
LEMMA DoesSynchronize ==
  ASSUME NEW need, NEW ops, "synchronize" \in ops, NEW k \in Nat, NEW h \in Nat
  PROVE  Does(need, ops, Do("synchronize", 0, k), Knows(k, 0, k, h, "no"), Knows(k, 0, k, h, "yes"))
<1>1. PICK K, L, a : /\ K = Knows(k, 0, k, h, "no") /\ L = Knows(k, 0, k, h, "yes")
                     /\ a = Do("synchronize", 0, k)
  OBVIOUS
<1>2. a.op = "synchronize"
  BY <1>1, DoFacts
<1>3. \A i \in 1 .. MaxIO : K.in[i] = L.in[i] /\ K.out[i] = L.out[i] /\ K.host[i] = L.host[i]
  <2>1. Known(K, k, 0, k, h, "no") /\ Known(L, k, 0, k, h, "yes")
    BY <1>1, KnowsFacts
  <2> QED BY <2>1 DEF Known
<1>4. Does(need, ops, a, K, L)
  BY <1>2, <1>3 DEF Does
<1> QED BY <1>1, <1>4

(* A copy back to the host: one host output more. *)
LEMMA DoesQueueOut ==
  ASSUME NEW need, NEW ops, "queueOut" \in ops, NEW k \in Nat, NEW n \in Nat \ {0}
  PROVE  Does(need, ops, Do("queueOut", n, k), Knows(k, 0, k, n - 1, "no"), Knows(k, 0, k, n, "no"))
<1>1. PICK K, L, a : /\ K = Knows(k, 0, k, n - 1, "no") /\ L = Knows(k, 0, k, n, "no")
                     /\ a = Do("queueOut", n, k)
  OBVIOUS
<1>2. a.op = "queueOut" /\ a.index = n
  BY <1>1, DoFacts
<1>3. /\ L.idle = "no"
      /\ \A i \in 1 .. MaxIO : /\ L.in[i] = 0 /\ L.out[i] = k /\ K.out[i] = k
                               /\ L.host[i] = (IF i <= n THEN k ELSE 0)
                               /\ K.host[i] = (IF i <= n - 1 THEN k ELSE 0)
  <2>0. n - 1 \in Nat
    OBVIOUS
  <2>1. Known(K, k, 0, k, n - 1, "no") /\ Known(L, k, 0, k, n, "no")
    BY <1>1, <2>0, KnowsFacts
  <2> QED BY <2>1 DEF Known
<1>4. \A i \in 1 .. MaxIO : L.host[i] # 0 =>
        IF n = i THEN L.host[i] = K.out[i] ELSE L.host[i] = K.host[i]
  BY <1>3
<1>5. Does(need, ops, a, K, L)
  BY <1>2, <1>3, <1>4 DEF Does
<1> QED BY <1>1, <1>5

(* A field read when the stream is empty. *)
LEMMA DoesRead ==
  ASSUME NEW need, NEW ops, NEW op \in {"copyOut", "copyHost"}, op \in ops,
         NEW k \in Nat \ {0}, NEW h \in Nat, NEW n \in 1 .. MaxIO, op = "copyHost" => n <= h
  PROVE  Does(need, ops, Do(op, n, k), Knows(k, 0, k, h, "yes"), Knows(k, 0, k, h, "yes"))
<1>1. PICK K, a : K = Knows(k, 0, k, h, "yes") /\ a = Do(op, n, k)
  OBVIOUS
<1>2. a.op = op /\ a.index = n /\ a.crop = k
  BY <1>1, DoFacts
<1>3. K.idle = "yes" /\ K.out[n] = k /\ (op = "copyHost" => K.host[n] = k)
  <2>1. Known(K, k, 0, k, h, "yes")
    BY <1>1, KnowsFacts
  <2> QED BY <2>1 DEF Known
<1>4. Does(need, ops, a, K, K)
  BY <1>2, <1>3 DEF Does, Queueing
<1> QED BY <1>1, <1>4

(* A field read by a copy that waits for the stream. *)
LEMMA DoesWaitOut ==
  ASSUME NEW need, NEW ops, "waitOut" \in ops, NEW k \in Nat \ {0}
  PROVE  Does(need, ops, Do("waitOut", 1, k), Knows(k, 0, k, 0, "no"), Nothing)
<1>1. PICK K, a : K = Knows(k, 0, k, 0, "no") /\ a = Do("waitOut", 1, k)
  OBVIOUS
<1>2. a.op = "waitOut" /\ a.index = 1 /\ a.crop = k /\ 1 \in 1 .. MaxIO
  BY <1>1, DoFacts, ContextsAssumption
<1>3. K.out[1] = k
  <2>1. Known(K, k, 0, k, 0, "no")
    BY <1>1, KnowsFacts
  <2> QED BY <1>2, <2>1 DEF Known
<1>4. Does(need, ops, a, K, Nothing)
  BY <1>2, <1>3, NothingFacts DEF Does
<1> QED BY <1>1, <1>4

(* A call that teaches nothing. *)
LEMMA DoesIdle ==
  ASSUME NEW need, NEW ops, NEW op \in {"bind", "synchronize"}, op \in ops, NEW k
  PROVE  Does(need, ops, Do(op, 0, k), Nothing, Nothing)
  BY DoFacts, NothingFacts DEF Does

------------------------------------------------------------------------------
(* The loops over the tensors. *)
Each(op, N, k) == [i \in 1 .. N |-> Do(op, i, k)]

(* All inputs copied. *)
LEMMA InputsKnown ==
  ASSUME NEW need, NEW ops, NEW op \in {"copyIn", "queueIn"}, op \in ops,
         NEW k \in Nat, NEW N \in Nat
  PROVE  Leads(need, ops, Nothing, Each(op, N, k), Knows(k, N, 0, 0, "no"))
<1> DEFINE g == [n \in 0 .. N |-> Knows(k, n, 0, 0, "no")]
<1>1. PICK s : s = Each(op, N, k)
  OBVIOUS
<1>2. s \in Seq(DoSet) /\ Len(s) = N /\ \A i \in 1 .. N : s[i] = Do(op, i, k)
  <2>1. \A i \in 1 .. N : Do(op, i, k) \in DoSet
    BY DoIn DEF DoOps
  <2> QED BY <1>1, <2>1 DEF Each
<1>3. g \in [0 .. N -> Knowledge]
  BY KnowsFacts
<1>4. \A n \in 0 .. N : g[n] = Knows(k, n, 0, 0, "no")
  OBVIOUS
<1> HIDE DEF g
<1>5. ASSUME NEW n \in 1 .. N PROVE Does(need, ops, s[n], g[n - 1], g[n])
  <2>1. n - 1 \in 0 .. N /\ n \in 0 .. N /\ n \in Nat \ {0}
    OBVIOUS
  <2>2. Does(need, ops, Do(op, n, k), Knows(k, n - 1, 0, 0, "no"), Knows(k, n, 0, 0, "no"))
    BY <2>1, DoesCopyIn
  <2> QED BY <1>2, <1>4, <2>1, <2>2
<1>6. Leads(need, ops, g[0], s, g[N])
  BY <1>2, <1>3, <1>5, LeadsLoop
<1>7. g[0] = Nothing /\ g[N] = Knows(k, N, 0, 0, "no")
  BY <1>4, NothingFacts
<1> QED BY <1>1, <1>6, <1>7

(* All outputs copied back to the host. *)
LEMMA HostKnown ==
  ASSUME NEW need, NEW ops, "queueOut" \in ops, NEW k \in Nat, NEW N \in Nat
  PROVE  Leads(need, ops, Knows(k, 0, k, 0, "no"), Each("queueOut", N, k),
               Knows(k, 0, k, N, "no"))
<1> DEFINE g == [n \in 0 .. N |-> Knows(k, 0, k, n, "no")]
<1>1. PICK s : s = Each("queueOut", N, k)
  OBVIOUS
<1>2. s \in Seq(DoSet) /\ Len(s) = N /\ \A i \in 1 .. N : s[i] = Do("queueOut", i, k)
  <2>1. \A i \in 1 .. N : Do("queueOut", i, k) \in DoSet
    BY DoIn DEF DoOps
  <2> QED BY <1>1, <2>1 DEF Each
<1>3. g \in [0 .. N -> Knowledge]
  BY KnowsFacts
<1>4. \A n \in 0 .. N : g[n] = Knows(k, 0, k, n, "no")
  OBVIOUS
<1> HIDE DEF g
<1>5. ASSUME NEW n \in 1 .. N PROVE Does(need, ops, s[n], g[n - 1], g[n])
  <2>1. n - 1 \in 0 .. N /\ n \in 0 .. N /\ n \in Nat \ {0}
    OBVIOUS
  <2>2. Does(need, ops, Do("queueOut", n, k), Knows(k, 0, k, n - 1, "no"), Knows(k, 0, k, n, "no"))
    BY <2>1, DoesQueueOut
  <2> QED BY <1>2, <1>4, <2>1, <2>2
<1>6. Leads(need, ops, g[0], s, g[N])
  BY <1>2, <1>3, <1>5, LeadsLoop
<1>7. g[0] = Knows(k, 0, k, 0, "no") /\ g[N] = Knows(k, 0, k, N, "no")
  BY <1>4
<1> QED BY <1>1, <1>6, <1>7

(* All fields read. *)
LEMMA OutputsRead ==
  ASSUME NEW need, NEW ops, NEW op \in {"copyOut", "copyHost"}, op \in ops,
         NEW k \in Nat \ {0}, NEW h \in Nat, NEW N \in 1 .. MaxIO, op = "copyHost" => N <= h
  PROVE  Leads(need, ops, Knows(k, 0, k, h, "yes"), Each(op, N, k), Nothing)
<1>0. MaxIO \in Nat /\ N \in Nat /\ N # 0
  BY ContextsAssumption
<1>1. PICK s, K : s = Each(op, N, k) /\ K = Knows(k, 0, k, h, "yes")
  OBVIOUS
<1>2. s \in Seq(DoSet) /\ Len(s) = N /\ \A i \in 1 .. N : s[i] = Do(op, i, k)
  <2>1. \A i \in 1 .. N : Do(op, i, k) \in DoSet
    BY <1>0, DoIn DEF DoOps
  <2> QED BY <1>0, <1>1, <2>1 DEF Each
<1>3. K \in Knowledge
  BY <1>1, KnowsFacts
<1> DEFINE g == [n \in 0 .. N |-> K]
<1>4. g \in [0 .. N -> Knowledge] /\ \A n \in 0 .. N : g[n] = K
  BY <1>3
<1> HIDE DEF g
<1>5. ASSUME NEW n \in 1 .. N PROVE Does(need, ops, s[n], g[n - 1], g[n])
  <2>1. n - 1 \in 0 .. N /\ n \in 0 .. N /\ n \in 1 .. MaxIO /\ (op = "copyHost" => n <= h)
    BY <1>0
  <2>2. Does(need, ops, Do(op, n, k), K, K)
    BY <1>1, <2>1, DoesRead
  <2> QED BY <1>2, <1>4, <2>1, <2>2
<1>6. Leads(need, ops, g[0], s, g[N])
  BY <1>0, <1>2, <1>4, <1>5, LeadsLoop
<1>7. g[0] = K /\ g[N] = K /\ s # << >>
  BY <1>0, <1>2, <1>4
<1> QED BY <1>1, <1>2, <1>6, <1>7, LeadsForget
------------------------------------------------------------------------------
(* The programs of the nodes: none reads what it has not computed. *)

(* The calls the nodes of a class make. *)
AclOps == {"bind", "copyIn", "enqueue", "synchronize", "copyOut"}
TrtOps == {"bind", "queueIn", "enqueue", "queueOut", "synchronize", "copyHost", "waitOut"}
OpsOf(class) == IF IsAcl(class) THEN AclOps ELSE TrtOps
(* What the model must have been given, if it runs. *)
Need(class) == IF Runs(class) THEN 1 .. Ins(class) ELSE {}

(* The sequences of calls that read what is right, whatever there was before. *)
Good(need, ops) == {s \in Seq(DoSet) : Leads(need, ops, Nothing, s, Nothing)}

(* They can follow one another. *)
LEMMA GoodClosed ==
  ASSUME NEW need, NEW ops
  PROVE  Closed(Good(need, ops), DoSet)
<1>1. << >> \in Good(need, ops)
  <2>1. << >> \in Seq(DoSet)
    OBVIOUS
  <2> QED BY <2>1, LeadsNowhere, NothingFacts DEF Good
<1>2. ASSUME NEW s \in Good(need, ops), NEW t \in Good(need, ops) PROVE s \o t \in Good(need, ops)
  <2>1. PICK A : A = DoSet
    OBVIOUS
  <2>2. s \in Seq(A) /\ t \in Seq(A) /\ Leads(need, ops, Nothing, s, Nothing)
        /\ Leads(need, ops, Nothing, t, Nothing)
    BY <2>1 DEF Good
  <2>3. s \o t \in Seq(A)
    BY <2>2
  <2>4. Leads(need, ops, Nothing, s \o t, Nothing)
    BY <2>1, <2>2, LeadsOn
  <2> QED BY <2>1, <2>3, <2>4 DEF Good
<1>3. Good(need, ops) \subseteq Seq(DoSet)
  BY DEF Good
<1> QED BY <1>1, <1>2, <1>3 DEF Closed

(* Sequences and what they lead to, together. *)
Path(need, ops, K, s, L) == s \in Seq(DoSet) /\ Leads(need, ops, K, s, L)

(* One after the other. *)
LEMMA PathOn ==
  ASSUME NEW need, NEW ops, NEW K, NEW L, NEW M, NEW s, NEW t,
         Path(need, ops, K, s, L), Path(need, ops, L, t, M)
  PROVE  Path(need, ops, K, s \o t, M)
<1>1. PICK A : A = DoSet
  OBVIOUS
<1>2. s \in Seq(A) /\ t \in Seq(A)
  BY <1>1 DEF Path
<1>3. s \o t \in Seq(A)
  BY <1>2
<1>4. Leads(need, ops, K, s \o t, M)
  BY LeadsOn DEF Path
<1> QED BY <1>1, <1>3, <1>4 DEF Path

(* One call. *)
LEMMA PathOne ==
  ASSUME NEW need, NEW ops, NEW K \in Knowledge, NEW L \in Knowledge, NEW op \in DoOps,
         NEW n \in Nat, NEW k \in Nat, Does(need, ops, Do(op, n, k), K, L)
  PROVE  Path(need, ops, K, <<Do(op, n, k)>>, L)
<1>1. PICK a, A : a = Do(op, n, k) /\ A = DoSet
  OBVIOUS
<1>2. a \in A
  BY <1>1, DoIn
<1>3. <<a>> \in Seq(A)
  BY <1>2
<1>4. Leads(need, ops, K, <<a>>, L)
  BY <1>1, <1>2, LeadsOne
<1> QED BY <1>1, <1>3, <1>4 DEF Path

(* One call per tensor. *)
LEMMA PathLoop ==
  ASSUME NEW need, NEW ops, NEW K, NEW L, NEW op \in DoOps, NEW k \in Nat, NEW N \in Nat,
         Leads(need, ops, K, Each(op, N, k), L)
  PROVE  Path(need, ops, K, Each(op, N, k), L)
<1>1. \A i \in 1 .. N : Do(op, i, k) \in DoSet
  BY DoIn
<1>2. Each(op, N, k) \in Seq(DoSet)
  BY <1>1 DEF Each
<1> QED BY <1>2 DEF Path

(* Two and three calls, one after the other. *)
LEMMA Listed ==
  ASSUME NEW a, NEW b, NEW c
  PROVE  <<a>> \o <<b>> = <<a, b>> /\ (<<a>> \o <<b>>) \o <<c>> = <<a, b, c>>
<1>1. PICK A : A = {a, b, c}
  OBVIOUS
<1>2. a \in A /\ b \in A /\ c \in A
  BY <1>1
<1>3. <<a>> \o <<b>> = <<a, b>>
  <2>1. PICK u : u = <<a>> \o <<b>>
    OBVIOUS
  <2>2. u \in Seq(A) /\ Len(u) = 2 /\ u[1] = a /\ u[2] = b
    BY <1>2, <2>1
  <2>3. u = <<a, b>>
    BY <1>2, <2>2
  <2> QED BY <2>1, <2>3
<1>4. <<a, b>> \o <<c>> = <<a, b, c>>
  <2>1. PICK u : u = <<a, b>> \o <<c>>
    OBVIOUS
  <2>2. u \in Seq(A) /\ Len(u) = 3 /\ u[1] = a /\ u[2] = b /\ u[3] = c
    BY <1>2, <2>1
  <2>3. u = <<a, b, c>>
    BY <1>2, <2>2
  <2> QED BY <2>1, <2>3
<1> QED BY <1>3, <1>4

(* Ascend: one crop, or the one tensor of the other classes. *)
LEMMA AclCropGood ==
  ASSUME NEW class, NEW k \in Nat \ {0}, NEW need \in SUBSET (1 .. MaxIO),
         Ins(class) \in Nat, Outs(class) \in 1 .. MaxIO, need \subseteq 1 .. Ins(class)
  PROVE  (CopyInputsToStage(class, k) \o ExecuteStage(class, k)) \o CopyOutputsFromStage(class, k)
           \in Good(need, AclOps)
<1>0. k \in Nat /\ Outs(class) \in Nat /\ MaxIO \in Nat
  BY ContextsAssumption
<1>1. PICK n, o, b, e, w, i, c, L, C, D :
        /\ n = Ins(class) /\ o = Outs(class)
        /\ b = Do("bind", 0, k) /\ e = Do("enqueue", 0, k) /\ w = Do("synchronize", 0, k)
        /\ i = Each("copyIn", n, k) /\ c = Each("copyOut", o, k)
        /\ L = Knows(k, n, 0, 0, "no") /\ C = Knows(k, 0, k, 0, "no") /\ D = Knows(k, 0, k, 0, "yes")
  OBVIOUS
<1>2. L \in Knowledge /\ C \in Knowledge /\ D \in Knowledge /\ Nothing \in Knowledge
  BY <1>0, <1>1, KnowsFacts, NothingFacts
<1>3. "bind" \in AclOps /\ "copyIn" \in AclOps /\ "enqueue" \in AclOps /\ "synchronize" \in AclOps
      /\ "copyOut" \in AclOps
  BY DEF AclOps
<1>4. "bind" \in DoOps /\ "copyIn" \in DoOps /\ "enqueue" \in DoOps /\ "synchronize" \in DoOps
      /\ "copyOut" \in DoOps
  BY DEF DoOps
<1>5. \A K \in Knowledge : Path(need, AclOps, K, <<b>>, K)
  BY <1>0, <1>1, <1>3, <1>4, DoesBind, PathOne
<1>6. Path(need, AclOps, Nothing, i, L)
  BY <1>0, <1>1, <1>3, <1>4, InputsKnown, PathLoop
<1>7. Path(need, AclOps, L, <<e>>, C)
  BY <1>0, <1>1, <1>2, <1>3, <1>4, DoesEnqueue, PathOne
<1>8. Path(need, AclOps, C, <<w>>, D)
  BY <1>0, <1>1, <1>2, <1>3, <1>4, DoesSynchronize, PathOne
<1>9. Path(need, AclOps, D, c, Nothing)
  <2>1. Leads(need, AclOps, D, c, Nothing)
    BY <1>0, <1>1, <1>3, OutputsRead
  <2> QED BY <1>0, <1>1, <1>4, <2>1, PathLoop
<1>10. Path(need, AclOps, Nothing, <<b>> \o i, L)
  BY <1>2, <1>5, <1>6, PathOn
<1>11. Path(need, AclOps, L, <<b, e, w>>, D)
  <2>1. Path(need, AclOps, L, (<<b>> \o <<e>>) \o <<w>>, D)
    BY <1>2, <1>5, <1>7, <1>8, PathOn
  <2>2. (<<b>> \o <<e>>) \o <<w>> = <<b, e, w>>
    BY Listed
  <2> QED BY <2>1, <2>2
<1>12. Path(need, AclOps, D, <<b>> \o c, Nothing)
  BY <1>2, <1>5, <1>9, PathOn
<1>13. Path(need, AclOps, Nothing, ((<<b>> \o i) \o <<b, e, w>>) \o (<<b>> \o c), Nothing)
  BY <1>10, <1>11, <1>12, PathOn
<1>14. /\ CopyInputsToStage(class, k) = <<b>> \o i
       /\ ExecuteStage(class, k) = <<b, e, w>>
       /\ CopyOutputsFromStage(class, k) = <<b>> \o c
  BY <1>1 DEF CopyInputsToStage, ExecuteStage, CopyOutputsFromStage, Each
<1> QED BY <1>13, <1>14 DEF Path, Good

(* Orin: the first call, the copies and the execution. *)
LEMMA TrtPaths ==
  ASSUME NEW k \in Nat \ {0}, NEW need \in SUBSET (1 .. MaxIO)
  PROVE  /\ Path(need, TrtOps, Nothing, BindCurrentThread, Nothing)
         /\ Path(need, TrtOps, Nothing, CopyToDevice(k), Knows(k, 1, 0, 0, "no"))
         /\ \A n \in Nat \ {0} : Path(need, TrtOps, Knows(k, n - 1, 0, 0, "no"),
                                      FusionCopyInput(n, k), Knows(k, n, 0, 0, "no"))
         /\ \A n \in Nat : need \subseteq 1 .. n =>
              Path(need, TrtOps, Knows(k, n, 0, 0, "no"), ExecuteModel(k), Knows(k, 0, k, 0, "no"))
         /\ \A class : Outs(class) \in 1 .. MaxIO =>
              /\ Path(need, TrtOps, Knows(k, 0, k, 0, "no"), CopyToHost(class, k),
                      Knows(k, 0, k, Outs(class), "yes"))
              /\ Path(need, TrtOps, Knows(k, 0, k, Outs(class), "yes"), CopyToPacket(class, k),
                      Nothing)
         /\ Path(need, TrtOps, Knows(k, 0, k, 0, "no"), ReidCopyToHost(k), Nothing)
         /\ Path(need, TrtOps, Knows(k, 0, k, 0, "no"), FusionCopyOutput(k), Nothing)
<1>0. k \in Nat /\ MaxIO \in Nat /\ 1 \in 1 .. MaxIO /\ 1 \in Nat \ {0} /\ 1 - 1 = 0
  BY ContextsAssumption
<1>1. /\ "bind" \in TrtOps /\ "queueIn" \in TrtOps /\ "enqueue" \in TrtOps /\ "synchronize" \in TrtOps
      /\ "queueOut" \in TrtOps /\ "copyHost" \in TrtOps /\ "waitOut" \in TrtOps
  BY DEF TrtOps
<1>2. /\ "bind" \in DoOps /\ "queueIn" \in DoOps /\ "enqueue" \in DoOps /\ "synchronize" \in DoOps
      /\ "queueOut" \in DoOps /\ "copyHost" \in DoOps /\ "waitOut" \in DoOps
  BY DEF DoOps
<1>3. Nothing \in Knowledge
  BY NothingFacts
<1>4. Path(need, TrtOps, Nothing, BindCurrentThread, Nothing)
  BY <1>0, <1>1, <1>2, <1>3, DoesIdle, PathOne DEF BindCurrentThread
<1>5. ASSUME NEW n \in Nat \ {0}
      PROVE  Path(need, TrtOps, Knows(k, n - 1, 0, 0, "no"), FusionCopyInput(n, k),
                  Knows(k, n, 0, 0, "no"))
  <2>0. n - 1 \in Nat /\ n \in Nat
    OBVIOUS
  <2>1. Does(need, TrtOps, Do("queueIn", n, k), Knows(k, n - 1, 0, 0, "no"), Knows(k, n, 0, 0, "no"))
    BY <1>0, <1>1, DoesCopyIn
  <2>2. Knows(k, n - 1, 0, 0, "no") \in Knowledge /\ Knows(k, n, 0, 0, "no") \in Knowledge
    BY <1>0, <2>0, KnowsFacts
  <2> QED BY <1>0, <1>2, <2>0, <2>1, <2>2, PathOne DEF FusionCopyInput
<1>6. Path(need, TrtOps, Nothing, CopyToDevice(k), Knows(k, 1, 0, 0, "no"))
  <2>1. Path(need, TrtOps, Knows(k, 0, 0, 0, "no"), FusionCopyInput(1, k), Knows(k, 1, 0, 0, "no"))
    BY <1>0, <1>5
  <2> QED BY <1>0, <2>1, NothingFacts DEF FusionCopyInput, CopyToDevice
<1>7. ASSUME NEW n \in Nat, need \subseteq 1 .. n
      PROVE  Path(need, TrtOps, Knows(k, n, 0, 0, "no"), ExecuteModel(k), Knows(k, 0, k, 0, "no"))
  <2>1. Does(need, TrtOps, Do("enqueue", 0, k), Knows(k, n, 0, 0, "no"), Knows(k, 0, k, 0, "no"))
    BY <1>0, <1>1, <1>7, DoesEnqueue
  <2>2. Knows(k, n, 0, 0, "no") \in Knowledge /\ Knows(k, 0, k, 0, "no") \in Knowledge
    BY <1>0, KnowsFacts
  <2> QED BY <1>0, <1>2, <2>1, <2>2, PathOne DEF ExecuteModel
<1>8. ASSUME NEW h \in Nat
      PROVE  /\ Path(need, TrtOps, Knows(k, 0, k, h, "no"), <<Do("synchronize", 0, k)>>,
                     Knows(k, 0, k, h, "yes"))
             /\ Knows(k, 0, k, h, "no") \in Knowledge /\ Knows(k, 0, k, h, "yes") \in Knowledge
  <2>1. Does(need, TrtOps, Do("synchronize", 0, k), Knows(k, 0, k, h, "no"), Knows(k, 0, k, h, "yes"))
    BY <1>0, <1>1, DoesSynchronize
  <2>2. Knows(k, 0, k, h, "no") \in Knowledge /\ Knows(k, 0, k, h, "yes") \in Knowledge
    BY <1>0, KnowsFacts
  <2> QED BY <1>0, <1>2, <2>1, <2>2, PathOne
<1>9. ASSUME NEW N \in 1 .. MaxIO
      PROVE  /\ Path(need, TrtOps, Knows(k, 0, k, 0, "no"), Each("queueOut", N, k),
                     Knows(k, 0, k, N, "no"))
             /\ Path(need, TrtOps, Knows(k, 0, k, N, "yes"), Each("copyHost", N, k),
                     Nothing)
  <2>0. N \in Nat
    BY <1>0
  <2>1. Leads(need, TrtOps, Knows(k, 0, k, 0, "no"), Each("queueOut", N, k),
              Knows(k, 0, k, N, "no"))
    BY <1>0, <1>1, <2>0, HostKnown
  <2>2. Leads(need, TrtOps, Knows(k, 0, k, N, "yes"), Each("copyHost", N, k), Nothing)
    BY <1>0, <1>1, <2>0, OutputsRead
  <2> QED BY <1>0, <1>2, <2>0, <2>1, <2>2, PathLoop
<1>10. ASSUME NEW class, Outs(class) \in 1 .. MaxIO
       PROVE  /\ Path(need, TrtOps, Knows(k, 0, k, 0, "no"), CopyToHost(class, k),
                      Knows(k, 0, k, Outs(class), "yes"))
              /\ Path(need, TrtOps, Knows(k, 0, k, Outs(class), "yes"), CopyToPacket(class, k),
                      Nothing)
  <2>1. PICK N \in 1 .. MaxIO : N = Outs(class)
    BY <1>10
  <2>2. N \in Nat
    BY <1>0
  <2>3. Path(need, TrtOps, Knows(k, 0, k, 0, "no"),
             Each("queueOut", N, k) \o <<Do("synchronize", 0, k)>>,
             Knows(k, 0, k, N, "yes"))
    BY <1>8, <1>9, <2>2, PathOn
  <2> QED BY <1>9, <2>1, <2>3 DEF CopyToHost, CopyToPacket, Each
<1>11. Path(need, TrtOps, Knows(k, 0, k, 0, "no"), ReidCopyToHost(k), Nothing)
  <2>1. PICK q, w, h : /\ q = Do("queueOut", 1, k) /\ w = Do("synchronize", 0, k)
                       /\ h = Do("copyHost", 1, k)
    OBVIOUS
  <2>2. Path(need, TrtOps, Knows(k, 0, k, 0, "no"), <<q>>, Knows(k, 0, k, 1, "no"))
    <3>1. Does(need, TrtOps, q, Knows(k, 0, k, 0, "no"), Knows(k, 0, k, 1, "no"))
      <4>1. Does(need, TrtOps, q, Knows(k, 0, k, 1 - 1, "no"), Knows(k, 0, k, 1, "no"))
        BY <1>0, <1>1, <2>1, DoesQueueOut
      <4> QED BY <1>0, <4>1
    <3> QED BY <1>0, <1>2, <1>8, <2>1, <3>1, PathOne
  <2>3. Path(need, TrtOps, Knows(k, 0, k, 1, "yes"), <<h>>, Nothing)
    <3>1. Does(need, TrtOps, h, Knows(k, 0, k, 1, "yes"), Knows(k, 0, k, 1, "yes"))
      BY <1>0, <1>1, <2>1, DoesRead
    <3>2. Does(need, TrtOps, h, Knows(k, 0, k, 1, "yes"), Nothing)
      BY <3>1, DoesForget
    <3> QED BY <1>0, <1>2, <1>3, <1>8, <2>1, <3>2, PathOne
  <2>4. Path(need, TrtOps, Knows(k, 0, k, 0, "no"), (<<q>> \o <<w>>) \o <<h>>, Nothing)
    BY <1>0, <1>8, <2>1, <2>2, <2>3, PathOn
  <2>5. (<<q>> \o <<w>>) \o <<h>> = <<q, w, h>>
    BY Listed
  <2> QED BY <2>1, <2>4, <2>5 DEF ReidCopyToHost
<1>12. Path(need, TrtOps, Knows(k, 0, k, 0, "no"), FusionCopyOutput(k), Nothing)
  <2>1. PICK q, w : q = Do("waitOut", 1, k) /\ w = Do("synchronize", 0, k)
    OBVIOUS
  <2>2. Path(need, TrtOps, Knows(k, 0, k, 0, "no"), <<q>>, Nothing)
    BY <1>0, <1>1, <1>2, <1>3, <1>8, <2>1, DoesWaitOut, PathOne
  <2>3. Path(need, TrtOps, Nothing, <<w>>, Nothing)
    BY <1>0, <1>1, <1>2, <1>3, <2>1, DoesIdle, PathOne
  <2>4. Path(need, TrtOps, Knows(k, 0, k, 0, "no"), <<q>> \o <<w>>, Nothing)
    BY <2>2, <2>3, PathOn
  <2>5. <<q>> \o <<w>> = <<q, w>>
    BY Listed
  <2> QED BY <2>1, <2>4, <2>5 DEF FusionCopyOutput
<1> QED BY <1>4, <1>5, <1>6, <1>7, <1>10, <1>11, <1>12

(* The node of every class. *)
LEMMA NodeGood ==
  ASSUME Chosen, NEW c \in Owners, Class(c) = "FusionTrt" => Ins("FusionTrt") = 2
  PROVE  NodeProgram(Class(c)) \in Good(Need(Class(c)), OpsOf(Class(c)))
<1>1. PICK class : class = Class(c)
  OBVIOUS
<1>2. /\ class \in {"YoloxAcl", "DetectionAcl", "ReidAcl", "FusionAcl", "YoloxTrt", "DetectionTrt",
             "ReidTrt", "FusionTrt"}
      /\ Ins(class) \in 1 .. MaxIO /\ Outs(class) \in 1 .. MaxIO
      /\ 1 \in Nat \ {0} /\ Crops \in Nat /\ MaxIO \in Nat
  BY <1>1, ClassFacts, ContextsAssumption, InferenceAssumption
<1>3. Ins(class) \in Nat
  BY <1>2
<1>4. PICK need \in SUBSET (1 .. MaxIO) : need = Need(class)
  <2>1. 1 .. Ins(class) \in SUBSET (1 .. MaxIO)
    BY <1>2
  <2>2. Need(class) \in SUBSET (1 .. MaxIO)
    BY <2>1 DEF Need
  <2> QED BY <2>2
<1>5. need \subseteq 1 .. Ins(class)
  BY <1>4 DEF Need
<1>6. IF class \in {"YoloxAcl", "DetectionAcl", "ReidAcl", "FusionAcl"}
      THEN OpsOf(class) = AclOps ELSE OpsOf(class) = TrtOps
  BY <1>2 DEF OpsOf, IsAcl, AclClasses
<1>7. CASE class \in {"YoloxAcl", "DetectionAcl", "FusionAcl"}
  <2>1. NodeProgram(class) = (CopyInputsToStage(class, 1) \o ExecuteStage(class, 1))
            \o CopyOutputsFromStage(class, 1)
    BY <1>7, NodeOf
  <2>2. NodeProgram(class) \in Good(need, AclOps)
    BY <1>2, <1>3, <1>5, <2>1, AclCropGood
  <2> QED BY <1>1, <1>4, <1>6, <1>7, <2>2
<1>8. CASE class = "ReidAcl"
  <2> DEFINE ss == [k \in 1 .. Crops |-> (CopyInputsToStage("ReidAcl", k)
          \o ExecuteStage("ReidAcl", k)) \o CopyOutputsFromStage("ReidAcl", k)]
  <2>1. ASSUME NEW k \in 1 .. Crops PROVE ss[k] \in Good(need, AclOps)
    <3>1. k \in Nat \ {0}
      BY <1>2
    <3> QED BY <1>2, <1>3, <1>5, <1>8, <3>1, AclCropGood
  <2>2. ss = [k \in 1 .. Crops |-> ss[k]]
    OBVIOUS
  <2>3. NodeProgram(class) = FlattenSeq(ss)
    BY <1>8, NodeOf
  <2> HIDE DEF ss
  <2>4. PICK W : W = Good(need, AclOps)
    OBVIOUS
  <2>5. ss \in Seq(W)
    BY <1>2, <2>1, <2>2, <2>4
  <2>6. FlattenSeq(ss) \in W
    BY <2>4, <2>5, GoodClosed, FlattenIn
  <2> QED BY <1>1, <1>4, <1>6, <1>8, <2>3, <2>4, <2>6
<1>9. CASE class \in {"YoloxTrt", "DetectionTrt"}
  <2>0. need \subseteq 1 .. 1
    BY <1>4, <1>9 DEF Need, Runs
  <2>1. NodeProgram(class) =
          (((BindCurrentThread \o CopyToDevice(1)) \o ExecuteModel(1)) \o CopyToHost(class, 1))
              \o CopyToPacket(class, 1)
    BY <1>9, NodeOf
  <2>2. Path(need, TrtOps, Nothing, BindCurrentThread \o CopyToDevice(1), Knows(1, 1, 0, 0, "no"))
    BY <1>2, TrtPaths, PathOn
  <2>3. Path(need, TrtOps, Nothing, (BindCurrentThread \o CopyToDevice(1)) \o ExecuteModel(1),
             Knows(1, 0, 1, 0, "no"))
    <3>1. Path(need, TrtOps, Knows(1, 1, 0, 0, "no"), ExecuteModel(1), Knows(1, 0, 1, 0, "no"))
      BY <1>2, <2>0, TrtPaths
    <3> QED BY <2>2, <3>1, PathOn
  <2>4. /\ Path(need, TrtOps, Knows(1, 0, 1, 0, "no"), CopyToHost(class, 1),
                Knows(1, 0, 1, Outs(class), "yes"))
        /\ Path(need, TrtOps, Knows(1, 0, 1, Outs(class), "yes"), CopyToPacket(class, 1), Nothing)
    BY <1>2, TrtPaths
  <2>5. Path(need, TrtOps, Nothing, NodeProgram(class), Nothing)
    <3>1. Path(need, TrtOps, Nothing,
               ((BindCurrentThread \o CopyToDevice(1)) \o ExecuteModel(1)) \o CopyToHost(class, 1),
               Knows(1, 0, 1, Outs(class), "yes"))
      BY <2>3, <2>4, PathOn
    <3>2. Path(need, TrtOps, Nothing,
               (((BindCurrentThread \o CopyToDevice(1)) \o ExecuteModel(1)) \o CopyToHost(class, 1))
                 \o CopyToPacket(class, 1), Nothing)
      BY <2>4, <3>1, PathOn
    <3> QED BY <2>1, <3>2
  <2> QED BY <1>1, <1>4, <1>6, <1>9, <2>5 DEF Path, Good
<1>10. CASE class = "FusionTrt"
  <2>0. need \subseteq 1 .. 2
    BY <1>1, <1>5, <1>10
  <2>1. NodeProgram(class) =
          (((BindCurrentThread \o FusionCopyInput(1, 1)) \o FusionCopyInput(2, 1))
              \o ExecuteModel(1)) \o FusionCopyOutput(1)
    BY <1>10, NodeOf
  <2>2. /\ Path(need, TrtOps, Nothing, BindCurrentThread, Nothing)
        /\ Path(need, TrtOps, Nothing, FusionCopyInput(1, 1), Knows(1, 1, 0, 0, "no"))
        /\ Path(need, TrtOps, Knows(1, 1, 0, 0, "no"), FusionCopyInput(2, 1), Knows(1, 2, 0, 0, "no"))
        /\ Path(need, TrtOps, Knows(1, 2, 0, 0, "no"), ExecuteModel(1), Knows(1, 0, 1, 0, "no"))
        /\ Path(need, TrtOps, Knows(1, 0, 1, 0, "no"), FusionCopyOutput(1), Nothing)
    <3>1. /\ \A n \in Nat \ {0} : Path(need, TrtOps, Knows(1, n - 1, 0, 0, "no"),
                                      FusionCopyInput(n, 1), Knows(1, n, 0, 0, "no"))
          /\ \A n \in Nat : need \subseteq 1 .. n =>
              Path(need, TrtOps, Knows(1, n, 0, 0, "no"), ExecuteModel(1), Knows(1, 0, 1, 0, "no"))
          /\ Path(need, TrtOps, Nothing, BindCurrentThread, Nothing)
          /\ Path(need, TrtOps, Knows(1, 0, 1, 0, "no"), FusionCopyOutput(1), Nothing)
      BY <1>2, TrtPaths
    <3>2. 1 \in Nat \ {0} /\ 2 \in Nat \ {0} /\ 1 - 1 = 0 /\ 2 - 1 = 1 /\ 2 \in Nat
      OBVIOUS
    <3>3. Path(need, TrtOps, Knows(1, 1 - 1, 0, 0, "no"), FusionCopyInput(1, 1),
               Knows(1, 1, 0, 0, "no"))
      BY <3>1
    <3>4. Path(need, TrtOps, Knows(1, 2 - 1, 0, 0, "no"), FusionCopyInput(2, 1),
               Knows(1, 2, 0, 0, "no"))
      BY <3>1
    <3>5. Knows(1, 0, 0, 0, "no") = Nothing
      BY NothingFacts
    <3> QED BY <2>0, <3>1, <3>2, <3>3, <3>4, <3>5
  <2>3. Path(need, TrtOps, Nothing, NodeProgram(class), Nothing)
    <3>1. Path(need, TrtOps, Nothing, BindCurrentThread \o FusionCopyInput(1, 1),
               Knows(1, 1, 0, 0, "no"))
      BY <2>2, PathOn
    <3>2. Path(need, TrtOps, Nothing, (BindCurrentThread \o FusionCopyInput(1, 1))
               \o FusionCopyInput(2, 1), Knows(1, 2, 0, 0, "no"))
      BY <2>2, <3>1, PathOn
    <3>3. Path(need, TrtOps, Nothing, ((BindCurrentThread \o FusionCopyInput(1, 1))
               \o FusionCopyInput(2, 1)) \o ExecuteModel(1), Knows(1, 0, 1, 0, "no"))
      BY <2>2, <3>2, PathOn
    <3>4. Path(need, TrtOps, Nothing, (((BindCurrentThread \o FusionCopyInput(1, 1))
               \o FusionCopyInput(2, 1)) \o ExecuteModel(1)) \o FusionCopyOutput(1), Nothing)
      BY <2>2, <3>3, PathOn
    <3> QED BY <2>1, <3>4
  <2> QED BY <1>1, <1>4, <1>6, <1>10, <2>3 DEF Path, Good
<1>11. CASE class = "ReidTrt"
  <2>0. need \subseteq 1 .. 1
    BY <1>4, <1>11 DEF Need, Runs
  <2> DEFINE ss == [k \in 1 .. Crops |-> (CopyToDevice(k) \o ExecuteModel(k)) \o ReidCopyToHost(k)]
  <2>1. ASSUME NEW k \in 1 .. Crops PROVE ss[k] \in Good(need, TrtOps)
    <3>1. k \in Nat \ {0} /\ 1 \in Nat
      BY <1>2
    <3>2. /\ Path(need, TrtOps, Nothing, CopyToDevice(k), Knows(k, 1, 0, 0, "no"))
          /\ Path(need, TrtOps, Knows(k, 1, 0, 0, "no"), ExecuteModel(k), Knows(k, 0, k, 0, "no"))
          /\ Path(need, TrtOps, Knows(k, 0, k, 0, "no"), ReidCopyToHost(k), Nothing)
      BY <2>0, <3>1, TrtPaths
    <3>3. Path(need, TrtOps, Nothing, (CopyToDevice(k) \o ExecuteModel(k)) \o ReidCopyToHost(k),
               Nothing)
      BY <3>2, PathOn
    <3> QED BY <3>3 DEF Path, Good
  <2>2. ss = [k \in 1 .. Crops |-> ss[k]]
    OBVIOUS
  <2>3. NodeProgram(class) = BindCurrentThread \o FlattenSeq(ss)
    BY <1>11, NodeOf
  <2> HIDE DEF ss
  <2>4. PICK W : W = Good(need, TrtOps)
    OBVIOUS
  <2>5. ss \in Seq(W)
    BY <1>2, <2>1, <2>2, <2>4
  <2>6. FlattenSeq(ss) \in W
    BY <2>4, <2>5, GoodClosed, FlattenIn
  <2>7. BindCurrentThread \in W
    BY <1>2, <2>4, TrtPaths DEF Path, Good
  <2>8. BindCurrentThread \o FlattenSeq(ss) \in W
    BY <2>4, <2>6, <2>7, GoodClosed DEF Closed
  <2> QED BY <1>1, <1>4, <1>6, <1>11, <2>3, <2>4, <2>8
<1> QED BY <1>2, <1>7, <1>8, <1>9, <1>10, <1>11
------------------------------------------------------------------------------
(* The calls of a node on a context. *)

(* A node's start: nothing is known. *)
LEMMA TrackStart ==
  ASSUME NEW p, NEW need, NEW ops, NEW I \in SUBSET (1 .. MaxIO), NEW d \in Devs,
         NEW q \in Seq(Items), NEW s \in Good(need, ops)
  PROVE  OnTrack(p, need, ops, I, d, q, s)
<1>1. PICK e \in Devs : Future(I, d, q, e)
  BY FutureIs
<1>2. TrueOf(p, Nothing, e)
  BY NothingFacts DEF TrueOf
<1>3. Leads(need, ops, Nothing, s, Nothing)
  BY DEF Good
<1> QED BY <1>1, <1>2, <1>3, NothingFacts DEF OnTrack

(* The device executes. *)
LEMMA TrackExecuted ==
  ASSUME NEW p, NEW need, NEW ops, NEW I, NEW d \in Devs,
         NEW q \in Seq(Items), q # << >>, NEW s, OnTrack(p, need, ops, I, d, q, s)
  PROVE  OnTrack(p, need, ops, I, After(I, Head(q), d), Tail(q), s)
<1>1. PICK K \in Knowledge, e \in Devs, L \in Knowledge :
        /\ Future(I, d, q, e) /\ TrueOf(p, K, e) /\ (K.idle = "yes" => q = << >>)
        /\ Leads(need, ops, K, s, L)
  BY DEF OnTrack
<1>2. Future(I, After(I, Head(q), d), Tail(q), e)
  BY <1>1, FutureExecuted
<1> QED BY <1>1, <1>2 DEF OnTrack

(* What the first call does, and what is known before and after it. *)
LEMMA TrackCall ==
  ASSUME NEW p, NEW need, NEW ops, NEW I, NEW d, NEW q, NEW s \in Seq(DoSet), s # << >>,
         OnTrack(p, need, ops, I, d, q, s)
  PROVE  \E K \in Knowledge, L \in Knowledge, e \in Devs, M \in Knowledge :
           /\ Future(I, d, q, e) /\ TrueOf(p, K, e) /\ (K.idle = "yes" => q = << >>)
           /\ Does(need, ops, Head(s), K, L) /\ Leads(need, ops, L, Tail(s), M)
<1>1. PICK K \in Knowledge, e \in Devs, M \in Knowledge :
        /\ Future(I, d, q, e) /\ TrueOf(p, K, e) /\ (K.idle = "yes" => q = << >>)
        /\ Leads(need, ops, K, s, M)
  BY DEF OnTrack
<1>2. PICK L \in Knowledge : Does(need, ops, Head(s), K, L) /\ Leads(need, ops, L, Tail(s), M)
  BY <1>1, LeadsFirst
<1> QED BY <1>1, <1>2

(* Calls that leave the device and the stream alone; what they read is right. *)
LEMMA TrackPlain ==
  ASSUME NEW p, NEW need, NEW ops, NEW I, NEW d \in Devs, NEW q, NEW s \in Seq(DoSet), s # << >>,
         NEW a \in DoSet, a = Head(s), OnTrack(p, need, ops, I, d, q, s),
         a.op \in {"bind", "synchronize", "copyOut", "copyHost", "waitOut"},
         a.op \in {"synchronize", "waitOut"} => q = << >>
  PROVE  /\ OnTrack(p, need, ops, I, d, q, Tail(s))
         /\ a.op \in {"copyOut", "waitOut"} => d.out[a.index] = {{<<p, a.crop>>}}
         /\ a.op = "copyHost" => d.host[a.index] = {{<<p, a.crop>>}}
<1>1. PICK K \in Knowledge, L \in Knowledge, e \in Devs, M \in Knowledge :
        /\ Future(I, d, q, e) /\ TrueOf(p, K, e) /\ (K.idle = "yes" => q = << >>)
        /\ Does(need, ops, a, K, L) /\ Leads(need, ops, L, Tail(s), M)
  BY TrackCall
<1>2. TrueOf(p, L, e)
  BY <1>1, TrueOfPlain
<1>3. L.idle = "yes" => q = << >>
  BY <1>1 DEF Does
<1>4. q = << >> => e = d
  BY <1>1, FutureNow, ZenonT(60)
<1>5. a.op \in {"copyOut", "waitOut"} => d.out[a.index] = {{<<p, a.crop>>}}
  BY <1>1, <1>4 DEF Does, TrueOf
<1>6. a.op = "copyHost" => d.host[a.index] = {{<<p, a.crop>>}}
  BY <1>1, <1>4 DEF Does, TrueOf
<1> QED BY <1>1, <1>2, <1>3, <1>5, <1>6 DEF OnTrack

(* A copy to the device past the stream. *)
LEMMA TrackCopied ==
  ASSUME NEW p \in Packets, NEW need, NEW ops, NEW I \in SUBSET (1 .. MaxIO), NEW d \in Devs,
         NEW q \in Seq(Items), \A n \in DOMAIN q : q[n].op = "enqueue",
         NEW s \in Seq(DoSet), s # << >>, NEW a \in DoSet, a = Head(s), a.op = "copyIn",
         OnTrack(p, need, ops, I, d, q, s)
  PROVE  OnTrack(p, need, ops, I, WithInput(d, a.index, {<<p, a.crop>>}), q, Tail(s))
<1>1. PICK K \in Knowledge, L \in Knowledge, e \in Devs, M \in Knowledge :
        /\ Future(I, d, q, e) /\ TrueOf(p, K, e) /\ (K.idle = "yes" => q = << >>)
        /\ Does(need, ops, a, K, L) /\ Leads(need, ops, L, Tail(s), M)
  BY TrackCall
<1>2. a.index \in Nat /\ {<<p, a.crop>>} \in SUBSET (Packets \X Nat)
  BY DEF DoSet
<1>20. PICK i \in Nat : i = a.index
  BY <1>2
<1>21. PICK x \in SUBSET (Packets \X Nat) : x = {<<p, a.crop>>}
  BY <1>2
<1>22. EnqueuesOnly(q)
  BY DEF EnqueuesOnly
<1>23. CopiedFuture(I, d, q, e, i, x)
  BY <1>1, <1>22, FutureCopied
<1>3. PICK e2 \in Devs : /\ Future(I, WithInput(d, i, x), q, e2)
                         /\ e2.in = [e.in EXCEPT ![i] = x] /\ e2.host = e.host
  BY <1>23 DEF CopiedFuture
<1>4. TrueOf(p, L, e2)
  BY <1>1, <1>20, <1>21, <1>3, TrueOfCopied
<1>5. L.idle = "yes" => q = << >>
  BY <1>1 DEF Does
<1> QED BY <1>1, <1>20, <1>21, <1>3, <1>4, <1>5 DEF OnTrack

(* Work for the stream. *)
LEMMA TrackQueued ==
  ASSUME NEW p \in Packets, NEW need, NEW ops, NEW I \in SUBSET (1 .. MaxIO), I # {}, NEW d \in Devs,
         NEW q \in Seq(Items), NEW s \in Seq(DoSet), s # << >>, NEW a \in DoSet, a = Head(s),
         a.op \in Queueing, a.op = "enqueue" => I = need, NEW o \in Items,
         o.op = a.op, o.index = a.index, a.op = "queueIn" => o.contents = {<<p, a.crop>>},
         OnTrack(p, need, ops, I, d, q, s)
  PROVE  OnTrack(p, need, ops, I, d, Append(q, o), Tail(s))
<1>1. PICK K \in Knowledge, L \in Knowledge, e \in Devs, M \in Knowledge :
        /\ Future(I, d, q, e) /\ TrueOf(p, K, e) /\ (K.idle = "yes" => q = << >>)
        /\ Does(need, ops, a, K, L) /\ Leads(need, ops, L, Tail(s), M)
  BY TrackCall
<1>2. Future(I, d, Append(q, o), After(I, o, e)) /\ After(I, o, e) \in Devs
  BY <1>1, FutureQueued, AfterIn
<1>3. TrueOf(p, L, After(I, o, e))
  BY <1>1, TrueOfQueued
<1>4. L.idle # "yes"
  BY <1>1 DEF Does, Queueing
<1> QED BY <1>1, <1>2, <1>3, <1>4 DEF OnTrack

------------------------------------------------------------------------------
(* The fusion engine's tensors have been counted before any node runs. *)
Counted ==
  \A x \in Owners : Class(x) = "FusionTrt" /\ thrower = None =>
    Ins("FusionTrt") = 2 \/ (phase = "create" /\ \E i \in DOMAIN todo : todo[i].op = "check")

(* An application with a fusion engine has no other class. *)
LEMMA OneClass ==
  ASSUME Chosen, NEW x \in Owners, NEW y \in Owners, Class(x) = "FusionTrt"
  PROVE  Class(y) = "FusionTrt" /\ app = "fusionOrin"
<1>1. app \in {"yolox310p", "deepsort310p", "fusion310p", "yoloxOrin", "deepsortOrin", "fusionOrin"}
  BY ContextsAssumption DEF ClassesOf, Chosen
<1>2. x[2] \in 1 .. Len(Classes) /\ y[2] \in 1 .. Len(Classes)
  BY DEF Owners, Contexts, Models
<1>3. CASE app # "fusionOrin"
  <2>1. \A k \in 1 .. Len(Classes) : Classes[k] # "FusionTrt"
    BY <1>1, <1>3 DEF Classes, ClassesOf
  <2> QED
    BY <1>2, <2>1 DEF Class
<1>4. CASE app = "fusionOrin"
  <2>1. \A k \in 1 .. Len(Classes) : Classes[k] = "FusionTrt"
    BY <1>4 DEF Classes, ClassesOf
  <2> QED
    BY <1>2, <1>4, <2>1 DEF Class
<1> QED
  BY <1>3, <1>4

(* The first constructor of the fusion application inspects its engine. *)
LEMMA InitCounted ==
  ASSUME LifeInit
  PROVE  Counted
<1>1. Chosen
  BY DEF LifeInit, Chosen, Classes
<1> SUFFICES ASSUME NEW x \in Owners, Class(x) = "FusionTrt"
             PROVE  phase = "create" /\ \E i \in DOMAIN todo : todo[i].op = "check"
  BY DEF Counted
<1>2. app = "fusionOrin"
  BY <1>1, OneClass
<1>3. Classes[1] = "FusionTrt"
  BY <1>2 DEF Classes, ClassesOf
<1>4. FirstOf(1) = <<"model", 1, 0>>
  BY <1>3 DEF FirstOf, IsAcl, AclClasses
<1>5. Class(<<"model", 1, 0>>) = "FusionTrt" /\ <<"model", 1, 0>>[1] = "model"
  BY <1>3 DEF Class
<1>6. todo = FusionTrtLoad \o FusionTrtInspect /\ phase = "create"
  BY <1>4, <1>5 DEF LifeInit, Program
<1>7. PICK a, b, c, d, e, f, g, h, i, j :
        /\ FusionTrtLoad = <<a, b, c>> /\ FusionTrtInspect = <<d, e, f, g, h, i, j>>
        /\ g = Step("check", <<"bindings", 0>>, "model")
  BY DEF FusionTrtLoad, FusionTrtInspect
<1>8. PICK A : A = {a, b, c, d, e, f, g, h, i, j}
  OBVIOUS
<1>9. PICK s : s = <<a, b, c>>
  OBVIOUS
<1>10. PICK t : t = <<d, e, f, g, h, i, j>>
  OBVIOUS
<1>11. s \in Seq(A) /\ t \in Seq(A) /\ Len(s) = 3 /\ Len(t) = 7 /\ t[4] = g
  <2>1. a \in A /\ b \in A /\ c \in A /\ d \in A /\ e \in A /\ f \in A /\ g \in A /\ h \in A
        /\ i \in A /\ j \in A
    BY <1>8
  <2>2. s \in Seq(A) /\ Len(s) = 3
    BY <1>9, <2>1
  <2>3. t \in Seq(A)
    BY <1>10, <2>1
  <2>4. Len(t) = 7 /\ t[4] = g
    BY <1>10
  <2> QED BY <2>2, <2>3, <2>4
<1>13. PICK k \in Nat, l \in Nat : k = 3 /\ l = 7
  OBVIOUS
<1>14. PICK u : u = s \o t
  OBVIOUS
<1>15. Len(u) = k + l /\ u[k + 4] = t[4] /\ u \in Seq(A)
  <2>1. k = Len(s) /\ l = Len(t) /\ 4 \in 1 .. l
    BY <1>11, <1>13
  <2>2. Len(u) = k + l /\ \A n \in 1 .. l : u[k + n] = t[n]
    <3>1. s \in Seq(A) /\ t \in Seq(A)
      BY <1>11
    <3>2. Len(s \o t) = Len(s) + Len(t)
      BY <3>1, Joined
    <3>3. \A n \in 1 .. Len(t) : (s \o t)[Len(s) + n] = t[n]
      BY <3>1, Joined
    <3> QED BY <1>14, <2>1, <3>2, <3>3
  <2>3. u \in Seq(A)
    BY <1>11, <1>14
  <2> QED BY <2>1, <2>2, <2>3
<1>16. 7 \in DOMAIN u /\ u[7] = g
  <2>1. k + 4 = 7 /\ k + l = 10
    BY <1>13
  <2>2. DOMAIN u = 1 .. 10
    BY <1>15, <2>1
  <2> QED BY <1>11, <1>15, <2>1, <2>2
<1>12. todo = u /\ g.op = "check"
  BY <1>6, <1>7, <1>9, <1>10, <1>14 DEF Step
<1> QED BY <1>6, <1>12, <1>16

(* The check has passed when it is no longer among the calls left. *)
LEMMA CountedKept ==
  ASSUME Core, Counted, [Next]_vars
  PROVE  Counted'
<1>1. UNCHANGED <<app, io>>
  <2>1. CASE Main
    BY <2>1 DEF Main, LifeNext, Call, Throw, Constructed, Unwind, Destruct, Gone
  <2>2. CASE ~Main
    BY <2>2 DEF Next, NodeCall, NodeReturns, NodeFails, Return, StartNode, DeviceStep, ShutDown, Done,
                vars, lifeVars
  <2> QED BY <2>1, <2>2
<1>2. Owners' = Owners /\ (\A x : Class(x)' = Class(x)) /\ Ins("FusionTrt")' = Ins("FusionTrt")
  BY <1>1, Fixed DEF Ins
<1>3. Chosen /\ owner \in Owners /\ (phase = "run" => todo = << >>) /\ todo \in Seq(CallSet)
  BY DEF Core, Types, Phases, Chosen
<1> SUFFICES ASSUME NEW x \in Owners, Class(x) = "FusionTrt", thrower' = None,
                    Ins("FusionTrt") # 2
             PROVE  phase' = "create" /\ \E i \in DOMAIN todo' : todo'[i].op = "check"
  BY <1>2 DEF Counted
<1>4. CASE LifeNext
  <2>1. thrower = None
    BY <1>4, NoneIsNobody, <1>3 DEF LifeNext, Call, Throw, Constructed, Unwind, Destruct, Gone
  <2>2. phase = "create" /\ \E i \in DOMAIN todo : todo[i].op = "check"
    BY <2>1 DEF Counted
  <2>3. PICK i \in DOMAIN todo : todo[i].op = "check"
    BY <2>2
  <2>4. i \in 1 .. Len(todo) /\ Len(todo) \in Nat /\ todo # << >>
    BY <1>3, <2>3
  <2>5. Call
    BY <1>3, <1>4, <2>1, <2>2, <2>4, NoneIsNobody
       DEF LifeNext, Throw, Constructed, Unwind, Destruct, Gone
  <2>6. todo' = Tail(todo) /\ phase' = phase
    BY <2>5 DEF Call
  <2>7. i # 1
    <3> SUFFICES ASSUME i = 1 PROVE FALSE
      OBVIOUS
    <3>1. Head(todo).op = "check"
      BY <1>3, <2>3, <2>4
    <3>2. Fits(Class(owner))
      BY <2>5, <3>1 DEF Call, Create, Keep, AddressThread, Destroy, Passed
    <3>3. Class(owner) = "FusionTrt"
      BY <1>3, OneClass
    <3> QED BY <3>2, <3>3 DEF Fits
  <2>8. i - 1 \in DOMAIN Tail(todo) /\ Tail(todo)[i - 1] = todo[i]
    BY <1>3, <2>4, <2>7
  <2> QED BY <2>2, <2>3, <2>6, <2>8
<1>5. CASE ShutDown
  <2>1. thrower = None /\ phase = "run"
    BY <1>5 DEF ShutDown
  <2> QED BY <2>1 DEF Counted
<1>6. CASE ~LifeNext /\ ~ShutDown
  <2>1. UNCHANGED <<thrower, phase, todo>>
    BY <1>6 DEF Next, Main, NodeCall, NodeReturns, NodeFails, Return, StartNode, DeviceStep, Done,
                vars, lifeVars
  <2> QED BY <2>1 DEF Counted
<1> QED BY <1>4, <1>5, <1>6

(* In the run, fusion contexts have a model with two inputs. *)
LEMMA CountedRuns ==
  ASSUME Core, Counted, phase = "run", NEW c \in Contexts, Class(c) = "FusionTrt"
  PROVE  Ins("FusionTrt") = 2
<1>1. thrower = None /\ c \in Owners
  BY DEF Core, Phases, Owners
<1> QED BY <1>1 DEF Counted
------------------------------------------------------------------------------
(* The invariant of the flow. *)

(* What the device holds for a context, and that what is queued can be executed;
   the Ascend nodes copy past the stream and queue executions only. *)
Holds(c) == [in |-> inTensor[c], out |-> outTensor[c], host |-> hostOut[c]]
Sane(c) ==
  /\ Holds(c) \in Devs /\ stream[c] \in Seq(Items)
  /\ IsAcl(Class(c)) => EnqueuesOnly(stream[c])

(* The shapes of the variables. *)
Shaped ==
  /\ inTensor = [c \in Contexts |-> inTensor[c]] /\ outTensor = [c \in Contexts |-> outTensor[c]]
  /\ hostOut = [c \in Contexts |-> hostOut[c]] /\ stream = [c \in Contexts |-> stream[c]]
  /\ result = [p \in Packets |-> result[p]]

(* A worker at a node will read what is right. *)
WillRead(p, c, s) ==
  OnTrack(p, Need(Class(c)), OpsOf(Class(c)), 1 .. Ins(Class(c)), Holds(c), stream[c], s)
OnItsWay(t) ==
  work[t].packet # "-" =>
    /\ work[t].packet \in Packets /\ work[t].context \in Contexts /\ work[t].calls \in Seq(DoSet)
    /\ WillRead(work[t].packet, work[t].context, work[t].calls)

(* No two workers are at work on one context. *)
Apart ==
  \A t, u \in Workers : t # u /\ work[t].packet # "-" /\ work[u].packet # "-" =>
    work[t].context # work[u].context

(* What is recorded so far is right, whatever becomes of the packet. *)
Right == \A p \in Packets : \A f \in DOMAIN result[p] : result[p][f] = {{<<p, f[1]>>}}

FlowInv == Shaped /\ Apart /\ Right /\ (\A c \in Contexts : Sane(c)) /\ \A t \in Workers : OnItsWay(t)

(* Nothing happens on a context. *)
Still(c) == /\ inTensor'[c] = inTensor[c] /\ outTensor'[c] = outTensor[c]
            /\ hostOut'[c] = hostOut[c] /\ stream'[c] = stream[c]

(* What the application fixes of a class. *)
LEMMA ClassFixed ==
  ASSUME UNCHANGED <<app, io>>
  PROVE  /\ Contexts' = Contexts
         /\ \A x : /\ Class(x)' = Class(x) /\ Need(Class(x))' = Need(Class(x))
                   /\ OpsOf(Class(x))' = OpsOf(Class(x)) /\ Ins(Class(x))' = Ins(Class(x))
<1>1. Contexts' = Contexts /\ \A x : Class(x)' = Class(x)
  BY Fixed
<1>2. \A x : Ins(Class(x))' = Ins(Class(x)) /\ Outs(Class(x))' = Outs(Class(x))
  BY <1>1 DEF Ins, Outs
<1>3. \A x : Runs(Class(x))' = Runs(Class(x))
  BY <1>1, <1>2 DEF Runs
<1>4. \A x : Need(Class(x))' = Need(Class(x))
  BY <1>1, <1>2, <1>3 DEF Need
<1>5. \A x : OpsOf(Class(x))' = OpsOf(Class(x))
  BY <1>1 DEF OpsOf
<1> QED BY <1>1, <1>2, <1>4, <1>5

(* A context on which nothing happens stays as it is. *)
LEMMA SaneStays ==
  ASSUME UNCHANGED <<app, io>>, NEW c \in Contexts, Sane(c), Still(c)
  PROVE  Sane(c)'
<1>1. Class(c)' = Class(c)
  BY ClassFixed
<1>2. Holds(c)' = Holds(c) /\ stream'[c] = stream[c]
  BY DEF Holds, Still
<1> QED BY <1>1, <1>2 DEF Sane

(* So does a worker on whose context nothing happens. *)
LEMMA OnItsWayStays ==
  ASSUME UNCHANGED <<app, io>>, NEW t \in Workers, OnItsWay(t), work'[t] = work[t],
         work[t].packet # "-" => Still(work[t].context)
  PROVE  OnItsWay(t)'
<1> SUFFICES ASSUME work[t].packet # "-" PROVE OnItsWay(t)'
  BY DEF OnItsWay
<1>1. PICK p, c, s : p = work[t].packet /\ c = work[t].context /\ s = work[t].calls
  OBVIOUS
<1>2. p \in Packets /\ c \in Contexts /\ s \in Seq(DoSet) /\ WillRead(p, c, s)
  BY <1>1 DEF OnItsWay
<1>3. Holds(c)' = Holds(c) /\ stream'[c] = stream[c]
  BY <1>1 DEF Holds, Still
<1>4. WillRead(p, c, s)'
  BY <1>2, <1>3, ClassFixed DEF WillRead
<1>5. Contexts' = Contexts
  BY ClassFixed
<1>6. p = work'[t].packet /\ c = work'[t].context /\ s = work'[t].calls
  BY <1>1
<1> QED BY <1>2, <1>4, <1>5, <1>6 DEF OnItsWay

(* Only t has moved, and only its context. *)
LEMMA OneMoves ==
  ASSUME FlowInv, UNCHANGED <<app, io>>, NEW t \in Workers, work[t].packet # "-",
         \A u \in Workers : u # t => work'[u] = work[u],
         work'[t].packet = work[t].packet, work'[t].context = work[t].context,
         \A x \in Contexts : x # work[t].context => Still(x),
         NEW c, c = work[t].context, Sane(c)', OnItsWay(t)', Shaped', Right'
  PROVE  FlowInv'
<1>1. c \in Contexts
  BY DEF FlowInv, OnItsWay
<1>3. ASSUME NEW x \in Contexts PROVE Sane(x)'
  BY <1>1, SaneStays DEF FlowInv
<1>4. ASSUME NEW u \in Workers PROVE OnItsWay(u)'
  <2>1. CASE u = t
    BY <2>1
  <2>2. CASE u # t
    <3>1. work[u].packet # "-" => work[u].context \in Contexts /\ work[u].context # c
      BY <1>1, <2>2 DEF FlowInv, OnItsWay, Apart
    <3>2. work[u].packet # "-" => Still(work[u].context)
      BY <1>1, <3>1
    <3>3. OnItsWay(u) /\ work'[u] = work[u]
      BY <2>2 DEF FlowInv
    <3> QED BY <3>2, <3>3, OnItsWayStays
  <2> QED BY <2>1, <2>2
<1>5. Apart'
  <2>1. \A u \in Workers : work'[u].packet = work[u].packet /\ work'[u].context = work[u].context
    OBVIOUS
  <2> QED BY <2>1 DEF FlowInv, Apart
<1>6. Contexts' = Contexts
  BY ClassFixed
<1> QED BY <1>3, <1>4, <1>5, <1>6 DEF FlowInv

(* What the first of the calls left may be. *)
LEMMA TrackOp ==
  ASSUME NEW p, NEW need, NEW ops, NEW I, NEW d, NEW q, NEW s \in Seq(DoSet), s # << >>,
         OnTrack(p, need, ops, I, d, q, s)
  PROVE  Head(s).op \in ops
BY TrackCall DEF Does

(* A copy leaves the device in a state it can be in. *)
LEMMA WithInputIn ==
  ASSUME NEW d \in Devs, NEW i, NEW x \in SUBSET (Packets \X Nat)
  PROVE  WithInput(d, i, x) \in Devs
<1>1. d.in \in InT /\ d.out \in OutT /\ d.host \in OutT
  BY DEF Devs
<1>2. [d.in EXCEPT ![i] = x] \in InT
  BY <1>1 DEF InT
<1> QED BY <1>1, <1>2 DEF WithInput, Devs

(* What is to be known of the worker whose call it is. *)
LEMMA CallerFacts ==
  ASSUME Core, FlowInv, NEW t \in Workers, Busy(t)
  PROVE  /\ work[t].packet \in Packets /\ work[t].context \in Contexts
         /\ work[t].calls \in Seq(DoSet) /\ work[t].calls # << >> /\ NextCall(t) \in DoSet
         /\ Tail(work[t].calls) \in Seq(DoSet)
         /\ WillRead(work[t].packet, work[t].context, work[t].calls)
         /\ NextCall(t).op \in OpsOf(Class(work[t].context))
         /\ Sane(work[t].context)
         /\ 1 .. Ins(Class(work[t].context)) \in SUBSET (1 .. MaxIO)
         /\ 1 .. Ins(Class(work[t].context)) # {}
<1>1. OnItsWay(t) /\ work[t].packet # "-" /\ work[t].calls # << >>
  BY DEF FlowInv, Busy
<1>2. PICK c \in Contexts, s \in Seq(DoSet) : c = work[t].context /\ s = work[t].calls
  BY <1>1 DEF OnItsWay
<1>3. Head(s) \in DoSet /\ Tail(s) \in Seq(DoSet)
  BY <1>1, <1>2
<1>4. Head(s).op \in OpsOf(Class(c))
  BY <1>1, <1>2, TrackOp DEF OnItsWay, WillRead
<1>5. Ins(Class(c)) \in 1 .. MaxIO
  BY ClassFacts DEF Core, Types, Chosen, Owners
<1>6. Sane(c)
  BY DEF FlowInv
<1>7. 1 .. Ins(Class(c)) \in SUBSET (1 .. MaxIO) /\ 1 .. Ins(Class(c)) # {}
  BY <1>5, ContextsAssumption
<1> QED BY <1>1, <1>2, <1>3, <1>4, <1>6, <1>7 DEF OnItsWay, NextCall

(* A worker's call keeps the invariant if what it leaves on its context is sane
   and what the rest of its calls will read is right. *)
LEMMA CallMoves ==
  ASSUME Core, AtWork, FlowInv, NEW t \in Workers, NodeCall(t), NEW p, NEW c, NEW s,
         p = work[t].packet, c = work[t].context, s = Tail(work[t].calls),
         \A x \in Contexts : x # c => Still(x), Shaped', Right',
         Holds(c)' \in Devs, stream'[c] \in Seq(Items), IsAcl(Class(c)) => EnqueuesOnly(stream'[c]),
         OnTrack(p, Need(Class(c)), OpsOf(Class(c)), 1 .. Ins(Class(c)), Holds(c)', stream'[c], s)
  PROVE  FlowInv'
<1>1. Busy(t) /\ Advance(t) /\ UNCHANGED <<app, io>>
  BY DEF NodeCall
<1>2. p \in Packets /\ c \in Contexts /\ s \in Seq(DoSet)
  BY <1>1, CallerFacts
<1>3. work'[t].packet = p /\ work'[t].context = c /\ work'[t].calls = s
  BY <1>1, Advances
<1>4. Class(c)' = Class(c) /\ Contexts' = Contexts
  BY <1>1, ClassFixed
<1>5. WillRead(p, c, s)'
  BY <1>1, ClassFixed DEF WillRead
<1>6. OnItsWay(t)'
  BY <1>2, <1>3, <1>4, <1>5 DEF OnItsWay
<1>7. Sane(c)'
  BY <1>4 DEF Sane
<1>8. work[t].packet # "-" /\ \A u \in Workers : u # t => work'[u] = work[u]
  BY <1>1, Advances DEF Busy
<1> QED BY <1>1, <1>3, <1>6, <1>7, <1>8, OneMoves

(* A field is recorded with what the packet's own tensors gave. *)
LEMMA Recorded ==
  ASSUME Shaped, Right, NEW t \in Workers, NEW x, Record(t, x), NEW p \in Packets,
         p = work[t].packet, x = {{<<p, NextCall(t).crop>>}}
  PROVE  Right' /\ result' = [q \in Packets |-> result'[q]]
<1>1. result = [q \in Packets |-> result[q]]
  BY DEF Shaped
<1>2. PICK k, i, g : k = NextCall(t).crop /\ i = NextCall(t).index /\ g = <<k, i>>
  OBVIOUS
<1>3. PICK r : r = [f \in {g} \union DOMAIN result[p] |-> IF f = g THEN x ELSE result[p][f]]
  OBVIOUS
<1>4. result' = [result EXCEPT ![p] = r]
  BY <1>2, <1>3 DEF Record
<1>5. result' = [q \in Packets |-> IF q = p THEN r ELSE result[q]]
  BY <1>1, <1>4
<1>6. ASSUME NEW f \in DOMAIN r PROVE r[f] = {{<<p, f[1]>>}}
  <2>1. DOMAIN r = {g} \union DOMAIN result[p] /\ r[g] = x
        /\ \A h \in DOMAIN result[p] : h # g => r[h] = result[p][h]
    BY <1>3
  <2> QED BY <1>2, <2>1 DEF Right
<1> QED BY <1>5, <1>6 DEF Right

(* Calls that change nothing on the device or its stream. *)
LEMMA PlainFlow ==
  ASSUME Core, AtWork, FlowInv, NEW t \in Workers, NodeCall(t), Shaped', Right',
         UNCHANGED <<inTensor, outTensor, hostOut, stream>>,
         NextCall(t).op \in {"bind", "synchronize", "copyOut", "copyHost", "waitOut"},
         NextCall(t).op \in {"synchronize", "waitOut"} => stream[work[t].context] = << >>
  PROVE  FlowInv'
<1>1. Busy(t)
  BY DEF NodeCall
<1>2. PICK p, c, s, a, d, q : /\ p = work[t].packet /\ c = work[t].context /\ s = work[t].calls
                             /\ a = NextCall(t) /\ d = Holds(c) /\ q = stream[c]
  OBVIOUS
<1>3. /\ s \in Seq(DoSet) /\ s # << >> /\ a \in DoSet /\ a = Head(s)
      /\ OnTrack(p, Need(Class(c)), OpsOf(Class(c)), 1 .. Ins(Class(c)), d, q, s)
      /\ Sane(c)
  BY <1>1, <1>2, CallerFacts DEF WillRead, NextCall
<1>4. d \in Devs /\ q \in Seq(Items) /\ (IsAcl(Class(c)) => EnqueuesOnly(q))
  BY <1>2, <1>3 DEF Sane
<1>5. OnTrack(p, Need(Class(c)), OpsOf(Class(c)), 1 .. Ins(Class(c)), d, q, Tail(s))
  BY <1>2, <1>3, <1>4, TrackPlain
<1>6. Holds(c)' = d /\ stream'[c] = q /\ \A x \in Contexts : Still(x)
  BY <1>2 DEF Holds, Still
<1>7. \A x \in Contexts : x # c => Still(x)
  BY <1>6
<1> QED BY <1>2, <1>4, <1>5, <1>6, <1>7, CallMoves

(* An input copied to the device. *)
LEMMA CopyFlow ==
  ASSUME Core, AtWork, FlowInv, NEW t \in Workers, NodeCall(t), CopyIn(t)
  PROVE  FlowInv'
<1>1. Busy(t)
  BY DEF NodeCall
<1>2. PICK p, c, s, a, d, q : /\ p = work[t].packet /\ c = work[t].context /\ s = work[t].calls
                             /\ a = NextCall(t) /\ d = Holds(c) /\ q = stream[c]
  OBVIOUS
<1>3. /\ s \in Seq(DoSet) /\ s # << >> /\ a \in DoSet /\ a = Head(s) /\ p \in Packets
      /\ OnTrack(p, Need(Class(c)), OpsOf(Class(c)), 1 .. Ins(Class(c)), d, q, s)
      /\ Sane(c) /\ c \in Contexts /\ 1 .. Ins(Class(c)) \in SUBSET (1 .. MaxIO)
      /\ a.op \in OpsOf(Class(c)) /\ a.op = "copyIn"
  BY <1>1, <1>2, CallerFacts DEF WillRead, NextCall, CopyIn
<1>4. d \in Devs /\ q \in Seq(Items) /\ EnqueuesOnly(q)
  BY <1>2, <1>3 DEF Sane, OpsOf, TrtOps
<1>5. PICK x : x = {<<p, a.crop>>}
  OBVIOUS
<1>6. x \in SUBSET (Packets \X Nat)
  BY <1>3, <1>5 DEF DoSet
<1>7. OnTrack(p, Need(Class(c)), OpsOf(Class(c)), 1 .. Ins(Class(c)), WithInput(d, a.index, x), q,
              Tail(s))
  BY <1>3, <1>4, <1>5, TrackCopied DEF EnqueuesOnly
<1>8. /\ inTensor' = [inTensor EXCEPT ![c][a.index] = x]
      /\ UNCHANGED <<app, io, outTensor, hostOut, stream, result>>
  BY <1>2, <1>5 DEF CopyIn, Tag, NodeCall
<1>9. inTensor = [y \in Contexts |-> inTensor[y]] /\ Shaped
  BY DEF FlowInv, Shaped
<1>10. inTensor'[c] = [inTensor[c] EXCEPT ![a.index] = x]
       /\ (\A y \in Contexts : y # c => inTensor'[y] = inTensor[y])
       /\ inTensor' = [y \in Contexts |-> inTensor'[y]]
  BY <1>3, <1>8, <1>9
<1>11. Contexts' = Contexts
  BY <1>8, ClassFixed
<1>12. Shaped' /\ Right'
  BY <1>8, <1>9, <1>10, <1>11 DEF Shaped, Right, FlowInv
<1>13. Holds(c)' = WithInput(d, a.index, x) /\ stream'[c] = q
  BY <1>2, <1>8, <1>10 DEF Holds, WithInput
<1>14. \A y \in Contexts : y # c => Still(y)
  BY <1>8, <1>10 DEF Still
<1>15. WithInput(d, a.index, x) \in Devs
  BY <1>4, <1>6, WithInputIn
<1>16. PICK e, r : e = WithInput(d, a.index, x) /\ r = Tail(s)
  OBVIOUS
<1>17. OnTrack(p, Need(Class(c)), OpsOf(Class(c)), 1 .. Ins(Class(c)), e, q, r)
  BY <1>7, <1>16
<1>18. Holds(c)' \in Devs /\ stream'[c] \in Seq(Items)
  BY <1>4, <1>13, <1>15
<1>19. Holds(c)' = e /\ stream'[c] = q
  BY <1>13, <1>16
<1>20. OnTrack(p, Need(Class(c)), OpsOf(Class(c)), 1 .. Ins(Class(c)), Holds(c)', stream'[c], r)
  BY <1>17, <1>19
<1>21. p = work[t].packet /\ c = work[t].context /\ r = Tail(work[t].calls)
  BY <1>2, <1>16
<1>22. EnqueuesOnly(stream'[c])
  BY <1>4, <1>13
<1> QED BY <1>12, <1>14, <1>18, <1>20, <1>21, <1>22, CallMoves

(* Work for the stream. *)
LEMMA EnqueueFlow ==
  ASSUME Core, AtWork, FlowInv, NEW t \in Workers, NodeCall(t), Enqueue(t)
  PROVE  FlowInv'
<1>1. Busy(t)
  BY DEF NodeCall
<1>2. PICK p, c, s, a, d, q : /\ p = work[t].packet /\ c = work[t].context /\ s = work[t].calls
                             /\ a = NextCall(t) /\ d = Holds(c) /\ q = stream[c]
  OBVIOUS
<1>3. /\ s \in Seq(DoSet) /\ s # << >> /\ a \in DoSet /\ a = Head(s) /\ p \in Packets
      /\ OnTrack(p, Need(Class(c)), OpsOf(Class(c)), 1 .. Ins(Class(c)), d, q, s)
      /\ Sane(c) /\ c \in Contexts /\ 1 .. Ins(Class(c)) \in SUBSET (1 .. MaxIO)
      /\ 1 .. Ins(Class(c)) # {} /\ a.op \in OpsOf(Class(c))
  BY <1>1, <1>2, CallerFacts DEF WillRead, NextCall
<1>4. d \in Devs /\ q \in Seq(Items) /\ (IsAcl(Class(c)) => EnqueuesOnly(q))
  BY <1>2, <1>3 DEF Sane
<1>5. PICK o : o = [op |-> a.op, index |-> a.index,
                    contents |-> IF a.op = "queueIn" THEN {<<p, a.crop>>} ELSE {}]
  OBVIOUS
<1>6. o.op = a.op /\ o.index = a.index /\ (a.op = "queueIn" => o.contents = {<<p, a.crop>>})
  BY <1>5
<1>7. a.op \in Queueing /\ (a.op = "enqueue" => Runs(Class(c)))
  BY <1>2 DEF Enqueue, Queueing
<1>8. o \in Items
  BY <1>3, <1>5, <1>7 DEF Items, DoSet
<1>9. a.op = "enqueue" => 1 .. Ins(Class(c)) = Need(Class(c))
  BY <1>7 DEF Need
<1>10. OnTrack(p, Need(Class(c)), OpsOf(Class(c)), 1 .. Ins(Class(c)), d, Append(q, o), Tail(s))
  BY <1>3, <1>4, <1>6, <1>7, <1>8, <1>9, TrackQueued
<1>11. /\ stream' = [stream EXCEPT ![c] = Append(q, o)]
       /\ UNCHANGED <<app, io, inTensor, outTensor, hostOut, result>>
  BY <1>2, <1>5 DEF Enqueue, Tag, NodeCall
<1>12. stream = [y \in Contexts |-> stream[y]] /\ Shaped
  BY DEF FlowInv, Shaped
<1>13. stream'[c] = Append(q, o)
       /\ (\A y \in Contexts : y # c => stream'[y] = stream[y])
       /\ stream' = [y \in Contexts |-> stream'[y]]
  BY <1>3, <1>11, <1>12
<1>14. Contexts' = Contexts
  BY <1>11, ClassFixed
<1>15. Shaped' /\ Right'
  BY <1>11, <1>12, <1>13, <1>14 DEF Shaped, Right, FlowInv
<1>16. Holds(c)' = d
  BY <1>2, <1>11 DEF Holds
<1>17. \A y \in Contexts : y # c => Still(y)
  BY <1>11, <1>13 DEF Still
<1>18. Append(q, o) \in Seq(Items)
  BY <1>4, <1>8
<1>19. IsAcl(Class(c)) => EnqueuesOnly(Append(q, o))
  <2> SUFFICES ASSUME IsAcl(Class(c)), NEW n \in DOMAIN Append(q, o)
               PROVE  Append(q, o)[n].op = "enqueue"
    BY DEF EnqueuesOnly
  <2>1. a.op = "enqueue"
    BY <1>3, <1>7 DEF OpsOf, AclOps, Queueing
  <2>2. n \in DOMAIN q \/ n = Len(q) + 1
    BY <1>4, <1>8
  <2>3. CASE n \in DOMAIN q
    <3>1. Append(q, o)[n] = q[n]
      BY <1>4, <1>8, <2>3
    <3> QED BY <1>4, <2>3, <3>1 DEF EnqueuesOnly
  <2>4. CASE n = Len(q) + 1
    <3>1. Append(q, o)[n] = o
      BY <1>4, <1>8, <2>4
    <3> QED BY <1>6, <2>1, <3>1
  <2> QED BY <2>2, <2>3, <2>4
<1>20. PICK r : r = Tail(s)
  OBVIOUS
<1>21. OnTrack(p, Need(Class(c)), OpsOf(Class(c)), 1 .. Ins(Class(c)), Holds(c)', stream'[c], r)
  BY <1>10, <1>13, <1>16, <1>20
<1>22. Holds(c)' \in Devs /\ stream'[c] \in Seq(Items)
  BY <1>4, <1>13, <1>16, <1>18
<1>23. p = work[t].packet /\ c = work[t].context /\ r = Tail(work[t].calls)
  BY <1>2, <1>20
<1>24. IsAcl(Class(c)) => EnqueuesOnly(stream'[c])
  BY <1>13, <1>19
<1> QED BY <1>15, <1>17, <1>21, <1>22, <1>23, <1>24, CallMoves

(* A result recorded. *)
LEMMA OutFlow ==
  ASSUME Core, AtWork, FlowInv, NEW t \in Workers, NodeCall(t), CopyOut(t)
  PROVE  FlowInv'
<1>1. Busy(t)
  BY DEF NodeCall
<1>2. PICK p, c, s, a, d, q : /\ p = work[t].packet /\ c = work[t].context /\ s = work[t].calls
                             /\ a = NextCall(t) /\ d = Holds(c) /\ q = stream[c]
  OBVIOUS
<1>3. /\ s \in Seq(DoSet) /\ s # << >> /\ a \in DoSet /\ a = Head(s) /\ p \in Packets
      /\ OnTrack(p, Need(Class(c)), OpsOf(Class(c)), 1 .. Ins(Class(c)), d, q, s)
      /\ Sane(c)
  BY <1>1, <1>2, CallerFacts DEF WillRead, NextCall
<1>4. d \in Devs /\ d.out = outTensor[c] /\ d.host = hostOut[c]
  BY <1>2, <1>3 DEF Sane, Holds
<1>5. a.op \in {"copyOut", "copyHost", "waitOut"} /\ (a.op = "waitOut" => q = << >>)
  BY <1>2 DEF CopyOut
<1>6. /\ a.op \in {"copyOut", "waitOut"} => d.out[a.index] = {{<<p, a.crop>>}}
      /\ a.op = "copyHost" => d.host[a.index] = {{<<p, a.crop>>}}
  <2>1. /\ a.op \in {"bind", "synchronize", "copyOut", "copyHost", "waitOut"}
        /\ a.op \in {"synchronize", "waitOut"} => q = << >>
    BY <1>5
  <2>2. d \in Devs /\ s \in Seq(DoSet) /\ s # << >> /\ a \in DoSet /\ a = Head(s)
    BY <1>3, <1>4
  <2>3. OnTrack(p, Need(Class(c)), OpsOf(Class(c)), 1 .. Ins(Class(c)), d, q, s)
    BY <1>3
  <2> QED BY <2>1, <2>2, <2>3, TrackPlain, SMTT(60)
<1>7. PICK x : x = {{<<p, a.crop>>}}
  OBVIOUS
<1>8. Record(t, x)
  <2>1. /\ a.op \in {"copyOut", "waitOut"} => outTensor[c][a.index] = x
        /\ a.op = "copyHost" => hostOut[c][a.index] = x
    BY <1>4, <1>6, <1>7
  <2> QED BY <1>2, <2>1 DEF CopyOut
<1>9. UNCHANGED <<app, io, inTensor, outTensor, hostOut, stream>>
  BY DEF CopyOut, NodeCall
<1>10. Right' /\ result' = [y \in Packets |-> result'[y]]
  BY <1>2, <1>3, <1>7, <1>8, Recorded DEF FlowInv
<1>11. Shaped'
  BY <1>9, <1>10, ClassFixed DEF Shaped, FlowInv
<1> QED BY <1>2, <1>5, <1>9, <1>10, <1>11, PlainFlow

(* Every call of a node. *)
LEMMA CallFlow ==
  ASSUME Core, AtWork, FlowInv, NEW t \in Workers, NodeCall(t)
  PROVE  FlowInv'
<1>1. CASE BindThread(t) \/ Synchronize(t)
  <2>1. UNCHANGED <<app, io, inTensor, outTensor, hostOut, stream, result>>
    BY <1>1 DEF BindThread, Synchronize, NodeCall
  <2>2. Shaped' /\ Right'
    BY <2>1, ClassFixed DEF FlowInv, Shaped, Right
  <2>3. NextCall(t).op \in {"bind", "synchronize"}
        /\ (NextCall(t).op = "synchronize" => stream[work[t].context] = << >>)
    BY <1>1 DEF BindThread, Synchronize
  <2> QED BY <2>1, <2>2, <2>3, PlainFlow
<1>2. CASE CopyIn(t)
  BY <1>2, CopyFlow
<1>3. CASE Enqueue(t)
  BY <1>3, EnqueueFlow
<1>4. CASE CopyOut(t)
  BY <1>4, OutFlow
<1> QED BY <1>1, <1>2, <1>3, <1>4 DEF NodeCall

(* The device executes the first operation of a stream. *)
LEMMA DeviceFlow ==
  ASSUME Core, FlowInv, NEW c \in Contexts, DeviceStep(c)
  PROVE  FlowInv'
<1>1. PICK d, q, I : d = Holds(c) /\ q = stream[c] /\ I = 1 .. Ins(Class(c))
  OBVIOUS
<1>2. Sane(c) /\ Shaped /\ Contexts' = Contexts /\ UNCHANGED <<app, io, work, result>>
  BY ClassFixed DEF FlowInv, DeviceStep, lifeVars
<1>3. d \in Devs /\ q \in Seq(Items) /\ q # << >> /\ (IsAcl(Class(c)) => EnqueuesOnly(q))
  BY <1>1, <1>2 DEF Sane, DeviceStep
<1>4. Ins(Class(c)) \in 1 .. MaxIO
  BY ClassFacts DEF Core, Types, Chosen, Owners
<1>5. I \in SUBSET (1 .. MaxIO)
  BY <1>1, <1>4, ContextsAssumption
<1>6. PICK o : o = Head(q)
  OBVIOUS
<1>7. o \in Items /\ Tail(q) \in Seq(Items)
  BY <1>3, <1>6
<1>8. PICK x, y, z : x = inTensor[c] /\ y = outTensor[c] /\ z = hostOut[c]
  OBVIOUS
<1>9. d.in = x /\ d.out = y /\ d.host = z
  BY <1>1, <1>8 DEF Holds
<1>10. /\ inTensor' = IF o.op = "queueIn" THEN [inTensor EXCEPT ![c][o.index] = o.contents] ELSE inTensor
       /\ outTensor' = IF o.op = "enqueue"
            THEN [outTensor EXCEPT ![c] = [k \in 1 .. MaxIO |-> {x[i] : i \in I}]] ELSE outTensor
       /\ hostOut' = IF o.op = "queueOut" THEN [hostOut EXCEPT ![c][o.index] = y[o.index]] ELSE hostOut
       /\ stream' = [stream EXCEPT ![c] = Tail(q)]
  BY <1>1, <1>6, <1>8 DEF DeviceStep
<1>11. /\ inTensor = [b \in Contexts |-> inTensor[b]] /\ outTensor = [b \in Contexts |-> outTensor[b]]
       /\ hostOut = [b \in Contexts |-> hostOut[b]] /\ stream = [b \in Contexts |-> stream[b]]
  BY <1>2 DEF Shaped
<1>12. /\ inTensor'[c] = IF o.op = "queueIn" THEN [x EXCEPT ![o.index] = o.contents] ELSE x
       /\ \A b \in Contexts : b # c => inTensor'[b] = inTensor[b]
       /\ inTensor' = [b \in Contexts |-> inTensor'[b]]
  BY <1>8, <1>10, <1>11
<1>13. /\ outTensor'[c] = IF o.op = "enqueue" THEN [k \in 1 .. MaxIO |-> {x[i] : i \in I}] ELSE y
       /\ \A b \in Contexts : b # c => outTensor'[b] = outTensor[b]
       /\ outTensor' = [b \in Contexts |-> outTensor'[b]]
  BY <1>8, <1>10, <1>11
<1>14. /\ hostOut'[c] = IF o.op = "queueOut" THEN [z EXCEPT ![o.index] = y[o.index]] ELSE z
       /\ \A b \in Contexts : b # c => hostOut'[b] = hostOut[b]
       /\ hostOut' = [b \in Contexts |-> hostOut'[b]]
  BY <1>8, <1>10, <1>11
<1>15. /\ stream'[c] = Tail(q)
       /\ \A b \in Contexts : b # c => stream'[b] = stream[b]
       /\ stream' = [b \in Contexts |-> stream'[b]]
  BY <1>10, <1>11
<1>16. Holds(c)' = After(I, o, d)
  BY <1>9, <1>12, <1>13, <1>14 DEF Holds, After
<1>17. After(I, o, d) \in Devs
  BY <1>3, <1>5, <1>7, AfterIn
<1>18. IsAcl(Class(c)) => EnqueuesOnly(Tail(q))
  <2> SUFFICES ASSUME IsAcl(Class(c)), NEW n \in DOMAIN Tail(q)
               PROVE  Tail(q)[n].op = "enqueue"
    BY DEF EnqueuesOnly
  <2>1. n + 1 \in DOMAIN q /\ Tail(q)[n] = q[n + 1]
    BY <1>3
  <2> QED BY <1>3, <2>1 DEF EnqueuesOnly
<1>19. Class(c)' = Class(c)
  BY <1>2, ClassFixed
<1>20. Sane(c)'
  BY <1>7, <1>15, <1>16, <1>17, <1>18, <1>19 DEF Sane
<1>21. \A b \in Contexts : b # c => Still(b)
  BY <1>12, <1>13, <1>14, <1>15 DEF Still
<1>22. ASSUME NEW b \in Contexts PROVE Sane(b)'
  BY <1>2, <1>20, <1>21, SaneStays DEF FlowInv
<1>23. ASSUME NEW t \in Workers PROVE OnItsWay(t)'
  <2>1. OnItsWay(t) /\ work'[t] = work[t]
    BY <1>2 DEF FlowInv
  <2>2. CASE work[t].packet = "-" \/ work[t].context # c
    <3>1. work[t].packet # "-" => Still(work[t].context)
      BY <1>21, <2>1, <2>2 DEF OnItsWay
    <3> QED BY <1>2, <2>1, <3>1, OnItsWayStays
  <2>3. CASE work[t].packet # "-" /\ work[t].context = c
    <3>1. PICK p, s : p = work[t].packet /\ s = work[t].calls
      OBVIOUS
    <3>2. p \in Packets /\ s \in Seq(DoSet)
          /\ OnTrack(p, Need(Class(c)), OpsOf(Class(c)), I, d, q, s)
      BY <1>1, <2>1, <2>3, <3>1 DEF OnItsWay, WillRead
    <3>3. OnTrack(p, Need(Class(c)), OpsOf(Class(c)), I, After(I, o, d), Tail(q), s)
      BY <1>3, <1>6, <3>2, TrackExecuted
    <3>4. OnTrack(p, Need(Class(c)), OpsOf(Class(c)), I, Holds(c)', stream'[c], s)
      BY <1>15, <1>16, <3>3
    <3>5. WillRead(p, c, s)'
      BY <1>1, <1>2, <3>4, ClassFixed DEF WillRead
    <3>6. p = work'[t].packet /\ c = work'[t].context /\ s = work'[t].calls
      BY <2>1, <2>3, <3>1
    <3> QED BY <1>2, <3>2, <3>5, <3>6 DEF OnItsWay
  <2> QED BY <2>2, <2>3
<1>24. Shaped'
  BY <1>2, <1>12, <1>13, <1>14, <1>15 DEF Shaped
<1>25. Apart' /\ Right'
  BY <1>2 DEF FlowInv, Apart, Right
<1> QED BY <1>2, <1>22, <1>23, <1>24, <1>25 DEF FlowInv

(* A worker is given a packet and a context, or is done with them. *)
LEMMA WorkFlow ==
  ASSUME FlowInv, AtWork, UNCHANGED <<app, io, inTensor, outTensor, hostOut, stream, result>>,
         NEW t \in Workers, NEW w, work' = [work EXCEPT ![t] = w],
         OnItsWay(t)',
         w.packet = "-" \/ \A u \in Workers : work[u].context # w.context
  PROVE  FlowInv'
<1>1. work = [u \in Workers |-> [packet |-> work[u].packet, context |-> work[u].context,
          calls |-> work[u].calls]]
  BY DEF AtWork
<1>2. work'[t] = w /\ \A u \in Workers : u # t => work'[u] = work[u]
  BY <1>1
<1>3. Contexts' = Contexts
  BY ClassFixed
<1>4. ASSUME NEW c \in Contexts PROVE Sane(c)'
  BY SaneStays DEF FlowInv, Still
<1>5. ASSUME NEW u \in Workers PROVE OnItsWay(u)'
  <2>1. CASE u = t
    BY <2>1
  <2>2. CASE u # t
    BY <1>2, <2>2, OnItsWayStays DEF FlowInv, Still
  <2> QED BY <2>1, <2>2
<1>6. Apart'
  <2> SUFFICES ASSUME NEW u \in Workers, NEW v \in Workers, u # v, work'[u].packet # "-",
                      work'[v].packet # "-"
               PROVE  work'[u].context # work'[v].context
    BY DEF Apart
  <2>1. CASE u # t /\ v # t
    BY <1>2, <2>1 DEF FlowInv, Apart
  <2>2. CASE u = t
    BY <1>2, <2>2
  <2>3. CASE v = t
    BY <1>2, <2>3
  <2> QED BY <2>1, <2>2, <2>3
<1>7. Shaped' /\ Right'
  BY <1>3 DEF FlowInv, Shaped, Right
<1> QED BY <1>3, <1>4, <1>5, <1>6, <1>7 DEF FlowInv

(* The scheduler starts a node. *)
LEMMA StartFlow ==
  ASSUME Core, Counted, AtWork, FlowInv, NEW t \in Workers, NEW p \in Packets, NEW c \in Contexts,
         StartNode(t, p, c)
  PROVE  FlowInv'
<1>1. PICK s : s = NodeProgram(Class(c))
  OBVIOUS
<1>2. PICK w : w = [packet |-> p, context |-> c, calls |-> s]
  OBVIOUS
<1>3. /\ phase = "run" /\ work' = [work EXCEPT ![t] = w]
      /\ \A u \in Workers : work[u].context # c
      /\ UNCHANGED <<app, io, inTensor, outTensor, hostOut, stream, result>>
  BY <1>1, <1>2 DEF StartNode, lifeVars
<1>4. Class(c) = "FusionTrt" => Ins("FusionTrt") = 2
  BY <1>3, CountedRuns
<1>5. Chosen /\ c \in Owners
  BY DEF Core, Types, Chosen, Owners
<1>6. s \in Good(Need(Class(c)), OpsOf(Class(c)))
  BY <1>1, <1>4, <1>5, NodeGood
<1>7. Ins(Class(c)) \in 1 .. MaxIO
  BY <1>5, ClassFacts
<1>8. 1 .. Ins(Class(c)) \in SUBSET (1 .. MaxIO)
  BY <1>7, ContextsAssumption
<1>9. Holds(c) \in Devs /\ stream[c] \in Seq(Items)
  BY DEF FlowInv, Sane
<1>10. WillRead(p, c, s)
  BY <1>6, <1>8, <1>9, TrackStart DEF WillRead
<1>11. WillRead(p, c, s)'
  BY <1>3, <1>10, ClassFixed DEF WillRead, Holds
<1>12. work'[t] = w
  <2>1. work = [u \in Workers |-> [packet |-> work[u].packet, context |-> work[u].context,
          calls |-> work[u].calls]]
    BY DEF AtWork
  <2> QED BY <1>3, <2>1
<1>13. w.packet = p /\ w.context = c /\ w.calls = s
  BY <1>2
<1>14. s \in Seq(DoSet) /\ Contexts' = Contexts
  BY <1>3, <1>6, ClassFixed DEF Good
<1>15. OnItsWay(t)'
  BY <1>11, <1>12, <1>13, <1>14 DEF OnItsWay
<1> QED BY <1>3, <1>13, <1>15, WorkFlow

(* A node returns, having succeeded or failed: what it has queued stays. *)
LEMMA ReturnFlow ==
  ASSUME AtWork, FlowInv, NEW t \in Workers, NEW verdict, Return(t, verdict)
  PROVE  FlowInv'
<1>1. PICK w : w = Idle
  OBVIOUS
<1>2. /\ work' = [work EXCEPT ![t] = w] /\ w.packet = "-"
      /\ UNCHANGED <<app, io, inTensor, outTensor, hostOut, stream, result>>
  BY <1>1 DEF Return, lifeVars, Idle
<1>3. work'[t] = w
  <2>1. work = [u \in Workers |-> [packet |-> work[u].packet, context |-> work[u].context,
          calls |-> work[u].calls]]
    BY DEF AtWork
  <2> QED BY <1>2, <2>1
<1>4. OnItsWay(t)'
  BY <1>2, <1>3 DEF OnItsWay
<1> QED BY <1>2, <1>4, WorkFlow

(* Nothing of the flow changes. *)
LEMMA FlowUnmoved ==
  ASSUME FlowInv, UNCHANGED <<app, io, flowVars>>
  PROVE  FlowInv'
<1>1. UNCHANGED <<work, inTensor, outTensor, hostOut, stream, result>>
  BY DEF flowVars
<1>2. Contexts' = Contexts
  BY ClassFixed
<1>3. ASSUME NEW c \in Contexts PROVE Sane(c)'
  BY <1>1, SaneStays DEF FlowInv, Still
<1>4. ASSUME NEW t \in Workers PROVE OnItsWay(t)'
  BY <1>1, OnItsWayStays DEF FlowInv, Still
<1> QED BY <1>1, <1>2, <1>3, <1>4 DEF FlowInv, Shaped, Apart, Right

(* Every step of the system. *)
LEMMA FlowKept ==
  ASSUME Core, AtWork, Counted, FlowInv, [Next]_vars
  PROVE  FlowInv'
<1>1. CASE Main
  <2>1. UNCHANGED <<app, io, flowVars>>
    BY <1>1 DEF Main, LifeNext, Call, Throw, Constructed, Unwind, Destruct, Gone
  <2> QED BY <2>1, FlowUnmoved
<1>2. ASSUME NEW t \in Workers, NodeCall(t) PROVE FlowInv'
  BY <1>2, CallFlow
<1>3. ASSUME NEW t \in Workers, NodeReturns(t) \/ NodeFails(t) PROVE FlowInv'
  BY <1>3, ReturnFlow DEF NodeReturns, NodeFails
<1>4. ASSUME NEW t \in Workers, NEW p \in Packets, NEW c \in Contexts, StartNode(t, p, c)
      PROVE  FlowInv'
  BY <1>4, StartFlow
<1>5. CASE \E c \in Contexts : DeviceStep(c)
  BY <1>5, DeviceFlow
<1>6. CASE ShutDown \/ Done \/ UNCHANGED vars
  <2>1. UNCHANGED <<app, io, flowVars>>
    BY <1>6 DEF ShutDown, Done, vars, lifeVars
  <2> QED BY <2>1, FlowUnmoved
<1> QED
  BY <1>1, <1>2, <1>3, <1>4, <1>5, <1>6 DEF Next

(* At first the devices hold nothing and nobody is at work. *)
LEMMA InitFlow ==
  ASSUME FlowInit
  PROVE  FlowInv
<1>1. Shaped
  BY DEF FlowInit, Shaped
<1>2. \A t \in Workers : work[t].packet = "-"
  BY DEF FlowInit, Idle
<1>3. Right
  BY DEF FlowInit, Right
<1>4. ASSUME NEW c \in Contexts PROVE Sane(c)
  <2>1. PICK e : e = [i \in 1 .. MaxIO |-> {}]
    OBVIOUS
  <2>2. e \in InT /\ e \in OutT
    BY <2>1 DEF InT, OutT
  <2>3. inTensor[c] = e /\ outTensor[c] = e /\ hostOut[c] = e /\ stream[c] = << >>
    BY <2>1 DEF FlowInit
  <2>4. Holds(c) \in Devs
    BY <2>2, <2>3 DEF Holds, Devs
  <2>5. << >> \in Seq(Items) /\ EnqueuesOnly(<< >>)
    BY DEF EnqueuesOnly
  <2> QED BY <2>3, <2>4, <2>5 DEF Sane
<1> QED BY <1>1, <1>2, <1>3, <1>4 DEF FlowInv, Apart, OnItsWay

------------------------------------------------------------------------------
(* The inductive invariant. *)
IInv == EnvInv /\ Core /\ AtWork /\ Counted /\ FlowInv

(* It is inductive. *)
LEMMA IInvHolds == Spec => []IInv
<1>1. Init => IInv
  BY InitEnvInv, InitKeeps, InitCounted, InitFlow DEF IInv, Init
<1>2. IInv /\ [Next]_vars => IInv'
  <2> SUFFICES ASSUME EnvInv, Core, AtWork, Counted, FlowInv, [Next]_vars
               PROVE  EnvInv' /\ Core' /\ AtWork' /\ Counted' /\ FlowInv'
    BY DEF IInv
  <2>1. standing \subseteq Owners
    BY DEF Core, Types
  <2> QED
    BY <2>1, StepCounts, StepKeeps, CountedKept, FlowKept
<1> QED
  BY <1>1, <1>2, PTL DEF Spec

(* The environment's counts are exact through construction, failure and
   destruction of any number of contexts: the runtime is initialised and the
   device set exactly while some context holds the environment
   (AclEnvironment::acquire and release). *)
THEOREM EnvironmentCorrect == Spec => []EnvCounted
<1>1. IInv => EnvCounted
  BY DEF IInv, EnvInv
<1> QED
  BY <1>1, IInvHolds, PTL

(* Nothing outlives what it was made from: not the objects of a context the
   context, not a context the environment, not an execution context its engine or
   stream, although any call of any constructor may fail and the contexts are
   destroyed in any order. *)
THEOREM NothingDangles == Spec => []NoDangling
<1>1. IInv => NoDangling
  <2> SUFFICES ASSUME EnvInv, Core PROVE NoDangling
    BY DEF IInv
  <2>1. ASSUME NEW x \in Owners, env \in held[x] PROVE up /\ Device \in devices
    <3>1. x \in Holders /\ IsFiniteSet(Holders)
      BY <2>1 DEF Holders, EnvInv
    <3>2. PICK n \in Nat : n = Cardinality(Holders) /\ n # 0
      BY <3>1, FS_CardinalityType, FS_EmptySet
    <3>3. gRefCount > 0
      BY <3>2 DEF EnvInv, EnvCounted
    <3>4. up
      BY <3>3, Zenon DEF EnvInv, EnvCounted
    <3> QED
      BY <3>4 DEF EnvInv, EnvCounted
  <2> QED
    BY <2>1, NeedsHeld DEF NoDangling
<1> QED
  BY <1>1, IInvHolds, PTL

(* When main is done every object has been released, but for what a constructor
   that threw leaves: the five objects of an Ascend context's init, or one device
   buffer of an Orin context. *)
THEOREM CleanUpCorrect == Spec => []CleanedUp
<1>1. IInv => CleanedUp
  BY CoreCleanedUp DEF IInv
<1> QED
  BY <1>1, IInvHolds, PTL

(* No call is made while its thread addresses another context or device, neither
   on the main thread nor on a worker that has just been given another context. *)
THEOREM OwnContextAddressed == Spec => []OwnContext
<1>1. IInv => OwnContext
  BY CoreOwnContext DEF IInv
<1> QED
  BY <1>1, IInvHolds, PTL

(* Every field of a packet that did not fail is the output computed from that
   packet's own tensors, for the crop it stands for: nobody else's packet is in
   the device's tensors when it reads them, not even on a context where an earlier
   packet failed half-way and left its copies and executions on the stream. *)
THEOREM ResultsAreOwn == Spec => []OwnResult
<1>1. IInv => OwnResult
  BY DEF IInv, FlowInv, Right, OwnResult
<1> QED
  BY <1>1, IInvHolds, PTL
=============================================================================
