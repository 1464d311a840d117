----------------------------- MODULE Inference ------------------------------
(* The inference nodes at work on the contexts of Contexts: a worker copies the
   packet's tensors in, starts the model, waits and copies the results out,
   while the device runs the context's stream behind it.  Every driver call may
   fail; the node then marks the packet failed, the context goes back to the
   pool, and what was already queued on its stream stays there.

   An input tensor holds {<<packet, crop>>}, an output tensor the set of the
   contents of the inputs it was computed from. *)
EXTENDS Contexts

CONSTANTS
  Packets,   \* the packets whose inference is followed
  Crops      \* crops per packet in the re-identification nodes

ASSUME InferenceAssumption == Crops \in Nat \ {0} /\ "-" \notin Packets

VARIABLES
  work,      \* per worker: the packet, the context and the calls left
  inTensor,  \* per context: what each device input holds
  outTensor, \* per context: what each device output holds
  hostOut,   \* per context: what each pinned host output holds (Orin)
  stream,    \* per context: the operations queued and not yet executed
  result,    \* per packet: what its fields hold
  status     \* per packet: "new", "busy", "ok" or "failed"

flowVars == <<work, inTensor, outTensor, hostOut, stream, result, status>>
vars == <<lifeVars, envVars, flowVars>>

------------------------------------------------------------------------------
(* A call of a node: the operation, the tensor index and the crop. *)
Do(op, index, crop) == [op |-> op, index |-> index, crop |-> crop]
Fields(class) == (1 .. Crops) \X (1 .. Outs(class))

(* Ascend: aclrtMemcpy is synchronous and outside the stream; each of the three
   methods addresses its context first. *)
MutantCopyInputsToStage(class, crop) ==
  [i \in 1 .. Ins(class) |-> Do("copyIn", i, crop)]

CopyInputsToStage(class, crop) ==
  <<Do("bind", 0, crop)>> \o [i \in 1 .. Ins(class) |-> Do("copyIn", i, crop)]

MutantExecuteStage(class, crop) == <<Do("bind", 0, crop), Do("enqueue", 0, crop)>>
ExecuteStage(class, crop) ==
  <<Do("bind", 0, crop), Do("enqueue", 0, crop), Do("synchronize", 0, crop)>>

CopyOutputsFromStage(class, crop) ==
  <<Do("bind", 0, crop)>> \o [o \in 1 .. Outs(class) |-> Do("copyOut", o, crop)]

DetectionCopyInputs(crop)  == CopyInputsToStage("DetectionAcl", crop)
DetectionExecuteStage(crop) == ExecuteStage("DetectionAcl", crop)
DetectionCopyOutputs(crop) == CopyOutputsFromStage("DetectionAcl", crop)
ReidCopyInputs(crop)   == CopyInputsToStage("ReidAcl", crop)
ReidExecuteStage(crop) == ExecuteStage("ReidAcl", crop)
ReidCopyOutputs(crop)  == CopyOutputsFromStage("ReidAcl", crop)
FusionCopyInputs(crop)   == CopyInputsToStage("FusionAcl", crop)
FusionExecuteStage(crop) == ExecuteStage("FusionAcl", crop)
FusionCopyOutputs(crop)  == CopyOutputsFromStage("FusionAcl", crop)

(* Orin: cudaMemcpyAsync takes the packet's pageable input when it is called;
   the copy back goes to a pinned host buffer when the stream gets there, and
   the packet's field is copied from that buffer after the wait. *)
CopyToDevice(crop) == <<Do("queueIn", 1, crop)>>
ExecuteModel(crop) == <<Do("enqueue", 0, crop)>>
CopyToHost(class, crop) ==
  [o \in 1 .. Outs(class) |-> Do("queueOut", o, crop)] \o <<Do("synchronize", 0, crop)>>
CopyToPacket(class, crop) == [o \in 1 .. Outs(class) |-> Do("copyHost", o, crop)]

DetectionCopyToDevice(crop) == CopyToDevice(crop)
DetectionExecuteModel(crop) == ExecuteModel(crop)
DetectionCopyToHost(crop)   == CopyToHost("DetectionTrt", crop)
ReidCopyToDevice(crop) == CopyToDevice(crop)
ReidExecute(crop)      == ExecuteModel(crop)
ReidCopyToHost(crop) ==
  <<Do("queueOut", 1, crop), Do("synchronize", 0, crop), Do("copyHost", 1, crop)>>

(* Fusion on Orin: two inputs, and a copy back to the packet's own pageable
   memory, which returns only when the stream has executed it. *)
FusionCopyInput(i, crop) == <<Do("queueIn", i, crop)>>
FusionExecute(crop)      == ExecuteModel(crop)
FusionCopyOutput(crop)   == <<Do("waitOut", 1, crop), Do("synchronize", 0, crop)>>

BindCurrentThread == <<Do("bind", 0, 1)>>
EachCrop(Steps(_)) == FlattenSeq([k \in 1 .. Crops |-> Steps(k)])

(* What the inference node of a class does with a packet. *)
NodeProgram(class) ==
  CASE class = "YoloxAcl" ->
         CopyInputsToStage(class, 1) \o ExecuteStage(class, 1) \o CopyOutputsFromStage(class, 1)
    [] class = "DetectionAcl" ->
         DetectionCopyInputs(1) \o DetectionExecuteStage(1) \o DetectionCopyOutputs(1)
    [] class = "ReidAcl" ->
         EachCrop(LAMBDA k : ReidCopyInputs(k) \o ReidExecuteStage(k) \o ReidCopyOutputs(k))
    [] class = "FusionAcl" ->
         FusionCopyInputs(1) \o FusionExecuteStage(1) \o FusionCopyOutputs(1)
    [] class = "YoloxTrt" ->
         BindCurrentThread \o CopyToDevice(1) \o ExecuteModel(1)
         \o CopyToHost(class, 1) \o CopyToPacket(class, 1)
    [] class = "DetectionTrt" ->
         BindCurrentThread \o DetectionCopyToDevice(1) \o DetectionExecuteModel(1)
         \o DetectionCopyToHost(1) \o CopyToPacket(class, 1)
    [] class = "ReidTrt" ->
         BindCurrentThread
         \o EachCrop(LAMBDA k : ReidCopyToDevice(k) \o ReidExecute(k) \o ReidCopyToHost(k))
    [] class = "FusionTrt" ->
         BindCurrentThread \o FusionCopyInput(1, 1) \o FusionCopyInput(2, 1)
         \o FusionExecute(1) \o FusionCopyOutput(1)

(* The engines of the single-input Orin classes run only when every binding has
   a buffer: one input, and for re-identification one output. *)
Runs(class) ==
  CASE class \in {"YoloxTrt", "DetectionTrt"} -> Ins(class) = 1
    [] class = "ReidTrt" -> Ins(class) = 1 /\ Outs(class) = 1
    [] OTHER -> TRUE

------------------------------------------------------------------------------
Idle == [packet |-> "-", context |-> None, calls |-> << >>]

FlowInit ==
  /\ work = [t \in Workers |-> Idle]
  /\ inTensor  = [c \in Contexts |-> [i \in 1 .. MaxIO |-> {}]]
  /\ outTensor = [c \in Contexts |-> [o \in 1 .. MaxIO |-> {}]]
  /\ hostOut   = [c \in Contexts |-> [o \in 1 .. MaxIO |-> {}]]
  /\ stream = [c \in Contexts |-> << >>]
  /\ result = [p \in Packets |-> << >>]
  /\ status = [p \in Packets |-> "new"]

(* The scheduler hands a worker a packet and a context nobody else has. *)
StartNode(t, p, c) ==
  /\ phase = "run" /\ work[t].packet = "-" /\ status[p] = "new"
  /\ \A u \in Workers : work[u].context # c
  /\ work' = [work EXCEPT ![t] = [packet |-> p, context |-> c, calls |-> NodeProgram(Class(c))]]
  /\ status' = [status EXCEPT ![p] = "busy"]
  /\ UNCHANGED <<lifeVars, envVars, inTensor, outTensor, hostOut, stream, result>>

Busy(t) == work[t].packet # "-" /\ work[t].calls # << >>
NextCall(t) == Head(work[t].calls)
Tag(t) == {<<work[t].packet, NextCall(t).crop>>}
Advance(t) == work' = [work EXCEPT ![t].calls = Tail(@)]
Record(t, contents) ==
  LET p     == work[t].packet
      field == <<NextCall(t).crop, NextCall(t).index>>
  IN  result' = [result EXCEPT ![p] = [f \in {field} \union DOMAIN result[p] |->
                                        IF f = field THEN contents ELSE result[p][f]]]

(* The worker's thread is made to address its context, or its device. *)
BindThread(t) ==
  /\ NextCall(t).op = "bind"
  /\ current' = [current EXCEPT ![t] = Address(work[t].context)]
  /\ UNCHANGED <<inTensor, outTensor, hostOut, stream, result>>

CopyIn(t) ==
  /\ NextCall(t).op = "copyIn"
  /\ inTensor' = [inTensor EXCEPT ![work[t].context][NextCall(t).index] = Tag(t)]
  /\ UNCHANGED <<current, outTensor, hostOut, stream, result>>

(* Work for the stream: an input with its contents, an execution, a copy back. *)
Enqueue(t) ==
  /\ NextCall(t).op \in {"queueIn", "enqueue", "queueOut"}
  /\ NextCall(t).op = "enqueue" => Runs(Class(work[t].context))
  /\ stream' = [stream EXCEPT ![work[t].context] =
                 Append(@, [op |-> NextCall(t).op, index |-> NextCall(t).index,
                            contents |-> IF NextCall(t).op = "queueIn" THEN Tag(t) ELSE {}])]
  /\ UNCHANGED <<current, inTensor, outTensor, hostOut, result>>

Synchronize(t) ==
  /\ NextCall(t).op = "synchronize" /\ stream[work[t].context] = << >>
  /\ UNCHANGED <<current, inTensor, outTensor, hostOut, stream, result>>

CopyOut(t) ==
  LET c == work[t].context  k == NextCall(t).index IN
  /\ \/ NextCall(t).op = "copyOut"  /\ Record(t, outTensor[c][k])
     \/ NextCall(t).op = "copyHost" /\ Record(t, hostOut[c][k])
     \/ NextCall(t).op = "waitOut"  /\ stream[c] = << >> /\ Record(t, outTensor[c][k])
  /\ UNCHANGED <<current, inTensor, outTensor, hostOut, stream>>

NodeCall(t) ==
  /\ Busy(t)
  /\ BindThread(t) \/ CopyIn(t) \/ Enqueue(t) \/ Synchronize(t) \/ CopyOut(t)
  /\ Advance(t)
  /\ UNCHANGED <<app, io, todo, owner, held, owned, standing, thrower, phase, envVars, status>>

Return(t, verdict) ==
  /\ work' = [work EXCEPT ![t] = Idle]
  /\ status' = [status EXCEPT ![work[t].packet] = verdict]
  /\ UNCHANGED <<lifeVars, envVars, inTensor, outTensor, hostOut, stream, result>>

NodeReturns(t) == work[t].packet # "-" /\ work[t].calls = << >> /\ Return(t, "ok")

(* A call reports an error: the packet fails, nothing is undone.  A failed wait
   leaves the stream as it is. *)
NodeFails(t) == Busy(t) /\ NextCall(t).op # "copyHost" /\ Return(t, "failed")

(* The device executes the first operation of a stream. *)
DeviceStep(c) ==
  /\ stream[c] # << >>
  /\ LET o == Head(stream[c]) IN
     /\ inTensor' = IF o.op = "queueIn" THEN [inTensor EXCEPT ![c][o.index] = o.contents] ELSE inTensor
     /\ outTensor' = IF o.op = "enqueue"
          THEN [outTensor EXCEPT ![c] = [k \in 1 .. MaxIO |->
                 {inTensor[c][i] : i \in 1 .. Ins(Class(c))}]] ELSE outTensor
     /\ hostOut' = IF o.op = "queueOut" THEN [hostOut EXCEPT ![c][o.index] = outTensor[c][o.index]] ELSE hostOut
  /\ stream' = [stream EXCEPT ![c] = Tail(@)]
  /\ UNCHANGED <<lifeVars, envVars, work, result, status>>

(* The pipeline has drained: the pool and its contexts are destroyed. *)
ShutDown ==
  /\ phase = "run" /\ \A t \in Workers : work[t] = Idle
  /\ \A p \in Packets : status[p] \in {"ok", "failed"}
  /\ phase' = "down"
  /\ UNCHANGED <<app, io, todo, owner, held, owned, standing, thrower, current, envVars,
                 flowVars>>

(* Releasing a device buffer waits for the work queued on it. *)
Quiet == (todo # << >> /\ Head(todo).op = "free" /\ Head(todo).obj[1] \in {"in", "out"}
          /\ owner \in Contexts) => stream[owner] = << >>

Main == Quiet /\ LifeNext /\ UNCHANGED flowVars

Done == phase = "done" /\ UNCHANGED vars

Next ==
  \/ Main
  \/ \E t \in Workers : NodeCall(t) \/ NodeReturns(t) \/ NodeFails(t)
  \/ \E t \in Workers, p \in Packets, c \in Contexts : StartNode(t, p, c)
  \/ \E c \in Contexts : DeviceStep(c)
  \/ ShutDown
  \/ Done

Init == LifeInit /\ FlowInit

Spec == Init /\ [][Next]_vars

------------------------------------------------------------------------------
(* Lifetime: an object lives only while those it was made from do, on every
   path through construction, failure and destruction: an ACL object needs its
   context, a context the initialised runtime and the set device, an engine its
   runtime, an execution context its engine and, in the fusion application, the
   stream it was made on. *)
Needs(x, o) ==
  IF IsAcl(Class(x))
  THEN CASE o = env -> {}
         [] o = <<"context", 0>> -> {<<x, env>>}
         [] OTHER -> {<<x, <<"context", 0>>>>}
  ELSE CASE o = <<"engine", 0>> -> {<<x, <<"runtime", 0>>>>}
         [] o = <<"exec", 0>> ->
              {<<IF x[1] = "model" THEN x ELSE ModelOf(x), <<"engine", 0>>>>}
              \union (IF Class(x) = "FusionTrt" THEN {<<x, <<"stream", 0>>>>} ELSE {})
         [] OTHER -> {}

NoDangling ==
  \A x \in Owners : \A o \in held[x] :
    /\ \A n \in Needs(x, o) : n[2] \in held[n[1]]
    /\ o = env => up /\ Device \in devices

(* The reference counts: as many as contexts that hold the environment, and the
   runtime is up and the device set exactly while there is one. *)
Holders == {x \in Owners : env \in held[x]}
EnvCounted ==
  /\ gRefCount = Cardinality(Holders)
  /\ up = (gRefCount > 0)
  /\ devices = IF up THEN {Device} ELSE {}
  /\ gDeviceRefCounts = [d \in devices |-> gRefCount]

(* Clean-up: when main is done nothing is left of any context that was
   constructed, nor of one whose init failed.  What can be left is exactly this:
   the Ascend objects of a context whose init had succeeded when its constructor
   threw, without its stage's, and the one device buffer of an Orin context that
   did not get the host buffer to go with it. *)
CleanedUp ==
  phase = "done" =>
    /\ \A x \in Owners :
         held[x] \subseteq
           IF x # thrower THEN {}
           ELSE IF IsAcl(Class(x))
           THEN {env} \union ({"context", "stream", "model", "desc"} \X {0})
           ELSE {"out"} \X (1 .. MaxIO)
    /\ \A x \in Owners : ~IsAcl(Class(x)) => Cardinality(held[x]) <= 1
    /\ \A x \in Owners : IsAcl(Class(x)) => Cardinality(held[x]) \in {0, 5}

(* Every driver call of a thread addresses the context, or the device, of the
   object it is made for: the main thread's when it creates and destroys, a
   worker's when it runs a packet, whatever the thread addressed before. *)
Exempt == {"env", "context", "runtime", "engine"}
OwnContext ==
  /\ (todo # << >> /\ (\/ Head(todo).op \in {"get", "take"}
                       \/ Head(todo).op = "free" /\ Head(todo).obj \in owned[owner])
      /\ Head(todo).obj[1] \notin Exempt)
       => current["main"] = Address(owner)
  /\ \A t \in Workers : (Busy(t) /\ NextCall(t).op \notin {"bind", "copyHost"})
       => current[t] = Address(work[t].context)

(* Results: a packet that did not fail holds, in every field, the output of its
   own tensors, even on a context where an earlier packet failed half-way and
   left work behind on the stream. *)
OwnResult ==
  \A p \in Packets : status[p] = "ok" =>
    \A f \in DOMAIN result[p] : result[p][f] = {{<<p, f[1]>>}}
=============================================================================
