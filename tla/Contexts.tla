------------------------------ MODULE Contexts ------------------------------
(* How the six inference applications create and destroy their accelerator
   contexts (src/app/<application>/context).  A constructor is a sequence of
   driver calls, each of which may fail; what is released then, and what the
   destructor releases, are the sequences below.  One set of definitions per
   class: every application carries its own copy of the code.

   An object is <<name, index>>; an owner is <<"context", k, j>>, the j-th
   context of the application's k-th class, or <<"model", k, 0>>, the engine
   the Orin contexts of that class share. *)
EXTENDS AclEnvironment, Sequences, FiniteSets, SequencesExt

CONSTANTS
  Apps,        \* the applications to run, a subset of DOMAIN ClassesOf
  Instances,   \* per application: contexts per class (instance_count)
  MaxIO,       \* the most tensors a model has in one direction
  Device,      \* the device id every context of the process is created with
  Workers      \* the threads of the pool

(* The classes of an application, in the order main creates them. *)
ClassesOf ==
  [yolox310p    |-> <<"YoloxAcl">>,
   deepsort310p |-> <<"DetectionAcl", "ReidAcl">>,
   fusion310p   |-> <<"FusionAcl">>,
   yoloxOrin    |-> <<"YoloxTrt">>,
   deepsortOrin |-> <<"DetectionTrt", "ReidTrt">>,
   fusionOrin   |-> <<"FusionTrt">>]

ASSUME ContextsAssumption ==
  /\ Apps \subseteq DOMAIN ClassesOf
  /\ MaxIO \in Nat \ {0} /\ \A a \in Apps : Instances[a] \in Nat \ {0}
  /\ "main" \notin Workers

VARIABLES
  app,      \* the application
  io,       \* per class: how many inputs and outputs its model file has
  todo,     \* the driver calls the main thread has left for `owner`
  owner,    \* whose calls they are
  held,     \* per owner: the objects created and not released
  owned,    \* per owner: those its members point to
  standing, \* the owners constructed whose destructor has not begun
  thrower,  \* whose constructor has thrown, None while none has
  phase,    \* "create", "run", "down" or "done"
  current   \* per thread: the context, or device, its driver calls address

lifeVars == <<app, io, todo, owner, held, owned, standing, thrower, phase, current>>

------------------------------------------------------------------------------
Classes == ClassesOf[app]
AclClasses == {"YoloxAcl", "DetectionAcl", "ReidAcl", "FusionAcl"}
IsAcl(class) == class \in AclClasses

Count == Instances[app]
Contexts == {"context"} \X (1 .. Len(Classes)) \X (1 .. Count)
Models   == {"model"} \X {k \in 1 .. Len(Classes) : ~IsAcl(Classes[k])} \X {0}
Owners   == Contexts \union Models
None     == <<"none", 0, 0>>

Class(x) == Classes[x[2]]
ModelOf(x) == <<"model", x[2], 0>>
Ins(class)  == io[class].ins
Outs(class) == io[class].outs

------------------------------------------------------------------------------
(* Steps.  `undo` names what the code runs when the call fails. *)
Step(op, obj, undo) == [op |-> op, obj |-> obj, undo |-> undo]
Get(name, undo)     == Step("get", <<name, 0>>, undo)
GetAt(name, i, undo) == Step("get", <<name, i>>, undo)
Free(name)          == Step("free", <<name, 0>>, "-")
FreeAt(name, i)     == Step("free", <<name, i>>, "-")
Try(call, undo)     == Step("try", <<call, 0>>, undo)
Bind(undo)          == Step("bind", <<"current", 0>>, undo)
Own(name, i)        == Step("own", <<name, i>>, "-")

ForEach(n, Steps(_)) == FlattenSeq([i \in 1 .. n |-> Steps(i)])

------------------------------------------------------------------------------
(* Ascend 310P, the code the four classes share.  init acquires the environment,
   a context, a stream and the model; prepareStage the datasets and buffers.
   A failure of init runs destroy; a failure of prepareStage, and a model with
   the wrong number of tensors, only throw: the destructor of a half
   constructed object does not run, that of its member stage_ does. *)
AclInit ==
  <<Get("env", "none"), Get("context", "destroy"), Bind("destroy"),
    Get("stream", "destroy"), Get("model", "destroy"), Get("desc", "destroy"),
    Try("aclmdlGetDesc", "destroy"), Try("queryTensorDesc", "destroy")>>

AclStage(class) ==
  <<Bind("stage"), Get("inSet", "stage"), Get("outSet", "stage")>>
  \o ForEach(Ins(class),  LAMBDA i : <<GetAt("in", i, "stage"), GetAt("inBuffer", i, "stage")>>)
  \o ForEach(Outs(class), LAMBDA o : <<GetAt("out", o, "stage"), GetAt("outBuffer", o, "stage")>>)

MutantAclRelease(class) ==
  <<Bind("-")>>
  \o ForEach(Ins(class),  LAMBDA i : <<FreeAt("inBuffer", i)>>)  \o <<Free("inSet")>>
  \o ForEach(Outs(class), LAMBDA o : <<FreeAt("outBuffer", o)>>) \o <<Free("outSet")>>
  \o ForEach(Ins(class),  LAMBDA i : <<FreeAt("in", i)>>)

AclRelease(class) ==
  <<Bind("-")>>
  \o ForEach(Ins(class),  LAMBDA i : <<FreeAt("inBuffer", i)>>)  \o <<Free("inSet")>>
  \o ForEach(Outs(class), LAMBDA o : <<FreeAt("outBuffer", o)>>) \o <<Free("outSet")>>
  \o ForEach(Ins(class),  LAMBDA i : <<FreeAt("in", i)>>)
  \o ForEach(Outs(class), LAMBDA o : <<FreeAt("out", o)>>)

MutantAclDestroy(class) ==
  <<Bind("-")>> \o AclRelease(class)
  \o <<Free("desc"), Free("model"), Free("context"), Free("stream"), Free("env")>>

AclDestroy(class) ==
  <<Bind("-")>> \o AclRelease(class)
  \o <<Free("desc"), Free("model"), Free("stream"), Free("context"), Free("env")>>

AclConstructor(class) ==
  AclInit \o AclStage(class) \o <<Step("check", <<"tensors", 0>>, "stage")>>

(* The copies: the detector and the re-identification context of
   deepsort_track_310p, and the context of image_fusion_310p. *)
DetectionAclInit == AclInit
DetectionAclStage == AclStage("DetectionAcl")
DetectionAclRelease == AclRelease("DetectionAcl")
DetectionAclDestroy ==
  <<Bind("-")>> \o DetectionAclRelease
  \o <<Free("desc"), Free("model"), Free("stream"), Free("context"), Free("env")>>
DetectionAclConstructor ==
  DetectionAclInit \o DetectionAclStage \o <<Step("check", <<"tensors", 0>>, "stage")>>

ReidAclInit == AclInit
ReidAclStage == AclStage("ReidAcl")
ReidAclRelease == AclRelease("ReidAcl")
ReidAclDestroy ==
  <<Bind("-")>> \o ReidAclRelease
  \o <<Free("desc"), Free("model"), Free("stream"), Free("context"), Free("env")>>
ReidAclConstructor ==
  ReidAclInit \o ReidAclStage \o <<Step("check", <<"tensors", 0>>, "stage")>>

FusionAclInit == AclInit
FusionAclStage == AclStage("FusionAcl")
FusionAclRelease == AclRelease("FusionAcl")
FusionAclDestroy ==
  <<Bind("-")>> \o FusionAclRelease
  \o <<Free("desc"), Free("model"), Free("stream"), Free("context"), Free("env")>>
FusionAclConstructor ==
  FusionAclInit \o FusionAclStage \o <<Step("check", <<"tensors", 0>>, "stage")>>

(* main compares the model's sizes with --width and --height once the first
   fusion context exists; a mismatch destroys it again. *)
CreateFusionAcl(x) ==
  IF x = <<"context", 1, 1>> THEN FusionAclConstructor \o <<Try("model_info", "destroy")>>
                    ELSE FusionAclConstructor

------------------------------------------------------------------------------
(* Jetson Orin.  The contexts of a class share the runtime and the engine by
   shared_ptr; InspectBindings throws when the engine's tensors do not fit. *)
TrtModel ==
  <<Try("open", "none"), Get("runtime", "none"), Get("engine", "model"),
    Step("check", <<"bindings", 0>>, "model")>>

TrtModelDestroy == <<Free("engine"), Free("runtime")>>

TrtAllocate(class) ==
  <<GetAt("in", 1, "trt")>>
  \o ForEach(Outs(class), LAMBDA o :
       <<Step("take", <<"out", o>>, "trt"), GetAt("host", o, "trt"), Own("out", o)>>)

TrtReleaseBuffers(class) ==
  <<FreeAt("in", 1)>>
  \o ForEach(Outs(class), LAMBDA o : <<FreeAt("out", o), FreeAt("host", o)>>)

TrtConstructor(class) ==
  <<Bind("trt"), Get("stream", "trt"), Get("exec", "trt")>> \o TrtAllocate(class)

TrtDestructor(class) == TrtReleaseBuffers(class) \o <<Free("stream"), Free("exec")>>

DetectionTrtModel == TrtModel
DetectionTrtAllocate == TrtAllocate("DetectionTrt")
DetectionTrtReleaseBuffers == TrtReleaseBuffers("DetectionTrt")
DetectionTrtConstructor ==
  <<Bind("trt"), Get("stream", "trt"), Get("exec", "trt")>> \o DetectionTrtAllocate
DetectionTrtDestructor == DetectionTrtReleaseBuffers \o <<Free("stream"), Free("exec")>>

(* The re-identification context keeps its one output in members, so a buffer
   whose host copy cannot be allocated is still released. *)
ReidTrtModel == TrtModel
ReidTrtAllocate ==
  <<GetAt("in", 1, "trt"), GetAt("out", 1, "trt"), GetAt("host", 1, "trt")>>
ReidTrtReleaseBuffers == <<FreeAt("in", 1), FreeAt("out", 1), FreeAt("host", 1)>>
ReidTrtConstructor ==
  <<Bind("trt"), Get("stream", "trt"), Get("exec", "trt")>> \o ReidTrtAllocate
ReidTrtDestructor == ReidTrtReleaseBuffers \o <<Free("stream"), Free("exec")>>

(* The fusion engine is inspected with a stream and an execution context of its
   own; the context's own execution context goes first, before its stream. *)
FusionTrtLoad ==
  <<Try("open", "none"), Get("runtime", "none"), Get("engine", "model")>>

FusionTrtInspect ==
  <<Bind("model"), Get("stream", "model"), Get("exec", "model"),
    Step("check", <<"bindings", 0>>, "model"), Try("dims", "model"),
    Free("exec"), Free("stream")>>

FusionTrtModelDestroy == <<Free("exec"), Free("stream"), Free("engine"), Free("runtime")>>

FusionTrtAllocate ==
  ForEach(Ins("FusionTrt"), LAMBDA i : <<Step("take", <<"in", i>>, "trt"), Own("in", i)>>)
  \o <<GetAt("out", 1, "trt")>>

FusionTrtReleaseBuffers ==
  <<Free("exec")>> \o ForEach(Ins("FusionTrt"), LAMBDA i : <<FreeAt("in", i)>>)
  \o <<FreeAt("out", 1)>>

FusionTrtConstructor ==
  <<Bind("trt"), Get("stream", "trt"), Get("exec", "trt"), Try("setInputShape", "trt")>>
  \o FusionTrtAllocate

FusionTrtDestructor == FusionTrtReleaseBuffers \o <<Free("stream")>>

------------------------------------------------------------------------------
(* The tensor counts the constructors insist on.  InspectBindings of the three
   single-input engines keeps the last input it meets and accepts any. *)
Fits(class) ==
  CASE class \in {"YoloxAcl", "DetectionAcl"} -> Ins(class) = 1
    [] class = "ReidAcl" -> Ins(class) = 1 /\ Outs(class) = 1
    [] class \in {"FusionAcl", "FusionTrt"} -> Ins(class) = 2 /\ Outs(class) = 1
    [] OTHER -> TRUE

Program(x) ==
  IF x[1] = "model"
  THEN IF Class(x) = "FusionTrt" THEN FusionTrtLoad \o FusionTrtInspect
       ELSE IF Class(x) = "DetectionTrt" THEN DetectionTrtModel
       ELSE IF Class(x) = "ReidTrt" THEN ReidTrtModel ELSE TrtModel
  ELSE CASE Class(x) = "YoloxAcl"     -> AclConstructor("YoloxAcl")
         [] Class(x) = "DetectionAcl" -> DetectionAclConstructor
         [] Class(x) = "ReidAcl"      -> ReidAclConstructor
         [] Class(x) = "FusionAcl"    -> CreateFusionAcl(x)
         [] Class(x) = "YoloxTrt"     -> TrtConstructor("YoloxTrt")
         [] Class(x) = "DetectionTrt" -> DetectionTrtConstructor
         [] Class(x) = "ReidTrt"      -> ReidTrtConstructor
         [] Class(x) = "FusionTrt"    -> FusionTrtConstructor

Destructor(x) ==
  IF x[1] = "model"
  THEN IF Class(x) = "FusionTrt" THEN FusionTrtModelDestroy ELSE TrtModelDestroy
  ELSE CASE Class(x) = "YoloxAcl"     -> AclDestroy("YoloxAcl")
         [] Class(x) = "DetectionAcl" -> DetectionAclDestroy
         [] Class(x) = "ReidAcl"      -> ReidAclDestroy
         [] Class(x) = "FusionAcl"    -> FusionAclDestroy
         [] Class(x) = "YoloxTrt"     -> TrtDestructor("YoloxTrt")
         [] Class(x) = "DetectionTrt" -> DetectionTrtDestructor
         [] Class(x) = "ReidTrt"      -> ReidTrtDestructor
         [] Class(x) = "FusionTrt"    -> FusionTrtDestructor

Undo(x, undo) ==
  CASE undo = "none"  -> << >>
    [] undo = "stage" -> CASE Class(x) = "DetectionAcl" -> DetectionAclRelease
                           [] Class(x) = "ReidAcl"   -> ReidAclRelease
                           [] Class(x) = "FusionAcl" -> FusionAclRelease
                           [] OTHER -> AclRelease(Class(x))
    [] OTHER -> Destructor(x)

(* The order main creates things in: class after class, the shared engine first. *)
FirstOf(k) == IF IsAcl(Classes[k]) THEN <<"context", k, 1>> ELSE <<"model", k, 0>>

IsLast(x) == x = <<"context", Len(Classes), Count>>

CreateContexts(x) ==
  IF x[3] < Count THEN <<"context", x[2], x[3] + 1>> ELSE FirstOf(x[2] + 1)

------------------------------------------------------------------------------
Shapes == [ins : 1 .. MaxIO, outs : 1 .. MaxIO]
Threads == {"main"} \union Workers
LifeInit ==
  /\ EnvInit
  /\ app \in Apps
  /\ io \in [ToSet(ClassesOf[app]) -> Shapes]
  /\ owner = FirstOf(1) /\ todo = Program(FirstOf(1))
  /\ held  = [x \in Owners |-> {}]
  /\ owned = [x \in Owners |-> {}]
  /\ standing = {} /\ thrower = None /\ phase = "create"
  /\ current = [t \in Threads |-> None]

(* What a driver call addresses: an ACL context, or the CUDA device. *)
Address(x) == IF IsAcl(Class(x)) THEN x ELSE <<"device", Device, 0>>

env == <<"env", 0>>
Acquired(o) ==
  IF o = env THEN Acquire(Device) ELSE UNCHANGED envVars
Released(o) ==
  IF o = env THEN Release(Device) ELSE UNCHANGED envVars

(* A call that creates something.  init asks for the environment only once. *)
Create ==
  /\ Head(todo).op \in {"get", "take"}
  /\ LET o == Head(todo).obj IN
     /\ o \notin held[owner] /\ Acquired(o)
     /\ held' = [held EXCEPT ![owner] = @ \union {o}]
     /\ owned' = IF Head(todo).op = "get" THEN [owned EXCEPT ![owner] = @ \union {o}] ELSE owned
     /\ current' = IF o = <<"context", 0>> THEN [current EXCEPT !["main"] = owner] ELSE current

(* push_back: from here on the members know the buffer just allocated. *)
Keep ==
  /\ Head(todo).op = "own" /\ Head(todo).obj \in held[owner]
  /\ owned' = [owned EXCEPT ![owner] = @ \union {Head(todo).obj}]
  /\ UNCHANGED <<held, current, envVars>>

(* aclrtSetCurrentContext and cudaSetDevice; the clean-up code skips it when
   there is no context. *)
AddressThread ==
  /\ Head(todo).op = "bind"
  /\ current' = IF IsAcl(Class(owner)) /\ <<"context", 0>> \notin owned[owner]
                THEN current ELSE [current EXCEPT !["main"] = Address(owner)]
  /\ UNCHANGED <<held, owned, envVars>>

(* Only what a member still points to is released; the pointer is reset. *)
Destroy ==
  /\ Head(todo).op = "free"
  /\ LET o == Head(todo).obj IN
     IF o \notin owned[owner] THEN UNCHANGED <<held, owned, current, envVars>>
     ELSE /\ Released(o)
          /\ held'  = [held  EXCEPT ![owner] = @ \ {o}]
          /\ owned' = [owned EXCEPT ![owner] = @ \ {o}]
          /\ current' = IF o = <<"context", 0>> \/ (o = env /\ ~up')
                        THEN [current EXCEPT !["main"] = None] ELSE current

Passed ==
  /\ Head(todo).op = "try" \/ (Head(todo).op = "check" /\ Fits(Class(owner)))
  /\ UNCHANGED <<held, owned, current, envVars>>

Call ==
  /\ phase \in {"create", "down"} /\ todo # << >>
  /\ Create \/ Keep \/ AddressThread \/ Destroy \/ Passed
  /\ todo' = Tail(todo)
  /\ UNCHANGED <<app, io, owner, standing, thrower, phase>>

(* A call of a constructor fails: the code cleans up and throws. *)
Throw ==
  /\ phase = "create" /\ todo # << >> /\ thrower = None
  /\ \/ Head(todo).op \in {"get", "take", "try", "bind"}
     \/ Head(todo).op = "check" /\ ~Fits(Class(owner))
  /\ IF Head(todo).obj = env THEN AcquireFails(Device) ELSE UNCHANGED envVars
  /\ todo' = Undo(owner, Head(todo).undo) /\ thrower' = owner
  /\ UNCHANGED <<app, io, owner, held, owned, standing, phase, current>>

(* A constructor has returned, and the next one runs; or all have. *)
Constructed ==
  /\ phase = "create" /\ todo = << >> /\ thrower = None
  /\ IF IsLast(owner)
     THEN phase' = "run" /\ UNCHANGED <<owner, todo>>
     ELSE /\ owner' = CreateContexts(owner) /\ todo' = Program(CreateContexts(owner))
          /\ UNCHANGED phase
  /\ standing' = standing \union {owner}
  /\ UNCHANGED <<app, io, held, owned, thrower, current, envVars>>

(* The exception reaches main: what was created is destroyed. *)
Unwind ==
  /\ phase = "create" /\ todo = << >> /\ thrower # None
  /\ phase' = "down"
  /\ UNCHANGED <<app, io, owner, todo, held, owned, standing, thrower, current, envVars>>

(* Destructors run in any order, a shared engine's only when no context of its
   class is left. *)
Unused(x) == x[1] = "model" => \A c \in standing : c[1] = "model" \/ ModelOf(c) # x

Destruct ==
  /\ phase = "down" /\ todo = << >>
  /\ \E x \in standing :
       /\ Unused(x)
       /\ owner' = x /\ todo' = Destructor(x) /\ standing' = standing \ {x}
  /\ UNCHANGED <<app, io, held, owned, thrower, phase, current, envVars>>

Gone ==
  /\ phase = "down" /\ todo = << >> /\ standing = {}
  /\ phase' = "done"
  /\ UNCHANGED <<app, io, owner, todo, held, owned, standing, thrower, current, envVars>>

LifeNext == Call \/ Throw \/ Constructed \/ Unwind \/ Destruct \/ Gone
=============================================================================
