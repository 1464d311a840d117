-------------------------- MODULE ThreadPoolProofs --------------------------
(***************************************************************************)
(* Proofs about ThreadPool, for any number of workers and clients and any  *)
(* tasks: no wakeup is lost, and the destructor drains the queue.          *)
(***************************************************************************)
EXTENDS ThreadPool, FiniteSetTheorems, TLAPS

Fetching  == {w \in Workers : pc[w] = "fetch"}
Notifying == {c \in Clients : pc[c] = "notifyOne"}

(* Which labels a worker and a client can have.                            *)
Roles ==
    /\ \A w \in Workers : pc[w] \in WorkerLabels
    /\ \A c \in Clients : pc[c] \in ClientLabels

(* A worker leaves only after the stop, when nothing is queued, and then   *)
(* nothing is queued any more.                                             *)
ExitsDrained ==
    /\ destroyer = "outside" \/ stop
    /\ \A w \in Workers : pc[w] = "exited" => stop /\ tasks = {}
    /\ destroyer = "done" => \A w \in Workers : pc[w] = "exited"

IInv == TypeOK /\ Roles /\ ExitsDrained /\ NoLostWakeup

(* The initial state satisfies the invariant: nobody waits.                *)
LEMMA InitIInv == Init => IInv
<1>1. ASSUME Init PROVE TypeOK /\ Roles
  <2>1. /\ \A w \in Workers : pc[w] = "fetch" /\ task[w] = NoTask
        /\ \A c \in Clients : pc[c] = "outside"
    BY <1>1, ThreadPoolAssumption DEF Init, Threads
  <2>2. pc \in [Threads -> WorkerLabels \cup ClientLabels]
    BY <1>1, <2>1 DEF Init, Threads, WorkerLabels, ClientLabels
  <2>3. /\ tasks = {} /\ over = {} /\ thrown = {} /\ nextSeq = 0 /\ stop = FALSE
        /\ destroyer = "outside"
        /\ seq \in [Tasks -> Nat] /\ task \in [Workers -> Tasks \cup {NoTask}]
    BY <1>1 DEF Init
  <2>. QED
    BY <2>1, <2>2, <2>3 DEF TypeOK, Roles, WorkerLabels, ClientLabels
<1>2. Init => ExitsDrained  BY DEF Init, ExitsDrained, Threads
<1>3. Init => NoLostWakeup  BY DEF Init, NoLostWakeup, Waiting, Threads
<1>. QED  BY <1>1, <1>2, <1>3 DEF IInv

(* What a batch of pushes does to the types.                               *)
LEMMA PushTypes ==
    ASSUME TypeOK, NEW batch \in SUBSET Tasks, Push(batch)
    PROVE  /\ tasks' \in SUBSET Tasks
           /\ seq' \in [Tasks -> Nat] /\ nextSeq' \in Nat
<1>1. Cardinality(batch) \in Nat
  BY ThreadPoolAssumption, FS_Subset, FS_CardinalityType
<1>. QED  BY <1>1 DEF Push, TypeOK

(* Every action keeps the types and the roles.                             *)
LEMMA TypeStep == ASSUME IInv, [Next]_vars PROVE TypeOK' /\ Roles'
<1>. USE ThreadPoolAssumption DEF Roles, Threads, WorkerLabels, ClientLabels, Goto
<1>. TypeOK /\ Roles  BY DEF IInv
<1>1. ASSUME NEW w \in Workers, Advance(w) \/ SpuriousWake(w)
      PROVE  TypeOK' /\ Roles'
  <2>1. CASE Pop(w)
    BY <2>1 DEF Pop, TypeOK
  <2>2. CASE Block(w)
    BY <2>2 DEF Block, queue, TypeOK
  <2>3. CASE Exit(w)
    BY <2>3 DEF Exit, queue, TypeOK
  <2>4. CASE Return(w)
    BY <2>4 DEF Return, queue, TypeOK
  <2>5. CASE EnqueueBatch(w)
    <3>1. task[w] \in Tasks  BY <2>5 DEF EnqueueBatch, TypeOK
    <3>2. Spawns[task[w]] \in SUBSET Tasks  BY <3>1
    <3>3. /\ tasks' \in SUBSET Tasks
          /\ seq' \in [Tasks -> Nat] /\ nextSeq' \in Nat
      BY <2>5, <3>2, PushTypes DEF EnqueueBatch
    <3>. QED  BY <2>5, <3>3 DEF EnqueueBatch, TypeOK
  <2>6. CASE EnqueueThrows(w)
    BY <2>6 DEF EnqueueThrows, queue, TypeOK
  <2>7. CASE NotifyAll(w)
    BY <2>7 DEF NotifyAll, queue, Waiting, TypeOK
  <2>8. CASE SpuriousWake(w)
    BY <2>8 DEF SpuriousWake, queue, TypeOK
  <2>. QED
    BY <1>1, <2>1, <2>2, <2>3, <2>4, <2>5, <2>6, <2>7, <2>8 DEF Advance
<1>2. ASSUME NEW c \in Clients, Enqueue(c) PROVE TypeOK' /\ Roles'
  <2>1. PICK t \in Tasks : Push({t})  BY <1>2 DEF Enqueue
  <2>2. /\ tasks' \in SUBSET Tasks
        /\ seq' \in [Tasks -> Nat] /\ nextSeq' \in Nat
    BY <2>1, PushTypes
  <2>. QED  BY <1>2, <2>2 DEF Enqueue, TypeOK
<1>3. ASSUME NEW c \in Clients, NotifyOne(c) PROVE TypeOK' /\ Roles'
  BY <1>3 DEF NotifyOne, queue, Waiting, TypeOK
<1>4. CASE Destroyer
  BY <1>4, ZenonT(60) DEF Destroyer, Stop, StopNotifies, Join, queue, Waiting, TypeOK
<1>5. CASE Finished \/ UNCHANGED vars
  BY <1>5 DEF Finished, vars, queue, TypeOK
<1>. QED  BY <1>1, <1>2, <1>3, <1>4, <1>5 DEF Next

(* Every action keeps the queue drained once a worker has left.            *)
LEMMA ExitStep == ASSUME IInv, [Next]_vars PROVE ExitsDrained'
<1>. USE ThreadPoolAssumption
     DEF ExitsDrained, Threads, WorkerLabels, ClientLabels, Goto, Roles
<1>. TypeOK /\ Roles /\ ExitsDrained  BY DEF IInv
<1>1. ASSUME NEW w \in Workers, Advance(w) \/ SpuriousWake(w)
      PROVE  ExitsDrained'
  <2>1. CASE Pop(w)
    BY <2>1 DEF Pop, TypeOK
  <2>2. CASE Block(w)
    BY <2>2 DEF Block, queue, TypeOK
  <2>3. CASE Exit(w)
    BY <2>3 DEF Exit, queue, TypeOK
  <2>4. CASE Return(w)
    BY <2>4 DEF Return, queue, TypeOK
  <2>5. CASE EnqueueBatch(w)
    BY <2>5 DEF EnqueueBatch, TypeOK
  <2>6. CASE EnqueueThrows(w)
    BY <2>6 DEF EnqueueThrows, queue, TypeOK
  <2>7. CASE NotifyAll(w)
    BY <2>7 DEF NotifyAll, queue, Waiting, TypeOK
  <2>8. CASE SpuriousWake(w)
    BY <2>8 DEF SpuriousWake, queue, TypeOK
  <2>. QED
    BY <1>1, <2>1, <2>2, <2>3, <2>4, <2>5, <2>6, <2>7, <2>8 DEF Advance
<1>2. ASSUME NEW c \in Clients, Enqueue(c) PROVE ExitsDrained'
  BY <1>2 DEF Enqueue, TypeOK
<1>3. ASSUME NEW c \in Clients, NotifyOne(c) PROVE ExitsDrained'
  BY <1>3 DEF NotifyOne, queue, Waiting, TypeOK
<1>4. CASE Destroyer
  BY <1>4 DEF Destroyer, Stop, StopNotifies, Join, queue, Waiting, TypeOK
<1>5. CASE Finished \/ UNCHANGED vars
  BY <1>5 DEF Finished, vars, queue
<1>. QED  BY <1>1, <1>2, <1>3, <1>4, <1>5 DEF Next

(* The two sets the wakeup count is made of.                               *)
LEMMA FiniteSets ==
    ASSUME TypeOK
    PROVE  /\ IsFiniteSet(tasks) /\ Cardinality(tasks) \in Nat
           /\ IsFiniteSet(Fetching) /\ Cardinality(Fetching) \in Nat
           /\ IsFiniteSet(Notifying) /\ Cardinality(Notifying) \in Nat
<1>1. /\ IsFiniteSet(tasks) /\ IsFiniteSet(Fetching) /\ IsFiniteSet(Notifying)
  BY ThreadPoolAssumption, FS_Subset DEF TypeOK, Fetching, Notifying
<1>. QED  BY <1>1, FS_CardinalityType

(* Every action keeps the wakeups: what is queued is announced by the same *)
(* thread that queued it, an announcement that reaches a worker puts it on *)
(* its way to the queue, and a worker that blocks found the queue empty.   *)
LEMMA WakeupStep == ASSUME IInv, [Next]_vars PROVE NoLostWakeup'
<1>. USE DEF Threads, WorkerLabels, ClientLabels, Goto, Roles
<1>. TypeOK /\ Roles  BY DEF IInv
<1>. TypeOK' /\ Roles'  BY TypeStep
<1>a. Workers \cap Clients = {}  BY ThreadPoolAssumption
<1>b. /\ IsFiniteSet(tasks) /\ Cardinality(tasks) \in Nat
      /\ IsFiniteSet(Fetching) /\ Cardinality(Fetching) \in Nat
      /\ IsFiniteSet(Notifying) /\ Cardinality(Notifying) \in Nat
  BY FiniteSets
<1>c. NoLostWakeup <=>
          \/ Waiting = {}
          \/ \E w \in Workers : pc[w] = "notifyAll"
          \/ Cardinality(tasks) <= Cardinality(Fetching) + Cardinality(Notifying)
  BY DEF NoLostWakeup, Fetching, Notifying
<1>d. NoLostWakeup' <=>
          \/ Waiting' = {}
          \/ \E w \in Workers : pc'[w] = "notifyAll"
          \/ Cardinality(tasks') <= Cardinality(Fetching') + Cardinality(Notifying')
  BY DEF NoLostWakeup, Fetching, Notifying
<1>e. NoLostWakeup  BY DEF IInv
(* A worker that starts or stops fetching, the others staying as they are. *)
<1>f. ASSUME NEW w \in Workers, pc[w] # "fetch", pc'[w] = "fetch",
             \A v \in Threads \ {w} : pc'[v] = pc[v]
      PROVE  /\ Cardinality(Fetching') = Cardinality(Fetching) + 1
             /\ Notifying' = Notifying
  <2>1. Fetching' = Fetching \cup {w} /\ w \notin Fetching
    BY <1>f DEF Fetching
  <2>2. Notifying' = Notifying  BY <1>a, <1>f DEF Notifying
  <2>. QED  BY <1>b, <2>1, <2>2, FS_AddElement
<1>1. ASSUME NEW w \in Workers, Pop(w) PROVE NoLostWakeup'
  <2>1. PICK t \in tasks : tasks' = tasks \ {t}  BY <1>1 DEF Pop
  <2>2. Cardinality(tasks') = Cardinality(tasks) - 1
    BY <1>b, <2>1, FS_RemoveElement
  <2>3. pc' = [pc EXCEPT ![w] = "running"] /\ pc[w] = "fetch"  BY <1>1 DEF Pop
  <2>4. Fetching' = Fetching \ {w} /\ w \in Fetching
    BY <2>3 DEF Fetching, TypeOK
  <2>5. Cardinality(Fetching') = Cardinality(Fetching) - 1
    BY <1>b, <2>4, FS_RemoveElement
  <2>6. Notifying' = Notifying  BY <1>a, <2>3 DEF Notifying, TypeOK
  <2>7. Waiting = {} => Waiting' = {}  BY <2>3 DEF Waiting, TypeOK
  <2>8. (\E v \in Workers : pc[v] = "notifyAll") =>
            \E v \in Workers : pc'[v] = "notifyAll"
    BY <2>3 DEF TypeOK
  <2>. QED  BY <1>b, <1>c, <1>d, <1>e, <2>2, <2>5, <2>6, <2>7, <2>8
<1>2. ASSUME NEW w \in Workers, Block(w) PROVE NoLostWakeup'
  <2>1. tasks' = {}  BY <1>2 DEF Block, queue
  <2>2. /\ Cardinality(tasks') = 0
        /\ Cardinality(Fetching') \in Nat /\ Cardinality(Notifying') \in Nat
    <3>1. IsFiniteSet(Fetching') /\ IsFiniteSet(Notifying')
      BY ThreadPoolAssumption, FS_Subset DEF Fetching, Notifying
    <3>. QED  BY <2>1, <3>1, FS_EmptySet, FS_CardinalityType
  <2>. QED  BY <1>d, <2>2
<1>3. ASSUME NEW w \in Workers, Exit(w) PROVE NoLostWakeup'
  <2>1. tasks' = {}  BY <1>3 DEF Exit, queue
  <2>2. /\ Cardinality(tasks') = 0
        /\ Cardinality(Fetching') \in Nat /\ Cardinality(Notifying') \in Nat
    <3>1. IsFiniteSet(Fetching') /\ IsFiniteSet(Notifying')
      BY ThreadPoolAssumption, FS_Subset DEF Fetching, Notifying
    <3>. QED  BY <2>1, <3>1, FS_EmptySet, FS_CardinalityType
  <2>. QED  BY <1>d, <2>2
<1>4. ASSUME NEW w \in Workers,
             Return(w) \/ EnqueueThrows(w) \/ SpuriousWake(w)
      PROVE  NoLostWakeup'
  <2>1. /\ tasks' = tasks /\ pc' = [pc EXCEPT ![w] = "fetch"]
        /\ pc[w] \notin {"fetch", "notifyAll"}
    BY <1>4 DEF Return, EnqueueThrows, SpuriousWake, queue
  <2>2. /\ pc'[w] = "fetch"
        /\ \A v \in Threads \ {w} : pc'[v] = pc[v]
    BY <2>1 DEF TypeOK
  <2>3. /\ Cardinality(Fetching') = Cardinality(Fetching) + 1
        /\ Notifying' = Notifying
    BY <1>f, <2>1, <2>2
  <2>4. Waiting = {} => Waiting' = {}  BY <2>2 DEF Waiting
  <2>5. (\E v \in Workers : pc[v] = "notifyAll") =>
            \E v \in Workers : pc'[v] = "notifyAll"
    BY <2>1, <2>2
  <2>. QED  BY <1>b, <1>c, <1>d, <1>e, <2>1, <2>3, <2>4, <2>5
<1>5. ASSUME NEW w \in Workers, EnqueueBatch(w) PROVE NoLostWakeup'
  <2>1. pc'[w] = "notifyAll"  BY <1>5 DEF EnqueueBatch, TypeOK
  <2>. QED  BY <1>d, <2>1
<1>6. ASSUME NEW w \in Workers, NotifyAll(w) PROVE NoLostWakeup'
  <2>1. Waiting' = {}  BY <1>6 DEF NotifyAll, Waiting
  <2>. QED  BY <1>d, <2>1
<1>7. ASSUME NEW c \in Clients, Enqueue(c) PROVE NoLostWakeup'
  <2>1. PICK t \in Tasks : Push({t})
    BY <1>7, ThreadPoolAssumption DEF Enqueue
  <2>2. Cardinality(tasks') <= Cardinality(tasks) + 1 /\ Cardinality(tasks') \in Nat
    <3>1. tasks' = tasks \cup {t}  BY <2>1 DEF Push
    <3>2. Cardinality(tasks') = IF t \in tasks THEN Cardinality(tasks)
                                ELSE Cardinality(tasks) + 1
      BY <1>b, <3>1, FS_AddElement, Zenon
    <3>. QED  BY <1>b, <3>2
  <2>3. pc' = [pc EXCEPT ![c] = "notifyOne"] /\ pc[c] = "outside"
    BY <1>7 DEF Enqueue
  <2>4. Notifying' = Notifying \cup {c} /\ c \notin Notifying
    BY <2>3 DEF Notifying, TypeOK
  <2>5. Cardinality(Notifying') = Cardinality(Notifying) + 1
    BY <1>b, <2>4, FS_AddElement
  <2>6. /\ Fetching' = Fetching /\ Waiting' = Waiting
        /\ \A v \in Workers : pc'[v] = pc[v]
    BY <1>a, <2>3 DEF Fetching, Waiting, TypeOK
  <2>. QED  BY <1>b, <1>c, <1>d, <1>e, <2>2, <2>5, <2>6
<1>8. ASSUME NEW c \in Clients, NotifyOne(c) PROVE NoLostWakeup'
  <2>1. CASE Waiting = {}
    <3>1. pc' = [pc EXCEPT ![c] = "outside"]  BY <1>8, <2>1 DEF NotifyOne
    <3>2. Waiting' = {}  BY <1>a, <2>1, <3>1 DEF Waiting, TypeOK
    <3>. QED  BY <1>d, <3>2
  <2>2. CASE Waiting # {}
    <3>1. PICK w \in Waiting : pc' = [pc EXCEPT ![c] = "outside", ![w] = "fetch"]
      BY <1>8, <2>2 DEF NotifyOne
    <3>2. w \in Workers /\ pc[w] = "waiting" /\ w # c /\ pc[c] = "notifyOne"
      BY <1>8, <1>a, <3>1 DEF Waiting, NotifyOne
    <3>3. Fetching' = Fetching \cup {w} /\ w \notin Fetching
      BY <1>a, <3>1, <3>2 DEF Fetching, TypeOK
    <3>4. Notifying' = Notifying \ {c} /\ c \in Notifying
      BY <1>a, <3>1, <3>2 DEF Notifying, TypeOK
    <3>5. /\ Cardinality(Fetching') = Cardinality(Fetching) + 1
          /\ Cardinality(Notifying') = Cardinality(Notifying) - 1
      BY <1>b, <3>3, <3>4, FS_AddElement, FS_RemoveElement
    <3>6. (\E v \in Workers : pc[v] = "notifyAll") =>
              \E v \in Workers : pc'[v] = "notifyAll"
      BY <1>a, <3>1, <3>2 DEF TypeOK
    <3>7. tasks' = tasks  BY <1>8 DEF NotifyOne, queue
    <3>. QED  BY <1>b, <1>c, <1>d, <1>e, <2>2, <3>5, <3>6, <3>7
  <2>. QED  BY <2>1, <2>2
<1>9. CASE Stop \/ Join \/ Finished \/ UNCHANGED vars
  <2>1. UNCHANGED <<pc, tasks>>
    BY <1>9 DEF Stop, Join, Finished, vars, queue
  <2>. QED  BY <1>e, <2>1 DEF NoLostWakeup, Waiting
<1>10. CASE StopNotifies
  <2>1. Waiting' = {}  BY <1>10 DEF StopNotifies, Waiting
  <2>. QED  BY <1>d, <2>1
<1>. QED
  BY <1>1, <1>2, <1>3, <1>4, <1>5, <1>6, <1>7, <1>8, <1>9, <1>10
     DEF Next, Advance, Destroyer
-----------------------------------------------------------------------------
(* IInv is an invariant of every thread pool.                              *)
THEOREM Invariance == Spec => []IInv
<1>1. IInv /\ [Next]_vars => IInv'
  BY TypeStep, ExitStep, WakeupStep DEF IInv
<1>. QED  BY InitIInv, <1>1, PTL DEF Spec

(* Every variable of the thread pool keeps its type.                       *)
THEOREM TypeCorrect == Spec => []TypeOK
<1>1. IInv => TypeOK  BY DEF IInv
<1>. QED  BY Invariance, <1>1, PTL

(* No wakeup is lost although every notification follows the unlock: while *)
(* a worker is blocked, each queued task has somebody on the way to it.    *)
THEOREM WakeupCorrect == Spec => []NoLostWakeup
<1>1. IInv => NoLostWakeup  BY DEF IInv
<1>. QED  BY Invariance, <1>1, PTL

(* When the destructor returns the queue is empty and no worker is left.   *)
THEOREM DestructorCorrect == Spec => []DestructorDrains
<1>1. IInv => DestructorDrains
  BY ThreadPoolAssumption DEF IInv, ExitsDrained, DestructorDrains
<1>. QED  BY Invariance, <1>1, PTL
=============================================================================
