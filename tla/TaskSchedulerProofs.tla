------------------------ MODULE TaskSchedulerProofs ------------------------
(***************************************************************************)
(* Proofs about TaskScheduler, for every template, packet set, number of   *)
(* workers and resource configuration.                                     *)
(***************************************************************************)
EXTENDS TaskScheduler, FiniteSetTheorems, TLAPS

Looping  == {"notify", "load", "cas", "schedule"}
AtChild  == {"load", "cas", "schedule"}
Handing  == {"testDone", "claim", "callback"}
Running  == Labels \ (Handing \cup {"idle"})
Holding  == {"recheck", "execute", "release"}

(* The shape of the variables; that the counters are not negative comes    *)
(* from what they count.                                                   *)
Shape ==
    /\ unfinishedPredecessorCount \in [Tasks -> Int]
    /\ hasBeenEnqueued \in [Tasks -> BOOLEAN]
    /\ isCompleted \in [Tasks -> BOOLEAN]
    /\ isGraphCompleted \in [Packets -> BOOLEAN]
    /\ hasFailed \in [Packets -> BOOLEAN]
    /\ inFlight \in [Packets -> Int]
    /\ completionNotified \in [Packets -> BOOLEAN]
    /\ activePackets \in SUBSET Packets
    /\ delivered \in [Packets -> Nat]
    /\ task \in [Tasks -> Status]
    /\ free \in SUBSET Contexts
    /\ pc \in [Workers -> Labels]
    /\ cur \in [Workers -> Tasks \cup {NoTask}]
    /\ child \in [Workers -> Nat \ {0}]
    /\ batch \in [Workers -> SUBSET Tasks]
    /\ ctx \in [Workers -> Contexts \cup {NoContext}]
    /\ notified \in SUBSET (Packets \X Edges)
    /\ ran \in SUBSET Tasks

(* A worker's locals agree with its program counter.                       *)
Control ==
    \A w \in Workers :
        /\ pc[w] = "idle" => cur[w] = NoTask
        /\ pc[w] # "idle" => cur[w] \in Tasks
        /\ pc[w] \notin Looping => batch[w] = {} /\ child[w] = 1
        /\ pc[w] \in AtChild => child[w] \in DOMAIN Children[Node(w)]
        /\ pc[w] \notin Holding => ctx[w] = NoContext
        /\ pc[w] = "release" => ctx[w] \in Contexts

Base == Shape /\ Control

(* Node indices, edges and tasks are what their names say, and the         *)
(* predecessors of a node are finitely many.                               *)
LEMMA NodeFacts ==
    /\ Input \in Nodes
    /\ Output \in Nodes
    /\ \A m \in Nodes : \A i \in DOMAIN Children[m] :
           /\ i \in Nat \ {0}
           /\ i + 1 \in Nat \ {0}
           /\ Children[m][i] \in Nodes
           /\ Children[m][i] # Input
           /\ Children[m][i] # m
           /\ <<m, i>> \in Edges
           /\ Target(<<m, i>>) = Children[m][i]
<1>1. N \in Nat \ {0} BY GraphAssumption DEF GraphAssumption
<1>2. Input \in Nodes /\ Output \in Nodes BY <1>1 DEF Input, Output, Nodes
<1>3. ASSUME NEW m \in Nodes, NEW i \in DOMAIN Children[m]
      PROVE  /\ i \in Nat \ {0}
             /\ i + 1 \in Nat \ {0}
             /\ Children[m][i] \in Nodes
             /\ Children[m][i] # Input
             /\ Children[m][i] # m
  <2>1. Children[m] \in Seq(Nodes) BY GraphAssumption DEF GraphAssumption
  <2>2. i \in 1 .. Len(Children[m]) /\ Children[m][i] \in Nodes BY <2>1
  <2>3. m < Children[m][i] BY GraphAssumption DEF GraphAssumption
  <2>4. m \in Int /\ 0 <= m BY DEF Nodes
  <2> QED BY <2>1, <2>2, <2>3, <2>4 DEF Input, Nodes
<1>4. ASSUME NEW m \in Nodes, NEW i \in DOMAIN Children[m]
      PROVE  <<m, i>> \in Edges /\ Target(<<m, i>>) = Children[m][i]
  BY DEF Edges, Target
<1> QED BY <1>2, <1>3, <1>4

(* Every variable starts in shape.                                         *)
LEMMA BaseInit == Init => Base
BY NodeFacts DEF Init, Base, Shape, Control, Labels, Status, Looping, AtChild, Holding

(* A number of predecessors is a natural number.                           *)
LEMMA CountsAreNat == \A n \in Nodes : PredecessorCount(n) \in Nat
<1> SUFFICES ASSUME NEW n \in Nodes PROVE PredecessorCount(n) \in Nat
  OBVIOUS
<1>1. IsFiniteSet(Edges) /\ InEdges(n) \in SUBSET Edges
  BY GraphAssumption DEF GraphAssumption, InEdges
<1>2. IsFiniteSet(InEdges(n)) BY <1>1, FS_Subset
<1>3. Cardinality(InEdges(n)) \in Nat BY <1>2, FS_CardinalityType
<1> QED BY <1>3 DEF PredecessorCount

(* What the locals of a busy worker are: a task, its packet and its node.  *)
LEMMA LocalFacts ==
    ASSUME Base, NEW w \in Workers, pc[w] # "idle"
    PROVE  /\ cur[w] \in Tasks
           /\ cur[w] = <<Packet(w), Node(w)>>
           /\ Packet(w) \in Packets
           /\ Node(w) \in Nodes
<1>1. cur[w] \in Tasks BY DEF Base, Control
<1> QED BY <1>1 DEF Tasks, Packet, Node

(* What a worker in the loop over childIndices knows of the edge at hand.  *)
LEMMA ChildFacts ==
    ASSUME Base, NEW w \in Workers,
           \/ pc[w] \in AtChild
           \/ pc[w] # "idle" /\ child[w] \in DOMAIN Children[Node(w)]
    PROVE  /\ child[w] \in DOMAIN Children[Node(w)]
           /\ child[w] \in Nat \ {0}
           /\ child[w] + 1 \in Nat \ {0}
           /\ Child(w) \in Nodes
           /\ Child(w) # Input
           /\ Child(w) # Node(w)
           /\ ChildTask(w) \in Tasks
           /\ ChildTask(w) # cur[w]
           /\ ChildTask(w)[1] = Packet(w)
           /\ ChildTask(w)[2] = Child(w)
           /\ <<Node(w), child[w]>> \in Edges
           /\ <<Node(w), child[w]>> \in InEdges(Child(w))
<1>1. child[w] \in DOMAIN Children[Node(w)] /\ pc[w] # "idle"
  BY DEF Base, Control, AtChild
<1>2. cur[w] = <<Packet(w), Node(w)>> /\ Packet(w) \in Packets /\ Node(w) \in Nodes
  BY <1>1, LocalFacts
<1>3. /\ Child(w) \in Nodes
      /\ Child(w) # Input
      /\ Child(w) # Node(w)
      /\ <<Node(w), child[w]>> \in Edges
      /\ Target(<<Node(w), child[w]>>) = Child(w)
      /\ child[w] \in Nat \ {0}
      /\ child[w] + 1 \in Nat \ {0}
  BY <1>1, <1>2, NodeFacts DEF Child
<1>4. ChildTask(w) \in Tasks BY <1>2, <1>3 DEF Tasks, ChildTask
<1>5. ChildTask(w) # cur[w] BY <1>2, <1>3 DEF ChildTask
<1> QED BY <1>1, <1>3, <1>4, <1>5 DEF InEdges, ChildTask

(* Every step of executeNode and submitPacket keeps the shape of the       *)
(* variables.                                                              *)
LEMMA ShapeNext == Base /\ [Next]_vars => Shape'
<1> SUFFICES ASSUME Base, [Next]_vars PROVE Shape'
  OBVIOUS
<1>0. Shape BY DEF Base
<1> USE <1>0 DEF Shape, Goto, nodeState, packetState, processor, locals, history
<1>1. ASSUME NEW p \in Packets, SubmitPacket(p) PROVE Shape'
  BY <1>1, CountsAreNat, NodeFacts DEF SubmitPacket, CountTask, Tasks, Status
<1>2. ASSUME NEW w \in Workers, Dequeue(w) PROVE Shape'
  BY <1>2 DEF Dequeue, Queued, Labels, Status
<1>3. ASSUME NEW w \in Workers, ExecuteNode(w) PROVE Shape'
  BY <1>3 DEF ExecuteNode, Labels, Status
<1>4. ASSUME NEW w \in Workers, CheckFailed(w) PROVE Shape'
  BY <1>4 DEF CheckFailed, Labels, Status
<1>5. ASSUME NEW w \in Workers, AcquireGranted(w) PROVE Shape'
  BY <1>5 DEF AcquireGranted, OfType, Labels, Status
<1>6. ASSUME NEW w \in Workers, AcquireUnregistered(w) PROVE Shape'
  BY <1>6 DEF AcquireUnregistered, AcquireNull, Labels, Status
<1>7. ASSUME NEW w \in Workers, AcquireTimeout(w) PROVE Shape'
  BY <1>7 DEF AcquireTimeout, AcquireNull, Labels, Status
<1>8. ASSUME NEW w \in Workers, AcquireCancelled(w) PROVE Shape'
  BY <1>8 DEF AcquireCancelled, AcquireNull, Labels, Status
<1>9. ASSUME NEW w \in Workers, Recheck(w) PROVE Shape'
  BY <1>9 DEF Recheck, MarkFailed, ReleaseOrComplete, Labels, Status
<1>10. ASSUME NEW w \in Workers, Execute(w) PROVE Shape'
  BY <1>10, LocalFacts DEF Execute, ReleaseOrComplete, Labels, Status
<1>11. ASSUME NEW w \in Workers, ExecuteThrows(w) PROVE Shape'
  BY <1>11 DEF ExecuteThrows, MarkFailed, ReleaseOrComplete, Labels, Status
<1>12. ASSUME NEW w \in Workers, ExecuteEscapes(w) PROVE Shape'
  BY <1>12 DEF ExecuteEscapes, Labels, Status
<1>13. ASSUME NEW w \in Workers, Release(w) PROVE Shape'
  <2>1. ctx[w] \in Contexts BY <1>13 DEF Release, Base, Control
  <2> QED BY <1>13, <2>1 DEF Release, Labels
<1>14. ASSUME NEW w \in Workers, MarkNodeCompleted(w) PROVE Shape'
  BY <1>14 DEF MarkNodeCompleted, Labels, Status
<1>15. ASSUME NEW w \in Workers, MarkGraphCompleted(w) PROVE Shape'
  BY <1>15 DEF MarkGraphCompleted, Labels, Status
<1>16. ASSUME NEW w \in Workers, NotifyPredecessorCompleted(w) PROVE Shape'
  <2>1. /\ Packet(w) \in Packets
        /\ ChildTask(w) \in Tasks
        /\ <<Node(w), child[w]>> \in Edges
    BY <1>16, LocalFacts, ChildFacts DEF NotifyPredecessorCompleted
  <2>2. notified' \in SUBSET (Packets \X Edges)
    <3>1. <<Packet(w), <<Node(w), child[w]>>>> \in Packets \X Edges BY <2>1
    <3> QED BY <1>16, <3>1 DEF NotifyPredecessorCompleted
  <2>3. unfinishedPredecessorCount' \in [Tasks -> Int]
    <3>1. unfinishedPredecessorCount[ChildTask(w)] - 1 \in Int BY <2>1
    <3> QED BY <1>16, <3>1 DEF NotifyPredecessorCompleted
  <2>4. pc' \in [Workers -> Labels] BY <1>16 DEF NotifyPredecessorCompleted, Labels
  <2> QED BY <1>16, <2>2, <2>3, <2>4 DEF NotifyPredecessorCompleted
<1>17. ASSUME NEW w \in Workers, LoadCount(w) PROVE Shape'
  BY <1>17 DEF LoadCount, NextChild, Labels, Status, AtChild
<1>18. ASSUME NEW w \in Workers, MarkEnqueued(w) PROVE Shape'
  <2>1. pc' \in [Workers -> Labels] BY <1>18 DEF MarkEnqueued, NextChild, Labels
  <2>2. child' \in [Workers -> Nat \ {0}] BY <1>18 DEF MarkEnqueued, NextChild
  <2>3. hasBeenEnqueued' \in [Tasks -> BOOLEAN] BY <1>18 DEF MarkEnqueued
  <2> QED BY <1>18, <2>1, <2>2, <2>3 DEF MarkEnqueued
<1>19. ASSUME NEW w \in Workers, MarkTaskScheduled(w) PROVE Shape'
  <2>1. ChildTask(w) \in Tasks /\ Packet(w) \in Packets
    BY <1>19, LocalFacts, ChildFacts DEF MarkTaskScheduled, AtChild
  <2>2. batch' \in [Workers -> SUBSET Tasks] BY <1>19, <2>1 DEF MarkTaskScheduled
  <2>3. child' \in [Workers -> Nat \ {0}] BY <1>19 DEF MarkTaskScheduled, NextChild
  <2>4. inFlight' \in [Packets -> Int]
    <3>1. inFlight[Packet(w)] + 1 \in Int BY <2>1
    <3> QED BY <1>19, <3>1 DEF MarkTaskScheduled, CountTask
  <2>5. task' \in [Tasks -> Status] BY <1>19 DEF MarkTaskScheduled, Status
  <2>6. pc' \in [Workers -> Labels] BY <1>19 DEF MarkTaskScheduled, Labels
  <2> QED BY <1>19, <2>2, <2>3, <2>4, <2>5, <2>6 DEF MarkTaskScheduled
<1>20. ASSUME NEW w \in Workers, EnqueueBatch(w) PROVE Shape'
  BY <1>20 DEF EnqueueBatch, Labels, Status
<1>21. ASSUME NEW w \in Workers, MarkTaskFinished(w) PROVE Shape'
  <2>1. pc' \in [Workers -> Labels] BY <1>21 DEF MarkTaskFinished, BackToPool, Labels
  <2>2. cur' \in [Workers -> Tasks \cup {NoTask}] BY <1>21 DEF MarkTaskFinished, BackToPool
  <2>3. inFlight' \in [Packets -> Int]
    <3>1. inFlight[Packet(w)] - 1 \in Int BY <1>21, LocalFacts DEF MarkTaskFinished
    <3> QED BY <1>21, <3>1 DEF MarkTaskFinished
  <2>4. task' \in [Tasks -> Status] BY <1>21 DEF MarkTaskFinished, Status
  <2> QED BY <1>21, <2>1, <2>2, <2>3, <2>4 DEF MarkTaskFinished
<1>22. ASSUME NEW w \in Workers, TestGraphCompleted(w) PROVE Shape'
  BY <1>22 DEF TestGraphCompleted, BackToPool, Labels, Status
<1>23. ASSUME NEW w \in Workers, ClaimCompletion(w) PROVE Shape'
  BY <1>23 DEF ClaimCompletion, BackToPool, Labels, Status
<1>24. ASSUME NEW w \in Workers, OnGraphCompleted(w) PROVE Shape'
  BY <1>24 DEF OnGraphCompleted, BackToPool, Labels, Status
<1>25. CASE UNCHANGED vars
  BY <1>25 DEF vars
<1> QED
  BY <1>1, <1>2, <1>3, <1>4, <1>5, <1>6, <1>7, <1>8, <1>9, <1>10, <1>11, <1>12, <1>13, <1>14, <1>15, <1>16, <1>17, <1>18, <1>19, <1>20, <1>21, <1>22, <1>23, <1>24, <1>25 DEF Next, Worker, Advance, AllDelivered

(* The locals of one worker.                                               *)
LocalControl(v) ==
    /\ pc[v] = "idle" => cur[v] = NoTask
    /\ pc[v] # "idle" => cur[v] \in Tasks
    /\ pc[v] \notin Looping => batch[v] = {} /\ child[v] = 1
    /\ pc[v] \in AtChild => child[v] \in DOMAIN Children[Node(v)]
    /\ pc[v] \notin Holding => ctx[v] = NoContext
    /\ pc[v] = "release" => ctx[v] \in Contexts

(* Every step keeps a worker's locals in agreement with its program        *)
(* counter.                                                                *)
LEMMA ControlNext == Base /\ [Next]_vars => Control'
<1> SUFFICES ASSUME Base, [Next]_vars, NEW v \in Workers PROVE LocalControl(v)'
  BY DEF Control, LocalControl
<1>0. Shape /\ LocalControl(v) BY DEF Base, Control, LocalControl
<1> USE <1>0 DEF Shape, LocalControl, Goto, Node, Looping, AtChild, Holding,
        nodeState, packetState, processor, locals, history
<1>1. ASSUME NEW p \in Packets, SubmitPacket(p) PROVE LocalControl(v)'
  BY <1>1 DEF SubmitPacket
<1>2. ASSUME NEW w \in Workers, Dequeue(w) PROVE LocalControl(v)'
  BY <1>2 DEF Dequeue, Queued
<1>3. ASSUME NEW w \in Workers, ExecuteNode(w) PROVE LocalControl(v)'
  BY <1>3 DEF ExecuteNode
<1>4. ASSUME NEW w \in Workers, CheckFailed(w) PROVE LocalControl(v)'
  BY <1>4 DEF CheckFailed
<1>5. ASSUME NEW w \in Workers, AcquireGranted(w) PROVE LocalControl(v)'
  BY <1>5 DEF AcquireGranted, OfType
<1>6. ASSUME NEW w \in Workers, AcquireUnregistered(w) PROVE LocalControl(v)'
  BY <1>6 DEF AcquireUnregistered, AcquireNull
<1>7. ASSUME NEW w \in Workers, AcquireTimeout(w) PROVE LocalControl(v)'
  BY <1>7 DEF AcquireTimeout, AcquireNull
<1>8. ASSUME NEW w \in Workers, AcquireCancelled(w) PROVE LocalControl(v)'
  BY <1>8 DEF AcquireCancelled, AcquireNull
<1>9. ASSUME NEW w \in Workers, Recheck(w) PROVE LocalControl(v)'
  BY <1>9 DEF Recheck, ReleaseOrComplete
<1>10. ASSUME NEW w \in Workers, Execute(w) PROVE LocalControl(v)'
  BY <1>10 DEF Execute, ReleaseOrComplete
<1>11. ASSUME NEW w \in Workers, ExecuteThrows(w) PROVE LocalControl(v)'
  BY <1>11 DEF ExecuteThrows, ReleaseOrComplete
<1>12. ASSUME NEW w \in Workers, ExecuteEscapes(w) PROVE LocalControl(v)'
  BY <1>12 DEF ExecuteEscapes
<1>13. ASSUME NEW w \in Workers, Release(w) PROVE LocalControl(v)'
  BY <1>13 DEF Release
<1>14. ASSUME NEW w \in Workers, MarkNodeCompleted(w) PROVE LocalControl(v)'
  BY <1>14 DEF MarkNodeCompleted
<1>15. ASSUME NEW w \in Workers, MarkGraphCompleted(w) PROVE LocalControl(v)'
  BY <1>15 DEF MarkGraphCompleted
<1>16. ASSUME NEW w \in Workers, NotifyPredecessorCompleted(w) PROVE LocalControl(v)'
  BY <1>16 DEF NotifyPredecessorCompleted
<1>17. ASSUME NEW w \in Workers, LoadCount(w) PROVE LocalControl(v)'
  BY <1>17 DEF LoadCount, NextChild
<1>18. ASSUME NEW w \in Workers, MarkEnqueued(w) PROVE LocalControl(v)'
  BY <1>18 DEF MarkEnqueued, NextChild
<1>19. ASSUME NEW w \in Workers, MarkTaskScheduled(w) PROVE LocalControl(v)'
  BY <1>19 DEF MarkTaskScheduled, NextChild
<1>20. ASSUME NEW w \in Workers, EnqueueBatch(w) PROVE LocalControl(v)'
  BY <1>20 DEF EnqueueBatch
<1>21. ASSUME NEW w \in Workers, MarkTaskFinished(w) PROVE LocalControl(v)'
  BY <1>21 DEF MarkTaskFinished, BackToPool
<1>22. ASSUME NEW w \in Workers, TestGraphCompleted(w) PROVE LocalControl(v)'
  BY <1>22 DEF TestGraphCompleted, BackToPool
<1>23. ASSUME NEW w \in Workers, ClaimCompletion(w) PROVE LocalControl(v)'
  BY <1>23 DEF ClaimCompletion, BackToPool
<1>24. ASSUME NEW w \in Workers, OnGraphCompleted(w) PROVE LocalControl(v)'
  BY <1>24 DEF OnGraphCompleted, BackToPool
<1>25. CASE UNCHANGED vars
  BY <1>25 DEF vars
<1> QED
  BY <1>1, <1>2, <1>3, <1>4, <1>5, <1>6, <1>7, <1>8, <1>9, <1>10, <1>11, <1>12, <1>13, <1>14, <1>15, <1>16, <1>17, <1>18, <1>19, <1>20, <1>21, <1>22, <1>23, <1>24, <1>25 DEF Next, Worker, Advance, AllDelivered

(* Shape and control together are preserved.                               *)
LEMMA BaseStep == Base /\ [Next]_vars => Base'
BY ShapeNext, ControlNext DEF Base
-----------------------------------------------------------------------------
(* The steps before the loop over childIndices: they move the program      *)
(* counter of one worker and change no task, count or batch.               *)
Before == {"executeNode", "checkFailed", "acquire", "recheck", "execute",
           "release", "complete", "graphDone"}

Quiet(w) ==
    \/ ExecuteNode(w) \/ CheckFailed(w) \/ AcquireGranted(w)
    \/ AcquireUnregistered(w) \/ AcquireTimeout(w) \/ AcquireCancelled(w)
    \/ Recheck(w) \/ Execute(w) \/ ExecuteThrows(w)
    \/ Release(w) \/ MarkNodeCompleted(w) \/ MarkGraphCompleted(w)

(* What such a quiet step leaves alone.                                    *)
LEMMA QuietFrame ==
    ASSUME NEW w \in Workers, Quiet(w), Shape
    PROVE  /\ UNCHANGED <<unfinishedPredecessorCount, hasBeenEnqueued, inFlight,
                          completionNotified, activePackets, delivered, task,
                          cur, child, batch, notified>>
           /\ pc[w] \in Before
           /\ pc'[w] \in Before \cup {"notify", "finish"}
           /\ \A v \in Workers : v # w => pc'[v] = pc[v]
<1> USE DEF Shape, Goto, Before, nodeState, packetState, processor, locals, history
<1>1. CASE ExecuteNode(w) BY <1>1 DEF ExecuteNode
<1>2. CASE CheckFailed(w) BY <1>2 DEF CheckFailed
<1>3. CASE AcquireGranted(w) BY <1>3 DEF AcquireGranted
<1>4. CASE AcquireUnregistered(w) BY <1>4 DEF AcquireUnregistered, AcquireNull
<1>5. CASE AcquireTimeout(w) BY <1>5 DEF AcquireTimeout, AcquireNull
<1>6. CASE AcquireCancelled(w) BY <1>6 DEF AcquireCancelled, AcquireNull
<1>7. CASE Recheck(w) BY <1>7 DEF Recheck, ReleaseOrComplete
<1>8. CASE Execute(w) BY <1>8 DEF Execute, ReleaseOrComplete
<1>9. CASE ExecuteThrows(w) BY <1>9 DEF ExecuteThrows, ReleaseOrComplete
<1>10. CASE Release(w) BY <1>10 DEF Release
<1>11. CASE MarkNodeCompleted(w) BY <1>11 DEF MarkNodeCompleted
<1>12. CASE MarkGraphCompleted(w) BY <1>12 DEF MarkGraphCompleted
<1> QED BY <1>1, <1>2, <1>3, <1>4, <1>5, <1>6, <1>7, <1>8, <1>9, <1>10, <1>11,
           <1>12 DEF Quiet

(* A worker that does not move keeps the edge at hand.                     *)
LEMMA SameChildTask ==
    ASSUME NEW w \in Workers, cur'[w] = cur[w], child'[w] = child[w]
    PROVE  ChildTask(w)' = ChildTask(w)
BY DEF ChildTask, Packet, Node, Child

(* A step of worker u leaves the locals of every other worker alone.       *)
LEMMA OthersFrame ==
    ASSUME Shape, NEW u \in Workers, Worker(u), NEW w \in Workers, w # u
    PROVE  /\ pc'[w] = pc[w]
           /\ cur'[w] = cur[w]
           /\ child'[w] = child[w]
           /\ batch'[w] = batch[w]
           /\ ctx'[w] = ctx[w]
           /\ Packet(w)' = Packet(w)
           /\ Node(w)' = Node(w)
           /\ ChildTask(w)' = ChildTask(w)
<1>1. /\ pc'[w] = pc[w]
      /\ cur'[w] = cur[w]
      /\ child'[w] = child[w]
      /\ batch'[w] = batch[w]
      /\ ctx'[w] = ctx[w]
  <2> USE DEF Shape, Goto, nodeState, packetState, processor, locals, history
  <2>1. CASE Dequeue(u) BY <2>1 DEF Dequeue
  <2>2. CASE ExecuteNode(u) BY <2>2 DEF ExecuteNode
  <2>3. CASE CheckFailed(u) BY <2>3 DEF CheckFailed
  <2>4. CASE AcquireGranted(u) BY <2>4 DEF AcquireGranted
  <2>5. CASE AcquireUnregistered(u) BY <2>5 DEF AcquireUnregistered, AcquireNull
  <2>6. CASE AcquireTimeout(u) BY <2>6 DEF AcquireTimeout, AcquireNull
  <2>7. CASE AcquireCancelled(u) BY <2>7 DEF AcquireCancelled, AcquireNull
  <2>8. CASE Recheck(u) BY <2>8 DEF Recheck, ReleaseOrComplete
  <2>9. CASE Execute(u) BY <2>9 DEF Execute, ReleaseOrComplete
  <2>10. CASE ExecuteThrows(u) BY <2>10 DEF ExecuteThrows, ReleaseOrComplete
  <2>11. CASE ExecuteEscapes(u) BY <2>11 DEF ExecuteEscapes
  <2>12. CASE Release(u) BY <2>12 DEF Release
  <2>13. CASE MarkNodeCompleted(u) BY <2>13 DEF MarkNodeCompleted
  <2>14. CASE MarkGraphCompleted(u) BY <2>14 DEF MarkGraphCompleted
  <2>15. CASE NotifyPredecessorCompleted(u) BY <2>15 DEF NotifyPredecessorCompleted
  <2>16. CASE LoadCount(u) BY <2>16 DEF LoadCount, NextChild
  <2>17. CASE MarkEnqueued(u) BY <2>17 DEF MarkEnqueued, NextChild
  <2>18. CASE MarkTaskScheduled(u) BY <2>18 DEF MarkTaskScheduled, NextChild
  <2>19. CASE EnqueueBatch(u) BY <2>19 DEF EnqueueBatch
  <2>20. CASE MarkTaskFinished(u) BY <2>20 DEF MarkTaskFinished, BackToPool
  <2>21. CASE TestGraphCompleted(u) BY <2>21 DEF TestGraphCompleted, BackToPool
  <2>22. CASE ClaimCompletion(u) BY <2>22 DEF ClaimCompletion, BackToPool
  <2>23. CASE OnGraphCompleted(u) BY <2>23 DEF OnGraphCompleted, BackToPool
  <2> QED BY <2>1, <2>2, <2>3, <2>4, <2>5, <2>6, <2>7, <2>8, <2>9, <2>10, <2>11, <2>12, <2>13, <2>14, <2>15, <2>16, <2>17, <2>18, <2>19, <2>20, <2>21, <2>22, <2>23 DEF Worker, Advance
<1> QED BY <1>1 DEF Packet, Node, Child, ChildTask
-----------------------------------------------------------------------------
(* Who may act on a task.  A running task has one worker; a task being     *)
(* created was claimed in hasBeenEnqueued by one worker, and a batch is    *)
(* its worker's own.                                                       *)
OwnWorker(w) ==
    /\ pc[w] \in Running => task[cur[w]] = "running"
    /\ \A t \in batch[w] : task[t] = "ready"
    /\ pc[w] = "schedule" =>
          task[ChildTask(w)] = "none" /\ hasBeenEnqueued[ChildTask(w)]

OwnPair(w, v) ==
    /\ pc[w] \in Running /\ pc[v] \in Running => cur[w] # cur[v]
    /\ batch[w] \cap batch[v] = {}
    /\ pc[w] = "schedule" /\ pc[v] = "schedule" => ChildTask(w) # ChildTask(v)

OwnTask(t) ==
    /\ ~ hasBeenEnqueued[t] /\ t[2] # Input => task[t] = "none"
    /\ ~ Submitted(t[1]) => task[t] = "none"

Ownership ==
    /\ \A w \in Workers : OwnWorker(w)
    /\ \A w, v \in Workers : w # v => OwnPair(w, v)
    /\ \A t \in Tasks : OwnTask(t)

(* Nobody owns a task in the beginning.                                    *)
LEMMA OwnershipInit == Init => Ownership
BY DEF Init, Ownership, OwnWorker, OwnPair, OwnTask, Running, Handing

(* Each worker's own tasks stay its own, by the exchange on                *)
(* hasBeenEnqueued.                                                        *)
LEMMA OwnWorkerNext ==
    ASSUME Base, Ownership, [Next]_vars, NEW w \in Workers
    PROVE  OwnWorker(w)'
<1>0. /\ Shape
      /\ OwnWorker(w)
      /\ \A v \in Workers : v # w => OwnPair(v, w) /\ OwnPair(w, v)
      /\ \A t \in Tasks : OwnTask(t)
      /\ pc[w] # "idle" => cur[w] \in Tasks
      /\ pc[w] = "schedule" => ChildTask(w) \in Tasks /\ ChildTask(w)[2] # Input
  BY LocalFacts, ChildFacts DEF Base, Ownership, ChildTask, AtChild
<1> USE <1>0 DEF Shape, OwnWorker, OwnPair, OwnTask, Running, Handing, Labels, Goto,
        nodeState, packetState, processor, locals, history
<1>1. ASSUME NEW p \in Packets, SubmitPacket(p) PROVE OwnWorker(w)'
  <2>1. <<p, Input>> \in Tasks /\ task[<<p, Input>>] = "none"
    BY <1>1, NodeFacts DEF SubmitPacket, Submitted, Tasks, OwnTask
  <2>2. /\ UNCHANGED <<pc, cur, batch, hasBeenEnqueued>>
        /\ ChildTask(w)' = ChildTask(w)
        /\ task' = [task EXCEPT ![<<p, Input>>] = "queued"]
    BY <1>1 DEF SubmitPacket, ChildTask, Packet, Node, Child
  <2>3. pc[w] \in Running => cur[w] \in Tasks /\ cur[w] # <<p, Input>> BY <2>1
  <2>4. pc[w] = "schedule" => ChildTask(w) # <<p, Input>> BY <2>1
  <2>5. \A t \in batch[w] : t \in Tasks /\ t # <<p, Input>> BY <2>1
  <2> QED BY <2>2, <2>3, <2>4, <2>5
<1>2. ASSUME NEW u \in Workers, Quiet(u) PROVE OwnWorker(w)'
  BY <1>2, QuietFrame, SameChildTask DEF Before
<1>3. ASSUME NEW u \in Workers, Dequeue(u) PROVE OwnWorker(w)'
  <2>1. w # u => /\ UNCHANGED <<pc[w], cur[w], child[w], batch[w], ChildTask(w)>>
    BY <1>3, OthersFrame DEF Worker, Advance
  <2> QED BY <1>3, <2>1 DEF Dequeue, Queued
<1>4. ASSUME NEW u \in Workers, ExecuteEscapes(u) PROVE OwnWorker(w)'
  <2>1. w # u => /\ UNCHANGED <<pc[w], cur[w], child[w], batch[w], ChildTask(w)>>
    BY <1>4, OthersFrame DEF Worker, Advance
  <2>2. cur[u] \in Tasks /\ OwnWorker(u) /\ (w # u => OwnPair(w, u))
    BY <1>4, LocalFacts DEF ExecuteEscapes, Base, Ownership
  <2> QED BY <1>4, <2>1, <2>2 DEF ExecuteEscapes
<1>5. ASSUME NEW u \in Workers, NotifyPredecessorCompleted(u) PROVE OwnWorker(w)'
  <2>1. w # u => /\ UNCHANGED <<pc[w], cur[w], child[w], batch[w], ChildTask(w)>>
    BY <1>5, OthersFrame DEF Worker, Advance
  <2>2. cur[u] \in Tasks /\ OwnWorker(u) /\ (w # u => OwnPair(w, u))
    BY <1>5, LocalFacts DEF NotifyPredecessorCompleted, Base, Ownership
  <2> QED BY <1>5, <2>1, <2>2 DEF NotifyPredecessorCompleted
<1>6. ASSUME NEW u \in Workers, LoadCount(u) PROVE OwnWorker(w)'
  <2>1. w # u => /\ UNCHANGED <<pc[w], cur[w], child[w], batch[w], ChildTask(w)>>
    BY <1>6, OthersFrame DEF Worker, Advance
  <2>2. ChildTask(u) \in Tasks /\ OwnWorker(u) /\ (w # u => OwnPair(w, u)) /\ OwnTask(ChildTask(u))
    BY <1>6, ChildFacts DEF LoadCount, Base, Ownership, AtChild
  <2>3. cur'[u] = cur[u] /\ child'[u] = child[u] => ChildTask(u)' = ChildTask(u)
    BY SameChildTask
  <2> QED BY <1>6, <2>1, <2>2, <2>3 DEF LoadCount, NextChild
<1>7. ASSUME NEW u \in Workers, MarkEnqueued(u) PROVE OwnWorker(w)'
  <2>1. w # u => /\ UNCHANGED <<pc[w], cur[w], child[w], batch[w], ChildTask(w)>>
    BY <1>7, OthersFrame DEF Worker, Advance
  <2>2. /\ ChildTask(u) \in Tasks
        /\ ~ hasBeenEnqueued[ChildTask(u)] => task[ChildTask(u)] = "none"
    <3>1. ChildTask(u) \in Tasks /\ ChildTask(u)[2] # Input
      <4>1. pc[u] \in AtChild BY <1>7 DEF MarkEnqueued, AtChild
      <4> QED BY <4>1, ChildFacts
    <3> QED BY <3>1
  <2>3. cur'[u] = cur[u] /\ child'[u] = child[u] => ChildTask(u)' = ChildTask(u)
    BY SameChildTask
  <2> QED BY <1>7, <2>1, <2>2, <2>3 DEF MarkEnqueued, NextChild, AlreadyEnqueued
<1>8. ASSUME NEW u \in Workers, MarkTaskScheduled(u) PROVE OwnWorker(w)'
  <2>1. w # u => /\ UNCHANGED <<pc[w], cur[w], child[w], batch[w], ChildTask(w)>>
    BY <1>8, OthersFrame DEF Worker, Advance
  <2>2. ChildTask(u) \in Tasks /\ OwnWorker(u) /\ (w # u => OwnPair(w, u)) /\ OwnTask(ChildTask(u))
    BY <1>8, ChildFacts DEF MarkTaskScheduled, Base, Ownership, AtChild
  <2>3. cur'[u] = cur[u] /\ child'[u] = child[u] => ChildTask(u)' = ChildTask(u)
    BY SameChildTask
  <2> QED BY <1>8, <2>1, <2>2, <2>3 DEF MarkTaskScheduled, NextChild
<1>9. ASSUME NEW u \in Workers, EnqueueBatch(u) PROVE OwnWorker(w)'
  <2>1. w # u => /\ UNCHANGED <<pc[w], cur[w], child[w], batch[w], ChildTask(w)>>
    BY <1>9, OthersFrame DEF Worker, Advance
  <2>2. cur[u] \in Tasks /\ OwnWorker(u) /\ (w # u => OwnPair(w, u))
    BY <1>9, LocalFacts DEF EnqueueBatch, Base, Ownership
  <2> QED BY <1>9, <2>1, <2>2 DEF EnqueueBatch
<1>10. ASSUME NEW u \in Workers, MarkTaskFinished(u) PROVE OwnWorker(w)'
  <2>1. w # u => /\ UNCHANGED <<pc[w], cur[w], child[w], batch[w], ChildTask(w)>>
    BY <1>10, OthersFrame DEF Worker, Advance
  <2>2. cur[u] \in Tasks /\ OwnWorker(u) /\ (w # u => OwnPair(w, u))
    BY <1>10, LocalFacts DEF MarkTaskFinished, Base, Ownership
  <2> QED BY <1>10, <2>1, <2>2 DEF MarkTaskFinished, BackToPool
<1>11. ASSUME NEW u \in Workers, TestGraphCompleted(u) PROVE OwnWorker(w)'
  <2>1. w # u => /\ UNCHANGED <<pc[w], cur[w], child[w], batch[w], ChildTask(w)>>
    BY <1>11, OthersFrame DEF Worker, Advance
  <2>2. cur[u] \in Tasks /\ OwnWorker(u) /\ (w # u => OwnPair(w, u))
    BY <1>11, LocalFacts DEF TestGraphCompleted, Base, Ownership
  <2> QED BY <1>11, <2>1, <2>2 DEF TestGraphCompleted, BackToPool
<1>12. ASSUME NEW u \in Workers, ClaimCompletion(u) PROVE OwnWorker(w)'
  <2>1. w # u => /\ UNCHANGED <<pc[w], cur[w], child[w], batch[w], ChildTask(w)>>
    BY <1>12, OthersFrame DEF Worker, Advance
  <2>2. cur[u] \in Tasks /\ OwnWorker(u) /\ (w # u => OwnPair(w, u))
    BY <1>12, LocalFacts DEF ClaimCompletion, Base, Ownership
  <2> QED BY <1>12, <2>1, <2>2 DEF ClaimCompletion, BackToPool
<1>13. ASSUME NEW u \in Workers, OnGraphCompleted(u) PROVE OwnWorker(w)'
  <2>1. w # u => /\ UNCHANGED <<pc[w], cur[w], child[w], batch[w], ChildTask(w)>>
    BY <1>13, OthersFrame DEF Worker, Advance
  <2>2. cur[u] \in Tasks /\ OwnWorker(u) /\ (w # u => OwnPair(w, u))
    BY <1>13, LocalFacts DEF OnGraphCompleted, Base, Ownership
  <2> QED BY <1>13, <2>1, <2>2 DEF OnGraphCompleted, BackToPool
<1>14. CASE UNCHANGED vars
  BY <1>14 DEF vars, ChildTask, Packet, Node, Child
<1> QED
  BY <1>1, <1>2, <1>3, <1>4, <1>5, <1>6, <1>7, <1>8, <1>9, <1>10, <1>11, <1>12, <1>13, <1>14
     DEF Next, Worker, Advance, AllDelivered, Quiet

(* No two workers come to own the same task.                               *)
LEMMA OwnPairNext ==
    ASSUME Base, Ownership, [Next]_vars,
           NEW w \in Workers, NEW v \in Workers, w # v
    PROVE  OwnPair(w, v)'
<1>0. /\ Shape
      /\ OwnWorker(w) /\ OwnWorker(v) /\ OwnPair(w, v)
      /\ pc[w] # "idle" => cur[w] \in Tasks
      /\ pc[v] # "idle" => cur[v] \in Tasks
  BY LocalFacts DEF Base, Ownership
<1> USE <1>0 DEF Shape, OwnWorker, OwnPair, Running, Handing, Labels, Goto,
        nodeState, packetState, processor, locals, history
<1>1. ASSUME NEW p \in Packets, SubmitPacket(p) PROVE OwnPair(w, v)'
  <2>1. UNCHANGED <<pc, cur, child, batch>> BY <1>1 DEF SubmitPacket
  <2> QED BY <2>1, SameChildTask
<1>2. ASSUME NEW u \in Workers, Quiet(u) PROVE OwnPair(w, v)'
  BY <1>2, QuietFrame, SameChildTask DEF Before
<1>3. ASSUME NEW u \in Workers, Dequeue(u) PROVE OwnPair(w, v)'
  <2>1. /\ w # u => UNCHANGED <<pc[w], cur[w], child[w], batch[w], ChildTask(w)>>
        /\ v # u => UNCHANGED <<pc[v], cur[v], child[v], batch[v], ChildTask(v)>>
    BY <1>3, OthersFrame DEF Worker, Advance
  <2> QED BY <1>3, <2>1 DEF Dequeue, Queued
<1>4. ASSUME NEW u \in Workers, ExecuteEscapes(u) PROVE OwnPair(w, v)'
  <2>1. /\ w # u => UNCHANGED <<pc[w], cur[w], child[w], batch[w], ChildTask(w)>>
        /\ v # u => UNCHANGED <<pc[v], cur[v], child[v], batch[v], ChildTask(v)>>
    BY <1>4, OthersFrame DEF Worker, Advance
  <2> QED BY <1>4, <2>1 DEF ExecuteEscapes
<1>5. ASSUME NEW u \in Workers, NotifyPredecessorCompleted(u) PROVE OwnPair(w, v)'
  <2>1. /\ w # u => UNCHANGED <<pc[w], cur[w], child[w], batch[w], ChildTask(w)>>
        /\ v # u => UNCHANGED <<pc[v], cur[v], child[v], batch[v], ChildTask(v)>>
    BY <1>5, OthersFrame DEF Worker, Advance
  <2> QED BY <1>5, <2>1 DEF NotifyPredecessorCompleted
<1>6. ASSUME NEW u \in Workers, LoadCount(u) PROVE OwnPair(w, v)'
  <2>1. /\ w # u => UNCHANGED <<pc[w], cur[w], child[w], batch[w], ChildTask(w)>>
        /\ v # u => UNCHANGED <<pc[v], cur[v], child[v], batch[v], ChildTask(v)>>
    BY <1>6, OthersFrame DEF Worker, Advance
  <2> QED BY <1>6, <2>1 DEF LoadCount, NextChild
<1>7. ASSUME NEW u \in Workers, MarkEnqueued(u) PROVE OwnPair(w, v)'
  <2>1. /\ w # u => UNCHANGED <<pc[w], cur[w], child[w], batch[w], ChildTask(w)>>
        /\ v # u => UNCHANGED <<pc[v], cur[v], child[v], batch[v], ChildTask(v)>>
    BY <1>7, OthersFrame DEF Worker, Advance
  <2>2. cur'[u] = cur[u] /\ child'[u] = child[u] => ChildTask(u)' = ChildTask(u)
    BY SameChildTask
  <2> QED BY <1>7, <2>1, <2>2 DEF MarkEnqueued, NextChild, AlreadyEnqueued
<1>8. ASSUME NEW u \in Workers, MarkTaskScheduled(u) PROVE OwnPair(w, v)'
  <2>1. /\ w # u => UNCHANGED <<pc[w], cur[w], child[w], batch[w], ChildTask(w)>>
        /\ v # u => UNCHANGED <<pc[v], cur[v], child[v], batch[v], ChildTask(v)>>
    BY <1>8, OthersFrame DEF Worker, Advance
  <2> QED BY <1>8, <2>1 DEF MarkTaskScheduled, NextChild
<1>9. ASSUME NEW u \in Workers, EnqueueBatch(u) PROVE OwnPair(w, v)'
  <2>1. /\ w # u => UNCHANGED <<pc[w], cur[w], child[w], batch[w], ChildTask(w)>>
        /\ v # u => UNCHANGED <<pc[v], cur[v], child[v], batch[v], ChildTask(v)>>
    BY <1>9, OthersFrame DEF Worker, Advance
  <2> QED BY <1>9, <2>1 DEF EnqueueBatch
<1>10. ASSUME NEW u \in Workers, MarkTaskFinished(u) PROVE OwnPair(w, v)'
  <2>1. /\ w # u => UNCHANGED <<pc[w], cur[w], child[w], batch[w], ChildTask(w)>>
        /\ v # u => UNCHANGED <<pc[v], cur[v], child[v], batch[v], ChildTask(v)>>
    BY <1>10, OthersFrame DEF Worker, Advance
  <2> QED BY <1>10, <2>1 DEF MarkTaskFinished, BackToPool
<1>11. ASSUME NEW u \in Workers, TestGraphCompleted(u) PROVE OwnPair(w, v)'
  <2>1. /\ w # u => UNCHANGED <<pc[w], cur[w], child[w], batch[w], ChildTask(w)>>
        /\ v # u => UNCHANGED <<pc[v], cur[v], child[v], batch[v], ChildTask(v)>>
    BY <1>11, OthersFrame DEF Worker, Advance
  <2> QED BY <1>11, <2>1 DEF TestGraphCompleted, BackToPool
<1>12. ASSUME NEW u \in Workers, ClaimCompletion(u) PROVE OwnPair(w, v)'
  <2>1. /\ w # u => UNCHANGED <<pc[w], cur[w], child[w], batch[w], ChildTask(w)>>
        /\ v # u => UNCHANGED <<pc[v], cur[v], child[v], batch[v], ChildTask(v)>>
    BY <1>12, OthersFrame DEF Worker, Advance
  <2> QED BY <1>12, <2>1 DEF ClaimCompletion, BackToPool
<1>13. ASSUME NEW u \in Workers, OnGraphCompleted(u) PROVE OwnPair(w, v)'
  <2>1. /\ w # u => UNCHANGED <<pc[w], cur[w], child[w], batch[w], ChildTask(w)>>
        /\ v # u => UNCHANGED <<pc[v], cur[v], child[v], batch[v], ChildTask(v)>>
    BY <1>13, OthersFrame DEF Worker, Advance
  <2> QED BY <1>13, <2>1 DEF OnGraphCompleted, BackToPool
<1>14. CASE UNCHANGED vars
  BY <1>14, SameChildTask DEF vars
<1> QED
  BY <1>1, <1>2, <1>3, <1>4, <1>5, <1>6, <1>7, <1>8, <1>9, <1>10, <1>11, <1>12, <1>13, <1>14
     DEF Next, Worker, Advance, AllDelivered, Quiet

(* A running task keeps a worker, and a task that is created was claimed   *)
(* before.                                                                 *)
LEMMA OwnTaskNext ==
    ASSUME Base, Ownership, [Next]_vars, NEW t \in Tasks
    PROVE  OwnTask(t)'
<1>0. /\ Shape
      /\ OwnTask(t)
      /\ t[1] \in Packets
  BY DEF Base, Ownership, Tasks
<1> USE <1>0 DEF Shape, OwnTask, Submitted, Running, Handing, Labels, Goto,
        nodeState, packetState, processor, locals, history
<1>1. ASSUME NEW p \in Packets, SubmitPacket(p) PROVE OwnTask(t)'
  BY <1>1, NodeFacts DEF SubmitPacket, Tasks
<1>2. ASSUME NEW u \in Workers, Quiet(u) PROVE OwnTask(t)'
  BY <1>2, QuietFrame
<1>3. ASSUME NEW u \in Workers, Dequeue(u) PROVE OwnTask(t)'
  <2> QED BY <1>3 DEF Dequeue, Queued, OwnWorker
<1>4. ASSUME NEW u \in Workers, ExecuteEscapes(u) PROVE OwnTask(t)'
  <2>1. cur[u] \in Tasks /\ OwnWorker(u) BY <1>4, LocalFacts DEF ExecuteEscapes, Ownership
  <2> QED BY <1>4, <2>1 DEF ExecuteEscapes, OwnWorker
<1>5. ASSUME NEW u \in Workers, NotifyPredecessorCompleted(u) PROVE OwnTask(t)'
  <2>1. cur[u] \in Tasks /\ OwnWorker(u) BY <1>5, LocalFacts DEF NotifyPredecessorCompleted, Ownership
  <2> QED BY <1>5, <2>1 DEF NotifyPredecessorCompleted, OwnWorker
<1>6. ASSUME NEW u \in Workers, LoadCount(u) PROVE OwnTask(t)'
  <2>1. cur[u] \in Tasks /\ OwnWorker(u) BY <1>6, LocalFacts DEF LoadCount, Ownership
  <2> QED BY <1>6, <2>1 DEF LoadCount, NextChild, OwnWorker
<1>7. ASSUME NEW u \in Workers, MarkEnqueued(u) PROVE OwnTask(t)'
  <2>1. cur[u] \in Tasks /\ OwnWorker(u) BY <1>7, LocalFacts DEF MarkEnqueued, Ownership
  <2> QED BY <1>7, <2>1 DEF MarkEnqueued, NextChild, AlreadyEnqueued, OwnWorker
<1>8. ASSUME NEW u \in Workers, MarkTaskScheduled(u) PROVE OwnTask(t)'
  <2>1. cur[u] \in Tasks /\ OwnWorker(u) BY <1>8, LocalFacts DEF MarkTaskScheduled, Ownership
  <2>2. hasBeenEnqueued[ChildTask(u)] /\ task[cur[u]] = "running"
    BY <1>8, <2>1 DEF MarkTaskScheduled, OwnWorker
  <2>3. ChildTask(u)[1] = cur[u][1]
    <3>1. pc[u] \in AtChild BY <1>8 DEF MarkTaskScheduled, AtChild
    <3> QED BY <3>1, ChildFacts DEF Packet
  <2>4. Submitted(cur[u][1])
    <3>1. OwnTask(cur[u]) BY <2>1 DEF Ownership
    <3> QED BY <3>1, <2>2
  <2> QED BY <1>8, <2>2, <2>3, <2>4 DEF MarkTaskScheduled
<1>9. ASSUME NEW u \in Workers, EnqueueBatch(u) PROVE OwnTask(t)'
  <2>1. cur[u] \in Tasks /\ OwnWorker(u) BY <1>9, LocalFacts DEF EnqueueBatch, Ownership
  <2> QED BY <1>9, <2>1 DEF EnqueueBatch, OwnWorker
<1>10. ASSUME NEW u \in Workers, MarkTaskFinished(u) PROVE OwnTask(t)'
  <2>1. cur[u] \in Tasks /\ OwnWorker(u) BY <1>10, LocalFacts DEF MarkTaskFinished, Ownership
  <2> QED BY <1>10, <2>1 DEF MarkTaskFinished, BackToPool, OwnWorker
<1>11. ASSUME NEW u \in Workers, TestGraphCompleted(u) PROVE OwnTask(t)'
  <2>1. cur[u] \in Tasks /\ OwnWorker(u) BY <1>11, LocalFacts DEF TestGraphCompleted, Ownership
  <2> QED BY <1>11, <2>1 DEF TestGraphCompleted, BackToPool, OwnWorker
<1>12. ASSUME NEW u \in Workers, ClaimCompletion(u) PROVE OwnTask(t)'
  <2>1. cur[u] \in Tasks /\ OwnWorker(u) BY <1>12, LocalFacts DEF ClaimCompletion, Ownership
  <2> QED BY <1>12, <2>1 DEF ClaimCompletion, BackToPool, OwnWorker
<1>13. ASSUME NEW u \in Workers, OnGraphCompleted(u) PROVE OwnTask(t)'
  <2>1. cur[u] \in Tasks /\ OwnWorker(u) BY <1>13, LocalFacts DEF OnGraphCompleted, Ownership
  <2> QED BY <1>13, <2>1 DEF OnGraphCompleted, BackToPool, OwnWorker
<1>14. CASE UNCHANGED vars
  BY <1>14 DEF vars
<1> QED
  BY <1>1, <1>2, <1>3, <1>4, <1>5, <1>6, <1>7, <1>8, <1>9, <1>10, <1>11, <1>12, <1>13, <1>14
     DEF Next, Worker, Advance, AllDelivered, Quiet

(* Ownership is preserved.                                                 *)
LEMMA OwnershipStep == Base /\ Ownership /\ [Next]_vars => Ownership'
BY OwnWorkerNext, OwnPairNext, OwnTaskNext DEF Ownership

(* The life of a task, step by step.                                       *)
LEMMA TaskStepNext ==
    ASSUME Base, Ownership, [Next]_vars, NEW t \in Tasks
    PROVE  TaskStep(t)
<1>0. Shape /\ OwnTask(t) BY DEF Base, Ownership
<1> USE <1>0 DEF Shape, TaskStep, nodeState, packetState, processor, locals, history
<1>1. ASSUME NEW p \in Packets, SubmitPacket(p) PROVE TaskStep(t)
  <2>1. task[<<p, Input>>] = "none"
    <3>1. <<p, Input>> \in Tasks BY NodeFacts DEF Tasks
    <3>2. OwnTask(<<p, Input>>) BY <3>1 DEF Ownership
    <3> QED BY <1>1, <3>2 DEF SubmitPacket, OwnTask, Submitted
  <2> QED BY <1>1, <2>1 DEF SubmitPacket
<1>2. ASSUME NEW u \in Workers, Quiet(u) PROVE TaskStep(t)
  BY <1>2, QuietFrame
<1>3. ASSUME NEW u \in Workers, Dequeue(u) PROVE TaskStep(t)
  BY <1>3 DEF Dequeue, Queued
<1>4. ASSUME NEW u \in Workers, ExecuteEscapes(u) PROVE TaskStep(t)
  <2>1. OwnWorker(u) BY DEF Ownership
  <2> QED BY <1>4, <2>1 DEF ExecuteEscapes, OwnWorker, Running, Handing, Labels
<1>5. ASSUME NEW u \in Workers, NotifyPredecessorCompleted(u) PROVE TaskStep(t)
  BY <1>5 DEF NotifyPredecessorCompleted
<1>6. ASSUME NEW u \in Workers, LoadCount(u) PROVE TaskStep(t)
  BY <1>6 DEF LoadCount, NextChild
<1>7. ASSUME NEW u \in Workers, MarkEnqueued(u) PROVE TaskStep(t)
  BY <1>7 DEF MarkEnqueued, NextChild, AlreadyEnqueued
<1>8. ASSUME NEW u \in Workers, MarkTaskScheduled(u) PROVE TaskStep(t)
  <2>1. OwnWorker(u) BY DEF Ownership
  <2> QED BY <1>8, <2>1 DEF MarkTaskScheduled, OwnWorker, Running, Handing, Labels
<1>9. ASSUME NEW u \in Workers, EnqueueBatch(u) PROVE TaskStep(t)
  <2>1. OwnWorker(u) BY DEF Ownership
  <2> QED BY <1>9, <2>1 DEF EnqueueBatch, OwnWorker, Running, Handing, Labels
<1>10. ASSUME NEW u \in Workers, MarkTaskFinished(u) PROVE TaskStep(t)
  <2>1. OwnWorker(u) BY DEF Ownership
  <2> QED BY <1>10, <2>1 DEF MarkTaskFinished, OwnWorker, Running, Handing, Labels
<1>11. ASSUME NEW u \in Workers, TestGraphCompleted(u) PROVE TaskStep(t)
  BY <1>11 DEF TestGraphCompleted, BackToPool
<1>12. ASSUME NEW u \in Workers, ClaimCompletion(u) PROVE TaskStep(t)
  BY <1>12 DEF ClaimCompletion, BackToPool
<1>13. ASSUME NEW u \in Workers, OnGraphCompleted(u) PROVE TaskStep(t)
  BY <1>13 DEF OnGraphCompleted, BackToPool
<1>14. CASE UNCHANGED vars
  BY <1>14 DEF vars
<1> QED
  BY <1>1, <1>2, <1>3, <1>4, <1>5, <1>6, <1>7, <1>8, <1>9, <1>10, <1>11, <1>12, <1>13, <1>14
     DEF Next, Worker, Advance, AllDelivered, Quiet

-----------------------------------------------------------------------------
(* inFlight counts the live tasks.                                         *)
LEMMA LiveFinite ==
    ASSUME NEW p \in Packets
    PROVE  /\ IsFiniteSet(LiveNodes(p))
           /\ Cardinality(LiveNodes(p)) \in Nat
<1>1. IsFiniteSet(Nodes)
  <2>1. N - 1 \in Int BY GraphAssumption DEF GraphAssumption
  <2> QED BY <2>1, FS_Interval DEF Nodes
<1>2. LiveNodes(p) \in SUBSET Nodes BY DEF LiveNodes
<1>3. IsFiniteSet(LiveNodes(p)) BY <1>1, <1>2, FS_Subset
<1> QED BY <1>3, FS_CardinalityType

(* A packet with a live task has a positive number of them.                *)
LEMMA LivePositive ==
    ASSUME InFlightCounts, NEW t \in Tasks, task[t] \in Live
    PROVE  inFlight[t[1]] \in Nat \ {0}
<1>1. t[1] \in Packets /\ t[2] \in Nodes /\ t = <<t[1], t[2]>> BY DEF Tasks
<1>2. t[2] \in LiveNodes(t[1]) BY <1>1 DEF LiveNodes
<1>3. Cardinality(LiveNodes(t[1])) # 0 BY <1>1, <1>2, LiveFinite, FS_EmptySet
<1> QED BY <1>1, <1>3, LiveFinite DEF InFlightCounts

(* Every step changes inFlight of a packet by what it changes the set of   *)
(* its live tasks.                                                         *)
LEMMA CountsNext ==
    ASSUME Base, Ownership, InFlightCounts, [Next]_vars, NEW q \in Packets
    PROVE  inFlight'[q] = Cardinality(LiveNodes(q))'
<1>0. Shape /\ inFlight[q] = Cardinality(LiveNodes(q))
  BY DEF Base, InFlightCounts
<1>a. ASSUME UNCHANGED inFlight, LiveNodes(q)' = LiveNodes(q)
      PROVE  inFlight'[q] = Cardinality(LiveNodes(q))'
  BY <1>0, <1>a
<1> USE <1>0 DEF Shape, nodeState, packetState, processor, locals, history
<1>1. ASSUME NEW p \in Packets, SubmitPacket(p)
      PROVE  inFlight'[q] = Cardinality(LiveNodes(q))'
  <2>1. task[<<p, Input>>] = "none" /\ Input \in Nodes
    <3>1. <<p, Input>> \in Tasks BY NodeFacts DEF Tasks
    <3>2. OwnTask(<<p, Input>>) BY <3>1 DEF Ownership
    <3> QED BY <1>1, <3>2, NodeFacts DEF SubmitPacket, OwnTask, Submitted
  <2>2. CASE q = p
    <3>1. LiveNodes(q)' = LiveNodes(q) \cup {Input}
      BY <1>1, <2>1, <2>2 DEF SubmitPacket, LiveNodes, Live, Tasks
    <3>2. Input \notin LiveNodes(q) BY <2>1, <2>2 DEF LiveNodes, Live
    <3>3. Cardinality(LiveNodes(q))' = Cardinality(LiveNodes(q)) + 1
      <4>1. IsFiniteSet(LiveNodes(q)) BY LiveFinite
      <4>2. Cardinality(LiveNodes(q) \cup {Input}) = Cardinality(LiveNodes(q)) + 1
        BY <3>2, <4>1, FS_AddElement
      <4> QED BY <3>1, <4>2
    <3> QED BY <1>1, <2>2, <3>3 DEF SubmitPacket, CountTask
  <2>3. CASE q # p
    <3>1. LiveNodes(q)' = LiveNodes(q)
      BY <1>1, <2>3 DEF SubmitPacket, LiveNodes, Tasks
    <3> QED BY <1>1, <2>3, <3>1 DEF SubmitPacket, CountTask
  <2> QED BY <2>2, <2>3
<1>2. ASSUME NEW u \in Workers, Quiet(u)
      PROVE  inFlight'[q] = Cardinality(LiveNodes(q))'
  BY <1>2, <1>a, QuietFrame DEF LiveNodes
<1>3. ASSUME NEW u \in Workers, MarkTaskScheduled(u)
      PROVE  inFlight'[q] = Cardinality(LiveNodes(q))'
  <2>1. /\ pc[u] \in AtChild
        /\ task[ChildTask(u)] = "none"
    BY <1>3 DEF MarkTaskScheduled, AtChild, Ownership, OwnWorker
  <2>2. /\ ChildTask(u) = <<Packet(u), Child(u)>>
        /\ ChildTask(u) \in Tasks
        /\ Child(u) \in Nodes
    BY <2>1, ChildFacts DEF ChildTask
  <2>3. task' = [task EXCEPT ![<<Packet(u), Child(u)>>] = "ready"]
    BY <1>3, <2>2 DEF MarkTaskScheduled
  <2>4. CASE q = Packet(u)
    <3>1. LiveNodes(q)' = LiveNodes(q) \cup {Child(u)}
      BY <2>2, <2>3, <2>4 DEF LiveNodes, Live, Tasks
    <3>2. Child(u) \notin LiveNodes(q) BY <2>1, <2>2, <2>4 DEF LiveNodes, Live
    <3>3. Cardinality(LiveNodes(q))' = Cardinality(LiveNodes(q)) + 1
      <4>1. IsFiniteSet(LiveNodes(q)) BY LiveFinite
      <4>2. Cardinality(LiveNodes(q) \cup {Child(u)}) = Cardinality(LiveNodes(q)) + 1
        BY <3>2, <4>1, FS_AddElement
      <4> QED BY <3>1, <4>2
    <3> QED BY <1>3, <2>4, <3>3 DEF MarkTaskScheduled, CountTask
  <2>5. CASE q # Packet(u)
    <3>1. LiveNodes(q)' = LiveNodes(q)
      BY <2>2, <2>3, <2>5 DEF LiveNodes, Tasks
    <3> QED BY <1>3, <2>5, <3>1 DEF MarkTaskScheduled, CountTask
  <2> QED BY <2>4, <2>5
<1>4. ASSUME NEW u \in Workers, MarkTaskFinished(u)
      PROVE  inFlight'[q] = Cardinality(LiveNodes(q))'
  <2>1. /\ pc[u] # "idle"
        /\ task[cur[u]] = "running"
    BY <1>4 DEF MarkTaskFinished, Ownership, OwnWorker, Running, Handing, Labels
  <2>2. /\ cur[u] = <<Packet(u), Node(u)>>
        /\ Packet(u) \in Packets
        /\ Node(u) \in Nodes
    BY <2>1, LocalFacts
  <2>3. task' = [task EXCEPT ![<<Packet(u), Node(u)>>] = "finished"]
    BY <1>4, <2>2 DEF MarkTaskFinished
  <2>4. CASE q = Packet(u)
    <3>1. LiveNodes(q)' = LiveNodes(q) \ {Node(u)}
      BY <2>2, <2>3, <2>4 DEF LiveNodes, Live, Tasks
    <3>2. Node(u) \in LiveNodes(q) BY <2>1, <2>2, <2>4 DEF LiveNodes, Live
    <3>3. Cardinality(LiveNodes(q))' = Cardinality(LiveNodes(q)) - 1
      <4>1. IsFiniteSet(LiveNodes(q)) BY LiveFinite
      <4>2. Cardinality(LiveNodes(q) \ {Node(u)}) = Cardinality(LiveNodes(q)) - 1
        BY ONLY <3>2, <4>1, FS_RemoveElement
      <4> QED BY <3>1, <4>2
    <3> QED BY <1>4, <2>4, <3>3 DEF MarkTaskFinished
  <2>5. CASE q # Packet(u)
    <3>1. LiveNodes(q)' = LiveNodes(q)
      BY <2>2, <2>3, <2>5 DEF LiveNodes, Tasks
    <3> QED BY <1>4, <2>5, <3>1 DEF MarkTaskFinished
  <2> QED BY <2>4, <2>5
<1>5. ASSUME NEW u \in Workers, Dequeue(u)
      PROVE  inFlight'[q] = Cardinality(LiveNodes(q))'
  <2>1. OwnWorker(u) BY DEF Ownership
  <2>2. LiveNodes(q)' = LiveNodes(q)
    BY <1>5, <2>1 DEF Dequeue, Queued, LiveNodes, Live, OwnWorker, Running, Handing, Labels, Tasks
  <2> QED BY <1>5, <1>a, <2>2 DEF Dequeue
<1>6. ASSUME NEW u \in Workers, ExecuteEscapes(u)
      PROVE  inFlight'[q] = Cardinality(LiveNodes(q))'
  <2>1. OwnWorker(u) BY DEF Ownership
  <2>2. LiveNodes(q)' = LiveNodes(q)
    BY <1>6, <2>1 DEF ExecuteEscapes, LiveNodes, Live, OwnWorker, Running, Handing, Labels, Tasks
  <2> QED BY <1>6, <1>a, <2>2 DEF ExecuteEscapes
<1>7. ASSUME NEW u \in Workers, NotifyPredecessorCompleted(u)
      PROVE  inFlight'[q] = Cardinality(LiveNodes(q))'
  BY <1>7, <1>a DEF NotifyPredecessorCompleted, LiveNodes
<1>8. ASSUME NEW u \in Workers, LoadCount(u)
      PROVE  inFlight'[q] = Cardinality(LiveNodes(q))'
  BY <1>8, <1>a DEF LoadCount, NextChild, LiveNodes
<1>9. ASSUME NEW u \in Workers, MarkEnqueued(u)
      PROVE  inFlight'[q] = Cardinality(LiveNodes(q))'
  BY <1>9, <1>a DEF MarkEnqueued, NextChild, AlreadyEnqueued, LiveNodes
<1>10. ASSUME NEW u \in Workers, EnqueueBatch(u)
      PROVE  inFlight'[q] = Cardinality(LiveNodes(q))'
  <2>1. OwnWorker(u) BY DEF Ownership
  <2>2. LiveNodes(q)' = LiveNodes(q)
    BY <1>10, <2>1 DEF EnqueueBatch, LiveNodes, Live, OwnWorker, Running, Handing, Labels, Tasks
  <2> QED BY <1>10, <1>a, <2>2 DEF EnqueueBatch
<1>11. ASSUME NEW u \in Workers, TestGraphCompleted(u)
      PROVE  inFlight'[q] = Cardinality(LiveNodes(q))'
  BY <1>11, <1>a DEF TestGraphCompleted, BackToPool, LiveNodes
<1>12. ASSUME NEW u \in Workers, ClaimCompletion(u)
      PROVE  inFlight'[q] = Cardinality(LiveNodes(q))'
  BY <1>12, <1>a DEF ClaimCompletion, BackToPool, LiveNodes
<1>13. ASSUME NEW u \in Workers, OnGraphCompleted(u)
      PROVE  inFlight'[q] = Cardinality(LiveNodes(q))'
  BY <1>13, <1>a DEF OnGraphCompleted, BackToPool, LiveNodes
<1>14. CASE UNCHANGED vars
  BY <1>14, <1>a DEF vars, LiveNodes
<1> QED
  BY <1>1, <1>2, <1>3, <1>4, <1>5, <1>6, <1>7, <1>8, <1>9, <1>10, <1>11, <1>12, <1>13, <1>14
     DEF Next, Worker, Advance, AllDelivered, Quiet

(* The count of live tasks is preserved.                                   *)
LEMMA CountsStep == Base /\ Ownership /\ InFlightCounts /\ [Next]_vars => InFlightCounts'
BY CountsNext DEF InFlightCounts

(* No task is live in the beginning and every count is zero.               *)
LEMMA CountsInit == Init => InFlightCounts
<1> SUFFICES ASSUME Init, NEW p \in Packets PROVE inFlight[p] = Cardinality(LiveNodes(p))
  BY DEF InFlightCounts
<1>1. LiveNodes(p) = {} BY DEF Init, LiveNodes, Live, Tasks
<1> QED BY <1>1, FS_EmptySet DEF Init
-----------------------------------------------------------------------------
(* The handover.  A worker that brought inFlight to zero is the only one   *)
(* left with the packet, until its callback gives the packet away.         *)
HandWorker(w) ==
    /\ pc[w] # "idle" => Submitted(Packet(w))
    /\ pc[w] \in Handing => inFlight[Packet(w)] = 0

HandPair(w, v) ==
    pc[w] \in Handing /\ pc[v] \in Handing => Packet(w) # Packet(v)

HandPacket(p) ==
    delivered[p] > 0 =>
        /\ delivered[p] = 1
        /\ p \notin activePackets
        /\ inFlight[p] = 0
        /\ \A w \in Workers : ~ Touches(w, p)

Handover ==
    /\ \A w \in Workers : HandWorker(w)
    /\ \A w, v \in Workers : w # v => HandPair(w, v)
    /\ \A p \in Packets : HandPacket(p)

(* Nothing is delivered in the beginning.                                  *)
LEMMA HandoverInit == Init => Handover
BY DEF Init, Handover, HandWorker, HandPair, HandPacket, Handing

(* A worker in the middle of a node keeps its packet's inFlight positive,  *)
(* so its packet is neither delivered nor about to be.                     *)
LEMMA RunningFacts ==
    ASSUME Base, Ownership, InFlightCounts, Handover,
           NEW u \in Workers, pc[u] \in Running
    PROVE  /\ Packet(u) \in Packets
           /\ inFlight[Packet(u)] \in Nat \ {0}
           /\ delivered[Packet(u)] = 0
           /\ \A v \in Workers : pc[v] \in Handing => Packet(v) # Packet(u)
<1>1. /\ cur[u] \in Tasks
      /\ Packet(u) = cur[u][1]
      /\ Packet(u) \in Packets
      /\ task[cur[u]] = "running"
  BY LocalFacts DEF Running, Ownership, OwnWorker, Packet
<1>2. inFlight[Packet(u)] \in Nat \ {0}
  BY <1>1, LivePositive DEF Live
<1>3. delivered[Packet(u)] = 0
  BY <1>1, <1>2 DEF Handover, HandPacket, Base, Shape
<1>4. \A v \in Workers : pc[v] \in Handing => Packet(v) # Packet(u)
  BY <1>2 DEF Handover, HandWorker
<1> QED BY <1>1, <1>2, <1>3, <1>4

(* What each worker knows of the packet it is about to hand over is        *)
(* preserved.                                                              *)
LEMMA HandWorkerNext ==
    ASSUME Base, Ownership, InFlightCounts, Handover, [Next]_vars,
           NEW w \in Workers
    PROVE  HandWorker(w)'
<1>0. /\ Shape
      /\ HandWorker(w)
      /\ pc[w] # "idle" => Packet(w) \in Packets
  BY LocalFacts DEF Base, Handover
<1> USE <1>0 DEF Shape, HandWorker, Submitted, Handing, Labels, Goto,
        nodeState, packetState, processor, locals, history
<1>1. ASSUME NEW p \in Packets, SubmitPacket(p) PROVE HandWorker(w)'
  <2>1. UNCHANGED <<pc, cur>> /\ Packet(w)' = Packet(w)
    BY <1>1 DEF SubmitPacket, Packet
  <2>2. pc[w] # "idle" => Packet(w) # p BY <1>1 DEF SubmitPacket
  <2> QED BY <1>1, <2>1, <2>2 DEF SubmitPacket, CountTask
<1>2. ASSUME NEW u \in Workers, Quiet(u) PROVE HandWorker(w)'
  BY <1>2, QuietFrame, SMTT(60) DEF Packet, Before
<1>3. ASSUME NEW u \in Workers, Dequeue(u) PROVE HandWorker(w)'
  <2>1. w # u => UNCHANGED <<pc[w], Packet(w)>>
    BY <1>3, OthersFrame DEF Worker, Advance
  <2>2. cur'[u] = cur[u] => Packet(u)' = Packet(u) BY DEF Packet
  <2>3. HandWorker(u) BY DEF Handover
  <2>4. pc'[u] = "executeNode" /\ Submitted(Packet(u)')
    <3>1. cur'[u] \in Tasks /\ task[cur'[u]] = "queued" /\ pc'[u] = "executeNode"
      BY <1>3 DEF Dequeue, Queued
    <3>2. OwnTask(cur'[u]) BY <3>1 DEF Ownership
    <3> QED BY <3>1, <3>2 DEF OwnTask, Packet
  <2> QED BY <1>3, <2>1, <2>2, <2>3, <2>4 DEF Dequeue, Queued
<1>4. ASSUME NEW u \in Workers, ExecuteEscapes(u) PROVE HandWorker(w)'
  <2>1. w # u => UNCHANGED <<pc[w], Packet(w)>>
    BY <1>4, OthersFrame DEF Worker, Advance
  <2>2. cur'[u] = cur[u] => Packet(u)' = Packet(u) BY DEF Packet
  <2>3. HandWorker(u) BY DEF Handover
  <2>4. /\ Packet(u) \in Packets
        /\ inFlight[Packet(u)] \in Nat \ {0}
        /\ w # u /\ pc[w] \in Handing => Packet(w) # Packet(u)
    BY <1>4, RunningFacts DEF ExecuteEscapes, Running
  <2> QED BY <1>4, <2>1, <2>2, <2>3, <2>4 DEF ExecuteEscapes
<1>5. ASSUME NEW u \in Workers, NotifyPredecessorCompleted(u) PROVE HandWorker(w)'
  <2>1. w # u => UNCHANGED <<pc[w], Packet(w)>>
    BY <1>5, OthersFrame DEF Worker, Advance
  <2>2. cur'[u] = cur[u] => Packet(u)' = Packet(u) BY DEF Packet
  <2>3. HandWorker(u) BY DEF Handover
  <2>4. /\ Packet(u) \in Packets
        /\ inFlight[Packet(u)] \in Nat \ {0}
        /\ w # u /\ pc[w] \in Handing => Packet(w) # Packet(u)
    BY <1>5, RunningFacts DEF NotifyPredecessorCompleted, Running
  <2> QED BY <1>5, <2>1, <2>2, <2>3, <2>4 DEF NotifyPredecessorCompleted
<1>6. ASSUME NEW u \in Workers, LoadCount(u) PROVE HandWorker(w)'
  <2>1. w # u => UNCHANGED <<pc[w], Packet(w)>>
    BY <1>6, OthersFrame DEF Worker, Advance
  <2>2. cur'[u] = cur[u] => Packet(u)' = Packet(u) BY DEF Packet
  <2>3. HandWorker(u) BY DEF Handover
  <2>4. /\ Packet(u) \in Packets
        /\ inFlight[Packet(u)] \in Nat \ {0}
        /\ w # u /\ pc[w] \in Handing => Packet(w) # Packet(u)
    BY <1>6, RunningFacts DEF LoadCount, Running
  <2> QED BY <1>6, <2>1, <2>2, <2>3, <2>4 DEF LoadCount, NextChild
<1>7. ASSUME NEW u \in Workers, MarkEnqueued(u) PROVE HandWorker(w)'
  <2>1. w # u => UNCHANGED <<pc[w], Packet(w)>>
    BY <1>7, OthersFrame DEF Worker, Advance
  <2>2. cur'[u] = cur[u] => Packet(u)' = Packet(u) BY DEF Packet
  <2>3. HandWorker(u) BY DEF Handover
  <2>4. /\ Packet(u) \in Packets
        /\ inFlight[Packet(u)] \in Nat \ {0}
        /\ w # u /\ pc[w] \in Handing => Packet(w) # Packet(u)
    BY <1>7, RunningFacts DEF MarkEnqueued, Running
  <2> QED BY <1>7, <2>1, <2>2, <2>3, <2>4 DEF MarkEnqueued, NextChild, AlreadyEnqueued
<1>8. ASSUME NEW u \in Workers, MarkTaskScheduled(u) PROVE HandWorker(w)'
  <2>1. w # u => UNCHANGED <<pc[w], Packet(w)>>
    BY <1>8, OthersFrame DEF Worker, Advance
  <2>2. cur'[u] = cur[u] => Packet(u)' = Packet(u) BY DEF Packet
  <2>3. HandWorker(u) BY DEF Handover
  <2>4. /\ Packet(u) \in Packets
        /\ inFlight[Packet(u)] \in Nat \ {0}
        /\ w # u /\ pc[w] \in Handing => Packet(w) # Packet(u)
    BY <1>8, RunningFacts DEF MarkTaskScheduled, Running
  <2> QED BY <1>8, <2>1, <2>2, <2>3, <2>4 DEF MarkTaskScheduled, NextChild, CountTask
<1>9. ASSUME NEW u \in Workers, EnqueueBatch(u) PROVE HandWorker(w)'
  <2>1. w # u => UNCHANGED <<pc[w], Packet(w)>>
    BY <1>9, OthersFrame DEF Worker, Advance
  <2>2. cur'[u] = cur[u] => Packet(u)' = Packet(u) BY DEF Packet
  <2>3. HandWorker(u) BY DEF Handover
  <2>4. /\ Packet(u) \in Packets
        /\ inFlight[Packet(u)] \in Nat \ {0}
        /\ w # u /\ pc[w] \in Handing => Packet(w) # Packet(u)
    BY <1>9, RunningFacts DEF EnqueueBatch, Running
  <2> QED BY <1>9, <2>1, <2>2, <2>3, <2>4 DEF EnqueueBatch
<1>10. ASSUME NEW u \in Workers, MarkTaskFinished(u) PROVE HandWorker(w)'
  <2>1. w # u => UNCHANGED <<pc[w], Packet(w)>>
    BY <1>10, OthersFrame DEF Worker, Advance
  <2>2. cur'[u] = cur[u] => Packet(u)' = Packet(u) BY DEF Packet
  <2>3. HandWorker(u) BY DEF Handover
  <2>4. /\ Packet(u) \in Packets
        /\ inFlight[Packet(u)] \in Nat \ {0}
        /\ w # u /\ pc[w] \in Handing => Packet(w) # Packet(u)
    BY <1>10, RunningFacts DEF MarkTaskFinished, Running
  <2> QED BY <1>10, <2>1, <2>2, <2>3, <2>4 DEF MarkTaskFinished, BackToPool, LastInFlight
<1>11. ASSUME NEW u \in Workers, TestGraphCompleted(u) PROVE HandWorker(w)'
  <2>1. w # u => UNCHANGED <<pc[w], Packet(w)>>
    BY <1>11, OthersFrame DEF Worker, Advance
  <2>2. cur'[u] = cur[u] => Packet(u)' = Packet(u) BY DEF Packet
  <2>3. HandWorker(u) BY DEF Handover
  <2> QED BY <1>11, <2>1, <2>2, <2>3 DEF TestGraphCompleted, BackToPool
<1>12. ASSUME NEW u \in Workers, ClaimCompletion(u) PROVE HandWorker(w)'
  <2>1. w # u => UNCHANGED <<pc[w], Packet(w)>>
    BY <1>12, OthersFrame DEF Worker, Advance
  <2>2. cur'[u] = cur[u] => Packet(u)' = Packet(u) BY DEF Packet
  <2>3. HandWorker(u) BY DEF Handover
  <2> QED BY <1>12, <2>1, <2>2, <2>3 DEF ClaimCompletion, BackToPool
<1>13. ASSUME NEW u \in Workers, OnGraphCompleted(u) PROVE HandWorker(w)'
  <2>1. w # u => UNCHANGED <<pc[w], Packet(w)>>
    BY <1>13, OthersFrame DEF Worker, Advance
  <2>2. cur'[u] = cur[u] => Packet(u)' = Packet(u) BY DEF Packet
  <2>3. HandWorker(u) BY DEF Handover
  <2>4. Packet(u) \in Packets BY <1>13, LocalFacts DEF OnGraphCompleted
  <2> QED BY <1>13, <2>1, <2>2, <2>3, <2>4 DEF OnGraphCompleted, BackToPool
<1>14. CASE UNCHANGED vars
  BY <1>14 DEF vars, Packet
<1> QED
  BY <1>1, <1>2, <1>3, <1>4, <1>5, <1>6, <1>7, <1>8, <1>9, <1>10, <1>11, <1>12, <1>13, <1>14
     DEF Next, Worker, Advance, AllDelivered, Quiet

(* At most one worker is between the last decrement and the callback of a  *)
(* packet.                                                                 *)
LEMMA HandPairNext ==
    ASSUME Base, Ownership, InFlightCounts, Handover, [Next]_vars,
           NEW w \in Workers, NEW v \in Workers, w # v
    PROVE  HandPair(w, v)'
<1>0. Shape /\ HandPair(w, v) BY DEF Base, Handover
<1> USE <1>0 DEF Shape, HandPair, Handing, Labels, Goto,
        nodeState, packetState, processor, locals, history
<1>1. ASSUME NEW p \in Packets, SubmitPacket(p) PROVE HandPair(w, v)'
  BY <1>1 DEF SubmitPacket, Packet
<1>2. ASSUME NEW u \in Workers, Quiet(u) PROVE HandPair(w, v)'
  BY <1>2, QuietFrame DEF Packet, Before
<1>3. ASSUME NEW u \in Workers, Dequeue(u) PROVE HandPair(w, v)'
  <2>1. /\ w # u => UNCHANGED <<pc[w], Packet(w)>>
        /\ v # u => UNCHANGED <<pc[v], Packet(v)>>
    BY <1>3, OthersFrame DEF Worker, Advance
  <2>2. cur'[u] = cur[u] => Packet(u)' = Packet(u) BY DEF Packet
  <2> QED BY <1>3, <2>1, <2>2 DEF Dequeue, Queued
<1>4. ASSUME NEW u \in Workers, ExecuteEscapes(u) PROVE HandPair(w, v)'
  <2>1. /\ w # u => UNCHANGED <<pc[w], Packet(w)>>
        /\ v # u => UNCHANGED <<pc[v], Packet(v)>>
    BY <1>4, OthersFrame DEF Worker, Advance
  <2>2. cur'[u] = cur[u] => Packet(u)' = Packet(u) BY DEF Packet
  <2>3. \A x \in Workers : pc[x] \in Handing => Packet(x) # Packet(u)
    BY <1>4, RunningFacts DEF ExecuteEscapes, Running
  <2> QED BY <1>4, <2>1, <2>2, <2>3 DEF ExecuteEscapes
<1>5. ASSUME NEW u \in Workers, NotifyPredecessorCompleted(u) PROVE HandPair(w, v)'
  <2>1. /\ w # u => UNCHANGED <<pc[w], Packet(w)>>
        /\ v # u => UNCHANGED <<pc[v], Packet(v)>>
    BY <1>5, OthersFrame DEF Worker, Advance
  <2>2. cur'[u] = cur[u] => Packet(u)' = Packet(u) BY DEF Packet
  <2>3. \A x \in Workers : pc[x] \in Handing => Packet(x) # Packet(u)
    BY <1>5, RunningFacts DEF NotifyPredecessorCompleted, Running
  <2> QED BY <1>5, <2>1, <2>2, <2>3 DEF NotifyPredecessorCompleted
<1>6. ASSUME NEW u \in Workers, LoadCount(u) PROVE HandPair(w, v)'
  <2>1. /\ w # u => UNCHANGED <<pc[w], Packet(w)>>
        /\ v # u => UNCHANGED <<pc[v], Packet(v)>>
    BY <1>6, OthersFrame DEF Worker, Advance
  <2>2. cur'[u] = cur[u] => Packet(u)' = Packet(u) BY DEF Packet
  <2>3. \A x \in Workers : pc[x] \in Handing => Packet(x) # Packet(u)
    BY <1>6, RunningFacts DEF LoadCount, Running
  <2> QED BY <1>6, <2>1, <2>2, <2>3 DEF LoadCount, NextChild
<1>7. ASSUME NEW u \in Workers, MarkEnqueued(u) PROVE HandPair(w, v)'
  <2>1. /\ w # u => UNCHANGED <<pc[w], Packet(w)>>
        /\ v # u => UNCHANGED <<pc[v], Packet(v)>>
    BY <1>7, OthersFrame DEF Worker, Advance
  <2>2. cur'[u] = cur[u] => Packet(u)' = Packet(u) BY DEF Packet
  <2>3. \A x \in Workers : pc[x] \in Handing => Packet(x) # Packet(u)
    BY <1>7, RunningFacts DEF MarkEnqueued, Running
  <2> QED BY <1>7, <2>1, <2>2, <2>3 DEF MarkEnqueued, NextChild, AlreadyEnqueued
<1>8. ASSUME NEW u \in Workers, MarkTaskScheduled(u) PROVE HandPair(w, v)'
  <2>1. /\ w # u => UNCHANGED <<pc[w], Packet(w)>>
        /\ v # u => UNCHANGED <<pc[v], Packet(v)>>
    BY <1>8, OthersFrame DEF Worker, Advance
  <2>2. cur'[u] = cur[u] => Packet(u)' = Packet(u) BY DEF Packet
  <2>3. \A x \in Workers : pc[x] \in Handing => Packet(x) # Packet(u)
    BY <1>8, RunningFacts DEF MarkTaskScheduled, Running
  <2> QED BY <1>8, <2>1, <2>2, <2>3 DEF MarkTaskScheduled, NextChild, CountTask
<1>9. ASSUME NEW u \in Workers, EnqueueBatch(u) PROVE HandPair(w, v)'
  <2>1. /\ w # u => UNCHANGED <<pc[w], Packet(w)>>
        /\ v # u => UNCHANGED <<pc[v], Packet(v)>>
    BY <1>9, OthersFrame DEF Worker, Advance
  <2>2. cur'[u] = cur[u] => Packet(u)' = Packet(u) BY DEF Packet
  <2>3. \A x \in Workers : pc[x] \in Handing => Packet(x) # Packet(u)
    BY <1>9, RunningFacts DEF EnqueueBatch, Running
  <2> QED BY <1>9, <2>1, <2>2, <2>3 DEF EnqueueBatch
<1>10. ASSUME NEW u \in Workers, MarkTaskFinished(u) PROVE HandPair(w, v)'
  <2>1. /\ w # u => UNCHANGED <<pc[w], Packet(w)>>
        /\ v # u => UNCHANGED <<pc[v], Packet(v)>>
    BY <1>10, OthersFrame DEF Worker, Advance
  <2>2. cur'[u] = cur[u] => Packet(u)' = Packet(u) BY DEF Packet
  <2>3. \A x \in Workers : pc[x] \in Handing => Packet(x) # Packet(u)
    BY <1>10, RunningFacts DEF MarkTaskFinished, Running
  <2> QED BY <1>10, <2>1, <2>2, <2>3 DEF MarkTaskFinished, BackToPool
<1>11. ASSUME NEW u \in Workers, TestGraphCompleted(u) PROVE HandPair(w, v)'
  <2>1. /\ w # u => UNCHANGED <<pc[w], Packet(w)>>
        /\ v # u => UNCHANGED <<pc[v], Packet(v)>>
    BY <1>11, OthersFrame DEF Worker, Advance
  <2>2. cur'[u] = cur[u] => Packet(u)' = Packet(u) BY DEF Packet
  <2> QED BY <1>11, <2>1, <2>2 DEF TestGraphCompleted, BackToPool
<1>12. ASSUME NEW u \in Workers, ClaimCompletion(u) PROVE HandPair(w, v)'
  <2>1. /\ w # u => UNCHANGED <<pc[w], Packet(w)>>
        /\ v # u => UNCHANGED <<pc[v], Packet(v)>>
    BY <1>12, OthersFrame DEF Worker, Advance
  <2>2. cur'[u] = cur[u] => Packet(u)' = Packet(u) BY DEF Packet
  <2> QED BY <1>12, <2>1, <2>2 DEF ClaimCompletion, BackToPool
<1>13. ASSUME NEW u \in Workers, OnGraphCompleted(u) PROVE HandPair(w, v)'
  <2>1. /\ w # u => UNCHANGED <<pc[w], Packet(w)>>
        /\ v # u => UNCHANGED <<pc[v], Packet(v)>>
    BY <1>13, OthersFrame DEF Worker, Advance
  <2>2. cur'[u] = cur[u] => Packet(u)' = Packet(u) BY DEF Packet
  <2> QED BY <1>13, <2>1, <2>2 DEF OnGraphCompleted, BackToPool
<1>14. CASE UNCHANGED vars
  BY <1>14 DEF vars, Packet
<1> QED
  BY <1>1, <1>2, <1>3, <1>4, <1>5, <1>6, <1>7, <1>8, <1>9, <1>10, <1>11, <1>12, <1>13, <1>14
     DEF Next, Worker, Advance, AllDelivered, Quiet

(* A packet that was delivered has no live task and is not active, and     *)
(* stays so.                                                               *)
LEMMA HandPacketNext ==
    ASSUME Base, Ownership, InFlightCounts, Handover, [Next]_vars,
           NEW q \in Packets
    PROVE  HandPacket(q)'
<1>0. Shape /\ HandPacket(q) BY DEF Base, Handover
<1>a. ASSUME NEW u \in Workers, Worker(u), pc[u] # "idle",
             delivered[q] > 0 => Packet(u) # q,
             delivered'[q] = delivered[q], inFlight[q] = 0 => inFlight'[q] = 0,
             activePackets' \subseteq activePackets,
             pc'[u] = "idle" \/ cur'[u] = cur[u]
      PROVE  HandPacket(q)'
  <2>1. \A w \in Workers : w # u => UNCHANGED <<pc[w], Packet(w)>>
    BY <1>a, <1>0, OthersFrame
  <2>2. cur'[u] = cur[u] => Packet(u)' = Packet(u) BY DEF Packet
  <2>3. ASSUME delivered[q] > 0, NEW w \in Workers PROVE ~ Touches(w, q)'
    BY <1>a, <1>0, <2>1, <2>2, <2>3 DEF HandPacket, Touches
  <2> QED BY <1>a, <1>0, <2>3 DEF HandPacket
<1> USE <1>0 DEF Shape, nodeState, packetState, processor, locals, history, Goto
<1>1. ASSUME NEW p \in Packets, SubmitPacket(p) PROVE HandPacket(q)'
  BY <1>1 DEF SubmitPacket, CountTask, HandPacket, Touches, Packet
<1>2. ASSUME NEW u \in Workers, Quiet(u) PROVE HandPacket(q)'
  BY <1>2, QuietFrame DEF HandPacket, Touches, Packet, Before
<1>3. ASSUME NEW u \in Workers, Dequeue(u) PROVE HandPacket(q)'
  <2>1. \A w \in Workers : w # u => UNCHANGED <<pc[w], Packet(w)>>
    BY <1>3, OthersFrame DEF Worker
  <2>2. cur'[u] \in Tasks /\ task[cur'[u]] = "queued"
    BY <1>3 DEF Dequeue, Queued
  <2>3. inFlight[Packet(u)'] # 0 BY <2>2, LivePositive DEF Live, Packet
  <2>4. ASSUME delivered[q] > 0, NEW w \in Workers PROVE ~ Touches(w, q)'
    BY <2>1, <2>3, <2>4 DEF HandPacket, Touches
  <2> QED BY <1>3, <2>4 DEF Dequeue, HandPacket
<1>4. ASSUME NEW u \in Workers, ExecuteEscapes(u) PROVE HandPacket(q)'
  <2>1. pc[u] # "idle" /\ Packet(u) \in Packets /\ (delivered[q] > 0 => Packet(u) # q)
    BY <1>4, RunningFacts DEF ExecuteEscapes, Running, Handing, Labels
  <2> QED BY <1>4, <1>a, <2>1 DEF ExecuteEscapes, Worker, Advance
<1>5. ASSUME NEW u \in Workers, NotifyPredecessorCompleted(u) PROVE HandPacket(q)'
  <2>1. pc[u] # "idle" /\ Packet(u) \in Packets /\ (delivered[q] > 0 => Packet(u) # q)
    BY <1>5, RunningFacts DEF NotifyPredecessorCompleted, Running, Handing, Labels
  <2> QED BY <1>5, <1>a, <2>1 DEF NotifyPredecessorCompleted, Worker, Advance
<1>6. ASSUME NEW u \in Workers, LoadCount(u) PROVE HandPacket(q)'
  <2>1. pc[u] # "idle" /\ Packet(u) \in Packets /\ (delivered[q] > 0 => Packet(u) # q)
    BY <1>6, RunningFacts DEF LoadCount, Running, Handing, Labels
  <2> QED BY <1>6, <1>a, <2>1 DEF LoadCount, NextChild, Worker, Advance
<1>7. ASSUME NEW u \in Workers, MarkEnqueued(u) PROVE HandPacket(q)'
  <2>1. pc[u] # "idle" /\ Packet(u) \in Packets /\ (delivered[q] > 0 => Packet(u) # q)
    BY <1>7, RunningFacts DEF MarkEnqueued, Running, Handing, Labels
  <2> QED BY <1>7, <1>a, <2>1 DEF MarkEnqueued, NextChild, AlreadyEnqueued, Worker, Advance
<1>8. ASSUME NEW u \in Workers, MarkTaskScheduled(u) PROVE HandPacket(q)'
  <2>1. pc[u] # "idle" /\ Packet(u) \in Packets /\ (delivered[q] > 0 => Packet(u) # q)
    BY <1>8, RunningFacts DEF MarkTaskScheduled, Running, Handing, Labels
  <2>2. CASE delivered[q] > 0
    <3>1. inFlight[q] = 0 => inFlight'[q] = 0 BY <1>8, <2>1, <2>2 DEF MarkTaskScheduled, NextChild, CountTask
    <3> QED BY <1>8, <1>a, <2>1, <3>1 DEF MarkTaskScheduled, NextChild, CountTask, Worker, Advance
  <2>3. CASE delivered[q] = 0 BY <1>8, <2>3 DEF MarkTaskScheduled, HandPacket
  <2> QED BY <2>2, <2>3
<1>9. ASSUME NEW u \in Workers, EnqueueBatch(u) PROVE HandPacket(q)'
  <2>1. pc[u] # "idle" /\ Packet(u) \in Packets /\ (delivered[q] > 0 => Packet(u) # q)
    BY <1>9, RunningFacts DEF EnqueueBatch, Running, Handing, Labels
  <2> QED BY <1>9, <1>a, <2>1 DEF EnqueueBatch, Worker, Advance
<1>10. ASSUME NEW u \in Workers, MarkTaskFinished(u) PROVE HandPacket(q)'
  <2>1. pc[u] # "idle" /\ Packet(u) \in Packets /\ (delivered[q] > 0 => Packet(u) # q)
    BY <1>10, RunningFacts DEF MarkTaskFinished, Running, Handing, Labels
  <2>2. CASE delivered[q] > 0
    <3>1. inFlight[q] = 0 => inFlight'[q] = 0 BY <1>10, <2>1, <2>2 DEF MarkTaskFinished, BackToPool
    <3> QED BY <1>10, <1>a, <2>1, <3>1 DEF MarkTaskFinished, BackToPool, Worker, Advance
  <2>3. CASE delivered[q] = 0 BY <1>10, <2>3 DEF MarkTaskFinished, HandPacket
  <2> QED BY <2>2, <2>3
<1>11. ASSUME NEW u \in Workers, TestGraphCompleted(u) PROVE HandPacket(q)'
  <2>1. pc[u] # "idle" /\ (delivered[q] > 0 => Packet(u) # q)
    BY <1>11 DEF TestGraphCompleted, HandPacket, Touches
  <2> QED BY <1>11, <1>a, <2>1 DEF TestGraphCompleted, BackToPool, Worker, Advance
<1>12. ASSUME NEW u \in Workers, ClaimCompletion(u) PROVE HandPacket(q)'
  <2>1. pc[u] # "idle" /\ (delivered[q] > 0 => Packet(u) # q)
    BY <1>12 DEF ClaimCompletion, HandPacket, Touches
  <2> QED BY <1>12, <1>a, <2>1 DEF ClaimCompletion, BackToPool, Worker, Advance
<1>13. ASSUME NEW u \in Workers, OnGraphCompleted(u) PROVE HandPacket(q)'
  <2>1. /\ pc[u] = "callback"
        /\ Packet(u) \in Packets
        /\ Submitted(Packet(u))
        /\ inFlight[Packet(u)] = 0
    BY <1>13, LocalFacts DEF OnGraphCompleted, Handover, HandWorker, Handing
  <2>2. delivered[q] > 0 => Packet(u) # q
    BY <2>1 DEF HandPacket, Touches
  <2>3. \A w \in Workers : w # u => UNCHANGED <<pc[w], Packet(w)>>
    BY <1>13, OthersFrame DEF Worker, Advance
  <2>4. pc'[u] = "idle" BY <1>13 DEF OnGraphCompleted, BackToPool
  <2>5. CASE Packet(u) = q
    <3>1. \A w \in Workers : w # u => ~ Touches(w, q)
      <4>1. SUFFICES ASSUME NEW w \in Workers, w # u, pc[w] # "idle"
                     PROVE  Packet(w) # Packet(u)
        BY <2>5 DEF Touches
      <4>2. CASE pc[w] \in Running BY <2>1, <4>2, RunningFacts DEF Handing
      <4>3. CASE pc[w] \in Handing BY <2>1, <4>1, <4>3 DEF Handover, HandPair, Handing
      <4> QED BY <4>1, <4>2, <4>3 DEF Running
    <3>2. \A w \in Workers : ~ Touches(w, q)'
      BY <2>3, <2>4, <3>1 DEF Touches
    <3>3. delivered[q] = 0 /\ q \in activePackets BY <2>1, <2>2, <2>5 DEF Submitted
    <3>4. /\ delivered'[q] = 1
          /\ q \notin activePackets'
          /\ inFlight'[q] = 0
      BY <1>13, <2>1, <2>5, <3>3 DEF OnGraphCompleted
    <3> QED BY <3>2, <3>4 DEF HandPacket
  <2>6. CASE Packet(u) # q
    <3>1. /\ delivered'[q] = delivered[q]
          /\ inFlight'[q] = inFlight[q]
          /\ activePackets' \subseteq activePackets
      BY <1>13, <2>6 DEF OnGraphCompleted
    <3> QED BY <1>13, <1>a, <2>1, <2>4, <2>6, <3>1 DEF Worker, Advance
  <2> QED BY <2>5, <2>6
<1>14. CASE UNCHANGED vars
  BY <1>14 DEF vars, HandPacket, Touches, Packet
<1> QED
  BY <1>1, <1>2, <1>3, <1>4, <1>5, <1>6, <1>7, <1>8, <1>9, <1>10, <1>11, <1>12, <1>13, <1>14
     DEF Next, Worker, Advance, AllDelivered, Quiet

(* The handover invariant is preserved.                                    *)
LEMMA HandoverStep ==
    Base /\ Ownership /\ InFlightCounts /\ Handover /\ [Next]_vars => Handover'
BY HandWorkerNext, HandPairNext, HandPacketNext DEF Handover
-----------------------------------------------------------------------------
(* The edges.  Each is notified at most once, by the worker of its source, *)
(* in the order of childIndices, and the count of a node is the number of  *)
(* its edges that are still to be notified.                                *)
Edge(w)    == <<Packet(w), <<Node(w), child[w]>>>>
Pending(t) == {e \in InEdges(t[2]) : <<t[1], e>> \notin notified}

EdgeWorker(w) ==
    /\ pc[w] \in Before =>
          \A i \in Nat : <<Packet(w), <<Node(w), i>>>> \notin notified
    /\ pc[w] = "notify" =>
          \A i \in Nat : <<Packet(w), <<Node(w), i>>>> \in notified => i < child[w]
    /\ pc[w] \in AtChild =>
          \A i \in Nat : <<Packet(w), <<Node(w), i>>>> \in notified => i <= child[w]
    /\ pc[w] \in Looping \cup {"graphDone"} => isCompleted[cur[w]]
    /\ pc[w] \in {"cas", "schedule"} => Pending(ChildTask(w)) = {}

EdgeTask(t) ==
    /\ task[t] \in {"none", "ready", "queued"} =>
          \A i \in Nat : <<t[1], <<t[2], i>>>> \notin notified
    /\ task[t] # "none" /\ t[2] # Input => Pending(t) = {}

EdgeNotified == \A x \in notified : isCompleted[<<x[1], x[2][1]>>]

EdgeCount(t) ==
    unfinishedPredecessorCount[t] =
        IF Submitted(t[1]) THEN Cardinality(Pending(t)) ELSE 0

EdgesInv ==
    /\ \A w \in Workers : EdgeWorker(w)
    /\ \A t \in Tasks : EdgeTask(t)
    /\ EdgeNotified
    /\ \A t \in Tasks : EdgeCount(t)

(* No edge is notified in the beginning.                                   *)
LEMMA EdgesInit == Init => EdgesInv
<1> SUFFICES ASSUME Init PROVE EdgesInv
  OBVIOUS
<1>1. \A w \in Workers : EdgeWorker(w)
  BY DEF Init, EdgeWorker, Before, AtChild, Looping
<1>2. \A t \in Tasks : EdgeTask(t) BY DEF Init, EdgeTask
<1>3. EdgeNotified BY DEF Init, EdgeNotified
<1>4. \A t \in Tasks : EdgeCount(t)
  <2>1. \A t \in Tasks : t[1] \in Packets BY DEF Tasks
  <2> QED BY <2>1 DEF Init, EdgeCount, Submitted
<1> QED BY <1>1, <1>2, <1>3, <1>4 DEF EdgesInv

(* A quiet step marks no node completed.                                   *)
LEMMA QuietCompleted ==
    ASSUME NEW w \in Workers, Quiet(w), Shape
    PROVE  /\ \A t \in Tasks : isCompleted[t] => isCompleted'[t]
           /\ pc'[w] \in {"graphDone", "notify"} =>
                 pc[w] = "graphDone" \/ (cur[w] \in Tasks => isCompleted'[cur[w]])
<1> USE DEF Shape, Goto, nodeState, packetState, processor, locals, history
<1>1. CASE ExecuteNode(w) BY <1>1 DEF ExecuteNode
<1>2. CASE CheckFailed(w) BY <1>2 DEF CheckFailed
<1>3. CASE AcquireGranted(w) BY <1>3 DEF AcquireGranted
<1>4. CASE AcquireUnregistered(w) BY <1>4 DEF AcquireUnregistered, AcquireNull
<1>5. CASE AcquireTimeout(w) BY <1>5 DEF AcquireTimeout, AcquireNull
<1>6. CASE AcquireCancelled(w) BY <1>6 DEF AcquireCancelled, AcquireNull
<1>7. CASE Recheck(w) BY <1>7 DEF Recheck, ReleaseOrComplete
<1>8. CASE Execute(w) BY <1>8 DEF Execute, ReleaseOrComplete
<1>9. CASE ExecuteThrows(w) BY <1>9 DEF ExecuteThrows, ReleaseOrComplete
<1>10. CASE Release(w) BY <1>10 DEF Release
<1>11. CASE MarkNodeCompleted(w) BY <1>11 DEF MarkNodeCompleted
<1>12. CASE MarkGraphCompleted(w) BY <1>12 DEF MarkGraphCompleted
<1> QED BY <1>1, <1>2, <1>3, <1>4, <1>5, <1>6, <1>7, <1>8, <1>9, <1>10, <1>11,
           <1>12 DEF Quiet

(* Only the loop marks edges, and a step that does not leaves Pending.     *)
LEMMA SamePending ==
    ASSUME notified' = notified
    PROVE  \A t : Pending(t)' = Pending(t)
BY DEF Pending, InEdges, Edges, Target

(* The edges still to be notified are finitely many.                       *)
LEMMA PendingFinite ==
    \A t : IsFiniteSet(Pending(t)) /\ Cardinality(Pending(t)) \in Nat
<1> SUFFICES ASSUME NEW t
             PROVE  IsFiniteSet(Pending(t)) /\ Cardinality(Pending(t)) \in Nat
  OBVIOUS
<1>1. IsFiniteSet(Edges) /\ Pending(t) \in SUBSET Edges
  BY GraphAssumption DEF GraphAssumption, Pending, InEdges
<1>2. IsFiniteSet(Pending(t)) BY <1>1, FS_Subset
<1> QED BY <1>2, FS_CardinalityType

(* What notifyPredecessorCompleted does: the edge was pending, and is no   *)
(* longer.                                                                 *)
LEMMA NotifyFacts ==
    ASSUME Base, EdgesInv, NEW u \in Workers, NotifyPredecessorCompleted(u)
    PROVE  /\ ChildTask(u) \in Tasks
           /\ <<Node(u), child[u]>> \in Pending(ChildTask(u))
           /\ notified' = notified \cup {Edge(u)}
           /\ Pending(ChildTask(u))' = Pending(ChildTask(u)) \ {<<Node(u), child[u]>>}
           /\ \A t \in Tasks : t # ChildTask(u) => Pending(t)' = Pending(t)
<1>1. /\ pc[u] = "notify"
      /\ child[u] \in DOMAIN Children[Node(u)]
      /\ notified' = notified \cup {Edge(u)}
      /\ cur' = cur /\ child' = child
  BY DEF NotifyPredecessorCompleted, Edge, locals
<1>2. /\ ChildTask(u) \in Tasks
      /\ ChildTask(u) = <<Packet(u), Child(u)>>
      /\ <<Node(u), child[u]>> \in InEdges(Child(u))
      /\ child[u] \in Nat
  BY <1>1, ChildFacts DEF ChildTask
<1>3. <<Packet(u), <<Node(u), child[u]>>>> \notin notified
  BY <1>1, <1>2 DEF EdgesInv, EdgeWorker
<1>4. <<Node(u), child[u]>> \in Pending(ChildTask(u))
  BY <1>2, <1>3 DEF Pending
<1>5. ChildTask(u)' = ChildTask(u) BY <1>1, SameChildTask
<1>6. Pending(ChildTask(u))' = {e \in InEdges(ChildTask(u)[2]) :
                                  <<ChildTask(u)[1], e>> \notin notified'}
  BY <1>5 DEF Pending, InEdges, Edges, Target
<1>7. Pending(ChildTask(u))' = Pending(ChildTask(u)) \ {<<Node(u), child[u]>>}
  BY <1>1, <1>2, <1>6 DEF Pending, Edge
<1>8. ASSUME NEW t \in Tasks, t # ChildTask(u) PROVE Pending(t)' = Pending(t)
  <2>1. t = <<t[1], t[2]>> BY DEF Tasks
  <2>2. ASSUME NEW e \in InEdges(t[2]) PROVE <<t[1], e>> # Edge(u)
    BY <1>2, <1>8, <2>1, <2>2 DEF Edge, InEdges
  <2>3. Pending(t)' = {e \in InEdges(t[2]) : <<t[1], e>> \notin notified'}
    BY DEF Pending, InEdges, Edges, Target
  <2> QED BY <1>1, <2>2, <2>3 DEF Pending
<1> QED BY <1>1, <1>2, <1>4, <1>7, <1>8

(* An edge that was notified has a completed source:                       *)
(* notifyPredecessorCompleted comes after markNodeCompleted.               *)
LEMMA EdgeNotifiedNext ==
    ASSUME Base, Ownership, InFlightCounts, Handover, EdgesInv, [Next]_vars
    PROVE  EdgeNotified'
<1>0. Shape /\ EdgeNotified BY DEF Base, EdgesInv
<1>a. ASSUME UNCHANGED notified, \A t \in Tasks : isCompleted[t] => isCompleted'[t]
      PROVE  EdgeNotified'
  <2>1. \A x \in notified : <<x[1], x[2][1]>> \in Tasks
    BY <1>0 DEF Shape, Edges, Tasks
  <2> QED BY <1>0, <1>a, <2>1 DEF EdgeNotified
<1> USE <1>0 DEF Shape, nodeState, packetState, processor, locals, history
<1>1. ASSUME NEW p \in Packets, SubmitPacket(p) PROVE EdgeNotified'
  BY <1>1, <1>a DEF SubmitPacket
<1>2. ASSUME NEW u \in Workers, Quiet(u) PROVE EdgeNotified'
  BY <1>2, <1>a, QuietFrame, QuietCompleted
<1>3. ASSUME NEW u \in Workers, NotifyPredecessorCompleted(u) PROVE EdgeNotified'
  <2>1. notified' = notified \cup {Edge(u)} /\ isCompleted' = isCompleted
    BY <1>3 DEF NotifyPredecessorCompleted, Edge
  <2>2. isCompleted[<<Packet(u), Node(u)>>]
    <3>1. pc[u] = "notify" BY <1>3 DEF NotifyPredecessorCompleted
    <3>2. EdgeWorker(u) BY DEF EdgesInv
    <3> QED BY <3>1, <3>2, LocalFacts DEF EdgeWorker, Looping
  <2>3. <<Edge(u)[1], Edge(u)[2][1]>> = <<Packet(u), Node(u)>> BY DEF Edge
  <2>4. ASSUME NEW x \in notified' PROVE isCompleted'[<<x[1], x[2][1]>>]
    <3>1. CASE x = Edge(u) BY <2>1, <2>2, <2>3, <3>1
    <3>2. CASE x \in notified BY <2>1, <3>2 DEF EdgeNotified
    <3> QED BY <2>1, <2>4, <3>1, <3>2
  <2> QED BY <2>4 DEF EdgeNotified
<1>4. ASSUME NEW u \in Workers, Dequeue(u) PROVE EdgeNotified'
  BY <1>4, <1>a DEF Dequeue
<1>5. ASSUME NEW u \in Workers, ExecuteEscapes(u) PROVE EdgeNotified'
  BY <1>5, <1>a DEF ExecuteEscapes
<1>6. ASSUME NEW u \in Workers, LoadCount(u) PROVE EdgeNotified'
  BY <1>6, <1>a DEF LoadCount
<1>7. ASSUME NEW u \in Workers, MarkEnqueued(u) PROVE EdgeNotified'
  BY <1>7, <1>a DEF MarkEnqueued
<1>8. ASSUME NEW u \in Workers, MarkTaskScheduled(u) PROVE EdgeNotified'
  BY <1>8, <1>a DEF MarkTaskScheduled
<1>9. ASSUME NEW u \in Workers, EnqueueBatch(u) PROVE EdgeNotified'
  BY <1>9, <1>a DEF EnqueueBatch
<1>10. ASSUME NEW u \in Workers, MarkTaskFinished(u) PROVE EdgeNotified'
  BY <1>10, <1>a DEF MarkTaskFinished
<1>11. ASSUME NEW u \in Workers, TestGraphCompleted(u) PROVE EdgeNotified'
  BY <1>11, <1>a DEF TestGraphCompleted
<1>12. ASSUME NEW u \in Workers, ClaimCompletion(u) PROVE EdgeNotified'
  BY <1>12, <1>a DEF ClaimCompletion
<1>13. ASSUME NEW u \in Workers, OnGraphCompleted(u) PROVE EdgeNotified'
  BY <1>13, <1>a DEF OnGraphCompleted
<1>14. CASE UNCHANGED vars
  BY <1>14, <1>a DEF vars
<1> QED
  BY <1>1, <1>2, <1>3, <1>4, <1>5, <1>6, <1>7, <1>8, <1>9, <1>10, <1>11, <1>12, <1>13, <1>14
     DEF Next, Worker, Advance, AllDelivered, Quiet

(* unfinishedPredecessorCount stays the number of edges still to be        *)
(* notified, also for a predecessor named twice.                           *)
LEMMA EdgeCountNext ==
    ASSUME Base, Ownership, InFlightCounts, Handover, EdgesInv, [Next]_vars,
           NEW t \in Tasks
    PROVE  EdgeCount(t)'
<1>0. /\ Shape
      /\ EdgeCount(t)
      /\ t[1] \in Packets /\ t[2] \in Nodes /\ t = <<t[1], t[2]>>
  BY DEF Base, EdgesInv, Tasks
<1>a. ASSUME UNCHANGED <<unfinishedPredecessorCount, notified>>,
             Submitted(t[1])' = Submitted(t[1])
      PROVE  EdgeCount(t)'
  BY <1>0, <1>a, SamePending DEF EdgeCount
<1> USE <1>0 DEF Shape, nodeState, packetState, processor, locals, history
<1>1. ASSUME NEW p \in Packets, SubmitPacket(p) PROVE EdgeCount(t)'
  <2>1. notified' = notified BY <1>1 DEF SubmitPacket
  <2>2. CASE t[1] = p
    <3>1. ~ Submitted(p) /\ Submitted(p)' BY <1>1 DEF SubmitPacket, Submitted
    <3>2. Pending(t) = InEdges(t[2])
      <4>1. ASSUME NEW e \in InEdges(t[2]) PROVE <<p, e>> \notin notified
        <5>1. e[1] \in Nodes /\ e[2] \in Nat /\ e = <<e[1], e[2]>>
          BY NodeFacts DEF InEdges, Edges
        <5>2. <<p, e[1]>> \in Tasks BY <5>1 DEF Tasks
        <5>3. task[<<p, e[1]>>] = "none"
          BY <3>1, <5>2 DEF Ownership, OwnTask
        <5>4. EdgeTask(<<p, e[1]>>) BY <5>2 DEF EdgesInv
        <5> QED BY <5>1, <5>3, <5>4 DEF EdgeTask
      <4> QED BY <2>2, <4>1 DEF Pending
    <3>3. Cardinality(InEdges(t[2])) = PredecessorCount(t[2])
      <4>1. CASE t[2] = Input
        <5>1. InEdges(Input) = {} BY NodeFacts DEF InEdges, Edges
        <5> QED BY <4>1, <5>1, FS_EmptySet DEF PredecessorCount
      <4> QED BY <4>1 DEF PredecessorCount
    <3>4. unfinishedPredecessorCount'[t] = PredecessorCount(t[2])
      BY <1>1, <2>2 DEF SubmitPacket
    <3> QED BY <2>1, <2>2, <3>1, <3>2, <3>3, <3>4, SamePending DEF EdgeCount
  <2>3. CASE t[1] # p
    <3>1. unfinishedPredecessorCount'[t] = unfinishedPredecessorCount[t]
      BY <1>1, <2>3 DEF SubmitPacket
    <3>2. Submitted(t[1])' = Submitted(t[1])
      BY <1>1, <2>3 DEF SubmitPacket, Submitted
    <3> QED BY <2>1, <3>1, <3>2, SamePending DEF EdgeCount
  <2> QED BY <2>2, <2>3
<1>2. ASSUME NEW u \in Workers, Quiet(u) PROVE EdgeCount(t)'
  BY <1>2, <1>a, QuietFrame DEF Submitted
<1>3. ASSUME NEW u \in Workers, NotifyPredecessorCompleted(u) PROVE EdgeCount(t)'
  <2>1. /\ ChildTask(u) \in Tasks
        /\ <<Node(u), child[u]>> \in Pending(ChildTask(u))
        /\ Pending(ChildTask(u))' = Pending(ChildTask(u)) \ {<<Node(u), child[u]>>}
        /\ t # ChildTask(u) => Pending(t)' = Pending(t)
    BY <1>3, NotifyFacts
  <2>2. Submitted(t[1])' = Submitted(t[1]) /\ pc[u] = "notify"
    BY <1>3 DEF NotifyPredecessorCompleted, Submitted
  <2>3. unfinishedPredecessorCount' =
            [unfinishedPredecessorCount EXCEPT ![ChildTask(u)] = @ - 1]
    BY <1>3 DEF NotifyPredecessorCompleted
  <2>4. CASE t = ChildTask(u)
    <3>1. Submitted(t[1])
      <4>1. t[1] = Packet(u) BY <2>4 DEF ChildTask
      <4> QED BY <2>2, <4>1 DEF Handover, HandWorker
    <3>2. Cardinality(Pending(t) \ {<<Node(u), child[u]>>}) = Cardinality(Pending(t)) - 1
      <4>1. IsFiniteSet(Pending(t)) BY PendingFinite
      <4>2. <<Node(u), child[u]>> \in Pending(t) BY <2>1, <2>4
      <4> QED BY ONLY <4>1, <4>2, FS_RemoveElement
    <3>3. ChildTask(u)' = ChildTask(u)
      BY <1>3, SameChildTask DEF NotifyPredecessorCompleted
    <3>4. Pending(t)' = Pending(t) \ {<<Node(u), child[u]>>} BY <2>1, <2>4, <3>3
    <3> QED BY <2>2, <2>3, <2>4, <3>1, <3>2, <3>4 DEF EdgeCount
  <2>5. CASE t # ChildTask(u) BY <2>1, <2>2, <2>3, <2>5 DEF EdgeCount
  <2> QED BY <2>4, <2>5
<1>4. ASSUME NEW u \in Workers, Dequeue(u) PROVE EdgeCount(t)'
  BY <1>4, <1>a DEF Dequeue, Submitted
<1>5. ASSUME NEW u \in Workers, ExecuteEscapes(u) PROVE EdgeCount(t)'
  BY <1>5, <1>a DEF ExecuteEscapes, Submitted
<1>6. ASSUME NEW u \in Workers, LoadCount(u) PROVE EdgeCount(t)'
  BY <1>6, <1>a DEF LoadCount, Submitted
<1>7. ASSUME NEW u \in Workers, MarkEnqueued(u) PROVE EdgeCount(t)'
  BY <1>7, <1>a DEF MarkEnqueued, Submitted
<1>8. ASSUME NEW u \in Workers, MarkTaskScheduled(u) PROVE EdgeCount(t)'
  BY <1>8, <1>a DEF MarkTaskScheduled, Submitted
<1>9. ASSUME NEW u \in Workers, EnqueueBatch(u) PROVE EdgeCount(t)'
  BY <1>9, <1>a DEF EnqueueBatch, Submitted
<1>10. ASSUME NEW u \in Workers, MarkTaskFinished(u) PROVE EdgeCount(t)'
  BY <1>10, <1>a DEF MarkTaskFinished, Submitted
<1>11. ASSUME NEW u \in Workers, TestGraphCompleted(u) PROVE EdgeCount(t)'
  BY <1>11, <1>a DEF TestGraphCompleted, Submitted
<1>12. ASSUME NEW u \in Workers, ClaimCompletion(u) PROVE EdgeCount(t)'
  BY <1>12, <1>a DEF ClaimCompletion, Submitted
<1>13. ASSUME NEW u \in Workers, OnGraphCompleted(u) PROVE EdgeCount(t)'
  <2>1. Submitted(t[1])' = Submitted(t[1]) BY <1>13 DEF OnGraphCompleted, Submitted
  <2> QED BY <1>13, <1>a, <2>1 DEF OnGraphCompleted
<1>14. CASE UNCHANGED vars
  BY <1>14, <1>a DEF vars, Submitted
<1> QED
  BY <1>1, <1>2, <1>3, <1>4, <1>5, <1>6, <1>7, <1>8, <1>9, <1>10, <1>11, <1>12, <1>13, <1>14
     DEF Next, Worker, Advance, AllDelivered, Quiet

(* A task exists only when no edge into its node is pending.               *)
LEMMA EdgeTaskNext ==
    ASSUME Base, Ownership, InFlightCounts, Handover, EdgesInv, [Next]_vars,
           NEW t \in Tasks
    PROVE  EdgeTask(t)'
<1>0. /\ Shape
      /\ EdgeTask(t)
      /\ t[1] \in Packets /\ t[2] \in Nodes /\ t = <<t[1], t[2]>>
  BY DEF Base, EdgesInv, Tasks
<1>a. ASSUME UNCHANGED notified,
             task'[t] \in {"none", "ready", "queued"} => task[t] \in {"none", "ready", "queued"},
             task'[t] # "none" /\ t[2] # Input => task[t] # "none" \/ Pending(t) = {}
      PROVE  EdgeTask(t)'
  BY <1>0, <1>a, SamePending DEF EdgeTask
<1> USE <1>0 DEF Shape, nodeState, packetState, processor, locals, history
<1>1. ASSUME NEW p \in Packets, SubmitPacket(p) PROVE EdgeTask(t)'
  <2>1. UNCHANGED notified BY <1>1 DEF SubmitPacket
  <2>2. CASE t = <<p, Input>>
    <3>1. task[t] = "none" BY <1>1, <2>2 DEF Ownership, OwnTask, SubmitPacket, Submitted
    <3> QED BY <1>a, <2>1, <2>2, <3>1
  <2>3. CASE t # <<p, Input>> BY <1>1, <1>a, <2>1, <2>3 DEF SubmitPacket
  <2> QED BY <2>2, <2>3
<1>2. ASSUME NEW u \in Workers, Quiet(u) PROVE EdgeTask(t)'
  BY <1>2, <1>a, QuietFrame
<1>3. ASSUME NEW u \in Workers, NotifyPredecessorCompleted(u) PROVE EdgeTask(t)'
  <2>1. /\ notified' = notified \cup {Edge(u)}
        /\ Pending(t)' \subseteq Pending(t)
    <3>1. t # ChildTask(u) => Pending(t)' = Pending(t) BY <1>3, NotifyFacts
    <3>2. ChildTask(u)' = ChildTask(u)
      BY <1>3, SameChildTask DEF NotifyPredecessorCompleted
    <3>3. CASE t = ChildTask(u)
      <4>1. Pending(t)' = Pending(t) \ {<<Node(u), child[u]>>}
        BY <1>3, <3>2, <3>3, NotifyFacts
      <4> QED BY <1>3, <4>1, NotifyFacts
    <3>4. CASE t # ChildTask(u) BY <1>3, <3>1, <3>4, NotifyFacts
    <3> QED BY <3>3, <3>4
  <2>2. task[<<Packet(u), Node(u)>>] = "running" /\ task' = task
    <3>1. pc[u] \in Running BY <1>3 DEF NotifyPredecessorCompleted, Running, Handing, Labels
    <3>2. OwnWorker(u) BY DEF Ownership
    <3> QED BY <1>3, <3>1, <3>2, LocalFacts DEF OwnWorker, Running, NotifyPredecessorCompleted
  <2>3. ASSUME task[t] \in {"none", "ready", "queued"}, NEW i \in Nat
        PROVE  <<t[1], <<t[2], i>>>> # Edge(u)
    BY <2>2, <2>3 DEF Edge
  <2> QED BY <2>1, <2>2, <2>3 DEF EdgeTask
<1>4. ASSUME NEW u \in Workers, MarkTaskScheduled(u) PROVE EdgeTask(t)'
  <2>1. Pending(ChildTask(u)) = {}
    BY <1>4 DEF MarkTaskScheduled, EdgesInv, EdgeWorker
  <2>2. task[ChildTask(u)] = "none" BY <1>4 DEF MarkTaskScheduled, Ownership, OwnWorker
  <2>3. UNCHANGED notified /\ task' = [task EXCEPT ![ChildTask(u)] = "ready"]
    BY <1>4 DEF MarkTaskScheduled
  <2>4. CASE t = ChildTask(u) BY <1>a, <2>1, <2>2, <2>3, <2>4
  <2>5. CASE t # ChildTask(u) BY <1>a, <2>3, <2>5
  <2> QED BY <2>4, <2>5
<1>5. ASSUME NEW u \in Workers, Dequeue(u) PROVE EdgeTask(t)'
  BY <1>5, <1>a DEF Dequeue, Queued
<1>6. ASSUME NEW u \in Workers, ExecuteEscapes(u) PROVE EdgeTask(t)'
  <2>1. task[cur[u]] # "none"
    <3>1. OwnWorker(u) BY DEF Ownership
    <3> QED BY <1>6, <3>1 DEF ExecuteEscapes, OwnWorker, Running, Handing, Labels
  <2> QED BY <1>6, <1>a, <2>1 DEF ExecuteEscapes
<1>7. ASSUME NEW u \in Workers, LoadCount(u) PROVE EdgeTask(t)'
  BY <1>7, <1>a DEF LoadCount, NextChild
<1>8. ASSUME NEW u \in Workers, MarkEnqueued(u) PROVE EdgeTask(t)'
  BY <1>8, <1>a DEF MarkEnqueued, NextChild, AlreadyEnqueued
<1>9. ASSUME NEW u \in Workers, EnqueueBatch(u) PROVE EdgeTask(t)'
  <2>1. t \in batch[u] => task[t] = "ready" BY DEF Ownership, OwnWorker
  <2> QED BY <1>9, <1>a, <2>1 DEF EnqueueBatch
<1>10. ASSUME NEW u \in Workers, MarkTaskFinished(u) PROVE EdgeTask(t)'
  <2>1. task[cur[u]] # "none"
    <3>1. OwnWorker(u) BY DEF Ownership
    <3> QED BY <1>10, <3>1 DEF MarkTaskFinished, OwnWorker, Running, Handing, Labels
  <2> QED BY <1>10, <1>a, <2>1 DEF MarkTaskFinished
<1>11. ASSUME NEW u \in Workers, TestGraphCompleted(u) PROVE EdgeTask(t)'
  BY <1>11, <1>a DEF TestGraphCompleted, BackToPool
<1>12. ASSUME NEW u \in Workers, ClaimCompletion(u) PROVE EdgeTask(t)'
  BY <1>12, <1>a DEF ClaimCompletion, BackToPool
<1>13. ASSUME NEW u \in Workers, OnGraphCompleted(u) PROVE EdgeTask(t)'
  BY <1>13, <1>a DEF OnGraphCompleted, BackToPool
<1>14. CASE UNCHANGED vars
  BY <1>14, <1>a DEF vars
<1> QED
  BY <1>1, <1>2, <1>3, <1>4, <1>5, <1>6, <1>7, <1>8, <1>9, <1>10, <1>11, <1>12, <1>13, <1>14
     DEF Next, Worker, Advance, AllDelivered, Quiet

(* The facts about a worker's own edges, for a worker that does not move.  *)
LEMMA EdgeWorkerKept ==
    ASSUME Base, EdgesInv, NEW w \in Workers,
           UNCHANGED <<pc[w], cur[w], child[w], notified>>,
           \A t \in Tasks : isCompleted[t] => isCompleted'[t]
    PROVE  EdgeWorker(w)'
<1>1. /\ Packet(w)' = Packet(w)
      /\ Node(w)' = Node(w)
      /\ ChildTask(w)' = ChildTask(w)
  BY SameChildTask DEF Packet, Node
<1>2. Pending(ChildTask(w))' = Pending(ChildTask(w)) BY <1>1, SamePending
<1>3. pc[w] # "idle" => cur[w] \in Tasks BY LocalFacts
<1>4. EdgeWorker(w) BY DEF EdgesInv
<1> QED BY <1>1, <1>2, <1>3, <1>4 DEF EdgeWorker, Looping

(* Where a worker is in its childIndices tells which of its edges were     *)
(* notified.                                                               *)
LEMMA EdgeWorkerNext ==
    ASSUME Base, Ownership, InFlightCounts, Handover, EdgesInv, [Next]_vars,
           NEW w \in Workers
    PROVE  EdgeWorker(w)'
<1>0. /\ Shape
      /\ EdgeWorker(w)
      /\ pc[w] # "idle" => cur[w] \in Tasks
  BY LocalFacts DEF Base, EdgesInv
<1>a. ASSUME NEW u \in Workers, Worker(u), w # u, UNCHANGED notified,
             \A t \in Tasks : isCompleted[t] => isCompleted'[t]
      PROVE  EdgeWorker(w)'
  BY <1>0, <1>a, OthersFrame, EdgeWorkerKept
<1> USE <1>0 DEF Shape, nodeState, packetState, processor, locals, history, Goto
<1>1. ASSUME NEW p \in Packets, SubmitPacket(p) PROVE EdgeWorker(w)'
  <2>1. UNCHANGED <<pc, cur, child, notified, isCompleted>> BY <1>1 DEF SubmitPacket
  <2> QED BY <2>1, EdgeWorkerKept
<1>2. ASSUME NEW u \in Workers, Quiet(u) PROVE EdgeWorker(w)'
  <2>1. CASE w # u
    BY <1>2, <1>a, <2>1, QuietFrame, QuietCompleted DEF Quiet, Worker, Advance
  <2>2. CASE w = u
    <3>1. /\ UNCHANGED <<cur, child, notified>>
          /\ pc[w] \in Before
          /\ pc'[w] \in Before \cup {"notify", "finish"}
      BY <1>2, <2>2, QuietFrame
    <3>2. Packet(w)' = Packet(w) /\ Node(w)' = Node(w) BY <3>1 DEF Packet, Node
    <3>3. pc'[w] \in {"graphDone", "notify"} => isCompleted'[cur[w]]
      <4>1. cur[w] \in Tasks BY <3>1 DEF Before
      <4> QED BY <1>2, <2>2, <4>1, QuietCompleted DEF EdgeWorker
    <3> QED BY <3>1, <3>2, <3>3 DEF EdgeWorker, Before, Looping, AtChild
  <2> QED BY <2>1, <2>2
<1>3. ASSUME NEW u \in Workers, NotifyPredecessorCompleted(u) PROVE EdgeWorker(w)'
  <2>1. /\ notified' = notified \cup {Edge(u)}
        /\ UNCHANGED <<cur, child, isCompleted>>
        /\ pc[u] = "notify" /\ pc' = [pc EXCEPT ![u] = "load"]
        /\ Packet(w)' = Packet(w) /\ Node(w)' = Node(w)
        /\ ChildTask(w)' = ChildTask(w)
    BY <1>3, SameChildTask DEF NotifyPredecessorCompleted, Edge, Packet, Node
  <2>2. CASE w = u
    <3>1. \A i \in Nat : <<Packet(w), <<Node(w), i>>>> \in notified' => i <= child[w]
      BY <2>1, <2>2 DEF EdgeWorker, Edge
    <3> QED BY <2>1, <2>2, <3>1 DEF EdgeWorker, Before, Looping, AtChild
  <2>3. CASE w # u
    <3>1. pc'[w] = pc[w] BY <2>1, <2>3
    <3>2. ASSUME pc[w] \in Before \cup Looping, NEW i \in Nat
          PROVE  <<Packet(w), <<Node(w), i>>>> # Edge(u)
      <4>1. pc[w] \in Running /\ pc[u] \in Running
        BY <2>1, <3>2 DEF Before, Looping, Running, Handing, Labels
      <4>2. cur[w] # cur[u] BY <2>3, <4>1 DEF Ownership, OwnPair
      <4>3. cur[w] = <<Packet(w), Node(w)>> /\ cur[u] = <<Packet(u), Node(u)>>
        BY <4>1, LocalFacts DEF Running
      <4> QED BY <4>2, <4>3 DEF Edge
    <3>3. pc[w] \in {"cas", "schedule"} => Pending(ChildTask(w))' = {}
      <4>1. SUFFICES ASSUME pc[w] \in {"cas", "schedule"}
                     PROVE  Pending(ChildTask(w))' = {}
        OBVIOUS
      <4>2. Pending(ChildTask(w)) = {} BY <4>1 DEF EdgeWorker
      <4>3. ChildTask(w) \in Tasks BY <4>1, ChildFacts DEF AtChild
      <4>4. ChildTask(w) # ChildTask(u) BY <1>3, <4>2, NotifyFacts
      <4> QED BY <1>3, <2>1, <4>2, <4>3, <4>4, NotifyFacts
    <3> QED BY <2>1, <3>1, <3>2, <3>3 DEF EdgeWorker, Before, Looping, AtChild
  <2> QED BY <2>2, <2>3
<1>4. ASSUME NEW u \in Workers, LoadCount(u) PROVE EdgeWorker(w)'
  <2>1. UNCHANGED <<notified, isCompleted, cur>> /\ pc[u] = "load"
    BY <1>4 DEF LoadCount
  <2>2. CASE w # u BY <1>4, <1>a, <2>1, <2>2 DEF Worker, Advance
  <2>3. CASE w = u
    <3>1. Packet(w)' = Packet(w) /\ Node(w)' = Node(w) BY <2>1 DEF Packet, Node
    <3>2. CASE PredecessorsDone(ChildTask(u))
      <4>1. pc'[w] = "cas" /\ child' = child BY <1>4, <2>3, <3>2 DEF LoadCount
      <4>2. Pending(ChildTask(w)) = {}
        <5>1. ChildTask(w) \in Tasks /\ ChildTask(w)[1] = Packet(w)
          BY <2>1, <2>3, ChildFacts DEF AtChild
        <5>2. Submitted(ChildTask(w)[1])
          BY <2>1, <2>3, <5>1 DEF Handover, HandWorker
        <5>3. Cardinality(Pending(ChildTask(w))) = 0
          BY <2>3, <3>2, <5>1, <5>2 DEF EdgesInv, EdgeCount, PredecessorsDone
        <5> QED BY <5>3, PendingFinite, FS_EmptySet
      <4>3. Pending(ChildTask(w))' = {}
        BY <2>1, <4>1, <4>2, SameChildTask, SamePending
      <4> QED BY <2>1, <2>3, <3>1, <4>1, <4>3 DEF EdgeWorker, Before, Looping, AtChild
    <3>3. CASE ~ PredecessorsDone(ChildTask(u))
      <4>1. pc'[w] = "notify" /\ child'[w] = child[w] + 1
        BY <1>4, <2>3, <3>3 DEF LoadCount, NextChild
      <4>2. child[w] \in Nat OBVIOUS
      <4> QED BY <2>1, <2>3, <3>1, <4>1, <4>2 DEF EdgeWorker, Before, Looping, AtChild
    <3> QED BY <3>2, <3>3
  <2> QED BY <2>2, <2>3
<1>5. ASSUME NEW u \in Workers, MarkEnqueued(u) PROVE EdgeWorker(w)'
  <2>1. UNCHANGED <<notified, isCompleted, cur>> /\ pc[u] = "cas"
    BY <1>5 DEF MarkEnqueued
  <2>2. CASE w # u BY <1>5, <1>a, <2>1, <2>2 DEF Worker, Advance
  <2>3. CASE w = u
    <3>1. Packet(w)' = Packet(w) /\ Node(w)' = Node(w) BY <2>1 DEF Packet, Node
    <3>2. CASE AlreadyEnqueued(ChildTask(u))
      <4>1. pc'[w] = "notify" /\ child'[w] = child[w] + 1
        BY <1>5, <2>3, <3>2 DEF MarkEnqueued, NextChild
      <4>2. child[w] \in Nat OBVIOUS
      <4> QED BY <2>1, <2>3, <3>1, <4>1, <4>2 DEF EdgeWorker, Before, Looping, AtChild
    <3>3. CASE ~ AlreadyEnqueued(ChildTask(u))
      <4>1. pc'[w] = "schedule" /\ child' = child
        BY <1>5, <2>3, <3>3 DEF MarkEnqueued
      <4>2. Pending(ChildTask(w))' = {}
        BY <2>1, <2>3, <4>1, SameChildTask, SamePending DEF EdgeWorker
      <4> QED BY <2>1, <2>3, <3>1, <4>1, <4>2 DEF EdgeWorker, Before, Looping, AtChild
    <3> QED BY <3>2, <3>3
  <2> QED BY <2>2, <2>3
<1>6. ASSUME NEW u \in Workers, MarkTaskScheduled(u) PROVE EdgeWorker(w)'
  <2>1. UNCHANGED <<notified, isCompleted, cur>> /\ pc[u] = "schedule"
    BY <1>6 DEF MarkTaskScheduled
  <2>2. CASE w # u BY <1>6, <1>a, <2>1, <2>2 DEF Worker, Advance
  <2>3. CASE w = u
    <3>1. Packet(w)' = Packet(w) /\ Node(w)' = Node(w) BY <2>1 DEF Packet, Node
    <3>2. pc'[w] = "notify" /\ child'[w] = child[w] + 1 /\ child[w] \in Nat
      BY <1>6, <2>3 DEF MarkTaskScheduled, NextChild
    <3> QED BY <2>1, <2>3, <3>1, <3>2 DEF EdgeWorker, Before, Looping, AtChild
  <2> QED BY <2>2, <2>3
<1>7. ASSUME NEW u \in Workers, Dequeue(u) PROVE EdgeWorker(w)'
  <2>1. UNCHANGED <<notified, isCompleted>> BY <1>7 DEF Dequeue
  <2>2. CASE w # u BY <1>7, <1>a, <2>1, <2>2 DEF Worker, Advance
  <2>3. CASE w = u
    <3>1. pc'[w] = "executeNode" /\ cur'[w] \in Tasks /\ task[cur'[w]] = "queued"
      BY <1>7, <2>3 DEF Dequeue, Queued
    <3>2. EdgeTask(cur'[w]) BY <3>1 DEF EdgesInv
    <3>3. \A i \in Nat : <<Packet(w)', <<Node(w)', i>>>> \notin notified
      BY <3>1, <3>2 DEF EdgeTask, Packet, Node
    <3> QED BY <2>1, <3>1, <3>3 DEF EdgeWorker, Before, Looping, AtChild
  <2> QED BY <2>2, <2>3
<1>8. ASSUME NEW u \in Workers, ExecuteEscapes(u) PROVE EdgeWorker(w)'
  <2>1. UNCHANGED <<notified, isCompleted>> BY <1>8 DEF ExecuteEscapes
  <2>2. CASE w # u BY <1>8, <1>a, <2>1, <2>2 DEF Worker, Advance
  <2>3. CASE w = u
    BY <1>8, <2>1, <2>3 DEF ExecuteEscapes, EdgeWorker, Before, Looping, AtChild
  <2> QED BY <2>2, <2>3
<1>9. ASSUME NEW u \in Workers, EnqueueBatch(u) PROVE EdgeWorker(w)'
  <2>1. UNCHANGED <<notified, isCompleted>> BY <1>9 DEF EnqueueBatch
  <2>2. CASE w # u BY <1>9, <1>a, <2>1, <2>2 DEF Worker, Advance
  <2>3. CASE w = u
    BY <1>9, <2>1, <2>3 DEF EnqueueBatch, EdgeWorker, Before, Looping, AtChild
  <2> QED BY <2>2, <2>3
<1>10. ASSUME NEW u \in Workers, MarkTaskFinished(u) PROVE EdgeWorker(w)'
  <2>1. UNCHANGED <<notified, isCompleted>> BY <1>10 DEF MarkTaskFinished
  <2>2. CASE w # u BY <1>10, <1>a, <2>1, <2>2 DEF Worker, Advance
  <2>3. CASE w = u
    BY <1>10, <2>1, <2>3 DEF MarkTaskFinished, BackToPool, EdgeWorker, Before, Looping, AtChild
  <2> QED BY <2>2, <2>3
<1>11. ASSUME NEW u \in Workers, TestGraphCompleted(u) PROVE EdgeWorker(w)'
  <2>1. UNCHANGED <<notified, isCompleted>> BY <1>11 DEF TestGraphCompleted
  <2>2. CASE w # u BY <1>11, <1>a, <2>1, <2>2 DEF Worker, Advance
  <2>3. CASE w = u
    BY <1>11, <2>1, <2>3 DEF TestGraphCompleted, BackToPool, EdgeWorker, Before, Looping, AtChild
  <2> QED BY <2>2, <2>3
<1>12. ASSUME NEW u \in Workers, ClaimCompletion(u) PROVE EdgeWorker(w)'
  <2>1. UNCHANGED <<notified, isCompleted>> BY <1>12 DEF ClaimCompletion
  <2>2. CASE w # u BY <1>12, <1>a, <2>1, <2>2 DEF Worker, Advance
  <2>3. CASE w = u
    BY <1>12, <2>1, <2>3 DEF ClaimCompletion, BackToPool, EdgeWorker, Before, Looping, AtChild
  <2> QED BY <2>2, <2>3
<1>13. ASSUME NEW u \in Workers, OnGraphCompleted(u) PROVE EdgeWorker(w)'
  <2>1. UNCHANGED <<notified, isCompleted>> BY <1>13 DEF OnGraphCompleted
  <2>2. CASE w # u BY <1>13, <1>a, <2>1, <2>2 DEF Worker, Advance
  <2>3. CASE w = u
    BY <1>13, <2>1, <2>3 DEF OnGraphCompleted, BackToPool, EdgeWorker, Before, Looping, AtChild
  <2> QED BY <2>2, <2>3
<1>14. CASE UNCHANGED vars
  BY <1>14, EdgeWorkerKept DEF vars
<1> QED
  BY <1>1, <1>2, <1>3, <1>4, <1>5, <1>6, <1>7, <1>8, <1>9, <1>10, <1>11, <1>12, <1>13, <1>14
     DEF Next, Worker, Advance, AllDelivered, Quiet

(* The invariant of the edges is preserved.                                *)
LEMMA EdgesStep ==
    Base /\ Ownership /\ InFlightCounts /\ Handover /\ EdgesInv /\ [Next]_vars
        => EdgesInv'
BY EdgeWorkerNext, EdgeTaskNext, EdgeNotifiedNext, EdgeCountNext DEF EdgesInv
-----------------------------------------------------------------------------
(* The inductive invariant and what follows from it.                       *)
IInv == Base /\ Ownership /\ InFlightCounts /\ Handover /\ EdgesInv

(* Every behaviour keeps the inductive invariant.                          *)
THEOREM Invariance == Spec => []IInv
<1>1. Init => IInv
  BY BaseInit, OwnershipInit, CountsInit, HandoverInit, EdgesInit DEF IInv
<1>2. IInv /\ [Next]_vars => IInv'
  BY BaseStep, OwnershipStep, CountsStep, HandoverStep, EdgesStep DEF IInv
<1> QED BY <1>1, <1>2, PTL DEF Spec

(* DataPacket's counters never wrap: they stay natural numbers because     *)
(* each is the cardinality of what it counts.                              *)
THEOREM TypeCorrect == Spec => []TypeOK
<1>1. IInv => TypeOK
  <2> SUFFICES ASSUME IInv PROVE TypeOK
    OBVIOUS
  <2>1. Shape BY DEF IInv, Base
  <2>2. inFlight \in [Packets -> Nat]
    <3>1. \A p \in Packets : inFlight[p] \in Nat
      BY LiveFinite DEF IInv, InFlightCounts
    <3> QED BY <2>1, <3>1 DEF Shape
  <2>3. unfinishedPredecessorCount \in [Tasks -> Nat]
    <3>1. \A t \in Tasks : unfinishedPredecessorCount[t] \in Nat
      BY PendingFinite DEF IInv, EdgesInv, EdgeCount
    <3> QED BY <2>1, <3>1 DEF Shape
  <2> QED BY <2>1, <2>2, <2>3 DEF Shape, TypeOK
<1> QED BY <1>1, Invariance, PTL

(* inFlight counts the live tasks of its packet.                           *)
THEOREM CountsCorrect == Spec => []InFlightCounts
<1>1. IInv => InFlightCounts BY DEF IInv
<1> QED BY <1>1, Invariance, PTL

(* No task is created before all its predecessors are completed.           *)
THEOREM DependencyOrderCorrect == Spec => []DependencyOrder
<1>1. IInv => DependencyOrder
  <2> SUFFICES ASSUME IInv, NEW t \in Tasks, task[t] # "none", NEW e \in InEdges(t[2])
               PROVE  isCompleted[<<t[1], e[1]>>]
    BY DEF DependencyOrder
  <2>1. t[2] # Input BY NodeFacts DEF InEdges, Edges
  <2>2. <<t[1], e>> \in notified BY <2>1 DEF IInv, EdgesInv, EdgeTask, Pending
  <2> QED BY <2>2 DEF IInv, EdgesInv, EdgeNotified
<1> QED BY <1>1, Invariance, PTL

(* A delivered packet is out of every worker's reach, for good.            *)
THEOREM HandoverCorrect == Spec => []HandoverSafe
<1>1. IInv => HandoverSafe
  <2> SUFFICES ASSUME IInv, NEW p \in Packets, delivered[p] > 0
               PROVE  /\ delivered[p] = 1
                      /\ p \notin activePackets
                      /\ LiveNodes(p) = {}
                      /\ \A w \in Workers : ~ Touches(w, p)
    BY DEF HandoverSafe
  <2>1. HandPacket(p) BY DEF IInv, Handover
  <2>2. Cardinality(LiveNodes(p)) = 0
    BY <2>1 DEF HandPacket, IInv, InFlightCounts
  <2>3. LiveNodes(p) = {} BY <2>2, LiveFinite, FS_EmptySet
  <2> QED BY <2>1, <2>3 DEF HandPacket
<1> QED BY <1>1, Invariance, PTL

(* A task is created, queued and run at most once.                         *)
THEOREM ExactlyOnceCorrect == Spec => ExactlyOnce
<1>1. IInv /\ [Next]_vars => [\A t \in Tasks : TaskStep(t)]_vars
  BY TaskStepNext DEF IInv
<1> QED BY <1>1, Invariance, PTL DEF Spec, ExactlyOnce
-----------------------------------------------------------------------------
(* What a completed node says about its inputs.                            *)
RanWorker(w) ==
    /\ pc[w] = "execute" => \A e \in InEdges(Node(w)) : <<Packet(w), e[1]>> \in ran
    /\ pc[w] \in {"release", "complete"} => cur[w] \in ran \/ hasFailed[Packet(w)]
    /\ pc[w] = "graphDone" => Node(w) = Output
    /\ pc[w] \in {"claim", "callback"} => isGraphCompleted[Packet(w)]

RanTask(t) ==
    /\ isCompleted[t] => t \in ran \/ hasFailed[t[1]]
    /\ t \in ran => \A e \in InEdges(t[2]) : <<t[1], e[1]>> \in ran

RanPacket(p) ==
    /\ isGraphCompleted[p] => isCompleted[<<p, Output>>]
    /\ delivered[p] > 0 => isGraphCompleted[p]

Produced ==
    /\ \A w \in Workers : RanWorker(w)
    /\ \A t \in Tasks : RanTask(t)
    /\ \A p \in Packets : RanPacket(p)

(* No node has run in the beginning.                                       *)
LEMMA ProducedInit == Init => Produced
<1> SUFFICES ASSUME Init PROVE Produced
  OBVIOUS
<1>1. \A w \in Workers : RanWorker(w) BY DEF Init, RanWorker
<1>2. \A t \in Tasks : RanTask(t) BY DEF Init, RanTask
<1>3. \A p \in Packets : RanPacket(p) BY DEF Init, RanPacket
<1> QED BY <1>1, <1>2, <1>3 DEF Produced

(* The flags are only ever raised.                                         *)
LEMMA FlagsMonotone ==
    ASSUME Shape, [Next]_vars
    PROVE  /\ ran \subseteq ran'
           /\ \A p \in Packets : hasFailed[p] => hasFailed'[p]
           /\ \A p \in Packets : isGraphCompleted[p] => isGraphCompleted'[p]
           /\ \A t \in Tasks : isCompleted[t] => isCompleted'[t]
<1> DEFINE Up ==
        /\ ran \subseteq ran'
        /\ \A p \in Packets : hasFailed[p] => hasFailed'[p]
        /\ \A p \in Packets : isGraphCompleted[p] => isGraphCompleted'[p]
        /\ \A t \in Tasks : isCompleted[t] => isCompleted'[t]
<1> USE DEF Shape, nodeState, packetState, processor, locals, history
<1>1. ASSUME NEW p \in Packets, SubmitPacket(p) PROVE Up
  BY <1>1 DEF SubmitPacket
<1>2. ASSUME NEW u \in Workers, Dequeue(u) PROVE Up
  BY <1>2 DEF Dequeue
<1>3. ASSUME NEW u \in Workers, ExecuteNode(u) PROVE Up
  BY <1>3 DEF ExecuteNode
<1>4. ASSUME NEW u \in Workers, CheckFailed(u) PROVE Up
  BY <1>4 DEF CheckFailed
<1>5. ASSUME NEW u \in Workers, AcquireGranted(u) PROVE Up
  BY <1>5 DEF AcquireGranted
<1>6. ASSUME NEW u \in Workers, AcquireUnregistered(u) PROVE Up
  BY <1>6 DEF AcquireUnregistered, AcquireNull
<1>7. ASSUME NEW u \in Workers, AcquireTimeout(u) PROVE Up
  BY <1>7 DEF AcquireTimeout, AcquireNull
<1>8. ASSUME NEW u \in Workers, AcquireCancelled(u) PROVE Up
  BY <1>8 DEF AcquireCancelled, AcquireNull
<1>9. ASSUME NEW u \in Workers, Recheck(u) PROVE Up
  BY <1>9 DEF Recheck, MarkFailed
<1>10. ASSUME NEW u \in Workers, Execute(u) PROVE Up
  BY <1>10 DEF Execute
<1>11. ASSUME NEW u \in Workers, ExecuteThrows(u) PROVE Up
  BY <1>11 DEF ExecuteThrows, MarkFailed
<1>12. ASSUME NEW u \in Workers, ExecuteEscapes(u) PROVE Up
  BY <1>12 DEF ExecuteEscapes
<1>13. ASSUME NEW u \in Workers, Release(u) PROVE Up
  BY <1>13 DEF Release
<1>14. ASSUME NEW u \in Workers, MarkNodeCompleted(u) PROVE Up
  BY <1>14 DEF MarkNodeCompleted
<1>15. ASSUME NEW u \in Workers, MarkGraphCompleted(u) PROVE Up
  BY <1>15 DEF MarkGraphCompleted
<1>16. ASSUME NEW u \in Workers, NotifyPredecessorCompleted(u) PROVE Up
  BY <1>16 DEF NotifyPredecessorCompleted
<1>17. ASSUME NEW u \in Workers, LoadCount(u) PROVE Up
  BY <1>17 DEF LoadCount
<1>18. ASSUME NEW u \in Workers, MarkEnqueued(u) PROVE Up
  BY <1>18 DEF MarkEnqueued
<1>19. ASSUME NEW u \in Workers, MarkTaskScheduled(u) PROVE Up
  BY <1>19 DEF MarkTaskScheduled
<1>20. ASSUME NEW u \in Workers, EnqueueBatch(u) PROVE Up
  BY <1>20 DEF EnqueueBatch
<1>21. ASSUME NEW u \in Workers, MarkTaskFinished(u) PROVE Up
  BY <1>21 DEF MarkTaskFinished
<1>22. ASSUME NEW u \in Workers, TestGraphCompleted(u) PROVE Up
  BY <1>22 DEF TestGraphCompleted
<1>23. ASSUME NEW u \in Workers, ClaimCompletion(u) PROVE Up
  BY <1>23 DEF ClaimCompletion
<1>24. ASSUME NEW u \in Workers, OnGraphCompleted(u) PROVE Up
  BY <1>24 DEF OnGraphCompleted
<1>25. CASE UNCHANGED vars
  BY <1>25 DEF vars
<1> QED
  BY <1>1, <1>2, <1>3, <1>4, <1>5, <1>6, <1>7, <1>8, <1>9, <1>10, <1>11, <1>12, <1>13, <1>14, <1>15, <1>16, <1>17, <1>18, <1>19, <1>20, <1>21, <1>22, <1>23, <1>24, <1>25
     DEF Next, Worker, Advance, AllDelivered

(* A worker past its second look at hasFailed runs on inputs that were     *)
(* produced.                                                               *)
LEMMA RanWorkerNext ==
    ASSUME IInv, Produced, [Next]_vars, NEW w \in Workers
    PROVE  RanWorker(w)'
<1>0. /\ Base /\ Shape
      /\ RanWorker(w)
      /\ pc[w] # "idle" => cur[w] \in Tasks /\ Packet(w) \in Packets
  BY LocalFacts DEF IInv, Base, Produced
<1>a. ASSUME UNCHANGED <<pc[w], cur[w]>> PROVE RanWorker(w)'
  <2>1. Packet(w)' = Packet(w) /\ Node(w)' = Node(w) BY <1>a DEF Packet, Node
  <2>2. \A n : InEdges(n)' = InEdges(n) BY DEF InEdges, Edges, Target
  <2> QED BY <1>0, <1>a, <2>1, <2>2, FlagsMonotone DEF RanWorker
<1>b. ASSUME NEW u \in Workers, Worker(u), w # u PROVE RanWorker(w)'
  BY <1>0, <1>a, <1>b, OthersFrame
<1> USE <1>0 DEF Shape, RanWorker, Goto, nodeState, packetState, processor, locals, history
<1>1. ASSUME NEW p \in Packets, SubmitPacket(p) PROVE RanWorker(w)'
  BY <1>1, <1>a DEF SubmitPacket
<1>2. ASSUME NEW u \in Workers, Dequeue(u) PROVE RanWorker(w)'
  <2>1. CASE w # u BY <1>2, <1>b, <2>1 DEF Worker, Advance
  <2>2. CASE w = u
    BY <1>2, <2>2 DEF Dequeue, Packet, Node
  <2> QED BY <2>1, <2>2
<1>3. ASSUME NEW u \in Workers, ExecuteNode(u) PROVE RanWorker(w)'
  <2>1. CASE w # u BY <1>3, <1>b, <2>1 DEF Worker, Advance
  <2>2. CASE w = u
    BY <1>3, <2>2 DEF ExecuteNode, Packet, Node
  <2> QED BY <2>1, <2>2
<1>4. ASSUME NEW u \in Workers, CheckFailed(u) PROVE RanWorker(w)'
  <2>1. CASE w # u BY <1>4, <1>b, <2>1 DEF Worker, Advance
  <2>2. CASE w = u
    BY <1>4, <2>2 DEF CheckFailed, Packet, Node
  <2> QED BY <2>1, <2>2
<1>5. ASSUME NEW u \in Workers, AcquireGranted(u) PROVE RanWorker(w)'
  <2>1. CASE w # u BY <1>5, <1>b, <2>1 DEF Worker, Advance
  <2>2. CASE w = u
    BY <1>5, <2>2 DEF AcquireGranted, Packet, Node
  <2> QED BY <2>1, <2>2
<1>6. ASSUME NEW u \in Workers, AcquireUnregistered(u) PROVE RanWorker(w)'
  <2>1. CASE w # u BY <1>6, <1>b, <2>1 DEF Worker, Advance
  <2>2. CASE w = u
    BY <1>6, <2>2 DEF AcquireUnregistered, AcquireNull, Packet, Node
  <2> QED BY <2>1, <2>2
<1>7. ASSUME NEW u \in Workers, AcquireTimeout(u) PROVE RanWorker(w)'
  <2>1. CASE w # u BY <1>7, <1>b, <2>1 DEF Worker, Advance
  <2>2. CASE w = u
    BY <1>7, <2>2 DEF AcquireTimeout, AcquireNull, Packet, Node
  <2> QED BY <2>1, <2>2
<1>8. ASSUME NEW u \in Workers, AcquireCancelled(u) PROVE RanWorker(w)'
  <2>1. CASE w # u BY <1>8, <1>b, <2>1 DEF Worker, Advance
  <2>2. CASE w = u
    BY <1>8, <2>2 DEF AcquireCancelled, AcquireNull, Packet, Node
  <2> QED BY <2>1, <2>2
<1>9. ASSUME NEW u \in Workers, Recheck(u) PROVE RanWorker(w)'
  <2>1. CASE w # u BY <1>9, <1>b, <2>1 DEF Worker, Advance
  <2>2. CASE w = u
    <3>1. Packet(w)' = Packet(w) /\ Node(w)' = Node(w) BY <1>9 DEF Recheck, Packet, Node
    <3>2. ASSUME ~ hasFailed[Packet(w)], NEW e \in InEdges(Node(w))
          PROVE  <<Packet(w), e[1]>> \in ran
      <4>1. pc[w] \in Running BY <1>9, <2>2 DEF Recheck, Running, Handing, Labels
      <4>2. /\ cur[w] = <<Packet(w), Node(w)>> /\ cur[w] \in Tasks
            /\ task[cur[w]] = "running"
        BY <4>1, LocalFacts DEF Running, IInv, Ownership, OwnWorker
      <4>3. Node(w) # Input BY <3>2, NodeFacts DEF InEdges, Edges
      <4>4. <<Packet(w), e>> \in notified
        BY <3>2, <4>2, <4>3 DEF IInv, EdgesInv, EdgeTask, Pending
      <4>5. isCompleted[<<Packet(w), e[1]>>] BY <4>4 DEF IInv, EdgesInv, EdgeNotified
      <4>6. <<Packet(w), e[1]>> \in Tasks
        BY <3>2, <4>2 DEF InEdges, Edges, Tasks
      <4> QED BY <3>2, <4>5, <4>6 DEF Produced, RanTask
    <3>3. CASE hasFailed[Packet(w)]
      BY <1>9, <2>2, <3>1, <3>3 DEF Recheck, ReleaseOrComplete
    <3>4. CASE ~ hasFailed[Packet(w)] /\ NodeResource[Node(w)] # NoResource /\ ctx[w] = NoContext
      BY <1>9, <2>2, <3>1, <3>4 DEF Recheck, MarkFailed, ReleaseOrComplete
    <3>5. CASE ~ hasFailed[Packet(w)] /\ ~ (NodeResource[Node(w)] # NoResource /\ ctx[w] = NoContext)
      <4>1. pc'[w] = "execute" /\ ran' = ran BY <1>9, <2>2, <3>5 DEF Recheck
      <4>2. InEdges(Node(w))' = InEdges(Node(w)) BY <3>1 DEF InEdges, Edges, Target
      <4> QED BY <3>1, <3>2, <3>5, <4>1, <4>2
    <3> QED BY <3>3, <3>4, <3>5
  <2> QED BY <2>1, <2>2
<1>10. ASSUME NEW u \in Workers, Execute(u) PROVE RanWorker(w)'
  <2>1. CASE w # u BY <1>10, <1>b, <2>1 DEF Worker, Advance
  <2>2. CASE w = u
    BY <1>10, <2>2 DEF Execute, ReleaseOrComplete, Packet, Node
  <2> QED BY <2>1, <2>2
<1>11. ASSUME NEW u \in Workers, ExecuteThrows(u) PROVE RanWorker(w)'
  <2>1. CASE w # u BY <1>11, <1>b, <2>1 DEF Worker, Advance
  <2>2. CASE w = u
    BY <1>11, <2>2 DEF ExecuteThrows, ReleaseOrComplete, MarkFailed, Packet, Node
  <2> QED BY <2>1, <2>2
<1>12. ASSUME NEW u \in Workers, ExecuteEscapes(u) PROVE RanWorker(w)'
  <2>1. CASE w # u BY <1>12, <1>b, <2>1 DEF Worker, Advance
  <2>2. CASE w = u
    BY <1>12, <2>2 DEF ExecuteEscapes, Packet, Node
  <2> QED BY <2>1, <2>2
<1>13. ASSUME NEW u \in Workers, Release(u) PROVE RanWorker(w)'
  <2>1. CASE w # u BY <1>13, <1>b, <2>1 DEF Worker, Advance
  <2>2. CASE w = u
    BY <1>13, <2>2 DEF Release, Packet, Node
  <2> QED BY <2>1, <2>2
<1>14. ASSUME NEW u \in Workers, MarkNodeCompleted(u) PROVE RanWorker(w)'
  <2>1. CASE w # u BY <1>14, <1>b, <2>1 DEF Worker, Advance
  <2>2. CASE w = u
    BY <1>14, <2>2 DEF MarkNodeCompleted, Packet, Node
  <2> QED BY <2>1, <2>2
<1>15. ASSUME NEW u \in Workers, MarkGraphCompleted(u) PROVE RanWorker(w)'
  <2>1. CASE w # u BY <1>15, <1>b, <2>1 DEF Worker, Advance
  <2>2. CASE w = u
    BY <1>15, <2>2 DEF MarkGraphCompleted, Packet, Node
  <2> QED BY <2>1, <2>2
<1>16. ASSUME NEW u \in Workers, NotifyPredecessorCompleted(u) PROVE RanWorker(w)'
  <2>1. CASE w # u BY <1>16, <1>b, <2>1 DEF Worker, Advance
  <2>2. CASE w = u
    BY <1>16, <2>2 DEF NotifyPredecessorCompleted, Packet, Node
  <2> QED BY <2>1, <2>2
<1>17. ASSUME NEW u \in Workers, LoadCount(u) PROVE RanWorker(w)'
  <2>1. CASE w # u BY <1>17, <1>b, <2>1 DEF Worker, Advance
  <2>2. CASE w = u
    BY <1>17, <2>2 DEF LoadCount, NextChild, Packet, Node
  <2> QED BY <2>1, <2>2
<1>18. ASSUME NEW u \in Workers, MarkEnqueued(u) PROVE RanWorker(w)'
  <2>1. CASE w # u BY <1>18, <1>b, <2>1 DEF Worker, Advance
  <2>2. CASE w = u
    BY <1>18, <2>2 DEF MarkEnqueued, NextChild, Packet, Node
  <2> QED BY <2>1, <2>2
<1>19. ASSUME NEW u \in Workers, MarkTaskScheduled(u) PROVE RanWorker(w)'
  <2>1. CASE w # u BY <1>19, <1>b, <2>1 DEF Worker, Advance
  <2>2. CASE w = u
    BY <1>19, <2>2 DEF MarkTaskScheduled, NextChild, Packet, Node
  <2> QED BY <2>1, <2>2
<1>20. ASSUME NEW u \in Workers, EnqueueBatch(u) PROVE RanWorker(w)'
  <2>1. CASE w # u BY <1>20, <1>b, <2>1 DEF Worker, Advance
  <2>2. CASE w = u
    BY <1>20, <2>2 DEF EnqueueBatch, Packet, Node
  <2> QED BY <2>1, <2>2
<1>21. ASSUME NEW u \in Workers, MarkTaskFinished(u) PROVE RanWorker(w)'
  <2>1. CASE w # u BY <1>21, <1>b, <2>1 DEF Worker, Advance
  <2>2. CASE w = u
    BY <1>21, <2>2 DEF MarkTaskFinished, BackToPool, Packet, Node
  <2> QED BY <2>1, <2>2
<1>22. ASSUME NEW u \in Workers, TestGraphCompleted(u) PROVE RanWorker(w)'
  <2>1. CASE w # u BY <1>22, <1>b, <2>1 DEF Worker, Advance
  <2>2. CASE w = u
    BY <1>22, <2>2 DEF TestGraphCompleted, BackToPool, Packet, Node
  <2> QED BY <2>1, <2>2
<1>23. ASSUME NEW u \in Workers, ClaimCompletion(u) PROVE RanWorker(w)'
  <2>1. CASE w # u BY <1>23, <1>b, <2>1 DEF Worker, Advance
  <2>2. CASE w = u
    BY <1>23, <2>2 DEF ClaimCompletion, BackToPool, Packet, Node
  <2> QED BY <2>1, <2>2
<1>24. ASSUME NEW u \in Workers, OnGraphCompleted(u) PROVE RanWorker(w)'
  <2>1. CASE w # u BY <1>24, <1>b, <2>1 DEF Worker, Advance
  <2>2. CASE w = u
    BY <1>24, <2>2 DEF OnGraphCompleted, BackToPool, Packet, Node
  <2> QED BY <2>1, <2>2
<1>25. CASE UNCHANGED vars
  BY <1>25, <1>a DEF vars
<1> QED
  BY <1>1, <1>2, <1>3, <1>4, <1>5, <1>6, <1>7, <1>8, <1>9, <1>10, <1>11, <1>12, <1>13, <1>14, <1>15, <1>16, <1>17, <1>18, <1>19, <1>20, <1>21, <1>22, <1>23, <1>24, <1>25
     DEF Next, Worker, Advance, AllDelivered

(* A completed node of a packet that did not fail has really run.          *)
LEMMA RanTaskNext ==
    ASSUME IInv, Produced, [Next]_vars, NEW t \in Tasks
    PROVE  RanTask(t)'
<1>0. /\ Base /\ Shape
      /\ RanTask(t)
      /\ t[1] \in Packets
  BY DEF IInv, Base, Produced, Tasks
<1>a. InEdges(t[2])' = InEdges(t[2]) BY DEF InEdges, Edges, Target
<1>b. ASSUME isCompleted'[t] => isCompleted[t] \/ t \in ran' \/ hasFailed'[t[1]],
             t \in ran' => t \in ran
      PROVE  RanTask(t)'
  BY <1>0, <1>a, <1>b, FlagsMonotone DEF RanTask
<1> USE <1>0 DEF Shape, nodeState, packetState, processor, locals, history
<1>1. ASSUME NEW p \in Packets, SubmitPacket(p) PROVE RanTask(t)'
  BY <1>1, <1>b DEF SubmitPacket
<1>2. ASSUME NEW u \in Workers, Execute(u) PROVE RanTask(t)'
  <2>1. ran' = ran \cup {cur[u]} /\ isCompleted' = isCompleted /\ pc[u] = "execute"
    BY <1>2 DEF Execute
  <2>2. CASE t = cur[u]
    <3>1. \A e \in InEdges(t[2]) : <<t[1], e[1]>> \in ran
      BY <2>1, <2>2 DEF Produced, RanWorker, Packet, Node
    <3> QED BY <1>a, <2>1, <2>2, <3>1 DEF RanTask
  <2>3. CASE t # cur[u] BY <1>b, <2>1, <2>3
  <2> QED BY <2>2, <2>3
<1>3. ASSUME NEW u \in Workers, MarkNodeCompleted(u) PROVE RanTask(t)'
  <2>1. cur[u] \in ran \/ hasFailed[Packet(u)]
    BY <1>3 DEF MarkNodeCompleted, Produced, RanWorker
  <2> QED BY <1>3, <1>b, <2>1 DEF MarkNodeCompleted, Packet
<1>4. ASSUME NEW u \in Workers, Dequeue(u) PROVE RanTask(t)'
  BY <1>4, <1>b DEF Dequeue
<1>5. ASSUME NEW u \in Workers, ExecuteNode(u) PROVE RanTask(t)'
  BY <1>5, <1>b DEF ExecuteNode
<1>6. ASSUME NEW u \in Workers, CheckFailed(u) PROVE RanTask(t)'
  BY <1>6, <1>b DEF CheckFailed
<1>7. ASSUME NEW u \in Workers, AcquireGranted(u) PROVE RanTask(t)'
  BY <1>7, <1>b DEF AcquireGranted
<1>8. ASSUME NEW u \in Workers, AcquireUnregistered(u) PROVE RanTask(t)'
  BY <1>8, <1>b DEF AcquireUnregistered, AcquireNull
<1>9. ASSUME NEW u \in Workers, AcquireTimeout(u) PROVE RanTask(t)'
  BY <1>9, <1>b DEF AcquireTimeout, AcquireNull
<1>10. ASSUME NEW u \in Workers, AcquireCancelled(u) PROVE RanTask(t)'
  BY <1>10, <1>b DEF AcquireCancelled, AcquireNull
<1>11. ASSUME NEW u \in Workers, Recheck(u) PROVE RanTask(t)'
  BY <1>11, <1>b DEF Recheck
<1>12. ASSUME NEW u \in Workers, ExecuteThrows(u) PROVE RanTask(t)'
  BY <1>12, <1>b DEF ExecuteThrows
<1>13. ASSUME NEW u \in Workers, ExecuteEscapes(u) PROVE RanTask(t)'
  BY <1>13, <1>b DEF ExecuteEscapes
<1>14. ASSUME NEW u \in Workers, Release(u) PROVE RanTask(t)'
  BY <1>14, <1>b DEF Release
<1>15. ASSUME NEW u \in Workers, MarkGraphCompleted(u) PROVE RanTask(t)'
  BY <1>15, <1>b DEF MarkGraphCompleted
<1>16. ASSUME NEW u \in Workers, NotifyPredecessorCompleted(u) PROVE RanTask(t)'
  BY <1>16, <1>b DEF NotifyPredecessorCompleted
<1>17. ASSUME NEW u \in Workers, LoadCount(u) PROVE RanTask(t)'
  BY <1>17, <1>b DEF LoadCount
<1>18. ASSUME NEW u \in Workers, MarkEnqueued(u) PROVE RanTask(t)'
  BY <1>18, <1>b DEF MarkEnqueued
<1>19. ASSUME NEW u \in Workers, MarkTaskScheduled(u) PROVE RanTask(t)'
  BY <1>19, <1>b DEF MarkTaskScheduled
<1>20. ASSUME NEW u \in Workers, EnqueueBatch(u) PROVE RanTask(t)'
  BY <1>20, <1>b DEF EnqueueBatch
<1>21. ASSUME NEW u \in Workers, MarkTaskFinished(u) PROVE RanTask(t)'
  BY <1>21, <1>b DEF MarkTaskFinished
<1>22. ASSUME NEW u \in Workers, TestGraphCompleted(u) PROVE RanTask(t)'
  BY <1>22, <1>b DEF TestGraphCompleted
<1>23. ASSUME NEW u \in Workers, ClaimCompletion(u) PROVE RanTask(t)'
  BY <1>23, <1>b DEF ClaimCompletion
<1>24. ASSUME NEW u \in Workers, OnGraphCompleted(u) PROVE RanTask(t)'
  BY <1>24, <1>b DEF OnGraphCompleted
<1>25. CASE UNCHANGED vars
  BY <1>25, <1>b DEF vars
<1> QED
  BY <1>1, <1>2, <1>3, <1>4, <1>5, <1>6, <1>7, <1>8, <1>9, <1>10, <1>11, <1>12, <1>13, <1>14, <1>15, <1>16, <1>17, <1>18, <1>19, <1>20, <1>21, <1>22, <1>23, <1>24, <1>25
     DEF Next, Worker, Advance, AllDelivered

(* A packet that is completed and did not fail has run its output node.    *)
LEMMA RanPacketNext ==
    ASSUME IInv, Produced, [Next]_vars, NEW q \in Packets
    PROVE  RanPacket(q)'
<1>0. /\ Base /\ Shape
      /\ RanPacket(q)
      /\ <<q, Output>> \in Tasks
  BY NodeFacts DEF IInv, Base, Produced, Tasks
<1>a. ASSUME isGraphCompleted'[q] => isGraphCompleted[q] \/ isCompleted'[<<q, Output>>],
             delivered'[q] > 0 => delivered[q] > 0 \/ isGraphCompleted'[q]
      PROVE  RanPacket(q)'
  BY <1>0, <1>a, FlagsMonotone DEF RanPacket
<1> USE <1>0 DEF Shape, nodeState, packetState, processor, locals, history
<1>1. ASSUME NEW p \in Packets, SubmitPacket(p) PROVE RanPacket(q)'
  BY <1>1, <1>a DEF SubmitPacket
<1>2. ASSUME NEW u \in Workers, MarkGraphCompleted(u) PROVE RanPacket(q)'
  <2>1. /\ isCompleted[cur[u]]
        /\ cur[u] = <<Packet(u), Output>>
    BY <1>2, LocalFacts
       DEF MarkGraphCompleted, IInv, EdgesInv, EdgeWorker, Produced, RanWorker
  <2> QED BY <1>2, <1>a, <2>1 DEF MarkGraphCompleted
<1>3. ASSUME NEW u \in Workers, OnGraphCompleted(u) PROVE RanPacket(q)'
  <2>1. isGraphCompleted[Packet(u)]
    BY <1>3 DEF OnGraphCompleted, Produced, RanWorker
  <2> QED BY <1>3, <1>a, <2>1 DEF OnGraphCompleted
<1>4. ASSUME NEW u \in Workers, Dequeue(u) PROVE RanPacket(q)'
  BY <1>4, <1>a DEF Dequeue
<1>5. ASSUME NEW u \in Workers, ExecuteNode(u) PROVE RanPacket(q)'
  BY <1>5, <1>a DEF ExecuteNode
<1>6. ASSUME NEW u \in Workers, CheckFailed(u) PROVE RanPacket(q)'
  BY <1>6, <1>a DEF CheckFailed
<1>7. ASSUME NEW u \in Workers, AcquireGranted(u) PROVE RanPacket(q)'
  BY <1>7, <1>a DEF AcquireGranted
<1>8. ASSUME NEW u \in Workers, AcquireUnregistered(u) PROVE RanPacket(q)'
  BY <1>8, <1>a DEF AcquireUnregistered, AcquireNull
<1>9. ASSUME NEW u \in Workers, AcquireTimeout(u) PROVE RanPacket(q)'
  BY <1>9, <1>a DEF AcquireTimeout, AcquireNull
<1>10. ASSUME NEW u \in Workers, AcquireCancelled(u) PROVE RanPacket(q)'
  BY <1>10, <1>a DEF AcquireCancelled, AcquireNull
<1>11. ASSUME NEW u \in Workers, Recheck(u) PROVE RanPacket(q)'
  BY <1>11, <1>a DEF Recheck
<1>12. ASSUME NEW u \in Workers, Execute(u) PROVE RanPacket(q)'
  BY <1>12, <1>a DEF Execute
<1>13. ASSUME NEW u \in Workers, ExecuteThrows(u) PROVE RanPacket(q)'
  BY <1>13, <1>a DEF ExecuteThrows
<1>14. ASSUME NEW u \in Workers, ExecuteEscapes(u) PROVE RanPacket(q)'
  BY <1>14, <1>a DEF ExecuteEscapes
<1>15. ASSUME NEW u \in Workers, Release(u) PROVE RanPacket(q)'
  BY <1>15, <1>a DEF Release
<1>16. ASSUME NEW u \in Workers, MarkNodeCompleted(u) PROVE RanPacket(q)'
  BY <1>16, <1>a DEF MarkNodeCompleted
<1>17. ASSUME NEW u \in Workers, NotifyPredecessorCompleted(u) PROVE RanPacket(q)'
  BY <1>17, <1>a DEF NotifyPredecessorCompleted
<1>18. ASSUME NEW u \in Workers, LoadCount(u) PROVE RanPacket(q)'
  BY <1>18, <1>a DEF LoadCount
<1>19. ASSUME NEW u \in Workers, MarkEnqueued(u) PROVE RanPacket(q)'
  BY <1>19, <1>a DEF MarkEnqueued
<1>20. ASSUME NEW u \in Workers, MarkTaskScheduled(u) PROVE RanPacket(q)'
  BY <1>20, <1>a DEF MarkTaskScheduled
<1>21. ASSUME NEW u \in Workers, EnqueueBatch(u) PROVE RanPacket(q)'
  BY <1>21, <1>a DEF EnqueueBatch
<1>22. ASSUME NEW u \in Workers, MarkTaskFinished(u) PROVE RanPacket(q)'
  BY <1>22, <1>a DEF MarkTaskFinished
<1>23. ASSUME NEW u \in Workers, TestGraphCompleted(u) PROVE RanPacket(q)'
  BY <1>23, <1>a DEF TestGraphCompleted
<1>24. ASSUME NEW u \in Workers, ClaimCompletion(u) PROVE RanPacket(q)'
  BY <1>24, <1>a DEF ClaimCompletion
<1>25. CASE UNCHANGED vars
  BY <1>25, <1>a DEF vars
<1> QED
  BY <1>1, <1>2, <1>3, <1>4, <1>5, <1>6, <1>7, <1>8, <1>9, <1>10, <1>11, <1>12, <1>13, <1>14, <1>15, <1>16, <1>17, <1>18, <1>19, <1>20, <1>21, <1>22, <1>23, <1>24, <1>25
     DEF Next, Worker, Advance, AllDelivered

(* Produced is preserved too, relative to the inductive invariant.         *)
THEOREM ProducedInvariance == Spec => []Produced
<1>1. IInv /\ Produced /\ [Next]_vars => Produced'
  BY RanWorkerNext, RanTaskNext, RanPacketNext DEF Produced
<1> QED BY <1>1, ProducedInit, Invariance, PTL DEF Spec

(* A node is executed only when all its predecessors' nodes really ran.    *)
THEOREM InputsProducedCorrect == Spec => []InputsProduced
<1>1. IInv /\ Produced => InputsProduced
  <2> SUFFICES ASSUME IInv, Produced,
                      NEW t \in ran \cup {cur[w] : w \in {v \in Workers : pc[v] = "execute"}},
                      NEW e \in InEdges(t[2])
               PROVE  <<t[1], e[1]>> \in ran
    BY DEF InputsProduced
  <2>1. CASE t \in ran
    <3>1. t \in Tasks BY <2>1 DEF IInv, Base, Shape
    <3> QED BY <2>1, <3>1 DEF Produced, RanTask
  <2>2. ASSUME NEW w \in Workers, pc[w] = "execute", t = cur[w]
        PROVE  <<t[1], e[1]>> \in ran
    BY <2>2 DEF Produced, RanWorker, Packet, Node
  <2> QED BY <2>1, <2>2
<1> QED BY <1>1, Invariance, ProducedInvariance, PTL

(* A packet delivered without failure has its output node's result.        *)
THEOREM ResultCorrect == Spec => []ResultComplete
<1>1. IInv /\ Produced => ResultComplete
  <2> SUFFICES ASSUME IInv, Produced, NEW p \in Packets,
                      delivered[p] > 0, ~ hasFailed[p]
               PROVE  <<p, Output>> \in ran
    BY DEF ResultComplete
  <2>1. <<p, Output>> \in Tasks BY NodeFacts DEF Tasks
  <2>2. isCompleted[<<p, Output>>] BY DEF Produced, RanPacket
  <2>3. RanTask(<<p, Output>>) BY <2>1 DEF Produced
  <2> QED BY <2>2, <2>3 DEF RanTask
<1> QED BY <1>1, Invariance, ProducedInvariance, PTL

-----------------------------------------------------------------------------
(***************************************************************************)
(* The contexts, for any number of them, also infinitely many.             *)
(***************************************************************************)

(* A worker between acquire and release either has a context of its node's  *)
(* type, or none; when it executes, it has one exactly if the node asks for *)
(* one, so that an exception loses one exactly then.                        *)
CtxWorker(w) ==
    /\ ctx[w] # NoContext => ctx[w] \notin free
    /\ pc[w] \in {"recheck", "execute"} /\ ctx[w] # NoContext =>
           ContextType[ctx[w]] = NodeResource[Node(w)]
    /\ pc[w] = "execute" /\ NodeResource[Node(w)] # NoResource => ctx[w] # NoContext

CtxPair(w, v) == ctx[w] # NoContext => ctx[w] # ctx[v]

Missing == Contexts \ (free \cup Held)

Lost ==
    /\ IsFiniteSet(Missing) /\ IsFiniteSet(TornTasks)
    /\ Cardinality(Missing) = Cardinality(TornTasks)

CtxInv ==
    /\ \A w \in Workers : CtxWorker(w)
    /\ \A w, v \in Workers : w # v => CtxPair(w, v)
    /\ Lost

(* At the start all contexts are in the pool. *)
LEMMA CtxInit == Init => CtxInv
<1> SUFFICES ASSUME Init PROVE CtxInv
  OBVIOUS
<1>1. (\A w \in Workers : CtxWorker(w)) /\ (\A w, v \in Workers : w # v => CtxPair(w, v))
  BY DEF Init, CtxWorker, CtxPair
<1>2. Missing = {} /\ TornTasks = {}
  BY DEF Init, Missing, TornTasks, Held
<1>3. Lost
  BY <1>2, FS_EmptySet DEF Lost
<1> QED BY <1>1, <1>3 DEF CtxInv

(* The steps that move no context and tear no task out.                     *)
Settled(w) ==
    Worker(w) /\ ~ (AcquireGranted(w) \/ Release(w) \/ ExecuteEscapes(w))

(* What such a step leaves alone, and where it comes from when it leads to the node. *)
LEMMA SettledFrame ==
    ASSUME Base, Ownership, NEW u \in Workers, Settled(u)
    PROVE  /\ UNCHANGED <<free, ctx>>
           /\ \A t \in Tasks : task'[t] = "abandoned" <=> task[t] = "abandoned"
           /\ pc'[u] = "recheck" => pc[u] \in {"checkFailed", "acquire"} /\ cur' = cur
           /\ pc'[u] = "execute" =>
                 /\ pc[u] = "recheck" /\ cur' = cur
                 /\ NodeResource[Node(u)] # NoResource => ctx[u] # NoContext
<1> USE DEF Settled, Goto, nodeState, packetState, processor, locals, history
<1>0. Shape BY DEF Base
<1>a. OwnWorker(u) BY DEF Ownership
<1> USE <1>0 DEF Shape
<1>1. CASE Dequeue(u) BY <1>1 DEF Dequeue, Queued
<1>2. CASE ExecuteNode(u) BY <1>2 DEF ExecuteNode
<1>3. CASE CheckFailed(u) BY <1>3 DEF CheckFailed
<1>4. CASE AcquireUnregistered(u) BY <1>4 DEF AcquireUnregistered, AcquireNull
<1>5. CASE AcquireTimeout(u) BY <1>5 DEF AcquireTimeout, AcquireNull
<1>6. CASE AcquireCancelled(u) BY <1>6 DEF AcquireCancelled, AcquireNull
<1>7. CASE Recheck(u) BY <1>7 DEF Recheck, ReleaseOrComplete
<1>8. CASE Execute(u) BY <1>8 DEF Execute, ReleaseOrComplete
<1>9. CASE ExecuteThrows(u) BY <1>9 DEF ExecuteThrows, ReleaseOrComplete
<1>10. CASE MarkNodeCompleted(u) BY <1>10 DEF MarkNodeCompleted
<1>11. CASE MarkGraphCompleted(u) BY <1>11 DEF MarkGraphCompleted
<1>12. CASE NotifyPredecessorCompleted(u) BY <1>12 DEF NotifyPredecessorCompleted
<1>13. CASE LoadCount(u) BY <1>13 DEF LoadCount, NextChild
<1>14. CASE MarkEnqueued(u) BY <1>14 DEF MarkEnqueued, NextChild
<1>15. CASE MarkTaskScheduled(u)
  BY <1>15, <1>a DEF MarkTaskScheduled, NextChild, OwnWorker
<1>16. CASE EnqueueBatch(u) BY <1>16, <1>a DEF EnqueueBatch, OwnWorker
<1>17. CASE MarkTaskFinished(u)
  BY <1>17, <1>a DEF MarkTaskFinished, BackToPool, OwnWorker, Running, Handing, Labels
<1>18. CASE TestGraphCompleted(u) BY <1>18 DEF TestGraphCompleted, BackToPool
<1>19. CASE ClaimCompletion(u) BY <1>19 DEF ClaimCompletion, BackToPool
<1>20. CASE OnGraphCompleted(u) BY <1>20 DEF OnGraphCompleted, BackToPool
<1> QED
  BY <1>1, <1>2, <1>3, <1>4, <1>5, <1>6, <1>7, <1>8, <1>9, <1>10, <1>11, <1>12, <1>13,
     <1>14, <1>15, <1>16, <1>17, <1>18, <1>19, <1>20 DEF Worker, Advance

(* They keep the invariant. *)
LEMMA SettledKeeps ==
    ASSUME Base, Ownership, CtxInv, NEW u \in Workers, Settled(u)
    PROVE  CtxInv'
<1>1. UNCHANGED <<free, ctx>> /\ \A t \in Tasks : task'[t] = "abandoned" <=> task[t] = "abandoned"
  BY SettledFrame
<1>2. ASSUME NEW w \in Workers PROVE CtxWorker(w)'
  <2>0. CtxWorker(w) BY DEF CtxInv
  <2>1. CASE w # u
    <3>1. pc'[w] = pc[w] /\ Node(w)' = Node(w)
      BY <2>1, OthersFrame DEF Settled, Base
    <3> QED BY <1>1, <2>0, <3>1 DEF CtxWorker
  <2>2. CASE w = u
    <3>1. pc'[u] = "recheck" => ctx[u] = NoContext
      BY SettledFrame DEF Base, Control, Holding
    <3>2. pc'[u] = "execute" =>
            /\ pc[u] = "recheck" /\ Node(u)' = Node(u)
            /\ NodeResource[Node(u)] # NoResource => ctx[u] # NoContext
      BY SettledFrame DEF Node
    <3> QED BY <1>1, <2>0, <2>2, <3>1, <3>2 DEF CtxWorker
  <2> QED BY <2>1, <2>2
<1>3. ASSUME NEW w \in Workers, NEW v \in Workers, w # v PROVE CtxPair(w, v)'
  BY <1>1, <1>3 DEF CtxInv, CtxPair
<1>4. Missing' = Missing /\ TornTasks' = TornTasks
  BY <1>1 DEF Missing, TornTasks, Held
<1> QED BY <1>2, <1>3, <1>4 DEF CtxInv, Lost

(* A context goes from the pool to a worker that had none. *)
LEMMA GrantedKeeps ==
    ASSUME Base, CtxInv, NEW u \in Workers, AcquireGranted(u)
    PROVE  CtxInv'
<1>1. PICK c \in free \cap OfType(NodeResource[Node(u)]) :
           free' = free \ {c} /\ ctx' = [ctx EXCEPT ![u] = c]
  BY DEF AcquireGranted
<1>2. /\ UNCHANGED <<task, cur>> /\ pc'[u] = "recheck" /\ ctx[u] = NoContext
      /\ c \in Contexts /\ c # NoContext /\ ctx'[u] = c
      /\ \A w \in Workers : w # u => ctx'[w] = ctx[w] /\ ctx[w] # c /\ pc'[w] = pc[w]
  <2>1. UNCHANGED <<task, cur>> /\ pc[u] = "acquire" /\ pc' = [pc EXCEPT ![u] = "recheck"]
    BY DEF AcquireGranted, Goto
  <2>2. ctx[u] = NoContext
    BY <2>1 DEF Base, Control, Holding
  <2>3. c \in Contexts /\ c # NoContext
    BY ResourceAssumption DEF ResourceAssumption, OfType
  <2> QED BY <1>1, <2>1, <2>2, <2>3 DEF Base, Shape, CtxInv, CtxWorker
<1>3. ASSUME NEW w \in Workers PROVE CtxWorker(w)'
  <2>0. CtxWorker(w) /\ Node(w)' = Node(w)
    BY <1>2 DEF CtxInv, Node
  <2> QED BY <1>1, <1>2, <2>0 DEF CtxWorker, OfType
<1>4. ASSUME NEW w \in Workers, NEW v \in Workers, w # v PROVE CtxPair(w, v)'
  BY <1>2, <1>4 DEF CtxInv, CtxPair
<1>5. Missing' = Missing /\ TornTasks' = TornTasks
  <2>1. Held' = Held \cup {c}
    BY <1>2 DEF Held
  <2> QED BY <1>1, <1>2, <2>1 DEF Missing, TornTasks
<1> QED BY <1>3, <1>4, <1>5 DEF CtxInv, Lost

(* And back. *)
LEMMA ReleaseKeeps ==
    ASSUME Base, CtxInv, NEW u \in Workers, Release(u)
    PROVE  CtxInv'
<1>1. /\ UNCHANGED <<task, cur>> /\ pc'[u] = "complete"
      /\ free' = free \cup {ctx[u]} /\ ctx'[u] = NoContext
      /\ ctx[u] \in Contexts /\ ctx[u] # NoContext
      /\ \A w \in Workers : w # u => ctx'[w] = ctx[w] /\ pc'[w] = pc[w]
  BY ResourceAssumption DEF ResourceAssumption, Release, Goto, Base, Shape, Control
<1>2. \A w \in Workers : w # u /\ ctx[w] # NoContext => ctx[w] # ctx[u]
  BY DEF CtxInv, CtxPair
<1>3. ASSUME NEW w \in Workers PROVE CtxWorker(w)'
  <2>0. CtxWorker(w) /\ Node(w)' = Node(w)
    BY <1>1 DEF CtxInv, Node
  <2> QED BY <1>1, <1>2, <2>0 DEF CtxWorker
<1>4. ASSUME NEW w \in Workers, NEW v \in Workers, w # v PROVE CtxPair(w, v)'
  BY <1>1, <1>4 DEF CtxInv, CtxPair
<1>5. Missing' = Missing /\ TornTasks' = TornTasks
  <2>1. Held' = Held \ {ctx[u]} /\ ctx[u] \in Held
    BY <1>1, <1>2 DEF Held
  <2> QED BY <1>1, <2>1 DEF Missing, TornTasks
<1> QED BY <1>3, <1>4, <1>5 DEF CtxInv, Lost

(* A foreign exception: one context and one task, or none if the node needs none. *)
LEMMA EscapesKeeps ==
    ASSUME Base, Ownership, CtxInv, NEW u \in Workers, ExecuteEscapes(u)
    PROVE  CtxInv'
<1>1. /\ pc[u] = "execute" /\ pc'[u] = "idle" /\ free' = free
      /\ task' = [task EXCEPT ![cur[u]] = "abandoned"]
      /\ cur[u] \in Tasks /\ task[cur[u]] = "running" /\ cur[u][2] = Node(u)
      /\ ctx'[u] = NoContext
      /\ \A w \in Workers : w # u => ctx'[w] = ctx[w] /\ pc'[w] = pc[w] /\ cur'[w] = cur[w]
  <2>1. pc[u] = "execute" /\ OwnWorker(u)
    BY DEF ExecuteEscapes, Ownership
  <2>2. task[cur[u]] = "running" /\ cur[u] \in Tasks
    BY <2>1 DEF OwnWorker, Running, Handing, Labels, Base, Control
  <2> QED BY <2>1, <2>2 DEF ExecuteEscapes, Goto, Base, Shape, Node
<1>2. ASSUME NEW w \in Workers PROVE CtxWorker(w)'
  <2>0. CtxWorker(w) BY DEF CtxInv
  <2>1. CASE w = u BY <1>1, <2>1 DEF CtxWorker
  <2>2. CASE w # u
    <3>1. Node(w)' = Node(w) BY <1>1, <2>2 DEF Node
    <3> QED BY <1>1, <2>0, <2>2, <3>1 DEF CtxWorker
  <2> QED BY <2>1, <2>2
<1>3. ASSUME NEW w \in Workers, NEW v \in Workers, w # v PROVE CtxPair(w, v)'
  BY <1>1, <1>3 DEF CtxInv, CtxPair
<1>4. CASE NodeResource[Node(u)] = NoResource
  <2>1. ctx[u] = NoContext
    <3>1. ctx[u] # NoContext => ctx[u] \in Contexts /\ ContextType[ctx[u]] = NodeResource[Node(u)]
      BY <1>1 DEF CtxInv, CtxWorker, Base, Shape
    <3> QED BY <1>4, <3>1, ResourceAssumption DEF ResourceAssumption
  <2>2. Held' = Held
    BY <1>1, <2>1 DEF Held
  <2>3. TornTasks' = TornTasks
    BY <1>1, <1>4 DEF TornTasks, Base, Shape
  <2>4. Missing' = Missing
    BY <1>1, <2>2 DEF Missing
  <2> QED BY <1>2, <1>3, <2>3, <2>4 DEF CtxInv, Lost
<1>5. CASE NodeResource[Node(u)] # NoResource
  <2>1. ctx[u] # NoContext /\ ctx[u] \in Contexts /\ ctx[u] \notin free
    BY <1>1, <1>5 DEF CtxInv, CtxWorker, Base, Shape
  <2>2. \A w \in Workers : w # u /\ ctx[w] # NoContext => ctx[w] # ctx[u]
    BY DEF CtxInv, CtxPair
  <2>3. Held' = Held \ {ctx[u]} /\ ctx[u] \in Held
    BY <1>1, <2>1, <2>2 DEF Held
  <2>4. Missing' = Missing \cup {ctx[u]} /\ ctx[u] \notin Missing
    BY <1>1, <2>1, <2>3 DEF Missing
  <2>5. TornTasks' = TornTasks \cup {cur[u]} /\ cur[u] \notin TornTasks
    BY <1>1, <1>5 DEF TornTasks, Base, Shape
  <2>6. IsFiniteSet(Missing') /\ Cardinality(Missing') = Cardinality(Missing) + 1
    BY <2>4, FS_AddElement DEF CtxInv, Lost
  <2>7. IsFiniteSet(TornTasks') /\ Cardinality(TornTasks') = Cardinality(TornTasks) + 1
    BY <2>5, FS_AddElement DEF CtxInv, Lost
  <2>8. Lost'
    BY <2>6, <2>7 DEF CtxInv, Lost
  <2> QED BY <1>2, <1>3, <2>8 DEF CtxInv
<1> QED BY <1>4, <1>5

(* Submitting creates a task and moves no context. *)
LEMMA SubmitKeeps ==
    ASSUME Base, Ownership, CtxInv, NEW p \in Packets, SubmitPacket(p)
    PROVE  CtxInv'
<1>1. UNCHANGED <<free, ctx, pc, cur>> /\ task' = [task EXCEPT ![<<p, Input>>] = "queued"]
  BY DEF SubmitPacket, locals
<1>2. task[<<p, Input>>] = "none"
  <2>1. <<p, Input>> \in Tasks BY NodeFacts DEF Tasks
  <2>2. OwnTask(<<p, Input>>) BY <2>1 DEF Ownership
  <2> QED BY <2>2 DEF SubmitPacket, OwnTask, Submitted
<1>3. Missing' = Missing /\ TornTasks' = TornTasks
  BY <1>1, <1>2 DEF Missing, TornTasks, Held, Base, Shape
<1>4. \A w \in Workers : CtxWorker(w)'
  BY <1>1 DEF CtxInv, CtxWorker, Node
<1>5. \A w, v \in Workers : w # v => CtxPair(w, v)'
  BY <1>1 DEF CtxInv, CtxPair
<1> QED BY <1>3, <1>4, <1>5 DEF CtxInv, Lost

(* Every step keeps the invariant. *)
LEMMA CtxStep == IInv /\ CtxInv /\ [Next]_vars => CtxInv'
<1> SUFFICES ASSUME IInv, CtxInv, [Next]_vars PROVE CtxInv'
  OBVIOUS
<1> USE DEF IInv
<1>1. ASSUME NEW p \in Packets, SubmitPacket(p) PROVE CtxInv'
  BY <1>1, SubmitKeeps
<1>2. ASSUME NEW w \in Workers, Worker(w) PROVE CtxInv'
  BY <1>2, SettledKeeps, GrantedKeeps, ReleaseKeeps, EscapesKeeps DEF Settled
<1>3. CASE UNCHANGED vars
  <2>1. UNCHANGED <<free, ctx, pc, cur, task>>
    BY <1>3 DEF vars, locals
  <2>2. Missing' = Missing /\ TornTasks' = TornTasks
    BY <2>1 DEF Missing, TornTasks, Held
  <2>3. \A w \in Workers : CtxWorker(w)'
    BY <2>1 DEF CtxInv, CtxWorker, Node
  <2>4. \A w, v \in Workers : w # v => CtxPair(w, v)'
    BY <2>1 DEF CtxInv, CtxPair
  <2> QED BY <2>2, <2>3, <2>4 DEF CtxInv, Lost
<1> QED BY <1>1, <1>2, <1>3 DEF Next, AllDelivered

(* No context is held twice, or held and in the pool; a node that runs has a *)
(* context of its type; and exactly one context is missing for each task     *)
(* that needed one and was torn out by a foreign exception (executeNode,     *)
(* task_scheduler.cpp:124-139).                                              *)
THEOREM ContextsCorrect == Spec => []ContextsConserved
<1>1. IInv /\ CtxInv => ContextsConserved
  <2> SUFFICES ASSUME IInv, CtxInv PROVE ContextsConserved
    OBVIOUS
  <2>1. \A w \in Workers : ctx[w] # NoContext =>
           ctx[w] \notin free /\ \A v \in Workers \ {w} : ctx[v] # ctx[w]
    BY DEF CtxInv, CtxWorker, CtxPair
  <2>2. \A w \in Workers : pc[w] = "execute" /\ NodeResource[Node(w)] # NoResource =>
           ctx[w] \in Contexts /\ ContextType[ctx[w]] = NodeResource[Node(w)]
    BY DEF CtxInv, CtxWorker, IInv, Base, Shape
  <2> QED BY <2>1, <2>2 DEF ContextsConserved, CtxInv, Lost, Missing
<1> QED BY <1>1, CtxInit, CtxStep, Invariance, PTL DEF Spec

-----------------------------------------------------------------------------
(***************************************************************************)
(* TaskScheduler implements DagExecution, for every number of contexts     *)
(* and whatever fails.                                                     *)
(***************************************************************************)

(* A node's code has not run while its task waits, nor while its worker is *)
(* on the way to it: what makes "at most once" a property of the code's    *)
(* runs and not only of its tasks.                                         *)
Waiting == {"none", "ready", "queued"}
Early   == {"executeNode", "checkFailed", "acquire", "recheck", "execute"}

FreshTask(t)   == task[t] \in Waiting => t \notin ran
FreshWorker(w) == pc[w] \in Early => cur[w] \notin ran

Fresh ==
    /\ \A t \in Tasks : FreshTask(t)
    /\ \A w \in Workers : FreshWorker(w)

(* Nothing has run in the beginning.                                       *)
LEMMA FreshInit == Init => Fresh
BY DEF Init, Fresh, FreshTask, FreshWorker, Early

(* A worker at a node runs it alone.                                       *)
LEMMA AtNode ==
    ASSUME IInv, NEW w \in Workers, pc[w] \in Running
    PROVE  /\ cur[w] \in Tasks /\ task[cur[w]] = "running"
           /\ cur[w] = <<Packet(w), Node(w)>>
           /\ Packet(w) \in Packets /\ Node(w) \in Nodes
           /\ \A v \in Workers : v # w /\ pc[v] \in Running => cur[v] # cur[w]
<1>1. pc[w] # "idle"  BY DEF Running
<1>2. OwnWorker(w) /\ \A v \in Workers : v # w => OwnPair(w, v)
  BY DEF IInv, Ownership
<1> QED
  BY <1>1, <1>2, LocalFacts DEF IInv, OwnWorker, OwnPair

(* Only executing a node adds to ran.                                      *)
LEMMA RanStep ==
    ASSUME [Next]_vars
    PROVE  ran' = ran \/ \E w \in Workers : Execute(w)
<1> USE DEF history
<1>1. ASSUME NEW p \in Packets, SubmitPacket(p) PROVE ran' = ran
  BY <1>1 DEF SubmitPacket
<1>2. ASSUME NEW w \in Workers, Worker(w), ~ Execute(w) PROVE ran' = ran
  BY <1>2 DEF Worker, Advance, Dequeue, ExecuteNode, CheckFailed, AcquireGranted,
     AcquireUnregistered, AcquireTimeout, AcquireCancelled, AcquireNull, Recheck,
     ExecuteThrows, ExecuteEscapes, Release, MarkNodeCompleted, MarkGraphCompleted,
     NotifyPredecessorCompleted, LoadCount, MarkEnqueued, MarkTaskScheduled,
     EnqueueBatch, MarkTaskFinished, TestGraphCompleted, ClaimCompletion,
     OnGraphCompleted
<1>3. CASE UNCHANGED vars  BY <1>3 DEF vars
<1> QED  BY <1>1, <1>2, <1>3 DEF Next, AllDelivered

(* A worker comes to a node from the queue, or moves on along executeNode. *)
LEMMA EarlyStep ==
    ASSUME IInv, NEW w \in Workers, Worker(w), pc'[w] \in Early
    PROVE  \/ pc[w] \in Early /\ cur'[w] = cur[w] /\ ran' = ran
           \/ ran' = ran /\ \E t \in Tasks : task[t] = "queued" /\ cur'[w] = t
<1> Shape  BY DEF IInv, Base
<1> USE DEF Shape, Goto, Early, locals, history
<1>1. CASE Dequeue(w)  BY <1>1 DEF Dequeue, Queued
<1>2. CASE ExecuteNode(w)  BY <1>2 DEF ExecuteNode
<1>3. CASE CheckFailed(w)  BY <1>3 DEF CheckFailed
<1>4. CASE AcquireGranted(w)  BY <1>4 DEF AcquireGranted
<1>5. CASE AcquireUnregistered(w) \/ AcquireTimeout(w) \/ AcquireCancelled(w)
  BY <1>5 DEF AcquireUnregistered, AcquireTimeout, AcquireCancelled, AcquireNull
<1>6. CASE Recheck(w)  BY <1>6 DEF Recheck, ReleaseOrComplete
<1>7. CASE Execute(w) \/ ExecuteThrows(w)
  BY <1>7 DEF Execute, ExecuteThrows, ReleaseOrComplete
<1>8. CASE ExecuteEscapes(w) \/ Release(w)
  BY <1>8 DEF ExecuteEscapes, Release
<1>9. CASE MarkNodeCompleted(w) \/ MarkGraphCompleted(w)
  BY <1>9 DEF MarkNodeCompleted, MarkGraphCompleted
<1>10. CASE NotifyPredecessorCompleted(w) \/ LoadCount(w) \/ MarkEnqueued(w)
  BY <1>10 DEF NotifyPredecessorCompleted, LoadCount, MarkEnqueued
<1>11. CASE MarkTaskScheduled(w) \/ EnqueueBatch(w)
  BY <1>11 DEF MarkTaskScheduled, EnqueueBatch
<1>12. CASE MarkTaskFinished(w) \/ TestGraphCompleted(w) \/ ClaimCompletion(w)
            \/ OnGraphCompleted(w)
  BY <1>12 DEF MarkTaskFinished, TestGraphCompleted, ClaimCompletion,
               OnGraphCompleted, BackToPool
<1> QED
  BY <1>1, <1>2, <1>3, <1>4, <1>5, <1>6, <1>7, <1>8, <1>9, <1>10, <1>11, <1>12
     DEF Worker, Advance

(* A waiting node is still one that has not run.                           *)
LEMMA FreshTaskNext ==
    ASSUME IInv, Fresh, [Next]_vars, NEW t \in Tasks
    PROVE  FreshTask(t)'
<1>1. TaskStep(t)  BY TaskStepNext DEF IInv
<1>2. task'[t] \in Waiting => task[t] \in Waiting
  BY <1>1 DEF TaskStep, Waiting
<1>3. ASSUME NEW w \in Workers, Execute(w) PROVE FreshTask(t)'
  <2>1. task' = task /\ ran' = ran \cup {cur[w]} /\ pc[w] \in Running
    BY <1>3 DEF Execute, Running, Handing, Labels
  <2>2. task[cur[w]] = "running"  BY <2>1, AtNode
  <2> QED  BY <2>1, <2>2 DEF Fresh, FreshTask, Waiting
<1> QED  BY <1>2, <1>3, RanStep DEF Fresh, FreshTask

(* So is one that a worker is about to run: no other worker runs it.       *)
LEMMA FreshWorkerNext ==
    ASSUME IInv, Fresh, [Next]_vars, NEW w \in Workers
    PROVE  FreshWorker(w)'
<1> SUFFICES ASSUME pc'[w] \in Early PROVE cur'[w] \notin ran'
  BY DEF FreshWorker
<1> Shape  BY DEF IInv, Base
<1>1. CASE Worker(w)
  BY <1>1, EarlyStep DEF Fresh, FreshTask, FreshWorker, Waiting
<1>2. ASSUME NEW u \in Workers, u # w, Worker(u) PROVE cur'[w] \notin ran'
  <2>1. pc'[w] = pc[w] /\ cur'[w] = cur[w]  BY <1>2, OthersFrame
  <2>2. pc[w] \in Running  BY <2>1 DEF Early, Running, Handing, Labels
  <2>3. ASSUME NEW v \in Workers, Execute(v) PROVE cur[w] \notin ran'
    <3>1. ran' = ran \cup {cur[v]} /\ pc[v] = "execute" /\ pc'[v] \notin Early
      BY <2>3 DEF Execute, ReleaseOrComplete, Goto, Early, Shape
    <3>2. v # w /\ pc[v] \in Running
      BY <3>1 DEF Running, Handing, Labels
    <3>3. cur[v] # cur[w]  BY <2>2, <3>2, AtNode
    <3> QED  BY <2>1, <3>1, <3>3 DEF Fresh, FreshWorker
  <2> QED  BY <2>1, <2>3, RanStep DEF Fresh, FreshWorker
<1>3. CASE UNCHANGED <<pc, cur, ran>>
  BY <1>3 DEF Fresh, FreshWorker
<1>4. ASSUME NEW p \in Packets, SubmitPacket(p) PROVE UNCHANGED <<pc, cur, ran>>
  BY <1>4 DEF SubmitPacket, locals, history
<1> QED
  BY <1>1, <1>2, <1>3, <1>4 DEF Next, AllDelivered, vars, locals, history
-----------------------------------------------------------------------------
(* The refinement.  The abstract state, as the mapping computes it.        *)
MSubmitted == {p \in Packets : Submitted(p)}
MStarted   == {t \in Tasks : task[t] # "none"}
MOpen      == {t \in Tasks : task[t] \in Live}
MCompleted == {t \in Tasks : isCompleted[t]}
MFailed    == {p \in Packets : hasFailed[p]}

MState == <<MSubmitted, delivered, MStarted, MOpen, ran, MCompleted, MFailed>>

(* A step that changes none of it is none of the abstract execution.       *)
LEMMA Stutter == UNCHANGED MState => UNCHANGED Execution!vars
BY DEF MState, MSubmitted, MStarted, MOpen, MCompleted, MFailed, Execution!vars

(* What the inputs of a task are in the abstract graph.                    *)
LEMMA InputsFacts ==
    ASSUME NEW t \in Tasks
    PROVE  Execution!Inputs(t) = {<<t[1], e[1]>> : e \in InEdges(t[2])}
BY DEF Execution!Inputs, Tasks

(* Nothing is submitted, started or done in the beginning.                 *)
LEMMA ExecutionInit == Init => Execution!Init
<1> SUFFICES ASSUME Init PROVE Execution!Init
  OBVIOUS
<1>1. MSubmitted = {} /\ MFailed = {}
  BY DEF Init, MSubmitted, Submitted, MFailed
<1>2. MStarted = {} /\ MOpen = {} /\ MCompleted = {}
  BY DEF Init, MStarted, MOpen, MCompleted, Live
<1> QED
  BY <1>1, <1>2 DEF Init, Execution!Init, MSubmitted, MFailed, MStarted, MOpen, MCompleted

(* submitPacket starts the input node.                                     *)
LEMMA SubmitStep ==
    ASSUME IInv, NEW p \in Packets, SubmitPacket(p)
    PROVE  Execution!Submit(p)
<1> Shape  BY DEF IInv, Base
<1> USE DEF Shape, history, nodeState, packetState
<1>1. <<p, Input>> \in Tasks  BY NodeFacts DEF Tasks
<1>2. p \notin MSubmitted /\ MSubmitted' = MSubmitted \cup {p}
  BY DEF SubmitPacket, MSubmitted, Submitted
<1>3. MStarted' = MStarted \cup {<<p, Input>>} /\ MOpen' = MOpen \cup {<<p, Input>>}
  BY <1>1, ZenonT(60) DEF SubmitPacket, MStarted, MOpen, Live
<1>4. UNCHANGED <<delivered, ran, MCompleted, MFailed>>
  BY DEF SubmitPacket, MCompleted, MFailed
<1> QED
  BY <1>2, <1>3, <1>4 DEF Execution!Submit, Execution!Begin, MSubmitted, MStarted,
     MOpen, MCompleted, MFailed

(* Executing a node runs it on inputs that were computed, and once.        *)
LEMMA ExecuteStep ==
    ASSUME IInv, Produced, Fresh, NEW w \in Workers, Execute(w), NEW t, t = cur[w]
    PROVE  Execution!Execute(t)
<1>1. pc[w] = "execute" /\ pc[w] \in Running /\ pc[w] \in Early
  BY DEF Execute, Running, Handing, Labels, Early
<1>2. cur[w] \in Tasks /\ cur[w] \in MOpen /\ cur[w] \notin ran
  BY <1>1, AtNode DEF MOpen, Live, Fresh, FreshWorker
<1>3. Execution!Inputs(cur[w]) \subseteq ran
  BY <1>1, <1>2, InputsFacts DEF Produced, RanWorker, Packet, Node
<1>4. ran' = ran \cup {cur[w]}
      /\ UNCHANGED <<MSubmitted, delivered, MStarted, MOpen, MCompleted, MFailed>>
  BY DEF Execute, MSubmitted, Submitted, MStarted, MOpen, MCompleted, MFailed,
         processor, packetState, nodeState
<1> QED
  BY <1>2, <1>3, <1>4 DEF Execution!Execute, MSubmitted, MStarted, MOpen, MCompleted,
     MFailed

(* A failure marks the packet of a node that is open.                      *)
LEMMA FailStep ==
    ASSUME IInv, NEW w \in Workers, pc[w] \in Running, MarkFailed(Packet(w)),
           UNCHANGED <<nodeState, processor, task, ran>>, NEW t, t = cur[w]
    PROVE  Execution!Fail(t)
<1> Shape  BY DEF IInv, Base
<1>1. cur[w] \in MOpen /\ Packet(w) \in Packets /\ cur[w][1] = Packet(w)
  BY AtNode DEF MOpen, Live, Packet
<1>2. MFailed' = MFailed \cup {Packet(w)}
  BY <1>1 DEF MarkFailed, MFailed, Shape
<1>3. UNCHANGED <<MSubmitted, delivered, MStarted, MOpen, MCompleted>>
  BY DEF MSubmitted, Submitted, MStarted, MOpen, MCompleted, processor, nodeState
<1> QED
  BY <1>1, <1>2, <1>3 DEF Execution!Fail, MSubmitted, MStarted, MOpen, MCompleted,
     MFailed

(* A node is completed when its code has run, or not at all any more.      *)
LEMMA CompleteStep ==
    ASSUME IInv, Produced, NEW w \in Workers, MarkNodeCompleted(w),
           NEW t, t = cur[w]
    PROVE  Execution!Complete(t)
<1> Shape  BY DEF IInv, Base
<1>1. pc[w] = "complete" /\ pc[w] \in Running
  BY DEF MarkNodeCompleted, Running, Handing, Labels
<1>2. /\ cur[w] \in Tasks /\ cur[w] \in MOpen
      /\ Packet(w) \in Packets /\ cur[w][1] = Packet(w)
  BY <1>1, AtNode DEF MOpen, Live, Packet
<1>3. cur[w] \in ran \/ cur[w][1] \in MFailed
  BY <1>1, <1>2 DEF Produced, RanWorker, MFailed
<1>4. MCompleted' = MCompleted \cup {cur[w]}
  BY <1>2 DEF MarkNodeCompleted, MCompleted, Shape
<1>5. UNCHANGED <<MSubmitted, delivered, MStarted, MOpen, ran, MFailed>>
  BY DEF MarkNodeCompleted, MSubmitted, Submitted, MStarted, MOpen, MFailed,
         processor, packetState, history
<1> QED
  BY <1>2, <1>3, <1>4, <1>5 DEF Execution!Complete, MSubmitted, MStarted, MOpen,
     MCompleted, MFailed

(* A successor is started when its predecessors are completed, once.       *)
LEMMA StartStep ==
    ASSUME IInv, IInv', NEW w \in Workers, MarkTaskScheduled(w),
           NEW t, t = ChildTask(w)
    PROVE  Execution!Start(t)
<1> Shape  BY DEF IInv, Base
<1>1. pc[w] = "schedule" /\ pc[w] \in Running /\ pc[w] \in AtChild
  BY DEF MarkTaskScheduled, Running, Handing, Labels, AtChild
<1>2. /\ ChildTask(w) \in Tasks
      /\ ChildTask(w)[1] = Packet(w) /\ ChildTask(w)[2] \in Nodes
      /\ ChildTask(w)[2] # Input
  BY <1>1, ChildFacts DEF IInv
<1>3. task[ChildTask(w)] = "none"
  BY <1>1 DEF IInv, Ownership, OwnWorker
<1>4. ChildTask(w)[1] \in MSubmitted
  BY <1>1, <1>2, AtNode DEF IInv, Handover, HandWorker, MSubmitted, Running
<1>5. Execution!Inputs(t) \subseteq MCompleted
  <2> SUFFICES ASSUME NEW e \in InEdges(ChildTask(w)[2])
               PROVE  <<ChildTask(w)[1], e[1]>> \in MCompleted
    BY <1>2, InputsFacts
  <2>1. Pending(ChildTask(w)) = {}
    BY <1>1 DEF IInv, EdgesInv, EdgeWorker
  <2>2. <<ChildTask(w)[1], e>> \in notified  BY <2>1 DEF Pending
  <2>3. isCompleted[<<ChildTask(w)[1], e[1]>>]
    BY <2>2 DEF IInv, EdgesInv, EdgeNotified
  <2>4. e[1] \in Nodes  BY DEF InEdges, Edges
  <2>5. ChildTask(w)[1] \in Packets  BY <1>2 DEF Tasks
  <2> QED  BY <2>3, <2>4, <2>5 DEF MCompleted, Tasks
<1>6. MStarted' = MStarted \cup {ChildTask(w)} /\ MOpen' = MOpen \cup {ChildTask(w)}
  BY <1>2 DEF MarkTaskScheduled, MStarted, MOpen, Live, Shape
<1>7. UNCHANGED <<MSubmitted, delivered, ran, MCompleted, MFailed>>
  BY DEF MarkTaskScheduled, MSubmitted, Submitted, MCompleted, MFailed,
         processor, nodeState, history
<1>8. ChildTask(w) \notin MStarted  BY <1>3 DEF MStarted
<1> QED
  BY <1>4, <1>5, <1>6, <1>7, <1>8 DEF Execution!Start, Execution!Begin, MSubmitted,
     MStarted, MOpen, MCompleted, MFailed

(* markTaskFinished ends a node.                                           *)
LEMMA EndStep ==
    ASSUME IInv, NEW w \in Workers, MarkTaskFinished(w), NEW t, t = cur[w]
    PROVE  Execution!End(t)
<1> Shape  BY DEF IInv, Base
<1>1. pc[w] \in Running
  BY DEF MarkTaskFinished, Running, Handing, Labels
<1>2. cur[w] \in Tasks /\ task[cur[w]] = "running"  BY <1>1, AtNode
<1>3. cur[w] \in MOpen  BY <1>2 DEF MOpen, Live
<1>4. MStarted' = MStarted /\ MOpen' = MOpen \ {cur[w]}
  BY <1>2 DEF MarkTaskFinished, MStarted, MOpen, Live, Shape
<1>5. UNCHANGED <<MSubmitted, delivered, ran, MCompleted, MFailed>>
  BY DEF MarkTaskFinished, MSubmitted, Submitted, MCompleted, MFailed,
         processor, nodeState, history
<1> QED
  BY <1>3, <1>4, <1>5 DEF Execution!End, MSubmitted, MStarted, MOpen, MCompleted,
     MFailed

(* The callback delivers a packet whose output node is completed and of    *)
(* which no node is open.                                                  *)
LEMMA DeliverStep ==
    ASSUME IInv, Produced, NEW w \in Workers, OnGraphCompleted(w),
           NEW p, p = Packet(w)
    PROVE  Execution!Deliver(p) \/ UNCHANGED MState
<1> Shape  BY DEF IInv, Base
<1>1. UNCHANGED <<MStarted, MOpen, ran, MCompleted, MFailed>>
  BY DEF OnGraphCompleted, MStarted, MOpen, MCompleted, MFailed, nodeState,
         packetState, history
<1>2. CASE Packet(w) \notin activePackets
  BY <1>1, <1>2 DEF OnGraphCompleted, processor, MState, MSubmitted, Submitted
<1>3. CASE Packet(w) \in activePackets
  <2>1. pc[w] = "callback" /\ Packet(w) \in Packets
    BY LocalFacts DEF OnGraphCompleted, IInv
  <2>2. Packet(w) \in MSubmitted  BY <1>3, <2>1 DEF MSubmitted, Submitted
  <2>3. delivered[Packet(w)] = 0
    BY <1>3, <2>1 DEF IInv, Handover, HandPacket, Shape
  <2>4. <<Packet(w), Output>> \in MCompleted
    <3>1. <<Packet(w), Output>> \in Tasks  BY <2>1, NodeFacts DEF Tasks
    <3>2. isCompleted[<<Packet(w), Output>>]
      BY <2>1 DEF Produced, RanWorker, RanPacket
    <3> QED  BY <3>1, <3>2 DEF MCompleted
  <2>5. \A t \in MOpen : t[1] # Packet(w)
    <3> SUFFICES ASSUME NEW t \in Tasks, task[t] \in Live, t[1] = Packet(w)
                 PROVE  FALSE
      BY DEF MOpen
    <3>1. inFlight[Packet(w)] = 0
      BY <2>1 DEF IInv, Handover, HandWorker, Handing
    <3> QED  BY <3>1, LivePositive DEF IInv
  <2>6. delivered' = [delivered EXCEPT ![Packet(w)] = 1]
    BY <1>3, <2>1, <2>3 DEF OnGraphCompleted, Shape
  <2>7. MSubmitted' = MSubmitted
    BY <1>3, <2>1, <2>6 DEF OnGraphCompleted, MSubmitted, Submitted, Shape
  <2> QED
    BY <1>1, <2>2, <2>3, <2>4, <2>5, <2>6, <2>7 DEF Execution!Deliver, MSubmitted,
       MStarted, MOpen, MCompleted, MFailed
<1> QED  BY <1>2, <1>3

(* Steps that leave alone what the abstract state is made of.              *)
Internal(w) ==
    \/ ExecuteNode(w) \/ CheckFailed(w) \/ AcquireGranted(w)
    \/ AcquireUnregistered(w) \/ AcquireTimeout(w) \/ AcquireCancelled(w)
    \/ Release(w) \/ MarkGraphCompleted(w)
    \/ NotifyPredecessorCompleted(w) \/ LoadCount(w) \/ MarkEnqueued(w)
    \/ TestGraphCompleted(w) \/ ClaimCompletion(w)

(* What a worker does on its own between two accesses that others see      *)
(* changes nothing of the abstract execution.                              *)
LEMMA InternalStep ==
    ASSUME NEW w \in Workers, Internal(w)
    PROVE  UNCHANGED MState
<1>1. UNCHANGED <<activePackets, delivered, task, ran, isCompleted, hasFailed>>
  BY DEF Internal, ExecuteNode, CheckFailed, AcquireGranted, AcquireUnregistered,
     AcquireTimeout, AcquireCancelled, AcquireNull, Release, MarkGraphCompleted,
     NotifyPredecessorCompleted, LoadCount, MarkEnqueued, TestGraphCompleted,
     ClaimCompletion, processor, nodeState, packetState, history
<1> QED
  BY <1>1 DEF MState, MSubmitted, Submitted, MStarted, MOpen, MCompleted, MFailed

(* Steps between the queue, a batch and a worker; and an exception that    *)
(* leaves its task in flight.                                              *)
LEMMA QueueStep ==
    ASSUME IInv, NEW w \in Workers,
           Dequeue(w) \/ EnqueueBatch(w) \/ ExecuteEscapes(w)
    PROVE  UNCHANGED MState
<1> Shape  BY DEF IInv, Base
<1>1. UNCHANGED <<MSubmitted, delivered, ran, MCompleted, MFailed>>
  BY DEF Dequeue, EnqueueBatch, ExecuteEscapes, MSubmitted, Submitted, MCompleted,
         MFailed, processor, nodeState, packetState, history
<1>2. \A t \in Tasks : /\ task'[t] = "none" <=> task[t] = "none"
                       /\ task'[t] \in Live <=> task[t] \in Live
  <2>1. CASE Dequeue(w)  BY <2>1 DEF Dequeue, Queued, Shape, Live
  <2>2. CASE EnqueueBatch(w)
    <3>1. \A t \in batch[w] : task[t] = "ready"
      BY DEF IInv, Ownership, OwnWorker
    <3> QED  BY <2>2, <3>1 DEF EnqueueBatch, Shape, Live
  <2>3. CASE ExecuteEscapes(w)
    <3>1. task[cur[w]] = "running"
      BY <2>3, AtNode DEF ExecuteEscapes, Running, Handing, Labels
    <3> QED  BY <2>3, <3>1 DEF ExecuteEscapes, Shape, Live
  <2> QED  BY <2>1, <2>2, <2>3
<1>3. UNCHANGED <<MStarted, MOpen>>  BY <1>2 DEF MStarted, MOpen
<1> QED  BY <1>1, <1>3 DEF MState

(* The second look at hasFailed marks the packet when the context is       *)
(* missing, and otherwise only decides.                                    *)
LEMMA RecheckStep ==
    ASSUME IInv, NEW w \in Workers, Recheck(w) \/ ExecuteThrows(w),
           NEW t, t = cur[w]
    PROVE  Execution!Fail(t) \/ UNCHANGED MState
<1>1. pc[w] \in Running
  BY DEF Recheck, ExecuteThrows, Running, Handing, Labels
<1>2. UNCHANGED <<nodeState, processor, task, ran>>
  BY DEF Recheck, ExecuteThrows, history
<1>3. CASE MarkFailed(Packet(w))  BY <1>1, <1>2, <1>3, FailStep
<1>4. CASE UNCHANGED hasFailed
  BY <1>2, <1>4 DEF MState, MSubmitted, Submitted, MStarted, MOpen, MCompleted,
     MFailed, processor, nodeState
<1> QED  BY <1>3, <1>4 DEF Recheck, ExecuteThrows

(* Every step of the executor is a step of the abstract execution, or      *)
(* none.                                                                   *)
LEMMA ExecutionNext ==
    ASSUME IInv, IInv', Produced, Fresh, [Next]_vars
    PROVE  [Execution!Next]_(Execution!vars)
<1>1. ASSUME NEW p \in Packets, SubmitPacket(p) PROVE Execution!Next
  BY <1>1, SubmitStep DEF Execution!Next
<1>2. ASSUME NEW w \in Workers, Worker(w)
      PROVE  Execution!Next \/ UNCHANGED Execution!vars
  <2>1. ASSUME NEW t, t = cur[w], pc[w] \in Running PROVE t \in Execution!Tasks
    BY <2>1, AtNode DEF Execution!Tasks, Tasks
  <2> PICK t : t = cur[w]
    OBVIOUS
  <2>2. CASE Execute(w)
    <3>1. t \in Execution!Tasks
      BY <2>1, <2>2 DEF Execute, Running, Handing, Labels
    <3>2. Execution!Execute(t)  BY <2>2, ExecuteStep
    <3> QED  BY <3>1, <3>2 DEF Execution!Next
  <2>3. CASE Recheck(w) \/ ExecuteThrows(w)
    <3>1. t \in Execution!Tasks
      BY <2>1, <2>3 DEF Recheck, ExecuteThrows, Running, Handing, Labels
    <3>2. Execution!Fail(t) \/ UNCHANGED MState  BY <2>3, RecheckStep
    <3> QED  BY <3>1, <3>2, Stutter DEF Execution!Next
  <2>4. CASE MarkNodeCompleted(w)
    <3>1. t \in Execution!Tasks
      BY <2>1, <2>4 DEF MarkNodeCompleted, Running, Handing, Labels
    <3>2. Execution!Complete(t)  BY <2>4, CompleteStep
    <3> QED  BY <3>1, <3>2 DEF Execution!Next
  <2>5. CASE MarkTaskScheduled(w)
    <3> PICK s : s = ChildTask(w)
      OBVIOUS
    <3>1. s \in Execution!Tasks
      <4>1. pc[w] \in AtChild  BY <2>5 DEF MarkTaskScheduled, AtChild
      <4> QED  BY <4>1, ChildFacts DEF IInv, Execution!Tasks, Tasks
    <3>2. Execution!Start(s)  BY <2>5, StartStep
    <3> QED  BY <3>1, <3>2 DEF Execution!Next
  <2>6. CASE MarkTaskFinished(w)
    <3>1. t \in Execution!Tasks
      BY <2>1, <2>6 DEF MarkTaskFinished, Running, Handing, Labels
    <3>2. Execution!End(t)  BY <2>6, EndStep
    <3> QED  BY <3>1, <3>2 DEF Execution!Next
  <2>7. CASE OnGraphCompleted(w)
    <3> PICK p : p = Packet(w)
      OBVIOUS
    <3>1. p \in Packets
      BY <2>7, LocalFacts DEF OnGraphCompleted, IInv
    <3>2. Execution!Deliver(p) \/ UNCHANGED MState
      BY <2>7, DeliverStep
    <3> QED  BY <3>1, <3>2, Stutter DEF Execution!Next
  <2>8. CASE Dequeue(w) \/ EnqueueBatch(w) \/ ExecuteEscapes(w)
    BY <2>8, QueueStep, Stutter
  <2>9. CASE Internal(w)
    BY <2>9, InternalStep, Stutter
  <2> QED
    BY <1>2, <2>2, <2>3, <2>4, <2>5, <2>6, <2>7, <2>8, <2>9
       DEF Worker, Advance, Internal
<1>3. CASE UNCHANGED vars
  BY <1>3, Stutter DEF vars, MState, MSubmitted, Submitted, MStarted, MOpen,
     MCompleted, MFailed, processor, nodeState, packetState, history
<1> QED  BY <1>1, <1>2, <1>3 DEF Next, AllDelivered

(* The lock-free execution of packets by many workers is the abstract      *)
(* execution of the graph: started in order, each node once, run on inputs *)
(* that were computed, delivered once with nothing open                    *)
(* (TaskScheduler::executeNode, DataPacket, the completion callback).      *)
THEOREM Implementation == Spec => ImplementsExecution
<1>1. IInv /\ Fresh /\ [Next]_vars => Fresh'
  BY FreshTaskNext, FreshWorkerNext DEF Fresh
<1>2. Spec => []Fresh
  BY <1>1, FreshInit, Invariance, PTL DEF Spec
<1>3. IInv /\ IInv' /\ Produced /\ Fresh /\ [Next]_vars
          => [Execution!Next]_(Execution!vars)
  BY ExecutionNext
<1> QED
  BY <1>2, <1>3, ExecutionInit, Invariance, ProducedInvariance, PTL
     DEF Spec, ImplementsExecution, Execution!Spec
=============================================================================
