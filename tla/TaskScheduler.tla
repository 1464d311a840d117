--------------------------- MODULE TaskScheduler ---------------------------
(***************************************************************************)
(* Event-driven execution of data packets over a DAG template: the         *)
(* per-packet atomics of DataPacket, TaskScheduler::executeNode, and the   *)
(* submit / completion-callback glue of AsyncGraphProcessor.  One action   *)
(* per atomic access that another thread can observe.                      *)
(*                                                                         *)
(* Two neighbours appear as what they promise: the thread pool is the set  *)
(* of queued tasks, popped in priority order (ThreadPool.tla), and the     *)
(* resource pool the set of free contexts (ResourcePool.tla).              *)
(***************************************************************************)
EXTENDS Integers, Sequences, FiniteSets

CONSTANTS
    Packets,       \* the packets the source produces
    Idx,           \* getIdx() of each packet, its scheduling priority
    N,             \* number of nodes of the template, numbered as added
    Children,      \* childIndices of each node
    Workers,       \* threads of the pool
    ResourceTypes, \* resource type names
    NoResource,    \* the empty resourceTypeName
    NodeResource,  \* resourceTypeName of each node
    Contexts,      \* registered contexts, all types together
    ContextType,   \* the type each context is registered under
    NoContext,     \* the null context
    TimedTypes,    \* types whose acquireTimeout is not 0
    MayFail,       \* nodes whose execute can throw a std::exception
    MayEscape      \* nodes whose execute can throw anything else

Nodes  == 0 .. N - 1
Input  == 0
Output == N - 1
Tasks  == Packets \X Nodes
NoTask == <<NoContext, -1>>

(* An edge is a position in a childIndices vector: a predecessor that is   *)
(* named twice is two edges, counted twice and notified twice.             *)
Edges      == UNION {{<<m, i>> : i \in DOMAIN Children[m]} : m \in Nodes}
Target(e)  == Children[e[1]][e[2]]
InEdges(n) == {e \in Edges : Target(e) = n}

ASSUME GraphAssumption ==
    /\ N \in Nat \ {0}
    /\ Children \in [Nodes -> Seq(Nodes)]
    /\ \A m \in Nodes : \A i \in DOMAIN Children[m] : m < Children[m][i]
    /\ IsFiniteSet(Edges)

ASSUME ResourceAssumption ==
    /\ NoResource \notin ResourceTypes
    /\ NodeResource \in [Nodes -> ResourceTypes \cup {NoResource}]
    /\ NoContext \notin Contexts
    /\ ContextType \in [Contexts -> ResourceTypes]
    /\ TimedTypes \subseteq ResourceTypes

ASSUME PacketAssumption ==
    /\ Idx \in [Packets -> Nat]
    /\ MayFail \subseteq Nodes
    /\ MayEscape \subseteq Nodes

VARIABLES
    \* DataPacket::ExecutionState
    unfinishedPredecessorCount, hasBeenEnqueued, isCompleted,
    isGraphCompleted, hasFailed, inFlight, completionNotified,
    \* AsyncGraphProcessor: activePackets_, and how often each packet was
    \* pushed to outputQueue_
    activePackets, delivered,
    \* where the task of a node is: not created, counted but still in a
    \* worker's batch, in the pool's queue, run by a worker, over, or
    \* abandoned by an exception
    task,
    \* the contexts in the resource pool
    free,
    \* the workers' program counters and locals
    pc, cur, child, batch, ctx,
    \* history: edges notified, and tasks whose node ran to its end
    notified, ran

nodeState   == <<unfinishedPredecessorCount, hasBeenEnqueued, isCompleted>>
packetState == <<isGraphCompleted, hasFailed, inFlight, completionNotified>>
processor   == <<activePackets, delivered>>
locals      == <<cur, child, batch, ctx>>
history     == <<notified, ran>>
vars == <<nodeState, packetState, processor, task, free, pc, locals, history>>

Labels == {"idle", "executeNode", "checkFailed", "acquire", "recheck",
           "execute", "release", "complete", "graphDone", "notify", "load",
           "cas", "schedule", "finish", "testDone", "claim",
           "callback"}
Status == {"none", "ready", "queued", "running", "finished", "abandoned"}

Packet(w) == cur[w][1]
Node(w)   == cur[w][2]
Child(w)  == Children[Node(w)][child[w]]
ChildTask(w) == <<Packet(w), Child(w)>>
Goto(w, label) == pc' = [pc EXCEPT ![w] = label]

(* Where a worker goes once the node's work is over or was skipped.        *)
ReleaseOrComplete(w) ==
    Goto(w, IF ctx[w] = NoContext THEN "complete" ELSE "release")

(* DataPacket's operations that are one atomic access each.                *)
PredecessorCount(n) == IF n = Input THEN 0 ELSE Cardinality(InEdges(n))

MutantReadyEarly(t) == unfinishedPredecessorCount[t] <= 1

PredecessorsDone(t) == unfinishedPredecessorCount[t] = 0

MutantNoExchange(t) == FALSE

AlreadyEnqueued(t) == hasBeenEnqueued[t]

MutantFailureLost(p) == UNCHANGED hasFailed

MarkFailed(p) == hasFailed' = [hasFailed EXCEPT ![p] = TRUE]

CountTask(p) == inFlight' = [inFlight EXCEPT ![p] = @ + 1]

MutantAnyTaskLast(p) == TRUE

LastInFlight(p) == inFlight[p] = 1

Init ==
    /\ unfinishedPredecessorCount = [t \in Tasks |-> 0]
    /\ hasBeenEnqueued = [t \in Tasks |-> FALSE]
    /\ isCompleted = [t \in Tasks |-> FALSE]
    /\ isGraphCompleted = [p \in Packets |-> FALSE]
    /\ hasFailed = [p \in Packets |-> FALSE]
    /\ inFlight = [p \in Packets |-> 0]
    /\ completionNotified = [p \in Packets |-> FALSE]
    /\ activePackets = {}
    /\ delivered = [p \in Packets |-> 0]
    /\ task = [t \in Tasks |-> "none"]
    /\ free = Contexts
    /\ pc = [w \in Workers |-> "idle"]
    /\ cur = [w \in Workers |-> NoTask]
    /\ child = [w \in Workers |-> 1]
    /\ batch = [w \in Workers |-> {}]
    /\ ctx = [w \in Workers |-> NoContext]
    /\ notified = {}
    /\ ran = {}
-----------------------------------------------------------------------------
(* The submitting thread.  initializeExecution, the insertion under        *)
(* activePacketsMutex_ and scheduleNode(rawPtr, 0) are one step: no other  *)
(* thread knows the packet before its input task is in the queue.          *)
SubmitPacket(p) ==
    /\ p \notin activePackets
    /\ delivered[p] = 0
    /\ unfinishedPredecessorCount' =
           [t \in Tasks |-> IF t[1] # p THEN unfinishedPredecessorCount[t]
                            ELSE PredecessorCount(t[2])]
    /\ activePackets' = activePackets \cup {p}
    /\ CountTask(p)
    /\ task' = [task EXCEPT ![<<p, Input>>] = "queued"]
    /\ UNCHANGED <<hasBeenEnqueued, isCompleted, isGraphCompleted, hasFailed,
                   completionNotified, delivered, free, pc, locals, history>>
-----------------------------------------------------------------------------
(* The workers, in the order of executeNode.                               *)

Queued == {t \in Tasks : task[t] = "queued"}

Dequeue(w) ==
    /\ pc[w] = "idle"
    /\ \E t \in Queued :
           /\ \A u \in Queued : Idx[t[1]] <= Idx[u[1]]
           /\ task' = [task EXCEPT ![t] = "running"]
           /\ cur' = [cur EXCEPT ![w] = t]
    /\ Goto(w, "executeNode")
    /\ UNCHANGED <<nodeState, packetState, processor, free, child, batch, ctx,
                   history>>

ExecuteNode(w) ==
    /\ pc[w] = "executeNode"
    /\ Goto(w, IF isGraphCompleted[Packet(w)] THEN "finish" ELSE "checkFailed")
    /\ UNCHANGED <<nodeState, packetState, processor, task, free, locals, history>>

MutantReturnOnFailure(w) ==
    /\ pc[w] = "checkFailed"
    /\ Goto(w, IF hasFailed[Packet(w)] THEN "finish"
               ELSE IF NodeResource[Node(w)] = NoResource THEN "recheck"
               ELSE "acquire")
    /\ UNCHANGED <<nodeState, packetState, processor, task, free, locals, history>>

CheckFailed(w) ==
    /\ pc[w] = "checkFailed"
    /\ Goto(w, IF hasFailed[Packet(w)] THEN "complete"
               ELSE IF NodeResource[Node(w)] = NoResource THEN "recheck"
               ELSE "acquire")
    /\ UNCHANGED <<nodeState, packetState, processor, task, free, locals, history>>

OfType(r) == {c \in Contexts : ContextType[c] = r}

AcquireGranted(w) ==
    /\ pc[w] = "acquire"
    /\ \E c \in free \cap OfType(NodeResource[Node(w)]) :
           /\ free' = free \ {c}
           /\ ctx' = [ctx EXCEPT ![w] = c]
    /\ Goto(w, "recheck")
    /\ UNCHANGED <<nodeState, packetState, processor, task, cur, child, batch,
                   history>>

(* acquire returns null: the type is not registered, its timeout expired   *)
(* while no context was free, or the packet failed meanwhile (cancelFlag). *)
AcquireNull(w) ==
    /\ Goto(w, "recheck")
    /\ UNCHANGED <<nodeState, packetState, processor, task, free, locals, history>>

AcquireUnregistered(w) ==
    /\ pc[w] = "acquire"
    /\ OfType(NodeResource[Node(w)]) = {}
    /\ AcquireNull(w)

AcquireTimeout(w) ==
    /\ pc[w] = "acquire"
    /\ NodeResource[Node(w)] \in TimedTypes
    /\ OfType(NodeResource[Node(w)]) # {}
    /\ free \cap OfType(NodeResource[Node(w)]) = {}
    /\ AcquireNull(w)

AcquireCancelled(w) ==
    /\ pc[w] = "acquire"
    /\ hasFailed[Packet(w)]
    /\ AcquireNull(w)

MutantTimeoutUnmarked(w) ==
    /\ pc[w] = "recheck"
    /\ IF \/ hasFailed[Packet(w)]
          \/ NodeResource[Node(w)] # NoResource /\ ctx[w] = NoContext
       THEN ReleaseOrComplete(w)
       ELSE Goto(w, "execute")
    /\ UNCHANGED <<nodeState, packetState, processor, task, free, locals, history>>

Recheck(w) ==
    /\ pc[w] = "recheck"
    /\ IF hasFailed[Packet(w)]
       THEN ReleaseOrComplete(w) /\ UNCHANGED hasFailed
       ELSE IF NodeResource[Node(w)] # NoResource /\ ctx[w] = NoContext
       THEN /\ MarkFailed(Packet(w))
            /\ ReleaseOrComplete(w)
       ELSE Goto(w, "execute") /\ UNCHANGED hasFailed
    /\ UNCHANGED <<nodeState, isGraphCompleted, inFlight, completionNotified,
                   processor, task, free, locals, history>>

Execute(w) ==
    /\ pc[w] = "execute"
    /\ ran' = ran \cup {cur[w]}
    /\ ReleaseOrComplete(w)
    /\ UNCHANGED <<nodeState, packetState, processor, task, free, locals, notified>>

(* The catch clause of executeNode: std::exception and its subclasses.     *)
ExecuteThrows(w) ==
    /\ pc[w] = "execute"
    /\ Node(w) \in MayFail
    /\ MarkFailed(Packet(w))
    /\ ReleaseOrComplete(w)
    /\ UNCHANGED <<nodeState, isGraphCompleted, inFlight, completionNotified,
                   processor, task, free, locals, history>>

(* Anything else unwinds executeNode, so its second half does not happen,  *)
(* and is swallowed by the worker loop (or the packaged_task of enqueue).  *)
ExecuteEscapes(w) ==
    /\ pc[w] = "execute"
    /\ Node(w) \in MayEscape
    /\ task' = [task EXCEPT ![cur[w]] = "abandoned"]
    /\ cur' = [cur EXCEPT ![w] = NoTask]
    /\ ctx' = [ctx EXCEPT ![w] = NoContext]
    /\ Goto(w, "idle")
    /\ UNCHANGED <<nodeState, packetState, processor, free, child, batch, history>>

MutantForgetContext(w) ==
    /\ pc[w] = "release"
    /\ ctx' = [ctx EXCEPT ![w] = NoContext]
    /\ Goto(w, "complete")
    /\ UNCHANGED <<nodeState, packetState, processor, task, free, cur, child,
                   batch, history>>

Release(w) ==
    /\ pc[w] = "release"
    /\ free' = free \cup {ctx[w]}
    /\ ctx' = [ctx EXCEPT ![w] = NoContext]
    /\ Goto(w, "complete")
    /\ UNCHANGED <<nodeState, packetState, processor, task, cur, child, batch,
                   history>>

MarkNodeCompleted(w) ==
    /\ pc[w] = "complete"
    /\ isCompleted' = [isCompleted EXCEPT ![cur[w]] = TRUE]
    /\ Goto(w, IF Node(w) = Output THEN "graphDone" ELSE "notify")
    /\ UNCHANGED <<unfinishedPredecessorCount, hasBeenEnqueued, packetState,
                   processor, task, free, locals, history>>

MarkGraphCompleted(w) ==
    /\ pc[w] = "graphDone"
    /\ isGraphCompleted' = [isGraphCompleted EXCEPT ![Packet(w)] = TRUE]
    /\ Goto(w, "notify")
    /\ UNCHANGED <<nodeState, hasFailed, inFlight, completionNotified, processor,
                   task, free, locals, history>>

(* The loop over childIndices.                                             *)
NotifyPredecessorCompleted(w) ==
    /\ pc[w] = "notify"
    /\ child[w] \in DOMAIN Children[Node(w)]
    /\ unfinishedPredecessorCount' =
           [unfinishedPredecessorCount EXCEPT ![ChildTask(w)] = @ - 1]
    /\ notified' = notified \cup {<<Packet(w), <<Node(w), child[w]>>>>}
    /\ Goto(w, "load")
    /\ UNCHANGED <<hasBeenEnqueued, isCompleted, packetState, processor, task,
                   free, locals, ran>>

NextChild(w) == child' = [child EXCEPT ![w] = @ + 1]

(* tryMarkNodeReady: the load of the count, then the compare-exchange.     *)
LoadCount(w) ==
    /\ pc[w] = "load"
    /\ IF PredecessorsDone(ChildTask(w))
       THEN Goto(w, "cas") /\ UNCHANGED child
       ELSE Goto(w, "notify") /\ NextChild(w)
    /\ UNCHANGED <<nodeState, packetState, processor, task, free, cur, batch, ctx,
                   history>>

MarkEnqueued(w) ==
    /\ pc[w] = "cas"
    /\ IF AlreadyEnqueued(ChildTask(w))
       THEN Goto(w, "notify") /\ NextChild(w) /\ UNCHANGED hasBeenEnqueued
       ELSE /\ hasBeenEnqueued' =
                   [hasBeenEnqueued EXCEPT ![ChildTask(w)] = TRUE]
            /\ Goto(w, "schedule")
            /\ UNCHANGED child
    /\ UNCHANGED <<unfinishedPredecessorCount, isCompleted, packetState, processor,
                   task, free, cur, batch, ctx, history>>

MarkTaskScheduled(w) ==
    /\ pc[w] = "schedule"
    /\ CountTask(Packet(w))
    /\ task' = [task EXCEPT ![ChildTask(w)] = "ready"]
    /\ batch' = [batch EXCEPT ![w] = @ \cup {ChildTask(w)}]
    /\ NextChild(w)
    /\ Goto(w, "notify")
    /\ UNCHANGED <<nodeState, isGraphCompleted, hasFailed, completionNotified,
                   processor, free, cur, ctx, history>>

(* The loop is over: enqueueBatch pushes the whole batch under one lock.   *)
EnqueueBatch(w) ==
    /\ pc[w] = "notify"
    /\ child[w] \notin DOMAIN Children[Node(w)]
    /\ task' = [t \in Tasks |-> IF t \in batch[w] THEN "queued" ELSE task[t]]
    /\ batch' = [batch EXCEPT ![w] = {}]
    /\ child' = [child EXCEPT ![w] = 1]
    /\ Goto(w, "finish")
    /\ UNCHANGED <<nodeState, packetState, processor, free, cur, ctx, history>>

(* markTaskFinished: the decrement, the load of isGraphCompleted and the   *)
(* compare-exchange on completionNotified.                                 *)
BackToPool(w) ==
    Goto(w, "idle") /\ cur' = [cur EXCEPT ![w] = NoTask]

MarkTaskFinished(w) ==
    /\ pc[w] = "finish"
    /\ inFlight' = [inFlight EXCEPT ![Packet(w)] = @ - 1]
    /\ task' = [task EXCEPT ![cur[w]] = "finished"]
    /\ IF LastInFlight(Packet(w))
       THEN Goto(w, "testDone") /\ UNCHANGED cur
       ELSE BackToPool(w)
    /\ UNCHANGED <<nodeState, isGraphCompleted, hasFailed, completionNotified,
                   processor, free, child, batch, ctx, history>>

TestGraphCompleted(w) ==
    /\ pc[w] = "testDone"
    /\ IF isGraphCompleted[Packet(w)]
       THEN Goto(w, "claim") /\ UNCHANGED cur
       ELSE BackToPool(w)
    /\ UNCHANGED <<nodeState, packetState, processor, task, free, child, batch,
                   ctx, history>>

ClaimCompletion(w) ==
    /\ pc[w] = "claim"
    /\ completionNotified' = [completionNotified EXCEPT ![Packet(w)] = TRUE]
    /\ IF completionNotified[Packet(w)]
       THEN BackToPool(w)
       ELSE Goto(w, "callback") /\ UNCHANGED cur
    /\ UNCHANGED <<nodeState, isGraphCompleted, hasFailed, inFlight, processor,
                   task, free, child, batch, ctx, history>>

(* The completion callback, under activePacketsMutex_: from here on the    *)
(* consumer owns the packet and may destroy it.                            *)
OnGraphCompleted(w) ==
    /\ pc[w] = "callback"
    /\ IF Packet(w) \in activePackets
       THEN /\ delivered' = [delivered EXCEPT ![Packet(w)] = @ + 1]
            /\ activePackets' = activePackets \ {Packet(w)}
       ELSE UNCHANGED processor
    /\ BackToPool(w)
    /\ UNCHANGED <<nodeState, packetState, task, free, child, batch, ctx, history>>
-----------------------------------------------------------------------------
Advance(w) ==
    \/ ExecuteNode(w) \/ CheckFailed(w) \/ AcquireGranted(w)
    \/ AcquireUnregistered(w) \/ AcquireTimeout(w)
    \/ Recheck(w) \/ Execute(w) \/ ExecuteThrows(w)
    \/ Release(w) \/ MarkNodeCompleted(w) \/ MarkGraphCompleted(w)
    \/ NotifyPredecessorCompleted(w) \/ LoadCount(w) \/ MarkEnqueued(w)
    \/ MarkTaskScheduled(w) \/ EnqueueBatch(w) \/ MarkTaskFinished(w)
    \/ TestGraphCompleted(w) \/ ClaimCompletion(w) \/ OnGraphCompleted(w)

Worker(w) ==
    Dequeue(w) \/ Advance(w) \/ AcquireCancelled(w) \/ ExecuteEscapes(w)

(* Nothing left to do: every packet delivered and every worker waiting.    *)
AllDelivered ==
    /\ \A p \in Packets : delivered[p] = 1
    /\ \A w \in Workers : pc[w] = "idle"
    /\ UNCHANGED vars

Next ==
    \/ \E p \in Packets : SubmitPacket(p)
    \/ \E w \in Workers : Worker(w)
    \/ AllDelivered

Spec == Init /\ [][Next]_vars

(* The operating system runs every worker that can take a step and user    *)
(* code returns.  Nothing wakes a waiter when its packet fails, so         *)
(* AcquireCancelled is left without fairness.                              *)
FairSpec == Spec /\ \A w \in Workers : WF_vars(Dequeue(w) \/ Advance(w))
-----------------------------------------------------------------------------
(* Properties.                                                             *)

(* Every variable has its type; in particular no counter of DataPacket     *)
(* (size_t and uint32_t in the code) is ever decremented below zero.       *)
TypeOK ==
    /\ unfinishedPredecessorCount \in [Tasks -> Nat]
    /\ hasBeenEnqueued \in [Tasks -> BOOLEAN]
    /\ isCompleted \in [Tasks -> BOOLEAN]
    /\ isGraphCompleted \in [Packets -> BOOLEAN]
    /\ hasFailed \in [Packets -> BOOLEAN]
    /\ inFlight \in [Packets -> Nat]
    /\ completionNotified \in [Packets -> BOOLEAN]
    /\ activePackets \in SUBSET Packets
    /\ delivered \in [Packets -> Nat]
    /\ task \in [Tasks -> Status]
    /\ free \in SUBSET Contexts
    /\ pc \in [Workers -> Labels]
    /\ cur \in [Workers -> Tasks \cup {NoTask}]
    /\ child \in [Workers -> Nat \ {0}]
    /\ batch \in [Workers -> SUBSET Tasks]
    /\ ctx \in [Workers -> Contexts \cup {NoContext}]
    /\ notified \in SUBSET (Packets \X Edges)
    /\ ran \in SUBSET Tasks

Live == {"ready", "queued", "running", "abandoned"}
LiveNodes(p) == {n \in Nodes : task[<<p, n>>] \in Live}

(* inFlight counts exactly the tasks created and not yet over: it can      *)
(* reach zero only when nobody will touch the packet again.                *)
InFlightCounts == \A p \in Packets : inFlight[p] = Cardinality(LiveNodes(p))

TaskStep(t) ==
    \/ task'[t] = task[t]
    \/ <<task[t], task'[t]>> \in
           {<<"none", "ready">>, <<"none", "queued">>, <<"ready", "queued">>,
            <<"queued", "running">>, <<"running", "finished">>,
            <<"running", "abandoned">>}

(* The task of a node is created, queued and run at most once, however     *)
(* many of its predecessors finish at the same time.                       *)
ExactlyOnce == [][\A t \in Tasks : TaskStep(t)]_vars

(* A task is created only when every predecessor of its node, however      *)
(* often it was named, has been marked completed.                          *)
DependencyOrder ==
    \A t \in Tasks : task[t] # "none" =>
        \A e \in InEdges(t[2]) : isCompleted[<<t[1], e[1]>>]

(* A node runs only on inputs that all its predecessors really computed:   *)
(* the failure of one of them, skipped or thrown, is seen by the second    *)
(* look at hasFailed.                                                      *)
InputsProduced ==
    \A t \in ran \cup {cur[w] : w \in {v \in Workers : pc[v] = "execute"}} :
        \A e \in InEdges(t[2]) : <<t[1], e[1]>> \in ran

Touches(w, p) == pc[w] # "idle" /\ Packet(w) = p

(* Once the callback has handed a packet to the consumer, no worker holds  *)
(* a pointer to it, none is queued, and it was handed over only once.      *)
HandoverSafe ==
    \A p \in Packets : delivered[p] > 0 =>
        /\ delivered[p] = 1
        /\ p \notin activePackets
        /\ LiveNodes(p) = {}
        /\ \A w \in Workers : ~ Touches(w, p)

(* A packet that is delivered and not failed carries the output node's     *)
(* result (and, by InputsProduced, everything it was computed from).       *)
ResultComplete ==
    \A p \in Packets :
        delivered[p] > 0 /\ ~ hasFailed[p] => <<p, Output>> \in ran

(* No context is held twice, or held and in the pool; a worker that runs a *)
(* node holds a context of the node's type; and the only contexts that are *)
(* nowhere are those of tasks an exception tore out of executeNode.        *)
Held == {ctx[w] : w \in Workers} \ {NoContext}

TornTasks ==
    {t \in Tasks : task[t] = "abandoned" /\ NodeResource[t[2]] # NoResource}

ContextsConserved ==
    /\ \A w \in Workers : ctx[w] # NoContext =>
           /\ ctx[w] \notin free
           /\ \A v \in Workers \ {w} : ctx[v] # ctx[w]
    /\ \A w \in Workers : pc[w] = "execute" /\ NodeResource[Node(w)] # NoResource =>
           /\ ctx[w] \in Contexts
           /\ ContextType[ctx[w]] = NodeResource[Node(w)]
    /\ Cardinality(Contexts \ (free \cup Held)) = Cardinality(TornTasks)

(* The executor with its atomics is the abstract execution of the graph:    *)
(* what a worker does between two accesses that others see is one step of   *)
(* it or none, and in particular a packet that was delivered has no step.   *)
Submitted(p) == p \in activePackets \/ delivered[p] > 0

Execution == INSTANCE DagExecution WITH
    Preds     <- [n \in Nodes |-> {e[1] : e \in InEdges(n)}],
    submitted <- {p \in Packets : Submitted(p)},
    started   <- {t \in Tasks : task[t] # "none"},
    open      <- {t \in Tasks : task[t] \in Live},
    executed  <- ran,
    completed <- {t \in Tasks : isCompleted[t]},
    failed    <- {p \in Packets : hasFailed[p]}

ImplementsExecution == Execution!Spec

(* Every submitted packet is handed to the consumer, failed or not.        *)
Delivery == \A p \in Packets : p \in activePackets ~> delivered[p] = 1
=============================================================================
