----------------------------- MODULE ThreadPool -----------------------------
(***************************************************************************)
(* ThreadPool: workers that block on one condition variable, a queue       *)
(* ordered by priority and arrival, enqueue and enqueueBatch, which notify *)
(* after they unlocked the queue, and the destructor.  Tasks are enqueued  *)
(* by threads outside the pool and by the tasks the workers run, as        *)
(* TaskScheduler does with the successors of a node.                       *)
(***************************************************************************)
EXTENDS Integers, FiniteSets

CONSTANTS
    Workers,   \* workers_
    Clients,   \* threads outside the pool
    Tasks,     \* the tasks, each is enqueued at most once
    Roots,     \* tasks enqueued by a client, the rest by other tasks
    Spawns,    \* the batch each task enqueues when it runs, possibly empty
    Priority,  \* priority of each task
    NoTask

ASSUME ThreadPoolAssumption ==
    /\ IsFiniteSet(Workers) /\ Workers # {}
    /\ IsFiniteSet(Clients) /\ IsFiniteSet(Tasks)
    /\ NoTask \notin Tasks
    /\ Roots \subseteq Tasks
    /\ Spawns \in [Tasks -> SUBSET (Tasks \ Roots)]
    /\ \A t, u \in Tasks : t # u => Spawns[t] \cap Spawns[u] = {}
    /\ Priority \in [Tasks -> Nat]
    /\ Workers \cap Clients = {}

Threads == Workers \cup Clients

VARIABLES
    tasks,     \* tasks_: the queued tasks
    seq,       \* TaskItem::seq of each task
    nextSeq,   \* nextSeq_
    stop,      \* stop_
    pc,        \* where each thread is
    task,      \* the task a worker runs
    destroyer, \* the thread in ~ThreadPool
    over,      \* history: tasks whose function returned
    thrown     \* history: tasks cut short by the exception of enqueue

queue == <<tasks, seq, nextSeq>>
vars == <<queue, stop, pc, task, destroyer, over, thrown>>

\* A worker: about to take the mutex and look at the queue, blocked, in its
\* task, in the task after the batch was enqueued, gone.  A client: outside
\* or in enqueue.  Both have a notification to make after the unlock.
WorkerLabels == {"fetch", "waiting", "running", "notifyAll", "spawned", "exited"}
ClientLabels == {"outside", "notifyOne"}

Goto(t, label) == pc' = [pc EXCEPT ![t] = label]
Waiting == {w \in Workers : pc[w] = "waiting"}

Init ==
    /\ tasks = {}
    /\ seq = [t \in Tasks |-> 0]
    /\ nextSeq = 0
    /\ stop = FALSE
    /\ pc = [t \in Threads |-> IF t \in Workers THEN "fetch" ELSE "outside"]
    /\ task = [w \in Workers |-> NoTask]
    /\ destroyer = "outside"
    /\ over = {}
    /\ thrown = {}

(* A task that was enqueued got its sequence number then.                  *)
Known == tasks \cup over \cup thrown \cup {task[w] : w \in Workers}
-----------------------------------------------------------------------------
(* The worker loop.                                                        *)

(* TaskItemCompare.                                                        *)
Before(t, u) ==
    \/ Priority[t] < Priority[u]
    \/ Priority[t] = Priority[u] /\ seq[t] <= seq[u]

Pop(w) ==
    /\ pc[w] = "fetch"
    /\ \E t \in tasks :
           /\ \A u \in tasks : Before(t, u)
           /\ tasks' = tasks \ {t}
           /\ task' = [task EXCEPT ![w] = t]
    /\ Goto(w, "running")
    /\ UNCHANGED <<seq, nextSeq, stop, destroyer, over, thrown>>

Block(w) ==
    /\ pc[w] = "fetch"
    /\ tasks = {}
    /\ ~ stop
    /\ Goto(w, "waiting")
    /\ UNCHANGED <<queue, stop, task, destroyer, over, thrown>>

MutantExitOnStop(w) ==
    /\ pc[w] = "fetch"
    /\ stop
    /\ Goto(w, "exited")
    /\ UNCHANGED <<queue, stop, task, destroyer, over, thrown>>

Exit(w) ==
    /\ pc[w] = "fetch"
    /\ tasks = {}
    /\ stop
    /\ Goto(w, "exited")
    /\ UNCHANGED <<queue, stop, task, destroyer, over, thrown>>

SpuriousWake(w) ==
    /\ pc[w] = "waiting"
    /\ Goto(w, "fetch")
    /\ UNCHANGED <<queue, stop, task, destroyer, over, thrown>>

(* The function of the task: it may enqueue a batch on its way.            *)
Return(w) ==
    /\ \/ pc[w] = "running" /\ Spawns[task[w]] = {}
       \/ pc[w] = "spawned"
    /\ over' = over \cup {task[w]}
    /\ task' = [task EXCEPT ![w] = NoTask]
    /\ Goto(w, "fetch")
    /\ UNCHANGED <<queue, stop, destroyer, thrown>>

(* The pushes of one batch, under one lock and in some order.              *)
Push(batch) ==
    /\ tasks' = tasks \cup batch
    /\ nextSeq' = nextSeq + Cardinality(batch)
    /\ \E s \in [batch -> nextSeq .. nextSeq + Cardinality(batch) - 1] :
           /\ \A t, u \in batch : t # u => s[t] # s[u]
           /\ seq' = [t \in Tasks |-> IF t \in batch THEN s[t] ELSE seq[t]]

MutantBatchSilent(w) ==
    /\ pc[w] = "running"
    /\ Spawns[task[w]] # {}
    /\ ~ stop
    /\ Push(Spawns[task[w]])
    /\ Goto(w, "spawned")
    /\ UNCHANGED <<stop, task, destroyer, over, thrown>>

EnqueueBatch(w) ==
    /\ pc[w] = "running"
    /\ Spawns[task[w]] # {}
    /\ ~ stop
    /\ Push(Spawns[task[w]])
    /\ Goto(w, "notifyAll")
    /\ UNCHANGED <<stop, task, destroyer, over, thrown>>

(* After stop the enqueue throws, and the worker loop swallows it.         *)
EnqueueThrows(w) ==
    /\ pc[w] = "running"
    /\ Spawns[task[w]] # {}
    /\ stop
    /\ thrown' = thrown \cup {task[w]}
    /\ task' = [task EXCEPT ![w] = NoTask]
    /\ Goto(w, "fetch")
    /\ UNCHANGED <<queue, stop, destroyer, over>>

NotifyAll(w) ==
    /\ pc[w] = "notifyAll"
    /\ pc' = [t \in Threads |-> IF t = w THEN "spawned"
                                ELSE IF t \in Waiting THEN "fetch" ELSE pc[t]]
    /\ UNCHANGED <<queue, stop, task, destroyer, over, thrown>>
-----------------------------------------------------------------------------
(* enqueue, by a client; once stopped it throws to its caller.             *)
Enqueue(c) ==
    /\ pc[c] = "outside"
    /\ ~ stop
    /\ \E t \in Roots \ Known : Push({t})
    /\ Goto(c, "notifyOne")
    /\ UNCHANGED <<stop, task, destroyer, over, thrown>>

MutantForgetNotify(c) ==
    /\ pc[c] = "notifyOne"
    /\ Goto(c, "outside")
    /\ UNCHANGED <<queue, stop, task, destroyer, over, thrown>>

NotifyOne(c) ==
    /\ pc[c] = "notifyOne"
    /\ IF Waiting = {} THEN Goto(c, "outside")
       ELSE \E w \in Waiting :
                pc' = [pc EXCEPT ![c] = "outside", ![w] = "fetch"]
    /\ UNCHANGED <<queue, stop, task, destroyer, over, thrown>>
-----------------------------------------------------------------------------
(* ~ThreadPool, after the last client let go of the pool.                  *)
Stop ==
    /\ destroyer = "outside"
    /\ \A c \in Clients : pc[c] = "outside"
    /\ stop' = TRUE
    /\ destroyer' = "notifyAll"
    /\ UNCHANGED <<queue, pc, task, over, thrown>>

MutantStopSilently ==
    /\ destroyer = "notifyAll"
    /\ destroyer' = "join"
    /\ UNCHANGED <<queue, stop, pc, task, over, thrown>>

StopNotifies ==
    /\ destroyer = "notifyAll"
    /\ pc' = [t \in Threads |-> IF t \in Waiting THEN "fetch" ELSE pc[t]]
    /\ destroyer' = "join"
    /\ UNCHANGED <<queue, stop, task, over, thrown>>

Join ==
    /\ destroyer = "join"
    /\ \A w \in Workers : pc[w] = "exited"
    /\ destroyer' = "done"
    /\ UNCHANGED <<queue, stop, pc, task, over, thrown>>

Destroyer == Stop \/ StopNotifies \/ Join
-----------------------------------------------------------------------------
Advance(w) ==
    \/ Pop(w) \/ Block(w) \/ Exit(w) \/ Return(w)
    \/ EnqueueBatch(w) \/ EnqueueThrows(w) \/ NotifyAll(w)

Finished == destroyer = "done" /\ UNCHANGED vars

Next ==
    \/ \E w \in Workers : Advance(w) \/ SpuriousWake(w)
    \/ \E c \in Clients : Enqueue(c) \/ NotifyOne(c)
    \/ Destroyer
    \/ Finished

Spec == Init /\ [][Next]_vars

(* Workers are scheduled, tasks return and a notification is made once the *)
(* queue is unlocked.  Nothing obliges anybody to enqueue or to destroy    *)
(* the pool.                                                               *)
FairSpec ==
    /\ Spec
    /\ \A w \in Workers : WF_vars(Advance(w))
    /\ \A c \in Clients : WF_vars(NotifyOne(c))
    /\ WF_vars(StopNotifies \/ Join)
-----------------------------------------------------------------------------
(* Properties.                                                             *)

(* Every variable has its type, and a worker has a task exactly while it   *)
(* runs one.                                                               *)
TypeOK ==
    /\ tasks \in SUBSET Tasks
    /\ seq \in [Tasks -> Nat] /\ nextSeq \in Nat
    /\ stop \in BOOLEAN
    /\ pc \in [Threads -> WorkerLabels \cup ClientLabels]
    /\ task \in [Workers -> Tasks \cup {NoTask}]
    /\ destroyer \in {"outside", "notifyAll", "join", "done"}
    /\ over \in SUBSET Tasks /\ thrown \in SUBSET Tasks
    /\ \A w \in Workers :
           pc[w] \in {"running", "notifyAll", "spawned"} <=> task[w] # NoTask

(* No wakeup is lost, with notifications made after the unlock and one     *)
(* notify_one per enqueue: while a worker is blocked, every queued task    *)
(* has a worker on its way to the queue or a notification still to come.   *)
NoLostWakeup ==
    \/ Waiting = {}
    \/ \E w \in Workers : pc[w] = "notifyAll"
    \/ Cardinality(tasks) <= Cardinality({w \in Workers : pc[w] = "fetch"})
                             + Cardinality({c \in Clients : pc[c] = "notifyOne"})

(* The destructor drains the queue: what was enqueued before the stop has  *)
(* run when it returns, and no worker is left.                             *)
DestructorDrains ==
    destroyer = "done" => /\ tasks = {}
                          /\ \A w \in Workers : pc[w] = "exited"

(* Every enqueued task is run, also when the pool is being destroyed.      *)
QueuedRuns == \A t \in Tasks : t \in tasks ~> t \notin tasks

(* The destructor returns.                                                 *)
StopReturns == stop ~> destroyer = "done"
=============================================================================
