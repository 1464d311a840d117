# GryFlux: a verification development

GryFlux is a C++ framework that pushes data packets through a DAG of processing
nodes on a pool of worker threads, with hardware contexts (NPU, GPU, DSP) handed
out by a resource pool, and seven programs built on it. These modules model the
framework (how a packet is executed, how contexts are shared, how packets enter
and leave, how threads wait and stop, how a graph is built) and the programs (their
graphs and nodes, their accelerator contexts, their post-processing, their tracker).
Paths below are relative to `src/` unless they start with it; `framework/x.cpp`
is `src/src/framework/x.cpp`, `framework/x.h` is `src/include/framework/x.h`,
`app/...` is `src/src/app/...`.

## 1. Inventory

| Component | State | Operations | What is hard | What makes it correct |
|---|---|---|---|---|
| **Node execution**: `TaskScheduler`, `DataPacket` | per packet: for each node a count of unfinished predecessors, `hasBeenEnqueued`, `isCompleted`; `isGraphCompleted`, `hasFailed`, `inFlight`, `completionNotified` | `initializeExecution`, `scheduleNode`, `executeNode` and the packet's atomic operations | no lock at all: several workers count down, mark and hand over the same packet with single atomics; a failure arrives while other branches run | each node created once and after its predecessors; the packet is handed over exactly once, when nobody touches it; a result that is not marked failed was really computed; contexts come back |
| **ResourcePool** | per type: free contexts, priority-ordered waiters, a `Waiter` on each waiting thread's stack | `registerResourceType`, `acquire`, `release`, timeouts | a hand-over races with a deadline, a cancellation, a spurious wake-up, and notifies after the unlock | no context lost or given twice; no waiter dangling or unfindable; best priority first, first come first served; everybody comes back |
| **AsyncGraphProcessor** | active packets under a mutex, output queue, `isRunning_` | `submitPacket`, completion callback, `tryGetOutput`, `start`, `stop` | ownership moves between submitter, workers and consumer | a packet is in exactly one place |
| **AsyncPipeline** | `running_`, `producerDone_`, two threads | `run`, `stop` | end detection by polling three unsynchronised facts; stop at any moment; run again | backpressure; nothing lost on the way; run and stop return with the work done |
| **ThreadPool** | priority queue, `stop_`, mutex and condition variable | `enqueue`, `enqueueBatch`, worker loop, destructor | notifications after the unlock; tasks that enqueue; destruction with a full queue | no lost wake-up; every queued task runs; the destructor returns with the queue empty |
| **TemplateBuilder / GraphTemplate** | nodes, name-to-index map, links both ways | `setInputNode`, `addTask`, `setOutputNode`, `finalizeBuild` | any order of calls, doubled predecessors | each node notified as often as predecessors are counted |
| **Applications** (`app/*/*.cpp`) and their nodes | the template, the resource types, the fields of a packet | the `buildOnce` callbacks; `execute` of every node; what sources assign and consumers read | branches write fields of one packet without a lock; contexts are cast unchecked; parallel vectors | a field is settled before it is read; a node gets the class of context it casts to; features stay with their detections |
| **Post-processing** (`nodes/Postprocess`) | candidate boxes, an index vector | `QuickSortIndiceInverse`, `ApplyGlobalNms`, `ApplyNmsFilter`, the selection up to a capacity | two vectors moved in parallel, marks inside the index vector | the best boxes stay, no two of them overlap (in a class), each with its own score and class |
| **ACL environment** (`context/acl_environment.cpp`) | reference counts of the runtime and of each device | `acquire`, `release` | a call fails half-way, or a context fails after it acquired | the runtime is up exactly while somebody holds it |
| **Inference contexts** (`context/*.cpp`, eight classes) | vendor handles and buffers, stream, shared engine | constructor, `destroy`, copy in, execute, copy out | every driver call may fail; a half-constructed object; work left on a stream; threads that address another context | nothing outlives what it was made from; what was created is released; a result is that of its own packet |
| **DeepSORT tracker** and reorder buffer (`utils`, `consumer`) | tracks with state, hits and age; gallery; frames kept back | `consume`, `update`, matching cascade, the assignment solver | indices into vectors that shrink and grow; frames in completion order | frames in order; a detection used once; an identity never reused |
| `threadsafe_queue` | a queue under a mutex | `push`, `try_pop`, blocking `pop` | - | a FIFO; only the first two are used |
| Kalman filter, matrix | floating-point vectors | arithmetic | - | - |
| `UnifiedAllocator` | recycling list, payouts, registry | `malloc`, `free` | steps outside its lock | no program uses it |
| `GraphProfiler`, `Logger`, thread priority | events; level and file | record, print | - | - |
| Build files, docs | - | - | - | - |

How they interact. `AsyncPipeline::run` starts a producer and a consumer thread.
The producer takes packets from the source and calls `submitPacket`, which puts
the packet into `activePackets_` and enqueues its input node on the `ThreadPool`.
A worker runs `executeNode`: it takes a context from the `ResourcePool` if the
node needs one, executes the node, gives the context back, marks the node
completed, and for every successor decrements a count and, if that made it ready,
enqueues it. The worker whose decrement of `inFlight` reaches zero after the
output node is done calls the completion callback, which moves the packet to the
output queue; the consumer thread polls that queue. Failure is a flag on the
packet: later nodes are skipped, but the DAG is still walked to its end. A program
creates its contexts, registers them, builds its template, runs the pipeline and
destroys the contexts; the consumers of the two tracking programs put the frames
back in order and run the tracker on the consumer thread.

`PROJECT.json` lists the hazards, each with its line and the properties aimed at
it, including those no run covers, with the reason.

## 2. Modules

| Module | Models | Lines of thought |
|---|---|---|
| `TaskScheduler` | `task_scheduler.cpp`, `data_packet.cpp`, submit and callback of `async_graph_processor.cpp` | a worker's `pc` walks through `executeNode`; one action per atomic access another thread can see |
| `DagExecution` | abstract: what `TaskScheduler` promises | nodes start in an order the graph permits, each once; a packet leaves when none of its nodes is open |
| `ResourcePool` | `resource_pool.cpp` | one resource type; a critical section is one action, what is outside the lock has actions of its own |
| `ResourceAllocator` | abstract: what `ResourcePool` promises | contexts have a holder, waiters form a line with priorities |
| `AsyncPipeline` | `async_pipeline.cpp`, `async_graph_processor.cpp`, the queue | producer, consumer, `run`, `stop` as four programs; a graph run is one step to the callback |
| `ThreadPool` | `thread_pool.cpp`, `thread_pool.h` | worker, client, destructor; `notify` is a step after the unlock |
| `TemplateBuilder` | `template_builder.cpp`, `graph_template.cpp` | a call that would throw is not enabled: it changes nothing |
| `Postprocess` | the algorithms of the four `PostprocessNode`s for detection | operators: the sort with a moving hole, both suppressions |
| `Applications` | the programs' templates and resources, the nodes, the sources and consumers | builds a template through `TemplateBuilder`, then runs one packet through it in every order it permits |
| `AclEnvironment` | `acl_environment.cpp` | two operations under one mutex |
| `Contexts` | construction and destruction of the eight context classes | a constructor, a clean-up, a destructor is a sequence of driver calls; one interpreter for all |
| `Inference` | the inference nodes on those contexts | workers, streams and devices step by step, any call may fail |
| `Assignment` | abstract: minimum-cost assignments | what the solver promises |
| `Munkres` | `utils/munkres.h` | `solve()` step by step on every small matrix |
| `LinearAssignment`, `Matching` | `min_cost_matching` of `linear_assignment.cpp` | the limit before and after the solver, as operators; one call with the solver inside it |
| `Tracking` | `result_consumer.cpp`, `deepsort_tracker.cpp`, `track.cpp`, `linear_assignment.cpp`, `nn_matching.cpp` | the stages of `update`, with any matching the solver can return |
| `Loops` | lemmas the proofs share: induction over the naturals, iterated functions | section 5 |
| `*Proofs` | theorems about `TaskScheduler`, `ResourcePool`, `ThreadPool`, `AsyncPipeline`, `Applications` (with `TemplateBuilder` and `Postprocess`), `Inference`, `Tracking` (with `Munkres` and `Assignment`) | section 5 |
| `MC*` | instances for TLC | templates, symmetry, matrices |

How they fit. Each module shows its neighbours as what the neighbour's own module
establishes:

- `TaskScheduler` sees the thread pool as the set of queued tasks (`QueuedRuns`,
  `NoLostWakeup` of `ThreadPool`) and the resource pool as the set of free contexts
  (`ContextsConserved`, `ImplementsAllocator` of `ResourcePool`); its template has
  links both ways that agree, which is `CountsMatch` of `TemplateBuilder`, and goes
  from lower to higher indices because `addTask` knows only nodes added before.
- `AsyncPipeline` sees a graph execution as one hand-over per packet (`HandoverSafe`
  and `Delivery` of `TaskScheduler`).
- `Applications` runs nodes in the orders that `DagExecution` permits, which
  `TaskScheduler` implements (`ImplementsExecution`), on a template built by
  `TemplateBuilder`.
- `Inference` gives a context to one worker at a time (`ContextsConserved`).
- `Tracking` receives what `AsyncPipeline` delivers: at most `MaxActive` frames in
  the graph (`Backpressure`), in any order, failed ones never; and takes matchings
  from a solver of which `Munkres` shows that it returns an optimum
  (`SolvesToOptimum`). `OutcomesAssumption`, which TLC evaluates, says that with costs
  free the optima cut at the limit are all matchings, so that the tracker's runs
  lose nothing by choosing one directly. What the limit does to one given matrix is
  therefore not a question for `UsedOnce`, which any matching satisfies in that
  respect, but for `MatchedBest` of `Matching`.

### State and actions

`TaskScheduler`: the node and packet variables carry the names of the fields of
`DataPacket::ExecutionState`. `task[<<p, n>>]` says where the closure that runs
node `n` of packet `p` is: not created, in a worker's `successorTasks`, in the
pool, run by a worker, over, or abandoned. `cur`, `child`, `batch`, `ctx` are the
locals of `executeNode`. The history variables `notified` (edges already notified)
and `ran` (nodes that ran to their end) let properties speak of the past and guard
nothing. In the order of the code: `ExecuteNode` (line 64), `CheckFailed` (75),
`Acquire*` (87-92), `Recheck` (96-111), `Execute`, `ExecuteThrows` (113-130),
`ExecuteEscapes` (what the `catch` does not catch), `Release` (136),
`MarkNodeCompleted`, `MarkGraphCompleted` (142), `NotifyPredecessorCompleted`
(149), `LoadCount`, `MarkEnqueued` (151), `MarkTaskScheduled` (158),
`EnqueueBatch` (166), `MarkTaskFinished`, `TestGraphCompleted`, `ClaimCompletion`
(169), `OnGraphCompleted` (171). `SubmitPacket` is one action because nobody else
knows the packet before its input task is in the queue.

`ResourcePool`: `waiters` is the multimap as the set of threads in it, ordered by
`Before`; `assigned[t]` is the context in `t`'s `Waiter` (`satisfied` is that it is
not null). A wake-up, a deadline and a spurious wake-up only take a thread out of
the block; what it finds when it has the mutex again is `WaitLoop` or `TimeOut`.
`Notify` addresses the `Waiter` object, identified by thread and sequence number:
it reaches it if it is still blocked and nobody otherwise.

`AsyncPipeline`: each thread has a label for each place where it reads something
another thread writes. `completing` is the callback between its push and its erase,
which `tryGetOutput` may see in between, since it does not take that mutex.

`ThreadPool`: a worker fetches, blocks, runs, or has a notification to make; a task
may enqueue a batch while it runs, as `executeNode` does.

`TemplateBuilder`: one action per call of the user's callback, any order, any
arguments.

`Applications`: `app` chooses a program, or `"any"` for a user's own template.
`BuildCall` makes the calls of its `buildOnce` in their order, `BuildAny` any calls.
`Start` takes a node whose predecessors are done; the node's own action is the
effect of its `execute` and ends it; `Skip` passes the nodes of a failed packet. A
packet records the fields written and, for each field, what a property needs of its
value: a number for the example, boxes for the detectors, crops and features for the
trackers. The detector's output is any small list of scored, classified boxes with any
overlap between them; that a model returns too few outputs, or empty ones, is a failure
of the post-processing node.

`Contexts`: a step of `todo` is one driver call; its `undo` names the clean-up that a
failure runs. `held` is what exists, `owned` what the object's members point to: they
differ between a call and the assignment of its result to a member, and after a
constructor that threw. `thrower` is the context whose constructor threw; its
destructor does not run, only its members' do. `standing` are the owners constructed
and not yet destroyed, the pointers `main` keeps. `current` is the context, or device,
that each thread's calls address.

`Inference`: `work[t].calls` are the calls the node's `execute` still makes. On Ascend
copies are synchronous and execution is queued; on Orin all three are queued and the
host waits. `DeviceStep` executes the head of a stream at any time. `NodeFails` may end
a node at each of its calls and leaves the stream as it is.

`Munkres`: `step` is the variable of the same name in `solve()`; each of its values has
one action, and the search for an uncovered zero is in row order as in the code.

`Matching`: `distance` is the matrix of the metric or the overlap, `cost` what
`min_cost_matching` makes of it for the solver; the steps are the solver's, and `matches`
is what is kept of its result.

`Tracking`: `Consume` puts a packet in the buffer, `ProcessSequentialFrame` takes the
next one out; `frame` holds the locals of `update` between its stages: cascade level by
level, overlap round, and the rest in one action, as nothing else runs on that thread.


## 3. Runs

| Run | Shows | Bounds |
|---|---|---|
| `scheduler_diamond` | node execution: `DependencyOrder`, `InputsProduced`, `HandoverSafe`, `ResultComplete`, `ContextsConserved`, `ExactlyOnce`, and `ImplementsExecution` (refinement) | two packets, two workers, one context with a timeout; a diamond one edge of which is doubled, with a side branch that may be left to run when the output is done; node 1 may throw, inside or outside `std::exception`, and so may, inside it, the output node |
| `scheduler_delivery` | `Delivery`: every submitted packet is handed over | a chain and a side branch beside the output; one node fails, one asks for a type nobody registered |
| `pool_race` | `ContextsConserved`, `NobodyWaitsInVain`, `WaitersFindable`, `ImplementsAllocator` (refinement) | three threads, two priorities, one context, four calls of `acquire`, each timed or not, cancelled or not |
| `pool_progress` | `TimedReturns`, `AcquireReturns` | two threads, four calls |
| `pool_cancel` | violated: `CancelReturns` | two threads, two calls |
| `pipeline_flow` | `Backpressure`, `Accounted`, `GraphDrained`, `NothingRefused`, `RunReturns` | four packets, two active, two runs, `stop` at any moment |
| `pipeline_lost`, `pipeline_abandon` | violated: `RunDrains`, `StopDrains` | two packets, one active, one run |
| `threads_work` | `NoLostWakeup`, `DestructorDrains`, `QueuedRuns`, `StopReturns` | three workers, two clients, two root tasks, one of which enqueues a batch of two |
| `applications` | `CountsMatch` for any template; for the seven programs `FieldsSettled`, `ContextsMatch`, `ResultVerified`, `DetectionsCorrect`, `FeaturesAligned` | any template of four names, four nodes, two predecessors in a call; the programs' own templates in every order; three overlapping cells, scores 1 and 2, two classes, a capacity of two |
| `contexts` | `NoDangling`, `EnvCounted`, `CleanedUp`, `OwnContext`, `OwnResult` | the six inference programs; two contexts of a class (one of each class for the tracker), two workers, two packets, one or two tensors in a direction, two crops; any one driver call of a construction fails, any call of a node |
| `tracking` | `InOrder`, `UsedOnce`, `Lifecycle`, `IdentityKept`; `SolvesToOptimum` and `MatchedBest` for the solver | six frames of up to two detections, two frames in the graph, `max_age` 2, `n_init` 2, a gallery of two; calls of `min_cost_matching` with a limit of four on distance matrices up to three by three, entries from -1 to 2, or 0, 1, 3, 4, 5 (for three by three 0 to 2, or 0, 3, 5) |

What the properties of the programs say.

- `FieldsSettled`: a field of a packet is read when every node that writes it is
  over, and no two nodes that touch it run at the same time, one of them writing.
- `ContextsMatch`: the context a node casts to its class is of that class.
- `ResultVerified`: the example's consumer finds the number it computes itself.
- `DetectionsCorrect`: the detections that leave are a greedy choice from the
  candidates, best first, no two that overlap too much (in their class).
- `FeaturesAligned`: feature `i` was computed from the crop of detection `i`.
- `NoDangling`: at every moment, also half-way through a construction or a clean-up,
  nothing exists without what it was made from.
- `CleanedUp`: after the program has ended nothing is left but what section 6 lists.
- `OwnContext`: every driver call addresses the context, or device, of the object it
  works on.
- `OwnResult`: a packet that did not fail carries results computed from its own
  input, also on a context where an earlier packet failed half-way.
- `InOrder`: the tracker sees the frames 0, 1, 2, ... and a frame kept back is behind
  one that is missing.
- `UsedOnce`: in a frame a detection goes to one track or founds one, and a track
  gets one detection.
- `Lifecycle`: hits, age and state of a track agree, and the gallery holds samples of
  the confirmed tracks, no others.
- `IdentityKept`: an id is given to a new track only, never again after a deletion,
  and a track keeps the features it was born with.
- `SolvesToOptimum`: the solver ends, with an assignment that is as large as the
  shape allows, and of least cost unless an entry is negative.
- `MatchedBest`: although the solver must pair as many as the shape allows, the matches
  that `min_cost_matching` keeps are a largest set of pairs within the limit, of least
  distance among the largest, less those exactly at the limit. The last is a quirk of the
  code: the limit itself is not replaced before the solver (`>`, line 184) and refused
  after it (`<`, line 212), so a pair at the limit can take the place of one below it.

`TypeOK` of every module was checked when it was written; for the modules with proofs
it is a theorem.

Why the bounds are enough. The races of node execution are between two workers on
the successors of one node or the predecessors of another: two workers, a node with
two successors and a node with two predecessors produce each of them; a node beside the
output outlives it; the second
packet adds competition for the context and for the priority order. A hand-over in
the resource pool has a releaser, the waiter it serves and a third thread that
overtakes, waits behind, or reuses the releaser's turn; four calls let a thread
come back while a notification meant for its previous call is still on its way. In
the pipeline four packets with two active give a full graph, a full queue and a
remainder, and two runs give stale flags. In the thread pool three workers and two
clients allow a notification for a worker that is awake, for one of two that sleep,
and for none. Three cells are a box, one that overlaps it and one that overlaps only
the second, so that suppression depends on the order; a capacity of two cuts. Two
contexts of a class let a construction fail with another context already holding the
runtime; two packets and two workers let a context with work left on its stream serve
another packet on another thread. Six frames with `max_age` and `n_init` 2 let a track
be born, confirmed, missed, found again, lost and deleted, with births afterwards; two
detections and two tracks make the matching ambiguous; and two frames in the graph
arrive in either order. A matrix of three rows is the smallest in which the solver
uncovers a star and continues; a matrix of two by two already makes the solver choose
between one good pair with one beyond the limit and two middling ones. What the proofs cover needs no bound.

Bounds that change what a property says. `MaxCalls` (calls of `acquire`) makes the
number of competitors finite: `AcquireReturns` is therefore about lost wake-ups and
wrong hand-overs and not about starvation by an endless stream of better
priorities, which the priority order permits. `NumPackets` makes the source finite:
`RunReturns` is about the end of a source that ends. `MaxRuns` bounds `run`;
`MaxNodes` and `MaxPreds` bound a template that is not a program's; `Frames` bounds
the video, `Crops` the boxes the tracker's second model is run on, `MaxIO` the
tensors of a model file.

`scheduler_diamond` switches deadlock checking off: with an exception outside
`std::exception` the system really stops, with a packet that is never delivered.
Everywhere else a state without a step is an error; where a system is finished its
module says so in an action (`AllDelivered`, `Done`, `Finished`, `TrackingDone`,
`SolverDone`).

## 4. Fairness

- `TaskScheduler`: weak fairness of each worker (`Dequeue`, `Advance`): the
  operating system runs threads, and node code returns or throws. No fairness for
  `AcquireCancelled`: nothing wakes a waiter when its packet fails.
- `ResourcePool`: weak fairness of what a thread does by itself once it is called,
  none for `Release`: how long a node keeps a context is up to the node.
  `AcquireReturns` states that dependence as a premise. Strong fairness of
  `DeadlinePasses`: a deadline stays in the past once it is passed, so a spurious
  wake-up in between only makes the next block end at once.
- `AsyncPipeline`: weak fairness of the four programs once called and of every
  packet's way to its callback, which is `Delivery`; calls of `run` and `stop` are
  left to the application.
- `ThreadPool`: weak fairness of workers, of the notification that follows an
  enqueue, and of the destructor's steps; none for enqueueing or destroying.
- `Applications`, `Inference` and `Tracking` ask for safety only and state none. That
  the solver ends is said without fairness: `SolvesToOptimum` includes that each step
  lowers a rank in the natural numbers.

## 5. Proofs

`TaskSchedulerProofs` proves, for every template (finite, edges from lower to higher
numbers, predecessors named any number of times), any set of packets, workers and
contexts, any priorities, timeouts and failures of either kind:

| Theorem | Property |
|---|---|
| `TypeCorrect` | `TypeOK`; with it no count of the code, all unsigned, falls below zero |
| `CountsCorrect` | `InFlightCounts` |
| `DependencyOrderCorrect` | `DependencyOrder` |
| `ExactlyOnceCorrect` | `ExactlyOnce` (an action property) |
| `HandoverCorrect` | `HandoverSafe` |
| `InputsProducedCorrect` | `InputsProduced` |
| `ResultCorrect` | `ResultComplete` |
| `ContextsCorrect` | `ContextsConserved` |
| `Implementation` | `ImplementsExecution` (refinement) |

Assumptions: `GraphAssumption`, `ResourceAssumption`, `PacketAssumption` of
`TaskScheduler`, which TLC evaluates on every instance. They do not say that nodes
have predecessors, that there is a worker, or that packets are finitely many.

The argument. None of the properties is inductive: the code keeps no record of who
has notified whom, so that "the count is zero" says nothing by itself. `IInv` adds
what the code relies on and never states:

- `Base`: the shapes of the variables;
- `Ownership`: a running task has one worker and a ready task is in one worker's
  batch, so that a worker's step is the only one that touches its task;
- `InFlightCounts`: the count is the cardinality of the live tasks, which is why
  a worker that takes it to zero knows that it is alone (no run
  checks it by itself: a count that is wrong shows in `HandoverSafe` or `Delivery`);
- `Handover`: what `delivered`, `activePackets`, `completionNotified` and a worker
  between its last decrement and the callback say about each other;
- `EdgesInv`: a node's count is the number of in-edges not yet `notified`, an edge
  is notified only by a completed node and at most once, and a task exists only
  when its node's count is zero.

`Invariance` establishes `[]IInv` with one lemma per action, and per action one
fact per conjunct that it disturbs. `DependencyOrder`, `HandoverSafe` and
`InFlightCounts` follow from `IInv`; `ExactlyOnce` needs in addition that a step
changes `task` only along its life cycle. For the results a second invariant,
`ProducedInvariance`, is proved over the first: as long as a packet is not marked
failed, every completed node is in `ran`. It holds because every way past a node
that did not run, a missing context or an exception, sets the mark before the node
is completed.

`ContextsCorrect` proves `CtxInv` over `IInv`: `CtxWorker` (a worker at a node that
needs a context has one of its type, not in the pool), `CtxPair` (no two workers have
the same one), and `Lost` (the contexts that neither the pool nor a worker has are
finitely many, and as many as the abandoned tasks that asked for one). A context is
thus lost to an exception outside `std::exception` and to nothing else; the proof
compares only the finite sets of what is lost and does not need the contexts to be
finitely many.

`Implementation` maps `SubmitPacket` to `Submit`, `MarkTaskScheduled` to `Start`,
`Execute` to `Execute`, `ExecuteThrows` and a `Recheck` without a context to `Fail`,
`MarkNodeCompleted` to `Complete`, `MarkTaskFinished` to `End`, `OnGraphCompleted` to
`Deliver` and all else to no step. It needs one more invariant, `Fresh`: a node whose
task still waits, or whose worker is still on the way to it, has not run.

`ResourcePoolProofs` proves about the resource pool, for any threads, priorities,
contexts and number of calls:

| Theorem | Property |
|---|---|
| `TypeCorrect` | `TypeOK` |
| `ConservationCorrect` | `ContextsConserved`, with any number of registrations |
| `WaitersCorrect` | `WaitersFindable`, if the type is registered once |
| `QueueCorrect` | `NobodyWaitsInVain`, if the type is registered once |
| `Implementation` | `ImplementsAllocator` (refinement), if the type is registered once |

Assumptions: `PoolAssumption`, and `OneBatch` where the table says so: a second
registration clears the list of waiters and resets the sequence numbers, and the
last three are false then (section 6). The invariant is `WaitersSound` (whoever is on
the list has a `Waiter` and no context yet; a context is only assigned to a `Waiter`
that exists) and `OnePlace` for each context: a hand-over that meets a deadline keeps
them because assigning and taking off the list are one critical section. `Line` adds
what one registration gives: sequence numbers of waiters are distinct and below
`nextWaiterSeq`, so that the order of the multimap is the order of arrival. For the
refinement, each action is shown to be one step of `ResourceAllocator` or none:
`TakeAvailable` is `Take`, `StartWaiting` is `GetInLine`, `HandOver` is `PassOn`,
`PutBack` is `GiveBack`, giving up is `Withdraw`, and the wake-ups are none. In
particular the context belongs to the waiter from the hand-over on, not from the
moment it wakes.

`ThreadPoolProofs` proves about the thread pool, for any finite sets of workers,
clients and tasks, any priorities and any tasks enqueued by other tasks:

| Theorem | Property |
|---|---|
| `TypeCorrect` | `TypeOK` |
| `WakeupCorrect` | `NoLostWakeup` |
| `DestructorCorrect` | `DestructorDrains` |

Assumption: `ThreadPoolAssumption`. `NoLostWakeup` is a count, not a state of each
worker, and is inductive by itself: a single `enqueue` adds one task and one thread
that has a `notify_one` to make; that notification turns into a worker on its way to
the queue unless nobody is blocked; a batch has a `notify_all` to come; and a worker
blocks only when it finds the queue empty. `DestructorDrains` needs `ExitsDrained`: a
worker leaves only when the pool is stopped and the queue empty, and from then on
every enqueue throws.

`AsyncPipelineProofs` proves about the pipeline, for a source of any length, any
limit of active packets, any set of failing packets and any number of runs,
interrupted by `stop` or not:

| Theorem | Property |
|---|---|
| `TypeCorrect` | `TypeOK` |
| `BackpressureCorrect` | `Backpressure` |
| `RefusedCorrect` | `NothingRefused` |
| `DrainCorrect` | `GraphDrained` |
| `AccountedCorrect` | `Accounted` |

Assumption: `PipelineAssumption`. The argument starts with `Lifetimes`: the two
threads live only between their start and the join of `run`, and from a `stop` until
they are over nothing sets `running` again, so that the processor is stopped only
when the producer no longer submits (`NothingRefused`). `Room` says that the producer
that has left the throttle while running still finds room, because the callbacks only
make more. `Drain` orders the end of a run: the consumer looks at the graph after it
has seen `producerDone`, which the producer sets last. For `Accounted`, `Tracked`
states per packet that it is in one place, and that the two sequences do not repeat an
element; lemmas on `Append` and `Tail` say what each move does to the sets. These
theorems rest on what the model shows of the executor, the one hand-over per packet
which `HandoverCorrect` of `TaskSchedulerProofs` is about.

`InferenceProofs` proves about the accelerator contexts, for any program of the six,
any number of contexts, tensors, crops, workers and packets, and whichever call of a
construction or of a node fails:

| Theorem | Property |
|---|---|
| `EnvironmentCorrect` | `EnvCounted` |
| `NothingDangles` | `NoDangling` |
| `CleanUpCorrect` | `CleanedUp` |
| `OwnContextAddressed` | `OwnContext` |
| `ResultsAreOwn` | `OwnResult` |

Assumptions: `ContextsAssumption` and `InferenceAssumption`: every class has an
instance, a tracker's packet has crops, and the main thread is no worker. The inductive
invariant `IInv` has five parts.

- `EnvInv`: the holders of the environment are finitely many, the counters of
  `AclEnvironment` are their number, and what an object's members own exists. A
  construction step that fails between `acquire` and the assignment to the member is
  the case that needs the difference of `held` and `owned`.
- `Core`: of construction and destruction. That nothing dangles now does not say that
  the calls still to come keep it so, hence the invariant speaks of those calls
  (`Calls`): no object is created before what it needs, none is released before what
  was made from it, and, while a constructor runs, whichever call fails next leaves a
  state its clean-up is ready for (`Building`). `Holdings` says that what exists has
  what it needs and that only an Orin buffer just allocated is unknown to the members.
  `Remains` says what the clean-up under way will leave, which is why nothing is left
  when it ends; `Engines`, that an engine is made before and released after every
  execution context of its class; `Addressed`, that the main thread addresses the
  owner or is about to.
- `AtWork`: a worker whose next call is not the bind addresses its context.
- `Counted`: a fusion engine with other than two inputs has been refused before a node
  runs (the check in `FusionTrtInspect`), without which the fusion node on Orin would
  compute from an input nobody has copied.
- `FlowInv`: of the nodes at work. What is on a context's tensors now says little, since
  the device is behind and an earlier packet may have failed with its work still queued;
  the invariant speaks of what the tensors will hold when the stream has been executed
  (`Future`), and of the calls the node has left (`OnTrack`). A node knows of each tensor
  of which crop of its packet it will be, or nothing, and whether its stream is empty;
  `Does` says what each call adds and takes away, and that a field is read only when it is
  known and the read waits. A node's program is right when it leads from knowing nothing
  to its end (`NodeGood`, per class, with one lemma per kind of call and per loop over the
  tensors), so whatever was left behind cannot matter. The Ascend nodes copy their inputs
  past the stream, which is sound because executions are all they queue (`FutureCopied`).
  The theorem is a little stronger than the property: what is recorded is right in the
  packets that failed, too.

A constructor or destructor is a concatenation of loops over the tensors, of lengths the
constants leave open. For each class the module shows that its sequences satisfy what
`Calls` asks at their first call (`ProgramForm`, `DestructorForm`, `CleanFacts`,
`UndoForm`), from lemmas on concatenation and on one kind of loop each; and for each
kind of call, that what is asked of the sequence holds of its tail, in the state after
the call (`CallCalls` and the lemmas beside it), after a failure (`ThrowKeeps`) and
between owners (`NextKeeps`, `UnwindKeeps`, `GoneKeeps`, `DestructKeeps`). TLC checked
each conjunct as an invariant on the bounds of run `contexts` before it was proved.

`ApplicationsProofs` proves about the builder, for any number of calls with any
arguments, in any order, and with predecessors named more than once; about the
post-processing, for any number of candidates; and about the seven programs of
`Applications`, for every output of the detector, every frame and every order the
template permits:

| Theorem | Property |
|---|---|
| `CountsCorrect`, `ApplicationCounts` | `CountsMatch`, of the builder alone and in the programs |
| `TemplateDelivered` | once `buildOnce` has returned, the links are finitely many and lead from lower to higher indices: `GraphAssumption` of `TaskScheduler`, from which its theorems start |
| `QuickSortSorts` | `SortByScore` returns the scores in descending order, moved together with their indices |
| `ApplicationInvariant` | the invariant below |
| `FieldsAreSettled` | `FieldsSettled` |
| `ContextsAreMatched` | `ContextsMatch` |
| `ResultIsVerified` | `ResultVerified` |
| `DetectionsAreCorrect` | `DetectionsCorrect` |
| `FeaturesAreAligned` | `FeaturesAligned` |

Assumptions: `BoundAssumption` and `ApplicationsAssumption`, which give the constants
their types and bound nothing.

`linkParents` is a loop in a loop, modelled by two recursive functions; what they
compute is `Counted`: before node `n`, the links to each earlier node are as many as
the predecessors it names and to each later one none. The step from `n` to `n + 1` is
the inner loop, of which the same is shown link by link.

The quick sort's partition is a loop of rounds over the moving hole: after each round
what lies below `low` is at least the key and what lies above `high` at most, and the
array with the key put into the hole is a rearrangement of the one before
(`RoundResult`, `Rearranged`), so that at the end it is parted around the key
(`PartedBy`). The calls for the two parts are an induction on how deep calls nest
(`SortedJob`). One pass of the suppression is a loop over the sorted order that drops an
entry only for an earlier one it overlaps with (`Passed`). The yolox programs make a pass
per class and the deepsort programs one over all boxes; both leave what `Filtered`
says, with the labels of the boxes for the classes or one label for all. The lists
built from it hold what is left, in its order (`Picks`, `Reports`), which is `Right`: what
`DetectionsCorrect` asks, in terms of the model's output.

The invariant `AppInv` of the programs:

- `BuilderInv`, as for the builder alone, and `TemplateOk`: the template is a prefix of
  the calls of the program's `buildOnce`, hence its nodes' classes, resources and
  predecessors are known one by one once it is built.
- `OrderOk`: the nodes before a node that runs or is done are done, before it in all
  orders and not only directly (`Before`), and a packet that has not failed has the
  fields written that those nodes write. No pair of nodes of which one writes what the
  other reads or writes is unordered, which is why nobody writes meanwhile.
- `ValuesOk`, for the example: each vector written is worth what the graph's arithmetic
  says of the input (`Worth`), so that the output is what the consumer computes.
- `DetectOk`, for the detectors and trackers: what the packet holds after each stage,
  from the cells of the model's output over the chosen detections (`Right`) to the
  crops and their features, slot by slot (`SlotsRight`).

`TrackingProofs` proves about the tracking consumers, for a video of any length, any
number of frames in the graph, any detections, any matching the solver can return and
any parameters of the tracker, and about the solver, for matrices of any shape and any
integer entries:

| Theorem | Property |
|---|---|
| `OrderCorrect` | `InOrder` |
| `UsedOnceCorrect` | `UsedOnce` |
| `LifecycleCorrect` | `Lifecycle` |
| `IdentityCorrect` | `IdentityKept` (an action property) |
| `SolverSolves` | `SolvesToOptimum` (an action property of the solver, `SolverSpec`) |

Assumption: `TrackingAssumption`. `OrderInv` (for `InOrder`) says that the frame in
work has left the buffer and is the one expected. `TrackInv` is needed for the other
three: `MatchInv` says that the matches of the cascade are of levels already done, so
that no later level finds one of their tracks free, and that when `update` goes on
every unmatched track is on one of the two lists in the way that has it marked as
missed; `LifeInv` gives a track's counters between frames and, one step later, while
its frame is in work; `GalleryInv` ties the gallery to the confirmed tracks, which
`Lifecycle` does not mention but `partial_fit` relies on; `IdInv` says that the ids
are below `next_id_` and differ.

The solver's assumption is `SolverAssumption`: no side of the matrix is zero, in which
case `solveHungarian` returns without calling it. `SolverInv` is its inductive invariant:

- `Marks`: the stars are zeros, no two on a line, and the primes are zeros, one in a
  row; a covered row has a star and a prime, and a column is covered exactly if its star
  is in a row that is not.
- `Ordered`: the covered rows have an order, that in which they were covered, in which
  the star in a prime's column comes before the prime's row. The path of step 4 goes
  down this order (`OnPath`), so it ends after at most twice as many cells as there are
  rows, meets no column twice, and turning it leaves one star more.
- `Dual`: there are numbers for the rows and for the columns that say, for each cell,
  what has been taken off it.
- `NonNegative`: entries that were not negative stay so.

From `Marks` and `Ordered` it follows that each step lowers `Rank`: a turned path adds a
star, a round of step 3 covers a row, step 5 makes a zero that step 3 finds
(`SolverStep`). When step 2 covers every column there is a star on every line. By `Dual`
all matchings of the filled-up square differ in cost only by what they cost in the
reduced matrix (`PerfectTotal`), where the stars cost nothing and no other matching less;
the cells outside the original shape cost every matching the same (`OutsideTotal`), and
every assignment of the shape is the inside of a matching of the square
(`MatchingExtends`). So no assignment costs less than the stars (`SolutionOptimal`).
The sums themselves, `Total` over a set in whatever order `CHOOSE` takes its elements,
need lemmas of their own: `SumsAny` and `TotalAdds` say that the order does not matter,
`TotalMoved` that the places do not.

`Loops` holds what these proofs take from the naturals: `Induction`, for a set of
numbers given as a set and not as a predicate, from the library's theorem on minimal
elements, and `Iteration`, that a function defined from its value one step before
exists and is the `CHOOSE` of its definition. With them the folds and recursive
functions of `TemplateBuilder`, `Postprocess` and `Tracking` are within the provers'
reach, and so is `FlattenSeq`, which the programs of `Contexts` are made with:
`FlattenRuns` describes it as a loop, `FlattenIn` takes what is closed under
concatenation from the parts to the whole, `FlattenHas` finds each element of each part
in it.

Only model-checked: liveness (`Delivery` and all other `~>`), which needs fairness
and is outside the prover; and `MatchedBest`, for which `SolverSolves` gives the optimum
of the limited matrix for every size, but the step from there to the largest set within
the limit is not proved.

## 6. Disagreements with the documentation and comments

With a run (`PROJECT.json`, `findings`):

1. `pool_cancel`: a waiter without timeout does not react to the cancellation flag
   until something else wakes it, against `resource_pool.h:88-91`.
2. `pipeline_lost`: `run` can return with results in the output queue
   (`async_pipeline.cpp:151`), against `async_pipeline.h:74`.
3. `pipeline_abandon`: `stop` does not wait for the packets in the graph
   (`async_pipeline.cpp:94`), against `async_pipeline.h:81`.

Met while reading and modelling, without a run of their own:

- In the framework: an exception that is not a `std::exception` passes the release
  (`task_scheduler.cpp:124`) that the comment at line 135 calls unconditional;
  `ContextsConserved` counts exactly these contexts as lost. The condition variable
  that `release` notifies may no longer exist (`resource_pool.cpp:199`). A node added
  without predecessors other than the input is never scheduled, so its packet is never
  delivered (`template_builder.cpp:97`, README line 47). Registering a type a second
  time forgets the waiters while they sleep (`resource_pool.cpp:38`). Backpressure does
  not bound the output queue (`async_graph_processor.h:113`, README line 15). A task
  added after the output node becomes the output (`graph_template.h:131`). The
  processor's packets are destroyed before its workers are joined
  (`async_graph_processor.h:116`).
- In the programs: the example's comments describe `i = h + c` (`example.cpp:18`,
  `simple_data_packet.h:28`, `result_consumer.h:30`), its node adds `h` and `d`
  (`IAddNode.cpp:17`), and so does its consumer. On Orin the shared engine is
  deserialised before any `cudaSetDevice`
  (`deepsort_track_orin/context/infercontext.cpp:157`), against `--device` of
  `image_fusion_orin/README.md:61`. A constructor on the 310P that throws after `init`
  leaves five objects, one on Orin that fails to get a host buffer leaves one device
  buffer (`CleanedUp` states both). Behind a frame that failed in the graph the
  trackers' reorder buffer keeps everything that follows, without bound. A track's
  `update` never takes over the new detection's features (`track.h:26`,
  `nn_matching.h:42`).

## 7. Not modelled, and why

- `UnifiedAllocator`: nothing in the repository calls it, so there is no order of calls
  to check. Kalman filter, matrices, feature distances, box decoding: floating-point
  code without control; a box's score and a distance are small integers, which keeps
  comparisons and loses rounding.
- Profiler, logger, thread priority, file and image input and output, build files: they
  do not feed back into the execution modelled here. Reading a frame or a model either
  succeeds or fails; the directory scan of the image sources is not modelled.
- Memory ordering is sequential consistency: the code's atomics are acquire/release or
  stronger on every path between workers, and the plain fields are only read by threads
  that were started, joined or synchronised since; `isRunning_` of the processor is read
  by the producer thread between its start and its join.
- Of the vendors' runtimes the models contain what the code in `src/` relies on: a
  stream executes its work in order; a device buffer is freed after the stream's work
  on it; a copy from pageable memory has read its source when the call returns; setting
  the current context in a clean-up succeeds; one device per process; in one
  construction one call fails at most.
- The template is not changed after it is built. Priorities are the packets' indices,
  as `scheduleNode` uses them. The consumer receives packets in the order in which they
  were completed.

## 8. Plan

The modules were written in this order: node execution, resource pool, pipeline,
thread pool, builder; then the programs: graphs and post-processing, contexts,
tracking; last the abstract execution and its refinement. What is left:

1. A proof of `MatchedBest` from `SolverSolves`, for every matrix whose sides times the
   limit stay below `INFTY_COST`.
2. Teardown: a processor destroyed after `stop`, with workers still in a packet, once
   the order of its members gives that a defined outcome.
3. `UnifiedAllocator`, once a program uses it.
