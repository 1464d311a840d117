---------------------------- MODULE ResourcePool ----------------------------
(***************************************************************************)
(* ResourcePool for one resource type: contexts are taken by acquire,      *)
(* given back by release, and handed directly to the best waiter while     *)
(* somebody waits.  Between two steps of a thread the pool mutex is free:  *)
(* a critical section is one action, and what happens outside it (the      *)
(* first look at the cancel flag, the block on the condition variable, the *)
(* notification after the unlock) has actions of its own.                  *)
(***************************************************************************)
EXTENDS Integers, FiniteSets

CONSTANTS
    Threads,    \* the threads that call acquire and release
    Priorities, \* priorities they acquire with, smaller is better, 0 if none
                \* is given
    Batches,    \* sets of contexts passed to registerResourceType
    NoContext,  \* the null context
    MaxCalls    \* bound: how often acquire is called

Contexts == UNION Batches

ASSUME PoolAssumption ==
    /\ 0 \in Priorities /\ Priorities \subseteq Nat
    /\ NoContext \notin Contexts \cup Threads
    /\ {} \notin Batches
    /\ \A a, b \in Batches : a # b => a \cap b = {}
    /\ MaxCalls \in Nat

VARIABLES
    \* ResourceTypePool; the key of a waiter is <<priority[t], seq[t]>>, and
    \* Waiter::satisfied is assigned[t] # NoContext
    registered, availableContexts, waiters, nextWaiterSeq, assigned,
    \* the arguments of a thread's current call: priority, whether timeout
    \* is not 0ms, and the flag cancelFlag points to
    priority, timed, cancelFlag,
    \* the threads' program counters and locals, and the number of calls
    pc, seq, held, target, calls

pool == <<registered, availableContexts, waiters, nextWaiterSeq, assigned>>
args == <<priority, timed, cancelFlag>>
vars == <<pool, args, pc, seq, held, target, calls>>

Labels == {"idle", "check", "find", "pool", "waiting", "awake", "timedOut",
           "holding", "notify"}

\* Inside acquire with a Waiter object on the stack.
InWait == {"waiting", "awake", "timedOut"}

\* Inside acquire.
InAcquire == {"check", "find", "pool"} \cup InWait

NoTarget == <<NoContext, -1>>
Satisfied(t) == assigned[t] # NoContext
Goto(t, label) == pc' = [pc EXCEPT ![t] = label]

(* The order of the multimap: priority, then sequence number.              *)
MutantArrivalOnly(t, u) == seq[t] < seq[u]

Before(t, u) ==
    \/ priority[t] < priority[u]
    \/ priority[t] = priority[u] /\ seq[t] < seq[u]

Init ==
    /\ registered = {}
    /\ availableContexts = {}
    /\ waiters = {}
    /\ nextWaiterSeq = 0
    /\ assigned = [t \in Threads |-> NoContext]
    /\ priority = [t \in Threads |-> 0]
    /\ timed = [t \in Threads |-> FALSE]
    /\ cancelFlag = [t \in Threads |-> FALSE]
    /\ pc = [t \in Threads |-> "idle"]
    /\ seq = [t \in Threads |-> 0]
    /\ held = [t \in Threads |-> NoContext]
    /\ target = [t \in Threads |-> NoTarget]
    /\ calls = 0
-----------------------------------------------------------------------------
(* The application.  A second registration of the type is accepted: it     *)
(* adds its contexts to those already in the queue and forgets the waiters.*)
RegisterResourceType(b) ==
    /\ b \notin registered
    /\ registered' = registered \cup {b}
    /\ availableContexts' = availableContexts \cup b
    /\ waiters' = {}
    /\ nextWaiterSeq' = 0
    /\ UNCHANGED <<assigned, args, pc, seq, held, target, calls>>

(* The caller's packet fails: its hasFailed is the flag of the call.       *)
Cancel(t) ==
    /\ pc[t] \in InAcquire
    /\ ~ cancelFlag[t]
    /\ cancelFlag' = [cancelFlag EXCEPT ![t] = TRUE]
    /\ UNCHANGED <<pool, priority, timed, pc, seq, held, target, calls>>
-----------------------------------------------------------------------------
(* acquire.                                                                *)
Acquire(t) ==
    /\ pc[t] = "idle"
    /\ calls < MaxCalls
    /\ calls' = calls + 1
    /\ \E p \in Priorities : priority' = [priority EXCEPT ![t] = p]
    /\ \E b \in BOOLEAN : timed' = [timed EXCEPT ![t] = b]
    /\ cancelFlag' = [cancelFlag EXCEPT ![t] = FALSE]
    /\ Goto(t, "check")
    /\ UNCHANGED <<pool, seq, held, target>>

CheckCancel(t) ==
    /\ pc[t] = "check"
    /\ Goto(t, IF cancelFlag[t] THEN "idle" ELSE "find")
    /\ UNCHANGED <<pool, args, seq, held, target, calls>>

FindPool(t) ==
    /\ pc[t] = "find"
    /\ Goto(t, IF registered = {} THEN "idle" ELSE "pool")
    /\ UNCHANGED <<pool, args, seq, held, target, calls>>

TakeAvailable(t) ==
    /\ pc[t] = "pool"
    /\ \E c \in availableContexts :
           /\ availableContexts' = availableContexts \ {c}
           /\ held' = [held EXCEPT ![t] = c]
    /\ Goto(t, "holding")
    /\ UNCHANGED <<registered, waiters, nextWaiterSeq, assigned, args, seq,
                   target, calls>>

(* Nothing available: insert a waiter, look at the flag once more, block.  *)
StartWaiting(t) ==
    /\ pc[t] = "pool"
    /\ availableContexts = {}
    /\ nextWaiterSeq' = nextWaiterSeq + 1
    /\ seq' = [seq EXCEPT ![t] = nextWaiterSeq]
    /\ IF cancelFlag[t]
       THEN Goto(t, "idle") /\ UNCHANGED waiters
       ELSE Goto(t, "waiting") /\ waiters' = waiters \cup {t}
    /\ UNCHANGED <<registered, availableContexts, assigned, args, held, target,
                   calls>>

(* The thread leaves the block without a notification: spuriously, as any  *)
(* condition variable may, or because its deadline passed.  It then has to *)
(* get the mutex back before it looks at satisfied.                        *)
SpuriousWake(t) ==
    /\ pc[t] = "waiting"
    /\ Goto(t, "awake")
    /\ UNCHANGED <<pool, args, seq, held, target, calls>>

DeadlinePasses(t) ==
    /\ pc[t] = "waiting"
    /\ timed[t]
    /\ Goto(t, "timedOut")
    /\ UNCHANGED <<pool, args, seq, held, target, calls>>

ReturnAssigned(t) ==
    /\ Goto(t, "holding")
    /\ held' = [held EXCEPT ![t] = assigned[t]]
    /\ assigned' = [assigned EXCEPT ![t] = NoContext]
    /\ UNCHANGED waiters

MutantKeepWaiter(t) ==
    /\ Goto(t, "idle")
    /\ UNCHANGED <<waiters, held, assigned>>

EraseAndReturnNull(t) ==
    /\ Goto(t, "idle")
    /\ waiters' = waiters \ {t}
    /\ UNCHANGED <<held, assigned>>

KeepWaiting(t) ==
    /\ Goto(t, "waiting")
    /\ UNCHANGED <<waiters, held, assigned>>

(* The loop once the mutex is held again.                                  *)
WaitLoop(t) ==
    /\ pc[t] = "awake"
    /\ IF Satisfied(t) THEN ReturnAssigned(t)
       ELSE IF cancelFlag[t] THEN EraseAndReturnNull(t)
       ELSE KeepWaiting(t)
    /\ UNCHANGED <<registered, availableContexts, nextWaiterSeq, args, seq,
                   target, calls>>

MutantTimeoutWins(t) ==
    /\ pc[t] = "timedOut"
    /\ Goto(t, "idle")
    /\ waiters' = waiters \ {t}
    /\ assigned' = [assigned EXCEPT ![t] = NoContext]
    /\ UNCHANGED <<registered, availableContexts, nextWaiterSeq, args, seq,
                   held, target, calls>>

MutantWaitAgain(t) ==
    /\ pc[t] = "timedOut"
    /\ IF Satisfied(t) THEN ReturnAssigned(t) ELSE KeepWaiting(t)
    /\ UNCHANGED <<registered, availableContexts, nextWaiterSeq, args, seq,
                   target, calls>>

TimeOut(t) ==
    /\ pc[t] = "timedOut"
    /\ IF Satisfied(t) THEN ReturnAssigned(t) ELSE EraseAndReturnNull(t)
    /\ UNCHANGED <<registered, availableContexts, nextWaiterSeq, args, seq,
                   target, calls>>
-----------------------------------------------------------------------------
(* release: with a waiter the context never goes through the queue.        *)
IsFirst(u) == u \in waiters /\ \A v \in waiters \ {u} : Before(u, v)

HandOver(t) ==
    /\ pc[t] = "holding"
    /\ \E u \in waiters :
           /\ IsFirst(u)
           /\ waiters' = waiters \ {u}
           /\ assigned' = [assigned EXCEPT ![u] = held[t]]
           /\ target' = [target EXCEPT ![t] = <<u, seq[u]>>]
    /\ held' = [held EXCEPT ![t] = NoContext]
    /\ Goto(t, "notify")
    /\ UNCHANGED <<registered, availableContexts, nextWaiterSeq, args, seq, calls>>

MutantAlwaysPutBack(t) ==
    /\ pc[t] = "holding"
    /\ availableContexts' = availableContexts \cup {held[t]}
    /\ held' = [held EXCEPT ![t] = NoContext]
    /\ Goto(t, "idle")
    /\ UNCHANGED <<registered, waiters, nextWaiterSeq, assigned, args, seq,
                   target, calls>>

PutBack(t) ==
    /\ pc[t] = "holding"
    /\ waiters = {}
    /\ availableContexts' = availableContexts \cup {held[t]}
    /\ held' = [held EXCEPT ![t] = NoContext]
    /\ Goto(t, "idle")
    /\ UNCHANGED <<registered, waiters, nextWaiterSeq, assigned, args, seq,
                   target, calls>>

(* notify_one, after the unlock: it reaches the Waiter object it was meant *)
(* for if that is still blocked, and nobody otherwise.                     *)
MutantNoNotify(t) ==
    /\ pc[t] = "notify"
    /\ Goto(t, "idle")
    /\ target' = [target EXCEPT ![t] = NoTarget]
    /\ UNCHANGED <<pool, args, seq, held, calls>>

Notify(t) ==
    LET u == target[t][1] IN
    /\ pc[t] = "notify"
    /\ pc' = [v \in Threads |->
                 IF v = t THEN "idle"
                 ELSE IF v = u /\ pc[u] = "waiting" /\ seq[u] = target[t][2]
                 THEN "awake" ELSE pc[v]]
    /\ target' = [target EXCEPT ![t] = NoTarget]
    /\ UNCHANGED <<pool, args, seq, held, calls>>
-----------------------------------------------------------------------------
(* What the code does by itself once called; the time a caller keeps its   *)
(* context, and therefore release, is up to the node it runs.              *)
Progress(t) ==
    \/ CheckCancel(t) \/ FindPool(t) \/ TakeAvailable(t) \/ StartWaiting(t)
    \/ WaitLoop(t) \/ TimeOut(t) \/ Notify(t)

Release(t) == HandOver(t) \/ PutBack(t)

Thread(t) ==
    \/ Acquire(t) \/ Progress(t) \/ Release(t)
    \/ Cancel(t) \/ SpuriousWake(t) \/ DeadlinePasses(t)

(* The bound is reached and nobody is inside the pool.                     *)
Done ==
    /\ registered = Batches
    /\ calls = MaxCalls
    /\ \A t \in Threads : pc[t] = "idle"
    /\ UNCHANGED vars

Next ==
    \/ \E b \in Batches : RegisterResourceType(b)
    \/ \E t \in Threads : Thread(t)
    \/ Done

Spec == Init /\ [][Next]_vars

(* Threads are scheduled, mutexes are granted and deadlines pass: spurious *)
(* wakeups may interrupt the block as often as they like, but once the     *)
(* deadline is over the next block ends at once, hence the strong fairness.*)
FairSpec ==
    Spec /\ \A t \in Threads : WF_vars(Progress(t)) /\ SF_vars(DeadlinePasses(t))
-----------------------------------------------------------------------------
(* Properties.                                                             *)

(* Every variable has its type; a thread that holds a context is the one   *)
(* that acquired it and has not called release.                            *)
TypeOK ==
    /\ registered \in SUBSET Batches
    /\ availableContexts \in SUBSET Contexts
    /\ waiters \in SUBSET Threads
    /\ nextWaiterSeq \in Nat
    /\ assigned \in [Threads -> Contexts \cup {NoContext}]
    /\ priority \in [Threads -> Priorities]
    /\ timed \in [Threads -> BOOLEAN]
    /\ cancelFlag \in [Threads -> BOOLEAN]
    /\ pc \in [Threads -> Labels]
    /\ seq \in [Threads -> Nat]
    /\ held \in [Threads -> Contexts \cup {NoContext}]
    /\ target \in [Threads -> (Threads \X Nat) \cup {NoTarget}]
    /\ calls \in 0 .. MaxCalls
    /\ \A t \in Threads : held[t] # NoContext <=> pc[t] = "holding"

(* No context is lost or given out twice, whatever a timeout or a          *)
(* cancellation races with: a registered context is in the queue, assigned *)
(* to one waiter or held by one thread.                                    *)
Bearers(c) == {t \in Threads : held[t] = c} \cup {t \in Threads : assigned[t] = c}

ContextsConserved ==
    /\ \A c \in UNION registered :
           IF c \in availableContexts THEN Bearers(c) = {}
                                      ELSE \E t \in Threads : Bearers(c) = {t}
    /\ \A t \in Threads : ~ (held[t] # NoContext /\ assigned[t] # NoContext)

(* A context never lies in the queue while somebody waits for one: waiters *)
(* cannot be overtaken by a thread that comes later.                       *)
NobodyWaitsInVain == waiters = {} \/ availableContexts = {}

(* The waiters multimap holds a pointer to exactly the Waiter objects that *)
(* exist and were not served: no dangling pointer after a timeout or a     *)
(* cancellation, and no waiter that a release cannot find.                 *)
WaitersFindable ==
    waiters = {t \in Threads : pc[t] \in InWait /\ ~ Satisfied(t)}

(* Every waiter alive has a key of its own, so that the order is total.    *)
KeysDistinct == \A t, u \in waiters : t # u => seq[t] # seq[u]

(* A thread that acquires with a timeout comes back, also when no context  *)
(* is ever released.                                                       *)
TimedReturns ==
    \A t \in Threads : pc[t] \in InAcquire /\ timed[t] ~> pc[t] \notin InAcquire

(* A waiter that was assigned a context returns it, by the notification,   *)
(* its deadline or a spurious wakeup, and even when it is cancelled; and   *)
(* if every node eventually returns, so that its context is released,      *)
(* every acquire comes back.                                               *)
AcquireReturns ==
    /\ \A t \in Threads : Satisfied(t) ~> pc[t] = "holding"
    /\ (\A t \in Threads : WF_vars(Release(t))) =>
           \A t \in Threads : pc[t] \in InAcquire ~> pc[t] \notin InAcquire

(* resource_pool.h:88-91: a waiter whose packet fails leaves acquire, also *)
(* when it waits without a timeout, without waiting for a release.         *)
CancelReturns ==
    \A t \in Threads :
        pc[t] \in InAcquire /\ cancelFlag[t] ~> pc[t] \notin InAcquire

-----------------------------------------------------------------------------
(* A context belongs to the thread that holds it or was assigned it.       *)
Holder(c) ==
    IF Bearers(c) = {} THEN NoContext ELSE CHOOSE t \in Threads : t \in Bearers(c)

Allocator == INSTANCE ResourceAllocator WITH
    Nobody  <- NoContext,
    known   <- UNION registered,
    holder  <- [c \in Contexts |-> Holder(c)],
    waiting <- waiters,
    wish    <- priority,
    ahead   <- {e \in waiters \X waiters : seq[e[1]] < seq[e[2]]}

(* The pool is an allocator: what acquire and release do on the queue of   *)
(* contexts, the multimap of waiters and the waiters' fields, with         *)
(* timeouts, cancellations and late notifications, is what the abstract    *)
(* allocator does in one step; in particular a released context goes to    *)
(* the waiter of best priority, first come first served among equals.      *)
ImplementsAllocator == Allocator!Spec
=============================================================================
