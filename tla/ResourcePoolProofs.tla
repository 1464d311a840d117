------------------------- MODULE ResourcePoolProofs -------------------------
(***************************************************************************)
(* Proofs about ResourcePool, for any threads, priorities and contexts.    *)
(*                                                                         *)
(* What a registration may not do while threads wait is assumed away by    *)
(* OneBatch where it matters, and only there: no context is lost even if   *)
(* the type is registered again and again.                                 *)
(***************************************************************************)
EXTENDS ResourcePool, TLAPS

(* The type is registered once, or never.                                  *)
OneBatch == \A a, b \in Batches : a = b

(* A thread that a multimap entry points to has a Waiter object and no     *)
(* context yet; a context is only assigned to a Waiter that exists.        *)
WaitersSound ==
    /\ \A t \in waiters : pc[t] \in InWait /\ assigned[t] = NoContext
    /\ \A t \in Threads : assigned[t] # NoContext => pc[t] \in InWait

Bears(t, c) == held[t] = c \/ assigned[t] = c

(* A context is in one place, and in none before it is registered.         *)
OnePlace(c) ==
    /\ c \in availableContexts => c \in UNION registered
    /\ \A t \in Threads :
           Bears(t, c) => c \in UNION registered /\ c \notin availableContexts
    /\ \A t, u \in Threads : Bears(t, c) /\ Bears(u, c) => t = u
    /\ c \in UNION registered =>
           c \in availableContexts \/ \E t \in Threads : Bears(t, c)

IInv ==
    /\ TypeOK
    /\ WaitersSound
    /\ \A c \in Contexts : OnePlace(c)

(* The initial state satisfies the invariant.                              *)
LEMMA InitIInv == Init => IInv
<1>. USE DEF Contexts
<1>1. Init => TypeOK
  BY PoolAssumption DEF Init, TypeOK, Labels, NoTarget
<1>2. Init => WaitersSound
  BY PoolAssumption DEF Init, WaitersSound
<1>3. ASSUME Init, NEW c \in Contexts PROVE OnePlace(c)
  BY <1>3, PoolAssumption DEF Init, OnePlace, Bears
<1>. QED  BY <1>1, <1>2, <1>3 DEF IInv

(* Every action keeps the types.                                           *)
LEMMA TypeStep == ASSUME IInv, [Next]_vars PROVE TypeOK'
<1>. USE PoolAssumption DEF TypeOK, Labels, NoTarget, Goto, InWait
<1>. TypeOK /\ WaitersSound  BY DEF IInv
<1>1. ASSUME NEW b \in Batches, RegisterResourceType(b) PROVE TypeOK'
  BY <1>1 DEF RegisterResourceType, Contexts, args
<1>2. ASSUME NEW t \in Threads, Thread(t) PROVE TypeOK'
  <2>1. CASE Acquire(t)
    BY <2>1 DEF Acquire, pool
  <2>2. CASE CheckCancel(t)
    BY <2>2 DEF CheckCancel, pool, args
  <2>3. CASE FindPool(t)
    BY <2>3 DEF FindPool, pool, args
  <2>4. CASE TakeAvailable(t)
    BY <2>4 DEF TakeAvailable, args, Contexts
  <2>5. CASE StartWaiting(t)
    BY <2>5 DEF StartWaiting, args
  <2>6. CASE WaitLoop(t)
    BY <2>6 DEF WaitLoop, ReturnAssigned, EraseAndReturnNull, KeepWaiting,
                Satisfied, args
  <2>7. CASE TimeOut(t)
    BY <2>7 DEF TimeOut, ReturnAssigned, EraseAndReturnNull, Satisfied, args
  <2>8. CASE Notify(t)
    BY <2>8 DEF Notify, pool, args
  <2>9. CASE HandOver(t)
    BY <2>9 DEF HandOver, IsFirst, args
  <2>10. CASE PutBack(t)
    BY <2>10 DEF PutBack, args
  <2>11. CASE Cancel(t)
    BY <2>11 DEF Cancel, pool, InAcquire
  <2>12. CASE SpuriousWake(t)
    BY <2>12 DEF SpuriousWake, pool, args
  <2>13. CASE DeadlinePasses(t)
    BY <2>13 DEF DeadlinePasses, pool, args
  <2>. QED
    BY <1>2, <2>1, <2>2, <2>3, <2>4, <2>5, <2>6, <2>7, <2>8, <2>9, <2>10,
       <2>11, <2>12, <2>13 DEF Thread, Progress, Release
<1>3. CASE Done \/ UNCHANGED vars
  BY <1>3 DEF Done, vars, pool, args
<1>. QED  BY <1>1, <1>2, <1>3 DEF Next

(* Every action keeps the waiters sound: a Waiter is assigned its context  *)
(* in the step that takes it off the list, and taken off the list in the   *)
(* step in which its thread gives up.                                      *)
LEMMA WaitersStep == ASSUME IInv, [Next]_vars PROVE WaitersSound'
<1>. USE DEF TypeOK, WaitersSound, Labels, Goto, InWait
<1>. TypeOK /\ WaitersSound  BY DEF IInv
<1>1. ASSUME NEW b \in Batches, RegisterResourceType(b) PROVE WaitersSound'
  BY <1>1 DEF RegisterResourceType
<1>2. ASSUME NEW t \in Threads, Thread(t) PROVE WaitersSound'
  <2>1. CASE Acquire(t)
    BY <2>1 DEF Acquire, pool
  <2>2. CASE CheckCancel(t)
    BY <2>2 DEF CheckCancel, pool
  <2>3. CASE FindPool(t)
    BY <2>3 DEF FindPool, pool
  <2>4. CASE TakeAvailable(t)
    BY <2>4 DEF TakeAvailable
  <2>5. CASE StartWaiting(t)
    BY <2>5 DEF StartWaiting
  <2>6. CASE WaitLoop(t)
    BY <2>6 DEF WaitLoop, ReturnAssigned, EraseAndReturnNull, KeepWaiting,
                Satisfied
  <2>7. CASE TimeOut(t)
    BY <2>7 DEF TimeOut, ReturnAssigned, EraseAndReturnNull, Satisfied
  <2>8. CASE Notify(t)
    BY <2>8 DEF Notify, pool
  <2>9. CASE HandOver(t)
    BY <2>9 DEF HandOver, IsFirst
  <2>10. CASE PutBack(t)
    BY <2>10 DEF PutBack
  <2>11. CASE Cancel(t)
    BY <2>11 DEF Cancel, pool, InAcquire
  <2>12. CASE SpuriousWake(t)
    BY <2>12 DEF SpuriousWake, pool
  <2>13. CASE DeadlinePasses(t)
    BY <2>13 DEF DeadlinePasses, pool
  <2>. QED
    BY <1>2, <2>1, <2>2, <2>3, <2>4, <2>5, <2>6, <2>7, <2>8, <2>9, <2>10,
       <2>11, <2>12, <2>13 DEF Thread, Progress, Release
<1>3. CASE Done \/ UNCHANGED vars
  BY <1>3 DEF Done, vars, pool
<1>. QED  BY <1>1, <1>2, <1>3 DEF Next

(* Every action moves a context from one place to another.                 *)
LEMMA PlaceStep ==
    ASSUME IInv, [Next]_vars, NEW c \in Contexts PROVE OnePlace(c)'
<1>. USE PoolAssumption DEF TypeOK, WaitersSound, OnePlace, Bears, Goto
<1>. TypeOK /\ WaitersSound /\ OnePlace(c)  BY DEF IInv
<1>. c # NoContext  OBVIOUS
<1>1. ASSUME NEW b \in Batches, RegisterResourceType(b) PROVE OnePlace(c)'
  BY <1>1 DEF RegisterResourceType, Contexts
<1>2. ASSUME NEW t \in Threads, Thread(t) PROVE OnePlace(c)'
  <2>1. CASE Acquire(t)
    BY <2>1 DEF Acquire, pool
  <2>2. CASE CheckCancel(t)
    BY <2>2 DEF CheckCancel, pool
  <2>3. CASE FindPool(t)
    BY <2>3 DEF FindPool, pool
  <2>4. CASE TakeAvailable(t)
    BY <2>4 DEF TakeAvailable
  <2>5. CASE StartWaiting(t)
    BY <2>5 DEF StartWaiting
  <2>6. CASE WaitLoop(t)
    BY <2>6 DEF WaitLoop, ReturnAssigned, EraseAndReturnNull, KeepWaiting,
                Satisfied
  <2>7. CASE TimeOut(t)
    BY <2>7 DEF TimeOut, ReturnAssigned, EraseAndReturnNull, Satisfied
  <2>8. CASE Notify(t)
    BY <2>8 DEF Notify, pool
  <2>9. CASE HandOver(t)
    <3>1. held[t] # NoContext /\ assigned[t] = NoContext
      BY <2>9 DEF HandOver, InWait
    <3>2. PICK u \in waiters : assigned' = [assigned EXCEPT ![u] = held[t]]
      BY <2>9 DEF HandOver
    <3>3. u # t /\ held[u] = NoContext /\ assigned[u] = NoContext
      BY <2>9 DEF HandOver, InWait
    <3>4. /\ held' = [held EXCEPT ![t] = NoContext]
          /\ UNCHANGED <<registered, availableContexts>>
      BY <2>9 DEF HandOver
    <3>5. CASE held[t] = c
      BY <3>1, <3>2, <3>3, <3>4, <3>5
    <3>6. CASE held[t] # c
      BY <3>1, <3>2, <3>3, <3>4, <3>6
    <3>. QED  BY <3>5, <3>6
  <2>10. CASE PutBack(t)
    <3>1. held[t] # NoContext /\ assigned[t] = NoContext
      BY <2>10 DEF PutBack, InWait
    <3>2. /\ held' = [held EXCEPT ![t] = NoContext]
          /\ availableContexts' = availableContexts \cup {held[t]}
          /\ UNCHANGED <<registered, assigned>>
      BY <2>10 DEF PutBack
    <3>3. CASE held[t] = c
      BY <3>1, <3>2, <3>3
    <3>4. CASE held[t] # c
      BY <3>1, <3>2, <3>4
    <3>. QED  BY <3>3, <3>4
  <2>11. CASE Cancel(t)
    BY <2>11 DEF Cancel, pool, InAcquire
  <2>12. CASE SpuriousWake(t)
    BY <2>12 DEF SpuriousWake, pool
  <2>13. CASE DeadlinePasses(t)
    BY <2>13 DEF DeadlinePasses, pool
  <2>. QED
    BY <1>2, <2>1, <2>2, <2>3, <2>4, <2>5, <2>6, <2>7, <2>8, <2>9, <2>10,
       <2>11, <2>12, <2>13 DEF Thread, Progress, Release
<1>3. CASE Done \/ UNCHANGED vars
  BY <1>3 DEF Done, vars, pool
<1>. QED  BY <1>1, <1>2, <1>3 DEF Next

(* IInv is an invariant of every pool, however often it is registered.     *)
THEOREM Invariance == Spec => []IInv
<1>1. IInv /\ [Next]_vars => IInv'
  BY TypeStep, WaitersStep, PlaceStep DEF IInv, Contexts
<1>. QED  BY InitIInv, <1>1, PTL DEF Spec

(* Every variable of the pool keeps its type.                              *)
THEOREM TypeCorrect == Spec => []TypeOK
<1>1. IInv => TypeOK  BY DEF IInv
<1>. QED  BY Invariance, <1>1, PTL

(* No context is lost or given to two threads, whatever deadline,          *)
(* cancellation, spurious wakeup or registration a release meets.          *)
THEOREM ConservationCorrect == Spec => []ContextsConserved
<1>1. ASSUME IInv PROVE ContextsConserved
  <2>. TypeOK /\ WaitersSound  BY <1>1 DEF IInv
  <2>1. ASSUME NEW c \in UNION registered
        PROVE  IF c \in availableContexts THEN Bearers(c) = {}
               ELSE \E t \in Threads : Bearers(c) = {t}
    <3>1. c \in Contexts  BY DEF TypeOK, Contexts
    <3>2. OnePlace(c)  BY <1>1, <3>1 DEF IInv
    <3>3. CASE c \in availableContexts
      BY <3>2, <3>3 DEF OnePlace, Bears, Bearers
    <3>4. CASE c \notin availableContexts
      <4>1. PICK t \in Threads : Bears(t, c)  BY <3>2, <3>4 DEF OnePlace
      <4>2. Bearers(c) = {t}
        BY <3>2, <4>1 DEF OnePlace, Bears, Bearers
      <4>. QED  BY <3>4, <4>2
    <3>. QED  BY <3>3, <3>4
  <2>2. \A t \in Threads : ~ (held[t] # NoContext /\ assigned[t] # NoContext)
    BY DEF TypeOK, WaitersSound, InWait
  <2>. QED  BY <2>1, <2>2 DEF ContextsConserved
<1>. QED  BY Invariance, <1>1, PTL
-----------------------------------------------------------------------------
(* The line of waiters, in a pool that is registered once: nobody waits    *)
(* before, so that the registration finds the list empty.                  *)
Line ==
    /\ WaitersFindable
    /\ NobodyWaitsInVain
    /\ \A t \in waiters : seq[t] < nextWaiterSeq
    /\ KeysDistinct
    /\ registered = {} => \A t \in Threads : pc[t] \in {"idle", "check", "find"}

(* Every action keeps the line: only a thread that found no context joins  *)
(* it, with the highest number so far, and a context is put in the queue   *)
(* only when the line is empty.                                            *)
LEMMA LineStep == ASSUME OneBatch, IInv, Line, [Next]_vars PROVE Line'
<1>. USE DEF TypeOK, Labels, Goto, InWait, Line, WaitersFindable,
             NobodyWaitsInVain, KeysDistinct, Satisfied
<1>. TypeOK  BY DEF IInv
<1>1. ASSUME NEW b \in Batches, RegisterResourceType(b) PROVE Line'
  <2>1. registered = {}  BY <1>1 DEF OneBatch, RegisterResourceType
  <2>. QED  BY <1>1, <2>1 DEF RegisterResourceType
<1>2. ASSUME NEW t \in Threads, Thread(t) PROVE Line'
  <2>1. CASE Acquire(t)
    BY <2>1 DEF Acquire, pool
  <2>2. CASE CheckCancel(t)
    BY <2>2 DEF CheckCancel, pool
  <2>3. CASE FindPool(t)
    BY <2>3 DEF FindPool, pool
  <2>4. CASE TakeAvailable(t)
    BY <2>4 DEF TakeAvailable
  <2>5. CASE StartWaiting(t)
    <3>1. assigned[t] = NoContext  BY <2>5 DEF StartWaiting, IInv, WaitersSound
    <3>2. t \notin waiters  BY <2>5 DEF StartWaiting
    <3>. QED  BY <2>5, <3>1, <3>2 DEF StartWaiting
  <2>6. CASE WaitLoop(t)
    BY <2>6 DEF WaitLoop, ReturnAssigned, EraseAndReturnNull, KeepWaiting
  <2>7. CASE TimeOut(t)
    BY <2>7 DEF TimeOut, ReturnAssigned, EraseAndReturnNull
  <2>8. CASE Notify(t)
    BY <2>8 DEF Notify, pool
  <2>9. CASE HandOver(t)
    BY <2>9 DEF HandOver, IsFirst
  <2>10. CASE PutBack(t)
    BY <2>10 DEF PutBack
  <2>11. CASE Cancel(t)
    BY <2>11 DEF Cancel, pool, InAcquire
  <2>12. CASE SpuriousWake(t)
    BY <2>12 DEF SpuriousWake, pool
  <2>13. CASE DeadlinePasses(t)
    BY <2>13 DEF DeadlinePasses, pool
  <2>. QED
    BY <1>2, <2>1, <2>2, <2>3, <2>4, <2>5, <2>6, <2>7, <2>8, <2>9, <2>10,
       <2>11, <2>12, <2>13 DEF Thread, Progress, Release
<1>3. CASE Done \/ UNCHANGED vars
  BY <1>3 DEF Done, vars, pool
<1>. QED  BY <1>1, <1>2, <1>3 DEF Next

(* With one batch, the line is as described in every reachable state.      *)
THEOREM LineInvariance == ASSUME OneBatch PROVE Spec => [](IInv /\ Line)
<1>1. Init => Line
  BY PoolAssumption DEF Init, Line, WaitersFindable, NobodyWaitsInVain,
     KeysDistinct, InWait
<1>2. IInv /\ Line /\ [Next]_vars => (IInv /\ Line)'
  BY OneBatch, LineStep, TypeStep, WaitersStep, PlaceStep DEF IInv, Contexts
<1>. QED  BY InitIInv, <1>1, <1>2, PTL DEF Spec

(* The waiter list holds exactly the waiters that exist and were not       *)
(* served: release finds everybody, and never somebody who has left.       *)
THEOREM WaitersCorrect == ASSUME OneBatch PROVE Spec => []WaitersFindable
<1>1. Line => WaitersFindable  BY DEF Line
<1>. QED  BY OneBatch, LineInvariance, <1>1, PTL

(* Nobody waits while a context lies in the queue.                         *)
THEOREM QueueCorrect == ASSUME OneBatch PROVE Spec => []NobodyWaitsInVain
<1>1. Line => NobodyWaitsInVain  BY DEF Line
<1>. QED  BY OneBatch, LineInvariance, <1>1, PTL
-----------------------------------------------------------------------------
(* The pool implements the abstract allocator.  Holder picks the one       *)
(* thread that bears a context, and the null context if there is none.     *)
LEMMA HolderFacts ==
    ASSUME NEW c \in Contexts, OnePlace(c)
    PROVE  /\ \A t \in Threads : Bears(t, c) => Holder(c) = t
           /\ (\A t \in Threads : ~ Bears(t, c)) => Holder(c) = NoContext
           /\ Holder(c) # NoContext =>
                  Holder(c) \in Threads /\ Bears(Holder(c), c)
<1>1. Bearers(c) = {t \in Threads : Bears(t, c)}  BY DEF Bearers, Bears
<1>2. ASSUME NEW t \in Threads, Bears(t, c) PROVE Holder(c) = t
  <2>1. Bearers(c) = {t}  BY <1>1, <1>2 DEF OnePlace
  <2>. QED  BY <2>1 DEF Holder
<1>3. ASSUME \A t \in Threads : ~ Bears(t, c) PROVE Holder(c) = NoContext
  BY <1>1, <1>3 DEF Holder
<1>. QED  BY <1>2, <1>3

(* The same after a step, for the context that moves and for the others.   *)
LEMMA HolderMoves ==
    ASSUME NEW c \in Contexts
    PROVE  /\ (\A t \in Threads : Bears(t, c)' <=> Bears(t, c)) =>
                  Holder(c)' = Holder(c)
           /\ \A t \in Threads :
                  Bears(t, c)' /\ (\A u \in Threads : Bears(u, c)' => u = t) =>
                      Holder(c)' = t
           /\ (\A t \in Threads : ~ Bears(t, c)') => Holder(c)' = NoContext
<1>1. Bearers(c) = {t \in Threads : Bears(t, c)}  BY DEF Bearers, Bears
<1>2. Bearers(c)' = {t \in Threads : Bears(t, c)'}  BY DEF Bearers, Bears
<1>3. ASSUME \A t \in Threads : Bears(t, c)' <=> Bears(t, c)
      PROVE  Holder(c)' = Holder(c)
  <2>1. Bearers(c)' = Bearers(c)  BY <1>1, <1>2, <1>3
  <2>. QED  BY <2>1 DEF Holder
<1>4. ASSUME NEW t \in Threads, Bears(t, c)',
             \A u \in Threads : Bears(u, c)' => u = t
      PROVE  Holder(c)' = t
  <2>1. Bearers(c)' = {t}  BY <1>2, <1>4
  <2>. QED  BY <2>1 DEF Holder
<1>5. ASSUME \A t \in Threads : ~ Bears(t, c)' PROVE Holder(c)' = NoContext
  BY <1>2, <1>5 DEF Holder
<1>. QED  BY <1>3, <1>4, <1>5

MappedHolder == [c \in Contexts |-> Holder(c)]
MappedAhead  == {e \in waiters \X waiters : seq[e[1]] < seq[e[2]]}

(* The mapped holders after a step in which one context changes hands.     *)
LEMMA HolderUpdate ==
    ASSUME NEW c \in Contexts, NEW h, Holder(c)' = h,
           \A d \in Contexts \ {c} : \A t \in Threads : Bears(t, d)' <=> Bears(t, d)
    PROVE  MappedHolder' = [MappedHolder EXCEPT ![c] = h]
<1>1. \A d \in Contexts \ {c} : Holder(d)' = Holder(d)  BY HolderMoves
<1>. QED  BY <1>1 DEF MappedHolder

(* And after one in which none does.                                       *)
LEMMA HolderKept ==
    ASSUME \A d \in Contexts : \A t \in Threads : Bears(t, d)' <=> Bears(t, d)
    PROVE  MappedHolder' = MappedHolder
<1>1. \A d \in Contexts : Holder(d)' = Holder(d)  BY HolderMoves
<1>. QED  BY <1>1, Zenon DEF MappedHolder

(* Initially nobody has anything and nobody waits.                         *)
LEMMA AllocatorInit == Init => Allocator!Init
<1>1. ASSUME Init, NEW c \in Contexts PROVE Holder(c) = NoContext
  BY <1>1, PoolAssumption DEF Init, Holder, Bearers
<1>. QED  BY <1>1, PoolAssumption DEF Init, Allocator!Init

(* A step that gives nobody a context, and changes neither the line nor    *)
(* the wishes, is none of the allocator's.                                 *)
Unseen ==
    /\ UNCHANGED <<registered, waiters, priority>>
    /\ \A t \in waiters : seq'[t] = seq[t]
    /\ \A t \in Threads : \A c \in Contexts : Bears(t, c)' <=> Bears(t, c)

LEMMA UnseenStutters ==
    ASSUME TypeOK, Unseen PROVE UNCHANGED Allocator!vars
<1>1. MappedHolder' = MappedHolder  BY HolderKept DEF Unseen
<1>2. MappedAhead' = MappedAhead  BY DEF Unseen, MappedAhead
<1>. QED
  BY <1>1, <1>2 DEF Unseen, Allocator!vars, MappedHolder, MappedAhead

(* A waiter that gives up withdraws; its thread bears nothing.             *)
LEMMA WithdrawStep ==
    ASSUME TypeOK, NEW t \in waiters, waiters' = waiters \ {t},
           UNCHANGED <<registered, priority, seq, held, assigned>>
    PROVE  Allocator!Withdraw(t)
<1>1. MappedHolder' = MappedHolder  BY HolderKept DEF Bears
<1>2. MappedAhead' = {e \in MappedAhead : t \notin {e[1], e[2]}}
  BY DEF MappedAhead
<1>. QED
  BY <1>1, <1>2 DEF Allocator!Withdraw, Allocator!OutOfLine, MappedHolder,
                    MappedAhead

(* The contexts the allocator calls free are those in the queue.           *)
LEMMA FreeIsAvailable ==
    ASSUME IInv PROVE Allocator!Free = availableContexts
<1>1. ASSUME NEW c \in UNION registered
      PROVE  MappedHolder[c] = NoContext <=> c \in availableContexts
  <2>1. c \in Contexts  BY <1>1 DEF IInv, TypeOK, Contexts
  <2>2. OnePlace(c)  BY <2>1 DEF IInv
  <2>3. MappedHolder[c] = Holder(c)  BY <2>1 DEF MappedHolder
  <2>4. ASSUME NEW t \in Threads, Bears(t, c) PROVE Holder(c) # NoContext
    BY <2>1, <2>2, <2>4, HolderFacts, PoolAssumption
  <2>. QED  BY <2>1, <2>2, <2>3, <2>4, HolderFacts, <1>1 DEF OnePlace
<1>2. availableContexts \subseteq UNION registered
  BY DEF IInv, TypeOK, OnePlace
<1>. QED  BY <1>1, <1>2 DEF Allocator!Free, MappedHolder

(* A thread that finds a context takes it: nobody is waiting then.         *)
LEMMA TakeStep ==
    ASSUME IInv, Line, NEW t \in Threads, TakeAvailable(t)
    PROVE  \E c \in Contexts : Allocator!Take(t, c)
<1>. TypeOK /\ WaitersSound  BY DEF IInv
<1>1. PICK c \in availableContexts :
          /\ availableContexts' = availableContexts \ {c}
          /\ held' = [held EXCEPT ![t] = c]
  BY DEF TakeAvailable
<1>2. c \in Contexts /\ OnePlace(c)  BY DEF IInv, TypeOK
<1>3. held[t] = NoContext /\ assigned[t] = NoContext
  BY DEF TakeAvailable, TypeOK, WaitersSound, InWait
<1>4. UNCHANGED <<registered, waiters, assigned, priority, seq>>
  BY DEF TakeAvailable, args
<1>5. Bears(t, c)' /\ \A u \in Threads : Bears(u, c)' => u = t
  BY <1>1, <1>2, <1>4 DEF OnePlace, Bears, TypeOK
<1>6. Holder(c)' = t  BY <1>2, <1>5, HolderMoves
<1>7. \A d \in Contexts \ {c} : \A u \in Threads : Bears(u, d)' <=> Bears(u, d)
  BY <1>1, <1>3, <1>4, PoolAssumption DEF Bears, TypeOK
<1>8. MappedHolder' = [MappedHolder EXCEPT ![c] = t]
  BY <1>2, <1>6, <1>7, HolderUpdate
<1>9. c \in Allocator!Free  BY FreeIsAvailable
<1>10. waiters = {}  BY <1>1 DEF Line, NobodyWaitsInVain
<1>11. MappedAhead' = MappedAhead  BY <1>4 DEF MappedAhead
<1>12. Allocator!Take(t, c)
  BY <1>4, <1>8, <1>9, <1>10, <1>11 DEF Allocator!Take, MappedHolder, MappedAhead
<1>. QED  BY <1>2, <1>12

(* A thread that finds nothing gets in line, behind everybody: it has the  *)
(* highest number; if it was cancelled meanwhile, nothing happened.        *)
LEMMA StartWaitingStep ==
    ASSUME IInv, Line, NEW t \in Threads, StartWaiting(t)
    PROVE  Allocator!GetInLine(t) \/ UNCHANGED Allocator!vars
<1>. TypeOK  BY DEF IInv
<1>1. t \notin waiters
  BY DEF StartWaiting, Line, WaitersFindable, InWait
<1>2. /\ seq' = [seq EXCEPT ![t] = nextWaiterSeq]
      /\ UNCHANGED <<registered, availableContexts, assigned, priority, held>>
  BY DEF StartWaiting, args
<1>3. MappedHolder' = MappedHolder  BY <1>2, HolderKept DEF Bears
<1>4. CASE cancelFlag[t]
  <2>1. Unseen
    BY <1>1, <1>2, <1>4 DEF StartWaiting, Unseen, Bears, TypeOK
  <2>. QED  BY <2>1, UnseenStutters
<1>5. CASE ~ cancelFlag[t]
  <2>1. waiters' = waiters \cup {t}  BY <1>5 DEF StartWaiting
  <2>2. \A u \in waiters : seq[u] < nextWaiterSeq /\ seq[u] \in Nat
    BY DEF Line, TypeOK
  <2>3. nextWaiterSeq \in Nat /\ seq'[t] = nextWaiterSeq
        /\ \A u \in waiters : seq'[u] = seq[u]
    BY <1>1, <1>2 DEF TypeOK
  <2>4. MappedAhead' = MappedAhead \cup (waiters \X {t})
    <3>1. ASSUME NEW u \in waiters', NEW v \in waiters'
          PROVE  <<u, v>> \in MappedAhead' <=>
                     <<u, v>> \in MappedAhead \cup (waiters \X {t})
      <4>1. CASE v = t
        BY <1>1, <2>1, <2>2, <2>3, <4>1 DEF MappedAhead
      <4>2. CASE v # t /\ u = t
        BY <1>1, <2>1, <2>2, <2>3, <4>2 DEF MappedAhead
      <4>3. CASE v # t /\ u # t
        BY <1>1, <2>1, <2>3, <4>3 DEF MappedAhead
      <4>. QED  BY <4>1, <4>2, <4>3
    <3>2. MappedAhead \cup (waiters \X {t}) \subseteq waiters' \X waiters'
      BY <2>1 DEF MappedAhead
    <3>3. MappedAhead' \subseteq waiters' \X waiters'  BY DEF MappedAhead
    <3>. QED  BY <3>1, <3>2, <3>3
  <2>5. Allocator!Free = {}  BY FreeIsAvailable DEF StartWaiting
  <2>6. Allocator!GetInLine(t)
    BY <1>1, <1>2, <1>3, <2>1, <2>4, <2>5
       DEF Allocator!GetInLine, MappedHolder, MappedAhead
  <2>. QED  BY <2>6
<1>. QED  BY <1>4, <1>5

(* A release with waiters passes the context on to the first of them.      *)
LEMMA HandOverStep ==
    ASSUME IInv, Line, NEW t \in Threads, HandOver(t)
    PROVE  \E c \in Contexts, u \in Threads : Allocator!PassOn(c, u)
<1>. TypeOK /\ WaitersSound  BY DEF IInv
<1>1. PICK u \in waiters :
          /\ IsFirst(u)
          /\ waiters' = waiters \ {u}
          /\ assigned' = [assigned EXCEPT ![u] = held[t]]
  BY DEF HandOver
<1>2. /\ pc[t] = "holding"
      /\ held' = [held EXCEPT ![t] = NoContext]
      /\ UNCHANGED <<registered, availableContexts, priority, seq>>
  BY DEF HandOver, args
<1>3. u \in Threads /\ u # t /\ held[u] = NoContext /\ assigned[u] = NoContext
  BY <1>2 DEF TypeOK, WaitersSound, InWait
<1>4. assigned[t] = NoContext  BY <1>2 DEF WaitersSound, InWait
<1>5. PICK c \in Contexts : c = held[t]  BY <1>2 DEF TypeOK
<1>6. OnePlace(c) /\ c # NoContext  BY PoolAssumption DEF IInv
<1>7. Bears(t, c)  BY <1>5 DEF Bears
<1>8. MappedHolder[c] # NoContext
  BY <1>6, <1>7, HolderFacts, PoolAssumption DEF MappedHolder
<1>9. Bears(u, c)' /\ \A v \in Threads : Bears(v, c)' => v = u
  BY <1>1, <1>2, <1>3, <1>4, <1>5, <1>6, <1>7 DEF OnePlace, Bears, TypeOK
<1>10. \A d \in Contexts \ {c} : \A v \in Threads : Bears(v, d)' <=> Bears(v, d)
  BY <1>1, <1>2, <1>3, <1>4, <1>5, PoolAssumption DEF Bears, TypeOK
<1>11. MappedHolder' = [MappedHolder EXCEPT ![c] = u]
  BY <1>3, <1>9, <1>10, HolderMoves, HolderUpdate
<1>12. MappedAhead' = {e \in MappedAhead : u \notin {e[1], e[2]}}
  BY <1>1, <1>2 DEF MappedAhead
<1>13. Allocator!GoesFirst(u)
  BY <1>1 DEF Allocator!GoesFirst, IsFirst, Before
<1>14. Allocator!PassOn(c, u)
  BY <1>1, <1>2, <1>8, <1>11, <1>12, <1>13
     DEF Allocator!PassOn, Allocator!OutOfLine, MappedHolder, MappedAhead
<1>. QED  BY <1>3, <1>14

(* A release without waiters gives it back.                                *)
LEMMA PutBackStep ==
    ASSUME IInv, NEW t \in Threads, PutBack(t)
    PROVE  \E c \in Contexts : Allocator!GiveBack(c)
<1>. TypeOK /\ WaitersSound  BY DEF IInv
<1>1. /\ pc[t] = "holding" /\ waiters = {}
      /\ held' = [held EXCEPT ![t] = NoContext]
      /\ UNCHANGED <<registered, waiters, assigned, priority, seq>>
  BY DEF PutBack, args
<1>2. assigned[t] = NoContext  BY <1>1 DEF WaitersSound, InWait
<1>3. PICK c \in Contexts : c = held[t]  BY <1>1 DEF TypeOK
<1>4. OnePlace(c) /\ c # NoContext  BY PoolAssumption DEF IInv
<1>5. Bears(t, c)  BY <1>3 DEF Bears
<1>6. MappedHolder[c] # NoContext
  BY <1>4, <1>5, HolderFacts, PoolAssumption DEF MappedHolder
<1>7. \A v \in Threads : ~ Bears(v, c)'
  BY <1>1, <1>2, <1>3, <1>4, <1>5 DEF OnePlace, Bears, TypeOK
<1>8. \A d \in Contexts \ {c} : \A v \in Threads : Bears(v, d)' <=> Bears(v, d)
  BY <1>1, <1>3, PoolAssumption DEF Bears, TypeOK
<1>9. MappedHolder' = [MappedHolder EXCEPT ![c] = NoContext]
  BY <1>7, <1>8, HolderMoves, HolderUpdate
<1>10. MappedAhead' = MappedAhead  BY <1>1 DEF MappedAhead
<1>11. Allocator!GiveBack(c)
  BY <1>1, <1>6, <1>9, <1>10 DEF Allocator!GiveBack, MappedHolder, MappedAhead
<1>. QED  BY <1>11

(* A thread that is awake and has the mutex returns the context that was   *)
(* its already, withdraws, or blocks again.                                *)
LEMMA WakeStep ==
    ASSUME IInv, Line, NEW t \in Threads, WaitLoop(t) \/ TimeOut(t)
    PROVE  Allocator!Withdraw(t) \/ UNCHANGED Allocator!vars
<1>. TypeOK /\ WaitersSound  BY DEF IInv
<1>1. UNCHANGED <<registered, priority, seq>> /\ pc[t] \in {"awake", "timedOut"}
  BY DEF WaitLoop, TimeOut, args
<1>2. CASE Satisfied(t) /\ ReturnAssigned(t)
  <2>1. held[t] = NoContext  BY <1>1 DEF TypeOK
  <2>2. Unseen
    BY <1>1, <1>2, <2>1, PoolAssumption
       DEF Unseen, ReturnAssigned, Bears, TypeOK
  <2>. QED  BY <2>2, UnseenStutters
<1>3. CASE ~ Satisfied(t) /\ EraseAndReturnNull(t)
  <2>1. t \in waiters  BY <1>1, <1>3 DEF Line, WaitersFindable, InWait
  <2>. QED  BY <1>1, <1>3, <2>1, WithdrawStep DEF EraseAndReturnNull
<1>4. CASE KeepWaiting(t)
  <2>1. Unseen  BY <1>1, <1>4 DEF Unseen, KeepWaiting, Bears
  <2>. QED  BY <2>1, UnseenStutters
<1>. QED  BY <1>2, <1>3, <1>4 DEF WaitLoop, TimeOut

(* Every step of the pool is a step of the allocator or a stuttering one.  *)
LEMMA AllocatorStep ==
    ASSUME OneBatch, IInv, Line, [Next]_vars
    PROVE  [Allocator!Next]_(Allocator!vars)
<1>. TypeOK  BY DEF IInv
<1>1. ASSUME NEW b \in Batches, RegisterResourceType(b)
      PROVE  \E s \in SUBSET Contexts : Allocator!Register(s)
  <2>1. registered = {}  BY <1>1 DEF OneBatch, RegisterResourceType, TypeOK
  <2>2. waiters = {}
    BY <2>1 DEF Line, WaitersFindable, InWait
  <2>3. /\ registered' = registered \cup {b} /\ waiters' = {}
        /\ UNCHANGED <<assigned, priority, seq, held>>
    BY <1>1 DEF RegisterResourceType, args
  <2>4. b \in SUBSET Contexts /\ UNION registered' = (UNION registered) \cup b
    BY <2>3 DEF Contexts
  <2>5. MappedHolder' = MappedHolder  BY <2>3, HolderKept DEF Bears
  <2>6. MappedAhead' = MappedAhead  BY <2>2, <2>3 DEF MappedAhead
  <2>7. Allocator!Register(b)
    BY <2>2, <2>3, <2>4, <2>5, <2>6
       DEF Allocator!Register, MappedHolder, MappedAhead
  <2>. QED  BY <2>4, <2>7
<1>2. ASSUME NEW t \in Threads, Acquire(t)
      PROVE  \E p \in Priorities : Allocator!Ask(t, p)
  <2>1. PICK p \in Priorities : priority' = [priority EXCEPT ![t] = p]
    BY <1>2 DEF Acquire
  <2>2. UNCHANGED <<registered, waiters, assigned, seq, held>>
    BY <1>2 DEF Acquire, pool
  <2>3. t \notin waiters
    BY <1>2 DEF Acquire, Line, WaitersFindable, InWait
  <2>4. MappedHolder' = MappedHolder  BY <2>2, HolderKept DEF Bears
  <2>5. MappedAhead' = MappedAhead  BY <2>2 DEF MappedAhead
  <2>6. Allocator!Ask(t, p)
    BY <2>1, <2>2, <2>3, <2>4, <2>5
       DEF Allocator!Ask, MappedHolder, MappedAhead
  <2>. QED  BY <2>6
<1>3. ASSUME NEW t \in Threads,
             CheckCancel(t) \/ FindPool(t) \/ Notify(t) \/ Cancel(t)
             \/ SpuriousWake(t) \/ DeadlinePasses(t)
      PROVE  UNCHANGED Allocator!vars
  <2>1. Unseen
    BY <1>3 DEF CheckCancel, FindPool, Notify, Cancel, SpuriousWake,
                DeadlinePasses, Unseen, Bears, pool, args
  <2>. QED  BY <2>1, UnseenStutters
<1>4. ASSUME NEW t \in Threads, Thread(t)
      PROVE  [Allocator!Next]_(Allocator!vars)
  <2>1. CASE TakeAvailable(t)
    BY <2>1, TakeStep DEF Allocator!Next
  <2>2. CASE StartWaiting(t)
    BY <2>2, StartWaitingStep DEF Allocator!Next
  <2>3. CASE WaitLoop(t) \/ TimeOut(t)
    <3>1. t \in Threads  OBVIOUS
    <3>2. Allocator!Withdraw(t) \/ UNCHANGED Allocator!vars
      BY <2>3, <3>1, WakeStep
    <3>. QED  BY <3>1, <3>2 DEF Allocator!Next
  <2>4. CASE HandOver(t)
    BY <2>4, HandOverStep DEF Allocator!Next
  <2>5. CASE PutBack(t)
    BY <2>5, PutBackStep DEF Allocator!Next
  <2>6. CASE Acquire(t)
    BY <2>6, <1>2 DEF Allocator!Next
  <2>. QED
    BY <1>3, <1>4, <2>1, <2>2, <2>3, <2>4, <2>5, <2>6
       DEF Thread, Progress, Release
<1>5. CASE Done \/ UNCHANGED vars
  <2>1. Unseen  BY <1>5 DEF Done, vars, Unseen, Bears, pool, args
  <2>. QED  BY <2>1, UnseenStutters
<1>. QED  BY <1>1, <1>4, <1>5 DEF Next, Allocator!Next

(* The pool implements ResourceAllocator, whatever the threads, priorities *)
(* and contexts: a context that is released goes at once to the waiter of  *)
(* best priority that has waited longest, and nobody waits for nothing.    *)
THEOREM Implementation == ASSUME OneBatch PROVE Spec => ImplementsAllocator
<1>1. IInv /\ Line /\ [Next]_vars => [Allocator!Next]_(Allocator!vars)
  BY OneBatch, AllocatorStep
<1>. QED
  BY OneBatch, LineInvariance, AllocatorInit, <1>1, PTL
     DEF Spec, ImplementsAllocator, Allocator!Spec
=============================================================================
