------------------------- MODULE ResourceAllocator --------------------------
(***************************************************************************)
(* What ResourcePool promises its callers: a context belongs to nobody or  *)
(* to one thread; a thread waits only when no context is free; a context   *)
(* that is given back goes at once to the waiter with the best priority,   *)
(* and among equals to the one that has waited longest.                    *)
(***************************************************************************)
EXTENDS Integers, FiniteSets

CONSTANTS Threads, Contexts, Priorities, Nobody

VARIABLES
    known,   \* the contexts that were registered
    holder,  \* whom a context belongs to
    waiting, \* the threads in line
    wish,    \* the priority each of them waits with
    ahead    \* <<t, u>>: t was in line before u

vars == <<known, holder, waiting, wish, ahead>>

Free == {c \in known : holder[c] = Nobody}

Init ==
    /\ known = {}
    /\ holder = [c \in Contexts |-> Nobody]
    /\ waiting = {}
    /\ wish \in [Threads -> Priorities]
    /\ ahead = {}

Register(b) ==
    /\ waiting = {}
    /\ known' = known \cup b
    /\ UNCHANGED <<holder, waiting, wish, ahead>>

Ask(t, p) ==
    /\ t \notin waiting
    /\ wish' = [wish EXCEPT ![t] = p]
    /\ UNCHANGED <<known, holder, waiting, ahead>>

Take(t, c) ==
    /\ c \in Free
    /\ waiting = {}
    /\ holder' = [holder EXCEPT ![c] = t]
    /\ UNCHANGED <<known, waiting, wish, ahead>>

GetInLine(t) ==
    /\ t \notin waiting
    /\ Free = {}
    /\ waiting' = waiting \cup {t}
    /\ ahead' = ahead \cup (waiting \X {t})
    /\ UNCHANGED <<known, holder, wish>>

OutOfLine(t) ==
    /\ waiting' = waiting \ {t}
    /\ ahead' = {e \in ahead : t \notin {e[1], e[2]}}

Withdraw(t) ==
    /\ t \in waiting
    /\ OutOfLine(t)
    /\ UNCHANGED <<known, holder, wish>>

GoesFirst(t) ==
    \A u \in waiting \ {t} :
        \/ wish[t] < wish[u]
        \/ wish[t] = wish[u] /\ <<t, u>> \in ahead

PassOn(c, t) ==
    /\ holder[c] # Nobody
    /\ t \in waiting
    /\ GoesFirst(t)
    /\ holder' = [holder EXCEPT ![c] = t]
    /\ OutOfLine(t)
    /\ UNCHANGED <<known, wish>>

GiveBack(c) ==
    /\ holder[c] # Nobody
    /\ waiting = {}
    /\ holder' = [holder EXCEPT ![c] = Nobody]
    /\ UNCHANGED <<known, waiting, wish, ahead>>

Next ==
    \/ \E b \in SUBSET Contexts : Register(b)
    \/ \E c \in Contexts : GiveBack(c)
    \/ \E t \in Threads :
           \/ \E p \in Priorities : Ask(t, p)
           \/ GetInLine(t) \/ Withdraw(t)
           \/ \E c \in Contexts : Take(t, c) \/ PassOn(c, t)

Spec == Init /\ [][Next]_vars
=============================================================================
