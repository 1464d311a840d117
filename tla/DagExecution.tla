---------------------------- MODULE DagExecution ----------------------------
(***************************************************************************)
(* What the executor promises for a packet, without the counts, flags and  *)
(* workers that keep the promise: nodes are started in an order the graph  *)
(* permits, each once; a node's code runs on inputs that were all          *)
(* computed; after a failure nodes are completed without running; and a    *)
(* packet is delivered once, after its output node and when none of its    *)
(* nodes is open, so that nothing happens to it any more.                  *)
(***************************************************************************)
EXTENDS Naturals

CONSTANTS Packets, Nodes, Input, Output,
          Preds   \* the predecessors of each node

VARIABLES
    submitted, delivered,  \* the packets taken over; how often each came out
    started, open,         \* the nodes of packets started; those not ended yet
    executed, completed,   \* those whose code ran to its end; those completed
    failed                 \* the packets marked failed

vars == <<submitted, delivered, started, open, executed, completed, failed>>

Tasks == Packets \X Nodes

Inputs(t) == {<<t[1], m>> : m \in Preds[t[2]]}

Init ==
    /\ submitted = {} /\ delivered = [p \in Packets |-> 0]
    /\ started = {} /\ open = {}
    /\ executed = {} /\ completed = {} /\ failed = {}

Begin(t) == started' = started \cup {t} /\ open' = open \cup {t}

Submit(p) ==
    /\ p \notin submitted
    /\ submitted' = submitted \cup {p}
    /\ Begin(<<p, Input>>)
    /\ UNCHANGED <<delivered, executed, completed, failed>>

Start(t) ==
    /\ t[1] \in submitted /\ t \notin started
    /\ Inputs(t) \subseteq completed
    /\ Begin(t)
    /\ UNCHANGED <<submitted, delivered, executed, completed, failed>>

Execute(t) ==
    /\ t \in open /\ t \notin executed
    /\ Inputs(t) \subseteq executed
    /\ executed' = executed \cup {t}
    /\ UNCHANGED <<submitted, delivered, started, open, completed, failed>>

Fail(t) ==
    /\ t \in open
    /\ failed' = failed \cup {t[1]}
    /\ UNCHANGED <<submitted, delivered, started, open, executed, completed>>

Complete(t) ==
    /\ t \in open
    /\ t \in executed \/ t[1] \in failed
    /\ completed' = completed \cup {t}
    /\ UNCHANGED <<submitted, delivered, started, open, executed, failed>>

(* A node that a completed graph no longer needs ends without completing.  *)
End(t) ==
    /\ t \in open
    /\ open' = open \ {t}
    /\ UNCHANGED <<submitted, delivered, started, executed, completed, failed>>

Deliver(p) ==
    /\ p \in submitted /\ delivered[p] = 0
    /\ <<p, Output>> \in completed
    /\ \A t \in open : t[1] # p
    /\ delivered' = [delivered EXCEPT ![p] = 1]
    /\ UNCHANGED <<submitted, started, open, executed, completed, failed>>

Next ==
    \/ \E p \in Packets : Submit(p) \/ Deliver(p)
    \/ \E t \in Tasks : Start(t) \/ Execute(t) \/ Fail(t) \/ Complete(t) \/ End(t)

Spec == Init /\ [][Next]_vars
=============================================================================
