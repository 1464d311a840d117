-------------------------- MODULE TemplateBuilder ---------------------------
(***************************************************************************)
(* TemplateBuilder and GraphTemplate::buildOnce: the calls of the user's   *)
(* callback in any order, with any arguments; a call that throws leaves    *)
(* the template as it was.  What TaskScheduler assumes of a template       *)
(* (GraphAssumption there) is what this module has to deliver.             *)
(***************************************************************************)
EXTENDS Integers, SequencesExt

CONSTANTS
    Ids,      \* node names
    MaxPreds, \* bound: predecessors named in one call
    MaxNodes  \* bound: nodes of a template of AnyCall

ASSUME BoundAssumption == {MaxPreds, MaxNodes} \subseteq Nat

VARIABLES
    tasks,         \* tasks_: type, nodeId and parentIndices of each node
    nodeIdToIndex, \* nodeIdToIndex_
    children,      \* childIndices of each node, once finalized
    built          \* whether finalizeBuild ran

vars == <<tasks, nodeIdToIndex, children, built>>

Types == {"Input", "Task", "Output"}
Predecessors == UNION {[1 .. k -> Ids] : k \in 0 .. MaxPreds}

\* Indices are the code's, from 0.
Nodes     == 0 .. Len(tasks) - 1
Parents(n) == tasks[n + 1].parents
NodeType(n) == tasks[n + 1].type

Init ==
    /\ tasks = <<>>
    /\ nodeIdToIndex = [id \in {} |-> 0]
    /\ children = [n \in {} |-> <<>>]
    /\ built = FALSE

Fresh(id) == id \notin DOMAIN nodeIdToIndex

Known(id, p) == p \in DOMAIN nodeIdToIndex

InputAllowed(type, preds) == type = "Input" => tasks = <<>> /\ preds = <<>>

IndexOf(id, p) == IF Fresh(p) THEN Len(tasks) ELSE nodeIdToIndex[p]

AddTaskDef(type, id, preds) ==
    /\ ~ built
    /\ Fresh(id)
    /\ InputAllowed(type, preds)
    /\ \A i \in DOMAIN preds : Known(id, preds[i])
    /\ tasks' = Append(tasks,
           [type |-> type, nodeId |-> id,
            parents |-> [i \in DOMAIN preds |-> IndexOf(id, preds[i])]])
    /\ nodeIdToIndex' = [x \in DOMAIN nodeIdToIndex \cup {id} |->
                            IF x = id THEN Len(tasks) ELSE nodeIdToIndex[x]]
    /\ UNCHANGED <<children, built>>

SetInputNode(id)         == AddTaskDef("Input", id, <<>>)
AddTask(id, preds)       == AddTaskDef("Task", id, preds)
SetOutputNode(id, preds) == AddTaskDef("Output", id, preds)

(* The inner loop of finalizeBuild for node i.                             *)
MutantOneLinkPerNode(links, i) ==
    [m \in Nodes |-> IF m \in ToSet(Parents(i)) THEN Append(links[m], i)
                                                ELSE links[m]]

LinkParents(links, i) ==
    LET upto[k \in 0 .. Len(Parents(i))] ==
            IF k = 0 THEN links
            ELSE [upto[k - 1] EXCEPT ![Parents(i)[k]] = Append(@, i)]
    IN  upto[Len(Parents(i))]

(* The outer loop, over the nodes.                                         *)
Linked ==
    LET upto[n \in 0 .. Len(tasks)] ==
            IF n = 0 THEN [m \in Nodes |-> <<>>]
            ELSE LinkParents(upto[n - 1], n - 1)
    IN  upto[Len(tasks)]

FinalizeBuild ==
    /\ ~ built
    /\ children' = Linked
    /\ built' = TRUE
    /\ UNCHANGED <<tasks, nodeIdToIndex>>

(* A callback may make any of these calls, in any order; Applications runs *)
(* such a callback, and those of the programs in the repository.           *)
AnyCall ==
    /\ Len(tasks) < MaxNodes
    /\ \E id \in Ids :
           \/ SetInputNode(id)
           \/ \E preds \in Predecessors :
                  AddTask(id, preds) \/ SetOutputNode(id, preds)

BuilderSpec == Init /\ [][AnyCall \/ FinalizeBuild]_vars

-----------------------------------------------------------------------------
(* Properties.                                                             *)

(* A node is notified exactly as often as initializeExecution counts       *)
(* predecessors, also when a predecessor is named twice.                   *)
Notifications(n) ==
    UNION {{<<m, i>> : i \in {j \in DOMAIN children[m] : children[m][j] = n}} :
           m \in DOMAIN children}

CountsMatch ==
    built => \A n \in Nodes : Len(Parents(n)) = Cardinality(Notifications(n))
=============================================================================
