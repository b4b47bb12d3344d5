----------------------------- MODULE Profiling -----------------------------
(***************************************************************************)
(* The call tree of kernels built with profiling.  enter, suspend_recording*)
(* and the drop of a guard change the tree with interrupts disabled, so    *)
(* each is one step; between two steps an interrupt handler may push its   *)
(* own guards on top of the interrupted ones and drops them before it      *)
(* returns.  Calls and interrupts thus share one stack of guards.          *)
(* ProfiledKernel says which functions call enter, and composes the steps. *)
(*                                                                         *)
(* A handler that runs between enter's first look at RECORDING and cli has *)
(* dropped its guards by then: it is a handler that ran before enter.      *)
(***************************************************************************)
EXTENDS Integers, Sequences, FiniteSets
LOCAL INSTANCE FiniteSetsExt

CONSTANTS
    NODE_CAPACITY,  \* nodes of the tree, the root included
    NoName,         \* the name of the root and of a suspension
    MaxDepth,       \* bound: guards alive at a time
    MaxCalls        \* bound: calls made

ASSUME ProfilingAssumption ==
    /\ NODE_CAPACITY \in Nat \ {0}
    /\ MaxDepth \in Nat /\ MaxCalls \in Nat

VARIABLES
    nodes,      \* NODES[0 .. NODE_COUNT - 1]
    current,    \* CURRENT_NODE
    dropped,    \* DROPPED_PATHS
    recording,  \* RECORDING
    guards,     \* the ProfileGuards alive, innermost last
    calls,      \* history: calls of enter so far
    counted     \* history: those made from a recorded caller

vars == <<nodes, current, dropped, recording, guards, calls, counted>>

ROOT == 0
NO_NODE == -1
NODE_COUNT == Cardinality(DOMAIN nodes)

\* the chain of children: first_child, then next_sibling of each
Children(parent) ==
    LET From[n \in DOMAIN nodes \cup {NO_NODE}] ==
            IF n = NO_NODE THEN {} ELSE {n} \cup From[nodes[n].next_sibling]
    IN  From[nodes[parent].first_child]

------------------------------------------------------------------------------

Init ==
    /\ nodes = [n \in {ROOT} |-> [name |-> NoName, parent |-> NO_NODE,
                                  first_child |-> NO_NODE,
                                  next_sibling |-> NO_NODE, calls |-> 0]]
    /\ current = ROOT
    /\ dropped = 0
    /\ recording = TRUE
    /\ guards = <<>>
    /\ calls = 0 /\ counted = 0

Guard(name, previous, active) ==
    guards' = Append(guards, [name |-> name, previous |-> previous, active |-> active])

\* mutant: the new node takes over its parent's children
AddedHidesSiblings(name, parent) ==
    [n \in DOMAIN nodes \cup {NODE_COUNT} |->
        IF n = NODE_COUNT
        THEN [name |-> name, parent |-> parent, first_child |-> NO_NODE,
              next_sibling |-> NO_NODE, calls |-> 1]
        ELSE IF n = parent THEN [nodes[n] EXCEPT !.first_child = NODE_COUNT]
        ELSE nodes[n]]

\* a new node becomes the first child of its parent
Added(name, parent) ==
    [n \in DOMAIN nodes \cup {NODE_COUNT} |->
        IF n = NODE_COUNT
        THEN [name |-> name, parent |-> parent, first_child |-> NO_NODE,
              next_sibling |-> nodes[parent].first_child, calls |-> 1]
        ELSE IF n = parent THEN [nodes[n] EXCEPT !.first_child = NODE_COUNT]
        ELSE nodes[n]]

HasRoom == NODE_COUNT < NODE_CAPACITY

Missed == dropped + 1

\* the three outcomes of a call from a recorded caller: a known path, a new
\* one, and one for which the tree has no room
Descend(name) ==
    LET known == {c \in Children(current) : nodes[c].name = name}
    IN  \/ \E child \in known :
              /\ nodes' = [nodes EXCEPT ![child].calls = @ + 1]
              /\ current' = child
              /\ UNCHANGED dropped
        \/ /\ known = {} /\ HasRoom
           /\ nodes' = Added(name, current)
           /\ current' = NODE_COUNT
           /\ UNCHANGED dropped
        \/ /\ known = {} /\ ~ HasRoom
           /\ dropped' = Missed
           /\ current' = NO_NODE
           /\ UNCHANGED nodes

Enter(name) ==
    /\ recording
    /\ Len(guards) < MaxDepth /\ calls < MaxCalls
    /\ IF current = NO_NODE THEN UNCHANGED <<nodes, current, dropped>> ELSE Descend(name)
    /\ Guard(name, current, TRUE)
    /\ calls' = calls + 1
    /\ counted' = IF current = NO_NODE THEN counted ELSE counted + 1
    /\ UNCHANGED recording

\* suspend_recording, in the timer handler
Suspend ==
    /\ recording
    /\ Len(guards) < MaxDepth
    /\ current' = NO_NODE
    /\ Guard(NoName, current, TRUE)
    /\ UNCHANGED <<nodes, dropped, recording, calls, counted>>

\* enter and suspend_recording after the dump
EnterUnrecorded ==
    /\ ~ recording
    /\ Len(guards) <= MaxDepth
    /\ Guard(NoName, ROOT, FALSE)
    /\ UNCHANGED <<nodes, current, dropped, recording, calls, counted>>

\* mutant: a guard leads back to the parent of the current node
RestoredParent(g) == IF current \in {ROOT, NO_NODE} THEN current ELSE nodes[current].parent

\* what the drop of a guard stores
Restored(g) == IF g.active THEN g.previous ELSE current

\* exit_qemu does not return: guards older than the dump stay
Drop ==
    /\ guards # <<>>
    /\ recording \/ ~ guards[Len(guards)].active
    /\ current' = Restored(guards[Len(guards)])
    /\ guards' = SubSeq(guards, 1, Len(guards) - 1)
    /\ UNCHANGED <<nodes, dropped, recording, calls, counted>>

\* dump, from the shutdown command: the tree is written out
Dump ==
    /\ recording
    /\ recording' = FALSE
    /\ UNCHANGED <<nodes, current, dropped, guards, calls, counted>>

------------------------------------------------------------------------------
(* Properties.                                                             *)

Path ==
    LET Up[n \in DOMAIN nodes] ==
            IF n = ROOT THEN <<>> ELSE Append(Up[nodes[n].parent], nodes[n].name)
    IN  Up[current]

\* The current node is the call path: as long as something is recorded, the
\* names from the root to CURRENT_NODE are those of the guards alive, also
\* after interrupts, suspensions and dropped paths have come and gone.
PathIsTheStack ==
    current # NO_NODE /\ (\A k \in DOMAIN guards : guards[k].active)
        => Path = [k \in DOMAIN guards |-> guards[k].name]

\* The tree is the aggregate the module comment promises: no node has two
\* children of one name, every node is on its parent's chain and comes after
\* it in the buffer, and each call made from a recorded caller is in a node's
\* count or in DROPPED_PATHS.
TreeIsComplete ==
    /\ NODE_COUNT <= NODE_CAPACITY
    /\ \A n \in DOMAIN nodes \ {ROOT} : nodes[n].parent \in 0 .. n - 1
    /\ \A n \in DOMAIN nodes \ {ROOT} : n \in Children(nodes[n].parent)
    /\ \A m, n \in DOMAIN nodes \ {ROOT} :
           m # n => <<nodes[m].parent, nodes[m].name>> # <<nodes[n].parent, nodes[n].name>>
    /\ counted = dropped + FoldSet(LAMBDA n, sum : sum + nodes[n].calls, 0, DOMAIN nodes)

==============================================================================
