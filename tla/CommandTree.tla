---------------------------- MODULE CommandTree ----------------------------
(***************************************************************************)
(* declare_commands of client/chat.js.  validateCommandTree takes away the *)
(* nodes that can be built (what they redirect to is gone) and, starting   *)
(* again with all, those that can be resolved (their children are gone),   *)
(* pass by pass, until none is left or a pass took none away.  The visit of*)
(* an accepted tree goes down the children of each command; the recursion  *)
(* is a stack here.  A command is named by its node.                       *)
(***************************************************************************)
EXTENDS Naturals, Sequences

CONSTANTS
    Nodes,   \* nodes.length
    Tree     \* the trees a server may declare

Index == 0..Nodes - 1

(***************************************************************************)
(* Children and redirects are indices the packet gives, in range or not.   *)
(* redirect[n] is empty where redirectNode is undefined.                   *)
(***************************************************************************)
ASSUME CommandTreeAssumption ==
    /\ Nodes \in Nat
    /\ \A t \in Tree :
        /\ t.root \in Nat
        /\ t.children \in [Index -> Seq(Nat)]
        /\ t.redirect \in [Index -> SUBSET Nat]
        /\ {t.arrays, t.named, t.messages} \subseteq SUBSET Index

VARIABLES
    tree,       \* the packet
    validator,  \* canBuild or canResolve
    pending,    \* nodes that were not taken away
    pass,       \* nodes of [...pending] the pass has not come to
    progressed, \* the pass took a node away
    verdict,    \* declared, checking, accepted or refused
    stack,      \* calls of visit under way, the next one first
    slices      \* sliceIndexForMessage: depth of the message of a command

treeVars == <<tree, validator, pending, pass, progressed, verdict, stack, slices>>

NoSlice == Nodes

TreeInit ==
    /\ tree \in Tree
    /\ validator = "canBuild"
    /\ pending = Index
    /\ pass = Index
    /\ progressed = FALSE
    /\ verdict = "declared"
    /\ stack = <<>>
    /\ slices = [n \in Index |-> NoSlice]

Children(n) == {tree.children[n][i] : i \in DOMAIN tree.children[n]}

(***************************************************************************)
(* What has to be gone before a node is taken away.                        *)
(***************************************************************************)
Needs(v, n) == IF v = "canBuild" THEN tree.redirect[n] ELSE Children(n)

Ready(n) == Needs(validator, n) \cap pending = {}

WellFormed == tree.root \in tree.arrays /\ Index \subseteq tree.arrays

(***************************************************************************)
(* The checks before the loops.  A refused tree is an error and the end of *)
(* the connection.                                                         *)
(***************************************************************************)
Declare ==
    /\ verdict = "declared"
    /\ verdict' = IF WellFormed THEN "checking" ELSE "refused"
    /\ UNCHANGED <<tree, validator, pending, pass, progressed, stack, slices>>

(* Fault: a node is only looked at against the nodes before the pass. *)
LookOnce ==
    /\ verdict = "checking"
    /\ \E n \in pass :
        /\ \A m \in pass : n <= m
        /\ pass' = pass \ {n}
        /\ pending' = pending \ {n}
        /\ progressed' = (progressed \/ Ready(n))
    /\ UNCHANGED <<tree, validator, verdict, stack, slices>>

Look ==
    /\ verdict = "checking"
    /\ \E n \in pass :
        /\ \A m \in pass : n <= m
        /\ pass' = pass \ {n}
        /\ pending' = IF Ready(n) THEN pending \ {n} ELSE pending
        /\ progressed' = (progressed \/ Ready(n))
    /\ UNCHANGED <<tree, validator, verdict, stack, slices>>

NextPass ==
    /\ verdict = "checking"
    /\ pass = {}
    /\ pending # {}
    /\ progressed
    /\ pass' = pending
    /\ progressed' = FALSE
    /\ UNCHANGED <<tree, validator, pending, verdict, stack, slices>>

Refuse ==
    /\ verdict = "checking"
    /\ pass = {}
    /\ pending # {}
    /\ ~progressed
    /\ verdict' = "refused"
    /\ UNCHANGED <<tree, validator, pending, pass, progressed, stack, slices>>

(* Fault: nothing is pending for the second validator. *)
NextValidatorDone ==
    /\ verdict = "checking"
    /\ pending = {}
    /\ validator = "canBuild"
    /\ validator' = "canResolve"
    /\ UNCHANGED <<tree, pending, pass, progressed, verdict, stack, slices>>

NextValidator ==
    /\ verdict = "checking"
    /\ pending = {}
    /\ validator = "canBuild"
    /\ validator' = "canResolve"
    /\ pending' = Index
    /\ pass' = Index
    /\ progressed' = FALSE
    /\ UNCHANGED <<tree, verdict, stack, slices>>

Call(n, command, depth) == [node |-> n, command |-> command, depth |-> depth]

(***************************************************************************)
(* The calls for the children of the root; the depth of a command is that  *)
(* of its word.  A child that is no command is left at once, as visit      *)
(* leaves one.                                                             *)
(***************************************************************************)
IsCommand(n) == n \in Index /\ n \in tree.named

Commands ==
    LET below == tree.children[tree.root]
    IN  [i \in DOMAIN below |-> Call(below[i], below[i], 0)]

Accept ==
    /\ verdict = "checking"
    /\ pending = {}
    /\ validator = "canResolve"
    /\ verdict' = "accepted"
    /\ stack' = Commands
    /\ UNCHANGED <<tree, validator, pending, pass, progressed, slices>>

(***************************************************************************)
(* A node that does not exist or has no extraNodeData ends its branch.     *)
(* Redirects are not followed.                                             *)
(***************************************************************************)
Visit ==
    /\ stack # <<>>
    /\ LET v == Head(stack)
           below == [i \in DOMAIN tree.children[v.node] |->
                        Call(tree.children[v.node][i], v.command, v.depth + 1)]
       IN  IF IsCommand(v.node)
           THEN /\ stack' = below \o Tail(stack)
                /\ slices' = IF v.node \in tree.messages
                             THEN [slices EXCEPT ![v.command] = v.depth]
                             ELSE slices
           ELSE stack' = Tail(stack) /\ UNCHANGED slices
    /\ UNCHANGED <<tree, validator, pending, pass, progressed, verdict>>

TreeNext ==
    \/ Declare
    \/ Look
    \/ NextPass
    \/ Refuse
    \/ NextValidator
    \/ Accept
    \/ Visit

TreeSpec == TreeInit /\ [][TreeNext]_treeVars

-----------------------------------------------------------------------------
(* Properties *)

TypeOK ==
    /\ tree \in Tree
    /\ validator \in {"canBuild", "canResolve"}
    /\ pass \subseteq Index /\ pending \subseteq Index
    /\ progressed \in BOOLEAN
    /\ verdict \in {"declared", "checking", "accepted", "refused"}

(***************************************************************************)
(* A cycle is a set of nodes each of which needs another of them.          *)
(***************************************************************************)
Circular(v, S) == \A n \in S : Needs(v, n) \cap S # {}

HasCycle(v) == \E S \in SUBSET Index : S # {} /\ Circular(v, S)

(***************************************************************************)
(* The comment on validateCommandTree: it tells a tree that contains a     *)
(* cycle from one that does not.  The redirects and the children are each  *)
(* acyclic exactly if a well formed tree is accepted, whatever the order   *)
(* of the nodes.                                                           *)
(***************************************************************************)
VerdictExact ==
    /\ verdict = "accepted" =>
           WellFormed /\ ~HasCycle("canBuild") /\ ~HasCycle("canResolve")
    /\ verdict = "refused" =>
           ~WellFormed \/ HasCycle("canBuild") \/ HasCycle("canResolve")

(***************************************************************************)
(* The recursion of visit is no deeper than the tree has nodes: it returns *)
(* and does not exhaust the stack.                                         *)
(***************************************************************************)
VisitBounded == \A i \in DOMAIN stack : stack[i].depth < Nodes
=============================================================================
