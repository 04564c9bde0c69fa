----------------------------- MODULE ChatProofs -----------------------------
(***************************************************************************)
(* client/chat.js: the command tree a server declares, and the chains of   *)
(* signatures of those who talk.                                           *)
(*                                                                         *)
(* A command tree of any size is accepted exactly if it is well formed and *)
(* neither its redirects nor its children go in a circle.  The set that a  *)
(* pass without progress leaves is itself a circle; and no circle loses a  *)
(* node, whatever the order in which the nodes are looked at.  The visit   *)
(* of an accepted tree stays within it: the nodes above a call are a path  *)
(* from the root, and a path longer than there are nodes comes to one      *)
(* twice, which is a circle of children.                                   *)
(*                                                                         *)
(* For any set of senders and every bound of ChatChain: the client trusts  *)
(* a sender exactly while nothing of its chain is missing.  The signatures *)
(* of a sender come in the order of their numbers, so that what the client *)
(* has not handled when a later one comes is missing for ever; as long as  *)
(* the sender is trusted the last signature is the greatest.               *)
(***************************************************************************)
EXTENDS CommandTree, ChatChain, FiniteSetTheorems, SequenceTheorems, TLAPS

(***************************************************************************)
(* Command trees                                                           *)
(***************************************************************************)

Verdicts == {"declared", "checking", "accepted", "refused"}

TreeTyped ==
    /\ tree \in Tree
    /\ validator \in {"canBuild", "canResolve"}
    /\ verdict \in Verdicts
    /\ pending \subseteq Index

(* Before the checks everything is at its start. *)
AtStart ==
    verdict = "declared" =>
        /\ validator = "canBuild"
        /\ pending = Index /\ pass = Index
        /\ ~progressed

(* What the checks and the loops behind the current one have established. *)
Checked ==
    verdict = "checking" =>
        /\ WellFormed
        /\ validator = "canResolve" => ~HasCycle("canBuild")

(* No node of a circle is taken away. *)
CirclesStay ==
    verdict = "checking" =>
        \A S \in SUBSET Index : Circular(validator, S) => S \subseteq pending

(* A pass that took nothing away has found every node it came to waiting. *)
LeftWaiting ==
    verdict = "checking" /\ ~progressed => \A n \in pending \ pass : ~Ready(n)

VerdictInv == TreeTyped /\ AtStart /\ Checked /\ CirclesStay /\ LeftWaiting /\ VerdictExact

(***************************************************************************)
(* Where nothing is left no circle is: the end of a loop of                *)
(* validateCommandTree that took every node away.                          *)
(***************************************************************************)
LEMMA NothingLeftNoCycle ==
    ASSUME verdict = "checking", pending = {}, CirclesStay
    PROVE  ~HasCycle(validator)
BY DEF CirclesStay, HasCycle

(***************************************************************************)
(* What a pass without progress leaves is a circle: the return of false.   *)
(***************************************************************************)
LEMMA StuckIsCycle ==
    ASSUME verdict = "checking", pass = {}, pending # {}, ~progressed,
           pending \subseteq Index, LeftWaiting
    PROVE  HasCycle(validator)
<1>1. \A n \in pending : Needs(validator, n) \cap pending # {}
  BY DEF LeftWaiting, Ready
<1>2. Circular(validator, pending)
  BY <1>1 DEF Circular
<1> QED BY <1>2 DEF HasCycle

(***************************************************************************)
(* The tree never changes, so neither do its circles.                      *)
(***************************************************************************)
LEMMA TreeStays ==
    ASSUME tree' = tree
    PROVE  /\ WellFormed' <=> WellFormed
           /\ \A v, S : Circular(v, S)' <=> Circular(v, S)
           /\ \A v : HasCycle(v)' <=> HasCycle(v)
<1>1. \A v, n : Needs(v, n)' = Needs(v, n)
  BY DEF Needs, Children
<1>2. \A v, S : Circular(v, S)' <=> Circular(v, S)
  BY <1>1 DEF Circular
<1> QED BY <1>2 DEF HasCycle, WellFormed

LEMMA InitVerdict == TreeInit => VerdictInv
BY DEF TreeInit, VerdictInv, TreeTyped, Verdicts, AtStart, Checked, CirclesStay, LeftWaiting,
       VerdictExact

(***************************************************************************)
(* A node is looked at: a circle that held it would need a node that is    *)
(* still pending, and then it is not taken away.                           *)
(***************************************************************************)
LEMMA LookVerdict == VerdictInv /\ Look => VerdictInv'
<1> SUFFICES ASSUME VerdictInv, Look PROVE VerdictInv'
  OBVIOUS
<1> USE TreeStays DEF Look
<1>1. PICK n \in pass :
        /\ pass' = pass \ {n}
        /\ pending' = IF Ready(n) THEN pending \ {n} ELSE pending
        /\ progressed' = (progressed \/ Ready(n))
  OBVIOUS
<1>2. TreeTyped' /\ AtStart' /\ Checked' /\ VerdictExact'
  BY <1>1 DEF VerdictInv, TreeTyped, Verdicts, AtStart, Checked, VerdictExact
<1>3. CirclesStay'
  <2> SUFFICES ASSUME NEW S \in SUBSET Index, Circular(validator, S)
               PROVE  S \subseteq pending'
    BY DEF CirclesStay
  <2>1. S \subseteq pending
    BY DEF VerdictInv, CirclesStay
  <2>2. CASE Ready(n)
    <3>1. Needs(validator, n) \cap S = {}
      BY <2>1, <2>2 DEF Ready
    <3>2. n \notin S
      BY <3>1 DEF Circular
    <3> QED BY <1>1, <2>1, <2>2, <3>2
  <2>3. CASE ~Ready(n)
    BY <1>1, <2>1, <2>3
  <2> QED BY <2>2, <2>3
<1>4. LeftWaiting'
  <2> SUFFICES ASSUME ~progressed' PROVE \A m \in pending' \ pass' : ~Ready(m)'
    BY DEF LeftWaiting
  <2>1. ~Ready(n) /\ ~progressed /\ pending' = pending
    BY <1>1
  <2>2. \A m : Ready(m)' <=> Ready(m)
    BY <2>1 DEF Ready, Needs, Children
  <2> QED BY <1>1, <2>1, <2>2 DEF VerdictInv, LeftWaiting
<1> QED BY <1>2, <1>3, <1>4 DEF VerdictInv

LEMMA NextVerdict == VerdictInv /\ [TreeNext]_treeVars => VerdictInv'
<1> SUFFICES ASSUME VerdictInv, [TreeNext]_treeVars PROVE VerdictInv'
  OBVIOUS
<1> USE TreeStays
<1>1. CASE Declare
  BY <1>1 DEF Declare, VerdictInv, TreeTyped, Verdicts, AtStart, Checked, CirclesStay,
              LeftWaiting, VerdictExact
<1>2. CASE Look
  BY <1>2, LookVerdict
<1>3. CASE NextPass
  BY <1>3 DEF NextPass, VerdictInv, TreeTyped, AtStart, Checked, CirclesStay, LeftWaiting,
              VerdictExact
<1>4. CASE Refuse
  <2>1. HasCycle(validator)
    BY <1>4, StuckIsCycle DEF Refuse, VerdictInv, TreeTyped
  <2> QED
    BY <1>4, <2>1 DEF Refuse, VerdictInv, TreeTyped, Verdicts, AtStart, Checked, CirclesStay,
                      LeftWaiting, VerdictExact
<1>5. CASE NextValidator
  <2>1. ~HasCycle("canBuild")
    BY <1>5, NothingLeftNoCycle DEF NextValidator, VerdictInv
  <2> QED
    BY <1>5, <2>1 DEF NextValidator, VerdictInv, TreeTyped, AtStart, Checked, CirclesStay,
                      LeftWaiting, VerdictExact
<1>6. CASE Accept
  <2>1. ~HasCycle("canResolve")
    BY <1>6, NothingLeftNoCycle DEF Accept, VerdictInv
  <2> QED
    BY <1>6, <2>1 DEF Accept, VerdictInv, TreeTyped, Verdicts, AtStart, Checked, CirclesStay,
                      LeftWaiting, VerdictExact
<1>7. CASE Visit \/ UNCHANGED treeVars
  <2>1. UNCHANGED <<tree, validator, pending, pass, progressed, verdict>>
    BY <1>7 DEF Visit, treeVars
  <2>2. \A m : Ready(m)' <=> Ready(m)
    BY <2>1 DEF Ready, Needs, Children
  <2> QED
    BY <2>1, <2>2 DEF VerdictInv, TreeTyped, AtStart, Checked, CirclesStay, LeftWaiting,
                      VerdictExact
<1> QED BY <1>1, <1>2, <1>3, <1>4, <1>5, <1>6, <1>7 DEF TreeNext

(***************************************************************************)
(* declare_commands accepts a tree, of however many nodes, exactly if it   *)
(* is well formed and has no cycle of redirects and none of children.      *)
(***************************************************************************)
THEOREM VerdictCorrect == TreeSpec => []VerdictExact
<1>1. VerdictInv => VerdictExact
  BY DEF VerdictInv
<1> QED BY InitVerdict, NextVerdict, <1>1, PTL DEF TreeSpec

-----------------------------------------------------------------------------
(* The visit *)

Calls == [node: Nat, command: Nat, depth: Nat]

(* The nodes above a call, the root first. *)
PathTo(v) ==
    {p \in [1..v.depth + 1 -> Index] :
        /\ p[1] = tree.root
        /\ \A k \in 1..v.depth : p[k + 1] \in Children(p[k])
        /\ v.node \in Children(p[v.depth + 1])}

Visited ==
    /\ stack \in Seq(Calls)
    /\ stack # <<>> => verdict = "accepted"
    /\ \A i \in 1..Len(stack) : PathTo(stack[i]) # {}

(***************************************************************************)
(* A path that comes to a node twice holds a circle of children.           *)
(***************************************************************************)
LEMMA TwiceIsCycle ==
    ASSUME NEW d \in Nat, NEW p \in [1..d + 1 -> Index],
           \A k \in 1..d : p[k + 1] \in Children(p[k]),
           NEW x \in 1..d + 1, NEW y \in 1..d + 1, x < y, p[x] = p[y]
    PROVE  HasCycle("canResolve")
<1> DEFINE S == {p[k] : k \in x..y - 1}
<1>1. S \in SUBSET Index /\ p[x] \in S
  OBVIOUS
<1>2. ASSUME NEW k \in x..y - 1
      PROVE  Needs("canResolve", p[k]) \cap S # {}
  <2>1. k \in 1..d /\ p[k + 1] \in Children(p[k])
    OBVIOUS
  <2>2. p[k + 1] \in S
    <3>1. CASE k = y - 1
      BY <1>1, <3>1
    <3>2. CASE k # y - 1
      BY <3>2
    <3> QED BY <3>1, <3>2
  <2>3. Needs("canResolve", p[k]) = Children(p[k])
    BY DEF Needs
  <2> QED BY <2>1, <2>2, <2>3
<1>3. Circular("canResolve", S)
  BY <1>2 DEF Circular
<1> QED BY <1>1, <1>3 DEF HasCycle

(***************************************************************************)
(* Without a circle there is no path of as many children as nodes.         *)
(***************************************************************************)
LEMMA PathIsShort ==
    ASSUME NEW v \in Calls, PathTo(v) # {}, ~HasCycle("canResolve")
    PROVE  v.depth < Nodes
<1>1. Nodes \in Nat /\ v.depth \in Nat
  BY CommandTreeAssumption DEF Calls
<1> DEFINE d == v.depth
<1> SUFFICES ASSUME ~(d < Nodes) PROVE FALSE
  OBVIOUS
<1>2. PICK p \in [1..d + 1 -> Index] : \A k \in 1..d : p[k + 1] \in Children(p[k])
  BY DEF PathTo
<1>3. IsFiniteSet(Index) /\ Cardinality(Index) <= Nodes
  <2>1. 0 \in Int /\ Nodes - 1 \in Int
    BY <1>1
  <2>2. /\ IsFiniteSet(0..Nodes - 1)
        /\ Cardinality(0..Nodes - 1)
             = IF 0 > Nodes - 1 THEN 0 ELSE Nodes - 1 - 0 + 1
    BY ONLY <2>1, FS_Interval
  <2> QED BY <1>1, <2>2 DEF Index
<1>4. IsFiniteSet(1..d + 1) /\ Cardinality(1..d + 1) = d + 1
  BY <1>1, FS_Interval
<1>5. Cardinality(Index) < Cardinality(1..d + 1)
  BY <1>1, <1>3, <1>4, FS_CardinalityType
<1> HIDE DEF d
<1>6. PICK x \in 1..d + 1, y \in 1..d + 1 : x # y /\ p[x] = p[y]
  BY <1>3, <1>4, <1>5, FS_PigeonHole
<1>7. d \in Nat
  BY <1>1 DEF d
<1>8. x < y \/ y < x
  BY <1>6, <1>7
<1> QED BY <1>2, <1>6, <1>7, <1>8, TwiceIsCycle

(***************************************************************************)
(* The calls for the children of a node have the node above them.          *)
(***************************************************************************)
LEMMA OneDown ==
    ASSUME NEW v \in Calls, NEW p \in PathTo(v), v.node \in Index,
           NEW w \in Calls, w.depth = v.depth + 1, w.node \in Children(v.node)
    PROVE  PathTo(w) # {}
<1> DEFINE d == v.depth
           q == [k \in 1..d + 2 |-> IF k = d + 2 THEN v.node ELSE p[k]]
<1>1. d \in Nat
  BY DEF Calls
<1>2. /\ p \in [1..d + 1 -> Index] /\ p[1] = tree.root
      /\ \A k \in 1..d : p[k + 1] \in Children(p[k])
      /\ v.node \in Children(p[d + 1])
  BY DEF PathTo
<1>3. q \in [1..d + 2 -> Index]
  BY <1>1, <1>2
<1>4. q[1] = tree.root /\ q[d + 2] = v.node
  BY <1>1, <1>2
<1>5. ASSUME NEW k \in 1..d + 1 PROVE q[k + 1] \in Children(q[k])
  <2>1. q[k] = p[k]
    BY <1>1
  <2>2. CASE k = d + 1
    <3>1. q[k + 1] = v.node
      BY <1>1, <2>2
    <3> QED BY <1>2, <2>1, <2>2, <3>1
  <2>3. CASE k # d + 1
    <3>1. k \in 1..d /\ q[k + 1] = p[k + 1]
      BY <1>1, <2>3
    <3> QED BY <1>2, <2>1, <3>1
  <2> QED BY <2>2, <2>3
<1> HIDE DEF q
<1>6. w.depth + 1 = d + 2
  BY <1>1
<1>7. q \in PathTo(w)
  BY <1>1, <1>3, <1>4, <1>5, <1>6 DEF PathTo
<1> QED BY <1>7

(***************************************************************************)
(* A child is an index the packet gives, in range or not.                  *)
(***************************************************************************)
LEMMA TreeShaped ==
    ASSUME tree \in Tree
    PROVE  /\ tree.root \in Nat /\ tree.children \in [Index -> Seq(Nat)]
           /\ tree.arrays \subseteq Index
BY CommandTreeAssumption

LEMMA AcceptVisited ==
    ASSUME VerdictInv, Visited, Accept
    PROVE  Visited'
<1> DEFINE root == tree.root
           below == tree.children[root]
<1>1. /\ root \in Index /\ below \in Seq(Nat) /\ tree' = tree
      /\ verdict' = "accepted" /\ stack' = Commands
  BY TreeShaped DEF VerdictInv, TreeTyped, Checked, WellFormed, Accept
<1>2. stack' = [i \in 1..Len(below) |-> Call(below[i], below[i], 0)]
  BY <1>1 DEF Commands
<1>3. \A i \in 1..Len(below) : Call(below[i], below[i], 0) \in Calls
  BY <1>1 DEF Call, Calls
<1>4. Len(below) \in Nat
  BY <1>1
<1>5. stack' \in Seq(Calls) /\ Len(stack') = Len(below)
  <2> HIDE DEF below
  <2> QED BY <1>2, <1>3, <1>4
<1>7. \A w : PathTo(w)' = PathTo(w)
  BY <1>1 DEF PathTo, Children
<1>6. ASSUME NEW i \in 1..Len(stack') PROVE PathTo(stack'[i]) # {}
  <2>1. stack'[i] = Call(below[i], below[i], 0)
    BY <1>2, <1>5, <1>6
  <2>2. below[i] \in Children(root)
    <3>1. i \in DOMAIN below
      BY <1>1, <1>5, <1>6
    <3> QED BY <3>1 DEF Children
  <2>3. [k \in 1..1 |-> root] \in PathTo(Call(below[i], below[i], 0))
    BY <1>1, <2>2 DEF PathTo, Call
  <2> QED BY <2>1, <2>3
<1> HIDE DEF below
<1> QED BY <1>1, <1>5, <1>6, <1>7 DEF Visited

LEMMA VisitVisited ==
    ASSUME VerdictInv, Visited, Visit
    PROVE  Visited'
<1> DEFINE v == Head(stack)
           children == tree.children[v.node]
           below == [i \in DOMAIN children |->
                        Call(children[i], v.command, v.depth + 1)]
<1>1. stack # <<>> /\ tree' = tree /\ verdict' = verdict /\ verdict = "accepted"
  BY DEF Visit, Visited
<1>2. /\ v \in Calls /\ Tail(stack) \in Seq(Calls) /\ Len(Tail(stack)) = Len(stack) - 1
      /\ \A i \in 1..Len(Tail(stack)) : Tail(stack)[i] = stack[i + 1]
      /\ v = stack[1]
  <2>1. stack \in Seq(Calls)
    BY DEF Visited
  <2> QED BY <1>1, <2>1
<1>3. \A w : PathTo(w)' = PathTo(w)
  BY <1>1 DEF PathTo, Children
<1>4. \A i \in 1..Len(Tail(stack)) : PathTo(Tail(stack)[i]) # {}
  <2>1. Len(stack) \in Nat
    BY DEF Visited
  <2> QED BY <1>2, <2>1 DEF Visited
<1>5. CASE IsCommand(v.node)
  <2>1. v.node \in Index /\ children \in Seq(Nat) /\ stack' = below \o Tail(stack)
    BY <1>5, TreeShaped DEF VerdictInv, TreeTyped, IsCommand, Visit
  <2>2. PICK p \in PathTo(v) : TRUE
    <3>1. 1 \in 1..Len(stack)
      BY <1>1 DEF Visited
    <3> QED BY <1>2, <3>1 DEF Visited
  <2>3. ASSUME NEW i \in 1..Len(children)
        PROVE  below[i] \in Calls /\ PathTo(below[i]) # {}
    <3> HIDE DEF v
    <3>0. i \in DOMAIN children
      BY <2>1
    <3>1. below[i] = Call(children[i], v.command, v.depth + 1)
      BY <3>0
    <3>2. children[i] \in Nat /\ children[i] \in Children(v.node)
      BY <2>1, <3>0 DEF Children
    <3> HIDE DEF below, children
    <3>3. /\ below[i] \in Calls /\ below[i].depth = v.depth + 1
          /\ below[i].node \in Children(v.node)
      BY <1>2, <3>1, <3>2 DEF Call, Calls
    <3> QED BY <1>2, <2>1, <2>2, <3>3, OneDown
  <2>4. below \in Seq(Calls) /\ Len(below) = Len(children)
    <3>0. DOMAIN children = 1..Len(children) /\ Len(children) \in Nat
      <4> HIDE DEF children
      <4> QED BY <2>1
    <3>1. below = [i \in 1..Len(children) |-> below[i]] /\ Len(children) \in Nat
      BY <3>0
    <3> HIDE DEF below, children
    <3> QED BY <2>3, <3>1
  <2> HIDE DEF below
  <2>5. /\ stack' \in Seq(Calls)
        /\ \A i \in 1..Len(stack') :
              \/ i \in 1..Len(below) /\ stack'[i] = below[i]
              \/ /\ i - Len(below) \in 1..Len(Tail(stack))
                 /\ stack'[i] = Tail(stack)[i - Len(below)]
    <3> DEFINE t == Tail(stack)
    <3>1. t \in Seq(Calls)
      BY <1>2
    <3> HIDE DEF t
    <3>2. /\ below \o t \in Seq(Calls)
          /\ \A i \in 1..Len(below \o t) :
                \/ i \in 1..Len(below) /\ (below \o t)[i] = below[i]
                \/ i - Len(below) \in 1..Len(t) /\ (below \o t)[i] = t[i - Len(below)]
      BY <2>4, <3>1
    <3> QED BY <2>1, <3>2 DEF t
  <2>6. \A i \in 1..Len(stack') : PathTo(stack'[i]) # {}
    BY <1>4, <2>3, <2>4, <2>5
  <2> QED BY <1>1, <1>3, <2>5, <2>6 DEF Visited
<1>6. CASE ~IsCommand(v.node)
  <2>1. stack' = Tail(stack)
    BY <1>6 DEF Visit
  <2> QED BY <1>1, <1>2, <1>3, <1>4, <2>1 DEF Visited
<1> QED BY <1>5, <1>6

LEMMA NextVisited == VerdictInv /\ Visited /\ [TreeNext]_treeVars => Visited'
<1> SUFFICES ASSUME VerdictInv, Visited, [TreeNext]_treeVars PROVE Visited'
  OBVIOUS
<1>1. CASE Accept
  BY <1>1, AcceptVisited
<1>2. CASE Visit
  BY <1>2, VisitVisited
<1>3. CASE Declare \/ Look \/ NextPass \/ Refuse \/ NextValidator \/ UNCHANGED treeVars
  <2>1. stack' = stack /\ tree' = tree /\ (verdict = "accepted" => verdict' = verdict)
    BY <1>3 DEF Declare, Look, NextPass, Refuse, NextValidator, treeVars
  <2>2. \A w : PathTo(w)' = PathTo(w)
    BY <2>1 DEF PathTo, Children
  <2> QED BY <2>1, <2>2 DEF Visited
<1> QED BY <1>1, <1>2, <1>3 DEF TreeNext

LEMMA InitVisited == TreeInit => Visited
BY DEF TreeInit, Visited

LEMMA VisitedBounded == VerdictInv /\ Visited => VisitBounded
<1> SUFFICES ASSUME VerdictInv, Visited, NEW i \in DOMAIN stack PROVE stack[i].depth < Nodes
  BY DEF VisitBounded
<1>1. stack[i] \in Calls /\ PathTo(stack[i]) # {} /\ verdict = "accepted"
  BY DEF Visited
<1>2. ~HasCycle("canResolve")
  BY <1>1 DEF VerdictInv, VerdictExact
<1> QED BY <1>1, <1>2, PathIsShort

(***************************************************************************)
(* The visit of an accepted tree is never deeper than the tree has nodes,  *)
(* whatever indices out of range the packet names as children: the         *)
(* recursion of visit ends.                                                *)
(***************************************************************************)
THEOREM VisitEnds == TreeSpec => []VisitBounded
<1>1. TreeInit => VerdictInv /\ Visited
  BY InitVerdict, InitVisited
<1>2. VerdictInv /\ Visited /\ [TreeNext]_treeVars => (VerdictInv /\ Visited)'
  BY NextVerdict, NextVisited
<1>3. VerdictInv /\ Visited => VisitBounded
  BY VisitedBounded
<1> QED BY <1>1, <1>2, <1>3, PTL DEF TreeSpec

-----------------------------------------------------------------------------
(***************************************************************************)
(* Chains of signatures                                                    *)
(***************************************************************************)

\* Packets that carry a signature of a sender.
Signs == {"player_chat", "unsigned_content", "message_header"}

Packets == [name: Signs \cup {"player_info", "chat_preview"},
            sender: Senders \cup {"formatted", "plain"}, n: Nat]

Players == [known: BOOLEAN, last: Nat, intact: BOOLEAN]

Messages == [sender: Senders, n: Nat]

ToServer ==
    [name: {"chat_preview"}, query: Nat]
    \cup [name: {"chat_message"}, over: Nat, sig: Nat, time: Nat, hashed: BOOLEAN,
          didPreview: BOOLEAN, seen: Seq(Messages)]
    \cup [name: {"message_acknowledgement"}, seen: Seq(Messages)]
    \cup [name: {"chat_command"}]

(* What the client writes, of which a query comes back. *)
Written ==
    /\ toServer \in Seq(ToServer)
    /\ seen \in Seq(Messages)
    /\ own \in Nat /\ now \in Nat /\ requests \in Nat
    /\ request \subseteq [id: Nat, time: Nat]

Typed ==
    /\ toClient \in Seq(Packets)
    /\ \A i \in 1..Len(toClient) :
           toClient[i].name # "chat_preview" => toClient[i].sender \in Senders
    /\ players \in [Senders -> Players]
    /\ signed \in [Senders -> Nat]
    /\ handled \in [Senders -> SUBSET (Nat \ {0})]

Of(p, s) == p.name \in Signs /\ p.sender = s

(* The signatures of a sender that are under way, in order. *)
Ordered ==
    \A s \in Senders : \A i, j \in 1..Len(toClient) :
        i < j /\ Of(toClient[i], s) /\ Of(toClient[j], s) => toClient[i].n < toClient[j].n

(* They were signed, and are behind those that were handled. *)
Behind ==
    \A s \in Senders :
        /\ \A m \in handled[s] : m <= signed[s]
        /\ \A i \in 1..Len(toClient) :
               Of(toClient[i], s) =>
                   /\ 0 < toClient[i].n /\ toClient[i].n <= signed[s]
                   /\ \A m \in handled[s] : m < toClient[i].n

Whole(S) == \A a, b \in S : \A n \in a..b : n \in S

(* What is known of a player p of whom H was handled. *)
Known(p, H) ==
    p.known =>
        /\ p.intact <=> Whole(H)
        /\ p.intact => \/ p.last = 0 /\ H = {}
                       \/ p.last \in H /\ \A m \in H : m <= p.last

Trusts == \A s \in Senders : Known(players[s], handled[s])

IInv == Typed /\ Ordered /\ Behind /\ Trusts

LEMMA InitInv == Init => IInv
<1> SUFFICES ASSUME Init PROVE IInv
  OBVIOUS
<1>1. Unknown \in Players
  BY DEF Unknown, Players
<1>2. toClient = <<>> /\ toClient \in Seq(Packets) /\ Len(toClient) = 0
  BY DEF Init
<1>3. Typed
  BY <1>1, <1>2 DEF Init, Typed
<1>4. Ordered /\ Behind
  BY <1>2 DEF Init, Ordered, Behind
<1>5. Trusts
  BY DEF Init, Trusts, Known, Unknown
<1> QED BY <1>3, <1>4, <1>5 DEF IInv

-----------------------------------------------------------------------------
(* The chain *)

(***************************************************************************)
(* A later signature: it continues the chain, or leaves a gap for ever.    *)
(***************************************************************************)
LEMMA UpdateExact ==
    ASSUME NEW p \in Players, NEW H \in SUBSET (Nat \ {0}), NEW n \in Nat,
           \A m \in H : m < n, p.known, Known(p, H)
    PROVE  Known(UpdateAndValidate(p, n), H \cup {n})
<1> DEFINE q == UpdateAndValidate(p, n)
           G == H \cup {n}
<1>1. CASE ~p.intact
  <2>1. PICK a \in H, b \in H : \E m \in a..b : m \notin H
    BY <1>1 DEF Known, Whole
  <2>2. PICK m \in a..b : m \notin H
    BY <2>1
  <2>3. ~Whole(G)
    BY <2>2 DEF Whole
  <2>4. q = p
    BY <1>1 DEF UpdateAndValidate
  <2> QED BY <1>1, <2>3, <2>4 DEF Known
<1>2. CASE p.intact /\ p.last = 0 /\ H = {}
  <2>1. q = [p EXCEPT !.last = n]
    BY <1>2 DEF UpdateAndValidate
  <2>2. Whole(G)
    BY <1>2 DEF Whole
  <2>3. q.intact /\ q.last = n
    BY <1>2, <2>1 DEF Players
  <2> QED BY <1>2, <2>2, <2>3 DEF Known
<1>3. CASE p.intact /\ p.last \in H /\ (\A m \in H : m <= p.last) /\ p.last = n - 1
  <2>1. q = [p EXCEPT !.last = n]
    BY <1>3 DEF UpdateAndValidate
  <2>2. Whole(H)
    BY <1>3 DEF Known
  <2>3. Whole(G)
    <3> SUFFICES ASSUME NEW a \in G, NEW b \in G, NEW m \in a..b PROVE m \in G
      BY DEF Whole
    <3>1. CASE m = n
      BY <3>1
    <3>2. CASE m # n
      <4>1. m < n /\ a \in H
        BY <3>2
      <4>2. m \in a..p.last
        BY <1>3, <4>1
      <4> QED BY <1>3, <2>2, <4>1, <4>2 DEF Whole
    <3> QED BY <3>1, <3>2
  <2>4. q.intact /\ q.last = n
    BY <1>3, <2>1 DEF Players
  <2>5. \A m \in G : m <= n
    OBVIOUS
  <2> QED BY <2>3, <2>4, <2>5 DEF Known
<1>4. CASE p.intact /\ p.last \in H /\ (\A m \in H : m <= p.last) /\ p.last # n - 1
  <2>1. p.last < n - 1 /\ n - 1 \in p.last..n /\ n - 1 \notin G
    <3>1. p.last \in Nat /\ p.last < n
      BY <1>4
    <3>2. p.last < n - 1 /\ n - 1 # n
      BY <1>4, <3>1
    <3> QED BY <1>4, <3>1, <3>2
  <2>2. ~Whole(G)
    BY <1>4, <2>1 DEF Whole
  <2>3. CASE p.last # 0
    <3>1. q = [p EXCEPT !.intact = FALSE]
      BY <1>4, <2>3 DEF UpdateAndValidate
    <3>2. q.known /\ ~q.intact
      BY <3>1 DEF Players
    <3> QED BY <2>2, <3>2 DEF Known
  <2>4. CASE p.last = 0
    BY <1>4, <2>4
  <2> QED BY <2>3, <2>4
<1> QED BY <1>1, <1>2, <1>3, <1>4 DEF Known

LEMMA UpdateTyped ==
    ASSUME NEW p \in Players, NEW n \in Nat
    PROVE  UpdateAndValidate(p, n) \in Players
BY DEF UpdateAndValidate, Players

-----------------------------------------------------------------------------
(* The packets *)

(* A packet leaves that brings no signature that is handled. *)
LEMMA Skipped ==
    ASSUME IInv, toClient # <<>>, toClient' = Tail(toClient), UNCHANGED signed,
           players' \in [Senders -> Players],
           handled' \in [Senders -> SUBSET (Nat \ {0})],
           \A s \in Senders : handled'[s] \subseteq handled[s],
           Trusts'
    PROVE  IInv'
<1>1. /\ Tail(toClient) \in Seq(Packets)
      /\ Len(Tail(toClient)) = Len(toClient) - 1
      /\ \A i \in 1..Len(Tail(toClient)) :
             /\ i + 1 \in 1..Len(toClient)
             /\ Tail(toClient)[i] = toClient[i + 1]
  BY DEF IInv, Typed
<1>2. Typed'
  BY <1>1 DEF IInv, Typed
<1>3. Ordered'
  BY <1>1 DEF IInv, Ordered
<1>4. Behind'
  BY <1>1 DEF IInv, Behind
<1> QED BY <1>2, <1>3, <1>4 DEF IInv

LEMMA Numbers ==
    ASSUME Typed
    PROVE  /\ \A i \in 1..Len(toClient) : toClient[i].n \in Nat
           /\ \A s \in Senders : handled[s] \subseteq Nat
<1>1. \A i \in 1..Len(toClient) : toClient[i] \in Packets
  BY DEF Typed
<1>2. \A i \in 1..Len(toClient) : toClient[i].n \in Nat
  BY <1>1 DEF Packets
<1>3. \A s \in Senders : handled[s] \subseteq Nat
  BY DEF Typed
<1> QED BY <1>2, <1>3

(* A packet is sent; a signature on it is later than all that were made. *)
LEMMA Appended ==
    ASSUME IInv, NEW p \in Packets, toClient' = Append(toClient, p),
           p.name # "chat_preview" => p.sender \in Senders,
           UNCHANGED <<players, handled>>, signed' \in [Senders -> Nat],
           \A s \in Senders : signed[s] <= signed'[s],
           \A s \in Senders : Of(p, s) => signed[s] < p.n /\ p.n <= signed'[s]
    PROVE  IInv'
<1> DEFINE k == Len(toClient) + 1
<1>1. /\ toClient \in Seq(Packets) /\ toClient' \in Seq(Packets)
      /\ Len(toClient') = k /\ toClient'[k] = p
      /\ \A i \in 1..k : i # k => i \in 1..Len(toClient) /\ toClient'[i] = toClient[i]
  BY DEF IInv, Typed
<1>2. Typed'
  BY <1>1 DEF IInv, Typed
<1>3. /\ signed \in [Senders -> Nat] /\ p.n \in Nat
      /\ \A i \in 1..Len(toClient) : toClient[i].n \in Nat
      /\ \A s \in Senders : handled[s] \subseteq Nat
  BY Numbers DEF IInv, Typed, Packets
<1>4. Ordered'
  <2> SUFFICES ASSUME NEW s \in Senders, NEW i \in 1..k, NEW j \in 1..k, i < j,
                      Of(toClient'[i], s), Of(toClient'[j], s)
               PROVE  toClient'[i].n < toClient'[j].n
    BY <1>1 DEF Ordered
  <2>1. CASE j # k
    BY <1>1, <2>1 DEF IInv, Ordered
  <2>2. CASE j = k
    <3>1. i \in 1..Len(toClient) /\ toClient[i].n <= signed[s]
      BY <1>1, <2>2 DEF IInv, Behind
    <3> QED BY <1>1, <1>3, <2>2, <3>1
  <2> QED BY <2>1, <2>2
<1>5. Behind'
  <2> SUFFICES ASSUME NEW s \in Senders
               PROVE  /\ \A m \in handled[s] : m <= signed'[s]
                      /\ \A i \in 1..k :
                             Of(toClient'[i], s) =>
                                 /\ 0 < toClient'[i].n /\ toClient'[i].n <= signed'[s]
                                 /\ \A m \in handled[s] : m < toClient'[i].n
    BY <1>1 DEF Behind
  <2>1. \A m \in handled[s] : m <= signed[s] /\ m <= signed'[s]
    BY <1>3 DEF IInv, Behind
  <2>2. ASSUME NEW i \in 1..k, Of(toClient'[i], s), i # k
        PROVE  /\ 0 < toClient'[i].n /\ toClient'[i].n <= signed'[s]
               /\ \A m \in handled[s] : m < toClient'[i].n
    <3>1. i \in 1..Len(toClient) /\ toClient'[i] = toClient[i]
      BY <1>1, <2>2
    <3>2. /\ 0 < toClient[i].n /\ toClient[i].n <= signed[s]
          /\ \A m \in handled[s] : m < toClient[i].n
      BY <2>2, <3>1 DEF IInv, Behind
    <3> QED BY <1>3, <3>1, <3>2
  <2>3. ASSUME Of(toClient'[k], s)
        PROVE  /\ 0 < toClient'[k].n /\ toClient'[k].n <= signed'[s]
               /\ \A m \in handled[s] : m < toClient'[k].n
    BY <1>1, <1>3, <2>1, <2>3
  <2> QED BY <2>1, <2>2, <2>3
<1>6. Trusts'
  BY DEF IInv, Trusts
<1> QED BY <1>2, <1>4, <1>5, <1>6 DEF IInv

(* A signature is handled; those that are left are behind it. *)
LEMMA ValidatesInv ==
    ASSUME IInv, toClient # <<>>, toClient' = Tail(toClient), Validates,
           Packet.name \in Signs, UNCHANGED signed
    PROVE  IInv'
<1> DEFINE s == Packet.sender
           n == Packet.n
<1>1. /\ Tail(toClient) \in Seq(Packets)
      /\ Len(Tail(toClient)) = Len(toClient) - 1
      /\ \A i \in 1..Len(Tail(toClient)) :
             /\ i + 1 \in 2..Len(toClient)
             /\ Tail(toClient)[i] = toClient[i + 1]
  BY DEF IInv, Typed
<1>2. /\ 1 \in 1..Len(toClient) /\ Packet = toClient[1] /\ Packet \in Packets
      /\ s \in Senders /\ n \in Nat
  <2>1. toClient \in Seq(Packets) /\ 1 \in 1..Len(toClient) /\ Packet = toClient[1]
    BY DEF IInv, Typed, Packet
  <2>2. Packet \in Packets
    BY <2>1
  <2>3. Packet.name # "chat_preview"
    BY DEF Signs
  <2> QED BY <2>1, <2>2, <2>3 DEF IInv, Typed, Packets
<1>3. Of(toClient[1], s)
  BY <1>2 DEF Of
<1>4. 0 < n /\ n <= signed[s] /\ \A m \in handled[s] : m < n
  BY <1>2, <1>3 DEF IInv, Behind
<1>5. \A t \in Senders : handled'[t] \in {handled[t], handled[t] \cup {n}}
                           /\ (t # s => handled'[t] = handled[t])
  <2>1. handled \in [Senders -> SUBSET (Nat \ {0})]
    BY DEF IInv, Typed
  <2>2. handled' = handled \/ handled' = [handled EXCEPT ![s] = @ \cup {n}]
    BY DEF Validates
  <2> QED BY <1>2, <2>1, <2>2
<1>6. Typed'
  <2>1. players' \in [Senders -> Players]
    BY <1>2, UpdateTyped DEF Validates, IInv, Typed
  <2>2. handled' \in [Senders -> SUBSET (Nat \ {0})]
    BY <1>2, <1>4 DEF Validates, IInv, Typed
  <2> QED BY <1>1, <2>1, <2>2 DEF IInv, Typed
<1>7. Ordered'
  BY <1>1 DEF IInv, Ordered
<1>8. Behind'
  <2> SUFFICES ASSUME NEW t \in Senders
               PROVE  /\ \A m \in handled'[t] : m <= signed[t]
                      /\ \A i \in 2..Len(toClient) :
                             Of(toClient[i], t) =>
                                 /\ 0 < toClient[i].n /\ toClient[i].n <= signed[t]
                                 /\ \A m \in handled'[t] : m < toClient[i].n
    BY <1>1 DEF Behind
  <2>1. CASE handled'[t] = handled[t]
    BY <2>1 DEF IInv, Behind
  <2>2. CASE t = s /\ handled'[t] = handled[t] \cup {n}
    <3>1. \A i \in 2..Len(toClient) : Of(toClient[i], t) => n < toClient[i].n
      BY <1>2, <1>3, <2>2 DEF IInv, Ordered
    <3> QED BY <1>4, <2>2, <3>1 DEF IInv, Behind
  <2> QED BY <1>5, <2>1, <2>2
<1>9. Trusts'
  <2> SUFFICES ASSUME NEW t \in Senders PROVE Known(players'[t], handled'[t])
    BY DEF Trusts
  <2>1. CASE t # s
    BY <1>2, <2>1 DEF Validates, IInv, Typed, Trusts
  <2>2. CASE t = s /\ ~players[s].known
    BY <1>2, <2>2 DEF Validates, IInv, Typed, Known, UpdateAndValidate
  <2>3. CASE t = s /\ players[s].known
    <3>1. players'[t] = UpdateAndValidate(players[s], n)
          /\ handled'[t] = handled[s] \cup {n}
      BY <1>2, <2>3 DEF Validates, IInv, Typed
    <3>2. /\ players[s] \in Players /\ handled[s] \in SUBSET (Nat \ {0})
          /\ Known(players[s], handled[s])
      BY <1>2 DEF IInv, Typed, Trusts
    <3>3. Known(UpdateAndValidate(players[s], n), handled[s] \cup {n})
      BY <1>2, <1>4, <2>3, <3>2, UpdateExact
    <3> QED BY <3>1, <3>3
  <2> QED BY <2>1, <2>2, <2>3
<1> QED BY <1>6, <1>7, <1>8, <1>9 DEF IInv

-----------------------------------------------------------------------------
(* The steps *)

LEMMA RelayInv ==
    ASSUME IInv, NEW s \in Senders,
           NEW name \in ChatNames \cup {"message_header", "nothing"}, Relay(s, name)
    PROVE  IInv'
<1>1. /\ signed \in [Senders -> Nat] /\ signed' \in [Senders -> Nat]
      /\ signed'[s] = signed[s] + 1
      /\ \A x \in Senders : signed[x] <= signed'[x]
  BY DEF Relay, IInv, Typed
<1>2. UNCHANGED <<players, handled>>
  BY DEF Relay, clientVars, historyVars
<1>3. CASE name = "nothing"
  <2>1. UNCHANGED toClient
    BY <1>3 DEF Relay
  <2>2. Typed' /\ Ordered' /\ Trusts'
    BY <1>1, <1>2, <2>1 DEF IInv, Typed, Ordered, Trusts
  <2>3. Behind'
    BY <1>1, <1>2, <2>1, Numbers DEF IInv, Behind
  <2> QED BY <2>2, <2>3 DEF IInv
<1>4. CASE name # "nothing"
  <2> DEFINE p == [name |-> name, sender |-> s, n |-> signed'[s]]
  <2>1. toClient' = Append(toClient, p)
    BY <1>4 DEF Relay
  <2>2. p \in Packets
    BY <1>1, <1>4 DEF Packets, Signs, ChatNames
  <2>3. \A x \in Senders : Of(p, x) => signed[x] < p.n /\ p.n <= signed'[x]
    BY <1>1 DEF Of
  <2> QED BY <1>1, <1>2, <2>1, <2>2, <2>3, Appended
<1> QED BY <1>3, <1>4

(* A packet without a signature is sent. *)
LEMMA SentInv ==
    ASSUME IInv, Written,
           \/ \E s \in Senders : Introduce(s)
           \/ \E form \in {"formatted", "plain"} : Previews(form)
    PROVE  IInv'
<1>1. signed \in [Senders -> Nat] /\ UNCHANGED <<players, handled, signed>>
  BY DEF Introduce, Previews, clientVars, serverVars, historyVars, IInv, Typed
<1>2. CASE \E s \in Senders : Introduce(s)
  <2>1. PICK s \in Senders : toClient' = Append(toClient,
                              [name |-> "player_info", sender |-> s, n |-> 0])
    BY <1>2 DEF Introduce
  <2> DEFINE p == [name |-> "player_info", sender |-> s, n |-> 0]
  <2>2. p \in Packets /\ \A x \in Senders : ~Of(p, x)
    BY DEF Packets, Of, Signs
  <2> QED BY <1>1, <2>1, <2>2, Appended
<1>3. CASE \E form \in {"formatted", "plain"} : Previews(form)
  <2>1. PICK form \in {"formatted", "plain"} : Previews(form)
    BY <1>3
  <2> DEFINE p == [name |-> "chat_preview", sender |-> form, n |-> Read.query]
  <2>2. Read \in ToServer /\ Read.name = "chat_preview"
    BY <2>1 DEF Previews, Reads, Read, Written
  <2>3. Read.query \in Nat
    BY <2>2 DEF ToServer
  <2>4. p \in Packets /\ \A x \in Senders : ~Of(p, x)
    BY <2>3 DEF Packets, Of, Signs
  <2>5. toClient' = Append(toClient, p)
    BY <2>1 DEF Previews
  <2> QED BY <1>1, <2>4, <2>5, Appended
<1> QED BY <1>2, <1>3

LEMMA ClientInv ==
    ASSUME IInv,
           \/ \E name \in ChatNames : OnPlayerChat(name)
           \/ OnMessageHeader
           \/ OnPlayerInfo
           \/ OnChatPreview
    PROVE  IInv'
<1>1. toClient # <<>> /\ toClient' = Tail(toClient) /\ UNCHANGED signed
  BY DEF OnPlayerChat, OnMessageHeader, OnPlayerInfo, OnChatPreview, Parses, serverVars
<1>2. CASE Validates /\ Packet.name \in Signs
  BY <1>1, <1>2, ValidatesInv
<1>3. CASE UNCHANGED <<players, handled>>
  BY <1>1, <1>3, Skipped DEF IInv, Typed, Trusts
<1>4. CASE OnPlayerInfo
  <2> DEFINE s == Packet.sender
  <2>1. players' = [players EXCEPT ![s] = Announced]
        /\ handled' = [handled EXCEPT ![s] = {}]
    BY <1>4 DEF OnPlayerInfo
  <2>2. Announced \in Players /\ Known(Announced, {})
    BY DEF Announced, Players, Known, Whole
  <2>3. /\ players' \in [Senders -> Players]
        /\ handled' \in [Senders -> SUBSET (Nat \ {0})]
        /\ \A x \in Senders : handled'[x] \subseteq handled[x]
    BY <2>1, <2>2 DEF IInv, Typed
  <2>4. Trusts'
    BY <2>1, <2>2 DEF IInv, Typed, Trusts
  <2> QED BY <1>1, <2>3, <2>4, Skipped
<1>5. \/ Validates /\ Packet.name \in Signs
      \/ UNCHANGED <<players, handled>>
      \/ OnPlayerInfo
  BY DEF OnPlayerChat, OnMessageHeader, OnChatPreview, Parses, Packet, Signs, ChatNames,
         historyVars
<1> QED BY <1>2, <1>3, <1>4, <1>5

-----------------------------------------------------------------------------
(* What the client writes *)

LEMMA PushSeenTyped ==
    ASSUME NEW list \in Seq(Messages), NEW m \in Messages
    PROVE  PushSeen(list, m) \in Seq(Messages)
<1> DEFINE same == {i \in DOMAIN list : list[i].sender = m.sender}
           gone == IF same # {} THEN CHOOSE i \in same : TRUE
                   ELSE IF Len(list) = Capacity THEN Capacity ELSE Len(list) + 1
<1>1. gone \in 1..Len(list) + 1
  <2>1. CASE same # {}
    BY <2>1
  <2>2. CASE same = {}
    BY <2>2, ChatChainAssumption
  <2> QED BY <2>1, <2>2
<1> HIDE DEF gone
<1>2. /\ SubSeq(list, 1, gone - 1) \in Seq(Messages)
      /\ SubSeq(list, gone + 1, Len(list)) \in Seq(Messages)
  BY <1>1, SubSeqProperties
<1>3. <<m>> \o SubSeq(list, 1, gone - 1) \o SubSeq(list, gone + 1, Len(list))
          \in Seq(Messages)
  BY <1>2, ConcatProperties
<1> QED BY <1>3 DEF PushSeen, gone

LEMMA Wrote ==
    ASSUME Written, NEW p \in ToServer
    PROVE  Append(toServer, p) \in Seq(ToServer)
BY DEF Written

LEMMA PacketIsMessage ==
    ASSUME Typed, NEW name \in ChatNames, OnPlayerChat(name)
    PROVE  Message(Packet.sender, Packet.n) \in Messages
<1>1. /\ toClient \in Seq(Packets) /\ 1 \in 1..Len(toClient) /\ Packet = toClient[1]
      /\ Packet.name = name
  BY DEF Typed, OnPlayerChat, Parses, Packet
<1>2. Packet.n \in Nat
  BY <1>1, Numbers
<1>3. Packet.sender \in Senders
  BY <1>1 DEF Typed, ChatNames
<1> QED BY <1>2, <1>3 DEF Message, Messages

LEMMA OnPlayerChatWritten ==
    ASSUME Typed, Written, NEW name \in ChatNames, OnPlayerChat(name)
    PROVE  Written'
<1>1. Message(Packet.sender, Packet.n) \in Messages
  BY PacketIsMessage
<1>2. seen' \in Seq(Messages)
  BY <1>1, PushSeenTyped DEF OnPlayerChat, Written
<1>3. Acknowledgement \in ToServer
  BY <1>2 DEF Acknowledgement, ToServer
<1>4. toServer' \in Seq(ToServer)
  BY <1>3, Wrote DEF OnPlayerChat, Written
<1> QED BY <1>2, <1>4 DEF OnPlayerChat, Written

LEMMA ChatWritten ==
    ASSUME Written,
           \/ \E skipPreview \in BOOLEAN : Chat(skipPreview)
           \/ Command
           \/ OnChatPreview
    PROVE  Written'
<1> USE DEF Written
<1>1. ASSUME NEW time \in Nat, NEW hashed \in BOOLEAN, NEW did \in BOOLEAN, SignMessage
      PROVE  own' \in Nat /\ ChatMessage(time, hashed, did) \in ToServer
  <2>1. own' \in Nat
    BY <1>1 DEF SignMessage
  <2> QED BY <1>1, <2>1 DEF ChatMessage, ToServer
<1>2. CASE \E skipPreview \in BOOLEAN : Chat(skipPreview)
  <2>1. now' \in Nat /\ UNCHANGED seen
    BY <1>2 DEF Chat, UserActs
  <2>2. CASE Chat(TRUE)
    <3>1. SignMessage /\ UNCHANGED <<request, requests>>
          /\ toServer' = Append(toServer, ChatMessage(now', FALSE, FALSE))
      BY <2>2 DEF Chat
    <3>2. own' \in Nat /\ ChatMessage(now', FALSE, FALSE) \in ToServer
      BY <1>1, <2>1, <3>1
    <3>3. toServer' \in Seq(ToServer)
      BY <3>1, <3>2, Wrote
    <3> QED BY <2>1, <3>1, <3>2, <3>3
  <2>3. CASE Chat(FALSE)
    <3>1. /\ UNCHANGED own /\ requests' = requests + 1
          /\ request' = {[id |-> requests, time |-> now']}
          /\ toServer' = Append(toServer, [name |-> "chat_preview", query |-> requests])
      BY <2>3 DEF Chat
    <3>2. [name |-> "chat_preview", query |-> requests] \in ToServer
      BY DEF ToServer
    <3> QED BY <2>1, <3>1, <3>2
  <2> QED BY <1>2, <2>2, <2>3
<1>3. CASE Command
  <2>1. [name |-> "chat_command"] \in ToServer
    BY DEF ToServer
  <2> QED BY <1>3, <2>1 DEF Command, SignMessage, UserActs
<1>4. CASE OnChatPreview
  <2>1. UNCHANGED <<seen, now, requests>>
    BY <1>4 DEF OnChatPreview
  <2>2. CASE \E r \in request : r.id = Packet.n
    <3>1. PICK r \in request :
              /\ SignMessage /\ request' = {}
              /\ toServer' = Append(toServer,
                                    ChatMessage(r.time, Packet.sender = "formatted", TRUE))
      BY <1>4, <2>2 DEF OnChatPreview
    <3>2. own' \in Nat
          /\ ChatMessage(r.time, Packet.sender = "formatted", TRUE) \in ToServer
      BY <1>1, <3>1
    <3>3. toServer' \in Seq(ToServer)
      BY <3>1, <3>2, Wrote
    <3> QED BY <2>1, <3>1, <3>2, <3>3
  <2>3. CASE ~\E r \in request : r.id = Packet.n
    BY <1>4, <2>1, <2>3 DEF OnChatPreview
  <2> QED BY <2>2, <2>3
<1> QED BY <1>2, <1>3, <1>4

LEMMA ReadWritten ==
    ASSUME Written,
           \/ OnChatMessage \/ OnMessageAcknowledgement \/ OnChatCommand
           \/ \E form \in {"formatted", "plain"} : Previews(form)
    PROVE  Written'
<1>1. toServer # <<>> /\ toServer' = Tail(toServer) /\ UNCHANGED clientVars
  BY DEF OnChatMessage, OnMessageAcknowledgement, OnChatCommand, Previews, Reads
<1>2. toServer' \in Seq(ToServer)
  BY <1>1, HeadTailProperties DEF Written
<1> QED BY <1>1, <1>2 DEF Written, clientVars

-----------------------------------------------------------------------------
LEMMA NextInv == IInv /\ Written /\ [Next]_vars => (IInv /\ Written)'
<1> SUFFICES ASSUME IInv, Written, [Next]_vars PROVE IInv' /\ Written'
  OBVIOUS
<1> USE DEF IInv
<1>1. CASE \E s \in Senders, name \in ChatNames \cup {"message_header", "nothing"} :
               Relay(s, name)
  BY <1>1, RelayInv DEF Written, Relay, clientVars
<1>2. CASE \E s \in Senders : Introduce(s)
  BY <1>2, SentInv DEF Written, Introduce, clientVars
<1>3. CASE \E name \in ChatNames : OnPlayerChat(name)
  BY <1>3, ClientInv, OnPlayerChatWritten
<1>4. CASE OnMessageHeader \/ OnPlayerInfo
  BY <1>4, ClientInv DEF Written, OnMessageHeader, OnPlayerInfo
<1>5. CASE OnChatPreview
  BY <1>5, ClientInv, ChatWritten
<1>6. CASE (\E skipPreview \in BOOLEAN : Chat(skipPreview)) \/ Command
  <2>1. UNCHANGED <<toClient, players, signed, handled>>
    BY <1>6 DEF Chat, Command, serverVars
  <2> QED BY <1>6, <2>1, ChatWritten DEF Typed, Ordered, Behind, Trusts
<1>7. CASE \E form \in {"formatted", "plain"} : Previews(form)
  BY <1>7, SentInv, ReadWritten
<1>8. CASE OnChatMessage \/ OnMessageAcknowledgement \/ OnChatCommand
  <2>1. UNCHANGED <<toClient, players, signed, handled>>
    BY <1>8 DEF OnChatMessage, OnMessageAcknowledgement, OnChatCommand, clientVars,
                serverVars, historyVars
  <2> QED BY <1>8, <2>1, ReadWritten DEF Typed, Ordered, Behind, Trusts
<1>9. CASE UNCHANGED vars
  BY <1>9 DEF vars, clientVars, serverVars, historyVars, Typed, Ordered, Behind, Trusts,
              Written
<1> QED BY <1>1, <1>2, <1>3, <1>4, <1>5, <1>6, <1>7, <1>8, <1>9 DEF Next

(***************************************************************************)
(* updateAndValidateChat (client/chat.js): messages of a player that is    *)
(* known are verified exactly as long as no signature of its chain has     *)
(* been withheld since the first that was handled.                         *)
(***************************************************************************)
THEOREM IntegrityCorrect == Spec => []IntegrityExact
<1>1. Init => IInv /\ Written
  <2>1. Init => Written
    BY DEF Init, Written
  <2> QED BY <2>1, InitInv
<1>2. IInv => IntegrityExact
  BY DEF IInv, Trusts, Known, Whole, IntegrityExact
<1> QED BY <1>1, <1>2, NextInv, PTL DEF Spec

-----------------------------------------------------------------------------
(* What the client has seen *)

Distinct(list) ==
    \A i, j \in 1..Len(list) : i # j => list[i].sender # list[j].sender

Heard ==
    /\ heard \in Seq(Messages)
    /\ Distinct(heard)
    /\ SeenNewest

(* The list behind m, without its k-th entry. *)
Moved(list, m, k) ==
    <<m>> \o SubSeq(list, 1, k - 1) \o SubSeq(list, k + 1, Len(list))

LEMMA MovedDown ==
    ASSUME NEW list \in Seq(Messages), NEW m \in Messages, NEW k \in 1..Len(list) + 1
    PROVE  LET r == Moved(list, m, k)
           IN  /\ r \in Seq(Messages)
               /\ Len(r) = IF k <= Len(list) THEN Len(list) ELSE Len(list) + 1
               /\ \A i \in 1..Len(r) :
                     r[i] = IF i = 1 THEN m ELSE IF i <= k THEN list[i - 1] ELSE list[i]
<1> DEFINE n == Len(list)
           a == SubSeq(list, 1, k - 1)
           b == SubSeq(list, k + 1, n)
           one == <<m>>
<1>1. n \in Nat /\ k \in Nat /\ k >= 1 /\ k <= n + 1
  OBVIOUS
<1>2. /\ a \in Seq(Messages) /\ Len(a) = k - 1
      /\ \A i \in 1..k - 1 : a[i] = list[i]
  BY <1>1, SubSeqProperties
<1>3. /\ b \in Seq(Messages) /\ Len(b) = IF k <= n THEN n - k ELSE 0
      /\ \A i \in 1..Len(b) : b[i] = list[k + i]
  <2>1. CASE k <= n
    BY <1>1, <2>1, SubSeqProperties
  <2>2. CASE k = n + 1
    <3>1. b = <<>>
      BY <1>1, <2>2, SubSeqProperties
    <3> QED BY <1>1, <2>2, <3>1
  <2> QED BY <1>1, <2>1, <2>2
<1>4. one \in Seq(Messages) /\ Len(one) = 1 /\ one[1] = m
  OBVIOUS
<1> HIDE DEF a, b, one, n
<1> DEFINE c == one \o a
<1>5. /\ c \in Seq(Messages) /\ Len(c) = k /\ c[1] = m
      /\ \A i \in 2..k : c[i] = list[i - 1]
  <2>1. /\ c \in Seq(Messages) /\ Len(c) = 1 + (k - 1)
        /\ \A i \in 1..Len(c) : c[i] = IF i <= 1 THEN one[i] ELSE a[i - 1]
    <3>1. one \in Seq(Messages) /\ a \in Seq(Messages)
      BY <1>2, <1>4
    <3>2. /\ one \o a \in Seq(Messages) /\ Len(one \o a) = Len(one) + Len(a)
          /\ \A i \in 1..Len(one) + Len(a) :
                (one \o a)[i] = IF i <= Len(one) THEN one[i] ELSE a[i - Len(one)]
      BY ONLY <3>1, ConcatProperties
    <3> QED BY <1>1, <1>2, <1>4, <3>2
  <2> HIDE DEF c
  <2>2. \A i \in 2..k : i \in 1..k /\ ~(i <= 1) /\ i - 1 \in 1..k - 1
    BY <1>1
  <2>3. Len(c) = k /\ 1 \in 1..k
    BY <1>1, <2>1
  <2> QED BY <1>2, <1>4, <2>1, <2>2, <2>3
<1> HIDE DEF c
<1> DEFINE r == c \o b
<1>6. /\ r \in Seq(Messages) /\ Len(r) = k + Len(b)
      /\ \A i \in 1..k : r[i] = c[i]
      /\ \A i \in k + 1..k + Len(b) : r[i] = b[i - k]
  <2>1. /\ r \in Seq(Messages) /\ Len(r) = k + Len(b)
        /\ \A i \in 1..Len(r) : r[i] = IF i <= k THEN c[i] ELSE b[i - k]
    <3>1. c \in Seq(Messages) /\ b \in Seq(Messages)
      BY <1>3, <1>5
    <3>2. /\ c \o b \in Seq(Messages) /\ Len(c \o b) = Len(c) + Len(b)
          /\ \A i \in 1..Len(c) + Len(b) :
                (c \o b)[i] = IF i <= Len(c) THEN c[i] ELSE b[i - Len(c)]
      BY ONLY <3>1, ConcatProperties
    <3> QED BY <1>1, <1>5, <3>2
  <2>2. Len(b) \in Nat
    BY <1>3
  <2> HIDE DEF r
  <2> QED BY <1>1, <2>1, <2>2
<1> HIDE DEF r
<1>7. r = Moved(list, m, k)
  BY DEF r, c, a, b, one, n, Moved
<1>8. Len(r) = IF k <= n THEN n ELSE n + 1
  BY <1>1, <1>3, <1>6
<1>9. ASSUME NEW i \in 1..Len(r)
      PROVE  r[i] = IF i = 1 THEN m ELSE IF i <= k THEN list[i - 1] ELSE list[i]
  <2>1. CASE i <= k
    BY <1>1, <1>5, <1>6, <2>1
  <2>2. CASE i > k
    <3>1. /\ r[i] = b[i - k] /\ i - k \in 1..Len(b) /\ k + (i - k) = i /\ i # 1
      BY <1>1, <1>3, <1>6, <2>2
    <3> QED BY <1>1, <1>3, <2>2, <3>1
  <2> QED BY <1>1, <2>1, <2>2
<1> QED BY <1>6, <1>7, <1>8, <1>9 DEF n

LEMMA SeenIsFirst ==
    ASSUME Heard
    PROVE  /\ seen \in Seq(Messages) /\ DOMAIN seen = 1..Len(seen)
           /\ Len(seen) \in Nat /\ Len(heard) \in Nat /\ Len(seen) <= Len(heard)
           /\ Len(seen) = IF Len(heard) < Capacity THEN Len(heard) ELSE Capacity
           /\ \A i \in 1..Len(seen) : seen[i] = heard[i]
<1> DEFINE c == IF Len(heard) < Capacity THEN Len(heard) ELSE Capacity
<1>1. /\ heard \in Seq(Messages) /\ Len(heard) \in Nat /\ c \in Nat /\ c <= Len(heard)
      /\ seen = SubSeq(heard, 1, c)
  BY ChatChainAssumption DEF Heard, SeenNewest
<1> HIDE DEF c
<1>2. /\ seen \in Seq(Messages) /\ Len(seen) = c /\ \A i \in 1..c : seen[i] = heard[i]
  BY <1>1, SubSeqProperties
<1> QED BY <1>1, <1>2 DEF c

LEMMA HeardMoved ==
    ASSUME Typed, Heard, NEW name \in ChatNames, OnPlayerChat(name)
    PROVE  \E k \in 1..Len(heard) + 1 :
              /\ heard' = Moved(heard, Message(Packet.sender, Packet.n), k)
              /\ \A i \in 1..Len(heard) : heard[i].sender = Packet.sender <=> i = k
<1> DEFINE I == {i \in 1..Len(heard) : heard[i].sender = Packet.sender}
           m == Message(Packet.sender, Packet.n)
<1>1. heard' = <<m>>
               \o IF \E i \in 1..Len(heard) : heard[i].sender = Packet.sender
                  THEN SubSeq(heard, 1, (IF I # {} THEN Min(I) ELSE 0) - 1)
                         \o SubSeq(heard, (IF I # {} THEN Min(I) ELSE 0) + 1, Len(heard))
                  ELSE heard
  BY DEF OnPlayerChat, RemoveFirstMatch, RemoveAt, SelectInSeq
<1>2. m \in Messages /\ heard \in Seq(Messages) /\ Distinct(heard)
  BY PacketIsMessage DEF Heard, ChatNames
<1>3. CASE I = {}
  <2> DEFINE k == Len(heard) + 1
  <2>1. Moved(heard, m, k) = <<m>> \o heard
    <3>1. /\ SubSeq(heard, 1, k - 1) = heard
          /\ SubSeq(heard, k + 1, Len(heard)) = <<>>
      BY <1>2
    <3>2. <<m>> \o heard \in Seq(Messages)
      BY <1>2
    <3> QED BY <3>1, <3>2, ConcatEmptySeq DEF Moved
  <2>2. heard' = <<m>> \o heard
    BY <1>1, <1>3
  <2>3. k \in 1..Len(heard) + 1 /\ \A i \in 1..Len(heard) : i # k
    BY <1>2
  <2>4. heard' = Moved(heard, m, k)
    BY <2>1, <2>2
  <2>5. \A i \in 1..Len(heard) : heard[i].sender = Packet.sender <=> i = k
    BY <1>3, <2>3
  <2> HIDE DEF k
  <2> QED BY <2>3, <2>4, <2>5
<1>4. ASSUME NEW k \in I
      PROVE  /\ heard' = Moved(heard, m, k)
             /\ \A i \in 1..Len(heard) : heard[i].sender = Packet.sender <=> i = k
  <2>1. I = {k}
    BY <1>2 DEF Distinct
  <2>2. Min(I) = k
    BY <2>1 DEF Min
  <2>3. heard' = <<m>> \o (SubSeq(heard, 1, k - 1) \o SubSeq(heard, k + 1, Len(heard)))
    BY <1>1, <2>1, <2>2
  <2>4. /\ SubSeq(heard, 1, k - 1) \in Seq(Messages)
        /\ SubSeq(heard, k + 1, Len(heard)) \in Seq(Messages)
        /\ <<m>> \in Seq(Messages)
    BY <1>2, SubSeqProperties
  <2> DEFINE a == SubSeq(heard, 1, k - 1)
             b == SubSeq(heard, k + 1, Len(heard))
             one == <<m>>
  <2>5. heard' = Moved(heard, m, k)
    <3>1. heard' = one \o (a \o b) /\ Moved(heard, m, k) = (one \o a) \o b
      BY <2>3 DEF Moved
    <3>2. a \in Seq(Messages) /\ b \in Seq(Messages) /\ one \in Seq(Messages)
      BY <2>4
    <3> HIDE DEF a, b, one
    <3>3. (one \o a) \o b = one \o (a \o b)
      BY ONLY <3>2, ConcatAssociative
    <3> QED BY <3>1, <3>3
  <2> QED BY <2>1, <2>5
<1> QED BY <1>3, <1>4

LEMMA PushedMoved ==
    ASSUME Heard, NEW m \in Messages, NEW k \in 1..Len(heard) + 1,
           \A i \in 1..Len(heard) : heard[i].sender = m.sender <=> i = k
    PROVE  PushSeen(seen, m) =
             Moved(seen, m, IF k <= Len(seen) THEN k
                            ELSE IF Len(seen) = Capacity THEN Capacity ELSE Len(seen) + 1)
<1> DEFINE same == {i \in DOMAIN seen : seen[i].sender = m.sender}
<1>1. DOMAIN seen = 1..Len(seen) /\ Len(seen) \in Nat /\ Len(seen) <= Len(heard)
      /\ \A i \in 1..Len(seen) : seen[i] = heard[i]
  BY SeenIsFirst
<1>2. \A i \in 1..Len(seen) : seen[i].sender = m.sender <=> i = k
  BY <1>1
<1>3. CASE k <= Len(seen)
  <2>1. same = {k}
    BY <1>1, <1>2, <1>3
  <2> HIDE DEF same
  <2>2. (CHOOSE i \in same : TRUE) = k
    BY <2>1
  <2> QED BY <1>3, <2>1, <2>2 DEF PushSeen, Moved, same
<1>4. CASE ~(k <= Len(seen))
  <2>1. same = {}
    BY <1>1, <1>2, <1>4
  <2> QED BY <1>4, <2>1 DEF PushSeen, Moved
<1> QED BY <1>3, <1>4

(***************************************************************************)
(* The list of the client stays the beginning of what it has heard.        *)
(***************************************************************************)
LEMMA PushKeepsNewest ==
    ASSUME Heard, NEW m \in Messages, NEW k \in 1..Len(heard) + 1,
           \A i \in 1..Len(heard) : heard[i].sender = m.sender <=> i = k,
           heard' = Moved(heard, m, k), seen' = PushSeen(seen, m)
    PROVE  Heard'
<1> DEFINE g == IF k <= Len(seen) THEN k
                ELSE IF Len(seen) = Capacity THEN Capacity ELSE Len(seen) + 1
           n == Len(heard)
           l == Len(seen)
<1>1. /\ seen \in Seq(Messages) /\ heard \in Seq(Messages) /\ Distinct(heard)
      /\ l = IF n < Capacity THEN n ELSE Capacity
      /\ \A i \in 1..l : seen[i] = heard[i]
  BY SeenIsFirst DEF Heard
<1>2. n \in Nat /\ l \in Nat /\ Capacity \in Nat \ {0} /\ k \in Nat /\ g \in 1..l + 1
  BY <1>1, ChatChainAssumption
<1>3. seen' = Moved(seen, m, g)
  BY PushedMoved
<1>4. /\ heard' \in Seq(Messages) /\ Len(heard') = IF k <= n THEN n ELSE n + 1
      /\ \A i \in 1..Len(heard') :
            heard'[i] = IF i = 1 THEN m ELSE IF i <= k THEN heard[i - 1] ELSE heard[i]
  BY <1>1, MovedDown
<1>5. /\ seen' \in Seq(Messages) /\ Len(seen') = IF g <= l THEN l ELSE l + 1
      /\ \A i \in 1..Len(seen') :
            seen'[i] = IF i = 1 THEN m ELSE IF i <= g THEN seen[i - 1] ELSE seen[i]
  <2> HIDE DEF g
  <2> QED BY <1>1, <1>2, <1>3, MovedDown
<1>6. Distinct(heard')
  <2>1. ASSUME NEW i \in 1..Len(heard'), i # 1
        PROVE  \E x \in 1..n : /\ heard'[i] = heard[x] /\ x # k
                               /\ x = IF i <= k THEN i - 1 ELSE i
    <3> DEFINE x == IF i <= k THEN i - 1 ELSE i
    <3>1. x \in 1..n /\ x # k
      BY <1>2, <1>4, <2>1
    <3> QED BY <1>4, <2>1, <3>1
  <2>2. ASSUME NEW i \in 1..Len(heard'), NEW j \in 1..Len(heard'), i < j
        PROVE  heard'[i].sender # heard'[j].sender
    <3>1. j # 1 /\ i \in Nat /\ j \in Nat
      BY <2>2
    <3>2. PICK y \in 1..n : /\ heard'[j] = heard[y] /\ y # k
                           /\ y = IF j <= k THEN j - 1 ELSE j
      BY <2>1, <3>1
    <3>3. CASE i = 1
      BY <1>4, <3>2, <3>3
    <3>4. CASE i # 1
      <4>1. PICK x \in 1..n : /\ heard'[i] = heard[x] /\ x # k
                             /\ x = IF i <= k THEN i - 1 ELSE i
        BY <2>1, <3>4
      <4>2. x # y
        BY <1>2, <2>2, <3>1, <3>2, <4>1
      <4> QED BY <1>1, <3>2, <4>1, <4>2 DEF Distinct
    <3> QED BY <3>3, <3>4
  <2>3. \A i, j \in 1..Len(heard') : i # j => i < j \/ j < i
    OBVIOUS
  <2> QED BY <2>2, <2>3 DEF Distinct
<1> DEFINE c == IF Len(heard') < Capacity THEN Len(heard') ELSE Capacity
<1>7. Len(seen') = c /\ c \in Nat /\ c <= Len(heard')
  BY <1>1, <1>2, <1>4, <1>5
<1>8. \A i \in 1..c : seen'[i] = heard'[i]
  <2> SUFFICES ASSUME NEW i \in 1..c PROVE seen'[i] = heard'[i]
    OBVIOUS
  <2>1. i \in 1..Len(seen') /\ i \in 1..Len(heard') /\ i \in Nat
    BY <1>7
  <2>2. CASE i = 1
    BY <1>4, <1>5, <2>1, <2>2
  <2>3. CASE i # 1 /\ i <= g
    <3>1. i <= k /\ i - 1 \in 1..l
      BY <1>1, <1>2, <1>5, <2>1, <2>3
    <3> QED BY <1>1, <1>4, <1>5, <2>1, <2>3, <3>1
  <2>4. CASE ~(i <= g)
    <3>1. g = k /\ i \in 1..l /\ i # 1 /\ ~(i <= k)
      BY <1>1, <1>2, <1>5, <1>7, <2>1, <2>4
    <3> QED BY <1>1, <1>4, <1>5, <2>1, <2>4, <3>1
  <2> QED BY <2>2, <2>3, <2>4
<1>9. seen' = SubSeq(heard', 1, c)
  <2> HIDE DEF c
  <2>1. /\ SubSeq(heard', 1, c) \in Seq(Messages) /\ Len(SubSeq(heard', 1, c)) = c
        /\ \A i \in 1..c : SubSeq(heard', 1, c)[i] = heard'[i]
    BY <1>4, <1>7, SubSeqProperties
  <2> QED BY <1>5, <1>7, <1>8, <2>1, SeqEqual
<1> QED BY <1>4, <1>6, <1>9 DEF Heard, SeenNewest

LEMMA NextHeard == IInv /\ Heard /\ [Next]_vars => Heard'
<1> SUFFICES ASSUME IInv, Heard, [Next]_vars PROVE Heard'
  OBVIOUS
<1>1. CASE \E name \in ChatNames : OnPlayerChat(name)
  <2>1. PICK name \in ChatNames : OnPlayerChat(name)
    BY <1>1
  <2> DEFINE m == Message(Packet.sender, Packet.n)
  <2>2. m \in Messages /\ m.sender = Packet.sender /\ seen' = PushSeen(seen, m)
    BY <2>1, PacketIsMessage DEF IInv, OnPlayerChat, Message
  <2>3. PICK k \in 1..Len(heard) + 1 :
            /\ heard' = Moved(heard, m, k)
            /\ \A i \in 1..Len(heard) : heard[i].sender = Packet.sender <=> i = k
    BY <2>1, HeardMoved DEF IInv
  <2> HIDE DEF m
  <2> QED BY <2>2, <2>3, PushKeepsNewest
<1>2. CASE ~\E name \in ChatNames : OnPlayerChat(name)
  <2>1. UNCHANGED <<seen, heard>>
    BY <1>2 DEF Next, vars, Relay, Introduce, OnMessageHeader, OnPlayerInfo, Chat, Command,
                OnChatPreview, OnChatMessage, OnMessageAcknowledgement, OnChatCommand,
                Previews, clientVars, serverVars, historyVars
  <2> QED BY <2>1 DEF Heard, SeenNewest, Distinct
<1> QED BY <1>1, <1>2

-----------------------------------------------------------------------------
(* What the client signs *)

Chats(w) == {i \in 1..Len(w) : w[i].name = "chat_message"}

(* A report of what was seen is not empty before anything was heard. *)
Reported ==
    /\ seen # <<>> => heard # <<>>
    /\ \A i \in 1..Len(toServer) :
           /\ toServer[i].name \in {"chat_message", "message_acknowledgement"}
           /\ toServer[i].seen # <<>>
           => heard # <<>>

(* Each message under way w is signed over the one before, the first over c. *)
Linked(w, c, last) ==
    /\ c <= last
    /\ \A i \in Chats(w) : w[i].sig = w[i].over + 1 /\ c < w[i].sig /\ w[i].sig <= last
    /\ \A i, j \in Chats(w) : i < j => w[i].sig < w[j].sig
    /\ \A n \in c + 1..last : \E i \in Chats(w) : w[i].sig = n

(* No message under way w is older than t or one before it, at a time clock. *)
Timely(w, t, clock, asked) ==
    /\ t <= clock
    /\ \A i \in Chats(w) : t <= w[i].time /\ w[i].time <= clock
    /\ \A i, j \in Chats(w) : i < j => w[i].time <= w[j].time
    /\ \A r \in asked :
           /\ t <= r.time /\ r.time <= clock
           /\ \A i \in Chats(w) : w[i].time <= r.time

Formatted ==
    /\ \A i \in 1..Len(toServer) : toServer[i].name # "chat_command"
    /\ \A i \in Chats(toServer) : toServer[i].hashed = toServer[i].didPreview

Answered ==
    \A i \in 1..Len(toClient) :
        toClient[i].name = "chat_preview" => toClient[i].sender = "formatted"

Honest ==
    /\ careless \in BOOLEAN /\ chain \in Nat /\ newest \in Nat
    /\ Reported
    /\ raised = "none" /\ ~careless =>
           /\ Linked(toServer, chain, own)
           /\ Timely(toServer, newest, now, request)
           /\ Formatted /\ Answered
    /\ HonestStays

LEMMA ChatTyped ==
    ASSUME NEW p \in ToServer, p.name = "chat_message"
    PROVE  p.over \in Nat /\ p.sig \in Nat /\ p.time \in Nat /\ p.seen \in Seq(Messages)
BY DEF ToServer

LEMMA ChatsTyped ==
    ASSUME NEW w \in Seq(ToServer), NEW i \in Chats(w)
    PROVE  w[i].over \in Nat /\ w[i].sig \in Nat /\ w[i].time \in Nat
<1>1. w[i] \in ToServer /\ w[i].name = "chat_message"
  BY DEF Chats
<1> QED BY <1>1, ChatTyped

LEMMA ChatsAppend ==
    ASSUME NEW w \in Seq(ToServer), NEW p \in ToServer
    PROVE  LET v == Append(w, p)
           IN  /\ v \in Seq(ToServer) /\ Len(v) = Len(w) + 1 /\ Len(w) \in Nat
               /\ \A i \in 1..Len(w) : v[i] = w[i]
               /\ v[Len(w) + 1] = p
               /\ Chats(v) = IF p.name = "chat_message" THEN Chats(w) \cup {Len(w) + 1}
                            ELSE Chats(w)
<1> DEFINE v == Append(w, p)
<1>1. /\ v \in Seq(ToServer) /\ Len(v) = Len(w) + 1 /\ Len(w) \in Nat
      /\ \A i \in 1..Len(w) : v[i] = w[i]
      /\ v[Len(w) + 1] = p
  BY AppendProperties
<1> HIDE DEF v
<1>2. Chats(v) = IF p.name = "chat_message" THEN Chats(w) \cup {Len(w) + 1}
                 ELSE Chats(w)
  <2>1. 1..Len(v) = 1..Len(w) \cup {Len(w) + 1} /\ Len(w) + 1 \notin 1..Len(w)
    BY <1>1
  <2> QED BY <1>1, <2>1 DEF Chats
<1> QED BY <1>1, <1>2 DEF v

LEMMA ChatsTail ==
    ASSUME NEW w \in Seq(ToServer), w # <<>>
    PROVE  LET v == Tail(w)
           IN  /\ v \in Seq(ToServer) /\ Len(v) = Len(w) - 1 /\ Len(w) \in Nat
               /\ w[1] \in ToServer /\ Head(w) = w[1]
               /\ \A i \in 1..Len(v) : v[i] = w[i + 1] /\ i + 1 \in 1..Len(w)
               /\ \A i \in Chats(v) : i + 1 \in Chats(w) /\ v[i] = w[i + 1]
               /\ \A i \in Chats(w) : i = 1 \/ (i - 1 \in Chats(v) /\ v[i - 1] = w[i])
<1> DEFINE v == Tail(w)
<1>1. /\ v \in Seq(ToServer) /\ Len(v) = Len(w) - 1 /\ Len(w) \in Nat
      /\ w[1] \in ToServer /\ Head(w) = w[1]
      /\ \A i \in 1..Len(v) : v[i] = w[i + 1]
  BY HeadTailProperties
<1> HIDE DEF v
<1>2. \A i \in 1..Len(v) : v[i] = w[i + 1] /\ i + 1 \in 1..Len(w)
  BY <1>1
<1>3. \A i \in Chats(v) : i + 1 \in Chats(w) /\ v[i] = w[i + 1]
  BY <1>2 DEF Chats
<1>4. ASSUME NEW i \in Chats(w), i # 1 PROVE i - 1 \in Chats(v) /\ v[i - 1] = w[i]
  <2>1. i - 1 \in 1..Len(v) /\ (i - 1) + 1 = i
    BY <1>1, <1>4 DEF Chats
  <2>2. v[i - 1] = w[i]
    BY <1>1, <2>1
  <2> QED BY <2>1, <2>2 DEF Chats
<1> QED BY <1>1, <1>2, <1>3, <1>4 DEF v

LEMMA LinkedQuiet ==
    ASSUME NEW w \in Seq(ToServer), NEW p \in ToServer, p.name # "chat_message",
           NEW c \in Nat, NEW last \in Nat, Linked(w, c, last)
    PROVE  Linked(Append(w, p), c, last)
<1> DEFINE v == Append(w, p)
<1>1. Chats(v) = Chats(w) /\ \A i \in Chats(w) : v[i] = w[i]
  BY ChatsAppend DEF Chats
<1> HIDE DEF v
<1>2. Linked(v, c, last)
  BY <1>1 DEF Linked
<1> QED BY <1>2 DEF v

LEMMA TimelyQuiet ==
    ASSUME NEW w \in Seq(ToServer), NEW p \in ToServer, p.name # "chat_message",
           NEW t \in Nat, NEW clock \in Nat, NEW asked, Timely(w, t, clock, asked)
    PROVE  Timely(Append(w, p), t, clock, asked)
<1> DEFINE v == Append(w, p)
<1>1. Chats(v) = Chats(w) /\ \A i \in Chats(w) : v[i] = w[i]
  BY ChatsAppend DEF Chats
<1> HIDE DEF v
<1>2. Timely(v, t, clock, asked)
  BY <1>1 DEF Timely
<1> QED BY <1>2 DEF v

(***************************************************************************)
(* A message is signed over the last one.                                  *)
(***************************************************************************)
LEMMA LinkedAppend ==
    ASSUME NEW w \in Seq(ToServer), NEW p \in ToServer, p.name = "chat_message",
           NEW c \in Nat, NEW last \in Nat, Linked(w, c, last),
           p.over = last, p.sig = last + 1
    PROVE  Linked(Append(w, p), c, last + 1)
<1> DEFINE v == Append(w, p)
           n == Len(w)
<1>1. /\ Chats(v) = Chats(w) \cup {n + 1} /\ v[n + 1] = p /\ n \in Nat
      /\ \A i \in Chats(w) : v[i] = w[i] /\ i \in 1..n
  BY ChatsAppend DEF Chats
<1>2. \A i \in Chats(w) : w[i].sig \in Nat
  BY ChatsTyped
<1> HIDE DEF v, n
<1>3. c <= last + 1
  BY DEF Linked
<1>4. \A i \in Chats(v) : v[i].sig = v[i].over + 1 /\ c < v[i].sig /\ v[i].sig <= last + 1
  BY <1>1, <1>2 DEF Linked
<1>5. ASSUME NEW i \in Chats(v), NEW j \in Chats(v), i < j PROVE v[i].sig < v[j].sig
  <2>1. i \in Chats(w)
    BY <1>1, <1>5
  <2>2. CASE j \in Chats(w)
    BY <1>1, <1>5, <2>1, <2>2 DEF Linked
  <2>3. CASE j = n + 1
    BY <1>1, <1>2, <2>1, <2>3 DEF Linked
  <2> QED BY <1>1, <2>2, <2>3
<1>6. ASSUME NEW x \in c + 1..last + 1 PROVE \E i \in Chats(v) : v[i].sig = x
  <2>1. CASE x = last + 1
    BY <1>1, <2>1
  <2>2. CASE x # last + 1
    <3>1. x \in c + 1..last
      BY <2>2
    <3>2. PICK i \in Chats(w) : w[i].sig = x
      BY <3>1 DEF Linked
    <3> QED BY <1>1, <3>2
  <2> QED BY <2>1, <2>2
<1>7. Linked(v, c, last + 1)
  BY <1>3, <1>4, <1>5, <1>6 DEF Linked
<1> QED BY <1>7 DEF v

LEMMA TimelyAppend ==
    ASSUME NEW w \in Seq(ToServer), NEW p \in ToServer, p.name = "chat_message",
           NEW t \in Nat, NEW clock \in Nat, Timely(w, t, clock, {}),
           t <= p.time, p.time <= clock, \A i \in Chats(w) : w[i].time <= p.time
    PROVE  Timely(Append(w, p), t, clock, {})
<1> DEFINE v == Append(w, p)
           n == Len(w)
<1>1. /\ Chats(v) = Chats(w) \cup {n + 1} /\ v[n + 1] = p /\ n \in Nat
      /\ \A i \in Chats(w) : v[i] = w[i] /\ i \in 1..n
  BY ChatsAppend DEF Chats
<1> HIDE DEF v, n
<1>2. \A i \in Chats(v) : t <= v[i].time /\ v[i].time <= clock
  BY <1>1 DEF Timely
<1>3. ASSUME NEW i \in Chats(v), NEW j \in Chats(v), i < j PROVE v[i].time <= v[j].time
  <2>1. i \in Chats(w)
    BY <1>1, <1>3
  <2> QED BY <1>1, <1>3, <2>1 DEF Timely
<1>4. Timely(v, t, clock, {})
  BY <1>2, <1>3 DEF Timely
<1> QED BY <1>4 DEF v

(***************************************************************************)
(* The packet at the front is read.                                        *)
(***************************************************************************)
LEMMA QuietTail ==
    ASSUME NEW w \in Seq(ToServer), w # <<>>, Head(w).name # "chat_message",
           NEW c \in Nat, NEW last \in Nat, NEW t \in Nat, NEW clock \in Nat, NEW asked
    PROVE  /\ Linked(w, c, last) => Linked(Tail(w), c, last)
           /\ Timely(w, t, clock, asked) => Timely(Tail(w), t, clock, asked)
<1> DEFINE v == Tail(w)
<1>1. /\ \A i \in Chats(v) : i \in Nat /\ i + 1 \in Chats(w) /\ v[i] = w[i + 1]
      /\ \A i \in Chats(w) : i - 1 \in Chats(v) /\ v[i - 1] = w[i]
  <2>1. 1 \notin Chats(w) /\ \A i \in Chats(v) : i \in Nat
    BY ChatsTail DEF Chats
  <2> QED BY <2>1, ChatsTail
<1> HIDE DEF v
<1>2. ASSUME NEW i \in Chats(v), NEW j \in Chats(v), i < j
      PROVE  i + 1 < j + 1
  BY <1>1, <1>2
<1>3. ASSUME Linked(w, c, last) PROVE Linked(v, c, last)
  <2>1. ASSUME NEW n \in c + 1..last PROVE \E i \in Chats(v) : v[i].sig = n
    <3>1. PICK i \in Chats(w) : w[i].sig = n
      BY <1>3 DEF Linked
    <3> QED BY <1>1, <3>1
  <2>2. \A i \in Chats(v) : v[i].sig = v[i].over + 1 /\ c < v[i].sig /\ v[i].sig <= last
    BY <1>1, <1>3 DEF Linked
  <2>3. \A i, j \in Chats(v) : i < j => v[i].sig < v[j].sig
    BY <1>1, <1>2, <1>3 DEF Linked
  <2> QED BY <1>3, <2>1, <2>2, <2>3 DEF Linked
<1>4. ASSUME Timely(w, t, clock, asked) PROVE Timely(v, t, clock, asked)
  BY <1>1, <1>2, <1>4 DEF Timely
<1> QED BY <1>3, <1>4 DEF v

LEMMA LinkedTail ==
    ASSUME NEW w \in Seq(ToServer), w # <<>>, Head(w).name = "chat_message",
           NEW c \in Nat, NEW last \in Nat, Linked(w, c, last)
    PROVE  Head(w).over = c /\ Linked(Tail(w), Head(w).sig, last)
<1> DEFINE v == Tail(w)
           s == w[1].sig
<1>1. /\ \A i \in Chats(v) : i \in Nat \ {0} /\ i + 1 \in Chats(w) /\ v[i] = w[i + 1]
      /\ \A i \in Chats(w) : i = 1 \/ (i - 1 \in Chats(v) /\ v[i - 1] = w[i])
      /\ Head(w) = w[1] /\ 1 \in Chats(w)
  <2>1. 1 \in Chats(w) /\ \A i \in Chats(v) : i \in Nat \ {0}
    BY ChatsTail DEF Chats
  <2> QED BY <2>1, ChatsTail
<1>2. \A i \in Chats(w) : w[i].sig \in Nat /\ w[i].over \in Nat /\ i \in Nat \ {0}
  BY ChatsTyped DEF Chats
<1> HIDE DEF v
<1>3. s = w[1].over + 1 /\ c < s /\ s <= last /\ s \in Nat
  BY <1>1, <1>2 DEF Linked
<1>4. w[1].over = c
  <2>1. c + 1 \in c + 1..last
    BY <1>3
  <2>2. PICK i \in Chats(w) : w[i].sig = c + 1
    BY <2>1 DEF Linked
  <2>3. i = 1 \/ s < c + 1
    BY <1>1, <1>2, <2>2 DEF Linked
  <2> QED BY <1>1, <1>2, <1>3, <2>2, <2>3
<1> HIDE DEF s
<1>5. \A i \in Chats(v) : v[i].sig = v[i].over + 1 /\ s < v[i].sig /\ v[i].sig <= last
  BY <1>1 DEF Linked, s
<1>6. ASSUME NEW i \in Chats(v), NEW j \in Chats(v), i < j
      PROVE  v[i].sig < v[j].sig
  <2>1. i + 1 < j + 1
    BY <1>1, <1>6
  <2> QED BY <1>1, <2>1 DEF Linked
<1>7. ASSUME NEW n \in s + 1..last PROVE \E i \in Chats(v) : v[i].sig = n
  <2>1. n \in c + 1..last /\ n # s
    BY <1>3
  <2>2. PICK i \in Chats(w) : w[i].sig = n
    BY <2>1 DEF Linked
  <2>3. i # 1
    BY <2>1, <2>2 DEF s
  <2> QED BY <1>1, <2>2, <2>3
<1>8. Linked(v, s, last)
  BY <1>3, <1>5, <1>6, <1>7 DEF Linked
<1> QED BY <1>1, <1>4, <1>8 DEF v, s

LEMMA TimelyTail ==
    ASSUME NEW w \in Seq(ToServer), w # <<>>, Head(w).name = "chat_message",
           NEW t \in Nat, NEW clock \in Nat, NEW asked, Timely(w, t, clock, asked)
    PROVE  t <= Head(w).time /\ Timely(Tail(w), Head(w).time, clock, asked)
<1> DEFINE v == Tail(w)
<1>1. /\ \A i \in Chats(v) : i \in Nat \ {0} /\ i + 1 \in Chats(w) /\ v[i] = w[i + 1]
      /\ Head(w) = w[1] /\ 1 \in Chats(w)
  <2>1. 1 \in Chats(w) /\ \A i \in Chats(v) : i \in Nat \ {0}
    BY ChatsTail DEF Chats
  <2> QED BY <2>1, ChatsTail
<1> HIDE DEF v
<1>2. \A i \in Chats(v) : 1 < i + 1
  BY <1>1
<1>3. \A i, j \in Chats(v) : i < j => i + 1 < j + 1
  BY <1>1
<1>4. Timely(v, w[1].time, clock, asked)
  BY <1>1, <1>2, <1>3 DEF Timely
<1>5. t <= w[1].time
  BY <1>1 DEF Timely
<1> QED BY <1>1, <1>4, <1>5 DEF v

LEMMA ReportedAppend ==
    ASSUME Written, Reported, NEW p \in ToServer, toServer' = Append(toServer, p),
           heard # <<>> => heard' # <<>>, seen' # <<>> => heard' # <<>>,
           /\ p.name \in {"chat_message", "message_acknowledgement"}
           /\ p.seen # <<>>
           => heard' # <<>>
    PROVE  Reported'
<1>1. /\ toServer \in Seq(ToServer) /\ Len(toServer) \in Nat
      /\ Len(toServer') = Len(toServer) + 1
      /\ \A i \in 1..Len(toServer) : toServer'[i] = toServer[i]
      /\ toServer'[Len(toServer) + 1] = p
  BY ChatsAppend DEF Written
<1>2. \A i \in 1..Len(toServer') : i \in 1..Len(toServer) \/ i = Len(toServer) + 1
  BY <1>1
<1> QED BY <1>1, <1>2 DEF Reported

LEMMA FormattedAppend ==
    ASSUME Written, Formatted, NEW p \in ToServer, toServer' = Append(toServer, p),
           p.name # "chat_command",
           p.name = "chat_message" => p.hashed = p.didPreview
    PROVE  Formatted'
<1>1. /\ toServer \in Seq(ToServer) /\ Len(toServer) \in Nat
      /\ Len(toServer') = Len(toServer) + 1
      /\ \A i \in 1..Len(toServer) : toServer'[i] = toServer[i]
      /\ toServer'[Len(toServer) + 1] = p
  BY ChatsAppend DEF Written
<1>2. \A i \in 1..Len(toServer') : i \in 1..Len(toServer) \/ i = Len(toServer) + 1
  BY <1>1
<1> QED BY <1>1, <1>2 DEF Formatted, Chats

LEMMA FrontRead ==
    ASSUME Written, toServer # <<>>, toServer' = Tail(toServer), UNCHANGED <<seen, heard>>
    PROVE  /\ Reported => Reported'
           /\ Formatted => Formatted'
<1>1. \A i \in 1..Len(toServer') : toServer'[i] = toServer[i + 1] /\ i + 1 \in 1..Len(toServer)
  BY ChatsTail DEF Written
<1> QED BY <1>1 DEF Reported, Formatted, Chats

LEMMA AnsweredTail ==
    ASSUME Typed, Answered, toClient # <<>>, toClient' = Tail(toClient)
    PROVE  Answered'
<1>1. toClient \in Seq(Packets)
  BY DEF Typed
<1>2. \A i \in 1..Len(toClient') : toClient'[i] = toClient[i + 1] /\ i + 1 \in 1..Len(toClient)
  BY <1>1
<1> QED BY <1>2 DEF Answered

LEMMA AnsweredAppend ==
    ASSUME Typed, Answered, NEW p \in Packets, toClient' = Append(toClient, p),
           p.name = "chat_preview" => p.sender = "formatted"
    PROVE  Answered'
<1>1. toClient \in Seq(Packets)
  BY DEF Typed
<1>2. \A i \in 1..Len(toClient') :
        \/ i \in 1..Len(toClient) /\ toClient'[i] = toClient[i]
        \/ toClient'[i] = p
  BY <1>1
<1> QED BY <1>2 DEF Answered

(***************************************************************************)
(* What is sent to the client by others.                                   *)
(***************************************************************************)
LEMMA RelayHonest ==
    ASSUME Typed, Honest,
           \/ \E s \in Senders, name \in ChatNames \cup {"message_header", "nothing"} :
                  Relay(s, name)
           \/ \E s \in Senders : Introduce(s)
    PROVE  Honest'
<1>1. /\ UNCHANGED <<toServer, clientVars, chain, newest, historyVars>>
      /\ raised = "none"
      /\ raised' = "none" \/ (raised' = "too_many_pending_chats" /\ logged' > PendingLimit)
  BY DEF Relay, Introduce, serverVars, Open
<1>2. ASSUME Answered PROVE Answered'
  <2>1. CASE toClient' = toClient
    BY <1>2, <2>1 DEF Answered
  <2>2. CASE \E s \in Senders, name \in ChatNames \cup {"message_header"} :
                toClient' = Append(toClient, [name |-> name, sender |-> s, n |-> signed'[s]])
             /\ signed' = [signed EXCEPT ![s] = @ + 1]
    <3>1. PICK s \in Senders, name \in ChatNames \cup {"message_header"} :
                /\ toClient' = Append(toClient, [name |-> name, sender |-> s, n |-> signed'[s]])
                /\ signed' = [signed EXCEPT ![s] = @ + 1]
      BY <2>2
    <3>2. signed'[s] \in Nat
      BY <3>1 DEF Typed
    <3> DEFINE p == [name |-> name, sender |-> s, n |-> signed'[s]]
    <3>3. p \in Packets /\ p.name # "chat_preview"
      BY <3>2 DEF Packets, Signs, ChatNames
    <3> HIDE DEF p
    <3> QED BY <1>2, <3>1, <3>3, AnsweredAppend DEF p
  <2>3. CASE \E s \in Senders :
                toClient' = Append(toClient, [name |-> "player_info", sender |-> s, n |-> 0])
    <3>1. PICK s \in Senders :
                toClient' = Append(toClient, [name |-> "player_info", sender |-> s, n |-> 0])
      BY <2>3
    <3> DEFINE p == [name |-> "player_info", sender |-> s, n |-> 0]
    <3>2. p \in Packets /\ p.name # "chat_preview"
      BY DEF Packets
    <3> HIDE DEF p
    <3> QED BY <1>2, <3>1, <3>2, AnsweredAppend DEF p
  <2>4. \/ toClient' = toClient
        \/ \E s \in Senders, name \in ChatNames \cup {"message_header"} :
              /\ toClient' = Append(toClient, [name |-> name, sender |-> s, n |-> signed'[s]])
              /\ signed' = [signed EXCEPT ![s] = @ + 1]
        \/ \E s \in Senders :
              toClient' = Append(toClient, [name |-> "player_info", sender |-> s, n |-> 0])
    <3>1. ASSUME NEW s \in Senders, NEW name \in ChatNames \cup {"message_header", "nothing"},
                 Relay(s, name)
          PROVE  \/ toClient' = toClient
                 \/ /\ name \in ChatNames \cup {"message_header"}
                    /\ toClient' = Append(toClient,
                                          [name |-> name, sender |-> s, n |-> signed'[s]])
                    /\ signed' = [signed EXCEPT ![s] = @ + 1]
      <4>1. /\ toClient' = IF name = "nothing" THEN toClient
                           ELSE Append(toClient, [name |-> name, sender |-> s, n |-> signed'[s]])
            /\ signed' = [signed EXCEPT ![s] = @ + 1]
        BY <3>1 DEF Relay
      <4> QED BY <4>1
    <3>2. ASSUME NEW s \in Senders, Introduce(s)
          PROVE  toClient' = Append(toClient, [name |-> "player_info", sender |-> s, n |-> 0])
      BY <3>2 DEF Introduce
    <3> QED BY <3>1, <3>2
  <2> QED BY <2>1, <2>2, <2>3, <2>4
<1>3. HonestStays'
  BY <1>1 DEF HonestStays
<1> QED BY <1>1, <1>2, <1>3 DEF Honest, Reported, Formatted, clientVars, historyVars

LEMMA HearHonest ==
    ASSUME Typed, Written, Heard, Honest,
           \/ \E name \in ChatNames : OnPlayerChat(name)
           \/ OnMessageHeader \/ OnPlayerInfo
    PROVE  Honest'
<1>1. /\ UNCHANGED <<own, now, request, requests, serverVars, careless>>
      /\ raised = "none" /\ toClient # <<>> /\ toClient' = Tail(toClient)
  BY DEF OnPlayerChat, OnMessageHeader, OnPlayerInfo, Parses, Open
<1>2. ASSUME Answered PROVE Answered'
  BY <1>1, <1>2, AnsweredTail
<1>3. HonestStays'
  BY <1>1 DEF HonestStays, serverVars
<1>4. own \in Nat /\ chain \in Nat /\ newest \in Nat /\ now \in Nat /\ toServer \in Seq(ToServer)
  BY DEF Written, Honest
<1>5. CASE OnMessageHeader \/ OnPlayerInfo
  <2>1. UNCHANGED <<toServer, seen, heard>>
    BY <1>5 DEF OnMessageHeader, OnPlayerInfo
  <2> QED BY <1>1, <1>2, <1>3, <2>1 DEF Honest, Reported, Formatted, serverVars
<1>6. ASSUME NEW name \in ChatNames, OnPlayerChat(name) PROVE Honest'
  <2>1. heard' # <<>>
    <3> DEFINE m == Message(Packet.sender, Packet.n)
    <3>1. m \in Messages
      BY <1>6, PacketIsMessage
    <3>2. PICK k \in 1..Len(heard) + 1 : heard' = Moved(heard, m, k)
      BY <1>6, HeardMoved
    <3>3. heard \in Seq(Messages) /\ Len(heard) \in Nat
      BY DEF Heard
    <3> HIDE DEF m
    <3>4. Len(heard') = IF k <= Len(heard) THEN Len(heard) ELSE Len(heard) + 1
      BY <3>1, <3>2, <3>3, MovedDown
    <3>5. Len(heard') # 0
      BY <3>3, <3>4
    <3> QED BY <3>5
  <2>2. CASE toServer' = toServer
    BY <1>1, <1>2, <1>3, <2>1, <2>2 DEF Honest, Reported, Formatted, serverVars
  <2>3. CASE toServer' = Append(toServer, Acknowledgement)
    <3> DEFINE p == Acknowledgement
    <3>1. p \in ToServer /\ p.name = "message_acknowledgement"
      <4>1. seen' \in Seq(Messages)
        BY <1>6, OnPlayerChatWritten DEF Written
      <4> QED BY <4>1 DEF Acknowledgement, ToServer
    <3> HIDE DEF p
    <3>2. toServer' = Append(toServer, p)
      BY <2>3 DEF p
    <3>3. Reported'
      BY <2>1, <3>1, <3>2, ReportedAppend DEF Honest
    <3>4. ASSUME Linked(toServer, chain, own), Timely(toServer, newest, now, request), Formatted
          PROVE  /\ Linked(toServer', chain, own) /\ Timely(toServer', newest, now, request)
                 /\ Formatted'
      BY <1>4, <3>1, <3>2, <3>4, LinkedQuiet, TimelyQuiet, FormattedAppend
    <3> QED BY <1>1, <1>2, <1>3, <3>3, <3>4 DEF Honest, serverVars
  <2>4. toServer' = toServer \/ toServer' = Append(toServer, Acknowledgement)
    BY <1>6 DEF OnPlayerChat
  <2> QED BY <2>2, <2>3, <2>4
<1> QED BY <1>5, <1>6

(***************************************************************************)
(* The user writes, or is answered.                                        *)
(***************************************************************************)
LEMMA SignedHonest ==
    ASSUME Written, Heard, Honest, NEW t \in Nat, NEW h \in BOOLEAN, NEW d \in BOOLEAN,
           raised = "none", SignMessage, toServer' = Append(toServer, ChatMessage(t, h, d)),
           UNCHANGED <<seen, heard, serverVars>>, request' = {}, now' \in Nat,
           careless' \in BOOLEAN,
           ~careless' => /\ ~careless /\ h = d /\ now <= now' /\ t <= now'
                         /\ newest <= t
                         /\ \A i \in Chats(toServer) : toServer[i].time <= t
                         /\ Answered'
    PROVE  Honest'
<1> DEFINE p == ChatMessage(t, h, d)
<1>1. /\ own \in Nat /\ chain \in Nat /\ newest \in Nat /\ now \in Nat
      /\ toServer \in Seq(ToServer) /\ own' = own + 1
  BY DEF Written, Honest, SignMessage
<1>2. /\ p \in ToServer /\ p.name = "chat_message" /\ p.over = own /\ p.sig = own + 1
      /\ p.time = t /\ p.hashed = h /\ p.didPreview = d /\ p.seen = seen
  <2>1. own + 1 \in Nat /\ seen \in Seq(Messages)
    BY <1>1 DEF Written
  <2> QED BY <1>1, <2>1 DEF ChatMessage, ToServer
<1> HIDE DEF p
<1>3. toServer' = Append(toServer, p)
  BY DEF p
<1>4. Reported'
  BY <1>2, <1>3, ReportedAppend DEF Honest, Reported
<1>5. ASSUME ~careless'
      PROVE  /\ Linked(toServer', chain, own') /\ Timely(toServer', newest, now', {})
             /\ Formatted'
  <2>1. /\ Linked(toServer, chain, own) /\ Timely(toServer, newest, now, request)
        /\ Formatted /\ h = d /\ now <= now' /\ t <= now'
        /\ newest <= t /\ \A i \in Chats(toServer) : toServer[i].time <= t
    BY <1>5 DEF Honest
  <2>2. Linked(toServer', chain, own')
    BY <1>1, <1>2, <1>3, <2>1, LinkedAppend
  <2>3. Timely(toServer, newest, now', {})
    <3>1. \A i \in Chats(toServer) : toServer[i].time \in Nat
      BY <1>1, ChatsTyped
    <3> QED BY <1>1, <2>1, <3>1 DEF Timely
  <2>4. Timely(toServer', newest, now', {})
    BY <1>1, <1>2, <1>3, <2>1, <2>3, TimelyAppend
  <2>5. Formatted'
    BY <1>2, <1>3, <2>1, FormattedAppend
  <2> QED BY <2>2, <2>4, <2>5
<1>6. HonestStays'
  BY DEF HonestStays, serverVars
<1> QED BY <1>1, <1>4, <1>5, <1>6 DEF Honest, serverVars

LEMMA ChatHonest ==
    ASSUME Typed, Written, Heard, Honest,
           (\E skipPreview \in BOOLEAN : Chat(skipPreview)) \/ Command
    PROVE  Honest'
<1>1. /\ UNCHANGED <<toClient, seen, players, serverVars, heard, handled>>
      /\ raised = "none" /\ now' = now + 1
  BY DEF Chat, Command, UserActs, Open
<1>2. /\ own \in Nat /\ chain \in Nat /\ newest \in Nat /\ now \in Nat /\ requests \in Nat
      /\ toServer \in Seq(ToServer) /\ careless \in BOOLEAN
      /\ request \subseteq [id: Nat, time: Nat]
  BY DEF Written, Honest
<1>3. HonestStays'
  BY <1>1 DEF HonestStays, serverVars
<1>4. \A i \in Chats(toServer) : toServer[i].time \in Nat
  BY <1>2, ChatsTyped
<1>5. CASE Chat(TRUE)
  <2>1. /\ SignMessage /\ toServer' = Append(toServer, ChatMessage(now', FALSE, FALSE))
        /\ careless' = (careless \/ request # {}) /\ request' = request
    BY <1>5 DEF Chat
  <2>2. CASE request = {}
    <3>1. now' \in Nat /\ careless' = careless /\ request' = {}
      BY <1>1, <1>2, <2>1, <2>2
    <3>2. ASSUME ~careless'
          PROVE  /\ ~careless /\ now <= now' /\ newest <= now'
                 /\ \A i \in Chats(toServer) : toServer[i].time <= now'
                 /\ Answered'
      <4>1. Timely(toServer, newest, now, request) /\ Answered /\ ~careless
        BY <1>1, <3>1, <3>2 DEF Honest
      <4> QED BY <1>1, <1>2, <1>4, <4>1 DEF Timely, Answered
    <3> DEFINE t == now'
    <3>3. t \in Nat /\ toServer' = Append(toServer, ChatMessage(t, FALSE, FALSE))
          /\ t <= now'
      BY <2>1, <3>1
    <3> HIDE DEF t
    <3>4. \A i \in Chats(toServer) : ~careless' => toServer[i].time <= t
      BY <3>2 DEF t
    <3>5. ~careless' => newest <= t
      BY <3>2 DEF t
    <3> QED BY <1>1, <1>2, <2>1, <3>1, <3>2, <3>3, <3>4, <3>5, SignedHonest
  <2>3. CASE request # {}
    <3> DEFINE p == ChatMessage(now', FALSE, FALSE)
    <3>1. p \in ToServer /\ p.seen = seen
      <4>1. own' \in Nat /\ now' \in Nat /\ seen \in Seq(Messages)
        BY <1>1, <1>2, <2>1 DEF SignMessage, Written
      <4> QED BY <1>2, <4>1 DEF ChatMessage, ToServer
    <3>2. toServer' = Append(toServer, p)
      BY <2>1
    <3> HIDE DEF p
    <3>3. Reported'
      BY <1>1, <3>1, <3>2, ReportedAppend DEF Honest, Reported
    <3>4. careless' = TRUE
      BY <1>2, <2>1, <2>3
    <3> QED BY <1>1, <1>2, <1>3, <3>3, <3>4 DEF Honest, serverVars
  <2> QED BY <2>2, <2>3
<1>6. CASE Chat(FALSE)
  <2> DEFINE p == [name |-> "chat_preview", query |-> requests]
  <2>1. /\ toServer' = Append(toServer, p) /\ UNCHANGED <<own, careless>>
        /\ request' = {[id |-> requests, time |-> now']}
    BY <1>6 DEF Chat
  <2>2. p \in ToServer /\ p.name = "chat_preview"
    BY <1>2 DEF ToServer
  <2> HIDE DEF p
  <2>3. Reported'
    BY <1>1, <2>1, <2>2, ReportedAppend DEF Honest, Reported
  <2>4. ASSUME ~careless
        PROVE  /\ Linked(toServer', chain, own) /\ Timely(toServer', newest, now', request')
               /\ Formatted' /\ Answered'
    <3>1. /\ Linked(toServer, chain, own) /\ Timely(toServer, newest, now, request)
          /\ Formatted /\ Answered
      BY <1>1, <2>4 DEF Honest
    <3>2. Timely(toServer, newest, now', request')
      BY <1>1, <1>2, <1>4, <2>1, <3>1 DEF Timely
    <3>3. now' \in Nat
      BY <1>1, <1>2
    <3>4. Linked(toServer', chain, own)
      BY <1>2, <2>1, <2>2, <3>1, LinkedQuiet
    <3>5. Timely(toServer', newest, now', request')
      BY <1>2, <2>1, <2>2, <3>2, <3>3, TimelyQuiet
    <3>6. Formatted'
      BY <2>1, <2>2, <3>1, FormattedAppend
    <3> QED BY <1>1, <3>1, <3>4, <3>5, <3>6 DEF Answered
  <2> QED BY <1>1, <1>2, <1>3, <2>1, <2>3, <2>4 DEF Honest, serverVars
<1>7. CASE Command
  <2> DEFINE p == [name |-> "chat_command"]
  <2>1. toServer' = Append(toServer, p) /\ careless' = TRUE
    BY <1>7 DEF Command
  <2>2. p \in ToServer /\ p.name = "chat_command"
    BY DEF ToServer
  <2> HIDE DEF p
  <2>3. Reported'
    BY <1>1, <2>1, <2>2, ReportedAppend DEF Honest, Reported
  <2> QED BY <1>1, <1>2, <1>3, <2>1, <2>3 DEF Honest, serverVars
<1> QED BY <1>5, <1>6, <1>7

LEMMA AnswerHonest ==
    ASSUME Typed, Written, Heard, Honest, OnChatPreview
    PROVE  Honest'
<1>1. /\ UNCHANGED <<seen, players, now, requests, serverVars, historyVars>>
      /\ raised = "none" /\ toClient # <<>> /\ toClient' = Tail(toClient)
      /\ Packet.name = "chat_preview"
  BY DEF OnChatPreview, Parses, Open, Packet
<1>2. /\ newest \in Nat /\ now \in Nat /\ careless \in BOOLEAN
      /\ request \subseteq [id: Nat, time: Nat]
  BY DEF Written, Honest
<1>3. HonestStays'
  BY <1>1 DEF HonestStays, serverVars
<1>4. ASSUME Answered PROVE Answered' /\ Packet.sender = "formatted"
  <2>1. toClient \in Seq(Packets) /\ 1 \in 1..Len(toClient) /\ Packet = toClient[1]
    BY <1>1 DEF Typed, Packet
  <2> QED BY <1>1, <1>4, <2>1, AnsweredTail DEF Answered
<1>5. CASE \E r \in request : r.id = Packet.n
  <2>1. PICK r \in request :
            /\ SignMessage /\ request' = {}
            /\ toServer' = Append(toServer,
                                  ChatMessage(r.time, Packet.sender = "formatted", TRUE))
    BY <1>5 DEF OnChatPreview
  <2> DEFINE h == Packet.sender = "formatted"
  <2>2. r.time \in Nat /\ h \in BOOLEAN /\ toServer' = Append(toServer, ChatMessage(r.time, h, TRUE))
    BY <1>2, <2>1
  <2>3. ASSUME ~careless'
        PROVE  /\ ~careless /\ h = TRUE /\ r.time <= now' /\ newest <= r.time
               /\ \A i \in Chats(toServer) : toServer[i].time <= r.time
               /\ Answered'
    <3>1. ~careless /\ Timely(toServer, newest, now, request) /\ Answered
      BY <1>1, <2>3 DEF Honest, historyVars
    <3> QED BY <1>1, <1>4, <3>1 DEF Timely
  <2>4. now' \in Nat /\ careless' \in BOOLEAN /\ now <= now' /\ UNCHANGED heard
    BY <1>1, <1>2 DEF historyVars
  <2> HIDE DEF h
  <2> QED BY <1>1, <2>1, <2>2, <2>3, <2>4, SignedHonest
<1>6. CASE ~\E r \in request : r.id = Packet.n
  <2>1. UNCHANGED <<own, toServer, request>>
    BY <1>6 DEF OnChatPreview
  <2> QED BY <1>1, <1>3, <1>4, <2>1 DEF Honest, Reported, Formatted, historyVars, serverVars
<1> QED BY <1>5, <1>6

(***************************************************************************)
(* The server reads.                                                       *)
(***************************************************************************)
LEMMA ReadHonest ==
    ASSUME Typed, Written, Heard, Honest,
           \/ OnChatMessage \/ OnMessageAcknowledgement \/ OnChatCommand
           \/ \E form \in {"formatted", "plain"} : Previews(form)
    PROVE  Honest'
<1>1. /\ UNCHANGED <<clientVars, heard, handled, logged>>
      /\ raised = "none" /\ toServer # <<>> /\ toServer' = Tail(toServer)
  BY DEF OnChatMessage, OnMessageAcknowledgement, OnChatCommand, Previews, Reads, Open,
         serverVars, historyVars
<1>2. UNCHANGED <<seen, own, now, request>>
  BY <1>1 DEF clientVars
<1>3. /\ own \in Nat /\ chain \in Nat /\ newest \in Nat /\ now \in Nat
      /\ toServer \in Seq(ToServer) /\ careless \in BOOLEAN
  BY DEF Written, Honest
<1>4. /\ Read \in ToServer /\ Read = toServer[1] /\ 1 \in 1..Len(toServer)
  BY <1>1, <1>3, ChatsTail DEF Read
<1>5. Reported' /\ (Formatted => Formatted')
  BY <1>1, <1>2, FrontRead DEF Honest
<1>6. ASSUME Read.name # "chat_message"
      PROVE  /\ Linked(toServer, chain, own) => Linked(toServer', chain, own)
             /\ Timely(toServer, newest, now, request) => Timely(toServer', newest, now, request)
  BY <1>1, <1>3, <1>6, QuietTail DEF Read
<1>7. ASSUME Read.name \in {"chat_message", "message_acknowledgement"},
             NEW error \in ValidateMessageChain, raised' = error, UNCHANGED careless
      PROVE  HonestStays'
  <2>1. error = "none" \/ (error = "error" /\ Read.seen # <<>>)
    BY <1>7 DEF ValidateMessageChain
  <2>2. Read.seen # <<>> => heard # <<>>
    BY <1>4, <1>7 DEF Honest, Reported
  <2> QED BY <1>1, <1>7, <2>1, <2>2 DEF HonestStays
<1>8. CASE OnChatMessage
  <2>1. /\ UNCHANGED <<toClient, careless>> /\ Read.name = "chat_message"
    BY <1>8 DEF OnChatMessage, Reads, Read, historyVars
  <2>2. Read.time \in Nat /\ Read.sig \in Nat
    BY <1>4, <2>1, ChatTyped
  <2>3. CASE Read.time < newest
    <3>1. raised' = "out_of_order_chat" /\ UNCHANGED <<newest, chain>>
      BY <1>8, <2>3 DEF OnChatMessage
    <3>2. careless
      <4>1. SUFFICES ASSUME ~careless PROVE FALSE
        OBVIOUS
      <4>2. Timely(toServer, newest, now, request)
        BY <1>1, <4>1 DEF Honest
      <4>3. newest <= Read.time
        BY <1>1, <1>3, <2>1, <4>2, <1>4 DEF Timely, Chats
      <4> QED BY <1>3, <2>2, <2>3, <4>3
    <3> QED BY <1>3, <1>5, <2>1, <3>1, <3>2 DEF Honest, HonestStays
  <2>4. CASE ~(Read.time < newest)
    <3>1. PICK error \in ValidateMessageChain :
              /\ newest' = Read.time /\ chain' = Read.sig
              /\ raised' = IF error = "none" /\ ~Verified THEN "unsigned_chat" ELSE error
      BY <1>8, <2>4 DEF OnChatMessage
    <3>2. ASSUME ~careless
          PROVE  /\ Verified /\ Linked(toServer', chain', own)
                 /\ Timely(toServer', newest', now, request) /\ Formatted' /\ Answered'
      <4>1. /\ Linked(toServer, chain, own) /\ Timely(toServer, newest, now, request)
            /\ Formatted /\ Answered
        BY <1>1, <3>2 DEF Honest
      <4>2. Read.over = chain /\ Linked(toServer', chain', own)
        BY <1>1, <1>3, <2>1, <3>1, <4>1, LinkedTail DEF Read
      <4>3. Timely(toServer', newest', now, request)
        BY <1>1, <1>3, <2>1, <3>1, <4>1, TimelyTail DEF Read
      <4>4. Read.hashed = Read.didPreview
        BY <1>4, <2>1, <4>1 DEF Formatted, Chats
      <4> QED BY <1>5, <2>1, <4>1, <4>2, <4>3, <4>4 DEF Verified, Answered
    <3>3. HonestStays'
      <4>1. CASE careless
        BY <2>1, <4>1 DEF HonestStays
      <4>2. CASE ~careless
        BY <1>7, <2>1, <3>1, <3>2, <4>2
      <4> QED BY <4>1, <4>2
    <3> QED BY <1>2, <1>3, <1>5, <2>1, <2>2, <3>1, <3>2, <3>3 DEF Honest
  <2> QED BY <2>3, <2>4
<1>9. CASE OnMessageAcknowledgement
  <2>1. /\ UNCHANGED <<toClient, chain, newest, careless>>
        /\ Read.name = "message_acknowledgement" /\ raised' \in ValidateMessageChain
    BY <1>9 DEF OnMessageAcknowledgement, Reads, Read, historyVars
  <2>2. HonestStays'
    BY <1>7, <2>1
  <2> QED BY <1>1, <1>2, <1>3, <1>5, <1>6, <2>1, <2>2 DEF Honest, Answered
<1>10. CASE OnChatCommand
  <2>1. /\ UNCHANGED <<toClient, chain, newest, careless, raised>>
        /\ Read.name = "chat_command"
    BY <1>10 DEF OnChatCommand, Reads, Read, historyVars, serverVars
  <2>2. HonestStays'
    BY <1>1, <2>1 DEF HonestStays
  <2> QED BY <1>1, <1>2, <1>3, <1>5, <1>6, <2>1, <2>2 DEF Honest, Answered
<1>11. ASSUME NEW form \in {"formatted", "plain"}, Previews(form) PROVE Honest'
  <2> DEFINE p == [name |-> "chat_preview", sender |-> form, n |-> Read.query]
  <2>1. /\ UNCHANGED <<chain, newest, raised>> /\ Read.name = "chat_preview"
        /\ toClient' = Append(toClient, p) /\ careless' = (careless \/ form = "plain")
    BY <1>11 DEF Previews, Reads, Read, serverVars
  <2>2. p \in Packets /\ p.sender = form
    <3>1. Read.query \in Nat
      BY <1>4, <2>1 DEF ToServer
    <3> QED BY <3>1 DEF Packets
  <2> HIDE DEF p
  <2>3. HonestStays'
    BY <1>1, <2>1 DEF HonestStays
  <2>4. careless' \in BOOLEAN /\ (~careless' => ~careless /\ form = "formatted")
    BY <1>3, <2>1
  <2>5. ASSUME Answered, ~careless' PROVE Answered'
    BY <2>1, <2>2, <2>4, <2>5, AnsweredAppend
  <2> QED BY <1>1, <1>2, <1>3, <1>5, <1>6, <2>1, <2>3, <2>4, <2>5 DEF Honest
<1> QED BY <1>8, <1>9, <1>10, <1>11

LEMMA NextHonest == IInv /\ Written /\ Heard /\ Honest /\ [Next]_vars => Honest'
<1> SUFFICES ASSUME IInv, Written, Heard, Honest, [Next]_vars PROVE Honest'
  OBVIOUS
<1>1. Typed
  BY DEF IInv
<1>2. CASE UNCHANGED vars
  BY <1>2 DEF vars, clientVars, serverVars, historyVars, Honest, Reported, Formatted, Answered,
              HonestStays
<1> QED BY <1>1, <1>2, RelayHonest, HearHonest, ChatHonest, AnswerHonest, ReadHonest DEF Next

LEMMA InitHeard == Init => Heard /\ Honest
<1> SUFFICES ASSUME Init PROVE Heard /\ Honest
  OBVIOUS
<1>1. /\ heard = <<>> /\ seen = <<>> /\ toServer = <<>> /\ toClient = <<>>
      /\ chain = 0 /\ own = 0 /\ newest = 0 /\ now = 0 /\ request = {}
      /\ raised = "none" /\ careless = FALSE
  BY DEF Init
<1>2. <<>> \in Seq(Messages) /\ Len(<<>>) = 0 /\ 1..0 = {}
  OBVIOUS
<1>3. SubSeq(heard, 1, 0) = <<>>
  BY <1>1, <1>2
<1>4. Heard
  BY <1>1, <1>2, <1>3, ChatChainAssumption DEF Heard, Distinct, SeenNewest
<1>5. Chats(toServer) = {}
  BY <1>1, <1>2 DEF Chats
<1>6. Linked(toServer, chain, own) /\ Timely(toServer, newest, now, request)
  BY <1>1, <1>5 DEF Linked, Timely
<1>7. Formatted /\ Answered /\ Reported
  BY <1>1, <1>2, <1>5 DEF Formatted, Answered, Reported
<1> QED BY <1>1, <1>4, <1>6, <1>7 DEF Honest, HonestStays

(***************************************************************************)
(* LastSeenMessages.push (client/chat.js): for any number of players and   *)
(* any capacity the list is what was heard last of each of the last        *)
(* players that wrote, newest first.                                       *)
(***************************************************************************)
THEOREM SeenCorrect == Spec => []SeenNewest
<1>1. Init => IInv /\ Written /\ Heard
  <2>1. Init => Written
    BY DEF Init, Written
  <2> QED BY <2>1, InitInv, InitHeard
<1>2. IInv /\ Written /\ Heard /\ [Next]_vars => (IInv /\ Written /\ Heard)'
  BY NextInv, NextHeard
<1>3. Heard => SeenNewest
  BY DEF Heard
<1> QED BY <1>1, <1>2, <1>3, PTL DEF Spec

(***************************************************************************)
(* The listeners of server/chat.js: a client that signs is disconnected    *)
(* for the reasons that HonestStays names and for no other, however its    *)
(* messages, reports and previews cross those of the server.               *)
(***************************************************************************)
THEOREM HonestIsKept == Spec => []HonestStays
<1>1. Init => IInv /\ Written /\ Heard /\ Honest
  <2>1. Init => Written
    BY DEF Init, Written
  <2> QED BY <2>1, InitInv, InitHeard
<1>2. IInv /\ Written /\ Heard /\ Honest /\ [Next]_vars
        => (IInv /\ Written /\ Heard /\ Honest)'
  BY NextInv, NextHeard, NextHonest
<1>3. Honest => HonestStays
  BY DEF Honest
<1> QED BY <1>1, <1>2, <1>3, PTL DEF Spec
=============================================================================
