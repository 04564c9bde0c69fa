------------------------------- MODULE MCData -------------------------------
(***************************************************************************)
(* The two algorithms on data, side by side: a behaviour is that of one    *)
(* command tree or that of one packet, and the other part is at its end.   *)
(*                                                                         *)
(* Trees of three nodes: every list of at most one child, in range or not, *)
(* and two of two children, for each node; and every redirect of each node *)
(* along a path and along a circle of children.                            *)
(*                                                                         *)
(* Packets of one field of each type, and of that field and a second one.  *)
(***************************************************************************)
EXTENDS CommandTree, Codecs, TLC

Nums == 0..Nodes

MCIndex == 0..Nodes - 1

NoRedirect == [n \in MCIndex |-> {}]

MCT(children, redirect, arrays) ==
    [root |-> 0, children |-> children, redirect |-> redirect, arrays |-> arrays,
     named |-> {1, 2}, messages |-> {2}]

MCChildren == {<<>>, <<1, 2>>, <<2, 1>>} \cup {<<n>> : n \in Nums}

MCTree ==
    {MCT(c, NoRedirect, MCIndex) : c \in [MCIndex -> MCChildren]}
    \cup {MCT((0 :> <<1>>) @@ (1 :> c) @@ (2 :> <<>>), r, a) :
            c \in {<<2>>, <<0>>},
            r \in [MCIndex -> {{}} \cup {{n} : n \in Nums}],
            a \in {MCIndex, MCIndex \ {0}, MCIndex \ {2}}}

Num(kind, n) == Val(kind, n, <<>>)

List(kind, items) == Val(kind, 0, items)

Of(type, values) == {[type |-> type, value |-> v] : v \in values}

Ids == {<<>>, <<Entry(0, 1)>>, <<Entry(0, 0), Entry(0, 5), Entry(0, -1)>>}

ItemLists == {<<>>, <<Entry(0, 1)>>, <<Entry(3, 9), Entry(2, -1)>>,
            <<Entry(1, 0), Entry(0, 5), Entry(3, 2)>>}

MCFields ==
    Of("optionalVarInt", {Num("none", 0)} \cup {Num("number", n) : n \in 0..14})
    \cup Of("varlong", {Num("bigint", n) : n \in -16..15}
                           \cup {Num("number", n) : n \in {-9, -8, 0, 8, 9}})
    \cup Of("registryEntryHolder", {Num("base", n) : n \in {0, 3, 14}}
                                       \cup {Num("other", n) : n \in {0, -1, 7}})
    \cup Of("registryEntryHolderSet", {Num("base", n) : n \in {0, 7}}
                                          \cup {List("other", l) : l \in Ids})
    \cup Of("entityMetadataLoop", {List("number", l) : l \in ItemLists})
    \cup Of("topBitSetTerminatedArray", {List("number", l) : l \in ItemLists})
    \cup Of("vecDelta",
            {Num(k, n) : k \in {"air", "ground"}, n \in {-4, 0, 3}}
            \cup {[List("ground", <<Entry(0, -4), Entry(9, 3), Entry(3, 1)>>) EXCEPT !.n = 0],
                  [List("air", <<Entry(5, -4)>>) EXCEPT !.n = -4]})
    \cup Of("clickActionNbt", {Num("none", 0)} \cup {Num("tag", n) : n \in 0..5})
    \cup Of("compressedNbt", {Num("none", 0)} \cup {Num("tag", n) : n \in 0..3})
    \cup Of("lpVec3", {Num("number", n) :
            n \in {-127, -67, -64, -63, -16, -4, -3, 0, 1, 3, 4, 5, 63, 64}})
    \cup Of("UUID", {Num(k, n) : k \in {"dashed", "hex"}, n \in {0, 5}})
    \cup Of("restBuffer", {List("number", l) : l \in {<<>>, <<Entry(7, 0), Entry(0, 0)>>}})

Seconds ==
    Of("varlong", {Num("bigint", 9)})
    \cup Of("entityMetadataLoop", {List("number", <<Entry(3, 9)>>)})
    \cup Of("restBuffer", {List("number", <<Entry(6, 0)>>)})
    \cup Of("topBitSetTerminatedArray",
                {List("number", <<Entry(3, 9), Entry(2, -1)>>)})

(* A restBuffer takes what is left and is the last field of its packet. *)
MCPackets ==
    {<<f>> : f \in MCFields}
    \cup {<<f, g>> : f \in {x \in MCFields : x.type # "restBuffer"}, g \in Seconds}

MCInit ==
    \/ /\ TreeInit
       /\ packet = <<>> /\ stage = "done" /\ got = <<>>
       /\ writer = "compiled" /\ reader = "compiled"
       /\ fill = 0 /\ buffer = <<>> /\ cursor = 0 /\ field = 1
    \/ /\ CodecsInit
       /\ tree = MCT([n \in MCIndex |-> <<>>], NoRedirect, {})
       /\ validator = "canBuild" /\ pending = {} /\ pass = {} /\ progressed = FALSE
       /\ verdict = "refused" /\ stack = <<>> /\ slices = <<>>

MCNext ==
    \/ TreeNext /\ UNCHANGED packetVars
    \/ CodecsNext /\ UNCHANGED treeVars

MCSpec == MCInit /\ [][MCNext]_<<treeVars, packetVars>>
=============================================================================
