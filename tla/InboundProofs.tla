--------------------------- MODULE InboundProofs ----------------------------
(***************************************************************************)
(* For any number of frames, any budget of a turn and any limit of a       *)
(* bundle: packets are emitted in the order their frames arrived and each  *)
(* once, and none is lost but those that do not parse, with the bundle of  *)
(* one.  Frames pass from the chunk that waits to the buffer, to what the  *)
(* paused splitter holds, to a parser that has not ticked, to the bundle   *)
(* and to the events; what is further is older, at every moment.           *)
(*                                                                         *)
(* Bundles are emitted whole: one is open behind an odd number of          *)
(* delimiters, and holds nothing but the delimiter that opened it and what *)
(* came behind it.                                                         *)
(***************************************************************************)
EXTENDS Inbound, SequenceTheorems, TLAPS

Parsed == [id: Nat, kind: Parsable, mark: Nat]

Parsers == [fresh: BOOLEAN, failed: BOOLEAN, packets: Seq(Parsed)]

Before(S, T) == \A a \in S, b \in T : a < b

Sorted(s) == \A i, j \in 1..Len(s) : i < j => s[i] < s[j]

SortedIds(s) == \A i, j \in 1..Len(s) : i < j => s[i].id < s[j].id

Typed ==
    /\ arrived \in Nat /\ marks \in Nat
    /\ queued \in Seq(Nat) /\ buffer \in Seq(Nat) /\ held \in Seq(Nat)
    /\ parser \in Parsers
    /\ bundle \in Seq(Parsed) /\ emitted \in Seq(Parsed)
    /\ flowing \in BOOLEAN /\ behindSwitch \in BOOLEAN

(* What was read: e and b are emitted and bundle, k the packets of a parser. *)
InLine(e, b, k) ==
    /\ SortedIds(e) /\ SortedIds(b) /\ SortedIds(k)
    /\ Before(Ids(e), Ids(b)) /\ Before(Ids(e), Ids(k)) /\ Before(Ids(b), Ids(k))

Passed == Ids(emitted) \cup Ids(bundle) \cup Ids(parser.packets)

Line ==
    /\ InLine(emitted, bundle, parser.packets)
    /\ Sorted(held) /\ Sorted(buffer) /\ Sorted(queued)
    /\ Before(Passed, Range(held)) /\ Before(Passed, Range(buffer))
    /\ Before(Passed, Range(queued)) /\ Before(Range(held), Range(buffer))
    /\ Before(Range(held), Range(queued)) /\ Before(Range(buffer), Range(queued))
    /\ Passed \cup Waiting \subseteq 1..arrived

(* A parser keeps packets until its tick, and only behind a switch. *)
Keeps ==
    /\ parser.failed => ~flowing
    /\ parser.packets # <<>> /\ ~parser.fresh /\ ~parser.failed => stack = "parser"
    /\ ~behindSwitch => parser.packets = <<>>
    /\ queued # <<>> => immediate \/ stack = "frames"

IInv == Typed /\ Line /\ Keeps /\ NothingLost

-----------------------------------------------------------------------------
(* Sequences of frames and of packets *)

LEMMA FramesTail ==
    ASSUME NEW s \in Seq(Nat), s # <<>>, Sorted(s)
    PROVE  /\ Tail(s) \in Seq(Nat) /\ Sorted(Tail(s)) /\ Head(s) \in Nat
           /\ Range(s) = {Head(s)} \cup Range(Tail(s))
           /\ Before({Head(s)}, Range(Tail(s)))
<1>1. /\ Tail(s) \in Seq(Nat) /\ Len(Tail(s)) = Len(s) - 1 /\ Head(s) = s[1]
      /\ Len(s) \in Nat /\ Len(s) >= 1
      /\ \A i \in 1..Len(Tail(s)) : i + 1 \in 2..Len(s) /\ Tail(s)[i] = s[i + 1]
  OBVIOUS
<1>2. Range(Tail(s)) = {s[i] : i \in 2..Len(s)}
  <2> DEFINE t == Tail(s)
  <2>1. DOMAIN t = 1..Len(t) /\ \A i \in 1..Len(t) : i + 1 \in 2..Len(s) /\ t[i] = s[i + 1]
    BY <1>1
  <2>2. \A i \in 2..Len(s) : i - 1 \in 1..Len(t) /\ s[i] = t[i - 1]
    BY <1>1
  <2> HIDE DEF t
  <2>3. Range(t) \subseteq {s[i] : i \in 2..Len(s)}
    BY <2>1 DEF Range
  <2>4. {s[i] : i \in 2..Len(s)} \subseteq Range(t)
    BY <2>1, <2>2 DEF Range
  <2> QED BY <2>3, <2>4 DEF t
<1>3. Range(s) = {s[1]} \cup {s[i] : i \in 2..Len(s)}
  BY <1>1 DEF Range
<1>4. Sorted(Tail(s))
  BY <1>1 DEF Sorted
<1>5. \A i \in 2..Len(s) : s[1] < s[i]
  BY <1>1 DEF Sorted
<1> QED BY <1>1, <1>2, <1>3, <1>4, <1>5 DEF Before

LEMMA FramesCat ==
    ASSUME NEW s \in Seq(Nat), NEW t \in Seq(Nat), Sorted(s), Sorted(t),
           Before(Range(s), Range(t))
    PROVE  /\ s \o t \in Seq(Nat) /\ Sorted(s \o t)
           /\ Range(s \o t) = Range(s) \cup Range(t)
<1>1. /\ s \o t \in Seq(Nat) /\ Len(s \o t) = Len(s) + Len(t)
      /\ Len(s) \in Nat /\ Len(t) \in Nat
      /\ \A i \in 1..Len(s) + Len(t) :
             (s \o t)[i] = IF i <= Len(s) THEN s[i] ELSE t[i - Len(s)]
  BY ConcatProperties
<1> DEFINE c == s \o t
<1> HIDE DEF c
<1>2. /\ \A i \in 1..Len(s) : i \in 1..Len(c) /\ c[i] = s[i]
      /\ \A i \in 1..Len(t) : i + Len(s) \in 1..Len(c) /\ c[i + Len(s)] = t[i]
  BY <1>1 DEF c
<1>3. \A i \in 1..Len(c) :
          \/ i \in 1..Len(s) /\ c[i] = s[i]
          \/ i - Len(s) \in 1..Len(t) /\ c[i] = t[i - Len(s)]
  BY <1>1 DEF c
<1>4. DOMAIN c = 1..Len(c) /\ DOMAIN s = 1..Len(s) /\ DOMAIN t = 1..Len(t)
  BY <1>1 DEF c
<1>5. Range(c) = Range(s) \cup Range(t)
  <2>1. Range(c) \subseteq Range(s) \cup Range(t)
    BY <1>3, <1>4 DEF Range
  <2>2. Range(s) \subseteq Range(c)
    BY <1>2, <1>4 DEF Range
  <2>3. Range(t) \subseteq Range(c)
    BY <1>2, <1>4 DEF Range
  <2> QED BY <2>1, <2>2, <2>3
<1>6. Sorted(c)
  <2> SUFFICES ASSUME NEW i \in 1..Len(c), NEW j \in 1..Len(c), i < j PROVE c[i] < c[j]
    BY DEF Sorted
  <2>1. CASE i \in 1..Len(s) /\ j \in 1..Len(s)
    BY <1>2, <2>1 DEF Sorted
  <2>2. CASE i \in 1..Len(s) /\ j \notin 1..Len(s)
    <3>1. c[i] = s[i] /\ s[i] \in Range(s)
      BY <1>2, <1>4, <2>2 DEF Range
    <3>2. c[j] = t[j - Len(s)] /\ j - Len(s) \in 1..Len(t)
      BY <1>3, <2>2
    <3>3. t[j - Len(s)] \in Range(t)
      BY <3>2, <1>4 DEF Range
    <3> QED BY <3>1, <3>2, <3>3 DEF Before
  <2>3. CASE i \notin 1..Len(s)
    <3>1. /\ i - Len(s) \in 1..Len(t) /\ j - Len(s) \in 1..Len(t) /\ i - Len(s) < j - Len(s)
          /\ c[i] = t[i - Len(s)] /\ c[j] = t[j - Len(s)]
      BY <1>1, <1>3, <2>3
    <3> QED BY <3>1 DEF Sorted
  <2> QED BY <2>1, <2>2, <2>3
<1> QED BY <1>1, <1>5, <1>6 DEF c

LEMMA FramesAppend ==
    ASSUME NEW s \in Seq(Nat), NEW x \in Nat, Sorted(s), Before(Range(s), {x})
    PROVE  /\ Append(s, x) \in Seq(Nat) /\ Sorted(Append(s, x))
           /\ Range(Append(s, x)) = Range(s) \cup {x}
<1>1. /\ Append(s, x) \in Seq(Nat) /\ Len(Append(s, x)) = Len(s) + 1 /\ Len(s) \in Nat
      /\ \A i \in 1..Len(s) : Append(s, x)[i] = s[i]
      /\ Append(s, x)[Len(s) + 1] = x
  OBVIOUS
<1> DEFINE c == Append(s, x)
<1> HIDE DEF c
<1>2. DOMAIN c = 1..Len(s) + 1 /\ DOMAIN s = 1..Len(s) /\ Len(c) = Len(s) + 1
  BY <1>1 DEF c
<1>3. (\A i \in 1..Len(s) : c[i] = s[i]) /\ c[Len(s) + 1] = x
  BY <1>1 DEF c
<1>4. Range(c) = Range(s) \cup {x}
  BY <1>1, <1>2, <1>3 DEF Range
<1>5. \A i \in 1..Len(s) : s[i] < x
  BY <1>2 DEF Before, Range
<1>6. Sorted(c)
  BY <1>1, <1>2, <1>3, <1>5 DEF Sorted
<1> QED BY <1>1, <1>4, <1>6 DEF c

LEMMA PacketsTail ==
    ASSUME NEW s \in Seq(Parsed), s # <<>>, SortedIds(s)
    PROVE  /\ Tail(s) \in Seq(Parsed) /\ SortedIds(Tail(s)) /\ Head(s) \in Parsed
           /\ Ids(s) = {Head(s).id} \cup Ids(Tail(s))
           /\ Before({Head(s).id}, Ids(Tail(s)))
<1>1. /\ Tail(s) \in Seq(Parsed) /\ Len(Tail(s)) = Len(s) - 1 /\ Head(s) = s[1]
      /\ Len(s) \in Nat /\ Len(s) >= 1 /\ s[1] \in Parsed
      /\ \A i \in 1..Len(Tail(s)) : i + 1 \in 2..Len(s) /\ Tail(s)[i] = s[i + 1]
  OBVIOUS
<1>2. Ids(Tail(s)) = {s[i].id : i \in 2..Len(s)}
  <2> DEFINE t == Tail(s)
  <2>1. DOMAIN t = 1..Len(t) /\ \A i \in 1..Len(t) : i + 1 \in 2..Len(s) /\ t[i] = s[i + 1]
    BY <1>1
  <2>2. \A i \in 2..Len(s) : i - 1 \in 1..Len(t) /\ s[i] = t[i - 1]
    BY <1>1
  <2> HIDE DEF t
  <2>3. Ids(t) \subseteq {s[i].id : i \in 2..Len(s)}
    BY <2>1 DEF Ids
  <2>4. {s[i].id : i \in 2..Len(s)} \subseteq Ids(t)
    BY <2>1, <2>2 DEF Ids
  <2> QED BY <2>3, <2>4 DEF t
<1>3. Ids(s) = {s[1].id} \cup {s[i].id : i \in 2..Len(s)}
  BY <1>1 DEF Ids
<1>4. SortedIds(Tail(s))
  BY <1>1 DEF SortedIds
<1>5. \A i \in 2..Len(s) : s[1].id < s[i].id
  BY <1>1 DEF SortedIds
<1> QED BY <1>1, <1>2, <1>3, <1>4, <1>5 DEF Before

LEMMA PacketsCat ==
    ASSUME NEW s \in Seq(Parsed), NEW t \in Seq(Parsed), SortedIds(s), SortedIds(t),
           Before(Ids(s), Ids(t))
    PROVE  /\ s \o t \in Seq(Parsed) /\ SortedIds(s \o t)
           /\ Ids(s \o t) = Ids(s) \cup Ids(t)
<1>1. /\ s \o t \in Seq(Parsed) /\ Len(s \o t) = Len(s) + Len(t)
      /\ Len(s) \in Nat /\ Len(t) \in Nat
      /\ \A i \in 1..Len(s) + Len(t) :
             (s \o t)[i] = IF i <= Len(s) THEN s[i] ELSE t[i - Len(s)]
  BY ConcatProperties
<1> DEFINE c == s \o t
<1> HIDE DEF c
<1>2. /\ \A i \in 1..Len(s) : i \in 1..Len(c) /\ c[i] = s[i]
      /\ \A i \in 1..Len(t) : i + Len(s) \in 1..Len(c) /\ c[i + Len(s)] = t[i]
  BY <1>1 DEF c
<1>3. \A i \in 1..Len(c) :
          \/ i \in 1..Len(s) /\ c[i] = s[i]
          \/ i - Len(s) \in 1..Len(t) /\ c[i] = t[i - Len(s)]
  BY <1>1 DEF c
<1>4. DOMAIN c = 1..Len(c) /\ DOMAIN s = 1..Len(s) /\ DOMAIN t = 1..Len(t)
  BY <1>1 DEF c
<1>5. Ids(c) = Ids(s) \cup Ids(t)
  <2>1. Ids(c) \subseteq Ids(s) \cup Ids(t)
    BY <1>3, <1>4 DEF Ids
  <2>2. Ids(s) \subseteq Ids(c)
    BY <1>2, <1>4 DEF Ids
  <2>3. Ids(t) \subseteq Ids(c)
    BY <1>2, <1>4 DEF Ids
  <2> QED BY <2>1, <2>2, <2>3
<1>6. SortedIds(c)
  <2> SUFFICES ASSUME NEW i \in 1..Len(c), NEW j \in 1..Len(c), i < j
               PROVE  c[i].id < c[j].id
    BY DEF SortedIds
  <2>1. CASE i \in 1..Len(s) /\ j \in 1..Len(s)
    BY <1>2, <2>1 DEF SortedIds
  <2>2. CASE i \in 1..Len(s) /\ j \notin 1..Len(s)
    <3>1. c[i] = s[i] /\ s[i].id \in Ids(s)
      BY <1>2, <1>4, <2>2 DEF Ids
    <3>2. c[j] = t[j - Len(s)] /\ j - Len(s) \in 1..Len(t)
      BY <1>3, <2>2
    <3>3. t[j - Len(s)].id \in Ids(t)
      BY <3>2, <1>4 DEF Ids
    <3> QED BY <3>1, <3>2, <3>3 DEF Before
  <2>3. CASE i \notin 1..Len(s)
    <3>1. /\ i - Len(s) \in 1..Len(t) /\ j - Len(s) \in 1..Len(t) /\ i - Len(s) < j - Len(s)
          /\ c[i] = t[i - Len(s)] /\ c[j] = t[j - Len(s)]
      BY <1>1, <1>3, <2>3
    <3> QED BY <3>1 DEF SortedIds
  <2> QED BY <2>1, <2>2, <2>3
<1> QED BY <1>1, <1>5, <1>6 DEF c

LEMMA PacketsAppend ==
    ASSUME NEW s \in Seq(Parsed), NEW x \in Parsed, SortedIds(s), Before(Ids(s), {x.id})
    PROVE  /\ Append(s, x) \in Seq(Parsed) /\ SortedIds(Append(s, x))
           /\ Ids(Append(s, x)) = Ids(s) \cup {x.id}
<1>1. /\ Append(s, x) \in Seq(Parsed) /\ Len(Append(s, x)) = Len(s) + 1 /\ Len(s) \in Nat
      /\ \A i \in 1..Len(s) : Append(s, x)[i] = s[i]
      /\ Append(s, x)[Len(s) + 1] = x
  OBVIOUS
<1> DEFINE c == Append(s, x)
<1> HIDE DEF c
<1>2. DOMAIN c = 1..Len(s) + 1 /\ DOMAIN s = 1..Len(s) /\ Len(c) = Len(s) + 1
  BY <1>1 DEF c
<1>3. (\A i \in 1..Len(s) : c[i] = s[i]) /\ c[Len(s) + 1] = x
  BY <1>1 DEF c
<1>4. Ids(c) = Ids(s) \cup {x.id}
  BY <1>1, <1>2, <1>3 DEF Ids
<1>5. \A i \in 1..Len(s) : s[i].id < x.id
  BY <1>2 DEF Before, Ids
<1>6. SortedIds(c)
  BY <1>1, <1>2, <1>3, <1>5 DEF SortedIds
<1> QED BY <1>1, <1>4, <1>6 DEF c

LEMMA NoPackets ==
    <<>> \in Seq(Parsed) /\ SortedIds(<<>>) /\ Ids(<<>>) = {}
BY DEF SortedIds, Ids

LEMMA ChunkInOrder ==
    ASSUME NEW a \in Nat, NEW n \in Nat, a < n
    PROVE  LET chunk == [i \in 1..n - a |-> a + i]
           IN  /\ chunk \in Seq(Nat) /\ Sorted(chunk) /\ Range(chunk) = a + 1..n
<1> DEFINE c == [i \in 1..n - a |-> a + i]
<1>1. n - a \in Nat
  OBVIOUS
<1>2. c \in Seq(Nat) /\ Len(c) = n - a
  BY <1>1
<1>3. \A i \in 1..n - a : c[i] = a + i
  OBVIOUS
<1>4. DOMAIN c = 1..n - a
  OBVIOUS
<1> HIDE DEF c
<1>5. Sorted(c)
  BY <1>2, <1>3 DEF Sorted
<1>6. Range(c) = a + 1..n
  <2>1. Range(c) \subseteq a + 1..n
    BY <1>1, <1>3, <1>4 DEF Range
  <2>2. \A x \in a + 1..n : x - a \in 1..n - a /\ c[x - a] = x
    BY <1>3
  <2>3. a + 1..n \subseteq Range(c)
    BY <2>2, <1>4 DEF Range
  <2> QED BY <2>1, <2>3
<1> QED BY <1>2, <1>5, <1>6 DEF c

LEMMA FreshIsParser == Fresh \in Parsers
BY NoPackets DEF Fresh, Parsers

-----------------------------------------------------------------------------
(* A packet is emitted or put in the bundle *)

LEMMA CollectAll ==
    ASSUME bundle \in Seq(Parsed), NEW p \in Parsed
    PROVE  LET out == Collect(p)[1]
               left == Collect(p)[2]
           IN  \/ out = Append(bundle, p) /\ left = <<>>
               \/ out = <<>> /\ left = Append(bundle, p)
<1>1. bundle = <<>> => Append(bundle, p) = <<p>>
  OBVIOUS
<1> QED BY <1>1 DEF Collect

LEMMA EmitKeepsOrder ==
    ASSUME Typed, NEW p \in Parsed, NEW rest \in Parsers,
           SortedIds(emitted), SortedIds(bundle), SortedIds(rest.packets),
           Before(Ids(emitted), Ids(bundle)),
           Before(Ids(emitted) \cup Ids(bundle), {p.id}),
           Before(Ids(emitted) \cup Ids(bundle) \cup {p.id}, Ids(rest.packets)),
           Emit(p, rest)
    PROVE  /\ emitted' \in Seq(Parsed) /\ bundle' \in Seq(Parsed)
           /\ InLine(emitted', bundle', parser'.packets)
           /\ Ids(emitted') \cup Ids(bundle')
                = Ids(emitted) \cup Ids(bundle) \cup {p.id}
           /\ \/ parser' = rest /\ flowing' = flowing
              \/ parser' = Fresh /\ flowing' = TRUE
<1> DEFINE all == Append(bundle, p)
<1>1. all \in Seq(Parsed) /\ SortedIds(all) /\ Ids(all) = Ids(bundle) \cup {p.id}
  <2>1. bundle \in Seq(Parsed) /\ Before(Ids(bundle), {p.id})
    BY DEF Typed, Before
  <2> QED BY <2>1, PacketsAppend
<1>2. Before(Ids(emitted), Ids(all))
  BY <1>1 DEF Before
<1> DEFINE out == Collect(p)[1]
           left == Collect(p)[2]
<1>3. (out = all /\ left = <<>>) \/ (out = <<>> /\ left = all)
  BY CollectAll DEF Typed
<1>4. emitted' = emitted \o out /\ bundle' = left
  BY DEF Emit
<1>5. \/ parser' = rest /\ flowing' = flowing
      \/ parser' = Fresh /\ flowing' = TRUE
  BY DEF Emit
<1>6. parser'.packets = rest.packets \/ parser'.packets = <<>>
  BY <1>5 DEF Fresh
<1> HIDE DEF all, out, left
<1>7. /\ emitted' \in Seq(Parsed) /\ SortedIds(emitted')
      /\ bundle' \in Seq(Parsed) /\ SortedIds(bundle')
      /\ Before(Ids(emitted'), Ids(bundle'))
      /\ Ids(emitted') \cup Ids(bundle') = Ids(emitted) \cup Ids(bundle) \cup {p.id}
  <2>1. CASE out = all /\ left = <<>>
    <3>1. /\ emitted \o all \in Seq(Parsed) /\ SortedIds(emitted \o all)
          /\ Ids(emitted \o all) = Ids(emitted) \cup Ids(all)
      BY <1>1, <1>2, PacketsCat DEF Typed
    <3>2. Before(Ids(emitted'), {})
      BY DEF Before
    <3> QED BY <1>1, <1>4, <2>1, <3>1, <3>2, NoPackets
  <2>2. CASE out = <<>> /\ left = all
    <3>1. emitted \o <<>> = emitted
      BY DEF Typed
    <3> QED BY <1>1, <1>2, <1>4, <2>2, <3>1 DEF Typed
  <2> QED BY <1>3, <2>1, <2>2
<1>8. InLine(emitted', bundle', parser'.packets)
  <2>1. SortedIds(parser'.packets) /\ Ids(parser'.packets) \subseteq Ids(rest.packets)
    BY <1>6, NoPackets
  <2> QED BY <1>7, <2>1 DEF InLine, Before
<1> QED BY <1>5, <1>7, <1>8

-----------------------------------------------------------------------------
(* The parser is given the frame behind all it has read *)

LEMMA ReadKeepsLine ==
    ASSUME Typed, Keeps, InLine(emitted, bundle, parser.packets), stack # "parser",
           NEW x \in Nat, Before(Passed, {x}), flowing, Read(x)
    PROVE  /\ emitted' \in Seq(Parsed) /\ bundle' \in Seq(Parsed)
           /\ parser' \in Parsers /\ flowing' \in BOOLEAN
           /\ marks' \in Nat /\ behindSwitch' \in BOOLEAN
           /\ InLine(emitted', bundle', parser'.packets)
           /\ Passed' \subseteq Passed \cup {x}
           /\ parser'.failed => ~flowing'
           /\ parser'.packets = <<>> \/ parser'.fresh \/ parser'.failed
           /\ ~behindSwitch' => ~behindSwitch /\ parser'.packets = <<>>
           /\ ~behindSwitch' => Passed' \cup gone' = Passed \cup gone \cup {x}
<1>1. /\ ~parser.failed
      /\ parser.packets # <<>> => parser.fresh
      /\ ~behindSwitch => parser.packets = <<>>
  BY DEF Keeps
<1>2. behindSwitch' = (behindSwitch \/ parser.fresh)
  BY DEF Read
<1>3. parser \in Parsers /\ marks \in Nat /\ behindSwitch \in BOOLEAN
  BY DEF Typed
<1>4. behindSwitch' \in BOOLEAN
  BY <1>2, <1>3 DEF Parsers
<1>5. CASE ReadMalformed(x)
  <2>1. parser'.failed /\ parser'.packets = parser.packets /\ parser' \in Parsers
    BY <1>3, <1>5 DEF ReadMalformed, Parsers
  <2> QED BY <1>1, <1>2, <1>3, <1>4, <1>5, <2>1
          DEF ReadMalformed, Typed, Passed, clientVars
<1>6. CASE ReadDamaged(x)
  BY <1>1, <1>2, <1>3, <1>4, <1>6 DEF ReadDamaged, Typed, Passed, clientVars
<1>7. ASSUME NEW kind \in Parsable, ReadPacket(x, kind)
      PROVE  /\ emitted' \in Seq(Parsed) /\ bundle' \in Seq(Parsed)
             /\ parser' \in Parsers /\ flowing' \in BOOLEAN
             /\ marks' \in Nat /\ gone' = gone
             /\ InLine(emitted', bundle', parser'.packets)
             /\ Passed' \subseteq Passed \cup {x}
             /\ parser'.failed => ~flowing'
             /\ parser'.packets = <<>> \/ parser'.fresh
             /\ ~parser.fresh => parser'.packets = <<>> /\ Passed' = Passed \cup {x}
  <2> DEFINE p == [id |-> x, kind |-> kind, mark |-> marks]
  <2>1. p \in Parsed /\ p.id = x
    BY <1>3 DEF Parsed
  <2>2. marks' \in Nat /\ gone' = gone
    BY <1>3, <1>7 DEF ReadPacket
  <2>3. CASE parser.fresh
    <3> DEFINE more == Append(parser.packets, p)
    <3>1. /\ parser' = [parser EXCEPT !.packets = more]
          /\ UNCHANGED <<flowing, bundle, emitted>>
      BY <1>7, <2>3 DEF ReadPacket, clientVars
    <3>2. /\ more \in Seq(Parsed) /\ SortedIds(more)
          /\ Ids(more) = Ids(parser.packets) \cup {x}
      <4>1. /\ parser.packets \in Seq(Parsed) /\ SortedIds(parser.packets)
            /\ Before(Ids(parser.packets), {p.id})
        BY <1>3, <2>1 DEF Parsers, InLine, Before, Passed
      <4> HIDE DEF p
      <4> QED BY <2>1, <4>1, PacketsAppend
    <3> HIDE DEF p, more
    <3>3. /\ parser' \in Parsers /\ parser'.packets = more
          /\ parser'.fresh /\ ~parser'.failed
      BY <1>1, <1>3, <2>3, <3>1, <3>2 DEF Parsers
    <3>4. Passed' = Passed \cup {x}
      BY <3>1, <3>2, <3>3 DEF Passed
    <3>5. InLine(emitted', bundle', parser'.packets)
      BY <3>1, <3>2, <3>3 DEF InLine, Before, Passed
    <3> QED BY <2>2, <2>3, <3>1, <3>3, <3>4, <3>5 DEF Typed
  <2>4. CASE ~parser.fresh
    <3>1. Emit(p, parser) /\ parser.packets = <<>>
      BY <1>1, <1>7, <2>4 DEF ReadPacket
    <3>2. /\ SortedIds(emitted) /\ SortedIds(bundle) /\ SortedIds(parser.packets)
          /\ Before(Ids(emitted), Ids(bundle))
          /\ Before(Ids(emitted) \cup Ids(bundle), {p.id})
          /\ Before(Ids(emitted) \cup Ids(bundle) \cup {p.id}, Ids(parser.packets))
      BY <2>1, <3>1, NoPackets DEF InLine, Passed, Before
    <3> HIDE DEF p
    <3>3. /\ emitted' \in Seq(Parsed) /\ bundle' \in Seq(Parsed)
          /\ InLine(emitted', bundle', parser'.packets)
          /\ Ids(emitted') \cup Ids(bundle') = Ids(emitted) \cup Ids(bundle) \cup {x}
          /\ \/ parser' = parser /\ flowing' = flowing
             \/ parser' = Fresh /\ flowing' = TRUE
      BY <1>3, <2>1, <3>1, <3>2, EmitKeepsOrder
    <3>4. /\ parser' \in Parsers /\ flowing' \in BOOLEAN
          /\ parser'.packets = <<>> /\ ~parser'.failed
      <4>1. CASE parser' = parser /\ flowing' = flowing
        <5>1. flowing \in BOOLEAN
          BY DEF Typed
        <5> QED BY <1>1, <1>3, <3>1, <4>1, <5>1
      <4>2. CASE parser' = Fresh /\ flowing' = TRUE
        <5>1. Fresh \in Parsers
          BY FreshIsParser
        <5> QED BY <4>2, <5>1 DEF Fresh
      <4> QED BY <3>3, <4>1, <4>2
    <3>5. Passed' = Passed \cup {x}
      BY <3>1, <3>3, <3>4, NoPackets DEF Passed
    <3> QED BY <2>2, <3>3, <3>4, <3>5
  <2> QED BY <2>3, <2>4
<1> QED BY <1>1, <1>2, <1>4, <1>5, <1>6, <1>7 DEF Read

-----------------------------------------------------------------------------
(* The steps *)

LEMMA InitIInv == Init => IInv
<1> SUFFICES ASSUME Init PROVE IInv
  OBVIOUS
<1>1. parser = [fresh |-> FALSE, failed |-> FALSE, packets |-> <<>>]
  BY DEF Init, Fresh
<1>2. parser \in Parsers /\ parser.packets = <<>> /\ ~parser.failed
  BY <1>1, NoPackets DEF Parsers
<1>3. <<>> \in Seq(Nat) /\ Sorted(<<>>) /\ Range(<<>>) = {}
  BY DEF Sorted, Range
<1>4. Typed
  BY <1>2, <1>3, NoPackets DEF Init, Typed
<1>5. Passed = {} /\ Waiting = {} /\ 1..arrived = {}
  BY <1>2, <1>3, NoPackets DEF Init, Passed, Waiting
<1>6. Line
  BY <1>2, <1>3, <1>5, NoPackets DEF Init, Line, InLine, Before, Waiting
<1>7. Keeps
  BY <1>2 DEF Init, Keeps
<1>8. NothingLost
  BY <1>5 DEF Init, NothingLost, Passed
<1> QED BY <1>4, <1>6, <1>7, <1>8 DEF IInv

LEMMA ArriveStep == IInv /\ Arrive => IInv'
<1> SUFFICES ASSUME IInv, Arrive PROVE IInv'
  OBVIOUS
<1>1. /\ stack = "none" /\ reader = "live"
      /\ UNCHANGED <<immediate, held, flowing, parser, bundle, reader, emitted, gone,
                     marks, behindSwitch>>
  BY DEF Arrive, AtRest, Running, pipeVars, clientVars, history
<1>2. PICK n \in arrived + 1..MaxFrames :
          LET chunk == [i \in 1..n - arrived |-> arrived + i]
          IN  /\ arrived' = n
              /\ IF immediate
                 THEN queued' = queued \o chunk /\ UNCHANGED <<buffer, stack>>
                 ELSE buffer' = buffer \o chunk /\ stack' = "frames" /\ queued' = queued
  BY DEF Arrive
<1> DEFINE chunk == [i \in 1..n - arrived |-> arrived + i]
<1>3. arrived \in Nat /\ n \in Nat /\ arrived < n
  BY <1>2 DEF IInv, Typed
<1>4. chunk \in Seq(Nat) /\ Sorted(chunk) /\ Range(chunk) = arrived + 1..n
  BY <1>3, ChunkInOrder
<1>5. /\ arrived' = n
      /\ immediate => queued' = queued \o chunk /\ UNCHANGED <<buffer, stack>>
      /\ ~immediate => buffer' = buffer \o chunk /\ stack' = "frames" /\ queued' = queued
  BY <1>2
<1> HIDE DEF chunk
<1>6. Before(Passed \cup Waiting, Range(chunk))
  BY <1>3, <1>4 DEF IInv, Line, Before
<1>7. /\ buffer' \in Seq(Nat) /\ queued' \in Seq(Nat)
      /\ Sorted(buffer') /\ Sorted(queued')
      /\ Before(Range(buffer'), Range(queued'))
      /\ Range(buffer') \cup Range(queued')
            = Range(buffer) \cup Range(queued) \cup Range(chunk)
      /\ Before(Passed \cup Range(held), Range(buffer') \cup Range(queued'))
      /\ queued' # <<>> => immediate \/ stack' = "frames"
  <2>1. /\ buffer \in Seq(Nat) /\ queued \in Seq(Nat)
        /\ Sorted(buffer) /\ Sorted(queued) /\ Before(Range(buffer), Range(queued))
        /\ Before(Passed \cup Range(held), Range(buffer) \cup Range(queued))
    BY DEF IInv, Typed, Line, Before
  <2>2. Before(Range(queued), Range(chunk)) /\ Before(Range(buffer), Range(chunk))
        /\ Before(Passed \cup Range(held), Range(chunk))
    BY <1>6 DEF Before, Waiting
  <2>3. CASE immediate
    <3>1. /\ queued' \in Seq(Nat) /\ Sorted(queued')
          /\ Range(queued') = Range(queued) \cup Range(chunk)
      <4>1. queued \in Seq(Nat) /\ Sorted(queued) /\ Before(Range(queued), Range(chunk))
        BY <2>1, <2>2
      <4>2. /\ queued \o chunk \in Seq(Nat) /\ Sorted(queued \o chunk)
            /\ Range(queued \o chunk) = Range(queued) \cup Range(chunk)
        BY <1>4, <4>1, FramesCat
      <4> QED BY <1>5, <2>3, <4>2
    <3> QED BY <1>5, <2>1, <2>2, <2>3, <3>1 DEF Before
  <2>4. CASE ~immediate
    <3>1. queued = <<>> /\ queued' = <<>> /\ Range(queued) = {}
      BY <1>1, <1>5, <2>4 DEF IInv, Keeps, Range
    <3>2. /\ buffer' \in Seq(Nat) /\ Sorted(buffer')
          /\ Range(buffer') = Range(buffer) \cup Range(chunk)
      <4>1. buffer \in Seq(Nat) /\ Sorted(buffer) /\ Before(Range(buffer), Range(chunk))
        BY <2>1, <2>2
      <4>2. /\ buffer \o chunk \in Seq(Nat) /\ Sorted(buffer \o chunk)
            /\ Range(buffer \o chunk) = Range(buffer) \cup Range(chunk)
        BY <1>4, <4>1, FramesCat
      <4> QED BY <1>5, <2>4, <4>2
    <3> QED BY <1>5, <2>1, <2>2, <2>4, <3>1, <3>2 DEF Before
  <2> QED BY <2>3, <2>4
<1>8. Passed' = Passed /\ Waiting' = Waiting \cup Range(chunk)
  BY <1>1, <1>7 DEF Passed, Waiting
<1>9. Typed'
  BY <1>1, <1>3, <1>5, <1>7 DEF IInv, Typed
<1>10. Line'
  <2>1. Passed' \cup Waiting' \subseteq 1..arrived'
    BY <1>3, <1>4, <1>5, <1>8 DEF IInv, Line
  <2>2. Before(Passed, Range(held)) /\ Sorted(held) /\ InLine(emitted, bundle, parser.packets)
    BY DEF IInv, Line
  <2> QED BY <1>1, <1>7, <1>8, <2>1, <2>2 DEF Line, Before
<1>11. Keeps'
  <2>1. stack' # "parser" /\ (parser.packets # <<>> => parser.fresh \/ parser.failed)
    BY <1>1, <1>5 DEF IInv, Keeps
  <2> QED BY <1>1, <1>7, <2>1 DEF IInv, Keeps
<1>12. NothingLost'
  <2>1. 1..arrived' = 1..arrived \cup Range(chunk)
    BY <1>3, <1>4, <1>5
  <2> QED BY <1>1, <1>8, <2>1 DEF IInv, NothingLost, Passed
<1> QED BY <1>9, <1>10, <1>11, <1>12 DEF IInv

(* A step of the splitter or of the pipe that gives the parser the oldest *)
(* frame x that waits.                                                     *)
LEMMA ReadStep ==
    ASSUME IInv, reader = "live", stack # "parser", stack' = stack,
           NEW x \in Nat, flowing, Read(x),
           Before(Passed, {x}), x \in 1..arrived,
           UNCHANGED <<arrived, queued, immediate>>,
           held' \in Seq(Nat), buffer' \in Seq(Nat), Sorted(held'), Sorted(buffer'),
           Range(held') \subseteq Range(held), Range(buffer') \subseteq Range(buffer),
           Before({x}, Range(held') \cup Range(buffer') \cup Range(queued)),
           Range(held) \cup Range(buffer) = {x} \cup Range(held') \cup Range(buffer')
    PROVE  IInv'
<1>1. /\ emitted' \in Seq(Parsed) /\ bundle' \in Seq(Parsed)
      /\ parser' \in Parsers /\ flowing' \in BOOLEAN
      /\ marks' \in Nat /\ behindSwitch' \in BOOLEAN
      /\ InLine(emitted', bundle', parser'.packets)
      /\ Passed' \subseteq Passed \cup {x}
      /\ parser'.failed => ~flowing'
      /\ parser'.packets = <<>> \/ parser'.fresh \/ parser'.failed
      /\ ~behindSwitch' => ~behindSwitch /\ parser'.packets = <<>>
      /\ ~behindSwitch' => Passed' \cup gone' = Passed \cup gone \cup {x}
  <2>1. Typed /\ Keeps /\ InLine(emitted, bundle, parser.packets)
    BY DEF IInv, Line
  <2> QED BY <2>1, ReadKeepsLine
<1>2. Typed'
  BY <1>1 DEF IInv, Typed
<1>3. Line'
  <2>1. /\ Before(Passed, Range(held)) /\ Before(Passed, Range(buffer))
        /\ Before(Passed, Range(queued)) /\ Before(Range(held), Range(buffer))
        /\ Before(Range(held), Range(queued)) /\ Before(Range(buffer), Range(queued))
        /\ Sorted(queued) /\ Passed \cup Waiting \subseteq 1..arrived
    BY DEF IInv, Line
  <2>2. /\ Before(Range(held'), Range(buffer')) /\ Before(Range(held'), Range(queued))
        /\ Before(Range(buffer'), Range(queued))
    BY <2>1 DEF Before
  <2>3. /\ Before(Passed', Range(held')) /\ Before(Passed', Range(buffer'))
        /\ Before(Passed', Range(queued))
    BY <1>1, <2>1 DEF Before
  <2>4. Passed' \cup Waiting' \subseteq 1..arrived
    BY <1>1, <2>1 DEF Waiting
  <2> QED BY <1>1, <2>1, <2>2, <2>3, <2>4 DEF Line
<1>4. Keeps'
  BY <1>1 DEF IInv, Keeps
<1>5. NothingLost'
  <2>1. SUFFICES ASSUME ~behindSwitch'
                 PROVE  1..arrived = Waiting' \cup Passed' \cup gone'
    BY DEF NothingLost, Passed
  <2>2. 1..arrived = Waiting \cup Passed \cup gone
    BY <1>1, <2>1 DEF IInv, NothingLost, Passed
  <2>3. Waiting = Waiting' \cup {x}
    BY DEF Waiting
  <2> QED BY <1>1, <2>1, <2>2, <2>3
<1> QED BY <1>2, <1>3, <1>4, <1>5 DEF IInv

LEMMA PushStep == IInv /\ Push => IInv'
<1> SUFFICES ASSUME IInv, Push PROVE IInv'
  OBVIOUS
<1>1. /\ reader = "live" /\ stack = "frames" /\ buffer # <<>> /\ buffer' = Tail(buffer)
      /\ UNCHANGED <<arrived, queued, immediate, stack>>
  BY DEF Push, Running
<1> DEFINE x == Head(buffer)
<1>2. /\ Tail(buffer) \in Seq(Nat) /\ Sorted(Tail(buffer)) /\ x \in Nat
      /\ Range(buffer) = {x} \cup Range(Tail(buffer))
      /\ Before({x}, Range(Tail(buffer)))
  <2>1. buffer \in Seq(Nat) /\ Sorted(buffer)
    BY DEF IInv, Typed, Line
  <2> QED BY <1>1, <2>1, FramesTail
<1>3. /\ Before(Passed, {x}) /\ Before(Range(held), {x}) /\ Before({x}, Range(queued))
      /\ x \in 1..arrived
  BY <1>2 DEF IInv, Line, Before, Waiting
<1>4. CASE flowing /\ held = <<>>
  <2>1. Read(x) /\ held' = held /\ Range(held) = {}
    BY <1>4 DEF Push, Range
  <2> HIDE DEF x
  <2>2. held' \in Seq(Nat) /\ Sorted(held')
    BY <2>1 DEF IInv, Typed, Line
  <2>3. Before({x}, Range(held') \cup Range(buffer') \cup Range(queued))
    BY <1>1, <1>2, <1>3, <2>1 DEF Before
  <2> QED BY <1>1, <1>2, <1>3, <1>4, <2>1, <2>2, <2>3, ReadStep
<1>5. CASE ~(flowing /\ held = <<>>)
  <2>1. /\ held' = Append(held, x)
        /\ UNCHANGED <<flowing, parser, bundle, reader, emitted, gone, marks, behindSwitch>>
    BY <1>5 DEF Push, clientVars, history
  <2> HIDE DEF x
  <2>2. /\ held' \in Seq(Nat) /\ Sorted(held') /\ Range(held') = Range(held) \cup {x}
    <3>1. held \in Seq(Nat) /\ Sorted(held)
      BY DEF IInv, Typed, Line
    <3> QED BY <1>2, <1>3, <2>1, <3>1, FramesAppend
  <2>3. Passed' = Passed /\ Waiting' = Waiting
    BY <1>1, <1>2, <2>1, <2>2 DEF Passed, Waiting
  <2>4. Typed'
    BY <1>1, <1>2, <2>1, <2>2 DEF IInv, Typed
  <2>5. Line'
    <3>1. /\ Before(Passed, Range(held)) /\ Before(Passed, Range(buffer))
          /\ Before(Passed, Range(queued)) /\ Before(Range(held), Range(buffer))
          /\ Before(Range(held), Range(queued)) /\ Before(Range(buffer), Range(queued))
          /\ Sorted(queued) /\ Passed \cup Waiting \subseteq 1..arrived
          /\ InLine(emitted, bundle, parser.packets)
      BY DEF IInv, Line
    <3>2. /\ Before(Passed, Range(held')) /\ Before(Passed, Range(buffer'))
          /\ Before(Range(held'), Range(buffer')) /\ Before(Range(held'), Range(queued))
          /\ Before(Range(buffer'), Range(queued))
      BY <1>1, <1>2, <1>3, <2>2, <3>1 DEF Before
    <3> QED BY <1>1, <1>2, <2>1, <2>2, <2>3, <3>1, <3>2 DEF Line
  <2>6. Keeps'
    BY <1>1, <2>1 DEF IInv, Keeps
  <2>7. NothingLost'
    BY <1>1, <2>1, <2>3 DEF IInv, NothingLost
  <2> QED BY <2>4, <2>5, <2>6, <2>7 DEF IInv
<1> QED BY <1>4, <1>5

(* What moves no packet and no frame. *)
LEMMA QuietStep ==
    ASSUME IInv,
           UNCHANGED <<arrived, queued, buffer, held, flowing, bundle, reader, emitted,
                       gone, marks, behindSwitch>>,
           parser' \in Parsers, parser'.packets = parser.packets,
           parser'.failed = parser.failed,
           parser.packets # <<>> /\ ~parser'.fresh /\ ~parser.failed => stack' = "parser",
           queued # <<>> => immediate' \/ stack' = "frames"
    PROVE  IInv'
<1>1. Passed' = Passed /\ Waiting' = Waiting
  BY DEF Passed, Waiting
<1>2. Typed'
  BY DEF IInv, Typed
<1>3. Line'
  BY <1>1 DEF IInv, Line
<1>4. Keeps'
  BY DEF IInv, Keeps
<1>5. NothingLost'
  BY <1>1 DEF IInv, NothingLost
<1> QED BY <1>2, <1>3, <1>4, <1>5 DEF IInv

LEMMA FramesDoneStep == IInv /\ FramesDone => IInv'
<1> SUFFICES ASSUME IInv, FramesDone PROVE IInv'
  OBVIOUS
<1>1. /\ stack = "frames" /\ buffer = <<>> /\ buffer' = queued /\ queued' = <<>>
      /\ stack' # "parser"
      /\ UNCHANGED <<arrived, immediate, held, flowing, parser, bundle, reader, emitted,
                     gone, marks, behindSwitch>>
  BY DEF FramesDone, Running, pipeVars, clientVars, history
<1>2. Range(<<>>) = {} /\ Sorted(<<>>) /\ <<>> \in Seq(Nat)
  BY DEF Range, Sorted
<1>3. Passed' = Passed /\ Waiting' = Waiting
  BY <1>1, <1>2 DEF Passed, Waiting
<1>4. Typed'
  BY <1>1, <1>2 DEF IInv, Typed
<1>5. Line'
  <2>1. /\ Before(Passed, Range(queued)) /\ Before(Range(held), Range(queued))
        /\ Before(Passed, Range(held)) /\ Sorted(queued) /\ Sorted(held)
        /\ Passed \cup Waiting \subseteq 1..arrived
        /\ InLine(emitted, bundle, parser.packets)
    BY DEF IInv, Line
  <2>2. /\ Before(Passed, {}) /\ Before(Range(held), {}) /\ Before(Range(queued), {})
    BY DEF Before
  <2> QED BY <1>1, <1>2, <1>3, <2>1, <2>2 DEF Line
<1>6. Keeps'
  BY <1>1 DEF IInv, Keeps
<1>7. NothingLost'
  BY <1>1, <1>3 DEF IInv, NothingLost
<1> QED BY <1>4, <1>5, <1>6, <1>7 DEF IInv

LEMMA FlowSourceStep == IInv /\ FlowSource => IInv'
<1> SUFFICES ASSUME IInv, FlowSource PROVE IInv'
  OBVIOUS
<1>1. /\ reader = "live" /\ stack = "source"
      /\ UNCHANGED <<arrived, queued, buffer, immediate>>
  BY DEF FlowSource, Running, splitterVars
<1>2. CASE flowing /\ held # <<>>
  <2> DEFINE x == Head(held)
  <2>1. Read(x) /\ held' = Tail(held) /\ stack' = stack
    BY <1>2 DEF FlowSource
  <2>2. /\ Tail(held) \in Seq(Nat) /\ Sorted(Tail(held)) /\ x \in Nat
        /\ Range(held) = {x} \cup Range(Tail(held))
        /\ Before({x}, Range(Tail(held)))
    <3>1. held \in Seq(Nat) /\ Sorted(held)
      BY DEF IInv, Typed, Line
    <3> QED BY <1>2, <3>1, FramesTail
  <2>3. /\ Before(Passed, {x}) /\ x \in 1..arrived
        /\ Before({x}, Range(buffer)) /\ Before({x}, Range(queued))
    BY <2>2 DEF IInv, Line, Before, Waiting
  <2> HIDE DEF x
  <2>4. buffer' \in Seq(Nat) /\ Sorted(buffer')
    BY <1>1 DEF IInv, Typed, Line
  <2>5. Before({x}, Range(held') \cup Range(buffer') \cup Range(queued))
    BY <1>1, <2>1, <2>2, <2>3 DEF Before
  <2> QED BY <1>1, <1>2, <2>1, <2>2, <2>3, <2>4, <2>5, ReadStep
<1>3. CASE ~(flowing /\ held # <<>>)
  <2>1. /\ UNCHANGED <<held, flowing, parser, bundle, reader, emitted, gone, marks,
                       behindSwitch>>
    BY <1>3 DEF FlowSource, pipeVars, clientVars, history
  <2>2. /\ parser.packets # <<>> /\ ~parser.fresh => parser.failed
        /\ queued # <<>> => immediate
        /\ parser \in Parsers
    BY <1>1 DEF IInv, Keeps, Typed
  <2> QED BY <1>1, <2>1, <2>2, QuietStep
<1> QED BY <1>2, <1>3

LEMMA FlowParserStep == IInv /\ FlowParser => IInv'
<1> SUFFICES ASSUME IInv, FlowParser PROVE IInv'
  OBVIOUS
<1>1. /\ reader = "live" /\ stack = "parser"
      /\ UNCHANGED <<arrived, queued, buffer, immediate, held, gone, marks, behindSwitch>>
  BY DEF FlowParser, Running, splitterVars
<1>2. parser \in Parsers /\ parser.packets \in Seq(Parsed)
  BY DEF IInv, Typed, Parsers
<1>3. CASE ~parser.fresh /\ ~parser.failed /\ parser.packets # <<>>
  <2> DEFINE p == Head(parser.packets)
             rest == [parser EXCEPT !.packets = Tail(@)]
  <2>1. Emit(p, rest) /\ stack' = stack
    BY <1>3 DEF FlowParser
  <2>2. /\ Tail(parser.packets) \in Seq(Parsed) /\ SortedIds(Tail(parser.packets))
        /\ p \in Parsed
        /\ Ids(parser.packets) = {p.id} \cup Ids(Tail(parser.packets))
        /\ Before({p.id}, Ids(Tail(parser.packets)))
    <3>1. SortedIds(parser.packets)
      BY DEF IInv, Line, InLine
    <3> QED BY <1>2, <1>3, <3>1, PacketsTail
  <2>3. /\ rest \in Parsers /\ rest.packets = Tail(parser.packets)
        /\ ~rest.failed
    BY <1>2, <1>3, <2>2 DEF Parsers
  <2> HIDE DEF p, rest
  <2>4. InLine(emitted, bundle, parser.packets)
    BY DEF IInv, Line
  <2>5. /\ SortedIds(emitted) /\ SortedIds(bundle) /\ SortedIds(rest.packets)
        /\ Before(Ids(emitted), Ids(bundle))
        /\ Before(Ids(emitted) \cup Ids(bundle), {p.id})
        /\ Before(Ids(emitted) \cup Ids(bundle) \cup {p.id}, Ids(rest.packets))
    BY <2>2, <2>3, <2>4 DEF InLine, Before
  <2>6. /\ emitted' \in Seq(Parsed) /\ bundle' \in Seq(Parsed)
        /\ InLine(emitted', bundle', parser'.packets)
        /\ Ids(emitted') \cup Ids(bundle') = Ids(emitted) \cup Ids(bundle) \cup {p.id}
        /\ \/ parser' = rest /\ flowing' = flowing
           \/ parser' = Fresh /\ flowing' = TRUE
    <3>1. Typed
      BY DEF IInv
    <3> QED BY <2>1, <2>2, <2>3, <2>5, <3>1, EmitKeepsOrder
  <2>7. parser' \in Parsers /\ flowing' \in BOOLEAN /\ ~parser'.failed
    <3>1. CASE parser' = rest /\ flowing' = flowing
      <4>1. flowing \in BOOLEAN
        BY DEF IInv, Typed
      <4> QED BY <2>3, <3>1, <4>1
    <3>2. CASE parser' = Fresh /\ flowing' = TRUE
      <4>1. Fresh \in Parsers /\ ~Fresh.failed
        BY FreshIsParser DEF Fresh
      <4> QED BY <3>2, <4>1
    <3> QED BY <2>6, <3>1, <3>2
  <2>8. Passed' \subseteq Passed /\ Waiting' = Waiting
    <3>1. Ids(parser'.packets) \subseteq Ids(rest.packets)
      BY <2>6, NoPackets DEF Fresh
    <3> QED BY <1>1, <2>2, <2>3, <2>6, <3>1 DEF Passed, Waiting
  <2>9. Typed'
    BY <1>1, <2>6, <2>7 DEF IInv, Typed
  <2>10. Line'
    <3>1. /\ Before(Passed, Range(held)) /\ Before(Passed, Range(buffer))
          /\ Before(Passed, Range(queued)) /\ Before(Range(held), Range(buffer))
          /\ Before(Range(held), Range(queued)) /\ Before(Range(buffer), Range(queued))
          /\ Sorted(held) /\ Sorted(buffer) /\ Sorted(queued)
          /\ Passed \cup Waiting \subseteq 1..arrived
      BY DEF IInv, Line
    <3>2. /\ Before(Passed', Range(held)) /\ Before(Passed', Range(buffer))
          /\ Before(Passed', Range(queued)) /\ Passed' \cup Waiting' \subseteq 1..arrived
      BY <2>8, <3>1 DEF Before
    <3> QED BY <1>1, <2>6, <3>1, <3>2 DEF Line
  <2>11. behindSwitch
    BY <1>3 DEF IInv, Keeps
  <2>12. Keeps'
    BY <1>1, <2>1, <2>7, <2>11 DEF IInv, Keeps
  <2>13. NothingLost'
    BY <1>1, <2>11 DEF NothingLost
  <2> QED BY <2>9, <2>10, <2>12, <2>13 DEF IInv
<1>4. CASE ~(~parser.fresh /\ ~parser.failed /\ parser.packets # <<>>)
  <2>1. UNCHANGED <<flowing, parser, bundle, reader, emitted>>
    BY <1>4 DEF FlowParser, clientVars
  <2>2. queued # <<>> => immediate
    BY <1>1 DEF IInv, Keeps
  <2> QED BY <1>1, <1>2, <1>4, <2>1, <2>2, QuietStep
<1> QED BY <1>3, <1>4

LEMMA ParserErrorStep == IInv /\ ParserError => IInv'
<1> SUFFICES ASSUME IInv, ParserError PROVE IInv'
  OBVIOUS
<1>1. /\ stack = "none" /\ parser' = Fresh /\ bundle' = <<>> /\ flowing' = TRUE
      /\ gone' = gone \cup Ids(bundle)
      /\ UNCHANGED <<arrived, queued, buffer, immediate, held, reader, stack, emitted,
                     marks, behindSwitch>>
  BY DEF ParserError, Tick, Running, splitterVars
<1>2. parser' \in Parsers /\ parser'.packets = <<>> /\ ~parser'.failed /\ parser'.fresh
  BY <1>1, FreshIsParser DEF Fresh
<1>3. Passed' = Ids(emitted) /\ Waiting' = Waiting
  BY <1>1, <1>2, NoPackets DEF Passed, Waiting
<1>4. Typed'
  BY <1>1, <1>2, NoPackets DEF IInv, Typed
<1>5. Line'
  <2>1. /\ Before(Passed, Range(held)) /\ Before(Passed, Range(buffer))
        /\ Before(Passed, Range(queued)) /\ Before(Range(held), Range(buffer))
        /\ Before(Range(held), Range(queued)) /\ Before(Range(buffer), Range(queued))
        /\ Sorted(held) /\ Sorted(buffer) /\ Sorted(queued)
        /\ Passed \cup Waiting \subseteq 1..arrived /\ SortedIds(emitted)
    BY DEF IInv, Line, InLine
  <2>2. /\ Before(Passed', Range(held)) /\ Before(Passed', Range(buffer))
        /\ Before(Passed', Range(queued)) /\ Passed' \cup Waiting' \subseteq 1..arrived
    BY <1>3, <2>1 DEF Before, Passed
  <2>3. InLine(emitted', bundle', parser'.packets)
    BY <1>1, <1>2, <2>1, NoPackets DEF InLine, Before
  <2> QED BY <1>1, <2>1, <2>2, <2>3 DEF Line
<1>6. Keeps'
  BY <1>1, <1>2 DEF IInv, Keeps
<1>7. NothingLost'
  <2>1. ~behindSwitch => Ids(parser.packets) = {}
    BY NoPackets DEF IInv, Keeps
  <2>2. Ids(bundle') = {} /\ Ids(parser'.packets) = {}
    BY <1>1, <1>2, NoPackets
  <2> QED BY <1>1, <1>3, <2>1, <2>2 DEF IInv, NothingLost
<1> QED BY <1>4, <1>5, <1>6, <1>7 DEF IInv

LEMMA StepIInv == IInv /\ [Next]_vars => IInv'
<1> SUFFICES ASSUME IInv, [Next]_vars PROVE IInv'
  OBVIOUS
<1>1. /\ parser \in Parsers
      /\ parser.packets # <<>> /\ ~parser.fresh /\ ~parser.failed => stack = "parser"
      /\ queued # <<>> => immediate \/ stack = "frames"
  BY DEF IInv, Typed, Keeps
<1>2. CASE Yield
  <2>1. /\ immediate' = TRUE /\ stack = "frames"
        /\ UNCHANGED <<arrived, queued, buffer, held, flowing, parser, bundle, reader,
                       emitted, gone, marks, behindSwitch>>
    BY <1>2 DEF Yield, Running, pipeVars, clientVars, history
  <2> QED BY <1>1, <2>1, QuietStep
<1>3. CASE ProcessFramesAgain
  <2>1. /\ stack = "none" /\ stack' = "frames"
        /\ UNCHANGED <<arrived, queued, buffer, held, flowing, parser, bundle, reader,
                       emitted, gone, marks, behindSwitch>>
    BY <1>3 DEF ProcessFramesAgain, AtRest, Running, pipeVars, clientVars, history
  <2> QED BY <1>1, <2>1, QuietStep
<1>4. CASE SourceTick
  <2>1. /\ stack = "none" /\ stack' = "source"
        /\ UNCHANGED <<arrived, queued, buffer, immediate, held, flowing, parser, bundle,
                       reader, emitted, gone, marks, behindSwitch>>
    BY <1>4 DEF SourceTick, Tick, Running, splitterVars, clientVars, history
  <2> QED BY <1>1, <2>1, QuietStep
<1>5. CASE ParserTick
  <2>1. /\ stack = "none" /\ stack' = "parser"
        /\ parser' = [parser EXCEPT !.fresh = FALSE]
        /\ UNCHANGED <<arrived, queued, buffer, immediate, held, flowing, bundle,
                       reader, emitted, gone, marks, behindSwitch>>
    BY <1>5 DEF ParserTick, Tick, Running, splitterVars, clientVars, history
  <2>2. /\ parser' \in Parsers /\ parser'.packets = parser.packets
        /\ parser'.failed = parser.failed
    BY <1>1, <2>1 DEF Parsers
  <2> QED BY <1>1, <2>1, <2>2, QuietStep
<1>6. CASE UNCHANGED vars
  <2>1. UNCHANGED <<arrived, queued, buffer, immediate, held, flowing, parser, bundle,
                    reader, emitted, gone, marks, behindSwitch, stack>>
    BY <1>6 DEF vars, splitterVars, pipeVars, clientVars, history
  <2> QED BY <1>1, <2>1, QuietStep
<1> QED BY <1>2, <1>3, <1>4, <1>5, <1>6, ArriveStep, PushStep, FramesDoneStep,
           FlowSourceStep, FlowParserStep, ParserErrorStep DEF Next, Turn

-----------------------------------------------------------------------------

(***************************************************************************)
(* The chain from the splitter to the listeners delivers: each packet      *)
(* once, in order, and all but what does not parse, whatever the number of *)
(* frames, the budget of a turn of processFrames and the limit of bundles. *)
(***************************************************************************)
THEOREM DeliveryCorrect == Spec => []Delivered
<1>1. Init => IInv
  BY InitIInv
<1>2. IInv /\ [Next]_vars => IInv'
  BY StepIInv
<1>3. IInv => Delivered
  <2> SUFFICES ASSUME IInv PROVE Delivered
    OBVIOUS
  <2>1. emitted \in Seq(Parsed) /\ SortedIds(emitted)
    BY DEF IInv, Typed, Line, InLine
  <2>2. InOrder
    BY <2>1 DEF SortedIds, InOrder
  <2> QED BY <2>2 DEF IInv, Delivered
<1> QED BY <1>1, <1>2, <1>3, PTL DEF Spec

-----------------------------------------------------------------------------
(* Bundles *)

Together(e) ==
    \A i \in 1..Len(e) :
        e[i].mark % 2 = 1 =>
            \E j \in 1..Len(e) : e[j].kind = "delimiter" /\ e[j].mark = e[i].mark

(* A bundle is open behind an odd number of delimiters, and of those marks. *)
Marked ==
    /\ broken \in BOOLEAN
    /\ ~behindSwitch /\ ~broken =>
           /\ Together(emitted)
           /\ bundle = <<>> <=> marks % 2 = 0
           /\ \A i \in 1..Len(bundle) : bundle[i].mark % 2 = 1 => bundle[i].mark = marks

LEMMA TogetherCat ==
    ASSUME NEW s \in Seq(Parsed), NEW t \in Seq(Parsed), Together(s), Together(t)
    PROVE  Together(s \o t)
<1> DEFINE c == s \o t
           n == Len(s)
<1>1. /\ Len(c) = n + Len(t) /\ n \in Nat /\ Len(t) \in Nat
      /\ \A i \in 1..n : i \in 1..Len(c) /\ c[i] = s[i]
      /\ \A i \in 1..Len(t) : n + i \in 1..Len(c) /\ c[n + i] = t[i]
  OBVIOUS
<1> HIDE DEF c, n
<1>2. ASSUME NEW i \in 1..Len(c), c[i].mark % 2 = 1
      PROVE  \E j \in 1..Len(c) : c[j].kind = "delimiter" /\ c[j].mark = c[i].mark
  <2>1. CASE i \in 1..n
    <3>1. PICK j \in 1..n : s[j].kind = "delimiter" /\ s[j].mark = s[i].mark
      BY <1>1, <1>2, <2>1 DEF Together, n
    <3> QED BY <1>1, <2>1, <3>1
  <2>2. CASE i \notin 1..n
    <3> DEFINE k == i - n
    <3>1. k \in 1..Len(t) /\ c[i] = t[k]
      <4>1. k \in 1..Len(t) /\ n + k = i
        BY <1>1, <1>2, <2>2
      <4> QED BY <1>1, <4>1
    <3> HIDE DEF k
    <3>2. PICK j \in 1..Len(t) : t[j].kind = "delimiter" /\ t[j].mark = t[k].mark
      BY <1>2, <3>1 DEF Together
    <3> QED BY <1>1, <3>1, <3>2
  <2> QED BY <2>1, <2>2
<1> QED BY <1>2 DEF Together, c

(***************************************************************************)
(* The packet behind marks delimiters is collected.                        *)
(***************************************************************************)
LEMMA EmitMarks ==
    ASSUME Typed, Marked, NEW p \in Parsed, NEW rest, Emit(p, rest), p.mark = marks,
           marks' = IF p.kind = "delimiter" THEN marks + 1 ELSE marks,
           ~behindSwitch, ~broken, ~broken'
    PROVE  /\ Together(emitted')
           /\ bundle' = <<>> <=> marks' % 2 = 0
           /\ \A i \in 1..Len(bundle') :
                 bundle'[i].mark % 2 = 1 => bundle'[i].mark = marks'
<1> DEFINE all == Append(bundle, p)
           n == Len(bundle)
<1>1. /\ bundle \in Seq(Parsed) /\ emitted \in Seq(Parsed) /\ marks \in Nat
      /\ Together(emitted) /\ (bundle = <<>> <=> marks % 2 = 0)
      /\ \A i \in 1..n : bundle[i].mark % 2 = 1 => bundle[i].mark = marks
  BY DEF Typed, Marked
<1>2. /\ all \in Seq(Parsed) /\ all # <<>> /\ Len(all) = n + 1 /\ all[n + 1] = p
      /\ \A i \in 1..n : all[i] = bundle[i]
      /\ n \in Nat /\ n + 1 \in 1..n + 1
      /\ bundle = <<>> => n = 0
  <2>1. bundle \in Seq(Parsed)
    BY <1>1
  <2>2. /\ all \in Seq(Parsed) /\ Len(all) = n + 1 /\ all[n + 1] = p
        /\ \A i \in 1..n : all[i] = bundle[i]
    BY <2>1, AppendProperties
  <2>3. n \in Nat /\ (bundle = <<>> => n = 0)
    BY <2>1
  <2>4. all # <<>>
    BY <2>1
  <2> HIDE DEF all
  <2> QED BY <2>2, <2>3, <2>4
<1>3. /\ marks % 2 = 0 => (marks + 1) % 2 = 1
      /\ marks % 2 # 0 => marks % 2 = 1 /\ (marks + 1) % 2 = 0
  BY <1>1
<1>4. emitted' = emitted \o Collect(p)[1] /\ bundle' = Collect(p)[2]
  BY DEF Emit
<1>5. emitted \o <<>> = emitted
  BY <1>1
<1>6. CASE p.kind = "delimiter" /\ bundle # <<>>
  <2>1. Collect(p) = <<all, <<>> >>
    BY <1>6 DEF Collect
  <2>2. \A i \in 1..n + 1 : all[i].mark % 2 = 1 => all[i].mark = p.mark
    BY <1>1, <1>2
  <2> HIDE DEF all, n
  <2>3. Together(all)
    BY <1>2, <1>6, <2>2 DEF Together
  <2>4. Together(emitted')
    BY <1>1, <1>2, <1>4, <2>1, <2>3, TogetherCat
  <2> QED BY <1>1, <1>3, <1>4, <1>6, <2>1, <2>4
<1>7. CASE p.kind = "delimiter" /\ bundle = <<>>
  <2>1. 1 <= BundleLimit
    BY InboundAssumption
  <2>2. Len(all) = 1
    BY <1>2, <1>7
  <2>3. Collect(p) = << <<>>, all>>
    BY <1>7, <2>1, <2>2, InboundAssumption DEF Collect
  <2>4. bundle' = all /\ emitted' = emitted /\ marks' = marks + 1
    BY <1>4, <1>5, <1>7, <2>3
  <2> HIDE DEF all, n
  <2>5. \A i \in 1..Len(all) : all[i].mark % 2 = 0
    BY <1>1, <1>2, <1>7
  <2>6. \A i \in 1..Len(all) : ~(all[i].mark % 2 = 1)
    BY <2>5
  <2>7. bundle' # <<>> /\ ~(marks' % 2 = 0)
    BY <1>1, <1>2, <1>3, <1>7, <2>4
  <2> QED BY <1>1, <2>4, <2>6, <2>7
<1>8. CASE p.kind # "delimiter" /\ bundle # <<>>
  <2>1. broken' = (broken \/ (Len(Collect(p)[1]) > BundleLimit /\ p.kind # "delimiter"))
    BY DEF Emit
  <2>2. ~(Len(Collect(p)[1]) > BundleLimit)
    BY <1>8, <2>1
  <2>3. Collect(p) = IF Len(all) > BundleLimit THEN <<all, <<>> >> ELSE << <<>>, all>>
    BY <1>8 DEF Collect
  <2> HIDE DEF all, n
  <2>4. Collect(p) = << <<>>, all>>
    BY <2>2, <2>3
  <2>5. bundle' = all /\ emitted' = emitted /\ marks' = marks
    BY <1>4, <1>5, <1>8, <2>4
  <2>6. \A i \in 1..n + 1 : all[i].mark % 2 = 1 => all[i].mark = marks
    BY <1>1, <1>2
  <2> QED BY <1>1, <1>2, <1>8, <2>5, <2>6
<1>9. CASE p.kind # "delimiter" /\ bundle = <<>>
  <2>1. Collect(p) = << <<p>>, <<>> >>
    BY <1>9 DEF Collect
  <2>2. Together(<<p>>)
    BY <1>1, <1>9 DEF Together
  <2>3. Together(emitted')
    <3>1. <<p>> \in Seq(Parsed)
      OBVIOUS
    <3>2. emitted' = emitted \o <<p>>
      BY <1>4, <2>1
    <3>3. emitted \in Seq(Parsed) /\ Together(emitted)
      BY <1>1
    <3> QED BY <2>2, <3>1, <3>2, <3>3, TogetherCat
  <2> QED BY <1>1, <1>4, <1>9, <2>1, <2>3
<1> QED BY <1>6, <1>7, <1>8, <1>9

LEMMA ReadMarked ==
    ASSUME Typed, Keeps, Marked, NEW x \in Nat, flowing, Read(x)
    PROVE  Marked'
<1>1. ~parser.failed /\ behindSwitch' = (behindSwitch \/ parser.fresh)
  BY DEF Keeps, Read
<1>2. behindSwitch \in BOOLEAN /\ parser.fresh \in BOOLEAN /\ broken \in BOOLEAN
  BY DEF Typed, Parsers, Marked
<1>3. CASE ReadMalformed(x) \/ ReadDamaged(x)
  <2>1. UNCHANGED <<bundle, emitted, marks, broken>>
    BY <1>3 DEF ReadMalformed, ReadDamaged, clientVars
  <2> QED BY <1>1, <1>2, <2>1 DEF Marked
<1>4. ASSUME NEW kind \in Parsable, ReadPacket(x, kind) PROVE Marked'
  <2> DEFINE p == [id |-> x, kind |-> kind, mark |-> marks]
  <2>1. p \in Parsed /\ p.mark = marks /\ p.kind = kind
    BY DEF Parsed, Typed
  <2>2. marks' = IF kind = "delimiter" THEN marks + 1 ELSE marks
    BY <1>4 DEF ReadPacket
  <2>3. CASE parser.fresh
    <3>1. broken' = broken
      BY <1>4, <2>3 DEF ReadPacket
    <3> QED BY <1>1, <1>2, <2>3, <3>1 DEF Marked
  <2>4. CASE ~parser.fresh
    <3>1. Emit(p, parser)
      BY <1>4, <2>4 DEF ReadPacket
    <3> HIDE DEF p
    <3>2. broken' \in BOOLEAN /\ (~broken' => ~broken)
      BY <1>2, <3>1 DEF Emit
    <3>3. ASSUME ~behindSwitch', ~broken'
          PROVE  /\ Together(emitted')
                 /\ bundle' = <<>> <=> marks' % 2 = 0
                 /\ \A i \in 1..Len(bundle') :
                       bundle'[i].mark % 2 = 1 => bundle'[i].mark = marks'
      <4>1. ~behindSwitch /\ ~broken
        BY <1>1, <1>2, <3>2, <3>3
      <4> QED BY <2>1, <2>2, <3>1, <3>3, <4>1, EmitMarks
    <3> QED BY <3>2, <3>3 DEF Marked, Together
  <2> QED BY <2>3, <2>4, <1>2
<1> QED BY <1>1, <1>3, <1>4 DEF Read

LEMMA NextMarked == IInv /\ Marked /\ [Next]_vars => Marked'
<1> SUFFICES ASSUME IInv, Marked, [Next]_vars PROVE Marked'
  OBVIOUS
<1> USE DEF IInv
<1>1. CASE Push
  <2>1. CASE flowing /\ held = <<>>
    <3>1. Read(Head(buffer)) /\ Head(buffer) \in Nat
      <4>1. buffer \in Seq(Nat) /\ buffer # <<>>
        BY <1>1 DEF Push, Typed
      <4> QED BY <1>1, <2>1, <4>1 DEF Push
    <3> QED BY <2>1, <3>1, ReadMarked
  <2>2. CASE ~(flowing /\ held = <<>>)
    BY <1>1, <2>2 DEF Push, clientVars, history, Marked
  <2> QED BY <2>1, <2>2
<1>2. CASE FlowSource
  <2>1. CASE flowing /\ held # <<>>
    <3>1. Read(Head(held)) /\ Head(held) \in Nat
      <4>1. held \in Seq(Nat)
        BY DEF Typed
      <4> QED BY <1>2, <2>1, <4>1 DEF FlowSource
    <3> QED BY <2>1, <3>1, ReadMarked
  <2>2. CASE ~(flowing /\ held # <<>>)
    BY <1>2, <2>2 DEF FlowSource, clientVars, history, Marked
  <2> QED BY <2>1, <2>2
<1>3. CASE FlowParser
  <2>1. CASE ~parser.fresh /\ ~parser.failed /\ parser.packets # <<>>
    <3>1. behindSwitch /\ behindSwitch' = behindSwitch
      BY <1>3, <2>1 DEF FlowParser, Keeps
    <3>2. Emit(Head(parser.packets), [parser EXCEPT !.packets = Tail(@)])
      BY <1>3, <2>1 DEF FlowParser
    <3>3. broken' \in BOOLEAN
      BY <3>2 DEF Emit, Marked
    <3> QED BY <3>1, <3>3 DEF Marked
  <2>2. CASE ~(~parser.fresh /\ ~parser.failed /\ parser.packets # <<>>)
    BY <1>3, <2>2 DEF FlowParser, clientVars, Marked
  <2> QED BY <2>1, <2>2
<1>4. CASE ParserError
  <2>1. /\ bundle' = <<>> /\ broken' = (broken \/ bundle # <<>>)
        /\ UNCHANGED <<emitted, marks, behindSwitch>>
    BY <1>4 DEF ParserError
  <2>2. broken' \in BOOLEAN /\ (~broken' => ~broken /\ bundle = <<>>)
    BY <2>1 DEF Marked
  <2> QED BY <2>1, <2>2 DEF Marked
<1>5. CASE Arrive \/ Yield \/ FramesDone \/ ProcessFramesAgain \/ SourceTick \/ ParserTick
           \/ UNCHANGED vars
  <2>1. UNCHANGED <<bundle, emitted, marks, behindSwitch, broken>>
    BY <1>5 DEF Arrive, Yield, FramesDone, ProcessFramesAgain, SourceTick, ParserTick, vars,
                clientVars, history
  <2> QED BY <2>1 DEF Marked
<1> QED BY <1>1, <1>2, <1>3, <1>4, <1>5 DEF Next, Turn

(***************************************************************************)
(* The listeners never see a part of a bundle, whatever the limit of one   *)
(* and however its frames are spread over chunks and turns: unless a       *)
(* bundle was longer than the limit or cut by a malformed packet, or       *)
(* frames came behind a switch of the state in its turn.                   *)
(***************************************************************************)
THEOREM BundlesWhole == Spec => []BundlesTogether
<1>1. Init => IInv /\ Marked
  <2>1. Init => Marked
    <3> SUFFICES ASSUME Init PROVE Marked
      OBVIOUS
    <3>1. /\ emitted = <<>> /\ bundle = <<>> /\ marks = 0 /\ broken = FALSE
      BY DEF Init
    <3>2. Len(<<>>) = 0 /\ 0 % 2 = 0 /\ 1..0 = {}
      OBVIOUS
    <3>3. Together(emitted)
      BY <3>1, <3>2 DEF Together
    <3> QED BY <3>1, <3>2, <3>3 DEF Marked
  <2> QED BY <2>1, InitIInv
<1>2. IInv /\ Marked /\ [Next]_vars => (IInv /\ Marked)'
  BY StepIInv, NextMarked
<1>3. IInv /\ Marked => BundlesTogether
  <2> SUFFICES ASSUME IInv, Marked PROVE BundlesTogether
    OBVIOUS
  <2>1. DOMAIN emitted = 1..Len(emitted)
    BY DEF IInv, Typed
  <2> QED BY <2>1 DEF Marked, Together, BundlesTogether
<1> QED BY <1>1, <1>2, <1>3, PTL DEF Spec
=============================================================================
