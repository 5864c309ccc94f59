--------------------------- MODULE ConnectionsProofs ---------------------------
(***************************************************************************)
(* Proofs about what the controller takes from one entity and keeps about  *)
(* another: for any number of entities, streams, channels and clusters.    *)
(***************************************************************************)
EXTENDS Connections, SequenceTheorems, FiniteSetTheorems, WellFoundedInduction, TLAPS

-----------------------------------------------------------------------------
(* Types                                                                     *)

Infos == {NotConnected} \cup [state : {"Connected", "FastConnecting"}, talker : Sources]
Mappings == (Inputs \X Channels) \cup {None}
Feds == [from : Mappings, talker : Sources \cup {None}, cluster : Clusters \cup {None}]
Streams == Entities \X (Outputs \cup {None})
NodeStates == {"Active", "StreamNotConnected", "EntityOffline", "Recursive"}
Nodes ==
  [entity : Entities, output : Outputs \cup {None}, status : NodeStates, source : Inputs \cup {Internal, None}]
Controlled ==
  [status : {"offline", "enumerating", "advertised"}, sink : [Inputs -> Infos], clock : Inputs \cup {Internal},
   latency : [Inputs -> Nat], offset : [Outputs -> Nat], inputMap : [Clusters -> Mappings],
   outputMap : [Outputs \X Channels -> Clusters \cup {None}], listeners : [Outputs -> SUBSET Sinks],
   chain : Seq(Nodes), over : SUBSET Inputs, fed : [Clusters -> Feds] \cup [{} -> Feds]]
Everybody == [Entities -> Controlled]

-----------------------------------------------------------------------------
(* Induction, over a set of numbers                                          *)

LEMMA Least ==
  ASSUME NEW T, T \subseteq Nat, T # {}
  PROVE  \E m \in T : \A j \in T : m <= j
<1>1. PICK m \in T : \A j \in T : ~(<<j, m>> \in OpToRel(<, Nat))
  <2>1. IsWellFoundedOn(OpToRel(<, Nat), Nat)
    BY NatLessThanWellFounded
  <2>2. T \subseteq Nat /\ T # {}
    OBVIOUS
  <2>3. QED  BY <2>1, <2>2, WFMin
<1>2. \A j \in T : ~(j < m)
  BY <1>1 DEF OpToRel
<1>3. \A j \in T : m <= j
  BY <1>2
<1>4. QED
  BY <1>3

LEMMA Induction ==
  ASSUME NEW S, 0 \in S, \A n \in Nat : n \in S => n + 1 \in S
  PROVE  Nat \subseteq S
<1>1. SUFFICES ASSUME Nat \ S # {}
               PROVE  FALSE
  OBVIOUS
<1>2. PICK m \in Nat \ S : \A j \in Nat \ S : m <= j
  <2>1. Nat \ S \subseteq Nat
    OBVIOUS
  <2>2. QED  BY <1>1, <2>1, Least
<1>3. m # 0 /\ m - 1 \in Nat
  BY <1>2
<1>4. m - 1 \in S
  BY <1>2, <1>3
<1>5. m - 1 + 1 = m
  BY <1>2
<1>6. QED
  BY <1>2, <1>3, <1>4, <1>5

-----------------------------------------------------------------------------
(* Chains                                                                    *)

LEMMA ConnectedIs ==
  ASSUME NEW info \in Infos
  PROVE  /\ info.state \in {"NotConnected", "Connected", "FastConnecting"}
         /\ info.state = "NotConnected" <=> info = NotConnected
         /\ info.state # "NotConnected" => info.talker \in Sources
         /\ info.talker \in Sources \cup {None}
         /\ info.talker = None <=> info = NotConnected
         /\ info = [state |-> info.state, talker |-> info.talker]
BY ConstantsAssumption DEF Infos, NotConnected

LEMMA StreamsAreNot == None \notin Streams
<1>1. ASSUME NEW x \in Streams
      PROVE  x # None
  <2>1. CASE x \in Sources
    BY <2>1, ConstantsAssumption
  <2>2. CASE x \in Entities \X {None}
    BY <2>2, ConstantsAssumption
  <2>3. QED  BY <2>1, <2>2 DEF Streams, Sources
<1>2. QED
  BY <1>1

\* A chain so far: what follows a node is the next one, or where the walk goes on.
Walks == [chain : Seq(Nodes), next : Streams \cup {None}]
Follower(w, j) == IF j = Len(w.chain) THEN w.next ELSE <<w.chain[j + 1].entity, w.chain[j + 1].output>>
Repeats(c, j) == \E m \in 1..(j - 1) : c[m].entity = c[j].entity

\* What a node is to be, of an entity that the chain comes to for the first time, or not.
Linked(es, online, node, next) ==
  IF node.entity \notin online THEN node.status = "EntityOffline" /\ node.source = None /\ next = None
  ELSE LET clock == es[node.entity].clock
       IN  /\ node.source = clock
           /\ IF clock = Internal THEN node.status = "Active" /\ next = None
              ELSE IF es[node.entity].sink[clock].state # "Connected"
                   THEN node.status = "StreamNotConnected" /\ next = None
                   ELSE node.status = "Active" /\ next = es[node.entity].sink[clock].talker
Looped(node, next) == node.status = "Recursive" /\ node.source = None /\ next = None
Right(es, online, w, j) ==
  IF Repeats(w.chain, j) THEN Looped(w.chain[j], Follower(w, j))
  ELSE Linked(es, online, w.chain[j], Follower(w, j))

\* A node is right, or comes after one through an input for which nothing is done.
Exempt(old, c, j) == \E m \in 1..j : <<c[m].entity, c[m].source>> \in old
Placed(es, online, old, w, j) ==
  /\ Right(es, online, w, j) \/ Exempt(old, w.chain, j)
  /\ IF w.chain[j].status \in {"EntityOffline", "Recursive"} THEN w.chain[j].source = None
     ELSE w.chain[j].entity \in online
  /\ w.chain[j].status = "Recursive" => Repeats(w.chain, j)
  /\ Follower(w, j) # None => w.chain[j].status = "Active" /\ ~Repeats(w.chain, j)
Sound(es, online, old, w) == \A j \in 1..Len(w.chain) : Placed(es, online, old, w, j)

Longer(w, node, next) == [chain |-> Append(w.chain, node), next |-> next]

LEMMA LongerIs ==
  ASSUME NEW w \in Walks, NEW node \in Nodes, NEW next \in Streams \cup {None}
  PROVE  LET v == Longer(w, node, next)
         IN  /\ v \in Walks /\ v.next = next
             /\ Len(w.chain) \in Nat /\ Len(v.chain) = Len(w.chain) + 1
             /\ \A j \in 1..Len(w.chain) : v.chain[j] = w.chain[j]
             /\ v.chain[Len(w.chain) + 1] = node
<1>1. w.chain \in Seq(Nodes)
  BY DEF Walks
<1>2. PICK c : c = Append(w.chain, node)
  OBVIOUS
<1>3. /\ c \in Seq(Nodes) /\ Len(c) = Len(w.chain) + 1 /\ Len(w.chain) \in Nat
      /\ c[Len(w.chain) + 1] = node /\ \A j \in 1..Len(w.chain) : c[j] = w.chain[j]
  BY <1>1, <1>2, AppendProperties, LenProperties
<1>4. Longer(w, node, next) = [chain |-> c, next |-> next]
  BY <1>2 DEF Longer
<1>5. QED
  BY <1>3, <1>4 DEF Walks

\* One turn adds a node, which is what it is to be.
Turns(es, online, w, node, next) ==
  IF \E m \in 1..Len(w.chain) : w.chain[m].entity = node.entity THEN Looped(node, next)
  ELSE Linked(es, online, node, next)

LEMMA TurnIs ==
  ASSUME NEW es \in Everybody, NEW online \in SUBSET Entities,
         NEW w \in Walks, w.next # None
  PROVE  \E node \in Nodes, next \in Streams \cup {None} :
           /\ Visited(es, online, w) = Longer(w, node, next)
           /\ <<node.entity, node.output>> = w.next
           /\ Turns(es, online, w, node, next)
           /\ node.status = "Recursive" => Looped(node, next)
<1>1. w.chain \in Seq(Nodes) /\ w.next \in Streams
  BY DEF Walks
<1>2. PICK e : e = w.next[1]
  OBVIOUS
<1>3. PICK output : output = w.next[2]
  OBVIOUS
<1>4. e \in Entities /\ output \in Outputs \cup {None} /\ w.next = <<e, output>>
  BY <1>1, <1>2, <1>3 DEF Streams
<1>5. DOMAIN w.chain = 1..Len(w.chain)
  BY <1>1, LenProperties
<1>6. \A status \in NodeStates, s \in Inputs \cup {Internal, None} :
        /\ Node(e, output, status, s) \in Nodes
        /\ Node(e, output, status, s).entity = e /\ Node(e, output, status, s).output = output
        /\ Node(e, output, status, s).status = status /\ Node(e, output, status, s).source = s
  BY <1>4 DEF Nodes, Node
<1>7. CASE \E n \in DOMAIN w.chain : w.chain[n].entity = e
  <2>1. Visited(es, online, w) = Longer(w, Node(e, output, "Recursive", None), None)
    BY <1>2, <1>3, <1>7 DEF Visited, Longer
  <2>2. PICK node \in Nodes : /\ node = Node(e, output, "Recursive", None)
                              /\ node.entity = e /\ node.output = output
                              /\ node.status = "Recursive" /\ node.source = None
    BY <1>6 DEF NodeStates
  <2>3. Turns(es, online, w, node, None)
    BY <1>5, <1>7, <2>2 DEF Turns, Looped
  <2>4. QED  BY <1>4, <2>1, <2>2, <2>3 DEF Looped
<1>8. CASE ~(\E n \in DOMAIN w.chain : w.chain[n].entity = e) /\ e \notin online
  <2>1. Visited(es, online, w) = Longer(w, Node(e, output, "EntityOffline", None), None)
    BY <1>2, <1>3, <1>8 DEF Visited, Longer
  <2>2. PICK node \in Nodes : /\ node = Node(e, output, "EntityOffline", None)
                              /\ node.entity = e /\ node.output = output
                              /\ node.status = "EntityOffline" /\ node.source = None
    BY <1>6 DEF NodeStates
  <2>3. Turns(es, online, w, node, None)
    BY <1>5, <1>8, <2>2 DEF Turns, Linked
  <2>4. QED  BY <1>4, <2>1, <2>2, <2>3
<1>9. CASE ~(\E n \in DOMAIN w.chain : w.chain[n].entity = e) /\ e \in online
  <2>1. PICK s : s = es[e].clock
    OBVIOUS
  <2>2. s \in Inputs \cup {Internal}
    BY <1>4, <2>1 DEF Everybody, Controlled
  <2>3. CASE s = Internal
    <3>1. Visited(es, online, w) = Longer(w, Node(e, output, "Active", Internal), None)
      BY <1>2, <1>3, <1>9, <2>1, <2>3 DEF Visited, Longer
    <3>2. PICK node \in Nodes : /\ node = Node(e, output, "Active", Internal)
                                /\ node.entity = e /\ node.output = output
                                /\ node.status = "Active" /\ node.source = Internal
      BY <1>6 DEF NodeStates
    <3>3. Turns(es, online, w, node, None)
      BY <1>5, <1>9, <2>1, <2>3, <3>2 DEF Turns, Linked
    <3>4. QED  BY <1>4, <3>1, <3>2, <3>3
  <2>4. CASE s # Internal /\ es[e].sink[s].state # "Connected"
    <3>1. Visited(es, online, w) = Longer(w, Node(e, output, "StreamNotConnected", s), None)
      BY <1>2, <1>3, <1>9, <2>1, <2>4 DEF Visited, Longer
    <3>2. PICK node \in Nodes : /\ node = Node(e, output, "StreamNotConnected", s)
                                /\ node.entity = e /\ node.output = output
                                /\ node.status = "StreamNotConnected" /\ node.source = s
      BY <1>6, <2>2 DEF NodeStates
    <3>3. Turns(es, online, w, node, None)
      BY <1>5, <1>9, <2>1, <2>4, <3>2 DEF Turns, Linked
    <3>4. QED  BY <1>4, <3>1, <3>2, <3>3
  <2>5. CASE s # Internal /\ es[e].sink[s].state = "Connected"
    <3>1. PICK next : next = es[e].sink[s].talker
      OBVIOUS
    <3>2. Visited(es, online, w) = Longer(w, Node(e, output, "Active", s), next)
      BY <1>2, <1>3, <1>9, <2>1, <2>5, <3>1 DEF Visited, Longer
    <3>3. PICK node \in Nodes : /\ node = Node(e, output, "Active", s)
                                /\ node.entity = e /\ node.output = output
                                /\ node.status = "Active" /\ node.source = s
      BY <1>6, <2>2 DEF NodeStates
    <3>4. Turns(es, online, w, node, next)
      BY <1>5, <1>9, <2>1, <2>5, <3>1, <3>3 DEF Turns, Linked
    <3>5. es[e].sink[s] \in Infos
      BY <1>4, <2>2, <2>5 DEF Everybody, Controlled
    <3>6. next \in Streams
      BY <2>5, <3>1, <3>5, ConnectedIs DEF Streams, Sources
    <3>7. QED  BY <1>4, <3>2, <3>3, <3>4, <3>6
  <2>6. QED  BY <2>3, <2>4, <2>5
<1>10. QED
  BY <1>7, <1>8, <1>9

\* A node's place is told by the nodes up to it and what follows.
LEMMA PlaceIs ==
  ASSUME NEW es, NEW online, NEW old, NEW w, NEW v, NEW j \in Nat \ {0},
         \A m \in 1..j : v.chain[m] = w.chain[m], Follower(v, j) = Follower(w, j),
         Placed(es, online, old, w, j)
  PROVE  Placed(es, online, old, v, j)
<1>1. j \in 1..j /\ \A m \in 1..(j - 1) : m \in 1..j
  OBVIOUS
<1>2. Repeats(v.chain, j) <=> Repeats(w.chain, j)
  BY <1>1 DEF Repeats
<1>3. Exempt(old, v.chain, j) <=> Exempt(old, w.chain, j)
  BY DEF Exempt
<1>4. Right(es, online, v, j) <=> Right(es, online, w, j)
  BY <1>1, <1>2 DEF Right
<1>5. QED
  BY <1>1, <1>2, <1>3, <1>4 DEF Placed

LEMMA TurnKeeps ==
  ASSUME NEW es \in Everybody, NEW online \in SUBSET Entities, NEW old,
         NEW w \in Walks, w.next # None, Sound(es, online, old, w)
  PROVE  LET v == Visited(es, online, w)
         IN  /\ v \in Walks /\ Sound(es, online, old, v)
             /\ Len(w.chain) \in Nat /\ Len(v.chain) = Len(w.chain) + 1
             /\ \A j \in 1..Len(w.chain) : v.chain[j] = w.chain[j]
             /\ <<v.chain[Len(w.chain) + 1].entity, v.chain[Len(w.chain) + 1].output>> = w.next
<1>1. PICK node \in Nodes, next \in Streams \cup {None} :
        /\ Visited(es, online, w) = Longer(w, node, next)
        /\ <<node.entity, node.output>> = w.next
        /\ Turns(es, online, w, node, next)
        /\ node.status = "Recursive" => Looped(node, next)
  BY TurnIs
<1>2. PICK v : v = Longer(w, node, next)
  OBVIOUS
<1>3. /\ v \in Walks /\ v.next = next
      /\ Len(w.chain) \in Nat /\ Len(v.chain) = Len(w.chain) + 1
      /\ \A j \in 1..Len(w.chain) : v.chain[j] = w.chain[j]
      /\ v.chain[Len(w.chain) + 1] = node
  BY <1>2, LongerIs
<1>4. PICK n : n = Len(w.chain) + 1
  OBVIOUS
<1>5. ASSUME NEW j \in 1..Len(w.chain)
      PROVE  Placed(es, online, old, v, j)
  <2>1. j \in Nat \ {0} /\ \A m \in 1..j : v.chain[m] = w.chain[m]
    BY <1>3
  <2>2. Follower(v, j) = Follower(w, j)
    <3>1. CASE j = Len(w.chain)
      <4>1. j # Len(v.chain) /\ j + 1 = Len(w.chain) + 1
        BY <1>3, <3>1
      <4>2. QED  BY <1>1, <1>3, <3>1, <4>1 DEF Follower
    <3>2. CASE j # Len(w.chain)
      <4>1. j # Len(v.chain) /\ j + 1 \in 1..Len(w.chain)
        BY <1>3, <3>2
      <4>2. QED  BY <1>3, <3>2, <4>1 DEF Follower
    <3>3. QED  BY <3>1, <3>2
  <2>3. Placed(es, online, old, w, j)
    BY DEF Sound
  <2>4. QED  BY <2>1, <2>2, <2>3, PlaceIs
<1>6. Placed(es, online, old, v, n)
  <2>1. Follower(v, n) = next /\ v.chain[n] = node /\ n - 1 = Len(w.chain)
    BY <1>3, <1>4 DEF Follower
  <2>2. Repeats(v.chain, n) <=> \E m \in 1..Len(w.chain) : w.chain[m].entity = node.entity
    BY <1>3, <2>1 DEF Repeats
  <2>3. Right(es, online, v, n)
    BY <1>1, <2>1, <2>2 DEF Right, Turns
  <2>4. IF node.status \in {"EntityOffline", "Recursive"} THEN node.source = None ELSE node.entity \in online
    BY <1>1 DEF Turns, Looped, Linked
  <2>5. node.status = "Recursive" => Repeats(v.chain, n)
    BY <1>1, <2>2 DEF Turns, Linked
  <2>6. next # None => node.status = "Active" /\ ~Repeats(v.chain, n)
    BY <1>1, <2>2 DEF Turns, Looped, Linked
  <2>7. QED  BY <2>1, <2>3, <2>4, <2>5, <2>6 DEF Placed
<1>7. Sound(es, online, old, v)
  <2>1. \A j \in 1..Len(v.chain) : j \in 1..Len(w.chain) \/ j = n
    BY <1>3, <1>4
  <2>2. QED  BY <1>5, <1>6, <2>1 DEF Sound
<1>8. QED
  BY <1>1, <1>2, <1>3, <1>7

-----------------------------------------------------------------------------
(* The walk                                                                  *)

IsWalk(es, online, w, g, m) ==
  g = [n \in 0..m |-> IF n = 0 THEN w
                      ELSE IF g[n - 1].next = None THEN g[n - 1]
                      ELSE Visited(es, online, g[n - 1])]

LEMMA WalkExists ==
  ASSUME NEW es, NEW online, NEW w
  PROVE  \A m \in Nat : \E g : IsWalk(es, online, w, g, m)
<1>1. PICK T : T = {m \in Nat : \E g : IsWalk(es, online, w, g, m)}
  OBVIOUS
<1>2. 0 \in T
  <2>1. PICK g : g = [n \in 0..0 |-> w]
    OBVIOUS
  <2>2. IsWalk(es, online, w, g, 0)
    <3>1. \A n \in 0..0 : n = 0
      OBVIOUS
    <3>2. QED  BY <2>1, <3>1 DEF IsWalk
  <2>3. QED  BY <1>1, <2>2
<1>3. ASSUME NEW m \in Nat, m \in T
      PROVE  m + 1 \in T
  <2>1. PICK g : IsWalk(es, online, w, g, m)
    BY <1>1, <1>3
  <2>2. PICK last : last = IF g[m].next = None THEN g[m] ELSE Visited(es, online, g[m])
    OBVIOUS
  <2>3. PICK h : h = [n \in 0..(m + 1) |-> IF n = m + 1 THEN last ELSE g[n]]
    OBVIOUS
  <2>4. ASSUME NEW n \in 0..(m + 1)
        PROVE  h[n] = IF n = 0 THEN w
                      ELSE IF h[n - 1].next = None THEN h[n - 1]
                      ELSE Visited(es, online, h[n - 1])
    <3>1. CASE n = 0
      <4>1. 0 \in 0..m /\ 0 # m + 1
        OBVIOUS
      <4>2. g[0] = w
        BY <2>1, <4>1 DEF IsWalk
      <4>3. QED  BY <2>3, <3>1, <4>1, <4>2
    <3>2. CASE n = m + 1
      <4>1. n # 0 /\ n - 1 = m /\ m \in 0..(m + 1) /\ m # m + 1
        BY <3>2
      <4>2. h[m] = g[m] /\ h[n] = last
        BY <2>3, <3>2, <4>1
      <4>3. QED  BY <2>2, <4>1, <4>2
    <3>3. CASE n # 0 /\ n # m + 1
      <4>1. n \in 0..m /\ n - 1 \in 0..m /\ n - 1 \in 0..(m + 1) /\ n - 1 # m + 1
        BY <3>3
      <4>2. h[n] = g[n] /\ h[n - 1] = g[n - 1]
        BY <2>3, <3>3, <4>1
      <4>3. g[n] = IF n = 0 THEN w
                   ELSE IF g[n - 1].next = None THEN g[n - 1]
                   ELSE Visited(es, online, g[n - 1])
        BY <2>1, <4>1 DEF IsWalk
      <4>4. QED  BY <4>2, <4>3
    <3>4. QED  BY <3>1, <3>2, <3>3
  <2>5. h = [n \in 0..(m + 1) |-> h[n]]
    BY <2>3
  <2>6. IsWalk(es, online, w, h, m + 1)
    BY <2>4, <2>5 DEF IsWalk
  <2>7. QED  BY <1>1, <2>6
<1>4. Nat \subseteq T
  BY <1>2, <1>3, Induction
<1>5. QED
  BY <1>1, <1>4

\* Every turn of the walk extends what was there.
Extends(es, online, old, w, v, n) ==
  /\ v \in Walks /\ Sound(es, online, old, v)
  /\ Len(v.chain) >= Len(w.chain) /\ \A j \in 1..Len(w.chain) : v.chain[j] = w.chain[j]
  /\ v.next # None => Len(v.chain) = Len(w.chain) + n
  /\ n # 0 => /\ Len(v.chain) > Len(w.chain)
              /\ <<v.chain[Len(w.chain) + 1].entity, v.chain[Len(w.chain) + 1].output>> = w.next

LEMMA WalkExtends ==
  ASSUME NEW es \in Everybody, NEW online \in SUBSET Entities, NEW old,
         NEW w \in Walks, w.next # None, Sound(es, online, old, w),
         NEW m \in Nat, NEW g, IsWalk(es, online, w, g, m)
  PROVE  \A n \in 0..m : Extends(es, online, old, w, g[n], n)
<1>1. PICK T : T = {n \in Nat : n \in 0..m => Extends(es, online, old, w, g[n], n)}
  OBVIOUS
<1>2. Len(w.chain) \in Nat
  BY LenProperties DEF Walks
<1>3. 0 \in T
  <2>1. g[0] = w
    BY DEF IsWalk
  <2>2. QED  BY <1>1, <1>2, <2>1 DEF Extends
<1>4. ASSUME NEW n \in Nat, n \in T
      PROVE  n + 1 \in T
  <2>1. SUFFICES ASSUME n + 1 \in 0..m
                 PROVE  Extends(es, online, old, w, g[n + 1], n + 1)
    BY <1>1
  <2>2. n \in 0..m /\ n + 1 # 0 /\ n + 1 - 1 = n
    BY <2>1
  <2>3. PICK u : u = g[n]
    OBVIOUS
  <2>4. Extends(es, online, old, w, u, n)
    BY <1>1, <1>4, <2>2, <2>3
  <2>5. PICK v : v = g[n + 1]
    OBVIOUS
  <2>6. v = IF u.next = None THEN u ELSE Visited(es, online, u)
    BY <2>1, <2>2, <2>3, <2>5 DEF IsWalk
  <2>7. Len(u.chain) \in Nat
    BY <2>4, LenProperties DEF Extends, Walks
  <2>8. CASE u.next = None
    <3>1. v = u /\ v.next = None
      BY <2>6, <2>8
    <3>2. n # 0
      <4>1. g[0] = w
        BY DEF IsWalk
      <4>2. QED  BY <2>3, <2>8, <4>1
    <3>3. QED  BY <2>4, <2>5, <3>1, <3>2 DEF Extends
  <2>9. CASE u.next # None
    <3>1. /\ v \in Walks /\ Sound(es, online, old, v)
          /\ Len(v.chain) = Len(u.chain) + 1
          /\ \A j \in 1..Len(u.chain) : v.chain[j] = u.chain[j]
          /\ <<v.chain[Len(u.chain) + 1].entity, v.chain[Len(u.chain) + 1].output>> = u.next
      BY <2>4, <2>6, <2>9, TurnKeeps DEF Extends
    <3>2. Len(u.chain) = Len(w.chain) + n
      BY <2>4, <2>9 DEF Extends
    <3>3. \A j \in 1..Len(w.chain) : v.chain[j] = w.chain[j]
      <4>1. \A j \in 1..Len(w.chain) : j \in 1..Len(u.chain)
        BY <1>2, <2>7, <3>2
      <4>2. QED  BY <2>4, <3>1, <4>1 DEF Extends
    <3>4. <<v.chain[Len(w.chain) + 1].entity, v.chain[Len(w.chain) + 1].output>> = w.next
      <4>1. CASE n = 0
        <5>1. u = w
          BY <2>3, <4>1 DEF IsWalk
        <5>2. QED  BY <3>1, <5>1
      <4>2. CASE n # 0
        <5>1. Len(w.chain) + 1 \in 1..Len(u.chain)
          BY <1>2, <3>2, <4>2
        <5>2. QED  BY <2>4, <3>1, <4>2, <5>1 DEF Extends
      <4>3. QED  BY <4>1, <4>2
    <3>5. Len(v.chain) = Len(w.chain) + (n + 1) /\ Len(v.chain) > Len(w.chain) /\ Len(v.chain) >= Len(w.chain)
      <4>1. Len(v.chain) = (Len(w.chain) + n) + 1
        BY <3>1, <3>2
      <4>2. \A a, k, b \in Nat : b = (a + k) + 1 => b = a + (k + 1) /\ b > a /\ b >= a
        OBVIOUS
      <4>3. Len(v.chain) \in Nat
        BY <1>2, <4>1
      <4>4. QED  BY <1>2, <4>1, <4>2, <4>3
    <3>6. QED  BY <2>5, <3>1, <3>3, <3>4, <3>5 DEF Extends
  <2>10. QED  BY <2>8, <2>9
<1>5. Nat \subseteq T
  BY <1>3, <1>4, Induction
<1>6. QED
  BY <1>1, <1>5

\* As long as the walk goes on, no entity was met twice.
LEMMA WalkIsShort ==
  ASSUME NEW es, NEW online, NEW old, NEW w \in Walks, Sound(es, online, old, w), w.next # None
  PROVE  Len(w.chain) <= Cardinality(Entities)
<1>1. PICK c : c = w.chain
  OBVIOUS
<1>2. c \in Seq(Nodes) /\ Len(c) \in Nat /\ \A j \in 1..Len(c) : c[j] \in Nodes
  BY <1>1, LenProperties, ElementOfSeq DEF Walks
<1>3. \A j \in 1..Len(c) : c[j].entity \in Entities
  BY <1>2 DEF Nodes
<1>4. ASSUME NEW j \in 1..Len(c)
      PROVE  Follower(w, j) # None
  <2>1. CASE j = Len(c)
    BY <1>1, <2>1 DEF Follower
  <2>2. CASE j # Len(c)
    <3>1. j + 1 \in 1..Len(c)
      BY <1>2, <2>2
    <3>2. c[j + 1] \in Nodes
      BY <1>2, <3>1
    <3>3. <<c[j + 1].entity, c[j + 1].output>> \in Streams
      BY <3>2 DEF Nodes, Streams
    <3>4. Follower(w, j) = <<c[j + 1].entity, c[j + 1].output>>
      BY <1>1, <2>2 DEF Follower
    <3>5. QED  BY <3>3, <3>4, StreamsAreNot
  <2>3. QED  BY <2>1, <2>2
<1>5. \A j \in 1..Len(c) : ~Repeats(c, j)
  BY <1>1, <1>4 DEF Sound, Placed
<1>6. PICK f : f = [j \in 1..Len(c) |-> c[j].entity]
  OBVIOUS
<1>7. f \in [1..Len(c) -> Entities]
  BY <1>3, <1>6
<1>8. ASSUME NEW i \in 1..Len(c), NEW j \in 1..Len(c), f[i] = f[j]
      PROVE  i = j
  <2>1. c[i].entity = c[j].entity
    BY <1>6, <1>8
  <2>2. ~(i < j)
    <3>1. i < j => i \in 1..(j - 1)
      OBVIOUS
    <3>2. QED  BY <1>5, <2>1, <3>1 DEF Repeats
  <2>3. ~(j < i)
    <3>1. j < i => j \in 1..(i - 1)
      OBVIOUS
    <3>2. QED  BY <1>5, <2>1, <3>1 DEF Repeats
  <2>4. QED  BY <2>2, <2>3
<1>9. f \in Injection(1..Len(c), Entities)
  BY <1>7, <1>8 DEF Injection, IsInjective
<1>10. Cardinality(1..Len(c)) <= Cardinality(Entities)
  BY <1>9, ConstantsAssumption, FS_Injection
<1>11. Cardinality(1..Len(c)) = Len(c)
  <2>1. 1 \in Int /\ Len(c) \in Int
    BY <1>2
  <2>2. Cardinality(1..Len(c)) = IF 1 > Len(c) THEN 0 ELSE Len(c) - 1 + 1
    BY <2>1, FS_Interval
  <2>3. QED  BY <1>2, <2>2
<1>12. QED
  BY <1>1, <1>10, <1>11

\* computeAndUpdateMediaClockChain takes one turn more than there are entities.
Enough == Cardinality(Entities) + 1
Walk(chain, next) == [chain |-> chain, next |-> next]
LeadsTo(es, online, w, c) == \E g : IsWalk(es, online, w, g, Enough) /\ c = g[Enough].chain

LEMMA ChainWalks ==
  ASSUME NEW es, NEW online, NEW chain, NEW next
  PROVE  Enough \in Nat \ {0} /\ LeadsTo(es, online, Walk(chain, next), Chain(es, online, chain, next))
<1>1. Cardinality(Entities) \in Nat
  BY ConstantsAssumption, FS_CardinalityType
<1> DEFINE walk[n \in 0 .. Cardinality(Entities) + 1] ==
      IF n = 0 THEN [chain |-> chain, next |-> next]
      ELSE IF walk[n - 1].next = None THEN walk[n - 1]
      ELSE Visited(es, online, walk[n - 1])
<1>2. \E g : IsWalk(es, online, [chain |-> chain, next |-> next], g, Cardinality(Entities) + 1)
  <2>1. Cardinality(Entities) + 1 \in Nat
    BY <1>1
  <2>2. QED  BY <2>1, WalkExists
<1>3. \E g : g = [n \in 0 .. Cardinality(Entities) + 1 |->
                   IF n = 0 THEN [chain |-> chain, next |-> next]
                   ELSE IF g[n - 1].next = None THEN g[n - 1]
                   ELSE Visited(es, online, g[n - 1])]
  BY <1>2 DEF IsWalk
<1>4. walk = [n \in 0 .. Cardinality(Entities) + 1 |->
                   IF n = 0 THEN [chain |-> chain, next |-> next]
                   ELSE IF walk[n - 1].next = None THEN walk[n - 1]
                   ELSE Visited(es, online, walk[n - 1])]
  BY <1>3, Zenon
<1>5. IsWalk(es, online, Walk(chain, next), walk, Enough)
  BY <1>4 DEF IsWalk, Walk, Enough
<1>6. Chain(es, online, chain, next) = walk[Enough].chain
  BY DEF Chain, Enough
<1> HIDE DEF walk
<1>7. LeadsTo(es, online, Walk(chain, next), Chain(es, online, chain, next))
  BY <1>5, <1>6 DEF LeadsTo
<1>8. QED
  BY <1>1, <1>7 DEF Enough

\* Where a walk goes on, computeAndUpdateMediaClockChain completes it.
Ended(c) == [chain |-> c, next |-> None]
Completes(es, online, old, chain, next, c) ==
  /\ c \in Seq(Nodes) /\ Sound(es, online, old, Ended(c))
  /\ Len(chain) \in Nat /\ Len(c) > Len(chain)
  /\ \A j \in 1..Len(chain) : c[j] = chain[j]
  /\ <<c[Len(chain) + 1].entity, c[Len(chain) + 1].output>> = next

LEMMA ChainIs ==
  ASSUME NEW es \in Everybody, NEW online \in SUBSET Entities, NEW old,
         NEW chain \in Seq(Nodes), NEW next \in Streams, Sound(es, online, old, Walk(chain, next))
  PROVE  Completes(es, online, old, chain, next, Chain(es, online, chain, next))
<1>1. PICK w : w = [chain |-> chain, next |-> next] /\ w = Walk(chain, next)
  BY DEF Walk
<1>2. w \in Walks /\ w.chain = chain /\ w.next = next /\ w.next # None /\ Sound(es, online, old, w)
  BY <1>1, StreamsAreNot DEF Walks
<1>3. PICK m : m = Enough
  OBVIOUS
<1>4. m \in Nat \ {0} /\ LeadsTo(es, online, w, Chain(es, online, chain, next))
  BY <1>1, <1>3, ChainWalks
<1>5. PICK walk : IsWalk(es, online, w, walk, m) /\ Chain(es, online, chain, next) = walk[m].chain
  BY <1>3, <1>4 DEF LeadsTo
<1>6. PICK v : v = walk[m]
  OBVIOUS
<1>7. Extends(es, online, old, w, v, m)
  <2>1. m \in 0..m
    BY <1>4
  <2>2. \A n \in 0..m : Extends(es, online, old, w, walk[n], n)
    BY <1>2, <1>4, <1>5, WalkExtends
  <2>3. QED  BY <1>6, <2>1, <2>2
<1>8. Len(chain) \in Nat
  BY LenProperties
<1>9. v.next = None
  <2>1. SUFFICES ASSUME v.next # None
                 PROVE  FALSE
    OBVIOUS
  <2>2. Len(v.chain) = Len(chain) + m
    BY <1>2, <1>7, <2>1 DEF Extends
  <2>3. Len(v.chain) <= Cardinality(Entities)
    BY <1>7, <2>1, WalkIsShort DEF Extends
  <2>4. Cardinality(Entities) \in Nat
    BY ConstantsAssumption, FS_CardinalityType
  <2>5. QED  BY <1>3, <1>8, <2>2, <2>3, <2>4 DEF Enough
<1>10. v = Ended(v.chain) /\ v.chain \in Seq(Nodes)
  BY <1>7, <1>9 DEF Extends, Walks, Ended
<1>11. Chain(es, online, chain, next) = v.chain
  BY <1>5, <1>6
<1>12. m # 0
  BY <1>4
<1>13. QED
  BY <1>2, <1>7, <1>8, <1>10, <1>11, <1>12 DEF Extends, Completes

-----------------------------------------------------------------------------
(* The chain of an entity                                                    *)

Chained(es, online, old, e, c) ==
  /\ c \in Seq(Nodes) /\ Len(c) > 0 /\ c[1].entity = e /\ c[1].output = None
  /\ Sound(es, online, old, Ended(c))

\* The chain computed from nothing.
LEMMA WholeIs ==
  ASSUME NEW es \in Everybody, NEW online \in SUBSET Entities, NEW old, NEW e \in Entities
  PROVE  Chained(es, online, old, e, WholeChain(es, online, e))
<1>1. PICK empty \in Seq(Nodes) : empty = <<>> /\ Len(empty) = 0
  BY EmptySeq
<1>2. PICK next \in Streams : next = <<e, None>>
  BY DEF Streams
<1>3. Sound(es, online, old, Walk(empty, next))
  BY <1>1 DEF Sound, Walk
<1>4. PICK c : c = Chain(es, online, empty, next)
  OBVIOUS
<1>5. Completes(es, online, old, empty, next, c)
  BY <1>3, <1>4, ChainIs
<1>6. Len(c) > 0 /\ <<c[1].entity, c[1].output>> = <<e, None>>
  BY <1>1, <1>2, <1>5 DEF Completes
<1>7. c = WholeChain(es, online, e)
  BY <1>1, <1>2, <1>4 DEF WholeChain
<1>8. QED
  BY <1>5, <1>6, <1>7 DEF Chained, Completes

\* A chain that is updated from its first node among those given on: what is before them
\* must stay in its place.
LEMMA ContinuedIs ==
  ASSUME NEW es \in Everybody, NEW online \in SUBSET Entities, NEW old, NEW e \in Entities,
         NEW c \in Seq(Nodes), Len(c) > 0, c[1].entity = e, c[1].output = None,
         NEW nodes \in SUBSET DOMAIN c,
         \A j \in 1..Len(c) : (\A n \in nodes : j < n) => Placed(es, online, old, Ended(c), j)
  PROVE  Chained(es, online, old, e, ContinuedFrom(es, online, c, nodes))
<1>1. Len(c) \in Nat /\ DOMAIN c = 1..Len(c) /\ \A j \in 1..Len(c) : c[j] \in Nodes
  BY LenProperties, ElementOfSeq
<1>2. CASE nodes = {}
  <2>1. ContinuedFrom(es, online, c, nodes) = c
    BY <1>2 DEF ContinuedFrom
  <2>2. Sound(es, online, old, Ended(c))
    BY <1>2 DEF Sound, Ended
  <2>3. QED  BY <2>1, <2>2 DEF Chained
<1>3. CASE nodes # {}
  <2>1. PICK n : n = Min(nodes)
    OBVIOUS
  <2>2. n \in nodes /\ \A m \in nodes : n <= m
    <3>1. nodes \subseteq Nat
      BY <1>1
    <3>2. \E m \in nodes : \A j \in nodes : m <= j
      BY <1>3, <3>1, Least
    <3>3. QED  BY <2>1, <3>2 DEF Min
  <2>3. n \in 1..Len(c) /\ n - 1 \in Nat /\ n - 1 <= Len(c)
    BY <1>1, <2>2
  <2>4. PICK p : p = SubSeq(c, 1, n - 1)
    OBVIOUS
  <2>5. p \in Seq(Nodes) /\ Len(p) = n - 1 /\ \A j \in 1..(n - 1) : p[j] = c[j]
    BY <1>1, <2>3, <2>4, SubSeqProperties
  <2>6. PICK next : next = <<c[n].entity, c[n].output>>
    OBVIOUS
  <2>7. next \in Streams
    BY <1>1, <2>3, <2>6 DEF Nodes, Streams
  <2>8. PICK w : w = [chain |-> p, next |-> next]
    OBVIOUS
  <2>9. ASSUME NEW j \in 1..Len(p)
        PROVE  Placed(es, online, old, w, j)
    <3>1. j \in Nat \ {0} /\ j \in 1..Len(c) /\ j # Len(c) /\ \A m \in 1..j : m \in 1..(n - 1)
      BY <2>3, <2>5
    <3>2. \A m \in nodes : j < m
      BY <2>2, <2>3, <2>5, <1>1
    <3>3. Placed(es, online, old, Ended(c), j)
      BY <3>1, <3>2
    <3>4. \A m \in 1..j : w.chain[m] = Ended(c).chain[m]
      BY <2>5, <2>8, <3>1 DEF Ended
    <3>5. Follower(w, j) = Follower(Ended(c), j)
      <4>1. Follower(Ended(c), j) = <<c[j + 1].entity, c[j + 1].output>>
        BY <3>1 DEF Follower, Ended
      <4>2. CASE j = Len(p)
        <5>1. j + 1 = n
          BY <2>3, <2>5, <4>2
        <5>2. QED  BY <2>6, <2>8, <4>1, <4>2, <5>1 DEF Follower
      <4>3. CASE j # Len(p)
        <5>1. j + 1 \in 1..(n - 1)
          BY <2>3, <2>5, <4>3
        <5>2. QED  BY <2>5, <2>8, <4>1, <4>3, <5>1 DEF Follower
      <4>4. QED  BY <4>2, <4>3
    <3>6. QED  BY <3>1, <3>3, <3>4, <3>5, PlaceIs
  <2>10. Sound(es, online, old, Walk(p, next))
    BY <2>8, <2>9 DEF Sound, Walk
  <2>11. PICK d : d = Chain(es, online, p, next)
    OBVIOUS
  <2>12. Completes(es, online, old, p, next, d)
    BY <2>5, <2>7, <2>10, <2>11, ChainIs
  <2>13. ContinuedFrom(es, online, c, nodes) = d
    BY <1>3, <2>1, <2>4, <2>6, <2>11 DEF ContinuedFrom
  <2>14. d[1].entity = e /\ d[1].output = None
    <3>1. CASE n = 1
      <4>1. <<d[1].entity, d[1].output>> = <<c[1].entity, c[1].output>>
        <5>1. Len(p) + 1 = 1
          BY <2>5, <3>1
        <5>2. QED  BY <2>6, <2>12, <3>1, <5>1 DEF Completes
      <4>2. QED  BY <4>1
    <3>2. CASE n # 1
      <4>1. 1 \in 1..(n - 1)
        BY <2>3, <3>2
      <4>2. d[1] = c[1]
        BY <2>5, <2>12, <4>1 DEF Completes
      <4>3. QED  BY <4>2
    <3>3. QED  BY <3>1, <3>2
  <2>15. Len(d) > 0
    <3>1. Len(d) \in Nat
      BY <2>12, LenProperties DEF Completes
    <3>2. QED  BY <2>3, <2>5, <2>12, <3>1 DEF Completes
  <2>16. QED  BY <2>12, <2>13, <2>14, <2>15 DEF Chained, Completes
<1>4. QED
  BY <1>2, <1>3

\* A chain whose nodes are all right is the only one.
LEMMA NodeIsTold ==
  ASSUME NEW es, NEW online, NEW w, NEW v, NEW n \in Nat \ {0},
         \A m \in 1..(n - 1) : w.chain[m] = v.chain[m],
         w.chain[n] \in Nodes, v.chain[n] \in Nodes,
         w.chain[n].entity = v.chain[n].entity, w.chain[n].output = v.chain[n].output,
         Right(es, online, w, n), Right(es, online, v, n)
  PROVE  w.chain[n] = v.chain[n] /\ Follower(w, n) = Follower(v, n)
<1>1. PICK x, y, f, g :
        x = w.chain[n] /\ y = v.chain[n] /\ f = Follower(w, n) /\ g = Follower(v, n)
  OBVIOUS
<1>2. x \in Nodes /\ y \in Nodes /\ x.entity = y.entity /\ x.output = y.output
  BY <1>1
<1>3. Repeats(w.chain, n) <=> Repeats(v.chain, n)
  BY DEF Repeats
<1>4. CASE Repeats(w.chain, n)
  <2>1. Looped(x, f) /\ Looped(y, g)
    BY <1>1, <1>3, <1>4 DEF Right
  <2>2. x.status = y.status /\ x.source = y.source /\ f = g
    BY <2>1 DEF Looped
  <2>3. QED  BY <1>1, <1>2, <2>2 DEF Nodes
<1>5. CASE ~Repeats(w.chain, n)
  <2>1. Linked(es, online, x, f) /\ Linked(es, online, y, g)
    BY <1>1, <1>3, <1>5 DEF Right
  <2>2. x.status = y.status /\ x.source = y.source /\ f = g
    BY <1>2, <2>1 DEF Linked
  <2>3. QED  BY <1>1, <1>2, <2>2 DEF Nodes
<1>6. QED
  BY <1>4, <1>5

LEMMA ChainIsUnique ==
  ASSUME NEW es, NEW online, NEW e, NEW c, NEW d,
         Chained(es, online, {}, e, c), Chained(es, online, {}, e, d)
  PROVE  c = d
<1>1. /\ c \in Seq(Nodes) /\ d \in Seq(Nodes) /\ Len(c) \in Nat /\ Len(d) \in Nat
      /\ \A j \in 1..Len(c) : c[j] \in Nodes
      /\ \A j \in 1..Len(d) : d[j] \in Nodes
      /\ DOMAIN c = 1..Len(c) /\ DOMAIN d = 1..Len(d)
  BY LenProperties, ElementOfSeq DEF Chained
<1>2. Len(c) \in Nat /\ Len(d) \in Nat
  BY <1>1
<1>3. /\ \A j \in 1..Len(c) : Right(es, online, Ended(c), j)
      /\ \A j \in 1..Len(d) : Right(es, online, Ended(d), j)
  BY DEF Chained, Sound, Placed, Exempt, Ended
<1> DEFINE Same(n) == n \in 1..Len(c) => /\ n \in 1..Len(d)
                                        /\ \A j \in 1..n : c[j] = d[j]
                                        /\ Follower(Ended(c), n) = Follower(Ended(d), n)
<1>4. ASSUME NEW n \in Nat \ {0}, n \in 1..Len(c), n \in 1..Len(d), \A j \in 1..(n - 1) : c[j] = d[j],
             c[n].entity = d[n].entity, c[n].output = d[n].output
      PROVE  Same(n)
  <2>1. Ended(c).chain = c /\ Ended(d).chain = d
    BY DEF Ended
  <2>2. c[n] = d[n] /\ Follower(Ended(c), n) = Follower(Ended(d), n)
    <3>1. PICK w, v : w = Ended(c) /\ v = Ended(d)
      OBVIOUS
    <3>2. /\ \A m \in 1..(n - 1) : w.chain[m] = v.chain[m]
          /\ w.chain[n] \in Nodes /\ v.chain[n] \in Nodes
          /\ w.chain[n].entity = v.chain[n].entity /\ w.chain[n].output = v.chain[n].output
      BY <1>1, <1>4, <2>1, <3>1
    <3>3. Right(es, online, w, n) /\ Right(es, online, v, n)
      BY <1>3, <1>4, <3>1
    <3>4. w.chain[n] = v.chain[n] /\ Follower(w, n) = Follower(v, n)
      BY <3>2, <3>3, NodeIsTold
    <3>5. QED  BY <2>1, <3>1, <3>4
  <2>3. \A j \in 1..n : j \in 1..(n - 1) \/ j = n
    OBVIOUS
  <2>4. QED  BY <1>4, <2>2, <2>3
<1> HIDE DEF Same
<1>5. PICK T : T = {n \in Nat : Same(n)}
  OBVIOUS
<1>6. 0 \in T
  BY <1>5 DEF Same
<1>7. ASSUME NEW n \in Nat, n \in T
      PROVE  n + 1 \in T
  <2>1. SUFFICES ASSUME n + 1 \in 1..Len(c)
                 PROVE  Same(n + 1)
    BY <1>5 DEF Same
  <2>2. n + 1 \in Nat \ {0} /\ n + 1 - 1 = n
    OBVIOUS
  <2>3. n + 1 \in 1..Len(d) /\ c[n + 1].entity = d[n + 1].entity /\ c[n + 1].output = d[n + 1].output
    <3>1. CASE n = 0
      <4>1. n + 1 = 1 /\ 1 \in 1..Len(d)
        BY <1>1, <3>1 DEF Chained
      <4>2. c[1].entity = d[1].entity /\ c[1].output = d[1].output
        BY DEF Chained
      <4>3. QED  BY <4>1, <4>2
    <3>2. CASE n # 0
      <4>1. n \in 1..Len(c) /\ n # Len(c)
        BY <1>2, <2>1, <3>2
      <4>2. n \in 1..Len(d) /\ Follower(Ended(c), n) = Follower(Ended(d), n)
        BY <1>5, <1>7, <4>1 DEF Same
      <4>3. Follower(Ended(c), n) = <<c[n + 1].entity, c[n + 1].output>>
        BY <4>1 DEF Follower, Ended
      <4>4. n # Len(d)
        <5>1. <<c[n + 1].entity, c[n + 1].output>> \in Streams
          BY <1>1, <2>1 DEF Nodes, Streams
        <5>2. n = Len(d) => Follower(Ended(d), n) = None
          BY DEF Follower, Ended
        <5>3. QED  BY <4>2, <4>3, <5>1, <5>2, StreamsAreNot
      <4>5. n + 1 \in 1..Len(d)
        BY <1>2, <4>2, <4>4
      <4>6. Follower(Ended(d), n) = <<d[n + 1].entity, d[n + 1].output>>
        BY <4>4 DEF Follower, Ended
      <4>7. <<c[n + 1].entity, c[n + 1].output>> = <<d[n + 1].entity, d[n + 1].output>>
        BY <4>2, <4>3, <4>6
      <4>8. QED  BY <4>5, <4>7
    <3>3. QED  BY <3>1, <3>2
  <2>4. \A j \in 1..n : c[j] = d[j]
    <3>1. CASE n = 0
      BY <3>1
    <3>2. CASE n # 0
      <4>1. n \in 1..Len(c)
        BY <1>1, <2>1, <3>2
      <4>2. QED  BY <1>5, <1>7, <4>1 DEF Same
    <3>3. QED  BY <3>1, <3>2
  <2>5. QED  BY <1>4, <2>1, <2>2, <2>3, <2>4
<1>8. Nat \subseteq T
  BY <1>6, <1>7, Induction
<1>9. Same(Len(c))
  BY <1>1, <1>5, <1>8
<1>10. Len(c) \in 1..Len(c)
  BY <1>1 DEF Chained
<1>11. Len(c) \in 1..Len(d) /\ \A j \in 1..Len(c) : c[j] = d[j]
  BY <1>9, <1>10 DEF Same
<1>12. Len(c) = Len(d)
  <2>1. SUFFICES ASSUME Len(c) # Len(d)
                 PROVE  FALSE
    OBVIOUS
  <2>2. Follower(Ended(c), Len(c)) = None
    BY DEF Follower, Ended
  <2>3. Follower(Ended(d), Len(c)) = <<d[Len(c) + 1].entity, d[Len(c) + 1].output>>
    BY <2>1 DEF Follower, Ended
  <2>4. Len(c) + 1 \in 1..Len(d)
    BY <1>2, <1>11, <2>1
  <2>5. <<d[Len(c) + 1].entity, d[Len(c) + 1].output>> \in Streams
    BY <1>1, <2>4 DEF Nodes, Streams
  <2>6. Follower(Ended(c), Len(c)) = Follower(Ended(d), Len(c))
    BY <1>9, <1>10 DEF Same
  <2>7. QED  BY <2>2, <2>3, <2>5, <2>6, StreamsAreNot
<1>13. QED
  BY <1>1, <1>11, <1>12, SeqEqual

-----------------------------------------------------------------------------
(* Types of what the handlers compute                                        *)

LEMMA ChainTyped ==
  ASSUME NEW es \in Everybody, NEW online \in SUBSET Entities,
         NEW chain \in Seq(Nodes), NEW next \in Streams
  PROVE  Chain(es, online, chain, next) \in Seq(Nodes)
<1>1. PICK w : w = [chain |-> chain, next |-> next] /\ w = Walk(chain, next)
  BY DEF Walk
<1>2. w \in Walks
  BY <1>1 DEF Walks
<1>3. PICK m : m = Enough
  OBVIOUS
<1>4. m \in Nat \ {0} /\ LeadsTo(es, online, w, Chain(es, online, chain, next))
  BY <1>1, <1>3, ChainWalks
<1>5. PICK walk : IsWalk(es, online, w, walk, m) /\ Chain(es, online, chain, next) = walk[m].chain
  BY <1>3, <1>4 DEF LeadsTo
<1>6. PICK T : T = {n \in Nat : n \in 0..m => walk[n] \in Walks}
  OBVIOUS
<1>7. 0 \in T
  <2>1. walk[0] = w
    BY <1>4, <1>5 DEF IsWalk
  <2>2. QED  BY <1>2, <1>6, <2>1
<1>8. ASSUME NEW n \in Nat, n \in T
      PROVE  n + 1 \in T
  <2>1. SUFFICES ASSUME n + 1 \in 0..m
                 PROVE  walk[n + 1] \in Walks
    BY <1>6
  <2>2. n \in 0..m /\ n + 1 # 0 /\ n + 1 - 1 = n
    BY <1>4, <2>1
  <2>3. walk[n] \in Walks
    BY <1>6, <1>8, <2>2
  <2>4. walk[n + 1] = IF walk[n].next = None THEN walk[n] ELSE Visited(es, online, walk[n])
    BY <1>5, <2>1, <2>2 DEF IsWalk
  <2>5. CASE walk[n].next = None
    BY <2>3, <2>4, <2>5
  <2>6. CASE walk[n].next # None
    <3>1. PICK u : u = walk[n]
      OBVIOUS
    <3>2. PICK node \in Nodes, after \in Streams \cup {None} : Visited(es, online, u) = Longer(u, node, after)
      BY <2>3, <2>6, <3>1, TurnIs
    <3>3. Longer(u, node, after) \in Walks
      BY <2>3, <3>1, LongerIs
    <3>4. QED  BY <2>4, <2>6, <3>1, <3>2, <3>3
  <2>7. QED  BY <2>5, <2>6
<1>9. Nat \subseteq T
  BY <1>7, <1>8, Induction
<1>10. walk[m] \in Walks
  <2>1. m \in 0..m
    BY <1>4
  <2>2. QED  BY <1>6, <1>9, <2>1
<1>11. QED
  BY <1>5, <1>10 DEF Walks

LEMMA ContinuedTyped ==
  ASSUME NEW es \in Everybody, NEW online \in SUBSET Entities,
         NEW c \in Seq(Nodes), NEW nodes \in SUBSET DOMAIN c
  PROVE  ContinuedFrom(es, online, c, nodes) \in Seq(Nodes)
<1>1. Len(c) \in Nat /\ DOMAIN c = 1..Len(c) /\ \A j \in 1..Len(c) : c[j] \in Nodes
  BY LenProperties, ElementOfSeq
<1>2. CASE nodes = {}
  BY <1>2 DEF ContinuedFrom
<1>3. CASE nodes # {}
  <2>1. PICK n : n = Min(nodes)
    OBVIOUS
  <2>2. n \in nodes
    <3>1. nodes \subseteq Nat
      BY <1>1
    <3>2. \E m \in nodes : \A j \in nodes : m <= j
      BY <1>3, <3>1, Least
    <3>3. QED  BY <2>1, <3>2 DEF Min
  <2>3. n \in 1..Len(c) /\ n - 1 \in Nat /\ n - 1 <= Len(c)
    BY <1>1, <2>2
  <2>4. PICK p : p = SubSeq(c, 1, n - 1)
    OBVIOUS
  <2>5. p \in Seq(Nodes)
    BY <1>1, <2>3, <2>4, SubSeqProperties
  <2>6. PICK next \in Streams : next = <<c[n].entity, c[n].output>>
    BY <1>1, <2>3 DEF Nodes, Streams
  <2>7. ContinuedFrom(es, online, c, nodes) = Chain(es, online, p, next)
    BY <1>3, <2>1, <2>4, <2>6 DEF ContinuedFrom
  <2>8. QED  BY <2>5, <2>7, ChainTyped
<1>4. QED
  BY <1>2, <1>3

-----------------------------------------------------------------------------
(* The cluster that feeds a cluster                                          *)

\* What a cluster of an entity is said to be fed by, when it takes a mapping.
Fed(es, e, f, mapping) ==
  LET talker == es[e].sink[mapping[1]].talker
  IN  /\ f.talker = talker
      /\ talker = None \/ es[talker[1]].status = "offline" => f.cluster = None
      /\ talker # None /\ talker[1] # e /\ es[talker[1]].status # "offline" =>
           f.cluster = es[talker[1]].outputMap[<<talker[2], mapping[2]>>]

LEMMA UnmappedIs ==
  /\ Unmapped \in Feds /\ Unmapped.from = None /\ Unmapped.talker = None /\ Unmapped.cluster = None
BY DEF Unmapped, Feds, Mappings

LEMMA MappingIs ==
  ASSUME NEW mapping \in Mappings, mapping # None
  PROVE  mapping \in Inputs \X Channels /\ mapping[1] \in Inputs /\ mapping[2] \in Channels
BY DEF Mappings

LEMMA TalkerIs ==
  ASSUME NEW es \in Everybody, NEW e \in Entities, NEW i \in Inputs
  PROVE  es[e].sink[i] \in Infos /\ es[e].sink[i].talker \in Sources \cup {None}
<1>1. es[e].sink[i] \in Infos
  BY DEF Everybody, Controlled
<1>2. QED
  BY <1>1, ConnectedIs

LEMMA FedByStreamIs ==
  ASSUME NEW es \in Everybody, NEW f \in Feds, NEW talker \in Sources \cup {None}
  PROVE  LET g == FedByStream(es, f, talker)
         IN  /\ g \in Feds /\ g.from = f.from /\ g.talker = talker
             /\ f.talker = talker => g = f
             /\ f.talker # talker /\ talker = None => g.cluster = None
             /\ f.talker # talker /\ talker # None /\ f.cluster = None /\ f.from # None =>
                  g.cluster = IF es[talker[1]].status = "offline" THEN None
                              ELSE es[talker[1]].outputMap[<<talker[2], f.from[2]>>]
<1>1. CASE f.talker = talker
  BY <1>1 DEF FedByStream
<1>2. CASE f.talker # talker /\ talker = None
  <2>1. FedByStream(es, f, talker) = [f EXCEPT !.talker = None, !.cluster = None]
    BY <1>2 DEF FedByStream
  <2>2. QED  BY <1>2, <2>1 DEF Feds
<1>3. CASE f.talker # talker /\ talker # None
  <2>1. PICK cluster : cluster = IF f.from = None \/ es[talker[1]].status = "offline" THEN None
                                 ELSE es[talker[1]].outputMap[<<talker[2], f.from[2]>>]
    OBVIOUS
  <2>2. FedByStream(es, f, talker) =
          [f EXCEPT !.talker = talker, !.cluster = IF cluster = None THEN @ ELSE cluster]
    BY <1>3, <2>1 DEF FedByStream
  <2>3. cluster \in Clusters \cup {None}
    <3>1. CASE f.from = None \/ es[talker[1]].status = "offline"
      BY <2>1, <3>1
    <3>2. CASE ~(f.from = None \/ es[talker[1]].status = "offline")
      <4>1. f.from \in Mappings
        BY DEF Feds
      <4>2. f.from[2] \in Channels
        BY <3>2, <4>1, MappingIs
      <4>3. talker[1] \in Entities /\ talker[2] \in Outputs
        BY <1>3 DEF Sources
      <4>4. <<talker[2], f.from[2]>> \in Outputs \X Channels
        BY <4>2, <4>3
      <4>5. es[talker[1]].outputMap \in [Outputs \X Channels -> Clusters \cup {None}]
        BY <4>3 DEF Everybody, Controlled
      <4>6. QED  BY <2>1, <3>2, <4>4, <4>5
    <3>3. QED  BY <3>1, <3>2
  <2>4. PICK filled \in Clusters \cup {None} : filled = IF cluster = None THEN f.cluster ELSE cluster
    BY <2>3 DEF Feds
  <2>5. PICK g : g = FedByStream(es, f, talker)
    OBVIOUS
  <2>6. g = [f EXCEPT !.talker = talker, !.cluster = filled]
    BY <2>2, <2>4, <2>5
  <2>7. g \in Feds /\ g.from = f.from /\ g.talker = talker /\ g.cluster = filled
    BY <2>6 DEF Feds
  <2>8. f.cluster = None => filled = cluster
    BY <2>4
  <2>9. QED  BY <1>3, <2>1, <2>5, <2>7, <2>8
<1>4. QED
  BY <1>1, <1>2, <1>3

LEMMA FedByMappingIs ==
  ASSUME NEW es \in Everybody, NEW e \in Entities, NEW mapping \in Mappings,
         NEW f \in Feds, f.from = None => f = Unmapped
  PROVE  LET g == FedByMapping(es, e, f, mapping)
         IN  /\ g \in Feds /\ g.from = mapping
             /\ g.from = None => g = Unmapped
             /\ f.from = mapping => g = f
             /\ f.from = None /\ mapping # None => Fed(es, e, g, mapping)
<1>1. CASE f.from = mapping
  BY <1>1 DEF FedByMapping
<1>2. CASE f.from # mapping /\ mapping = None
  BY <1>2, UnmappedIs DEF FedByMapping
<1>3. CASE f.from # mapping /\ mapping # None
  <2>1. PICK h : h = [f EXCEPT !.from = mapping]
    OBVIOUS
  <2>2. PICK talker : talker = es[e].sink[mapping[1]].talker
    OBVIOUS
  <2>3. talker \in Sources \cup {None}
    BY <1>3, <2>2, MappingIs, TalkerIs
  <2>4. h \in Feds /\ h.from = mapping /\ h.talker = f.talker /\ h.cluster = f.cluster
    BY <2>1 DEF Feds
  <2>5. PICK g : g = FedByStream(es, h, talker)
    OBVIOUS
  <2>6. FedByMapping(es, e, f, mapping) = g
    BY <1>3, <2>1, <2>2, <2>5 DEF FedByMapping
  <2>7. /\ g \in Feds /\ g.from = mapping /\ g.talker = talker
        /\ h.talker = talker => g = h
        /\ h.talker # talker /\ talker # None /\ h.cluster = None =>
             g.cluster = IF es[talker[1]].status = "offline" THEN None
                         ELSE es[talker[1]].outputMap[<<talker[2], mapping[2]>>]
    BY <1>3, <2>3, <2>4, <2>5, FedByStreamIs
  <2>8. ASSUME f.from = None
        PROVE  Fed(es, e, g, mapping)
    <3>1. h.talker = None /\ h.cluster = None
      BY <2>4, <2>8, UnmappedIs
    <3>2. CASE talker = None
      <4>1. g.cluster = None
        BY <2>7, <3>1, <3>2
      <4>2. QED  BY <2>2, <2>7, <3>2, <4>1 DEF Fed
    <3>3. CASE talker # None
      <4>1. g.cluster = IF es[talker[1]].status = "offline" THEN None
                        ELSE es[talker[1]].outputMap[<<talker[2], mapping[2]>>]
        BY <2>7, <3>1, <3>3
      <4>2. QED  BY <2>2, <2>7, <3>3, <4>1 DEF Fed
    <3>4. QED  BY <3>2, <3>3
  <2>9. QED  BY <1>3, <2>6, <2>7, <2>8
<1>4. QED
  BY <1>1, <1>2, <1>3

LEMMA FedByTalkerTyped ==
  ASSUME NEW f \in Feds, NEW talker, NEW channel, NEW cluster \in Clusters \cup {None}
  PROVE  LET g == FedByTalker(f, talker, channel, cluster)
         IN  /\ g \in Feds /\ g.from = f.from /\ g.talker = f.talker
             /\ g.cluster = IF f.talker = talker /\ f.from # None /\ f.from[2] = channel
                            THEN cluster ELSE f.cluster
             /\ f.from = None => g = f
<1>1. CASE f.talker = talker /\ f.from # None /\ f.from[2] = channel
  <2>1. FedByTalker(f, talker, channel, cluster) = [f EXCEPT !.cluster = cluster]
    BY <1>1 DEF FedByTalker
  <2>2. QED  BY <1>1, <2>1 DEF Feds
<1>2. CASE ~(f.talker = talker /\ f.from # None /\ f.from[2] = channel)
  BY <1>2 DEF FedByTalker
<1>3. QED
  BY <1>1, <1>2

LEMMA FedByNobodyTyped ==
  ASSUME NEW f \in Feds, NEW t
  PROVE  LET g == FedByNobody(f, t)
         IN  /\ g \in Feds /\ g.from = f.from /\ g.talker = f.talker
             /\ g.cluster = IF f.talker # None /\ f.talker[1] = t THEN None ELSE f.cluster
             /\ f = Unmapped => g = f
<1>1. CASE f.talker # None /\ f.talker[1] = t
  <2>1. FedByNobody(f, t) = [f EXCEPT !.cluster = None]
    BY <1>1 DEF FedByNobody
  <2>2. QED  BY <1>1, <2>1, UnmappedIs DEF Feds
<1>2. CASE ~(f.talker # None /\ f.talker[1] = t)
  BY <1>2 DEF FedByNobody
<1>3. QED
  BY <1>1, <1>2

LEMMA FedByEntityTyped ==
  ASSUME NEW es \in Everybody, NEW f \in Feds, NEW t \in Entities
  PROVE  LET g == FedByEntity(es, f, t)
         IN  /\ g \in Feds /\ g.from = f.from /\ g.talker = f.talker
             /\ f.from = None => g = f
             /\ f.talker = None \/ f.talker[1] # t => g = f
             /\ f.talker # None /\ f.talker[1] = t /\ f.from # None /\
                f.cluster = es[t].outputMap[<<f.talker[2], f.from[2]>>] => g = f
<1>1. CASE f.talker = None \/ f.talker[1] # t \/ f.from = None
  BY <1>1 DEF FedByEntity
<1>2. CASE ~(f.talker = None \/ f.talker[1] # t \/ f.from = None)
  <2>1. PICK cluster : cluster = es[t].outputMap[<<f.talker[2], f.from[2]>>]
    OBVIOUS
  <2>2. FedByEntity(es, f, t) = IF cluster = None THEN f ELSE [f EXCEPT !.cluster = cluster]
    BY <1>2, <2>1 DEF FedByEntity
  <2>3. cluster \in Clusters \cup {None}
    <3>1. f.from \in Mappings /\ f.talker \in Sources \cup {None}
      BY DEF Feds
    <3>2. f.from[2] \in Channels /\ f.talker[2] \in Outputs
      BY <1>2, <3>1, MappingIs DEF Sources
    <3>3. <<f.talker[2], f.from[2]>> \in Outputs \X Channels
      BY <3>2
    <3>4. es[t].outputMap \in [Outputs \X Channels -> Clusters \cup {None}]
      BY DEF Everybody, Controlled
    <3>5. QED  BY <2>1, <3>3, <3>4
  <2>4. CASE cluster = None
    BY <1>2, <2>2, <2>4
  <2>5. CASE cluster # None
    <3>1. PICK g : g = [f EXCEPT !.cluster = cluster]
      OBVIOUS
    <3>2. g \in Feds /\ g.from = f.from /\ g.talker = f.talker /\ (f.cluster = cluster => g = f)
      BY <2>3, <3>1 DEF Feds
    <3>3. FedByEntity(es, f, t) = g
      BY <2>2, <2>5, <3>1
    <3>4. QED  BY <1>2, <2>1, <3>2, <3>3
  <2>6. QED  BY <2>4, <2>5
<1>3. QED
  BY <1>1, <1>2

-----------------------------------------------------------------------------
(* Connections: what changes, field by field                                 *)

SameDevice(c, d) ==
  /\ d.status = c.status /\ d.sink = c.sink /\ d.clock = c.clock
  /\ d.latency = c.latency /\ d.offset = c.offset
  /\ d.inputMap = c.inputMap /\ d.outputMap = c.outputMap
SameDevices(es, after) == \A x \in Entities : SameDevice(es[x], after[x])

LEMMA SameAdvertised ==
  ASSUME NEW es, NEW after, SameDevices(es, after)
  PROVE  Advertised(after) = Advertised(es)
BY DEF Advertised, SameDevices, SameDevice

\* A talker is told, or not, of one of its listeners.
Told(es, t, o, known) == [es EXCEPT ![t].listeners[o] = known]

LEMMA ToldIs ==
  ASSUME NEW es \in Everybody, NEW t \in Entities, NEW o \in Outputs, NEW known \in SUBSET Sinks
  PROVE  LET r == Told(es, t, o, known)
         IN  /\ r \in Everybody /\ SameDevices(es, r)
             /\ \A x \in Entities : r[x].chain = es[x].chain /\ r[x].over = es[x].over /\ r[x].fed = es[x].fed
             /\ \A x \in Entities, p \in Outputs :
                  r[x].listeners[p] = IF x = t /\ p = o THEN known ELSE es[x].listeners[p]
<1>1. PICK c \in Controlled : c = es[t]
  BY DEF Everybody
<1>2. PICK d : d = [c EXCEPT !.listeners = [c.listeners EXCEPT ![o] = known]]
  OBVIOUS
<1>3. PICK r : r = [es EXCEPT ![t] = d]
  OBVIOUS
<1>4. r = Told(es, t, o, known)
  BY <1>1, <1>2, <1>3 DEF Told
<1>5. c.listeners \in [Outputs -> SUBSET Sinks]
  BY DEF Controlled
<1>6. d \in Controlled /\ SameDevice(c, d) /\ d.chain = c.chain /\ d.over = c.over /\ d.fed = c.fed
  BY <1>2, <1>5 DEF Controlled, SameDevice
<1>7. \A p \in Outputs : d.listeners[p] = IF p = o THEN known ELSE c.listeners[p]
  BY <1>2, <1>5 DEF Controlled
<1>8. \A x \in Entities : r[x] = IF x = t THEN d ELSE es[x]
  BY <1>3 DEF Everybody
<1>9. r \in Everybody
  BY <1>3, <1>6 DEF Everybody
<1>10. SameDevices(es, r)
  BY <1>1, <1>6, <1>8 DEF SameDevices, SameDevice
<1>11. \A x \in Entities : r[x].chain = es[x].chain /\ r[x].over = es[x].over /\ r[x].fed = es[x].fed
  BY <1>1, <1>6, <1>8
<1>12. ASSUME NEW x \in Entities, NEW p \in Outputs
       PROVE  r[x].listeners[p] = IF x = t /\ p = o THEN known ELSE es[x].listeners[p]
  BY <1>1, <1>7, <1>8
<1>13. QED
  BY <1>4, <1>9, <1>10, <1>11, <1>12

IsTold(es, r, talker, sink, connected) ==
  /\ r \in Everybody /\ SameDevices(es, r)
  /\ \A x \in Entities : r[x].chain = es[x].chain /\ r[x].over = es[x].over /\ r[x].fed = es[x].fed
  /\ \A x \in Entities, o \in Outputs, s \in Sinks :
       s \in r[x].listeners[o] <=>
         IF es[x].status = "advertised" /\ talker = <<x, o>> /\ s = sink THEN connected
         ELSE s \in es[x].listeners[o]

LEMMA TalkerToldIs ==
  ASSUME NEW es \in Everybody, NEW talker \in Sources \cup {None}, NEW sink \in Sinks, NEW connected \in BOOLEAN
  PROVE  IsTold(es, TalkerTold(es, talker, sink, connected), talker, sink, connected)
<1>1. CASE talker = None \/ es[talker[1]].status # "advertised"
  <2>1. TalkerTold(es, talker, sink, connected) = es
    BY <1>1 DEF TalkerTold
  <2>2. \A x \in Entities, o \in Outputs : ~(es[x].status = "advertised" /\ talker = <<x, o>>)
    BY <1>1, ConstantsAssumption DEF Sources
  <2>3. SameDevices(es, es)
    BY DEF SameDevices, SameDevice
  <2>4. QED  BY <2>1, <2>2, <2>3 DEF IsTold
<1>2. CASE talker # None /\ es[talker[1]].status = "advertised"
  <2>1. PICK t \in Entities, o \in Outputs : talker = <<t, o>>
    BY <1>2 DEF Sources
  <2>2. es[t].listeners[o] \in SUBSET Sinks
    BY DEF Everybody, Controlled
  <2>3. PICK known \in SUBSET Sinks :
          known = IF connected THEN es[t].listeners[o] \cup {sink} ELSE es[t].listeners[o] \ {sink}
    BY <2>2
  <2>4. PICK r : r = Told(es, t, o, known)
    OBVIOUS
  <2>5. TalkerTold(es, talker, sink, connected) = r
    BY <1>2, <2>1, <2>3, <2>4 DEF TalkerTold, Told
  <2>6. /\ r \in Everybody /\ SameDevices(es, r)
        /\ \A x \in Entities : r[x].chain = es[x].chain /\ r[x].over = es[x].over /\ r[x].fed = es[x].fed
        /\ \A x \in Entities, p \in Outputs :
             r[x].listeners[p] = IF x = t /\ p = o THEN known ELSE es[x].listeners[p]
    BY <2>4, ToldIs
  <2>7. \A s \in Sinks : s \in known <=> IF s = sink THEN connected ELSE s \in es[t].listeners[o]
    BY <2>3
  <2>8. es[t].status = "advertised"
    BY <1>2, <2>1
  <2>9. ASSUME NEW x \in Entities, NEW p \in Outputs, NEW s \in Sinks
        PROVE  s \in r[x].listeners[p] <=>
                 IF es[x].status = "advertised" /\ talker = <<x, p>> /\ s = sink THEN connected
                 ELSE s \in es[x].listeners[p]
    BY <2>1, <2>6, <2>7, <2>8
  <2>10. QED  BY <2>5, <2>6, <2>9 DEF IsTold
<1>3. QED
  BY <1>1, <1>2

\* The nodes from which a chain is updated, when the connection of an input changes.
LEMMA NodesReconnectedTyped ==
  ASSUME NEW chain, NEW sink, NEW was, NEW info
  PROVE  NodesReconnected(chain, sink, was, info) \in SUBSET DOMAIN chain
BY DEF NodesReconnected, LastNode, NodesThrough, NodesOf

\* A cluster, when the connection of an input changes.
LEMMA FedReconnectedIs ==
  ASSUME NEW es \in Everybody, NEW f \in Feds, NEW i \in Inputs, NEW was \in Infos, NEW info \in Infos
  PROVE  LET g == FedReconnected(es, f, i, was, info)
         IN  /\ g \in Feds /\ g.from = f.from
             /\ f.from = None \/ f.from[1] # i => g = f
             /\ f.from # None /\ f.from[1] = i /\ f.talker = was.talker /\ (was.talker = None => f.cluster = None)
                /\ was # info /\ was.state # "FastConnecting" /\ info.state # "FastConnecting" =>
                  /\ g.talker = info.talker
                  /\ g.cluster = IF info.talker = None \/ es[info.talker[1]].status = "offline" THEN None
                                 ELSE es[info.talker[1]].outputMap[<<info.talker[2], f.from[2]>>]
<1>1. info.talker \in Sources \cup {None} /\ was.talker \in Sources \cup {None} /\ None \in Sources \cup {None}
  BY ConnectedIs
<1>2. CASE f.from = None \/ f.from[1] # i
  BY <1>2 DEF FedReconnected
<1>3. CASE f.from # None /\ f.from[1] = i
  <2>1. PICK h : h = IF Disconnecting(was, info) \/ Moving(was, info) THEN FedByStream(es, f, None) ELSE f
    OBVIOUS
  <2>2. PICK g : g = IF Connecting(was, info) \/ Moving(was, info) THEN FedByStream(es, h, info.talker) ELSE h
    OBVIOUS
  <2>3. FedReconnected(es, f, i, was, info) = g
    BY <1>3, <2>1, <2>2 DEF FedReconnected
  <2>4. h \in Feds /\ h.from = f.from
    BY <1>1, <2>1, FedByStreamIs
  <2>5. g \in Feds /\ g.from = f.from
    BY <1>1, <2>2, <2>4, FedByStreamIs
  <2>6. ASSUME f.talker = was.talker, was.talker = None => f.cluster = None, was # info,
               was.state # "FastConnecting", info.state # "FastConnecting"
        PROVE  /\ g.talker = info.talker
               /\ g.cluster = IF info.talker = None \/ es[info.talker[1]].status = "offline" THEN None
                              ELSE es[info.talker[1]].outputMap[<<info.talker[2], f.from[2]>>]
    <3>1. Connecting(was, info) \/ Disconnecting(was, info) \/ Moving(was, info)
      <4>1. was.state \in {"NotConnected", "Connected"} /\ info.state \in {"NotConnected", "Connected"}
        BY <2>6, ConnectedIs
      <4>2. ~(was.state = "NotConnected" /\ info.state = "NotConnected")
        BY <2>6, ConnectedIs
      <4>3. was.state = "Connected" /\ info.state = "Connected" => was.talker # info.talker
        <5>1. was = [state |-> was.state, talker |-> was.talker] /\ info = [state |-> info.state, talker |-> info.talker]
          BY ConnectedIs
        <5>2. QED  BY <2>6, <5>1
      <4>4. QED  BY <4>1, <4>2, <4>3 DEF Connecting, Disconnecting, Moving
    <3>2. was.state = "NotConnected" <=> was.talker = None
      BY ConnectedIs
    <3>3. info.state = "NotConnected" <=> info.talker = None
      BY ConnectedIs
    <3>4. CASE Disconnecting(was, info)
      <4>1. h = FedByStream(es, f, None) /\ g = h
        BY <2>1, <2>2, <3>4 DEF Connecting, Disconnecting, Moving
      <4>2. f.talker # None /\ info.talker = None
        BY <2>6, <3>2, <3>3, <3>4 DEF Connecting, Disconnecting, Moving
      <4>3. h.talker = None /\ h.cluster = None
        BY <1>1, <4>1, <4>2, FedByStreamIs
      <4>4. QED  BY <4>1, <4>2, <4>3
    <3>5. CASE Connecting(was, info) \/ Moving(was, info)
      <4>1. g = FedByStream(es, h, info.talker) /\ info.talker # None
        BY <2>2, <3>3, <3>5 DEF Connecting, Disconnecting, Moving
      <4>2. h.talker = None /\ h.cluster = None
        <5>1. CASE Connecting(was, info)
          <6>1. h = f /\ was.talker = None
            BY <2>1, <3>2, <5>1 DEF Connecting, Disconnecting, Moving
          <6>2. QED  BY <2>6, <6>1
        <5>2. CASE Moving(was, info)
          <6>1. h = FedByStream(es, f, None) /\ f.talker # None
            BY <2>1, <2>6, <3>2, <5>2 DEF Connecting, Disconnecting, Moving
          <6>2. QED  BY <1>1, <6>1, FedByStreamIs
        <5>3. QED  BY <3>5, <5>1, <5>2
      <4>3. QED  BY <1>1, <1>3, <2>4, <4>1, <4>2, FedByStreamIs
    <3>6. QED  BY <3>1, <3>4, <3>5
  <2>7. QED  BY <1>3, <2>3, <2>5, <2>6
<1>4. QED
  BY <1>2, <1>3

\* Who a talker knows, once the connection of an input changed.
KnownAnew(es, sink, was, info, x, o, s) ==
  IF es[x].status # "advertised" \/ s # sink \/ was.talker = info.talker THEN s \in es[x].listeners[o]
  ELSE IF info.talker = <<x, o>> /\ info.state = "Connected" THEN TRUE
  ELSE was.talker # <<x, o>> /\ s \in es[x].listeners[o]

Applied(es, after, e, i, was, info) ==
  /\ after \in Everybody /\ SameDevices(es, after)
  /\ \A x \in Entities, o \in Outputs, s \in Sinks :
       s \in after[x].listeners[o] <=> KnownAnew(es, <<e, i>>, was, info, x, o, s)
  /\ \E at \in Everybody :
       /\ SameDevices(es, at)
       /\ \A x \in Entities :
            after[x].chain =
              IF x \in Advertised(es)
              THEN ContinuedFrom(at, Advertised(es), es[x].chain, NodesReconnected(es[x].chain, <<e, i>>, was, info))
              ELSE es[x].chain
  /\ \A x \in Entities : after[x].over = IF x = e THEN LatencyReset(es[e].over, i, info) ELSE es[x].over
  /\ \A x \in Entities \ {e} : after[x].fed = es[x].fed
  /\ \E at \in Everybody :
       SameDevices(es, at) /\ after[e].fed = [k \in Clusters |-> FedReconnected(at, es[e].fed[k], i, was, info)]

LEMMA ConnectionAppliedIs ==
  ASSUME NEW es \in Everybody, NEW e \in Entities, NEW i \in Inputs,
         NEW was \in Infos, NEW info \in Infos, es[e].fed \in [Clusters -> Feds]
  PROVE  Applied(es, ConnectionApplied(es, <<e, i>>, was, info), e, i, was, info)
<1> DEFINE moved == was.talker # info.talker
           connected == info.state = "Connected"
<1>1. PICK sink \in Sinks : sink = <<e, i>>
  BY DEF Sinks
<1>2. was.talker \in Sources \cup {None} /\ info.talker \in Sources \cup {None}
  BY ConnectedIs
<1>3. PICK es1 : es1 = IF moved THEN TalkerTold(es, was.talker, sink, FALSE) ELSE es
  OBVIOUS
<1>4. PICK es2 : es2 = IF moved /\ connected THEN TalkerTold(es1, info.talker, sink, TRUE) ELSE es1
  OBVIOUS
<1>5. SameDevices(es, es)
  BY DEF SameDevices, SameDevice
<1>6. /\ es1 \in Everybody /\ SameDevices(es, es1)
      /\ \A x \in Entities : es1[x].chain = es[x].chain /\ es1[x].over = es[x].over /\ es1[x].fed = es[x].fed
      /\ \A x \in Entities, o \in Outputs, s \in Sinks :
           s \in es1[x].listeners[o] <=>
             IF moved /\ es[x].status = "advertised" /\ was.talker = <<x, o>> /\ s = sink THEN FALSE
             ELSE s \in es[x].listeners[o]
  <2>1. CASE moved
    <3>1. FALSE \in BOOLEAN
      OBVIOUS
    <3>2. IsTold(es, es1, was.talker, sink, FALSE)
      BY <1>2, <1>3, <2>1, <3>1, TalkerToldIs
    <3>3. QED  BY <2>1, <3>2 DEF IsTold
  <2>2. CASE ~moved
    BY <1>3, <1>5, <2>2
  <2>3. QED  BY <2>1, <2>2
<1>7. /\ es2 \in Everybody /\ SameDevices(es1, es2)
      /\ \A x \in Entities : es2[x].chain = es1[x].chain /\ es2[x].over = es1[x].over /\ es2[x].fed = es1[x].fed
      /\ \A x \in Entities, o \in Outputs, s \in Sinks :
           s \in es2[x].listeners[o] <=>
             IF moved /\ connected /\ es1[x].status = "advertised" /\ info.talker = <<x, o>> /\ s = sink THEN TRUE
             ELSE s \in es1[x].listeners[o]
  <2>1. CASE moved /\ connected
    <3>1. TRUE \in BOOLEAN
      OBVIOUS
    <3>2. IsTold(es1, es2, info.talker, sink, TRUE)
      BY <1>2, <1>4, <1>6, <2>1, <3>1, TalkerToldIs
    <3>3. QED  BY <2>1, <3>2 DEF IsTold
  <2>2. CASE ~(moved /\ connected)
    <3>1. SameDevices(es1, es1)
      BY DEF SameDevices, SameDevice
    <3>2. QED  BY <1>4, <1>6, <2>2, <3>1
  <2>3. QED  BY <2>1, <2>2
<1>8. SameDevices(es, es2)
  BY <1>6, <1>7 DEF SameDevices, SameDevice
<1>9. ASSUME NEW x \in Entities, NEW o \in Outputs, NEW s \in Sinks
      PROVE  s \in es2[x].listeners[o] <=> KnownAnew(es, sink, was, info, x, o, s)
  <2>1. es1[x].status = es[x].status
    BY <1>6 DEF SameDevices, SameDevice
  <2>2. QED  BY <1>6, <1>7, <2>1 DEF KnownAnew
<1>10. PICK online \in SUBSET Entities : online = Advertised(es) /\ online = Advertised(es2)
  BY <1>8, SameAdvertised DEF Advertised
<1> DEFINE Continued(x) == ContinuedFrom(es2, online, es[x].chain, NodesReconnected(es[x].chain, sink, was, info))
<1>11. \A x \in Entities : Continued(x) \in Seq(Nodes)
  <2>1. ASSUME NEW x \in Entities
        PROVE  Continued(x) \in Seq(Nodes)
    <3>1. es[x].chain \in Seq(Nodes)
      BY DEF Everybody, Controlled
    <3>2. NodesReconnected(es[x].chain, sink, was, info) \in SUBSET DOMAIN es[x].chain
      BY NodesReconnectedTyped
    <3>3. QED  BY <1>7, <3>1, <3>2, ContinuedTyped
  <2>2. QED  BY <2>1
<1>12. PICK es3 : es3 = [x \in Entities |-> IF x \in online THEN [es2[x] EXCEPT !.chain = Continued(x)] ELSE es2[x]]
  OBVIOUS
<1>13. ASSUME NEW x \in Entities
       PROVE  /\ es3[x] \in Controlled /\ SameDevice(es2[x], es3[x])
              /\ es3[x].listeners = es2[x].listeners /\ es3[x].over = es2[x].over /\ es3[x].fed = es2[x].fed
              /\ es3[x].chain = IF x \in online THEN Continued(x) ELSE es2[x].chain
  <2>1. PICK c \in Controlled : c = es2[x]
    BY <1>7 DEF Everybody
  <2>2. PICK chain \in Seq(Nodes) : chain = Continued(x)
    BY <1>11
  <2>3. CASE x \in online
    <3>1. es3[x] = [c EXCEPT !.chain = chain]
      BY <1>12, <2>1, <2>2, <2>3
    <3>2. PICK d : d = [c EXCEPT !.chain = chain]
      OBVIOUS
    <3>3. d \in Controlled /\ SameDevice(c, d) /\ d.listeners = c.listeners /\ d.over = c.over /\ d.fed = c.fed /\ d.chain = chain
      BY <3>2 DEF Controlled, SameDevice
    <3>4. QED  BY <2>1, <2>2, <2>3, <3>1, <3>2, <3>3
  <2>4. CASE x \notin online
    <3>1. es3[x] = c
      BY <1>12, <2>1, <2>4
    <3>2. QED  BY <2>1, <2>4, <3>1 DEF SameDevice
  <2>5. QED  BY <2>3, <2>4
<1>14. es3 \in Everybody /\ SameDevices(es, es3)
  <2>1. es3 \in Everybody
    BY <1>12, <1>13 DEF Everybody
  <2>2. SameDevices(es, es3)
    BY <1>8, <1>13 DEF SameDevices, SameDevice
  <2>3. QED  BY <2>1, <2>2
<1> DEFINE fed == [k \in Clusters |-> FedReconnected(es3, es[e].fed[k], i, was, info)]
           over == LatencyReset(es[e].over, i, info)
<1>15. PICK r : r = [es3 EXCEPT ![e] = [es3[e] EXCEPT !.fed = fed, !.over = over]]
  OBVIOUS
<1>16. es3[e].fed = es[e].fed /\ es3[e].over = es[e].over /\ DOMAIN es[e].fed = Clusters
  BY <1>6, <1>7, <1>13
<1>17. ConnectionApplied(es, sink, was, info) = r
  <2>1. sink[1] = e /\ sink[2] = i
    BY <1>1
  <2>2. es3 = [x \in Entities |->
                 IF x \in online
                 THEN [es2[x] EXCEPT !.chain = ContinuedFrom(es2, online, @, NodesReconnected(@, sink, was, info))]
                 ELSE es2[x]]
    BY <1>6, <1>7, <1>12
  <2>3. fed = [k \in DOMAIN es3[e].fed |-> FedReconnected(es3, es3[e].fed[k], i, was, info)]
    BY <1>16
  <2>4. over = LatencyReset(es3[e].over, i, info)
    BY <1>16
  <2>5. PICK a, b : a = fed /\ b = over
    OBVIOUS
  <2>6. r = [es3 EXCEPT ![e].fed = a, ![e].over = b]
    BY <1>14, <1>15, <2>5 DEF Everybody
  <2>7. ConnectionApplied(es, sink, was, info) =
          [es3 EXCEPT ![e].fed = [k \in DOMAIN @ |-> FedReconnected(es3, @[k], i, was, info)],
                      ![e].over = LatencyReset(@, i, info)]
    BY <1>3, <1>4, <1>10, <2>1, <2>2 DEF ConnectionApplied
  <2>8. QED
    BY <2>3, <2>4, <2>5, <2>6, <2>7
<1> HIDE DEF fed, over, Continued
<1>18. fed \in [Clusters -> Feds] /\ over \in SUBSET Inputs
  <2>1. fed \in [Clusters -> Feds]
    <3>1. \A k \in Clusters : FedReconnected(es3, es[e].fed[k], i, was, info) \in Feds
      BY <1>14, FedReconnectedIs
    <3>2. QED  BY <3>1 DEF fed
  <2>2. es[e].over \in SUBSET Inputs
    BY DEF Everybody, Controlled
  <2>3. over \in SUBSET Inputs
    BY <2>2 DEF over, LatencyReset
  <2>4. QED  BY <2>1, <2>3
<1>19. ASSUME NEW x \in Entities
       PROVE  /\ r[x] \in Controlled /\ SameDevice(es3[x], r[x])
              /\ r[x].listeners = es3[x].listeners /\ r[x].chain = es3[x].chain
              /\ r[x].over = IF x = e THEN over ELSE es3[x].over
              /\ r[x].fed = IF x = e THEN fed ELSE es3[x].fed
  <2>1. CASE x = e
    <3>1. PICK c \in Controlled : c = es3[e]
      BY <1>13
    <3>2. PICK d : d = [c EXCEPT !.fed = fed, !.over = over]
      OBVIOUS
    <3>3. r[x] = d
      BY <1>14, <1>15, <2>1, <3>1, <3>2 DEF Everybody
    <3>4. /\ d \in Controlled /\ SameDevice(c, d) /\ d.listeners = c.listeners /\ d.chain = c.chain
          /\ d.over = over /\ d.fed = fed
      BY <1>18, <3>2 DEF Controlled, SameDevice
    <3>5. QED  BY <2>1, <3>1, <3>3, <3>4
  <2>2. CASE x # e
    <3>1. r[x] = es3[x]
      BY <1>14, <1>15, <2>2 DEF Everybody
    <3>2. QED  BY <1>13, <2>2, <3>1 DEF SameDevice
  <2>3. QED  BY <2>1, <2>2
<1>20. r \in Everybody /\ SameDevices(es, r)
  <2>1. DOMAIN r = Entities /\ r = [x \in Entities |-> r[x]]
    BY <1>14, <1>15 DEF Everybody
  <2>2. r \in Everybody
    BY <1>19, <2>1 DEF Everybody
  <2>3. SameDevices(es, r)
    BY <1>14, <1>19 DEF SameDevices, SameDevice
  <2>4. QED  BY <2>2, <2>3
<1>21. \A x \in Entities, o \in Outputs, s \in Sinks :
         s \in r[x].listeners[o] <=> KnownAnew(es, <<e, i>>, was, info, x, o, s)
  BY <1>1, <1>9, <1>13, <1>19
<1>22. \A x \in Entities :
         r[x].chain = IF x \in Advertised(es)
                      THEN ContinuedFrom(es2, Advertised(es), es[x].chain, NodesReconnected(es[x].chain, <<e, i>>, was, info))
                      ELSE es[x].chain
  BY <1>1, <1>6, <1>7, <1>10, <1>13, <1>19 DEF Continued
<1>23. \A x \in Entities : r[x].over = IF x = e THEN LatencyReset(es[e].over, i, info) ELSE es[x].over
  BY <1>6, <1>7, <1>13, <1>19 DEF over
<1>24. \A x \in Entities \ {e} : r[x].fed = es[x].fed
  BY <1>6, <1>7, <1>13, <1>19
<1>25. r[e].fed = [k \in Clusters |-> FedReconnected(es3, es[e].fed[k], i, was, info)]
  BY <1>19 DEF fed
<1>26. Applied(es, r, e, i, was, info)
  BY <1>7, <1>8, <1>14, <1>20, <1>21, <1>22, <1>23, <1>24, <1>25 DEF Applied
<1>27. QED
  BY <1>1, <1>17, <1>26

-----------------------------------------------------------------------------
(* The invariant, of the entities and what accounts for them                 *)

\* What an entity has until it is advertised, and what it always has.
Plain(c, old, e) ==
  /\ c.status = "offline" => c = Created("offline")
  /\ c.status # "advertised" => c.over = {} /\ \A o \in Outputs : c.listeners[o] = {}
  /\ c.fed \in IF c.status = "advertised" THEN [Clusters -> Feds] ELSE [{} -> Feds]
  /\ \A i \in c.over : c.sink[i].state = "Connected"
  /\ \A i \in Inputs : c.sink[i].state = "FastConnecting" => <<e, i>> \in old
Plainly(es, old) == \A e \in Entities : Plain(es[e], old, e)

\* While a connection's listener is awaited, its talker may know of it too soon.
Awaited(exp, sink, connected) == exp # None /\ exp.sink = sink /\ exp.connected = connected
Connected(talker) == [state |-> "Connected", talker |-> talker]
Knows(es, exp, x, o, sink) ==
  /\ ~Awaited(exp, sink, TRUE) =>
       (sink \in es[x].listeners[o] => es[sink[1]].sink[sink[2]] = Connected(<<x, o>>))
  /\ es[sink[1]].status = "advertised" /\ ~Awaited(exp, sink, FALSE) =>
       (es[sink[1]].sink[sink[2]] = Connected(<<x, o>>) => sink \in es[x].listeners[o])
Knowing(es, exp, old, known) ==
  \A x \in Advertised(es), o \in Outputs, sink \in Sinks \ old :
    sink[1] # x /\ <<<<x, o>>, sink>> \notin known => Knows(es, exp, x, o, sink)

\* A cluster that is not outdated is fed by what its mapping leads to.
Fresh(es, out, old, e, k) ==
  LET f == es[e].fed[k]
      mapping == es[e].inputMap[k]
  IN  /\ f.from = None => f = Unmapped
      /\ e \notin out => f.from = mapping
      /\ e \notin out /\ mapping # None /\ <<e, mapping[1]>> \notin old => Fed(es, e, f, mapping)
Feeding(es, out, old) == \A e \in Advertised(es), k \in Clusters : Fresh(es, out, old, e, k)

Linking(es, old) == \A e \in Advertised(es) : Chained(es, Advertised(es), old, e, es[e].chain)

-----------------------------------------------------------------------------
(* What keeps the chains                                                     *)

LEMMA LinkedKept ==
  ASSUME NEW es, NEW online, NEW after, NEW now, NEW node, NEW next,
         Linked(es, online, node, next),
         node.entity \in online <=> node.entity \in now,
         node.entity \in online =>
           /\ after[node.entity].clock = es[node.entity].clock
           /\ es[node.entity].clock # Internal =>
                after[node.entity].sink[es[node.entity].clock] = es[node.entity].sink[es[node.entity].clock]
  PROVE  Linked(after, now, node, next)
BY DEF Linked

LEMMA PlacedKept ==
  ASSUME NEW es, NEW online, NEW old, NEW after, NEW now, NEW exempt, NEW w, NEW j \in Nat \ {0},
         Placed(es, online, old, w, j),
         \A m \in 1..j : <<w.chain[m].entity, w.chain[m].source>> \in old =>
                           <<w.chain[m].entity, w.chain[m].source>> \in exempt,
         w.chain[j].entity \in online => w.chain[j].entity \in now,
         ~Repeats(w.chain, j) /\ Linked(es, online, w.chain[j], Follower(w, j)) =>
           Linked(after, now, w.chain[j], Follower(w, j)) \/ Exempt(exempt, w.chain, j)
  PROVE  Placed(after, now, exempt, w, j)
<1>1. Exempt(old, w.chain, j) => Exempt(exempt, w.chain, j)
  BY DEF Exempt
<1>2. Right(es, online, w, j) => Right(after, now, w, j) \/ Exempt(exempt, w.chain, j)
  BY DEF Right
<1>3. QED
  BY <1>1, <1>2 DEF Placed

LEMMA NodeTyped ==
  ASSUME NEW es, NEW online, NEW old, NEW e, NEW c, Chained(es, online, old, e, c), NEW j \in 1..Len(c)
  PROVE  /\ j \in Nat \ {0} /\ Len(c) \in Nat /\ c \in Seq(Nodes) /\ DOMAIN c = 1..Len(c)
         /\ c[j] \in Nodes /\ c[j].entity \in Entities /\ Placed(es, online, old, Ended(c), j)
         /\ Ended(c).chain = c
         /\ Follower(Ended(c), j) = None => j = Len(c)
<1>1. Len(c) \in Nat /\ DOMAIN c = 1..Len(c) /\ \A m \in 1..Len(c) : c[m] \in Nodes
  BY LenProperties, ElementOfSeq DEF Chained
<1>2. Len(c) \in Nat
  BY <1>1
<1>3. c[j] \in Nodes /\ c[j].entity \in Entities
  BY <1>1 DEF Nodes
<1>4. Placed(es, online, old, Ended(c), j)
  BY DEF Chained, Sound, Ended
<1>5. ASSUME j # Len(c)
      PROVE  Follower(Ended(c), j) # None
  <2>1. j + 1 \in 1..Len(c)
    BY <1>2, <1>5
  <2>2. <<c[j + 1].entity, c[j + 1].output>> \in Streams
    BY <1>1, <2>1 DEF Nodes, Streams
  <2>3. Follower(Ended(c), j) = <<c[j + 1].entity, c[j + 1].output>>
    BY <1>5 DEF Follower, Ended
  <2>4. QED  BY <2>2, <2>3, StreamsAreNot
<1>6. c \in Seq(Nodes) /\ Ended(c).chain = c
  BY DEF Chained, Ended
<1>7. j \in Nat \ {0}
  BY <1>2
<1>8. QED
  BY <1>1, <1>3, <1>4, <1>5, <1>6, <1>7

\* The same clocks and connections, of those that are advertised.
LEMMA ChainedKept ==
  ASSUME NEW es, NEW online, NEW old, NEW after, NEW exempt, NEW e, NEW c,
         Chained(es, online, old, e, c), old \subseteq exempt,
         \A x \in online : after[x].clock = es[x].clock /\ after[x].sink = es[x].sink
  PROVE  Chained(after, online, exempt, e, c)
<1>1. ASSUME NEW j \in 1..Len(c)
      PROVE  Placed(after, online, exempt, Ended(c), j)
  <2>1. /\ j \in Nat \ {0} /\ Placed(es, online, old, Ended(c), j) /\ Ended(c).chain = c
    BY NodeTyped
  <2>2. PICK w : w = Ended(c)
    OBVIOUS
  <2>3. Linked(es, online, w.chain[j], Follower(w, j)) => Linked(after, online, w.chain[j], Follower(w, j))
    BY DEF Linked
  <2>4. \A m \in 1..j : <<w.chain[m].entity, w.chain[m].source>> \in old =>
                          <<w.chain[m].entity, w.chain[m].source>> \in exempt
    OBVIOUS
  <2>5. QED  BY <2>1, <2>2, <2>3, <2>4, PlacedKept
<1>2. QED
  BY <1>1 DEF Chained, Sound, Ended

LEMMA LinkingKept ==
  ASSUME NEW es, NEW old, NEW after, NEW exempt, Linking(es, old), old \subseteq exempt,
         Advertised(after) = Advertised(es),
         \A x \in Advertised(es) :
           after[x].clock = es[x].clock /\ after[x].sink = es[x].sink /\ after[x].chain = es[x].chain
  PROVE  Linking(after, exempt)
<1>1. ASSUME NEW e \in Advertised(after)
      PROVE  Chained(after, Advertised(after), exempt, e, after[e].chain)
  <2>1. PICK online, c : online = Advertised(es) /\ c = es[e].chain
    OBVIOUS
  <2>2. Chained(es, online, old, e, c)
    BY <2>1 DEF Linking
  <2>3. \A x \in online : after[x].clock = es[x].clock /\ after[x].sink = es[x].sink
    BY <2>1
  <2>4. Chained(after, online, exempt, e, c)
    BY <2>2, <2>3, ChainedKept
  <2>5. QED  BY <2>1, <2>4
<1>2. QED
  BY <1>1 DEF Linking

\* A chain that is updated from its first node among those given on, when what is before
\* them stays in its place.
LEMMA LinkingContinued ==
  ASSUME NEW es, NEW online, NEW old, NEW at \in Everybody, NEW now \in SUBSET Entities, NEW exempt,
         NEW e \in Entities, NEW c, Chained(es, online, old, e, c), NEW nodes \in SUBSET DOMAIN c,
         \A j \in 1..Len(c) :
           (\A n \in nodes : j < n) /\ Placed(es, online, old, Ended(c), j) => Placed(at, now, exempt, Ended(c), j),
         NEW after, \A x \in now : after[x].clock = at[x].clock /\ after[x].sink = at[x].sink
  PROVE  Chained(after, now, exempt, e, ContinuedFrom(at, now, c, nodes))
<1>1. c \in Seq(Nodes) /\ Len(c) > 0 /\ c[1].entity = e /\ c[1].output = None
  BY DEF Chained
<1>2. \A j \in 1..Len(c) : Placed(es, online, old, Ended(c), j)
  BY DEF Chained, Sound, Ended
<1>3. PICK d : d = ContinuedFrom(at, now, c, nodes)
  OBVIOUS
<1>4. Chained(at, now, exempt, e, d)
  BY <1>1, <1>2, <1>3, ContinuedIs
<1>5. Chained(after, now, exempt, e, d)
  BY <1>4, ChainedKept
<1>6. QED
  BY <1>3, <1>5

-----------------------------------------------------------------------------
(* A listener's notification                                                 *)

SinkChanged(es, r, e, i, info) ==
  /\ r \in Everybody
  /\ \A x \in Entities :
       /\ r[x].status = es[x].status /\ r[x].clock = es[x].clock /\ r[x].latency = es[x].latency
       /\ r[x].offset = es[x].offset /\ r[x].inputMap = es[x].inputMap /\ r[x].outputMap = es[x].outputMap
       /\ r[x].listeners = es[x].listeners /\ r[x].chain = es[x].chain
       /\ r[x].over = es[x].over /\ r[x].fed = es[x].fed
       /\ \A j \in Inputs : r[x].sink[j] = IF x = e /\ j = i THEN info ELSE es[x].sink[j]
  /\ \A x \in Entities \ {e} : r[x] = es[x]

LEMMA SinkChangedIs ==
  ASSUME NEW es \in Everybody, NEW e \in Entities, NEW i \in Inputs, NEW info \in Infos
  PROVE  SinkChanged(es, [es EXCEPT ![e].sink[i] = info], e, i, info)
<1>1. PICK c \in Controlled : c = es[e]
  BY DEF Everybody
<1>2. c.sink \in [Inputs -> Infos]
  BY DEF Controlled
<1>3. PICK d : d = [c EXCEPT !.sink = [c.sink EXCEPT ![i] = info]]
  OBVIOUS
<1>4. PICK r : r = [es EXCEPT ![e] = d]
  OBVIOUS
<1>5. r = [es EXCEPT ![e].sink[i] = info]
  BY <1>1, <1>3, <1>4
<1>6. /\ d \in Controlled /\ d.status = c.status /\ d.clock = c.clock /\ d.latency = c.latency
      /\ d.offset = c.offset /\ d.inputMap = c.inputMap /\ d.outputMap = c.outputMap
      /\ d.listeners = c.listeners /\ d.chain = c.chain /\ d.over = c.over /\ d.fed = c.fed
  BY <1>2, <1>3 DEF Controlled
<1>7. \A j \in Inputs : d.sink[j] = IF j = i THEN info ELSE c.sink[j]
  BY <1>2, <1>3 DEF Controlled
<1>8. \A x \in Entities : r[x] = IF x = e THEN d ELSE es[x]
  BY <1>4 DEF Everybody
<1>9. r \in Everybody
  BY <1>4, <1>6 DEF Everybody
<1>10. ASSUME NEW x \in Entities
       PROVE  /\ r[x].status = es[x].status /\ r[x].clock = es[x].clock /\ r[x].latency = es[x].latency
              /\ r[x].offset = es[x].offset /\ r[x].inputMap = es[x].inputMap /\ r[x].outputMap = es[x].outputMap
              /\ r[x].listeners = es[x].listeners /\ r[x].chain = es[x].chain
              /\ r[x].over = es[x].over /\ r[x].fed = es[x].fed
              /\ \A j \in Inputs : r[x].sink[j] = IF x = e /\ j = i THEN info ELSE es[x].sink[j]
  <2>1. CASE x = e
    BY <1>1, <1>6, <1>7, <1>8, <2>1
  <2>2. CASE x # e
    BY <1>8, <2>2
  <2>3. QED  BY <2>1, <2>2
<1>11. SinkChanged(es, r, e, i, info)
  BY <1>8, <1>9, <1>10 DEF SinkChanged
<1>12. QED
  BY <1>5, <1>11

LEMMA InfoTyped ==
  ASSUME NEW talker \in Sources \cup {None}, NEW connected \in BOOLEAN, NEW fast \in BOOLEAN
  PROVE  LET info == ConnectionInfo(talker, connected, fast)
         IN  /\ info \in Infos
             /\ info.state = "Connected" => connected /\ info.talker = talker
             /\ info.state # "NotConnected" => info.talker = talker
             /\ connected /\ talker # None => info.state = "Connected"
             /\ info.state = "Connected" => info = Connected(talker)
BY DEF ConnectionInfo, Infos, NotConnected, Connected

\* What becomes of the entities.
Notified(es, r, e, i, was, info) ==
  \E with \in Everybody :
    /\ SinkChanged(es, with, e, i, info)
    /\ r = IF es[e].status = "offline" THEN es
           ELSE IF es[e].status = "advertised" /\ was # info THEN ConnectionApplied(with, <<e, i>>, was, info)
           ELSE with

LEMMA NotifiedIs ==
  ASSUME NEW es \in Everybody, NEW e \in Entities, NEW i \in Inputs,
         NEW talker \in Sources \cup {None}, NEW connected \in BOOLEAN, NEW fast \in BOOLEAN
  PROVE  Notified(es, ListenerNotified(es, <<e, i>>, talker, connected, fast),
                  e, i, es[e].sink[i], ConnectionInfo(talker, connected, fast))
<1>1. PICK info \in Infos : info = ConnectionInfo(talker, connected, fast)
  BY InfoTyped
<1>2. PICK with : with = [es EXCEPT ![e].sink[i] = info]
  OBVIOUS
<1>3. SinkChanged(es, with, e, i, info)
  BY <1>2, SinkChangedIs
<1>4. ListenerNotified(es, <<e, i>>, talker, connected, fast) =
        IF es[e].status = "offline" THEN es
        ELSE IF es[e].status = "advertised" /\ es[e].sink[i] # info
             THEN ConnectionApplied(with, <<e, i>>, es[e].sink[i], info)
        ELSE with
  BY <1>1, <1>2 DEF ListenerNotified
<1>5. with \in Everybody
  BY <1>3 DEF SinkChanged
<1>6. QED
  BY <1>1, <1>3, <1>4, <1>5 DEF Notified

\* ... which leaves three cases.
NotifiedAs(es, r, with, e, i, was, info) ==
  /\ r \in Everybody /\ with \in Everybody
  /\ \/ es[e].status = "offline" /\ r = es
     \/ /\ es[e].status # "offline" /\ (es[e].status = "enumerating" \/ was = info)
        /\ r = with /\ SinkChanged(es, with, e, i, info)
     \/ /\ es[e].status = "advertised" /\ was # info
        /\ SinkChanged(es, with, e, i, info) /\ Applied(with, r, e, i, was, info)

LEMMA NotifiedCases ==
  ASSUME NEW es \in Everybody, NEW old, Plainly(es, old), NEW e \in Entities, NEW i \in Inputs,
         NEW r, NEW info \in Infos, Notified(es, r, e, i, es[e].sink[i], info)
  PROVE  \E with : NotifiedAs(es, r, with, e, i, es[e].sink[i], info)
<1>1. PICK was \in Infos : was = es[e].sink[i]
  BY TalkerIs
<1>2. PICK with \in Everybody :
        /\ SinkChanged(es, with, e, i, info)
        /\ r = IF es[e].status = "offline" THEN es
               ELSE IF es[e].status = "advertised" /\ was # info THEN ConnectionApplied(with, <<e, i>>, was, info)
               ELSE with
  BY <1>1 DEF Notified
<1>3. es[e].status \in {"offline", "enumerating", "advertised"}
  BY DEF Everybody, Controlled
<1>4. CASE es[e].status = "offline"
  BY <1>1, <1>2, <1>4 DEF NotifiedAs
<1>5. CASE es[e].status # "offline" /\ (es[e].status = "enumerating" \/ was = info)
  BY <1>1, <1>2, <1>5 DEF NotifiedAs
<1>6. CASE es[e].status = "advertised" /\ was # info
  <2>1. with[e].fed \in [Clusters -> Feds]
    BY <1>2, <1>6 DEF SinkChanged, Plainly, Plain
  <2>2. r = ConnectionApplied(with, <<e, i>>, was, info)
    BY <1>2, <1>6
  <2>3. Applied(with, r, e, i, was, info)
    BY <2>1, <2>2, ConnectionAppliedIs
  <2>4. r \in Everybody
    BY <2>3 DEF Applied
  <2>5. QED  BY <1>1, <1>2, <1>6, <2>3, <2>4 DEF NotifiedAs
<1>7. QED
  BY <1>3, <1>4, <1>5, <1>6

LEMMA SameRecord ==
  ASSUME NEW c \in Controlled, NEW d \in Controlled, SameDevice(c, d),
         d.listeners = c.listeners, d.chain = c.chain, d.over = c.over, d.fed = c.fed
  PROVE  d = c
<1>1. c = [status |-> c.status, sink |-> c.sink, clock |-> c.clock, latency |-> c.latency, offset |-> c.offset,
       inputMap |-> c.inputMap, outputMap |-> c.outputMap, listeners |-> c.listeners,
       chain |-> c.chain, over |-> c.over, fed |-> c.fed]
  BY DEF Controlled
<1>2. d = [status |-> d.status, sink |-> d.sink, clock |-> d.clock, latency |-> d.latency, offset |-> d.offset,
       inputMap |-> d.inputMap, outputMap |-> d.outputMap, listeners |-> d.listeners,
       chain |-> d.chain, over |-> d.over, fed |-> d.fed]
  BY DEF Controlled
<1>3. QED
  BY <1>1, <1>2 DEF SameDevice

LEMMA PlainKept ==
  ASSUME NEW c \in Controlled, NEW d \in Controlled, NEW old, NEW exempt, NEW x,
         Plain(c, old, x), old \subseteq exempt, SameDevice(c, d), d.fed = c.fed, d.over = c.over,
         c.status # "advertised" => d.listeners = c.listeners /\ d.chain = c.chain
  PROVE  Plain(d, exempt, x)
<1>1. d.status = c.status /\ d.sink = c.sink
  BY DEF SameDevice
<1>2. c.status = "offline" => d = c
  BY SameRecord
<1>3. QED
  BY <1>1, <1>2 DEF Plain

\* Who a talker that is not advertised knows does not change.
LEMMA NobodyNew ==
  ASSUME NEW c \in Controlled, NEW d \in Controlled,
         \A o \in Outputs, s \in Sinks : s \in d.listeners[o] <=> s \in c.listeners[o]
  PROVE  d.listeners = c.listeners
<1>1. c.listeners \in [Outputs -> SUBSET Sinks] /\ d.listeners \in [Outputs -> SUBSET Sinks]
  BY DEF Controlled
<1>2. \A o \in Outputs : d.listeners[o] = c.listeners[o]
  BY <1>1
<1>3. QED
  BY <1>1, <1>2

LEMMA NotifiedPlain ==
  ASSUME NEW es \in Everybody, NEW old, NEW exempt, NEW e \in Entities, NEW i \in Inputs,
         NEW r, NEW with, NEW was \in Infos, NEW info \in Infos, was = es[e].sink[i],
         Plainly(es, old), NotifiedAs(es, r, with, e, i, was, info),
         old \subseteq exempt, info.state = "FastConnecting" => <<e, i>> \in exempt
  PROVE  Plainly(r, exempt)
<1>1. SUFFICES ASSUME NEW x \in Entities
               PROVE  Plain(r[x], exempt, x)
  BY DEF Plainly
<1>2. Plain(es[x], old, x)
  BY DEF Plainly
<1>3. es[x] \in Controlled
  BY DEF Everybody
<1>4. CASE r = es
  <2>1. SameDevice(es[x], es[x])
    BY DEF SameDevice
  <2>2. QED  BY <1>2, <1>3, <1>4, <2>1, PlainKept
<1>5. CASE /\ es[e].status # "offline" /\ (es[e].status = "enumerating" \/ was = info)
           /\ r = with /\ SinkChanged(es, with, e, i, info)
  <2>1. CASE x # e
    <3>1. SameDevice(es[x], es[x])
      BY DEF SameDevice
    <3>2. r[x] = es[x]
      BY <1>5, <2>1 DEF SinkChanged
    <3>3. QED  BY <1>2, <1>3, <3>1, <3>2, PlainKept
  <2>2. CASE x = e
    <3>1. /\ r[e].status = es[e].status /\ r[e].listeners = es[e].listeners /\ r[e].over = es[e].over /\ r[e].fed = es[e].fed
          /\ \A j \in Inputs : r[e].sink[j] = IF j = i THEN info ELSE es[e].sink[j]
      BY <1>5 DEF SinkChanged
    <3>2. es[e].over \subseteq Inputs
      BY <1>3, <2>2 DEF Controlled
    <3>3. \A j \in es[e].over : r[e].sink[j].state = "Connected"
      <4>1. CASE es[e].status = "enumerating"
        BY <1>2, <2>2, <4>1 DEF Plain
      <4>2. CASE was = info
        <5>1. \A j \in Inputs : r[e].sink[j] = es[e].sink[j]
          BY <3>1, <4>2
        <5>2. QED  BY <1>2, <2>2, <3>2, <5>1 DEF Plain
      <4>3. QED  BY <1>5, <4>1, <4>2
    <3>4. \A j \in Inputs : r[e].sink[j].state = "FastConnecting" => <<e, j>> \in exempt
      BY <1>2, <2>2, <3>1 DEF Plain
    <3>5. QED  BY <1>2, <1>5, <2>2, <3>1, <3>3, <3>4 DEF Plain
  <2>3. QED  BY <2>1, <2>2
<1>6. CASE /\ es[e].status = "advertised" /\ was # info
           /\ SinkChanged(es, with, e, i, info) /\ Applied(with, r, e, i, was, info)
  <2>1. r[x] \in Controlled /\ SameDevice(with[x], r[x])
    BY <1>6 DEF Applied, Everybody, SameDevices
  <2>2. CASE x # e
    <3>1. with[x] = es[x]
      BY <1>6, <2>2 DEF SinkChanged
    <3>2. r[x].fed = es[x].fed /\ r[x].over = es[x].over
      BY <1>6, <2>2, <3>1 DEF Applied
    <3>3. ASSUME es[x].status # "advertised"
          PROVE  r[x].listeners = es[x].listeners /\ r[x].chain = es[x].chain
      <4>1. \A o \in Outputs, s \in Sinks : s \in r[x].listeners[o] <=> s \in es[x].listeners[o]
        BY <1>6, <3>1, <3>3 DEF Applied, KnownAnew
      <4>2. r[x].listeners = es[x].listeners
        BY <1>3, <2>1, <4>1, NobodyNew
      <4>3. x \notin Advertised(with)
        BY <3>1, <3>3 DEF Advertised
      <4>4. r[x].chain = es[x].chain
        BY <1>6, <3>1, <4>3 DEF Applied
      <4>5. QED  BY <4>2, <4>4
    <3>4. QED  BY <1>2, <1>3, <2>1, <3>1, <3>2, <3>3, PlainKept
  <2>3. CASE x = e
    <3>1. r[e].status = "advertised" /\ \A j \in Inputs : r[e].sink[j] = IF j = i THEN info ELSE es[e].sink[j]
      BY <1>6, <2>1, <2>3 DEF SameDevice, SinkChanged
    <3>2. r[e].over = LatencyReset(es[e].over, i, info)
      BY <1>6 DEF Applied, SinkChanged
    <3>3. es[e].over \subseteq Inputs
      BY <1>3, <2>3 DEF Controlled
    <3>4. \A j \in r[e].over : r[e].sink[j].state = "Connected"
      BY <1>2, <2>3, <3>1, <3>2, <3>3 DEF Plain, LatencyReset
    <3>5. r[e].fed \in [Clusters -> Feds]
      <4>1. PICK at \in Everybody : r[e].fed = [k \in Clusters |-> FedReconnected(at, with[e].fed[k], i, was, info)]
        BY <1>6 DEF Applied
      <4>2. with[e].fed \in [Clusters -> Feds]
        BY <1>2, <1>6, <2>3 DEF SinkChanged, Plain
      <4>3. \A k \in Clusters : FedReconnected(at, with[e].fed[k], i, was, info) \in Feds
        BY <4>2, FedReconnectedIs
      <4>4. QED  BY <4>1, <4>3
    <3>6. \A j \in Inputs : r[e].sink[j].state = "FastConnecting" => <<e, j>> \in exempt
      BY <1>2, <2>3, <3>1 DEF Plain
    <3>7. QED  BY <2>3, <3>1, <3>4, <3>5, <3>6 DEF Plain
  <2>4. QED  BY <2>2, <2>3
<1>7. QED
  BY <1>4, <1>5, <1>6 DEF NotifiedAs

\* A cluster is fed by the same as long as the same connects and maps.
LEMMA FedKept ==
  ASSUME NEW es, NEW after, NEW e, NEW f, NEW mapping, Fed(es, e, f, mapping),
         es[e].sink[mapping[1]].talker \in Sources \cup {None},
         after[e].sink[mapping[1]].talker = es[e].sink[mapping[1]].talker,
         \A x \in Entities : /\ after[x].status = "offline" <=> es[x].status = "offline"
                            /\ after[x].outputMap = es[x].outputMap
  PROVE  Fed(after, e, f, mapping)
<1>1. PICK talker \in Sources \cup {None} : talker = es[e].sink[mapping[1]].talker
  OBVIOUS
<1>2. talker # None => talker[1] \in Entities
  BY DEF Sources
<1>3. QED
  BY <1>1, <1>2 DEF Fed

LEMMA NotifiedFeeds ==
  ASSUME NEW es \in Everybody, NEW out, NEW old, NEW exempt, NEW e \in Entities, NEW i \in Inputs,
         NEW r, NEW with, NEW was \in Infos, NEW info \in Infos, was = es[e].sink[i],
         Plainly(es, old), Feeding(es, out, old), NotifiedAs(es, r, with, e, i, was, info),
         old \subseteq exempt, info.state = "FastConnecting" => <<e, i>> \in exempt
  PROVE  Feeding(r, out, exempt)
<1>1. CASE r = es
  BY <1>1 DEF Feeding, Fresh
<1>2. CASE /\ es[e].status # "offline" /\ SinkChanged(es, with, e, i, info)
           /\ \/ (es[e].status = "enumerating" \/ was = info) /\ r = with
              \/ es[e].status = "advertised" /\ was # info /\ Applied(with, r, e, i, was, info)
  <2>1. \A x \in Entities : /\ r[x].status = es[x].status /\ r[x].outputMap = es[x].outputMap
                            /\ r[x].inputMap = es[x].inputMap
                            /\ \A j \in Inputs : r[x].sink[j] = IF x = e /\ j = i THEN info ELSE es[x].sink[j]
    BY <1>2 DEF SinkChanged, Applied, SameDevices, SameDevice
  <2>2. SUFFICES ASSUME NEW x \in Advertised(r), NEW k \in Clusters
                 PROVE  Fresh(r, out, exempt, x, k)
    BY DEF Feeding
  <2>3. x \in Entities /\ x \in Advertised(es)
    BY <2>1 DEF Advertised
  <2>4. PICK f, g, mapping : f = es[x].fed[k] /\ g = r[x].fed[k] /\ mapping = es[x].inputMap[k]
    OBVIOUS
  <2>5. /\ f.from = None => f = Unmapped
        /\ x \notin out => f.from = mapping
        /\ x \notin out /\ mapping # None /\ <<x, mapping[1]>> \notin old => Fed(es, x, f, mapping)
    BY <2>3, <2>4 DEF Feeding, Fresh
  <2>6. f \in Feds /\ mapping \in Mappings
    <3>1. es[x].fed \in [Clusters -> Feds]
      BY <2>3 DEF Advertised, Plainly, Plain
    <3>2. es[x].inputMap \in [Clusters -> Mappings]
      BY <2>3 DEF Everybody, Controlled
    <3>3. QED  BY <2>4, <3>1, <3>2
  <2>7. CASE g = f /\ ~(x = e /\ mapping # None /\ mapping[1] = i /\ was # info)
    <3>1. ASSUME x \notin out, mapping # None, <<x, mapping[1]>> \notin exempt
          PROVE  Fed(r, x, g, mapping)
      <4>1. mapping[1] \in Inputs
        BY <2>6, <3>1, MappingIs
      <4>2. r[x].sink[mapping[1]] = es[x].sink[mapping[1]]
        BY <2>1, <2>3, <2>7, <3>1, <4>1
      <4>3. es[x].sink[mapping[1]].talker \in Sources \cup {None}
        BY <2>3, <4>1, TalkerIs
      <4>4. Fed(es, x, f, mapping)
        BY <2>5, <3>1
      <4>5. r[x].sink[mapping[1]].talker = es[x].sink[mapping[1]].talker
        BY <4>2
      <4>6. \A y \in Entities : r[y].status = es[y].status /\ r[y].outputMap = es[y].outputMap
        BY <2>1
      <4>7. QED  BY <2>7, <4>3, <4>4, <4>5, <4>6, FedKept
    <3>2. r[x].inputMap[k] = mapping
      BY <2>1, <2>3, <2>4
    <3>3. QED  BY <2>4, <2>5, <2>7, <3>1, <3>2 DEF Fresh
  <2>8. CASE x # e
    <3>1. g = f
      <4>1. r[x].fed = es[x].fed
        BY <1>2, <2>3, <2>8 DEF SinkChanged, Applied
      <4>2. QED  BY <2>4, <4>1
    <3>2. QED  BY <2>7, <2>8, <3>1
  <2>9. CASE x = e /\ ~(was # info /\ Applied(with, r, e, i, was, info))
    <3>1. was = info /\ r = with
      BY <1>2, <2>3, <2>9 DEF Advertised
    <3>2. g = f
      BY <1>2, <2>3, <2>4, <2>9, <3>1 DEF SinkChanged
    <3>3. QED  BY <2>7, <3>1, <3>2
  <2>10. CASE x = e /\ was # info /\ Applied(with, r, e, i, was, info)
    <3>1. PICK at \in Everybody :
            SameDevices(with, at) /\ r[e].fed = [c \in Clusters |-> FedReconnected(at, with[e].fed[c], i, was, info)]
      BY <2>10 DEF Applied
    <3>2. with[e].fed = es[e].fed
      BY <1>2 DEF SinkChanged
    <3>3. g = FedReconnected(at, f, i, was, info)
      BY <2>4, <2>10, <3>1, <3>2
    <3>4. /\ g \in Feds /\ g.from = f.from
          /\ f.from = None \/ f.from[1] # i => g = f
          /\ f.from # None /\ f.from[1] = i /\ f.talker = was.talker /\ (was.talker = None => f.cluster = None)
             /\ was # info /\ was.state # "FastConnecting" /\ info.state # "FastConnecting" =>
               /\ g.talker = info.talker
               /\ g.cluster = IF info.talker = None \/ at[info.talker[1]].status = "offline" THEN None
                              ELSE at[info.talker[1]].outputMap[<<info.talker[2], f.from[2]>>]
      BY <2>6, <3>3, FedReconnectedIs
    <3>5. \A y \in Entities : at[y].status = r[y].status /\ at[y].outputMap = r[y].outputMap
      BY <1>2, <2>1, <3>1 DEF SinkChanged, SameDevices, SameDevice
    <3>6. ASSUME x \notin out, mapping # None, <<x, mapping[1]>> \notin exempt
          PROVE  Fed(r, x, g, mapping)
      <4>1. f.from = mapping /\ Fed(es, x, f, mapping) /\ mapping[1] \in Inputs
        BY <2>5, <2>6, <3>6, MappingIs
      <4>2. CASE mapping[1] # i
        <5>1. g = f
          BY <3>4, <4>1, <4>2
        <5>2. r[x].sink[mapping[1]].talker = es[x].sink[mapping[1]].talker
          BY <2>1, <2>3, <4>1, <4>2
        <5>3. es[x].sink[mapping[1]].talker \in Sources \cup {None}
          BY <2>3, <4>1, TalkerIs
        <5>4. \A y \in Entities : r[y].status = es[y].status /\ r[y].outputMap = es[y].outputMap
          BY <2>1
        <5>5. QED  BY <4>1, <5>1, <5>2, <5>3, <5>4, FedKept
      <4>3. CASE mapping[1] = i
        <5>1. was.state # "FastConnecting" /\ info.state # "FastConnecting"
          BY <2>3, <2>10, <3>6, <4>3 DEF Plainly, Plain
        <5>2. f.talker = was.talker /\ (was.talker = None => f.cluster = None)
          BY <2>10, <4>1, <4>3 DEF Fed
        <5>3. /\ g.talker = info.talker
              /\ g.cluster = IF info.talker = None \/ at[info.talker[1]].status = "offline" THEN None
                             ELSE at[info.talker[1]].outputMap[<<info.talker[2], mapping[2]>>]
          BY <2>10, <3>4, <3>6, <4>1, <4>3, <5>1, <5>2
        <5>4. PICK talker \in Sources \cup {None} : talker = info.talker
          BY ConnectedIs
        <5>5. talker # None => talker[1] \in Entities
          BY DEF Sources
        <5>6. r[x].sink[mapping[1]].talker = talker
          BY <2>1, <2>3, <2>10, <4>3, <5>4
        <5>7. g.cluster = IF talker = None \/ r[talker[1]].status = "offline" THEN None
                          ELSE r[talker[1]].outputMap[<<talker[2], mapping[2]>>]
          BY <3>5, <5>3, <5>4, <5>5
        <5>8. QED  BY <5>3, <5>4, <5>6, <5>7 DEF Fed
      <4>4. QED  BY <4>2, <4>3
    <3>7. g.from = None => g = Unmapped
      BY <2>5, <3>4
    <3>8. r[x].inputMap[k] = mapping
      BY <2>1, <2>3, <2>4
    <3>9. QED  BY <2>4, <2>5, <3>4, <3>6, <3>7, <3>8 DEF Fresh
  <2>11. QED  BY <1>2, <2>8, <2>9, <2>10
<1>3. QED
  BY <1>1, <1>2 DEF NotifiedAs

LEMMA NotifiedLinks ==
  ASSUME NEW es \in Everybody, NEW old, NEW exempt, NEW e \in Entities, NEW i \in Inputs,
         NEW r, NEW with, NEW was \in Infos, NEW info \in Infos, was = es[e].sink[i],
         Plainly(es, old), Linking(es, old), NotifiedAs(es, r, with, e, i, was, info),
         old \subseteq exempt, info.state = "FastConnecting" => <<e, i>> \in exempt
  PROVE  Linking(r, exempt)
<1>1. CASE r = es
  BY <1>1, LinkingKept
<1>2. CASE /\ es[e].status # "offline" /\ (es[e].status = "enumerating" \/ was = info)
           /\ r = with /\ SinkChanged(es, with, e, i, info)
  <2>1. Advertised(r) = Advertised(es)
    BY <1>2 DEF Advertised, SinkChanged
  <2>2. ASSUME NEW x \in Advertised(es)
        PROVE  r[x].clock = es[x].clock /\ r[x].sink = es[x].sink /\ r[x].chain = es[x].chain
    <3>1. x \in Entities /\ es[x].status = "advertised"
      BY DEF Advertised
    <3>2. r[x].clock = es[x].clock /\ r[x].chain = es[x].chain
      BY <1>2, <3>1 DEF SinkChanged
    <3>3. CASE x # e
      BY <1>2, <3>1, <3>3 DEF SinkChanged
    <3>4. CASE x = e
      <4>1. was = info
        BY <1>2, <3>1, <3>4
      <4>2. \A j \in Inputs : r[x].sink[j] = es[x].sink[j]
        BY <1>2, <3>1, <3>4, <4>1 DEF SinkChanged
      <4>3. r[x].sink \in [Inputs -> Infos] /\ es[x].sink \in [Inputs -> Infos]
        BY <1>2, <3>1 DEF SinkChanged, Everybody, Controlled
      <4>4. r[x].sink = es[x].sink
        BY <4>2, <4>3
      <4>5. QED  BY <3>2, <4>4
    <3>5. QED  BY <3>3, <3>4, <3>2
  <2>3. QED  BY <2>1, <2>2, LinkingKept
<1>3. CASE /\ es[e].status = "advertised" /\ was # info
           /\ SinkChanged(es, with, e, i, info) /\ Applied(with, r, e, i, was, info)
  <2>1. PICK at \in Everybody :
          /\ SameDevices(with, at)
          /\ \A x \in Entities :
               r[x].chain = IF x \in Advertised(with)
                            THEN ContinuedFrom(at, Advertised(with), with[x].chain,
                                               NodesReconnected(with[x].chain, <<e, i>>, was, info))
                            ELSE with[x].chain
    BY <1>3 DEF Applied
  <2>2. PICK online : online = Advertised(es)
    OBVIOUS
  <2>3. online \in SUBSET Entities /\ Advertised(with) = online /\ Advertised(r) = online
    BY <1>3, <2>2 DEF Advertised, SinkChanged, Applied, SameDevices, SameDevice
  <2>4. \A x \in Entities : /\ r[x].clock = at[x].clock /\ r[x].sink = at[x].sink /\ at[x].clock = es[x].clock
                            /\ \A j \in Inputs : at[x].sink[j] = IF x = e /\ j = i THEN info ELSE es[x].sink[j]
                            /\ with[x].chain = es[x].chain
    BY <1>3, <2>1 DEF SinkChanged, Applied, SameDevices, SameDevice
  <2>5. ASSUME NEW x \in online
        PROVE  Chained(r, online, exempt, x, r[x].chain)
    <3>1. PICK c : c = es[x].chain
      OBVIOUS
    <3>2. PICK nodes : nodes = NodesReconnected(c, <<e, i>>, was, info)
      OBVIOUS
    <3>3. x \in Entities /\ Chained(es, online, old, x, c)
      BY <2>2, <2>3, <3>1 DEF Linking
    <3>4. nodes \in SUBSET DOMAIN c
      BY <3>2, NodesReconnectedTyped
    <3>5. r[x].chain = ContinuedFrom(at, online, c, nodes)
      BY <2>1, <2>3, <2>4, <3>1, <3>2, <3>3
    <3>6. ASSUME NEW j \in 1..Len(c), \A n \in nodes : j < n, Placed(es, online, old, Ended(c), j)
          PROVE  Placed(at, online, exempt, Ended(c), j)
      <4>1. /\ j \in Nat \ {0} /\ DOMAIN c = 1..Len(c) /\ c[j].entity \in Entities /\ Ended(c).chain = c
            /\ Follower(Ended(c), j) = None => j = Len(c)
        BY <3>3, NodeTyped
      <4>2. PICK w, node, next : w = Ended(c) /\ node = c[j] /\ next = Follower(w, j)
        OBVIOUS
      <4>3. j \in Nat \ {0}
        BY <4>1
      <4>4. ~(j < j) /\ j \in 1..j
        BY <4>3
      <4>5. j \notin nodes
        BY <3>6, <4>4
      <4>6. ASSUME Linked(es, online, node, next)
            PROVE  Linked(at, online, node, next) \/ Exempt(exempt, c, j)
        <5>1. es[node.entity].clock \in Inputs \cup {Internal}
          BY <4>1, <4>2 DEF Everybody, Controlled
        <5>2. at[node.entity].clock = es[node.entity].clock
          BY <2>4, <4>1, <4>2
        <5>3. CASE ~(node.entity = e /\ es[e].clock = i)
          <6>1. PICK y, clock : y = node.entity /\ clock = es[y].clock
            OBVIOUS
          <6>2. y \in Entities /\ clock \in Inputs \cup {Internal} /\ ~(y = e /\ clock = i)
            BY <4>1, <4>2, <5>1, <5>3, <6>1
          <6>3. clock # Internal => at[y].sink[clock] = es[y].sink[clock]
            BY <2>4, <6>2
          <6>4. QED  BY <4>6, <5>2, <6>1, <6>3, LinkedKept
        <5>4. CASE node.entity = e /\ es[e].clock = i
          <6>1. e \in online /\ i # Internal
            BY <1>3, <2>2, ConstantsAssumption DEF Advertised
          <6>2. /\ node.source = i
                /\ IF was.state # "Connected" THEN node.status = "StreamNotConnected" /\ next = None
                   ELSE node.status = "Active"
            BY <4>6, <5>4, <6>1 DEF Linked
          <6>3. CASE <<e, i>> \in exempt
            <7>1. <<c[j].entity, c[j].source>> \in exempt
              BY <4>2, <5>4, <6>2, <6>3
            <7>2. QED  BY <4>4, <7>1 DEF Exempt
          <6>4. CASE <<e, i>> \notin exempt
            <7>1. was.state # "FastConnecting" /\ info.state # "FastConnecting"
              BY <6>4 DEF Plainly, Plain
            <7>2. was.state \in {"NotConnected", "Connected"} /\ info.state \in {"NotConnected", "Connected"}
              BY <7>1, ConnectedIs
            <7>3. CASE was.state = "NotConnected"
              <8>1. info.state = "Connected"
                BY <1>3, <7>2, <7>3, ConnectedIs
              <8>2. Connecting(was, info)
                BY <7>3, <8>1 DEF Connecting
              <8>3. node.status = "StreamNotConnected" /\ j = Len(c)
                BY <4>1, <4>2, <6>2, <7>3
              <8>4. j \in nodes
                BY <3>2, <4>1, <4>2, <5>4, <8>2, <8>3 DEF NodesReconnected, LastNode, NodesOf
              <8>5. QED  BY <4>5, <8>4
            <7>4. CASE was.state = "Connected"
              <8>1. Disconnecting(was, info) \/ Moving(was, info)
                <9>1. info.state = "Connected" => was.talker # info.talker
                  <10>1. was = [state |-> was.state, talker |-> was.talker] /\ info = [state |-> info.state, talker |-> info.talker]
                    BY ConnectedIs
                  <10>2. QED  BY <1>3, <7>4, <10>1
                <9>2. QED  BY <7>2, <7>4, <9>1 DEF Disconnecting, Moving
              <8>2. ~Connecting(was, info)
                BY <7>4 DEF Connecting
              <8>3. j \in nodes
                BY <3>2, <4>1, <4>2, <5>4, <6>2, <7>4, <8>1, <8>2 DEF NodesReconnected, NodesThrough, NodesOf
              <8>4. QED  BY <4>5, <8>3
            <7>5. QED  BY <7>2, <7>3, <7>4
          <6>5. QED  BY <6>3, <6>4
        <5>5. QED  BY <5>3, <5>4
      <4>7. \A m \in 1..j : <<w.chain[m].entity, w.chain[m].source>> \in old =>
                              <<w.chain[m].entity, w.chain[m].source>> \in exempt
        OBVIOUS
      <4>8. Placed(es, online, old, w, j)
        BY <3>6, <4>2
      <4>9. ~Repeats(w.chain, j) /\ Linked(es, online, w.chain[j], Follower(w, j)) =>
              Linked(at, online, w.chain[j], Follower(w, j)) \/ Exempt(exempt, w.chain, j)
        BY <4>1, <4>2, <4>6
      <4>10. Placed(at, online, exempt, w, j)
        BY <4>1, <4>7, <4>8, <4>9, PlacedKept
      <4>11. QED  BY <4>2, <4>10
    <3>7. \A y \in online : r[y].clock = at[y].clock /\ r[y].sink = at[y].sink
      BY <2>3, <2>4
    <3>8. QED  BY <2>3, <3>3, <3>4, <3>5, <3>6, <3>7, LinkingContinued
  <2>6. QED  BY <2>3, <2>5 DEF Linking
<1>4. QED
  BY <1>1, <1>2, <1>3 DEF NotifiedAs

-----------------------------------------------------------------------------
(* A talker that is told                                                     *)

LEMMA ToldKeeps ==
  ASSUME NEW es \in Everybody, NEW out, NEW old, NEW r, NEW talker, NEW sink, NEW connected,
         Plainly(es, old), Feeding(es, out, old), Linking(es, old), IsTold(es, r, talker, sink, connected)
  PROVE  Plainly(r, old) /\ Feeding(r, out, old) /\ Linking(r, old)
<1>1. \A x \in Entities : es[x] \in Controlled /\ r[x] \in Controlled /\ SameDevice(es[x], r[x])
  BY DEF IsTold, Everybody, SameDevices
<1>2. Plainly(r, old)
  <2>1. ASSUME NEW x \in Entities
        PROVE  Plain(r[x], old, x)
    <3>1. r[x].chain = es[x].chain /\ r[x].over = es[x].over /\ r[x].fed = es[x].fed
      BY DEF IsTold
    <3>2. ASSUME es[x].status # "advertised"
          PROVE  r[x].listeners = es[x].listeners
      <4>1. \A o \in Outputs, s \in Sinks : s \in r[x].listeners[o] <=> s \in es[x].listeners[o]
        BY <3>2 DEF IsTold
      <4>2. QED  BY <1>1, <4>1, NobodyNew
    <3>3. Plain(es[x], old, x) /\ old \subseteq old
      BY DEF Plainly
    <3>4. QED  BY <1>1, <3>1, <3>2, <3>3, PlainKept
  <2>2. QED  BY <2>1 DEF Plainly
<1>3. Advertised(r) = Advertised(es)
  BY SameAdvertised DEF IsTold
<1>4. Linking(r, old)
  <2>1. \A x \in Advertised(es) :
          r[x].clock = es[x].clock /\ r[x].sink = es[x].sink /\ r[x].chain = es[x].chain
    BY <1>1 DEF Advertised, SameDevice, IsTold
  <2>2. old \subseteq old
    OBVIOUS
  <2>3. QED  BY <1>3, <2>1, <2>2, LinkingKept
<1>5. Feeding(r, out, old)
  <2>1. ASSUME NEW x \in Advertised(r), NEW k \in Clusters
        PROVE  Fresh(r, out, old, x, k)
    <3>1. x \in Entities /\ Fresh(es, out, old, x, k)
      BY <1>3 DEF Feeding, Advertised
    <3>2. r[x].fed = es[x].fed /\ r[x].inputMap = es[x].inputMap /\ r[x].sink = es[x].sink
      BY <1>1, <3>1 DEF IsTold, SameDevice
    <3>3. PICK f, mapping : f = es[x].fed[k] /\ mapping = es[x].inputMap[k]
      OBVIOUS
    <3>4. ASSUME mapping # None, Fed(es, x, f, mapping)
          PROVE  Fed(r, x, f, mapping)
      <4>1. mapping \in Mappings
        BY <3>1, <3>3 DEF Everybody, Controlled
      <4>2. mapping[1] \in Inputs
        BY <3>4, <4>1, MappingIs
      <4>3. es[x].sink[mapping[1]].talker \in Sources \cup {None}
        BY <3>1, <4>2, TalkerIs
      <4>4. \A y \in Entities : r[y].status = es[y].status /\ r[y].outputMap = es[y].outputMap
        BY <1>1 DEF SameDevice
      <4>5. r[x].sink[mapping[1]].talker = es[x].sink[mapping[1]].talker
        BY <3>2
      <4>6. QED  BY <3>4, <4>3, <4>4, <4>5, FedKept
    <3>5. QED  BY <3>1, <3>2, <3>3, <3>4 DEF Fresh
  <2>2. QED  BY <2>1 DEF Feeding
<1>6. QED
  BY <1>2, <1>4, <1>5

-----------------------------------------------------------------------------
(* An entity that comes                                                      *)

LEMMA CreatedTyped ==
  ASSUME NEW status \in {"offline", "enumerating", "advertised"}
  PROVE  LET c == Created(status)
         IN  /\ c \in Controlled /\ c.status = status /\ c.over = {} /\ c.fed \in [{} -> Feds]
             /\ \A i \in Inputs : c.sink[i] = NotConnected
             /\ \A o \in Outputs : c.listeners[o] = {}
             /\ \A s \in Outputs \X Channels : c.outputMap[s] = None
<1>1. <<>> \in Seq(Nodes)
  BY EmptySeq
<1>2. [k \in {} |-> Unmapped] \in [{} -> Feds]
  BY UnmappedIs
<1>3. NotConnected \in Infos
  BY DEF Infos
<1>4. PICK chain \in Seq(Nodes), fed \in [{} -> Feds] : chain = <<>> /\ fed = [k \in {} |-> Unmapped]
  BY <1>1, <1>2
<1>5. PICK sink \in [Inputs -> Infos] : sink = [i \in Inputs |-> NotConnected]
  BY <1>3
<1>6. PICK outputMap \in [Outputs \X Channels -> Clusters \cup {None}] : outputMap = [s \in Outputs \X Channels |-> None]
  OBVIOUS
<1>7. PICK c : c = Created(status)
  OBVIOUS
<1>8. c = [status |-> status,
           sink |-> sink, clock |-> Internal,
           latency |-> [i \in Inputs |-> 0], offset |-> [o \in Outputs |-> 0],
           inputMap |-> [k \in Clusters |-> None],
           outputMap |-> outputMap,
           listeners |-> [o \in Outputs |-> {}], chain |-> chain, over |-> {}, fed |-> fed]
  BY <1>4, <1>5, <1>6, <1>7 DEF Created
<1>9. c \in Controlled
  BY <1>8 DEF Controlled, Mappings
<1>10. c.status = status /\ c.over = {} /\ c.fed = fed /\ c.sink = sink /\ c.outputMap = outputMap
       /\ \A o \in Outputs : c.listeners[o] = {}
  BY <1>8
<1>11. QED
  BY <1>5, <1>6, <1>7, <1>9, <1>10

\* Its own state, and the listeners that others learn of.
ComesTo(es, r, e) ==
  /\ r \in Everybody /\ SameDevices(es, r)
  /\ \A i \in r[e].over : es[e].sink[i].state = "Connected"
  /\ r[e].chain = WholeChain(es, Advertised(es) \cup {e}, e)
  /\ r[e].fed = [k \in Clusters |-> FedByMapping(es, e, Unmapped, es[e].inputMap[k])]
  /\ r[e].listeners = es[e].listeners
  /\ \A x \in Entities \ {e} : r[x].chain = es[x].chain /\ r[x].over = es[x].over /\ r[x].fed = es[x].fed
  /\ \A x \in Entities \ {e}, o \in Outputs, s \in Sinks :
       s \in r[x].listeners[o] <=>
         \/ s \in es[x].listeners[o]
         \/ es[x].status = "advertised" /\ s[1] = e /\ es[e].sink[s[2]] = Connected(<<x, o>>)

LEMMA ListenerComesIs ==
  ASSUME NEW es \in Everybody, NEW e \in Entities
  PROVE  ComesTo(es, ListenerComes(es, e), e)
<1> DEFINE c == es[e]
           Known(i) == /\ c.sink[i].state = "Connected" /\ c.sink[i].talker[1] # e
                       /\ es[c.sink[i].talker[1]].status = "advertised"
           over == {i \in Inputs : Known(i) /\ IsOver(es, c.latency[i], c.sink[i].talker)}
           chain == WholeChain(es, Advertised(es) \cup {e}, e)
           fed == [k \in Clusters |-> FedByMapping(es, e, Unmapped, c.inputMap[k])]
           found(x) == [o \in Outputs |-> es[x].listeners[o] \cup
                          {<<e, i>> : i \in {j \in Inputs : Known(j) /\ c.sink[j].talker = <<x, o>>}}]
<1>1. PICK r : r = ListenerComes(es, e)
  OBVIOUS
<1>2. r = [x \in Entities |-> IF x = e THEN [c EXCEPT !.over = over, !.chain = chain, !.fed = fed]
                              ELSE [es[x] EXCEPT !.listeners = found(x)]]
  BY <1>1 DEF ListenerComes
<1>3. over \in SUBSET Inputs /\ \A i \in over : c.sink[i].state = "Connected"
  OBVIOUS
<1>4. chain \in Seq(Nodes)
  <2>1. Advertised(es) \cup {e} \in SUBSET Entities
    BY DEF Advertised
  <2>2. Chained(es, Advertised(es) \cup {e}, {}, e, chain)
    BY <2>1, WholeIs
  <2>3. QED  BY <2>2 DEF Chained
<1>5. fed \in [Clusters -> Feds]
  <2>1. ASSUME NEW k \in Clusters
        PROVE  FedByMapping(es, e, Unmapped, c.inputMap[k]) \in Feds
    <3>1. c.inputMap[k] \in Mappings
      BY DEF Everybody, Controlled
    <3>2. QED  BY <3>1, UnmappedIs, FedByMappingIs
  <2>2. QED  BY <2>1
<1>6. ASSUME NEW x \in Entities, NEW o \in Outputs, NEW s \in Sinks
      PROVE  s \in found(x)[o] <=>
               \/ s \in es[x].listeners[o]
               \/ s[1] = e /\ Known(s[2]) /\ c.sink[s[2]].talker = <<x, o>>
  <2>1. PICK y \in Entities, i \in Inputs : s = <<y, i>>
    BY DEF Sinks
  <2>2. QED  BY <2>1
<1>7. \A x \in Entities : found(x) \in [Outputs -> SUBSET Sinks]
  <2>1. ASSUME NEW x \in Entities, NEW o \in Outputs
        PROVE  found(x)[o] \in SUBSET Sinks
    <3>1. es[x].listeners[o] \in SUBSET Sinks
      BY DEF Everybody, Controlled
    <3>2. QED  BY <3>1 DEF Sinks
  <2>2. QED  BY <2>1
<1>8. ASSUME NEW i \in Inputs, NEW x \in Entities \ {e}, NEW o \in Outputs
      PROVE  Known(i) /\ c.sink[i].talker = <<x, o>> <=>
               es[x].status = "advertised" /\ c.sink[i] = Connected(<<x, o>>)
  <2>1. c.sink[i] = [state |-> c.sink[i].state, talker |-> c.sink[i].talker]
    BY TalkerIs, ConnectedIs
  <2>2. QED  BY <2>1 DEF Connected
<1> HIDE DEF over, chain, fed, found, Known
<1>9. ASSUME NEW x \in Entities
      PROVE  /\ r[x] \in Controlled /\ SameDevice(es[x], r[x])
             /\ r[x].over = IF x = e THEN over ELSE es[x].over
             /\ r[x].chain = IF x = e THEN chain ELSE es[x].chain
             /\ r[x].fed = IF x = e THEN fed ELSE es[x].fed
             /\ r[x].listeners = IF x = e THEN es[e].listeners ELSE found(x)
  <2>1. es[x] \in Controlled
    BY DEF Everybody
  <2>2. CASE x = e
    <3>1. PICK b \in Controlled : b = es[e]
      BY <2>1, <2>2
    <3>2. PICK d : d = [b EXCEPT !.over = over, !.chain = chain, !.fed = fed]
      OBVIOUS
    <3>3. /\ d \in Controlled /\ SameDevice(b, d) /\ d.listeners = b.listeners
          /\ d.over = over /\ d.chain = chain /\ d.fed = fed
      BY <1>3, <1>4, <1>5, <3>2 DEF Controlled, SameDevice
    <3>4. QED  BY <1>2, <2>2, <3>1, <3>2, <3>3
  <2>3. CASE x # e
    <3>1. PICK b \in Controlled, known \in [Outputs -> SUBSET Sinks] : b = es[x] /\ known = found(x)
      BY <1>7, <2>1
    <3>2. PICK d : d = [b EXCEPT !.listeners = known]
      OBVIOUS
    <3>3. /\ d \in Controlled /\ SameDevice(b, d) /\ d.listeners = known
          /\ d.over = b.over /\ d.chain = b.chain /\ d.fed = b.fed
      BY <3>2 DEF Controlled, SameDevice
    <3>4. QED  BY <1>2, <2>3, <3>1, <3>2, <3>3
  <2>4. QED  BY <2>2, <2>3
<1>10. r \in Everybody
  <2>1. r = [x \in Entities |-> r[x]]
    BY <1>2
  <2>2. QED  BY <1>9, <2>1 DEF Everybody
<1>11. ASSUME NEW x \in Entities \ {e}, NEW o \in Outputs, NEW s \in Sinks
       PROVE  s \in r[x].listeners[o] <=>
                \/ s \in es[x].listeners[o]
                \/ es[x].status = "advertised" /\ s[1] = e /\ es[e].sink[s[2]] = Connected(<<x, o>>)
  <2>1. s[2] \in Inputs
    BY DEF Sinks
  <2>2. r[x].listeners = found(x)
    BY <1>9
  <2>3. s \in found(x)[o] <=> \/ s \in es[x].listeners[o]
                              \/ s[1] = e /\ Known(s[2]) /\ es[e].sink[s[2]].talker = <<x, o>>
    BY <1>6
  <2>4. Known(s[2]) /\ es[e].sink[s[2]].talker = <<x, o>> <=>
          es[x].status = "advertised" /\ es[e].sink[s[2]] = Connected(<<x, o>>)
    BY <1>8, <2>1
  <2>5. QED  BY <2>2, <2>3, <2>4
<1>12. ComesTo(es, r, e)
  <2>1. SameDevices(es, r)
    BY <1>9 DEF SameDevices
  <2>2. r[e].over = over /\ r[e].chain = chain /\ r[e].fed = fed /\ r[e].listeners = es[e].listeners
    BY <1>9
  <2>3. \A x \in Entities \ {e} : r[x].chain = es[x].chain /\ r[x].over = es[x].over /\ r[x].fed = es[x].fed
    BY <1>9
  <2>4. chain = WholeChain(es, Advertised(es) \cup {e}, e)
        /\ fed = [k \in Clusters |-> FedByMapping(es, e, Unmapped, es[e].inputMap[k])]
    BY DEF chain, fed
  <2>5. QED  BY <1>3, <1>10, <1>11, <2>1, <2>2, <2>3, <2>4 DEF ComesTo
<1>13. QED
  BY <1>1, <1>12

-----------------------------------------------------------------------------
(* What changes nothing of a part                                            *)

LEMMA KnowingKept ==
  ASSUME NEW es, NEW exp, NEW old, NEW known, NEW after, Knowing(es, exp, old, known),
         \A x \in Entities : /\ after[x].status = es[x].status /\ after[x].sink = es[x].sink
                             /\ after[x].listeners = es[x].listeners
  PROVE  Knowing(after, exp, old, known)
<1>1. Advertised(after) = Advertised(es)
  BY DEF Advertised
<1>2. ASSUME NEW x \in Advertised(es), NEW o \in Outputs, NEW sink \in Sinks \ old,
             sink[1] # x, <<<<x, o>>, sink>> \notin known
      PROVE  Knows(after, exp, x, o, sink)
  <2>1. x \in Entities /\ sink[1] \in Entities
    BY DEF Advertised, Sinks
  <2>2. Knows(es, exp, x, o, sink)
    BY <1>2 DEF Knowing
  <2>3. QED  BY <2>1, <2>2 DEF Knows
<1>3. QED
  BY <1>1, <1>2 DEF Knowing

LEMMA FeedingKept ==
  ASSUME NEW es \in Everybody, NEW out, NEW old, NEW after, Feeding(es, out, old),
         \A x \in Entities : /\ after[x].status = es[x].status /\ after[x].sink = es[x].sink
                             /\ after[x].inputMap = es[x].inputMap /\ after[x].outputMap = es[x].outputMap
                             /\ after[x].fed = es[x].fed
  PROVE  Feeding(after, out, old)
<1>1. Advertised(after) = Advertised(es)
  BY DEF Advertised
<1>2. ASSUME NEW x \in Advertised(es), NEW k \in Clusters
      PROVE  Fresh(after, out, old, x, k)
  <2>1. x \in Entities
    BY DEF Advertised
  <2>2. Fresh(es, out, old, x, k)
    BY DEF Feeding
  <2>3. PICK f, mapping : f = es[x].fed[k] /\ mapping = es[x].inputMap[k]
    OBVIOUS
  <2>4. mapping \in Mappings
    <3>1. es[x].inputMap \in [Clusters -> Mappings]
      BY <2>1 DEF Everybody, Controlled
    <3>2. QED  BY <2>3, <3>1
  <2>5. ASSUME mapping # None, Fed(es, x, f, mapping)
        PROVE  Fed(after, x, f, mapping)
    <3>1. mapping[1] \in Inputs
      BY <2>4, <2>5, MappingIs
    <3>2. es[x].sink[mapping[1]].talker \in Sources \cup {None}
      BY <2>1, <3>1, TalkerIs
    <3>3. after[x].sink[mapping[1]].talker = es[x].sink[mapping[1]].talker
      BY <2>1
    <3>4. \A y \in Entities : after[y].status = es[y].status /\ after[y].outputMap = es[y].outputMap
      OBVIOUS
    <3>5. QED  BY <2>5, <3>2, <3>3, <3>4, FedKept
  <2>6. after[x].fed[k] = f /\ after[x].inputMap[k] = mapping
    BY <2>1, <2>3
  <2>7. QED  BY <2>2, <2>3, <2>5, <2>6 DEF Fresh
<1>3. QED
  BY <1>1, <1>2 DEF Feeding

-----------------------------------------------------------------------------
(* The inductive invariant                                                   *)

Expectations == {None} \cup [sink : Sinks, talker : Sources, connected : BOOLEAN]
Typing ==
  /\ setting \in Settings
  /\ entities \in Everybody
  /\ expected \in Expectations
  /\ legacy \subseteq Sinks /\ strays \subseteq Sources \X Sinks /\ outdated \subseteq Entities

\* A connection's listener is one that is there; no assertion on chains or transitions fails.
Expected(es, exp) == exp # None => es[exp.sink[1]].status # "offline"

Accounted(es, exp, old, known, out) ==
  /\ Plainly(es, old) /\ Expected(es, exp)
  /\ Knowing(es, exp, old, known) /\ Feeding(es, out, old) /\ Linking(es, old)
Invariant ==
  /\ Typing
  /\ Accounted(entities, expected, legacy, strays, outdated)
  /\ failed \subseteq {"Failed to find ChannelConnection"}

LEMMA InvariantHoldsFirst == Init => Invariant
<1>1. SUFFICES ASSUME Init
               PROVE  Invariant
  OBVIOUS
<1>2. PICK c : c = Created("offline")
  OBVIOUS
<1>3. /\ c \in Controlled /\ c.status = "offline" /\ c.over = {} /\ c.fed \in [{} -> Feds]
      /\ \A i \in Inputs : c.sink[i] = NotConnected
      /\ \A o \in Outputs : c.listeners[o] = {}
  BY <1>2, CreatedTyped
<1>4. \A e \in Entities : entities[e] = c
  BY <1>1, <1>2 DEF Init
<1>5. Typing
  BY <1>1, <1>2, <1>3 DEF Init, Typing, Everybody, Expectations
<1>6. Plainly(entities, legacy)
  BY <1>2, <1>3, <1>4 DEF Plainly, Plain, NotConnected
<1>7. Advertised(entities) = {}
  BY <1>3, <1>4 DEF Advertised
<1>8. expected = None /\ failed = {}
  BY <1>1 DEF Init
<1>9. QED
  BY <1>5, <1>6, <1>7, <1>8 DEF Invariant, Accounted, Expected, Knowing, Feeding, Linking

-----------------------------------------------------------------------------
(* What a device says of itself                                              *)

LEMMA QuietKeeps ==
  ASSUME NEW es \in Everybody, NEW exp \in Expectations, NEW old, NEW known, NEW out, NEW after, NEW now,
         Accounted(es, exp, old, known, out), Plainly(after, old), Feeding(after, now, old),
         \A x \in Entities :
           /\ after[x].status = es[x].status /\ after[x].sink = es[x].sink /\ after[x].clock = es[x].clock
           /\ after[x].listeners = es[x].listeners /\ after[x].chain = es[x].chain
  PROVE  Accounted(after, exp, old, known, now)
<1>1. Knowing(after, exp, old, known)
  BY KnowingKept DEF Accounted
<1>2. Feeding(after, now, old)
  OBVIOUS
<1>3. Linking(after, old)
  <2>1. Advertised(after) = Advertised(es)
    BY DEF Advertised
  <2>2. \A x \in Advertised(es) :
          after[x].clock = es[x].clock /\ after[x].sink = es[x].sink /\ after[x].chain = es[x].chain
    BY DEF Advertised
  <2>3. QED  BY <2>1, <2>2, LinkingKept DEF Accounted
<1>4. Expected(after, exp)
  <2>1. exp # None => exp.sink[1] \in Entities
    BY DEF Expectations, Sinks
  <2>2. QED  BY <2>1 DEF Accounted, Expected
<1>5. QED
  BY <1>1, <1>2, <1>3, <1>4 DEF Accounted

LEMMA MaxTransitTimeKeeps ==
  ASSUME Invariant, NEW source \in Sources, NEW time \in Nat, MaxTransitTimeChanged(source, time)
  PROVE  Invariant'
<1>1. PICK e \in Entities, o \in Outputs : source = <<e, o>>
  BY DEF Sources
<1>2. PICK es \in Everybody : es = entities
  BY DEF Invariant, Typing
<1>3. PICK c \in Controlled : c = es[e]
  BY <1>2 DEF Everybody
<1>4. PICK d : d = [c EXCEPT !.offset = [c.offset EXCEPT ![o] = time]]
  OBVIOUS
<1>5. PICK r : r = [es EXCEPT ![e] = d]
  OBVIOUS
<1>6. entities' = r
  BY <1>1, <1>2, <1>3, <1>4, <1>5 DEF MaxTransitTimeChanged
<1>7. /\ d \in Controlled /\ d.status = c.status /\ d.sink = c.sink /\ d.clock = c.clock
      /\ d.inputMap = c.inputMap /\ d.outputMap = c.outputMap /\ d.listeners = c.listeners
      /\ d.chain = c.chain /\ d.over = c.over /\ d.fed = c.fed
  <2>1. c.offset \in [Outputs -> Nat]
    BY DEF Controlled
  <2>2. QED  BY <1>4, <2>1 DEF Controlled
<1>8. c.status # "offline"
  BY <1>1, <1>2, <1>3 DEF MaxTransitTimeChanged, Present
<1>9. \A x \in Entities : r[x] = IF x = e THEN d ELSE es[x]
  BY <1>5 DEF Everybody
<1>10. r \in Everybody
  BY <1>5, <1>7 DEF Everybody
<1>11. \A x \in Entities :
         /\ r[x].status = es[x].status /\ r[x].sink = es[x].sink /\ r[x].clock = es[x].clock
         /\ r[x].inputMap = es[x].inputMap /\ r[x].outputMap = es[x].outputMap
         /\ r[x].listeners = es[x].listeners /\ r[x].chain = es[x].chain
         /\ r[x].over = es[x].over /\ r[x].fed = es[x].fed
  BY <1>3, <1>7, <1>9
<1>12. UNCHANGED <<setting, expected, legacy, strays, outdated, failed>>
  BY DEF MaxTransitTimeChanged
<1>13. Accounted(es, expected, legacy, strays, outdated)
  BY <1>2 DEF Invariant
<1>14. expected \in Expectations
  BY DEF Invariant, Typing
<1>15. Plainly(r, legacy)
  <2>1. ASSUME NEW x \in Entities
        PROVE  Plain(r[x], legacy, x)
    <3>1. Plain(es[x], legacy, x)
      BY <1>13 DEF Accounted, Plainly
    <3>2. x = e => r[x].status # "offline"
      BY <1>3, <1>8, <1>11
    <3>3. x # e => r[x] = es[x]
      BY <1>9
    <3>4. QED  BY <1>11, <3>1, <3>2, <3>3 DEF Plain
  <2>2. QED  BY <2>1 DEF Plainly
<1>16. Accounted(r, expected, legacy, strays, outdated)
  <2>1. Feeding(r, outdated, legacy)
    BY <1>11, <1>13, FeedingKept DEF Accounted
  <2>2. QED  BY <1>11, <1>13, <1>14, <1>15, <2>1, QuietKeeps
<1>17. QED
  BY <1>6, <1>10, <1>12, <1>16 DEF Invariant, Typing

LEMMA InputInfoKeeps ==
  ASSUME Invariant, NEW sink \in Sinks, NEW latency \in Nat, InputInfoChanged(sink, latency)
  PROVE  Invariant'
<1>1. PICK e \in Entities, i \in Inputs : sink = <<e, i>>
  BY DEF Sinks
<1>2. PICK es \in Everybody : es = entities
  BY DEF Invariant, Typing
<1>3. PICK c \in Controlled : c = es[e]
  BY <1>2 DEF Everybody
<1>4. PICK s : s = c.sink[i]
  OBVIOUS
<1>5. PICK late \in BOOLEAN :
        late <=> /\ s.state = "Connected" /\ es[s.talker[1]].status = "advertised"
                 /\ IsOver(es, latency, s.talker)
  OBVIOUS
<1>6. PICK over : over = IF c.status # "advertised" THEN c.over ELSE IF late THEN c.over \cup {i} ELSE c.over \ {i}
  OBVIOUS
<1>7. PICK d : d = [c EXCEPT !.latency = [c.latency EXCEPT ![i] = latency], !.over = over]
  OBVIOUS
<1>8. PICK r : r = [es EXCEPT ![e] = d]
  OBVIOUS
<1>9. entities' = r
  <2>1. entities' = [es EXCEPT ![e].latency[i] = latency, ![e].over = over]
    BY <1>1, <1>2, <1>3, <1>4, <1>5, <1>6 DEF InputInfoChanged
  <2>2. QED  BY <1>3, <1>7, <1>8, <2>1 DEF Everybody
<1>10. over \in SUBSET Inputs /\ (late => s.state = "Connected")
  BY <1>5, <1>6 DEF Controlled
<1>11. /\ d \in Controlled /\ d.status = c.status /\ d.sink = c.sink /\ d.clock = c.clock
       /\ d.inputMap = c.inputMap /\ d.outputMap = c.outputMap /\ d.listeners = c.listeners
       /\ d.chain = c.chain /\ d.fed = c.fed /\ d.over = over
  <2>1. c.latency \in [Inputs -> Nat]
    BY DEF Controlled
  <2>2. QED  BY <1>7, <1>10, <2>1 DEF Controlled
<1>12. c.status # "offline"
  BY <1>1, <1>2, <1>3 DEF InputInfoChanged, Present
<1>13. \A x \in Entities : r[x] = IF x = e THEN d ELSE es[x]
  BY <1>8 DEF Everybody
<1>14. r \in Everybody
  BY <1>8, <1>11 DEF Everybody
<1>15. \A x \in Entities :
         /\ r[x].status = es[x].status /\ r[x].sink = es[x].sink /\ r[x].clock = es[x].clock
         /\ r[x].inputMap = es[x].inputMap /\ r[x].outputMap = es[x].outputMap
         /\ r[x].listeners = es[x].listeners /\ r[x].chain = es[x].chain
         /\ r[x].fed = es[x].fed
  BY <1>3, <1>11, <1>13
<1>16. UNCHANGED <<setting, expected, legacy, strays, outdated, failed>>
  BY DEF InputInfoChanged
<1>17. Accounted(es, expected, legacy, strays, outdated) /\ expected \in Expectations
  BY <1>2 DEF Invariant, Typing
<1>18. Plainly(r, legacy)
  <2>1. ASSUME NEW x \in Entities
        PROVE  Plain(r[x], legacy, x)
    <3>1. Plain(es[x], legacy, x)
      BY <1>17 DEF Accounted, Plainly
    <3>2. CASE x = e
      <4>1. Plain(c, legacy, e) /\ r[x] = d
        BY <1>3, <1>13, <3>1, <3>2
      <4>2. \A j \in over : c.sink[j].state = "Connected"
        BY <1>4, <1>6, <1>10, <4>1 DEF Plain
      <4>3. QED  BY <1>6, <1>11, <1>12, <3>2, <4>1, <4>2 DEF Plain
    <3>3. CASE x # e
      BY <1>13, <3>1, <3>3
    <3>4. QED  BY <3>2, <3>3
  <2>2. QED  BY <2>1 DEF Plainly
<1>19. Accounted(r, expected, legacy, strays, outdated)
  <2>1. Feeding(r, outdated, legacy)
    BY <1>15, <1>17, FeedingKept DEF Accounted
  <2>2. QED  BY <1>15, <1>17, <1>18, <2>1, QuietKeeps
<1>20. QED
  BY <1>9, <1>14, <1>16, <1>19 DEF Invariant, Typing

\* An entity that is online, and says nothing yet.
LEMMA OnlineKeeps ==
  ASSUME Invariant, NEW e \in Entities, OnEntityOnline(e)
  PROVE  Invariant'
<1>1. PICK es \in Everybody : es = entities
  BY DEF Invariant, Typing
<1>2. PICK c : c = Created("enumerating")
  OBVIOUS
<1>3. PICK r : r = [es EXCEPT ![e] = c]
  OBVIOUS
<1>4. entities' = r /\ es[e].status = "offline"
  BY <1>1, <1>2, <1>3 DEF OnEntityOnline
<1>5. /\ c \in Controlled /\ c.status = "enumerating" /\ c.over = {} /\ c.fed \in [{} -> Feds]
      /\ \A i \in Inputs : c.sink[i] = NotConnected
      /\ \A o \in Outputs : c.listeners[o] = {}
      /\ \A s \in Outputs \X Channels : c.outputMap[s] = None
  BY <1>2, CreatedTyped
<1>6. r \in Everybody /\ \A x \in Entities : r[x] = IF x = e THEN c ELSE es[x]
  BY <1>3, <1>5 DEF Everybody
<1>7. /\ Accounted(es, expected, legacy, strays, outdated) /\ expected \in Expectations
      /\ UNCHANGED <<setting, expected, legacy, strays, outdated, failed>>
  BY <1>1 DEF Invariant, Typing, OnEntityOnline
<1>8. es[e] = Created("offline")
  BY <1>4, <1>7 DEF Accounted, Plainly, Plain
<1>9. \A i \in Inputs : es[e].sink[i] = NotConnected
  BY <1>8, CreatedTyped
<1>10. Plainly(r, legacy)
  <2>1. ASSUME NEW x \in Entities
        PROVE  Plain(r[x], legacy, x)
    <3>1. CASE x = e
      BY <1>5, <1>6, <3>1 DEF Plain, NotConnected
    <3>2. CASE x # e
      BY <1>6, <1>7, <3>2 DEF Accounted, Plainly
    <3>3. QED  BY <3>1, <3>2
  <2>2. QED  BY <2>1 DEF Plainly
<1>11. /\ Advertised(r) = Advertised(es) /\ e \notin Advertised(es)
       /\ \A x \in Advertised(es) : x \in Entities /\ r[x] = es[x]
  BY <1>4, <1>5, <1>6 DEF Advertised
<1>12. Knowing(r, expected, legacy, strays)
  <2>1. ASSUME NEW x \in Advertised(r), NEW o \in Outputs, NEW sink \in Sinks \ legacy,
               sink[1] # x, <<<<x, o>>, sink>> \notin strays
        PROVE  Knows(r, expected, x, o, sink)
    <3>1. Knows(es, expected, x, o, sink)
      BY <1>7, <1>11, <2>1 DEF Accounted, Knowing
    <3>2. sink[1] \in Entities /\ sink[2] \in Inputs
      BY DEF Sinks
    <3>3. r[sink[1]].sink[sink[2]] = es[sink[1]].sink[sink[2]]
      BY <1>5, <1>6, <1>9, <3>2
    <3>4. r[sink[1]].status = "advertised" <=> es[sink[1]].status = "advertised"
      BY <1>4, <1>5, <1>6, <3>2
    <3>5. r[x] = es[x]
      BY <1>11
    <3>6. QED  BY <3>1, <3>3, <3>4, <3>5 DEF Knows
  <2>2. QED  BY <2>1 DEF Knowing
<1>13. Feeding(r, outdated, legacy)
  <2>1. ASSUME NEW x \in Advertised(es), NEW k \in Clusters
        PROVE  Fresh(r, outdated, legacy, x, k)
    <3>1. Fresh(es, outdated, legacy, x, k) /\ r[x] = es[x] /\ x \in Entities
      BY <1>7, <1>11 DEF Accounted, Feeding
    <3>2. PICK f, mapping : f = es[x].fed[k] /\ mapping = es[x].inputMap[k]
      OBVIOUS
    <3>3. mapping \in Mappings
      <4>1. es[x].inputMap \in [Clusters -> Mappings]
        BY <3>1 DEF Everybody, Controlled
      <4>2. QED  BY <3>2, <4>1
    <3>4. ASSUME mapping # None, Fed(es, x, f, mapping)
          PROVE  Fed(r, x, f, mapping)
      <4>1. mapping[1] \in Inputs /\ mapping[2] \in Channels
        BY <3>3, <3>4, MappingIs
      <4>2. PICK talker \in Sources \cup {None} : talker = es[x].sink[mapping[1]].talker
        BY <3>1, <4>1, TalkerIs
      <4>3. CASE talker # None /\ talker[1] = e
        <5>1. f.talker = talker /\ f.cluster = None
          BY <1>4, <3>4, <4>2, <4>3 DEF Fed
        <5>2. <<talker[2], mapping[2]>> \in Outputs \X Channels
          BY <4>1, <4>3 DEF Sources
        <5>3. r[talker[1]].outputMap[<<talker[2], mapping[2]>>] = None
          BY <1>5, <1>6, <4>3, <5>2
        <5>4. r[x].sink[mapping[1]].talker = talker
          BY <3>1, <4>2
        <5>5. QED  BY <5>1, <5>3, <5>4 DEF Fed
      <4>4. CASE talker = None \/ talker[1] # e
        <5>1. talker # None => talker[1] \in Entities /\ r[talker[1]] = es[talker[1]]
          BY <1>6, <4>4 DEF Sources
        <5>2. r[x].sink[mapping[1]].talker = talker
          BY <3>1, <4>2
        <5>3. QED  BY <3>4, <4>2, <5>1, <5>2 DEF Fed
      <4>5. QED  BY <4>3, <4>4
    <3>5. QED  BY <3>1, <3>2, <3>4 DEF Fresh
  <2>2. QED  BY <1>11, <2>1 DEF Feeding
<1>14. Linking(r, legacy)
  BY <1>7, <1>11, LinkingKept DEF Accounted
<1>15. Expected(r, expected)
  <2>1. expected # None => expected.sink[1] \in Entities
    BY <1>7 DEF Expectations, Sinks
  <2>2. QED  BY <1>4, <1>6, <1>7, <2>1 DEF Accounted, Expected
<1>16. Accounted(r, expected, legacy, strays, outdated)
  BY <1>10, <1>12, <1>13, <1>14, <1>15 DEF Accounted
<1>17. QED
  BY <1>4, <1>6, <1>7, <1>16 DEF Invariant, Typing

\* A clock: the chains through the entity are computed anew from it on.
LEMMA ClockSourceKeeps ==
  ASSUME Invariant, NEW e \in Entities, NEW source \in Inputs \cup {Internal}, ClockSourceChanged(e, source)
  PROVE  Invariant'
<1>1. PICK es \in Everybody : es = entities
  BY DEF Invariant, Typing
<1>2. PICK c \in Controlled : c = es[e]
  BY <1>1 DEF Everybody
<1>3. PICK d : d = [c EXCEPT !.clock = source]
  OBVIOUS
<1>4. PICK at : at = [es EXCEPT ![e] = d]
  OBVIOUS
<1>5. PICK online : online = Advertised(es)
  OBVIOUS
<1>6. /\ d \in Controlled /\ d.status = c.status /\ d.sink = c.sink /\ d.clock = source
      /\ d.inputMap = c.inputMap /\ d.outputMap = c.outputMap /\ d.listeners = c.listeners
      /\ d.chain = c.chain /\ d.fed = c.fed /\ d.over = c.over
  BY <1>3 DEF Controlled
<1>7. \A x \in Entities : at[x] = IF x = e THEN d ELSE es[x]
  BY <1>4 DEF Everybody
<1>8. at \in Everybody
  BY <1>4, <1>6 DEF Everybody
<1>9. online \in SUBSET Entities /\ Advertised(at) = online
  BY <1>2, <1>5, <1>6, <1>7 DEF Advertised
<1> DEFINE chain(x) == ContinuedFrom(at, online, at[x].chain, NodesOf(at[x].chain, e))
<1>10. PICK r : r = [x \in Entities |-> IF x \in online THEN [at[x] EXCEPT !.chain = chain(x)] ELSE at[x]]
  OBVIOUS
<1>11. entities' = r
  <2>1. at = [entities EXCEPT ![e].clock = source]
    BY <1>1, <1>2, <1>3, <1>4
  <2>2. entities' = [x \in Entities |->
                       IF x \in Advertised(at)
                       THEN [at[x] EXCEPT !.chain =
                               ContinuedFrom(at, Advertised(at), at[x].chain, NodesOf(at[x].chain, e))]
                       ELSE at[x]]
    BY <2>1 DEF ClockSourceChanged
  <2>3. QED  BY <1>9, <1>10, <2>2
<1>12. /\ Accounted(es, expected, legacy, strays, outdated) /\ expected \in Expectations
       /\ UNCHANGED <<setting, expected, legacy, strays, outdated, failed>>
       /\ c.status # "offline"
  BY <1>1, <1>2 DEF Invariant, Typing, ClockSourceChanged, Present
<1>13. ASSUME NEW x \in Entities
       PROVE  chain(x) \in Seq(Nodes)
  <2>1. at[x].chain \in Seq(Nodes)
    BY <1>8 DEF Everybody, Controlled
  <2>2. NodesOf(at[x].chain, e) \in SUBSET DOMAIN at[x].chain
    BY DEF NodesOf
  <2>3. QED  BY <1>8, <1>9, <2>1, <2>2, ContinuedTyped
<1> HIDE DEF chain
<1>14. ASSUME NEW x \in Entities
       PROVE  /\ r[x] \in Controlled
              /\ r[x].status = es[x].status /\ r[x].sink = es[x].sink /\ r[x].clock = at[x].clock
              /\ r[x].inputMap = es[x].inputMap /\ r[x].outputMap = es[x].outputMap
              /\ r[x].listeners = es[x].listeners /\ r[x].over = es[x].over /\ r[x].fed = es[x].fed
              /\ x \in online => r[x].chain = chain(x)
              /\ x \notin online => r[x] = at[x]
  <2>1. PICK b \in Controlled : b = at[x]
    BY <1>8 DEF Everybody
  <2>2. PICK a : a = [b EXCEPT !.chain = chain(x)]
    OBVIOUS
  <2>3. /\ a \in Controlled
        /\ a.status = b.status /\ a.sink = b.sink /\ a.clock = b.clock
        /\ a.inputMap = b.inputMap /\ a.outputMap = b.outputMap
        /\ a.listeners = b.listeners /\ a.over = b.over /\ a.fed = b.fed /\ a.chain = chain(x)
    BY <1>13, <2>2 DEF Controlled
  <2>4. r[x] = IF x \in online THEN a ELSE b
    BY <1>10, <2>1, <2>2
  <2>5. /\ b.status = es[x].status /\ b.sink = es[x].sink
        /\ b.inputMap = es[x].inputMap /\ b.outputMap = es[x].outputMap
        /\ b.listeners = es[x].listeners /\ b.over = es[x].over /\ b.fed = es[x].fed
    BY <1>2, <1>6, <1>7, <2>1
  <2>6. QED  BY <2>1, <2>3, <2>4, <2>5
<1>15. r \in Everybody
  <2>1. r = [x \in Entities |-> r[x]]
    BY <1>10
  <2>2. QED  BY <1>14, <2>1 DEF Everybody
<1>16. Plainly(r, legacy)
  <2>1. ASSUME NEW x \in Entities
        PROVE  Plain(r[x], legacy, x)
    <3>1. Plain(es[x], legacy, x)
      BY <1>12 DEF Accounted, Plainly
    <3>2. r[x].status = "offline" => r[x] = es[x]
      BY <1>2, <1>5, <1>7, <1>12, <1>14 DEF Advertised
    <3>3. QED  BY <1>14, <3>1, <3>2 DEF Plain
  <2>2. QED  BY <2>1 DEF Plainly
<1>17. Knowing(r, expected, legacy, strays)
  BY <1>12, <1>14, KnowingKept DEF Accounted
<1>18. Feeding(r, outdated, legacy)
  BY <1>12, <1>14, FeedingKept DEF Accounted
<1>19. Linking(r, legacy)
  <2>1. ASSUME NEW x \in online
        PROVE  Chained(r, online, legacy, x, r[x].chain)
    <3>1. PICK b : b = es[x].chain
      OBVIOUS
    <3>2. x \in Entities /\ Chained(es, online, legacy, x, b)
      BY <1>5, <1>9, <1>12, <3>1 DEF Accounted, Linking
    <3>3. at[x].chain = b
      BY <1>2, <1>6, <1>7, <3>1, <3>2
    <3>4. PICK nodes : nodes = NodesOf(b, e)
      OBVIOUS
    <3>5. nodes \in SUBSET DOMAIN b
      BY <3>4 DEF NodesOf
    <3>6. r[x].chain = ContinuedFrom(at, online, b, nodes)
      BY <1>14, <3>2, <3>3, <3>4 DEF chain
    <3>7. ASSUME NEW j \in 1..Len(b), \A n \in nodes : j < n, Placed(es, online, legacy, Ended(b), j)
          PROVE  Placed(at, online, legacy, Ended(b), j)
      <4>1. j \in Nat \ {0} /\ DOMAIN b = 1..Len(b) /\ b[j].entity \in Entities /\ Ended(b).chain = b
        BY <3>2, NodeTyped
      <4>2. j \in Nat
        BY <4>1
      <4>3. j \notin nodes
        <5>1. ~(j < j)
          BY <4>2
        <5>2. QED  BY <3>7, <5>1
      <4>4. b[j].entity # e
        BY <3>4, <4>1, <4>3 DEF NodesOf
      <4>5. at[b[j].entity] = es[b[j].entity]
        BY <1>7, <4>1, <4>4
      <4>6. PICK w : w = Ended(b)
        OBVIOUS
      <4>7. Linked(es, online, w.chain[j], Follower(w, j)) => Linked(at, online, w.chain[j], Follower(w, j))
        BY <4>1, <4>5, <4>6, LinkedKept
      <4>8. Placed(at, online, legacy, w, j)
        BY <3>7, <4>1, <4>6, <4>7, PlacedKept
      <4>9. QED  BY <4>6, <4>8
    <3>8. \A y \in online : r[y].clock = at[y].clock /\ r[y].sink = at[y].sink
      <4>1. ASSUME NEW y \in online
            PROVE  r[y].clock = at[y].clock /\ r[y].sink = at[y].sink
        <5>1. y \in Entities
          BY <1>9
        <5>2. at[y].sink = es[y].sink
          BY <1>2, <1>6, <1>7, <5>1
        <5>3. QED  BY <1>14, <5>1, <5>2
      <4>2. QED  BY <4>1
    <3>9. Chained(r, online, legacy, x, ContinuedFrom(at, online, b, nodes))
      BY <1>8, <1>9, <3>2, <3>5, <3>7, <3>8, LinkingContinued
    <3>10. QED  BY <3>6, <3>9
  <2>2. Advertised(r) = online
    BY <1>5, <1>14 DEF Advertised
  <2>3. QED  BY <2>1, <2>2 DEF Linking
<1>20. Expected(r, expected)
  <2>1. expected # None => expected.sink[1] \in Entities
    BY <1>12 DEF Expectations, Sinks
  <2>2. QED  BY <1>12, <1>14, <2>1 DEF Accounted, Expected
<1>21. Accounted(r, expected, legacy, strays, outdated)
  BY <1>12, <1>16, <1>17, <1>18, <1>19, <1>20 DEF Accounted
<1>22. QED
  BY <1>11, <1>12, <1>15, <1>21 DEF Invariant, Typing

-----------------------------------------------------------------------------
(* Mappings                                                                  *)

\* A cluster of an entity that takes another mapping, or none.
Mapped(es, r, e, k, mapping) ==
  /\ r \in Everybody /\ \A x \in Entities \ {e} : r[x] = es[x]
  /\ \A x \in Entities :
       /\ r[x].status = es[x].status /\ r[x].sink = es[x].sink /\ r[x].clock = es[x].clock
       /\ r[x].outputMap = es[x].outputMap /\ r[x].listeners = es[x].listeners
       /\ r[x].chain = es[x].chain /\ r[x].over = es[x].over
  /\ \A c \in Clusters : r[e].inputMap[c] = IF c = k THEN mapping ELSE es[e].inputMap[c]
  /\ es[e].status # "advertised" => r[e].fed \in [{} -> Feds]
  /\ es[e].status = "advertised" =>
       /\ r[e].fed \in [Clusters -> Feds]
       /\ \A c \in Clusters \ {k} : r[e].fed[c] = es[e].fed[c]
       /\ \E at \in Everybody :
            /\ \A x \in Entities : at[x].status = r[x].status /\ at[x].sink = r[x].sink /\ at[x].outputMap = r[x].outputMap
            /\ r[e].fed[k] = FedByMapping(at, e, es[e].fed[k], mapping)

LEMMA MappedIs ==
  ASSUME NEW es \in Everybody, NEW out, NEW old, Plainly(es, old), Feeding(es, out, old),
         NEW e \in Entities, NEW k \in Clusters, NEW mapping \in Mappings
  PROVE  Mapped(es, InputMapped(es, e, k, mapping), e, k, mapping)
<1>1. PICK c \in Controlled : c = es[e]
  BY DEF Everybody
<1>2. PICK b : b = [c EXCEPT !.inputMap = [c.inputMap EXCEPT ![k] = mapping]]
  OBVIOUS
<1>3. PICK at : at = [es EXCEPT ![e] = b]
  OBVIOUS
<1>4. /\ b \in Controlled /\ b.status = c.status /\ b.sink = c.sink /\ b.clock = c.clock
      /\ b.outputMap = c.outputMap /\ b.listeners = c.listeners
      /\ b.chain = c.chain /\ b.over = c.over /\ b.fed = c.fed
      /\ \A a \in Clusters : b.inputMap[a] = IF a = k THEN mapping ELSE c.inputMap[a]
  <2>1. c.inputMap \in [Clusters -> Mappings]
    BY DEF Controlled
  <2>2. QED  BY <1>2, <2>1 DEF Controlled
<1>5. at \in Everybody /\ \A x \in Entities : at[x] = IF x = e THEN b ELSE es[x]
  BY <1>3, <1>4 DEF Everybody
<1>6. at = [es EXCEPT ![e].inputMap[k] = mapping]
  BY <1>1, <1>2, <1>3
<1>7. c.fed \in IF c.status = "advertised" THEN [Clusters -> Feds] ELSE [{} -> Feds]
  BY <1>1 DEF Plainly, Plain
<1>8. CASE c.status # "advertised"
  <2>1. k \notin DOMAIN es[e].fed
    BY <1>1, <1>7, <1>8
  <2>2. InputMapped(es, e, k, mapping) = at
    BY <1>6, <2>1 DEF InputMapped
  <2>3. Mapped(es, at, e, k, mapping)
    BY <1>1, <1>4, <1>5, <1>7, <1>8 DEF Mapped
  <2>4. QED  BY <2>2, <2>3
<1>9. CASE c.status = "advertised"
  <2>1. k \in DOMAIN es[e].fed /\ c.fed \in [Clusters -> Feds]
    BY <1>1, <1>7, <1>9
  <2>2. PICK f \in Feds : f = c.fed[k]
    BY <2>1
  <2>3. f.from = None => f = Unmapped
    <3>1. e \in Advertised(es)
      BY <1>1, <1>9 DEF Advertised
    <3>2. QED  BY <1>1, <2>2, <3>1 DEF Feeding, Fresh
  <2>4. PICK g : g = FedByMapping(at, e, f, mapping)
    OBVIOUS
  <2>5. g \in Feds
    BY <1>5, <2>3, <2>4, FedByMappingIs
  <2>6. PICK d : d = [b EXCEPT !.fed = [b.fed EXCEPT ![k] = g]]
    OBVIOUS
  <2>7. PICK r : r = [at EXCEPT ![e] = d]
    OBVIOUS
  <2>8. b.fed \in [Clusters -> Feds] /\ b.fed[k] = f
    BY <1>4, <2>1, <2>2
  <2>9. r = InputMapped(es, e, k, mapping)
    <3>1. InputMapped(es, e, k, mapping) = [at EXCEPT ![e].fed[k] = FedByMapping(at, e, @, mapping)]
      BY <1>6, <2>1 DEF InputMapped
    <3>2. at[e] = b
      BY <1>5
    <3>3. QED  BY <2>4, <2>6, <2>7, <2>8, <3>1, <3>2
  <2>10. /\ d \in Controlled /\ d.status = b.status /\ d.sink = b.sink /\ d.clock = b.clock
         /\ d.outputMap = b.outputMap /\ d.listeners = b.listeners
         /\ d.chain = b.chain /\ d.over = b.over /\ d.inputMap = b.inputMap
         /\ d.fed \in [Clusters -> Feds]
         /\ \A a \in Clusters : d.fed[a] = IF a = k THEN g ELSE b.fed[a]
    BY <1>4, <2>5, <2>6, <2>8 DEF Controlled
  <2>11. r \in Everybody /\ \A x \in Entities : r[x] = IF x = e THEN d ELSE es[x]
    BY <1>5, <2>7, <2>10 DEF Everybody
  <2>12. \A x \in Entities :
           /\ r[x].status = es[x].status /\ r[x].sink = es[x].sink /\ r[x].clock = es[x].clock
           /\ r[x].outputMap = es[x].outputMap /\ r[x].listeners = es[x].listeners
           /\ r[x].chain = es[x].chain /\ r[x].over = es[x].over
    BY <1>1, <1>4, <2>10, <2>11
  <2>13. \A a \in Clusters : r[e].inputMap[a] = IF a = k THEN mapping ELSE es[e].inputMap[a]
    BY <1>1, <1>4, <2>10, <2>11
  <2>14. r[e].fed \in [Clusters -> Feds] /\ (\A a \in Clusters \ {k} : r[e].fed[a] = es[e].fed[a]) /\ r[e].fed[k] = g
    BY <1>1, <1>4, <2>10, <2>11
  <2>15. \A x \in Entities : at[x].status = r[x].status /\ at[x].sink = r[x].sink /\ at[x].outputMap = r[x].outputMap
    BY <1>1, <1>4, <1>5, <2>12
  <2>16. es[e].fed[k] = f
    BY <1>1, <2>2
  <2>17. Mapped(es, r, e, k, mapping)
    BY <1>1, <1>5, <1>9, <2>4, <2>11, <2>12, <2>13, <2>14, <2>15, <2>16 DEF Mapped
  <2>18. QED  BY <2>9, <2>17
<1>10. QED
  BY <1>8, <1>9

LEMMA MappedKeeps ==
  ASSUME NEW es \in Everybody, NEW exp \in Expectations, NEW old, NEW known, NEW out, NEW now,
         Accounted(es, exp, old, known, out), out \subseteq now,
         NEW e \in Entities, NEW k \in Clusters, NEW mapping \in Mappings, es[e].status # "offline",
         e \in now \/ mapping = None \/ es[e].inputMap[k] \in {None, mapping}
  PROVE  LET r == InputMapped(es, e, k, mapping)
         IN  r \in Everybody /\ Accounted(r, exp, old, known, now)
<1>1. PICK r : r = InputMapped(es, e, k, mapping)
  OBVIOUS
<1>2. Mapped(es, r, e, k, mapping)
  BY <1>1, MappedIs DEF Accounted
<1>3. Plainly(r, old)
  <2>1. ASSUME NEW x \in Entities
        PROVE  Plain(r[x], old, x)
    <3>1. Plain(es[x], old, x)
      BY DEF Accounted, Plainly
    <3>2. CASE x = e
      <4>1. r[e].fed \in IF r[e].status = "advertised" THEN [Clusters -> Feds] ELSE [{} -> Feds]
        BY <1>2 DEF Mapped
      <4>2. /\ r[e].status = es[e].status /\ r[e].sink = es[e].sink
            /\ r[e].listeners = es[e].listeners /\ r[e].over = es[e].over
        BY <1>2 DEF Mapped
      <4>3. QED  BY <3>1, <3>2, <4>1, <4>2 DEF Plain
    <3>3. CASE x # e
      BY <1>2, <3>1, <3>3 DEF Mapped
    <3>4. QED  BY <3>2, <3>3
  <2>2. QED  BY <2>1 DEF Plainly
<1>4. \A x \in Entities : r[x].status = es[x].status /\ r[x].sink = es[x].sink /\ r[x].outputMap = es[x].outputMap
  BY <1>2 DEF Mapped
<1>5. Feeding(r, now, old)
  <2>1. ASSUME NEW x \in Advertised(es), NEW c \in Clusters
        PROVE  Fresh(r, now, old, x, c)
    <3>1. Fresh(es, out, old, x, c) /\ x \in Entities /\ es[x].status = "advertised"
      BY DEF Accounted, Feeding, Advertised
    <3>2. PICK f, m : f = es[x].fed[c] /\ m = es[x].inputMap[c]
      OBVIOUS
    <3>3. m \in Mappings /\ f \in Feds
      <4>1. es[x].inputMap \in [Clusters -> Mappings]
        BY <3>1 DEF Everybody, Controlled
      <4>2. es[x].fed \in [Clusters -> Feds]
        BY <3>1 DEF Accounted, Plainly, Plain
      <4>3. QED  BY <3>2, <4>1, <4>2
    <3>4. ASSUME m # None, Fed(es, x, f, m)
          PROVE  Fed(r, x, f, m)
      <4>1. m[1] \in Inputs
        BY <3>3, <3>4, MappingIs
      <4>2. es[x].sink[m[1]].talker \in Sources \cup {None}
        BY <3>1, <4>1, TalkerIs
      <4>3. r[x].sink[m[1]].talker = es[x].sink[m[1]].talker
        BY <1>4, <3>1
      <4>4. \A y \in Entities : r[y].status = es[y].status /\ r[y].outputMap = es[y].outputMap
        BY <1>4
      <4>5. QED  BY <3>4, <4>2, <4>3, <4>4, FedKept
    <3>5. CASE r[x].fed[c] = f /\ r[x].inputMap[c] = m
      BY <3>1, <3>2, <3>4, <3>5 DEF Fresh
    <3>6. CASE ~(x = e /\ c = k)
      <4>1. r[x].fed[c] = f /\ r[x].inputMap[c] = m
        BY <1>2, <3>1, <3>2, <3>6 DEF Mapped
      <4>2. QED  BY <3>5, <4>1
    <3>7. CASE x = e /\ c = k
      <4>1. PICK at \in Everybody :
              /\ \A y \in Entities :
                   at[y].status = r[y].status /\ at[y].sink = r[y].sink /\ at[y].outputMap = r[y].outputMap
              /\ r[e].fed[k] = FedByMapping(at, e, es[e].fed[k], mapping)
        BY <1>2, <3>1, <3>7 DEF Mapped
      <4>2. PICK g : g = FedByMapping(at, e, f, mapping)
        OBVIOUS
      <4>3. f.from = None => f = Unmapped
        BY <3>1, <3>2 DEF Fresh
      <4>4. /\ g \in Feds /\ g.from = mapping
            /\ g.from = None => g = Unmapped
            /\ f.from = mapping => g = f
            /\ f.from = None /\ mapping # None => Fed(at, e, g, mapping)
        BY <3>3, <4>2, <4>3, FedByMappingIs
      <4>5. r[x].fed[c] = g /\ r[x].inputMap[c] = mapping
        BY <1>2, <3>2, <3>7, <4>1, <4>2 DEF Mapped
      <4>6. ASSUME x \notin now, mapping # None, <<x, mapping[1]>> \notin old
            PROVE  Fed(r, x, g, mapping)
        <5>1. m \in {None, mapping}
          BY <3>2, <3>7, <4>6
        <5>2. f.from = m
          BY <3>1, <3>2, <4>6 DEF Fresh
        <5>3. CASE m = mapping
          <6>1. Fed(es, x, f, m)
            BY <3>1, <3>2, <4>6, <5>3 DEF Fresh
          <6>2. QED  BY <3>4, <4>4, <4>6, <5>2, <5>3, <6>1
        <5>4. CASE m = None
          <6>1. Fed(at, x, g, mapping)
            BY <3>7, <4>4, <4>6, <5>2, <5>4
          <6>2. mapping[1] \in Inputs
            BY <4>6, MappingIs
          <6>3. at[x].sink[mapping[1]].talker \in Sources \cup {None}
            BY <3>1, <6>2, TalkerIs
          <6>4. r[x].sink[mapping[1]].talker = at[x].sink[mapping[1]].talker
            BY <3>1, <4>1
          <6>5. \A y \in Entities : r[y].status = at[y].status /\ r[y].outputMap = at[y].outputMap
            BY <4>1
          <6>6. QED  BY <6>1, <6>3, <6>4, <6>5, FedKept
        <5>5. QED  BY <5>1, <5>3, <5>4
      <4>7. QED  BY <4>4, <4>5, <4>6 DEF Fresh
    <3>8. QED  BY <3>6, <3>7
  <2>2. Advertised(r) = Advertised(es)
    BY <1>4 DEF Advertised
  <2>3. QED  BY <2>1, <2>2 DEF Feeding
<1>6. /\ r \in Everybody
      /\ \A x \in Entities :
           /\ r[x].status = es[x].status /\ r[x].sink = es[x].sink /\ r[x].clock = es[x].clock
           /\ r[x].listeners = es[x].listeners /\ r[x].chain = es[x].chain
  BY <1>2 DEF Mapped
<1>7. Accounted(r, exp, old, known, now)
  BY <1>3, <1>5, <1>6, QuietKeeps
<1>8. QED
  BY <1>1, <1>6, <1>7

LEMMA InputMappingKeeps ==
  ASSUME Invariant, NEW e \in Entities, NEW k \in Clusters, NEW mapping \in Mappings,
         InputMappingChanged(e, k, mapping)
  PROVE  Invariant'
<1>1. PICK es \in Everybody : es = entities
  BY DEF Invariant, Typing
<1>2. PICK r : r = InputMapped(es, e, k, mapping)
  OBVIOUS
<1>3. PICK now : now = outdated \cup {x \in {e} : mapping # None /\ es[e].inputMap[k] \notin {None, mapping}}
  OBVIOUS
<1>4. /\ entities' = r /\ outdated' = now /\ es[e].status # "offline"
      /\ UNCHANGED <<setting, expected, legacy, strays>>
      /\ failed' \subseteq failed \cup {"Failed to find ChannelConnection"}
  BY <1>1, <1>2, <1>3 DEF InputMappingChanged, Present
<1>5. Accounted(es, expected, legacy, strays, outdated) /\ expected \in Expectations /\ outdated \subseteq Entities
  BY <1>1 DEF Invariant, Typing
<1>6. /\ outdated \subseteq now /\ now \subseteq Entities
      /\ e \in now \/ mapping = None \/ es[e].inputMap[k] \in {None, mapping}
  BY <1>3, <1>5
<1>7. r \in Everybody /\ Accounted(r, expected, legacy, strays, now)
  BY <1>2, <1>4, <1>5, <1>6, MappedKeeps
<1>8. QED
  BY <1>4, <1>6, <1>7 DEF Invariant, Typing

\* The mappings of an entity are forgotten: its clusters are outdated.
LEMMA ClearedKeeps ==
  ASSUME NEW es \in Everybody, NEW exp \in Expectations, NEW old, NEW known, NEW out,
         Accounted(es, exp, old, known, out), NEW e \in Entities, es[e].status # "offline"
  PROVE  LET r == [es EXCEPT ![e].inputMap = [c \in Clusters |-> None]]
         IN  /\ r \in Everybody /\ Accounted(r, exp, old, known, out \cup {e})
             /\ r[e].status # "offline"
<1>1. PICK c \in Controlled : c = es[e]
  BY DEF Everybody
<1>2. PICK d : d = [c EXCEPT !.inputMap = [a \in Clusters |-> None]]
  OBVIOUS
<1>3. PICK r : r = [es EXCEPT ![e] = d]
  OBVIOUS
<1>4. r = [es EXCEPT ![e].inputMap = [a \in Clusters |-> None]]
  BY <1>1, <1>2, <1>3
<1>5. /\ d \in Controlled /\ d.status = c.status /\ d.sink = c.sink /\ d.clock = c.clock
      /\ d.outputMap = c.outputMap /\ d.listeners = c.listeners
      /\ d.chain = c.chain /\ d.over = c.over /\ d.fed = c.fed
  BY <1>2 DEF Controlled, Mappings
<1>6. r \in Everybody /\ \A x \in Entities : r[x] = IF x = e THEN d ELSE es[x]
  BY <1>3, <1>5 DEF Everybody
<1>7. \A x \in Entities :
        /\ r[x].status = es[x].status /\ r[x].sink = es[x].sink /\ r[x].clock = es[x].clock
        /\ r[x].outputMap = es[x].outputMap /\ r[x].listeners = es[x].listeners
        /\ r[x].chain = es[x].chain /\ r[x].over = es[x].over /\ r[x].fed = es[x].fed
  BY <1>1, <1>5, <1>6
<1>8. Plainly(r, old)
  <2>1. ASSUME NEW x \in Entities
        PROVE  Plain(r[x], old, x)
    <3>1. Plain(es[x], old, x)
      BY DEF Accounted, Plainly
    <3>2. r[x].status = "offline" => r[x] = es[x]
      BY <1>6, <1>7
    <3>3. QED  BY <1>7, <3>1, <3>2 DEF Plain
  <2>2. QED  BY <2>1 DEF Plainly
<1>9. Feeding(r, out \cup {e}, old)
  <2>1. ASSUME NEW x \in Advertised(es), NEW k \in Clusters
        PROVE  Fresh(r, out \cup {e}, old, x, k)
    <3>1. Fresh(es, out, old, x, k) /\ x \in Entities
      BY DEF Accounted, Feeding, Advertised
    <3>2. PICK f, m : f = es[x].fed[k] /\ m = es[x].inputMap[k]
      OBVIOUS
    <3>3. r[x].fed[k] = f
      BY <1>7, <3>1, <3>2
    <3>4. CASE x = e
      BY <3>1, <3>2, <3>3, <3>4 DEF Fresh
    <3>5. CASE x # e
      <4>1. ASSUME m # None, Fed(es, x, f, m)
            PROVE  Fed(r, x, f, m)
        <5>1. m[1] \in Inputs
          <6>1. es[x].inputMap \in [Clusters -> Mappings]
            BY <3>1 DEF Everybody, Controlled
          <6>2. QED  BY <3>2, <4>1, <6>1, MappingIs
        <5>2. es[x].sink[m[1]].talker \in Sources \cup {None}
          BY <3>1, <5>1, TalkerIs
        <5>3. r[x].sink[m[1]].talker = es[x].sink[m[1]].talker
          BY <1>7, <3>1
        <5>4. \A y \in Entities : r[y].status = es[y].status /\ r[y].outputMap = es[y].outputMap
          BY <1>7
        <5>5. QED  BY <4>1, <5>2, <5>3, <5>4, FedKept
      <4>2. r[x].inputMap[k] = m
        BY <1>6, <3>1, <3>2, <3>5
      <4>3. QED  BY <3>1, <3>2, <3>3, <4>1, <4>2 DEF Fresh
    <3>6. QED  BY <3>4, <3>5
  <2>2. Advertised(r) = Advertised(es)
    BY <1>7 DEF Advertised
  <2>3. QED  BY <2>1, <2>2 DEF Feeding
<1>10. Accounted(r, exp, old, known, out \cup {e})
  BY <1>7, <1>8, <1>9, QuietKeeps
<1>11. QED
  BY <1>4, <1>6, <1>7, <1>10

LEMMA MappingsReplacedKeeps ==
  ASSUME Invariant, NEW e \in Entities, NEW k \in Clusters, NEW mapping \in Mappings,
         InputMappingsReplaced(e, k, mapping)
  PROVE  Invariant'
<1>1. PICK es \in Everybody : es = entities
  BY DEF Invariant, Typing
<1>2. PICK at : at = [es EXCEPT ![e].inputMap = [c \in Clusters |-> None]]
  OBVIOUS
<1>3. PICK r : r = InputMapped(at, e, k, mapping)
  OBVIOUS
<1>4. PICK now : now = outdated \cup {e}
  OBVIOUS
<1>5. /\ entities' = r /\ outdated' = now /\ es[e].status # "offline"
      /\ UNCHANGED <<setting, expected, legacy, strays>>
      /\ failed' \subseteq failed \cup {"Failed to find ChannelConnection"}
  BY <1>1, <1>2, <1>3, <1>4 DEF InputMappingsReplaced, Present
<1>6. Accounted(es, expected, legacy, strays, outdated) /\ expected \in Expectations /\ outdated \subseteq Entities
  BY <1>1 DEF Invariant, Typing
<1>7. at \in Everybody /\ Accounted(at, expected, legacy, strays, now) /\ at[e].status # "offline"
  BY <1>2, <1>4, <1>5, <1>6, ClearedKeeps
<1>8. r \in Everybody /\ Accounted(r, expected, legacy, strays, now)
  <2>1. e \in now \/ mapping = None \/ at[e].inputMap[k] \in {None, mapping}
    BY <1>4
  <2>2. now \subseteq now
    OBVIOUS
  <2>3. QED  BY <1>3, <1>6, <1>7, <2>1, <2>2, MappedKeeps
<1>9. now \subseteq Entities
  BY <1>4, <1>6
<1>10. QED
  BY <1>5, <1>8, <1>9 DEF Invariant, Typing

\* What a talker maps: the clusters that it feeds follow.
LEMMA OutputMappingKeeps ==
  ASSUME Invariant, NEW talker \in Sources, NEW channel \in Channels, NEW cluster \in Clusters \cup {None},
         OutputMappingChanged(talker, channel, cluster)
  PROVE  Invariant'
<1>1. PICK t \in Entities, o \in Outputs : talker = <<t, o>>
  BY DEF Sources
<1>2. PICK es \in Everybody : es = entities
  BY DEF Invariant, Typing
<1>3. PICK c \in Controlled : c = es[t]
  BY <1>2 DEF Everybody
<1>4. PICK d : d = [c EXCEPT !.outputMap = [c.outputMap EXCEPT ![<<o, channel>>] = cluster]]
  OBVIOUS
<1>5. PICK at : at = [es EXCEPT ![t] = d]
  OBVIOUS
<1>6. /\ d \in Controlled /\ d.status = c.status /\ d.sink = c.sink /\ d.clock = c.clock
      /\ d.inputMap = c.inputMap /\ d.listeners = c.listeners
      /\ d.chain = c.chain /\ d.fed = c.fed /\ d.over = c.over
      /\ \A p \in Outputs, q \in Channels :
           d.outputMap[<<p, q>>] = IF p = o /\ q = channel THEN cluster ELSE c.outputMap[<<p, q>>]
  <2>1. c.outputMap \in [Outputs \X Channels -> Clusters \cup {None}]
    BY DEF Controlled
  <2>2. \A p \in Outputs, q \in Channels : <<p, q>> \in Outputs \X Channels
    OBVIOUS
  <2>3. QED  BY <1>4, <2>1, <2>2 DEF Controlled
<1>7. \A x \in Entities : at[x] = IF x = t THEN d ELSE es[x]
  BY <1>5 DEF Everybody
<1>8. at \in Everybody
  BY <1>5, <1>6 DEF Everybody
<1>9. PICK told : told = Advertised(es) \ {t}
  OBVIOUS
<1>10. Advertised(at) \ {t} = told
  BY <1>3, <1>6, <1>7, <1>9 DEF Advertised
<1> DEFINE fed(x) == [k \in DOMAIN at[x].fed |-> FedByTalker(at[x].fed[k], talker, channel, cluster)]
<1>11. PICK r : r = [x \in Entities |-> IF x \in told THEN [at[x] EXCEPT !.fed = fed(x)] ELSE at[x]]
  OBVIOUS
<1>12. entities' = r
  <2>1. at = [entities EXCEPT ![talker[1]].outputMap[<<talker[2], channel>>] = cluster]
    BY <1>1, <1>2, <1>3, <1>4, <1>5
  <2>2. talker[1] = t
    BY <1>1
  <2>3. entities' = [x \in Entities |->
                       IF x \in Advertised(at) \ {t} THEN [at[x] EXCEPT !.fed = fed(x)] ELSE at[x]]
    BY <2>1, <2>2 DEF OutputMappingChanged
  <2>4. QED  BY <1>10, <1>11, <2>3
<1>13. /\ Accounted(es, expected, legacy, strays, outdated) /\ expected \in Expectations
       /\ UNCHANGED <<setting, expected, legacy, strays, outdated, failed>>
       /\ c.status # "offline"
  BY <1>1, <1>2, <1>3 DEF Invariant, Typing, OutputMappingChanged, Present
<1>14. ASSUME NEW x \in told
       PROVE  /\ x \in Entities /\ es[x].status = "advertised" /\ at[x] = es[x]
              /\ es[x].fed \in [Clusters -> Feds]
              /\ fed(x) \in [Clusters -> Feds]
              /\ \A k \in Clusters : fed(x)[k] = FedByTalker(es[x].fed[k], talker, channel, cluster)
  <2>1. x \in Entities /\ es[x].status = "advertised" /\ at[x] = es[x]
    BY <1>7, <1>9 DEF Advertised
  <2>2. es[x].fed \in [Clusters -> Feds]
    BY <1>13, <2>1 DEF Accounted, Plainly, Plain
  <2>3. \A k \in Clusters : FedByTalker(es[x].fed[k], talker, channel, cluster) \in Feds
    BY <2>2, FedByTalkerTyped
  <2>4. QED  BY <2>1, <2>2, <2>3
<1> HIDE DEF fed
<1>15. ASSUME NEW x \in Entities
       PROVE  /\ r[x] \in Controlled
              /\ r[x].status = es[x].status /\ r[x].sink = es[x].sink /\ r[x].clock = es[x].clock
              /\ r[x].inputMap = es[x].inputMap /\ r[x].outputMap = at[x].outputMap
              /\ r[x].listeners = es[x].listeners /\ r[x].over = es[x].over /\ r[x].chain = es[x].chain
              /\ r[x].fed = IF x \in told THEN fed(x) ELSE es[x].fed
              /\ x \notin told => r[x] = at[x]
  <2>1. PICK b \in Controlled : b = at[x]
    BY <1>8 DEF Everybody
  <2>2. /\ b.status = es[x].status /\ b.sink = es[x].sink /\ b.clock = es[x].clock
        /\ b.inputMap = es[x].inputMap
        /\ b.listeners = es[x].listeners /\ b.over = es[x].over /\ b.chain = es[x].chain /\ b.fed = es[x].fed
    BY <1>3, <1>6, <1>7, <2>1
  <2>3. CASE x \in told
    <3>1. PICK a : a = [b EXCEPT !.fed = fed(x)]
      OBVIOUS
    <3>2. /\ a \in Controlled
          /\ a.status = b.status /\ a.sink = b.sink /\ a.clock = b.clock
          /\ a.inputMap = b.inputMap /\ a.outputMap = b.outputMap
          /\ a.listeners = b.listeners /\ a.over = b.over /\ a.fed = fed(x) /\ a.chain = b.chain
      <4>1. fed(x) \in [Clusters -> Feds]
        BY <1>14, <2>3
      <4>2. QED  BY <3>1, <4>1 DEF Controlled
    <3>3. r[x] = a
      BY <1>11, <2>1, <2>3, <3>1
    <3>4. QED  BY <2>1, <2>2, <2>3, <3>2, <3>3
  <2>4. CASE x \notin told
    <3>1. r[x] = b
      BY <1>11, <2>1, <2>4
    <3>2. QED  BY <2>1, <2>2, <2>4, <3>1
  <2>5. QED  BY <2>3, <2>4
<1>16. r \in Everybody
  <2>1. r = [x \in Entities |-> r[x]]
    BY <1>11
  <2>2. QED  BY <1>15, <2>1 DEF Everybody
<1>17. Plainly(r, legacy)
  <2>1. ASSUME NEW x \in Entities
        PROVE  Plain(r[x], legacy, x)
    <3>1. Plain(es[x], legacy, x)
      BY <1>13 DEF Accounted, Plainly
    <3>2. r[x].status = "offline" => r[x] = es[x]
      BY <1>3, <1>7, <1>9, <1>13, <1>15 DEF Advertised
    <3>3. r[x].fed \in IF r[x].status = "advertised" THEN [Clusters -> Feds] ELSE [{} -> Feds]
      BY <1>14, <1>15, <3>1 DEF Plain
    <3>4. QED  BY <1>15, <3>1, <3>2, <3>3 DEF Plain
  <2>2. QED  BY <2>1 DEF Plainly
<1>18. Feeding(r, outdated, legacy)
  <2>1. ASSUME NEW x \in Advertised(es), NEW k \in Clusters
        PROVE  Fresh(r, outdated, legacy, x, k)
    <3>1. Fresh(es, outdated, legacy, x, k) /\ x \in Entities /\ es[x].status = "advertised"
      BY <1>13 DEF Accounted, Feeding, Advertised
    <3>2. PICK f, g, m : f = es[x].fed[k] /\ g = r[x].fed[k] /\ m = es[x].inputMap[k]
      OBVIOUS
    <3>3. m \in Mappings /\ f \in Feds
      <4>1. es[x].inputMap \in [Clusters -> Mappings]
        BY <3>1 DEF Everybody, Controlled
      <4>2. es[x].fed \in [Clusters -> Feds]
        BY <1>13, <3>1 DEF Accounted, Plainly, Plain
      <4>3. QED  BY <3>2, <4>1, <4>2
    <3>4. /\ g.from = f.from /\ g.talker = f.talker
          /\ f.from = None => g = f
          /\ x = t => g = f
          /\ x # t => g.cluster = IF f.talker = talker /\ f.from # None /\ f.from[2] = channel
                                  THEN cluster ELSE f.cluster
      <4>1. CASE x = t
        BY <1>9, <1>15, <3>1, <3>2, <4>1
      <4>2. CASE x # t
        <5>1. x \in told
          BY <1>9, <3>1, <4>2
        <5>2. g = FedByTalker(f, talker, channel, cluster)
          BY <1>14, <1>15, <3>1, <3>2, <5>1
        <5>3. QED  BY <3>3, <4>2, <5>2, FedByTalkerTyped
      <4>3. QED  BY <4>1, <4>2
    <3>5. ASSUME m # None, f.from = m, Fed(es, x, f, m)
          PROVE  Fed(r, x, g, m)
      <4>1. m[1] \in Inputs /\ m[2] \in Channels
        BY <3>3, <3>5, MappingIs
      <4>2. PICK s \in Sources \cup {None} : s = es[x].sink[m[1]].talker
        BY <3>1, <4>1, TalkerIs
      <4>3. f.talker = s /\ r[x].sink[m[1]].talker = s
        BY <1>15, <3>1, <3>5, <4>2 DEF Fed
      <4>4. CASE s = None
        <5>1. s # talker
          BY <4>4, ConstantsAssumption
        <5>2. g.cluster = f.cluster
          BY <3>4, <4>3, <5>1
        <5>3. QED  BY <3>4, <3>5, <4>2, <4>3, <4>4, <5>2 DEF Fed
      <4>5. CASE s # None
        <5>1. PICK y \in Entities, p \in Outputs : s = <<y, p>>
          BY <4>5 DEF Sources
        <5>2. /\ es[y].status = "offline" => f.cluster = None
              /\ y # x /\ es[y].status # "offline" => f.cluster = es[y].outputMap[<<p, m[2]>>]
          BY <3>5, <4>2, <4>5, <5>1 DEF Fed
        <5>3. r[y].status = es[y].status
          BY <1>15
        <5>4. r[y].outputMap[<<p, m[2]>>] =
                IF y = t /\ p = o /\ m[2] = channel THEN cluster ELSE es[y].outputMap[<<p, m[2]>>]
          BY <1>3, <1>6, <1>7, <1>15, <4>1
        <5>5. es[y].status = "offline" => g.cluster = None
          BY <1>1, <1>3, <1>13, <3>4, <4>3, <5>1, <5>2
        <5>6. y # x /\ es[y].status # "offline" => g.cluster = r[y].outputMap[<<p, m[2]>>]
          BY <1>1, <3>4, <3>5, <4>3, <5>1, <5>2, <5>4
        <5>7. QED  BY <3>4, <4>3, <4>5, <5>1, <5>3, <5>5, <5>6 DEF Fed
      <4>6. QED  BY <4>4, <4>5
    <3>6. r[x].inputMap[k] = m
      BY <1>15, <3>1, <3>2
    <3>7. QED  BY <3>1, <3>2, <3>4, <3>5, <3>6 DEF Fresh
  <2>2. Advertised(r) = Advertised(es)
    BY <1>15 DEF Advertised
  <2>3. QED  BY <2>1, <2>2 DEF Feeding
<1>19. Accounted(r, expected, legacy, strays, outdated)
  BY <1>13, <1>15, <1>17, <1>18, QuietKeeps
<1>20. QED
  BY <1>12, <1>13, <1>16, <1>19 DEF Invariant, Typing

-----------------------------------------------------------------------------
(* Connections                                                               *)

\* What a notification leaves to others.
Elsewhere(es, r, e, i, info) ==
  /\ r \in Everybody
  /\ \A x \in Entities : r[x].status = es[x].status
  /\ \A x \in Entities, j \in Inputs : <<x, j>> # <<e, i>> => r[x].sink[j] = es[x].sink[j]
  /\ es[e].status # "offline" => r[e].sink[i] = info
  /\ \A x \in Entities, o \in Outputs, s \in Sinks :
       s # <<e, i>> => (s \in r[x].listeners[o] <=> s \in es[x].listeners[o])

LEMMA NotifiedElse ==
  ASSUME NEW es \in Everybody, NEW e \in Entities, NEW i \in Inputs, NEW r, NEW with, NEW was, NEW info,
         NotifiedAs(es, r, with, e, i, was, info)
  PROVE  Elsewhere(es, r, e, i, info)
<1>1. CASE es[e].status = "offline" /\ r = es
  BY <1>1 DEF Elsewhere
<1>2. CASE /\ es[e].status # "offline" /\ (es[e].status = "enumerating" \/ was = info)
           /\ r = with /\ SinkChanged(es, with, e, i, info)
  BY <1>2 DEF SinkChanged, Elsewhere
<1>3. CASE /\ es[e].status = "advertised" /\ was # info
           /\ SinkChanged(es, with, e, i, info) /\ Applied(with, r, e, i, was, info)
  <2>1. \A x \in Entities : r[x].status = with[x].status /\ r[x].sink = with[x].sink
    BY <1>3 DEF Applied, SameDevices, SameDevice
  <2>2. \A x \in Entities, o \in Outputs, s \in Sinks :
          s # <<e, i>> => (s \in r[x].listeners[o] <=> s \in with[x].listeners[o])
    BY <1>3 DEF Applied, KnownAnew
  <2>3. \A x \in Entities : with[x].status = es[x].status /\ with[x].listeners = es[x].listeners
    BY <1>3 DEF SinkChanged
  <2>4. \A x \in Entities, j \in Inputs : with[x].sink[j] = IF x = e /\ j = i THEN info ELSE es[x].sink[j]
    BY <1>3 DEF SinkChanged
  <2>5. r \in Everybody
    BY <1>3 DEF Applied
  <2>6. QED  BY <1>3, <2>1, <2>2, <2>3, <2>4, <2>5 DEF Elsewhere
<1>4. QED
  BY <1>1, <1>2, <1>3 DEF NotifiedAs

\* Talkers know of it, once the listener of a connection answers.
Answers(exp, sink, info) == exp # None => exp.sink = sink /\ (exp.connected <=> info.state = "Connected")
Unaware(es, e, i, info, strange) ==
  \A x \in Advertised(es), o \in Outputs :
    /\ <<x, o>> # info.talker /\ <<e, i>> \in es[x].listeners[o]
    /\ es[e].status = "enumerating" \/ es[e].sink[i] # Connected(<<x, o>>)
    => <<<<x, o>>, <<e, i>>>> \in strange

LEMMA NotifiedKnows ==
  ASSUME NEW es \in Everybody, NEW exp, NEW old, NEW known, NEW exempt, NEW strange,
         NEW e \in Entities, NEW i \in Inputs,
         NEW r, NEW with, NEW was \in Infos, NEW info \in Infos, was = es[e].sink[i],
         Plainly(es, old), Expected(es, exp), Knowing(es, exp, old, known), NotifiedAs(es, r, with, e, i, was, info),
         old \subseteq exempt, info.state = "FastConnecting" => <<e, i>> \in exempt, known \subseteq strange,
         Answers(exp, <<e, i>>, info), Unaware(es, e, i, info, strange)
  PROVE  Knowing(r, None, exempt, strange)
<1>1. PICK sink \in Sinks : sink = <<e, i>>
  BY DEF Sinks
<1>2. /\ \A x \in Entities : r[x].status = es[x].status
      /\ \A x \in Entities, j \in Inputs : <<x, j>> # <<e, i>> => r[x].sink[j] = es[x].sink[j]
      /\ es[e].status # "offline" => r[e].sink[i] = info
      /\ \A x \in Entities, o \in Outputs, s \in Sinks :
           s # <<e, i>> => (s \in r[x].listeners[o] <=> s \in es[x].listeners[o])
  BY NotifiedElse DEF Elsewhere
<1>3. Advertised(r) = Advertised(es)
  BY <1>2 DEF Advertised
<1>4. ASSUME NEW x \in Advertised(es), NEW o \in Outputs, NEW s \in Sinks \ exempt,
             s[1] # x, <<<<x, o>>, s>> \notin strange
      PROVE  Knows(r, None, x, o, s)
  <2>1. x \in Entities /\ es[x].status = "advertised" /\ <<x, o>> \in Sources
    BY DEF Advertised, Sources
  <2>2. Knows(es, exp, x, o, s)
    BY <1>4 DEF Knowing
  <2>3. ~Awaited(None, s, TRUE) /\ ~Awaited(None, s, FALSE)
    BY DEF Awaited
  <2>4. CASE s # sink
    <3>1. ~Awaited(exp, s, TRUE) /\ ~Awaited(exp, s, FALSE)
      BY <1>1, <2>4 DEF Awaited, Answers
    <3>2. s[1] \in Entities /\ s[2] \in Inputs /\ <<s[1], s[2]>> # <<e, i>>
      BY <1>1, <2>4 DEF Sinks
    <3>3. r[s[1]].sink[s[2]] = es[s[1]].sink[s[2]] /\ r[s[1]].status = es[s[1]].status
      BY <1>2, <3>2
    <3>4. s \in r[x].listeners[o] <=> s \in es[x].listeners[o]
      BY <1>1, <1>2, <2>1, <2>4
    <3>5. QED  BY <2>2, <3>1, <3>3, <3>4 DEF Knows
  <2>5. CASE s = sink
    <3>1. s[1] = e /\ s[2] = i /\ s = <<e, i>> /\ <<e, i>> \notin exempt /\ <<e, i>> \notin old
      BY <1>1, <1>4, <2>5
    <3>2. was.state # "FastConnecting" /\ info.state # "FastConnecting"
      BY <3>1 DEF Plainly, Plain
    <3>3. /\ was.talker = <<x, o>> <=> was = Connected(<<x, o>>)
          /\ info.talker = <<x, o>> <=> info = Connected(<<x, o>>)
      <4>1. <<x, o>> # None
        BY <2>1, ConstantsAssumption
      <4>2. ASSUME NEW a \in Infos, a.state # "FastConnecting"
            PROVE  a.talker = <<x, o>> <=> a = Connected(<<x, o>>)
        BY <4>1, <4>2, ConnectedIs DEF Connected
      <4>3. QED  BY <3>2, <4>2
    <3>4. <<x, o>> # info.talker /\ s \in es[x].listeners[o] =>
            es[e].status # "enumerating" /\ was = Connected(<<x, o>>)
      BY <1>4, <3>1 DEF Unaware
    <3>5. CASE es[e].status = "offline" /\ r = es
      <4>1. exp = None
        BY <3>1, <3>5 DEF Expected, Answers
      <4>2. QED  BY <2>2, <3>5, <4>1
    <3>6. CASE es[e].status # "offline"
      <4>1. r[e].sink[i] = info /\ r[e].status = es[e].status
        BY <1>2, <3>6
      <4>2. es[e].status = "advertised" /\ was = info /\ info = Connected(<<x, o>>) => s \in es[x].listeners[o]
        <5>1. ASSUME info = Connected(<<x, o>>)
              PROVE  ~Awaited(exp, s, FALSE)
          BY <5>1 DEF Awaited, Connected, Answers
        <5>2. QED  BY <2>2, <3>1, <5>1 DEF Knows
      <4>3. CASE /\ es[e].status = "enumerating" \/ was = info
                 /\ r = with /\ SinkChanged(es, with, e, i, info)
        <5>1. s \in r[x].listeners[o] <=> s \in es[x].listeners[o]
          BY <2>1, <4>3 DEF SinkChanged
        <5>2. s \in r[x].listeners[o] => info = Connected(<<x, o>>)
          BY <3>3, <3>4, <4>3, <5>1
        <5>3. es[e].status = "advertised" /\ info = Connected(<<x, o>>) => s \in r[x].listeners[o]
          BY <4>2, <4>3, <5>1
        <5>4. QED  BY <2>3, <3>1, <4>1, <5>2, <5>3 DEF Knows
      <4>4. CASE /\ es[e].status = "advertised" /\ was # info
                 /\ SinkChanged(es, with, e, i, info) /\ Applied(with, r, e, i, was, info)
        <5>1. with[x].status = "advertised" /\ with[x].listeners = es[x].listeners
          BY <2>1, <4>4 DEF SinkChanged
        <5>2. s \in r[x].listeners[o] <=>
                IF was.talker = info.talker THEN s \in es[x].listeners[o]
                ELSE IF info.talker = <<x, o>> /\ info.state = "Connected" THEN TRUE
                ELSE was.talker # <<x, o>> /\ s \in es[x].listeners[o]
          <6>1. s \in r[x].listeners[o] <=> KnownAnew(with, <<e, i>>, was, info, x, o, s)
            BY <2>1, <4>4 DEF Applied
          <6>2. QED  BY <3>1, <5>1, <6>1 DEF KnownAnew
        <5>3. s \in r[x].listeners[o] => info = Connected(<<x, o>>)
          BY <3>3, <3>4, <5>2
        <5>4. info = Connected(<<x, o>>) => s \in r[x].listeners[o]
          <6>1. info = Connected(<<x, o>>) => info.state = "Connected" /\ info.talker = <<x, o>>
            BY DEF Connected
          <6>2. QED  BY <3>3, <4>4, <5>2, <6>1
        <5>5. QED  BY <2>3, <3>1, <4>1, <5>3, <5>4 DEF Knows
      <4>5. QED  BY <3>6, <4>3, <4>4 DEF NotifiedAs
    <3>7. QED  BY <3>5, <3>6 DEF NotifiedAs
  <2>6. QED  BY <2>4, <2>5
<1>5. QED
  BY <1>3, <1>4 DEF Knowing

\* The transitions of a connection are those the code expects.
LEMMA TransitionIsSupported ==
  ASSUME NEW was \in Infos, NEW info \in Infos, was # info
  PROVE  Supported(was, info)
<1>1. CASE "FastConnecting" \in {was.state, info.state}
  BY <1>1 DEF Supported
<1>2. CASE was.state # "FastConnecting" /\ info.state # "FastConnecting"
  <2>1. was.state \in {"NotConnected", "Connected"} /\ info.state \in {"NotConnected", "Connected"}
    BY <1>2, ConnectedIs
  <2>2. was.state = "NotConnected" /\ info.state = "NotConnected" => FALSE
    BY ConnectedIs
  <2>3. was.state = "Connected" /\ info.state = "Connected" => was.talker # info.talker
    <3>1. /\ was = [state |-> was.state, talker |-> was.talker]
          /\ info = [state |-> info.state, talker |-> info.talker]
      BY ConnectedIs
    <3>2. QED  BY <3>1
  <2>4. QED  BY <2>1, <2>2, <2>3 DEF Supported
<1>3. QED
  BY <1>1, <1>2

LEMMA ListenerKeeps ==
  ASSUME Invariant, NEW sink \in Sinks, NEW talker \in Sources \cup {None}, NEW connected \in BOOLEAN,
         NEW fast \in BOOLEAN, connected => talker # None, Listener(sink, talker, connected, fast)
  PROVE  Invariant'
<1>1. PICK e \in Entities, i \in Inputs : sink = <<e, i>>
  BY DEF Sinks
<1>2. PICK es \in Everybody : es = entities
  BY DEF Invariant, Typing
<1>3. PICK was \in Infos : was = es[e].sink[i]
  BY TalkerIs
<1>4. PICK info \in Infos : info = ConnectionInfo(talker, connected, fast)
  BY InfoTyped
<1>5. PICK r : r = ListenerNotified(es, <<e, i>>, talker, connected, fast)
  OBVIOUS
<1>6. PICK exempt, strange :
        /\ exempt = legacy \cup {s \in {sink} : info.state = "FastConnecting"}
        /\ strange = strays \cup LeftUnknown(e, {sink}, info.talker)
  OBVIOUS
<1>7. /\ entities' = r /\ expected' = None /\ legacy' = exempt /\ strays' = strange
      /\ UNCHANGED <<setting, outdated>>
      /\ failed' = failed \cup {f \in {"Unsupported connection transition"} : was # info /\ ~Supported(was, info)}
      /\ Follows(sink, talker, connected)
  BY <1>1, <1>2, <1>3, <1>4, <1>5, <1>6 DEF Listener
<1>8. /\ Accounted(es, expected, legacy, strays, outdated) /\ expected \in Expectations
      /\ legacy \subseteq Sinks /\ strays \subseteq Sources \X Sinks
  BY <1>2 DEF Invariant, Typing
<1>9. failed' \subseteq {"Failed to find ChannelConnection"}
  BY <1>7, TransitionIsSupported DEF Invariant
<1>10. Notified(es, r, e, i, was, info)
  BY <1>3, <1>4, <1>5, NotifiedIs
<1>11. PICK with : NotifiedAs(es, r, with, e, i, was, info)
  BY <1>3, <1>8, <1>10, NotifiedCases DEF Accounted
<1>12. legacy \subseteq exempt /\ (info.state = "FastConnecting" => <<e, i>> \in exempt)
  BY <1>1, <1>6
<1>13. Plainly(r, exempt) /\ Feeding(r, outdated, exempt) /\ Linking(r, exempt)
  BY <1>3, <1>8, <1>11, <1>12, NotifiedPlain, NotifiedFeeds, NotifiedLinks DEF Accounted
<1>14. Knowing(r, None, exempt, strange)
  <2>1. strays \subseteq strange
    BY <1>6
  <2>2. Answers(expected, <<e, i>>, info)
    <3>1. info.state = "Connected" <=> connected
      BY <1>4, InfoTyped
    <3>2. QED  BY <1>1, <1>7, <3>1 DEF Follows, Answers
  <2>3. ASSUME NEW x \in Advertised(es), NEW o \in Outputs,
               <<x, o>> # info.talker, <<e, i>> \in es[x].listeners[o],
               es[e].status = "enumerating" \/ was # Connected(<<x, o>>)
        PROVE  <<<<x, o>>, <<e, i>>>> \in strange
    <3>1. PICK link \in Sources \X {sink} : link = <<<<x, o>>, sink>>
      BY DEF Sources, Advertised
    <3>2. link[1] = <<x, o>> /\ link[2] = <<e, i>> /\ link[1][1] = x /\ link[1][2] = o /\ link[2][2] = i
      BY <1>1, <3>1
    <3>3. link \in LeftUnknown(e, {sink}, info.talker)
      BY <1>1, <1>2, <1>3, <2>3, <3>1, <3>2 DEF LeftUnknown, Connected
    <3>4. QED  BY <1>1, <1>6, <3>1, <3>3
  <2>4. Unaware(es, e, i, info, strange)
    BY <1>3, <2>3 DEF Unaware
  <2>5. Plainly(es, legacy) /\ Expected(es, expected) /\ Knowing(es, expected, legacy, strays)
    BY <1>8 DEF Accounted
  <2>6. QED  BY <1>3, <1>11, <1>12, <2>1, <2>2, <2>4, <2>5, NotifiedKnows
<1>15. r \in Everybody
  BY <1>11, NotifiedElse DEF Elsewhere
<1>16. Accounted(r, None, exempt, strange, outdated)
  BY <1>13, <1>14 DEF Accounted, Expected
<1>17. exempt \subseteq Sinks /\ strange \subseteq Sources \X Sinks
  <2>1. LeftUnknown(e, {sink}, info.talker) \subseteq Sources \X Sinks
    BY DEF LeftUnknown
  <2>2. QED  BY <1>6, <1>8, <2>1
<1>18. QED
  BY <1>7, <1>9, <1>15, <1>16, <1>17 DEF Invariant, Typing, Expectations

\* A talker answers before its listener, which is awaited then.
AnswersFirst(es, mid, e, i, talker, connected) ==
  \/ mid = es /\ es \in Everybody /\ (connected \/ es[e].sink[i].talker = talker)
  \/ connected /\ Elsewhere(es, mid, e, i, Connected(talker))

LEMMA TalkerKnows ==
  ASSUME NEW es \in Everybody, NEW old, NEW known, NEW mid, NEW r,
         NEW e \in Entities, NEW i \in Inputs, NEW talker \in Sources, NEW connected \in BOOLEAN, NEW exp,
         Knowing(es, None, old, known), es[e].status # "offline",
         AnswersFirst(es, mid, e, i, talker, connected), IsTold(mid, r, talker, <<e, i>>, connected),
         Awaited(exp, <<e, i>>, connected)
  PROVE  Knowing(r, exp, old, known)
<1>1. PICK sink \in Sinks : sink = <<e, i>>
  BY DEF Sinks
<1>2. /\ mid \in Everybody
      /\ \A x \in Entities : mid[x].status = es[x].status
      /\ \A x \in Entities, j \in Inputs : <<x, j>> # <<e, i>> => mid[x].sink[j] = es[x].sink[j]
      /\ \A x \in Entities, o \in Outputs, s \in Sinks :
           s # <<e, i>> => (s \in mid[x].listeners[o] <=> s \in es[x].listeners[o])
  BY DEF Elsewhere, AnswersFirst
<1>3. \A x \in Entities : r[x].status = mid[x].status /\ r[x].sink = mid[x].sink
  BY DEF IsTold, SameDevices, SameDevice
<1>4. Advertised(r) = Advertised(es)
  BY <1>2, <1>3 DEF Advertised
<1>5. exp # None /\ exp.sink = sink /\ exp.connected = connected
  BY <1>1 DEF Awaited
<1>6. ASSUME NEW x \in Advertised(es), NEW o \in Outputs, NEW s \in Sinks \ old,
             s[1] # x, <<<<x, o>>, s>> \notin known
      PROVE  Knows(r, exp, x, o, s)
  <2>1. x \in Entities /\ es[x].status = "advertised" /\ <<x, o>> \in Sources /\ s[1] \in Entities /\ s[2] \in Inputs
    BY DEF Advertised, Sources, Sinks
  <2>2. /\ s \in es[x].listeners[o] => es[s[1]].sink[s[2]] = Connected(<<x, o>>)
        /\ es[s[1]].status = "advertised" =>
             (es[s[1]].sink[s[2]] = Connected(<<x, o>>) => s \in es[x].listeners[o])
    <3>1. Knows(es, None, x, o, s)
      BY <1>6 DEF Knowing
    <3>2. QED  BY <3>1 DEF Knows, Awaited
  <2>3. s \in r[x].listeners[o] <=>
          IF talker = <<x, o>> /\ s = sink THEN connected ELSE s \in mid[x].listeners[o]
    BY <1>1, <1>2, <2>1 DEF IsTold
  <2>4. r[s[1]].status = es[s[1]].status /\ r[s[1]].sink[s[2]] = mid[s[1]].sink[s[2]]
    BY <1>2, <1>3, <2>1
  <2>5. CASE s # sink
    <3>1. <<s[1], s[2]>> # <<e, i>>
      BY <1>1, <2>5 DEF Sinks
    <3>2. mid[s[1]].sink[s[2]] = es[s[1]].sink[s[2]] /\ (s \in mid[x].listeners[o] <=> s \in es[x].listeners[o])
      BY <1>1, <1>2, <2>1, <2>5, <3>1
    <3>3. QED  BY <2>2, <2>3, <2>4, <2>5, <3>2 DEF Knows
  <2>6. CASE s = sink
    <3>1. s[1] = e /\ s[2] = i
      BY <1>1, <2>6
    <3>2. CASE connected
      <4>1. Awaited(exp, s, TRUE)
        BY <1>5, <2>6, <3>2 DEF Awaited
      <4>2. ASSUME es[e].status = "advertised", mid[e].sink[i] = Connected(<<x, o>>)
            PROVE  s \in r[x].listeners[o]
        <5>1. CASE mid = es
          BY <2>2, <2>3, <3>1, <3>2, <4>2, <5>1
        <5>2. CASE Elsewhere(es, mid, e, i, Connected(talker))
          <6>1. Connected(talker) = Connected(<<x, o>>)
            BY <4>2, <5>2 DEF Elsewhere
          <6>2. talker = <<x, o>>
            BY <6>1 DEF Connected
          <6>3. QED  BY <2>3, <2>6, <3>2, <6>2
        <5>3. QED  BY <5>1, <5>2 DEF AnswersFirst
      <4>3. QED  BY <2>4, <3>1, <4>1, <4>2 DEF Knows
    <3>3. CASE ~connected
      <4>1. Awaited(exp, s, FALSE) /\ mid = es /\ es[e].sink[i].talker = talker
        BY <1>5, <2>6, <3>3 DEF Awaited, AnswersFirst
      <4>2. s \in r[x].listeners[o] => r[s[1]].sink[s[2]] = Connected(<<x, o>>)
        BY <2>2, <2>3, <2>4, <2>6, <3>3, <4>1
      <4>3. QED  BY <4>1, <4>2 DEF Knows
    <3>4. QED  BY <3>2, <3>3
  <2>7. QED  BY <2>5, <2>6
<1>7. QED
  BY <1>4, <1>6 DEF Knowing

LEMMA TalkerKeeps ==
  ASSUME Invariant, NEW sink \in Sinks, NEW talker \in Sources, NEW connected \in BOOLEAN, NEW fast \in BOOLEAN,
         fast => connected, connected \/ entities[sink[1]].sink[sink[2]].talker = talker,
         Talker(talker, sink, connected, fast)
  PROVE  Invariant'
<1>1. PICK e \in Entities, i \in Inputs : sink = <<e, i>>
  BY DEF Sinks
<1>2. PICK es \in Everybody : es = entities
  BY DEF Invariant, Typing
<1>3. PICK mid : mid = IF fast THEN ListenerNotified(es, <<e, i>>, talker, connected, TRUE) ELSE es
  OBVIOUS
<1>4. PICK r : r = TalkerTold(mid, talker, <<e, i>>, connected)
  OBVIOUS
<1>5. PICK exp \in Expectations : exp = [sink |-> <<e, i>>, talker |-> talker, connected |-> connected]
  BY <1>1 DEF Expectations
<1>6. /\ entities' = r /\ expected' = exp /\ expected = None /\ es[e].status # "offline"
      /\ UNCHANGED <<setting, legacy, strays, outdated, failed>>
  BY <1>1, <1>2, <1>3, <1>4, <1>5 DEF Talker, TalkerNotified
<1>7. Accounted(es, None, legacy, strays, outdated)
  BY <1>2, <1>6 DEF Invariant
<1>8. Awaited(exp, <<e, i>>, connected)
  <2>1. exp \in [sink : Sinks, talker : Sources, connected : BOOLEAN]
    BY <1>1, <1>5
  <2>2. exp # None
    BY <2>1, ConstantsAssumption
  <2>3. QED  BY <1>5, <2>2 DEF Awaited
<1>9. CASE fast
  <2>1. PICK info \in Infos : info = ConnectionInfo(talker, connected, TRUE)
    BY InfoTyped
  <2>2. info = Connected(talker) /\ info.state = "Connected"
    <3>1. talker # None
      BY ConstantsAssumption
    <3>2. QED  BY <1>9, <2>1, <3>1, InfoTyped
  <2>3. PICK was \in Infos : was = es[e].sink[i]
    BY TalkerIs
  <2>4. Notified(es, mid, e, i, was, info)
    BY <1>3, <1>9, <2>1, <2>3, NotifiedIs
  <2>5. PICK with : NotifiedAs(es, mid, with, e, i, was, info)
    BY <1>7, <2>3, <2>4, NotifiedCases DEF Accounted
  <2>6. Plainly(mid, legacy) /\ Feeding(mid, outdated, legacy) /\ Linking(mid, legacy)
    <3>1. legacy \subseteq legacy /\ (info.state = "FastConnecting" => <<e, i>> \in legacy)
      BY <2>2
    <3>2. QED  BY <1>7, <2>3, <2>5, <3>1, NotifiedPlain, NotifiedFeeds, NotifiedLinks DEF Accounted
  <2>7. Elsewhere(es, mid, e, i, info) /\ mid \in Everybody
    BY <2>5, NotifiedElse DEF Elsewhere
  <2>8. IsTold(mid, r, talker, <<e, i>>, connected)
    BY <1>1, <1>4, <2>7, TalkerToldIs
  <2>9. Plainly(r, legacy) /\ Feeding(r, outdated, legacy) /\ Linking(r, legacy)
    BY <2>6, <2>7, <2>8, ToldKeeps
  <2>10. Elsewhere(es, mid, e, i, Connected(talker))
    BY <2>2, <2>7
  <2>11. Knowing(r, exp, legacy, strays)
    <3>1. AnswersFirst(es, mid, e, i, talker, connected)
      BY <1>9, <2>10 DEF AnswersFirst
    <3>2. Knowing(es, None, legacy, strays)
      BY <1>7 DEF Accounted
    <3>3. QED  BY <1>6, <1>8, <2>8, <3>1, <3>2, TalkerKnows
  <2>12. r \in Everybody /\ r[e].status = es[e].status
    BY <2>7, <2>8 DEF Elsewhere, IsTold, SameDevices, SameDevice
  <2>13. Expected(r, exp)
    BY <1>5, <1>6, <2>12 DEF Expected
  <2>14. Accounted(r, exp, legacy, strays, outdated)
    BY <2>9, <2>11, <2>13 DEF Accounted
  <2>15. QED  BY <1>6, <2>12, <2>14 DEF Invariant, Typing
<1>10. CASE ~fast
  <2>1. mid = es
    BY <1>3, <1>10
  <2>2. IsTold(mid, r, talker, <<e, i>>, connected)
    BY <1>1, <1>4, <2>1, TalkerToldIs
  <2>3. Plainly(r, legacy) /\ Feeding(r, outdated, legacy) /\ Linking(r, legacy)
    BY <1>7, <2>1, <2>2, ToldKeeps DEF Accounted
  <2>4. connected \/ es[e].sink[i].talker = talker
    BY <1>1, <1>2
  <2>5. Knowing(r, exp, legacy, strays)
    <3>1. AnswersFirst(es, mid, e, i, talker, connected)
      BY <2>1, <2>4 DEF AnswersFirst
    <3>2. Knowing(es, None, legacy, strays)
      BY <1>7 DEF Accounted
    <3>3. QED  BY <1>6, <1>8, <2>2, <3>1, <3>2, TalkerKnows
  <2>6. r \in Everybody /\ r[e].status = es[e].status
    BY <2>1, <2>2 DEF IsTold, SameDevices, SameDevice
  <2>7. Expected(r, exp)
    BY <1>5, <1>6, <2>6 DEF Expected
  <2>8. Accounted(r, exp, legacy, strays, outdated)
    BY <2>3, <2>5, <2>7 DEF Accounted
  <2>9. QED  BY <1>6, <2>6, <2>8 DEF Invariant, Typing
<1>11. QED
  BY <1>9, <1>10

-----------------------------------------------------------------------------
(* An entity that is advertised                                              *)

\* What the others learn of it, and it of them.
ComesFrom(es, r, e, others) ==
  /\ r \in Everybody /\ SameDevices(es, r)
  /\ r[e].over = es[e].over /\ r[e].chain = es[e].chain /\ r[e].fed = es[e].fed
  /\ \A x \in Entities \ {e} : r[x].listeners = es[x].listeners
  /\ \A o \in Outputs, s \in Sinks :
       s \in r[e].listeners[o] <=>
         s \in es[e].listeners[o] \/ (s[1] \in others /\ es[s[1]].sink[s[2]] = Connected(<<e, o>>))
  /\ \A x \in others :
       /\ \A i \in r[x].over : i \in es[x].over \/ es[x].sink[i].state = "Connected"
       /\ r[x].chain = ContinuedFrom(es, others \cup {e}, es[x].chain, LastNode(es[x].chain, e, "EntityOffline"))
       /\ r[x].fed = [k \in Clusters |-> FedByEntity(es, es[x].fed[k], e)]
  /\ \A x \in Entities : x \notin others \cup {e} => r[x] = es[x]

LEMMA TalkerComesIs ==
  ASSUME NEW es \in Everybody, NEW e \in Entities, NEW others, others = Advertised(es) \ {e},
         \A x \in others : es[x].fed \in [Clusters -> Feds]
  PROVE  ComesFrom(es, TalkerComes(es, e), e, others)
<1> DEFINE To(x, o) == {i \in Inputs : es[x].sink[i] = [state |-> "Connected", talker |-> <<e, o>>]}
           late(x) == (es[x].over \ UNION {To(x, o) : o \in Outputs}) \cup
                      {i \in UNION {To(x, o) : o \in Outputs} : IsOver(es, es[x].latency[i], es[x].sink[i].talker)}
           chain(x) == ContinuedFrom(es, others \cup {e}, es[x].chain, LastNode(es[x].chain, e, "EntityOffline"))
           fed(x) == [k \in DOMAIN es[x].fed |-> FedByEntity(es, es[x].fed[k], e)]
           found == [o \in Outputs |-> es[e].listeners[o] \cup UNION {{<<y, i>> : i \in To(y, o)} : y \in others}]
<1>1. PICK r : r = TalkerComes(es, e)
  OBVIOUS
<1>2. r = [x \in Entities |->
             IF x = e THEN [es[e] EXCEPT !.listeners = found]
             ELSE IF x \in others THEN [es[x] EXCEPT !.over = late(x), !.chain = chain(x), !.fed = fed(x)]
             ELSE es[x]]
  BY <1>1 DEF TalkerComes
<1>3. others \in SUBSET Entities /\ e \notin others
  BY DEF Advertised
<1>4. ASSUME NEW o \in Outputs, NEW s \in Sinks
      PROVE  s \in found[o] <=>
               s \in es[e].listeners[o] \/ (s[1] \in others /\ es[s[1]].sink[s[2]] = Connected(<<e, o>>))
  <2>1. PICK y \in Entities, i \in Inputs : s = <<y, i>>
    BY DEF Sinks
  <2>2. found[o] = es[e].listeners[o] \cup UNION {{<<z, j>> : j \in To(z, o)} : z \in others}
    OBVIOUS
  <2>3. y \in others /\ i \in To(y, o) => s \in found[o]
    BY <2>1, <2>2
  <2>4. ASSUME s \in UNION {{<<z, j>> : j \in To(z, o)} : z \in others}
        PROVE  y \in others /\ i \in To(y, o)
    <3>1. PICK z \in others : s \in {<<z, j>> : j \in To(z, o)}
      BY <2>4
    <3>2. PICK j \in To(z, o) : s = <<z, j>>
      BY <3>1
    <3>3. QED  BY <2>1, <3>2
  <2>5. i \in To(y, o) <=> es[y].sink[i] = Connected(<<e, o>>)
    BY DEF Connected
  <2>6. QED  BY <2>1, <2>2, <2>3, <2>4, <2>5
<1>5. found \in [Outputs -> SUBSET Sinks]
  <2>1. ASSUME NEW o \in Outputs
        PROVE  found[o] \in SUBSET Sinks
    <3>1. es[e].listeners[o] \in SUBSET Sinks
      BY DEF Everybody, Controlled
    <3>2. QED  BY <1>3, <3>1 DEF Sinks
  <2>2. QED  BY <2>1
<1>6. ASSUME NEW x \in others
      PROVE  /\ late(x) \in SUBSET Inputs
             /\ \A i \in late(x) : i \in es[x].over \/ es[x].sink[i].state = "Connected"
  <2>1. es[x].over \in SUBSET Inputs
    BY <1>3 DEF Everybody, Controlled
  <2>2. PICK all : all = UNION {To(x, o) : o \in Outputs}
    OBVIOUS
  <2>3. ASSUME NEW i \in all
        PROVE  i \in Inputs /\ es[x].sink[i].state = "Connected"
    <3>1. PICK o \in Outputs : i \in To(x, o)
      BY <2>2
    <3>2. QED  BY <3>1
  <2>4. late(x) = (es[x].over \ all) \cup {i \in all : IsOver(es, es[x].latency[i], es[x].sink[i].talker)}
    BY <2>2
  <2>5. QED  BY <2>1, <2>3, <2>4
<1>7. ASSUME NEW x \in others
      PROVE  chain(x) \in Seq(Nodes)
  <2>1. es[x].chain \in Seq(Nodes)
    BY <1>3 DEF Everybody, Controlled
  <2>2. LastNode(es[x].chain, e, "EntityOffline") \in SUBSET DOMAIN es[x].chain
    BY DEF LastNode, NodesOf
  <2>3. others \cup {e} \in SUBSET Entities
    BY <1>3
  <2>4. QED  BY <2>1, <2>2, <2>3, ContinuedTyped
<1>8. ASSUME NEW x \in others
      PROVE  fed(x) \in [Clusters -> Feds] /\ fed(x) = [k \in Clusters |-> FedByEntity(es, es[x].fed[k], e)]
  <2>1. es[x].fed \in [Clusters -> Feds]
    OBVIOUS
  <2>2. \A k \in Clusters : FedByEntity(es, es[x].fed[k], e) \in Feds
    BY <2>1, FedByEntityTyped
  <2>3. QED  BY <2>1, <2>2
<1> HIDE DEF late, chain, fed, found, To
<1>9. ASSUME NEW x \in Entities
      PROVE  /\ r[x] \in Controlled /\ SameDevice(es[x], r[x])
             /\ r[x].over = IF x \in others THEN late(x) ELSE es[x].over
             /\ r[x].chain = IF x \in others THEN chain(x) ELSE es[x].chain
             /\ r[x].fed = IF x \in others THEN fed(x) ELSE es[x].fed
             /\ r[x].listeners = IF x = e THEN found ELSE es[x].listeners
             /\ x \notin others \cup {e} => r[x] = es[x]
  <2>1. PICK b \in Controlled : b = es[x]
    BY DEF Everybody
  <2>2. CASE x = e
    <3>1. PICK d : d = [b EXCEPT !.listeners = found]
      OBVIOUS
    <3>2. /\ d \in Controlled /\ SameDevice(b, d) /\ d.listeners = found
          /\ d.over = b.over /\ d.chain = b.chain /\ d.fed = b.fed
      BY <1>5, <3>1 DEF Controlled, SameDevice
    <3>3. QED  BY <1>2, <1>3, <2>1, <2>2, <3>1, <3>2
  <2>3. CASE x \in others
    <3>1. PICK d : d = [b EXCEPT !.over = late(x), !.chain = chain(x), !.fed = fed(x)]
      OBVIOUS
    <3>2. /\ d \in Controlled /\ SameDevice(b, d) /\ d.listeners = b.listeners
          /\ d.over = late(x) /\ d.chain = chain(x) /\ d.fed = fed(x)
      BY <1>6, <1>7, <1>8, <2>3, <3>1 DEF Controlled, SameDevice
    <3>3. QED  BY <1>2, <1>3, <2>1, <2>3, <3>1, <3>2
  <2>4. CASE x \notin others \cup {e}
    BY <1>2, <2>1, <2>4 DEF SameDevice
  <2>5. QED  BY <2>2, <2>3, <2>4
<1>10. r \in Everybody
  <2>1. r = [x \in Entities |-> r[x]]
    BY <1>2
  <2>2. QED  BY <1>9, <2>1 DEF Everybody
<1>11. ComesFrom(es, r, e, others)
  <2>1. SameDevices(es, r)
    BY <1>9 DEF SameDevices
  <2>2. /\ r[e].over = es[e].over /\ r[e].chain = es[e].chain /\ r[e].fed = es[e].fed /\ r[e].listeners = found
        /\ \A x \in Entities \ {e} : r[x].listeners = es[x].listeners
        /\ \A x \in Entities : x \notin others \cup {e} => r[x] = es[x]
    BY <1>3, <1>9
  <2>3. ASSUME NEW x \in others
        PROVE  /\ \A i \in r[x].over : i \in es[x].over \/ es[x].sink[i].state = "Connected"
               /\ r[x].chain = ContinuedFrom(es, others \cup {e}, es[x].chain, LastNode(es[x].chain, e, "EntityOffline"))
               /\ r[x].fed = [k \in Clusters |-> FedByEntity(es, es[x].fed[k], e)]
    <3>1. r[x].over = late(x) /\ r[x].chain = chain(x) /\ r[x].fed = fed(x)
      BY <1>3, <1>9
    <3>2. chain(x) = ContinuedFrom(es, others \cup {e}, es[x].chain, LastNode(es[x].chain, e, "EntityOffline"))
      BY DEF chain
    <3>3. QED  BY <1>6, <1>8, <3>1, <3>2
  <2>4. \A o \in Outputs, s \in Sinks :
          s \in r[e].listeners[o] <=>
            s \in es[e].listeners[o] \/ (s[1] \in others /\ es[s[1]].sink[s[2]] = Connected(<<e, o>>))
    BY <1>4, <2>2
  <2>5. QED  BY <1>10, <2>1, <2>2, <2>3, <2>4 DEF ComesFrom
<1>12. QED
  BY <1>1, <1>11

Came(es, r, e) ==
  /\ r \in Everybody
  /\ \A x \in Entities :
       /\ r[x].status = IF x = e THEN "advertised" ELSE es[x].status
       /\ r[x].sink = es[x].sink /\ r[x].clock = es[x].clock
       /\ r[x].inputMap = es[x].inputMap /\ r[x].outputMap = es[x].outputMap
       /\ \A i \in r[x].over : i \in es[x].over \/ es[x].sink[i].state = "Connected"
  /\ \A x \in Entities \ {e}, o \in Outputs, s \in Sinks :
       s \in r[x].listeners[o] <=>
         \/ s \in es[x].listeners[o]
         \/ es[x].status = "advertised" /\ s[1] = e /\ es[e].sink[s[2]] = Connected(<<x, o>>)
  /\ \A o \in Outputs, s \in Sinks :
       s \in r[e].listeners[o] <=>
         \/ s \in es[e].listeners[o]
         \/ s[1] \in Advertised(es) /\ es[s[1]].sink[s[2]] = Connected(<<e, o>>)
  /\ r[e].chain = WholeChain(es, Advertised(es) \cup {e}, e)
  /\ r[e].fed = [k \in Clusters |-> FedByMapping(es, e, Unmapped, es[e].inputMap[k])]
  /\ \E at \in Everybody :
       /\ SameDevices(es, at)
       /\ \A x \in Advertised(es) :
            /\ r[x].chain = ContinuedFrom(at, Advertised(es) \cup {e}, es[x].chain,
                                          LastNode(es[x].chain, e, "EntityOffline"))
            /\ r[x].fed = [k \in Clusters |-> FedByEntity(at, es[x].fed[k], e)]
  /\ \A x \in Entities : x \notin Advertised(es) \cup {e} => r[x] = es[x]

LEMMA CameIs ==
  ASSUME NEW es \in Everybody, NEW old, Plainly(es, old), NEW e \in Entities, es[e].status = "enumerating"
  PROVE  Came(es, PreAdvertised(es, e), e)
<1>1. PICK at : at = ListenerComes(es, e)
  OBVIOUS
<1>2. ComesTo(es, at, e)
  BY <1>1, ListenerComesIs
<1>3. PICK others : others = Advertised(es)
  OBVIOUS
<1>4. at \in Everybody /\ SameDevices(es, at) /\ Advertised(at) = others
  BY <1>2, <1>3, SameAdvertised DEF ComesTo
<1>5. e \notin others /\ others \in SUBSET Entities /\ Advertised(at) \ {e} = others
  BY <1>3, <1>4 DEF Advertised
<1>6. \A x \in others : at[x].fed = es[x].fed /\ at[x].chain = es[x].chain /\ at[x].over = es[x].over
  BY <1>2, <1>5 DEF ComesTo
<1>7. \A x \in others : at[x].fed \in [Clusters -> Feds]
  BY <1>3, <1>6 DEF Plainly, Plain, Advertised
<1>8. PICK mid : mid = TalkerComes(at, e)
  OBVIOUS
<1>9. ComesFrom(at, mid, e, others)
  BY <1>4, <1>5, <1>7, <1>8, TalkerComesIs
<1>10. PICK b \in Controlled : b = mid[e]
  BY <1>9 DEF ComesFrom, Everybody
<1>11. PICK d : d = [b EXCEPT !.status = "advertised"]
  OBVIOUS
<1>12. PICK r : r = [mid EXCEPT ![e] = d]
  OBVIOUS
<1>13. r = PreAdvertised(es, e)
  BY <1>1, <1>8, <1>10, <1>11, <1>12 DEF PreAdvertised
<1>14. /\ d \in Controlled /\ d.status = "advertised" /\ d.sink = b.sink /\ d.clock = b.clock
       /\ d.inputMap = b.inputMap /\ d.outputMap = b.outputMap /\ d.listeners = b.listeners
       /\ d.chain = b.chain /\ d.over = b.over /\ d.fed = b.fed
  BY <1>11 DEF Controlled
<1>15. r \in Everybody /\ \A x \in Entities : r[x] = IF x = e THEN d ELSE mid[x]
  BY <1>9, <1>12, <1>14 DEF ComesFrom, Everybody
<1>16. \A x \in Entities :
         /\ r[x].status = IF x = e THEN "advertised" ELSE mid[x].status
         /\ r[x].sink = mid[x].sink /\ r[x].clock = mid[x].clock
         /\ r[x].inputMap = mid[x].inputMap /\ r[x].outputMap = mid[x].outputMap
         /\ r[x].listeners = mid[x].listeners /\ r[x].chain = mid[x].chain
         /\ r[x].over = mid[x].over /\ r[x].fed = mid[x].fed
  BY <1>10, <1>14, <1>15
<1>17. ASSUME NEW x \in Entities
       PROVE  /\ r[x].status = IF x = e THEN "advertised" ELSE es[x].status
              /\ r[x].sink = es[x].sink /\ r[x].clock = es[x].clock
              /\ r[x].inputMap = es[x].inputMap /\ r[x].outputMap = es[x].outputMap
  <2>1. SameDevice(es[x], at[x]) /\ SameDevice(at[x], mid[x])
    BY <1>4, <1>9 DEF ComesFrom, SameDevices
  <2>2. QED  BY <1>16, <2>1 DEF SameDevice
<1>18. ASSUME NEW x \in Entities
       PROVE  x \notin others \cup {e} => r[x] = es[x]
  <2>1. SUFFICES ASSUME x \notin others, x # e
                 PROVE  r[x] = es[x]
    OBVIOUS
  <2>2. r[x] = mid[x] /\ mid[x] = at[x]
    BY <1>9, <1>15, <2>1 DEF ComesFrom
  <2>3. /\ SameDevice(es[x], at[x]) /\ at[x] \in Controlled /\ es[x] \in Controlled
        /\ at[x].chain = es[x].chain /\ at[x].over = es[x].over /\ at[x].fed = es[x].fed
    BY <1>2, <2>1 DEF ComesTo, SameDevices, Everybody
  <2>4. at[x].listeners = es[x].listeners
    <3>1. es[x].status # "advertised"
      BY <1>3, <2>1 DEF Advertised
    <3>2. \A o \in Outputs, s \in Sinks : s \in at[x].listeners[o] <=> s \in es[x].listeners[o]
      BY <1>2, <2>1, <3>1 DEF ComesTo
    <3>3. QED  BY <2>3, <3>2, NobodyNew
  <2>5. at[x] = es[x]
    BY <2>3, <2>4, SameRecord
  <2>6. QED  BY <2>2, <2>5
<1>19. ASSUME NEW x \in Entities, NEW i \in r[x].over
       PROVE  i \in es[x].over \/ es[x].sink[i].state = "Connected"
  <2>1. CASE x = e
    BY <1>2, <1>9, <1>16, <2>1 DEF ComesTo, ComesFrom
  <2>2. CASE x \in others
    <3>1. i \in at[x].over \/ at[x].sink[i].state = "Connected"
      <4>1. i \in mid[x].over
        BY <1>16
      <4>2. \A j \in mid[x].over : j \in at[x].over \/ at[x].sink[j].state = "Connected"
        BY <1>9, <2>2 DEF ComesFrom
      <4>3. QED  BY <4>1, <4>2
    <3>2. at[x].sink = es[x].sink
      BY <1>4 DEF SameDevices, SameDevice
    <3>3. QED  BY <1>6, <2>2, <3>1, <3>2
  <2>3. CASE x \notin others \cup {e}
    BY <1>18, <2>3
  <2>4. QED  BY <2>1, <2>2, <2>3
<1>20. ASSUME NEW x \in Entities \ {e}, NEW o \in Outputs, NEW s \in Sinks
       PROVE  s \in r[x].listeners[o] <=>
                \/ s \in es[x].listeners[o]
                \/ es[x].status = "advertised" /\ s[1] = e /\ es[e].sink[s[2]] = Connected(<<x, o>>)
  <2>1. r[x].listeners = at[x].listeners
    BY <1>9, <1>16 DEF ComesFrom
  <2>2. QED  BY <1>2, <2>1 DEF ComesTo
<1>21. ASSUME NEW o \in Outputs, NEW s \in Sinks
       PROVE  s \in r[e].listeners[o] <=>
                \/ s \in es[e].listeners[o]
                \/ s[1] \in others /\ es[s[1]].sink[s[2]] = Connected(<<e, o>>)
  <2>1. r[e].listeners = mid[e].listeners /\ at[e].listeners = es[e].listeners
    BY <1>2, <1>16 DEF ComesTo
  <2>2. s[1] \in others => at[s[1]].sink = es[s[1]].sink
    BY <1>4, <1>5 DEF SameDevices, SameDevice
  <2>3. s \in mid[e].listeners[o] <=>
          s \in at[e].listeners[o] \/ (s[1] \in others /\ at[s[1]].sink[s[2]] = Connected(<<e, o>>))
    BY <1>9 DEF ComesFrom
  <2>4. QED  BY <2>1, <2>2, <2>3
<1>22. /\ r[e].chain = WholeChain(es, others \cup {e}, e)
       /\ r[e].fed = [k \in Clusters |-> FedByMapping(es, e, Unmapped, es[e].inputMap[k])]
  BY <1>2, <1>3, <1>9, <1>16 DEF ComesTo, ComesFrom
<1>23. ASSUME NEW x \in others
       PROVE  /\ r[x].chain = ContinuedFrom(at, others \cup {e}, es[x].chain, LastNode(es[x].chain, e, "EntityOffline"))
              /\ r[x].fed = [k \in Clusters |-> FedByEntity(at, es[x].fed[k], e)]
  <2>1. x \in Entities /\ at[x].chain = es[x].chain /\ at[x].fed = es[x].fed
    BY <1>5, <1>6
  <2>2. /\ mid[x].chain = ContinuedFrom(at, others \cup {e}, at[x].chain, LastNode(at[x].chain, e, "EntityOffline"))
        /\ mid[x].fed = [k \in Clusters |-> FedByEntity(at, at[x].fed[k], e)]
    BY <1>9 DEF ComesFrom
  <2>3. QED  BY <1>16, <2>1, <2>2
<1>24. Came(es, r, e)
  <2>1. \E a \in Everybody :
          /\ SameDevices(es, a)
          /\ \A x \in others :
               /\ r[x].chain = ContinuedFrom(a, others \cup {e}, es[x].chain,
                                             LastNode(es[x].chain, e, "EntityOffline"))
               /\ r[x].fed = [k \in Clusters |-> FedByEntity(a, es[x].fed[k], e)]
    BY <1>4, <1>23
  <2>2. \A x \in Entities \ {e}, o \in Outputs, s \in Sinks :
          s \in r[x].listeners[o] <=>
            \/ s \in es[x].listeners[o]
            \/ es[x].status = "advertised" /\ s[1] = e /\ es[e].sink[s[2]] = Connected(<<x, o>>)
    BY <1>20
  <2>3. \A o \in Outputs, s \in Sinks :
          s \in r[e].listeners[o] <=>
            \/ s \in es[e].listeners[o]
            \/ s[1] \in others /\ es[s[1]].sink[s[2]] = Connected(<<e, o>>)
    BY <1>21
  <2>4. r \in Everybody
    BY <1>15
  <2>5. \A x \in Entities :
          /\ r[x].status = IF x = e THEN "advertised" ELSE es[x].status
          /\ r[x].sink = es[x].sink /\ r[x].clock = es[x].clock
          /\ r[x].inputMap = es[x].inputMap /\ r[x].outputMap = es[x].outputMap
          /\ \A i \in r[x].over : i \in es[x].over \/ es[x].sink[i].state = "Connected"
    BY <1>17, <1>19
  <2>6. \A x \in Entities : x \notin others \cup {e} => r[x] = es[x]
    BY <1>18
  <2>7. QED  BY <1>3, <1>22, <2>1, <2>2, <2>3, <2>4, <2>5, <2>6, Zenon DEF Came
<1>25. QED
  BY <1>13, <1>24

LEMMA CamePlain ==
  ASSUME NEW es \in Everybody, NEW old, Plainly(es, old), NEW e \in Entities, NEW r,
         es[e].status = "enumerating", Came(es, r, e)
  PROVE  Plainly(r, old)
<1>1. SUFFICES ASSUME NEW x \in Entities
               PROVE  Plain(r[x], old, x)
  BY DEF Plainly
<1>2. Plain(es[x], old, x)
  BY DEF Plainly
<1>3. CASE x \notin Advertised(es) \cup {e}
  BY <1>2, <1>3 DEF Came
<1>4. CASE x \in Advertised(es) \cup {e}
  <2>1. r[x].status = "advertised" /\ r[x].sink = es[x].sink
    BY <1>4 DEF Came, Advertised
  <2>2. \A i \in r[x].over : r[x].sink[i].state = "Connected"
    BY <1>2, <2>1 DEF Came, Plain
  <2>3. r[x].fed \in [Clusters -> Feds]
    <3>1. CASE x = e
      <4>1. ASSUME NEW k \in Clusters
            PROVE  FedByMapping(es, e, Unmapped, es[e].inputMap[k]) \in Feds
        <5>1. es[e].inputMap[k] \in Mappings
          BY DEF Everybody, Controlled
        <5>2. QED  BY <5>1, UnmappedIs, FedByMappingIs
      <4>2. QED  BY <3>1, <4>1 DEF Came
    <3>2. CASE x # e
      <4>1. x \in Advertised(es) /\ es[x].fed \in [Clusters -> Feds]
        BY <1>2, <1>4, <3>2 DEF Advertised, Plain
      <4>2. PICK at \in Everybody : r[x].fed = [k \in Clusters |-> FedByEntity(at, es[x].fed[k], e)]
        BY <4>1 DEF Came
      <4>3. \A k \in Clusters : FedByEntity(at, es[x].fed[k], e) \in Feds
        BY <4>1, FedByEntityTyped
      <4>4. QED  BY <4>2, <4>3
    <3>3. QED  BY <3>1, <3>2
  <2>4. QED  BY <1>2, <2>1, <2>2, <2>3 DEF Plain
<1>5. QED
  BY <1>3, <1>4

LEMMA CameKnows ==
  ASSUME NEW es \in Everybody, NEW exp, NEW old, NEW known, Plainly(es, old), Knowing(es, exp, old, known),
         NEW e \in Entities, NEW r, es[e].status = "enumerating", Came(es, r, e)
  PROVE  Knowing(r, exp, old, known)
<1>1. ASSUME NEW x \in Advertised(r), NEW o \in Outputs, NEW s \in Sinks \ old,
             s[1] # x, <<<<x, o>>, s>> \notin known
      PROVE  Knows(r, exp, x, o, s)
  <2>1. x \in Entities /\ s[1] \in Entities /\ s[2] \in Inputs /\ r[s[1]].sink = es[s[1]].sink
    BY DEF Advertised, Sinks, Came
  <2>2. CASE x # e
    <3>1. es[x].status = "advertised" /\ x \in Advertised(es)
      BY <2>1, <2>2 DEF Came, Advertised
    <3>2. Knows(es, exp, x, o, s)
      BY <1>1, <3>1 DEF Knowing
    <3>3. s \in r[x].listeners[o] <=>
            s \in es[x].listeners[o] \/ (s[1] = e /\ es[e].sink[s[2]] = Connected(<<x, o>>))
      BY <2>1, <2>2, <3>1 DEF Came
    <3>4. s[1] # e => r[s[1]].status = es[s[1]].status
      BY <2>1 DEF Came
    <3>5. QED  BY <2>1, <3>2, <3>3, <3>4 DEF Knows
  <2>3. CASE x = e
    <3>1. es[e].listeners[o] = {}
      BY DEF Plainly, Plain
    <3>2. s \in r[x].listeners[o] <=> s[1] \in Advertised(es) /\ es[s[1]].sink[s[2]] = Connected(<<x, o>>)
      BY <2>3, <3>1 DEF Came
    <3>3. s[1] \in Advertised(es) <=> r[s[1]].status = "advertised"
      BY <1>1, <2>1, <2>3 DEF Came, Advertised
    <3>4. QED  BY <2>1, <3>2, <3>3 DEF Knows
  <2>4. QED  BY <2>2, <2>3
<1>2. QED
  BY <1>1 DEF Knowing

LEMMA CameFeeds ==
  ASSUME NEW es \in Everybody, NEW out, NEW old, Plainly(es, old), Feeding(es, out, old),
         NEW e \in Entities, NEW r, es[e].status = "enumerating", Came(es, r, e)
  PROVE  Feeding(r, out, old)
<1>1. \A x \in Entities : /\ r[x].status = "offline" <=> es[x].status = "offline"
                          /\ r[x].outputMap = es[x].outputMap
  BY DEF Came
<1>2. ASSUME NEW x \in Entities, NEW f, NEW m \in Mappings, m # None, Fed(es, x, f, m)
      PROVE  Fed(r, x, f, m)
  <2>1. m[1] \in Inputs
    BY <1>2, MappingIs
  <2>2. es[x].sink[m[1]].talker \in Sources \cup {None}
    BY <2>1, TalkerIs
  <2>3. r[x].sink[m[1]].talker = es[x].sink[m[1]].talker
    BY DEF Came
  <2>4. QED  BY <1>1, <1>2, <2>2, <2>3, FedKept
<1>3. ASSUME NEW x \in Advertised(r), NEW k \in Clusters
      PROVE  Fresh(r, out, old, x, k)
  <2>1. x \in Entities
    BY DEF Advertised
  <2>2. PICK g, m : g = r[x].fed[k] /\ m = es[x].inputMap[k]
    OBVIOUS
  <2>3. r[x].inputMap[k] = m
    BY <2>1, <2>2 DEF Came
  <2>4. m \in Mappings
    <3>1. es[x].inputMap \in [Clusters -> Mappings]
      BY <2>1 DEF Everybody, Controlled
    <3>2. QED  BY <2>2, <3>1
  <2>5. CASE x = e
    <3>1. g = FedByMapping(es, e, Unmapped, m)
      BY <2>2, <2>5 DEF Came
    <3>2. g.from = m /\ (g.from = None => g = Unmapped) /\ (m # None => Fed(es, e, g, m))
      BY <2>4, <3>1, UnmappedIs, FedByMappingIs
    <3>3. m # None => Fed(r, x, g, m)
      BY <1>2, <2>4, <2>5, <3>2
    <3>4. QED  BY <2>2, <2>3, <3>2, <3>3 DEF Fresh
  <2>6. CASE x # e
    <3>1. x \in Advertised(es) /\ es[x].status = "advertised"
      BY <2>1, <2>6 DEF Came, Advertised
    <3>2. PICK f : f = es[x].fed[k]
      OBVIOUS
    <3>3. /\ f.from = None => f = Unmapped
          /\ x \notin out => f.from = m
          /\ x \notin out /\ m # None /\ <<x, m[1]>> \notin old => Fed(es, x, f, m)
      BY <2>2, <3>1, <3>2 DEF Feeding, Fresh
    <3>4. f \in Feds
      <4>1. es[x].fed \in [Clusters -> Feds]
        BY <2>1, <3>1 DEF Plainly, Plain
      <4>2. QED  BY <3>2, <4>1
    <3>5. PICK at \in Everybody : SameDevices(es, at) /\ g = FedByEntity(at, f, e)
      <4>1. PICK a \in Everybody :
              SameDevices(es, a) /\ r[x].fed = [c \in Clusters |-> FedByEntity(a, es[x].fed[c], e)]
        BY <3>1 DEF Came
      <4>2. g = FedByEntity(a, f, e)
        BY <2>2, <3>2, <4>1
      <4>3. QED  BY <4>1, <4>2
    <3>6. /\ g.from = f.from
          /\ f.from = None => g = f
          /\ f.talker = None \/ f.talker[1] # e => g = f
          /\ f.talker # None /\ f.talker[1] = e /\ f.from # None /\
             f.cluster = at[e].outputMap[<<f.talker[2], f.from[2]>>] => g = f
      BY <3>4, <3>5, FedByEntityTyped
    <3>7. ASSUME x \notin out, m # None, <<x, m[1]>> \notin old
          PROVE  g = f
      <4>1. Fed(es, x, f, m) /\ f.from = m
        BY <3>3, <3>7
      <4>2. f.talker # None /\ f.talker[1] = e => f.cluster = es[e].outputMap[<<f.talker[2], m[2]>>]
        BY <2>6, <4>1 DEF Fed
      <4>3. at[e].outputMap = es[e].outputMap
        BY <3>5 DEF SameDevices, SameDevice
      <4>4. QED  BY <3>6, <3>7, <4>1, <4>2, <4>3
    <3>8. QED  BY <1>2, <2>1, <2>2, <2>3, <2>4, <3>3, <3>6, <3>7 DEF Fresh
  <2>7. QED  BY <2>5, <2>6
<1>4. QED
  BY <1>3 DEF Feeding

LEMMA CameLinks ==
  ASSUME NEW es \in Everybody, NEW old, Linking(es, old), NEW e \in Entities, NEW r,
         es[e].status = "enumerating", Came(es, r, e)
  PROVE  Linking(r, old)
<1>1. PICK was, now : was = Advertised(es) /\ now = was \cup {e}
  OBVIOUS
<1>2. e \notin was /\ was \in SUBSET Entities /\ now \in SUBSET Entities
  BY <1>1 DEF Advertised
<1>3. Advertised(r) = now
  BY <1>1 DEF Came, Advertised
<1>4. Chained(r, now, old, e, r[e].chain)
  <2>1. Chained(es, now, old, e, WholeChain(es, now, e))
    BY <1>2, WholeIs
  <2>2. r[e].chain = WholeChain(es, now, e)
    BY <1>1 DEF Came
  <2>3. \A y \in now : r[y].clock = es[y].clock /\ r[y].sink = es[y].sink
    BY <1>2 DEF Came
  <2>4. old \subseteq old
    OBVIOUS
  <2>5. QED  BY <2>1, <2>2, <2>3, <2>4, ChainedKept
<1>5. PICK at \in Everybody :
        /\ SameDevices(es, at)
        /\ \A x \in was : r[x].chain = ContinuedFrom(at, now, es[x].chain, LastNode(es[x].chain, e, "EntityOffline"))
  BY <1>1 DEF Came
<1>6. \A y \in Entities : at[y].clock = es[y].clock /\ at[y].sink = es[y].sink
  BY <1>5 DEF SameDevices, SameDevice
<1>7. ASSUME NEW x \in was
      PROVE  Chained(r, now, old, x, r[x].chain)
  <2>1. PICK c : c = es[x].chain
    OBVIOUS
  <2>2. PICK nodes : nodes = LastNode(c, e, "EntityOffline")
    OBVIOUS
  <2>3. x \in Entities /\ Chained(es, was, old, x, c)
    BY <1>1, <1>2, <2>1 DEF Linking
  <2>4. nodes \in SUBSET DOMAIN c
    BY <2>2 DEF LastNode, NodesOf
  <2>5. r[x].chain = ContinuedFrom(at, now, c, nodes)
    BY <1>5, <2>1, <2>2
  <2>6. ASSUME NEW j \in 1..Len(c), \A n \in nodes : j < n, Placed(es, was, old, Ended(c), j)
        PROVE  Placed(at, now, old, Ended(c), j)
    <3>1. /\ j \in Nat \ {0} /\ DOMAIN c = 1..Len(c) /\ c[j].entity \in Entities /\ Ended(c).chain = c
          /\ Follower(Ended(c), j) = None => j = Len(c)
      BY <2>3, NodeTyped
    <3>2. j \in Nat
      BY <3>1
    <3>3. j \notin nodes
      <4>1. ~(j < j)
        BY <3>2
      <4>2. QED  BY <2>6, <4>1
    <3>4. PICK w, node, next : w = Ended(c) /\ node = c[j] /\ next = Follower(w, j)
      OBVIOUS
    <3>5. ASSUME Linked(es, was, node, next)
          PROVE  Linked(at, now, node, next)
      <4>1. CASE node.entity = e
        <5>1. node.status = "EntityOffline" /\ next = None
          BY <1>2, <3>5, <4>1 DEF Linked
        <5>2. j \in nodes
          BY <2>2, <3>1, <3>4, <4>1, <5>1 DEF LastNode, NodesOf
        <5>3. QED  BY <3>3, <5>2
      <4>2. CASE node.entity # e
        <5>1. node.entity \in was <=> node.entity \in now
          BY <1>1, <4>2
        <5>2. at[node.entity].clock = es[node.entity].clock /\ at[node.entity].sink = es[node.entity].sink
          BY <1>6, <3>1, <3>4
        <5>3. QED  BY <3>5, <5>1, <5>2, LinkedKept
      <4>3. QED  BY <4>1, <4>2
    <3>6. Placed(at, now, old, w, j)
      <4>1. w.chain[j].entity \in was => w.chain[j].entity \in now
        BY <1>1
      <4>2. Linked(es, was, w.chain[j], Follower(w, j)) => Linked(at, now, w.chain[j], Follower(w, j))
        BY <3>1, <3>4, <3>5
      <4>3. Placed(es, was, old, w, j)
        BY <2>6, <3>4
      <4>4. \A m \in 1..j : <<w.chain[m].entity, w.chain[m].source>> \in old =>
                              <<w.chain[m].entity, w.chain[m].source>> \in old
        OBVIOUS
      <4>5. QED  BY <3>1, <4>1, <4>2, <4>3, <4>4, PlacedKept
    <3>7. QED  BY <3>4, <3>6
  <2>7. \A y \in now : r[y].clock = at[y].clock /\ r[y].sink = at[y].sink
    BY <1>2, <1>6 DEF Came
  <2>8. Chained(r, now, old, x, ContinuedFrom(at, now, c, nodes))
    BY <1>2, <2>3, <2>4, <2>6, <2>7, LinkingContinued
  <2>9. QED  BY <2>5, <2>8
<1>8. QED
  BY <1>1, <1>3, <1>4, <1>7 DEF Linking

\* The code's assertion: it was offline for the chains that end on it.
LEMMA NewlyDiscoveredHolds ==
  ASSUME NEW es \in Everybody, NEW old, Linking(es, old), NEW e \in Entities, e \notin Advertised(es)
  PROVE  NewlyDiscovered(es, e)
<1>1. SUFFICES ASSUME NEW x \in Advertised(es), NEW c, c = es[x].chain, c[Len(c)].entity = e
               PROVE  c[Len(c)].status = "EntityOffline"
  BY DEF NewlyDiscovered
<1>2. Chained(es, Advertised(es), old, x, c)
  BY <1>1 DEF Linking
<1>3. Len(c) \in 1..Len(c)
  <2>1. Len(c) \in Nat /\ Len(c) > 0
    BY <1>2, LenProperties DEF Chained
  <2>2. QED  BY <2>1
<1>4. ASSUME NEW j \in 1..Len(c), c[j].entity = e
      PROVE  c[j].status \in {"EntityOffline", "Recursive"}
  <2>1. Placed(es, Advertised(es), old, Ended(c), j) /\ Ended(c).chain = c
    BY <1>2, NodeTyped
  <2>2. QED  BY <1>4, <2>1 DEF Placed
<1>5. c[Len(c)].status # "Recursive"
  <2>1. SUFFICES ASSUME c[Len(c)].status = "Recursive"
                 PROVE  FALSE
    OBVIOUS
  <2>2. Placed(es, Advertised(es), old, Ended(c), Len(c)) /\ Ended(c).chain = c
    BY <1>2, <1>3, NodeTyped
  <2>3. Repeats(c, Len(c))
    BY <2>1, <2>2 DEF Placed
  <2>4. PICK m \in 1..(Len(c) - 1) : c[m].entity = e
    BY <1>1, <2>3 DEF Repeats
  <2>5. Len(c) \in Nat
    BY <1>2, <1>3, NodeTyped
  <2>6. m \in 1..Len(c) /\ m # Len(c)
    BY <2>5
  <2>7. Placed(es, Advertised(es), old, Ended(c), m) /\ Follower(Ended(c), m) # None
    BY <1>2, <2>6, NodeTyped
  <2>8. c[m].status = "Active"
    BY <2>2, <2>7 DEF Placed
  <2>9. QED  BY <1>4, <2>4, <2>6, <2>8
<1>6. QED
  BY <1>1, <1>3, <1>4, <1>5

LEMMA AdvertiseKeeps ==
  ASSUME Invariant, NEW e \in Entities, Advertise(e)
  PROVE  Invariant'
<1>1. PICK es \in Everybody : es = entities
  BY DEF Invariant, Typing
<1>2. PICK r : r = PreAdvertised(es, e)
  OBVIOUS
<1>3. /\ entities' = r /\ es[e].status = "enumerating"
      /\ failed' = failed \cup {f \in {"Newly discovered entity should be offline"} : ~NewlyDiscovered(es, e)}
      /\ UNCHANGED <<setting, expected, legacy, strays, outdated>>
  BY <1>1, <1>2 DEF Advertise
<1>4. Accounted(es, expected, legacy, strays, outdated) /\ expected \in Expectations
  BY <1>1 DEF Invariant, Typing
<1>5. Plainly(es, legacy) /\ Knowing(es, expected, legacy, strays) /\ Feeding(es, outdated, legacy) /\ Linking(es, legacy)
  BY <1>4 DEF Accounted
<1>6. Came(es, r, e)
  BY <1>2, <1>3, <1>5, CameIs
<1>7. Plainly(r, legacy) /\ Knowing(r, expected, legacy, strays) /\ Feeding(r, outdated, legacy) /\ Linking(r, legacy)
  BY <1>3, <1>5, <1>6, CamePlain, CameKnows, CameFeeds, CameLinks
<1>8. Expected(r, expected)
  <2>1. expected # None => expected.sink[1] \in Entities
    BY <1>4 DEF Expectations, Sinks
  <2>2. \A x \in Entities : es[x].status # "offline" => r[x].status # "offline"
    BY <1>6 DEF Came
  <2>3. QED  BY <1>4, <2>1, <2>2 DEF Accounted, Expected
<1>9. r \in Everybody /\ Accounted(r, expected, legacy, strays, outdated)
  BY <1>6, <1>7, <1>8 DEF Accounted, Came
<1>10. NewlyDiscovered(es, e)
  <2>1. e \notin Advertised(es)
    BY <1>3 DEF Advertised
  <2>2. QED  BY <1>5, <2>1, NewlyDiscoveredHolds
<1>11. failed' = failed
  BY <1>3, <1>10
<1>12. QED
  BY <1>3, <1>9, <1>11 DEF Invariant, Typing

-----------------------------------------------------------------------------
(* An entity that leaves                                                     *)

NodesLeft(es, e, chain) == IF es[e].status = "advertised" THEN NodesOf(chain, e) ELSE {}
FedLeft(es, e, f) == IF es[e].status = "advertised" THEN FedByNobody(f, e) ELSE f
Robbed(es, e) ==
  {x \in Entities \ {e} : /\ es[e].status = "enumerating"
                         /\ \E k \in DOMAIN es[x].fed : /\ es[x].fed[k].cluster # None
                                                         /\ es[x].fed[k].talker[1] = e}

Gone(es, r, e) ==
  /\ r \in Everybody /\ r[e] = Created("offline")
  /\ \A x \in Entities \ {e} : SameDevice(es[x], r[x]) /\ r[x].over = es[x].over
  /\ \A x \in Entities \ {e}, o \in Outputs, s \in Sinks :
       s \in r[x].listeners[o] <=>
         /\ s \in es[x].listeners[o]
         /\ ~(/\ es[e].status = "advertised" /\ es[x].status = "advertised"
              /\ s[1] = e /\ es[e].sink[s[2]] = Connected(<<x, o>>))
  /\ \A x \in Advertised(es) \ {e} :
       /\ r[x].chain = ContinuedFrom(es, Advertised(es) \ {e}, es[x].chain, NodesLeft(es, e, es[x].chain))
       /\ r[x].fed \in [Clusters -> Feds] /\ \A k \in Clusters : r[x].fed[k] = FedLeft(es, e, es[x].fed[k])
  /\ \A x \in Entities \ {e} : es[x].status # "advertised" => r[x] = es[x]

LEMMA GoneIs ==
  ASSUME NEW es \in Everybody, NEW old, Plainly(es, old), NEW e \in Entities, NEW r,
         r = [IF es[e].status = "advertised" THEN PreUnadvertised(es, e) ELSE es EXCEPT ![e] = Created("offline")]
  PROVE  Gone(es, r, e)
<1> DEFINE online == Advertised(es) \ {e}
           left == {i \in Inputs : es[e].sink[i].state = "Connected"}
           found(x) == [o \in Outputs |-> es[x].listeners[o] \
                          {<<e, i>> : i \in {j \in left : es[e].sink[j].talker = <<x, o>>}}]
           chain(x) == ContinuedFrom(es, online, es[x].chain, NodesOf(es[x].chain, e))
           fed(x) == [k \in DOMAIN es[x].fed |-> FedByNobody(es[x].fed[k], e)]
<1>1. PICK c \in Controlled : c = Created("offline")
  BY CreatedTyped
<1>2. \A x \in online : x \in Entities \ {e} /\ es[x].status = "advertised" /\ es[x].fed \in [Clusters -> Feds]
  BY DEF Advertised, Plainly, Plain
<1>3. CASE es[e].status # "advertised"
  <2>1. r = [es EXCEPT ![e] = c]
    BY <1>1, <1>3
  <2>2. r \in Everybody /\ \A x \in Entities : r[x] = IF x = e THEN c ELSE es[x]
    BY <2>1 DEF Everybody
  <2>3. \A x \in Entities : SameDevice(es[x], es[x])
    BY DEF SameDevice
  <2>4. \A x \in online : ContinuedFrom(es, online, es[x].chain, {}) = es[x].chain
    BY DEF ContinuedFrom
  <2>5. ASSUME NEW x \in online
        PROVE  /\ r[x].chain = ContinuedFrom(es, online, es[x].chain, NodesLeft(es, e, es[x].chain))
               /\ r[x].fed \in [Clusters -> Feds]
               /\ \A k \in Clusters : r[x].fed[k] = FedLeft(es, e, es[x].fed[k])
    <3>1. r[x] = es[x] /\ es[x].fed \in [Clusters -> Feds]
      BY <1>2, <2>2
    <3>2. NodesLeft(es, e, es[x].chain) = {}
      BY <1>3 DEF NodesLeft
    <3>3. \A k \in Clusters : FedLeft(es, e, es[x].fed[k]) = es[x].fed[k]
      BY <1>3 DEF FedLeft
    <3>4. QED  BY <2>4, <3>1, <3>2, <3>3
  <2>6. QED  BY <1>1, <1>3, <2>2, <2>3, <2>5 DEF Gone
<1>4. CASE es[e].status = "advertised"
  <2>1. PICK p : p = [x \in Entities |->
                        IF x \in online THEN [es[x] EXCEPT !.listeners = found(x), !.chain = chain(x), !.fed = fed(x)]
                        ELSE es[x]]
    OBVIOUS
  <2>2. p = PreUnadvertised(es, e)
    BY <2>1 DEF PreUnadvertised
  <2>3. r = [p EXCEPT ![e] = c]
    BY <1>1, <1>4, <2>2
  <2>4. ASSUME NEW x \in online, NEW o \in Outputs, NEW s \in Sinks
        PROVE  s \in found(x)[o] <=>
                 s \in es[x].listeners[o] /\ ~(s[1] = e /\ es[e].sink[s[2]] = Connected(<<x, o>>))
    <3>1. PICK y \in Entities, i \in Inputs : s = <<y, i>>
      BY DEF Sinks
    <3>2. es[e].sink[i] = [state |-> es[e].sink[i].state, talker |-> es[e].sink[i].talker]
      BY TalkerIs, ConnectedIs
    <3>3. i \in left /\ es[e].sink[i].talker = <<x, o>> <=> es[e].sink[i] = Connected(<<x, o>>)
      BY <3>2 DEF Connected
    <3>4. QED  BY <3>1, <3>3
  <2>5. ASSUME NEW x \in online
        PROVE  found(x) \in [Outputs -> SUBSET Sinks]
    <3>1. es[x].listeners \in [Outputs -> SUBSET Sinks]
      BY <1>2 DEF Everybody, Controlled
    <3>2. QED  BY <3>1
  <2>6. ASSUME NEW x \in online
        PROVE  chain(x) \in Seq(Nodes) /\ chain(x) = ContinuedFrom(es, online, es[x].chain, NodesLeft(es, e, es[x].chain))
    <3>1. es[x].chain \in Seq(Nodes)
      BY <1>2 DEF Everybody, Controlled
    <3>2. NodesOf(es[x].chain, e) \in SUBSET DOMAIN es[x].chain
      BY DEF NodesOf
    <3>3. online \in SUBSET Entities
      BY <1>2
    <3>4. chain(x) \in Seq(Nodes)
      BY <3>1, <3>2, <3>3, ContinuedTyped
    <3>5. NodesLeft(es, e, es[x].chain) = NodesOf(es[x].chain, e)
      BY <1>4 DEF NodesLeft
    <3>6. QED  BY <3>4, <3>5
  <2>7. ASSUME NEW x \in online
        PROVE  fed(x) \in [Clusters -> Feds] /\ \A k \in Clusters : fed(x)[k] = FedLeft(es, e, es[x].fed[k])
    <3>1. es[x].fed \in [Clusters -> Feds]
      BY <1>2
    <3>2. \A k \in Clusters : FedByNobody(es[x].fed[k], e) \in Feds
      BY <3>1, FedByNobodyTyped
    <3>3. QED  BY <1>4, <3>1, <3>2 DEF FedLeft
  <2> HIDE DEF found, chain, fed, left
  <2>8. ASSUME NEW x \in Entities
        PROVE  /\ p[x] \in Controlled /\ SameDevice(es[x], p[x]) /\ p[x].over = es[x].over
               /\ x \in online => p[x].listeners = found(x) /\ p[x].chain = chain(x) /\ p[x].fed = fed(x)
               /\ x \notin online => p[x] = es[x]
    <3>1. PICK b \in Controlled : b = es[x]
      BY DEF Everybody
    <3>2. CASE x \in online
      <4>1. PICK d : d = [b EXCEPT !.listeners = found(x), !.chain = chain(x), !.fed = fed(x)]
        OBVIOUS
      <4>2. /\ d \in Controlled /\ SameDevice(b, d) /\ d.over = b.over
            /\ d.listeners = found(x) /\ d.chain = chain(x) /\ d.fed = fed(x)
        BY <2>5, <2>6, <2>7, <3>2, <4>1 DEF Controlled, SameDevice
      <4>3. p[x] = d
        BY <2>1, <3>1, <3>2, <4>1
      <4>4. QED  BY <3>1, <3>2, <4>2, <4>3
    <3>3. CASE x \notin online
      <4>1. p[x] = b
        BY <2>1, <3>1, <3>3
      <4>2. QED  BY <3>1, <3>3, <4>1 DEF SameDevice
    <3>4. QED  BY <3>2, <3>3
  <2>9. p \in Everybody
    <3>1. p = [x \in Entities |-> p[x]]
      BY <2>1
    <3>2. QED  BY <2>8, <3>1 DEF Everybody
  <2>10. r \in Everybody /\ \A x \in Entities : r[x] = IF x = e THEN c ELSE p[x]
    BY <2>3, <2>9 DEF Everybody
  <2>11. \A x \in Entities \ {e} : SameDevice(es[x], r[x]) /\ r[x].over = es[x].over
    BY <2>8, <2>10
  <2>12. \A x \in Entities \ {e} : es[x].status = "advertised" <=> x \in online
    BY DEF Advertised
  <2>13. ASSUME NEW x \in Entities \ {e}, NEW o \in Outputs, NEW s \in Sinks
         PROVE  s \in r[x].listeners[o] <=>
                  /\ s \in es[x].listeners[o]
                  /\ ~(/\ es[e].status = "advertised" /\ es[x].status = "advertised"
                       /\ s[1] = e /\ es[e].sink[s[2]] = Connected(<<x, o>>))
    <3>1. CASE x \in online
      <4>1. r[x].listeners = found(x)
        BY <2>8, <2>10, <3>1
      <4>2. QED  BY <1>4, <2>4, <2>12, <3>1, <4>1
    <3>2. CASE x \notin online
      <4>1. r[x] = es[x]
        BY <2>8, <2>10, <3>2
      <4>2. QED  BY <2>12, <3>2, <4>1
    <3>3. QED  BY <3>1, <3>2
  <2>14. ASSUME NEW x \in online
         PROVE  /\ r[x].chain = ContinuedFrom(es, online, es[x].chain, NodesLeft(es, e, es[x].chain))
                /\ r[x].fed \in [Clusters -> Feds] /\ \A k \in Clusters : r[x].fed[k] = FedLeft(es, e, es[x].fed[k])
    <3>1. r[x].chain = chain(x) /\ r[x].fed = fed(x)
      BY <1>2, <2>8, <2>10
    <3>2. QED  BY <2>6, <2>7, <3>1
  <2>15. \A x \in Entities \ {e} : es[x].status # "advertised" => r[x] = es[x]
    BY <2>8, <2>10, <2>12
  <2>16. r[e] = Created("offline")
    BY <1>1, <2>10
  <2>17. QED  BY <2>10, <2>11, <2>13, <2>14, <2>15, <2>16 DEF Gone
<1>5. QED
  BY <1>3, <1>4

LEMMA GonePlain ==
  ASSUME NEW es \in Everybody, NEW old, Plainly(es, old), NEW e \in Entities, NEW r, Gone(es, r, e)
  PROVE  Plainly(r, {s \in old : s[1] # e})
<1>1. SUFFICES ASSUME NEW x \in Entities
               PROVE  Plain(r[x], {s \in old : s[1] # e}, x)
  BY DEF Plainly
<1>2. Plain(es[x], old, x)
  BY DEF Plainly
<1>3. CASE x = e
  <2>1. PICK c : c = Created("offline")
    OBVIOUS
  <2>2. /\ c.status = "offline" /\ c.over = {} /\ c.fed \in [{} -> Feds]
        /\ \A i \in Inputs : c.sink[i] = NotConnected
        /\ \A o \in Outputs : c.listeners[o] = {}
    BY <2>1, CreatedTyped
  <2>3. r[x] = c
    BY <1>3, <2>1 DEF Gone
  <2>4. QED  BY <2>1, <2>2, <2>3 DEF Plain, NotConnected
<1>4. CASE x # e /\ es[x].status # "advertised"
  <2>1. r[x] = es[x]
    BY <1>4 DEF Gone
  <2>2. \A i \in Inputs : <<x, i>> \in old => <<x, i>> \in {s \in old : s[1] # e}
    BY <1>4
  <2>3. QED  BY <1>2, <2>1, <2>2 DEF Plain
<1>5. CASE x # e /\ es[x].status = "advertised"
  <2>1. r[x].status = es[x].status /\ r[x].sink = es[x].sink /\ r[x].over = es[x].over
    BY <1>5 DEF Gone, SameDevice
  <2>2. r[x].fed \in [Clusters -> Feds]
    BY <1>5 DEF Gone, Advertised
  <2>3. \A i \in Inputs : <<x, i>> \in old => <<x, i>> \in {s \in old : s[1] # e}
    BY <1>5
  <2>4. QED  BY <1>2, <1>5, <2>1, <2>2, <2>3 DEF Plain
<1>6. QED
  BY <1>3, <1>4, <1>5

LEMMA GoneKnows ==
  ASSUME NEW es \in Everybody, NEW exp, NEW old, NEW known, NEW strange, NEW now,
         Plainly(es, old), Knowing(es, exp, old, known), NEW e \in Entities, NEW r, es[e].status # "offline",
         Gone(es, r, e), known \subseteq strange,
         now = IF exp # None /\ e = exp.sink[1] THEN None ELSE exp,
         \A i \in Inputs : Unaware(es, e, i, NotConnected, strange)
  PROVE  Knowing(r, now, {s \in old : s[1] # e}, strange)
<1>1. ASSUME NEW x \in Advertised(r), NEW o \in Outputs, NEW s \in Sinks \ {a \in old : a[1] # e},
             s[1] # x, <<<<x, o>>, s>> \notin strange
      PROVE  Knows(r, now, x, o, s)
  <2>1. r[e].status = "offline" /\ \A i \in Inputs : r[e].sink[i] = NotConnected
    <3>1. r[e] = Created("offline")
      BY DEF Gone
    <3>2. QED  BY <3>1, CreatedTyped
  <2>2. x \in Entities \ {e} /\ s[1] \in Entities /\ s[2] \in Inputs /\ s = <<s[1], s[2]>> /\ <<x, o>> \in Sources
    BY <2>1 DEF Advertised, Sinks, Sources
  <2>3. x \in Advertised(es) /\ es[x].status = "advertised"
    BY <2>2 DEF Gone, SameDevice, Advertised
  <2>4. CASE s[1] # e
    <3>1. Knows(es, exp, x, o, s)
      BY <1>1, <2>3, <2>4 DEF Knowing
    <3>2. s \in r[x].listeners[o] <=> s \in es[x].listeners[o]
      BY <2>2, <2>4 DEF Gone
    <3>3. r[s[1]].status = es[s[1]].status /\ r[s[1]].sink = es[s[1]].sink
      BY <2>2, <2>4 DEF Gone, SameDevice
    <3>4. \A connected \in BOOLEAN : Awaited(now, s, connected) <=> Awaited(exp, s, connected)
      BY <2>4 DEF Awaited
    <3>5. QED  BY <3>1, <3>2, <3>3, <3>4 DEF Knows
  <2>5. CASE s[1] = e
    <3>1. s \notin r[x].listeners[o]
      <4>1. SUFFICES ASSUME s \in r[x].listeners[o]
                     PROVE  FALSE
        OBVIOUS
      <4>2. /\ s \in es[x].listeners[o]
            /\ ~(es[e].status = "advertised" /\ es[e].sink[s[2]] = Connected(<<x, o>>))
        BY <2>2, <2>3, <2>5, <4>1 DEF Gone
      <4>3. <<x, o>> # NotConnected.talker
        BY <2>2, ConstantsAssumption DEF NotConnected
      <4>4. es[e].status \in {"offline", "enumerating", "advertised"}
        BY DEF Everybody, Controlled
      <4>5. <<<<x, o>>, <<e, s[2]>>>> \in strange
        BY <2>2, <2>3, <2>5, <4>2, <4>3, <4>4 DEF Unaware
      <4>6. QED  BY <1>1, <2>2, <2>5, <4>5
    <3>2. QED  BY <2>1, <2>5, <3>1 DEF Knows
  <2>6. QED  BY <2>4, <2>5
<1>2. QED
  BY <1>1 DEF Knowing

LEMMA GoneFeeds ==
  ASSUME NEW es \in Everybody, NEW out, NEW old, NEW now, Plainly(es, old), Feeding(es, out, old),
         NEW e \in Entities, NEW r, es[e].status # "offline", Gone(es, r, e),
         now = (out \ {e}) \cup Robbed(es, e)
  PROVE  Feeding(r, now, {s \in old : s[1] # e})
<1>1. ASSUME NEW x \in Advertised(r), NEW k \in Clusters
      PROVE  Fresh(r, now, {s \in old : s[1] # e}, x, k)
  <2>1. r[e].status = "offline"
    <3>1. r[e] = Created("offline")
      BY DEF Gone
    <3>2. QED  BY <3>1, CreatedTyped
  <2>2. x \in Entities \ {e} /\ SameDevice(es[x], r[x])
    BY <2>1 DEF Gone, Advertised
  <2>3. x \in Advertised(es) /\ es[x].status = "advertised" /\ r[x].inputMap = es[x].inputMap /\ r[x].sink = es[x].sink
    BY <2>2 DEF SameDevice, Advertised
  <2>4. PICK f, g, m : f = es[x].fed[k] /\ g = r[x].fed[k] /\ m = es[x].inputMap[k]
    OBVIOUS
  <2>5. es[x].fed \in [Clusters -> Feds] /\ f \in Feds /\ m \in Mappings
    <3>1. es[x].fed \in [Clusters -> Feds]
      BY <2>2, <2>3 DEF Plainly, Plain
    <3>2. es[x].inputMap \in [Clusters -> Mappings]
      BY <2>2 DEF Everybody, Controlled
    <3>3. QED  BY <2>4, <3>1, <3>2
  <2>6. /\ f.from = None => f = Unmapped
        /\ x \notin out => f.from = m
        /\ x \notin out /\ m # None /\ <<x, m[1]>> \notin old => Fed(es, x, f, m)
    BY <2>3, <2>4 DEF Feeding, Fresh
  <2>7. g = FedLeft(es, e, f)
    BY <2>2, <2>3, <2>4 DEF Gone
  <2>8. /\ g.from = f.from /\ g.talker = f.talker
        /\ g.cluster = IF es[e].status = "advertised" /\ f.talker # None /\ f.talker[1] = e THEN None ELSE f.cluster
        /\ f = Unmapped => g = f
    BY <2>5, <2>7, FedByNobodyTyped DEF FedLeft
  <2>9. ASSUME x \notin now, m # None, <<x, m[1]>> \notin {s \in old : s[1] # e}
        PROVE  Fed(r, x, g, m)
    <3>1. x \notin out /\ <<x, m[1]>> \notin old
      BY <2>2, <2>9
    <3>2. Fed(es, x, f, m)
      BY <2>6, <2>9, <3>1
    <3>3. m[1] \in Inputs
      BY <2>5, <2>9, MappingIs
    <3>4. PICK s \in Sources \cup {None} : s = es[x].sink[m[1]].talker
      BY <2>2, <3>3, TalkerIs
    <3>5. f.talker = s /\ r[x].sink[m[1]].talker = s
      BY <2>3, <3>2, <3>4 DEF Fed
    <3>6. CASE s # None /\ s[1] = e
      <4>1. g.cluster = None
        <5>1. CASE es[e].status = "advertised"
          BY <2>8, <3>5, <3>6, <5>1
        <5>2. CASE es[e].status # "advertised"
          <6>1. es[e].status = "enumerating"
            BY <5>2 DEF Everybody, Controlled
          <6>2. k \in DOMAIN es[x].fed
            BY <2>5
          <6>3. f.cluster = None
            BY <2>2, <2>4, <2>9, <3>5, <3>6, <6>1, <6>2 DEF Robbed
          <6>4. QED  BY <2>8, <6>3
        <5>3. QED  BY <5>1, <5>2
      <4>2. QED  BY <2>1, <2>8, <3>5, <3>6, <4>1 DEF Fed
    <3>7. CASE s = None \/ s[1] # e
      <4>1. g.cluster = f.cluster
        BY <2>8, <3>5, <3>7
      <4>2. s # None => s[1] \in Entities \ {e}
        BY <3>7 DEF Sources
      <4>3. s # None => r[s[1]].status = es[s[1]].status /\ r[s[1]].outputMap = es[s[1]].outputMap
        BY <4>2 DEF Gone, SameDevice
      <4>4. QED  BY <2>8, <3>2, <3>4, <3>5, <4>1, <4>3 DEF Fed
    <3>8. QED  BY <3>6, <3>7
  <2>10. x \notin now => x \notin out
    BY <2>2
  <2>11. r[x].inputMap[k] = m
    BY <2>3, <2>4
  <2>12. QED  BY <2>4, <2>6, <2>8, <2>9, <2>10, <2>11 DEF Fresh
<1>2. QED
  BY <1>1 DEF Feeding

LEMMA GoneLinks ==
  ASSUME NEW es \in Everybody, NEW old, old \subseteq Sinks, Linking(es, old), NEW e \in Entities, NEW r,
         Gone(es, r, e)
  PROVE  Linking(r, {s \in old : s[1] # e})
<1>1. PICK was, now, exempt : was = Advertised(es) /\ now = was \ {e} /\ exempt = {s \in old : s[1] # e}
  OBVIOUS
<1>2. was \in SUBSET Entities /\ now \in SUBSET Entities
  BY <1>1 DEF Advertised
<1>3. Advertised(r) = now
  <2>1. r[e].status = "offline"
    <3>1. r[e] = Created("offline")
      BY DEF Gone
    <3>2. QED  BY <3>1, CreatedTyped
  <2>2. \A x \in Entities \ {e} : r[x].status = es[x].status
    BY DEF Gone, SameDevice
  <2>3. QED  BY <1>1, <2>1, <2>2 DEF Advertised
<1>4. ASSUME NEW x \in now
      PROVE  Chained(r, now, exempt, x, r[x].chain)
  <2>1. PICK c : c = es[x].chain
    OBVIOUS
  <2>2. PICK nodes : nodes = NodesLeft(es, e, c)
    OBVIOUS
  <2>3. x \in Entities /\ Chained(es, was, old, x, c)
    BY <1>1, <1>2, <2>1 DEF Linking
  <2>4. nodes \in SUBSET DOMAIN c
    BY <2>2 DEF NodesLeft, NodesOf
  <2>5. r[x].chain = ContinuedFrom(es, now, c, nodes)
    BY <1>1, <2>1, <2>2 DEF Gone
  <2>6. ASSUME NEW j \in 1..Len(c), \A n \in nodes : j < n, Placed(es, was, old, Ended(c), j)
        PROVE  Placed(es, now, exempt, Ended(c), j)
    <3>1. j \in Nat /\ Len(c) \in Nat
      BY <2>3, NodeTyped
    <3>2. ASSUME NEW m \in 1..j
          PROVE  /\ m \in 1..Len(c) /\ c[m].entity \in Entities
                 /\ c[m].entity = e => e \notin was /\ c[m].source = None
      <4>1. m \in 1..Len(c)
        BY <3>1
      <4>2. DOMAIN c = 1..Len(c) /\ c[m].entity \in Entities /\ Placed(es, was, old, Ended(c), m) /\ Ended(c).chain = c
        BY <2>3, <4>1, NodeTyped
      <4>3. m \notin nodes
        <5>1. ~(j < m)
          BY <3>1
        <5>2. QED  BY <2>6, <5>1
      <4>4. c[m].entity = e => e \notin was
        BY <1>1, <2>2, <4>1, <4>2, <4>3 DEF NodesLeft, NodesOf, Advertised
      <4>5. c[m].entity = e => c[m].source = None
        BY <4>2, <4>4 DEF Placed
      <4>6. QED  BY <4>1, <4>2, <4>4, <4>5
    <3>3. PICK w : w = Ended(c)
      OBVIOUS
    <3>4. w.chain = c /\ j \in Nat \ {0}
      BY <2>3, <3>3, NodeTyped
    <3>5. j \in 1..j
      BY <3>4
    <3>6. w.chain[j].entity \in was <=> w.chain[j].entity \in now
      BY <1>1, <3>2, <3>4, <3>5
    <3>7. Linked(es, was, w.chain[j], Follower(w, j)) => Linked(es, now, w.chain[j], Follower(w, j))
      BY <3>6, LinkedKept
    <3>8. \A m \in 1..j : <<w.chain[m].entity, w.chain[m].source>> \in old =>
                            <<w.chain[m].entity, w.chain[m].source>> \in exempt
      <4>1. ASSUME NEW m \in 1..j, <<c[m].entity, c[m].source>> \in old
            PROVE  c[m].entity # e
        <5>1. c[m].source # None
          BY <4>1, ConstantsAssumption DEF Sinks
        <5>2. QED  BY <3>2, <5>1
      <4>2. QED  BY <1>1, <3>4, <4>1
    <3>9. Placed(es, now, exempt, w, j)
      BY <2>6, <3>3, <3>4, <3>6, <3>7, <3>8, PlacedKept
    <3>10. QED  BY <3>3, <3>9
  <2>7. \A y \in now : r[y].clock = es[y].clock /\ r[y].sink = es[y].sink
    BY <1>1, <1>2 DEF Gone, SameDevice
  <2>8. Chained(r, now, exempt, x, ContinuedFrom(es, now, c, nodes))
    BY <1>2, <2>3, <2>4, <2>6, <2>7, LinkingContinued
  <2>9. QED  BY <2>5, <2>8
<1>5. QED
  BY <1>1, <1>3, <1>4 DEF Linking

LEMMA OfflineKeeps ==
  ASSUME Invariant, NEW e \in Entities, OnEntityOffline(e)
  PROVE  Invariant'
<1>1. PICK es \in Everybody : es = entities
  BY DEF Invariant, Typing
<1>2. PICK r : r = [IF es[e].status = "advertised" THEN PreUnadvertised(es, e) ELSE es EXCEPT ![e] = Created("offline")]
  OBVIOUS
<1>3. PICK exempt, strange, out, now :
        /\ exempt = {s \in legacy : s[1] # e}
        /\ strange = strays \cup LeftUnknown(e, {e} \X Inputs, None)
        /\ out = (outdated \ {e}) \cup Robbed(es, e)
        /\ now = IF expected # None /\ e = expected.sink[1] THEN None ELSE expected
  OBVIOUS
<1>4. /\ entities' = r /\ legacy' = exempt /\ strays' = strange /\ outdated' = out /\ expected' = now
      /\ es[e].status # "offline" /\ UNCHANGED <<setting, failed>>
  BY <1>1, <1>2, <1>3 DEF OnEntityOffline, Robbed
<1>5. /\ Accounted(es, expected, legacy, strays, outdated) /\ expected \in Expectations
      /\ legacy \subseteq Sinks /\ strays \subseteq Sources \X Sinks /\ outdated \subseteq Entities
  BY <1>1 DEF Invariant, Typing
<1>6. Plainly(es, legacy) /\ Knowing(es, expected, legacy, strays) /\ Feeding(es, outdated, legacy) /\ Linking(es, legacy)
  BY <1>5 DEF Accounted
<1>7. Gone(es, r, e)
  BY <1>2, <1>6, GoneIs
<1>8. Plainly(r, exempt) /\ Linking(r, exempt)
  BY <1>3, <1>5, <1>6, <1>7, GonePlain, GoneLinks
<1>9. Feeding(r, out, exempt)
  BY <1>3, <1>4, <1>6, <1>7, GoneFeeds
<1>10. ASSUME NEW i \in Inputs
       PROVE  Unaware(es, e, i, NotConnected, strange)
  <2>1. SUFFICES ASSUME NEW x \in Advertised(es), NEW o \in Outputs, <<e, i>> \in es[x].listeners[o],
                        es[e].status = "enumerating" \/ es[e].sink[i] # Connected(<<x, o>>)
                 PROVE  <<<<x, o>>, <<e, i>>>> \in strange
    BY DEF Unaware
  <2>2. PICK link \in Sources \X ({e} \X Inputs) : link = <<<<x, o>>, <<e, i>>>>
    BY DEF Sources, Advertised
  <2>3. link[1] = <<x, o>> /\ link[2] = <<e, i>> /\ link[1][1] = x /\ link[1][2] = o /\ link[2][2] = i
    BY <2>2
  <2>4. link[1] # None
    BY ConstantsAssumption
  <2>5. link \in LeftUnknown(e, {e} \X Inputs, None)
    BY <1>1, <2>1, <2>2, <2>3, <2>4 DEF LeftUnknown, Connected
  <2>6. QED  BY <1>3, <2>2, <2>5
<1>11. Knowing(r, now, exempt, strange)
  <2>1. strays \subseteq strange
    BY <1>3
  <2>2. now = IF expected # None /\ e = expected.sink[1] THEN None ELSE expected
    BY <1>3
  <2>3. \A i \in Inputs : Unaware(es, e, i, NotConnected, strange)
    BY <1>10
  <2>4. PICK exp : exp = expected
    OBVIOUS
  <2>5. Knowing(r, now, {s \in legacy : s[1] # e}, strange)
    BY <1>4, <1>6, <1>7, <2>1, <2>2, <2>3, <2>4, GoneKnows
  <2>6. QED  BY <1>3, <2>5
<1>12. Expected(r, now)
  <2>1. SUFFICES ASSUME now # None
                 PROVE  r[now.sink[1]].status # "offline"
    BY DEF Expected
  <2>2. now = expected /\ now.sink[1] # e
    BY <1>3, <2>1
  <2>3. now.sink[1] \in Entities \ {e}
    BY <1>5, <2>1, <2>2 DEF Expectations, Sinks
  <2>4. es[now.sink[1]].status # "offline"
    BY <1>5, <2>1, <2>2 DEF Accounted, Expected
  <2>5. QED  BY <1>7, <2>3, <2>4 DEF Gone, SameDevice
<1>13. now \in Expectations
  BY <1>3, <1>5 DEF Expectations
<1>14. exempt \subseteq Sinks /\ strange \subseteq Sources \X Sinks /\ out \subseteq Entities
  <2>1. LeftUnknown(e, {e} \X Inputs, None) \subseteq Sources \X ({e} \X Inputs)
    BY DEF LeftUnknown
  <2>2. Sources \X ({e} \X Inputs) \subseteq Sources \X Sinks
    BY DEF Sinks
  <2>3. Robbed(es, e) \subseteq Entities
    BY DEF Robbed
  <2>4. QED  BY <1>3, <1>5, <2>1, <2>2, <2>3
<1>15. r \in Everybody
  BY <1>7 DEF Gone
<1>16. Accounted(r, now, exempt, strange, out)
  BY <1>8, <1>9, <1>11, <1>12 DEF Accounted
<1>17. failed' \subseteq {"Failed to find ChannelConnection"}
  BY <1>4 DEF Invariant
<1>18. QED
  BY <1>4, <1>13, <1>14, <1>15, <1>16, <1>17 DEF Invariant, Typing

-----------------------------------------------------------------------------
(* Every step                                                                *)

LEMMA NextKeeps ==
  ASSUME Invariant, [Next]_vars
  PROVE  Invariant'
<1>1. CASE UNCHANGED vars
  BY <1>1 DEF vars, Invariant, Typing
<1>2. ASSUME NEW e \in Entities, OnEntityOnline(e) \/ Advertise(e) \/ OnEntityOffline(e)
      PROVE  Invariant'
  BY <1>2, OnlineKeeps, AdvertiseKeeps, OfflineKeeps
<1>3. setting.entities \X Outputs \subseteq Sources
  <2>1. setting.entities \subseteq Entities
    BY ConstantsAssumption DEF Invariant, Typing
  <2>2. QED  BY <2>1 DEF Sources
<1>4. ASSUME NEW sink \in Sinks
      PROVE  /\ entities[sink[1]].sink[sink[2]].talker \in Sources \cup {None}
             /\ TRUE \in BOOLEAN /\ FALSE \in BOOLEAN
  <2>1. sink[1] \in Entities /\ sink[2] \in Inputs
    BY DEF Sinks
  <2>2. QED  BY <2>1, TalkerIs DEF Invariant, Typing
<1>5. ASSUME NEW sink \in Sinks, Disconnect(sink)
      PROVE  Invariant'
  <2>1. PICK talker \in {None, entities[sink[1]].sink[sink[2]].talker} : Listener(sink, talker, FALSE, FALSE)
    BY <1>5 DEF Disconnect
  <2>2. talker \in Sources \cup {None}
    BY <1>4
  <2>3. QED  BY <2>1, <2>2, ListenerKeeps
<1>6. ASSUME NEW sink \in Sinks, TalkerDisconnects(sink)
      PROVE  Invariant'
  <2>1. PICK talker : talker = entities[sink[1]].sink[sink[2]].talker
    OBVIOUS
  <2>2. talker # None /\ Talker(talker, sink, FALSE, FALSE)
    BY <1>6, <2>1 DEF TalkerDisconnects
  <2>3. talker \in Sources
    BY <1>4, <2>1, <2>2
  <2>4. QED  BY <2>1, <2>2, <2>3, TalkerKeeps
<1>7. ASSUME NEW sink \in Sinks, NEW talker \in Sources,
             Connect(sink, talker) \/ FastConnect(sink, talker) \/ TalkerConnects(talker, sink)
      PROVE  Invariant'
  <2>1. talker # None
    BY ConstantsAssumption
  <2>2. CASE Connect(sink, talker)
    BY <2>1, <2>2, ListenerKeeps DEF Connect
  <2>3. CASE FastConnect(sink, talker)
    BY <2>1, <2>3, ListenerKeeps DEF FastConnect
  <2>4. CASE TalkerConnects(talker, sink)
    <3>1. PICK fast \in BOOLEAN : Talker(talker, sink, TRUE, fast)
      BY <2>4 DEF TalkerConnects
    <3>2. QED  BY <3>1, TalkerKeeps
  <2>5. QED  BY <1>7, <2>2, <2>3, <2>4
<1>8. 0..1 \subseteq Nat
  OBVIOUS
<1>9. ASSUME NEW sink \in Sinks, NEW latency \in 0..1, InputInfoChanged(sink, latency)
      PROVE  Invariant'
  BY <1>8, <1>9, InputInfoKeeps
<1>10. ASSUME NEW e \in Entities, NEW source \in Inputs \cup {Internal}, ClockSourceChanged(e, source)
       PROVE  Invariant'
  BY <1>10, ClockSourceKeeps
<1>11. ASSUME NEW talker \in Sources, NEW time \in 0..1, MaxTransitTimeChanged(talker, time)
       PROVE  Invariant'
  BY <1>8, <1>11, MaxTransitTimeKeeps
<1>12. ASSUME NEW talker \in Sources, NEW channel \in Channels, NEW cluster \in Clusters \cup {None},
              OutputMappingChanged(talker, channel, cluster)
       PROVE  Invariant'
  BY <1>12, OutputMappingKeeps
<1>13. ASSUME NEW e \in Entities, NEW k \in Clusters, InputMappingRemoved(e, k)
       PROVE  Invariant'
  <2>1. None \in Mappings
    BY DEF Mappings
  <2>2. QED  BY <1>13, <2>1, InputMappingKeeps DEF InputMappingRemoved
<1>14. ASSUME NEW e \in Entities, NEW k \in Clusters, NEW mapping \in Inputs \X Channels,
              InputMappingAdded(e, k, mapping) \/ InputMappingsReplaced(e, k, mapping)
       PROVE  Invariant'
  <2>1. mapping \in Mappings
    BY DEF Mappings
  <2>2. QED  BY <1>14, <2>1, InputMappingKeeps, MappingsReplacedKeeps DEF InputMappingAdded
<1>15. QED
  BY <1>1, <1>2, <1>3, <1>5, <1>6, <1>7, <1>9, <1>10, <1>11, <1>12, <1>13, <1>14 DEF Next

LEMMA InvariantHolds == Spec => []Invariant
<1>1. QED
  BY InvariantHoldsFirst, NextKeeps, PTL DEF Spec

\* Every state of the model is one of the program: a stream is connected to a stream of an
\* entity, the nodes of a chain and the clusters that feed a cluster are those of their
\* classes, and the result that a connection awaits is one of a listener
\* (StreamInputConnectionInfo, MediaClockChainNode, ChannelConnection of controlledEntityImpl).
THEOREM ConnectionsTyping == Spec => []Typing
<1>1. Invariant => Typing
  BY DEF Invariant
<1>2. QED
  BY <1>1, InvariantHolds, PTL

\* Whatever the order in which entities come and leave, and streams connect, fast connect,
\* move and disconnect, a talker knows the listeners that are connected to it and no other
\* (onPreAdvertiseEntity, onPreUnadvertiseEntity, handleListenerStreamStateNotification and
\* handleTalkerStreamStateNotification), and no stream that is not connected keeps the
\* latency error it had.
THEOREM TalkersAlwaysKnowTheirListeners == Spec => []TalkersKnowTheirListeners
<1>1. ASSUME Invariant
      PROVE  TalkersKnowTheirListeners
  <2>1. Plainly(entities, legacy) /\ Knowing(entities, expected, legacy, strays) /\ entities \in Everybody
    BY <1>1 DEF Invariant, Accounted, Typing
  <2>2. ASSUME expected = None, NEW source \in Sources, entities[source[1]].status = "advertised",
               NEW sink \in Sinks \ legacy, sink[1] # source[1], entities[sink[1]].status = "advertised",
               <<source, sink>> \notin strays
        PROVE  (sink \in entities[source[1]].listeners[source[2]]) =
                 (entities[sink[1]].sink[sink[2]] = [state |-> "Connected", talker |-> source])
    <3>1. PICK x \in Entities, o \in Outputs : source = <<x, o>>
      BY DEF Sources
    <3>2. x \in Advertised(entities) /\ source[1] = x /\ source[2] = o
      BY <2>2, <3>1 DEF Advertised
    <3>3. Knows(entities, expected, x, o, sink)
      BY <2>1, <2>2, <3>1, <3>2 DEF Knowing
    <3>4. ~Awaited(expected, sink, TRUE) /\ ~Awaited(expected, sink, FALSE)
      BY <2>2 DEF Awaited
    <3>5. QED  BY <2>2, <3>1, <3>2, <3>3, <3>4 DEF Knows, Connected
  <2>3. ASSUME NEW e \in Entities, NEW i \in entities[e].over
        PROVE  entities[e].sink[i].state = "Connected" /\ entities[e].status = "advertised"
    <3>1. Plain(entities[e], legacy, e)
      BY <2>1 DEF Plainly
    <3>2. QED  BY <2>3, <3>1 DEF Plain
  <2>4. QED  BY <2>2, <2>3 DEF TalkersKnowTheirListeners
<1>2. QED
  BY <1>1, InvariantHolds, PTL

\* The chain of a media clock that is updated from the node that changed on is the one that
\* computeAndUpdateMediaClockChain would compute from nothing, of any number of entities and
\* in loops of any length, and no assertion on chains or transitions fails.
THEOREM ChainsAlwaysCurrent == Spec => []ChainsAreCurrent
<1>1. ASSUME Invariant
      PROVE  ChainsAreCurrent
  <2>1. Linking(entities, legacy) /\ entities \in Everybody /\ failed \subseteq {"Failed to find ChannelConnection"}
    BY <1>1 DEF Invariant, Accounted, Typing
  <2>2. PICK es \in Everybody, online \in SUBSET Entities : es = entities /\ online = Advertised(entities)
    BY <2>1 DEF Advertised
  <2>3. ASSUME NEW e \in online, NEW c, c = es[e].chain,
               \A n \in DOMAIN c : <<c[n].entity, c[n].source>> \notin legacy
        PROVE  c = WholeChain(es, online, e)
    <3>1. e \in Entities /\ Chained(es, online, legacy, e, c)
      BY <2>1, <2>2, <2>3 DEF Linking
    <3>2. ASSUME NEW j \in 1..Len(c)
          PROVE  Placed(es, online, {}, Ended(c), j)
      <4>1. /\ Placed(es, online, legacy, Ended(c), j) /\ Ended(c).chain = c /\ DOMAIN c = 1..Len(c)
            /\ Len(c) \in Nat
        BY <3>1, NodeTyped
      <4>2. \A m \in 1..j : m \in DOMAIN c
        BY <4>1
      <4>3. ~Exempt(legacy, c, j)
        BY <2>3, <4>2 DEF Exempt
      <4>4. QED  BY <4>1, <4>3 DEF Placed
    <3>3. Chained(es, online, {}, e, c)
      BY <3>1, <3>2 DEF Chained, Sound, Ended
    <3>4. PICK d : d = WholeChain(es, online, e)
      OBVIOUS
    <3>5. Chained(es, online, {}, e, d)
      BY <3>1, <3>4, WholeIs
    <3>6. QED  BY <3>3, <3>4, <3>5, ChainIsUnique
  <2>4. QED  BY <2>1, <2>2, <2>3 DEF ChainsAreCurrent
<1>2. QED
  BY <1>1, InvariantHolds, PTL

\* Whatever is mapped, connected or comes last, a cluster is said to be fed by the cluster that
\* its talker maps to the channel it takes (the computeAndUpdateChannelConnection* functions of
\* avdeccControllerImpl.cpp), and by none when nothing feeds it.
THEOREM ClustersAlwaysCurrent == Spec => []ClustersAreCurrent
<1>1. ASSUME Invariant
      PROVE  ClustersAreCurrent
  <2>1. Feeding(entities, outdated, legacy)
    BY <1>1 DEF Invariant, Accounted
  <2>2. SUFFICES ASSUME NEW e \in Advertised(entities) \ outdated, NEW k \in Clusters
                 PROVE  LET c == entities[e]
                            mapping == c.inputMap[k]
                            talker == c.sink[mapping[1]].talker
                        IN IF mapping = None THEN c.fed[k] = Unmapped
                           ELSE <<e, mapping[1]>> \notin legacy =>
                             /\ c.fed[k].from = mapping /\ c.fed[k].talker = talker
                             /\ talker = None \/ entities[talker[1]].status = "offline" => c.fed[k].cluster = None
                             /\ talker # None /\ talker[1] # e /\ entities[talker[1]].status = "advertised" =>
                                  c.fed[k].cluster = entities[talker[1]].outputMap[<<talker[2], mapping[2]>>]
    BY DEF ClustersAreCurrent
  <2>3. PICK f, mapping, talker : /\ f = entities[e].fed[k] /\ mapping = entities[e].inputMap[k]
                                  /\ talker = entities[e].sink[mapping[1]].talker
    OBVIOUS
  <2>4. Fresh(entities, outdated, legacy, e, k)
    BY <2>1 DEF Feeding
  <2>5. CASE mapping = None
    <3>1. f = Unmapped
      BY <2>3, <2>4, <2>5, UnmappedIs DEF Fresh
    <3>2. QED  BY <2>3, <2>5, <3>1
  <2>6. CASE mapping # None
    <3>1. /\ f.from = mapping
          /\ <<e, mapping[1]>> \notin legacy => Fed(entities, e, f, mapping)
      BY <2>3, <2>4, <2>6 DEF Fresh
    <3>2. QED  BY <2>3, <2>6, <3>1 DEF Fed
  <2>7. QED  BY <2>5, <2>6
<1>2. QED
  BY <1>1, InvariantHolds, PTL
=============================================================================
