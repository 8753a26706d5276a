--------------------------- MODULE GreylistProofs ---------------------------
(***************************************************************************)
(* Theorems about the greylist zone, for any number of workers, clients,   *)
(* rules, configurations and nodes, and about its buckets: what they let   *)
(* through, in which order they are forgotten, and that clients do not     *)
(* share them.                                                             *)
(***************************************************************************)
EXTENDS GreylistRate, FiniteSetTheorems, SequenceTheorems, TLAPS

-----------------------------------------------------------------------------
(* The LRU queue                                                           *)

\* Unlinking an element of a queue without duplicates closes the gap it leaves
\* (ngx_queue_remove).
LEMMA UnlinkPlaces ==
    ASSUME NEW S, NEW q \in Seq(S), IsInjective(q), NEW k \in ToSet(q)
    PROVE  \E i \in 1..Len(q) :
             /\ q[i] = k
             /\ RemoveFirst(q, k) \in Seq(S)
             /\ Len(RemoveFirst(q, k)) = Len(q) - 1
             /\ \A j \in 1..(Len(q) - 1) :
                  RemoveFirst(q, k)[j] = IF j < i THEN q[j] ELSE q[j + 1]
<1>1. PICK i \in 1..Len(q) : q[i] = k
  BY DEF ToSet
<1>2. {j \in 1..Len(q) : q[j] = k} = {i}
  BY <1>1 DEF IsInjective
<1>3. Min({i}) = i
  BY DEF Min
<1>4. SelectInSeq(q, LAMBDA v : v = k) = i
  BY <1>2, <1>3 DEF SelectInSeq
<1>5. RemoveFirst(q, k) = RemoveAt(q, i)
  BY <1>1, <1>4 DEF RemoveFirst
<1> DEFINE r == RemoveAt(q, i)
<1>6. /\ r \in Seq(S)
      /\ Len(r) = Len(q) - 1
      /\ \A j \in 1..Len(r) : r[j] = IF j < i THEN q[j] ELSE q[j + 1]
  <2> DEFINE a == SubSeq(q, 1, i - 1)
             b == SubSeq(q, i + 1, Len(q))
  <2>0. Len(q) \in Nat /\ \A j \in 1..Len(q) : q[j] \in S
    OBVIOUS
  <2>1. a \in Seq(S) /\ Len(a) = i - 1 /\ \A j \in 1..(i - 1) : a[j] = q[j]
    BY <1>1, <2>0, SubSeqProperties
  <2>2. /\ b \in Seq(S) /\ Len(b) = Len(q) - i
        /\ \A j \in 1..(Len(q) - i) : b[j] = q[i + j]
    BY <1>1, <2>0, SubSeqProperties
  <2> HIDE DEF a, b
  <2>3. /\ a \o b \in Seq(S) /\ Len(a \o b) = Len(a) + Len(b)
        /\ \A j \in 1..(Len(a) + Len(b)) :
             (a \o b)[j] = IF j <= Len(a) THEN a[j] ELSE b[j - Len(a)]
    BY <2>1, <2>2, ConcatProperties
  <2>4. r = a \o b
    BY DEF RemoveAt, a, b
  <2> HIDE DEF r
  <2>5. r \in Seq(S) /\ Len(r) = Len(q) - 1
    BY <2>0, <2>1, <2>2, <2>3, <2>4
  <2>6. ASSUME NEW j \in 1..Len(r)
        PROVE  r[j] = IF j < i THEN q[j] ELSE q[j + 1]
    <3>1. r[j] = IF j <= i - 1 THEN a[j] ELSE b[j - (i - 1)]
      BY <2>0, <2>1, <2>2, <2>3, <2>4, <2>5
    <3>2. CASE j < i
      BY <3>1, <3>2, <2>1
    <3>3. CASE ~(j < i)
      <4>1. j - (i - 1) \in 1..(Len(q) - i)
        BY <3>3, <2>0, <2>5
      <4>2. b[j - (i - 1)] = q[i + (j - (i - 1))]
        BY <4>1, <2>2
      <4>3. QED BY <4>2, <3>1, <3>3
    <3>4. QED BY <3>2, <3>3
  <2>7. QED BY <2>5, <2>6
<1>7. QED BY <1>1, <1>5, <1>6

\* What is left is a queue without duplicates, with the other elements.
LEMMA UnlinkFacts ==
    ASSUME NEW S, NEW q \in Seq(S), IsInjective(q), NEW k \in ToSet(q)
    PROVE  /\ RemoveFirst(q, k) \in Seq(S)
           /\ IsInjective(RemoveFirst(q, k))
           /\ ToSet(RemoveFirst(q, k)) = ToSet(q) \ {k}
<1> DEFINE r == RemoveFirst(q, k)
<1>1. PICK i \in 1..Len(q) :
        /\ q[i] = k
        /\ r \in Seq(S)
        /\ Len(r) = Len(q) - 1
        /\ \A j \in 1..(Len(q) - 1) : r[j] = IF j < i THEN q[j] ELSE q[j + 1]
  BY UnlinkPlaces
<1>2. \A j \in 1..Len(r) : r[j] = IF j < i THEN q[j] ELSE q[j + 1]
  BY <1>1
<1>3. DOMAIN r = 1..Len(r) /\ DOMAIN q = 1..Len(q)
  BY <1>1
<1> HIDE DEF r
<1>4. IsInjective(r)
  BY <1>1, <1>2, <1>3 DEF IsInjective
<1>5. ToSet(r) = ToSet(q) \ {k}
  <2>1. ASSUME NEW x \in ToSet(r) PROVE x \in ToSet(q) \ {k}
    BY <1>1, <1>2, <1>3 DEF ToSet, IsInjective
  <2>2. ASSUME NEW x \in ToSet(q), x # k PROVE x \in ToSet(r)
    <3>1. PICK j \in 1..Len(q) : q[j] = x
      BY <1>3 DEF ToSet
    <3>2. CASE j < i
      BY <3>1, <3>2, <1>1, <1>2, <1>3 DEF ToSet
    <3>3. CASE j > i
      <4>1. j - 1 \in 1..Len(r) /\ r[j - 1] = x
        BY <3>1, <3>3, <1>1, <1>2
      <4>2. QED BY <4>1, <1>3 DEF ToSet
    <3>4. QED BY <3>1, <3>2, <3>3, <2>2, <1>1
  <2>3. QED BY <2>1, <2>2
<1>6. QED BY <1>1, <1>4, <1>5 DEF r

\* Linking a new element at the head (ngx_queue_insert_head).
LEMMA LinkFacts ==
    ASSUME NEW S, NEW q \in Seq(S), IsInjective(q), NEW k \in S, k \notin ToSet(q)
    PROVE  /\ Cons(k, q) \in Seq(S)
           /\ IsInjective(Cons(k, q))
           /\ ToSet(Cons(k, q)) = ToSet(q) \cup {k}
<1> DEFINE r == Cons(k, q)
<1>1. /\ r \in Seq(S)
      /\ Len(r) = Len(q) + 1
      /\ \A j \in 1..Len(r) : r[j] = IF j = 1 THEN k ELSE q[j - 1]
  BY DEF Cons
<1>2. DOMAIN r = 1..Len(r) /\ DOMAIN q = 1..Len(q)
  BY <1>1
<1> HIDE DEF r
<1>3. IsInjective(r)
  <2>1. \A j \in 1..Len(q) : q[j] # k
    BY <1>2 DEF ToSet
  <2>2. \A a, b \in 1..Len(q) : q[a] = q[b] => a = b
    BY <1>2 DEF IsInjective
  <2>3. ASSUME NEW a \in 1..Len(r), NEW b \in 1..Len(r), r[a] = r[b] PROVE a = b
    <3>1. CASE a = 1 \/ b = 1
      BY <1>1, <2>1, <2>3, <3>1
    <3>2. CASE a # 1 /\ b # 1
      <4>1. a - 1 \in 1..Len(q) /\ b - 1 \in 1..Len(q) /\ q[a - 1] = q[b - 1]
        BY <1>1, <2>3, <3>2
      <4>2. a - 1 = b - 1 BY <4>1, <2>2
      <4>3. QED BY <4>2
    <3>3. QED BY <3>1, <3>2
  <2>4. QED BY <1>2, <2>3 DEF IsInjective
<1>4. ToSet(r) = ToSet(q) \cup {k}
  <2>1. ASSUME NEW x \in ToSet(r) PROVE x \in ToSet(q) \cup {k}
    BY <1>1, <1>2 DEF ToSet
  <2>2. k \in ToSet(r)
    BY <1>1, <1>2 DEF ToSet
  <2>3. ASSUME NEW x \in ToSet(q) PROVE x \in ToSet(r)
    <3>1. PICK j \in 1..Len(q) : q[j] = x
      BY <1>2 DEF ToSet
    <3>2. j + 1 \in 1..Len(r) /\ r[j + 1] = x
      BY <3>1, <1>1
    <3>3. QED BY <3>2, <1>2 DEF ToSet
  <2>4. QED BY <2>1, <2>2, <2>3
<1>5. QED BY <1>1, <1>3, <1>4 DEF r

-----------------------------------------------------------------------------
(* The zone                                                                *)

\* A zone whose tree and queue agree, with nodes of the right types and no more
\* of them than the slab holds.
Sound(z) ==
    /\ Keys(z) \subseteq Key
    /\ z.tree \in [Keys(z) -> Node]
    /\ z.queue \in Seq(Key)
    /\ ToSet(z.queue) = Keys(z)
    /\ IsInjective(z.queue)
    /\ IsFiniteSet(Keys(z))
    /\ Cardinality(Keys(z)) <= Capacity

\* The nodes of S are the same in both zones.
Agree(y, z, S) == \A k \in S : y.tree[k] = z.tree[k]

\* Freeing a node leaves a sound zone with the other nodes as they were.
LEMMA DropSound ==
    ASSUME NEW z, Sound(z), NEW k \in Keys(z)
    PROVE  /\ Sound(Drop(z, k))
           /\ Keys(Drop(z, k)) = Keys(z) \ {k}
           /\ Agree(Drop(z, k), z, Keys(z) \ {k})
           /\ Cardinality(Keys(Drop(z, k))) = Cardinality(Keys(z)) - 1
<1> DEFINE y == Drop(z, k)
<1>1. /\ y.tree = [j \in Keys(z) \ {k} |-> z.tree[j]]
      /\ y.queue = RemoveFirst(z.queue, k)
  BY DEF Drop
<1>2. Keys(y) = Keys(z) \ {k}
  BY <1>1 DEF Keys
<1>3. y.tree \in [Keys(y) -> Node] /\ Agree(y, z, Keys(z) \ {k})
  BY <1>1, <1>2 DEF Sound, Agree
<1>4. /\ y.queue \in Seq(Key) /\ IsInjective(y.queue)
      /\ ToSet(y.queue) = ToSet(z.queue) \ {k}
  <2>1. z.queue \in Seq(Key) /\ IsInjective(z.queue) /\ k \in ToSet(z.queue)
    BY DEF Sound
  <2>2. QED BY <1>1, <2>1, UnlinkFacts
<1>5. /\ IsFiniteSet(Keys(y))
      /\ Cardinality(Keys(y)) = Cardinality(Keys(z)) - 1
  BY <1>2, FS_RemoveElement DEF Sound
<1>6. Cardinality(Keys(z)) \in Nat
  BY FS_CardinalityType DEF Sound
<1> HIDE DEF y
<1>7. Sound(y)
  BY <1>2, <1>3, <1>4, <1>5, <1>6, CapacityAssumption DEF Sound
<1>8. QED BY <1>2, <1>3, <1>5, <1>7 DEF y

\* A new node fits a sound zone that has room.
LEMMA InsertSound ==
    ASSUME NEW z, Sound(z), HasRoom(z),
           NEW k \in Key, k \notin Keys(z), NEW node \in Node
    PROVE  /\ Sound(Insert(z, k, node))
           /\ Keys(Insert(z, k, node)) = Keys(z) \cup {k}
           /\ Agree(Insert(z, k, node), z, Keys(z))
           /\ Insert(z, k, node).tree[k] = node
<1> DEFINE y == Insert(z, k, node)
<1>1. /\ y.tree = [j \in Keys(z) \cup {k} |-> IF j = k THEN node ELSE z.tree[j]]
      /\ y.queue = Cons(k, z.queue)
  BY DEF Insert
<1>2. Keys(y) = Keys(z) \cup {k}
  BY <1>1 DEF Keys
<1>3. y.tree \in [Keys(y) -> Node] /\ Agree(y, z, Keys(z)) /\ y.tree[k] = node
  BY <1>1, <1>2 DEF Sound, Agree
<1>4. /\ y.queue \in Seq(Key) /\ IsInjective(y.queue)
      /\ ToSet(y.queue) = ToSet(z.queue) \cup {k}
  <2>1. z.queue \in Seq(Key) /\ IsInjective(z.queue) /\ k \notin ToSet(z.queue)
    BY DEF Sound
  <2>2. QED BY <1>1, <2>1, LinkFacts
<1>5. IsFiniteSet(Keys(y)) /\ Cardinality(Keys(y)) = Cardinality(Keys(z)) + 1
  BY <1>2, FS_AddElement DEF Sound
<1>6. Cardinality(Keys(z)) \in Nat /\ Cardinality(Keys(z)) < Capacity
  BY FS_CardinalityType DEF Sound, HasRoom
<1> HIDE DEF y
<1>7. Sound(y)
  BY <1>2, <1>3, <1>4, <1>5, <1>6, CapacityAssumption DEF Sound
<1>8. QED BY <1>2, <1>3, <1>7 DEF y

\* Updating a node moves it to the head of the queue and changes nothing else.
LEMMA TouchSound ==
    ASSUME NEW z, Sound(z), NEW k \in Keys(z), NEW node \in Node
    PROVE  /\ Sound(Touch(z, k, node))
           /\ Keys(Touch(z, k, node)) = Keys(z)
           /\ Agree(Touch(z, k, node), z, Keys(z) \ {k})
<1> DEFINE y == Touch(z, k, node)
<1>1. /\ y.tree = [z.tree EXCEPT ![k] = node]
      /\ y.queue = Cons(k, RemoveFirst(z.queue, k))
  BY DEF Touch
<1>2. Keys(y) = Keys(z) /\ y.tree \in [Keys(y) -> Node] /\ Agree(y, z, Keys(z) \ {k})
  BY <1>1 DEF Sound, Keys, Agree
<1>3. /\ z.queue \in Seq(Key) /\ IsInjective(z.queue)
      /\ k \in ToSet(z.queue) /\ k \in Key
  BY DEF Sound
<1> DEFINE q == RemoveFirst(z.queue, k)
<1>4. q \in Seq(Key) /\ IsInjective(q) /\ ToSet(q) = ToSet(z.queue) \ {k}
  BY <1>3, UnlinkFacts
<1> HIDE DEF q
<1>5. /\ Cons(k, q) \in Seq(Key) /\ IsInjective(Cons(k, q))
      /\ ToSet(Cons(k, q)) = ToSet(q) \cup {k}
  BY <1>3, <1>4, LinkFacts
<1>6. ToSet(y.queue) = Keys(y)
  BY <1>1, <1>2, <1>3, <1>4, <1>5 DEF q, Sound
<1>7. y.queue \in Seq(Key) /\ IsInjective(y.queue)
  BY <1>1, <1>5 DEF q
<1> HIDE DEF y
<1>8. Sound(y)
  BY <1>2, <1>6, <1>7 DEF Sound
<1>9. QED BY <1>2, <1>8 DEF y

\* The collector frees at most the node at the tail, and only a collectable one.
LEMMA ExpireSound ==
    ASSUME NEW z, Sound(z), NEW now, NEW timeout
    PROVE  \/ Expire(z, now, timeout) = z
           \/ \E k \in Keys(z) :
                /\ Collectable(k, z.tree[k], now, timeout)
                /\ Expire(z, now, timeout) = Drop(z, k)
<1>1. CASE z.queue = <<>>
  BY <1>1 DEF Expire
<1>2. CASE z.queue # <<>>
  <2>1. Last(z.queue) \in Keys(z)
    BY <1>2 DEF Sound, ToSet, Last
  <2>2. QED BY <2>1 DEF Expire
<1>3. QED BY <1>1, <1>2

-----------------------------------------------------------------------------
(* What a step may do to the greylist                                      *)

\* The inductive invariant: besides types and consistency, an entry's expiry is
\* never 0, the value that stands for "no entry" in the abstract view.
IInv ==
    /\ TypeOK
    /\ Sound(zone)
    /\ \A c \in Client : GLKey(c) \in Keys(zone) => zone.tree[GLKey(c)].expiry > 0

\* Of the greylist entries of S, y holds those of z except some that lapsed.
Forgets(y, z, S) ==
    \A d \in S :
      /\ GLKey(d) \in Keys(y) => /\ GLKey(d) \in Keys(z)
                                /\ y.tree[GLKey(d)] = z.tree[GLKey(d)]
      /\ GLKey(d) \in Keys(z) /\ GLKey(d) \notin Keys(y)
         => z.tree[GLKey(d)].expiry <= Wall(clock)

\* c has a sentence to serve, by the real clock.
Active(c) ==
    GLKey(c) \in Keys(zone) /\ Wall(clock) < zone.tree[GLKey(c)].expiry

\* The keys of entries and buckets differ.
LEMMA KeyFacts ==
    /\ \A c \in Client : GLKey(c) \in Key
    /\ \A i \in RuleIndex, c \in Client : RLKey(i, c) \in Key
    /\ \A c, d : GLKey(c) = GLKey(d) => c = d
    /\ \A i, c, d : RLKey(i, c) # GLKey(d)
<1>1. \A c \in Client : GLKey(c) \in Key
  BY DEF Key
<1>2. \A i \in RuleIndex, c \in Client : RLKey(i, c) \in Key
  BY DEF Key
<1>3. \A c, d : GLKey(c) = GLKey(d) => c = d
  <2>1. \A c : GLKey(c).client = c
    BY DEF GLKey
  <2>2. QED BY <2>1
<1>4. \A i, c, d : RLKey(i, c) # GLKey(d)
  <2>1. \A i, c : RLKey(i, c).type = "RL"
    BY DEF RLKey
  <2>2. \A c : GLKey(c).type = "GL"
    BY DEF GLKey
  <2>3. "RL" # "GL"
    OBVIOUS
  <2>4. QED BY <2>1, <2>2, <2>3
<1>5. QED BY <1>1, <1>2, <1>3, <1>4

\* A worker's clocks are never ahead of the real ones.
LEMMA ClockFacts ==
    ASSUME TypeOK, NEW w \in Worker
    PROVE  /\ cached[w] \in Nat /\ Now(w) \in Nat
           /\ Wall(clock) \in Nat /\ Now(w) <= Wall(clock)
<1>1. cached[w] \in Nat /\ clock \in Nat /\ cached[w] <= clock
  BY DEF TypeOK
<1>2. QED BY <1>1, ClockAssumption DEF Now, Wall

\* A worker's configuration, and a rule that matches, are of the right types.
LEMMA ConfFacts ==
    ASSUME TypeOK, NEW w \in Worker
    PROVE  /\ Conf(w).timeout \in Nat
           /\ \A s, i : FirstMatch(Conf(w).rules, s, i) => Conf(w).rules[i] \in Rule
<1>1. gen[w] \in DOMAIN Config
  <2>1. Config \in Seq([timeout : Nat \ {0}, rules : Seq(Rule)])
    BY ConfigAssumption
  <2>2. DOMAIN Config = 1..Len(Config) /\ Len(Config) \in Nat
    BY <2>1
  <2>3. gen[w] \in 1..latest /\ latest \in DOMAIN Config
    BY DEF TypeOK
  <2>4. QED BY <2>2, <2>3
<1> DEFINE T == [timeout : Nat \ {0}, rules : Seq(Rule)]
<1>2. Config \in Seq(T)
  BY ConfigAssumption
<1> HIDE DEF T
<1>3. Conf(w) \in T
  BY <1>1, <1>2 DEF Conf
<1>4. Conf(w).timeout \in Nat /\ Conf(w).rules \in Seq(Rule)
  BY <1>3 DEF T
<1> HIDE DEF Rule
<1>5. QED BY <1>4 DEF FirstMatch

\* A bucket's level is a natural number whatever the clocks say.
LEMMA ExcessFacts ==
    ASSUME NEW rule \in Rule, NEW node \in Node, NEW now_ms \in Nat
    PROVE  NewExcess(rule, node, now_ms) \in Nat
<1> DEFINE p == rule.rate * (now_ms - node.last_ms)
<1>1. p \in Int /\ node.excess \in Nat
  BY DEF Rule, Node
<1> HIDE DEF p
<1>2. p % Word \in Int
  BY <1>1, WordAssumption
<1>3. (p % Word) \div 1000 \in Int
  BY <1>2
<1>4. Leak(rule.rate, now_ms - node.last_ms) = (p % Word) \div 1000
  BY DEF Leak, p
<1>5. QED BY <1>1, <1>3, <1>4 DEF NewExcess

\* Forgetting lapsed entries twice is forgetting lapsed entries.
LEMMA ForgetsTransitive ==
    ASSUME NEW x, NEW y, NEW z, NEW S, Forgets(x, y, S), Forgets(y, z, S)
    PROVE  Forgets(x, z, S)
  BY DEF Forgets

\* A client that is not refused in phase 1 has no entry afterwards, and had none
\* with time left.
LEMMA AdmittedFacts ==
    ASSUME IInv, NEW w \in Worker, NEW c \in Client, ~Greylisted(w, c)
    PROVE  /\ Sound(Admitted(c))
           /\ Keys(Admitted(c)) = Keys(zone) \ {GLKey(c)}
           /\ Agree(Admitted(c), zone, Keys(zone) \ {GLKey(c)})
           /\ Forgets(Admitted(c), zone, Client)
           /\ ~Active(c)
<1>1. GLKey(c) \in Keys(zone) => /\ zone.tree[GLKey(c)].expiry \in Nat
                                 /\ zone.tree[GLKey(c)].expiry <= Wall(clock)
  <2> SUFFICES ASSUME GLKey(c) \in Keys(zone)
               PROVE  /\ zone.tree[GLKey(c)].expiry \in Nat
                      /\ zone.tree[GLKey(c)].expiry <= Wall(clock)
    OBVIOUS
  <2>1. zone.tree[GLKey(c)].expiry \in Nat
    BY DEF IInv, Sound, Node
  <2>2. Now(w) \in Nat /\ Wall(clock) \in Nat /\ Now(w) <= Wall(clock)
    BY ClockFacts DEF IInv
  <2>3. zone.tree[GLKey(c)].expiry <= Now(w)
    BY <2>1, <2>2 DEF Greylisted
  <2>4. QED BY <2>1, <2>2, <2>3
<1>2. CASE GLKey(c) \in Keys(zone)
  <2>1. Admitted(c) = Drop(zone, GLKey(c))
    BY <1>2 DEF Admitted
  <2>2. /\ Sound(Admitted(c))
        /\ Keys(Admitted(c)) = Keys(zone) \ {GLKey(c)}
        /\ Agree(Admitted(c), zone, Keys(zone) \ {GLKey(c)})
    BY <2>1, <1>2, DropSound DEF IInv
  <2>3. Forgets(Admitted(c), zone, Client)
    BY <1>1, <2>2, KeyFacts DEF Forgets, Agree
  <2>4. ~Active(c)
    BY <1>1, ClockFacts DEF Active, IInv
  <2>5. QED BY <2>2, <2>3, <2>4
<1>3. CASE GLKey(c) \notin Keys(zone)
  <2>1. Admitted(c) = zone
    BY <1>3 DEF Admitted
  <2>2. QED BY <1>3, <2>1 DEF IInv, Agree, Forgets, Active
<1>4. QED BY <1>2, <1>3

\* The collector forgets only lapsed entries, and adds nothing.
LEMMA ExpireFacts ==
    ASSUME TypeOK, NEW w \in Worker, NEW z, Sound(z)
    PROVE  /\ Sound(Expire(z, Now(w), Conf(w).timeout))
           /\ Forgets(Expire(z, Now(w), Conf(w).timeout), z, Client)
           /\ Keys(Expire(z, Now(w), Conf(w).timeout)) \subseteq Keys(z)
<1> DEFINE y == Expire(z, Now(w), Conf(w).timeout)
<1>1. CASE y = z
  BY <1>1 DEF Forgets
<1>2. ASSUME NEW k \in Keys(z), y = Drop(z, k),
             Collectable(k, z.tree[k], Now(w), Conf(w).timeout)
      PROVE  Sound(y) /\ Forgets(y, z, Client) /\ Keys(y) \subseteq Keys(z)
  <2>1. /\ Sound(y) /\ Keys(y) = Keys(z) \ {k} /\ Agree(y, z, Keys(z) \ {k})
    BY <1>2, DropSound
  <2> HIDE DEF y
  <2>2. ASSUME NEW d \in Client, k = GLKey(d)
        PROVE  z.tree[k].expiry <= Wall(clock)
    <3>1. z.tree[k].expiry \in Nat
      BY DEF Sound, Node
    <3>2. Now(w) >= z.tree[k].expiry + Conf(w).timeout
      BY <1>2, <2>2 DEF Collectable, GLKey
    <3>3. QED BY <3>1, <3>2, ClockFacts, ConfFacts
  <2>3. Forgets(y, z, Client)
    BY <2>1, <2>2 DEF Forgets, Agree
  <2>4. QED BY <2>1, <2>3
<1>3. y = z \/ \E k \in Keys(z) : /\ Collectable(k, z.tree[k], Now(w), Conf(w).timeout)
                                  /\ y = Drop(z, k)
  BY ExpireSound
<1>4. QED BY <1>1, <1>2, <1>3

\* A bucket that is used neither adds nor removes an entry.
LEMMA UseBucketFacts ==
    ASSUME IInv, NEW w \in Worker, NEW c \in Client, ~Greylisted(w, c),
           NEW i \in RuleIndex, RLKey(i, c) \in Keys(zone), NEW excess \in Nat
    PROVE  LET z == Touch(Admitted(c), RLKey(i, c), RLNode(cached[w], excess))
           IN  /\ Sound(z)
               /\ Forgets(z, zone, Client)
               /\ GLKey(c) \notin Keys(z)
<1> DEFINE z == Touch(Admitted(c), RLKey(i, c), RLNode(cached[w], excess))
<1>1. /\ Sound(Admitted(c)) /\ Forgets(Admitted(c), zone, Client)
      /\ Keys(Admitted(c)) = Keys(zone) \ {GLKey(c)}
  BY AdmittedFacts
<1>2. RLKey(i, c) \in Keys(Admitted(c))
  BY <1>1, KeyFacts
<1>3. RLNode(cached[w], excess) \in Node
  BY ClockFacts DEF IInv, RLNode, Node
<1>4. /\ Sound(z) /\ Keys(z) = Keys(Admitted(c))
      /\ Agree(z, Admitted(c), Keys(Admitted(c)) \ {RLKey(i, c)})
  BY <1>1, <1>2, <1>3, TouchSound
<1> HIDE DEF z
<1>5. Forgets(z, Admitted(c), Client)
  BY <1>4, KeyFacts DEF Forgets, Agree
<1>6. QED BY <1>1, <1>4, <1>5, ForgetsTransitive DEF z

-----------------------------------------------------------------------------
(* What a request may do                                                   *)

Served(c) ==
    /\ ~Active(c)
    /\ reply'.status = "declined"
    /\ Forgets(zone', zone, Client)

Refused(c) ==
    /\ GLKey(c) \in Keys(zone)
    /\ zone' = zone
    /\ reply'.status = "429"
    /\ reply'.retry_after > 0
    /\ Wall(clock) + reply'.retry_after >= zone.tree[GLKey(c)].expiry

Sentenced(c) ==
    /\ ~Active(c)
    /\ reply'.status = "429"
    /\ reply'.retry_after > 0
    /\ Forgets(zone', zone, Client \ {c})
    /\ GLKey(c) \in Keys(zone') =>
         /\ zone'.tree[GLKey(c)].expiry > 0
         /\ Wall(clock) + reply'.retry_after >= zone'.tree[GLKey(c)].expiry

Outcome(c) ==
    /\ Sound(zone')
    /\ reply' \in Reply
    /\ reply'.client = c
    /\ UNCHANGED <<clock, cached, gen, latest>>
    /\ Served(c) \/ Refused(c) \/ Sentenced(c)

\* The replies are replies, with the fields they are made with.
LEMMA ReplyFacts ==
    ASSUME NEW c \in Client
    PROVE  /\ Declined(c) \in Reply /\ Declined(c).client = c
           /\ Declined(c).status = "declined"
           /\ \A s \in Nat : /\ TooManyRequests(c, s) \in Reply
                             /\ TooManyRequests(c, s).client = c
                             /\ TooManyRequests(c, s).status = "429"
                             /\ TooManyRequests(c, s).retry_after = s
  BY DEF Reply, Declined, TooManyRequests

\* A request under an active entry is refused.
LEMMA BlockOutcome ==
    ASSUME IInv, NEW w \in Worker, NEW c \in Client, Block(w, c)
    PROVE  Outcome(c)
<1>1. GLKey(c) \in Keys(zone) /\ zone' = zone
  BY DEF Block, Greylisted
<1> DEFINE e == zone.tree[GLKey(c)].expiry
<1>2. e \in Nat
  BY <1>1 DEF IInv, Sound, Node
<1>3. Now(w) \in Nat /\ Wall(clock) \in Nat /\ Now(w) <= Wall(clock)
  BY ClockFacts DEF IInv
<1>4. Now(w) < e /\ reply' = TooManyRequests(c, e - Now(w))
  BY DEF Block, Greylisted, Answer
<1> HIDE DEF e
<1>5. /\ e - Now(w) \in Nat /\ e - Now(w) > 0
      /\ Wall(clock) + (e - Now(w)) >= e
  BY <1>2, <1>3, <1>4
<1>6. /\ reply' \in Reply /\ reply'.client = c /\ reply'.status = "429"
      /\ reply'.retry_after = e - Now(w)
  BY <1>4, <1>5, ReplyFacts
<1>7. Refused(c)
  BY <1>1, <1>5, <1>6 DEF Refused, e
<1>8. QED BY <1>1, <1>6, <1>7 DEF Outcome, Block, Answer, IInv

\* A request that no rule matches is served.
LEMMA PassUnmatchedOutcome ==
    ASSUME IInv, NEW w \in Worker, NEW c \in Client, NEW s, PassUnmatched(w, c, s)
    PROVE  Outcome(c)
<1>1. ~Greylisted(w, c) /\ zone' = Admitted(c) /\ reply' = Declined(c)
  BY DEF PassUnmatched, Answer
<1>2. Sound(zone') /\ Served(c)
  BY <1>1, AdmittedFacts, ReplyFacts DEF Served
<1>3. QED BY <1>1, <1>2, ReplyFacts DEF Outcome, PassUnmatched, Answer

\* Collecting after phase 1, before a bucket is started.
LEMMA CollectFacts ==
    ASSUME IInv, NEW w \in Worker, NEW z, Sound(z), Forgets(z, zone, Client)
    PROVE  LET y == Expire(z, Now(w), Conf(w).timeout)
           IN  /\ Sound(y)
               /\ Forgets(y, zone, Client)
               /\ Keys(y) \subseteq Keys(z)
  BY ExpireFacts, ForgetsTransitive DEF IInv

\* The first request under a rule is served.
LEMMA StartBucketOutcome ==
    ASSUME IInv, NEW w \in Worker, NEW c \in Client, NEW s, NEW i \in RuleIndex,
           StartBucket(w, c, s, i)
    PROVE  Outcome(c)
<1> DEFINE y == Expire(Admitted(c), Now(w), Conf(w).timeout)
           node == RLNode(cached[w], 0)
<1>1. /\ ~Greylisted(w, c) /\ RLKey(i, c) \notin Keys(zone) /\ HasRoom(y)
      /\ zone' = Insert(y, RLKey(i, c), node) /\ reply' = Declined(c)
  BY DEF StartBucket, Answer
<1>2. /\ Sound(Admitted(c)) /\ Forgets(Admitted(c), zone, Client) /\ ~Active(c)
      /\ Keys(Admitted(c)) \subseteq Keys(zone)
  BY <1>1, AdmittedFacts
<1>3. Sound(y) /\ Forgets(y, zone, Client) /\ Keys(y) \subseteq Keys(Admitted(c))
  BY <1>2, CollectFacts
<1>4. node \in Node
  BY ClockFacts DEF IInv, RLNode, Node
<1> HIDE DEF y, node
<1>5. /\ Sound(zone') /\ Keys(zone') = Keys(y) \cup {RLKey(i, c)}
      /\ Agree(zone', y, Keys(y))
  BY <1>1, <1>2, <1>3, <1>4, KeyFacts, InsertSound
<1>6. Forgets(zone', y, Client)
  BY <1>5, KeyFacts DEF Forgets, Agree
<1>7. Forgets(zone', zone, Client)
  BY <1>3, <1>6, ForgetsTransitive
<1>8. Served(c)
  BY <1>1, <1>2, <1>7, ReplyFacts DEF Served
<1>9. QED BY <1>1, <1>5, <1>8, ReplyFacts DEF Outcome, StartBucket, Answer

\* A request whose bucket does not fit the slab is served.
LEMMA PassUntrackedOutcome ==
    ASSUME IInv, NEW w \in Worker, NEW c \in Client, NEW s, NEW i \in RuleIndex,
           PassUntracked(w, c, s, i)
    PROVE  Outcome(c)
<1>1. /\ ~Greylisted(w, c) /\ reply' = Declined(c)
      /\ zone' = Expire(Admitted(c), Now(w), Conf(w).timeout)
  BY DEF PassUntracked, Answer
<1>2. Sound(Admitted(c)) /\ Forgets(Admitted(c), zone, Client) /\ ~Active(c)
  BY <1>1, AdmittedFacts
<1>3. Sound(zone') /\ Forgets(zone', zone, Client)
  BY <1>1, <1>2, CollectFacts
<1>4. Served(c)
  BY <1>1, <1>2, <1>3, ReplyFacts DEF Served
<1>5. QED BY <1>1, <1>3, <1>4, ReplyFacts DEF Outcome, PassUntracked, Answer

\* The rule and the level of a request in a bucket.
LEMMA InBucketFacts ==
    ASSUME IInv, NEW w \in Worker, NEW c \in Client, NEW s, NEW i \in RuleIndex,
           NEW excess, InBucket(w, c, s, i, excess)
    PROVE  /\ ~Greylisted(w, c) /\ RLKey(i, c) \in Keys(zone)
           /\ excess \in Nat
           /\ Conf(w).rules[i].duration \in Nat \ {0}
<1>1. ~Greylisted(w, c) /\ RLKey(i, c) \in Keys(zone)
  BY DEF InBucket
<1>2. Conf(w).rules[i] \in Rule
  BY ConfFacts DEF IInv, InBucket
<1>3. zone.tree[RLKey(i, c)] \in Node
  BY <1>1 DEF IInv, Sound
<1>4. NewExcess(Conf(w).rules[i], zone.tree[RLKey(i, c)], cached[w]) \in Nat
  BY <1>2, <1>3, ClockFacts, ExcessFacts DEF IInv
<1>5. excess \in Nat
  BY <1>4 DEF InBucket
<1>6. QED BY <1>1, <1>2, <1>5 DEF Rule

\* A request within the burst is served.
LEMMA PassWithinRateOutcome ==
    ASSUME IInv, NEW w \in Worker, NEW c \in Client, NEW s, NEW i \in RuleIndex,
           PassWithinRate(w, c, s, i)
    PROVE  Outcome(c)
<1> DEFINE excess == NewExcess(Conf(w).rules[i], zone.tree[RLKey(i, c)], cached[w])
<1>1. /\ InBucket(w, c, s, i, excess) /\ reply' = Declined(c)
      /\ zone' = Touch(Admitted(c), RLKey(i, c), RLNode(cached[w], excess))
  BY DEF PassWithinRate, Answer
<1> HIDE DEF excess
<1>2. ~Greylisted(w, c) /\ RLKey(i, c) \in Keys(zone) /\ excess \in Nat
  BY <1>1, InBucketFacts
<1>3. Sound(zone') /\ Forgets(zone', zone, Client) /\ ~Active(c)
  BY <1>1, <1>2, UseBucketFacts, AdmittedFacts
<1>4. Served(c)
  BY <1>1, <1>3, ReplyFacts DEF Served
<1>5. QED BY <1>1, <1>3, <1>4, ReplyFacts DEF Outcome, PassWithinRate, Answer

\* Above the burst the zone has forgotten lapsed entries only, and c has none.
LEMMA OverflowedFacts ==
    ASSUME IInv, NEW w \in Worker, NEW c \in Client, ~Greylisted(w, c),
           NEW i \in RuleIndex, RLKey(i, c) \in Keys(zone), NEW excess \in Nat
    PROVE  /\ Sound(Overflowed(w, c, i, excess))
           /\ Forgets(Overflowed(w, c, i, excess), zone, Client)
           /\ GLKey(c) \notin Keys(Overflowed(w, c, i, excess))
<1> DEFINE z == Touch(Admitted(c), RLKey(i, c), RLNode(cached[w], excess))
<1>1. Sound(z) /\ Forgets(z, zone, Client) /\ GLKey(c) \notin Keys(z)
  BY UseBucketFacts
<1>2. Overflowed(w, c, i, excess) = Expire(z, Now(w), Conf(w).timeout)
  BY DEF Overflowed
<1> HIDE DEF z
<1>3. QED BY <1>1, <1>2, CollectFacts

\* A request above the burst is sentenced, and its entry recorded.
LEMMA PenaliseOutcome ==
    ASSUME IInv, NEW w \in Worker, NEW c \in Client, NEW s, NEW i \in RuleIndex,
           Penalise(w, c, s, i)
    PROVE  Outcome(c)
<1> DEFINE duration == Conf(w).rules[i].duration
           excess   == NewExcess(Conf(w).rules[i], zone.tree[RLKey(i, c)], cached[w])
           z        == Overflowed(w, c, i, excess)
<1>1. /\ InBucket(w, c, s, i, excess) /\ HasRoom(z)
      /\ zone' = Insert(z, GLKey(c), GLNode(Now(w) + duration))
      /\ reply' = TooManyRequests(c, duration)
  BY DEF Penalise, Answer
<1>2. /\ ~Greylisted(w, c) /\ RLKey(i, c) \in Keys(zone) /\ excess \in Nat
      /\ duration \in Nat \ {0}
  BY <1>1, InBucketFacts
<1> HIDE DEF excess, duration
<1>3. Sound(z) /\ Forgets(z, zone, Client) /\ GLKey(c) \notin Keys(z) /\ ~Active(c)
  BY <1>2, OverflowedFacts, AdmittedFacts
<1>4. Now(w) \in Nat /\ Wall(clock) \in Nat /\ Now(w) <= Wall(clock)
  BY ClockFacts DEF IInv
<1> DEFINE node == GLNode(Now(w) + duration)
<1>5. node \in Node /\ node.expiry = Now(w) + duration
  BY <1>2, <1>4 DEF GLNode, Node
<1> HIDE DEF z, node
<1>6. /\ Sound(zone') /\ Keys(zone') = Keys(z) \cup {GLKey(c)}
      /\ Agree(zone', z, Keys(z)) /\ zone'.tree[GLKey(c)] = node
  BY <1>1, <1>3, <1>5, KeyFacts, InsertSound DEF node
<1>7. Forgets(zone', z, Client \ {c})
  BY <1>6, KeyFacts DEF Forgets, Agree
<1>8. Forgets(zone', zone, Client \ {c})
  <2>1. Forgets(z, zone, Client \ {c})
    BY <1>3 DEF Forgets
  <2>2. QED BY <2>1, <1>7, ForgetsTransitive
<1>9. /\ reply' \in Reply /\ reply'.client = c /\ reply'.status = "429"
      /\ reply'.retry_after = duration
  BY <1>1, <1>2, ReplyFacts
<1>10. /\ zone'.tree[GLKey(c)].expiry > 0
       /\ Wall(clock) + reply'.retry_after >= zone'.tree[GLKey(c)].expiry
  BY <1>2, <1>4, <1>5, <1>6, <1>9
<1>11. Sentenced(c)
  BY <1>2, <1>3, <1>8, <1>9, <1>10 DEF Sentenced
<1>12. QED BY <1>6, <1>9, <1>11 DEF Outcome, Penalise, Answer

\* A request above the burst whose entry does not fit is refused only.
LEMMA RefuseUnrecordedOutcome ==
    ASSUME IInv, NEW w \in Worker, NEW c \in Client, NEW s, NEW i \in RuleIndex,
           RefuseUnrecorded(w, c, s, i)
    PROVE  Outcome(c)
<1> DEFINE duration == Conf(w).rules[i].duration
           excess   == NewExcess(Conf(w).rules[i], zone.tree[RLKey(i, c)], cached[w])
           z        == Overflowed(w, c, i, excess)
<1>1. /\ InBucket(w, c, s, i, excess) /\ zone' = z
      /\ reply' = TooManyRequests(c, duration)
  BY DEF RefuseUnrecorded, Answer
<1>2. /\ ~Greylisted(w, c) /\ RLKey(i, c) \in Keys(zone) /\ excess \in Nat
      /\ duration \in Nat \ {0}
  BY <1>1, InBucketFacts
<1> HIDE DEF excess, duration
<1>3. Sound(z) /\ Forgets(z, zone, Client) /\ GLKey(c) \notin Keys(z) /\ ~Active(c)
  BY <1>2, OverflowedFacts, AdmittedFacts
<1> HIDE DEF z
<1>4. /\ reply' \in Reply /\ reply'.client = c /\ reply'.status = "429"
      /\ reply'.retry_after = duration
  BY <1>1, <1>2, ReplyFacts
<1>5. Sentenced(c)
  BY <1>1, <1>2, <1>3, <1>4 DEF Sentenced, Forgets
<1>6. QED BY <1>1, <1>3, <1>4, <1>5 DEF Outcome, RefuseUnrecorded, Answer

\* Every way out of the handler has an outcome.
LEMMA RequestOutcome ==
    ASSUME IInv, NEW w \in Worker, NEW c \in Client, Request(w, c)
    PROVE  Outcome(c)
<1>1. CASE Block(w, c)
  BY <1>1, BlockOutcome
<1>2. ASSUME NEW s \in Subject, PassUnmatched(w, c, s) PROVE Outcome(c)
  BY <1>2, PassUnmatchedOutcome
<1>3. ASSUME NEW s \in Subject, NEW i \in RuleIndex, Limit(w, c, s, i)
      PROVE  Outcome(c)
  <2>1. CASE StartBucket(w, c, s, i)
    BY <2>1, StartBucketOutcome
  <2>2. CASE PassUntracked(w, c, s, i)
    BY <2>2, PassUntrackedOutcome
  <2>3. CASE PassWithinRate(w, c, s, i)
    BY <2>3, PassWithinRateOutcome
  <2>4. CASE Penalise(w, c, s, i)
    BY <2>4, PenaliseOutcome
  <2>5. CASE RefuseUnrecorded(w, c, s, i)
    BY <2>5, RefuseUnrecordedOutcome
  <2>6. QED BY <1>3, <2>1, <2>2, <2>3, <2>4, <2>5 DEF Limit
<1>4. QED BY <1>1, <1>2, <1>3 DEF Request

-----------------------------------------------------------------------------
(* The invariants                                                          *)

\* The empty zone satisfies the invariant.
LEMMA InitIInv == Init => IInv
<1> SUFFICES ASSUME Init PROVE IInv
  OBVIOUS
<1> DEFINE t == [k \in {} |-> GLNode(0)]
<1>1. zone.tree = t /\ zone.queue = <<>>
  BY DEF Init
<1>2. Keys(zone) = {}
  BY <1>1 DEF Keys
<1>3. zone.tree \in [Keys(zone) -> Node]
  BY <1>1, <1>2
<1>4. /\ zone.queue \in Seq(Key) /\ ToSet(zone.queue) = {} /\ IsInjective(zone.queue)
  BY <1>1 DEF ToSet, IsInjective
<1>5. IsFiniteSet(Keys(zone)) /\ Cardinality(Keys(zone)) <= Capacity
  BY <1>2, FS_EmptySet, CapacityAssumption
<1>6. Sound(zone)
  BY <1>2, <1>3, <1>4, <1>5 DEF Sound
<1>7. 1 \in DOMAIN Config
  <2> DEFINE T == [timeout : Nat \ {0}, rules : Seq(Rule)]
  <2>1. Config \in Seq(T) /\ Config # <<>>
    BY ConfigAssumption
  <2> HIDE DEF T
  <2>2. QED BY <2>1
<1>8. TypeOK
  BY <1>2, <1>3, <1>4, <1>7 DEF Init, TypeOK
<1>9. QED BY <1>2, <1>6, <1>8 DEF IInv

\* Every step keeps the invariant.
LEMMA NextIInv ==
    ASSUME IInv, [Next]_vars
    PROVE  IInv'
<1>1. ASSUME NEW w \in Worker, NEW c \in Client, Request(w, c) PROVE IInv'
  <2>1. Outcome(c)
    BY <1>1, RequestOutcome
  <2>2. Sound(zone)'
    BY <2>1 DEF Outcome, Sound, Keys
  <2>3. TypeOK'
    <3>1. /\ Keys(zone)' \subseteq Key /\ (zone.tree \in [Keys(zone) -> Node])'
          /\ zone'.queue \in Seq(Key)
      BY <2>2 DEF Sound
    <3>2. QED BY <2>1, <3>1 DEF Outcome, IInv, TypeOK
  <2>4. ASSUME NEW d \in Client, GLKey(d) \in Keys(zone')
        PROVE  zone'.tree[GLKey(d)].expiry > 0
    <3>1. CASE Served(c)
      BY <2>4, <3>1 DEF Served, Forgets, IInv
    <3>2. CASE Refused(c)
      BY <2>4, <3>2 DEF Refused, IInv
    <3>3. CASE Sentenced(c)
      BY <2>4, <3>3 DEF Sentenced, Forgets, IInv
    <3>4. QED BY <2>1, <3>1, <3>2, <3>3 DEF Outcome
  <2>5. QED BY <2>2, <2>3, <2>4 DEF IInv, Keys
<1>2. ASSUME UNCHANGED zone, TypeOK' PROVE IInv'
  BY <1>2 DEF IInv, Sound, Keys
<1>3. CASE AdvanceClock
  <2>1. clock' \in Nat /\ clock <= clock'
    BY <1>3, ClockAssumption DEF AdvanceClock, IInv, TypeOK
  <2>2. cached \in [Worker -> 0..clock']
    BY <2>1 DEF IInv, TypeOK
  <2>3. TypeOK'
    BY <1>3, <2>1, <2>2 DEF AdvanceClock, IInv, TypeOK, Keys
  <2>4. QED BY <1>2, <1>3, <2>3 DEF AdvanceClock
<1>4. CASE Reload
  <2>1. latest' \in DOMAIN Config /\ latest' = latest + 1
    BY <1>4 DEF Reload
  <2>2. latest \in Nat
    <3> DEFINE T == [timeout : Nat \ {0}, rules : Seq(Rule)]
    <3>1. Config \in Seq(T) /\ latest \in DOMAIN Config
      BY ConfigAssumption DEF IInv, TypeOK
    <3> HIDE DEF T
    <3>2. QED BY <3>1
  <2>3. gen \in [Worker -> 1..latest']
    BY <2>1, <2>2 DEF IInv, TypeOK
  <2>4. TypeOK'
    BY <1>4, <2>1, <2>3 DEF Reload, IInv, TypeOK, Keys
  <2>5. QED BY <1>2, <1>4, <2>4 DEF Reload
<1>5. ASSUME NEW w \in Worker, UpdateTime(w) PROVE IInv'
  <2>1. cached' \in [Worker -> 0..clock]
    BY <1>5 DEF UpdateTime, IInv, TypeOK
  <2>2. TypeOK'
    BY <1>5, <2>1 DEF UpdateTime, IInv, TypeOK, Keys
  <2>3. QED BY <1>2, <1>5, <2>2 DEF UpdateTime
<1>6. ASSUME NEW w \in Worker, ReplaceWorker(w) PROVE IInv'
  <2>1. cached' \in [Worker -> 0..clock]
    BY <1>6 DEF ReplaceWorker, IInv, TypeOK
  <2>2. latest \in 1..latest
    <3> DEFINE T == [timeout : Nat \ {0}, rules : Seq(Rule)]
    <3>1. Config \in Seq(T) /\ latest \in DOMAIN Config
      BY ConfigAssumption DEF IInv, TypeOK
    <3> HIDE DEF T
    <3>2. QED BY <3>1
  <2>3. gen' \in [Worker -> 1..latest]
    BY <1>6, <2>2 DEF ReplaceWorker, IInv, TypeOK
  <2>4. TypeOK'
    BY <1>6, <2>1, <2>3 DEF ReplaceWorker, IInv, TypeOK, Keys
  <2>5. QED BY <1>2, <1>6, <2>4 DEF ReplaceWorker
<1>7. CASE UNCHANGED vars
  BY <1>2, <1>7 DEF vars, IInv, TypeOK, Keys
<1>8. QED BY <1>1, <1>3, <1>4, <1>5, <1>6, <1>7 DEF Next

\* The strengthened invariant: types, a consistent zone, and no entry that expires
\* at 0, in every state that the handlers, the clocks and reloads can reach.
THEOREM Inductive == Spec => []IInv
<1>1. Init => IInv
  BY InitIInv
<1>2. IInv /\ [Next]_vars => IInv'
  BY NextIInv
<1>3. QED BY <1>1, <1>2, PTL DEF Spec

\* Every state of the zone is of the right types.
THEOREM TypeCorrect == Spec => []TypeOK
<1>1. IInv => TypeOK
  BY DEF IInv
<1>2. QED BY <1>1, Inductive, PTL

\* The tree and the queue of a zone agree, and fit the slab.
THEOREM ZoneSafe == Spec => []ZoneConsistent
<1>1. IInv => ZoneConsistent
  BY DEF IInv, Sound, ZoneConsistent
<1>2. QED BY <1>1, Inductive, PTL

-----------------------------------------------------------------------------
(* The refinement                                                          *)

\* The abstract view of the zone: when the penalty of each client ends.
sentence == [c \in Client |-> IF GLKey(c) \in Keys(zone)
                              THEN zone.tree[GLKey(c)].expiry ELSE 0]

\* The sentence of a client is the expiry of its entry, 0 without one.
LEMMA SentenceFacts ==
    ASSUME NEW c \in Client
    PROVE  /\ GLKey(c) \in Keys(zone) => sentence[c] = zone.tree[GLKey(c)].expiry
           /\ GLKey(c) \notin Keys(zone) => sentence[c] = 0
           /\ GLKey(c) \in Keys(zone') => sentence'[c] = zone'.tree[GLKey(c)].expiry
           /\ GLKey(c) \notin Keys(zone') => sentence'[c] = 0
  BY DEF sentence, Keys

\* What a zone forgets is served, as the abstract view sees it.
LEMMA ForgetsMaps ==
    ASSUME IInv, NEW S \in SUBSET Client, Forgets(zone', zone, S)
    PROVE  \A d \in S : sentence'[d] # sentence[d]
                        => sentence'[d] = 0 /\ ~(Wall(clock) < sentence[d])
<1> SUFFICES ASSUME NEW d \in S, sentence'[d] # sentence[d]
             PROVE  sentence'[d] = 0 /\ ~(Wall(clock) < sentence[d])
  OBVIOUS
<1>1. GLKey(d) \in Keys(zone) /\ GLKey(d) \notin Keys(zone')
  BY SentenceFacts DEF Forgets
<1>2. zone.tree[GLKey(d)].expiry <= Wall(clock) /\ zone.tree[GLKey(d)].expiry \in Nat
  BY <1>1 DEF Forgets, IInv, Sound, Node
<1>3. Wall(clock) \in Nat
  BY ClockAssumption DEF IInv, TypeOK, Wall
<1>4. QED BY <1>1, <1>2, <1>3, SentenceFacts

\* An active entry is an active sentence.
LEMMA ActiveMaps ==
    ASSUME IInv, NEW c \in Client, ~Active(c)
    PROVE  ~(Wall(clock) < sentence[c])
<1>1. Wall(clock) \in Nat
  BY ClockAssumption DEF IInv, TypeOK, Wall
<1>2. QED BY <1>1, SentenceFacts DEF Active

\* Every outcome of a request is one the abstract specification allows.
LEMMA OutcomeMaps ==
    ASSUME IInv, NEW c \in Client, Outcome(c)
    PROVE  Penalty!Serve(c) \/ Penalty!Refuse(c) \/ Penalty!Sentence(c)
<1>1. Wall(clock') = Wall(clock) /\ reply'.client = c
  BY DEF Outcome
<1>2. CASE Served(c)
  <2>1. ~Penalty!Serving(c)
    BY <1>2, ActiveMaps DEF Served, Penalty!Serving, sentence
  <2>2. Penalty!OnlyForget(Client)
    BY <1>2, ForgetsMaps DEF Served, Penalty!OnlyForget, Penalty!Serving, sentence, Keys
  <2>3. QED BY <1>1, <1>2, <2>1, <2>2 DEF Served, Penalty!Serve, Wall
<1>3. CASE Refused(c)
  <2>1. sentence[c] = zone.tree[GLKey(c)].expiry /\ sentence[c] # 0
    BY <1>3, SentenceFacts DEF Refused, IInv
  <2>2. sentence' = sentence
    BY <1>3 DEF Refused, sentence, Keys
  <2>3. QED BY <1>1, <1>3, <2>1, <2>2
            DEF Refused, Penalty!Refuse, sentence, Keys, Wall
<1>4. CASE Sentenced(c)
  <2>1. ~Penalty!Serving(c)
    BY <1>4, ActiveMaps DEF Sentenced, Penalty!Serving, sentence
  <2>2. Penalty!OnlyForget(Client \ {c})
    BY <1>4, ForgetsMaps
       DEF Sentenced, Penalty!OnlyForget, Penalty!Serving, sentence, Keys
  <2>3. Wall(clock) + reply'.retry_after >= sentence'[c]
    <3>1. Wall(clock) \in Nat /\ reply'.retry_after \in Nat
      BY ClockAssumption DEF IInv, TypeOK, Wall, Outcome, Reply
    <3>2. QED BY <1>4, <3>1, SentenceFacts DEF Sentenced
  <2>4. QED BY <1>1, <1>4, <2>1, <2>2, <2>3
            DEF Sentenced, Penalty!Sentence, sentence, Keys, Wall
<1>5. QED BY <1>2, <1>3, <1>4 DEF Outcome

\* Every step of the zone is a step of the penalty box, or a stutter.
LEMMA NextMaps ==
    ASSUME IInv, [Next]_vars
    PROVE  [Penalty!Next]_Penalty!vars
<1>1. ASSUME NEW w \in Worker, NEW c \in Client, Request(w, c)
      PROVE  Penalty!Next
  BY <1>1, RequestOutcome, OutcomeMaps DEF Penalty!Next
<1>2. CASE AdvanceClock
  <2>1. clock \in Nat /\ clock' \in Nat /\ clock <= clock'
    BY <1>2, ClockAssumption DEF AdvanceClock, IInv, TypeOK
  <2>2. Wall(clock') >= Wall(clock)
    BY <2>1, ClockAssumption DEF Wall
  <2>3. UNCHANGED <<zone, reply>>
    BY <1>2 DEF AdvanceClock
  <2>4. Penalty!Pass
    BY <2>2, <2>3 DEF Penalty!Pass, Keys, Wall
  <2>5. QED BY <2>4 DEF Penalty!Next
<1>3. ASSUME UNCHANGED <<clock, zone, reply>> PROVE UNCHANGED Penalty!vars
  BY <1>3 DEF Penalty!vars, Keys, Wall
<1>4. CASE Reload
  BY <1>3, <1>4 DEF Reload
<1>5. ASSUME NEW w \in Worker, UpdateTime(w) \/ ReplaceWorker(w)
      PROVE  UNCHANGED Penalty!vars
  BY <1>3, <1>5 DEF UpdateTime, ReplaceWorker
<1>6. CASE UNCHANGED vars
  BY <1>3, <1>6 DEF vars
<1>7. QED BY <1>1, <1>2, <1>4, <1>5, <1>6 DEF Next

\* The empty zone is an empty penalty box.
LEMMA InitMaps == Init => Penalty!Init
<1> SUFFICES ASSUME Init PROVE Penalty!Init
  OBVIOUS
<1>1. Wall(clock) \in Nat
  BY ClockAssumption DEF Init, Wall
<1>2. Keys(zone) = {}
  BY DEF Init, Keys
<1>3. QED BY <1>1, <1>2 DEF Init, Penalty!Init, NoReply

\* The zone keeps the promise of the penalty box: every refusal ends no earlier
\* than the sentence, and nothing else than time ends a sentence.
THEOREM Implementation == Spec => ImplementsPenaltyBox
<1>1. IInv /\ [Next]_vars => [Penalty!Next]_Penalty!vars
  BY NextMaps
<1>2. QED BY <1>1, InitMaps, Inductive, PTL DEF Spec, ImplementsPenaltyBox, Penalty!Spec

-----------------------------------------------------------------------------
(* The history restrains nothing                                           *)

\* Every behaviour with a history of grants is one of the zone, so that what is proved of
\* the zone holds.
THEOREM RateIsZone == RateSpec => Spec
<1>1. RateInit => Init
  BY DEF RateInit
<1>2. [RateNext]_rateVars => [Next]_vars
  BY DEF RateNext, rateVars, vars
<1>3. QED BY <1>1, <1>2, PTL DEF RateSpec, Spec

-----------------------------------------------------------------------------
(* The queue in order of last use                                          *)

\* The buckets of a zone are in order of last use, and none was used after t.
InOrder(z) ==
    \A i, j \in DOMAIN z.queue :
      i < j /\ z.queue[i].type = "RL" /\ z.queue[j].type = "RL"
      => z.tree[z.queue[i]].last_ms >= z.tree[z.queue[j]].last_ms

UsedBy(z, t) == \A k \in Keys(z) : z.tree[k].last_ms <= t

\* A queue from which an element is unlinked keeps its order.
LEMMA DropOrder ==
    ASSUME NEW z, Sound(z), InOrder(z), NEW k \in Keys(z)
    PROVE  InOrder(Drop(z, k))
<1> DEFINE q == z.queue
           r == RemoveFirst(z.queue, k)
<1>1. q \in Seq(Key) /\ IsInjective(q) /\ k \in ToSet(q) /\ ToSet(q) = Keys(z)
  BY DEF Sound
<1>2. PICK n \in 1..Len(q) :
        /\ q[n] = k
        /\ r \in Seq(Key)
        /\ Len(r) = Len(q) - 1
        /\ \A j \in 1..(Len(q) - 1) : r[j] = IF j < n THEN q[j] ELSE q[j + 1]
  BY <1>1, UnlinkPlaces
<1>3. DOMAIN r = 1..(Len(q) - 1) /\ DOMAIN q = 1..Len(q) /\ Len(q) \in Nat
  BY <1>1, <1>2
<1>4. ToSet(r) = ToSet(q) \ {k}
  BY <1>1, UnlinkFacts
<1>5. Drop(z, k).queue = r /\ \A x \in Keys(z) \ {k} : Drop(z, k).tree[x] = z.tree[x]
  BY DEF Drop
<1> HIDE DEF q, r
<1>6. ASSUME NEW i \in DOMAIN r, NEW j \in DOMAIN r, i < j,
             r[i].type = "RL", r[j].type = "RL"
      PROVE  Drop(z, k).tree[r[i]].last_ms >= Drop(z, k).tree[r[j]].last_ms
  <2>1. PICK a \in DOMAIN q, b \in DOMAIN q : a < b /\ r[i] = q[a] /\ r[j] = q[b]
    <3> DEFINE a == IF i < n THEN i ELSE i + 1
               b == IF j < n THEN j ELSE j + 1
    <3>1. a \in DOMAIN q /\ b \in DOMAIN q /\ a < b
      BY <1>3, <1>6
    <3>2. r[i] = q[a] /\ r[j] = q[b]
      BY <1>2, <1>3
    <3>3. QED BY <3>1, <3>2
  <2>2. r[i] \in Keys(z) \ {k} /\ r[j] \in Keys(z) \ {k}
    BY <1>1, <1>4 DEF ToSet
  <2>3. z.tree[q[a]].last_ms >= z.tree[q[b]].last_ms
    BY <1>6, <2>1 DEF InOrder, q
  <2>4. QED BY <1>5, <2>1, <2>2, <2>3
<1>7. QED BY <1>5, <1>6 DEF InOrder

\* The head of a queue may be the bucket used last, or an entry.
LEMMA HeadOrder ==
    ASSUME NEW q \in Seq(Key), NEW k \in Key, NEW old, NEW tree, NEW t \in Nat,
           \A x \in ToSet(q) : tree[x] = old[x] /\ old[x].last_ms <= t,
           \A i, j \in DOMAIN q :
             i < j /\ q[i].type = "RL" /\ q[j].type = "RL"
             => old[q[i]].last_ms >= old[q[j]].last_ms,
           k.type = "RL" => tree[k].last_ms = t
    PROVE  \A i, j \in DOMAIN Cons(k, q) :
             i < j /\ Cons(k, q)[i].type = "RL" /\ Cons(k, q)[j].type = "RL"
             => tree[Cons(k, q)[i]].last_ms >= tree[Cons(k, q)[j]].last_ms
<1> DEFINE r == Cons(k, q)
<1>1. DOMAIN r = 1..Len(q) + 1 /\ DOMAIN q = 1..Len(q) /\ Len(q) \in Nat
  BY DEF Cons
<1>2. \A j \in 1..Len(q) + 1 : r[j] = IF j = 1 THEN k ELSE q[j - 1]
  BY DEF Cons
<1> HIDE DEF r
<1>3. ASSUME NEW i \in DOMAIN r, NEW j \in DOMAIN r, i < j,
             r[i].type = "RL", r[j].type = "RL"
      PROVE  tree[r[i]].last_ms >= tree[r[j]].last_ms
  <2>1. j - 1 \in DOMAIN q /\ r[j] = q[j - 1]
    BY <1>1, <1>2, <1>3
  <2>2. q[j - 1] \in ToSet(q)
    BY <2>1 DEF ToSet
  <2>3. CASE i = 1
    <3>1. r[i] = k /\ tree[k].last_ms = t
      BY <1>1, <1>2, <1>3, <2>3
    <3>2. tree[q[j - 1]].last_ms <= t
      BY <2>2
    <3>3. QED BY <2>1, <3>1, <3>2
  <2>4. CASE i # 1
    <3>1. i - 1 \in DOMAIN q /\ r[i] = q[i - 1] /\ i - 1 < j - 1
      BY <1>1, <1>2, <1>3, <2>4
    <3>2. q[i - 1] \in ToSet(q)
      BY <3>1 DEF ToSet
    <3>3. old[q[i - 1]].last_ms >= old[q[j - 1]].last_ms
      BY <1>3, <2>1, <3>1
    <3>4. QED BY <2>1, <2>2, <3>1, <3>2, <3>3
  <2>5. QED BY <2>3, <2>4
<1>4. QED BY <1>3 DEF r

\* The buckets are in order, and at t none was used since.
Aged(z, t) == InOrder(z) /\ UsedBy(z, t)

LEMMA DropAged ==
    ASSUME NEW z, Sound(z), NEW t, Aged(z, t), NEW k \in Keys(z)
    PROVE  Aged(Drop(z, k), t)
<1>1. InOrder(Drop(z, k))
  BY DropOrder DEF Aged
<1>2. Keys(Drop(z, k)) = Keys(z) \ {k} /\ Agree(Drop(z, k), z, Keys(z) \ {k})
  BY DropSound
<1>3. QED BY <1>1, <1>2 DEF Aged, UsedBy, Agree

\* A new bucket is used now; the time of an entry is never looked at.
LEMMA InsertAged ==
    ASSUME NEW z, Sound(z), HasRoom(z), NEW t \in Nat, Aged(z, t),
           NEW k \in Key, k \notin Keys(z), NEW node \in Node,
           node.last_ms <= t, k.type = "RL" => node.last_ms = t
    PROVE  Aged(Insert(z, k, node), t)
<1> DEFINE y == Insert(z, k, node)
<1>1. /\ Keys(y) = Keys(z) \cup {k} /\ Agree(y, z, Keys(z)) /\ y.tree[k] = node
      /\ y.queue = Cons(k, z.queue)
  BY InsertSound DEF Insert
<1>2. z.queue \in Seq(Key) /\ ToSet(z.queue) = Keys(z)
  BY DEF Sound
<1> HIDE DEF y
<1>3. \A x \in ToSet(z.queue) : y.tree[x] = z.tree[x] /\ z.tree[x].last_ms <= t
  BY <1>1, <1>2 DEF Agree, Aged, UsedBy
<1>4. \A i, j \in DOMAIN z.queue :
        i < j /\ z.queue[i].type = "RL" /\ z.queue[j].type = "RL"
        => z.tree[z.queue[i]].last_ms >= z.tree[z.queue[j]].last_ms
  BY DEF Aged, InOrder
<1>5. InOrder(y)
  BY <1>1, <1>2, <1>3, <1>4, HeadOrder DEF InOrder
<1>6. UsedBy(y, t)
  BY <1>1 DEF UsedBy, Agree, Aged
<1>7. QED BY <1>5, <1>6 DEF Aged, y

\* A bucket that is used now moves to the head.
LEMMA TouchAged ==
    ASSUME NEW z, Sound(z), NEW t \in Nat, Aged(z, t), NEW k \in Keys(z),
           NEW node \in Node, node.last_ms = t
    PROVE  Aged(Touch(z, k, node), t)
<1> DEFINE y == Touch(z, k, node)
           d == Drop(z, k)
<1>1. /\ Keys(y) = Keys(z) /\ Agree(y, z, Keys(z) \ {k}) /\ y.tree[k] = node
      /\ y.queue = Cons(k, d.queue)
  BY TouchSound DEF Touch, Drop, Sound, Keys
<1>2. /\ Sound(d) /\ Keys(d) = Keys(z) \ {k} /\ Agree(d, z, Keys(z) \ {k}) /\ Aged(d, t)
  BY DropSound, DropAged
<1> HIDE DEF y, d
<1>3. d.queue \in Seq(Key) /\ ToSet(d.queue) = Keys(z) \ {k} /\ k \in Key
  BY <1>2 DEF Sound
<1>4. \A x \in ToSet(d.queue) : y.tree[x] = d.tree[x] /\ d.tree[x].last_ms <= t
  BY <1>1, <1>2, <1>3 DEF Agree, Aged, UsedBy
<1>5. \A i, j \in DOMAIN d.queue :
        i < j /\ d.queue[i].type = "RL" /\ d.queue[j].type = "RL"
        => d.tree[d.queue[i]].last_ms >= d.tree[d.queue[j]].last_ms
  BY <1>2 DEF Aged, InOrder
<1>6. InOrder(y)
  BY <1>1, <1>3, <1>4, <1>5, HeadOrder DEF InOrder
<1>7. UsedBy(y, t)
  <2>1. \A x \in Keys(z) \ {k} : y.tree[x].last_ms <= t
    BY <1>1, <1>2, <1>3, <1>4 DEF Agree
  <2>2. y.tree[k].last_ms <= t
    BY <1>1
  <2>3. QED BY <1>1, <2>1, <2>2 DEF UsedBy
<1>8. QED BY <1>6, <1>7 DEF Aged, y

LEMMA ExpireAged ==
    ASSUME NEW z, Sound(z), NEW t, Aged(z, t), NEW now, NEW timeout
    PROVE  Aged(Expire(z, now, timeout), t)
  BY ExpireSound, DropAged

LEMMA AdmittedAged ==
    ASSUME Sound(zone), NEW t, Aged(zone, t), NEW c
    PROVE  Aged(Admitted(c), t)
  BY DropAged DEF Admitted

\* Time passes.
LEMMA LaterAged ==
    ASSUME NEW z, Sound(z), NEW t \in Nat, NEW u \in Nat, t <= u, Aged(z, t)
    PROVE  Aged(z, u)
<1>1. \A k \in Keys(z) : z.tree[k].last_ms \in Nat
  BY DEF Sound, Node
<1>2. QED BY <1>1 DEF Aged, UsedBy

\* The bucket of a request, used.
LEMMA UsedAged ==
    ASSUME IInv, NEW w \in Worker, NEW c \in Client, ~Greylisted(w, c),
           NEW i \in RuleIndex, RLKey(i, c) \in Keys(zone), NEW excess \in Nat,
           Aged(zone, cached[w])
    PROVE  LET z == Touch(Admitted(c), RLKey(i, c), RLNode(cached[w], excess))
           IN  /\ Sound(z) /\ Aged(z, cached[w])
               /\ Aged(Overflowed(w, c, i, excess), cached[w])
<1> DEFINE z == Touch(Admitted(c), RLKey(i, c), RLNode(cached[w], excess))
<1>1. cached[w] \in Nat
  BY ClockFacts DEF IInv
<1>2. RLNode(cached[w], excess) \in Node /\ RLNode(cached[w], excess).last_ms = cached[w]
  BY <1>1 DEF RLNode, Node
<1>3. Sound(Admitted(c)) /\ RLKey(i, c) \in Keys(Admitted(c)) /\ Aged(Admitted(c), cached[w])
  <2>1. Sound(Admitted(c)) /\ Keys(Admitted(c)) = Keys(zone) \ {GLKey(c)}
    BY AdmittedFacts
  <2>2. RLKey(i, c) # GLKey(c)
    BY KeyFacts
  <2>3. Aged(Admitted(c), cached[w])
    BY AdmittedAged DEF IInv
  <2>4. QED BY <2>1, <2>2, <2>3
<1>4. Aged(z, cached[w])
  BY <1>1, <1>2, <1>3, TouchAged
<1>5. Sound(z)
  BY UseBucketFacts
<1>6. Overflowed(w, c, i, excess) = Expire(z, Now(w), Conf(w).timeout)
  BY DEF Overflowed
<1> HIDE DEF z
<1>7. Aged(Overflowed(w, c, i, excess), cached[w])
  BY <1>4, <1>5, <1>6, ExpireAged
<1>8. QED BY <1>4, <1>5, <1>7 DEF z

\* A request of the worker with the latest clock keeps the order.
LEMMA RequestAged ==
    ASSUME IInv, NEW w \in Worker, NEW c \in Client, Request(w, c), Aged(zone, cached[w])
    PROVE  Aged(zone', cached[w])
<1>1. cached[w] \in Nat
  BY ClockFacts DEF IInv
<1>2. CASE Block(w, c)
  BY <1>2 DEF Block
<1>3. ASSUME NEW s \in Subject, PassUnmatched(w, c, s) PROVE Aged(zone', cached[w])
  BY <1>3, AdmittedAged DEF PassUnmatched, IInv
<1>4. ASSUME NEW s \in Subject, NEW i \in RuleIndex, Limit(w, c, s, i)
      PROVE  Aged(zone', cached[w])
  <2> DEFINE y      == Expire(Admitted(c), Now(w), Conf(w).timeout)
             excess == NewExcess(Conf(w).rules[i], zone.tree[RLKey(i, c)], cached[w])
  <2>1. ASSUME ~Greylisted(w, c)
        PROVE  Sound(y) /\ Keys(y) \subseteq Keys(zone) /\ Aged(y, cached[w])
    <3>1. Sound(Admitted(c)) /\ Keys(Admitted(c)) \subseteq Keys(zone) /\ Aged(Admitted(c), cached[w])
      BY <2>1, AdmittedFacts, AdmittedAged DEF IInv
    <3>2. QED BY <3>1, ExpireFacts, ExpireAged DEF IInv
  <2>2. CASE StartBucket(w, c, s, i)
    <3>1. /\ ~Greylisted(w, c) /\ RLKey(i, c) \notin Keys(zone) /\ HasRoom(y)
          /\ zone' = Insert(y, RLKey(i, c), RLNode(cached[w], 0))
      BY <2>2 DEF StartBucket
    <3>2. RLNode(cached[w], 0) \in Node /\ RLNode(cached[w], 0).last_ms = cached[w]
      BY <1>1 DEF RLNode, Node
    <3> HIDE DEF y
    <3>3. QED BY <1>1, <2>1, <3>1, <3>2, KeyFacts, InsertAged
  <2>3. CASE PassUntracked(w, c, s, i)
    BY <2>1, <2>3 DEF PassUntracked
  <2>4. CASE PassWithinRate(w, c, s, i)
    <3>1. /\ InBucket(w, c, s, i, excess)
          /\ zone' = Touch(Admitted(c), RLKey(i, c), RLNode(cached[w], excess))
      BY <2>4 DEF PassWithinRate
    <3>2. ~Greylisted(w, c) /\ RLKey(i, c) \in Keys(zone) /\ excess \in Nat
      BY <3>1, InBucketFacts
    <3> HIDE DEF excess
    <3>3. QED BY <3>1, <3>2, UsedAged
  <2> DEFINE z == Overflowed(w, c, i, excess)
  <2>5. CASE Penalise(w, c, s, i)
    <3> DEFINE node == GLNode(Now(w) + Conf(w).rules[i].duration)
    <3>1. /\ InBucket(w, c, s, i, excess) /\ HasRoom(z) /\ zone' = Insert(z, GLKey(c), node)
      BY <2>5 DEF Penalise
    <3>2. /\ ~Greylisted(w, c) /\ RLKey(i, c) \in Keys(zone) /\ excess \in Nat
          /\ Conf(w).rules[i].duration \in Nat
      BY <3>1, InBucketFacts
    <3>3. node \in Node /\ node.last_ms = 0
      BY <3>2, ClockFacts DEF IInv, GLNode, Node
    <3> HIDE DEF excess
    <3>4. Sound(z) /\ GLKey(c) \notin Keys(z) /\ Aged(z, cached[w])
      BY <3>2, OverflowedFacts, UsedAged
    <3>5. GLKey(c) \in Key /\ GLKey(c).type # "RL"
      BY KeyFacts DEF GLKey
    <3> HIDE DEF z, node
    <3>6. QED BY <1>1, <3>1, <3>3, <3>4, <3>5, InsertAged
  <2>6. CASE RefuseUnrecorded(w, c, s, i)
    <3>1. InBucket(w, c, s, i, excess) /\ zone' = z
      BY <2>6 DEF RefuseUnrecorded
    <3>2. ~Greylisted(w, c) /\ RLKey(i, c) \in Keys(zone) /\ excess \in Nat
      BY <3>1, InBucketFacts
    <3> HIDE DEF excess
    <3>3. QED BY <3>1, <3>2, UsedAged
  <2>7. QED BY <1>4, <2>2, <2>3, <2>4, <2>5, <2>6 DEF Limit
<1>5. QED BY <1>2, <1>3, <1>4 DEF Request

-----------------------------------------------------------------------------
(* What a request does to the buckets                                      *)

\* The fields of a key of a bucket, by which the key is known.
LEMMA BucketFacts ==
    /\ \A i \in RuleIndex, c \in Client : RLKey(i, c) \in BucketKey
    /\ \A i, c : RLKey(i, c).type = "RL" /\ RLKey(i, c).rule = i /\ RLKey(i, c).client = c
    /\ \A k \in BucketKey : /\ k.type = "RL" /\ k.rule \in RuleIndex /\ k.client \in Client
                            /\ k = RLKey(k.rule, k.client) /\ k \in Key
                            /\ \A c : k # GLKey(c)
<1>1. \A i, c : RLKey(i, c).type = "RL" /\ RLKey(i, c).rule = i /\ RLKey(i, c).client = c
  BY DEF RLKey
<1>2. \A i \in RuleIndex, c \in Client : RLKey(i, c) \in BucketKey
  BY DEF BucketKey
<1>3. ASSUME NEW k \in BucketKey
      PROVE  /\ k.type = "RL" /\ k.rule \in RuleIndex /\ k.client \in Client
             /\ k = RLKey(k.rule, k.client) /\ k \in Key
             /\ \A c : k # GLKey(c)
  <2>1. PICK i \in RuleIndex, c \in Client : k = RLKey(i, c)
    BY DEF BucketKey
  <2>2. QED BY <1>1, <2>1, KeyFacts
<1>4. QED BY <1>1, <1>2, <1>3

\* Of the nodes outside S, y has those of z but for some that the collector may free.
Collects(y, z, w, S) ==
    \A k \in Key \ S :
      /\ k \in Keys(y) => k \in Keys(z) /\ y.tree[k] = z.tree[k]
      /\ k \in Keys(z) \ Keys(y) => Collectable(k, z.tree[k], Now(w), Conf(w).timeout)

LEMMA CollectsTransitive ==
    ASSUME NEW x, NEW y, NEW z, NEW w, NEW S, Collects(x, y, w, S), Collects(y, z, w, S)
    PROVE  Collects(x, z, w, S)
  BY DEF Collects

\* A client that is let in may lose its own entry, and nothing else.
LEMMA AdmittedCollects ==
    ASSUME IInv, NEW w \in Worker, NEW c \in Client, ~Greylisted(w, c), NEW S, GLKey(c) \in S
    PROVE  Collects(Admitted(c), zone, w, S)
<1>1. /\ Keys(Admitted(c)) = Keys(zone) \ {GLKey(c)}
      /\ Agree(Admitted(c), zone, Keys(zone) \ {GLKey(c)})
  BY AdmittedFacts
<1>2. QED BY <1>1 DEF Collects, Agree

LEMMA ExpireCollects ==
    ASSUME NEW w, NEW z, Sound(z), NEW S
    PROVE  Collects(Expire(z, Now(w), Conf(w).timeout), z, w, S)
<1> DEFINE y == Expire(z, Now(w), Conf(w).timeout)
<1>1. CASE y = z
  BY <1>1 DEF Collects
<1>2. ASSUME NEW k \in Keys(z), y = Drop(z, k),
             Collectable(k, z.tree[k], Now(w), Conf(w).timeout)
      PROVE  Collects(y, z, w, S)
  <2>1. Keys(y) = Keys(z) \ {k} /\ Agree(y, z, Keys(z) \ {k})
    BY <1>2, DropSound
  <2> HIDE DEF y
  <2>2. QED BY <1>2, <2>1 DEF Collects, Agree
<1>3. QED BY <1>1, <1>2, ExpireSound

\* A request starts the bucket k and is let in ...
BucketStarted(w, k) ==
    /\ k \notin Keys(zone) /\ k \in Keys(zone')
    /\ zone'.tree[k] = RLNode(cached[w], 0)
    /\ GLKey(k.client) \notin Keys(zone') /\ reply'.status = "declined"

\* ... or brings it to its level now, and passes within the burst only; above it the client
\* has a new entry, where one fits.
BucketUsed(w, s, k) ==
    LET rule   == Conf(w).rules[k.rule]
        excess == NewExcess(rule, zone.tree[k], cached[w])
        own    == GLKey(k.client)
    IN  /\ k \in Keys(zone)
        /\ FirstMatch(Conf(w).rules, s, k.rule)
        /\ k \in Keys(zone') => zone'.tree[k] = RLNode(cached[w], excess)
        /\ \/ excess <= rule.burst /\ reply'.status = "declined" /\ own \notin Keys(zone')
           \/ /\ excess > rule.burst /\ reply'.status # "declined"
              /\ \/ own \in Keys(zone') /\ zone'.tree[own].expiry = Now(w) + rule.duration
                 \/ own \notin Keys(zone') /\ ~HasRoom(zone')

BucketOutcome(w, c) ==
    \/ zone' = zone
    \/ /\ ~Greylisted(w, c) /\ Collects(zone', zone, w, {GLKey(c)})
       /\ GLKey(c) \notin Keys(zone') /\ reply'.status = "declined"
    \/ \E k \in BucketKey :
         /\ k.client = c
         /\ ~Greylisted(w, c) /\ Collects(zone', zone, w, {k, GLKey(c)})
         /\ BucketStarted(w, k) \/ \E s \in Subject : BucketUsed(w, s, k)

\* The client's bucket in the zone after it is touched, and after a node was collected.
LEMMA TouchedFacts ==
    ASSUME IInv, NEW w \in Worker, NEW c \in Client, ~Greylisted(w, c),
           NEW i \in RuleIndex, RLKey(i, c) \in Keys(zone), NEW excess \in Nat
    PROVE  LET k == RLKey(i, c)
               S == {k, GLKey(c)}
               z == Touch(Admitted(c), k, RLNode(cached[w], excess))
               y == Overflowed(w, c, i, excess)
           IN  /\ Collects(z, zone, w, S) /\ Collects(y, zone, w, S)
               /\ k \in Keys(z) /\ z.tree[k] = RLNode(cached[w], excess)
               /\ k \in Keys(y) => y.tree[k] = RLNode(cached[w], excess)
               /\ GLKey(c) \notin Keys(z) /\ GLKey(c) \notin Keys(y)
<1> DEFINE k == RLKey(i, c)
           S == {k, GLKey(c)}
           node == RLNode(cached[w], excess)
           z == Touch(Admitted(c), k, node)
           y == Overflowed(w, c, i, excess)
<1>1. Sound(Admitted(c)) /\ Keys(Admitted(c)) = Keys(zone) \ {GLKey(c)}
  BY AdmittedFacts
<1>2. k \in Keys(Admitted(c)) /\ k \in BucketKey /\ k \in Key
  BY <1>1, KeyFacts, BucketFacts
<1>3. node \in Node
  BY ClockFacts DEF IInv, RLNode, Node
<1>4. z.tree = [Admitted(c).tree EXCEPT ![k] = node]
  BY DEF Touch
<1>5. GLKey(c) \notin Keys(z) /\ GLKey(c) \notin Keys(y)
  BY UseBucketFacts, OverflowedFacts
<1> HIDE DEF node, k
<1>6. /\ Sound(z) /\ Keys(z) = Keys(Admitted(c)) /\ z.tree[k] = node
      /\ Agree(z, Admitted(c), Keys(Admitted(c)) \ {k})
  BY <1>1, <1>2, <1>3, <1>4, TouchSound DEF Sound, Keys
<1>7. y = Expire(z, Now(w), Conf(w).timeout)
  BY DEF Overflowed, k, node
<1> HIDE DEF z, y
<1>8. Collects(z, Admitted(c), w, S)
  BY <1>6 DEF Collects, Agree
<1> HIDE DEF S
<1>9. Collects(z, zone, w, S)
  BY <1>8, AdmittedCollects, CollectsTransitive DEF S
<1>10. Collects(y, z, w, S) /\ Collects(y, z, w, {})
  BY <1>6, <1>7, ExpireCollects
<1>11. Collects(y, zone, w, S)
  BY <1>9, <1>10, CollectsTransitive
<1>12. k \in Keys(y) => y.tree[k] = node
  BY <1>2, <1>6, <1>10 DEF Collects
<1>13. QED BY <1>1, <1>2, <1>5, <1>6, <1>9, <1>11, <1>12 DEF k, node, z, y, S

LEMMA StartOutcome ==
    ASSUME IInv, NEW w \in Worker, NEW c \in Client, NEW s \in Subject, NEW i \in RuleIndex,
           StartBucket(w, c, s, i)
    PROVE  BucketOutcome(w, c)
<1> DEFINE k == RLKey(i, c)
           S == {k, GLKey(c)}
           node == RLNode(cached[w], 0)
           y == Expire(Admitted(c), Now(w), Conf(w).timeout)
<1>1. ~Greylisted(w, c) /\ k \notin Keys(zone) /\ HasRoom(y) /\ zone' = Insert(y, k, node)
      /\ reply'.status = "declined"
  BY DEF StartBucket, Answer, Declined
<1>2. Sound(Admitted(c)) /\ Keys(Admitted(c)) = Keys(zone) \ {GLKey(c)}
  BY <1>1, AdmittedFacts
<1>3. Sound(y) /\ Keys(y) \subseteq Keys(zone) \ {GLKey(c)}
  BY <1>2, ExpireFacts DEF IInv
<1>4. Collects(y, Admitted(c), w, S)
  BY <1>2, ExpireCollects
<1>5. node \in Node /\ k \in BucketKey /\ k \in Key /\ k.client = c /\ k # GLKey(c)
  BY ClockFacts, BucketFacts, KeyFacts DEF IInv, RLNode, Node
<1> HIDE DEF y, node, k
<1>6. Collects(y, zone, w, S)
  BY <1>1, <1>4, AdmittedCollects, CollectsTransitive
<1>7. k \notin Keys(y)
  BY <1>1, <1>3
<1>8. Keys(zone') = Keys(y) \cup {k} /\ Agree(zone', y, Keys(y)) /\ zone'.tree[k] = node
  BY <1>1, <1>3, <1>5, <1>7, InsertSound
<1>9. Collects(zone', y, w, S)
  BY <1>8 DEF Collects, Agree
<1>10. Collects(zone', zone, w, S)
  BY <1>6, <1>9, CollectsTransitive
<1>11. BucketStarted(w, k)
  BY <1>1, <1>3, <1>5, <1>8 DEF BucketStarted, node
<1>12. QED BY <1>1, <1>5, <1>10, <1>11 DEF BucketOutcome

LEMMA UseOutcome ==
    ASSUME IInv, NEW w \in Worker, NEW c \in Client, NEW s \in Subject, NEW i \in RuleIndex,
           \/ PassWithinRate(w, c, s, i)
           \/ Penalise(w, c, s, i)
           \/ RefuseUnrecorded(w, c, s, i)
    PROVE  BucketOutcome(w, c)
<1> DEFINE k == RLKey(i, c)
           S == {k, GLKey(c)}
           rule == Conf(w).rules[i]
           excess == NewExcess(Conf(w).rules[i], zone.tree[RLKey(i, c)], cached[w])
           z == Touch(Admitted(c), k, RLNode(cached[w], excess))
           y == Overflowed(w, c, i, excess)
<1>1. InBucket(w, c, s, i, excess)
  BY DEF PassWithinRate, Penalise, RefuseUnrecorded
<1>2. /\ ~Greylisted(w, c) /\ RLKey(i, c) \in Keys(zone) /\ excess \in Nat
      /\ rule.duration \in Nat \ {0}
  BY <1>1, InBucketFacts
<1>3. /\ FirstMatch(Conf(w).rules, s, i) /\ k \in BucketKey /\ k.client = c /\ k.rule = i
      /\ k # GLKey(c)
  BY <1>1, BucketFacts DEF InBucket
<1> HIDE DEF excess
<1>4. /\ Collects(z, zone, w, S) /\ Collects(y, zone, w, S)
      /\ k \in Keys(z) /\ z.tree[k] = RLNode(cached[w], excess)
      /\ k \in Keys(y) => y.tree[k] = RLNode(cached[w], excess)
      /\ GLKey(c) \notin Keys(z) /\ GLKey(c) \notin Keys(y)
  BY <1>2, TouchedFacts
<1>5. ASSUME Collects(zone', zone, w, S),
             k \in Keys(zone') => zone'.tree[k] = RLNode(cached[w], excess),
             \/ excess <= rule.burst /\ reply'.status = "declined" /\ GLKey(c) \notin Keys(zone')
             \/ /\ excess > rule.burst /\ reply'.status # "declined"
                /\ \/ /\ GLKey(c) \in Keys(zone')
                      /\ zone'.tree[GLKey(c)].expiry = Now(w) + rule.duration
                   \/ GLKey(c) \notin Keys(zone') /\ ~HasRoom(zone')
      PROVE  BucketOutcome(w, c)
  <2>1. BucketUsed(w, s, k)
    BY <1>2, <1>3, <1>5 DEF BucketUsed, excess
  <2>2. QED BY <1>2, <1>3, <1>5, <2>1 DEF BucketOutcome
<1>6. CASE PassWithinRate(w, c, s, i)
  <2>1. zone' = z /\ excess <= rule.burst /\ reply'.status = "declined"
    BY <1>6 DEF PassWithinRate, excess, Answer, Declined
  <2>2. QED BY <1>4, <1>5, <2>1
<1>7. CASE RefuseUnrecorded(w, c, s, i)
  <2>1. /\ zone' = y /\ reply' = TooManyRequests(c, rule.duration) /\ excess > rule.burst
        /\ ~HasRoom(y)
    BY <1>7 DEF RefuseUnrecorded, Answer, excess
  <2>2. reply'.status # "declined"
    BY <2>1 DEF TooManyRequests
  <2> HIDE DEF y
  <2>3. QED BY <1>4, <1>5, <2>1, <2>2
<1>8. CASE Penalise(w, c, s, i)
  <2> DEFINE node == GLNode(Now(w) + rule.duration)
  <2>1. /\ zone' = Insert(y, GLKey(c), node) /\ HasRoom(y)
        /\ reply' = TooManyRequests(c, rule.duration) /\ excess > rule.burst
    BY <1>8 DEF Penalise, Answer, excess
  <2>2. reply'.status # "declined"
    BY <2>1 DEF TooManyRequests
  <2>3. node \in Node /\ node.expiry = Now(w) + rule.duration
    BY <1>2, ClockFacts DEF IInv, GLNode, Node
  <2>4. Sound(y) /\ GLKey(c) \in Key
    BY <1>2, OverflowedFacts, KeyFacts
  <2> HIDE DEF y, node, k
  <2>5. /\ Keys(zone') = Keys(y) \cup {GLKey(c)} /\ Agree(zone', y, Keys(y))
        /\ zone'.tree[GLKey(c)] = node
    BY <1>4, <2>1, <2>3, <2>4, InsertSound
  <2>6. Collects(zone', y, w, S)
    BY <2>5 DEF Collects, Agree
  <2>7. Collects(zone', zone, w, S)
    BY <1>4, <2>6, CollectsTransitive
  <2>8. k \in Keys(zone') => zone'.tree[k] = RLNode(cached[w], excess)
    BY <1>3, <1>4, <2>5 DEF Agree
  <2>9. QED BY <1>5, <2>1, <2>2, <2>3, <2>5, <2>7, <2>8
<1>9. QED BY <1>6, <1>7, <1>8

\* Every request leaves the nodes of the zone alone but for the client's own entry, its own
\* bucket under the rule that matches, and those that are collected.
LEMMA RequestBuckets ==
    ASSUME IInv, NEW w \in Worker, NEW c \in Client, Request(w, c)
    PROVE  BucketOutcome(w, c)
<1>1. CASE Block(w, c)
  BY <1>1 DEF Block, BucketOutcome
<1>2. ASSUME NEW s \in Subject, PassUnmatched(w, c, s) PROVE BucketOutcome(w, c)
  <2>1. ~Greylisted(w, c) /\ zone' = Admitted(c) /\ reply'.status = "declined"
    BY <1>2 DEF PassUnmatched, Answer, Declined
  <2>2. Collects(Admitted(c), zone, w, {GLKey(c)}) /\ GLKey(c) \notin Keys(Admitted(c))
    BY <2>1, AdmittedCollects, AdmittedFacts
  <2>3. QED BY <2>1, <2>2 DEF BucketOutcome
<1>3. ASSUME NEW s \in Subject, NEW i \in RuleIndex, Limit(w, c, s, i)
      PROVE  BucketOutcome(w, c)
  <2>1. CASE PassUntracked(w, c, s, i)
    <3>1. /\ ~Greylisted(w, c) /\ zone' = Expire(Admitted(c), Now(w), Conf(w).timeout)
          /\ reply'.status = "declined"
      BY <2>1 DEF PassUntracked, Answer, Declined
    <3>2. /\ Collects(Admitted(c), zone, w, {GLKey(c)}) /\ Sound(Admitted(c))
          /\ GLKey(c) \notin Keys(Admitted(c))
      BY <3>1, AdmittedCollects, AdmittedFacts
    <3>3. Collects(zone', Admitted(c), w, {GLKey(c)}) /\ Keys(zone') \subseteq Keys(Admitted(c))
      BY <3>1, <3>2, ExpireCollects, ExpireFacts DEF IInv
    <3>4. Collects(zone', zone, w, {GLKey(c)})
      BY <3>2, <3>3, CollectsTransitive
    <3>5. QED BY <3>1, <3>2, <3>3, <3>4 DEF BucketOutcome
  <2>2. QED BY <1>3, <2>1, StartOutcome, UseOutcome DEF Limit
<1>4. QED BY <1>1, <1>2, <1>3 DEF Request

-----------------------------------------------------------------------------
(* The rate limit                                                          *)

\* The rate limit holds where one worker reads the clock, no reload changes the rules, and
\* what a rule leaks in all the time there is fits a word.
OneWorker   == \A v, w \in Worker : v = w
SteadyRules == \A g \in DOMAIN Config : Config[g].rules = Config[1].rules
NoWrap      == /\ MaxClock \in Nat
               /\ \A i \in DOMAIN Config[1].rules : Config[1].rules[i].rate * MaxClock < Word

\* What the level of a bucket and the grants of it have to do with each other: the level
\* is at least what was granted and has not leaked (a refused request raises it too), and
\* what was granted is bounded by the time of the last use, not only by the present.
Accounted(node, rule, given) ==
    LET leaked == (rule.rate * (node.last_ms - given.since)) \div 1000
    IN  /\ given.since <= node.last_ms
        /\ node.excess >= 1000 * (given.count - 1) - leaked
        /\ 1000 * (given.count - 1) <= rule.burst + leaked

Grant == [count : Nat, since : Nat]

RInv ==
    /\ IInv
    /\ clock <= MaxClock
    /\ \A w \in Worker : Aged(zone, cached[w])
    /\ granted \in [BucketKey -> Grant]
    /\ \A k \in BucketKey \cap Keys(zone) :
         Accounted(zone.tree[k], Config[1].rules[k.rule], granted[k])

\* What leaks in two spans of time leaks in both together, but for rounding.
LEMMA LeakAdds ==
    ASSUME NEW r \in Nat, NEW a \in Nat, NEW b \in Nat
    PROVE  (r * a) \div 1000 + (r * b) \div 1000 <= (r * (a + b)) \div 1000
<1>1. r * (a + b) = r * a + r * b /\ r * a \in Nat /\ r * b \in Nat
  OBVIOUS
<1>2. \A x, y \in Nat : x \div 1000 + y \div 1000 <= (x + y) \div 1000
  OBVIOUS
<1>3. QED BY <1>1, <1>2

LEMMA LeakGrows ==
    ASSUME NEW r \in Nat, NEW a \in Nat, NEW b \in Nat, a <= b
    PROVE  /\ (r * a) \div 1000 \in Nat
           /\ (r * a) \div 1000 <= (r * b) \div 1000
<1>1. r * a \in Nat /\ r * (b - a) \in Nat /\ r * b = r * a + r * (b - a)
  OBVIOUS
<1>2. \A x, y \in Nat : x \div 1000 \in Nat /\ x \div 1000 <= (x + y) \div 1000
  OBVIOUS
<1>3. QED BY <1>1, <1>2

\* A leak that fits a word is not cut off.
LEMMA LeakExact ==
    ASSUME NEW r \in Nat, NEW a \in Nat, r * a < Word
    PROVE  Leak(r, a) = (r * a) \div 1000
<1>1. r * a \in Nat
  OBVIOUS
<1>2. \A x \in Nat : x < Word => x % Word = x
  BY WordAssumption
<1>3. QED BY <1>1, <1>2 DEF Leak

\* A bucket that is used keeps its account, whether the request passes, which it does
\* within the burst only, or is refused.
LEMMA UsedAccounted ==
    ASSUME NEW node \in Node, NEW rule \in Rule, NEW given \in Grant,
           Accounted(node, rule, given),
           NEW now \in Nat, node.last_ms <= now, rule.rate * now < Word,
           NEW next \in Grant, next.since = given.since,
           \/ next.count = given.count
           \/ /\ next.count = given.count + 1
              /\ NewExcess(rule, node, now) <= rule.burst
    PROVE  Accounted(RLNode(now, NewExcess(rule, node, now)), rule, next)
<1> DEFINE old == (rule.rate * (node.last_ms - given.since)) \div 1000
           leak == (rule.rate * (now - node.last_ms)) \div 1000
           both == (rule.rate * (now - given.since)) \div 1000
           excess == NewExcess(rule, node, now)
<1>1. /\ node.last_ms \in Nat /\ node.excess \in Nat /\ rule.rate \in Nat /\ rule.burst \in Nat
      /\ given.since \in Nat /\ given.count \in Nat /\ next.count \in Nat
      /\ given.since <= node.last_ms
  BY DEF Node, Rule, Grant, Accounted
<1>2. PICK r, a, b \in Nat : r = rule.rate /\ a = node.last_ms - given.since
                             /\ b = now - node.last_ms /\ a + b = now - given.since
                             /\ b <= now
  BY <1>1
<1>3. old + leak <= both /\ leak \in Nat /\ old \in Nat /\ both \in Nat
  <2>1. (r * a) \div 1000 + (r * b) \div 1000 <= (r * (a + b)) \div 1000
    BY LeakAdds
  <2>2. /\ (r * a) \div 1000 \in Nat /\ (r * b) \div 1000 \in Nat
        /\ (r * (a + b)) \div 1000 \in Nat
    BY LeakGrows
  <2>3. QED BY <1>2, <2>1, <2>2
<1>4. Leak(rule.rate, now - node.last_ms) = leak
  <2>1. \A x, y, n \in Nat : x <= n => y * x <= y * n
    OBVIOUS
  <2>2. r * b <= r * now /\ r * b \in Nat /\ r * now \in Nat
    BY <1>2, <2>1
  <2>3. r * b < Word
    BY <1>2, <2>2, WordAssumption
  <2>4. QED BY <1>2, <2>3, LeakExact
<1> HIDE DEF old, leak, both
<1>5. excess >= node.excess - leak + 1000 /\ excess \in Nat
  BY <1>1, <1>3, <1>4 DEF NewExcess
<1>6. /\ node.excess >= 1000 * (given.count - 1) - old
      /\ 1000 * (given.count - 1) <= rule.burst + old
  BY DEF Accounted, old
<1>7. \/ next.count = given.count
      \/ next.count = given.count + 1 /\ excess <= rule.burst
  OBVIOUS
<1> HIDE DEF excess
<1>8. excess >= 1000 * (next.count - 1) - both
  BY <1>1, <1>3, <1>5, <1>6, <1>7
<1>9. 1000 * (next.count - 1) <= rule.burst + both
  BY <1>1, <1>3, <1>5, <1>6, <1>7, <1>8
<1>10. QED BY <1>1, <1>8, <1>9 DEF Accounted, RLNode, both, excess

\* Every worker has the rules of the first configuration, whatever it runs with.
LEMMA SteadyFacts ==
    ASSUME TypeOK, SteadyRules, NoWrap, clock <= MaxClock, NEW w \in Worker
    PROVE  /\ Conf(w).rules = Config[1].rules
           /\ \A s, i : FirstMatch(Conf(w).rules, s, i) =>
                /\ Config[1].rules[i] \in Rule
                /\ Config[1].rules[i].rate * cached[w] < Word
<1>1. gen[w] \in DOMAIN Config
  <2>1. DOMAIN Config = 1..Len(Config) /\ Len(Config) \in Nat
    BY ConfigAssumption
  <2>2. latest \in 1..Len(Config) /\ gen[w] \in 1..latest
    BY <2>1 DEF TypeOK
  <2>3. QED BY <2>1, <2>2
<1>2. Conf(w).rules = Config[1].rules
  BY <1>1 DEF Conf, SteadyRules
<1>3. ASSUME NEW s, NEW i, FirstMatch(Conf(w).rules, s, i)
      PROVE  /\ Config[1].rules[i] \in Rule
             /\ Config[1].rules[i].rate * cached[w] < Word
  <2>1. i \in DOMAIN Config[1].rules
    BY <1>2, <1>3 DEF FirstMatch
  <2>2. Conf(w).rules[i] \in Rule
    BY <1>3, ConfFacts
  <2>3. PICK rate, at, max \in Nat : /\ rate = Config[1].rules[i].rate /\ at = cached[w]
                                     /\ max = MaxClock /\ at <= max
    <3>1. Config[1].rules[i].rate \in Nat
      BY <1>2, <2>2 DEF Rule
    <3>2. cached[w] \in Nat /\ cached[w] <= MaxClock /\ MaxClock \in Nat
      BY DEF TypeOK, NoWrap
    <3>3. QED BY <3>1, <3>2
  <2>4. \A x, y, n \in Nat : x <= n => y * x <= y * n
    OBVIOUS
  <2>5. rate * at <= rate * max /\ rate * at \in Nat /\ rate * max \in Nat
    BY <2>3, <2>4
  <2>6. rate * max < Word
    BY <2>1, <2>3 DEF NoWrap
  <2>7. rate * at < Word
    BY <2>5, <2>6, WordAssumption
  <2>8. QED BY <1>2, <2>2, <2>3, <2>7
<1>4. QED BY <1>2, <1>3

LEMMA InitRInv == NoWrap /\ RateInit => RInv
<1> SUFFICES ASSUME NoWrap, RateInit PROVE RInv
  OBVIOUS
<1>1. Init /\ IInv
  BY InitIInv DEF RateInit
<1>2. clock <= MaxClock
  BY <1>1 DEF NoWrap, Init
<1>3. Keys(zone) = {} /\ DOMAIN zone.queue = {}
  BY <1>1 DEF Init, Keys
<1>4. \A w \in Worker : Aged(zone, cached[w])
  BY <1>3 DEF Aged, InOrder, UsedBy
<1>5. granted \in [BucketKey -> Grant]
  BY DEF RateInit, Grant
<1>6. QED BY <1>1, <1>2, <1>3, <1>4, <1>5 DEF RInv

\* A step that changes no bucket counts nothing.
LEMMA NothingCounted ==
    ASSUME RInv, Count, zone' = zone
    PROVE  /\ granted' \in [BucketKey -> Grant]
           /\ \A k \in BucketKey \cap Keys(zone') :
                Accounted(zone'.tree[k], Config[1].rules[k.rule], granted'[k])
<1>1. \A k \in BucketKey : ~Starts(k) /\ ~Grants(k)
  BY DEF Starts, Grants
<1>2. granted' = [k \in BucketKey |-> granted[k]]
  BY <1>1 DEF Count
<1>3. granted' = granted
  BY <1>2 DEF RInv
<1>4. QED BY <1>3 DEF RInv

\* A request keeps the accounts.
LEMMA RequestAccounted ==
    ASSUME RInv, SteadyRules, NoWrap, Count, IInv', NEW w \in Worker, NEW c \in Client,
           Request(w, c), NEW k \in BucketKey, k \in Keys(zone')
    PROVE  /\ granted'[k] \in Grant
           /\ Accounted(zone'.tree[k], Config[1].rules[k.rule], granted'[k])
<1> DEFINE rule == Config[1].rules[k.rule]
           old == zone.tree[k]
           new == zone'.tree[k]
<1>1. IInv /\ granted[k] \in Grant /\ cached[w] \in Nat
  BY ClockFacts DEF RInv, IInv
<1>2. granted'[k] = IF Starts(k) THEN [count |-> 1, since |-> new.last_ms]
                    ELSE IF Grants(k) THEN [granted[k] EXCEPT !.count = @ + 1]
                    ELSE granted[k]
  BY DEF Count
<1>3. CASE k \in Keys(zone) /\ new = old
  <2>1. granted'[k] = granted[k]
    BY <1>2, <1>3 DEF Starts, Grants
  <2>2. QED BY <1>1, <1>3, <2>1 DEF RInv
<1>4. CASE BucketStarted(w, k)
  <2>1. new = RLNode(cached[w], 0) /\ Starts(k)
    BY <1>4 DEF BucketStarted, Starts
  <2>2. new.last_ms = cached[w] /\ new.excess = 0
    BY <2>1 DEF RLNode
  <2>3. granted'[k] = [count |-> 1, since |-> cached[w]]
    BY <1>2, <2>1, <2>2
  <2>4. granted'[k] \in Grant
    BY <1>1, <2>3 DEF Grant
  <2>5. rule.burst \in Nat /\ rule.rate \in Nat
    <3>1. k.rule \in RuleIndex
      BY BucketFacts
    <3>2. k.rule \in DOMAIN Config[1].rules
      BY <3>1 DEF RuleIndex, SteadyRules
    <3>3. Config[1].rules \in Seq(Rule)
      <4> DEFINE T == [timeout : Nat \ {0}, rules : Seq(Rule)]
      <4>1. Config \in Seq(T) /\ Config # <<>>
        BY ConfigAssumption
      <4> HIDE DEF T
      <4>2. Config[1] \in T
        BY <4>1
      <4>3. QED BY <4>2 DEF T
    <3> HIDE DEF Rule
    <3>4. rule \in Rule
      BY <3>2, <3>3
    <3>5. QED BY <3>4 DEF Rule
  <2> HIDE DEF rule
  <2>6. Accounted(new, rule, granted'[k])
    <3>1. rule.rate * (new.last_ms - granted'[k].since) = 0
      BY <1>1, <2>2, <2>3, <2>5
    <3>2. 0 \div 1000 = 0
      OBVIOUS
    <3>3. QED BY <1>1, <2>2, <2>3, <2>5, <3>1, <3>2 DEF Accounted
  <2>7. QED BY <2>4, <2>6 DEF rule
<1>5. ASSUME NEW s \in Subject, BucketUsed(w, s, k)
      PROVE  granted'[k] \in Grant /\ Accounted(new, rule, granted'[k])
  <2>1. Conf(w).rules = Config[1].rules /\ rule \in Rule /\ rule.rate * cached[w] < Word
    BY <1>1, <1>5, SteadyFacts DEF RInv, IInv, BucketUsed
  <2>2. /\ k \in Keys(zone) /\ new = RLNode(cached[w], NewExcess(rule, old, cached[w]))
        /\ reply'.status = "declined" => NewExcess(rule, old, cached[w]) <= rule.burst
    BY <1>5, <2>1 DEF BucketUsed
  <2>3. old \in Node /\ old.last_ms <= cached[w]
    BY <1>1, <2>2 DEF IInv, Sound, RInv, Aged, UsedBy
  <2>4. Accounted(old, rule, granted[k])
    BY <2>2 DEF RInv
  <2>5. ~Starts(k) /\ (Grants(k) => reply'.status = "declined")
    BY <2>2 DEF Starts, Grants
  <2>6. granted'[k] = granted[k] \/ (Grants(k) /\ granted'[k] = [granted[k] EXCEPT !.count = @ + 1])
    BY <1>2, <2>5
  <2>7. /\ granted'[k] \in Grant /\ granted'[k].since = granted[k].since
        /\ \/ granted'[k].count = granted[k].count
           \/ Grants(k) /\ granted'[k].count = granted[k].count + 1
    BY <1>1, <2>6 DEF Grant
  <2> HIDE DEF rule, old, new
  <2>8. Accounted(RLNode(cached[w], NewExcess(rule, old, cached[w])), rule, granted'[k])
    BY <1>1, <2>1, <2>2, <2>3, <2>4, <2>5, <2>7, UsedAccounted
  <2>9. QED BY <2>2, <2>7, <2>8
<1>6. (k \in Keys(zone) /\ new = old) \/ BucketStarted(w, k) \/ \E s \in Subject : BucketUsed(w, s, k)
  <2>1. BucketOutcome(w, c)
    BY <1>1, RequestBuckets
  <2>2. CASE zone' = zone \/ Collects(zone', zone, w, {GLKey(c)})
    BY <2>2, BucketFacts DEF Collects
  <2>3. ASSUME NEW b \in BucketKey, Collects(zone', zone, w, {b, GLKey(c)}),
               BucketStarted(w, b) \/ \E s \in Subject : BucketUsed(w, s, b)
        PROVE  \/ k \in Keys(zone) /\ new = old
               \/ BucketStarted(w, k) \/ \E s \in Subject : BucketUsed(w, s, k)
    <3>1. CASE k = b
      BY <2>3, <3>1
    <3>2. CASE k # b
      BY <2>3, <3>2, BucketFacts DEF Collects
    <3>3. QED BY <3>1, <3>2
  <2>4. QED BY <2>1, <2>2, <2>3 DEF BucketOutcome
<1>7. QED BY <1>3, <1>4, <1>5, <1>6

LEMMA NextRInv ==
    OneWorker /\ SteadyRules /\ NoWrap /\ RInv /\ [RateNext]_rateVars => RInv'
<1> SUFFICES ASSUME OneWorker, SteadyRules, NoWrap, RInv, [RateNext]_rateVars PROVE RInv'
  OBVIOUS
<1>1. IInv'
  <2>1. [Next]_vars
    BY DEF RateNext, rateVars, vars
  <2>2. QED BY <2>1, NextIInv DEF RInv
<1>2. IInv /\ clock \in Nat /\ \A w \in Worker : cached[w] \in Nat /\ cached[w] <= clock
  BY DEF RInv, IInv, TypeOK
<1>3. CASE UNCHANGED rateVars
  BY <1>1, <1>3 DEF rateVars, vars, RInv
<1>4. CASE Count /\ AdvanceClock
  <2>1. clock' <= MaxClock /\ UNCHANGED <<cached, zone>>
    BY <1>4 DEF AdvanceClock
  <2>2. \A w \in Worker : Aged(zone', cached'[w])
    BY <2>1 DEF RInv
  <2>3. QED BY <1>1, <1>4, <2>1, <2>2, NothingCounted DEF RInv
<1>5. CASE Count /\ Reload
  <2>1. UNCHANGED <<clock, cached, zone>>
    BY <1>5 DEF Reload
  <2>2. \A w \in Worker : Aged(zone', cached'[w])
    BY <2>1 DEF RInv
  <2>3. QED BY <1>1, <1>5, <2>1, <2>2, NothingCounted DEF RInv
<1>6. ASSUME NEW w \in Worker, Count, UpdateTime(w) \/ ReplaceWorker(w) PROVE RInv'
  <2>1. /\ UNCHANGED <<clock, zone>> /\ cached' = [cached EXCEPT ![w] = clock]
    BY <1>6 DEF UpdateTime, ReplaceWorker
  <2>2. cached'[w] = clock
    BY <1>2, <2>1 DEF IInv, TypeOK
  <2>3. Aged(zone, clock)
    BY <1>2, LaterAged DEF RInv, IInv
  <2>4. \A v \in Worker : Aged(zone', cached'[v])
    BY <2>1, <2>2, <2>3 DEF OneWorker
  <2>5. QED BY <1>1, <1>6, <2>1, <2>4, NothingCounted DEF RInv
<1>7. ASSUME NEW w \in Worker, NEW c \in Client, Count, Request(w, c) PROVE RInv'
  <2>1. UNCHANGED <<clock, cached>>
    BY <1>7 DEF Request, Limit, Block, PassUnmatched, StartBucket, PassUntracked, PassWithinRate,
                Penalise, RefuseUnrecorded, Answer
  <2>2. Aged(zone', cached[w])
    BY <1>2, <1>7, RequestAged DEF RInv
  <2>3. \A v \in Worker : Aged(zone', cached'[v])
    BY <2>1, <2>2 DEF OneWorker
  <2>4. \A k \in BucketKey \cap Keys(zone') :
          Accounted(zone'.tree[k], Config[1].rules[k.rule], granted'[k])
    BY <1>1, <1>7, RequestAccounted
  <2>5. granted' \in [BucketKey -> Grant]
    <3>1. ASSUME NEW k \in BucketKey PROVE granted'[k] \in Grant
      <4>1. CASE k \in Keys(zone')
        BY <1>1, <1>7, <4>1, RequestAccounted
      <4>2. CASE k \notin Keys(zone')
        BY <1>7, <4>2 DEF Count, Starts, Grants, RInv
      <4>3. QED BY <4>1, <4>2
    <3>2. granted' = [k \in BucketKey |-> granted'[k]]
      BY <1>7 DEF Count
    <3>3. QED BY <3>1, <3>2
  <2>6. QED BY <1>1, <2>1, <2>3, <2>4, <2>5 DEF RInv
<1>8. QED BY <1>3, <1>4, <1>5, <1>6, <1>7 DEF RateNext, Next

LEMMA RateInductive ==
    ASSUME OneWorker, SteadyRules, NoWrap
    PROVE  RateSpec => []RInv
<1>1. RateInit => RInv
  BY InitRInv
<1>2. RInv /\ [RateNext]_rateVars => RInv'
  BY NextRInv
<1>3. QED BY <1>1, <1>2, PTL DEF RateSpec

\* What a bucket let through, by the time of its last use, is within the limit now: a
\* later clock allows more.
LEMMA RateFollows == ASSUME SteadyRules, RInv PROVE RateRespected
<1> SUFFICES ASSUME NEW k \in BucketKey \cap Keys(zone)
             PROVE  1000 * (granted[k].count - 1) <= Config[1].rules[k.rule].burst
                      + (Config[1].rules[k.rule].rate * (clock - granted[k].since)) \div 1000
  BY DEF RateRespected
<1>1. Accounted(zone.tree[k], Config[1].rules[k.rule], granted[k]) /\ granted[k] \in Grant
  BY DEF RInv
<1>2. Config[1].rules[k.rule] \in Rule
  <2>1. k.rule \in DOMAIN Config[1].rules
    BY BucketFacts DEF RuleIndex, SteadyRules
  <2> DEFINE T == [timeout : Nat \ {0}, rules : Seq(Rule)]
  <2>2. Config \in Seq(T) /\ Config # <<>>
    BY ConfigAssumption
  <2> HIDE DEF T
  <2>3. Config[1] \in T
    BY <2>2
  <2> HIDE DEF Rule
  <2>4. QED BY <2>1, <2>3 DEF T
<1>3. zone.tree[k].last_ms \in Nat /\ zone.tree[k].last_ms <= clock /\ clock \in Nat
  <2>1. zone.tree[k] \in Node /\ clock \in Nat
    BY DEF RInv, IInv, Sound, TypeOK
  <2>2. PICK w \in Worker : TRUE
    BY WorkerAssumption
  <2>3. zone.tree[k].last_ms <= cached[w] /\ cached[w] \in 0..clock
    BY DEF RInv, IInv, TypeOK, Aged, UsedBy
  <2>4. QED BY <2>1, <2>3 DEF Node
<1>4. PICK rate, at, now, sum \in Nat : /\ rate = Config[1].rules[k.rule].rate
                                        /\ at = zone.tree[k].last_ms - granted[k].since
                                        /\ now = clock - granted[k].since /\ at <= now
                                        /\ sum = Config[1].rules[k.rule].burst
  <2>1. Config[1].rules[k.rule].rate \in Nat /\ Config[1].rules[k.rule].burst \in Nat
    BY <1>2 DEF Rule
  <2>2. granted[k].since \in Nat /\ granted[k].since <= zone.tree[k].last_ms
    BY <1>1 DEF Grant, Accounted
  <2>3. /\ zone.tree[k].last_ms - granted[k].since \in Nat /\ clock - granted[k].since \in Nat
        /\ zone.tree[k].last_ms - granted[k].since <= clock - granted[k].since
    BY <1>3, <2>2
  <2>4. QED BY <2>1, <2>3
<1>5. (rate * at) \div 1000 \in Nat /\ (rate * at) \div 1000 <= (rate * now) \div 1000
      /\ (rate * now) \div 1000 \in Nat
  BY <1>4, LeakGrows
<1>6. granted[k].count \in Nat /\ 1000 * (granted[k].count - 1) <= sum + (rate * at) \div 1000
  BY <1>1, <1>4 DEF Accounted, Grant
<1>7. 1000 * (granted[k].count - 1) <= sum + (rate * now) \div 1000
  BY <1>5, <1>6
<1>8. QED BY <1>4, <1>7

\* gl_handler's leaky bucket: however the requests, the evictions, the collections and the
\* reloads interleave, no bucket ever passes more than its first request, the burst and what
\* the rate allows for the time since it was started.
THEOREM RateLimit ==
    ASSUME OneWorker, SteadyRules, NoWrap
    PROVE  RateSpec => []RateRespected
<1>1. RInv => RateRespected
  BY RateFollows
<1>2. QED BY <1>1, RateInductive, PTL

\* The level kept in a bucket accounts for all that it let through.
THEOREM LevelIsEnough ==
    ASSUME OneWorker, SteadyRules, NoWrap
    PROVE  RateSpec => []LevelAccounts
<1>1. RInv => LevelAccounts
  BY DEF RInv, LevelAccounts, Accounted
<1>2. QED BY <1>1, RateInductive, PTL

-----------------------------------------------------------------------------
(* The order of the queue                                                  *)

\* The order of last use needs one worker only: no rule and no width matters for it.
OInv == IInv /\ \A w \in Worker : Aged(zone, cached[w])

LEMMA NextOInv == ASSUME OneWorker, OInv, [Next]_vars PROVE OInv'
<1>1. IInv'
  BY NextIInv DEF OInv
<1>2. IInv /\ clock \in Nat /\ \A w \in Worker : cached[w] \in Nat /\ cached[w] <= clock
  BY DEF OInv, IInv, TypeOK
<1>3. CASE UNCHANGED <<cached, zone>>
  BY <1>1, <1>3 DEF OInv
<1>4. ASSUME NEW w \in Worker, UpdateTime(w) \/ ReplaceWorker(w) PROVE OInv'
  <2>1. UNCHANGED zone /\ cached' = [cached EXCEPT ![w] = clock] /\ cached'[w] = clock
    BY <1>2, <1>4 DEF UpdateTime, ReplaceWorker, IInv, TypeOK
  <2>2. Aged(zone, clock)
    BY <1>2, LaterAged DEF OInv, IInv
  <2>3. QED BY <1>1, <2>1, <2>2 DEF OInv, OneWorker
<1>5. ASSUME NEW w \in Worker, NEW c \in Client, Request(w, c) PROVE OInv'
  <2>1. UNCHANGED cached
    BY <1>5 DEF Request, Limit, Block, PassUnmatched, StartBucket, PassUntracked, PassWithinRate,
                Penalise, RefuseUnrecorded, Answer
  <2>2. Aged(zone', cached[w])
    BY <1>2, <1>5, RequestAged DEF OInv
  <2>3. QED BY <1>1, <2>1, <2>2 DEF OInv, OneWorker
<1>6. QED BY <1>3, <1>4, <1>5 DEF Next, AdvanceClock, Reload, vars

\* With one worker the LRU queue is in order of the last use of the buckets, so that the
\* collector, which looks at the tail alone, finds the bucket longest unused there, or an
\* entry.
THEOREM QueueInOrder ==
    ASSUME OneWorker
    PROVE  RateSpec => []LeastRecentLast
<1>1. Init => OInv
  <2>1. Init => Keys(zone) = {} /\ DOMAIN zone.queue = {}
    BY DEF Init, Keys
  <2>2. QED BY <2>1, InitIInv DEF OInv, Aged, InOrder, UsedBy
<1>2. OInv /\ [Next]_vars => OInv'
  BY NextOInv
<1>3. OInv => LeastRecentLast
  <2>1. PICK w \in Worker : TRUE
    BY WorkerAssumption
  <2>2. QED BY DEF OInv, Aged, InOrder, LeastRecentLast
<1>4. QED BY <1>1, <1>2, <1>3, RateIsZone, PTL DEF Spec

\* The client of the last request is the one that is answered.
LEMMA RequestClient ==
    ASSUME NEW w, NEW c, Request(w, c)
    PROVE  reply'.client = c
  BY DEF Request, Limit, Block, PassUnmatched, StartBucket, PassUntracked, PassWithinRate,
         Penalise, RefuseUnrecorded, Answer, Declined, TooManyRequests

-----------------------------------------------------------------------------
(* Independent buckets                                                     *)

\* By a clock that may be late but never ahead, a bucket that is collected has been unused
\* for the timeout of some configuration; ngx_time() being that same clock.
LEMMA CollectedLate ==
    ASSUME IInv, WallOffset = 0, NEW w \in Worker, NEW k \in BucketKey, k \in Keys(zone),
           Collectable(k, zone.tree[k], Now(w), Conf(w).timeout)
    PROVE  \E g \in DOMAIN Config :
             clock + 1000 > zone.tree[k].last_ms + 1000 * Config[g].timeout
<1>1. gen[w] \in DOMAIN Config
  <2>1. DOMAIN Config = 1..Len(Config) /\ Len(Config) \in Nat
    BY ConfigAssumption
  <2>2. latest \in 1..Len(Config) /\ gen[w] \in 1..latest
    BY <2>1 DEF IInv, TypeOK
  <2>3. QED BY <2>1, <2>2
<1>2. PICK timeout, last, now, at \in Nat :
        /\ timeout = Config[gen[w]].timeout /\ last = zone.tree[k].last_ms
        /\ at = cached[w] /\ now = clock /\ at <= now
  <2>1. Conf(w).timeout \in Nat
    BY ConfFacts DEF IInv
  <2>2. zone.tree[k].last_ms \in Nat
    BY DEF IInv, Sound, Node
  <2>3. cached[w] \in Nat /\ clock \in Nat /\ cached[w] <= clock
    BY DEF IInv, TypeOK
  <2>4. QED BY <2>1, <2>2, <2>3 DEF Conf
<1>3. at \div 1000 >= last \div 1000 + timeout
  <2>1. k.type # "GL"
    BY BucketFacts
  <2>2. (WallOffset + cached[w]) \div 1000 >= zone.tree[k].last_ms \div 1000 + Conf(w).timeout
    BY <2>1 DEF Collectable, Now, Wall
  <2>3. WallOffset + cached[w] = at
    BY <1>2
  <2>4. QED BY <1>2, <2>2, <2>3 DEF Conf
<1>4. now + 1000 > last + 1000 * timeout
  BY <1>2, <1>3
<1>5. QED BY <1>1, <1>2, <1>4

\* gl_expire and the rules of gl_handler never touch the bucket of another client, unless
\* it was unused for a zone's timeout: for any number of workers, however late their clocks.
THEOREM Independence ==
    ASSUME WallOffset = 0
    PROVE  Spec => IndependentBuckets
<1> DEFINE Step ==
      \A c \in Client, i \in RuleIndex :
         /\ RLKey(i, c) \in Keys(zone)
         /\ reply'.client # c
         => \/ RLKey(i, c) \in Keys(zone') /\ zone'.tree[RLKey(i, c)] = zone.tree[RLKey(i, c)]
            \/ \E g \in DOMAIN Config :
                 clock + 1000 > zone.tree[RLKey(i, c)].last_ms + 1000 * Config[g].timeout
<1>1. IInv /\ [Next]_vars => [Step]_vars
  <2> SUFFICES ASSUME IInv, Next PROVE Step
    OBVIOUS
  <2>1. CASE UNCHANGED zone
    BY <2>1
  <2>2. ASSUME NEW w \in Worker, NEW d \in Client, Request(w, d) PROVE Step
    <3>1. reply'.client = d
      BY <2>2, RequestClient
    <3> SUFFICES ASSUME NEW c \in Client, NEW i \in RuleIndex, RLKey(i, c) \in Keys(zone), d # c
                 PROVE  \/ /\ RLKey(i, c) \in Keys(zone')
                           /\ zone'.tree[RLKey(i, c)] = zone.tree[RLKey(i, c)]
                        \/ \E g \in DOMAIN Config :
                             clock + 1000 > zone.tree[RLKey(i, c)].last_ms
                                            + 1000 * Config[g].timeout
      BY <3>1
    <3>2. /\ RLKey(i, c) \in BucketKey /\ RLKey(i, c) \in Key /\ RLKey(i, c).client = c
          /\ RLKey(i, c) # GLKey(d)
      BY BucketFacts
    <3>3. \E S : RLKey(i, c) \notin S /\ Collects(zone', zone, w, S)
      <4>1. BucketOutcome(w, d)
        BY <2>2, RequestBuckets
      <4>2. zone' = zone => Collects(zone', zone, w, {})
        BY DEF Collects
      <4>3. QED BY <3>2, <4>1, <4>2 DEF BucketOutcome
    <3>4. \/ /\ RLKey(i, c) \in Keys(zone')
             /\ zone'.tree[RLKey(i, c)] = zone.tree[RLKey(i, c)]
          \/ Collectable(RLKey(i, c), zone.tree[RLKey(i, c)], Now(w), Conf(w).timeout)
      BY <3>2, <3>3 DEF Collects
    <3>5. QED BY <3>2, <3>4, CollectedLate
  <2>3. QED BY <2>1, <2>2 DEF Next, AdvanceClock, Reload, UpdateTime, ReplaceWorker
<1>2. QED BY <1>1, Inductive, PTL DEF Spec, IndependentBuckets

-----------------------------------------------------------------------------
(* A lapsed entry                                                          *)

\* A client whose entry lapsed is served where every rule leaks two requests in any rule's
\* penalty less a second, the second that the clocks round away, and every node fits.
Outlasting ==
    \A i, j \in DOMAIN Config[1].rules :
      Config[1].rules[i].rate * (Config[1].rules[j].duration - 1) >= 2000

Roomy == IsFiniteSet(Key) /\ Cardinality(Key) <= Capacity

\* At `now` some rule's penalty has passed since `last`.
Outlasts(last, now) ==
    \E j \in DOMAIN Config[1].rules : now >= Wall(last) + Config[1].rules[j].duration

\* A bucket is above its burst by one request at most, and only as long as the client's
\* entry is there or the penalty has passed; an entry is never older than a bucket.
Levelled(c, i, now) ==
    LET node == zone.tree[RLKey(i, c)]
        rule == Config[1].rules[i]
    IN  /\ node.excess <= rule.burst + 1000
        /\ GLKey(c) \in Keys(zone) => Outlasts(node.last_ms, zone.tree[GLKey(c)].expiry)
        /\ node.excess > rule.burst => GLKey(c) \in Keys(zone) \/ Outlasts(node.last_ms, now)

SInv ==
    /\ OInv
    /\ clock <= MaxClock
    /\ \A w \in Worker, c \in Client, i \in RuleIndex :
         RLKey(i, c) \in Keys(zone) => Levelled(c, i, Now(w))

\* In a slab with room for every key there is always room for one more.
LEMMA RoomFacts ==
    ASSUME Roomy, NEW z, Sound(z), NEW k \in Key, k \notin Keys(z)
    PROVE  HasRoom(z)
<1>1. Keys(z) \subseteq Key \ {k} /\ IsFiniteSet(Key)
  BY DEF Sound, Roomy
<1>2. Cardinality(Key \ {k}) = Cardinality(Key) - 1 /\ IsFiniteSet(Key \ {k})
  BY <1>1, FS_RemoveElement
<1>3. Cardinality(Keys(z)) <= Cardinality(Key \ {k})
  BY <1>1, <1>2, FS_Subset
<1>4. Cardinality(Keys(z)) \in Nat /\ Cardinality(Key) \in Nat
  BY <1>1, FS_CardinalityType DEF Sound
<1>5. QED BY <1>2, <1>3, <1>4, CapacityAssumption DEF Roomy, HasRoom

\* The rules of a configuration that exists.
LEMMA RuleFacts ==
    ASSUME SteadyRules, NEW i \in RuleIndex
    PROVE  i \in DOMAIN Config[1].rules /\ Config[1].rules[i] \in Rule
<1>1. i \in DOMAIN Config[1].rules
  BY DEF RuleIndex, SteadyRules
<1> DEFINE T == [timeout : Nat \ {0}, rules : Seq(Rule)]
<1>2. Config \in Seq(T) /\ Config # <<>>
  BY ConfigAssumption
<1> HIDE DEF T
<1>3. Config[1] \in T
  BY <1>2
<1> HIDE DEF Rule
<1>4. QED BY <1>1, <1>3 DEF T

LEMMA DurationFacts ==
    \A j \in DOMAIN Config[1].rules : Config[1].rules[j].duration \in Nat \ {0}
<1> SUFFICES ASSUME NEW j \in DOMAIN Config[1].rules
             PROVE  Config[1].rules[j].duration \in Nat \ {0}
  OBVIOUS
<1> DEFINE T == [timeout : Nat \ {0}, rules : Seq(Rule)]
<1>1. Config \in Seq(T) /\ Config # <<>>
  BY ConfigAssumption
<1> HIDE DEF T
<1>2. Config[1] \in T
  BY <1>1
<1>3. Config[1].rules \in Seq(Rule)
  BY <1>2 DEF T
<1> HIDE DEF Rule
<1>4. Config[1].rules[j] \in Rule
  BY <1>3
<1>5. QED BY <1>4 DEF Rule

\* Time passes.
LEMMA OutlastsLater ==
    ASSUME NEW last \in Nat, NEW now \in Nat, NEW later \in Nat, now <= later,
           Outlasts(last, now)
    PROVE  Outlasts(last, later)
<1>1. PICK j \in DOMAIN Config[1].rules : now >= Wall(last) + Config[1].rules[j].duration
  BY DEF Outlasts
<1>2. Wall(last) \in Nat
  BY ClockAssumption DEF Wall
<1>3. Config[1].rules[j].duration \in Nat
  BY DurationFacts
<1>4. later >= Wall(last) + Config[1].rules[j].duration
  BY <1>1, <1>2, <1>3
<1>5. QED BY <1>4 DEF Outlasts

LEMMA OneLess ==
    \A n \in Nat \ {0} : \E less \in Nat : n = less + 1
<1> SUFFICES ASSUME NEW n \in Nat \ {0}
             PROVE  \E less \in Nat : n = less + 1
  OBVIOUS
<1>1. n - 1 \in Nat /\ n = (n - 1) + 1
  OBVIOUS
<1>2. QED BY <1>1, Zenon

\* What a use does to the level: one request at most is added, and none above the burst
\* when a penalty has passed.
LEMMA UsedLevel ==
    ASSUME SteadyRules, NoWrap, Outlasting, NEW i \in RuleIndex, NEW node \in Node,
           NEW now \in Nat, node.last_ms <= now, now <= MaxClock,
           node.excess <= Config[1].rules[i].burst + 1000,
           node.excess > Config[1].rules[i].burst => Outlasts(node.last_ms, Wall(now))
    PROVE  LET rule   == Config[1].rules[i]
               excess == NewExcess(rule, node, now)
           IN  /\ excess \in Nat
               /\ excess <= rule.burst + 1000
               /\ Outlasts(node.last_ms, Wall(now)) => excess <= rule.burst
<1> DEFINE rule == Config[1].rules[i]
           excess == NewExcess(rule, node, now)
<1>1. i \in DOMAIN Config[1].rules /\ rule \in Rule
  BY RuleFacts
<1>2. PICK rate, burst, last, old \in Nat :
        rate = rule.rate /\ burst = rule.burst /\ last = node.last_ms /\ old = node.excess
  BY <1>1 DEF Rule, Node
<1>3. PICK gap \in Nat : gap = now - last /\ gap <= now
  BY <1>2
<1> DEFINE leak == (rate * gap) \div 1000
<1>4. Leak(rule.rate, now - node.last_ms) = leak /\ leak \in Nat
  <2>1. MaxClock \in Nat /\ rate * MaxClock < Word
    BY <1>1, <1>2 DEF NoWrap
  <2>2. gap <= MaxClock
    BY <1>3, <2>1
  <2>3. \A x, y, n \in Nat : x <= n => y * x <= y * n
    OBVIOUS
  <2>4. rate * gap <= rate * MaxClock /\ rate * gap \in Nat /\ rate * MaxClock \in Nat
    BY <2>1, <2>2, <2>3
  <2>5. rate * gap < Word
    BY <2>1, <2>4, WordAssumption
  <2>6. leak \in Nat
    BY LeakGrows
  <2>7. QED BY <1>2, <1>3, <2>5, <2>6, LeakExact
<1>5. Outlasts(node.last_ms, Wall(now)) => leak >= 2000
  <2> SUFFICES ASSUME Outlasts(node.last_ms, Wall(now)) PROVE leak >= 2000
    OBVIOUS
  <2>1. PICK j \in DOMAIN Config[1].rules :
          Wall(now) >= Wall(node.last_ms) + Config[1].rules[j].duration
    BY DEF Outlasts
  <2>2. PICK less \in Nat : Config[1].rules[j].duration = less + 1
    <3>1. Config[1].rules[j].duration \in Nat \ {0}
      BY DurationFacts
    <3>2. QED BY <3>1, OneLess
  <2>3. rate * less >= 2000
    <3>1. Config[1].rules[i].rate * (Config[1].rules[j].duration - 1) >= 2000
      BY <1>1, <2>1 DEF Outlasting
    <3>2. Config[1].rules[j].duration - 1 = less
      BY <2>2
    <3>3. QED BY <1>2, <3>1, <3>2
  <2>4. (WallOffset + now) \div 1000 >= (WallOffset + last) \div 1000 + (less + 1)
    <3>1. Wall(now) >= Wall(last) + (less + 1)
      BY <1>2, <2>1, <2>2
    <3>2. QED BY <3>1 DEF Wall
  <2>5. gap >= 1000 * less
    BY <1>3, <2>4, ClockAssumption
  <2>6. \A x, y, n \in Nat : n >= 1000 * x /\ y * x >= 2000 => (y * n) \div 1000 >= 2000
    <3> SUFFICES ASSUME NEW x \in Nat, NEW y \in Nat, NEW n \in Nat, n >= 1000 * x, y * x >= 2000
                 PROVE  (y * n) \div 1000 >= 2000
      OBVIOUS
    <3>1. \A m \in Nat : m <= n => y * m <= y * n
      OBVIOUS
    <3>2. y * (1000 * x) <= y * n /\ y * (1000 * x) = 1000 * (y * x) /\ y * n \in Nat
          /\ y * x \in Nat
      BY <3>1
    <3>3. \A p, q \in Nat : q >= 2000 /\ 1000 * q <= p => p \div 1000 >= 2000
      OBVIOUS
    <3>4. QED BY <3>2, <3>3
  <2>7. QED BY <2>3, <2>5, <2>6
<1> HIDE DEF leak
<1>6. excess = IF old - leak + 1000 < 0 THEN 0 ELSE old - leak + 1000
  BY <1>2, <1>4 DEF NewExcess
<1>7. old <= burst + 1000 /\ (old > burst => leak >= 2000)
  BY <1>2, <1>5
<1> HIDE DEF excess
<1>8. excess \in Nat /\ excess <= burst + 1000 /\ (leak >= 2000 => excess <= burst)
  BY <1>4, <1>6, <1>7
<1>9. QED BY <1>2, <1>5, <1>8 DEF excess

\* A client that is let in is one whose penalty has passed, if it had one.
LEMMA LetInFacts ==
    ASSUME SInv, NEW w \in Worker, NEW c \in Client, ~Greylisted(w, c),
           NEW i \in RuleIndex, RLKey(i, c) \in Keys(zone)
    PROVE  LET node == zone.tree[RLKey(i, c)]
           IN  /\ node \in Node /\ node.last_ms <= cached[w]
               /\ node.excess <= Config[1].rules[i].burst + 1000
               /\ GLKey(c) \in Keys(zone) \/ node.excess > Config[1].rules[i].burst
                  => Outlasts(node.last_ms, Now(w))
<1> DEFINE node == zone.tree[RLKey(i, c)]
<1>1. IInv /\ Levelled(c, i, Now(w)) /\ Aged(zone, cached[w])
  BY DEF SInv, OInv
<1>2. node \in Node /\ node.last_ms <= cached[w] /\ node.last_ms \in Nat
  BY <1>1 DEF IInv, Sound, Aged, UsedBy, Node
<1>3. ASSUME GLKey(c) \in Keys(zone) PROVE Outlasts(node.last_ms, Now(w))
  <2>1. zone.tree[GLKey(c)].expiry \in Nat
    BY <1>1, <1>3 DEF IInv, Sound, Node
  <2>2. Now(w) \in Nat
    BY <1>1, ClockFacts DEF IInv
  <2>3. zone.tree[GLKey(c)].expiry <= Now(w)
    BY <1>3, <2>1, <2>2 DEF Greylisted
  <2>4. QED BY <1>1, <1>2, <1>3, <2>1, <2>2, <2>3, OutlastsLater DEF Levelled
<1>4. QED BY <1>1, <1>2, <1>3 DEF Levelled

\* The level of the bucket that a request of c uses.
LEMMA LetInLevel ==
    ASSUME SInv, SteadyRules, NoWrap, Outlasting, NEW w \in Worker, NEW c \in Client,
           ~Greylisted(w, c), NEW i \in RuleIndex, RLKey(i, c) \in Keys(zone)
    PROVE  LET rule   == Config[1].rules[i]
               excess == NewExcess(rule, zone.tree[RLKey(i, c)], cached[w])
           IN  /\ excess \in Nat
               /\ excess <= rule.burst + 1000
               /\ GLKey(c) \in Keys(zone) => excess <= rule.burst
<1>1. /\ zone.tree[RLKey(i, c)] \in Node /\ zone.tree[RLKey(i, c)].last_ms <= cached[w]
      /\ zone.tree[RLKey(i, c)].excess <= Config[1].rules[i].burst + 1000
      /\ GLKey(c) \in Keys(zone) \/ zone.tree[RLKey(i, c)].excess > Config[1].rules[i].burst
         => Outlasts(zone.tree[RLKey(i, c)].last_ms, Wall(cached[w]))
  BY LetInFacts DEF Now
<1>2. cached[w] \in Nat /\ cached[w] <= MaxClock
  BY DEF SInv, OInv, IInv, TypeOK, NoWrap
<1>3. QED BY <1>1, <1>2, UsedLevel

\* A bucket that a request leaves alone stays levelled: the entry of its client is kept, or
\* collected, or replaced by one that is younger than the bucket.
LEMMA KeptLevelled ==
    ASSUME SInv, IInv', SteadyRules, NEW w \in Worker, UNCHANGED cached,
           NEW c \in Client, NEW i \in RuleIndex,
           RLKey(i, c) \in Keys(zone), zone'.tree[RLKey(i, c)] = zone.tree[RLKey(i, c)],
           LET own == GLKey(c)
           IN  /\ own \in Keys(zone) /\ own \notin Keys(zone') =>
                    Outlasts(zone.tree[RLKey(i, c)].last_ms, Now(w))
               /\ own \in Keys(zone') =>
                    \/ own \in Keys(zone) /\ zone'.tree[own] = zone.tree[own]
                    \/ Outlasts(zone.tree[RLKey(i, c)].last_ms, zone'.tree[own].expiry)
    PROVE  Levelled(c, i, Now(w))'
<1>1. Levelled(c, i, Now(w)) /\ Now(w)' = Now(w)
  BY DEF SInv, Now
<1>2. QED BY <1>1 DEF Levelled, Outlasts

LEMMA RequestLevelled ==
    ASSUME SInv, IInv', SteadyRules, NoWrap, Outlasting, Roomy, NEW w \in Worker,
           UNCHANGED cached, NEW c \in Client, Request(w, c),
           NEW d \in Client, NEW i \in RuleIndex, RLKey(i, d) \in Keys(zone')
    PROVE  Levelled(d, i, Now(w))'
<1> DEFINE b == RLKey(i, d)
<1>1. /\ IInv /\ b \in BucketKey /\ b \in Key /\ b.client = d /\ b.rule = i
      /\ \A e : b # GLKey(e)
  BY BucketFacts DEF SInv, OInv
<1>2. BucketOutcome(w, c)
  BY <1>1, RequestBuckets
<1>3. CASE zone' = zone
  BY <1>3, KeptLevelled
<1>4. ASSUME NEW S, ~Greylisted(w, c), GLKey(c) \in S, Collects(zone', zone, w, S), b \notin S,
             \A x \in S : x = GLKey(c) \/ x.type = "RL",
             GLKey(c) \in Keys(zone') =>
               \E r \in RuleIndex : zone'.tree[GLKey(c)].expiry
                                      = Now(w) + Config[1].rules[r].duration
      PROVE  Levelled(d, i, Now(w))'
  <2>1. b \in Keys(zone) /\ zone'.tree[b] = zone.tree[b]
    BY <1>1, <1>4 DEF Collects
  <2>2. Levelled(d, i, Now(w)) /\ zone.tree[b].last_ms \in Nat /\ zone.tree[b].last_ms <= cached[w]
    BY <1>1, <2>1 DEF SInv, OInv, Aged, UsedBy, IInv, Sound, Node
  <2>3. CASE d = c
    <3>1. GLKey(c) \in Keys(zone) => Outlasts(zone.tree[b].last_ms, Now(w))
      BY <1>4, <2>1, <2>3, LetInFacts
    <3>2. ASSUME GLKey(c) \in Keys(zone')
          PROVE  Outlasts(zone.tree[b].last_ms, zone'.tree[GLKey(c)].expiry)
      <4>1. PICK r \in RuleIndex : zone'.tree[GLKey(c)].expiry
                                     = Now(w) + Config[1].rules[r].duration
        BY <1>4, <3>2
      <4>2. r \in DOMAIN Config[1].rules /\ Config[1].rules[r].duration \in Nat
        BY RuleFacts, DurationFacts
      <4>3. Now(w) >= Wall(zone.tree[b].last_ms)
        <5>1. cached[w] \in Nat
          BY <1>1, ClockFacts DEF IInv
        <5>2. QED BY <2>2, <5>1, ClockAssumption DEF Now, Wall
      <4>4. Now(w) \in Nat /\ Wall(zone.tree[b].last_ms) \in Nat
        BY <1>1, <2>2, ClockFacts, ClockAssumption DEF IInv, Wall
      <4>5. zone'.tree[GLKey(c)].expiry
              >= Wall(zone.tree[b].last_ms) + Config[1].rules[r].duration
        BY <4>1, <4>2, <4>3, <4>4
      <4>6. QED BY <4>2, <4>5 DEF Outlasts
    <3>3. QED BY <2>1, <2>3, <3>1, <3>2, KeptLevelled
  <2>4. CASE d # c
    <3>1. GLKey(d) \in Key \ S
      BY <1>4, <2>4, KeyFacts DEF GLKey
    <3>2. GLKey(d) \in Keys(zone') =>
            GLKey(d) \in Keys(zone) /\ zone'.tree[GLKey(d)] = zone.tree[GLKey(d)]
      BY <1>4, <3>1 DEF Collects
    <3>3. ASSUME GLKey(d) \in Keys(zone), GLKey(d) \notin Keys(zone')
          PROVE  Outlasts(zone.tree[b].last_ms, Now(w))
      <4>1. Collectable(GLKey(d), zone.tree[GLKey(d)], Now(w), Conf(w).timeout)
        BY <1>4, <3>1, <3>3 DEF Collects
      <4>2. GLKey(d).type = "GL" /\ zone.tree[GLKey(d)].expiry \in Nat /\ Now(w) \in Nat
            /\ Conf(w).timeout \in Nat
        BY <1>1, <3>3, ClockFacts, ConfFacts DEF GLKey, IInv, Sound, Node
      <4>3. zone.tree[GLKey(d)].expiry <= Now(w)
        BY <4>1, <4>2 DEF Collectable
      <4>4. Outlasts(zone.tree[b].last_ms, zone.tree[GLKey(d)].expiry)
        BY <2>2, <3>3 DEF Levelled
      <4>5. QED BY <2>2, <4>2, <4>3, <4>4, OutlastsLater
    <3>4. QED BY <2>1, <3>2, <3>3, KeptLevelled
  <2>5. QED BY <2>3, <2>4
<1>5. CASE /\ ~Greylisted(w, c) /\ Collects(zone', zone, w, {GLKey(c)})
           /\ GLKey(c) \notin Keys(zone')
  BY <1>1, <1>4, <1>5
<1>6. ASSUME NEW k \in BucketKey, k.client = c, ~Greylisted(w, c),
             Collects(zone', zone, w, {k, GLKey(c)}), BucketStarted(w, k)
      PROVE  Levelled(d, i, Now(w))'
  <2>1. CASE b # k
    <3>1. GLKey(c) \notin Keys(zone') /\ k.type = "RL"
      BY <1>6, BucketFacts DEF BucketStarted
    <3>2. QED BY <1>1, <1>4, <1>6, <2>1, <3>1
  <2>2. CASE b = k
    <3>1. zone'.tree[b] = RLNode(cached[w], 0) /\ GLKey(d) \notin Keys(zone')
      BY <1>1, <1>6, <2>2 DEF BucketStarted
    <3>2. zone'.tree[b].excess = 0
      BY <3>1 DEF RLNode
    <3>3. Config[1].rules[i].burst \in Nat
      BY RuleFacts DEF Rule
    <3>4. QED BY <3>1, <3>2, <3>3 DEF Levelled
  <2>3. QED BY <2>1, <2>2
<1>7. ASSUME NEW k \in BucketKey, k.client = c, ~Greylisted(w, c),
             Collects(zone', zone, w, {k, GLKey(c)}), NEW s \in Subject, BucketUsed(w, s, k)
      PROVE  Levelled(d, i, Now(w))'
  <2>1. /\ k \in Keys(zone) /\ k.type = "RL" /\ k.rule \in RuleIndex /\ k = RLKey(k.rule, c)
        /\ Conf(w).rules = Config[1].rules
    <3>1. Conf(w).rules = Config[1].rules
      BY <1>1, SteadyFacts DEF SInv, IInv
    <3>2. k = RLKey(k.rule, k.client) /\ k.type = "RL" /\ k.rule \in RuleIndex
      BY BucketFacts
    <3>3. QED BY <1>7, <3>1, <3>2 DEF BucketUsed
  <2> DEFINE rule == Config[1].rules[k.rule]
             excess == NewExcess(rule, zone.tree[k], cached[w])
  <2>2. /\ excess \in Nat /\ excess <= rule.burst + 1000
        /\ GLKey(c) \in Keys(zone) => excess <= rule.burst
    BY <1>7, <2>1, LetInLevel
  <2>3. /\ k \in Keys(zone') => zone'.tree[k] = RLNode(cached[w], excess)
        /\ \/ excess <= rule.burst /\ GLKey(c) \notin Keys(zone')
           \/ GLKey(c) \in Keys(zone') /\ zone'.tree[GLKey(c)].expiry = Now(w) + rule.duration
           \/ GLKey(c) \notin Keys(zone') /\ ~HasRoom(zone')
    BY <1>7, <2>1 DEF BucketUsed
  <2>4. \/ excess <= rule.burst /\ GLKey(c) \notin Keys(zone')
        \/ GLKey(c) \in Keys(zone') /\ zone'.tree[GLKey(c)].expiry = Now(w) + rule.duration
    <3>1. Sound(zone') /\ GLKey(c) \in Key
      BY KeyFacts DEF IInv
    <3>2. GLKey(c) \notin Keys(zone') => HasRoom(zone')
      BY <3>1, RoomFacts
    <3>3. QED BY <2>3, <3>2
  <2>5. CASE b # k
    BY <1>1, <1>4, <1>7, <2>1, <2>4, <2>5
  <2>6. CASE b = k
    <3>1. d = c /\ i = k.rule
      BY <1>1, <1>7, <2>6
    <3>2. zone'.tree[b].last_ms = cached[w] /\ zone'.tree[b].excess = excess
      BY <2>3, <2>6 DEF RLNode
    <3>3. ASSUME GLKey(c) \in Keys(zone')
          PROVE  Outlasts(cached[w], zone'.tree[GLKey(c)].expiry)
      <4>1. zone'.tree[GLKey(c)].expiry = Now(w) + rule.duration
        BY <2>4, <3>3
      <4>2. k.rule \in DOMAIN Config[1].rules /\ rule.duration \in Nat
        BY <2>1, RuleFacts, DurationFacts
      <4>3. Now(w) \in Nat /\ Now(w) = Wall(cached[w])
        BY <1>1, ClockFacts DEF IInv, Now
      <4>4. zone'.tree[GLKey(c)].expiry >= Wall(cached[w]) + rule.duration
        BY <4>1, <4>2, <4>3
      <4>5. QED BY <4>2, <4>4 DEF Outlasts
    <3>4. rule.burst \in Nat
      BY <2>1, RuleFacts DEF Rule
    <3>5. excess > rule.burst => GLKey(c) \in Keys(zone')
      BY <2>2, <2>4, <3>4
    <3> HIDE DEF excess
    <3>6. QED BY <2>2, <3>1, <3>2, <3>3, <3>5 DEF Levelled, Outlasts
  <2>7. QED BY <2>5, <2>6
<1>8. QED BY <1>2, <1>3, <1>5, <1>6, <1>7 DEF BucketOutcome

LEMMA NextSInv ==
    ASSUME OneWorker, SteadyRules, NoWrap, Outlasting, Roomy, SInv, [Next]_vars
    PROVE  SInv'
<1>1. OInv' /\ IInv'
  BY NextOInv DEF SInv, OInv
<1>2. IInv /\ clock \in Nat /\ \A w \in Worker : cached[w] \in Nat /\ cached[w] <= clock
  BY DEF SInv, OInv, IInv, TypeOK
<1>3. CASE UNCHANGED <<cached, zone>> /\ clock' <= MaxClock
  BY <1>1, <1>3 DEF SInv, Levelled, Now, Outlasts
<1>4. ASSUME NEW w \in Worker, UpdateTime(w) \/ ReplaceWorker(w) PROVE SInv'
  <2>1. UNCHANGED <<clock, zone>> /\ cached' = [cached EXCEPT ![w] = clock] /\ cached'[w] = clock
    BY <1>2, <1>4 DEF UpdateTime, ReplaceWorker, IInv, TypeOK
  <2>2. ASSUME NEW c \in Client, NEW i \in RuleIndex, RLKey(i, c) \in Keys(zone')
        PROVE  Levelled(c, i, Now(w))'
    <3> DEFINE last == zone.tree[RLKey(i, c)].last_ms
    <3>1. Levelled(c, i, Now(w)) /\ last \in Nat
      BY <1>2, <2>1, <2>2 DEF SInv, IInv, Sound, Node
    <3>2. Outlasts(last, Wall(cached[w])) => Outlasts(last, Wall(clock))
      <4>1. Wall(cached[w]) \in Nat /\ Wall(clock) \in Nat /\ Wall(cached[w]) <= Wall(clock)
        BY <1>2, ClockAssumption DEF Wall
      <4>2. QED BY <3>1, <4>1, OutlastsLater
    <3>3. Now(w) = Wall(cached[w]) /\ Now(w)' = Wall(clock)
      BY <2>1 DEF Now
    <3>4. QED BY <2>1, <3>1, <3>2, <3>3 DEF Levelled
  <2>3. \A v \in Worker : v = w
    BY DEF OneWorker
  <2>4. QED BY <1>1, <2>1, <2>2, <2>3 DEF SInv
<1>5. ASSUME NEW w \in Worker, NEW c \in Client, Request(w, c) PROVE SInv'
  <2>1. UNCHANGED <<clock, cached>>
    BY <1>5 DEF Request, Limit, Block, PassUnmatched, StartBucket, PassUntracked, PassWithinRate,
                Penalise, RefuseUnrecorded, Answer
  <2>2. \A d \in Client, i \in RuleIndex : RLKey(i, d) \in Keys(zone') => Levelled(d, i, Now(w))'
    BY <1>1, <1>5, <2>1, RequestLevelled
  <2>3. \A v \in Worker : v = w
    BY DEF OneWorker
  <2>4. QED BY <1>1, <2>1, <2>2, <2>3 DEF SInv
<1>6. clock <= MaxClock
  BY DEF SInv
<1>7. QED BY <1>3, <1>4, <1>5, <1>6 DEF Next, AdvanceClock, Reload, vars

\* gl_handler after a penalty: the bucket of a client whose entry lapsed has leaked enough to
\* let the request in, whatever the other clients did to the zone and whichever rule matches.
\* A penalty too short for its rule (README's examples have none) or a slab that is full is
\* what the hypotheses rule out: there a lapsed client may well be refused at once.
THEOREM LapsedServed ==
    ASSUME OneWorker, SteadyRules, NoWrap, Outlasting, Roomy
    PROVE  Spec => LapsedIsServed
<1> DEFINE Step ==
      \A c \in Client :
         /\ GLKey(c) \in Keys(zone)
         /\ reply'.client = c
         /\ GLKey(c) \in Keys(zone') => zone'.tree[GLKey(c)] # zone.tree[GLKey(c)]
         => reply'.status = "declined"
<1>1. Init => SInv
  <2>1. Init => Keys(zone) = {} /\ DOMAIN zone.queue = {} /\ clock <= MaxClock
    BY DEF Init, Keys, NoWrap
  <2>2. QED BY <2>1, InitIInv DEF SInv, OInv, Aged, InOrder, UsedBy
<1>2. SInv /\ [Next]_vars => SInv'
  BY NextSInv
<1>3. SInv /\ [Next]_vars => [Step]_vars
  <2> SUFFICES ASSUME SInv, Next PROVE Step
    OBVIOUS
  <2>1. CASE UNCHANGED zone
    BY <2>1
  <2>2. ASSUME NEW w \in Worker, NEW d \in Client, Request(w, d) PROVE Step
    <3> SUFFICES ASSUME NEW c \in Client, GLKey(c) \in Keys(zone), reply'.client = c,
                        GLKey(c) \in Keys(zone') => zone'.tree[GLKey(c)] # zone.tree[GLKey(c)]
                 PROVE  reply'.status = "declined"
      OBVIOUS
    <3>1. d = c
      BY <2>2, RequestClient
    <3>2. BucketOutcome(w, c)
      BY <2>2, <3>1, RequestBuckets DEF SInv, OInv
    <3>3. zone' # zone
      OBVIOUS
    <3>4. ASSUME NEW k \in BucketKey, k.client = c, ~Greylisted(w, c), NEW s \in Subject,
                 BucketUsed(w, s, k)
          PROVE  reply'.status = "declined"
      <4>1. Conf(w).rules = Config[1].rules
        BY SteadyFacts DEF SInv, OInv, IInv
      <4>2. k = RLKey(k.rule, c) /\ k.rule \in RuleIndex /\ k \in Keys(zone)
        BY <3>4, BucketFacts DEF BucketUsed
      <4> DEFINE rule == Config[1].rules[k.rule]
                 excess == NewExcess(rule, zone.tree[k], cached[w])
      <4>3. excess \in Nat /\ excess <= rule.burst
        BY <3>4, <4>2, LetInLevel
      <4>4. rule.burst \in Nat
        BY <4>2, RuleFacts DEF Rule
      <4>5. (excess <= rule.burst /\ reply'.status = "declined") \/ excess > rule.burst
        BY <3>4, <4>1 DEF BucketUsed
      <4> HIDE DEF excess
      <4>6. QED BY <4>3, <4>4, <4>5
    <3>5. QED BY <3>2, <3>3, <3>4 DEF BucketOutcome, BucketStarted
  <2>3. QED BY <2>1, <2>2 DEF Next, AdvanceClock, Reload, UpdateTime, ReplaceWorker
<1>4. QED BY <1>1, <1>2, <1>3, PTL DEF Spec, LapsedIsServed

=============================================================================
