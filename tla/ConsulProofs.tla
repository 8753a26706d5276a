---------------------------- MODULE ConsulProofs ----------------------------
(***************************************************************************)
(* Theorems about the Consul module and the registration script beside it: *)
(* what the catalogue says of the servers of a file, and that the script   *)
(* takes no listed service from the agent.                                 *)
(***************************************************************************)
EXTENDS ConsulSidecar, FoldProofs

-----------------------------------------------------------------------------
(* Sequences, and lists of what is at certain places                       *)

LEMMA SequenceFacts ==
    ASSUME NEW s, IsSequence(s)
    PROVE  /\ Len(s) \in Nat /\ DOMAIN s = 1..Len(s)
           /\ s \in Seq({s[i] : i \in 1..Len(s)})
           /\ s # <<>> => Len(s) > 0
<1>1. Len(s) \in Nat /\ DOMAIN s = 1..Len(s)
  BY DEF IsSequence
<1>2. s \in Seq({s[i] : i \in 1..Len(s)})
  <2>1. s \in [1..Len(s) -> {s[i] : i \in 1..Len(s)}]
    BY DEF IsSequence
  <2>2. QED BY <1>1, <2>1, IsASeq
<1>3. ASSUME Len(s) = 0 PROVE s = <<>>
  BY <1>2, <1>3, EmptySeq
<1>4. QED BY <1>1, <1>2, <1>3

LEMMA SeqIsSequence == ASSUME NEW S, NEW s \in Seq(S) PROVE IsSequence(s)
BY LenProperties DEF IsSequence

LEMMA AppendFacts ==
    ASSUME NEW s, IsSequence(s), NEW x
    PROVE  /\ IsSequence(Append(s, x)) /\ Len(Append(s, x)) = Len(s) + 1
           /\ \A i \in 1..Len(s) : Append(s, x)[i] = s[i]
           /\ Append(s, x)[Len(s) + 1] = x
<1>1. PICK S : s \in Seq(S)
  BY SequenceFacts
<1>2. s \in Seq(S \cup {x}) /\ x \in S \cup {x}
  BY <1>1, SeqMonotonic
<1>3. /\ Append(s, x) \in Seq(S \cup {x}) /\ Len(Append(s, x)) = Len(s) + 1
      /\ \A i \in 1..Len(s) : Append(s, x)[i] = s[i]
      /\ Append(s, x)[Len(s) + 1] = x
  BY <1>2, AppendProperties
<1>4. QED BY <1>3, SeqIsSequence

LEMMA TailFacts ==
    ASSUME NEW s, IsSequence(s), s # <<>>
    PROVE  /\ IsSequence(Tail(s)) /\ Len(Tail(s)) = Len(s) - 1 /\ Head(s) = s[1]
           /\ \A i \in 1..Len(s) - 1 : Tail(s)[i] = s[i + 1]
<1>1. PICK S : s \in Seq(S)
  BY SequenceFacts
<1>2. /\ Tail(s) \in Seq(S) /\ Len(Tail(s)) = Len(s) - 1 /\ Head(s) = s[1]
      /\ \A i \in 1..Len(s) - 1 : Tail(s)[i] = s[i + 1]
  BY <1>1, HeadTailProperties
<1>3. QED BY <1>2, SeqIsSequence

\* A place behind all others has the last rank, one before them the first.
LEMMA RankBehind ==
    ASSUME NEW S \in SUBSET Nat, IsFiniteSet(S), NEW m \in Nat, \A i \in S : i < m
    PROVE  /\ IsFiniteSet(S \cup {m}) /\ Cardinality(S \cup {m}) = Cardinality(S) + 1
           /\ Rank(S \cup {m}, m) = Cardinality(S) + 1
           /\ \A i \in S : Rank(S \cup {m}, i) = Rank(S, i)
<1>1. m \notin S
  OBVIOUS
<1>2. IsFiniteSet(S \cup {m}) /\ Cardinality(S \cup {m}) = Cardinality(S) + 1
  BY <1>1, FS_AddElement
<1>3. {j \in S \cup {m} : j <= m} = S \cup {m}
  <2>1. \A j \in S \cup {m} : j <= m
    OBVIOUS
  <2>2. QED BY <2>1, Zenon
<1>4. \A i \in S : {j \in S \cup {m} : j <= i} = {j \in S : j <= i}
  OBVIOUS
<1>5. QED BY <1>2, <1>3, <1>4 DEF Rank

LEMMA RankBefore ==
    ASSUME NEW S \in SUBSET Nat, IsFiniteSet(S), NEW m \in Nat, \A i \in S : m < i
    PROVE  /\ IsFiniteSet(S \cup {m}) /\ Cardinality(S \cup {m}) = Cardinality(S) + 1
           /\ Rank(S \cup {m}, m) = 1
           /\ \A i \in S : Rank(S \cup {m}, i) = Rank(S, i) + 1
<1>1. m \notin S
  OBVIOUS
<1>2. IsFiniteSet(S \cup {m}) /\ Cardinality(S \cup {m}) = Cardinality(S) + 1
  BY <1>1, FS_AddElement
<1>3. {j \in S \cup {m} : j <= m} = {m}
  <2>1. \A j \in S \cup {m} : j <= m <=> j = m
    OBVIOUS
  <2>2. QED BY <2>1, Zenon
<1>4. ASSUME NEW i \in S PROVE Rank(S \cup {m}, i) = Rank(S, i) + 1
  <2>1. {j \in S \cup {m} : j <= i} = {j \in S : j <= i} \cup {m}
    BY <1>4
  <2>2. IsFiniteSet({j \in S : j <= i}) /\ m \notin {j \in S : j <= i}
    BY <1>1, FS_Subset
  <2>3. QED BY <2>1, <2>2, FS_AddElement DEF Rank
<1>5. QED BY <1>2, <1>3, <1>4, FS_Singleton DEF Rank

LEMMA RankRange ==
    ASSUME NEW S \in SUBSET Nat, IsFiniteSet(S), NEW i \in S
    PROVE  Rank(S, i) \in 1..Cardinality(S) /\ Cardinality(S) \in Nat
<1> DEFINE R == {j \in S : j <= i}
<1>1. IsFiniteSet(R) /\ Cardinality(R) <= Cardinality(S)
  BY FS_Subset
<1>2. R # {}
  OBVIOUS
<1>3. Cardinality(R) \in Nat /\ Cardinality(S) \in Nat /\ Cardinality(R) # 0
  BY <1>1, <1>2, FS_CardinalityType, FS_EmptySet
<1>. HIDE DEF R
<1>4. Cardinality(R) \in 1..Cardinality(S)
  BY <1>1, <1>3
<1>5. QED BY <1>3, <1>4 DEF R, Rank

LEMMA FollowsEmpty == ASSUME NEW given, DOMAIN given = {} PROVE Follows(<<>>, given)
BY FS_EmptySet DEF Follows

\* A list grows with the places.
LEMMA FollowsAppend ==
    ASSUME NEW list, IsSequence(list), NEW before, Follows(list, before), NEW given,
           DOMAIN before \in SUBSET Nat, IsFiniteSet(DOMAIN before),
           NEW m \in Nat, \A i \in DOMAIN before : i < m,
           DOMAIN given = DOMAIN before \cup {m}, \A i \in DOMAIN before : given[i] = before[i]
    PROVE  Follows(Append(list, given[m]), given)
<1> DEFINE S == DOMAIN before
           new == Append(list, given[m])
<1>1. Len(list) = Cardinality(S) /\ \A i \in S : list[Rank(S, i)] = before[i]
  BY DEF Follows
<1>2. /\ Cardinality(S \cup {m}) = Cardinality(S) + 1
      /\ Rank(S \cup {m}, m) = Cardinality(S) + 1
      /\ \A i \in S : Rank(S \cup {m}, i) = Rank(S, i)
  <2>. HIDE DEF S
  <2>1. S \in SUBSET Nat /\ IsFiniteSet(S) /\ \A i \in S : i < m
    BY DEF S
  <2>2. QED BY <2>1, RankBehind
<1>3. /\ Len(new) = Len(list) + 1 /\ new[Len(list) + 1] = given[m]
      /\ \A i \in 1..Len(list) : new[i] = list[i]
  BY AppendFacts
<1>4. \A i \in S : Rank(S, i) \in 1..Len(list)
  BY <1>1, RankRange
<1>5. DOMAIN given = S \cup {m} /\ \A i \in S : given[i] = before[i]
  OBVIOUS
<1>. HIDE DEF S, new
<1>6. Len(new) = Cardinality(S \cup {m})
  BY <1>1, <1>2, <1>3
<1>7. new[Rank(S \cup {m}, m)] = given[m]
  BY <1>1, <1>2, <1>3
<1>8. \A i \in S : new[Rank(S \cup {m}, i)] = given[i]
  BY <1>1, <1>2, <1>3, <1>4, <1>5
<1>9. Follows(new, given)
  BY <1>5, <1>6, <1>7, <1>8 DEF Follows
<1>10. QED BY <1>9 DEF new

\* The first of a list is what is at the first place.
LEMMA FollowsFirst ==
    ASSUME NEW list, IsSequence(list), NEW given, Follows(list, given),
           DOMAIN given \in SUBSET Nat, IsFiniteSet(DOMAIN given)
    PROVE  /\ list = <<>> <=> DOMAIN given = {}
           /\ DOMAIN given # {} => list[1] = given[Min(DOMAIN given)]
<1> DEFINE S == DOMAIN given
<1>1. Len(list) = Cardinality(S) /\ \A i \in S : list[Rank(S, i)] = given[i]
  BY DEF Follows
<1>2. S \in SUBSET Nat /\ IsFiniteSet(S)
  OBVIOUS
<1>. HIDE DEF S
<1>3. list = <<>> => S = {}
  BY <1>1, <1>2, FS_EmptySet, EmptySeq
<1>4. S = {} => list = <<>>
  BY <1>1, FS_EmptySet, SequenceFacts
<1>5. ASSUME S # {} PROVE list[1] = given[Min(S)]
  <2>1. Min(S) \in S /\ \A y \in S : Min(S) <= y
    BY <1>2, <1>5, MinFacts
  <2>2. {j \in S : j <= Min(S)} = {Min(S)}
    <3>1. \A j \in S : j <= Min(S) <=> j = Min(S)
      <4>1. \A j \in S : j \in Nat /\ Min(S) \in Nat
        BY <1>2, <2>1
      <4>2. QED BY <2>1, <4>1
    <3>2. QED BY <2>1, <3>1, Zenon
  <2>3. Rank(S, Min(S)) = 1
    BY <2>2, FS_Singleton DEF Rank
  <2>4. QED BY <1>1, <2>1, <2>3
<1>6. QED BY <1>3, <1>4, <1>5 DEF S

LEMMA FollowsPrepend ==
    ASSUME NEW E, NEW list \in Seq(E), NEW x \in E, NEW before, Follows(list, before), NEW given,
           DOMAIN before \in SUBSET Nat, IsFiniteSet(DOMAIN before),
           NEW m \in Nat, \A i \in DOMAIN before : m < i,
           DOMAIN given = DOMAIN before \cup {m}, \A i \in DOMAIN before : given[i] = before[i],
           given[m] = x
    PROVE  Follows(<<x>> \o list, given)
<1> DEFINE S == DOMAIN before
           new == <<x>> \o list
<1>1. Len(list) = Cardinality(S) /\ \A i \in S : list[Rank(S, i)] = before[i]
  BY DEF Follows
<1>2. /\ Cardinality(S \cup {m}) = Cardinality(S) + 1
      /\ Rank(S \cup {m}, m) = 1
      /\ \A i \in S : Rank(S \cup {m}, i) = Rank(S, i) + 1
  <2>. HIDE DEF S
  <2>1. S \in SUBSET Nat /\ IsFiniteSet(S) /\ \A i \in S : m < i
    BY DEF S
  <2>2. QED BY <2>1, RankBefore
<1>3. /\ Len(list) \in Nat /\ Len(new) = Len(list) + 1 /\ new[1] = x
      /\ \A i \in 1..Len(list) : new[i + 1] = list[i]
  <2>1. <<x>> \in Seq(E) /\ Len(<<x>>) = 1 /\ <<x>>[1] = x
    OBVIOUS
  <2>2. /\ Len(new) = Len(<<x>>) + Len(list)
        /\ \A i \in 1..Len(<<x>>) + Len(list) :
             new[i] = IF i <= Len(<<x>>) THEN <<x>>[i] ELSE list[i - Len(<<x>>)]
    BY <2>1, ConcatProperties
  <2>3. Len(list) \in Nat
    OBVIOUS
  <2>. HIDE DEF new
  <2>4. QED BY <2>1, <2>2, <2>3
<1>4. \A i \in S : Rank(S, i) \in 1..Len(list)
  BY <1>1, RankRange
<1>5. DOMAIN given = S \cup {m} /\ \A i \in S : given[i] = before[i]
  OBVIOUS
<1>. HIDE DEF S, new
<1>6. Len(new) = Cardinality(S \cup {m})
  BY <1>1, <1>2, <1>3
<1>7. new[Rank(S \cup {m}, m)] = given[m]
  BY <1>1, <1>2, <1>3
<1>8. \A i \in S : new[Rank(S \cup {m}, i)] = given[i]
  BY <1>1, <1>2, <1>3, <1>4, <1>5
<1>9. Follows(new, given)
  BY <1>5, <1>6, <1>7, <1>8 DEF Follows
<1>10. QED BY <1>9 DEF new

-----------------------------------------------------------------------------
(* The sockets                                                             *)

\* The list of ports: a server is at an address of a port.
Addresses(addrs) ==
    IsSequence(addrs) /\ \A a \in 1..Len(addrs) : IsSequence(addrs[a].servers)

PortList(ps) == IsSequence(ps) /\ \A p \in 1..Len(ps) : Addresses(ps[p].addrs)

AtAddress(addrs, address, server) ==
    \E a \in DOMAIN addrs : addrs[a].address = address /\ server \in Range(addrs[a].servers)

AtPort(ps, port, address, server) ==
    \E p \in DOMAIN ps : ps[p].port = port /\ AtAddress(ps[p].addrs, address, server)

LEMMA ListensFacts ==
    ASSUME NEW ps, NEW server
    PROVE  /\ \A port, address :
                <<port, address>> \in Listens(ps, server) <=> AtPort(ps, port, address, server)
           /\ \A socket \in Listens(ps, server) : socket = <<socket[1], socket[2]>>
<1>1. ASSUME NEW socket
      PROVE  socket \in Listens(ps, server) <=>
               \E p \in DOMAIN ps : \E a \in DOMAIN ps[p].addrs :
                 /\ server \in Range(ps[p].addrs[a].servers)
                 /\ socket = <<ps[p].port, ps[p].addrs[a].address>>
  BY DEF Listens, Range
<1>2. ASSUME NEW port, NEW address
      PROVE  <<port, address>> \in Listens(ps, server) <=> AtPort(ps, port, address, server)
  BY <1>1 DEF AtPort, AtAddress
<1>3. QED BY <1>1, <1>2

LEMMA AppendRange ==
    ASSUME NEW s, IsSequence(s), NEW x, NEW y
    PROVE  x \in Range(Append(s, y)) <=> x \in Range(s) \/ x = y
<1>1. /\ Len(s) \in Nat /\ DOMAIN s = 1..Len(s)
      /\ IsSequence(Append(s, y)) /\ Len(Append(s, y)) = Len(s) + 1
      /\ \A i \in 1..Len(s) : Append(s, y)[i] = s[i]
      /\ Append(s, y)[Len(s) + 1] = y
  BY SequenceFacts, AppendFacts
<1>2. DOMAIN Append(s, y) = 1..Len(s) + 1
  BY <1>1, SequenceFacts
<1>3. QED BY <1>1, <1>2 DEF Range

\* A list of entries with one more, or another one in the place of an entry.
LEMMA EntryAdded ==
    ASSUME NEW s, IsSequence(s), NEW y
    PROVE  /\ IsSequence(Append(s, y)) /\ DOMAIN Append(s, y) = DOMAIN s \cup {Len(s) + 1}
           /\ \A i \in DOMAIN s : Append(s, y)[i] = s[i]
           /\ Append(s, y)[Len(s) + 1] = y
<1>1. /\ Len(s) \in Nat /\ DOMAIN s = 1..Len(s)
      /\ IsSequence(Append(s, y)) /\ Len(Append(s, y)) = Len(s) + 1
      /\ \A i \in 1..Len(s) : Append(s, y)[i] = s[i]
      /\ Append(s, y)[Len(s) + 1] = y
  BY SequenceFacts, AppendFacts
<1>2. DOMAIN Append(s, y) = 1..Len(s) + 1
  BY <1>1, SequenceFacts
<1>3. QED BY <1>1, <1>2

LEMMA EntryReplaced ==
    ASSUME NEW s, IsSequence(s), NEW i \in DOMAIN s, NEW y
    PROVE  /\ IsSequence([s EXCEPT ![i] = y]) /\ DOMAIN [s EXCEPT ![i] = y] = DOMAIN s
           /\ Len([s EXCEPT ![i] = y]) = Len(s)
           /\ \A j \in DOMAIN s : [s EXCEPT ![i] = y][j] = IF j = i THEN y ELSE s[j]
<1>1. PICK S : s \in Seq(S)
  BY SequenceFacts
<1>2. s \in Seq(S \cup {y}) /\ y \in S \cup {y} /\ i \in 1..Len(s) /\ DOMAIN s = 1..Len(s)
  BY <1>1, SeqMonotonic, SequenceFacts
<1>3. /\ [s EXCEPT ![i] = y] \in Seq(S \cup {y})
      /\ Len([s EXCEPT ![i] = y]) = Len(s)
      /\ \A j \in 1..Len(s) : [s EXCEPT ![i] = y][j] = IF j = i THEN y ELSE s[j]
  BY <1>2, ExceptSeq
<1>4. IsSequence([s EXCEPT ![i] = y])
  BY <1>3, SeqIsSequence
<1>5. DOMAIN [s EXCEPT ![i] = y] = DOMAIN s
  OBVIOUS
<1>6. QED BY <1>2, <1>3, <1>4, <1>5

LEMMA EmptyIsSequence == IsSequence(<<>>) /\ DOMAIN <<>> = {} /\ Len(<<>>) = 0
<1>1. <<>> \in Seq({}) /\ Len(<<>>) = 0
  BY EmptySeq
<1>2. IsSequence(<<>>)
  BY <1>1, SeqIsSequence
<1>3. QED BY <1>1, <1>2, SequenceFacts

LEMMA WithServerRight ==
    ASSUME NEW addrs, Addresses(addrs), NEW address, NEW server
    PROVE  /\ Addresses(WithServer(addrs, address, server))
           /\ \A ad, sv : AtAddress(WithServer(addrs, address, server), ad, sv)
                          <=> AtAddress(addrs, ad, sv) \/ (ad = address /\ sv = server)
<1> DEFINE a == SelectInSeq(addrs, LAMBDA e : e.address = address)
           before == IF a = 0 THEN <<>> ELSE addrs[a].servers
           entry == [address |-> address, servers |-> Append(before, server)]
           new == IF a = 0 THEN Append(addrs, entry) ELSE [addrs EXCEPT ![a] = entry]
<1>1. WithServer(addrs, address, server) = new
  BY DEF WithServer
<1>2. /\ IsSequence(addrs) /\ Len(addrs) \in Nat /\ DOMAIN addrs = 1..Len(addrs)
      /\ \A i \in DOMAIN addrs : IsSequence(addrs[i].servers)
  BY SequenceFacts DEF Addresses
<1>3. /\ a \in DOMAIN addrs \cup {0}
      /\ a \in DOMAIN addrs => a # 0 /\ addrs[a].address = address
  <2> DEFINE I == {i \in 1..Len(addrs) : addrs[i].address = address}
  <2>1. a = IF I # {} THEN Min(I) ELSE 0
    BY DEF SelectInSeq
  <2>2. I # {} => Min(I) \in I
    BY <1>2, MinFacts
  <2>. HIDE DEF a
  <2>3. QED BY <1>2, <2>1, <2>2
<1>4. IsSequence(before)
  <2>. HIDE DEF a
  <2>1. QED BY <1>2, <1>3, EmptyIsSequence
<1>5. /\ entry.address = address /\ IsSequence(entry.servers)
      /\ \A sv : sv \in Range(entry.servers) <=> sv \in Range(before) \/ sv = server
  <2>. HIDE DEF before
  <2>1. QED BY <1>4, AppendRange, AppendFacts
<1>6. CASE a = 0
  <2>1. before = <<>> /\ new = Append(addrs, entry)
    BY <1>6
  <2>2. \A sv : sv \notin Range(before)
    BY <2>1, EmptyIsSequence DEF Range
  <2>. HIDE DEF a, before, entry
  <2>3. /\ IsSequence(new) /\ DOMAIN new = DOMAIN addrs \cup {Len(addrs) + 1}
        /\ \A i \in DOMAIN addrs : new[i] = addrs[i]
        /\ new[Len(addrs) + 1] = entry
    <3>. HIDE DEF new
    <3>1. QED BY <1>2, <2>1, EntryAdded
  <2>. HIDE DEF new
  <2>4. Addresses(new)
    BY <1>2, <1>5, <2>3, SequenceFacts DEF Addresses
  <2>5. \A ad, sv : AtAddress(new, ad, sv) <=> AtAddress(addrs, ad, sv) \/ (ad = address /\ sv = server)
    BY <1>5, <2>2, <2>3, Zenon DEF AtAddress
  <2>6. QED BY <1>1, <2>4, <2>5
<1>7. CASE a # 0
  <2>1. before = addrs[a].servers /\ new = [addrs EXCEPT ![a] = entry]
    BY <1>7
  <2>2. a \in DOMAIN addrs /\ addrs[a].address = address
    BY <1>3, <1>7
  <2>. HIDE DEF a, before, entry
  <2>3. /\ IsSequence(new) /\ DOMAIN new = DOMAIN addrs
        /\ \A i \in DOMAIN addrs : new[i] = IF i = a THEN entry ELSE addrs[i]
    <3>. HIDE DEF new
    <3>1. QED BY <1>2, <2>1, <2>2, EntryReplaced
  <2>. HIDE DEF new
  <2>4. Addresses(new)
    BY <1>2, <1>5, <2>3, SequenceFacts DEF Addresses
  <2>5. \A ad, sv : AtAddress(new, ad, sv) <=> AtAddress(addrs, ad, sv) \/ (ad = address /\ sv = server)
    BY <1>5, <2>1, <2>2, <2>3 DEF AtAddress
  <2>6. QED BY <1>1, <2>4, <2>5
<1>8. QED BY <1>6, <1>7

LEMMA WithListenRight ==
    ASSUME NEW ps, PortList(ps), NEW port, NEW address, NEW server
    PROVE  /\ PortList(WithListen(ps, port, address, server))
           /\ \A po, ad, sv : AtPort(WithListen(ps, port, address, server), po, ad, sv)
                <=> AtPort(ps, po, ad, sv) \/ (po = port /\ ad = address /\ sv = server)
<1> DEFINE p == SelectInSeq(ps, LAMBDA e : e.port = port)
           before == IF p = 0 THEN <<>> ELSE ps[p].addrs
           entry == [port |-> port, addrs |-> WithServer(before, address, server)]
           new == IF p = 0 THEN Append(ps, entry) ELSE [ps EXCEPT ![p] = entry]
<1>1. WithListen(ps, port, address, server) = new
  BY DEF WithListen
<1>2. /\ IsSequence(ps) /\ Len(ps) \in Nat /\ DOMAIN ps = 1..Len(ps)
      /\ \A i \in DOMAIN ps : Addresses(ps[i].addrs)
  BY SequenceFacts DEF PortList
<1>3. /\ p \in DOMAIN ps \cup {0}
      /\ p \in DOMAIN ps => p # 0 /\ ps[p].port = port
  <2> DEFINE I == {i \in 1..Len(ps) : ps[i].port = port}
  <2>1. p = IF I # {} THEN Min(I) ELSE 0
    BY DEF SelectInSeq
  <2>2. I # {} => Min(I) \in I
    BY <1>2, MinFacts
  <2>. HIDE DEF p
  <2>3. QED BY <1>2, <2>1, <2>2
<1>4. Addresses(before)
  <2>. HIDE DEF p
  <2>1. QED BY <1>2, <1>3, EmptyIsSequence DEF Addresses
<1>5. /\ entry.port = port /\ Addresses(entry.addrs)
      /\ \A ad, sv : AtAddress(entry.addrs, ad, sv)
                     <=> AtAddress(before, ad, sv) \/ (ad = address /\ sv = server)
  <2>. HIDE DEF before
  <2>1. QED BY <1>4, WithServerRight
<1>6. CASE p = 0
  <2>1. before = <<>> /\ new = Append(ps, entry)
    BY <1>6
  <2>2. \A ad, sv : ~AtAddress(before, ad, sv)
    BY <2>1, EmptyIsSequence DEF AtAddress
  <2>. HIDE DEF p, before, entry
  <2>3. /\ IsSequence(new) /\ DOMAIN new = DOMAIN ps \cup {Len(ps) + 1}
        /\ \A i \in DOMAIN ps : new[i] = ps[i]
        /\ new[Len(ps) + 1] = entry
    <3>. HIDE DEF new
    <3>1. QED BY <1>2, <2>1, EntryAdded
  <2>. HIDE DEF new
  <2>4. PortList(new)
    BY <1>2, <1>5, <2>3, SequenceFacts DEF PortList
  <2>5. \A po, ad, sv : AtPort(new, po, ad, sv)
          <=> AtPort(ps, po, ad, sv) \/ (po = port /\ ad = address /\ sv = server)
    BY <1>5, <2>2, <2>3, Zenon DEF AtPort
  <2>6. QED BY <1>1, <2>4, <2>5
<1>7. CASE p # 0
  <2>1. before = ps[p].addrs /\ new = [ps EXCEPT ![p] = entry]
    BY <1>7
  <2>2. p \in DOMAIN ps /\ ps[p].port = port
    BY <1>3, <1>7
  <2>. HIDE DEF p, before, entry
  <2>3. /\ IsSequence(new) /\ DOMAIN new = DOMAIN ps
        /\ \A i \in DOMAIN ps : new[i] = IF i = p THEN entry ELSE ps[i]
    <3>. HIDE DEF new
    <3>1. QED BY <1>2, <2>1, <2>2, EntryReplaced
  <2>. HIDE DEF new
  <2>4. PortList(new)
    BY <1>2, <1>5, <2>3, SequenceFacts DEF PortList
  <2>5. \A po, ad, sv : AtPort(new, po, ad, sv)
          <=> AtPort(ps, po, ad, sv) \/ (po = port /\ ad = address /\ sv = server)
    BY <1>5, <2>1, <2>2, <2>3 DEF AtPort
  <2>6. QED BY <1>1, <2>4, <2>5
<1>8. QED BY <1>6, <1>7

\* The walk over the ports has a first place.
LEMMA FirstFacts ==
    ASSUME NEW S \in SUBSET (Nat \X Nat), S # {}
    PROVE  First(S) \in S
<1> DEFINE Ps == {q[1] : q \in S}
<1>1. Ps \in SUBSET Nat /\ Ps # {}
  OBVIOUS
<1>2. PICK p \in Ps : \A r \in Ps : p <= r
  BY <1>1, LeastNat
<1> DEFINE As == {q[2] : q \in {r \in S : r[1] = p}}
<1>3. As \in SUBSET Nat /\ As # {}
  OBVIOUS
<1>4. PICK a \in As : \A r \in As : a <= r
  BY <1>3, LeastNat
<1>5. PICK f \in S : f[1] = p /\ f[2] = a
  BY <1>4
<1>6. ASSUME NEW q \in S PROVE f[1] < q[1] \/ (f[1] = q[1] /\ f[2] <= q[2])
  <2>1. q[1] \in Nat /\ f[1] \in Nat /\ f[1] <= q[1]
    BY <1>2, <1>5
  <2>2. q[1] = p => f[2] <= q[2]
    BY <1>4, <1>5
  <2>3. QED BY <1>5, <2>1, <2>2
<1>7. QED BY <1>5, <1>6 DEF First

\* Both walks find a socket of that very server.
LEMMA FoundSocket ==
    ASSUME PortList(ports), NEW server, Listens(ports, server) # {}
    PROVE  <<FindPort(server), FindAddr(server)>> \in Listens(ports, server)
<1>1. \A q : q \in Places(server) <=>
        \E p \in DOMAIN ports : \E a \in DOMAIN ports[p].addrs :
          server \in Range(ports[p].addrs[a].servers) /\ q = <<p, a>>
  BY DEF Places
<1>2. Places(server) \in SUBSET (Nat \X Nat)
  <2>1. ASSUME NEW p, NEW a, p \in DOMAIN ports, a \in DOMAIN ports[p].addrs
        PROVE  p \in Nat /\ a \in Nat
    <3>1. DOMAIN ports = 1..Len(ports) /\ Len(ports) \in Nat
      BY SequenceFacts DEF PortList
    <3>2. IsSequence(ports[p].addrs)
      BY <2>1, <3>1 DEF PortList, Addresses
    <3>3. DOMAIN ports[p].addrs = 1..Len(ports[p].addrs) /\ Len(ports[p].addrs) \in Nat
      BY <3>2, SequenceFacts
    <3>4. QED BY <2>1, <3>1, <3>3
  <2>2. QED BY <1>1, <2>1
<1>3. Places(server) # {}
  <2>1. PICK socket \in Listens(ports, server) : TRUE
    OBVIOUS
  <2>2. AtPort(ports, socket[1], socket[2], server)
    BY <2>1, ListensFacts
  <2>3. QED BY <1>1, <2>2 DEF AtPort, AtAddress
<1>4. PICK p, a :
        /\ p \in DOMAIN ports /\ a \in DOMAIN ports[p].addrs
        /\ server \in Range(ports[p].addrs[a].servers) /\ First(Places(server)) = <<p, a>>
  BY <1>1, <1>2, <1>3, FirstFacts
<1>5. FindPort(server) = ports[p].port /\ FindAddr(server) = ports[p].addrs[a].address
  BY <1>3, <1>4 DEF FindPort, FindAddr
<1>6. AtPort(ports, FindPort(server), FindAddr(server), server)
  BY <1>4, <1>5 DEF AtPort, AtAddress
<1>7. QED BY <1>6, ListensFacts

-----------------------------------------------------------------------------
(* Tags                                                                    *)

LEMMA TagEndFacts ==
    ASSUME NEW csv, Len(csv) \in Nat, NEW i \in 1..Len(csv) + 1
    PROVE  /\ TagEnd(csv, i) \in i..Len(csv) + 1
           /\ \A k \in i..TagEnd(csv, i) - 1 : csv[k] # ","
           /\ TagEnd(csv, i) <= Len(csv) => csv[TagEnd(csv, i)] = ","
<1> DEFINE L == Len(csv)
           S == {k \in i..L : csv[k] = ","} \cup {L + 1}
<1>1. L \in Nat /\ i \in 1..L + 1
  OBVIOUS
<1>2. TagEnd(csv, i) = Min(S)
  BY DEF TagEnd
<1>. HIDE DEF L
<1>3. S \in SUBSET Nat /\ S # {}
  <2>1. \A k \in i..L : k \in Nat
    BY <1>1
  <2>2. L + 1 \in Nat
    BY <1>1
  <2>3. QED BY <2>1, <2>2
<1>4. \A y : y \in S <=> (y \in i..L /\ csv[y] = ",") \/ y = L + 1
  BY Zenon
<1>. HIDE DEF S
<1>5. PICK m \in S : m = Min(S) /\ \A y \in S : m <= y
  BY <1>3, MinFacts
<1>6. m \in i..L + 1
  <2>1. m \in i..L \/ m = L + 1
    BY <1>4, <1>5
  <2>2. QED BY <1>1, <2>1
<1>7. \A k \in i..m - 1 : csv[k] # ","
  <2>1. \A k \in i..m - 1 : k \in i..L /\ ~(m <= k)
    BY <1>1, <1>6
  <2>2. QED BY <1>4, <1>5, <2>1
<1>8. m <= L => csv[m] = ","
  <2>1. m # L + 1 => csv[m] = ","
    BY <1>4, <1>5
  <2>2. m <= L => m # L + 1
    BY <1>1, <1>6
  <2>3. QED BY <2>1, <2>2
<1>9. QED BY <1>2, <1>5, <1>6, <1>7, <1>8 DEF L

\* The recursion of SplitTags, and that there is a function of that kind.
TagOf(csv, i) == Trim(SubSeq(csv, i, TagEnd(csv, i) - 1))
PieceOf(csv, i) == IF TagOf(csv, i) = <<>> THEN <<>> ELSE <<TagOf(csv, i)>>
SplitStep(csv, f, i) ==
    PieceOf(csv, i) \o (IF TagEnd(csv, i) > Len(csv) THEN <<>> ELSE f[TagEnd(csv, i) + 1])

LEMMA SplitTagsIs ==
    ASSUME NEW csv
    PROVE  SplitTags(csv) =
             (CHOOSE f : f = [i \in 1..Len(csv) + 1 |-> SplitStep(csv, f, i)])[1]
BY DEF SplitTags, SplitStep, PieceOf, TagOf

LEMMA SplitExists ==
    ASSUME NEW csv, Len(csv) \in Nat
    PROVE  \E f : f = [i \in 1..Len(csv) + 1 |-> SplitStep(csv, f, i)]
<1> DEFINE N == Len(csv) + 1
           Has(n) == \E f : f = [i \in N + 1 - n..N |-> SplitStep(csv, f, i)]
           Bad == {n \in 0..N : ~Has(n)}
<1>1. Has(0)
  <2>1. [i \in N + 1..N |-> 0] = [i \in N + 1..N |-> SplitStep(csv, [j \in N + 1..N |-> 0], i)]
    OBVIOUS
  <2>2. \E f : f = [i \in N + 1..N |-> SplitStep(csv, f, i)]
    BY <2>1
  <2>3. N + 1 - 0 = N + 1
    OBVIOUS
  <2>4. QED BY <2>2, <2>3
<1>2. ASSUME NEW n \in 1..N, Has(n - 1) PROVE Has(n)
  <2> DEFINE m == N + 1 - n
  <2>1. m \in 1..N /\ N + 1 - (n - 1) = m + 1 /\ N \in Nat
    BY <1>2
  <2>2. PICK f : f = [i \in m + 1..N |-> SplitStep(csv, f, i)]
    BY <1>2, <2>1
  <2> DEFINE g == [i \in m..N |-> IF i = m THEN SplitStep(csv, f, i) ELSE f[i]]
  <2>. HIDE DEF N, m
  <2>3. ASSUME NEW i \in m..N PROVE SplitStep(csv, g, i) = SplitStep(csv, f, i)
    <3>1. CASE TagEnd(csv, i) > Len(csv)
      BY <3>1 DEF SplitStep
    <3>2. CASE ~(TagEnd(csv, i) > Len(csv))
      <4>1. i \in 1..Len(csv) + 1 /\ i \in m..N /\ m \in 1..N
        BY <2>1, <2>3 DEF N
      <4>5. TagEnd(csv, i) \in i..Len(csv) + 1
        BY <4>1, TagEndFacts
      <4>2. TagEnd(csv, i) + 1 \in m + 1..N
        BY <3>2, <4>1, <4>5, <2>1 DEF N
      <4>3. g[TagEnd(csv, i) + 1] = f[TagEnd(csv, i) + 1]
        BY <2>1, <4>2
      <4>4. QED BY <4>3 DEF SplitStep
    <3>3. QED BY <3>1, <3>2
  <2>4. \A i \in m..N : g[i] = SplitStep(csv, g, i)
    <3>1. ASSUME NEW i \in m + 1..N PROVE f[i] = SplitStep(csv, f, i)
      BY <2>2, <3>1
    <3>2. ASSUME NEW i \in m..N PROVE g[i] = SplitStep(csv, f, i)
      <4>1. i = m \/ i \in m + 1..N
        BY <2>1, <3>2
      <4>2. QED BY <3>1, <4>1
    <3>. HIDE DEF g
    <3>3. QED BY <2>3, <3>2
  <2>5. g = [i \in m..N |-> SplitStep(csv, g, i)]
    BY <2>4
  <2>6. QED BY <2>5 DEF m
<1>3. Bad = {}
  <2> SUFFICES ASSUME Bad # {} PROVE FALSE
    OBVIOUS
  <2>1. PICK n \in Bad : \A k \in Bad : n <= k
    <3>1. Bad \in SUBSET Nat
      OBVIOUS
    <3>. HIDE DEF Bad
    <3>2. QED BY <3>1, LeastNat
  <2>2. n \in 0..N /\ ~Has(n)
    BY <2>1
  <2>. HIDE DEF Has
  <2>3. n # 0
    BY <1>1, <2>2
  <2>4. n \in 1..N /\ n - 1 \in 0..N /\ n - 1 < n
    BY <2>2, <2>3
  <2>5. ~Has(n - 1)
    BY <1>2, <2>2, <2>4
  <2>6. n - 1 \in Bad
    BY <2>4, <2>5
  <2>7. QED BY <2>1, <2>4, <2>6
<1>4. Has(N)
  BY <1>3
<1>5. N + 1 - N = 1
  OBVIOUS
<1>6. QED BY <1>4, <1>5

\* Between a comma and the next one there is what SplitTags trims.
LEMMA BetweenIs ==
    ASSUME NEW csv, Len(csv) \in Nat, NEW i \in 1..Len(csv) + 1, NEW k
    PROVE  k \in Between(csv, i - 1) <=> k \in i..TagEnd(csv, i) - 1 /\ csv[k] # " "
<1> DEFINE L == Len(csv)
           e == TagEnd(csv, i)
<1>1. L \in Nat /\ i \in 1..L + 1
  OBVIOUS
<1>2. /\ e \in i..L + 1
      /\ \A c \in i..e - 1 : csv[c] # ","
      /\ e <= L => csv[e] = ","
  BY TagEndFacts
<1>3. e \in i..L + 1
  BY <1>2
<1>. HIDE DEF L, e
<1>4. i - 1 + 1 = i
  BY <1>1
<1>5. k \in Between(csv, i - 1) <=> k \in i..L /\ csv[k] # " " /\ \A c \in i..k : csv[c] # ","
  BY <1>4 DEF Between, L
<1>6. ASSUME k \in i..e - 1 PROVE k \in i..L /\ \A c \in i..k : csv[c] # ","
  <2>1. k \in i..L /\ \A c \in i..k : c \in i..e - 1
    BY <1>1, <1>3, <1>6
  <2>2. QED BY <1>2, <2>1
<1>7. ASSUME k \in i..L, k \notin i..e - 1 PROVE e \in i..k /\ csv[e] = ","
  <2>1. e \in i..k /\ e <= L
    BY <1>1, <1>3, <1>7
  <2>2. QED BY <1>2, <2>1
<1>8. k \in i..L /\ (\A c \in i..k : csv[c] # ",") <=> k \in i..e - 1
  BY <1>6, <1>7
<1>9. QED BY <1>5, <1>8 DEF e

LEMMA SubSubSeq ==
    ASSUME NEW S, NEW s \in Seq(S), NEW i \in 1..Len(s), NEW j \in 1..Len(s),
           NEW m \in 1..j - i + 1, NEW n \in 1..j - i + 1
    PROVE  SubSeq(SubSeq(s, i, j), m, n) = SubSeq(s, i + m - 1, i + n - 1)
BY SubSeqOfSubSeq

LEMMA TagOfRight ==
    ASSUME NEW csv \in Text, NEW i \in 1..Len(csv) + 1
    PROVE  /\ Between(csv, i - 1) = {} => TagOf(csv, i) = <<>>
           /\ Between(csv, i - 1) # {} =>
                TagOf(csv, i) = TagAt(csv, i - 1) /\ TagOf(csv, i) \in Text /\ TagOf(csv, i) # <<>>
<1> DEFINE e == TagEnd(csv, i)
           s == SubSeq(csv, i, e - 1)
           B == Between(csv, i - 1)
           F == Filled(s)
<1>1. Len(csv) \in Nat /\ e \in i..Len(csv) + 1
  <2>1. Len(csv) \in Nat
    BY DEF Text
  <2>2. QED BY <2>1, TagEndFacts
<1>2. \A k : k \in B <=> k \in i..e - 1 /\ csv[k] # " "
  BY <1>1, BetweenIs
<1>3. s \in Text /\ Len(s) = e - i /\ \A k \in 1..e - i : s[k] = csv[i + k - 1]
  <2>1. i \in Int /\ e - 1 \in Int /\ \A k \in i..e - 1 : k \in 1..Len(csv)
    BY <1>1
  <2>2. \A k \in i..e - 1 : csv[k] \in STRING
    BY <2>1, ElementOfSeq DEF Text
  <2>3. /\ s \in Seq(STRING) /\ Len(s) = IF i <= e - 1 THEN e - 1 - i + 1 ELSE 0
        /\ \A k \in 1..e - 1 - i + 1 : s[k] = csv[i + k - 1]
    BY <2>1, <2>2, SubSeqProperties
  <2>4. e - 1 - i + 1 = e - i /\ (IF i <= e - 1 THEN e - 1 - i + 1 ELSE 0) = e - i
    BY <1>1
  <2>. HIDE DEF s, e
  <2>5. QED BY <2>3, <2>4 DEF Text
<1>4. TagOf(csv, i) = IF F = {} THEN <<>> ELSE SubSeq(s, Min(F), Max(F))
  BY DEF TagOf, Trim
<1>5. \A k : k \in F <=> k \in 1..e - i /\ csv[i + k - 1] # " "
  <2>1. \A k : k \in F <=> k \in 1..Len(s) /\ s[k] # " "
    BY DEF Filled
  <2>. HIDE DEF s, F, e
  <2>2. QED BY <1>3, <2>1
<1>6. /\ \A k \in F : k + i - 1 \in B /\ k \in Nat
      /\ \A k \in B : k - i + 1 \in F /\ k \in i..e - 1
  <2>. HIDE DEF F, B, e
  <2>1. ASSUME NEW k \in F PROVE k + i - 1 \in B /\ k \in Nat
    <3>1. k \in 1..e - i
      BY <1>5, <2>1
    <3>2. k \in Nat /\ k + i - 1 = i + k - 1 /\ i + k - 1 \in i..e - 1
      BY <1>1, <3>1
    <3>3. csv[i + k - 1] # " "
      BY <1>5, <2>1
    <3>4. QED BY <1>2, <3>2, <3>3
  <2>2. ASSUME NEW k \in B PROVE k - i + 1 \in F /\ k \in i..e - 1
    <3>1. k \in i..e - 1
      BY <1>2, <2>2
    <3>2. k - i + 1 \in 1..e - i /\ i + (k - i + 1) - 1 = k
      BY <1>1, <3>1
    <3>3. csv[k] # " "
      BY <1>2, <2>2
    <3>4. csv[i + (k - i + 1) - 1] # " "
      BY <3>2, <3>3
    <3>5. QED BY <1>5, <3>1, <3>2, <3>4
  <2>3. QED BY <2>1, <2>2
<1>7. CASE B = {}
  <2>1. F = {}
    BY <1>6, <1>7
  <2>2. QED BY <1>4, <1>7, <2>1
<1>8. CASE B # {}
  <2> DEFINE lo == Min(B)
             hi == Max(B)
  <2>. HIDE DEF F, B, s, e
  <2>1. B \in SUBSET (0..Len(csv)) /\ B \in SUBSET Nat
    <3>1. \A k \in B : k \in i..e - 1
      BY <1>6
    <3>2. \A k \in i..e - 1 : k \in 0..Len(csv) /\ k \in Nat
      BY <1>1
    <3>3. QED BY <3>1, <3>2
  <2>2. /\ lo \in B /\ hi \in B
        /\ \A k \in B : lo <= k /\ k <= hi
    BY <1>1, <1>8, <2>1, MinFacts, MaxFacts
  <2>. HIDE DEF lo, hi
  <2>3. lo \in i..e - 1 /\ hi \in i..e - 1 /\ lo <= hi
    BY <1>6, <2>2
  <2>4. F \in SUBSET Nat /\ lo - i + 1 \in F /\ hi - i + 1 \in F
    BY <1>6, <2>2
  <2>5. \A k \in F : lo - i + 1 <= k /\ k <= hi - i + 1
    <3>1. ASSUME NEW k \in F PROVE lo - i + 1 <= k /\ k <= hi - i + 1
      <4>1. k \in Nat /\ lo <= k + i - 1 /\ k + i - 1 <= hi
        BY <1>6, <2>2, <3>1
      <4>2. QED BY <1>1, <2>3, <4>1
    <3>2. QED BY <3>1
  <2>6. Min(F) = lo - i + 1 /\ Max(F) = hi - i + 1 /\ F # {}
    BY <2>4, <2>5, MinIs, MaxIs
  <2>7. TagOf(csv, i) = SubSeq(s, lo - i + 1, hi - i + 1)
    BY <1>4, <2>6
  <2>8. SubSeq(s, lo - i + 1, hi - i + 1) = SubSeq(csv, lo, hi)
    <3>1. /\ i \in 1..Len(csv) /\ e - 1 \in 1..Len(csv)
          /\ lo - i + 1 \in 1..(e - 1) - i + 1 /\ hi - i + 1 \in 1..(e - 1) - i + 1
          /\ i + (lo - i + 1) - 1 = lo /\ i + (hi - i + 1) - 1 = hi
      BY <1>1, <2>3
    <3>2. SubSeq(SubSeq(csv, i, e - 1), lo - i + 1, hi - i + 1)
            = SubSeq(csv, i + (lo - i + 1) - 1, i + (hi - i + 1) - 1)
      <4>1. csv \in Seq(STRING)
        BY DEF Text
      <4>2. PICK j, m, n : j = e - 1 /\ m = lo - i + 1 /\ n = hi - i + 1
        OBVIOUS
      <4>3. SubSeq(SubSeq(csv, i, j), m, n) = SubSeq(csv, i + m - 1, i + n - 1)
        <5>1. /\ csv \in Seq(STRING) /\ i \in 1..Len(csv) /\ j \in 1..Len(csv)
              /\ m \in 1..j - i + 1 /\ n \in 1..j - i + 1
          BY <3>1, <4>1, <4>2
        <5>2. QED BY <5>1, SubSubSeq
      <4>4. QED BY <4>2, <4>3
    <3>3. QED BY <3>1, <3>2 DEF s
  <2>9. SubSeq(csv, lo, hi) = TagAt(csv, i - 1)
    BY DEF TagAt, lo, hi, B
  <2>10. SubSeq(csv, lo, hi) \in Text /\ SubSeq(csv, lo, hi) # <<>>
    <3>1. lo \in Int /\ hi \in Int /\ \A k \in lo..hi : k \in 1..Len(csv)
      BY <1>1, <2>3
    <3>2. \A k \in lo..hi : csv[k] \in STRING
      BY <3>1, ElementOfSeq DEF Text
    <3>3. SubSeq(csv, lo, hi) \in Seq(STRING) /\ Len(SubSeq(csv, lo, hi)) = hi - lo + 1
      BY <2>3, <3>1, <3>2, SubSeqProperties
    <3>4. Len(SubSeq(csv, lo, hi)) # 0
      BY <2>3, <3>3
    <3>5. QED BY <3>3, <3>4, EmptySeq DEF Text
  <2>11. QED BY <1>8, <2>7, <2>8, <2>9, <2>10 DEF B
<1>9. QED BY <1>7, <1>8

LEMMA TagStartsShape ==
    ASSUME NEW csv \in Text
    PROVE  /\ TagStarts(csv) \in SUBSET (0..Len(csv)) /\ TagStarts(csv) \in SUBSET Nat
           /\ IsFiniteSet(TagStarts(csv)) /\ Len(csv) \in Nat
<1>1. Len(csv) \in Nat
  BY DEF Text
<1>2. TagStarts(csv) \in SUBSET (0..Len(csv))
  BY DEF TagStarts
<1>3. IsFiniteSet(0..Len(csv)) /\ \A k \in 0..Len(csv) : k \in Nat
  BY <1>1, FS_Interval
<1>4. IsFiniteSet(TagStarts(csv))
  BY <1>2, <1>3, FS_Subset
<1>5. QED BY <1>1, <1>2, <1>3, <1>4

\* The tags that start at i - 1 or later: the one of this piece, and those behind its end.
Opens(csv, i) == i = 1 \/ csv[i - 1] = ","

TagsFrom(csv, i) == {k \in TagStarts(csv) : k >= i}

LEMMA TagsFromStep ==
    ASSUME NEW csv \in Text, NEW i \in 1..Len(csv) + 1, Opens(csv, i)
    PROVE  TagsFrom(csv, i - 1) = TagsFrom(csv, TagEnd(csv, i))
                                  \cup IF Between(csv, i - 1) = {} THEN {} ELSE {i - 1}
<1> DEFINE e == TagEnd(csv, i)
           T == TagStarts(csv)
           L == Len(csv)
<1>1. L \in Nat /\ i \in 1..L + 1
  BY TagStartsShape
<1>2. /\ e \in i..L + 1
      /\ \A c \in i..e - 1 : csv[c] # ","
  BY <1>1, TagEndFacts
<1>3. e \in i..L + 1
  BY <1>2
<1>4. \A k : k \in T <=> k \in 0..L /\ (k = 0 \/ csv[k] = ",") /\ Between(csv, k) # {}
  BY DEF TagStarts
<1>. HIDE DEF e, T, L
<1>5. i - 1 \in T <=> Between(csv, i - 1) # {}
  <2>1. i - 1 \in 0..L
    BY <1>1
  <2>2. i - 1 = 0 \/ csv[i - 1] = ","
    <3>1. i = 1 => i - 1 = 0
      OBVIOUS
    <3>2. QED BY <3>1 DEF Opens
  <2>3. QED BY <1>4, <2>1, <2>2
<1>6. ASSUME NEW k \in T PROVE k >= i - 1 <=> k >= e \/ k = i - 1
  <2>1. k \in 0..L
    BY <1>4, <1>6
  <2>5. k = 0 \/ csv[k] = ","
    BY <1>4, <1>6
  <2>2. k \notin i..e - 1
    <3>1. CASE k = 0
      BY <1>1, <3>1
    <3>2. CASE csv[k] = ","
      BY <1>2, <3>2
    <3>3. QED BY <2>5, <3>1, <3>2
  <2>3. QED BY <1>1, <1>3, <2>1, <2>2
<1>7. {k \in T : k >= i - 1} = {k \in T : k >= e} \cup {k \in T : k = i - 1}
  BY <1>6
<1>8. {k \in T : k = i - 1} = IF Between(csv, i - 1) = {} THEN {} ELSE {i - 1}
  BY <1>5, Zenon
<1>9. QED BY <1>7, <1>8 DEF TagsFrom, e, T

LEMMA SplitTagsRight ==
    ASSUME NEW csv \in Text
    PROVE  /\ SplitTags(csv) \in Seq(Text)
           /\ Follows(SplitTags(csv), [k \in TagStarts(csv) |-> TagAt(csv, k)])
<1> DEFINE L == Len(csv)
           f == CHOOSE g : g = [i \in 1..L + 1 |-> SplitStep(csv, g, i)]
           Tags(i) == [k \in TagsFrom(csv, i) |-> TagAt(csv, k)]
           Right(i) == f[i] \in Seq(Text) /\ Follows(f[i], Tags(i - 1))
           Bad == {i \in 1..L + 1 : Opens(csv, i) /\ ~Right(i)}
<1>1. L \in Nat
  BY TagStartsShape
<1>2. SplitTags(csv) = f[1]
  BY SplitTagsIs
<1>3. f = [i \in 1..L + 1 |-> SplitStep(csv, f, i)]
  BY <1>1, SplitExists
<1>. HIDE DEF f
<1>4. \A i \in 1..L + 1 : f[i] = SplitStep(csv, f, i)
  BY <1>3
<1>5. ASSUME NEW i \in 1..L + 1, Opens(csv, i),
             \A j \in 1..L + 1 : j > i /\ Opens(csv, j) => Right(j)
      PROVE  Right(i)
  <2> DEFINE e == TagEnd(csv, i)
             rest == IF e > L THEN <<>> ELSE f[e + 1]
  <2>1. e \in i..L + 1 /\ i \in 1..L + 1
    BY <1>1, <1>5, TagEndFacts
  <2>2. e <= L => csv[e] = ","
    BY <1>1, TagEndFacts
  <2>3. f[i] = PieceOf(csv, i) \o rest
    BY <1>4 DEF SplitStep
  <2>. HIDE DEF e, L
  <2>4. rest \in Seq(Text) /\ Follows(rest, Tags(e))
    <3>1. CASE e > L
      <4>1. TagsFrom(csv, e) = {}
        <5>1. \A k \in 0..L : ~(k >= e)
          BY <1>1, <2>1, <3>1
        <5>2. QED BY <5>1, TagStartsShape DEF TagsFrom, L
      <4>2. rest = <<>> /\ DOMAIN Tags(e) = {}
        BY <3>1, <4>1
      <4>. HIDE DEF rest, Tags
      <4>3. Follows(<<>>, Tags(e))
        BY <4>2, FollowsEmpty
      <4>4. QED BY <4>2, <4>3, EmptySeq
    <3>2. CASE ~(e > L)
      <4>1. PICK n \in 1..L + 1 : n > i /\ n - 1 = e /\ n = e + 1 /\ e <= L
        BY <1>1, <2>1, <3>2
      <4>2. csv[n - 1] = ","
        BY <2>2, <4>1
      <4>3. Opens(csv, n)
        BY <4>2 DEF Opens
      <4>4. Right(n)
        BY <1>5, <4>1, <4>3
      <4>5. Tags(n - 1) = Tags(e)
        BY <4>1
      <4>6. rest = f[n]
        BY <3>2, <4>1
      <4>. HIDE DEF Tags, rest
      <4>7. QED BY <4>4, <4>5, <4>6
    <3>3. QED BY <3>1, <3>2
  <2>5. TagsFrom(csv, i - 1) = TagsFrom(csv, e) \cup IF Between(csv, i - 1) = {} THEN {} ELSE {i - 1}
    BY <1>5, TagsFromStep DEF e, L
  <2>6. /\ Between(csv, i - 1) = {} => TagOf(csv, i) = <<>>
        /\ Between(csv, i - 1) # {} =>
             TagOf(csv, i) = TagAt(csv, i - 1) /\ TagOf(csv, i) \in Text /\ TagOf(csv, i) # <<>>
    BY TagOfRight DEF L
  <2>. HIDE DEF rest
  <2>7. CASE Between(csv, i - 1) = {}
    <3>1. PieceOf(csv, i) = <<>> /\ TagsFrom(csv, i - 1) = TagsFrom(csv, e)
      BY <2>5, <2>6, <2>7 DEF PieceOf
    <3>2. f[i] = rest
      BY <2>3, <2>4, <3>1, ConcatEmptySeq
    <3>3. QED BY <2>4, <3>1, <3>2
  <2>8. CASE Between(csv, i - 1) # {}
    <3>1. /\ PieceOf(csv, i) = <<TagAt(csv, i - 1)>> /\ TagAt(csv, i - 1) \in Text
          /\ TagsFrom(csv, i - 1) = TagsFrom(csv, e) \cup {i - 1}
      BY <2>5, <2>6, <2>8 DEF PieceOf
    <3> DEFINE before == Tags(e)
               given == Tags(i - 1)
               x == TagAt(csv, i - 1)
    <3>2. /\ DOMAIN before = TagsFrom(csv, e) /\ DOMAIN given = DOMAIN before \cup {i - 1}
          /\ \A k \in DOMAIN before : given[k] = before[k]
          /\ given[i - 1] = x
      BY <3>1
    <3>3. /\ TagsFrom(csv, e) \in SUBSET Nat /\ IsFiniteSet(TagsFrom(csv, e))
          /\ \A k \in TagsFrom(csv, e) : k >= e
      <4>1. TagsFrom(csv, e) \in SUBSET TagStarts(csv)
        BY DEF TagsFrom
      <4>2. QED BY <4>1, TagStartsShape, FS_Subset DEF TagsFrom
    <3>4. i - 1 \in Nat /\ \A k \in DOMAIN before : i - 1 < k
      BY <1>1, <2>1, <3>2, <3>3
    <3>5. Follows(rest, before) /\ rest \in Seq(Text) /\ x \in Text
      BY <2>4, <3>1
    <3>6. DOMAIN before \in SUBSET Nat /\ IsFiniteSet(DOMAIN before)
      BY <3>2, <3>3
    <3>. HIDE DEF before, given, x
    <3>7. Follows(<<x>> \o rest, given)
      BY <3>2, <3>4, <3>5, <3>6, FollowsPrepend
    <3>8. <<x>> \o rest \in Seq(Text)
      <4>1. <<x>> \in Seq(Text)
        BY <3>5
      <4>2. QED BY <3>5, <4>1, ConcatProperties
    <3>9. f[i] = <<x>> \o rest
      BY <2>3, <3>1 DEF x
    <3>10. QED BY <3>7, <3>8, <3>9 DEF given
  <2>9. QED BY <2>7, <2>8
<1>6. Bad = {}
  <2> SUFFICES ASSUME Bad # {} PROVE FALSE
    OBVIOUS
  <2>1. PICK i \in Bad : \A k \in Bad : k <= i
    <3>1. L + 1 \in Nat /\ Bad \in SUBSET (0..L + 1)
      <4>1. L + 1 \in Nat /\ \A i \in 1..L + 1 : i \in 0..L + 1
        BY <1>1
      <4>. HIDE DEF Right, L
      <4>2. QED BY <4>1
    <3>. HIDE DEF Bad
    <3>2. Max(Bad) \in Bad /\ \A k \in Bad : k <= Max(Bad)
      BY <3>1, MaxFacts
    <3>3. QED BY <3>2
  <2>. HIDE DEF Right, L
  <2>2. i \in 1..L + 1 /\ Opens(csv, i) /\ ~Right(i)
    BY <2>1
  <2>3. ASSUME NEW j \in 1..L + 1, j > i, Opens(csv, j) PROVE Right(j)
    <3>1. ~(j <= i)
      BY <1>1, <2>2, <2>3
    <3>2. QED BY <2>1, <2>3, <3>1
  <2>4. QED BY <1>5, <2>2, <2>3
<1>7. Right(1)
  <2>1. 1 \in 1..L + 1 /\ Opens(csv, 1)
    BY <1>1 DEF Opens
  <2>. HIDE DEF Right, L
  <2>2. QED BY <1>6, <2>1
<1>8. TagsFrom(csv, 1 - 1) = TagStarts(csv)
  <2>1. \A k \in TagStarts(csv) : k >= 1 - 1
    BY TagStartsShape
  <2>2. QED BY <2>1 DEF TagsFrom
<1>9. QED BY <1>2, <1>7, <1>8

-----------------------------------------------------------------------------
(* Checks                                                                  *)

\* A record is a function of its fields.
LEMMA Changed ==
    ASSUME NEW r, NEW v, NEW k \in DOMAIN r
    PROVE  [r EXCEPT ![k] = v] = [x \in DOMAIN r |-> IF x = k THEN v ELSE r[x]]
OBVIOUS

CheckFields == {"name", "type", "target", "interval", "timeout"}
TypeKeys == {"tcp", "http", "grpc", "ttl"}

KeysOf(x) == IF x \in {"type", "target"} THEN TypeKeys ELSE {x}
ValueOf(x, token) == IF x = "type" THEN Chars(token[1]) ELSE token[2]

\* What the last of the first n tokens says that says it.
FieldSaid(tokens, n, x) ==
    LET of == {i \in 1..n : tokens[i][1] \in KeysOf(x)}
    IN  IF of = {} THEN <<>> ELSE ValueOf(x, tokens[Max(of)])

CheckSaid(tokens, n) == [x \in CheckFields |-> FieldSaid(tokens, n, x)]

CheckStep(check, token) ==
    CASE token[1] \in {"name", "interval", "timeout"} -> [check EXCEPT ![token[1]] = token[2]]
      [] token[1] \in {"tcp", "http", "grpc", "ttl"} ->
           [check EXCEPT !.type = Chars(token[1]), !.target = token[2]]
      [] OTHER -> check

LEMMA CheckOfIs ==
    ASSUME NEW tokens
    PROVE  CheckOf(tokens) =
             (CHOOSE f : f = [n \in 0..Len(tokens) |->
                                IF n = 0 THEN NoCheck ELSE CheckStep(f[n - 1], tokens[n])])[Len(tokens)]
BY DEF CheckOf, CheckStep

LEMMA CheckStepSets ==
    ASSUME NEW check, check = [x \in CheckFields |-> check[x]], NEW token
    PROVE  CheckStep(check, token)
             = [x \in CheckFields |-> IF token[1] \in KeysOf(x) THEN ValueOf(x, token) ELSE check[x]]
<1> DEFINE key == token[1]
           value == token[2]
           new == [x \in CheckFields |-> IF key \in KeysOf(x) THEN ValueOf(x, token) ELSE check[x]]
<1>1. DOMAIN check = CheckFields
  OBVIOUS
<1>2. CASE key \in {"name", "interval", "timeout"}
  <2>1. CheckStep(check, token) = [check EXCEPT ![key] = value]
    BY <1>2 DEF CheckStep
  <2>2. key \in DOMAIN check
    BY <1>1, <1>2 DEF CheckFields
  <2>3. CheckStep(check, token) = [x \in CheckFields |-> IF x = key THEN value ELSE check[x]]
    BY <1>1, <2>1, <2>2, Changed
  <2>4. \A x \in CheckFields : key \in KeysOf(x) <=> x = key
    BY <1>2 DEF CheckFields, KeysOf, TypeKeys
  <2>5. ValueOf(key, token) = value
    BY <1>2 DEF ValueOf
  <2>6. QED BY <2>3, <2>4, <2>5, Zenon
<1>3. CASE key \in TypeKeys
  <2>1. CheckStep(check, token) = [[check EXCEPT !["type"] = Chars(key)] EXCEPT !["target"] = value]
    BY <1>3 DEF CheckStep, TypeKeys
  <2>2. PICK typed : typed = [check EXCEPT !["type"] = Chars(key)]
    OBVIOUS
  <2>3. typed = [x \in CheckFields |-> IF x = "type" THEN Chars(key) ELSE check[x]]
    <3>1. "type" \in DOMAIN check
      BY <1>1 DEF CheckFields
    <3>2. QED BY <1>1, <2>2, <3>1, Changed
  <2>4. CheckStep(check, token) = [x \in CheckFields |-> IF x = "target" THEN value ELSE typed[x]]
    <3>1. "target" \in DOMAIN typed /\ DOMAIN typed = CheckFields
      BY <2>3 DEF CheckFields
    <3>2. [typed EXCEPT !["target"] = value]
            = [x \in CheckFields |-> IF x = "target" THEN value ELSE typed[x]]
      BY <3>1, Changed
    <3>3. QED BY <2>1, <2>2, <3>2, Zenon
  <2>5. \A x \in CheckFields : key \in KeysOf(x) <=> x \in {"type", "target"}
    BY <1>3 DEF CheckFields, KeysOf, TypeKeys
  <2>6. ValueOf("type", token) = Chars(key) /\ ValueOf("target", token) = value
    BY DEF ValueOf
  <2>7. \A x \in CheckFields :
          (IF x = "target" THEN value ELSE typed[x])
            = (IF key \in KeysOf(x) THEN ValueOf(x, token) ELSE check[x])
    <3>1. \A x \in CheckFields : typed[x] = IF x = "type" THEN Chars(key) ELSE check[x]
      BY <2>3
    <3>. HIDE DEF key, value
    <3>2. QED BY <2>5, <2>6, <3>1
  <2>8. QED BY <2>4, <2>7, Zenon
<1>4. CASE key \notin {"name", "interval", "timeout"} /\ key \notin TypeKeys
  <2>1. CheckStep(check, token) = check
    BY <1>4 DEF CheckStep, TypeKeys
  <2>2. \A x \in CheckFields : key \notin KeysOf(x)
    BY <1>4 DEF CheckFields, KeysOf
  <2>3. QED BY <2>1, <2>2, Zenon
<1>5. QED BY <1>2, <1>3, <1>4

LEMMA CheckSaidStep ==
    ASSUME NEW tokens, NEW n \in Nat \ {0}
    PROVE  CheckStep(CheckSaid(tokens, n - 1), tokens[n]) = CheckSaid(tokens, n)
<1> DEFINE Of(m, x) == {i \in 1..m : tokens[i][1] \in KeysOf(x)}
<1>1. ASSUME NEW x
      PROVE  FieldSaid(tokens, n, x)
               = IF tokens[n][1] \in KeysOf(x) THEN ValueOf(x, tokens[n]) ELSE FieldSaid(tokens, n - 1, x)
  <2>1. n \in 1..n /\ \A i \in 1..n : i <= n /\ i \in Nat
    OBVIOUS
  <2>2. \A i : i \in 1..n <=> i \in 1..n - 1 \/ i = n
    OBVIOUS
  <2>3. CASE tokens[n][1] \in KeysOf(x)
    <3>1. n \in Of(n, x) /\ Of(n, x) \in SUBSET Nat /\ \A i \in Of(n, x) : i <= n
      BY <2>1, <2>3
    <3>2. Max(Of(n, x)) = n
      <4>. HIDE DEF Of
      <4>1. QED BY <3>1, MaxIs
    <3>3. QED BY <2>3, <3>1, <3>2 DEF FieldSaid
  <2>4. CASE tokens[n][1] \notin KeysOf(x)
    <3>1. Of(n, x) = Of(n - 1, x)
      BY <2>2, <2>4, Zenon
    <3>2. QED BY <2>4, <3>1 DEF FieldSaid
  <2>5. QED BY <2>3, <2>4
<1>2. CheckStep(CheckSaid(tokens, n - 1), tokens[n])
        = [x \in CheckFields |-> IF tokens[n][1] \in KeysOf(x) THEN ValueOf(x, tokens[n])
                                 ELSE CheckSaid(tokens, n - 1)[x]]
  <2>1. CheckSaid(tokens, n - 1) = [x \in CheckFields |-> CheckSaid(tokens, n - 1)[x]]
    BY DEF CheckSaid
  <2>2. QED BY <2>1, CheckStepSets
<1>3. \A x \in CheckFields : CheckSaid(tokens, n - 1)[x] = FieldSaid(tokens, n - 1, x)
  BY DEF CheckSaid
<1>4. \A x \in CheckFields :
        (IF tokens[n][1] \in KeysOf(x) THEN ValueOf(x, tokens[n]) ELSE CheckSaid(tokens, n - 1)[x])
          = FieldSaid(tokens, n, x)
  BY <1>1, <1>3
<1>5. QED BY <1>2, <1>4, Zenon DEF CheckSaid

LEMMA SaidCheckIs == ASSUME NEW tokens PROVE CheckSaid(tokens, Len(tokens)) = SaidCheck(tokens)
<1>1. SaidCheck(tokens) = [x \in CheckFields |-> SaidCheck(tokens)[x]]
  BY DEF SaidCheck, CheckFields
<1>2. \A x \in CheckFields : SaidCheck(tokens)[x] = FieldSaid(tokens, Len(tokens), x)
  <2>1. /\ KeysOf("name") = {"name"} /\ KeysOf("interval") = {"interval"}
        /\ KeysOf("timeout") = {"timeout"} /\ KeysOf("type") = TypeKeys /\ KeysOf("target") = TypeKeys
    BY DEF KeysOf
  <2>2. \A t : /\ ValueOf("name", t) = t[2] /\ ValueOf("interval", t) = t[2]
               /\ ValueOf("timeout", t) = t[2] /\ ValueOf("target", t) = t[2]
               /\ ValueOf("type", t) = Chars(t[1])
    BY DEF ValueOf
  <2>3. /\ SaidCheck(tokens)["name"] = FieldSaid(tokens, Len(tokens), "name")
        /\ SaidCheck(tokens)["interval"] = FieldSaid(tokens, Len(tokens), "interval")
        /\ SaidCheck(tokens)["timeout"] = FieldSaid(tokens, Len(tokens), "timeout")
    BY <2>1, <2>2 DEF SaidCheck, SaidToken, FieldSaid
  <2>4. /\ SaidCheck(tokens)["type"] = FieldSaid(tokens, Len(tokens), "type")
        /\ SaidCheck(tokens)["target"] = FieldSaid(tokens, Len(tokens), "target")
    BY <2>1, <2>2 DEF SaidCheck, SaidToken, FieldSaid, TypeKeys
  <2>5. QED BY <2>3, <2>4 DEF CheckFields
<1>3. QED BY <1>1, <1>2 DEF CheckSaid

\* A check is what the last tokens say.
LEMMA CheckOfRight ==
    ASSUME NEW tokens, IsSequence(tokens)
    PROVE  CheckOf(tokens) = SaidCheck(tokens)
<1> DEFINE L == Len(tokens)
           Is(f) == f = [n \in 0..L |-> IF n = 0 THEN NoCheck ELSE CheckStep(f[n - 1], tokens[n])]
           said == [n \in 0..L |-> CheckSaid(tokens, n)]
<1>1. L \in Nat
  BY SequenceFacts
<1>2. CheckSaid(tokens, 0) = NoCheck
  <2>1. \A x : FieldSaid(tokens, 0, x) = <<>>
    <3>1. 1..0 = {}
      OBVIOUS
    <3>2. QED BY <3>1 DEF FieldSaid
  <2>2. CheckSaid(tokens, 0) = [x \in CheckFields |-> <<>>]
    BY <2>1 DEF CheckSaid
  <2>3. QED BY <2>2 DEF NoCheck, CheckFields
<1>3. Is(said)
  <2>1. ASSUME NEW n \in 0..L
        PROVE  CheckSaid(tokens, n) = IF n = 0 THEN NoCheck ELSE CheckStep(said[n - 1], tokens[n])
    <3>1. CASE n = 0
      BY <1>2, <3>1
    <3>2. CASE n # 0
      <4>1. n \in Nat \ {0} /\ n - 1 \in 0..L
        BY <1>1, <2>1, <3>2
      <4>2. said[n - 1] = CheckSaid(tokens, n - 1)
        BY <4>1
      <4>3. QED BY <3>2, <4>1, <4>2, CheckSaidStep
    <3>3. QED BY <3>1, <3>2
  <2>2. QED BY <2>1, Zenon
<1>4. ASSUME NEW f, Is(f) PROVE f = said
  <2> DEFINE Bad == {n \in 0..L : f[n] # CheckSaid(tokens, n)}
  <2>1. \A n \in 0..L : f[n] = IF n = 0 THEN NoCheck ELSE CheckStep(f[n - 1], tokens[n])
    BY <1>4
  <2>2. Bad = {}
    <3> SUFFICES ASSUME Bad # {} PROVE FALSE
      OBVIOUS
    <3>1. PICK n \in Bad : \A k \in Bad : n <= k
      <4>1. Bad \in SUBSET Nat
        OBVIOUS
      <4>. HIDE DEF Bad
      <4>2. QED BY <4>1, LeastNat
    <3>2. n \in 0..L /\ f[n] # CheckSaid(tokens, n)
      BY <3>1
    <3>3. n # 0
      BY <1>2, <2>1, <3>2
    <3>4. n \in Nat \ {0} /\ n - 1 \in 0..L /\ ~(n <= n - 1)
      BY <1>1, <3>2, <3>3
    <3>5. f[n - 1] = CheckSaid(tokens, n - 1)
      BY <3>1, <3>4
    <3>6. f[n] = CheckStep(f[n - 1], tokens[n])
      BY <2>1, <3>2, <3>3
    <3>7. QED BY <3>2, <3>4, <3>5, <3>6, CheckSaidStep
  <2>3. \A n \in 0..L : f[n] = CheckSaid(tokens, n)
    BY <2>2
  <2>4. f = [n \in 0..L |-> f[n]]
    BY <1>4
  <2>5. QED BY <2>3, <2>4
<1>5. CheckOf(tokens) = (CHOOSE f : Is(f))[L]
  BY CheckOfIs
<1>6. (CHOOSE f : Is(f)) = said
  <2>. HIDE DEF Is
  <2>1. QED BY <1>3, <1>4
<1>7. CheckOf(tokens) = CheckSaid(tokens, L)
  <2>1. L \in 0..L
    BY <1>1
  <2>. HIDE DEF Is
  <2>2. QED BY <1>5, <1>6, <2>1
<1>8. CheckSaid(tokens, L) = SaidCheck(tokens)
  BY SaidCheckIs
<1>9. QED BY <1>7, <1>8

\* What is kept of a check are texts.
LEMMA CheckWorded ==
    ASSUME NEW tokens, IsSequence(tokens), \A i \in DOMAIN tokens : tokens[i] \in STRING \X Text
    PROVE  CheckOf(tokens) \in [CheckFields -> Text]
<1>1. Len(tokens) \in Nat /\ DOMAIN tokens = 1..Len(tokens)
  BY SequenceFacts
<1>2. ASSUME NEW x \in CheckFields PROVE FieldSaid(tokens, Len(tokens), x) \in Text
  <2> DEFINE of == {i \in 1..Len(tokens) : tokens[i][1] \in KeysOf(x)}
  <2>1. CASE of = {}
    <3>1. <<>> \in Text
      BY EmptySeq DEF Text
    <3>2. QED BY <2>1, <3>1 DEF FieldSaid
  <2>2. CASE of # {}
    <3>1. Max(of) \in of
      <4>1. of \in SUBSET (0..Len(tokens))
        BY <1>1
      <4>. HIDE DEF of
      <4>2. QED BY <1>1, <2>2, <4>1, MaxFacts
    <3>2. PICK token : token = tokens[Max(of)] /\ token \in STRING \X Text /\ token[1] \in KeysOf(x)
      BY <1>1, <3>1
    <3>3. FieldSaid(tokens, Len(tokens), x) = ValueOf(x, token)
      BY <2>2, <3>2 DEF FieldSaid
    <3>4. token[2] \in Text
      BY <3>2
    <3>5. x = "type" => Chars(token[1]) \in Text
      BY <3>2, LiteralAssumption DEF KeysOf, TypeKeys
    <3>6. QED BY <3>3, <3>4, <3>5 DEF ValueOf
  <2>3. QED BY <2>1, <2>2
<1>3. SaidCheck(tokens) = CheckSaid(tokens, Len(tokens))
  BY SaidCheckIs
<1>4. QED BY <1>2, <1>3, CheckOfRight DEF CheckSaid

-----------------------------------------------------------------------------
(* The configuration of a server                                           *)

ServerFields == {"discoverable", "name", "id", "tags", "address", "port", "meta", "checks", "names"}

IsServer(s) == s = [x \in ServerFields |-> s[x]]

With(s, field, value) == [x \in ServerFields |-> IF x = field THEN value ELSE s[x]]

\* The directive that may be given once for a field.
SlotOf(x) ==
    CASE x = "discoverable" -> "consul_service_discoverable" [] x = "name" -> "consul_service_name"
      [] x = "id" -> "consul_service_id" [] x = "tags" -> "consul_service_tags"
      [] x = "address" -> "consul_service_address_override" [] x = "port" -> "consul_service_port_override"

OnceFields == {"discoverable", "name", "id", "tags", "address", "port"}

\* What a server has when n lines of its block are read.
Lines(block, n, directive) == {j \in 1..n : block[j][1] = directive}

OnceRight(s, x, block, n) ==
    IF Lines(block, n, SlotOf(x)) = {} THEN s[x] = Unset
    ELSE /\ s[x] # Unset
         /\ \E j : Lines(block, n, SlotOf(x)) = {j} /\ s[x] = block[j][2][1]

MetaRight(s, block, n) ==
    /\ IsSequence(s["meta"]) /\ s["meta"] \in Seq(Text \X Text)
    /\ Follows(s["meta"], [j \in Lines(block, n, "consul_service_meta") |-> block[j][2]])

ChecksRight(s, block, n) ==
    /\ IsSequence(s["checks"]) /\ s["checks"] \in Seq([CheckFields -> Text])
    /\ Follows(s["checks"], [j \in Lines(block, n, "consul_service_check") |-> SaidCheck(block[j][2])])

SlotsRight(s, block, n) ==
    /\ IsServer(s)
    /\ \A x \in OnceFields : OnceRight(s, x, block, n)
    /\ s["discoverable"] \in {Unset, "on", "off"}
    /\ MetaRight(s, block, n)
    /\ ChecksRight(s, block, n)

NamesRight(s, block, n) ==
    /\ s["names"] \in Seq(Text)
    /\ IF Lines(block, n, "server_name") = {} THEN s["names"] = <<>>
       ELSE /\ s["names"] # <<>>
            /\ s["names"][1] = block[Min(Lines(block, n, "server_name"))][2][1]

Draft(s, block, n) == SlotsRight(s, block, n) /\ NamesRight(s, block, n)

LEMMA LinesStep ==
    ASSUME NEW block, NEW n \in Nat, NEW d
    PROVE  /\ block[n + 1][1] # d => Lines(block, n + 1, d) = Lines(block, n, d)
           /\ block[n + 1][1] = d => Lines(block, n + 1, d) = Lines(block, n, d) \cup {n + 1}
<1>1. \A j : j \in 1..n + 1 <=> j \in 1..n \/ j = n + 1
  OBVIOUS
<1>2. QED BY <1>1, Zenon DEF Lines

LEMMA LinesShape ==
    ASSUME NEW block, NEW n \in Nat, NEW d
    PROVE  /\ Lines(block, n, d) \in SUBSET Nat /\ IsFiniteSet(Lines(block, n, d))
           /\ \A j \in Lines(block, n, d) : j < n + 1
<1>1. Lines(block, n, d) \in SUBSET (1..n)
  BY DEF Lines
<1>2. IsFiniteSet(1..n)
  BY FS_Interval
<1>3. \A j \in 1..n : j \in Nat /\ j < n + 1
  OBVIOUS
<1>4. IsFiniteSet(Lines(block, n, d))
  BY <1>1, <1>2, FS_Subset
<1>5. QED BY <1>1, <1>3, <1>4

LEMMA SlotNames ==
    /\ SlotOf("discoverable") = "consul_service_discoverable"
    /\ SlotOf("name") = "consul_service_name" /\ SlotOf("id") = "consul_service_id"
    /\ SlotOf("tags") = "consul_service_tags"
    /\ SlotOf("address") = "consul_service_address_override"
    /\ SlotOf("port") = "consul_service_port_override"
BY DEF SlotOf

LEMMA SlotsDiffer ==
    ASSUME NEW x \in OnceFields
    PROVE  /\ \A y \in OnceFields : SlotOf(x) = SlotOf(y) => x = y
           /\ SlotOf(x) \notin {"consul_service_meta", "consul_service_check", "server_name", "listen",
                                "consul_service_discovery"}
           /\ x \in ServerFields /\ x \notin {"meta", "checks", "names"}
BY SlotNames DEF OnceFields, ServerFields

LEMMA WithFacts ==
    ASSUME NEW s, NEW field \in ServerFields, NEW value
    PROVE  /\ IsServer(With(s, field, value)) /\ With(s, field, value)[field] = value
           /\ \A x \in ServerFields \ {field} : With(s, field, value)[x] = s[x]
<1>1. \A x \in ServerFields : With(s, field, value)[x] = IF x = field THEN value ELSE s[x]
  BY DEF With
<1>2. With(s, field, value) = [x \in ServerFields |-> With(s, field, value)[x]]
  BY DEF With
<1>3. QED BY <1>1, <1>2 DEF IsServer

LEMMA ExceptIsWith ==
    ASSUME NEW s, IsServer(s), NEW field \in ServerFields, NEW value
    PROVE  [s EXCEPT ![field] = value] = With(s, field, value)
<1>1. DOMAIN s = ServerFields
  BY DEF IsServer
<1>2. QED BY <1>1, Changed DEF With

\* A line leaves alone what it is not about.
LEMMA OnceKeeps ==
    ASSUME NEW s, NEW t, NEW x, NEW block, NEW n \in Nat, OnceRight(s, x, block, n), t[x] = s[x],
           block[n + 1][1] # SlotOf(x)
    PROVE  OnceRight(t, x, block, n + 1)
<1>1. Lines(block, n + 1, SlotOf(x)) = Lines(block, n, SlotOf(x))
  BY LinesStep
<1>2. QED BY <1>1 DEF OnceRight

LEMMA MetaKeeps ==
    ASSUME NEW s, NEW t, NEW block, NEW n \in Nat, MetaRight(s, block, n), t["meta"] = s["meta"],
           block[n + 1][1] # "consul_service_meta"
    PROVE  MetaRight(t, block, n + 1)
<1>1. Lines(block, n + 1, "consul_service_meta") = Lines(block, n, "consul_service_meta")
  BY LinesStep
<1>2. QED BY <1>1 DEF MetaRight

LEMMA ChecksKeep ==
    ASSUME NEW s, NEW t, NEW block, NEW n \in Nat, ChecksRight(s, block, n), t["checks"] = s["checks"],
           block[n + 1][1] # "consul_service_check"
    PROVE  ChecksRight(t, block, n + 1)
<1>1. Lines(block, n + 1, "consul_service_check") = Lines(block, n, "consul_service_check")
  BY LinesStep
<1>2. QED BY <1>1 DEF ChecksRight

LEMMA NamesKeep ==
    ASSUME NEW s, NEW t, NEW block, NEW n \in Nat, NamesRight(s, block, n), t["names"] = s["names"],
           block[n + 1][1] # "server_name"
    PROVE  NamesRight(t, block, n + 1)
<1>1. Lines(block, n + 1, "server_name") = Lines(block, n, "server_name")
  BY LinesStep
<1>2. QED BY <1>1 DEF NamesRight

\* The lines of the module and of the core, one after another.
LEMMA OnceRead ==
    ASSUME NEW s, NEW block, NEW n \in Nat, Draft(s, block, n), NEW x \in OnceFields,
           block[n + 1][1] = SlotOf(x), s[x] = Unset, NEW value, value = block[n + 1][2][1],
           value # Unset, x = "discoverable" => value \in {"on", "off"}
    PROVE  Draft(With(s, x, value), block, n + 1)
<1> DEFINE t == With(s, x, value)
<1>1. /\ IsServer(t) /\ t[x] = value
      /\ \A y \in ServerFields \ {x} : t[y] = s[y]
  BY SlotsDiffer, WithFacts
<1>. HIDE DEF t
<1>2. OnceRight(t, x, block, n + 1)
  <2>1. Lines(block, n, SlotOf(x)) = {}
    BY DEF Draft, SlotsRight, OnceRight
  <2>2. Lines(block, n + 1, SlotOf(x)) = {n + 1}
    BY <2>1, LinesStep
  <2>3. QED BY <1>1, <2>2 DEF OnceRight
<1>3. ASSUME NEW y \in OnceFields, y # x PROVE OnceRight(t, y, block, n + 1)
  <2>1. t[y] = s[y] /\ block[n + 1][1] # SlotOf(y)
    BY <1>1, <1>3, SlotsDiffer
  <2>2. QED BY <2>1, OnceKeeps DEF Draft, SlotsRight
<1>4. t["meta"] = s["meta"] /\ t["checks"] = s["checks"] /\ t["names"] = s["names"]
  BY <1>1, SlotsDiffer DEF ServerFields
<1>5. MetaRight(t, block, n + 1)
  BY <1>4, SlotsDiffer, MetaKeeps DEF Draft, SlotsRight
<1>6. ChecksRight(t, block, n + 1)
  BY <1>4, SlotsDiffer, ChecksKeep DEF Draft, SlotsRight
<1>7. NamesRight(t, block, n + 1)
  BY <1>4, SlotsDiffer, NamesKeep DEF Draft
<1>8. t["discoverable"] \in {Unset, "on", "off"}
  <2>1. CASE x = "discoverable"
    BY <1>1, <2>1
  <2>2. CASE x # "discoverable"
    BY <1>1, <2>2 DEF ServerFields, Draft, SlotsRight
  <2>3. QED BY <2>1, <2>2
<1>9. QED BY <1>1, <1>2, <1>3, <1>5, <1>6, <1>7, <1>8 DEF Draft, SlotsRight, t

LEMMA OthersKeep ==
    ASSUME NEW s, NEW t, NEW block, NEW n \in Nat, Draft(s, block, n), IsServer(t),
           \A x \in OnceFields : t[x] = s[x] /\ block[n + 1][1] # SlotOf(x)
    PROVE  /\ \A x \in OnceFields : OnceRight(t, x, block, n + 1)
           /\ t["discoverable"] \in {Unset, "on", "off"}
<1>1. ASSUME NEW x \in OnceFields PROVE OnceRight(t, x, block, n + 1)
  BY OnceKeeps DEF Draft, SlotsRight
<1>2. QED BY <1>1 DEF Draft, SlotsRight, OnceFields

LEMMA MetaRead ==
    ASSUME NEW s, NEW block, NEW n \in Nat, Draft(s, block, n),
           block[n + 1][1] = "consul_service_meta", block[n + 1][2] \in Text \X Text
    PROVE  Draft(With(s, "meta", Append(s["meta"], block[n + 1][2])), block, n + 1)
<1> DEFINE new == Append(s["meta"], block[n + 1][2])
           t == With(s, "meta", new)
           before == [j \in Lines(block, n, "consul_service_meta") |-> block[j][2]]
           given == [j \in Lines(block, n + 1, "consul_service_meta") |-> block[j][2]]
<1>1. /\ IsServer(t) /\ t["meta"] = new
      /\ \A y \in ServerFields \ {"meta"} : t[y] = s[y]
  <2>1. "meta" \in ServerFields
    BY DEF ServerFields
  <2>2. PICK v : v = new
    OBVIOUS
  <2>3. /\ IsServer(With(s, "meta", v)) /\ With(s, "meta", v)["meta"] = v
        /\ \A y \in ServerFields \ {"meta"} : With(s, "meta", v)[y] = s[y]
    BY <2>1 DEF With, IsServer
  <2>. HIDE DEF new
  <2>4. QED BY <2>2, <2>3
<1>2. \A x \in OnceFields : t[x] = s[x] /\ block[n + 1][1] # SlotOf(x)
  <2>. HIDE DEF t
  <2>1. QED BY <1>1, SlotsDiffer
<1>3. t["checks"] = s["checks"] /\ t["names"] = s["names"]
  <2>. HIDE DEF t
  <2>1. QED BY <1>1 DEF ServerFields
<1>4. IsSequence(s["meta"]) /\ s["meta"] \in Seq(Text \X Text) /\ Follows(s["meta"], before)
  BY DEF Draft, SlotsRight, MetaRight
<1>5. /\ DOMAIN before = Lines(block, n, "consul_service_meta")
      /\ DOMAIN given = DOMAIN before \cup {n + 1}
      /\ \A j \in DOMAIN before : given[j] = before[j]
      /\ given[n + 1] = block[n + 1][2]
  <2>1. Lines(block, n + 1, "consul_service_meta") = Lines(block, n, "consul_service_meta") \cup {n + 1}
    BY LinesStep
  <2>2. QED BY <2>1
<1>6. DOMAIN before \in SUBSET Nat /\ IsFiniteSet(DOMAIN before) /\ \A j \in DOMAIN before : j < n + 1
  BY LinesShape
<1>7. IsSequence(new) /\ new \in Seq(Text \X Text)
  <2>1. IsSequence(new)
    BY <1>4, AppendFacts
  <2>2. new \in Seq(Text \X Text)
    BY <1>4, AppendProperties
  <2>3. QED BY <2>1, <2>2
<1>8. Follows(new, given)
  <2>. HIDE DEF before, given
  <2>1. Follows(Append(s["meta"], given[n + 1]), given)
    BY <1>4, <1>5, <1>6, FollowsAppend
  <2>2. QED BY <1>5, <2>1
<1>9. MetaRight(t, block, n + 1)
  <2>. HIDE DEF t, new
  <2>1. QED BY <1>1, <1>7, <1>8 DEF MetaRight
<1>. HIDE DEF t
<1>10. ChecksRight(t, block, n + 1)
  BY <1>3, ChecksKeep DEF Draft, SlotsRight
<1>11. NamesRight(t, block, n + 1)
  BY <1>3, NamesKeep DEF Draft
<1>12. /\ \A x \in OnceFields : OnceRight(t, x, block, n + 1)
       /\ t["discoverable"] \in {Unset, "on", "off"}
  BY <1>1, <1>2, OthersKeep
<1>13. Draft(t, block, n + 1)
  BY <1>1, <1>9, <1>10, <1>11, <1>12 DEF Draft, SlotsRight
<1>14. QED BY <1>13 DEF t

LEMMA CheckRead ==
    ASSUME NEW s, NEW block, NEW n \in Nat, Draft(s, block, n), IsSequence(block[n + 1][2]),
           block[n + 1][1] = "consul_service_check",
           \A i \in DOMAIN block[n + 1][2] : block[n + 1][2][i] \in STRING \X Text
    PROVE  Draft(With(s, "checks", Append(s["checks"], CheckOf(block[n + 1][2]))), block, n + 1)
<1> DEFINE check == CheckOf(block[n + 1][2])
           new == Append(s["checks"], check)
           t == With(s, "checks", new)
           before == [j \in Lines(block, n, "consul_service_check") |-> SaidCheck(block[j][2])]
           given == [j \in Lines(block, n + 1, "consul_service_check") |-> SaidCheck(block[j][2])]
<1>1. /\ IsServer(t) /\ t["checks"] = new
      /\ \A y \in ServerFields \ {"checks"} : t[y] = s[y]
  <2>1. "checks" \in ServerFields
    BY DEF ServerFields
  <2>2. PICK v : v = new
    OBVIOUS
  <2>3. /\ IsServer(With(s, "checks", v)) /\ With(s, "checks", v)["checks"] = v
        /\ \A y \in ServerFields \ {"checks"} : With(s, "checks", v)[y] = s[y]
    BY <2>1, WithFacts
  <2>. HIDE DEF new
  <2>4. QED BY <2>2, <2>3
<1>2. \A x \in OnceFields : t[x] = s[x] /\ block[n + 1][1] # SlotOf(x)
  <2>. HIDE DEF t
  <2>1. QED BY <1>1, SlotsDiffer
<1>3. t["meta"] = s["meta"] /\ t["names"] = s["names"]
  <2>. HIDE DEF t
  <2>1. QED BY <1>1 DEF ServerFields
<1>4. IsSequence(s["checks"]) /\ s["checks"] \in Seq([CheckFields -> Text]) /\ Follows(s["checks"], before)
  BY DEF Draft, SlotsRight, ChecksRight
<1>5. /\ DOMAIN before = Lines(block, n, "consul_service_check")
      /\ DOMAIN given = DOMAIN before \cup {n + 1}
      /\ \A j \in DOMAIN before : given[j] = before[j]
      /\ given[n + 1] = SaidCheck(block[n + 1][2])
  <2>1. Lines(block, n + 1, "consul_service_check") = Lines(block, n, "consul_service_check") \cup {n + 1}
    BY LinesStep
  <2>2. QED BY <2>1
<1>6. DOMAIN before \in SUBSET Nat /\ IsFiniteSet(DOMAIN before) /\ \A j \in DOMAIN before : j < n + 1
  BY LinesShape
<1>7. IsSequence(new) /\ new \in Seq([CheckFields -> Text])
  <2>1. check \in [CheckFields -> Text]
    BY CheckWorded
  <2>. HIDE DEF check
  <2>2. IsSequence(new)
    BY <1>4, AppendFacts
  <2>3. new \in Seq([CheckFields -> Text])
    BY <1>4, <2>1, AppendProperties
  <2>4. QED BY <2>2, <2>3
<1>8. Follows(new, given)
  <2>1. check = SaidCheck(block[n + 1][2])
    BY CheckOfRight
  <2>. HIDE DEF before, given, check
  <2>2. Follows(Append(s["checks"], given[n + 1]), given)
    BY <1>4, <1>5, <1>6, FollowsAppend
  <2>3. QED BY <1>5, <2>1, <2>2
<1>9. ChecksRight(t, block, n + 1)
  <2>. HIDE DEF t, new
  <2>1. QED BY <1>1, <1>7, <1>8 DEF ChecksRight
<1>. HIDE DEF t
<1>10. MetaRight(t, block, n + 1)
  BY <1>3, MetaKeeps DEF Draft, SlotsRight
<1>11. NamesRight(t, block, n + 1)
  BY <1>3, NamesKeep DEF Draft
<1>12. /\ \A x \in OnceFields : OnceRight(t, x, block, n + 1)
       /\ t["discoverable"] \in {Unset, "on", "off"}
  BY <1>1, <1>2, OthersKeep
<1>13. Draft(t, block, n + 1)
  BY <1>1, <1>9, <1>10, <1>11, <1>12 DEF Draft, SlotsRight
<1>14. QED BY <1>13 DEF t

LEMMA NamesRead ==
    ASSUME NEW s, NEW block, NEW n \in Nat, Draft(s, block, n),
           block[n + 1][1] = "server_name", block[n + 1][2] \in Seq(Text), block[n + 1][2] # <<>>
    PROVE  Draft(With(s, "names", s["names"] \o block[n + 1][2]), block, n + 1)
<1> DEFINE new == s["names"] \o block[n + 1][2]
           t == With(s, "names", new)
           S == Lines(block, n, "server_name")
<1>1. /\ IsServer(t) /\ t["names"] = new
      /\ \A y \in ServerFields \ {"names"} : t[y] = s[y]
  <2>1. "names" \in ServerFields
    BY DEF ServerFields
  <2>2. PICK v : v = new
    OBVIOUS
  <2>3. /\ IsServer(With(s, "names", v)) /\ With(s, "names", v)["names"] = v
        /\ \A y \in ServerFields \ {"names"} : With(s, "names", v)[y] = s[y]
    BY <2>1 DEF With, IsServer
  <2>. HIDE DEF new
  <2>4. QED BY <2>2, <2>3
<1>2. \A x \in OnceFields : t[x] = s[x] /\ block[n + 1][1] # SlotOf(x)
  <2>. HIDE DEF t
  <2>1. QED BY <1>1, SlotsDiffer
<1>3. t["meta"] = s["meta"] /\ t["checks"] = s["checks"]
  <2>. HIDE DEF t
  <2>1. QED BY <1>1 DEF ServerFields
<1>4. s["names"] \in Seq(Text)
  BY DEF Draft, NamesRight
<1>5. /\ new \in Seq(Text) /\ new # <<>>
      /\ s["names"] = <<>> => new = block[n + 1][2]
      /\ s["names"] # <<>> => new[1] = s["names"][1]
  <2>1. PICK p \in Seq(Text), q \in Seq(Text) : p = s["names"] /\ q = block[n + 1][2] /\ new = p \o q
    BY <1>4
  <2>2. p \o q \in Seq(Text) /\ (p \o q = <<>> => q = <<>>) /\ (p = <<>> => p \o q = q)
    BY ConcatProperties, ConcatEqualIffEmpty, ConcatEmptySeq
  <2>3. p # <<>> => (p \o q)[1] = p[1]
    <3>1. p # <<>> => Len(p) \in Nat \ {0}
      BY EmptySeq
    <3>2. Len(q) \in Nat
      OBVIOUS
    <3>3. p # <<>> => 1 \in 1..Len(p) + Len(q) /\ 1 <= Len(p)
      BY <3>1, <3>2
    <3>4. QED BY <3>3, ConcatProperties
  <2>. HIDE DEF new
  <2>4. QED BY <2>1, <2>2, <2>3
<1>6. Lines(block, n + 1, "server_name") = S \cup {n + 1}
  BY LinesStep
<1>7. S \in SUBSET Nat /\ \A j \in S : j < n + 1
  BY LinesShape
<1>8. S = {} => Min(S \cup {n + 1}) = n + 1
  BY MinIs
<1>9. S # {} => Min(S \cup {n + 1}) = Min(S)
  <2> SUFFICES ASSUME S # {} PROVE Min(S \cup {n + 1}) = Min(S)
    OBVIOUS
  <2>. HIDE DEF S
  <2>1. Min(S) \in S /\ \A j \in S : Min(S) <= j
    BY <1>7, MinFacts
  <2>2. \A j \in S \cup {n + 1} : Min(S) <= j
    <3>1. PICK m \in Nat : m = Min(S)
      BY <1>7, <2>1
    <3>2. m < n + 1
      BY <1>7, <2>1, <3>1
    <3>3. m <= n + 1 /\ \A j \in S : m <= j
      BY <2>1, <3>1, <3>2
    <3>4. QED BY <3>1, <3>3
  <2>3. S \cup {n + 1} \in SUBSET Nat
    BY <1>7
  <2>4. QED BY <2>1, <2>2, <2>3, MinIs
<1>10. new[1] = block[Min(S \cup {n + 1})][2][1]
  <2>1. S = {} => s["names"] = <<>>
    BY DEF Draft, NamesRight
  <2>2. S # {} => s["names"] # <<>> /\ s["names"][1] = block[Min(S)][2][1]
    BY DEF Draft, NamesRight
  <2>. HIDE DEF S, new
  <2>3. QED BY <1>5, <1>8, <1>9, <2>1, <2>2
<1>11. NamesRight(t, block, n + 1)
  <2>. HIDE DEF t, new, S
  <2>1. QED BY <1>1, <1>5, <1>6, <1>10 DEF NamesRight
<1>. HIDE DEF t
<1>12. MetaRight(t, block, n + 1)
  BY <1>3, MetaKeeps DEF Draft, SlotsRight
<1>13. ChecksRight(t, block, n + 1)
  BY <1>3, ChecksKeep DEF Draft, SlotsRight
<1>14. /\ \A x \in OnceFields : OnceRight(t, x, block, n + 1)
       /\ t["discoverable"] \in {Unset, "on", "off"}
  BY <1>1, <1>2, OthersKeep
<1>15. Draft(t, block, n + 1)
  BY <1>1, <1>11, <1>12, <1>13, <1>14 DEF Draft, SlotsRight
<1>16. QED BY <1>15 DEF t

LEMMA OtherRead ==
    ASSUME NEW s, NEW block, NEW n \in Nat, Draft(s, block, n),
           block[n + 1][1] \in {"listen", "consul_service_discovery"}
    PROVE  Draft(s, block, n + 1)
<1>1. \A x \in OnceFields : block[n + 1][1] # SlotOf(x)
  BY SlotsDiffer
<1>2. IsServer(s) /\ MetaRight(s, block, n) /\ ChecksRight(s, block, n) /\ NamesRight(s, block, n)
  BY DEF Draft, SlotsRight
<1>3. MetaRight(s, block, n + 1)
  BY <1>2, MetaKeeps
<1>4. ChecksRight(s, block, n + 1)
  BY <1>2, ChecksKeep
<1>5. NamesRight(s, block, n + 1)
  BY <1>2, NamesKeep
<1>6. /\ \A x \in OnceFields : OnceRight(s, x, block, n + 1)
      /\ s["discoverable"] \in {Unset, "on", "off"}
  BY <1>1, <1>2, OthersKeep
<1>7. QED BY <1>2, <1>3, <1>4, <1>5, <1>6 DEF Draft, SlotsRight

-----------------------------------------------------------------------------
(* The service of a server                                                 *)

NamesDone(s, block) ==
    /\ s["names"] \in Seq(Text) /\ s["names"] # <<>>
    /\ s["names"][1] = IF Which(block, "server_name") = {} THEN <<>>
                       ELSE block[Min(Which(block, "server_name"))][2][1]

\* A server whose block is read to its end.
Read(s, block) == SlotsRight(s, block, Len(block)) /\ NamesDone(s, block)

IsBlock(block) == IsSequence(block) /\ \A i \in DOMAIN block : Takes(block[i][1], block[i][2])

LEMMA LinesAll ==
    ASSUME NEW block, IsSequence(block), NEW d
    PROVE  Lines(block, Len(block), d) = Which(block, d)
BY SequenceFacts DEF Lines, Which

LEMMA ServerRead ==
    ASSUME NEW s, NEW block, IsBlock(block), Draft(s, block, Len(block)), NEW names,
           names = IF s["names"] = <<>> THEN <<<<>>>> ELSE s["names"]
    PROVE  Read(With(s, "names", names), block)
<1> DEFINE t == With(s, "names", names)
<1>1. IsServer(t) /\ t["names"] = names /\ \A x \in ServerFields \ {"names"} : t[x] = s[x]
  <2>1. "names" \in ServerFields
    BY DEF ServerFields
  <2>2. QED BY <2>1 DEF With, IsServer
<1>. HIDE DEF t
<1>2. /\ \A x \in OnceFields : t[x] = s[x]
      /\ t["meta"] = s["meta"] /\ t["checks"] = s["checks"]
  BY <1>1 DEF OnceFields, ServerFields
<1>3. SlotsRight(t, block, Len(block))
  <2>1. \A x \in OnceFields : OnceRight(t, x, block, Len(block))
    BY <1>2 DEF Draft, SlotsRight, OnceRight
  <2>2. MetaRight(t, block, Len(block)) /\ ChecksRight(t, block, Len(block))
    BY <1>2 DEF Draft, SlotsRight, MetaRight, ChecksRight
  <2>3. t["discoverable"] \in {Unset, "on", "off"}
    BY <1>2 DEF Draft, SlotsRight, OnceFields
  <2>4. QED BY <1>1, <2>1, <2>2, <2>3 DEF SlotsRight
<1>4. <<<<>>>> \in Seq(Text) /\ <<<<>>>> # <<>> /\ <<<<>>>>[1] = <<>>
  <2>1. <<>> \in Text
    BY EmptySeq DEF Text
  <2>2. QED BY <2>1
<1>5. Lines(block, Len(block), "server_name") = Which(block, "server_name")
  BY LinesAll DEF IsBlock
<1>6. NamesDone(t, block)
  <2>1. CASE s["names"] = <<>>
    <3>1. Which(block, "server_name") = {}
      BY <1>5, <2>1 DEF Draft, NamesRight
    <3>2. names = <<<<>>>>
      BY <2>1
    <3>3. names \in Seq(Text) /\ names # <<>> /\ names[1] = <<>>
      BY <1>4, <3>2
    <3>4. QED BY <1>1, <3>1, <3>3 DEF NamesDone
  <2>2. CASE s["names"] # <<>>
    <3>1. names = s["names"] /\ names \in Seq(Text)
      BY <2>2 DEF Draft, NamesRight
    <3>2. /\ Which(block, "server_name") # {}
          /\ names[1] = block[Min(Which(block, "server_name"))][2][1]
      BY <1>5, <2>2, <3>1 DEF Draft, NamesRight
    <3>3. QED BY <1>1, <2>2, <3>1, <3>2 DEF NamesDone
  <2>3. QED BY <2>1, <2>2
<1>7. QED BY <1>3, <1>6 DEF Read, t

LEMMA MergedIs ==
    ASSUME NEW s, IsServer(s)
    PROVE  LET m == Merged(s)
               or(x, default) == IF s[x] = Unset THEN default ELSE s[x]
           IN  /\ IsServer(m)
               /\ m["discoverable"] = or("discoverable", "off") /\ m["name"] = or("name", <<>>)
               /\ m["id"] = or("id", <<>>) /\ m["tags"] = or("tags", Chars("nginx"))
               /\ m["address"] = or("address", <<>>)
               /\ \A x \in {"port", "meta", "checks", "names"} : m[x] = s[x]
<1> DEFINE or(x, default) == IF s[x] = Unset THEN default ELSE s[x]
<1>1. PICK a : a = With(s, "discoverable", or("discoverable", "off"))
  OBVIOUS
<1>2. PICK b : b = With(a, "name", or("name", <<>>))
  OBVIOUS
<1>3. PICK c : c = With(b, "id", or("id", <<>>))
  OBVIOUS
<1>4. PICK d : d = With(c, "tags", or("tags", Chars("nginx")))
  OBVIOUS
<1>5. PICK e : e = With(d, "address", or("address", <<>>))
  OBVIOUS
<1>6. /\ IsServer(a) /\ IsServer(b) /\ IsServer(c) /\ IsServer(d) /\ IsServer(e)
      /\ {"discoverable", "name", "id", "tags", "address"} \subseteq ServerFields
  BY <1>1, <1>2, <1>3, <1>4, <1>5 DEF With, IsServer, ServerFields
<1>7. /\ a = [s EXCEPT !["discoverable"] = or("discoverable", "off")]
      /\ b = [a EXCEPT !["name"] = or("name", <<>>)]
      /\ c = [b EXCEPT !["id"] = or("id", <<>>)]
      /\ d = [c EXCEPT !["tags"] = or("tags", Chars("nginx"))]
      /\ e = [d EXCEPT !["address"] = or("address", <<>>)]
  <2>. HIDE DEF or
  <2>1. QED BY <1>1, <1>2, <1>3, <1>4, <1>5, <1>6, ExceptIsWith
<1>8. a["name"] = s["name"] /\ b["id"] = s["id"] /\ c["tags"] = s["tags"] /\ d["address"] = s["address"]
  <2>. HIDE DEF or
  <2>1. QED BY <1>1, <1>2, <1>3, <1>4 DEF With, ServerFields
<1>9. Merged(s) = e
  BY <1>7, <1>8, Zenon DEF Merged
<1>10. /\ e["discoverable"] = or("discoverable", "off") /\ e["name"] = or("name", <<>>)
       /\ e["id"] = or("id", <<>>) /\ e["tags"] = or("tags", Chars("nginx"))
       /\ e["address"] = or("address", <<>>)
       /\ \A x \in {"port", "meta", "checks", "names"} : e[x] = s[x]
  <2>. HIDE DEF or
  <2>1. QED BY <1>1, <1>2, <1>3, <1>4, <1>5 DEF With, ServerFields
<1>11. QED BY <1>6, <1>9, <1>10

\* What a directive that may be given once says, in a block that is read.
LEMMA SaidOnce ==
    ASSUME NEW s, NEW block, IsBlock(block), NEW x, OnceRight(s, x, block, Len(block))
    PROVE  /\ s[x] = Unset => Said(block, SlotOf(x)) = {}
           /\ s[x] # Unset => \E j \in DOMAIN block :
                /\ block[j][1] = SlotOf(x)
                /\ Said(block, SlotOf(x)) = {block[j][2]} /\ s[x] = block[j][2][1]
<1>1. Lines(block, Len(block), SlotOf(x)) = Which(block, SlotOf(x))
  BY LinesAll DEF IsBlock
<1>2. CASE Which(block, SlotOf(x)) = {}
  BY <1>1, <1>2 DEF OnceRight, Said
<1>3. CASE Which(block, SlotOf(x)) # {}
  <2>1. PICK j : Which(block, SlotOf(x)) = {j} /\ s[x] = block[j][2][1] /\ s[x] # Unset
    BY <1>1, <1>3 DEF OnceRight
  <2>2. Said(block, SlotOf(x)) = {block[j][2]}
    BY <2>1, Zenon DEF Said
  <2>3. j \in DOMAIN block /\ block[j][1] = SlotOf(x)
    BY <2>1 DEF Which
  <2>4. QED BY <2>1, <2>2, <2>3
<1>4. QED BY <1>2, <1>3

LEMMA SaidTexts ==
    ASSUME NEW s, NEW block, IsBlock(block), NEW x, OnceRight(s, x, block, Len(block))
    PROVE  {args[1] : args \in Said(block, SlotOf(x))} = IF s[x] = Unset THEN {} ELSE {s[x]}
<1>1. CASE s[x] = Unset
  BY <1>1, SaidOnce
<1>2. CASE s[x] # Unset
  <2>1. PICK j : Said(block, SlotOf(x)) = {block[j][2]} /\ s[x] = block[j][2][1]
    BY <1>2, SaidOnce
  <2>2. {args[1] : args \in Said(block, SlotOf(x))} = {block[j][2][1]}
    BY <2>1, Zenon
  <2>3. QED BY <1>2, <2>1, <2>2
<1>3. QED BY <1>1, <1>2

LEMMA SaidOrRight ==
    ASSUME NEW s, NEW block, IsBlock(block), NEW x, OnceRight(s, x, block, Len(block)), NEW default
    PROVE  SaidOr(block, SlotOf(x), default) = IF s[x] \in {Unset, <<>>} THEN default ELSE s[x]
<1> DEFINE texts == {args[1] : args \in Said(block, SlotOf(x))} \ {<<>>}
<1>1. texts = IF s[x] \in {Unset, <<>>} THEN {} ELSE {s[x]}
  BY SaidTexts
<1>2. SaidOr(block, SlotOf(x), default) = IF texts = {} THEN default ELSE CHOOSE text \in texts : TRUE
  BY DEF SaidOr
<1>. HIDE DEF texts
<1>3. CASE s[x] \in {Unset, <<>>}
  BY <1>1, <1>2, <1>3
<1>4. CASE s[x] \notin {Unset, <<>>}
  <2>1. texts = {s[x]}
    BY <1>1, <1>4
  <2>2. (CHOOSE text \in texts : TRUE) = s[x]
    BY <2>1
  <2>3. QED BY <1>2, <1>4, <2>1, <2>2
<1>5. QED BY <1>3, <1>4

\* Values are of the kind that the command tables let through.
LEMMA OnceKind ==
    ASSUME NEW s, NEW block, IsBlock(block), SlotsRight(s, block, Len(block))
    PROVE  /\ \A x \in {"name", "id", "tags", "address"} : s[x] = Unset \/ s[x] \in Text
           /\ s["port"] = Unset \/ s["port"] \in Nat
<1>1. ASSUME NEW x \in OnceFields, s[x] # Unset
      PROVE  \E args : Takes(SlotOf(x), args) /\ s[x] = args[1]
  <2>1. OnceRight(s, x, block, Len(block))
    BY DEF SlotsRight
  <2>2. PICK j \in DOMAIN block : block[j][1] = SlotOf(x) /\ s[x] = block[j][2][1]
    BY <1>1, <2>1, SaidOnce
  <2>3. Takes(SlotOf(x), block[j][2])
    BY <2>2 DEF IsBlock
  <2>4. QED BY <2>2, <2>3
<1>2. ASSUME NEW x \in {"name", "id", "tags", "address"}, s[x] # Unset PROVE s[x] \in Text
  <2>1. x \in OnceFields /\ SlotOf(x) \in DOMAIN TextSlot
    BY SlotNames DEF OnceFields, TextSlot
  <2>2. QED BY <1>1, <1>2, <2>1 DEF Takes
<1>3. ASSUME s["port"] # Unset PROVE s["port"] \in Nat
  <2>1. "port" \in OnceFields /\ SlotOf("port") = "consul_service_port_override"
    BY SlotNames DEF OnceFields
  <2>2. QED BY <1>1, <1>3, <2>1 DEF Takes
<1>4. QED BY <1>2, <1>3

\* What the service of a server is called, and whether it is listed at all.
LEMMA NameRight ==
    ASSUME NEW s, NEW block, IsBlock(block), Read(s, block), NEW m, m = Merged(s)
    PROVE  NameOf(m) = SaidName(block) /\ NameOf(m) \in Text
<1> DEFINE given == IF Which(block, "server_name") = {} THEN <<>>
                    ELSE block[Min(Which(block, "server_name"))][2][1]
<1>1. /\ m["name"] = (IF s["name"] = Unset THEN <<>> ELSE s["name"]) /\ m["names"] = s["names"]
      /\ s["names"] \in Seq(Text) /\ s["names"] # <<>> /\ s["names"][1] = given
  BY MergedIs DEF Read, NamesDone, SlotsRight
<1>2. NameOf(m) = IF s["name"] \in {Unset, <<>>} THEN given ELSE s["name"]
  BY <1>1 DEF NameOf
<1>3. SaidOr(block, SlotOf("name"), given) = IF s["name"] \in {Unset, <<>>} THEN given ELSE s["name"]
  <2>1. OnceRight(s, "name", block, Len(block))
    BY DEF Read, SlotsRight, OnceFields
  <2>. HIDE DEF given
  <2>2. QED BY <2>1, SaidOrRight
<1>4. SaidName(block) = SaidOr(block, SlotOf("name"), given)
  BY SlotNames DEF SaidName
<1>5. given \in Text
  BY <1>1
<1>6. s["name"] = Unset \/ s["name"] \in Text
  BY OnceKind DEF Read
<1>. HIDE DEF given
<1>7. QED BY <1>2, <1>3, <1>4, <1>5, <1>6

LEMMA CsvRight ==
    ASSUME NEW s, NEW block, IsBlock(block), Read(s, block), NEW m, m = Merged(s)
    PROVE  m["tags"] = SaidCsv(block) /\ m["tags"] \in Text
<1>1. m["tags"] = IF s["tags"] = Unset THEN Chars("nginx") ELSE s["tags"]
  BY MergedIs DEF Read, SlotsRight
<1>2. OnceRight(s, "tags", block, Len(block)) /\ SlotOf("tags") = "consul_service_tags"
  BY SlotNames DEF Read, SlotsRight, OnceFields
<1>3. s["tags"] = Unset \/ s["tags"] \in Text
  BY OnceKind DEF Read
<1>4. CASE s["tags"] = Unset
  <2>1. Said(block, "consul_service_tags") = {}
    BY <1>2, <1>4, SaidOnce
  <2>2. QED BY <1>1, <1>4, <2>1, LiteralAssumption DEF SaidCsv
<1>5. CASE s["tags"] # Unset
  <2>1. PICK j : /\ Said(block, "consul_service_tags") = {block[j][2]}
                 /\ s["tags"] = block[j][2][1]
    BY <1>2, <1>5, SaidOnce
  <2>2. (CHOOSE args \in Said(block, "consul_service_tags") : TRUE) = block[j][2]
    BY <2>1
  <2>3. QED BY <1>1, <1>3, <1>5, <2>1, <2>2 DEF SaidCsv
<1>6. QED BY <1>4, <1>5

LEMMA IdRight ==
    ASSUME NEW s, NEW block, IsBlock(block), Read(s, block), NEW m, m = Merged(s)
    PROVE  LET tags == SplitTags(m["tags"])
               csv  == SaidCsv(block)
           IN  /\ IdOf(m, tags) = SaidId(block) /\ IdOf(m, tags) \in Text
               /\ tags \in Seq(Text)
               /\ Follows(tags, [k \in TagStarts(csv) |-> TagAt(csv, k)])
<1> DEFINE csv == SaidCsv(block)
           tags == SplitTags(csv)
           given == [k \in TagStarts(csv) |-> TagAt(csv, k)]
           behind == IF TagStarts(csv) = {} THEN <<>> ELSE <<"-">> \o TagAt(csv, Min(TagStarts(csv)))
           default == SaidName(block) \o behind
<1>1. csv = m["tags"] /\ csv \in Text
  BY CsvRight
<1>2. tags \in Seq(Text) /\ Follows(tags, given)
  BY <1>1, SplitTagsRight
<1>3. NameOf(m) = SaidName(block) /\ SaidName(block) \in Text
  BY NameRight
<1>4. /\ tags = <<>> <=> TagStarts(csv) = {}
      /\ TagStarts(csv) # {} => tags[1] = TagAt(csv, Min(TagStarts(csv)))
  <2>1. /\ DOMAIN given = TagStarts(csv) /\ DOMAIN given \in SUBSET Nat /\ IsFiniteSet(DOMAIN given)
    BY <1>1, TagStartsShape
  <2>2. IsSequence(tags)
    BY <1>2, SeqIsSequence
  <2>3. /\ tags = <<>> <=> DOMAIN given = {}
        /\ DOMAIN given # {} => tags[1] = given[Min(DOMAIN given)]
    <3>. HIDE DEF given, tags
    <3>1. QED BY <1>2, <2>1, <2>2, FollowsFirst
  <2>4. TagStarts(csv) # {} => Min(TagStarts(csv)) \in TagStarts(csv)
    BY <1>1, TagStartsShape, MinFacts
  <2>. HIDE DEF csv, tags
  <2>5. QED BY <2>1, <2>3, <2>4
<1>5. default = IF tags # <<>> THEN NameOf(m) \o <<"-">> \o tags[1] ELSE NameOf(m)
  <2>1. CASE tags = <<>>
    <3>1. behind = <<>>
      BY <1>4, <2>1
    <3>2. SaidName(block) \o <<>> = SaidName(block)
      BY <1>3, ConcatEmptySeq DEF Text
    <3>. HIDE DEF tags, csv
    <3>3. QED BY <1>3, <2>1, <3>1, <3>2
  <2>2. CASE tags # <<>>
    <3>1. behind = <<"-">> \o tags[1]
      BY <1>4, <2>2
    <3>2. tags[1] \in Seq(STRING) /\ <<"-">> \in Seq(STRING) /\ SaidName(block) \in Seq(STRING)
      <4>1. tags[1] \in Text
        <5>. HIDE DEF tags
        <5>1. QED BY <1>2, <2>2
      <4>2. QED BY <1>3, <4>1, LiteralAssumption DEF Text
    <3>3. (SaidName(block) \o <<"-">>) \o tags[1] = SaidName(block) \o (<<"-">> \o tags[1])
      <4>1. PICK S, hyphen, tag : S = STRING /\ hyphen = <<"-">> /\ tag = tags[1]
        OBVIOUS
      <4>. HIDE DEF tags
      <4>2. hyphen \in Seq(S) /\ tag \in Seq(S) /\ SaidName(block) \in Seq(S)
        BY <3>2, <4>1
      <4>3. (SaidName(block) \o hyphen) \o tag = SaidName(block) \o (hyphen \o tag)
        BY <4>2, ConcatAssociative
      <4>4. QED BY <4>1, <4>3
    <3>. HIDE DEF tags, csv, behind
    <3>4. QED BY <1>3, <2>2, <3>1, <3>3
  <2>3. QED BY <2>1, <2>2
<1>6. default \in Text
  <2>1. CASE tags = <<>>
    <3>. HIDE DEF tags, default
    <3>1. QED BY <1>3, <1>5, <2>1
  <2>2. CASE tags # <<>>
    <3>1. <<"-">> \in Seq(STRING)
      BY LiteralAssumption DEF Text
    <3>. HIDE DEF tags, default
    <3>2. tags[1] \in Seq(STRING) /\ NameOf(m) \in Seq(STRING)
      BY <1>2, <1>3, <2>2 DEF Text
    <3>3. NameOf(m) \o <<"-">> \in Seq(STRING)
      BY <3>1, <3>2
    <3>4. NameOf(m) \o <<"-">> \o tags[1] \in Seq(STRING)
      BY <3>2, <3>3
    <3>5. QED BY <1>5, <2>2, <3>4 DEF Text
  <2>3. QED BY <2>1, <2>2
<1>7. SaidId(block) = SaidOr(block, SlotOf("id"), default)
  BY SlotNames DEF SaidId
<1>8. OnceRight(s, "id", block, Len(block))
  BY DEF Read, SlotsRight, OnceFields
<1>9. m["id"] = (IF s["id"] = Unset THEN <<>> ELSE s["id"]) /\ (s["id"] = Unset \/ s["id"] \in Text)
  BY MergedIs, OnceKind DEF Read, SlotsRight
<1>10. IdOf(m, tags) = IF s["id"] \in {Unset, <<>>} THEN default ELSE s["id"]
  <2>. HIDE DEF tags, default
  <2>1. QED BY <1>5, <1>9 DEF IdOf
<1>. HIDE DEF default, tags, given, csv
<1>11. SaidId(block) = IF s["id"] \in {Unset, <<>>} THEN default ELSE s["id"]
  BY <1>7, <1>8, SaidOrRight
<1>12. IdOf(m, tags) = SaidId(block) /\ IdOf(m, tags) \in Text
  BY <1>6, <1>9, <1>10, <1>11
<1>13. QED BY <1>1, <1>2, <1>12 DEF csv, tags, given

\* A server is listed when its block says so.
LEMMA ListedRight ==
    ASSUME NEW s, NEW f, NEW b \in DOMAIN f, IsBlock(f[b]), Read(s, f[b]), NEW m, m = Merged(s)
    PROVE  m["discoverable"] = "on" <=> b \in Discovered(f)
<1>1. /\ OnceRight(s, "discoverable", f[b], Len(f[b])) /\ s["discoverable"] \in {Unset, "on", "off"}
      /\ SlotOf("discoverable") = "consul_service_discoverable"
  BY SlotNames DEF Read, SlotsRight, OnceFields
<1>2. m["discoverable"] = IF s["discoverable"] = Unset THEN "off" ELSE s["discoverable"]
  BY MergedIs DEF Read, SlotsRight
<1>3. {args[1] : args \in Said(f[b], "consul_service_discoverable")}
        = IF s["discoverable"] = Unset THEN {} ELSE {s["discoverable"]}
  BY <1>1, SaidTexts
<1>4. b \in Discovered(f) <=> "on" \in {args[1] : args \in Said(f[b], "consul_service_discoverable")}
  BY DEF Discovered
<1>5. QED BY <1>1, <1>2, <1>3, <1>4

\* Its texts are texts, element by element.
Worded(sv) ==
    /\ sv.tags \in Seq(Text) /\ sv.meta \in Seq(Text \X Text)
    /\ sv.checks \in Seq([CheckFields -> Text])

\* What the two properties say of one service.
ServiceRight(block, sv) ==
    /\ sv.name = SaidName(block)
    /\ sv.id = SaidId(block)
    /\ Follows(sv.tags, [k \in TagStarts(SaidCsv(block)) |-> TagAt(SaidCsv(block), k)])
    /\ Follows(sv.meta, [k \in Which(block, "consul_service_meta") |-> block[k][2]])
    /\ Follows(sv.checks, [k \in Which(block, "consul_service_check") |-> SaidCheck(block[k][2])])

Sockets(block) ==
    IF Said(block, "listen") = {} THEN {<<80, Chars("0.0.0.0")>>} ELSE Said(block, "listen")

SocketFits(block, sv) ==
    LET ports_  == {args[1] : args \in Said(block, "consul_service_port_override")}
        address == {args[1] : args \in Said(block, "consul_service_address_override")} \ {<<>>}
    IN  /\ \A n \in ports_ : sv.port = n
        /\ \A text \in address : sv.address = text
        /\ \E socket \in Sockets(block) :
             /\ ports_ = {} => sv.port = socket[1]
             /\ address = {} => sv.address = socket[2]

LEMMA SocketsShape ==
    ASSUME NEW block, IsBlock(block)
    PROVE  Sockets(block) \in SUBSET (Nat \X Text) /\ Sockets(block) # {}
<1>1. ASSUME NEW i \in Which(block, "listen") PROVE block[i][2] \in Nat \X Text
  BY DEF Which, IsBlock, Takes
<1>2. Said(block, "listen") \in SUBSET (Nat \X Text)
  BY <1>1 DEF Said
<1>3. <<80, Chars("0.0.0.0")>> \in Nat \X Text
  BY LiteralAssumption
<1>4. QED BY <1>2, <1>3 DEF Sockets

LEMMA SocketFitsRight ==
    ASSUME NEW b, NEW block, IsBlock(block), NEW s, Read(s, block), servers[b] = Merged(s),
           PortList(ports), Listens(ports, b) = Sockets(block),
           NEW port, port = (IF servers[b].port # Unset THEN servers[b].port ELSE FindPort(b)),
           NEW address, address = (IF servers[b].address # <<>> THEN servers[b].address ELSE FindAddr(b)),
           NEW sv, sv.port = port, sv.address = address
    PROVE  SocketFits(block, sv) /\ port \in Nat /\ address \in Text
<1> DEFINE ports_ == {args[1] : args \in Said(block, "consul_service_port_override")}
           texts == {args[1] : args \in Said(block, "consul_service_address_override")}
<1>1. PICK socket : socket \in Sockets(block) /\ socket[1] = FindPort(b) /\ socket[2] = FindAddr(b)
  <2>1. Listens(ports, b) # {}
    BY SocketsShape
  <2>2. <<FindPort(b), FindAddr(b)>> \in Sockets(block)
    BY <2>1, FoundSocket
  <2>3. QED BY <2>2
<1>2. socket[1] \in Nat /\ socket[2] \in Text
  BY <1>1, SocketsShape
<1>3. /\ OnceRight(s, "port", block, Len(block)) /\ OnceRight(s, "address", block, Len(block))
      /\ IsServer(s)
  BY DEF Read, SlotsRight, OnceFields
<1>4. /\ s["port"] = Unset \/ s["port"] \in Nat
      /\ s["address"] = Unset \/ s["address"] \in Text
  BY OnceKind DEF Read
<1>5. ports_ = IF s["port"] = Unset THEN {} ELSE {s["port"]}
  <2>1. {args[1] : args \in Said(block, SlotOf("port"))} = IF s["port"] = Unset THEN {} ELSE {s["port"]}
    BY <1>3, SaidTexts
  <2>2. QED BY <2>1, SlotNames, Zenon
<1>6. texts = IF s["address"] = Unset THEN {} ELSE {s["address"]}
  <2>1. {args[1] : args \in Said(block, SlotOf("address"))}
          = IF s["address"] = Unset THEN {} ELSE {s["address"]}
    BY <1>3, SaidTexts
  <2>2. QED BY <2>1, SlotNames, Zenon
<1>7. /\ servers[b]["port"] = s["port"]
      /\ servers[b]["address"] = IF s["address"] = Unset THEN <<>> ELSE s["address"]
  BY <1>3, MergedIs
<1>8. port = (IF s["port"] # Unset THEN s["port"] ELSE socket[1])
  BY <1>1, <1>7
<1>9. address = IF s["address"] \in {Unset, <<>>} THEN socket[2] ELSE s["address"]
  BY <1>1, <1>7
<1>10. port \in Nat /\ address \in Text
  BY <1>2, <1>4, <1>8, <1>9
<1>. HIDE DEF ports_, texts
<1>11. \A n \in ports_ : port = n
  BY <1>5, <1>8
<1>12. \A text \in texts \ {<<>>} : address = text
  BY <1>6, <1>9
<1>13. (ports_ = {} => port = socket[1]) /\ (texts \ {<<>>} = {} => address = socket[2])
  BY <1>5, <1>6, <1>8, <1>9
<1>14. QED BY <1>1, <1>10, <1>11, <1>12, <1>13 DEF SocketFits, ports_, texts

\* The service that is built for a server is the one that its block describes.
LEMMA ServiceOfRight ==
    ASSUME NEW b, NEW block, IsBlock(block), NEW s, Read(s, block), servers[b] = Merged(s),
           PortList(ports), Listens(ports, b) = Sockets(block)
    PROVE  /\ ServiceRight(block, ServiceOf(b)) /\ SocketFits(block, ServiceOf(b))
           /\ IsService(ServiceOf(b)) /\ Worded(ServiceOf(b))
<1>1. PICK m : m = servers[b]
  OBVIOUS
<1>2. PICK tags : tags = SplitTags(m.tags)
  OBVIOUS
<1>3. PICK sv : sv = ServiceOf(b)
  OBVIOUS
<1>4. /\ sv.id = IdOf(m, tags) /\ sv.name = NameOf(m) /\ sv.tags = tags
      /\ sv.address = (IF m.address # <<>> THEN m.address ELSE FindAddr(b))
      /\ sv.port = (IF m.port # Unset THEN m.port ELSE FindPort(b))
      /\ sv.meta = m.meta /\ sv.checks = m.checks
  BY <1>1, <1>2, <1>3 DEF ServiceOf
<1>5. sv.name = SaidName(block) /\ sv.name \in Text
  BY <1>1, <1>4, NameRight
<1>6. /\ sv.id = SaidId(block) /\ sv.id \in Text /\ tags \in Seq(Text)
      /\ Follows(tags, [k \in TagStarts(SaidCsv(block)) |-> TagAt(SaidCsv(block), k)])
  BY <1>1, <1>2, <1>4, IdRight
<1>7. Follows(sv.meta, [k \in Which(block, "consul_service_meta") |-> block[k][2]])
  <2>1. m["meta"] = s["meta"] /\ MetaRight(s, block, Len(block))
    BY <1>1, MergedIs DEF Read, SlotsRight
  <2>2. Lines(block, Len(block), "consul_service_meta") = Which(block, "consul_service_meta")
    BY LinesAll DEF IsBlock
  <2>3. QED BY <1>4, <2>1, <2>2 DEF MetaRight
<1>8. Follows(sv.checks, [k \in Which(block, "consul_service_check") |-> SaidCheck(block[k][2])])
  <2>1. m["checks"] = s["checks"] /\ ChecksRight(s, block, Len(block))
    BY <1>1, MergedIs DEF Read, SlotsRight
  <2>2. Lines(block, Len(block), "consul_service_check") = Which(block, "consul_service_check")
    BY LinesAll DEF IsBlock
  <2>3. QED BY <1>4, <2>1, <2>2 DEF ChecksRight
<1>9. SocketFits(block, sv) /\ sv.port \in Nat /\ sv.address \in Text
  BY <1>1, <1>4, SocketFitsRight
<1>10. ServiceRight(block, sv)
  BY <1>4, <1>5, <1>6, <1>7, <1>8 DEF ServiceRight
<1>11. IsService(sv)
  <2>1. Range(tags) \subseteq Text
    BY <1>6 DEF Range
  <2>2. QED BY <1>4, <1>5, <1>6, <1>9, <2>1 DEF IsService
<1>12. Worded(sv)
  <2>1. /\ m["meta"] = s["meta"] /\ MetaRight(s, block, Len(block))
        /\ m["checks"] = s["checks"] /\ ChecksRight(s, block, Len(block))
    BY <1>1, MergedIs DEF Read, SlotsRight
  <2>2. QED BY <1>4, <1>6, <2>1 DEF Worded, MetaRight, ChecksRight
<1>13. QED BY <1>3, <1>9, <1>10, <1>11, <1>12

-----------------------------------------------------------------------------
(* A configuration is read and built                                       *)

\* The sockets that n lines of a block name.
Heard(block, n) == {block[j][2] : j \in Lines(block, n, "listen")}

LEMMA HeardStep ==
    ASSUME NEW block, NEW n \in Nat
    PROVE  Heard(block, n + 1) = IF block[n + 1][1] = "listen" THEN Heard(block, n) \cup {block[n + 1][2]}
                                 ELSE Heard(block, n)
<1>1. CASE block[n + 1][1] = "listen"
  <2>1. Lines(block, n + 1, "listen") = Lines(block, n, "listen") \cup {n + 1}
    BY <1>1, LinesStep
  <2>2. QED BY <1>1, <2>1, Zenon DEF Heard
<1>2. CASE block[n + 1][1] # "listen"
  <2>1. Lines(block, n + 1, "listen") = Lines(block, n, "listen")
    BY <1>2, LinesStep
  <2>2. QED BY <1>2, <2>1, Zenon DEF Heard
<1>3. QED BY <1>1, <1>2

\* A socket is added to the server that names it and to no other.
LEMMA ListenAdds ==
    ASSUME NEW ps, PortList(ps), NEW port, NEW address, NEW server,
           NEW qs, qs = WithListen(ps, port, address, server)
    PROVE  /\ PortList(qs)
           /\ Listens(qs, server) = Listens(ps, server) \cup {<<port, address>>}
           /\ \A other : other # server => Listens(qs, other) = Listens(ps, other)
<1>1. PortList(qs)
  BY WithListenRight
<1>2. \A po, ad, sv : AtPort(qs, po, ad, sv)
                        <=> AtPort(ps, po, ad, sv) \/ (po = port /\ ad = address /\ sv = server)
  BY WithListenRight
<1>3. ASSUME NEW sv, NEW socket
      PROVE  socket \in Listens(qs, sv)
               <=> socket \in Listens(ps, sv) \/ (socket = <<port, address>> /\ sv = server)
  <2>1. CASE socket = <<socket[1], socket[2]>>
    <3>1. PICK po, ad : po = socket[1] /\ ad = socket[2] /\ socket = <<po, ad>>
      BY <2>1
    <3>2. /\ socket \in Listens(qs, sv) <=> AtPort(qs, po, ad, sv)
          /\ socket \in Listens(ps, sv) <=> AtPort(ps, po, ad, sv)
      BY <3>1, ListensFacts
    <3>3. socket = <<port, address>> <=> po = port /\ ad = address
      BY <3>1
    <3>4. QED BY <1>2, <3>2, <3>3
  <2>2. CASE socket # <<socket[1], socket[2]>>
    BY <2>2, ListensFacts
  <2>3. QED BY <2>1, <2>2
<1>4. QED BY <1>1, <1>3

\* b servers of a file are read to their end, and no later one but the next has a socket.
ReadTo(f, ss, ps, b) ==
    /\ b \in 0..Len(f)
    /\ IsSequence(ss) /\ PortList(ps)
    /\ \A i \in 1..b : Read(ss[i], f[i]) /\ Listens(ps, i) = Sockets(f[i])
    /\ \A i \in Nat : i > b + 1 => Listens(ps, i) = {}

Settled(f, ss, ps, b) == ReadTo(f, ss, ps, b) /\ Len(ss) = b /\ Listens(ps, b + 1) = {}

\* n lines of the next one are read.
Within(f, ss, ps, b, n) ==
    /\ ReadTo(f, ss, ps, b) /\ Len(ss) = b + 1
    /\ b + 1 \in DOMAIN f /\ n \in 0..Len(f[b + 1])
    /\ Draft(ss[b + 1], f[b + 1], n)
    /\ Listens(ps, b + 1) = Heard(f[b + 1], n)

\* Every server is read, merged, and described by its block.
Merges(f, ss, ps) ==
    /\ IsSequence(ss) /\ Len(ss) = Len(f) /\ PortList(ps)
    /\ \A i \in DOMAIN f : /\ \E s : Read(s, f[i]) /\ ss[i] = Merged(s)
                           /\ Listens(ps, i) = Sockets(f[i])

\* What a catalogue has for the servers up to b.
DiscoveredTo(f, b) == {i \in Discovered(f) : i <= b}

CatalogueTo(list, f, b) ==
    /\ IsSequence(list)
    /\ \E given : /\ DOMAIN given = DiscoveredTo(f, b) /\ Follows(list, given)
                  /\ \A i \in DOMAIN given : ServiceRight(f[i], given[i]) /\ SocketFits(f[i], given[i])
    /\ \A i \in DOMAIN list : IsService(list[i]) /\ Worded(list[i])

LEMMA FileBlocks ==
    ASSUME NEW f, IsFile(f)
    PROVE  /\ IsSequence(f) /\ Len(f) \in Nat /\ DOMAIN f = 1..Len(f)
           /\ \A b \in DOMAIN f : /\ IsBlock(f[b]) /\ Len(f[b]) \in Nat
                                  /\ DOMAIN f[b] = 1..Len(f[b])
BY SequenceFacts DEF IsFile, IsBlock

LEMMA NothingRead ==
    ASSUME NEW f, IsFile(f)
    PROVE  Settled(f, <<>>, <<>>, 0)
<1>1. IsSequence(<<>>) /\ Len(<<>>) = 0 /\ DOMAIN <<>> = {}
  BY EmptyIsSequence
<1>2. PortList(<<>>)
  BY <1>1 DEF PortList
<1>3. \A i : Listens(<<>>, i) = {}
  BY <1>1 DEF Listens, Range
<1>4. Len(f) \in Nat
  BY FileBlocks
<1>5. QED BY <1>1, <1>2, <1>3, <1>4 DEF Settled, ReadTo

LEMMA NextServer ==
    ASSUME NEW f, IsFile(f), NEW ss, NEW ps, NEW b \in Nat, Settled(f, ss, ps, b), b + 1 <= Len(f)
    PROVE  Within(f, Append(ss, FreshServer), ps, b, 0)
<1>1. IsSequence(ss) /\ Len(ss) = b
  BY DEF Settled, ReadTo
<1> DEFINE rr == Append(ss, FreshServer)
<1>2. /\ IsSequence(rr) /\ Len(rr) = b + 1 /\ rr[b + 1] = FreshServer
      /\ \A i \in 1..b : rr[i] = ss[i]
  BY <1>1, AppendFacts
<1>. HIDE DEF rr
<1>3. b + 1 \in DOMAIN f /\ Len(f[b + 1]) \in Nat
  BY FileBlocks
<1>4. ReadTo(f, rr, ps, b)
  BY <1>2 DEF Settled, ReadTo
<1>5. \A d : Lines(f[b + 1], 0, d) = {}
  BY DEF Lines
<1>6. Listens(ps, b + 1) = Heard(f[b + 1], 0)
  <2>1. Heard(f[b + 1], 0) = {}
    BY <1>5 DEF Heard
  <2>2. QED BY <2>1 DEF Settled
<1>7. Draft(FreshServer, f[b + 1], 0)
  <2>1. /\ IsServer(FreshServer) /\ \A x \in OnceFields : FreshServer[x] = Unset
        /\ FreshServer["meta"] = <<>> /\ FreshServer["checks"] = <<>> /\ FreshServer["names"] = <<>>
    BY DEF IsServer, ServerFields, FreshServer, OnceFields
  <2>2. \A x \in OnceFields : OnceRight(FreshServer, x, f[b + 1], 0)
    BY <1>5, <2>1 DEF OnceRight
  <2>3. MetaRight(FreshServer, f[b + 1], 0)
    <3>1. PICK given : given = [j \in Lines(f[b + 1], 0, "consul_service_meta") |-> f[b + 1][j][2]]
      OBVIOUS
    <3>2. DOMAIN given = {}
      BY <1>5, <3>1
    <3>3. Follows(<<>>, given)
      BY <3>2, FollowsEmpty
    <3>4. QED BY <2>1, <3>1, <3>3, EmptyIsSequence, EmptySeq DEF MetaRight
  <2>4. ChecksRight(FreshServer, f[b + 1], 0)
    <3>1. PICK given : given = [j \in Lines(f[b + 1], 0, "consul_service_check")
                                  |-> SaidCheck(f[b + 1][j][2])]
      OBVIOUS
    <3>2. DOMAIN given = {}
      BY <1>5, <3>1
    <3>3. Follows(<<>>, given)
      BY <3>2, FollowsEmpty
    <3>4. QED BY <2>1, <3>1, <3>3, EmptyIsSequence, EmptySeq DEF ChecksRight
  <2>5. NamesRight(FreshServer, f[b + 1], 0)
    BY <1>5, <2>1, EmptySeq DEF NamesRight
  <2>6. FreshServer["discoverable"] = Unset
    BY <2>1 DEF OnceFields
  <2>7. QED BY <2>1, <2>2, <2>3, <2>4, <2>5, <2>6 DEF Draft, SlotsRight
<1>8. 0 \in 0..Len(f[b + 1])
  BY <1>3
<1>9. QED BY <1>2, <1>3, <1>4, <1>6, <1>7, <1>8 DEF Within, rr

\* A line of the block changes the server that is read and what it listens on.
LEMMA NextRead ==
    ASSUME NEW f, IsFile(f), NEW ss, NEW ps, NEW b \in Nat, NEW n \in Nat, Within(f, ss, ps, b, n),
           n + 1 <= Len(f[b + 1]), NEW t, Draft(t, f[b + 1], n + 1),
           NEW rr, rr = [ss EXCEPT ![b + 1] = t],
           NEW qs, PortList(qs), Listens(qs, b + 1) = Heard(f[b + 1], n + 1),
           \A i \in Nat : i # b + 1 => Listens(qs, i) = Listens(ps, i)
    PROVE  Within(f, rr, qs, b, n + 1)
<1>1. IsSequence(ss) /\ Len(ss) = b + 1 /\ ReadTo(f, ss, ps, b) /\ b + 1 \in DOMAIN f
  BY DEF Within, ReadTo
<1>2. DOMAIN ss = 1..b + 1
  BY <1>1, SequenceFacts
<1>3. b + 1 \in DOMAIN ss
  BY <1>2
<1>4. /\ IsSequence(rr) /\ Len(rr) = b + 1 /\ rr[b + 1] = t
      /\ \A i \in 1..b : rr[i] = ss[i]
  <2>1. /\ IsSequence(rr) /\ Len(rr) = Len(ss)
        /\ \A j \in DOMAIN ss : rr[j] = IF j = b + 1 THEN t ELSE ss[j]
    BY <1>1, <1>3, EntryReplaced
  <2>2. \A i \in 1..b : i \in DOMAIN ss /\ i # b + 1
    BY <1>2
  <2>3. QED BY <1>1, <1>3, <2>1, <2>2
<1>5. ReadTo(f, rr, qs, b)
  <2>1. \A i \in 1..b : Read(rr[i], f[i]) /\ Listens(qs, i) = Sockets(f[i])
    BY <1>1, <1>4 DEF ReadTo
  <2>2. \A i \in Nat : i > b + 1 => Listens(qs, i) = {}
    BY <1>1 DEF ReadTo
  <2>3. QED BY <1>1, <1>4, <2>1, <2>2 DEF ReadTo
<1>6. n + 1 \in 0..Len(f[b + 1])
  BY <1>1, FileBlocks
<1>7. QED BY <1>1, <1>4, <1>5, <1>6 DEF Within

\* The core ends a server: one that named no socket gets one, and one without a name an empty one.
LEMMA ServerDone ==
    ASSUME NEW f, IsFile(f), NEW ss, NEW ps, NEW b \in Nat, Within(f, ss, ps, b, Len(f[b + 1])),
           NEW qs, qs = (IF Listens(ps, b + 1) = {} THEN WithListen(ps, 80, Chars("0.0.0.0"), b + 1) ELSE ps),
           NEW names, names = (IF ss[b + 1]["names"] = <<>> THEN <<<<>>>> ELSE ss[b + 1]["names"]),
           NEW rr, rr = [ss EXCEPT ![b + 1] = With(ss[b + 1], "names", names)]
    PROVE  Settled(f, rr, qs, b + 1)
<1>1. /\ IsSequence(ss) /\ Len(ss) = b + 1 /\ ReadTo(f, ss, ps, b) /\ b + 1 \in DOMAIN f
      /\ PortList(ps)
  BY DEF Within, ReadTo
<1>2. DOMAIN ss = 1..b + 1 /\ b + 1 \in DOMAIN ss
  BY <1>1, SequenceFacts
<1>3. IsBlock(f[b + 1]) /\ Len(f[b + 1]) \in Nat /\ b + 1 \in 0..Len(f)
  BY <1>1, FileBlocks
<1>4. /\ IsSequence(rr) /\ Len(rr) = b + 1 /\ rr[b + 1] = With(ss[b + 1], "names", names)
      /\ \A i \in 1..b : rr[i] = ss[i]
  <2>1. PICK t : t = With(ss[b + 1], "names", names)
    OBVIOUS
  <2>2. rr = [ss EXCEPT ![b + 1] = t]
    BY <2>1
  <2>3. /\ IsSequence(rr) /\ Len(rr) = Len(ss)
        /\ \A j \in DOMAIN ss : rr[j] = IF j = b + 1 THEN t ELSE ss[j]
    <3>1. PICK c : c = b + 1
      OBVIOUS
    <3>2. c \in DOMAIN ss /\ IsSequence(ss)
      BY <1>1, <1>2, <3>1
    <3>3. /\ IsSequence([ss EXCEPT ![c] = t]) /\ Len([ss EXCEPT ![c] = t]) = Len(ss)
          /\ \A j \in DOMAIN ss : [ss EXCEPT ![c] = t][j] = IF j = c THEN t ELSE ss[j]
      BY <3>2, EntryReplaced
    <3>4. QED BY <2>2, <3>1, <3>3
  <2>4. \A i \in 1..b : i \in DOMAIN ss /\ i # b + 1
    BY <1>2
  <2>5. QED BY <1>1, <1>2, <2>1, <2>3, <2>4
<1>5. Read(rr[b + 1], f[b + 1])
  BY <1>3, <1>4, ServerRead DEF Within
<1>6. /\ PortList(qs) /\ Listens(qs, b + 1) = Sockets(f[b + 1])
      /\ \A i \in Nat : i # b + 1 => Listens(qs, i) = Listens(ps, i)
  <2>1. Listens(ps, b + 1) = Said(f[b + 1], "listen")
    <3>1. Lines(f[b + 1], Len(f[b + 1]), "listen") = Which(f[b + 1], "listen")
      BY <1>3, LinesAll DEF IsBlock
    <3>2. Heard(f[b + 1], Len(f[b + 1])) = Said(f[b + 1], "listen")
      BY <3>1, Zenon DEF Heard, Said
    <3>3. QED BY <3>2 DEF Within
  <2>2. CASE Listens(ps, b + 1) = {}
    <3>1. qs = WithListen(ps, 80, Chars("0.0.0.0"), b + 1)
      BY <2>2
    <3>2. /\ PortList(qs)
          /\ Listens(qs, b + 1) = Listens(ps, b + 1) \cup {<<80, Chars("0.0.0.0")>>}
          /\ \A other : other # b + 1 => Listens(qs, other) = Listens(ps, other)
      BY <1>1, <3>1, ListenAdds
    <3>3. QED BY <2>1, <2>2, <3>2 DEF Sockets
  <2>3. CASE Listens(ps, b + 1) # {}
    BY <1>1, <2>1, <2>3 DEF Sockets
  <2>4. QED BY <2>2, <2>3
<1>7. ASSUME NEW i \in 1..b + 1 PROVE Read(rr[i], f[i]) /\ Listens(qs, i) = Sockets(f[i])
  <2>1. CASE i = b + 1
    BY <1>5, <1>6, <2>1
  <2>2. CASE i # b + 1
    <3>1. i \in 1..b /\ i \in Nat
      BY <2>2
    <3>2. QED BY <1>1, <1>4, <1>6, <2>2, <3>1 DEF ReadTo
  <2>3. QED BY <2>1, <2>2
<1>8. \A i \in Nat : i > b + 1 => Listens(qs, i) = {}
  BY <1>1, <1>6 DEF ReadTo
<1>9. ReadTo(f, rr, qs, b + 1)
  <2>1. \A i \in Nat : i > (b + 1) + 1 => i > b + 1
    OBVIOUS
  <2>2. \A i \in Nat : i > (b + 1) + 1 => Listens(qs, i) = {}
    BY <1>8, <2>1
  <2>3. QED BY <1>3, <1>4, <1>6, <1>7, <2>2 DEF ReadTo
<1>10. Listens(qs, (b + 1) + 1) = {}
  BY <1>8
<1>11. QED BY <1>4, <1>9, <1>10 DEF Settled

LEMMA AllMerged ==
    ASSUME NEW f, IsFile(f), NEW ss, NEW ps, NEW b \in Nat, Settled(f, ss, ps, b), ~(b + 1 <= Len(f)),
           NEW rr, rr = [i \in 1..Len(ss) |-> Merged(ss[i])]
    PROVE  Merges(f, rr, ps)
<1>1. Len(f) \in Nat /\ b \in 0..Len(f) /\ Len(ss) = b /\ DOMAIN f = 1..Len(f) /\ PortList(ps)
  BY FileBlocks DEF Settled, ReadTo
<1>2. b = Len(f)
  <2>1. PICK k : k = Len(f)
    OBVIOUS
  <2>2. k \in Nat /\ b \in 0..k /\ ~(b + 1 <= k)
    BY <1>1, <2>1
  <2>3. QED BY <2>1, <2>2
<1>3. IsSequence(rr) /\ Len(rr) = b
  <2>1. PICK S : S = {rr[i] : i \in 1..b}
    OBVIOUS
  <2>2. rr = [i \in 1..b |-> rr[i]] /\ rr \in [1..b -> S]
    BY <1>1, <2>1
  <2>3. rr \in Seq(S) /\ Len(rr) = b
    BY <1>1, <2>2
  <2>4. QED BY <2>3, SeqIsSequence
<1>4. \A i \in 1..b : Read(ss[i], f[i]) /\ Listens(ps, i) = Sockets(f[i]) /\ rr[i] = Merged(ss[i])
  BY <1>1 DEF Settled, ReadTo
<1>5. QED BY <1>1, <1>2, <1>3, <1>4 DEF Merges

LEMMA NothingListed ==
    ASSUME NEW f, IsFile(f)
    PROVE  CatalogueTo(<<>>, f, 0)
<1>1. DiscoveredTo(f, 0) = {}
  BY FileBlocks DEF DiscoveredTo, Discovered
<1>2. PICK given : given = [i \in {} |-> 0]
  OBVIOUS
<1>3. DOMAIN given = {} /\ Follows(<<>>, given)
  BY <1>2, FollowsEmpty
<1>4. QED BY <1>1, <1>3, EmptyIsSequence DEF CatalogueTo

LEMMA DiscoveredShape ==
    ASSUME NEW f, IsFile(f), NEW b \in Nat
    PROVE  /\ DiscoveredTo(f, b) \in SUBSET Nat /\ IsFiniteSet(DiscoveredTo(f, b))
           /\ \A i \in DiscoveredTo(f, b) : i < b + 1
           /\ b + 1 \in DOMAIN f =>
                DiscoveredTo(f, b + 1) = IF b + 1 \in Discovered(f) THEN DiscoveredTo(f, b) \cup {b + 1}
                                         ELSE DiscoveredTo(f, b)
<1>1. Len(f) \in Nat /\ Discovered(f) \in SUBSET (1..Len(f))
  BY FileBlocks DEF Discovered
<1>2. DiscoveredTo(f, b) \in SUBSET (1..Len(f))
  BY <1>1 DEF DiscoveredTo
<1>3. IsFiniteSet(DiscoveredTo(f, b))
  <2>1. IsFiniteSet(1..Len(f))
    BY <1>1, FS_Interval
  <2>2. QED BY <1>2, <2>1, FS_Subset
<1>4. \A i \in DiscoveredTo(f, b) : i < b + 1
  BY <1>2 DEF DiscoveredTo
<1>5. \A i \in 1..Len(f) : i <= b + 1 <=> i <= b \/ i = b + 1
  BY <1>1
<1>6. DiscoveredTo(f, b + 1) = IF b + 1 \in Discovered(f) THEN DiscoveredTo(f, b) \cup {b + 1}
                               ELSE DiscoveredTo(f, b)
  BY <1>1, <1>5 DEF DiscoveredTo
<1>7. QED BY <1>1, <1>2, <1>3, <1>4, <1>6

\* A server that is discoverable adds its service behind those before it.
LEMMA OneListed ==
    ASSUME NEW f, IsFile(f), NEW b \in Nat, b + 1 \in DOMAIN f, Merges(f, servers, ports),
           NEW list, CatalogueTo(list, f, b)
    PROVE  CatalogueTo(IF servers[b + 1].discoverable = "on" THEN Append(list, ServiceOf(b + 1))
                       ELSE list, f, b + 1)
<1>1. PICK s : Read(s, f[b + 1]) /\ servers[b + 1] = Merged(s)
  BY DEF Merges
<1>2. IsBlock(f[b + 1]) /\ PortList(ports) /\ Listens(ports, b + 1) = Sockets(f[b + 1])
  BY FileBlocks DEF Merges
<1>3. servers[b + 1].discoverable = "on" <=> b + 1 \in Discovered(f)
  BY <1>1, <1>2, ListedRight
<1>4. CASE b + 1 \notin Discovered(f)
  <2>1. DiscoveredTo(f, b + 1) = DiscoveredTo(f, b)
    BY <1>4, DiscoveredShape
  <2>2. QED BY <1>3, <1>4, <2>1 DEF CatalogueTo
<1>5. CASE b + 1 \in Discovered(f)
  <2>1. PICK sv : sv = ServiceOf(b + 1)
    OBVIOUS
  <2>2. ServiceRight(f[b + 1], sv) /\ SocketFits(f[b + 1], sv) /\ IsService(sv) /\ Worded(sv)
    BY <1>1, <1>2, <2>1, ServiceOfRight
  <2>3. PICK given : /\ DOMAIN given = DiscoveredTo(f, b) /\ Follows(list, given)
                     /\ \A i \in DOMAIN given : ServiceRight(f[i], given[i]) /\ SocketFits(f[i], given[i])
    BY DEF CatalogueTo
  <2>4. IsSequence(list) /\ \A i \in DOMAIN list : IsService(list[i]) /\ Worded(list[i])
    BY DEF CatalogueTo
  <2>5. PICK more : more = [i \in DiscoveredTo(f, b + 1) |-> IF i = b + 1 THEN sv ELSE given[i]]
    OBVIOUS
  <2>6. /\ DOMAIN given \in SUBSET Nat /\ IsFiniteSet(DOMAIN given)
        /\ \A i \in DOMAIN given : i < b + 1
        /\ DiscoveredTo(f, b + 1) = DOMAIN given \cup {b + 1}
    BY <1>5, <2>3, DiscoveredShape
  <2>7. /\ DOMAIN more = DOMAIN given \cup {b + 1} /\ more[b + 1] = sv
        /\ \A i \in DOMAIN given : more[i] = given[i]
    <3>1. \A i \in DOMAIN given : i # b + 1
      BY <2>6
    <3>2. QED BY <2>5, <2>6, <3>1
  <2>8. Follows(Append(list, more[b + 1]), more)
    BY <2>3, <2>4, <2>6, <2>7, FollowsAppend
  <2>9. \A i \in DOMAIN more : ServiceRight(f[i], more[i]) /\ SocketFits(f[i], more[i])
    BY <2>2, <2>3, <2>7
  <2>10. /\ IsSequence(Append(list, sv))
         /\ \A i \in DOMAIN Append(list, sv) : IsService(Append(list, sv)[i]) /\ Worded(Append(list, sv)[i])
    BY <2>2, <2>4, EntryAdded
  <2>11. DOMAIN more = DiscoveredTo(f, b + 1) /\ Follows(Append(list, sv), more)
    BY <2>5, <2>7, <2>8
  <2>12. CatalogueTo(Append(list, sv), f, b + 1)
    BY <2>9, <2>10, <2>11 DEF CatalogueTo
  <2>13. QED BY <1>3, <1>5, <2>1, <2>12
<1>6. QED BY <1>4, <1>5

\* What is still to be loaded, what is loaded, and what has workers.
PlanRight ==
    /\ DOMAIN plan = {"files", "sidecars", "asked", "registered"}
    /\ IsSequence(plan.files)
    /\ \A n \in DOMAIN plan.files : IsFile(plan.files[n])

Nothing == at = <<0, 0>> /\ servers = <<>> /\ ports = <<>> /\ services = <<>>

Reading ==
    /\ IsFile(file) /\ services = <<>>
    /\ \/ \E b \in Nat : at = <<b + 1, 0>> /\ Settled(file, servers, ports, b)
       \/ \E b, n \in Nat : at = <<b + 1, n + 1>> /\ Within(file, servers, ports, b, n)

Building ==
    /\ IsFile(file)
    /\ \E b \in Nat : /\ at = <<b + 1, 0>> /\ b \in 0..Len(file)
                      /\ Merges(file, servers, ports) /\ CatalogueTo(services, file, b)

LoadRight ==
    \/ stage = "idle" /\ Nothing
    \/ stage = "reading" /\ Reading
    \/ stage = "building" /\ Building

CycleRight(cycle) ==
    IsFile(cycle.file) /\ CatalogueTo(cycle.services, cycle.file, Len(cycle.file))

LiveRight == IsSequence(live) /\ \A i \in DOMAIN live : CycleRight(live[i])

CInv == PlanRight /\ LoadRight /\ LiveRight

LEMMA InitCInv == Init => CInv
<1> SUFFICES ASSUME Init PROVE CInv
  OBVIOUS
<1>1. PlanRight
  BY PlanAssumption DEF Init, CatalogInit, PlanRight
<1>2. LoadRight
  BY DEF Init, CatalogInit, LoadRight, Nothing
<1>3. LiveRight
  BY EmptyIsSequence DEF Init, CatalogInit, LiveRight
<1>4. QED BY <1>1, <1>2, <1>3 DEF CInv

\* Where a line is read.
LEMMA LinePlace ==
    ASSUME LoadRight, InServer
    PROVE  \E b, n \in Nat : /\ at = <<b + 1, n + 1>> /\ Within(file, servers, ports, b, n)
                             /\ IsFile(file) /\ services = <<>>
                             /\ b + 1 \in DOMAIN file /\ IsBlock(file[b + 1])
                             /\ Len(file[b + 1]) \in Nat /\ n \in 0..Len(file[b + 1])
                             /\ DOMAIN file[b + 1] = 1..Len(file[b + 1])
<1>1. Reading /\ at[2] > 0
  BY DEF LoadRight, InServer
<1>2. \A b : at = <<b, 0>> => ~(at[2] > 0)
  OBVIOUS
<1>3. PICK b \in Nat, n \in Nat : at = <<b + 1, n + 1>> /\ Within(file, servers, ports, b, n)
  BY <1>1, <1>2 DEF Reading
<1>4. IsFile(file) /\ services = <<>> /\ b + 1 \in DOMAIN file
  BY <1>1, <1>3 DEF Reading, Within
<1>5. IsBlock(file[b + 1]) /\ Len(file[b + 1]) \in Nat /\ DOMAIN file[b + 1] = 1..Len(file[b + 1])
  BY <1>4, FileBlocks
<1>6. n \in 0..Len(file[b + 1])
  BY <1>3 DEF Within
<1>7. QED BY <1>3, <1>4, <1>5, <1>6

\* A line that is read, with the server as it was and as it becomes.
ReadsLine(b, n) ==
    /\ at = <<b + 1, n + 1>> /\ Within(file, servers, ports, b, n)
    /\ IsFile(file) /\ services = <<>> /\ stage = "reading"
    /\ n + 1 <= Len(file[b + 1]) /\ Draft(servers[b + 1], file[b + 1], n)
    /\ IsServer(servers[b + 1])
    /\ Takes(file[b + 1][n + 1][1], file[b + 1][n + 1][2])
    /\ Args = file[b + 1][n + 1][2] /\ Current = servers[b + 1]

LEMMA LineFacts ==
    ASSUME LoadRight, NEW d, Reads(d)
    PROVE  \E b, n \in Nat : ReadsLine(b, n) /\ file[b + 1][n + 1][1] = d
<1>1. InServer /\ at[2] <= Len(file[at[1]]) /\ file[at[1]][at[2]][1] = d /\ stage = "reading"
  BY DEF Reads, InServer
<1>2. PICK b \in Nat, n \in Nat : /\ at = <<b + 1, n + 1>> /\ Within(file, servers, ports, b, n)
                                  /\ IsFile(file) /\ services = <<>>
                                  /\ b + 1 \in DOMAIN file /\ IsBlock(file[b + 1])
                                  /\ Len(file[b + 1]) \in Nat /\ n \in 0..Len(file[b + 1])
                                  /\ DOMAIN file[b + 1] = 1..Len(file[b + 1])
  BY <1>1, LinePlace
<1>3. at[1] = b + 1 /\ at[2] = n + 1
  BY <1>2
<1>4. n + 1 <= Len(file[b + 1]) /\ file[b + 1][n + 1][1] = d
  BY <1>1, <1>3
<1>5. n + 1 \in DOMAIN file[b + 1]
  BY <1>2, <1>4
<1>6. Takes(file[b + 1][n + 1][1], file[b + 1][n + 1][2])
  BY <1>2, <1>5 DEF IsBlock
<1>7. Draft(servers[b + 1], file[b + 1], n) /\ IsServer(servers[b + 1])
  BY <1>2 DEF Within, Draft, SlotsRight
<1>8. Args = file[b + 1][n + 1][2] /\ Current = servers[b + 1]
  BY <1>3 DEF Args, Current
<1>9. QED BY <1>1, <1>2, <1>4, <1>6, <1>7, <1>8 DEF ReadsLine

LEMMA ReadRight ==
    ASSUME NEW b \in Nat, NEW n \in Nat, ReadsLine(b, n), NEW t, Draft(t, file[b + 1], n + 1),
           servers' = [servers EXCEPT ![b + 1] = t],
           PortList(ports'), Listens(ports', b + 1) = Heard(file[b + 1], n + 1),
           \A i \in Nat : i # b + 1 => Listens(ports', i) = Listens(ports, i),
           at' = <<at[1], at[2] + 1>>, UNCHANGED <<file, services, stage>>
    PROVE  LoadRight'
<1>1. Within(file, servers', ports', b, n + 1)
  BY NextRead DEF ReadsLine
<1>2. at' = <<b + 1, (n + 1) + 1>>
  BY DEF ReadsLine
<1>3. IsFile(file) /\ services' = <<>> /\ stage' = "reading" /\ file' = file
  BY DEF ReadsLine
<1>4. \E c, m \in Nat : at' = <<c + 1, m + 1>> /\ Within(file', servers', ports', c, m)
  BY <1>1, <1>2, <1>3
<1>5. QED BY <1>3, <1>4 DEF LoadRight, Reading

LEMMA SetRight ==
    ASSUME NEW b \in Nat, NEW n \in Nat, ReadsLine(b, n), file[b + 1][n + 1][1] # "listen",
           NEW t, Draft(t, file[b + 1], n + 1), NEW u, u = t, Set(u)
    PROVE  LoadRight'
<1>1. /\ servers' = [servers EXCEPT ![b + 1] = t] /\ ports' = ports
      /\ at' = <<at[1], at[2] + 1>> /\ UNCHANGED <<file, services, stage>>
  BY DEF Set, NextLine, Same, ReadsLine
<1>2. PortList(ports) /\ Listens(ports, b + 1) = Heard(file[b + 1], n)
  BY DEF ReadsLine, Within, ReadTo
<1>3. Heard(file[b + 1], n + 1) = Heard(file[b + 1], n)
  BY HeardStep
<1>4. QED BY <1>1, <1>2, <1>3, ReadRight

LEMMA SameServer ==
    ASSUME NEW b \in Nat, NEW n \in Nat, ReadsLine(b, n)
    PROVE  servers = [servers EXCEPT ![b + 1] = servers[b + 1]]
<1>1. IsSequence(servers)
  BY DEF ReadsLine, Within, ReadTo
<1>2. PICK k : servers = [i \in 1..k |-> servers[i]]
  BY <1>1 DEF IsSequence
<1>3. QED BY <1>2

\* One lemma for each kind of line.
LEMMA DiscoverableRight == LoadRight /\ Discoverable => LoadRight'
<1> SUFFICES ASSUME LoadRight, Discoverable PROVE LoadRight'
  OBVIOUS
<1>1. PICK b \in Nat, n \in Nat : /\ ReadsLine(b, n)
                                  /\ file[b + 1][n + 1][1] = "consul_service_discoverable"
  BY LineFacts DEF Discoverable
<1>2. PICK s : s = servers[b + 1]
  OBVIOUS
<1>3. PICK value : value = Args[1]
  OBVIOUS
<1>4. /\ Draft(s, file[b + 1], n) /\ IsServer(s) /\ s["discoverable"] = Unset /\ value \in {"on", "off"}
      /\ value = file[b + 1][n + 1][2][1] /\ Current = s
  BY <1>1, <1>2, <1>3 DEF Discoverable, ReadsLine
<1>5. value # Unset
  BY <1>4, UnsetAssumption
<1>6. "discoverable" \in OnceFields /\ "discoverable" \in ServerFields
  BY DEF OnceFields, ServerFields
<1>7. Draft(With(s, "discoverable", value), file[b + 1], n + 1)
  <2>1. PICK x : x = "discoverable"
    OBVIOUS
  <2>2. file[b + 1][n + 1][1] = SlotOf(x) /\ s[x] = Unset /\ x \in OnceFields
    BY <1>1, <1>4, <1>6, <2>1, SlotNames
  <2>3. QED BY <1>4, <1>5, <2>1, <2>2, OnceRead
<1>8. [Current EXCEPT !.discoverable = Args[1]] = With(s, "discoverable", value)
  BY <1>3, <1>4, <1>6, ExceptIsWith
<1>9. Set([Current EXCEPT !.discoverable = Args[1]])
  BY DEF Discoverable
<1>10. file[b + 1][n + 1][1] # "listen"
  BY <1>1
<1>11. QED BY <1>1, <1>7, <1>8, <1>9, <1>10, SetRight

LEMMA TextDirectiveRight == LoadRight /\ (\E d \in DOMAIN TextSlot : TextDirective(d)) => LoadRight'
<1> SUFFICES ASSUME LoadRight, NEW d \in DOMAIN TextSlot, TextDirective(d) PROVE LoadRight'
  OBVIOUS
<1>1. PICK b \in Nat, n \in Nat : ReadsLine(b, n) /\ file[b + 1][n + 1][1] = d
  BY LineFacts DEF TextDirective
<1>2. PICK s : s = servers[b + 1]
  OBVIOUS
<1>3. PICK value, x : value = Args[1] /\ x = TextSlot[d]
  OBVIOUS
<1>4. /\ Draft(s, file[b + 1], n) /\ IsServer(s) /\ s[x] = Unset
      /\ value = file[b + 1][n + 1][2][1] /\ Current = s
  BY <1>1, <1>2, <1>3 DEF TextDirective, ReadsLine
<1>5. value \in Text /\ value # Unset
  BY <1>1, <1>4, UnsetAssumption DEF ReadsLine, Takes
<1>6. x \in OnceFields /\ x \in ServerFields /\ SlotOf(x) = d /\ x # "discoverable" /\ d # "listen"
  BY <1>3, SlotNames DEF OnceFields, ServerFields, TextSlot
<1>7. Draft(With(s, x, value), file[b + 1], n + 1)
  BY <1>1, <1>4, <1>5, <1>6, OnceRead
<1>8. [Current EXCEPT ![TextSlot[d]] = Args[1]] = With(s, x, value)
  BY <1>3, <1>4, <1>6, ExceptIsWith
<1>9. Set([Current EXCEPT ![TextSlot[d]] = Args[1]])
  BY DEF TextDirective
<1>10. QED BY <1>1, <1>6, <1>7, <1>8, <1>9, SetRight

LEMMA PortOverrideRight == LoadRight /\ PortOverride => LoadRight'
<1> SUFFICES ASSUME LoadRight, PortOverride PROVE LoadRight'
  OBVIOUS
<1>1. PICK b \in Nat, n \in Nat : /\ ReadsLine(b, n)
                                  /\ file[b + 1][n + 1][1] = "consul_service_port_override"
  BY LineFacts DEF PortOverride
<1>2. PICK s : s = servers[b + 1]
  OBVIOUS
<1>3. PICK value : value = Args[1]
  OBVIOUS
<1>4. /\ Draft(s, file[b + 1], n) /\ IsServer(s) /\ s["port"] = Unset
      /\ value = file[b + 1][n + 1][2][1] /\ Current = s
  BY <1>1, <1>2, <1>3 DEF PortOverride, ReadsLine
<1>5. value \in Nat /\ value # Unset
  BY <1>1, <1>4, UnsetAssumption DEF ReadsLine, Takes
<1>6. "port" \in OnceFields /\ "port" \in ServerFields
  BY DEF OnceFields, ServerFields
<1>7. Draft(With(s, "port", value), file[b + 1], n + 1)
  <2>1. PICK x : x = "port"
    OBVIOUS
  <2>2. file[b + 1][n + 1][1] = SlotOf(x) /\ s[x] = Unset /\ x \in OnceFields /\ x # "discoverable"
    BY <1>1, <1>4, <1>6, <2>1, SlotNames
  <2>3. QED BY <1>4, <1>5, <2>1, <2>2, OnceRead
<1>8. [Current EXCEPT !.port = Args[1]] = With(s, "port", value)
  BY <1>3, <1>4, <1>6, ExceptIsWith
<1>9. Set([Current EXCEPT !.port = Args[1]])
  BY DEF PortOverride
<1>10. file[b + 1][n + 1][1] # "listen"
  BY <1>1
<1>11. QED BY <1>1, <1>7, <1>8, <1>9, <1>10, SetRight

LEMMA MetaDirectiveRight == LoadRight /\ MetaDirective => LoadRight'
<1> SUFFICES ASSUME LoadRight, MetaDirective PROVE LoadRight'
  OBVIOUS
<1>1. PICK b \in Nat, n \in Nat : ReadsLine(b, n) /\ file[b + 1][n + 1][1] = "consul_service_meta"
  BY LineFacts DEF MetaDirective
<1>2. PICK s, value : s = servers[b + 1] /\ value = Append(s["meta"], file[b + 1][n + 1][2])
  OBVIOUS
<1>3. /\ Draft(s, file[b + 1], n) /\ IsServer(s) /\ Args = file[b + 1][n + 1][2] /\ Current = s
      /\ file[b + 1][n + 1][2] \in Text \X Text
  BY <1>1, <1>2 DEF ReadsLine, Takes
<1>4. Draft(With(s, "meta", value), file[b + 1], n + 1)
  BY <1>1, <1>2, <1>3, MetaRead
<1>5. "meta" \in ServerFields
  BY DEF ServerFields
<1>6. [s EXCEPT !.meta = value] = With(s, "meta", value)
  BY <1>3, <1>5, ExceptIsWith
<1>7. [Current EXCEPT !.meta = Append(@, Args)] = [s EXCEPT !.meta = value]
  BY <1>2, <1>3
<1>8. Set([Current EXCEPT !.meta = Append(@, Args)])
  BY DEF MetaDirective
<1>9. file[b + 1][n + 1][1] # "listen"
  BY <1>1
<1>10. QED BY <1>1, <1>4, <1>6, <1>7, <1>8, <1>9, SetRight

LEMMA CheckDirectiveRight == LoadRight /\ CheckDirective => LoadRight'
<1> SUFFICES ASSUME LoadRight, CheckDirective PROVE LoadRight'
  OBVIOUS
<1>1. PICK b \in Nat, n \in Nat : ReadsLine(b, n) /\ file[b + 1][n + 1][1] = "consul_service_check"
  BY LineFacts DEF CheckDirective
<1>2. PICK s, value : s = servers[b + 1] /\ value = Append(s["checks"], CheckOf(file[b + 1][n + 1][2]))
  OBVIOUS
<1>3. /\ Draft(s, file[b + 1], n) /\ IsServer(s) /\ Args = file[b + 1][n + 1][2] /\ Current = s
      /\ IsSequence(file[b + 1][n + 1][2])
      /\ \A i \in DOMAIN file[b + 1][n + 1][2] :
           Len(file[b + 1][n + 1][2][i]) = 2 => file[b + 1][n + 1][2][i] \in STRING \X Text
  BY <1>1, <1>2 DEF ReadsLine, Takes
<1>4. \A i \in DOMAIN file[b + 1][n + 1][2] : file[b + 1][n + 1][2][i] \in STRING \X Text
  <2>1. \A i \in 1..Len(file[b + 1][n + 1][2]) : Len(file[b + 1][n + 1][2][i]) = 2
    BY <1>3 DEF CheckDirective, IsCheck
  <2>2. QED BY <1>3, <2>1, SequenceFacts
<1>5. Draft(With(s, "checks", value), file[b + 1], n + 1)
  BY <1>1, <1>2, <1>3, <1>4, CheckRead
<1>6. "checks" \in ServerFields
  BY DEF ServerFields
<1>7. [s EXCEPT !.checks = value] = With(s, "checks", value)
  BY <1>3, <1>6, ExceptIsWith
<1>8. [Current EXCEPT !.checks = Append(@, CheckOf(Args))] = [s EXCEPT !.checks = value]
  BY <1>2, <1>3
<1>9. Set([Current EXCEPT !.checks = Append(@, CheckOf(Args))])
  BY DEF CheckDirective
<1>10. file[b + 1][n + 1][1] # "listen"
  BY <1>1
<1>11. QED BY <1>1, <1>5, <1>7, <1>8, <1>9, <1>10, SetRight

LEMMA ServerNameRight == LoadRight /\ ServerName => LoadRight'
<1> SUFFICES ASSUME LoadRight, ServerName PROVE LoadRight'
  OBVIOUS
<1>1. PICK b \in Nat, n \in Nat : ReadsLine(b, n) /\ file[b + 1][n + 1][1] = "server_name"
  BY LineFacts DEF ServerName
<1>2. PICK s, value : s = servers[b + 1] /\ value = s["names"] \o file[b + 1][n + 1][2]
  OBVIOUS
<1>3. /\ Draft(s, file[b + 1], n) /\ IsServer(s) /\ Args = file[b + 1][n + 1][2] /\ Current = s
      /\ file[b + 1][n + 1][2] \in Seq(Text) /\ file[b + 1][n + 1][2] # <<>>
  BY <1>1, <1>2 DEF ReadsLine, Takes
<1>4. Draft(With(s, "names", value), file[b + 1], n + 1)
  BY <1>1, <1>2, <1>3, NamesRead
<1>5. "names" \in ServerFields
  BY DEF ServerFields
<1>6. [s EXCEPT !.names = value] = With(s, "names", value)
  BY <1>3, <1>5, ExceptIsWith
<1>7. [Current EXCEPT !.names = @ \o Args] = [s EXCEPT !.names = value]
  BY <1>2, <1>3
<1>8. Set([Current EXCEPT !.names = @ \o Args])
  BY DEF ServerName
<1>9. file[b + 1][n + 1][1] # "listen"
  BY <1>1
<1>10. QED BY <1>1, <1>4, <1>6, <1>7, <1>8, <1>9, SetRight

LEMMA DiscoveryRight == LoadRight /\ Discovery => LoadRight'
<1> SUFFICES ASSUME LoadRight, Discovery PROVE LoadRight'
  OBVIOUS
<1>1. PICK b \in Nat, n \in Nat : ReadsLine(b, n) /\ file[b + 1][n + 1][1] = "consul_service_discovery"
  BY LineFacts DEF Discovery
<1>2. PICK s : s = servers[b + 1]
  OBVIOUS
<1>3. Draft(s, file[b + 1], n + 1)
  BY <1>1, <1>2, OtherRead DEF ReadsLine
<1>4. servers' = [servers EXCEPT ![b + 1] = s]
  BY <1>1, <1>2, SameServer DEF Discovery
<1>5. Heard(file[b + 1], n + 1) = Heard(file[b + 1], n)
  BY <1>1, HeardStep
<1>6. /\ PortList(ports') /\ Listens(ports', b + 1) = Heard(file[b + 1], n + 1)
      /\ \A i \in Nat : i # b + 1 => Listens(ports', i) = Listens(ports, i)
  BY <1>1, <1>5 DEF Discovery, ReadsLine, Within, ReadTo
<1>7. at' = <<at[1], at[2] + 1>> /\ UNCHANGED <<file, services, stage>>
  BY DEF Discovery, NextLine, Same
<1>8. QED BY <1>1, <1>3, <1>4, <1>6, <1>7, ReadRight

LEMMA ListenRight == LoadRight /\ Listen => LoadRight'
<1> SUFFICES ASSUME LoadRight, Listen PROVE LoadRight'
  OBVIOUS
<1>1. PICK b \in Nat, n \in Nat : ReadsLine(b, n) /\ file[b + 1][n + 1][1] = "listen"
  BY LineFacts DEF Listen
<1>2. PICK s : s = servers[b + 1]
  OBVIOUS
<1>3. Draft(s, file[b + 1], n + 1)
  BY <1>1, <1>2, OtherRead DEF ReadsLine
<1>4. servers' = [servers EXCEPT ![b + 1] = s]
  BY <1>1, <1>2, SameServer DEF Listen
<1>5. Heard(file[b + 1], n + 1) = Heard(file[b + 1], n) \cup {Args}
  BY <1>1, HeardStep DEF ReadsLine
<1>6. at[1] = b + 1 /\ PortList(ports) /\ Listens(ports, b + 1) = Heard(file[b + 1], n)
  BY <1>1 DEF ReadsLine, Within, ReadTo
<1>7. Args = <<Args[1], Args[2]>>
  BY <1>1 DEF ReadsLine, Takes
<1>8. ports' = WithListen(ports, Args[1], Args[2], b + 1)
  BY <1>6 DEF Listen
<1>9. /\ PortList(ports') /\ Listens(ports', b + 1) = Listens(ports, b + 1) \cup {<<Args[1], Args[2]>>}
      /\ \A other : other # b + 1 => Listens(ports', other) = Listens(ports, other)
  BY <1>6, <1>8, ListenAdds
<1>10. Listens(ports', b + 1) = Heard(file[b + 1], n + 1)
  BY <1>5, <1>6, <1>7, <1>9
<1>11. at' = <<at[1], at[2] + 1>> /\ UNCHANGED <<file, services, stage>>
  BY DEF Listen, NextLine, Same
<1>12. QED BY <1>1, <1>3, <1>4, <1>9, <1>10, <1>11, ReadRight

\* The steps between the lines.
LEMMA LoadStarts == PlanRight /\ LoadRight /\ Load => PlanRight' /\ LoadRight'
<1> SUFFICES ASSUME PlanRight, LoadRight, Load PROVE PlanRight' /\ LoadRight'
  OBVIOUS
<1>1. PICK fs : fs = plan.files
  OBVIOUS
<1>2. IsSequence(fs) /\ fs # <<>> /\ \A n \in DOMAIN fs : IsFile(fs[n])
  BY <1>1 DEF PlanRight, Load
<1>3. /\ IsSequence(Tail(fs)) /\ Len(Tail(fs)) = Len(fs) - 1 /\ Head(fs) = fs[1]
      /\ \A i \in 1..Len(fs) - 1 : Tail(fs)[i] = fs[i + 1]
  BY <1>2, TailFacts
<1>4. Len(fs) \in Nat /\ Len(fs) > 0 /\ DOMAIN fs = 1..Len(fs) /\ DOMAIN Tail(fs) = 1..Len(Tail(fs))
  BY <1>2, <1>3, SequenceFacts
<1>5. IsFile(Head(fs)) /\ \A n \in DOMAIN Tail(fs) : IsFile(Tail(fs)[n])
  <2>1. 1 \in DOMAIN fs /\ \A i \in 1..Len(fs) - 1 : i + 1 \in DOMAIN fs
    BY <1>4
  <2>2. QED BY <1>2, <1>3, <1>4, <2>1
<1>6. plan' = [plan EXCEPT !.files = Tail(fs)]
  BY <1>1 DEF Load
<1>7. PlanRight'
  <2>1. DOMAIN plan' = DOMAIN plan /\ plan'.files = Tail(fs)
    BY <1>6 DEF PlanRight
  <2>2. QED BY <1>3, <1>5, <2>1 DEF PlanRight
<1>8. Nothing /\ file' = Head(fs) /\ stage' = "reading" /\ at' = <<0 + 1, 0>>
      /\ UNCHANGED <<servers, ports, services>>
  BY <1>1 DEF Load, LoadRight
<1>9. Settled(file', servers', ports', 0)
  BY <1>5, <1>8, NothingRead DEF Nothing
<1>10. Reading'
  BY <1>5, <1>8, <1>9 DEF Reading, Nothing
<1>11. QED BY <1>7, <1>8, <1>10 DEF LoadRight

LEMMA ServerBeginsRight == LoadRight /\ ServerBegins => LoadRight'
<1> SUFFICES ASSUME LoadRight, ServerBegins PROVE LoadRight'
  OBVIOUS
<1>1. Reading /\ at[2] = 0 /\ at[1] <= Len(file) /\ IsFile(file) /\ services = <<>>
  BY DEF LoadRight, ServerBegins, Reading
<1>2. \A b, n \in Nat : at = <<b, n + 1>> => at[2] # 0
  OBVIOUS
<1>3. PICK b \in Nat : at = <<b + 1, 0>> /\ Settled(file, servers, ports, b)
  BY <1>1, <1>2 DEF Reading
<1>4. at[1] = b + 1 /\ b + 1 <= Len(file)
  BY <1>1, <1>3
<1>5. Within(file, Append(servers, FreshServer), ports, b, 0)
  BY <1>1, <1>3, <1>4, NextServer
<1>6. /\ servers' = Append(servers, FreshServer) /\ at' = <<b + 1, 0 + 1>>
      /\ UNCHANGED <<stage, file, ports, services>> /\ stage = "reading"
  BY <1>4 DEF ServerBegins
<1>7. \E c, n \in Nat : at' = <<c + 1, n + 1>> /\ Within(file', servers', ports', c, n)
  BY <1>5, <1>6
<1>8. QED BY <1>1, <1>6, <1>7 DEF LoadRight, Reading

LEMMA ServerEndsRight == LoadRight /\ ServerEnds => LoadRight'
<1> SUFFICES ASSUME LoadRight, ServerEnds PROVE LoadRight'
  OBVIOUS
<1>1. PICK b \in Nat, n \in Nat : /\ at = <<b + 1, n + 1>> /\ Within(file, servers, ports, b, n)
                                  /\ IsFile(file) /\ services = <<>>
                                  /\ b + 1 \in DOMAIN file /\ IsBlock(file[b + 1])
                                  /\ Len(file[b + 1]) \in Nat /\ n \in 0..Len(file[b + 1])
                                  /\ DOMAIN file[b + 1] = 1..Len(file[b + 1])
  BY LinePlace DEF ServerEnds
<1>2. at[1] = b + 1 /\ at[2] = n + 1
  BY <1>1
<1>3. n = Len(file[b + 1])
  <2>1. PICK k : k = Len(file[b + 1])
    OBVIOUS
  <2>2. k \in Nat /\ n \in 0..k /\ n + 1 > k
    BY <1>1, <1>2, <2>1 DEF ServerEnds
  <2>3. QED BY <2>1, <2>2
<1>4. PICK s : s = servers[b + 1]
  OBVIOUS
<1>5. PICK names : names = IF s["names"] = <<>> THEN <<<<>>>> ELSE s["names"]
  OBVIOUS
<1>6. IsServer(s) /\ "names" \in ServerFields
  BY <1>1, <1>4 DEF Within, Draft, SlotsRight, ServerFields
<1>7. [s EXCEPT !.names = names] = With(s, "names", names)
  BY <1>6, ExceptIsWith
<1>8. servers' = [servers EXCEPT ![b + 1] = [s EXCEPT !.names = names]]
  BY <1>2, <1>4, <1>5 DEF ServerEnds
<1>9. ports' = IF Listens(ports, b + 1) = {} THEN WithListen(ports, 80, Chars("0.0.0.0"), b + 1) ELSE ports
  BY <1>2 DEF ServerEnds
<1>10. Settled(file, servers', ports', b + 1)
  <2>1. Within(file, servers, ports, b, Len(file[b + 1]))
    BY <1>1, <1>3
  <2>2. servers' = [servers EXCEPT ![b + 1] = With(servers[b + 1], "names", names)]
    BY <1>4, <1>7, <1>8
  <2>3. names = IF servers[b + 1]["names"] = <<>> THEN <<<<>>>> ELSE servers[b + 1]["names"]
    BY <1>4, <1>5
  <2>4. QED BY <1>1, <1>9, <2>1, <2>2, <2>3, ServerDone
<1>11. at' = <<(b + 1) + 1, 0>> /\ UNCHANGED <<stage, file, services>> /\ stage = "reading"
  BY <1>2 DEF ServerEnds, Same, InServer
<1>12. \E c \in Nat : at' = <<c + 1, 0>> /\ Settled(file', servers', ports', c)
  BY <1>10, <1>11
<1>13. QED BY <1>1, <1>11, <1>12 DEF LoadRight, Reading

LEMMA MergeRight == LoadRight /\ Merge => LoadRight'
<1> SUFFICES ASSUME LoadRight, Merge PROVE LoadRight'
  OBVIOUS
<1>1. Reading /\ ~(at[1] <= Len(file)) /\ IsFile(file) /\ services = <<>> /\ Len(file) \in Nat
  <2>1. Reading /\ at[1] > Len(file) /\ IsFile(file) /\ services = <<>>
    BY DEF LoadRight, Merge, Reading
  <2>2. Len(file) \in Nat /\ at[1] \in Nat
    BY <2>1, FileBlocks DEF Reading
  <2>3. QED BY <2>1, <2>2
<1>2. ASSUME NEW b \in Nat, NEW n \in Nat, at = <<b + 1, n + 1>>, Within(file, servers, ports, b, n)
      PROVE  FALSE
  <2>1. b + 1 \in 1..Len(file)
    BY <1>1, <1>2, FileBlocks DEF Within
  <2>2. at[1] = b + 1
    BY <1>2
  <2>3. QED BY <1>1, <2>1, <2>2
<1>3. PICK b \in Nat : at = <<b + 1, 0>> /\ Settled(file, servers, ports, b)
  BY <1>1, <1>2 DEF Reading
<1>4. at[1] = b + 1
  BY <1>3
<1>5. Merges(file, [i \in 1..Len(servers) |-> Merged(servers[i])], ports)
  BY <1>1, <1>3, <1>4, AllMerged
<1>6. /\ servers' = [i \in 1..Len(servers) |-> Merged(servers[i])] /\ at' = <<0 + 1, 0>>
      /\ stage' = "building" /\ UNCHANGED <<file, ports, services>>
  BY DEF Merge
<1>7. CatalogueTo(services', file', 0) /\ Merges(file', servers', ports') /\ 0 \in 0..Len(file')
  BY <1>1, <1>5, <1>6, NothingListed
<1>8. QED BY <1>1, <1>6, <1>7 DEF LoadRight, Building

LEMMA PublishRight == LoadRight /\ Publish => LoadRight'
<1> SUFFICES ASSUME LoadRight, Publish PROVE LoadRight'
  OBVIOUS
<1>1. Building /\ IsFile(file)
  BY DEF LoadRight, Publish, Building
<1>2. PICK b \in Nat : /\ at = <<b + 1, 0>> /\ b \in 0..Len(file)
                       /\ Merges(file, servers, ports) /\ CatalogueTo(services, file, b)
  BY <1>1 DEF Building
<1>3. at[1] = b + 1 /\ Len(servers) = Len(file) /\ Len(file) \in Nat /\ DOMAIN file = 1..Len(file)
  BY <1>1, <1>2, FileBlocks DEF Merges
<1>4. b + 1 <= Len(file)
  BY <1>3 DEF Publish
<1>5. b + 1 \in DOMAIN file /\ b + 1 \in 0..Len(file)
  BY <1>3, <1>4
<1>6. services' = IF servers[b + 1].discoverable = "on" THEN Append(services, ServiceOf(b + 1))
                  ELSE services
  BY <1>3 DEF Publish
<1>7. CatalogueTo(services', file, b + 1)
  BY <1>1, <1>2, <1>5, <1>6, OneListed
<1>8. at' = <<(b + 1) + 1, 0>> /\ stage' = "building" /\ UNCHANGED <<file, servers, ports>>
  BY <1>3 DEF Publish
<1>9. CatalogueTo(services', file', b + 1) /\ Merges(file', servers', ports')
  BY <1>2, <1>7, <1>8
<1>10. Building'
  BY <1>1, <1>5, <1>8, <1>9 DEF Building
<1>11. QED BY <1>8, <1>10 DEF LoadRight

LEMMA StartRight == LoadRight /\ LiveRight /\ Start => LoadRight' /\ LiveRight'
<1> SUFFICES ASSUME LoadRight, LiveRight, Start PROVE LoadRight' /\ LiveRight'
  OBVIOUS
<1>1. Building /\ IsFile(file) /\ at[1] > Len(servers)
  BY DEF LoadRight, Start, Building
<1>2. PICK b \in Nat : /\ at = <<b + 1, 0>> /\ b \in 0..Len(file)
                       /\ Merges(file, servers, ports) /\ CatalogueTo(services, file, b)
  BY <1>1 DEF Building
<1>3. b = Len(file)
  <2>1. PICK k : k = Len(file)
    OBVIOUS
  <2>2. k \in Nat /\ b \in 0..k /\ b + 1 > k
    BY <1>1, <1>2, <2>1, FileBlocks DEF Merges
  <2>3. QED BY <2>1, <2>2
<1>4. PICK cycle : cycle = [file |-> file, services |-> services, handlers |-> handlers]
  OBVIOUS
<1>5. CycleRight(cycle)
  BY <1>1, <1>2, <1>3, <1>4 DEF CycleRight
<1>6. live' = Append(live, cycle)
  BY <1>4 DEF Start
<1>7. LiveRight'
  BY <1>5, <1>6, EntryAdded DEF LiveRight
<1>8. LoadRight'
  BY DEF Start, Blank, LoadRight, Nothing
<1>9. QED BY <1>7, <1>8

LEMMA GivenUp == GiveUp => LoadRight'
BY DEF GiveUp, Blank, LoadRight, Nothing

LEMMA OldGone == LiveRight /\ OldWorkersExit => LiveRight'
<1> SUFFICES ASSUME LiveRight, OldWorkersExit PROVE LiveRight'
  OBVIOUS
<1>1. IsSequence(live) /\ live # <<>> /\ live' = Tail(live) /\ \A i \in DOMAIN live : CycleRight(live[i])
  BY EmptyIsSequence DEF OldWorkersExit, LiveRight
<1>2. /\ IsSequence(Tail(live)) /\ Len(Tail(live)) = Len(live) - 1
      /\ \A i \in 1..Len(live) - 1 : Tail(live)[i] = live[i + 1]
  BY <1>1, TailFacts
<1>3. Len(live) \in Nat /\ DOMAIN live = 1..Len(live) /\ DOMAIN Tail(live) = 1..Len(Tail(live))
  BY <1>1, <1>2, SequenceFacts
<1>4. \A i \in 1..Len(live) - 1 : i + 1 \in DOMAIN live
  BY <1>3
<1>5. \A i \in DOMAIN Tail(live) : CycleRight(Tail(live)[i])
  BY <1>1, <1>2, <1>3, <1>4
<1>6. QED BY <1>1, <1>2, <1>5 DEF LiveRight

LEMMA NextCInv == CInv /\ [Next]_vars => CInv'
<1> SUFFICES ASSUME CInv, [Next]_vars PROVE CInv'
  OBVIOUS
<1>1. PlanRight /\ LoadRight /\ LiveRight
  BY DEF CInv
<1>2. ASSUME UNCHANGED plan PROVE PlanRight'
  BY <1>1, <1>2 DEF PlanRight
<1>3. ASSUME UNCHANGED live PROVE LiveRight'
  BY <1>1, <1>3 DEF LiveRight
<1>4. ASSUME UNCHANGED <<stage, file, at, servers, ports, services>> PROVE LoadRight'
  BY <1>1, <1>4 DEF LoadRight, Nothing, Reading, Building
<1>5. ASSUME UNCHANGED catalogVars PROVE CInv'
  BY <1>2, <1>3, <1>4, <1>5 DEF CInv, catalogVars, draftVars
<1>6. CASE Load
  <2>1. PlanRight' /\ LoadRight'
    BY <1>1, <1>6, LoadStarts
  <2>2. UNCHANGED live
    BY <1>6 DEF Load
  <2>3. QED BY <1>3, <2>1, <2>2 DEF CInv
<1>7. ASSUME Discoverable \/ (\E d \in DOMAIN TextSlot : TextDirective(d)) \/ PortOverride
             \/ MetaDirective \/ CheckDirective \/ ServerName \/ Discovery \/ Listen \/ ServerEnds
      PROVE  CInv'
  <2>1. LoadRight'
    BY <1>1, <1>7, DiscoverableRight, TextDirectiveRight, PortOverrideRight, MetaDirectiveRight,
       CheckDirectiveRight, ServerNameRight, DiscoveryRight, ListenRight, ServerEndsRight
  <2>2. UNCHANGED <<plan, live>>
    BY <1>7 DEF Discoverable, TextDirective, PortOverride, MetaDirective, CheckDirective, ServerName,
                Discovery, Listen, ServerEnds, Set, Same
  <2>3. QED BY <1>2, <1>3, <2>1, <2>2 DEF CInv
<1>8. ASSUME ServerBegins \/ Merge \/ Publish PROVE CInv'
  <2>1. LoadRight'
    BY <1>1, <1>8, ServerBeginsRight, MergeRight, PublishRight
  <2>2. UNCHANGED <<plan, live>>
    BY <1>8 DEF ServerBegins, Merge, Publish
  <2>3. QED BY <1>2, <1>3, <2>1, <2>2 DEF CInv
<1>9. ASSUME Refuse \/ NoMemory PROVE CInv'
  <2>1. GiveUp
    BY <1>9 DEF Refuse, NoMemory
  <2>2. UNCHANGED <<plan, live>>
    BY <2>1 DEF GiveUp
  <2>3. QED BY <1>2, <1>3, <2>1, <2>2, GivenUp DEF CInv
<1>10. CASE Start
  <2>1. LoadRight' /\ LiveRight'
    BY <1>1, <1>10, StartRight
  <2>2. UNCHANGED plan
    BY <1>10 DEF Start
  <2>3. QED BY <1>2, <2>1, <2>2 DEF CInv
<1>11. CASE OldWorkersExit
  <2>1. LiveRight'
    BY <1>1, <1>11, OldGone
  <2>2. UNCHANGED <<plan, stage, file, at, servers, ports, services>>
    BY <1>11 DEF OldWorkersExit, draftVars
  <2>3. QED BY <1>2, <1>4, <2>1, <2>2 DEF CInv
<1>12. ASSUME Request \/ RequestFails PROVE CInv'
  <2>1. UNCHANGED <<plan, live, stage, file, at, servers, ports, services>>
    BY <1>12 DEF Request, RequestFails, draftVars
  <2>2. QED BY <1>2, <1>3, <1>4, <2>1 DEF CInv
<1>13. ASSUME NEW s \in Sidecar,
              RunStep(s) \/ FetchFails(s) \/ ListFails(s) \/ CallFails(s) \/ Killed(s)
       PROVE  CInv'
  <2>1. UNCHANGED <<plan, live, stage, file, at, servers, ports, services>>
    BY <1>13 DEF RunStep, Fetch, ListRegistered, Deregister, Swept, Register, RunEnds,
                 FetchFails, ListFails, CallFails, Killed, vars, catalogVars, draftVars
  <2>2. QED BY <1>2, <1>3, <1>4, <2>1 DEF CInv
<1>14. ASSUME AllQuiet \/ UNCHANGED vars PROVE CInv'
  BY <1>5, <1>14 DEF AllQuiet, vars
<1>15. CASE CatalogNext
  BY <1>6, <1>7, <1>8, <1>9, <1>10, <1>11, <1>12, <1>15 DEF CatalogNext, LoadStep
<1>16. QED BY <1>13, <1>14, <1>15 DEF Next

\* A configuration that is right has the two properties.
LEMMA CycleHasBoth ==
    ASSUME NEW cycle, CycleRight(cycle)
    PROVE  /\ Len(cycle.services) = Cardinality(Discovered(cycle.file))
           /\ \A b \in Discovered(cycle.file) : /\ ServiceRight(cycle.file[b], ServiceFor(cycle, b))
                                                /\ SocketFits(cycle.file[b], ServiceFor(cycle, b))
<1>1. PICK f, list : f = cycle.file /\ list = cycle.services
  OBVIOUS
<1>2. IsFile(f) /\ CatalogueTo(list, f, Len(f))
  BY <1>1 DEF CycleRight
<1>3. DiscoveredTo(f, Len(f)) = Discovered(f)
  <2>1. Discovered(f) \in SUBSET (1..Len(f)) /\ Len(f) \in Nat
    BY <1>2, FileBlocks DEF Discovered
  <2>2. \A i \in 1..Len(f) : i <= Len(f)
    BY <2>1
  <2>3. QED BY <2>1, <2>2 DEF DiscoveredTo
<1>4. PICK given : /\ DOMAIN given = Discovered(f) /\ Follows(list, given)
                   /\ \A i \in DOMAIN given : ServiceRight(f[i], given[i]) /\ SocketFits(f[i], given[i])
  BY <1>2, <1>3 DEF CatalogueTo
<1>5. Len(list) = Cardinality(Discovered(f)) /\ \A i \in Discovered(f) : list[Rank(Discovered(f), i)] = given[i]
  BY <1>4 DEF Follows
<1>6. QED BY <1>1, <1>4, <1>5 DEF ServiceFor

\* CInv holds in every state: the file that is read is followed line by line, and every
\* configuration that has workers lists what its own file says.
LEMMA CInvInvariant == Spec => []CInv
<1>1. Init => CInv
  BY InitCInv
<1>2. CInv /\ [Next]_vars => CInv'
  BY NextCInv
<1>3. QED BY <1>1, <1>2, PTL DEF Spec

\* What a worker serves is what its file says (CatalogueRight), for every file that the
\* command tables let through, every order of loads, refused files and workers that stay.
THEOREM CatalogueIsRight == Spec => []CatalogueRight
<1>1. CInv => CatalogueRight
  <2> SUFFICES ASSUME CInv PROVE CatalogueRight
    OBVIOUS
  <2>1. \A i \in DOMAIN live : CycleRight(live[i])
    BY DEF CInv, LiveRight
  <2>2. QED BY <2>1, CycleHasBoth DEF CatalogueRight, ServiceRight
<1>2. QED BY <1>1, CInvInvariant, PTL

\* Port and address of a service are those of one socket of its own server (SocketRight),
\* however the servers share the ports of the configuration.
THEOREM SocketsAreRight == Spec => []SocketRight
<1>1. CInv => SocketRight
  <2> SUFFICES ASSUME CInv PROVE SocketRight
    OBVIOUS
  <2>1. \A i \in DOMAIN live : CycleRight(live[i])
    BY DEF CInv, LiveRight
  <2>2. QED BY <2>1, CycleHasBoth DEF SocketRight, SocketFits, Sockets
<1>2. QED BY <1>1, CInvInvariant, PTL

-----------------------------------------------------------------------------
(* The script                                                              *)

\* What a process is going to deregister is not in the catalogue it fetched.
Runs(L, T, N) == [step : {"idle", "fetched", "sweeping", "registering"},
                  listed : L, stale : T, next : N]

RunShape == \E L, T, N : run \in [Sidecar -> Runs(L, T, N)]

StaleUnlisted == \A s \in Sidecar : run[s].stale \cap Ids(run[s].listed) = {}

SInv == RunShape /\ StaleUnlisted

\* grep finds an identifier that is listed.
LEMMA StaleFacts == ASSUME NEW listed PROVE Stale(listed) \cap Ids(listed) = {}
<1>1. \A id : Matches(id, id)
  BY DEF Matches
<1>2. QED BY <1>1 DEF Stale, Ids

\* A process goes on with nothing that is listed to deregister.
LEMMA RunChanges ==
    ASSUME NEW s \in Sidecar, StaleUnlisted,
           RunShape', \A t \in Sidecar \ {s} : run'[t] = run[t],
           run'[s].stale \cap Ids(run'[s].listed) = {}
    PROVE  SInv'
<1>1. \A t \in Sidecar : run'[t].stale \cap Ids(run'[t].listed) = {}
  BY DEF StaleUnlisted
<1>2. QED BY <1>1 DEF SInv, StaleUnlisted

LEMMA IdleShape == Idle \in Runs({<<>>}, {{}}, {0})
BY DEF Idle, Runs

LEMMA FieldChanges ==
    ASSUME NEW value \in Runs({<<>>}, {{}}, {0}), NEW step, NEW list
    PROVE  /\ [value EXCEPT !.step = step] = [step |-> step, listed |-> value.listed,
                                              stale |-> value.stale, next |-> value.next]
           /\ [value EXCEPT !.listed = list] = [step |-> value.step, listed |-> list,
                                                stale |-> value.stale, next |-> value.next]
BY DEF Runs

LEMMA IdleFetches ==
    ASSUME NEW list
    PROVE  [Idle EXCEPT !.step = "fetched", !.listed = list]
             = [step |-> "fetched", listed |-> list, stale |-> {}, next |-> 0]
<1> DEFINE fetched == [step |-> "fetched", listed |-> <<>>, stale |-> {}, next |-> 0]
<1>1. fetched = [Idle EXCEPT !.step = "fetched"]
  BY IdleShape, FieldChanges DEF Idle
<1>2. fetched \in Runs({<<>>}, {{}}, {0})
  BY DEF Runs
<1>3. [fetched EXCEPT !.listed = list]
        = [step |-> "fetched", listed |-> list, stale |-> {}, next |-> 0]
  BY <1>2, FieldChanges
<1>. HIDE DEF fetched
<1>4. QED BY <1>1, <1>3

LEMMA InitSInv == Init => SInv
<1> SUFFICES ASSUME Init PROVE SInv
  OBVIOUS
<1>1. run = [s \in Sidecar |-> Idle]
  BY DEF Init
<1>2. run \in [Sidecar -> Runs({<<>>}, {{}}, {0})]
  BY <1>1, IdleShape
<1>3. \A s \in Sidecar : run[s].stale = {}
  BY <1>1 DEF Idle
<1>4. QED BY <1>2, <1>3 DEF SInv, RunShape, StaleUnlisted

LEMMA NextSInv == SInv /\ [Next]_vars => SInv'
<1> SUFFICES ASSUME SInv, [Next]_vars PROVE SInv'
  OBVIOUS
<1>1. RunShape /\ StaleUnlisted
  BY DEF SInv
<1>2. CASE UNCHANGED run
  BY <1>2 DEF SInv, RunShape, StaleUnlisted
<1>3. ASSUME NEW s \in Sidecar,
             RunStep(s) \/ FetchFails(s) \/ ListFails(s) \/ CallFails(s) \/ Killed(s)
      PROVE  SInv'
  <2>1. PICK L, T, N : run \in [Sidecar -> Runs(L, T, N)]
    BY <1>1 DEF RunShape
  <2>2. run[s].stale \cap Ids(run[s].listed) = {}
    BY <1>1 DEF StaleUnlisted
  <2>3. ASSUME NEW list, NEW value \in Runs({list}, {{}}, {0}), run' = [run EXCEPT ![s] = value]
        PROVE  SInv'
    <3>1. run' \in [Sidecar -> Runs(L \cup {list}, T \cup {{}}, N \cup {0})]
      BY <2>1, <2>3 DEF Runs
    <3>2. (\A t \in Sidecar \ {s} : run'[t] = run[t]) /\ run'[s].stale = {}
      BY <2>1, <2>3 DEF Runs
    <3>3. QED BY <1>1, <3>1, <3>2, RunChanges DEF RunShape
  <2>4. CASE Fetch(s)
    <3>1. PICK i : run' = [run EXCEPT ![s] = [Idle EXCEPT !.step = "fetched",
                                                          !.listed = live[i].services]]
      BY <2>4 DEF Fetch
    <3> DEFINE value == [step |-> "fetched", listed |-> live[i].services, stale |-> {}, next |-> 0]
    <3>2. value \in Runs({live[i].services}, {{}}, {0})
      BY DEF Runs
    <3>3. value = [Idle EXCEPT !.step = "fetched", !.listed = live[i].services]
      BY IdleShape, IdleFetches
    <3>4. QED BY <2>3, <3>1, <3>2, <3>3
  <2>5. CASE ListRegistered(s)
    <3>1. run' \in [Sidecar -> Runs(L, T \cup {Stale(run[s].listed)}, N)]
      BY <2>1, <2>5 DEF ListRegistered, Runs
    <3>2. /\ \A t \in Sidecar \ {s} : run'[t] = run[t]
          /\ run'[s].stale = Stale(run[s].listed) /\ run'[s].listed = run[s].listed
      BY <2>1, <2>5 DEF ListRegistered, Runs
    <3>3. QED BY <1>1, <3>1, <3>2, StaleFacts, RunChanges DEF RunShape
  <2>6. CASE ListFails(s)
    <3>1. /\ run' \in [Sidecar -> Runs(L, T, N)]
          /\ \A t \in Sidecar \ {s} : run'[t] = run[t]
          /\ run'[s].stale = run[s].stale /\ run'[s].listed = run[s].listed
      BY <2>1, <2>6 DEF ListFails, Runs
    <3>2. QED BY <1>1, <2>2, <3>1, RunChanges DEF RunShape
  <2>7. ASSUME NEW id, run' = [run EXCEPT ![s].stale = @ \ {id}] PROVE SInv'
    <3>1. run' \in [Sidecar -> Runs(L, T \cup {run[s].stale \ {id}}, N)]
      BY <2>1, <2>7 DEF Runs
    <3>2. /\ \A t \in Sidecar \ {s} : run'[t] = run[t]
          /\ run'[s].stale = run[s].stale \ {id} /\ run'[s].listed = run[s].listed
      BY <2>1, <2>7 DEF Runs
    <3>3. (run[s].stale \ {id}) \cap Ids(run[s].listed) = {}
      BY <2>2
    <3>4. QED BY <1>1, <3>1, <3>2, <3>3, RunChanges DEF RunShape
  <2>8. CASE Swept(s)
    <3>1. /\ run' \in [Sidecar -> Runs(L, T, N \cup {1})]
          /\ \A t \in Sidecar \ {s} : run'[t] = run[t]
          /\ run'[s].stale = run[s].stale /\ run'[s].listed = run[s].listed
      BY <2>1, <2>8 DEF Swept, Runs
    <3>2. QED BY <1>1, <2>2, <3>1, RunChanges DEF RunShape
  <2>9. CASE run' = [run EXCEPT ![s].next = @ + 1]
    <3>1. /\ run' \in [Sidecar -> Runs(L, T, N \cup {run[s].next + 1})]
          /\ \A t \in Sidecar \ {s} : run'[t] = run[t]
          /\ run'[s].stale = run[s].stale /\ run'[s].listed = run[s].listed
      BY <2>1, <2>9 DEF Runs
    <3>2. QED BY <1>1, <2>2, <3>1, RunChanges DEF RunShape
  <2>10. CASE run' = [run EXCEPT ![s] = Idle]
    BY <2>3, <2>10, IdleShape
  <2>11. CASE FetchFails(s)
    BY <1>2, <2>11 DEF FetchFails, vars
  <2>12. CASE Deregister(s) \/ Register(s) \/ RunEnds(s) \/ CallFails(s) \/ Killed(s)
    BY <2>7, <2>9, <2>10, <2>12 DEF Deregister, Register, RunEnds, CallFails, Killed
  <2>13. QED BY <1>3, <2>4, <2>5, <2>6, <2>8, <2>11, <2>12 DEF RunStep
<1>4. QED BY <1>2, <1>3 DEF Next, AllQuiet, vars

\* register-services.sh, beside reloads and other processes of its own: as long as all of them
\* work with the catalogue that is served, none takes a service of it from the agent, be a
\* call refused or a process killed at any moment.
THEOREM ListedSafe == Spec => ListedStays
<1> DEFINE Step ==
      live # <<>> /\ Len(live) = 1
       /\ (\A s \in Sidecar : run[s].step # "idle" => run[s].listed = Newest)
       => Ids(Newest) \cap DOMAIN registry \subseteq DOMAIN registry'
<1>1. SInv /\ [Next]_vars => [Step]_vars
  <2> SUFFICES ASSUME SInv, Next, \A s \in Sidecar : run[s].step # "idle" => run[s].listed = Newest
               PROVE  Ids(Newest) \cap DOMAIN registry \subseteq DOMAIN registry'
    OBVIOUS
  <2>1. CASE UNCHANGED registry
    BY <2>1
  <2>2. ASSUME NEW s \in Sidecar, Deregister(s)
        PROVE  Ids(Newest) \cap DOMAIN registry \subseteq DOMAIN registry'
    <3>1. PICK id \in run[s].stale : registry' = [i \in DOMAIN registry \ {id} |-> registry[i]]
      BY <2>2 DEF Deregister
    <3>2. run[s].listed = Newest
      BY <2>2 DEF Deregister
    <3>3. id \notin Ids(Newest)
      BY <3>1, <3>2 DEF SInv, StaleUnlisted
    <3>4. QED BY <3>1, <3>3
  <2>3. ASSUME NEW s \in Sidecar, Register(s)
        PROVE  DOMAIN registry \subseteq DOMAIN registry'
    BY <2>3 DEF Register
  <2>4. QED BY <2>1, <2>2, <2>3
            DEF Next, RunStep, Fetch, FetchFails, ListRegistered, ListFails, Swept, CallFails,
                RunEnds, Killed, AllQuiet, vars
<1>2. QED BY <1>1, InitSInv, NextSInv, PTL DEF Spec, ListedStays

-----------------------------------------------------------------------------
(* Types                                                                   *)

\* What a process has is a catalogue that was served, and it is within it.
ServicesTyped(list) == IsSequence(list) /\ \A i \in DOMAIN list : IsService(list[i])

Placed(step, list, next) ==
    next \in 0..Len(list) + 1 /\ (step = "registering" => next >= 1)

RunTyped ==
    \A s \in Sidecar : /\ ServicesTyped(run[s].listed)
                       /\ Placed(run[s].step, run[s].listed, run[s].next)

RegistryTyped == \A id \in DOMAIN registry : registry[id].id = id /\ IsService(registry[id])

FaultsTyped == faults \in 0..MaxFaults

TInv == RunTyped /\ RegistryTyped /\ FaultsTyped

LEMMA InitTInv == Init => TInv
<1> SUFFICES ASSUME Init PROVE TInv
  OBVIOUS
<1>1. run = [s \in Sidecar |-> Idle] /\ registry = plan.registered /\ plan \in Plan /\ faults = 0
  BY DEF Init, CatalogInit
<1>2. Idle.listed = <<>> /\ Idle.next = 0 /\ Idle.step = "idle"
  BY DEF Idle
<1>3. ServicesTyped(<<>>) /\ Placed("idle", <<>>, 0)
  BY EmptyIsSequence DEF ServicesTyped, Placed
<1>4. RunTyped
  BY <1>1, <1>2, <1>3 DEF RunTyped
<1>5. QED BY <1>1, <1>4, RegisteredAssumption, FaultsAssumption DEF TInv, RegistryTyped, FaultsTyped

\* A step of one process.
LEMMA RunTypedChanges ==
    ASSUME NEW s \in Sidecar, RunTyped, \A t \in Sidecar \ {s} : run'[t] = run[t],
           ServicesTyped(run'[s].listed), Placed(run'[s].step, run'[s].listed, run'[s].next)
    PROVE  RunTyped'
BY DEF RunTyped

\* The fields of a process that change.
LEMMA RunFields ==
    ASSUME NEW s \in Sidecar, RunShape, NEW step, NEW stale, NEW next
    PROVE  /\ run' = [run EXCEPT ![s].step = step, ![s].stale = stale] =>
                /\ \A t \in Sidecar \ {s} : run'[t] = run[t]
                /\ run'[s].listed = run[s].listed /\ run'[s].step = step /\ run'[s].next = run[s].next
           /\ run' = [run EXCEPT ![s].step = step] =>
                /\ \A t \in Sidecar \ {s} : run'[t] = run[t]
                /\ run'[s].listed = run[s].listed /\ run'[s].step = step /\ run'[s].next = run[s].next
           /\ run' = [run EXCEPT ![s].stale = stale] =>
                /\ \A t \in Sidecar \ {s} : run'[t] = run[t]
                /\ run'[s].listed = run[s].listed /\ run'[s].step = run[s].step
                /\ run'[s].next = run[s].next
           /\ run' = [run EXCEPT ![s].step = step, ![s].next = next] =>
                /\ \A t \in Sidecar \ {s} : run'[t] = run[t]
                /\ run'[s].listed = run[s].listed /\ run'[s].step = step /\ run'[s].next = next
           /\ run' = [run EXCEPT ![s].next = next] =>
                /\ \A t \in Sidecar \ {s} : run'[t] = run[t]
                /\ run'[s].listed = run[s].listed /\ run'[s].step = run[s].step /\ run'[s].next = next
<1>1. PICK L, T, N : run \in [Sidecar -> Runs(L, T, N)]
  BY DEF RunShape
<1>2. run[s] \in Runs(L, T, N)
  BY <1>1
<1>3. QED BY <1>1, <1>2 DEF Runs

LEMMA PlacedSteps ==
    ASSUME NEW list, ServicesTyped(list), NEW step, NEW next, Placed(step, list, next)
    PROVE  /\ \A other : other # "registering" => Placed(other, list, next)
           /\ Placed("registering", list, 1) /\ Placed("idle", list, 0)
           /\ next <= Len(list) => Placed(step, list, next + 1)
           /\ next <= Len(list) /\ step = "registering" => next \in DOMAIN list
<1>1. Len(list) \in Nat /\ DOMAIN list = 1..Len(list)
  BY SequenceFacts DEF ServicesTyped
<1>2. PICK k : k = Len(list)
  OBVIOUS
<1>3. k \in Nat /\ next \in 0..k + 1 /\ (step = "registering" => next >= 1)
  BY <1>1, <1>2 DEF Placed
<1>4. /\ 1 \in 0..k + 1 /\ 0 \in 0..k + 1
      /\ next <= k => next + 1 \in 0..k + 1 /\ next + 1 >= 1
      /\ next <= k /\ step = "registering" => next \in 1..k
  BY <1>3
<1>5. QED BY <1>1, <1>2, <1>3, <1>4 DEF Placed

LEMMA NextTInv == TInv /\ CInv /\ SInv /\ [Next]_vars => TInv'
<1> SUFFICES ASSUME TInv, CInv, SInv, [Next]_vars PROVE TInv'
  OBVIOUS
<1>1. RunTyped /\ RegistryTyped /\ FaultsTyped /\ RunShape
  BY DEF TInv, SInv
<1>2. ASSUME faults' = faults \/ (faults < MaxFaults /\ faults' = faults + 1) PROVE FaultsTyped'
  BY <1>1, <1>2, FaultsAssumption DEF FaultsTyped
<1>3. ASSUME UNCHANGED <<registry, run>>, FaultsTyped' PROVE TInv'
  BY <1>1, <1>3 DEF TInv, RunTyped, RegistryTyped
<1>4. CASE UNCHANGED vars
  BY <1>2, <1>3, <1>4 DEF vars, catalogVars
<1>5. CASE CatalogNext /\ UNCHANGED <<registry, run>>
  <2>1. faults' = faults \/ (faults < MaxFaults /\ faults' = faults + 1)
    BY <1>5 DEF CatalogNext, LoadStep, Load, ServerBegins, Discoverable, TextDirective, PortOverride,
                MetaDirective, CheckDirective, Discovery, ServerName, Listen, ServerEnds, Refuse,
                Merge, Publish, Start, NoMemory, OldWorkersExit, Request, RequestFails, Set, Same
  <2>2. QED BY <1>2, <1>3, <1>5, <2>1
<1>6. ASSUME NEW s \in Sidecar,
             RunStep(s) \/ FetchFails(s) \/ ListFails(s) \/ CallFails(s) \/ Killed(s)
      PROVE  TInv'
  <2> DEFINE list == run[s].listed
             step == run[s].step
             next == run[s].next
  <2>1. ServicesTyped(list) /\ Placed(step, list, next)
    BY <1>1 DEF RunTyped
  <2>2. /\ \A other : other # "registering" => Placed(other, list, next)
        /\ Placed("registering", list, 1)
        /\ next <= Len(list) => Placed(step, list, next + 1)
        /\ next <= Len(list) /\ step = "registering" => next \in DOMAIN list
    <3>. HIDE DEF list, step, next
    <3>1. QED BY <2>1, PlacedSteps
  <2>3. ASSUME run' = [run EXCEPT ![s] = Idle] PROVE RunTyped'
    <3>1. (\A t \in Sidecar \ {s} : run'[t] = run[t]) /\ run'[s] = Idle
      BY <1>1, <2>3 DEF RunShape
    <3>2. ServicesTyped(<<>>) /\ Placed("idle", <<>>, 0)
      BY EmptyIsSequence DEF ServicesTyped, Placed
    <3>3. QED BY <1>1, <3>1, <3>2, RunTypedChanges DEF Idle
  <2>4. ASSUME NEW id, run' = [run EXCEPT ![s].stale = @ \ {id}], step = "sweeping" PROVE RunTyped'
    <3>1. /\ \A t \in Sidecar \ {s} : run'[t] = run[t]
          /\ run'[s].listed = list /\ run'[s].step = step /\ run'[s].next = next
      BY <1>1, <2>4, RunFields
    <3>2. QED BY <1>1, <2>1, <3>1, RunTypedChanges
  <2>5. ASSUME run' = [run EXCEPT ![s].next = @ + 1], More(s) PROVE RunTyped'
    <3>1. /\ \A t \in Sidecar \ {s} : run'[t] = run[t]
          /\ run'[s].listed = list /\ run'[s].step = step /\ run'[s].next = next + 1
      BY <1>1, <2>5, RunFields
    <3>2. Placed(step, list, next + 1)
      BY <2>2, <2>5 DEF More
    <3>3. QED BY <1>1, <2>1, <3>1, <3>2, RunTypedChanges
  <2>6. CASE Fetch(s)
    <3>1. PICK i \in 1..Len(live) : run' = [run EXCEPT ![s] = [Idle EXCEPT !.step = "fetched",
                                                                      !.listed = live[i].services]]
      BY <2>6 DEF Fetch
    <3>2. PICK services_ : services_ = live[i].services
      OBVIOUS
    <3>3. ServicesTyped(services_)
      <4>1. i \in DOMAIN live
        BY SequenceFacts DEF CInv, LiveRight
      <4>2. QED BY <3>2, <4>1 DEF CInv, LiveRight, CycleRight, CatalogueTo, ServicesTyped
    <3>4. [Idle EXCEPT !.step = "fetched", !.listed = services_]
            = [step |-> "fetched", listed |-> services_, stale |-> {}, next |-> 0]
      BY IdleFetches
    <3>5. /\ \A t \in Sidecar \ {s} : run'[t] = run[t]
          /\ run'[s].listed = services_ /\ run'[s].step = "fetched" /\ run'[s].next = 0
      BY <1>1, <3>1, <3>2, <3>4 DEF RunShape
    <3>6. Placed("fetched", services_, 0)
      BY <3>3, SequenceFacts DEF Placed, ServicesTyped
    <3>7. RunTyped'
      BY <1>1, <3>3, <3>5, <3>6, RunTypedChanges
    <3>8. UNCHANGED <<registry, faults>>
      BY <2>6 DEF Fetch, catalogVars
    <3>9. QED BY <1>1, <1>2, <3>7, <3>8 DEF TInv, RegistryTyped
  <2>7. CASE ListRegistered(s)
    <3>1. /\ \A t \in Sidecar \ {s} : run'[t] = run[t]
          /\ run'[s].listed = list /\ run'[s].step = "sweeping" /\ run'[s].next = next
      <4>1. PICK stale : stale = Stale(run[s].listed)
        OBVIOUS
      <4>2. run' = [run EXCEPT ![s].step = "sweeping", ![s].stale = stale]
        BY <2>7, <4>1 DEF ListRegistered
      <4>3. QED BY <1>1, <4>2, RunFields
    <3>2. Placed("sweeping", list, next)
      BY <2>2
    <3>3. RunTyped'
      BY <1>1, <2>1, <3>1, <3>2, RunTypedChanges
    <3>4. UNCHANGED <<registry, faults>>
      BY <2>7 DEF ListRegistered, catalogVars
    <3>5. QED BY <1>1, <1>2, <3>3, <3>4 DEF TInv, RegistryTyped
  <2>8. CASE ListFails(s)
    <3>1. /\ \A t \in Sidecar \ {s} : run'[t] = run[t]
          /\ run'[s].listed = list /\ run'[s].step = "sweeping" /\ run'[s].next = next
      BY <1>1, <2>8, RunFields DEF ListFails
    <3>2. Placed("sweeping", list, next)
      BY <2>2
    <3>3. RunTyped'
      BY <1>1, <2>1, <3>1, <3>2, RunTypedChanges
    <3>4. UNCHANGED registry /\ FaultsTyped'
      BY <1>2, <2>8 DEF ListFails
    <3>5. QED BY <1>1, <3>3, <3>4 DEF TInv, RegistryTyped
  <2>9. CASE Deregister(s)
    <3>1. PICK id : /\ run' = [run EXCEPT ![s].stale = @ \ {id}]
                    /\ registry' = [i \in DOMAIN registry \ {id} |-> registry[i]]
      BY <2>9 DEF Deregister
    <3>2. step = "sweeping" /\ UNCHANGED faults
      BY <2>9 DEF Deregister, catalogVars
    <3>3. RegistryTyped'
      BY <1>1, <3>1 DEF RegistryTyped
    <3>4. QED BY <1>2, <2>4, <3>1, <3>2, <3>3 DEF TInv
  <2>10. CASE Swept(s)
    <3>1. /\ \A t \in Sidecar \ {s} : run'[t] = run[t]
          /\ run'[s].listed = list /\ run'[s].step = "registering" /\ run'[s].next = 1
      BY <1>1, <2>10, RunFields DEF Swept
    <3>2. RunTyped'
      BY <1>1, <2>1, <2>2, <3>1, RunTypedChanges
    <3>3. UNCHANGED <<registry, faults>>
      BY <2>10 DEF Swept, catalogVars
    <3>4. QED BY <1>1, <1>2, <3>2, <3>3 DEF TInv, RegistryTyped
  <2>11. CASE Register(s)
    <3>1. PICK sv : sv = list[next]
      OBVIOUS
    <3>2. next \in DOMAIN list /\ More(s)
      BY <2>2, <2>11 DEF Register, More
    <3>3. IsService(sv)
      BY <2>1, <3>1, <3>2 DEF ServicesTyped
    <3>4. registry' = [i \in DOMAIN registry \cup {sv.id} |-> IF i = sv.id THEN sv ELSE registry[i]]
      BY <2>11, <3>1 DEF Register
    <3>5. RegistryTyped'
      BY <1>1, <3>3, <3>4 DEF RegistryTyped
    <3>6. run' = [run EXCEPT ![s].next = @ + 1] /\ UNCHANGED faults
      BY <2>11 DEF Register, catalogVars
    <3>7. QED BY <1>2, <2>5, <3>2, <3>5, <3>6 DEF TInv
  <2>12. CASE CallFails(s)
    <3>1. RunTyped'
      BY <2>4, <2>5, <2>12 DEF CallFails
    <3>2. UNCHANGED registry /\ FaultsTyped'
      BY <1>2, <2>12 DEF CallFails
    <3>3. QED BY <1>1, <3>1, <3>2 DEF TInv, RegistryTyped
  <2>13. CASE RunEnds(s) \/ Killed(s)
    <3>1. RunTyped'
      BY <2>3, <2>13 DEF RunEnds, Killed
    <3>2. UNCHANGED registry /\ FaultsTyped'
      BY <1>2, <2>13 DEF RunEnds, Killed, catalogVars
    <3>3. QED BY <1>1, <3>1, <3>2 DEF TInv, RegistryTyped
  <2>14. CASE FetchFails(s)
    BY <1>4, <2>14 DEF FetchFails
  <2>. HIDE DEF list, step, next
  <2>15. QED BY <1>6, <2>6, <2>7, <2>8, <2>9, <2>10, <2>11, <2>12, <2>13, <2>14 DEF RunStep
<1>7. QED BY <1>4, <1>5, <1>6 DEF Next, AllQuiet

\* When the catalogue is built every server has its defaults.
LEMMA DefaultsSet ==
    ASSUME NEW block, IsBlock(block), NEW s, Read(s, block), NEW m, m = Merged(s)
    PROVE  m.discoverable \in {"on", "off"} /\ Unset \notin {m.name, m.id, m.tags, m.address}
<1>1. /\ m["discoverable"] = (IF s["discoverable"] = Unset THEN "off" ELSE s["discoverable"])
      /\ m["name"] = (IF s["name"] = Unset THEN <<>> ELSE s["name"])
      /\ m["id"] = (IF s["id"] = Unset THEN <<>> ELSE s["id"])
      /\ m["tags"] = (IF s["tags"] = Unset THEN Chars("nginx") ELSE s["tags"])
      /\ m["address"] = (IF s["address"] = Unset THEN <<>> ELSE s["address"])
      /\ s["discoverable"] \in {Unset, "on", "off"}
  BY MergedIs DEF Read, SlotsRight
<1>2. <<>> \in Text /\ Chars("nginx") \in Text
  BY LiteralAssumption, EmptySeq DEF Text
<1>3. QED BY <1>1, <1>2, UnsetAssumption

\* Types of the configuration, the agent and the script (TypeOK), with a bound on nothing.
THEOREM ConsulTypes == Spec => []TypeOK
<1>1. TInv /\ CInv /\ SInv => TypeOK
  <2> SUFFICES ASSUME TInv, CInv, SInv PROVE TypeOK
    OBVIOUS
  <2>1. LoadRight /\ LiveRight
    BY DEF CInv
  <2>2. stage \in {"idle", "reading", "building"} /\ at \in Nat \X Nat
    BY <2>1 DEF LoadRight, Nothing, Reading, Building
  <2>3. ASSUME stage = "building", NEW i \in DOMAIN servers
        PROVE  /\ servers[i].discoverable \in {"on", "off"}
               /\ Unset \notin {servers[i].name, servers[i].id, servers[i].tags, servers[i].address}
    <3>1. Building
      BY <2>1, <2>3 DEF LoadRight
    <3>2. Merges(file, servers, ports) /\ IsFile(file)
      BY <3>1 DEF Building
    <3>3. i \in DOMAIN file /\ IsBlock(file[i])
      <4>1. DOMAIN servers = 1..Len(servers) /\ DOMAIN file = 1..Len(file) /\ Len(servers) = Len(file)
        BY <3>2, SequenceFacts, FileBlocks DEF Merges
      <4>2. QED BY <2>3, <3>2, <4>1, FileBlocks
    <3>4. PICK s : Read(s, file[i]) /\ servers[i] = Merged(s)
      BY <3>2, <3>3 DEF Merges
    <3>5. QED BY <3>3, <3>4, DefaultsSet
  <2>4. \A i \in DOMAIN live : \A sv \in Range(live[i].services) : IsService(sv)
    BY <2>1 DEF LiveRight, CycleRight, CatalogueTo, Range
  <2>5. faults \in 0..MaxFaults /\ \A id \in DOMAIN registry : registry[id].id = id /\ IsService(registry[id])
    BY DEF TInv, FaultsTyped, RegistryTyped
  <2>6. ASSUME NEW s \in Sidecar
        PROVE  /\ run[s].step \in {"idle", "fetched", "sweeping", "registering"}
               /\ \A sv \in Range(run[s].listed) : IsService(sv)
               /\ run[s].next \in 0..Len(run[s].listed) + 1
    <3>1. run[s].step \in {"idle", "fetched", "sweeping", "registering"}
      BY DEF SInv, RunShape, Runs
    <3>2. QED BY <3>1 DEF TInv, RunTyped, ServicesTyped, Placed, Range
  <2>7. QED BY <2>2, <2>3, <2>4, <2>5, <2>6 DEF TypeOK
<1>2. Init => TInv /\ CInv /\ SInv
  BY InitTInv, InitCInv, InitSInv
<1>3. TInv /\ CInv /\ SInv /\ [Next]_vars => (TInv /\ CInv /\ SInv)'
  BY NextTInv, NextCInv, NextSInv
<1>4. QED BY <1>1, <1>2, <1>3, PTL DEF Spec

=============================================================================
