------------------------------- MODULE MCDns -------------------------------
(* DNS sessions with names of up to 5 characters, two records of a section and *)
(* two jumps: well-formed messages of every type, arbitrary octets behind a    *)
(* header, and configurations.                                                 *)
EXTENDS DnsReport

CONSTANT Fuzz

-----------------------------------------------------------------------------
(* RFC 1035: how a message is written                                      *)

Two(n)          == <<n \div 256, n % 256>>
Wire(labels)    == FoldLeft(LAMBDA w, l : w \o <<Len(l)>> \o l, <<>>, labels) \o <<0>>
Preface(id, rcode, counts) == Two(id) \o Two(256 + rcode) \o FlattenSeq([i \in 1..4 |-> Two(counts[i])])
Back(type, data) == Two(type) \o <<0, 1>> \o <<0, 0, 1, 44>> \o Two(Len(data)) \o data

\* The data of an answer, from the parts that the parser is to find.
Data(a) ==
    CASE a.ip # <<>> -> a.ip
      [] a.type \in {NS, CNAME, PTR} -> Wire(<<a.rdata[1]>>)
      [] a.type = MX -> a.rdata[1] \o Wire(<<a.rdata[2]>>)
      [] a.type = SOA -> Wire(<<a.rdata[1]>>) \o Wire(<<a.rdata[2]>>) \o a.rdata[3]
      [] a.type = TXT -> <<Len(a.rdata[1])>> \o a.rdata[1]
      [] OTHER -> a.rdata[1]

\* An owner equal to the question's name is a pointer to it, another one is written out.
Owner12(m, a) == IF a.name = m.qname THEN <<192, 12>> ELSE Wire(a.name)

Encoded(m) ==
    Preface(m.id, m.rcode, <<1, Len(m.answers), 0, 0>>) \o Wire(m.qname) \o Two(m.qtype) \o <<0, 1>>
    \o FlattenSeq([i \in 1..Len(m.answers) |->
                     Owner12(m, m.answers[i]) \o Back(m.answers[i].type, Data(m.answers[i]))])

Framed(octets) == Two(Len(octets)) \o octets

-----------------------------------------------------------------------------
(* Messages                                                                *)

a   == <<97>>
b   == <<98>>
ab  == <<a, b>>
top == <<>>

Query(id, name, type) == [id |-> id, rcode |-> 0, qname |-> name, qtype |-> type, answers |-> <<>>]

Addr(name, ip)    == [name |-> name, type |-> IF Len(ip) = 4 THEN A ELSE AAAA, ip |-> ip, rdata |-> <<>>]
Other(name, type, parts) == [name |-> name, type |-> type, ip |-> <<>>, rdata |-> parts]

Four    == <<10, 1, 2, 200>>
Sixteen == [i \in 1..16 |-> i % 3]
Twenty  == [i \in 1..20 |-> i]

Kinds == {Addr(ab, Four), Addr(<<b>>, Sixteen), Other(ab, CNAME, <<b>>), Other(<<b>>, NS, <<a>>),
          Other(ab, MX, <<<<0, 5>>, b>>), Other(ab, TXT, <<<<120, 121>>>>),
          Other(ab, SOA, <<a, b, Twenty>>), Other(ab, 33, <<<<7, 8>>>>)}

Reply(id, answers) == [id |-> id, rcode |-> 3, qname |-> ab, qtype |-> A, answers |-> answers]

Replies == {Reply(258, <<k, l>>) : k \in Kinds, l \in {Addr(ab, Four), Other(ab, CNAME, <<b>>)}}
           \cup {Reply(7, <<>>), Reply(8, <<Addr(ab, Four), Addr(ab, Four), Other(ab, 33, <<a>>)>>)}

-----------------------------------------------------------------------------
(* Sessions                                                                *)

\* One message after another, with the meaning of each.
SideOf(parts) ==
    LET upto(i) == Len(FlattenSeq([j \in 1..i |-> parts[j][1]]))
        ends    == {upto(i) : i \in 1..Len(parts)}
    IN  [octets |-> FlattenSeq([j \in 1..Len(parts) |-> parts[j][1]]), ends |-> ends,
         says |-> [n \in ends |-> parts[CHOOSE i \in 1..Len(parts) : upto(i) = n][2]]]

Said(m)     == <<Encoded(m), m>>
SaidTCP(m)  == <<Framed(Encoded(m)), m>>
Noise(o)    == <<o, Broken>>
Raw(octets) == [octets |-> octets, ends |-> {Len(octets)}, says |-> <<>>]
Silent      == [octets |-> <<>>, ends |-> {}, says |-> <<>>]

On    == [dns_parse |-> <<"off", "on">>, max_size |-> Unset]
Off   == [dns_parse |-> <<"off">>, max_size |-> Unset]
Plain == [dns_parse |-> <<>>, max_size |-> Unset]
Sized(n) == [dns_parse |-> <<>>, max_size |-> n]

Session(tr, stream, server, client, upstream) ==
    [transport |-> tr, stream |-> stream, server |-> server, client |-> client,
     upstream |-> upstream]

Bytes == {0, 1, 12, 13, 64, 192}

Tails(n) == UNION {[1..k -> Bytes] : k \in 0..n}

\* Arbitrary octets where the question is, and where the data of a record is.
Questions == {Preface(1, 0, <<1, 0, 0, 0>>) \o t : t \in Tails(Fuzz)}
Records   == {Preface(1, 0, <<0, 1, n, 1>>) \o <<0>> \o SubSeq(Back(type, <<>>), 1, 8) \o Two(len) \o t :
                 n \in {0, 2}, type \in {A, NS, SOA, MX, TXT, 99}, len \in 0..3, t \in Tails(3)}

Arbitrary == {Session("udp", Plain, On, Raw(octets), Silent) : octets \in Questions \cup Records}

\* Octets that are no message: no header, a name that points at itself, no question's end.
Broken1 == <<1, 2, 3>>
Loop    == Preface(1, 0, <<1, 0, 0, 0>>) \o <<192, 12, 0, 1, 0, 1>>
Cut     == SubSeq(Encoded(Query(1, ab, A)), 1, 20)
NoOne   == Preface(9, 0, <<0, 0, 0, 0>>)

Datagrams ==
    {Session("udp", On, Plain, SideOf(<<Said(Query(258, ab, PTR))>>), SideOf(<<Said(r)>>)) : r \in Replies}
    \cup {Session("udp", Off, On, SideOf(<<Noise(n), Noise(o), Said(Query(258, q, MX)), Said(Query(7, ab, A))>>),
                  SideOf(<<Noise(o), Said(Reply(7, <<>>)), Said(Reply(8, <<Addr(ab, Four)>>))>>)) :
             n \in {Broken1, Loop}, o \in {Loop, Cut}, q \in {ab, top}}
    \cup {Session("udp", o, s, SideOf(<<Said(Query(1, ab, A))>>), SideOf(<<Said(Reply(1, <<>>))>>)) :
             o \in {On, Off, Plain, Sized(14), Sized(0)}, s \in {On, Off, Plain, Sized(5), Sized(21), Sized(30)}}
    \cup {Session("udp", On, Plain, Raw(NoOne), Raw(NoOne))}

Streams ==
    {Session("tcp", On, Plain, SideOf(<<SaidTCP(Query(258, ab, A))>>), Silent),
     Session("tcp", On, Sized(16), SideOf(<<SaidTCP(Query(258, top, A))>>), Silent),
     Session("tcp", On, Plain, Raw(NoOne), SideOf(<<SaidTCP(Reply(258, <<>>))>>)),
     Session("tcp", Plain, Off, SideOf(<<Noise(Broken1)>>), Silent),
     Session("tcp", On, Plain, SideOf(<<Noise(Broken1)>>), Silent)}

AllTalk == Arbitrary \cup Datagrams \cup Streams
StreamTalk == Streams

=============================================================================
