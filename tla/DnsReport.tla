----------------------------- MODULE DnsReport -----------------------------
(***************************************************************************)
(* The variables of ngx_stream_dns_module, and what a session promises of  *)
(* them: they describe the messages that the client and the upstream sent. *)
(***************************************************************************)
EXTENDS DnsSession, FiniteSets, SequencesExt

CONSTANT Broken \* what is said by octets that are no DNS message

\* A message as it is meant: names are sequences of labels.
Message == [id : Nat, rcode : Nat, qname : Seq(Seq(Byte)), qtype : Nat, answers : Seq(
              [name : Seq(Seq(Byte)), type : Nat, ip : Seq(Byte), rdata : Seq(Seq(Byte))])]

\* says[n]: the meaning of the message that ends at n, where it is known.
ASSUME MeaningAssumption ==
    \A t \in Talk : \A side \in {t.client, t.upstream} :
        \A n \in DOMAIN side.says : n \in side.ends /\ side.says[n] \in Message \cup {Broken}

-----------------------------------------------------------------------------
(* Names of codes                                                          *)

TypeStr(type) ==
    CASE type = A -> "A" [] type = NS -> "NS" [] type = CNAME -> "CNAME" [] type = SOA -> "SOA"
      [] type = PTR -> "PTR" [] type = MX -> "MX" [] type = TXT -> "TXT" [] type = AAAA -> "AAAA"
      [] type = 33 -> "SRV" [] type = 41 -> "OPT" [] type = 257 -> "CAA" [] type = 255 -> "ANY"
      [] OTHER -> "UNKNOWN"

\* Each name has some length.
ASSUME TypeStrAssumption ==
    \A type \in {A, NS, CNAME, SOA, PTR, MX, TXT, AAAA, 33, 41, 257, 255, 0} : Len(TypeStr(type)) \in Nat

ClassStr(class) ==
    CASE class = 1 -> "IN" [] class = 2 -> "CS" [] class = 3 -> "CH" [] class = 4 -> "HS"
      [] class = 255 -> "ANY" [] OTHER -> "UNKNOWN"

RcodeStr(rcode) ==
    CASE rcode = 0 -> "NOERROR" [] rcode = 1 -> "FORMERR" [] rcode = 2 -> "SERVFAIL"
      [] rcode = 3 -> "NXDOMAIN" [] rcode = 4 -> "NOTIMP" [] rcode = 5 -> "REFUSED"
      [] OTHER -> "UNKNOWN"

-----------------------------------------------------------------------------
(* Variables: the empty set if not found, else the set of their value      *)

\* A C string ends at its first null octet.
CStr(s) == SubSeq(s, 1, Min({i \in 1..Len(s) : s[i] = 0} \cup {Len(s) + 1}) - 1)

ReqName == LET name == CStr(request.pkt.qname)
           IN  IF ~request.parsed \/ name = <<>> THEN {} ELSE {name}

\* In a packet without a question qtype_str is null and the handler reads behind it: any
\* outcome, of which the model takes none.
ReqType  == IF ~request.parsed THEN {} ELSE {TypeStr(request.pkt.qtype)}
ReqClass == IF ~request.parsed THEN {} ELSE {ClassStr(request.pkt.qclass)}
ReqId    == IF ~request.parsed THEN {} ELSE {request.pkt.id}

Answers     == response.pkt.records[1]
RespId      == IF ~response.parsed THEN {} ELSE {response.pkt.id}
RespRcode   == IF ~response.parsed THEN {} ELSE {response.pkt.rcode}
RespStr     == IF ~response.parsed THEN {} ELSE {RcodeStr(response.pkt.rcode)}
RespAncount == IF ~response.parsed THEN {} ELSE {Len(Answers)}

\* The addresses among the answers, in their order.
Addresses ==
    FlattenSeq([i \in 1..Len(Answers) |-> IF Answers[i].ip = <<>> THEN <<>> ELSE <<Answers[i].ip>>])

-----------------------------------------------------------------------------
(* The two lists are written into buffers of fixed size, piece by piece;   *)
(* the model keeps how much is written.                                    *)

\* The width of a number in decimal, in hexadecimal, and of one of 32 bits.
Digits(n)    == 1 + Cardinality({k \in 1..9 : n >= 10^k})
HexDigits(n) == 1 + Cardinality({k \in 1..3 : n >= 16^k})
Digits32(o)  ==
    IF o[1] >= 128 THEN 10 ELSE Digits(((o[1] * 256 + o[2]) * 256 + o[3]) * 256 + o[4])

Total(widths) == FoldLeft(LAMBDA sum, w : sum + w, 0, widths)

AddressWidth(ip) ==
    IF Len(ip) = 4 THEN 3 + Total([i \in 1..4 |-> Digits(ip[i])])
    ELSE 7 + Total([i \in 1..8 |-> HexDigits(256 * ip[2 * i - 1] + ip[2 * i])])

\* The data of a record as it is printed; its address if it has no other data.
DataWidth(r) ==
    LET part(i) == Len(CStr(r.rdata[i]))
    IN  IF r.rdata = <<>> THEN IF r.ip = <<>> THEN 0 ELSE AddressWidth(r.ip)
        ELSE
        CASE r.type = MX -> Digits(256 * r.rdata[1][1] + r.rdata[1][2]) + 1 + part(2)
          [] r.type = SOA -> Smaller(part(1), 200) + Smaller(part(2), 200) + 6
                             + Total([i \in 1..5 |-> Digits32(SubSeq(r.rdata[3], 4 * i - 3, 4 * i))])
          [] r.type \in {NS, CNAME, PTR, TXT} -> part(1)
          [] OTHER -> 2 * Len(r.rdata[1])

\* {"name":"...","type":"...","ttl":...,"data":"..."}
EntryWidth(r) ==
    38 + Len(CStr(r.name)) + Len(TypeStr(r.type)) + Digits32(r.ttl) + Smaller(DataWidth(r), 511)

\* Mutant of Written: the end mark is forgotten.
WrittenFull(len, n, size) ==
    IF len >= size - 1 THEN len ELSE IF n <= size - len THEN len + n ELSE size - 1

\* snprintf of n characters behind len others, if any room is left.
Written(len, n, size) ==
    IF len >= size - 1 THEN len ELSE IF n < size - len THEN len + n ELSE size - 1

\* ngx_dns_answers_to_ips
IpsLength(size) ==
    FoldLeft(LAMBDA len, ip :
               Written(IF len > 0 THEN Written(len, 2, size) ELSE len, AddressWidth(ip), size),
             0, Addresses)

\* ngx_dns_packet_to_json
JsonLength(size) ==
    LET entry(len, i) == Written(IF i > 1 THEN Written(len, 1, size) ELSE len,
                                 EntryWidth(Answers[i]), size)
        first == Smaller(1, size - 1)
    IN  Written(FoldLeft(entry, first, [i \in 1..Len(Answers) |-> i]), 1, size)

-----------------------------------------------------------------------------
(* What was meant                                                          *)

Dotted(labels) ==
    FoldLeft(LAMBDA name, label : IF name = <<>> THEN label ELSE name \o <<Dot>> \o label,
             <<>>, labels)

RequestSays(m) ==
    /\ ReqId = {m.id}
    /\ ReqName = {Dotted(m.qname)} \ {<<>>}
    /\ ReqType = {TypeStr(m.qtype)}
    /\ ReqClass = {"IN"}

\* As many answers as there is room for, in their order.
ResponseSays(m) ==
    /\ RespId = {m.id}
    /\ RespRcode = {m.rcode}
    /\ RespStr = {RcodeStr(m.rcode)}
    /\ RespAncount = {Smaller(Len(m.answers), MaxRecords)}
    /\ \A i \in 1..Len(Answers) :
         /\ Answers[i].name = Dotted(m.answers[i].name)
         /\ Answers[i].type = m.answers[i].type
         /\ Answers[i].ip = m.answers[i].ip
         /\ Answers[i].rdata = m.answers[i].rdata

\* All messages are known, and none is longer than what is parsed of it.
Fitting(side) == DOMAIN side.says = side.ends /\ Len(side.octets) <= MaxSize

\* Where the first message ends that is one.
FirstGood(side) ==
    {n \in side.ends : side.says[n] # Broken /\ \A m \in side.ends : m < n => side.says[m] = Broken}

-----------------------------------------------------------------------------
(* Properties                                                              *)

\* Over UDP the request variables describe the first datagram of the client that is a
\* message, however many others come before it, and they do once it was sent on; over TCP
\* they do if the message came in one piece (ngx_stream_dns_module.c:35-148).
RequestRight ==
    Enabled /\ Fitting(talk.client) /\ (TCP => held = Len(talk.client.octets)) =>
      /\ request.parsed => \E n \in FirstGood(talk.client) : RequestSays(talk.client.says[n])
      /\ ~InCall => \A n \in FirstGood(talk.client) : up >= n => request.parsed

\* Over UDP the response variables describe the first datagram of the upstream that is a
\* message, and they do once it was sent on (ngx_stream_dns_module.c:132-139).
ResponseRight ==
    Enabled /\ Fitting(talk.upstream) /\ UDP =>
      /\ response.parsed => \E n \in FirstGood(talk.upstream) : ResponseSays(talk.upstream.says[n])
      /\ ~InCall => \A n \in FirstGood(talk.upstream) : down >= n => response.parsed

\* Both lists are cut at the end of their buffers and nowhere else (ngx_dns_parser.c:348-421).
ListsFit ==
    response.parsed =>
      LET n    == Len(Answers)
          ips  == Total([i \in 1..Len(Addresses) |-> AddressWidth(Addresses[i])])
          json == Total([i \in 1..n |-> EntryWidth(Answers[i])])
      IN  /\ IpsLength(IpsSize) =
               Smaller(ips + IF Addresses = <<>> THEN 0 ELSE 2 * (Len(Addresses) - 1), IpsSize - 1)
          /\ JsonLength(JsonSize) =
               Smaller(json + 2 + (IF n = 0 THEN 0 ELSE n - 1), JsonSize - 1)

\* README.md:35 "Parses both UDP datagrams and TCP streams (handling 2-byte framing prefixes
\* automatically)": also over TCP the request variables describe the client's message.
StreamRight ==
    TCP /\ Enabled /\ Fitting(talk.client) /\ request.parsed =>
      \E n \in FirstGood(talk.client) : RequestSays(talk.client.says[n])

=============================================================================
