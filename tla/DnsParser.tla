----------------------------- MODULE DnsParser -----------------------------
(***************************************************************************)
(* ngx_dns_parse_packet of ngx_stream_dns_module: the header, the question *)
(* and the three sections of records, and the name decoder that each part  *)
(* calls, one action per way through an iteration of its loop.             *)
(*                                                                         *)
(* Offsets count from 0, as in the code.  What is printed from numbers     *)
(* (addresses, hexadecimal data) is kept as the octets it is printed from, *)
(* and the data of a record as a sequence of such parts, empty if nothing  *)
(* was written.                                                            *)
(***************************************************************************)
EXTENDS Integers, Sequences

CONSTANTS
    MaxName,    \* NGX_DNS_MAX_NAME_LEN: the buffer of a name, its end mark included
    MaxRdata,   \* NGX_DNS_MAX_RDATA_STR: the same for the data of a record
    MaxRecords, \* NGX_DNS_MAX_RECORDS, of one section
    MaxJumps    \* NGX_DNS_MAX_POINTER_JUMPS

ASSUME DnsLimits ==
    /\ MaxName \in Nat \ {0} /\ MaxRdata \in Nat /\ MaxRdata >= 3
    /\ MaxRecords \in Nat /\ MaxJumps \in Nat

VARIABLES
    buf,    \* the octets of the packet
    at,     \* the part of the parser that runs, or how it ended
    offset, \* the position of parse_packet
    sec,    \* the section that is read: answers, authorities, additionals
    nm,     \* the locals of ngx_dns_parse_name
    rr,     \* the record that is read
    pkt,    \* the ngx_dns_packet_t
    reach   \* how far any octet was read; the parser itself does not keep it

parserVars == <<buf, at, offset, sec, nm, rr, pkt, reach>>

-----------------------------------------------------------------------------
(* Octets                                                                  *)

Byte == 0..255
Dot  == 46

Octet(i)     == buf[i + 1]
U16(i)       == 256 * Octet(i) + Octet(i + 1)
Octets(i, n) == SubSeq(buf, i + 1, i + n)
End          == Len(buf)

Touch(n) == reach' = IF n > reach THEN n ELSE reach

-----------------------------------------------------------------------------
(* What is parsed                                                          *)

Section == 1..3

Record == [name : Seq(Byte), type : Nat, ttl : Seq(Byte), from : Nat, rdlength : Nat,
           rdata : Seq(Seq(Byte)), ip : Seq(Byte)]

NoRecord == [name |-> <<>>, type |-> 0, ttl |-> <<>>, from |-> 0, rdlength |-> 0,
             rdata |-> <<>>, ip |-> <<>>]

Packet == [id : Nat, rcode : Nat, qdcount : Nat, count : [Section -> Nat],
           qname : Seq(Byte), qtype : Nat, qclass : Nat, records : [Section -> Seq(Record)]]

\* memset(pkt, 0, ...)
NoPacket == [id |-> 0, rcode |-> 0, qdcount |-> 0, count |-> [s \in Section |-> 0],
             qname |-> <<>>, qtype |-> 0, qclass |-> 0, records |-> [s \in Section |-> <<>>]]

Wanted   == pkt.count[sec]
Recorded == Len(pkt.records[sec])

\* Over TCP a length goes before the message, if it is the length of what is there.
Unframed(b, stream) ==
    IF stream /\ Len(b) >= 14 /\ 256 * b[1] + b[2] = (Len(b) - 2) % 65536
    THEN SubSeq(b, 3, Len(b)) ELSE b

Name(goal, start, max) ==
    [goal |-> goal, start |-> start, max |-> max, pos |-> start, jumps |-> 0,
     out |-> <<>>, consumed |-> 0, counted |-> FALSE]

NoName == Name("none", 0, 1)

Parse(b, stream) ==
    /\ buf' = Unframed(b, stream)
    /\ at' = "header"
    /\ offset' = 0
    /\ sec' = 1
    /\ nm' = NoName
    /\ rr' = NoRecord
    /\ pkt' = NoPacket
    /\ reach' = 0

Running  == at \notin {"idle", "ok", "error"}
Returned == at \in {"ok", "error"}

\* Where the name decoder starts, and what for.
StartName(goal, start, max) ==
    /\ at' = "name"
    /\ nm' = Name(goal, start, max)

-----------------------------------------------------------------------------
(* ngx_dns_parse_name                                                      *)

\* Mutant of Counted: the octets behind a pointer are counted too.
CountedOn(n) == IF nm.jumps > 1 THEN nm.consumed ELSE nm.consumed + n

\* The octets of the name where it stands, up to its first pointer.
Counted(n) == IF nm.counted THEN nm.consumed ELSE nm.consumed + n

InName    == at = "name" /\ nm.pos < End
IsPointer == Octet(nm.pos) >= 192

TruncatedPointer ==
    /\ InName
    /\ IsPointer
    /\ nm.pos + 1 >= End
    /\ at' = "noname"
    /\ Touch(nm.pos + 1)
    /\ UNCHANGED <<buf, offset, sec, nm, rr, pkt>>

\* Mutant of Pointer: the jumps are not counted.
PointerForever ==
    /\ InName
    /\ IsPointer
    /\ nm.pos + 1 < End
    /\ nm' = [nm EXCEPT !.consumed = Counted(2), !.counted = TRUE,
                        !.pos = U16(nm.pos) - 192 * 256]
    /\ Touch(nm.pos + 2)
    /\ UNCHANGED <<buf, at, offset, sec, rr, pkt>>

Pointer ==
    /\ InName
    /\ IsPointer
    /\ nm.pos + 1 < End
    /\ nm' = [nm EXCEPT !.consumed = Counted(2), !.counted = TRUE,
                        !.pos = U16(nm.pos) - 192 * 256, !.jumps = @ + 1]
    /\ at' = IF nm.jumps + 1 > MaxJumps THEN "noname" ELSE "name"
    /\ Touch(nm.pos + 2)
    /\ UNCHANGED <<buf, offset, sec, rr, pkt>>

Root ==
    /\ InName
    /\ Octet(nm.pos) = 0
    /\ nm' = [nm EXCEPT !.consumed = Counted(1)]
    /\ at' = "named"
    /\ Touch(nm.pos + 1)
    /\ UNCHANGED <<buf, offset, sec, rr, pkt>>

LabelFits == Octet(nm.pos) <= 63 /\ nm.pos + 1 + Octet(nm.pos) <= End

BadLabel ==
    /\ InName
    /\ ~IsPointer /\ Octet(nm.pos) # 0 /\ ~LabelFits
    /\ at' = "noname"
    /\ Touch(nm.pos + 1)
    /\ UNCHANGED <<buf, offset, sec, nm, rr, pkt>>

\* A label is appended as far as the buffer of the name has room.
Label ==
    /\ InName
    /\ ~IsPointer /\ Octet(nm.pos) # 0 /\ LabelFits
    /\ LET len  == Octet(nm.pos)
           dot  == IF nm.out = <<>> THEN <<>> ELSE <<Dot>>
           full == nm.out \o dot \o Octets(nm.pos + 1, len)
           fits == Len(full) < nm.max
       IN  /\ nm' = [nm EXCEPT !.consumed = Counted(1 + len), !.pos = @ + 1 + len,
                               !.out = IF fits THEN full ELSE SubSeq(full, 1, nm.max - 1)]
           /\ at' = IF fits THEN "name" ELSE "noname"
           /\ Touch(nm.pos + 1 + len)
    /\ UNCHANGED <<buf, offset, sec, rr, pkt>>

\* The loop ends at the end of the packet, with the labels it has.
OutOfOctets ==
    /\ at = "name"
    /\ nm.pos >= End
    /\ at' = "named"
    /\ UNCHANGED <<buf, offset, sec, nm, rr, pkt, reach>>

NameStep ==
    \/ TruncatedPointer \/ Pointer \/ Root
    \/ BadLabel \/ Label \/ OutOfOctets

Got(goal)  == at = "named" /\ nm.goal = goal
Lost(goal) == at = "noname" /\ nm.goal = goal

-----------------------------------------------------------------------------
(* ngx_dns_parse_packet: header and question                               *)

ShortHeader ==
    /\ at = "header"
    /\ End < 12
    /\ at' = "error"
    /\ UNCHANGED <<buf, offset, sec, nm, rr, pkt, reach>>

Header ==
    /\ at = "header"
    /\ End >= 12
    /\ pkt' = [pkt EXCEPT !.id = U16(0), !.rcode = U16(2) % 16, !.qdcount = U16(4),
                          !.count = [s \in Section |-> U16(4 + 2 * s)]]
    /\ offset' = 12
    /\ IF U16(4) > 0 THEN StartName("qname", 12, MaxName)
                     ELSE at' = "section" /\ UNCHANGED nm
    /\ Touch(12)
    /\ UNCHANGED <<buf, sec, rr>>

BadQuestion ==
    /\ \/ Lost("qname")
       \/ Got("qname") /\ offset + nm.consumed + 4 > End
    /\ at' = "error"
    /\ UNCHANGED <<buf, offset, sec, nm, rr, pkt, reach>>

\* The name and the two fields behind it; further questions are not read.
Question ==
    /\ Got("qname")
    /\ LET o == offset + nm.consumed
       IN  /\ o + 4 <= End
           /\ pkt' = [pkt EXCEPT !.qname = nm.out, !.qtype = U16(o), !.qclass = U16(o + 2)]
           /\ offset' = o + 4
           /\ Touch(o + 4)
    /\ at' = "section"
    /\ UNCHANGED <<buf, sec, nm, rr>>

-----------------------------------------------------------------------------
(* PARSE_RR_SECTION                                                        *)

\* Mutant of Leave: one section more.
LeaveLate ==
    IF sec <= 3 THEN at' = "section" /\ sec' = sec + 1
                ELSE at' = "ok" /\ UNCHANGED sec

\* The next section starts where this one was left.
Leave ==
    IF sec < 3 THEN at' = "section" /\ sec' = sec + 1
               ELSE at' = "ok" /\ UNCHANGED sec

\* Mutant of MoreRecords: the table is taken for one record longer.
MoreRecordsThanFit == Recorded < Wanted /\ Recorded <= MaxRecords /\ offset < End

MoreRecords == Recorded < Wanted /\ Recorded < MaxRecords /\ offset < End

SectionEnds ==
    /\ at = "section"
    /\ ~MoreRecords
    /\ Leave
    /\ UNCHANGED <<buf, offset, nm, rr, pkt, reach>>

Owner ==
    /\ at = "section"
    /\ MoreRecords
    /\ StartName("owner", offset, MaxName)
    /\ UNCHANGED <<buf, offset, sec, rr, pkt, reach>>

BadOwner ==
    /\ Lost("owner")
    /\ Leave
    /\ UNCHANGED <<buf, offset, nm, rr, pkt, reach>>

\* The fixed fields are cut off: what was read of the record stays consumed.
ShortRecord ==
    /\ Got("owner")
    /\ offset + nm.consumed + 10 > End
    /\ offset' = offset + nm.consumed
    /\ Leave
    /\ UNCHANGED <<buf, nm, rr, pkt, reach>>

Fixed ==
    /\ Got("owner")
    /\ LET o == offset + nm.consumed
       IN  /\ o + 10 <= End
           /\ rr' = [NoRecord EXCEPT !.name = nm.out, !.type = U16(o),
                                     !.ttl = Octets(o + 4, 4),
                                     !.from = o + 10, !.rdlength = U16(o + 8)]
           /\ offset' = o + 10
           /\ Touch(o + 10)
           /\ IF o + 10 + U16(o + 8) > End THEN Leave
                                           ELSE at' = "rdata" /\ UNCHANGED sec
    /\ UNCHANGED <<buf, nm, pkt>>

-----------------------------------------------------------------------------
(* ngx_dns_parse_rdata, and the end of an iteration                        *)

A     == 1
NS    == 2
CNAME == 5
SOA   == 6
PTR   == 12
MX    == 15
TXT   == 16
AAAA  == 28

Keep(r) ==
    /\ pkt' = [pkt EXCEPT !.records[sec] = Append(@, r)]
    /\ offset' = offset + rr.rdlength
    /\ at' = "section"
    /\ UNCHANGED <<buf, sec, nm, rr>>

Smaller(a, b) == IF a < b THEN a ELSE b

Address ==
    /\ at = "rdata"
    /\ rr.type \in {A, AAAA}
    /\ LET size == IF rr.type = A THEN 4 ELSE 16
       IN  IF rr.rdlength = size
           THEN Keep([rr EXCEPT !.ip = Octets(offset, size)]) /\ Touch(offset + size)
           ELSE Keep(rr) /\ UNCHANGED reach

\* TXT: the first string, as far as the record and the buffer hold it.
Text ==
    /\ at = "rdata"
    /\ rr.type = TXT
    /\ IF rr.rdlength = 0 THEN Keep(rr) /\ UNCHANGED reach
       ELSE LET copy == Smaller(Octet(offset), rr.rdlength - 1)
                out  == Smaller(copy, MaxRdata - 1)
            IN  /\ Keep([rr EXCEPT !.rdata = <<Octets(offset + 1, out)>>])
                /\ Touch(offset + 1 + out)

\* Any other type, SRV and OPT among them, is printed in hexadecimal: two characters an
\* octet while three fit.
Hexadecimal ==
    /\ at = "rdata"
    /\ rr.type \notin {A, NS, CNAME, SOA, PTR, MX, TXT, AAAA}
    /\ LET n == Smaller(rr.rdlength, (MaxRdata - 2) \div 2)
       IN  /\ Keep([rr EXCEPT !.rdata = <<Octets(offset, n)>>])
           /\ Touch(offset + n)

Target ==
    /\ at = "rdata"
    /\ rr.type \in {NS, CNAME, PTR}
    /\ StartName("target", offset, MaxRdata)
    /\ UNCHANGED <<buf, offset, sec, rr, pkt, reach>>

\* A target that cannot be decoded leaves what was written of it.
TargetRead ==
    /\ Got("target") \/ Lost("target")
    /\ Keep([rr EXCEPT !.rdata = <<nm.out>>])
    /\ UNCHANGED reach

ShortExchange ==
    /\ at = "rdata"
    /\ rr.type = MX
    /\ rr.rdlength < 3
    /\ Keep(rr)
    /\ UNCHANGED reach

Exchange ==
    /\ at = "rdata"
    /\ rr.type = MX
    /\ rr.rdlength >= 3
    /\ StartName("exchange", offset + 2, MaxName)
    /\ Touch(offset + 2)
    /\ UNCHANGED <<buf, offset, sec, rr, pkt>>

ExchangeRead ==
    /\ Got("exchange")
    /\ Keep([rr EXCEPT !.rdata = <<Octets(offset, 2), nm.out>>])
    /\ UNCHANGED reach

Authority ==
    /\ at = "rdata"
    /\ rr.type = SOA
    /\ StartName("mname", offset, MaxName)
    /\ UNCHANGED <<buf, offset, sec, rr, pkt, reach>>

\* The second name follows the first; the first is kept with the record until then.
AuthorityName ==
    /\ Got("mname")
    /\ rr' = [rr EXCEPT !.rdata = <<nm.out>>]
    /\ StartName("rname", offset + nm.consumed, MaxName)
    /\ UNCHANGED <<buf, offset, sec, pkt, reach>>

AuthorityRead ==
    /\ Got("rname")
    /\ LET n == nm.start + nm.consumed
       IN  IF n + 20 <= offset + rr.rdlength
           THEN /\ Keep([rr EXCEPT !.rdata = @ \o <<nm.out, Octets(n, 20)>>])
                /\ Touch(n + 20)
           ELSE Keep([rr EXCEPT !.rdata = <<>>]) /\ UNCHANGED reach

\* A name inside the data cannot be decoded: the record has no data.
NoRdata ==
    /\ Lost("exchange") \/ Lost("mname") \/ Lost("rname")
    /\ Keep([rr EXCEPT !.rdata = <<>>])
    /\ UNCHANGED reach

ParserNext ==
    \/ NameStep
    \/ ShortHeader \/ Header \/ BadQuestion \/ Question
    \/ SectionEnds \/ Owner \/ BadOwner \/ ShortRecord \/ Fixed
    \/ Address \/ Text \/ Hexadecimal \/ Target \/ TargetRead
    \/ ShortExchange \/ Exchange \/ ExchangeRead
    \/ Authority \/ AuthorityName \/ AuthorityRead \/ NoRdata

ParserInit ==
    /\ buf = <<>>
    /\ at = "idle"
    /\ offset = 0
    /\ sec = 1
    /\ nm = NoName
    /\ rr = NoRecord
    /\ pkt = NoPacket
    /\ reach = 0

=============================================================================
