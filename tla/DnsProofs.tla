----------------------------- MODULE DnsProofs ------------------------------
(***************************************************************************)
(* Theorems about DNS sessions, for any octets, sizes and configurations.  *)
(* The core is that the parser stays in its buffers: it rests on where     *)
(* each position of the parser may be, which changes from part to part.    *)
(* The other result is that both lists of answers are cut only at the end  *)
(* of their buffers.                                                       *)
(***************************************************************************)
EXTENDS DnsReport, FoldProofs

-----------------------------------------------------------------------------
(* Sequences and octets                                                    *)

\* A part of a sequence, and two sequences one after the other.
LEMMA Slice ==
    ASSUME NEW S, NEW s \in Seq(S), NEW m \in Nat \ {0}, NEW n \in 0..Len(s)
    PROVE  /\ SubSeq(s, m, n) \in Seq(S)
           /\ Len(SubSeq(s, m, n)) = IF m <= n THEN n - m + 1 ELSE 0
<1>1. \A i \in m..n : s[i] \in S
  OBVIOUS
<1>2. QED BY <1>1, SubSeqProperties

LEMMA Joined ==
    ASSUME NEW S, NEW s \in Seq(S), NEW t \in Seq(S)
    PROVE  s \o t \in Seq(S) /\ Len(s \o t) = Len(s) + Len(t)
  BY ConcatProperties

LEMMA Appended ==
    ASSUME NEW S, NEW s \in Seq(S), NEW x \in S
    PROVE  Append(s, x) \in Seq(S) /\ Len(Append(s, x)) = Len(s) + 1
  BY AppendProperties

LEMMA Element ==
    ASSUME NEW S, NEW s \in Seq(S), NEW i \in 1..Len(s)
    PROVE  s[i] \in S
  OBVIOUS

LEMMA Single ==
    ASSUME NEW S, NEW x \in S
    PROVE  <<>> \in Seq(S) /\ <<x>> \in Seq(S)
  OBVIOUS

LEMMA Pairs ==
    ASSUME NEW S, NEW x \in S, NEW y \in S
    PROVE  <<x, y>> \in Seq(S)
  OBVIOUS

\* Of a packet of octets: one of them, two, and several.
LEMMA OctetIs ==
    ASSUME buf \in Seq(Byte), NEW i \in Nat, i < End
    PROVE  Octet(i) \in 0..255
<1>1. End \in Nat /\ i + 1 \in 1..Len(buf)
  BY DEF End
<1>2. buf[i + 1] \in Byte
  BY <1>1, Element
<1>3. QED BY <1>2 DEF Octet, Byte

LEMMA U16Is ==
    ASSUME buf \in Seq(Byte), NEW i \in Nat, i + 1 < End
    PROVE  U16(i) \in Nat /\ (Octet(i) >= 192 => U16(i) - 192 * 256 \in Nat)
<1>1. End \in Nat
  BY DEF End
<1>2. Octet(i) \in 0..255 /\ Octet(i + 1) \in 0..255
  BY <1>1, OctetIs
<1>3. PICK m \in 0..255, n \in 0..255 : m = Octet(i) /\ n = Octet(i + 1)
  BY <1>2
<1>4. 256 * m + n \in Nat /\ (m >= 192 => 256 * m + n - 192 * 256 \in Nat)
  OBVIOUS
<1>5. QED BY <1>3, <1>4 DEF U16

LEMMA OctetsAre ==
    ASSUME buf \in Seq(Byte), NEW i \in Nat, NEW n \in Nat, i + n <= End
    PROVE  Octets(i, n) \in Seq(Byte) /\ Len(Octets(i, n)) = n
<1>1. i + 1 \in Nat \ {0} /\ i + n \in 0..Len(buf) /\ End \in Nat
  BY DEF End
<1>2. /\ SubSeq(buf, i + 1, i + n) \in Seq(Byte)
      /\ Len(SubSeq(buf, i + 1, i + n)) = IF i + 1 <= i + n THEN (i + n) - (i + 1) + 1 ELSE 0
  BY <1>1, Slice
<1>3. (IF i + 1 <= i + n THEN (i + n) - (i + 1) + 1 ELSE 0) = n
  OBVIOUS
<1>4. QED BY <1>2, <1>3 DEF Octets

-----------------------------------------------------------------------------
(* The invariant of the parser                                             *)

Goal == {"none", "qname", "owner", "target", "exchange", "mname", "rname"}

ParserTypes ==
    /\ buf \in Seq(Byte)
    /\ at \in {"idle", "header", "name", "named", "noname", "section", "rdata", "ok", "error"}
    /\ offset \in Nat
    /\ sec \in Section
    /\ nm \in [goal : Goal, start : Nat, max : Nat \ {0}, pos : Nat, jumps : Nat,
               out : Seq(Byte), consumed : Nat, counted : BOOLEAN]
    /\ rr \in Record
    /\ pkt \in Packet
    /\ reach \in Nat

InNameOf(goals) == at \in {"name", "named", "noname"} /\ nm.goal \in goals

\* The decoder runs inside the data of a record.
InData == at = "rdata" \/ InNameOf({"target", "exchange", "mname", "rname"})

\* Where a name began and what it consumed lie in the packet; until its first pointer the
\* decoder is where it has consumed to.
NameInv ==
    /\ Len(nm.out) < nm.max
    /\ at \in {"name", "named", "noname"} =>
         /\ nm.goal # "none"
         /\ nm.start + nm.consumed <= End
         /\ at = "name" /\ ~nm.counted => nm.pos = nm.start + nm.consumed
         /\ nm.goal \in {"qname", "owner", "mname"} => nm.start = offset
         /\ nm.goal = "exchange" => rr.rdlength >= 3

\* The tables are not longer than they may be, and there is room for the record that
\* is read.
TableInv ==
    /\ \A s \in Section :
         Len(pkt.records[s]) <= MaxRecords /\ Len(pkt.records[s]) <= pkt.count[s]
    /\ InData \/ InNameOf({"owner"}) => Recorded < MaxRecords /\ Recorded < Wanted
    /\ at = "header" => pkt = NoPacket

\* The packet is read inside its bounds, and holds the data of the record that is read.
PlaceInv ==
    /\ reach <= End
    /\ offset <= End
    /\ InData => offset + rr.rdlength <= End

ParserInv == ParserTypes /\ NameInv /\ TableInv /\ PlaceInv

\* The numbers of the state are numbers.
LEMMA Numbers ==
    ASSUME ParserTypes
    PROVE  /\ End \in Nat /\ offset \in Nat /\ reach \in Nat
           /\ nm.start \in Nat /\ nm.max \in Nat \ {0} /\ nm.pos \in Nat /\ nm.jumps \in Nat
           /\ nm.out \in Seq(Byte) /\ Len(nm.out) \in Nat /\ nm.consumed \in Nat
           /\ nm.counted \in BOOLEAN /\ nm.goal \in Goal
           /\ rr.rdlength \in Nat /\ rr.type \in Nat /\ rr.rdata \in Seq(Seq(Byte))
           /\ pkt.records \in [Section -> Seq(Record)] /\ pkt.count \in [Section -> Nat]
           /\ Recorded \in Nat /\ Wanted \in Nat
<1>1. End \in Nat /\ offset \in Nat /\ reach \in Nat
  BY DEF ParserTypes, End
<1>2. /\ nm.start \in Nat /\ nm.max \in Nat \ {0} /\ nm.pos \in Nat /\ nm.jumps \in Nat
      /\ nm.out \in Seq(Byte) /\ nm.consumed \in Nat /\ nm.counted \in BOOLEAN /\ nm.goal \in Goal
  BY DEF ParserTypes
<1>3. rr.rdlength \in Nat /\ rr.type \in Nat /\ rr.rdata \in Seq(Seq(Byte))
  BY DEF ParserTypes, Record
<1>4. pkt.records \in [Section -> Seq(Record)] /\ pkt.count \in [Section -> Nat]
  BY DEF ParserTypes, Packet
<1>5. Recorded \in Nat /\ Wanted \in Nat
  <2>1. pkt.records[sec] \in Seq(Record) /\ pkt.count[sec] \in Nat
    BY <1>4 DEF ParserTypes
  <2>2. QED BY <2>1 DEF Recorded, Wanted
<1>6. Len(nm.out) \in Nat
  BY <1>2
<1>7. QED BY <1>1, <1>2, <1>3, <1>4, <1>5, <1>6

\* What is read of the packet stays inside it.
LEMMA TouchIs ==
    ASSUME reach \in Nat, reach <= End, NEW n \in Nat, n <= End, Touch(n), UNCHANGED buf
    PROVE  reach' \in Nat /\ reach' <= End'
  BY DEF Touch, End

-----------------------------------------------------------------------------
(* Steps of the parser                                                     *)

Tables(packet) ==
    \A s \in Section :
      Len(packet.records[s]) <= MaxRecords /\ Len(packet.records[s]) <= packet.count[s]

\* Between the parts, and at the end: nothing is read of a name or of data.
LEMMA BetweenStep ==
    ASSUME ParserInv, at' \in {"section", "ok", "error"}, UNCHANGED <<buf, nm>>,
           offset' \in Nat, offset' <= End, sec' \in Section, rr' \in Record,
           pkt' \in Packet, Tables(pkt'), reach' \in Nat, reach' <= End
    PROVE  ParserInv'
<1>1. End' = End
  BY DEF End
<1>2. ~InData' /\ ~InNameOf({"owner"})'
  BY DEF InData, InNameOf
<1>3. ParserTypes'
  BY DEF ParserInv, ParserTypes
<1>4. NameInv'
  BY <1>1 DEF ParserInv, NameInv
<1>5. TableInv'
  BY <1>2 DEF TableInv, Tables
<1>6. PlaceInv'
  BY <1>1, <1>2 DEF ParserInv, PlaceInv
<1>7. QED BY <1>3, <1>4, <1>5, <1>6 DEF ParserInv

\* A record is appended to its section and its data passed over.
LEMMA KeepStep ==
    ASSUME ParserInv, InData, NEW r \in Record, Keep(r), reach' \in Nat, reach' <= End
    PROVE  ParserInv'
<1>1. /\ at' = "section" /\ offset' = offset + rr.rdlength /\ UNCHANGED <<buf, sec, nm, rr>>
      /\ pkt' = [pkt EXCEPT !.records[sec] = Append(@, r)]
  BY DEF Keep
<1>2. End' = End /\ ~InData' /\ ~InNameOf({"owner"})'
  BY <1>1 DEF End, InData, InNameOf
<1>3. ParserTypes
  BY DEF ParserInv
<1>4. sec \in Section /\ pkt \in Packet /\ pkt.records \in [Section -> Seq(Record)]
  BY <1>3, Numbers DEF ParserTypes
<1> DEFINE list == Append(pkt.records[sec], r)
<1>5. list \in Seq(Record) /\ Len(list) = Recorded + 1
  BY <1>4, Appended DEF Recorded
<1>6. pkt' = [pkt EXCEPT !.records = [pkt.records EXCEPT ![sec] = list]]
  BY <1>1, <1>4 DEF Packet
<1> HIDE DEF list
<1>7. [pkt.records EXCEPT ![sec] = list] \in [Section -> Seq(Record)]
  BY <1>4, <1>5
<1>8. /\ pkt' \in Packet /\ pkt'.count = pkt.count
      /\ pkt'.records = [pkt.records EXCEPT ![sec] = list]
  BY <1>4, <1>6, <1>7 DEF Packet
<1>9. offset' \in Nat /\ offset' <= End
  BY <1>1, <1>3, Numbers DEF ParserInv, PlaceInv
<1>10. ParserTypes'
  BY <1>1, <1>3, <1>8, <1>9 DEF ParserTypes
<1>11. NameInv'
  BY <1>1 DEF ParserInv, NameInv
<1>12. TableInv'
  <2>1. ASSUME NEW s \in Section
        PROVE  Len(pkt'.records[s]) <= MaxRecords /\ Len(pkt'.records[s]) <= pkt'.count[s]
    <3>1. CASE s = sec
      <4>1. Len(pkt'.records[s]) = Recorded + 1 /\ pkt'.count[s] = Wanted
        BY <1>4, <1>5, <1>8, <3>1 DEF Wanted
      <4>2. Recorded < MaxRecords /\ Recorded < Wanted /\ Recorded \in Nat /\ Wanted \in Nat
        BY <1>3, Numbers DEF ParserInv, TableInv
      <4>3. QED BY <4>1, <4>2, DnsLimits
    <3>2. CASE s # sec
      BY <1>4, <1>8, <3>2 DEF ParserInv, TableInv
    <3>3. QED BY <3>1, <3>2
  <2>2. QED BY <1>1, <1>2, <2>1 DEF TableInv
<1>13. PlaceInv'
  BY <1>1, <1>2, <1>9 DEF PlaceInv
<1>14. QED BY <1>10, <1>11, <1>12, <1>13 DEF ParserInv

\* The decoder of names starts, inside the data of a record or before them.
LEMMA StartStep ==
    ASSUME ParserInv, NEW goal \in Goal \ {"none"}, NEW start \in Nat, NEW max \in Nat \ {0},
           StartName(goal, start, max), UNCHANGED <<buf, sec>>,
           start <= End, offset' \in Nat, offset' <= End,
           goal \in {"qname", "owner", "mname"} => start = offset',
           goal = "exchange" => rr'.rdlength >= 3,
           rr' \in Record, pkt' \in Packet, reach' \in Nat, reach' <= End,
           Tables(pkt'),
           goal # "qname" => Recorded' < MaxRecords /\ Recorded' < Wanted',
           goal \notin {"qname", "owner"} => offset' + rr'.rdlength <= End
    PROVE  ParserInv'
<1>1. at' = "name" /\ nm' = Name(goal, start, max) /\ End' = End
  BY DEF StartName, End
<1>2. <<>> \in Seq(Byte) /\ Len(<<>>) = 0
  OBVIOUS
<1>3. /\ nm' \in [goal : Goal, start : Nat, max : Nat \ {0}, pos : Nat, jumps : Nat,
                  out : Seq(Byte), consumed : Nat, counted : BOOLEAN]
      /\ nm'.goal = goal /\ nm'.start = start /\ nm'.pos = start /\ nm'.consumed = 0
      /\ nm'.max = max /\ nm'.out = <<>>
  BY <1>1, <1>2 DEF Name
<1>4. ParserTypes'
  BY <1>1, <1>3 DEF ParserInv, ParserTypes
<1>5. NameInv'
  BY <1>1, <1>2, <1>3 DEF NameInv
<1>6. TableInv'
  BY <1>1, <1>3 DEF TableInv, Tables, InData, InNameOf
<1>7. PlaceInv'
  BY <1>1, <1>3 DEF PlaceInv, InData, InNameOf
<1>8. QED BY <1>4, <1>5, <1>6, <1>7 DEF ParserInv

NameRecord == [goal : Goal, start : Nat, max : Nat \ {0}, pos : Nat, jumps : Nat,
               out : Seq(Byte), consumed : Nat, counted : BOOLEAN]

\* The decoder moves inside a name.
LEMMA MoveStep ==
    ASSUME ParserInv, at = "name", at' \in {"name", "named", "noname"},
           UNCHANGED <<buf, offset, sec, rr, pkt>>, nm' \in NameRecord,
           nm'.goal = nm.goal, nm'.start = nm.start,
           Len(nm'.out) < nm'.max, nm'.start + nm'.consumed <= End,
           at' = "name" /\ ~nm'.counted => nm'.pos = nm'.start + nm'.consumed,
           reach' \in Nat, reach' <= End
    PROVE  ParserInv'
<1>1. End' = End
  BY DEF End
<1>2. ParserTypes'
  BY DEF ParserInv, ParserTypes, NameRecord
<1>3. NameInv'
  BY <1>1 DEF ParserInv, NameInv
<1>4. InData' = InData /\ InNameOf({"owner"})' = InNameOf({"owner"})
  BY DEF InData, InNameOf
<1>5. TableInv'
  <2>1. Recorded' = Recorded /\ Wanted' = Wanted
    BY DEF Recorded, Wanted
  <2>2. QED BY <1>4, <2>1 DEF ParserInv, TableInv
<1>6. PlaceInv'
  BY <1>1, <1>4 DEF ParserInv, PlaceInv
<1>7. QED BY <1>2, <1>3, <1>5, <1>6 DEF ParserInv

\* Up to the first pointer what is consumed reaches as far as the decoder has read.
LEMMA CountedIs ==
    ASSUME ParserInv, at = "name", NEW n \in Nat, nm.pos + n <= End
    PROVE  /\ Counted(n) \in Nat /\ nm.start + Counted(n) <= End
           /\ ~nm.counted => nm.pos + n = nm.start + Counted(n)
<1>1. /\ nm.start \in Nat /\ nm.consumed \in Nat /\ nm.pos \in Nat /\ End \in Nat
      /\ nm.counted \in BOOLEAN
  BY Numbers DEF ParserInv
<1>2. nm.start + nm.consumed <= End /\ (~nm.counted => nm.pos = nm.start + nm.consumed)
  BY DEF ParserInv, NameInv
<1>3. CASE nm.counted
  BY <1>1, <1>2, <1>3 DEF Counted
<1>4. CASE ~nm.counted
  BY <1>1, <1>2, <1>4 DEF Counted
<1>5. QED BY <1>3, <1>4

\* The octet that the decoder looks at.
LEMMA InNameIs ==
    ASSUME ParserInv, InName
    PROVE  /\ at = "name" /\ nm.pos \in Nat /\ End \in Nat /\ nm.pos + 1 <= End
           /\ Octet(nm.pos) \in 0..255 /\ buf \in Seq(Byte) /\ nm \in NameRecord
           /\ reach \in Nat /\ reach <= End
<1>1. /\ at = "name" /\ nm.pos < End /\ buf \in Seq(Byte) /\ nm \in NameRecord
      /\ reach \in Nat /\ reach <= End
  BY DEF InName, ParserInv, ParserTypes, NameRecord, PlaceInv
<1>2. nm.pos \in Nat /\ End \in Nat
  BY Numbers DEF ParserInv
<1>3. Octet(nm.pos) \in 0..255
  BY <1>1, <1>2, OctetIs
<1>4. QED BY <1>1, <1>2, <1>3

\* A name that ends here, well or not, after its first n octets more.
LEMMA NameEndsInv ==
    ASSUME ParserInv, TruncatedPointer \/ Root \/ BadLabel \/ OutOfOctets
    PROVE  ParserInv'
<1>1. CASE OutOfOctets
  <2>1. nm \in NameRecord /\ reach \in Nat /\ reach <= End /\ Len(nm.out) < nm.max
        /\ at = "name" /\ nm.start + nm.consumed <= End
    BY <1>1 DEF OutOfOctets, ParserInv, ParserTypes, NameRecord, PlaceInv, NameInv
  <2>2. QED BY <1>1, <2>1, MoveStep DEF OutOfOctets
<1>2. CASE TruncatedPointer \/ BadLabel
  <2>1. /\ at = "name" /\ nm \in NameRecord /\ reach \in Nat /\ reach <= End
        /\ nm.pos + 1 \in Nat /\ nm.pos + 1 <= End
    BY <1>2, InNameIs DEF TruncatedPointer, BadLabel
  <2>2. Len(nm.out) < nm.max /\ nm.start + nm.consumed <= End
    BY <2>1 DEF ParserInv, NameInv
  <2>3. /\ at' = "noname" /\ UNCHANGED <<buf, offset, sec, nm, rr, pkt>>
        /\ Touch(nm.pos + 1)
    BY <1>2 DEF TruncatedPointer, BadLabel
  <2>4. reach' \in Nat /\ reach' <= End
    BY <2>1, <2>3, TouchIs DEF End
  <2>5. QED BY <2>1, <2>2, <2>3, <2>4, MoveStep
<1>3. CASE Root
  <2>1. /\ at = "name" /\ nm \in NameRecord /\ reach \in Nat /\ reach <= End
        /\ nm.pos + 1 \in Nat /\ nm.pos + 1 <= End
    BY <1>3, InNameIs DEF Root
  <2>2. Counted(1) \in Nat /\ nm.start + Counted(1) <= End
    BY <2>1, CountedIs
  <2>3. /\ at' = "named" /\ UNCHANGED <<buf, offset, sec, rr, pkt>>
        /\ nm' = [nm EXCEPT !.consumed = Counted(1)] /\ Touch(nm.pos + 1)
    BY <1>3 DEF Root
  <2>4. reach' \in Nat /\ reach' <= End
    BY <2>1, <2>3, TouchIs DEF End
  <2>5. /\ nm' \in NameRecord /\ nm'.goal = nm.goal /\ nm'.start = nm.start
        /\ nm'.out = nm.out /\ nm'.max = nm.max /\ nm'.consumed = Counted(1)
    BY <2>1, <2>2, <2>3 DEF NameRecord
  <2>6. Len(nm.out) < nm.max
    BY DEF ParserInv, NameInv
  <2>7. QED BY <2>1, <2>2, <2>3, <2>4, <2>5, <2>6, MoveStep
<1>4. QED BY <1>1, <1>2, <1>3

\* A pointer: what the name consumed stands, wherever it leads.
LEMMA PointerInv ==
    ASSUME ParserInv, Pointer
    PROVE  ParserInv'
<1>1. /\ at = "name" /\ nm \in NameRecord /\ reach \in Nat /\ reach <= End
      /\ nm.pos \in Nat /\ nm.pos + 2 \in Nat /\ nm.pos + 2 <= End
      /\ buf \in Seq(Byte) /\ Octet(nm.pos) >= 192
  BY InNameIs DEF Pointer, IsPointer
<1>2. Counted(2) \in Nat /\ nm.start + Counted(2) <= End
  BY <1>1, CountedIs
<1>3. U16(nm.pos) - 192 * 256 \in Nat
  <2>1. nm.pos + 1 < End
    BY DEF Pointer
  <2>2. QED BY <1>1, <2>1, U16Is
<1> DEFINE to == U16(nm.pos) - 192 * 256
<1>4. /\ nm' = [nm EXCEPT !.consumed = Counted(2), !.counted = TRUE, !.pos = to,
                          !.jumps = @ + 1]
      /\ at' \in {"name", "noname"} /\ Touch(nm.pos + 2)
      /\ UNCHANGED <<buf, offset, sec, rr, pkt>>
  BY DEF Pointer
<1> HIDE DEF to
<1>5. to \in Nat
  BY <1>3 DEF to
<1>6. /\ nm' \in NameRecord /\ nm'.goal = nm.goal /\ nm'.start = nm.start
      /\ nm'.out = nm.out /\ nm'.max = nm.max /\ nm'.consumed = Counted(2)
      /\ nm'.counted = TRUE
  <2>1. /\ nm.jumps + 1 \in Nat /\ nm.goal \in Goal /\ nm.start \in Nat /\ nm.max \in Nat \ {0}
        /\ nm.out \in Seq(Byte)
    BY <1>1 DEF NameRecord
  <2>2. nm' = [goal |-> nm.goal, start |-> nm.start, max |-> nm.max, pos |-> to,
              jumps |-> nm.jumps + 1, out |-> nm.out, consumed |-> Counted(2),
              counted |-> TRUE]
    BY <1>1, <1>4 DEF NameRecord
  <2>3. nm' \in NameRecord
    BY <1>2, <1>5, <2>1, <2>2 DEF NameRecord
  <2>4. QED BY <2>2, <2>3
<1>7. reach' \in Nat /\ reach' <= End
  BY <1>1, <1>4, TouchIs DEF End
<1>8. Len(nm'.out) < nm'.max /\ nm'.start + nm'.consumed <= End
  BY <1>2, <1>6 DEF ParserInv, NameInv
<1>9. at' = "name" /\ ~nm'.counted => nm'.pos = nm'.start + nm'.consumed
  BY <1>6
<1>10. at' \in {"name", "named", "noname"}
  BY <1>4
<1>11. QED BY <1>1, <1>4, <1>6, <1>7, <1>8, <1>9, <1>10, MoveStep

\* A label: the part of it that is kept fits with the end mark.
LEMMA LabelInv ==
    ASSUME ParserInv, Label
    PROVE  ParserInv'
<1>1. /\ at = "name" /\ nm \in NameRecord /\ reach \in Nat /\ reach <= End
      /\ nm.pos \in Nat /\ buf \in Seq(Byte) /\ Octet(nm.pos) \in 0..255 /\ End \in Nat
  BY InNameIs DEF Label
<1>2. PICK len \in 0..255 : len = Octet(nm.pos)
  BY <1>1
<1>3. nm.pos + 1 + len <= End
  BY <1>2 DEF Label, LabelFits
<1>4. Octets(nm.pos + 1, len) \in Seq(Byte)
  BY <1>1, <1>3, OctetsAre
<1> DEFINE dot  == IF nm.out = <<>> THEN <<>> ELSE <<Dot>>
           full == nm.out \o dot \o Octets(nm.pos + 1, len)
           out  == IF Len(full) < nm.max THEN full ELSE SubSeq(full, 1, nm.max - 1)
<1>5. nm.out \in Seq(Byte) /\ nm.max \in Nat \ {0}
  BY <1>1 DEF NameRecord
<1>6. full \in Seq(Byte)
  <2>1. dot \in Seq(Byte)
    <3>1. Dot \in Byte
      BY DEF Dot, Byte
    <3>2. <<>> \in Seq(Byte) /\ <<Dot>> \in Seq(Byte)
      BY <3>1, Single
    <3>3. QED BY <3>2
  <2>2. nm.out \o dot \in Seq(Byte)
    BY <1>5, <2>1, Joined
  <2>3. QED BY <1>4, <2>2, Joined
<1>7. /\ nm' = [nm EXCEPT !.consumed = Counted(1 + len), !.pos = @ + 1 + len, !.out = out]
      /\ at' \in {"name", "noname"} /\ Touch(nm.pos + 1 + len)
      /\ UNCHANGED <<buf, offset, sec, rr, pkt>>
  BY <1>2 DEF Label
<1> HIDE DEF full
<1>8. out \in Seq(Byte) /\ Len(out) < nm.max
  <2>1. CASE Len(full) < nm.max
    BY <1>6, <2>1
  <2>2. CASE ~(Len(full) < nm.max)
    <3>1. nm.max - 1 \in 0..Len(full) /\ 1 \in Nat \ {0}
      BY <1>5, <1>6, <2>2
    <3>2. /\ SubSeq(full, 1, nm.max - 1) \in Seq(Byte)
          /\ Len(SubSeq(full, 1, nm.max - 1)) = IF 1 <= nm.max - 1 THEN nm.max - 1 - 1 + 1 ELSE 0
      BY <1>6, <3>1, Slice
    <3>3. (IF 1 <= nm.max - 1 THEN nm.max - 1 - 1 + 1 ELSE 0) < nm.max
      BY <1>5
    <3>4. QED BY <2>2, <3>2, <3>3
  <2>3. QED BY <2>1, <2>2
<1> HIDE DEF out
<1>9. 1 + len \in Nat /\ nm.pos + (1 + len) <= End /\ nm.pos + 1 + len \in Nat
      /\ nm.pos + 1 + len = nm.pos + (1 + len)
  BY <1>1, <1>3
<1>10. /\ Counted(1 + len) \in Nat /\ nm.start + Counted(1 + len) <= End
       /\ ~nm.counted => nm.pos + (1 + len) = nm.start + Counted(1 + len)
  BY <1>1, <1>9, CountedIs
<1>11. /\ nm' \in NameRecord /\ nm'.goal = nm.goal /\ nm'.start = nm.start
       /\ nm'.out = out /\ nm'.max = nm.max /\ nm'.consumed = Counted(1 + len)
       /\ nm'.pos = nm.pos + 1 + len /\ nm'.counted = nm.counted
  BY <1>1, <1>7, <1>8, <1>9, <1>10 DEF NameRecord
<1>12. reach' \in Nat /\ reach' <= End
  BY <1>1, <1>3, <1>7, <1>9, TouchIs DEF End
<1>13. QED BY <1>1, <1>7, <1>8, <1>9, <1>10, <1>11, <1>12, MoveStep

\* What the invariant says while the packet does not change.
LEMMA Standing ==
    ASSUME ParserInv
    PROVE  /\ pkt \in Packet /\ Tables(pkt) /\ rr \in Record /\ sec \in Section
           /\ buf \in Seq(Byte) /\ offset \in Nat /\ reach \in Nat /\ End \in Nat
           /\ offset <= End /\ reach <= End
  BY Numbers DEF ParserInv, ParserTypes, TableInv, Tables, PlaceInv

\* Leaving a section stays among the sections.
LEMMA LeaveIs ==
    ASSUME sec \in Section, Leave
    PROVE  at' \in {"section", "ok", "error"} /\ sec' \in Section
  BY DEF Leave, Section

\* The parts that end without reading anything.
LEMMA EndsInv ==
    ASSUME ParserInv, ShortHeader \/ BadQuestion \/ SectionEnds \/ BadOwner
    PROVE  ParserInv'
<1>1. UNCHANGED <<buf, offset, nm, rr, pkt, reach>>
  BY DEF ShortHeader, BadQuestion, SectionEnds, BadOwner
<1>2. at' \in {"section", "ok", "error"} /\ sec' \in Section
  BY Standing, LeaveIs DEF ShortHeader, BadQuestion, SectionEnds, BadOwner
<1>3. QED BY <1>1, <1>2, Standing, BetweenStep

\* A name that could be read lies in the packet.
LEMMA GotIs ==
    ASSUME ParserInv, NEW goal \in {"qname", "owner", "mname"}, Got(goal)
    PROVE  /\ offset + nm.consumed \in Nat /\ offset + nm.consumed <= End
           /\ nm.out \in Seq(Byte) /\ nm.consumed \in Nat /\ nm.start = offset
<1>1. offset \in Nat /\ nm.consumed \in Nat /\ nm.out \in Seq(Byte)
  BY Numbers DEF ParserInv
<1>2. nm.start = offset /\ nm.start + nm.consumed <= End
  BY DEF Got, ParserInv, NameInv
<1>3. QED BY <1>1, <1>2

\* The rest of a record is missing.
LEMMA ShortRecordInv ==
    ASSUME ParserInv, ShortRecord
    PROVE  ParserInv'
<1>1. /\ Got("owner") /\ Leave /\ offset' = offset + nm.consumed
      /\ UNCHANGED <<buf, nm, rr, pkt, reach>>
  BY DEF ShortRecord
<1>2. offset' \in Nat /\ offset' <= End
  BY <1>1, GotIs
<1>3. at' \in {"section", "ok", "error"} /\ sec' \in Section
  BY <1>1, Standing, LeaveIs
<1>4. QED BY <1>1, <1>2, <1>3, Standing, BetweenStep

\* The header: the counts are set and the tables still empty.
LEMMA HeaderInv ==
    ASSUME ParserInv, Header
    PROVE  ParserInv'
<1>1. /\ at = "header" /\ End >= 12 /\ buf \in Seq(Byte) /\ End \in Nat
      /\ reach \in Nat /\ reach <= End
  BY Standing DEF Header
<1>2. /\ U16(0) \in Nat /\ U16(2) \in Nat /\ U16(4) \in Nat
      /\ \A s \in Section : U16(4 + 2 * s) \in Nat
  <2>1. ASSUME NEW i \in 0..10 PROVE U16(i) \in Nat
    BY <1>1, U16Is
  <2>2. 0 \in 0..10 /\ 2 \in 0..10 /\ 4 \in 0..10 /\ \A s \in Section : 4 + 2 * s \in 0..10
    BY DEF Section
  <2>3. QED BY <2>1, <2>2
<1> DEFINE count == [s \in Section |-> U16(4 + 2 * s)]
<1>3. count \in [Section -> Nat] /\ U16(2) % 16 \in Nat
  BY <1>2
<1>4. pkt = NoPacket
  BY <1>1 DEF ParserInv, TableInv
<1> HIDE DEF count
<1>5. /\ pkt' = [pkt EXCEPT !.id = U16(0), !.rcode = U16(2) % 16, !.qdcount = U16(4),
                            !.count = count]
      /\ offset' = 12 /\ Touch(12) /\ UNCHANGED <<buf, sec, rr>>
      /\ \/ StartName("qname", 12, MaxName)
         \/ at' = "section" /\ UNCHANGED nm
  BY DEF Header, count
<1>6. /\ pkt' \in Packet /\ pkt'.count = count
      /\ pkt'.records = [s \in Section |-> <<>>]
  <2>1. pkt \in Packet /\ pkt.records = [s \in Section |-> <<>>]
    BY <1>4, Standing DEF NoPacket
  <2>2. QED BY <1>2, <1>3, <1>5, <2>1 DEF Packet
<1>7. Tables(pkt')
  <2>1. ASSUME NEW s \in Section PROVE pkt'.records[s] = <<>> /\ pkt'.count[s] \in Nat
    BY <1>3, <1>6
  <2>2. Len(<<>>) = 0
    OBVIOUS
  <2>3. QED BY <2>1, <2>2, DnsLimits DEF Tables
<1>8. reach' \in Nat /\ reach' <= End /\ offset' \in Nat /\ offset' <= End
  BY <1>1, <1>5, TouchIs DEF End
<1>9. CASE StartName("qname", 12, MaxName)
  <2>1. "qname" \in Goal \ {"none"} /\ 12 \in Nat /\ MaxName \in Nat \ {0}
    BY DnsLimits DEF Goal
  <2>2. rr' \in Record
    BY <1>5, Standing
  <2>3. QED BY <1>1, <1>5, <1>6, <1>7, <1>8, <1>9, <2>1, <2>2, StartStep
<1>10. CASE at' = "section" /\ UNCHANGED nm
  <2>1. rr' \in Record /\ sec' \in Section
    BY <1>5, Standing
  <2>2. QED BY <1>5, <1>6, <1>7, <1>8, <1>10, <2>1, BetweenStep
<1>11. QED BY <1>5, <1>9, <1>10

\* The question, and the two numbers behind its name.
LEMMA QuestionInv ==
    ASSUME ParserInv, Question
    PROVE  ParserInv'
<1> DEFINE o == offset + nm.consumed
<1>1. /\ Got("qname") /\ o + 4 <= End /\ offset' = o + 4 /\ Touch(o + 4) /\ at' = "section"
      /\ pkt' = [pkt EXCEPT !.qname = nm.out, !.qtype = U16(o), !.qclass = U16(o + 2)]
      /\ UNCHANGED <<buf, sec, nm, rr>>
  BY DEF Question
<1>2. o \in Nat /\ nm.out \in Seq(Byte)
  BY <1>1, GotIs
<1> HIDE DEF o
<1>3. U16(o) \in Nat /\ U16(o + 2) \in Nat
  <2>1. buf \in Seq(Byte) /\ End \in Nat
    BY Standing
  <2>2. o + 1 < End /\ o + 2 \in Nat /\ (o + 2) + 1 < End
    BY <1>1, <1>2, <2>1
  <2>3. QED BY <1>2, <2>1, <2>2, U16Is
<1>4. pkt' \in Packet /\ pkt'.records = pkt.records /\ pkt'.count = pkt.count
  BY <1>1, <1>2, <1>3, Standing DEF Packet
<1>5. Tables(pkt')
  BY <1>4, Standing DEF Tables
<1>6. o + 4 \in Nat
  BY <1>2
<1>7. reach' \in Nat /\ reach' <= End
  BY <1>1, <1>6, Standing, TouchIs DEF End
<1>8. QED BY <1>1, <1>4, <1>5, <1>6, <1>7, Standing, BetweenStep

\* The name of a record is read only if there is room for the record.
LEMMA OwnerInv ==
    ASSUME ParserInv, Owner
    PROVE  ParserInv'
<1>1. /\ MoreRecords /\ StartName("owner", offset, MaxName)
      /\ UNCHANGED <<buf, offset, sec, rr, pkt, reach>>
  BY DEF Owner
<1>2. Recorded' < MaxRecords /\ Recorded' < Wanted'
  BY <1>1 DEF MoreRecords, Recorded, Wanted
<1>3. "owner" \in Goal \ {"none"} /\ MaxName \in Nat \ {0}
  BY DnsLimits DEF Goal
<1>4. QED BY <1>1, <1>2, <1>3, Standing, StartStep

\* The fixed fields of a record; its data begin only if the packet holds them all.
LEMMA FixedInv ==
    ASSUME ParserInv, Fixed
    PROVE  ParserInv'
<1> DEFINE o == offset + nm.consumed
           r == [NoRecord EXCEPT !.name = nm.out, !.type = U16(o), !.ttl = Octets(o + 4, 4),
                                 !.from = o + 10, !.rdlength = U16(o + 8)]
<1>1. /\ Got("owner") /\ o + 10 <= End /\ rr' = r /\ offset' = o + 10 /\ Touch(o + 10)
      /\ \/ Leave
         \/ /\ o + 10 + U16(o + 8) <= End
            /\ at' = "rdata" /\ UNCHANGED sec
      /\ UNCHANGED <<buf, nm, pkt>>
  <2>1. /\ Got("owner") /\ o + 10 <= End /\ rr' = r /\ offset' = o + 10 /\ Touch(o + 10)
        /\ IF o + 10 + U16(o + 8) > End THEN Leave ELSE at' = "rdata" /\ UNCHANGED sec
        /\ UNCHANGED <<buf, nm, pkt>>
    BY DEF Fixed
  <2>2. ~(o + 10 + U16(o + 8) > End) => o + 10 + U16(o + 8) <= End
    <3>1. o \in Nat /\ End \in Nat /\ buf \in Seq(Byte)
      BY <2>1, GotIs, Standing
    <3>2. o + 8 \in Nat /\ (o + 8) + 1 < End
      BY <2>1, <3>1
    <3>3. U16(o + 8) \in Nat
      BY <3>1, <3>2, U16Is
    <3>4. QED BY <3>1, <3>3
  <2>3. QED BY <2>1, <2>2
<1>2. o \in Nat /\ nm.out \in Seq(Byte) /\ End \in Nat /\ buf \in Seq(Byte)
  BY <1>1, GotIs, Standing
<1>3. U16(o) \in Nat /\ U16(o + 8) \in Nat /\ Octets(o + 4, 4) \in Seq(Byte) /\ o + 10 \in Nat
  <2> HIDE DEF o
  <2>1. o + 1 < End /\ o + 8 \in Nat /\ (o + 8) + 1 < End /\ o + 4 \in Nat /\ (o + 4) + 4 <= End
        /\ 4 \in Nat /\ o + 10 \in Nat
    BY <1>1, <1>2
  <2>2. QED BY <1>2, <2>1, U16Is, OctetsAre
<1> HIDE DEF o
<1>4. r \in Record /\ r.rdlength = U16(o + 8)
  <2>1. <<>> \in Seq(Byte) /\ <<>> \in Seq(Seq(Byte))
    OBVIOUS
  <2>2. QED BY <1>2, <1>3, <2>1 DEF NoRecord, Record
<1> HIDE DEF r
<1>5. reach' \in Nat /\ reach' <= End
  BY <1>1, <1>3, Standing, TouchIs DEF End
<1>6. CASE Leave
  <2>1. at' \in {"section", "ok", "error"} /\ sec' \in Section
    BY <1>6, Standing, LeaveIs
  <2>2. QED BY <1>1, <1>3, <1>4, <1>5, <2>1, Standing, BetweenStep
<1>7. CASE /\ o + 10 + U16(o + 8) <= End
           /\ at' = "rdata" /\ UNCHANGED sec
  <2>1. End' = End /\ at = "named" /\ nm.goal = "owner"
    BY <1>1 DEF End, Got
  <2>2. ParserTypes'
    BY <1>1, <1>3, <1>4, <1>5, <1>7 DEF ParserInv, ParserTypes
  <2>3. NameInv'
    BY <1>1, <1>7 DEF ParserInv, NameInv
  <2>4. TableInv'
    <3>1. Recorded' = Recorded /\ Wanted' = Wanted
      BY <1>1, <1>7 DEF Recorded, Wanted
    <3>2. Recorded < MaxRecords /\ Recorded < Wanted
      BY <2>1 DEF ParserInv, TableInv, InNameOf
    <3>3. QED BY <1>1, <1>7, <3>1, <3>2, Standing DEF TableInv, Tables
  <2>5. PlaceInv'
    BY <1>1, <1>4, <1>5, <1>7, <2>1 DEF PlaceInv
  <2>6. QED BY <2>2, <2>3, <2>4, <2>5 DEF ParserInv
<1>8. QED BY <1>1, <1>6, <1>7

-----------------------------------------------------------------------------
(* Steps in the data of a record                                           *)

\* The data lie in the packet.
LEMMA DataIs ==
    ASSUME ParserInv, InData
    PROVE  /\ rr.rdlength \in Nat /\ offset + rr.rdlength <= End
           /\ Recorded < MaxRecords /\ Recorded < Wanted
  BY Numbers DEF ParserInv, PlaceInv, TableInv

\* A record with other data is a record.
LEMMA WithData ==
    ASSUME rr \in Record, NEW d \in Seq(Seq(Byte))
    PROVE  /\ [rr EXCEPT !.rdata = d] \in Record
           /\ [rr EXCEPT !.rdata = d].rdlength = rr.rdlength
  BY DEF Record

\* An address, if the data have the length of one.
LEMMA AddressInv ==
    ASSUME ParserInv, Address
    PROVE  ParserInv'
<1> DEFINE size == IF rr.type = A THEN 4 ELSE 16
<1>1. InData
  BY DEF Address, InData
<1>2. CASE rr.rdlength = size
  <2>1. Keep([rr EXCEPT !.ip = Octets(offset, size)]) /\ Touch(offset + size)
    BY <1>2 DEF Address
  <2>2. size \in Nat
    OBVIOUS
  <2> HIDE DEF size
  <2>3. offset + size \in Nat /\ offset + size <= End
    BY <1>1, <1>2, <2>2, DataIs, Standing
  <2>4. Octets(offset, size) \in Seq(Byte)
    BY <2>2, <2>3, Standing, OctetsAre
  <2>5. [rr EXCEPT !.ip = Octets(offset, size)] \in Record
    BY <2>4, Standing DEF Record
  <2>6. UNCHANGED buf
    BY <2>1 DEF Keep
  <2>7. reach' \in Nat /\ reach' <= End
    BY <2>1, <2>3, <2>6, Standing, TouchIs DEF End
  <2>8. QED BY <1>1, <2>1, <2>5, <2>7, KeepStep
<1>3. CASE rr.rdlength # size
  <2>1. Keep(rr) /\ UNCHANGED reach
    BY <1>3 DEF Address
  <2>2. QED BY <1>1, <2>1, Standing, KeepStep
<1>4. QED BY <1>2, <1>3

\* n octets of the data, the first of them m behind their beginning.
LEMMA KeepOctets ==
    ASSUME ParserInv, InData, NEW m \in Nat, NEW n \in Nat, m + n <= rr.rdlength,
           Keep([rr EXCEPT !.rdata = <<Octets(offset + m, n)>>]), Touch(offset + m + n)
    PROVE  ParserInv'
<1>1. /\ offset + m \in Nat /\ (offset + m) + n \in Nat /\ (offset + m) + n <= End
  BY DataIs, Standing
<1>2. Octets(offset + m, n) \in Seq(Byte)
  BY <1>1, Standing, OctetsAre
<1>3. <<Octets(offset + m, n)>> \in Seq(Seq(Byte))
  BY <1>2, Single
<1>4. [rr EXCEPT !.rdata = <<Octets(offset + m, n)>>] \in Record
  BY <1>3, Standing, WithData
<1>5. UNCHANGED buf
  BY DEF Keep
<1>6. reach' \in Nat /\ reach' <= End
  BY <1>1, <1>5, Standing, TouchIs DEF End
<1>7. QED BY <1>4, <1>6, KeepStep

\* Text: no more than its first octet says, the record holds and the buffer takes.
LEMMA TextInv ==
    ASSUME ParserInv, Text
    PROVE  ParserInv'
<1>1. InData
  BY DEF Text, InData
<1>2. CASE rr.rdlength = 0
  <2>1. Keep(rr) /\ UNCHANGED reach
    BY <1>2 DEF Text
  <2>2. QED BY <1>1, <2>1, Standing, KeepStep
<1>3. CASE rr.rdlength # 0
  <2>1. rr.rdlength \in Nat \ {0} /\ offset < End
    BY <1>1, <1>3, DataIs, Standing
  <2>2. Octet(offset) \in 0..255
    BY <2>1, Standing, OctetIs
  <2> DEFINE copy == Smaller(Octet(offset), rr.rdlength - 1)
             out  == Smaller(copy, MaxRdata - 1)
  <2>3. copy \in Nat /\ copy <= rr.rdlength - 1
    <3>1. PICK k \in 0..255 : k = Octet(offset)
      BY <2>2
    <3>2. Smaller(k, rr.rdlength - 1) \in Nat /\ Smaller(k, rr.rdlength - 1) <= rr.rdlength - 1
      BY <2>1 DEF Smaller
    <3>3. QED BY <3>1, <3>2
  <2>4. /\ Keep([rr EXCEPT !.rdata = <<Octets(offset + 1, out)>>])
        /\ Touch(offset + 1 + out)
    BY <1>3 DEF Text
  <2> HIDE DEF copy
  <2>5. out \in Nat /\ out <= rr.rdlength - 1
    BY <2>1, <2>3, DnsLimits DEF Smaller
  <2> HIDE DEF out
  <2>6. 1 \in Nat /\ 1 + out <= rr.rdlength
    BY <2>1, <2>5
  <2>7. QED BY <1>1, <2>4, <2>5, <2>6, KeepOctets
<1>4. QED BY <1>2, <1>3

\* Other data, as far as the buffer takes them.
LEMMA HexadecimalInv ==
    ASSUME ParserInv, Hexadecimal
    PROVE  ParserInv'
<1> DEFINE n == Smaller(rr.rdlength, (MaxRdata - 2) \div 2)
<1>1. InData
  BY DEF Hexadecimal, InData
<1>2. n \in Nat /\ n <= rr.rdlength
  <2>1. (MaxRdata - 2) \div 2 \in Nat
    BY DnsLimits
  <2>2. rr.rdlength \in Nat
    BY <1>1, DataIs
  <2>3. QED BY <2>1, <2>2 DEF Smaller
<1>3. /\ Keep([rr EXCEPT !.rdata = <<Octets(offset, n)>>])
      /\ Touch(offset + n)
  BY DEF Hexadecimal
<1> HIDE DEF n
<1>4. offset + 0 = offset /\ 0 \in Nat /\ 0 + n <= rr.rdlength
  BY <1>2, Standing
<1>5. QED BY <1>1, <1>2, <1>3, <1>4, KeepOctets

\* A name inside the data: the decoder starts in the packet, in the same record.
LEMMA StartInData ==
    ASSUME ParserInv, InData, NEW goal \in {"target", "exchange", "mname", "rname"},
           NEW start \in Nat, NEW max \in {MaxName, MaxRdata},
           StartName(goal, start, max), start <= End, UNCHANGED <<buf, offset, sec, pkt>>,
           goal = "mname" => start = offset, goal = "exchange" => rr.rdlength >= 3,
           rr' \in Record, rr'.rdlength = rr.rdlength, reach' \in Nat, reach' <= End
    PROVE  ParserInv'
<1>1. /\ pkt' \in Packet /\ Tables(pkt') /\ offset' \in Nat /\ offset' <= End
  BY Standing
<1>2. /\ Recorded' < MaxRecords /\ Recorded' < Wanted' /\ offset' + rr'.rdlength <= End
  BY DataIs DEF Recorded, Wanted
<1>3. goal \in Goal \ {"none"} /\ max \in Nat \ {0}
  BY DnsLimits DEF Goal
<1>4. /\ goal \in {"qname", "owner", "mname"} => start = offset'
      /\ goal = "exchange" => rr'.rdlength >= 3
  OBVIOUS
<1>5. QED BY <1>1, <1>2, <1>3, <1>4, StartStep

LEMMA StartNameInv ==
    ASSUME ParserInv, Target \/ Exchange \/ Authority
    PROVE  ParserInv'
<1>1. InData /\ offset \in Nat /\ offset <= End /\ End \in Nat /\ UNCHANGED <<buf, offset, sec, rr, pkt>>
  BY Standing DEF Target, Exchange, Authority, InData
<1>2. CASE Target
  BY <1>1, <1>2, Standing, StartInData DEF Target
<1>3. CASE Exchange
  <2>1. /\ StartName("exchange", offset + 2, MaxName) /\ Touch(offset + 2) /\ rr.rdlength >= 3
    BY <1>3 DEF Exchange
  <2>2. offset + 2 \in Nat /\ offset + 2 <= End
    BY <1>1, <2>1, DataIs
  <2>3. reach' \in Nat /\ reach' <= End
    BY <1>1, <2>1, <2>2, Standing, TouchIs DEF End
  <2>4. QED BY <1>1, <2>1, <2>2, <2>3, Standing, StartInData
<1>4. CASE Authority
  BY <1>1, <1>4, Standing, StartInData DEF Authority
<1>5. QED BY <1>2, <1>3, <1>4

\* The second name of an authority follows the first.
LEMMA AuthorityNameInv ==
    ASSUME ParserInv, AuthorityName
    PROVE  ParserInv'
<1>1. /\ Got("mname") /\ rr' = [rr EXCEPT !.rdata = <<nm.out>>]
      /\ StartName("rname", offset + nm.consumed, MaxName)
      /\ UNCHANGED <<buf, offset, sec, pkt, reach>>
  BY DEF AuthorityName
<1>2. InData
  BY <1>1 DEF Got, InData, InNameOf
<1>3. offset + nm.consumed \in Nat /\ offset + nm.consumed <= End /\ nm.out \in Seq(Byte)
  BY <1>1, GotIs
<1>4. <<nm.out>> \in Seq(Seq(Byte))
  BY <1>3, Single
<1>5. rr' \in Record /\ rr'.rdlength = rr.rdlength
  BY <1>1, <1>4, Standing, WithData
<1>6. QED BY <1>1, <1>2, <1>3, <1>5, Standing, StartInData

\* A record is kept with the name that was read, or without data.
LEMMA KeepNameInv ==
    ASSUME ParserInv, TargetRead \/ ShortExchange \/ NoRdata
    PROVE  ParserInv'
<1>1. InData /\ UNCHANGED reach
  BY DEF TargetRead, ShortExchange, NoRdata, Got, Lost, InData, InNameOf
<1>2. CASE TargetRead
  <2>1. <<nm.out>> \in Seq(Seq(Byte))
    BY Numbers, Single DEF ParserInv
  <2>2. [rr EXCEPT !.rdata = <<nm.out>>] \in Record
    BY <2>1, Standing, WithData
  <2>3. QED BY <1>1, <1>2, <2>2, Standing, KeepStep DEF TargetRead
<1>3. CASE ShortExchange
  BY <1>1, <1>3, Standing, KeepStep DEF ShortExchange
<1>4. CASE NoRdata
  <2>1. <<>> \in Seq(Seq(Byte))
    OBVIOUS
  <2>2. [rr EXCEPT !.rdata = <<>>] \in Record
    BY <2>1, Standing, WithData
  <2>3. QED BY <1>1, <1>4, <2>2, Standing, KeepStep DEF NoRdata
<1>5. QED BY <1>2, <1>3, <1>4

\* The preference of an exchange stands before its name.
LEMMA ExchangeReadInv ==
    ASSUME ParserInv, ExchangeRead
    PROVE  ParserInv'
<1>1. /\ Got("exchange") /\ Keep([rr EXCEPT !.rdata = <<Octets(offset, 2), nm.out>>])
      /\ UNCHANGED reach
  BY DEF ExchangeRead
<1>2. InData
  BY <1>1 DEF Got, InData, InNameOf
<1>3. rr.rdlength >= 3
  BY <1>1 DEF Got, ParserInv, NameInv
<1>4. 2 \in Nat /\ offset + 2 <= End
  BY <1>2, <1>3, DataIs, Standing
<1>5. Octets(offset, 2) \in Seq(Byte) /\ nm.out \in Seq(Byte)
  BY <1>4, Standing, Numbers, OctetsAre DEF ParserInv
<1>6. <<Octets(offset, 2), nm.out>> \in Seq(Seq(Byte))
  BY <1>5, Pairs
<1>7. [rr EXCEPT !.rdata = <<Octets(offset, 2), nm.out>>] \in Record
  BY <1>6, Standing, WithData
<1>8. QED BY <1>1, <1>2, <1>7, Standing, KeepStep

\* The numbers of an authority are read only if the data hold them.
LEMMA AuthorityReadInv ==
    ASSUME ParserInv, AuthorityRead
    PROVE  ParserInv'
<1> DEFINE n == nm.start + nm.consumed
<1>1. Got("rname") /\ InData
  BY DEF AuthorityRead, Got, InData, InNameOf
<1>2. n \in Nat /\ nm.out \in Seq(Byte) /\ rr.rdata \in Seq(Seq(Byte))
  BY Numbers DEF ParserInv
<1>3. /\ n + 20 <= offset + rr.rdlength =>
           /\ Keep([rr EXCEPT !.rdata = rr.rdata \o <<nm.out, Octets(n, 20)>>])
           /\ Touch(n + 20)
      /\ ~(n + 20 <= offset + rr.rdlength) =>
           Keep([rr EXCEPT !.rdata = <<>>]) /\ UNCHANGED reach
  BY DEF AuthorityRead
<1> HIDE DEF n
<1>4. CASE n + 20 <= offset + rr.rdlength
  <2>1. n + 20 \in Nat /\ n + 20 <= End /\ 20 \in Nat
    BY <1>1, <1>2, <1>4, DataIs, Standing
  <2>2. Octets(n, 20) \in Seq(Byte)
    BY <1>2, <2>1, Standing, OctetsAre
  <2>3. <<nm.out, Octets(n, 20)>> \in Seq(Seq(Byte))
    BY <1>2, <2>2, Pairs
  <2>4. rr.rdata \o <<nm.out, Octets(n, 20)>> \in Seq(Seq(Byte))
    BY <1>2, <2>3, Joined
  <2>5. [rr EXCEPT !.rdata = rr.rdata \o <<nm.out, Octets(n, 20)>>] \in Record
    BY <2>4, Standing, WithData
  <2>6. UNCHANGED buf
    BY <1>3, <1>4 DEF Keep
  <2>7. reach' \in Nat /\ reach' <= End
    BY <1>3, <1>4, <2>1, <2>6, Standing, TouchIs DEF End
  <2>8. QED BY <1>1, <1>3, <1>4, <2>5, <2>7, KeepStep
<1>5. CASE ~(n + 20 <= offset + rr.rdlength)
  <2>1. <<>> \in Seq(Seq(Byte))
    OBVIOUS
  <2>2. [rr EXCEPT !.rdata = <<>>] \in Record
    BY <2>1, Standing, WithData
  <2>3. QED BY <1>1, <1>3, <1>5, <2>2, Standing, KeepStep
<1>6. QED BY <1>4, <1>5

\* No step of the parser leaves its buffers.
LEMMA ParserNextInv ==
    ASSUME ParserInv, ParserNext
    PROVE  ParserInv'
<1>1. CASE NameStep
  BY <1>1, NameEndsInv, PointerInv, LabelInv DEF NameStep
<1>2. CASE ShortHeader \/ BadQuestion \/ SectionEnds \/ BadOwner
  BY <1>2, EndsInv
<1>3. CASE Header \/ Question \/ Owner \/ ShortRecord \/ Fixed
  BY <1>3, HeaderInv, QuestionInv, OwnerInv, ShortRecordInv, FixedInv
<1>4. CASE Address \/ Text \/ Hexadecimal
  BY <1>4, AddressInv, TextInv, HexadecimalInv
<1>5. CASE Target \/ Exchange \/ Authority \/ AuthorityName
  BY <1>5, StartNameInv, AuthorityNameInv
<1>6. CASE TargetRead \/ ShortExchange \/ NoRdata \/ ExchangeRead \/ AuthorityRead
  BY <1>6, KeepNameInv, ExchangeReadInv, AuthorityReadInv
<1>7. QED BY <1>1, <1>2, <1>3, <1>4, <1>5, <1>6 DEF ParserNext

-----------------------------------------------------------------------------
(* Sessions                                                                *)

Context == [parsed : BOOLEAN, pkt : Packet]

\* A session's types, with what it has passed on inside what its sides send.
SessionTypes ==
    /\ talk \in Talk
    /\ phase \in {"preread", "preparsing", "waiting", "proxy", "parsing up", "parsing down",
                  "closed"}
    /\ held \in 0..Len(talk.client.octets) /\ up \in 0..Len(talk.client.octets)
    /\ down \in 0..Len(talk.upstream.octets)
    /\ request \in Context
    /\ response \in Context

\* A call is only made for what has not been parsed, and only where the parser is on.
CallInv ==
    /\ InCall => Enabled
    /\ request.parsed = TRUE => Enabled
    /\ response.parsed = TRUE => Enabled
    /\ phase \in {"preparsing", "parsing up"} => request.parsed = FALSE
    /\ phase = "parsing down" => response.parsed = FALSE
    /\ UDP => phase # "waiting"

IInv == ParserInv /\ SessionTypes /\ CallInv

\* What the assumption says of the session that runs.
LEMMA TalkIs ==
    ASSUME talk \in Talk
    PROVE  /\ talk.stream \in Level /\ talk.server \in Level
           /\ talk.client.octets \in Seq(Byte) /\ talk.upstream.octets \in Seq(Byte)
           /\ talk.client.ends \subseteq 1..Len(talk.client.octets)
           /\ talk.upstream.ends \subseteq 1..Len(talk.upstream.octets)
  BY TalkAssumption

LEMMA MaxSizeIs ==
    ASSUME talk \in Talk
    PROVE  MaxSize \in Nat
<1>1. talk.stream.max_size \in Nat \cup {Unset} /\ talk.server.max_size \in Nat \cup {Unset}
  BY TalkIs DEF Level
<1>2. QED BY <1>1, SizeAssumption DEF MaxSize, Merged

\* A read ends inside what a side sends.
LEMMA ReadsInside ==
    ASSUME NEW side, side.octets \in Seq(Byte), side.ends \subseteq 1..Len(side.octets),
           NEW after \in Nat, NEW n \in Reads(side, after)
    PROVE  n \in 0..Len(side.octets)
<1>1. Len(side.octets) \in Nat
  OBVIOUS
<1>2. CASE UDP
  BY <1>1, <1>2 DEF Reads
<1>3. CASE ~UDP
  BY <1>1, <1>3 DEF Reads
<1>4. QED BY <1>2, <1>3

\* What is cut off, gathered and unframed are octets.
LEMMA CutIs ==
    ASSUME NEW s \in Seq(Byte), NEW n \in Nat
    PROVE  Upto(s, n) \in Seq(Byte)
<1>1. Smaller(n, Len(s)) \in 0..Len(s)
  BY DEF Smaller
<1>2. QED BY <1>1, Slice DEF Upto

LEMMA GatheredIs ==
    ASSUME talk \in Talk, NEW side, side.octets \in Seq(Byte), NEW from \in Nat,
           NEW to \in 0..Len(side.octets)
    PROVE  Gathered(side, from, to) \in Seq(Byte)
<1> DEFINE chain == SubSeq(side.octets, from + 1, to)
           most  == IF MaxSize > 0 THEN MaxSize ELSE 4096
<1>1. from + 1 \in Nat \ {0}
  OBVIOUS
<1>2. chain \in Seq(Byte)
  BY <1>1, Slice
<1>3. most \in Nat
  BY MaxSizeIs
<1>4. Gathered(side, from, to) = Upto(chain, most)
  BY DEF Gathered
<1> HIDE DEF chain, most
<1>5. QED BY <1>2, <1>3, <1>4, CutIs

LEMMA UnframedIs ==
    ASSUME NEW b \in Seq(Byte), NEW stream
    PROVE  Unframed(b, stream) \in Seq(Byte)
<1>1. Len(b) \in 0..Len(b) /\ 3 \in Nat \ {0}
  OBVIOUS
<1>2. SubSeq(b, 3, Len(b)) \in Seq(Byte)
  BY <1>1, Slice
<1>3. QED BY <1>2 DEF Unframed

\* The states in which the parser is not running, or has not begun.
LEMMA Constants ==
    /\ NoPacket \in Packet /\ NoRecord \in Record /\ Tables(NoPacket)
    /\ NoName.goal = "none" /\ NoName.out = <<>> /\ NoName.max = 1
    /\ NoName \in NameRecord /\ Len(<<>>) = 0 /\ <<>> \in Seq(Byte)
<1>1. /\ <<>> \in Seq(Byte) /\ <<>> \in Seq(Record) /\ <<>> \in Seq(Seq(Byte)) /\ Len(<<>>) = 0
  OBVIOUS
<1>2. NoRecord \in Record
  BY <1>1 DEF NoRecord, Record
<1>3. NoName \in NameRecord /\ NoName.goal = "none" /\ NoName.out = <<>> /\ NoName.max = 1
  BY <1>1 DEF NoName, Name, NameRecord, Goal
<1>4. /\ NoPacket \in Packet /\ \A s \in Section : NoPacket.records[s] = <<>>
      /\ \A s \in Section : NoPacket.count[s] = 0
  BY <1>1 DEF NoPacket, Packet
<1>5. Tables(NoPacket)
  BY <1>1, <1>4, DnsLimits DEF Tables
<1>6. QED BY <1>1, <1>2, <1>3, <1>4, <1>5

LEMMA FreshParser ==
    ASSUME buf' \in Seq(Byte), at' \in {"idle", "header"}, offset' = 0, sec' = 1,
           nm' = NoName, rr' = NoRecord, pkt' = NoPacket, reach' = 0
    PROVE  ParserInv'
<1>1. ParserTypes'
  BY Constants DEF ParserTypes, NameRecord, Section
<1>2. NameInv'
  BY Constants DEF NameInv
<1>3. ~InData' /\ ~InNameOf({"owner"})'
  BY DEF InData, InNameOf
<1>4. TableInv'
  BY <1>3, Constants DEF TableInv, Tables
<1>5. Len(buf') \in Nat
  OBVIOUS
<1>6. PlaceInv'
  BY <1>3, <1>5 DEF PlaceInv, End
<1>7. QED BY <1>1, <1>2, <1>4, <1>6 DEF ParserInv

LEMMA ParseInv ==
    ASSUME NEW b \in Seq(Byte), NEW stream, Parse(b, stream)
    PROVE  ParserInv'
<1>1. buf' \in Seq(Byte)
  BY UnframedIs DEF Parse
<1>2. QED BY <1>1, FreshParser DEF Parse

LEMMA ForgetInv ==
    ASSUME Forget
    PROVE  ParserInv'
  BY Constants, FreshParser DEF Forget

\* Whether the parser is on, and the transport, do not change with the session's state.
LEMMA SameTalk ==
    ASSUME UNCHANGED talk
    PROVE  Enabled' = Enabled /\ UDP' = UDP
  BY DEF Enabled, Merged, Switch, UDP

\* A step that leaves the parser and its results alone.
LEMMA PassStep ==
    ASSUME IInv, UNCHANGED <<parserVars, talk, request, response>>,
           phase' \in {"preread", "waiting", "proxy", "closed"},
           phase' = "waiting" => ~UDP,
           held' \in 0..Len(talk.client.octets), up' \in 0..Len(talk.client.octets),
           down' \in 0..Len(talk.upstream.octets)
    PROVE  IInv'
<1>1. ParserInv'
  BY DEF IInv, parserVars, ParserInv, ParserTypes, NameInv, TableInv, PlaceInv, InData, InNameOf,
         Recorded, Wanted, End
<1>2. SessionTypes'
  BY DEF IInv, SessionTypes
<1>3. CallInv'
  <2>1. ~InCall' /\ phase' \notin {"preparsing", "parsing up", "parsing down"}
    BY DEF InCall
  <2>2. Enabled' = Enabled /\ UDP' = UDP
    BY SameTalk
  <2>3. UDP' => phase' # "waiting"
    BY <2>2
  <2>4. /\ request'.parsed = TRUE => Enabled'
        /\ response'.parsed = TRUE => Enabled'
    BY <2>2 DEF IInv, CallInv
  <2>5. QED BY <2>1, <2>3, <2>4 DEF CallInv
<1>4. QED BY <1>1, <1>2, <1>3 DEF IInv

\* A call begins, for what has not been parsed.
LEMMA CallStep ==
    ASSUME IInv, NEW b \in Seq(Byte), NEW stream, Parse(b, stream), Enabled,
           UNCHANGED <<talk, held, request, response>>,
           phase' \in {"preparsing", "parsing up", "parsing down"},
           phase' \in {"preparsing", "parsing up"} => request.parsed = FALSE,
           phase' = "parsing down" => response.parsed = FALSE,
           up' \in 0..Len(talk.client.octets), down' \in 0..Len(talk.upstream.octets)
    PROVE  IInv'
<1>1. ParserInv'
  BY ParseInv
<1>2. SessionTypes'
  BY DEF IInv, SessionTypes
<1>3. CallInv'
  BY SameTalk DEF IInv, CallInv, InCall
<1>4. QED BY <1>1, <1>2, <1>3 DEF IInv

\* A result that is kept is a packet.
LEMMA LatchIs ==
    ASSUME ParserInv, NEW ctx \in Context
    PROVE  Latch(ctx) \in Context
<1>1. pkt \in Packet
  BY Standing
<1>2. QED BY <1>1 DEF Latch, Context

\* The handlers and the filter around a call.
LEMMA CalledInv ==
    ASSUME IInv, PrereadParsed \/ ParsedUp \/ ParsedDown
    PROVE  IInv'
<1>1. /\ InCall /\ phase' = "proxy" /\ Forget /\ UNCHANGED <<talk, held, up, down>>
      /\ request' \in {request, Latch(request)} /\ response' \in {response, Latch(response)}
  BY DEF PrereadParsed, ParsedUp, ParsedDown, InCall
<1>2. request' \in Context /\ response' \in Context
  BY <1>1, LatchIs DEF IInv, SessionTypes
<1>3. ParserInv'
  BY <1>1, ForgetInv
<1>4. SessionTypes'
  BY <1>1, <1>2 DEF IInv, SessionTypes
<1>5. Enabled
  BY <1>1 DEF IInv, CallInv
<1>6. CallInv'
  BY <1>1, <1>5, SameTalk DEF CallInv, InCall
<1>7. QED BY <1>3, <1>4, <1>6 DEF IInv

LEMMA CallInvs ==
    ASSUME IInv, PrereadParse \/ ParseUp \/ ParseDown
    PROVE  IInv'
<1>1. /\ talk \in Talk /\ talk.client.octets \in Seq(Byte) /\ talk.upstream.octets \in Seq(Byte)
      /\ talk.client.ends \subseteq 1..Len(talk.client.octets)
      /\ talk.upstream.ends \subseteq 1..Len(talk.upstream.octets)
      /\ held \in 0..Len(talk.client.octets) /\ up \in 0..Len(talk.client.octets)
      /\ down \in 0..Len(talk.upstream.octets)
      /\ request \in Context /\ response \in Context
  BY TalkIs DEF IInv, SessionTypes
<1>2. Len(talk.client.octets) \in Nat /\ Len(talk.upstream.octets) \in Nat
  BY <1>1
<1>3. CASE PrereadParse
  <2> DEFINE b == IF MaxSize > 0 THEN Upto(Buffered, MaxSize) ELSE Buffered
  <2>1. 1 \in Nat \ {0}
    OBVIOUS
  <2>2. Buffered \in Seq(Byte)
    BY <1>1, <2>1, Slice DEF Buffered
  <2>3. b \in Seq(Byte)
    BY <1>1, <2>2, MaxSizeIs, CutIs
  <2>4. /\ Parse(b, TCP) /\ Enabled /\ ~request.parsed /\ phase' = "preparsing"
        /\ UNCHANGED <<talk, held, up, down, request, response>>
    BY <1>3 DEF PrereadParse, sessionVars
  <2> HIDE DEF b
  <2>5. request.parsed = FALSE
    BY <1>1, <2>4 DEF Context
  <2>6. QED BY <1>1, <2>3, <2>4, <2>5, CallStep
<1>4. CASE ParseUp
  <2>1. PICK n \in Outgoing :
          /\ Inspects(request, Gathered(talk.client, up, n))
          /\ Parse(Gathered(talk.client, up, n), TCP)
          /\ up' = n
    BY <1>4 DEF ParseUp
  <2>2. n \in 0..Len(talk.client.octets)
    <3>1. CASE up < held
      BY <1>1, <3>1 DEF Outgoing
    <3>2. CASE ~(up < held)
      <4>1. up \in Nat
        BY <1>1, <1>2
      <4>2. QED BY <1>1, <3>2, <4>1, ReadsInside DEF Outgoing
    <3>3. QED BY <3>1, <3>2
  <2>3. up \in Nat
    BY <1>1, <1>2
  <2>4. Gathered(talk.client, up, n) \in Seq(Byte)
    BY <1>1, <2>2, <2>3, GatheredIs
  <2>5. Enabled /\ request.parsed = FALSE
    BY <1>1, <2>1 DEF Inspects, Context
  <2>6. /\ phase' = "parsing up" /\ UNCHANGED <<talk, held, down, request, response>>
    BY <1>4 DEF ParseUp
  <2>7. QED BY <1>1, <2>1, <2>2, <2>4, <2>5, <2>6, CallStep
<1>5. CASE ParseDown
  <2>1. PICK n \in Incoming :
          /\ Inspects(response, Gathered(talk.upstream, down, n))
          /\ Parse(Gathered(talk.upstream, down, n), TCP)
          /\ down' = n
    BY <1>5 DEF ParseDown
  <2>2. down \in Nat
    BY <1>1, <1>2
  <2>3. n \in 0..Len(talk.upstream.octets)
    BY <1>1, <2>2, ReadsInside DEF Incoming
  <2>4. Gathered(talk.upstream, down, n) \in Seq(Byte)
    BY <1>1, <2>2, <2>3, GatheredIs
  <2>5. Enabled /\ response.parsed = FALSE
    BY <1>1, <2>1 DEF Inspects, Context
  <2>6. /\ phase' = "parsing down" /\ UNCHANGED <<talk, held, up, request, response>>
    BY <1>5 DEF ParseDown
  <2>7. QED BY <1>1, <2>1, <2>3, <2>4, <2>5, <2>6, CallStep
<1>6. QED BY <1>3, <1>4, <1>5

\* What is passed on without a call.
LEMMA PassInv ==
    ASSUME IInv, \/ Declines \/ ShortDatagram \/ AwaitMore \/ CoreReads \/ GivesUp
                 \/ PassUp \/ PassDown \/ Close \/ Closed
    PROVE  IInv'
<1>1. /\ talk.client.octets \in Seq(Byte) /\ talk.upstream.octets \in Seq(Byte)
      /\ talk.client.ends \subseteq 1..Len(talk.client.octets)
      /\ talk.upstream.ends \subseteq 1..Len(talk.upstream.octets)
      /\ held \in 0..Len(talk.client.octets) /\ up \in 0..Len(talk.client.octets)
      /\ down \in 0..Len(talk.upstream.octets)
  BY TalkIs DEF IInv, SessionTypes
<1>2. Len(talk.client.octets) \in Nat /\ Len(talk.upstream.octets) \in Nat
  BY <1>1
<1>3. held \in Nat /\ up \in Nat /\ down \in Nat
  BY <1>1, <1>2
<1>4. CASE Declines \/ ShortDatagram \/ GivesUp \/ Close
  BY <1>1, <1>4, PassStep DEF Declines, ShortDatagram, GivesUp, Close, sessionVars
<1>5. CASE AwaitMore
  <2>1. ~UDP
    BY <1>5 DEF AwaitMore, TCP, UDP
  <2>2. QED BY <1>1, <1>5, <2>1, PassStep DEF AwaitMore, sessionVars
<1>6. CASE CoreReads
  <2>1. held' \in Reads(talk.client, held) /\ phase' = "preread"
        /\ UNCHANGED <<parserVars, talk, up, down, request, response>>
    BY <1>6 DEF CoreReads
  <2>2. held' \in 0..Len(talk.client.octets)
    BY <1>1, <1>3, <2>1, ReadsInside
  <2>3. QED BY <1>1, <2>1, <2>2, PassStep
<1>7. CASE PassUp
  <2>1. /\ up' \in Outgoing /\ phase = "proxy"
        /\ UNCHANGED <<parserVars, phase, talk, held, down, request, response>>
    BY <1>7 DEF PassUp
  <2>2. up' \in 0..Len(talk.client.octets)
    BY <1>1, <1>3, <2>1, ReadsInside DEF Outgoing
  <2>3. QED BY <1>1, <2>1, <2>2, PassStep
<1>8. CASE PassDown
  <2>1. /\ down' \in Incoming /\ phase = "proxy"
        /\ UNCHANGED <<parserVars, phase, talk, held, up, request, response>>
    BY <1>8 DEF PassDown
  <2>2. down' \in 0..Len(talk.upstream.octets)
    BY <1>1, <1>3, <2>1, ReadsInside DEF Incoming
  <2>3. QED BY <1>1, <2>1, <2>2, PassStep
<1>9. CASE Closed
  <2>1. phase = "closed" /\ UNCHANGED <<parserVars, phase, talk, held, up, down, request, response>>
    BY <1>9 DEF Closed, vars, sessionVars
  <2>2. QED BY <1>1, <2>1, PassStep
<1>10. QED BY <1>4, <1>5, <1>6, <1>7, <1>8, <1>9

\* A step of the parser changes nothing of the session.
LEMMA SessionStands ==
    ASSUME SessionTypes, CallInv, UNCHANGED <<phase, sessionVars>>
    PROVE  SessionTypes' /\ CallInv'
<1>1. UNCHANGED <<phase, talk, held, up, down, request, response>>
  BY DEF sessionVars
<1>2. SessionTypes'
  BY <1>1 DEF SessionTypes
<1>3. CallInv'
  <2>1. Enabled' = Enabled /\ UDP' = UDP
    BY <1>1, SameTalk
  <2>2. InCall' = InCall
    BY <1>1 DEF InCall
  <2>3. /\ InCall' => Enabled'
        /\ UDP' => phase' # "waiting"
    BY <1>1, <2>1, <2>2 DEF CallInv
  <2>4. /\ request'.parsed = TRUE => Enabled'
        /\ response'.parsed = TRUE => Enabled'
    BY <1>1, <2>1 DEF CallInv
  <2>5. /\ phase' \in {"preparsing", "parsing up"} => request'.parsed = FALSE
        /\ phase' = "parsing down" => response'.parsed = FALSE
    BY <1>1 DEF CallInv
  <2>6. QED BY <2>3, <2>4, <2>5 DEF CallInv
<1>4. QED BY <1>2, <1>3

\* Every step keeps the invariant.
LEMMA NextIInv ==
    ASSUME IInv, [Next]_vars
    PROVE  IInv'
<1>1. CASE ParserStep
  <2>1. ParserInv'
    BY <1>1, ParserNextInv DEF ParserStep, IInv
  <2>2. QED BY <1>1, <2>1, SessionStands DEF ParserStep, IInv
<1>2. CASE PrereadParsed \/ ParsedUp \/ ParsedDown
  BY <1>2, CalledInv
<1>3. CASE PrereadParse \/ ParseUp \/ ParseDown
  BY <1>3, CallInvs
<1>4. CASE \/ Declines \/ ShortDatagram \/ AwaitMore \/ CoreReads \/ GivesUp
           \/ PassUp \/ PassDown \/ Close \/ Closed
  BY <1>4, PassInv
<1>5. CASE UNCHANGED vars
  <2>1. ParserInv'
    BY <1>5 DEF vars, IInv, parserVars, ParserInv, ParserTypes, NameInv, TableInv, PlaceInv, InData,
                InNameOf, Recorded, Wanted, End
  <2>2. QED BY <1>5, <2>1, SessionStands DEF vars, IInv
<1>6. QED BY <1>1, <1>2, <1>3, <1>4, <1>5 DEF Next

\* A session begins with nothing parsed, and a datagram held.
LEMMA InitIInv == Init => IInv
<1> SUFFICES ASSUME Init PROVE IInv
  OBVIOUS
<1>1. talk \in Talk /\ 0 \in Nat /\ up = 0 /\ down = 0
  BY DEF Init
<1>2. Len(talk.client.octets) \in Nat /\ Len(talk.upstream.octets) \in Nat
  BY <1>1, TalkIs
<1>3. held \in 0..Len(talk.client.octets)
  <2>1. CASE UDP
    BY <1>1, <2>1, TalkIs, ReadsInside DEF Init
  <2>2. CASE ~UDP
    BY <1>2, <2>2 DEF Init
  <2>3. QED BY <2>1, <2>2
<1>4. /\ Nothing \in Context /\ Nothing.parsed = FALSE
  BY Constants DEF Nothing, Context
<1>5. SessionTypes
  BY <1>1, <1>2, <1>3, <1>4 DEF Init, SessionTypes
<1>6. CallInv
  BY <1>4 DEF Init, CallInv, InCall
<1>7. ParserInv
  <2>1. /\ buf = <<>> /\ at = "idle" /\ offset = 0 /\ sec = 1 /\ nm = NoName /\ rr = NoRecord
        /\ pkt = NoPacket /\ reach = 0
    BY DEF Init, ParserInit
  <2>2. ParserTypes
    BY <2>1, Constants DEF ParserTypes, NameRecord, Section
  <2>3. NameInv
    BY <2>1, Constants DEF NameInv
  <2>4. ~InData /\ ~InNameOf({"owner"})
    BY <2>1 DEF InData, InNameOf
  <2>5. TableInv
    BY <2>1, <2>4, Constants DEF TableInv, Tables
  <2>6. PlaceInv
    BY <2>1, <2>4, Constants DEF PlaceInv, End
  <2>7. QED BY <2>2, <2>3, <2>5, <2>6 DEF ParserInv
<1>8. QED BY <1>5, <1>6, <1>7 DEF IInv

-----------------------------------------------------------------------------
(* The lists of the variables                                              *)

Count(S) == 1 + Cardinality(S)

LEMMA CountIs == ASSUME NEW S, IsFiniteSet(S) PROVE Count(S) \in Nat /\ Count(S) >= 1
BY FS_CardinalityType DEF Count

\* A number is printed with one digit at least.
LEMMA DigitsAre ==
    ASSUME NEW n
    PROVE  /\ Digits(n) \in Nat /\ Digits(n) >= 1
           /\ HexDigits(n) \in Nat /\ HexDigits(n) >= 1
<1>1. IsFiniteSet(1..9) /\ IsFiniteSet(1..3)
  <2>1. 1 \in Int /\ 3 \in Int /\ 9 \in Int
    OBVIOUS
  <2>2. QED BY <2>1, FS_Interval
<1>2. IsFiniteSet({k \in 1..9 : n >= 10^k}) /\ IsFiniteSet({k \in 1..3 : n >= 16^k})
  BY <1>1, FS_Subset
<1>3. QED BY <1>2, CountIs DEF Count, Digits, HexDigits

LEMMA Digits32Is == ASSUME NEW o PROVE Digits32(o) \in Nat
<1>1. Digits(((o[1] * 256 + o[2]) * 256 + o[3]) * 256 + o[4]) \in Nat
  BY DigitsAre
<1>2. QED BY <1>1 DEF Digits32

\* The sum of widths is a width.
LEMMA TotalIs ==
    ASSUME NEW n \in Nat, NEW widths, DOMAIN widths = 1..n, \A i \in 1..n : widths[i] \in Nat
    PROVE  Total(widths) = SumOf(widths) /\ Total(widths) \in Nat
<1>1. PICK sum : PartialSums(sum, n, widths) /\ SumOf(widths) = sum[n]
  BY SumValues
<1>2. SumOf(widths) \in Nat
  BY <1>1 DEF PartialSums
<1>3. QED BY <1>2 DEF Total, SumOf

\* An address takes at least one character, whatever it is printed from.
LEMMA AddressWidthIs == ASSUME NEW ip PROVE AddressWidth(ip) \in Nat /\ AddressWidth(ip) >= 1
<1> DEFINE four  == [i \in 1..4 |-> Digits(ip[i])]
           eight == [i \in 1..8 |-> HexDigits(256 * ip[2 * i - 1] + ip[2 * i])]
<1>1. DOMAIN four = 1..4 /\ \A i \in 1..4 : four[i] \in Nat
  BY DigitsAre
<1>2. DOMAIN eight = 1..8 /\ \A i \in 1..8 : eight[i] \in Nat
  BY DigitsAre
<1>3. AddressWidth(ip) = IF Len(ip) = 4 THEN 3 + Total(four) ELSE 7 + Total(eight)
  BY DEF AddressWidth
<1>4. 4 \in Nat /\ 8 \in Nat
  OBVIOUS
<1> HIDE DEF four, eight
<1>5. Total(four) \in Nat /\ Total(eight) \in Nat
  BY <1>1, <1>2, <1>4, TotalIs
<1>6. QED BY <1>3, <1>5

\* A C string is as long as it is up to its end mark.
LEMMA CStrIs ==
    ASSUME NEW s \in Seq(Byte)
    PROVE  CStr(s) \in Seq(Byte) /\ Len(CStr(s)) \in Nat
<1> DEFINE ends == {i \in 1..Len(s) : s[i] = 0} \cup {Len(s) + 1}
<1>1. Len(s) \in Nat
  OBVIOUS
<1>2. Min(ends) \in 1..Len(s) + 1
  <2>1. ends \in SUBSET Nat /\ ends # {} /\ ends \subseteq 1..Len(s) + 1
    BY <1>1
  <2>. HIDE DEF ends
  <2>2. QED BY <2>1, MinFacts
<1>3. CStr(s) = SubSeq(s, 1, Min(ends) - 1)
  BY DEF CStr
<1>. HIDE DEF ends
<1>4. Min(ends) - 1 \in 0..Len(s)
  BY <1>1, <1>2
<1>5. SubSeq(s, 1, Min(ends) - 1) \in Seq(Byte)
  BY <1>4
<1>6. QED BY <1>3, <1>5

LEMMA TypeStrIs == ASSUME NEW type PROVE Len(TypeStr(type)) \in Nat
<1> DEFINE known == {A, NS, CNAME, SOA, PTR, MX, TXT, AAAA, 33, 41, 257, 255, 0}
<1>1. CASE type \in known
  BY <1>1, TypeStrAssumption
<1>2. CASE type \notin known
  <2>1. TypeStr(type) = "UNKNOWN" /\ TypeStr(0) = "UNKNOWN"
    BY <1>2 DEF TypeStr, A, NS, CNAME, SOA, PTR, MX, TXT, AAAA
  <2>2. Len(TypeStr(0)) \in Nat
    BY TypeStrAssumption
  <2>3. QED BY <2>1, <2>2
<1>3. QED BY <1>1, <1>2

\* The data of a record have the parts that it is printed from.
Shaped(r) ==
    r.rdata # <<>> => Len(r.rdata) = IF r.type = MX THEN 2 ELSE IF r.type = SOA THEN 3 ELSE 1

LEMMA DataWidthIs ==
    ASSUME NEW r \in Record, Shaped(r)
    PROVE  DataWidth(r) \in Nat
<1>1. r.rdata \in Seq(Seq(Byte)) /\ r.type \in Nat
  BY DEF Record
<1>2. ASSUME NEW i \in 1..Len(r.rdata)
      PROVE  Len(r.rdata[i]) \in Nat /\ Len(CStr(r.rdata[i])) \in Nat
  <2>1. r.rdata[i] \in Seq(Byte)
    BY <1>1
  <2>2. QED BY <2>1, CStrIs
<1>3. CASE r.rdata = <<>>
  BY <1>3, AddressWidthIs DEF DataWidth
<1>4. CASE r.rdata # <<>> /\ r.type = MX
  <2>1. Len(CStr(r.rdata[2])) \in Nat
    BY <1>2, <1>4 DEF Shaped
  <2>2. Digits(256 * r.rdata[1][1] + r.rdata[1][2]) \in Nat
    BY DigitsAre
  <2>3. DataWidth(r) = Digits(256 * r.rdata[1][1] + r.rdata[1][2]) + 1 + Len(CStr(r.rdata[2]))
    BY <1>4 DEF DataWidth, MX, SOA, NS, CNAME, PTR, TXT
  <2>4. QED BY <2>1, <2>2, <2>3
<1>5. CASE r.rdata # <<>> /\ r.type = SOA
  <2> DEFINE five == [i \in 1..5 |-> Digits32(SubSeq(r.rdata[3], 4 * i - 3, 4 * i))]
  <2>1. Len(CStr(r.rdata[1])) \in Nat /\ Len(CStr(r.rdata[2])) \in Nat
    BY <1>2, <1>5 DEF Shaped, SOA, MX
  <2>2. 5 \in Nat /\ DOMAIN five = 1..5 /\ \A i \in 1..5 : five[i] \in Nat
    BY Digits32Is
  <2>3. DataWidth(r) = Smaller(Len(CStr(r.rdata[1])), 200) + Smaller(Len(CStr(r.rdata[2])), 200) + 6
                         + Total(five)
    BY <1>5 DEF DataWidth, MX, SOA, NS, CNAME, PTR, TXT
  <2>. HIDE DEF five
  <2>4. Total(five) \in Nat
    BY <2>2, TotalIs
  <2>5. /\ Smaller(Len(CStr(r.rdata[1])), 200) \in Nat
        /\ Smaller(Len(CStr(r.rdata[2])), 200) \in Nat
    BY <2>1 DEF Smaller
  <2>6. QED BY <2>3, <2>4, <2>5
<1>6. CASE r.rdata # <<>> /\ r.type \notin {MX, SOA}
  <2>1. Len(r.rdata[1]) \in Nat /\ Len(CStr(r.rdata[1])) \in Nat
    BY <1>2, <1>6 DEF Shaped
  <2>2. DataWidth(r) \in {Len(CStr(r.rdata[1])), 2 * Len(r.rdata[1])}
    BY <1>6 DEF DataWidth
  <2>3. QED BY <2>1, <2>2
<1>7. QED BY <1>3, <1>4, <1>5, <1>6

LEMMA EntryWidthIs ==
    ASSUME NEW r \in Record, Shaped(r)
    PROVE  EntryWidth(r) \in Nat
<1>1. r.name \in Seq(Byte)
  BY DEF Record
<1>2. /\ Len(CStr(r.name)) \in Nat /\ Len(TypeStr(r.type)) \in Nat /\ Digits32(r.ttl) \in Nat
      /\ DataWidth(r) \in Nat
  BY <1>1, CStrIs, TypeStrIs, Digits32Is, DataWidthIs
<1>3. QED BY <1>2 DEF EntryWidth, Smaller
-----------------------------------------------------------------------------
(* What is written piece by piece is all of it, or as much as there is     *)
(* room for.                                                               *)

LEMMA WrittenIs ==
    ASSUME NEW size \in Nat \ {0}, NEW len \in Nat, NEW n \in Nat
    PROVE  /\ Smaller(len, size - 1) \in Nat
           /\ Written(Smaller(len, size - 1), n, size) = Smaller(len + n, size - 1)
           /\ Smaller(len, size - 1) > 0 <=> len > 0 /\ size > 1
BY DEF Written, Smaller

\* One address more, and one entry more.
IpsStep(len, ip, size) ==
    Written(IF len > 0 THEN Written(len, 2, size) ELSE len, AddressWidth(ip), size)

EntryStep(len, i, size) ==
    Written(IF i > 1 THEN Written(len, 1, size) ELSE len, EntryWidth(Answers[i]), size)

LEMMA WrittenNat ==
    ASSUME NEW size \in Nat \ {0}, NEW len \in Nat, NEW n \in Nat
    PROVE  Written(len, n, size) \in Nat
BY DEF Written

\* The folds that compute the two lengths.
IpsFold(f, size) ==
    f = [s \in SUBSET DOMAIN Addresses |->
           IF s = {} THEN 0 ELSE IpsStep(f[s \ {Max(s)}], Addresses[Max(s)], size)]

EntryFold(f, size) ==
    f = [s \in SUBSET DOMAIN [i \in 1..Len(Answers) |-> i] |->
           IF s = {} THEN Smaller(1, size - 1)
           ELSE EntryStep(f[s \ {Max(s)}], [i \in 1..Len(Answers) |-> i][Max(s)], size)]

LEMMA IpsLengthIs ==
    ASSUME NEW size
    PROVE  IpsLength(size) = (CHOOSE f : IpsFold(f, size))[DOMAIN Addresses]
BY DEF IpsLength, IpsFold, IpsStep, FoldLeft, MapThenFoldSet

LEMMA JsonLengthIs ==
    ASSUME NEW size
    PROVE  JsonLength(size) =
             Written((CHOOSE f : EntryFold(f, size))[DOMAIN [i \in 1..Len(Answers) |-> i]], 1, size)
BY DEF JsonLength, EntryFold, EntryStep, FoldLeft, MapThenFoldSet

LEMMA IpsFoldExists ==
    ASSUME NEW size \in Nat \ {0}, NEW n \in Nat, DOMAIN Addresses = 1..n
    PROVE  \E f : IpsFold(f, size)
<1> DEFINE step == [p \in (1..n) \X Nat |-> IpsStep(p[2], Addresses[p[1]], size)]
<1>1. ASSUME NEW len \in Nat, NEW ip PROVE IpsStep(len, ip, size) \in Nat
  <2>1. AddressWidth(ip) \in Nat /\ 2 \in Nat
    BY AddressWidthIs
  <2>2. Written(len, 2, size) \in Nat
    BY <2>1, WrittenNat
  <2>3. QED BY <2>1, <2>2, WrittenNat DEF IpsStep
<1>2. step \in [(1..n) \X Nat -> Nat] /\ 0 \in Nat
  <2>1. \A p \in (1..n) \X Nat : IpsStep(p[2], Addresses[p[1]], size) \in Nat
    BY <1>1
  <2>2. QED BY <2>1
<1>3. PICK f \in [SUBSET (1..n) -> Nat] : IsFold(f, n, 0, step)
  <2>. HIDE DEF step
  <2>1. QED BY <1>2, FoldExists
<1>4. ASSUME NEW s \in SUBSET (1..n), s # {}
      PROVE  step[<<Max(s), f[s \ {Max(s)}]>>] = IpsStep(f[s \ {Max(s)}], Addresses[Max(s)], size)
  <2>1. Max(s) \in 1..n
    <3>1. s \in SUBSET (0..n)
      OBVIOUS
    <3>2. QED BY <1>4, <3>1, MaxFacts
  <2>2. s \ {Max(s)} \in SUBSET (1..n)
    OBVIOUS
  <2>3. <<Max(s), f[s \ {Max(s)}]>> \in (1..n) \X Nat
    BY <1>3, <2>1, <2>2
  <2>4. QED BY <2>3
<1>5. f = [s \in SUBSET (1..n) |->
             IF s = {} THEN 0 ELSE IpsStep(f[s \ {Max(s)}], Addresses[Max(s)], size)]
  <2>1. \A s \in SUBSET (1..n) :
          f[s] = IF s = {} THEN 0 ELSE IpsStep(f[s \ {Max(s)}], Addresses[Max(s)], size)
    <3>. HIDE DEF step
    <3>1. QED BY <1>3, <1>4 DEF IsFold
  <2>2. QED BY <1>3, <2>1
<1>6. QED BY <1>5 DEF IpsFold

\* What is written after k addresses.
LEMMA IpsWritten ==
    ASSUME NEW size \in Nat \ {0}, NEW n \in Nat, Len(Addresses) = n, DOMAIN Addresses = 1..n
    PROVE  LET ips == Total([i \in 1..Len(Addresses) |-> AddressWidth(Addresses[i])])
           IN  IpsLength(size) = Smaller(ips + IF n = 0 THEN 0 ELSE 2 * (n - 1), size - 1)
<1> DEFINE widths == [i \in 1..n |-> AddressWidth(Addresses[i])]
<1>1. DOMAIN widths = 1..n /\ \A i \in 1..n : widths[i] = AddressWidth(Addresses[i])
  OBVIOUS
<1>2. \A i \in 1..n : widths[i] \in Nat /\ widths[i] >= 1
  BY AddressWidthIs
<1>. HIDE DEF widths
<1>3. PICK sum : PartialSums(sum, n, widths) /\ Total(widths) = sum[n]
  BY <1>1, <1>2, SumValues, TotalIs
<1>4. PICK f : IpsFold(f, size) /\ IpsLength(size) = f[1..n]
  <2>1. \E f : IpsFold(f, size)
    BY IpsFoldExists
  <2>2. QED BY <2>1, IpsLengthIs
<1>5. /\ 1..0 = {} /\ \A k \in 0..n : 1..k \in SUBSET (1..n)
      /\ \A k \in 1..n : 1..k # {} /\ Max(1..k) = k /\ (1..k) \ {k} = 1..k - 1
  BY UptoFacts
<1> DEFINE apart(k) == sum[k] + IF k = 0 THEN 0 ELSE 2 * (k - 1)
           P == {k \in 0..n : f[1..k] = Smaller(apart(k), size - 1) /\ (k > 0 => sum[k] > 0)}
<1>6. 0 \in P
  <2>1. f[1..0] = 0
    BY <1>4, <1>5 DEF IpsFold
  <2>2. apart(0) = 0 /\ 0 \in 0..n
    BY <1>3 DEF PartialSums
  <2>3. Smaller(0, size - 1) = 0
    BY DEF Smaller
  <2>. HIDE DEF apart
  <2>4. QED BY <2>1, <2>2, <2>3
<1>7. ASSUME NEW k \in 1..n, k - 1 \in P PROVE k \in P
  <2>1. k \in 0..n /\ k - 1 \in 0..n /\ sum[k - 1] \in Nat /\ sum[k] = sum[k - 1] + widths[k]
    BY <1>3 DEF PartialSums
  <2>2. f[1..k] = IpsStep(f[1..k - 1], Addresses[k], size)
    <3>1. 1..k \in SUBSET DOMAIN Addresses /\ 1..k # {} /\ Max(1..k) = k
          /\ (1..k) \ {k} = 1..k - 1
      BY <1>5, <2>1
    <3>2. f[1..k] = IpsStep(f[(1..k) \ {Max(1..k)}], Addresses[Max(1..k)], size)
      BY <1>4, <3>1 DEF IpsFold
    <3>3. QED BY <3>1, <3>2
  <2>3. f[1..k - 1] = Smaller(apart(k - 1), size - 1) /\ (k - 1 > 0 => sum[k - 1] > 0)
    BY <1>7
  <2>4. apart(k - 1) \in Nat /\ apart(k - 1) + 2 \in Nat /\ (apart(k - 1) > 0 <=> k > 1)
    <3>1. k = 1 => sum[k - 1] = 0
      BY <1>3 DEF PartialSums
    <3>2. QED BY <2>1, <2>3, <3>1
  <2>5. AddressWidth(Addresses[k]) = widths[k] /\ widths[k] \in Nat /\ widths[k] >= 1 /\ 2 \in Nat
    BY <1>1, <1>2
  <2>6. CASE k = 1
    <3>1. apart(k) = apart(k - 1) + widths[k] /\ sum[k] > 0 /\ apart(k - 1) = 0
      <4>1. sum[k - 1] = 0
        BY <1>3, <2>6 DEF PartialSums
      <4>2. QED BY <2>1, <2>5, <2>6, <4>1
    <3>. HIDE DEF apart
    <3>2. ~(f[1..k - 1] > 0)
      BY <2>3, <3>1 DEF Smaller
    <3>3. f[1..k] = Written(Smaller(apart(k - 1), size - 1), widths[k], size)
      BY <2>2, <2>3, <2>5, <3>2 DEF IpsStep
    <3>4. f[1..k] = Smaller(apart(k), size - 1)
      <4>1. Written(Smaller(apart(k - 1), size - 1), widths[k], size)
              = Smaller(apart(k - 1) + widths[k], size - 1)
        BY <2>4, <2>5, WrittenIs
      <4>2. QED BY <3>1, <3>3, <4>1
    <3>5. QED BY <2>1, <3>1, <3>4
  <2>7. CASE k # 1
    <3>1. apart(k) = apart(k - 1) + 2 + widths[k] /\ sum[k] > 0
      BY <2>1, <2>5, <2>7
    <3>. HIDE DEF apart
    <3>2. f[1..k - 1] > 0 <=> size > 1
      <4>1. k > 1
        BY <2>7
      <4>2. Smaller(apart(k - 1), size - 1) > 0 <=> apart(k - 1) > 0 /\ size > 1
        BY <2>4, <2>5, WrittenIs
      <4>3. QED BY <2>3, <2>4, <4>1, <4>2
    <3>3. Written(f[1..k - 1], 2, size) = Smaller(apart(k - 1) + 2, size - 1)
      BY <2>3, <2>4, <2>5, WrittenIs
    <3>4. size = 1 => f[1..k - 1] = Smaller(apart(k - 1) + 2, size - 1)
      BY <2>3, <2>4 DEF Smaller
    <3>5. f[1..k] = Written(Smaller(apart(k - 1) + 2, size - 1), widths[k], size)
      BY <2>2, <2>5, <3>2, <3>3, <3>4 DEF IpsStep
    <3>6. f[1..k] = Smaller(apart(k - 1) + 2 + widths[k], size - 1)
      BY <2>4, <2>5, <3>5, WrittenIs
    <3>7. f[1..k] = Smaller(apart(k), size - 1)
      BY <3>1, <3>6
    <3>8. QED BY <2>1, <3>1, <3>7 DEF apart
  <2>8. QED BY <2>6, <2>7
<1>8. n \in P
  <2>1. n \in 0..n
    OBVIOUS
  <2>. HIDE DEF P
  <2>2. QED BY <1>6, <1>7, <2>1, Inductively
<1>9. QED BY <1>3, <1>4, <1>8 DEF widths

LEMMA EntryFoldExists ==
    ASSUME NEW size \in Nat \ {0}, NEW n \in Nat, Len(Answers) = n,
           \A i \in 1..n : EntryWidth(Answers[i]) \in Nat
    PROVE  \E f : EntryFold(f, size)
<1> DEFINE step == [p \in (1..n) \X Nat |-> EntryStep(p[2], p[1], size)]
           base == Smaller(1, size - 1)
<1>1. ASSUME NEW len \in Nat, NEW i \in 1..n PROVE EntryStep(len, i, size) \in Nat
  <2>1. EntryWidth(Answers[i]) \in Nat /\ 1 \in Nat
    OBVIOUS
  <2>2. Written(len, 1, size) \in Nat
    BY <2>1, WrittenNat
  <2>3. QED BY <2>1, <2>2, WrittenNat DEF EntryStep
<1>2. step \in [(1..n) \X Nat -> Nat] /\ base \in Nat
  <2>1. \A p \in (1..n) \X Nat : EntryStep(p[2], p[1], size) \in Nat
    BY <1>1
  <2>2. base \in Nat
    BY DEF Smaller
  <2>3. QED BY <2>1, <2>2
<1>3. PICK f \in [SUBSET (1..n) -> Nat] : IsFold(f, n, base, step)
  <2>. HIDE DEF step, base
  <2>1. QED BY <1>2, FoldExists
<1>4. ASSUME NEW s \in SUBSET (1..n), s # {}
      PROVE  /\ Max(s) \in 1..n
             /\ step[<<Max(s), f[s \ {Max(s)}]>>] = EntryStep(f[s \ {Max(s)}], Max(s), size)
  <2>1. Max(s) \in 1..n
    <3>1. s \in SUBSET (0..n)
      OBVIOUS
    <3>2. QED BY <1>4, <3>1, MaxFacts
  <2>2. s \ {Max(s)} \in SUBSET (1..n)
    OBVIOUS
  <2>3. <<Max(s), f[s \ {Max(s)}]>> \in (1..n) \X Nat
    BY <1>3, <2>1, <2>2
  <2>4. QED BY <2>1, <2>3
<1> DEFINE places == [i \in 1..Len(Answers) |-> i]
<1>5. f = [s \in SUBSET DOMAIN places |->
             IF s = {} THEN base ELSE EntryStep(f[s \ {Max(s)}], places[Max(s)], size)]
  <2>1. DOMAIN places = 1..n /\ \A i \in 1..n : places[i] = i
    OBVIOUS
  <2>2. \A s \in SUBSET (1..n) :
          f[s] = IF s = {} THEN base ELSE EntryStep(f[s \ {Max(s)}], places[Max(s)], size)
    <3>. HIDE DEF step, places, base
    <3>1. QED BY <1>3, <1>4, <2>1 DEF IsFold
  <2>. HIDE DEF places, base
  <2>3. QED BY <1>3, <2>1, <2>2
<1>6. QED BY <1>5 DEF EntryFold

\* What is written after k entries.
LEMMA JsonWritten ==
    ASSUME NEW size \in Nat \ {0}, NEW n \in Nat, Len(Answers) = n,
           \A i \in 1..n : EntryWidth(Answers[i]) \in Nat
    PROVE  LET json == Total([i \in 1..n |-> EntryWidth(Answers[i])])
           IN  JsonLength(size) = Smaller(json + 2 + (IF n = 0 THEN 0 ELSE n - 1), size - 1)
<1> DEFINE widths == [i \in 1..n |-> EntryWidth(Answers[i])]
           places == [i \in 1..Len(Answers) |-> i]
<1>1. DOMAIN widths = 1..n /\ \A i \in 1..n : widths[i] = EntryWidth(Answers[i])
  OBVIOUS
<1>2. \A i \in 1..n : widths[i] \in Nat
  OBVIOUS
<1>3. DOMAIN places = 1..n /\ \A i \in 1..n : places[i] = i
  OBVIOUS
<1>. HIDE DEF widths
<1>4. PICK sum : PartialSums(sum, n, widths) /\ Total(widths) = sum[n]
  BY <1>1, <1>2, SumValues, TotalIs
<1>5. PICK f : EntryFold(f, size) /\ JsonLength(size) = Written(f[1..n], 1, size)
  <2>1. \E f : EntryFold(f, size)
    BY EntryFoldExists
  <2>2. JsonLength(size) = Written((CHOOSE f : EntryFold(f, size))[1..n], 1, size)
    BY <1>3, JsonLengthIs
  <2>3. QED BY <2>1, <2>2
<1>6. /\ 1..0 = {} /\ \A k \in 0..n : 1..k \in SUBSET (1..n)
      /\ \A k \in 1..n : 1..k # {} /\ Max(1..k) = k /\ (1..k) \ {k} = 1..k - 1
  BY UptoFacts
<1>7. \A s \in SUBSET (1..n) :
        f[s] = IF s = {} THEN Smaller(1, size - 1)
               ELSE EntryStep(f[s \ {Max(s)}], places[Max(s)], size)
  BY <1>3, <1>5 DEF EntryFold
<1>. HIDE DEF places
<1> DEFINE apart(k) == 1 + sum[k] + IF k = 0 THEN 0 ELSE k - 1
           P == {k \in 0..n : f[1..k] = Smaller(apart(k), size - 1)}
<1>8. 0 \in P
  <2>1. f[1..0] = Smaller(1, size - 1)
    BY <1>6, <1>7
  <2>2. apart(0) = 1 /\ 0 \in 0..n
    BY <1>4 DEF PartialSums
  <2>. HIDE DEF apart
  <2>3. QED BY <2>1, <2>2
<1>9. \A k \in 0..n : apart(k) \in Nat
  BY <1>4 DEF PartialSums
<1>10. ASSUME NEW k \in 1..n, k - 1 \in P PROVE k \in P
  <2>1. k \in 0..n /\ k - 1 \in 0..n /\ sum[k - 1] \in Nat /\ sum[k] = sum[k - 1] + widths[k]
    BY <1>4 DEF PartialSums
  <2>2. f[1..k] = EntryStep(f[1..k - 1], k, size)
    <3>1. 1..k \in SUBSET (1..n) /\ 1..k # {} /\ Max(1..k) = k /\ (1..k) \ {k} = 1..k - 1
      BY <1>6, <2>1
    <3>2. f[1..k] = EntryStep(f[(1..k) \ {Max(1..k)}], places[Max(1..k)], size)
      BY <1>7, <3>1
    <3>3. QED BY <1>3, <3>1, <3>2
  <2>3. f[1..k - 1] = Smaller(apart(k - 1), size - 1)
    BY <1>10
  <2>4. EntryWidth(Answers[k]) = widths[k] /\ widths[k] \in Nat /\ 1 \in Nat
    BY <1>1, <1>2
  <2>5. apart(k) = apart(k - 1) + (IF k > 1 THEN 1 ELSE 0) + widths[k] /\ apart(k - 1) \in Nat
    <3>1. apart(k - 1) \in Nat
      BY <1>9, <2>1
    <3>2. CASE k = 1
      BY <2>1, <2>4, <3>1, <3>2
    <3>3. CASE k # 1
      <4>1. k > 1 /\ k \in Nat
        BY <3>3
      <4>2. apart(k) = 1 + sum[k] + (k - 1) /\ apart(k - 1) = 1 + sum[k - 1] + (k - 2)
        BY <4>1
      <4>. HIDE DEF apart
      <4>3. apart(k) = apart(k - 1) + 1 + widths[k]
        <5>1. k \in Nat
          BY <4>1
        <5>2. sum[k - 1] \in Nat
          BY <2>1
        <5>3. widths[k] \in Nat
          BY <2>4
        <5>4. \A x \in Nat, y \in Nat, z \in Nat : 1 + (x + y) + (z - 1) = (1 + x + (z - 2)) + 1 + y
          OBVIOUS
        <5>5. 1 + (sum[k - 1] + widths[k]) + (k - 1) = (1 + sum[k - 1] + (k - 2)) + 1 + widths[k]
          BY <5>1, <5>2, <5>3, <5>4
        <5>6. QED BY <2>1, <4>2, <5>5
      <4>4. QED BY <3>1, <4>1, <4>3
    <3>4. QED BY <3>1, <3>2, <3>3
  <2>. HIDE DEF apart
  <2>6. CASE k > 1
    <3>1. Written(f[1..k - 1], 1, size) = Smaller(apart(k - 1) + 1, size - 1)
      BY <2>3, <2>4, <2>5, WrittenIs
    <3>2. apart(k - 1) + 1 \in Nat
      BY <2>5
    <3>3. Written(Smaller(apart(k - 1) + 1, size - 1), widths[k], size)
            = Smaller(apart(k - 1) + 1 + widths[k], size - 1)
      BY <2>4, <3>2, WrittenIs
    <3>4. f[1..k] = Written(Smaller(apart(k - 1) + 1, size - 1), widths[k], size)
      BY <2>2, <2>4, <2>6, <3>1 DEF EntryStep
    <3>5. QED BY <2>1, <2>5, <2>6, <3>3, <3>4
  <2>7. CASE ~(k > 1)
    <3>1. Written(Smaller(apart(k - 1), size - 1), widths[k], size)
            = Smaller(apart(k - 1) + widths[k], size - 1)
      BY <2>4, <2>5, WrittenIs
    <3>2. f[1..k] = Written(Smaller(apart(k - 1), size - 1), widths[k], size)
      BY <2>2, <2>3, <2>4, <2>7 DEF EntryStep
    <3>3. apart(k) = apart(k - 1) + widths[k]
      BY <2>4, <2>5, <2>7
    <3>4. QED BY <2>1, <3>1, <3>2, <3>3
  <2>8. QED BY <2>6, <2>7
<1>11. n \in P
  <2>1. n \in 0..n
    OBVIOUS
  <2>. HIDE DEF P
  <2>2. QED BY <1>8, <1>10, <2>1, Inductively
<1>12. Written(Smaller(apart(n), size - 1), 1, size) = Smaller(apart(n) + 1, size - 1)
  <2>1. apart(n) \in Nat /\ 1 \in Nat
    BY <1>9
  <2>. HIDE DEF apart
  <2>2. QED BY <2>1, WrittenIs
<1>13. apart(n) + 1 = Total(widths) + 2 + (IF n = 0 THEN 0 ELSE n - 1)
  BY <1>4 DEF PartialSums
<1>14. JsonLength(size) = Smaller(apart(n) + 1, size - 1)
  <2>. HIDE DEF apart
  <2>1. QED BY <1>5, <1>11, <1>12
<1>15. QED BY <1>13, <1>14 DEF widths

\* Both lists of records with all their parts are cut where their buffers end.
LEMMA ListsOf ==
    ASSUME response.pkt \in Packet,
           \A i \in 1..Len(Answers) : Shaped(Answers[i])
    PROVE  ListsFit
<1>1. Answers \in Seq(Record)
  BY DEF Answers, Packet, Section
<1>2. Len(Answers) \in Nat
  BY <1>1
<1>3. \A i \in 1..Len(Answers) : EntryWidth(Answers[i]) \in Nat
  <2>1. \A i \in 1..Len(Answers) : Answers[i] \in Record
    BY <1>1
  <2>2. QED BY <2>1, EntryWidthIs
<1>4. JsonLength(JsonSize) =
        Smaller(Total([i \in 1..Len(Answers) |-> EntryWidth(Answers[i])]) + 2
                  + (IF Len(Answers) = 0 THEN 0 ELSE Len(Answers) - 1), JsonSize - 1)
  BY <1>2, <1>3, SizeAssumption, JsonWritten
<1>5. Len(Addresses) \in Nat /\ DOMAIN Addresses = 1..Len(Addresses)
      /\ (Addresses = <<>> <=> Len(Addresses) = 0)
  <2> DEFINE each == [i \in 1..Len(Answers) |->
                        IF Answers[i].ip = <<>> THEN <<>> ELSE <<Answers[i].ip>>]
             Ip == {Answers[i].ip : i \in 1..Len(Answers)}
  <2>1. each \in [1..Len(Answers) -> Seq(Ip)]
    <3>1. ASSUME NEW i \in 1..Len(Answers) PROVE <<Answers[i].ip>> \in Seq(Ip) /\ <<>> \in Seq(Ip)
      <4>1. Answers[i].ip \in Ip
        OBVIOUS
      <4>. HIDE DEF Ip
      <4>2. QED BY <4>1
    <3>. HIDE DEF Ip
    <3>2. QED BY <3>1
  <2>2. Addresses = FlattenSeq(each)
    BY DEF Addresses
  <2>. HIDE DEF each, Ip
  <2>3. Addresses \in Seq(Ip)
    BY <1>2, <2>1, <2>2, FlattenLen
  <2>4. QED BY <2>3, LenProperties, EmptySeq
<1>6. IpsLength(IpsSize) =
        Smaller(Total([i \in 1..Len(Addresses) |-> AddressWidth(Addresses[i])])
                  + IF Len(Addresses) = 0 THEN 0 ELSE 2 * (Len(Addresses) - 1), IpsSize - 1)
  BY <1>5, SizeAssumption, IpsWritten
<1>7. QED BY <1>4, <1>5, <1>6 DEF ListsFit

-----------------------------------------------------------------------------
(* The shape of what is read: the data of a record have the parts that its *)
(* type asks for, or none, also while they are read.                       *)

AllShaped(packet) ==
    \A s \in Section : \A i \in 1..Len(packet.records[s]) : Shaped(packet.records[s][i])

ReadingInv ==
    /\ at = "rdata" => rr.rdata = <<>>
    /\ InNameOf({"target"}) => rr.type \in {NS, CNAME, PTR}
    /\ InNameOf({"exchange"}) => rr.type = MX
    /\ InNameOf({"mname", "rname"}) => rr.type = SOA
    /\ InNameOf({"rname"}) => Len(rr.rdata) = 1

ShapeInv == ReadingInv /\ AllShaped(pkt) /\ AllShaped(response.pkt)

\* A record that is kept has its parts, or the ones it had.
LEMMA KeepShape ==
    ASSUME ParserInv, AllShaped(pkt), NEW r \in Record, Shaped(r), Keep(r)
    PROVE  ReadingInv' /\ AllShaped(pkt')
<1>1. at' = "section" /\ pkt' = [pkt EXCEPT !.records[sec] = Append(@, r)]
  BY DEF Keep
<1>2. ReadingInv'
  BY <1>1 DEF ReadingInv, InNameOf
<1>3. sec \in Section /\ pkt \in Packet /\ pkt.records \in [Section -> Seq(Record)]
  BY Standing DEF Packet
<1>4. pkt'.records = [pkt.records EXCEPT ![sec] = Append(pkt.records[sec], r)]
  BY <1>1, <1>3 DEF Packet
<1>5. ASSUME NEW s \in Section, NEW i \in 1..Len(pkt'.records[s])
      PROVE  Shaped(pkt'.records[s][i])
  <2>1. CASE s # sec
    <3>1. pkt'.records[s] = pkt.records[s]
      BY <1>3, <1>4, <2>1
    <3>2. QED BY <1>5, <3>1 DEF AllShaped
  <2>2. CASE s = sec
    <3>1. pkt'.records[s] = Append(pkt.records[s], r) /\ pkt.records[s] \in Seq(Record)
      BY <1>3, <1>4, <2>2
    <3>2. Len(pkt'.records[s]) = Len(pkt.records[s]) + 1 /\ Len(pkt.records[s]) \in Nat
      BY <3>1, AppendProperties
    <3>3. CASE i = Len(pkt.records[s]) + 1
      <4>1. pkt'.records[s][i] = r
        BY <3>1, <3>3, AppendProperties
      <4>2. QED BY <4>1
    <3>4. CASE i # Len(pkt.records[s]) + 1
      <4>1. i \in 1..Len(pkt.records[s])
        BY <1>5, <3>2, <3>4
      <4>2. pkt'.records[s][i] = pkt.records[s][i]
        BY <3>1, <4>1, AppendProperties
      <4>3. QED BY <4>1, <4>2 DEF AllShaped
    <3>5. QED BY <3>3, <3>4
  <2>3. QED BY <2>1, <2>2
<1>6. QED BY <1>2, <1>5 DEF AllShaped

\* A record whose data are of so many parts.
LEMMA PartsShape ==
    ASSUME ParserInv, NEW d \in Seq(Seq(Byte)),
           d = <<>> \/ Len(d) = IF rr.type = MX THEN 2 ELSE IF rr.type = SOA THEN 3 ELSE 1
    PROVE  [rr EXCEPT !.rdata = d] \in Record /\ Shaped([rr EXCEPT !.rdata = d])
<1>1. rr \in Record
  BY Standing
<1>2. [rr EXCEPT !.rdata = d] \in Record /\ [rr EXCEPT !.rdata = d].rdata = d
      /\ [rr EXCEPT !.rdata = d].type = rr.type
  BY <1>1 DEF Record
<1>3. QED BY <1>2 DEF Shaped

LEMMA OneSequence ==
    ASSUME NEW S, NEW d \in Seq(S)
    PROVE  <<d>> \in Seq(Seq(S)) /\ Len(<<d>>) = 1
OBVIOUS

\* A record that ends with what its data are.
LEMMA DataShape ==
    ASSUME ParserInv, ReadingInv, AllShaped(pkt), Address \/ Text \/ Hexadecimal \/ ShortExchange
    PROVE  ReadingInv' /\ AllShaped(pkt')
<1>1. at = "rdata" /\ rr.rdata = <<>> /\ InData
  BY DEF Address, Text, Hexadecimal, ShortExchange, ReadingInv, InData
<1>2. rr \in Record /\ Shaped(rr) /\ rr.rdlength \in Nat /\ offset + rr.rdlength <= End
      /\ buf \in Seq(Byte) /\ offset \in Nat
  BY <1>1, Standing, DataIs DEF Shaped
<1>3. CASE Keep(rr)
  BY <1>2, <1>3, KeepShape
<1>4. CASE \E size \in {4, 16} : Keep([rr EXCEPT !.ip = Octets(offset, size)]) /\ rr.rdlength = size
  <2>1. PICK size \in {4, 16} : Keep([rr EXCEPT !.ip = Octets(offset, size)]) /\ rr.rdlength = size
    BY <1>4
  <2>2. Octets(offset, size) \in Seq(Byte)
    BY <1>2, <2>1, OctetsAre
  <2> DEFINE r == [rr EXCEPT !.ip = Octets(offset, size)]
  <2>3. r \in Record /\ r.rdata = <<>>
    BY <1>1, <1>2, <2>2 DEF Record
  <2>4. Keep(r)
    BY <2>1
  <2>. HIDE DEF r
  <2>5. Shaped(r)
    BY <2>3 DEF Shaped
  <2>6. QED BY <2>3, <2>4, <2>5, KeepShape
<1>5. CASE \E m \in Nat, n \in Nat : /\ Keep([rr EXCEPT !.rdata = <<Octets(offset + m, n)>>])
                                     /\ m + n <= rr.rdlength /\ rr.type \notin {MX, SOA}
  <2>1. PICK m \in Nat, n \in Nat : /\ Keep([rr EXCEPT !.rdata = <<Octets(offset + m, n)>>])
                                    /\ m + n <= rr.rdlength /\ rr.type \notin {MX, SOA}
    BY <1>5
  <2>2. offset + m \in Nat /\ offset + m + n <= End
    BY <1>2, <2>1, Standing
  <2>3. Octets(offset + m, n) \in Seq(Byte)
    BY <1>2, <2>1, <2>2, OctetsAre
  <2> DEFINE d == <<Octets(offset + m, n)>>
  <2>4. d \in Seq(Seq(Byte)) /\ Len(d) = 1
    BY <2>3, OneSequence
  <2>5. Keep([rr EXCEPT !.rdata = d])
    BY <2>1
  <2>. HIDE DEF d
  <2>6. [rr EXCEPT !.rdata = d] \in Record /\ Shaped([rr EXCEPT !.rdata = d])
    BY <2>1, <2>4, PartsShape
  <2>7. QED BY <2>5, <2>6, KeepShape
<1>6. Address => \/ Keep(rr)
                 \/ \E size \in {4, 16} : Keep([rr EXCEPT !.ip = Octets(offset, size)]) /\ rr.rdlength = size
  BY DEF Address
<1>7. Text => \/ Keep(rr)
              \/ \E m \in Nat, n \in Nat : /\ Keep([rr EXCEPT !.rdata = <<Octets(offset + m, n)>>])
                                           /\ m + n <= rr.rdlength /\ rr.type \notin {MX, SOA}
  <2> SUFFICES ASSUME Text, rr.rdlength # 0
               PROVE  \E m \in Nat, n \in Nat : /\ Keep([rr EXCEPT !.rdata = <<Octets(offset + m, n)>>])
                                                /\ m + n <= rr.rdlength /\ rr.type \notin {MX, SOA}
    BY DEF Text
  <2> DEFINE copy == Smaller(Octet(offset), rr.rdlength - 1)
             out  == Smaller(copy, MaxRdata - 1)
  <2>1. Keep([rr EXCEPT !.rdata = <<Octets(offset + 1, out)>>]) /\ rr.type = TXT
    BY DEF Text
  <2>2. Octet(offset) \in 0..255
    <3>1. offset < End
      BY <1>2, Standing
    <3>2. QED BY <1>2, <3>1, OctetIs
  <2>3. out \in Nat /\ 1 + out <= rr.rdlength
    <3>1. rr.rdlength - 1 \in Nat /\ MaxRdata - 1 \in Nat
      BY <1>2, DnsLimits
    <3>2. copy \in Nat /\ copy <= rr.rdlength - 1
      BY <2>2, <3>1 DEF Smaller
    <3>3. out \in Nat /\ out <= copy
      BY <3>1, <3>2 DEF Smaller
    <3>. HIDE DEF copy, out
    <3>4. QED BY <1>2, <3>2, <3>3
  <2>. HIDE DEF out
  <2>4. rr.type \notin {MX, SOA} /\ 1 \in Nat
    BY <2>1 DEF TXT, MX, SOA
  <2>5. QED BY <2>1, <2>3, <2>4
<1>8. Hexadecimal => \E m \in Nat, n \in Nat : /\ Keep([rr EXCEPT !.rdata = <<Octets(offset + m, n)>>])
                                               /\ m + n <= rr.rdlength /\ rr.type \notin {MX, SOA}
  <2> SUFFICES ASSUME Hexadecimal
               PROVE  \E m \in Nat, n \in Nat : /\ Keep([rr EXCEPT !.rdata = <<Octets(offset + m, n)>>])
                                                /\ m + n <= rr.rdlength /\ rr.type \notin {MX, SOA}
    OBVIOUS
  <2> DEFINE n == Smaller(rr.rdlength, (MaxRdata - 2) \div 2)
  <2>1. Keep([rr EXCEPT !.rdata = <<Octets(offset, n)>>]) /\ rr.type \notin {MX, SOA}
    BY DEF Hexadecimal
  <2>2. n \in Nat /\ 0 + n <= rr.rdlength /\ offset + 0 = offset /\ 0 \in Nat
    BY <1>2, DnsLimits DEF Smaller
  <2>. HIDE DEF n
  <2>3. QED BY <2>1, <2>2
<1>9. ShortExchange => Keep(rr)
  BY DEF ShortExchange
<1>10. QED BY <1>3, <1>4, <1>5, <1>6, <1>7, <1>8, <1>9

\* A record that ends with a name in its data.
LEMMA NameShape ==
    ASSUME ParserInv, ReadingInv, AllShaped(pkt),
           TargetRead \/ ExchangeRead \/ AuthorityRead \/ NoRdata
    PROVE  ReadingInv' /\ AllShaped(pkt')
<1> DEFINE Parted(d) == /\ d \in Seq(Seq(Byte))
                        /\ d = <<>> \/ Len(d) = IF rr.type = MX THEN 2 ELSE IF rr.type = SOA THEN 3 ELSE 1
<1>1. ASSUME NEW d, Parted(d), Keep([rr EXCEPT !.rdata = d]) PROVE ReadingInv' /\ AllShaped(pkt')
  BY <1>1, PartsShape, KeepShape
<1>2. nm.out \in Seq(Byte) /\ rr.rdata \in Seq(Seq(Byte)) /\ nm.start \in Nat /\ nm.consumed \in Nat
      /\ offset \in Nat /\ rr.rdlength \in Nat /\ buf \in Seq(Byte) /\ End \in Nat
  BY Numbers, Standing DEF ParserInv
<1>3. CASE TargetRead
  <2>1. Keep([rr EXCEPT !.rdata = <<nm.out>>]) /\ rr.type \in {NS, CNAME, PTR}
    BY <1>3 DEF TargetRead, Got, Lost, ReadingInv, InNameOf
  <2>2. Parted(<<nm.out>>)
    BY <1>2, <2>1, OneSequence DEF NS, CNAME, PTR, MX, SOA
  <2>. HIDE DEF Parted
  <2>3. QED BY <1>1, <2>1, <2>2
<1>4. CASE ExchangeRead
  <2>1. Keep([rr EXCEPT !.rdata = <<Octets(offset, 2), nm.out>>]) /\ rr.type = MX /\ InData
        /\ rr.rdlength >= 3
    BY <1>4 DEF ExchangeRead, Got, ReadingInv, InNameOf, InData, ParserInv, NameInv
  <2>2. Octets(offset, 2) \in Seq(Byte)
    <3>1. offset + 2 <= End /\ 2 \in Nat
      BY <1>2, <2>1, DataIs
    <3>2. QED BY <1>2, <3>1, OctetsAre
  <2> DEFINE d == <<Octets(offset, 2), nm.out>>
  <2>3. d \in Seq(Seq(Byte)) /\ Len(d) = 2
    BY <1>2, <2>2, Pairs
  <2>4. Parted(d) /\ Keep([rr EXCEPT !.rdata = d])
    BY <2>1, <2>3
  <2>. HIDE DEF Parted, d
  <2>5. QED BY <1>1, <2>4
<1>5. CASE NoRdata
  <2>1. Keep([rr EXCEPT !.rdata = <<>>])
    BY <1>5 DEF NoRdata
  <2>2. Parted(<<>>)
    OBVIOUS
  <2>. HIDE DEF Parted
  <2>3. QED BY <1>1, <2>1, <2>2
<1>6. CASE AuthorityRead
  <2> DEFINE n == nm.start + nm.consumed
             d == rr.rdata \o <<nm.out, Octets(n, 20)>>
  <2>1. \/ n + 20 <= offset + rr.rdlength /\ Keep([rr EXCEPT !.rdata = d])
        \/ Keep([rr EXCEPT !.rdata = <<>>])
    BY <1>6 DEF AuthorityRead
  <2>2. rr.type = SOA /\ Len(rr.rdata) = 1 /\ InData
    BY <1>6 DEF AuthorityRead, Got, ReadingInv, InNameOf, InData
  <2>3. Parted(<<>>)
    OBVIOUS
  <2>4. ASSUME n + 20 <= offset + rr.rdlength PROVE Parted(d)
    <3>1. Octets(n, 20) \in Seq(Byte)
      <4>1. n \in Nat /\ 20 \in Nat /\ n + 20 <= End
        BY <1>2, <2>2, <2>4, DataIs
      <4>2. QED BY <1>2, <4>1, OctetsAre
    <3>2. <<nm.out, Octets(n, 20)>> \in Seq(Seq(Byte)) /\ Len(<<nm.out, Octets(n, 20)>>) = 2
      BY <1>2, <3>1, Pairs
    <3>3. d \in Seq(Seq(Byte)) /\ Len(d) = Len(rr.rdata) + Len(<<nm.out, Octets(n, 20)>>)
      BY <1>2, <3>2, Joined
    <3>. HIDE DEF d
    <3>4. Len(d) = 3
      BY <2>2, <3>2, <3>3
    <3>5. QED BY <2>2, <3>3, <3>4 DEF SOA, MX
  <2>. HIDE DEF Parted, d, n
  <2>5. QED BY <1>1, <2>1, <2>3, <2>4
<1>7. QED BY <1>3, <1>4, <1>5, <1>6

LEMMA ParserNextShape ==
    ASSUME ParserInv, ReadingInv, AllShaped(pkt), ParserNext
    PROVE  ReadingInv' /\ AllShaped(pkt')
<1>1. CASE NameStep
  <2>1. nm \in NameRecord
    BY DEF ParserInv, ParserTypes, NameRecord
  <2>2. at = "name" /\ at' \in {"name", "named", "noname"} /\ UNCHANGED <<rr, pkt>>
    BY <1>1 DEF NameStep, TruncatedPointer, Pointer, Root, BadLabel, Label, OutOfOctets, InName
  <2>3. nm'.goal = nm.goal
    BY <1>1, <2>1 DEF NameStep, TruncatedPointer, Pointer, Root, BadLabel, Label, OutOfOctets,
                      NameRecord
  <2>4. QED BY <2>2, <2>3 DEF ReadingInv, InNameOf
<1>2. CASE ShortHeader \/ BadQuestion \/ SectionEnds \/ BadOwner \/ ShortRecord
  <2>1. at' \in {"error", "section", "ok"} /\ pkt' = pkt
    BY <1>2 DEF ShortHeader, BadQuestion, SectionEnds, BadOwner, ShortRecord, Leave
  <2>2. QED BY <2>1 DEF ReadingInv, InNameOf
<1>3. CASE Header \/ Question
  <2>1. ReadingInv'
    BY <1>3 DEF Header, Question, StartName, Name, ReadingInv, InNameOf
  <2>2. pkt'.records = pkt.records
    BY <1>3, Standing DEF Header, Question, Packet
  <2>3. QED BY <2>1, <2>2 DEF AllShaped
<1>4. CASE Owner \/ Fixed
  <2>1. pkt' = pkt
    BY <1>4 DEF Owner, Fixed
  <2>2. CASE Owner
    BY <2>1, <2>2 DEF Owner, StartName, Name, ReadingInv, InNameOf
  <2>3. CASE Fixed
    <3>1. at' \in {"section", "ok", "rdata"} /\ rr'.rdata = <<>>
      BY <2>3 DEF Fixed, Leave, NoRecord
    <3>2. QED BY <2>1, <3>1 DEF ReadingInv, InNameOf
  <2>4. QED BY <1>4, <2>2, <2>3
<1>5. CASE Target \/ Exchange \/ Authority
  BY <1>5 DEF Target, Exchange, Authority, StartName, Name, ReadingInv, InNameOf
<1>6. CASE AuthorityName
  <2>1. rr.type = SOA /\ pkt' = pkt /\ rr' = [rr EXCEPT !.rdata = <<nm.out>>]
        /\ at' = "name" /\ nm'.goal = "rname"
    BY <1>6 DEF AuthorityName, Got, ReadingInv, InNameOf, StartName, Name
  <2>2. rr'.type = SOA /\ Len(rr'.rdata) = 1
    BY <2>1, Standing DEF Record
  <2>3. QED BY <2>1, <2>2 DEF ReadingInv, InNameOf
<1>7. CASE Address \/ Text \/ Hexadecimal \/ ShortExchange
  BY <1>7, DataShape
<1>8. CASE TargetRead \/ ExchangeRead \/ AuthorityRead \/ NoRdata
  BY <1>8, NameShape
<1>9. QED BY <1>1, <1>2, <1>3, <1>4, <1>5, <1>6, <1>7, <1>8 DEF ParserNext

\* A packet of no records.
LEMMA NoneShaped == AllShaped(NoPacket)
<1>1. \A s \in Section : NoPacket.records[s] = <<>>
  BY DEF NoPacket
<1>2. QED BY <1>1 DEF AllShaped

LEMMA NextShape ==
    ASSUME IInv, ShapeInv, [Next]_vars
    PROVE  ShapeInv'
<1>1. CASE ParserStep
  <2>1. ReadingInv' /\ AllShaped(pkt')
    BY <1>1, ParserNextShape DEF ParserStep, IInv, ShapeInv
  <2>2. response' = response
    BY <1>1 DEF ParserStep, sessionVars
  <2>3. QED BY <2>1, <2>2 DEF ShapeInv
<1>2. CASE PrereadParsed \/ ParsedUp \/ ParsedDown
  <2>1. Forget /\ response' \in {response, Latch(response)}
    BY <1>2 DEF PrereadParsed, ParsedUp, ParsedDown
  <2>2. response'.pkt \in {response.pkt, pkt}
    BY <2>1 DEF Latch
  <2>3. at' = "idle" /\ pkt' = NoPacket
    BY <2>1 DEF Forget
  <2>4. QED BY <2>2, <2>3, NoneShaped DEF ShapeInv, ReadingInv, InNameOf
<1>3. CASE PrereadParse \/ ParseUp \/ ParseDown
  <2>1. at' = "header" /\ pkt' = NoPacket /\ response' = response
    BY <1>3 DEF PrereadParse, ParseUp, ParseDown, Parse, sessionVars
  <2>2. QED BY <2>1, NoneShaped DEF ShapeInv, ReadingInv, InNameOf
<1>4. CASE \/ Declines \/ ShortDatagram \/ AwaitMore \/ CoreReads \/ GivesUp
           \/ PassUp \/ PassDown \/ Close \/ Closed \/ UNCHANGED vars
  <2>1. UNCHANGED <<parserVars, response>>
    BY <1>4 DEF Declines, ShortDatagram, AwaitMore, CoreReads, GivesUp, PassUp, PassDown, Close,
                Closed, vars, sessionVars
  <2>2. QED BY <2>1 DEF parserVars, ShapeInv, ReadingInv, InNameOf
<1>5. QED BY <1>1, <1>2, <1>3, <1>4 DEF Next

LEMMA InitShape == Init => ShapeInv
BY NoneShaped DEF Init, ParserInit, ShapeInv, ReadingInv, InNameOf, Nothing

-----------------------------------------------------------------------------
(* The theorems                                                            *)

\* The strengthened invariant the others rest on.
THEOREM DnsInductive == Spec => []IInv
<1>1. IInv /\ [Next]_vars => IInv'
  BY NextIInv
<1>2. QED BY <1>1, InitIInv, PTL DEF Spec

\* Every reachable state is of the right types, whatever the octets are.
THEOREM DnsTypeCorrect == Spec => []TypeOK
<1>1. IInv => TypeOK
  <2> SUFFICES ASSUME IInv PROVE TypeOK
    OBVIOUS
  <2>1. Len(talk.client.octets) \in Nat /\ Len(talk.upstream.octets) \in Nat
    <3>1. talk.client.octets \in Seq(Byte) /\ talk.upstream.octets \in Seq(Byte)
      BY TalkIs DEF IInv, SessionTypes
    <3>2. QED BY <3>1
  <2>2. held \in Nat /\ up \in Nat /\ down \in Nat
    <3>1. /\ held \in 0..Len(talk.client.octets) /\ up \in 0..Len(talk.client.octets)
          /\ down \in 0..Len(talk.upstream.octets)
      BY DEF IInv, SessionTypes
    <3>2. QED BY <2>1, <3>1
  <2>3. QED BY <2>2 DEF IInv, ParserInv, ParserTypes, SessionTypes, Context, TypeOK, Goal
<1>2. QED BY <1>1, DnsInductive, PTL

\* The parser reads no octet behind the packet, and no name and no table outgrows its
\* buffer, whatever the octets are (ngx_dns_parser.c:62-346).
THEOREM DnsInBuffer == Spec => []InBuffer
<1>1. IInv => InBuffer
  BY DEF IInv, ParserInv, NameInv, TableInv, PlaceInv, InBuffer
<1>2. QED BY <1>1, DnsInductive, PTL

\* A datagram is never held in the preread phase (ngx_stream_dns_module.c:80-83).
THEOREM DnsDatagramNeverHeld == Spec => []DatagramNeverHeld
<1>1. IInv => DatagramNeverHeld
  BY DEF IInv, CallInv, DatagramNeverHeld
<1>2. QED BY <1>1, DnsInductive, PTL

\* Nothing is parsed unless the nearest level that says something says on.
THEOREM DnsNearestLevelCounts == Spec => []NearestLevelCounts
<1>1. IInv => NearestLevelCounts
  <2> SUFFICES ASSUME IInv, request.parsed \/ response.parsed \/ InCall
               PROVE  LET nearest == IF talk.server.dns_parse # <<>> THEN talk.server.dns_parse
                                                                   ELSE talk.stream.dns_parse
                      IN  nearest # <<>> /\ nearest[Len(nearest)] = "on"
    BY DEF NearestLevelCounts
  <2>1. Enabled
    <3>1. request.parsed \in BOOLEAN /\ response.parsed \in BOOLEAN
      BY DEF IInv, SessionTypes, Context
    <3>2. QED BY <3>1 DEF IInv, CallInv
  <2> DEFINE inner == talk.server.dns_parse
             outer == talk.stream.dns_parse
  <2>2. inner \in Seq({"on", "off"}) /\ outer \in Seq({"on", "off"})
    BY TalkIs DEF IInv, SessionTypes, Level
  <2>3. Merged(Switch(outer), Switch(inner), "off") = "on"
    BY <2>1 DEF Enabled
  <2>4. Unset # "on" /\ Unset # "off"
    BY SizeAssumption
  <2> HIDE DEF inner, outer
  <2>5. CASE inner # <<>>
    <3>1. Switch(inner) = inner[Len(inner)] /\ Len(inner) \in 1..Len(inner)
      BY <2>2, <2>5 DEF Switch
    <3>2. Switch(inner) \in {"on", "off"}
      BY <2>2, <3>1, Element
    <3>3. Switch(inner) # Unset
      BY <2>4, <3>2
    <3>4. Merged(Switch(outer), Switch(inner), "off") = Switch(inner)
      BY <3>3 DEF Merged
    <3>5. inner[Len(inner)] = "on"
      BY <2>3, <3>1, <3>4
    <3>6. QED BY <2>5, <3>5 DEF inner
  <2>6. CASE inner = <<>>
    <3>1. Switch(inner) = Unset
      BY <2>6 DEF Switch
    <3>2. outer # <<>> /\ Switch(outer) = "on"
      BY <2>3, <2>4, <3>1 DEF Merged, Switch
    <3>3. outer # <<>> /\ outer[Len(outer)] = "on"
      BY <3>2 DEF Switch
    <3>4. QED BY <2>6, <3>3 DEF inner, outer
  <2>7. QED BY <2>5, <2>6
<1>2. QED BY <1>1, DnsInductive, PTL

\* What was parsed stays, whatever passes the filter later in either direction.
THEOREM DnsParsedOnce == Spec => ParsedOnce
<1> DEFINE Kept == /\ request.parsed => request' = request
                   /\ response.parsed => response' = response
<1>1. ASSUME IInv, [Next]_vars PROVE Kept \/ UNCHANGED vars
  <2>1. request.parsed \in BOOLEAN /\ response.parsed \in BOOLEAN
    BY <1>1 DEF IInv, SessionTypes, Context
  <2>2. CASE UNCHANGED <<request, response>>
    BY <2>2
  <2>3. CASE PrereadParsed \/ ParsedUp
    <3>1. request.parsed = FALSE /\ response' = response
      BY <1>1, <2>3 DEF PrereadParsed, ParsedUp, IInv, CallInv
    <3>2. QED BY <3>1
  <2>4. CASE ParsedDown
    <3>1. response.parsed = FALSE /\ request' = request
      BY <1>1, <2>4 DEF ParsedDown, IInv, CallInv
    <3>2. QED BY <3>1
  <2>5. CASE ~(PrereadParsed \/ ParsedUp \/ ParsedDown)
    <3>1. UNCHANGED <<request, response>>
      BY <1>1, <2>5
         DEF Next, vars, sessionVars, Declines, PrereadParse, ShortDatagram, AwaitMore, CoreReads,
             GivesUp, PassUp, ParseUp, PassDown, ParseDown, ParserStep, Close, Closed
    <3>2. QED BY <2>2, <3>1
  <2>6. QED BY <2>3, <2>4, <2>5
<1>2. IInv /\ [Next]_vars => [Kept]_vars
  BY <1>1
<1>3. QED BY <1>2, DnsInductive, PTL DEF Spec, ParsedOnce

\* Both lists are cut at the end of their buffers and nowhere else, whatever records were
\* read and however large the buffers are (ngx_dns_parser.c:348-421).
THEOREM DnsListsFit == Spec => []ListsFit
<1>1. IInv /\ ShapeInv /\ [Next]_vars => ShapeInv'
  BY NextShape
<1>2. IInv /\ ShapeInv => ListsFit
  <2> SUFFICES ASSUME IInv, ShapeInv PROVE ListsFit
    OBVIOUS
  <2>1. response.pkt \in Packet
    BY DEF IInv, SessionTypes, Context
  <2>2. \A i \in 1..Len(Answers) : Shaped(Answers[i])
    BY DEF ShapeInv, AllShaped, Answers, Section
  <2>3. QED BY <2>1, <2>2, ListsOf
<1>3. Init => ShapeInv
  BY InitShape
<1>4. Spec => []ShapeInv
  BY <1>1, <1>3, DnsInductive, PTL DEF Spec
<1>5. QED BY <1>2, <1>4, DnsInductive, PTL

=============================================================================
