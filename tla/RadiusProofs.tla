---------------------------- MODULE RadiusProofs ----------------------------
(***************************************************************************)
(* Theorems about RADIUS sessions, for any packets, sizes and segments.    *)
(***************************************************************************)
EXTENDS RadiusSession, SequenceTheorems, WellFoundedInduction, TLAPS

\* A part of a byte string.
LEMMA Slice ==
    ASSUME NEW s \in Seq(Byte), NEW m \in Nat \ {0}, NEW n \in 0..Len(s)
    PROVE  /\ SubSeq(s, m, n) \in Seq(Byte)
           /\ Len(SubSeq(s, m, n)) = IF m <= n THEN n - m + 1 ELSE 0
           /\ \A i \in 1..(n - m + 1) : SubSeq(s, m, n)[i] = s[m + i - 1]
<1>1. \A i \in m..n : s[i] \in Byte
  OBVIOUS
<1>2. QED BY <1>1, SubSeqProperties

\* An attribute appended to the table is the last one, the others stay.
LEMMA AppendAttr ==
    ASSUME NEW S, NEW table \in Seq(S), NEW a \in S
    PROVE  /\ Append(table, a) \in Seq(S)
           /\ Len(Append(table, a)) = Len(table) + 1
           /\ \A i \in 1..Len(table) : Append(table, a)[i] = table[i]
           /\ Append(table, a)[Len(table) + 1] = a
  BY AppendProperties

-----------------------------------------------------------------------------
(* The parser                                                              *)

PInv == ParserTypeOK /\ InsidePacket

\* The type and the length of an attribute inside the packet are bytes.
LEMMA FitsFacts ==
    ASSUME PInv, NEW o \in Nat, NEW end \in Nat, end <= End, Fits(o, end)
    PROVE  /\ AType(o) \in Byte /\ ALen(o) \in 2..255
           /\ o + 2 <= end /\ o + ALen(o) \in Nat /\ o + ALen(o) <= end
<1>1. data \in Seq(Byte) /\ o + 1 \in 1..Len(data) /\ o + 2 \in 1..Len(data)
  BY DEF PInv, ParserTypeOK, Fits, End
<1>2. AType(o) \in Byte /\ ALen(o) \in Byte
  BY <1>1 DEF AType, ALen
<1>3. o + 2 <= end /\ ALen(o) >= 2 /\ o + ALen(o) <= end
  BY DEF Fits
<1>4. PICK n \in Byte : n = ALen(o)
  BY <1>2
<1>5. n \in 2..255 /\ o + n \in Nat /\ o + n <= end
  BY <1>3, <1>4 DEF Byte
<1>6. QED BY <1>2, <1>3, <1>4, <1>5

\* What the walk appends is an attribute that lies inside the packet.
LEMMA StandardFacts ==
    ASSUME PInv, p <= End, Fits(p, End)
    PROVE  Standard(p) \in Attr /\ Standard(p).from + Standard(p).len <= End
<1>1. p \in Nat /\ End \in Nat
  BY DEF PInv, ParserTypeOK, End
<1>2. /\ AType(p) \in Byte /\ ALen(p) \in 2..255
      /\ p + 2 <= End /\ p + ALen(p) \in Nat /\ p + ALen(p) <= End
  BY <1>1, FitsFacts
<1>3. NoVendor \in Seq(Byte)
  BY VendorAssumption DEF NoVendor, Byte
<1>4. p + 2 \in Nat /\ ALen(p) - 2 \in Nat /\ 0 \in Byte
  BY <1>1, <1>2 DEF Byte
<1>5. Standard(p) \in Attr
  BY <1>2, <1>3, <1>4 DEF Standard, Attr
<1>6. (p + 2) + (ALen(p) - 2) <= End
  <2>1. PICK n \in 2..255 : n = ALen(p)
    BY <1>2
  <2>2. p + n <= End
    BY <1>2, <2>1
  <2>3. (p + 2) + (n - 2) <= End
    BY <1>1, <2>2
  <2>4. QED BY <2>1, <2>3
<1>7. QED BY <1>5, <1>6 DEF Standard

\* The same for a part of a vendor-specific attribute.
LEMMA VSAFacts ==
    ASSUME PInv, loop = "vsa", Fits(sub, p + ALen(p))
    PROVE  VSA(p, sub) \in Attr /\ VSA(p, sub).from + VSA(p, sub).len <= End
<1>1. p \in Nat /\ sub \in Nat /\ data \in Seq(Byte) /\ End \in Nat
  BY DEF PInv, ParserTypeOK, End
<1>2. Fits(p, End) /\ p + 2 + VendorLen <= sub /\ sub <= p + ALen(p)
  BY DEF PInv, InsidePacket
<1>3. p + ALen(p) \in Nat /\ p + ALen(p) <= End /\ ALen(p) \in 2..255
  BY <1>1, <1>2, FitsFacts
<1>4. /\ AType(sub) \in Byte /\ ALen(sub) \in 2..255
      /\ sub + 2 <= p + ALen(p) /\ sub + ALen(sub) \in Nat /\ sub + ALen(sub) <= p + ALen(p)
  BY <1>1, <1>3, FitsFacts
<1>5. p + 3 \in Nat \ {0} /\ p + 2 + VendorLen \in 0..Len(data)
  BY <1>1, <1>2, <1>3, VendorAssumption DEF End
<1>6. Vendor(p) \in Seq(Byte)
  BY <1>1, <1>5, Slice DEF Vendor
<1>7. sub + 2 \in Nat /\ ALen(sub) - 2 \in Nat /\ VendorSpecific \in Byte
  <2>1. sub + 2 \in Nat /\ VendorSpecific \in Byte
    BY <1>1, VendorAssumption DEF Byte
  <2>2. PICK n \in 2..255 : n = ALen(sub)
    BY <1>4
  <2>3. n - 2 \in Nat
    OBVIOUS
  <2>4. QED BY <2>1, <2>2, <2>3
<1>8. VSA(p, sub) \in Attr
  BY <1>4, <1>6, <1>7 DEF VSA, Attr
<1>9. sub + ALen(sub) <= End
  BY <1>1, <1>3, <1>4
<1>10. (sub + 2) + (ALen(sub) - 2) = sub + ALen(sub)
  <2>1. PICK n \in 2..255 : n = ALen(sub)
    BY <1>4
  <2>2. (sub + 2) + (n - 2) = sub + n
    BY <1>1
  <2>3. QED BY <2>1, <2>2
<1>11. QED BY <1>8, <1>9, <1>10 DEF VSA

\* Appending an attribute that lies inside keeps the table.
LEMMA AppendInside ==
    ASSUME PInv, ~Full, NEW a \in Attr, a.from + a.len <= End, attrs' = Append(attrs, a),
           UNCHANGED data
    PROVE  /\ attrs' \in Seq(Attr)
           /\ \A i \in 1..Len(attrs') : attrs'[i].from + attrs'[i].len <= End'
           /\ Len(attrs') <= MaxAttrs
<1>1. attrs \in Seq(Attr)
  BY DEF PInv, ParserTypeOK
<1>2. /\ attrs' \in Seq(Attr) /\ Len(attrs') = Len(attrs) + 1
      /\ \A i \in 1..Len(attrs) : attrs'[i] = attrs[i]
      /\ attrs'[Len(attrs) + 1] = a
  BY <1>1, AppendAttr
<1>3. End' = End
  BY DEF End
<1>4. \A i \in 1..Len(attrs') : attrs'[i].from + attrs'[i].len <= End'
  <2>1. TAKE i \in 1..Len(attrs')
  <2>2. CASE i \in 1..Len(attrs)
    BY <1>2, <1>3, <2>2 DEF PInv, InsidePacket
  <2>3. CASE i = Len(attrs) + 1
    BY <1>2, <1>3, <2>3
  <2>4. QED BY <1>1, <1>2, <2>2, <2>3
<1>5. Len(attrs') <= MaxAttrs
  BY <1>1, <1>2, TableAssumption DEF Full
<1>6. QED BY <1>2, <1>4, <1>5

\* No iteration leaves the packet.
LEMMA IterateInv ==
    ASSUME PInv, Iterate
    PROVE  PInv' /\ UNCHANGED data
<1>a. UNCHANGED data
  BY DEF Iterate, Malformed, Stop, Finish, NoMemory, Take, SkipVSA, EnterVSA, TakeVSA, LeaveVSA
<1>b. SUFFICES PInv'
  BY <1>a
<1> USE DEF PInv, ParserTypeOK
<1>0. p \in Nat /\ sub \in Nat /\ End \in Nat /\ p <= End
  BY DEF End, InsidePacket
<1>1. CASE Malformed \/ Stop \/ Finish
  BY <1>1 DEF Malformed, Stop, Finish, InsidePacket, End, Fits, ALen
<1>2. CASE Take
  <2>1. Standard(p) \in Attr /\ Standard(p).from + Standard(p).len <= End
    BY <1>0, <1>2, StandardFacts DEF Take
  <2>2. p + ALen(p) \in Nat /\ p + ALen(p) <= End
    BY <1>0, <1>2, FitsFacts DEF Take
  <2>3. /\ attrs' \in Seq(Attr)
        /\ \A i \in 1..Len(attrs') : attrs'[i].from + attrs'[i].len <= End'
        /\ Len(attrs') <= MaxAttrs
    BY <1>2, <2>1, AppendInside DEF Take
  <2>4. QED BY <1>2, <2>2, <2>3 DEF Take, InsidePacket, End
<1>3. CASE SkipVSA
  <2>1. p + ALen(p) \in Nat /\ p + ALen(p) <= End
    BY <1>0, <1>3, FitsFacts DEF SkipVSA
  <2>2. QED BY <1>3, <2>1 DEF SkipVSA, InsidePacket, End
<1>4. CASE EnterVSA
  <2>1. p + ALen(p) \in Nat /\ p + ALen(p) <= End /\ ALen(p) \in 2..255
    BY <1>0, <1>4, FitsFacts DEF EnterVSA
  <2>2. Fits(p, End)' /\ (p + ALen(p))' = p + ALen(p) /\ End' = End
    BY <1>4 DEF EnterVSA, Fits, ALen, End
  <2>3. p + 2 + VendorLen <= sub' /\ sub' <= p + ALen(p) /\ sub' \in Nat
    <3>1. sub' = p + 2 + VendorLen /\ VendorLen + 2 <= ALen(p) - 2
      BY <1>4, <2>1, VendorAssumption DEF EnterVSA
    <3>2. PICK m \in 2..255 : m = ALen(p)
      BY <2>1
    <3>3. p + 2 + VendorLen <= p + m
      BY <1>0, <3>1, <3>2, VendorAssumption
    <3>4. QED BY <1>0, <3>1, <3>2, <3>3, VendorAssumption
  <2>4. ParserTypeOK'
    BY <1>4, <2>3 DEF EnterVSA
  <2>5. InsidePacket'
    BY <1>0, <1>4, <2>2, <2>3 DEF EnterVSA, InsidePacket
  <2>6. QED BY <2>4, <2>5
<1>5. CASE TakeVSA
  <2>1. VSA(p, sub) \in Attr /\ VSA(p, sub).from + VSA(p, sub).len <= End
    BY <1>5, VSAFacts DEF TakeVSA
  <2>2. Fits(p, End) /\ p + 2 + VendorLen <= sub
    BY <1>5 DEF TakeVSA, InsidePacket
  <2>3. p + ALen(p) \in Nat /\ p + ALen(p) <= End
    BY <1>0, <2>2, FitsFacts
  <2>4. sub + ALen(sub) \in Nat /\ sub + ALen(sub) <= p + ALen(p) /\ ALen(sub) \in 2..255
    BY <1>0, <1>5, <2>3, FitsFacts DEF TakeVSA
  <2>5. /\ attrs' \in Seq(Attr)
        /\ \A i \in 1..Len(attrs') : attrs'[i].from + attrs'[i].len <= End'
        /\ Len(attrs') <= MaxAttrs
    BY <1>5, <2>1, AppendInside DEF TakeVSA
  <2>6. Fits(p, End)' /\ (p + ALen(p))' = p + ALen(p) /\ End' = End
    BY <1>5, <2>2 DEF TakeVSA, Fits, ALen, End
  <2>7. p + 2 + VendorLen <= sub' /\ sub' <= p + ALen(p) /\ sub' \in Nat
    <3>1. sub' = sub + ALen(sub)
      BY <1>5 DEF TakeVSA
    <3>2. PICK m \in 2..255 : m = ALen(sub)
      BY <2>4
    <3>3. sub' <= p + ALen(p) /\ sub' \in Nat
      BY <2>4, <3>1
    <3>4. p + 2 + VendorLen <= sub + m
      BY <1>0, <2>2, VendorAssumption
    <3>5. QED BY <3>1, <3>2, <3>3, <3>4
  <2>8. ParserTypeOK'
    BY <1>5, <2>5, <2>7 DEF TakeVSA
  <2>9. InsidePacket'
    BY <1>0, <1>5, <2>5, <2>6, <2>7 DEF TakeVSA, InsidePacket
  <2>10. QED BY <2>8, <2>9
<1>6. CASE LeaveVSA
  <2>1. p + ALen(p) \in Nat /\ p + ALen(p) <= End
    BY <1>0, <1>6, FitsFacts DEF LeaveVSA, InsidePacket
  <2>2. QED BY <1>6, <2>1 DEF LeaveVSA, InsidePacket, End
<1>7. CASE NoMemory
  <2>1. \E a \in Attr : a.from + a.len <= End /\ attrs' = Append(attrs, a)
    <3>1. CASE loop = "avp"
      BY <1>0, <1>7, <3>1, StandardFacts DEF NoMemory
    <3>2. CASE loop = "vsa"
      BY <1>7, <3>2, VSAFacts DEF NoMemory
    <3>3. QED BY <1>7, <3>1, <3>2 DEF NoMemory
  <2>2. /\ attrs' \in Seq(Attr)
        /\ \A i \in 1..Len(attrs') : attrs'[i].from + attrs'[i].len <= End'
        /\ Len(attrs') <= MaxAttrs
    BY <1>7, <2>1, AppendInside DEF NoMemory
  <2>3. QED BY <1>7, <2>2 DEF NoMemory, InsidePacket, End
<1>8. QED BY <1>1, <1>2, <1>3, <1>4, <1>5, <1>6, <1>7 DEF Iterate

\* A call begins inside the packet.
LEMMA ParseInv ==
    ASSUME NEW bytes \in Seq(Byte), Len(bytes) >= HeaderLen, Parse(bytes)
    PROVE  PInv'
  BY HeaderAssumption, TableAssumption
     DEF Parse, PInv, ParserTypeOK, InsidePacket, End

-----------------------------------------------------------------------------
(* The session                                                             *)

Before == {"accepted", "waiting", "receiving"}

\* Inductive: before the parse nothing is known of the request; while it is parsed, data
\* is the packet the client's bytes begin with.
SInv ==
    /\ TypeOK
    /\ InsidePacket
    /\ UDP => arrived = Len(Client)
    /\ phase \in Before => ~request.parsed
    /\ phase \in {"parsing", "sending"} => Len(data) >= HeaderLen
    /\ phase = "parsing" => /\ data = SubSeq(Client, 1, Declared(Client))
                            /\ Declared(Client) \in HeaderLen..held
    /\ RequestIsWhole
    /\ DatagramNeverWaits

\* A session's strings are byte strings, and its transport is one of two.
LEMMA SessionFacts ==
    ASSUME TypeOK
    PROVE  /\ Client \in Seq(Byte) /\ scenario.answer \in Seq(Byte)
           /\ scenario.ends \subseteq 1..Len(scenario.answer)
           /\ Len(Client) \in Nat /\ Len(scenario.answer) \in Nat /\ Room \in Nat
  BY ScenarioAssumption, SizeAssumption DEF TypeOK, IsSession, Client, Room

\* The Length field of a packet is a number.
LEMMA DeclaredFacts ==
    ASSUME NEW b \in Seq(Byte), Len(b) >= 4
    PROVE  Declared(b) \in Nat
<1>1. b[3] \in Byte /\ b[4] \in Byte
  OBVIOUS
<1>2. \A x, y \in Byte : 256 * x + y \in Nat
  BY DEF Byte
<1>3. QED BY <1>1, <1>2 DEF Declared

\* What a call of the handler finds in the buffer.
LEMMA GotFacts ==
    ASSUME TypeOK, UDP => arrived = Len(Client)
    PROVE  Got \in 0..Least(arrived, Room)
<1>1. Len(Client) \in Nat /\ arrived \in 0..Len(Client) /\ BufferSize \in Nat
  BY SessionFacts, SizeAssumption DEF TypeOK
<1>2. CASE UDP
  BY <1>1, <1>2 DEF Got, Room, Least, TypeOK
<1>3. CASE ~UDP
  BY <1>1, <1>3 DEF Got, Room, Least
<1>4. QED BY <1>2, <1>3

LEMMA InitSInv == Init => SInv
<1>1. SUFFICES ASSUME Init PROVE SInv
  OBVIOUS
<1>2. PInv
  BY <1>1, HeaderAssumption, TableAssumption DEF Init, PInv, ParserTypeOK, InsidePacket, End
<1>3. /\ Client \in Seq(Byte) /\ scenario.answer \in Seq(Byte)
      /\ Len(Client) \in Nat /\ Len(scenario.answer) \in Nat
  BY <1>1, ScenarioAssumption DEF Init, IsSession, Client
<1>4. arrived \in 0..Len(Client) /\ held \in 0..Least(arrived, Room)
  BY <1>1, <1>3, SizeAssumption DEF Init, Least, Room
<1>5. /\ request \in [parsed : BOOLEAN, error : BOOLEAN, code : Byte, attrs : Seq(Attr)]
      /\ response \in [parsed : BOOLEAN, code : Byte, attrs : Seq(Attr), buf : Seq(Byte)]
  BY <1>1 DEF Init, NoRequest, NoResponse, Byte
<1>a. taken \in 0..Len(scenario.answer) /\ sent \in 0..taken
  BY <1>1, <1>3 DEF Init
<1>b. ParserTypeOK
  BY <1>2 DEF PInv
<1>c. scenario \in Scenario /\ phase = "accepted" /\ wrapped \in BOOLEAN
  BY <1>1 DEF Init
<1>6. TypeOK
  BY <1>4, <1>5, <1>a, <1>b, <1>c DEF TypeOK
<1>7. ~request.parsed
  BY <1>1 DEF Init, NoRequest
<1>8. QED BY <1>1, <1>2, <1>6, <1>7 DEF Init, SInv, PInv, RequestIsWhole, DatagramNeverWaits

\* A step of the session that leaves the parser and the scenario alone, and whose other
\* variables keep their types, keeps what the parser needs.
LEMMA QuietStep ==
    ASSUME SInv, UNCHANGED <<parserVars, scenario>>
    PROVE  /\ PInv' /\ Client' = Client /\ UDP' = UDP /\ Room' = Room /\ End' = End
           /\ scenario' \in Scenario
  BY DEF SInv, TypeOK, PInv, ParserTypeOK, InsidePacket, parserVars, End, Client, UDP, Room,
         Fits, ALen

\* Bytes that arrive, or are taken into the buffer, before a request is known.
LEMMA ArriveInv ==
    ASSUME SInv, Arrive
    PROVE  SInv'
<1>1. PInv' /\ Client' = Client /\ UDP' = UDP /\ Room' = Room /\ scenario' \in Scenario
  BY QuietStep DEF Arrive
<1>2. Len(Client) \in Nat /\ Room \in Nat
  BY SessionFacts DEF SInv
<1>3. arrived \in 0..Len(Client) /\ held \in 0..Least(arrived, Room)
  BY DEF SInv, TypeOK
<1>4. arrived' \in arrived + 1 .. Len(Client)
  BY DEF Arrive
<1>5. arrived' \in 0..Len(Client') /\ held \in 0..Least(arrived', Room')
  BY <1>1, <1>2, <1>3, <1>4 DEF Least
<1>6. TypeOK'
  BY <1>1, <1>5 DEF Arrive, responseVars, SInv, TypeOK, PInv
<1>7. QED BY <1>1, <1>6 DEF Arrive, Before, SInv, PInv, RequestIsWhole, DatagramNeverWaits

\* Steps that only change the phase.
LEMMA PhaseInv ==
    ASSUME SInv, NothingYet \/ NoRoom \/ Timeout \/ Close \/ Closed
    PROVE  SInv'
<1>1. PInv' /\ Client' = Client /\ UDP' = UDP /\ Room' = Room /\ scenario' \in Scenario
  BY QuietStep DEF NothingYet, NoRoom, Timeout, Close, Closed, vars
<1>2. UNCHANGED <<scenario, requestVars, responseVars>>
  BY DEF NothingYet, NoRoom, Timeout, Close, Closed, vars
<1>3. phase' \in {"waiting", "closed"} /\ (phase' = "waiting" => phase \in Before /\ ~UDP)
  BY DEF NothingYet, NoRoom, Timeout, Close, Closed, vars, Called, Before
<1>4. TypeOK'
  BY <1>1, <1>2, <1>3 DEF requestVars, responseVars, SInv, TypeOK, PInv
<1>5. QED BY <1>1, <1>2, <1>3, <1>4
          DEF requestVars, Before, SInv, PInv, RequestIsWhole, DatagramNeverWaits

\* Steps that leave the session without a request, waiting for more, or reading.
LEMMA BufferInv ==
    ASSUME SInv, TooShort \/ BadLength \/ TooLong \/ AwaitRest \/ CoreReads
    PROVE  SInv'
<1>1. PInv' /\ Client' = Client /\ UDP' = UDP /\ Room' = Room /\ scenario' \in Scenario
  BY QuietStep DEF TooShort, BadLength, TooLong, AwaitRest, CoreReads, GiveUp
<1>2. UNCHANGED <<arrived, wrapped, response, taken, sent>>
  BY DEF TooShort, BadLength, TooLong, AwaitRest, CoreReads, GiveUp, responseVars
<1>3. request' \in {request, [request EXCEPT !.error = TRUE]} /\ phase \in Before
  BY DEF TooShort, BadLength, TooLong, AwaitRest, CoreReads, GiveUp, Incomplete, Receive,
         Called, Before
<1>4. /\ request \in [parsed : BOOLEAN, error : BOOLEAN, code : Byte, attrs : Seq(Attr)]
      /\ ~request.parsed
  BY <1>3 DEF SInv, TypeOK
<1>5. /\ request' \in [parsed : BOOLEAN, error : BOOLEAN, code : Byte, attrs : Seq(Attr)]
      /\ ~request'.parsed
  BY <1>3, <1>4
<1>6. Got \in 0..Least(arrived, Room)
  BY GotFacts DEF SInv
<1>7. AwaitRest \/ CoreReads => ~UDP
  <2>1. CASE AwaitRest
    <3>1. Len(Client) \in Nat
      BY SessionFacts DEF SInv
    <3>2. SUFFICES ASSUME UDP PROVE FALSE
      OBVIOUS
    <3>3. Len(Client) < Declared(Client) /\ Len(Client) >= Declared(Client)
      BY <2>1, <3>2 DEF AwaitRest, Incomplete, Got, Room
    <3>4. Len(Client) >= HeaderLen /\ Client \in Seq(Byte)
      BY <2>1, <3>2, SessionFacts DEF SInv, AwaitRest, Incomplete, Got
    <3>5. Declared(Client) \in Nat
      BY <3>1, <3>4, HeaderAssumption, DeclaredFacts
    <3>6. QED BY <3>1, <3>3, <3>5
  <2>2. CASE CoreReads
    BY <2>2 DEF CoreReads, SInv, DatagramNeverWaits
  <2>3. QED BY <2>1, <2>2
<1>8. held' \in 0..Least(arrived, Room)
  <2>1. CASE CoreReads
    <3>1. arrived \in Nat /\ BufferSize \in Nat
      BY SizeAssumption, SessionFacts DEF SInv, TypeOK
    <3>2. QED BY <1>7, <2>1, <3>1 DEF CoreReads, Least, Room
  <2>2. CASE ~CoreReads
    BY <1>6, <2>2 DEF TooShort, BadLength, TooLong, AwaitRest, GiveUp
  <2>3. QED BY <2>1, <2>2
<1>9. phase' \in {"proxying", "waiting", "receiving"} /\ (phase' = "waiting" => ~UDP)
  BY <1>7 DEF TooShort, BadLength, TooLong, AwaitRest, CoreReads, GiveUp
<1>10. TypeOK'
  <2>1. (held \in 0..Least(arrived, Room))'
    BY <1>1, <1>2, <1>8 DEF Least
  <2>2. /\ (arrived \in 0..Len(Client))'
        /\ (response \in [parsed : BOOLEAN, code : Byte, attrs : Seq(Attr), buf : Seq(Byte)])'
        /\ wrapped' \in BOOLEAN
    BY <1>1, <1>2 DEF SInv, TypeOK
  <2>3. (taken \in 0..Len(scenario.answer) /\ sent \in 0..taken)'
    <3>1. UNCHANGED scenario
      BY DEF TooShort, BadLength, TooLong, AwaitRest, CoreReads, GiveUp
    <3>2. QED BY <1>2, <3>1 DEF SInv, TypeOK
  <2>4. QED BY <1>1, <1>5, <1>9, <2>1, <2>2, <2>3 DEF TypeOK, PInv
<1>11. QED BY <1>1, <1>2, <1>5, <1>9, <1>10
           DEF SInv, PInv, RequestIsWhole, DatagramNeverWaits

\* The packet that is given to the parser is a part of what is held.
LEMMA StartRequestInv ==
    ASSUME SInv, StartRequest
    PROVE  SInv'
<1>1. Client \in Seq(Byte) /\ Len(Client) \in Nat /\ Room \in Nat
  BY SessionFacts DEF SInv
<1>2. Got \in 0..Least(arrived, Room) /\ arrived \in 0..Len(Client)
  BY GotFacts DEF SInv, TypeOK
<1>3. Got <= Len(Client) /\ Got \in Nat
  BY <1>1, <1>2 DEF Least
<1>4. Declared(Client) \in HeaderLen..Got /\ Declared(Client) \in 0..Len(Client)
  <2>1. Len(Client) >= 4
    BY <1>1, <1>3, HeaderAssumption DEF StartRequest
  <2>2. Declared(Client) \in Nat
    BY <1>1, <2>1, DeclaredFacts
  <2>3. Declared(Client) \in HeaderLen..MaxPacket /\ Declared(Client) <= Got
    BY DEF StartRequest, InRange
  <2>4. QED BY <1>1, <1>3, <2>2, <2>3, HeaderAssumption
<1>5. DEFINE packet == SubSeq(Client, 1, Declared(Client))
<1>6. packet \in Seq(Byte) /\ Len(packet) = Declared(Client)
  <2>1. /\ packet \in Seq(Byte)
        /\ Len(packet) = IF 1 <= Declared(Client) THEN Declared(Client) - 1 + 1 ELSE 0
    BY <1>1, <1>4, Slice
  <2>2. PICK n \in Nat : n = Declared(Client)
    BY <1>4, HeaderAssumption
  <2>3. 1 <= n
    BY <1>4, <2>2, HeaderAssumption
  <2>4. QED BY <2>1, <2>2, <2>3
<1>7. Len(packet) >= HeaderLen
  BY <1>4, <1>6, HeaderAssumption
<1>8. PInv' /\ data' = packet
  <2>1. Parse(packet)
    BY DEF StartRequest
  <2>2. PInv'
    BY <1>6, <1>7, <2>1, ParseInv
  <2>3. QED BY <2>1, <2>2 DEF Parse
<1>9. /\ phase' = "parsing" /\ held' = Got /\ UNCHANGED <<scenario, arrived, request, wrapped>>
      /\ UNCHANGED <<response, taken, sent>>
  BY DEF StartRequest, responseVars
<1>10. Client' = Client /\ UDP' = UDP /\ Room' = Room /\ Declared(Client)' = Declared(Client)
  BY <1>9 DEF Client, UDP, Room, Declared
<1>11. TypeOK'
  <2>1. (held \in 0..Least(arrived, Room))'
    BY <1>2, <1>9, <1>10 DEF Least
  <2>2. (arrived \in 0..Len(Client))'
    BY <1>2, <1>9, <1>10
  <2>3. QED BY <1>8, <1>9, <2>1, <2>2 DEF SInv, TypeOK, PInv
<1>12. ~request'.parsed
  BY <1>9 DEF StartRequest, Receive, Called, SInv, Before
<1>13. (phase = "parsing" => /\ data = SubSeq(Client, 1, Declared(Client))
                             /\ Declared(Client) \in HeaderLen..held)'
  BY <1>4, <1>8, <1>9, <1>10
<1>14. Len(data') >= HeaderLen
  BY <1>7, <1>8
<1>15. QED BY <1>8, <1>9, <1>10, <1>11, <1>12, <1>13, <1>14
           DEF SInv, PInv, RequestIsWhole, DatagramNeverWaits, Before

\* An iteration changes nothing but the walk.
LEMMA ParseStepInv ==
    ASSUME SInv, ParseStep
    PROVE  SInv'
<1>1. PInv' /\ UNCHANGED data
  BY IterateInv DEF ParseStep, SInv, TypeOK, PInv
<1>2. UNCHANGED <<scenario, phase, arrived, held, request, wrapped, response, taken, sent>>
  BY DEF ParseStep, requestVars, responseVars
<1>3. Client' = Client /\ UDP' = UDP /\ Room' = Room /\ Declared(Client)' = Declared(Client)
  BY <1>2 DEF Client, UDP, Room, Declared
<1>4. TypeOK'
  BY <1>1, <1>2, <1>3 DEF SInv, TypeOK, PInv, Least
<1>5. QED BY <1>1, <1>2, <1>3, <1>4
          DEF SInv, PInv, RequestIsWhole, DatagramNeverWaits, Before

\* The request is what the parser found in the packet.
LEMMA EndRequestInv ==
    ASSUME SInv, EndRequest
    PROVE  SInv'
<1>1. PInv' /\ Client' = Client /\ UDP' = UDP /\ Room' = Room /\ scenario' \in Scenario
  BY QuietStep DEF EndRequest
<1>2. /\ UNCHANGED <<scenario, arrived, held, response, taken, sent>>
      /\ phase = "parsing" /\ phase' = "proxying"
      /\ wrapped' = (loop = "ok")
      /\ request' = [parsed |-> TRUE, error |-> loop # "ok", code |-> data[1], attrs |-> attrs]
  BY DEF EndRequest, responseVars
<1>3. /\ data = SubSeq(Client, 1, Declared(Client)) /\ Len(data) >= HeaderLen
      /\ Declared(Client) \in HeaderLen..held
  BY <1>2 DEF SInv
<1>4. /\ Client \in Seq(Byte) /\ Len(Client) \in Nat
      /\ arrived \in 0..Len(Client) /\ held \in 0..Least(arrived, Room) /\ Room \in Nat
  BY SessionFacts DEF SInv, TypeOK
<1>5. held \in 0..Len(Client) /\ Declared(Client) \in 1..Len(Client)
  BY <1>3, <1>4, HeaderAssumption DEF Least
<1>6. Len(data) = Declared(Client) /\ data[1] = Client[1] /\ data[1] \in Byte
  <2>1. PICK n \in 1..Len(Client) : n = Declared(Client)
    BY <1>5
  <2>2. /\ Len(SubSeq(Client, 1, n)) = n - 1 + 1
        /\ SubSeq(Client, 1, n)[1] = Client[1 + 1 - 1]
    BY <1>4, <2>1, Slice
  <2>3. Client[1] \in Byte
    BY <1>4, <2>1
  <2>4. QED BY <1>3, <2>1, <2>2, <2>3
<1>7. TypeOK'
  <2>1. wrapped' \in BOOLEAN /\ (loop # "ok") \in BOOLEAN
    BY <1>2
  <2>2. attrs \in Seq(Attr)
    BY DEF SInv, TypeOK, ParserTypeOK
  <2>3. request' \in [parsed : BOOLEAN, error : BOOLEAN, code : Byte, attrs : Seq(Attr)]
    BY <1>2, <1>6, <2>1, <2>2
  <2>4. (held \in 0..Least(arrived, Room))'
    BY <1>1, <1>2, <1>4 DEF Least
  <2>5. QED BY <1>1, <1>2, <2>1, <2>3, <2>4 DEF SInv, TypeOK, PInv
<1>8. RequestIsWhole'
  <2>1. \A i \in 1..Len(attrs) : attrs[i].from + attrs[i].len <= Declared(Client)
    BY <1>6 DEF SInv, InsidePacket, End
  <2>2. Declared(Client)' = Declared(Client) /\ held >= Declared(Client)
    BY <1>1, <1>3, <1>4, HeaderAssumption DEF Declared
  <2>3. QED BY <1>1, <1>2, <1>6, <2>1, <2>2 DEF RequestIsWhole
<1>9. QED BY <1>1, <1>2, <1>7, <1>8 DEF SInv, PInv, DatagramNeverWaits, Before

\* Where the proxy may stand in the answer.
LEMMA PositionFacts ==
    ASSUME TypeOK
    PROVE  Positions \subseteq 0..Len(scenario.answer)
<1>1. scenario.ends \subseteq 1..Len(scenario.answer) /\ Len(scenario.answer) \in Nat
  BY SessionFacts
<1>2. QED BY <1>1 DEF Positions

\* What was read of the answer before goes on to the client.
LEMMA ForwardInv ==
    ASSUME SInv, Forward \/ EndResponse
    PROVE  SInv'
<1>1. PInv' /\ Client' = Client /\ UDP' = UDP /\ Room' = Room /\ scenario' \in Scenario
  BY QuietStep DEF Forward, EndResponse
<1>2. UNCHANGED <<scenario, arrived, held, request, wrapped>> /\ phase' = "proxying"
  BY DEF Forward, EndResponse, requestVars
<1>3. taken \in 0..Len(scenario.answer) /\ sent \in 0..taken /\ Len(scenario.answer) \in Nat
  BY SessionFacts DEF SInv, TypeOK
<1>4. taken' \in 0..Len(scenario.answer) /\ sent' \in 0..taken'
  <2>1. CASE Forward
    <3>1. PICK to \in Positions : taken' = to /\ SendTo(to)
      BY <2>1 DEF Forward
    <3>2. to \in 0..Len(scenario.answer) /\ sent' \in sent..to
      BY <3>1, PositionFacts DEF SInv, SendTo
    <3>3. QED BY <1>3, <3>1, <3>2
  <2>2. CASE EndResponse
    BY <1>3, <2>2 DEF EndResponse, SendTo
  <2>3. QED BY <2>1, <2>2
<1>5. response' \in [parsed : BOOLEAN, code : Byte, attrs : Seq(Attr), buf : Seq(Byte)]
  <2>1. CASE Forward
    BY <2>1 DEF Forward, SInv, TypeOK
  <2>2. CASE EndResponse
    <3>1. data \in Seq(Byte) /\ attrs \in Seq(Attr)
      BY DEF SInv, TypeOK, ParserTypeOK
    <3>2. Len(data) >= 1
      <4>1. Len(data) >= HeaderLen /\ Len(data) \in Nat
        BY <2>2, <3>1 DEF EndResponse, SInv
      <4>2. QED BY <4>1, HeaderAssumption
    <3>3. data[1] \in Byte
      BY <3>1, <3>2
    <3>4. (IF loop = "ok" THEN attrs ELSE <<>>) \in Seq(Attr)
      BY <3>1
    <3>5. response' = [parsed |-> TRUE, code |-> data[1],
                       attrs |-> IF loop = "ok" THEN attrs ELSE <<>>, buf |-> data]
      BY <2>2 DEF EndResponse
    <3>6. QED BY <3>1, <3>3, <3>4, <3>5
  <2>3. QED BY <2>1, <2>2
<1>6. TypeOK'
  <2>1. (held \in 0..Least(arrived, Room) /\ arrived \in 0..Len(Client))'
    BY <1>1, <1>2 DEF SInv, TypeOK, Least
  <2>2. QED BY <1>1, <1>2, <1>4, <1>5, <2>1 DEF SInv, TypeOK, PInv
<1>7. Declared(Client)' = Declared(Client)
  BY <1>1 DEF Declared
<1>8. phase \notin Before
  BY DEF Forward, EndResponse, Before
<1>9. QED BY <1>1, <1>2, <1>6, <1>7, <1>8
          DEF SInv, PInv, RequestIsWhole, DatagramNeverWaits, Before

\* A beginning of a beginning.
LEMMA Beginning ==
    ASSUME NEW a \in Seq(Byte), NEW n \in Nat, NEW k \in n..Len(a)
    PROVE  SubSeq(SubSeq(a, 1, k), 1, n) = SubSeq(a, 1, n)
<1>1. k \in 0..Len(a) /\ n \in 0..Len(a) /\ 1 \in Nat \ {0}
  OBVIOUS
<1>2. /\ SubSeq(a, 1, k) \in Seq(Byte) /\ Len(SubSeq(a, 1, k)) = k
      /\ \A i \in 1..k : SubSeq(a, 1, k)[i] = a[i]
  BY <1>1, Slice
<1>3. n \in 0..Len(SubSeq(a, 1, k))
  BY <1>1, <1>2
<1>4. DEFINE b == SubSeq(a, 1, k)
<1>5. /\ SubSeq(b, 1, n) \in Seq(Byte) /\ Len(SubSeq(b, 1, n)) = n
      /\ \A i \in 1..n : SubSeq(b, 1, n)[i] = b[i]
  <2>1. b \in Seq(Byte) /\ n \in 0..Len(b)
    BY <1>2, <1>3
  <2>2. HIDE DEF b
  <2>3. QED BY <2>1, Slice
<1>6. /\ SubSeq(a, 1, n) \in Seq(Byte) /\ Len(SubSeq(a, 1, n)) = n
      /\ \A i \in 1..n : SubSeq(a, 1, n)[i] = a[i]
  BY <1>1, Slice
<1>7. \A i \in 1..n : SubSeq(b, 1, n)[i] = SubSeq(a, 1, n)[i]
  BY <1>1, <1>2, <1>5, <1>6
<1>8. QED BY <1>5, <1>6, <1>7, SeqEqual

\* The gathered bytes are a byte string.
LEMMA GatheredFacts ==
    ASSUME NEW chain \in Seq(Byte)
    PROVE  Gathered(chain) \in Seq(Byte)
<1>1. DEFINE k == Least(Len(chain), MaxPacket)
             some == SubSeq(chain, 1, k)
             n == IF Len(some) >= 4 THEN Declared(some) ELSE 0
<1>2. k \in 0..Len(chain)
  BY SizeAssumption DEF Least
<1>3. some \in Seq(Byte)
  <2>1. HIDE DEF k
  <2>2. QED BY <1>2, Slice
<1>4. n <= Len(some) /\ n \in Nat => SubSeq(some, 1, n) \in Seq(Byte)
  <2>1. HIDE DEF some, n
  <2>2. QED BY <1>3, Slice
<1>5. n \in Nat
  <2>1. HIDE DEF some
  <2>2. QED BY <1>3, DeclaredFacts
<1>6. QED BY <1>3, <1>4, <1>5 DEF Gathered

\* A packet that begins a longer chain is what is gathered from it.
LEMMA GatheredFirst ==
    ASSUME NEW a \in Seq(Byte), NEW n \in Nat, InRange(n), NEW to \in n..Len(a),
           Declared(SubSeq(a, 1, n)) = n
    PROVE  Gathered(SubSeq(a, 1, to)) = SubSeq(a, 1, n) /\ Len(SubSeq(a, 1, n)) = n
<1>1. DEFINE k == Least(to, MaxPacket)
             some == SubSeq(a, 1, k)
<1>2. n >= 4 /\ n <= MaxPacket
  BY HeaderAssumption, SizeAssumption DEF InRange
<1>3. k \in n..to /\ to \in 0..Len(a) /\ k \in 0..Len(a) /\ n \in 0..Len(a)
  BY <1>2, SizeAssumption DEF Least
<1>4. Len(SubSeq(a, 1, to)) = to /\ SubSeq(SubSeq(a, 1, to), 1, k) = some
  <2>1. HIDE DEF k
  <2>2. QED BY <1>3, Slice, Beginning
<1>5. /\ Len(some) = k /\ Len(SubSeq(a, 1, n)) = n
      /\ \A i \in 1..n : some[i] = a[i] /\ SubSeq(a, 1, n)[i] = a[i]
  <2>1. HIDE DEF k
  <2>2. Len(some) = k /\ \A i \in 1..k : some[i] = a[i]
    BY <1>3, Slice
  <2>3. Len(SubSeq(a, 1, n)) = n /\ \A i \in 1..n : SubSeq(a, 1, n)[i] = a[i]
    BY <1>3, Slice
  <2>4. QED BY <1>3, <2>2, <2>3
<1>6. Declared(some) = n
  <2>1. HIDE DEF some
  <2>2. some[3] = SubSeq(a, 1, n)[3] /\ some[4] = SubSeq(a, 1, n)[4]
    BY <1>2, <1>5
  <2>3. QED BY <2>2 DEF Declared
<1>7. SubSeq(some, 1, n) = SubSeq(a, 1, n)
  <2>1. HIDE DEF k
  <2>2. QED BY <1>3, Beginning
<1>8. Len(some) >= 4 /\ n <= Len(some)
  <2>1. HIDE DEF k, some
  <2>2. QED BY <1>2, <1>3, <1>5
<1>9. Gathered(SubSeq(a, 1, to)) =
        (LET m == IF Len(some) >= 4 THEN Declared(some) ELSE 0
         IN  IF InRange(m) /\ m <= Len(some) THEN SubSeq(some, 1, m) ELSE some)
  BY <1>4 DEF Gathered
<1>10. HIDE DEF some
<1>11. QED BY <1>5, <1>6, <1>7, <1>8, <1>9

\* The packet of a response that is given to the parser has a whole header.
LEMMA StartResponseInv ==
    ASSUME SInv, StartResponse
    PROVE  SInv'
<1>1. PICK to \in Positions : /\ to >= taken /\ to > sent /\ Inspects(Chain(to))
                              /\ taken' = to /\ Parse(Gathered(Chain(to)))
  BY DEF StartResponse
<1>2. /\ taken \in 0..Len(scenario.answer) /\ sent \in 0..taken
      /\ Len(scenario.answer) \in Nat /\ scenario.answer \in Seq(Byte)
      /\ to \in 0..Len(scenario.answer)
  BY SessionFacts, PositionFacts DEF SInv, TypeOK
<1>3. Gathered(Chain(to)) \in Seq(Byte)
  <2>1. sent + 1 \in Nat \ {0}
    BY <1>2
  <2>2. Chain(to) \in Seq(Byte)
    BY <1>2, <2>1, Slice DEF Chain
  <2>3. QED BY <2>2, GatheredFacts
<1>4. Len(Gathered(Chain(to))) >= HeaderLen
  BY <1>1 DEF Inspects
<1>5. PInv' /\ data' = Gathered(Chain(to))
  <2>1. PInv'
    BY <1>1, <1>3, <1>4, ParseInv
  <2>2. QED BY <1>1, <2>1 DEF Parse
<1>6. /\ UNCHANGED <<scenario, arrived, held, request, wrapped, response, sent>>
      /\ phase = "proxying" /\ phase' = "sending"
  BY DEF StartResponse, requestVars
<1>7. Client' = Client /\ UDP' = UDP /\ Room' = Room /\ Declared(Client)' = Declared(Client)
  BY <1>6 DEF Client, UDP, Room, Declared
<1>8. TypeOK'
  <2>1. (taken \in 0..Len(scenario.answer) /\ sent \in 0..taken)'
    BY <1>1, <1>2, <1>6
  <2>2. (held \in 0..Least(arrived, Room) /\ arrived \in 0..Len(Client))'
    BY <1>6, <1>7 DEF SInv, TypeOK, Least
  <2>3. QED BY <1>5, <1>6, <2>1, <2>2 DEF SInv, TypeOK, PInv
<1>9. QED BY <1>4, <1>5, <1>6, <1>7, <1>8
          DEF SInv, PInv, RequestIsWhole, DatagramNeverWaits, Before

\* Nothing happens.
LEMMA StutterInv ==
    ASSUME SInv, UNCHANGED vars
    PROVE  SInv'
<1>1. PInv' /\ Client' = Client /\ UDP' = UDP /\ Room' = Room /\ scenario' \in Scenario
  BY QuietStep DEF vars
<1>2. UNCHANGED <<scenario, phase, arrived, held, request, wrapped, response, taken, sent, data>>
  BY DEF vars, requestVars, responseVars, parserVars
<1>3. TypeOK'
  BY <1>1, <1>2 DEF SInv, TypeOK, PInv, Least
<1>4. QED BY <1>1, <1>2, <1>3
          DEF SInv, PInv, RequestIsWhole, DatagramNeverWaits, Before, Declared

LEMMA StepSInv == SInv /\ [Next]_vars => SInv'
<1>1. SUFFICES ASSUME SInv, [Next]_vars PROVE SInv'
  OBVIOUS
<1>2. CASE Arrive
  BY <1>1, <1>2, ArriveInv
<1>3. CASE NothingYet \/ NoRoom \/ Timeout \/ Close \/ Closed
  BY <1>1, <1>3, PhaseInv
<1>4. CASE TooShort \/ BadLength \/ TooLong \/ AwaitRest \/ CoreReads
  BY <1>1, <1>4, BufferInv
<1>5. CASE StartRequest
  BY <1>1, <1>5, StartRequestInv
<1>6. CASE EndRequest
  BY <1>1, <1>6, EndRequestInv
<1>7. CASE ParseStep
  BY <1>1, <1>7, ParseStepInv
<1>8. CASE Forward \/ EndResponse
  BY <1>1, <1>8, ForwardInv
<1>9. CASE StartResponse
  BY <1>1, <1>9, StartResponseInv
<1>10. CASE UNCHANGED vars
  BY <1>1, <1>10, StutterInv
<1>11. QED
  BY <1>1, <1>2, <1>3, <1>4, <1>5, <1>6, <1>7, <1>8, <1>9, <1>10 DEF Next, Preread

LEMMA SessionInvariant == Spec => []SInv
  BY InitSInv, StepSInv, PTL DEF Spec

\* Every variable keeps its type, whatever the sessions.
THEOREM RadiusTypeCorrect == Spec => []TypeOK
<1>1. SInv => TypeOK
  BY DEF SInv
<1>2. QED BY <1>1, SessionInvariant, PTL

\* The parser stays inside the packet and inside its table, whatever the packet, the
\* header and the table sizes.
THEOREM RadiusInsidePacket == Spec => []InsidePacket
<1>1. SInv => InsidePacket
  BY DEF SInv
<1>2. QED BY <1>1, SessionInvariant, PTL

\* A request comes from the first packet of the client, whatever its segments.
THEOREM RadiusRequestIsWhole == Spec => []RequestIsWhole
<1>1. SInv => RequestIsWhole
  BY DEF SInv
<1>2. QED BY <1>1, SessionInvariant, PTL

\* A datagram never makes the preread phase wait.
THEOREM RadiusDatagramNeverWaits == Spec => []DatagramNeverWaits
<1>1. SInv => DatagramNeverWaits
  BY DEF SInv
<1>2. QED BY <1>1, SessionInvariant, PTL

-----------------------------------------------------------------------------
(* The recorded response                                                   *)

\* The answer's first packet ends at n and is a RADIUS packet.
IsFirstPacket(n) ==
    /\ n \in scenario.ends
    /\ \A m \in scenario.ends : n <= m
    /\ InRange(n)
    /\ Declared(FirstPacket(n)) = n

\* Inductive, with SInv: as long as no response is recorded nothing of the answer was let
\* through, and what is parsed is its first packet.
RInv ==
    /\ ~wrapped => ~response.parsed
    /\ phase \in Before \cup {"parsing"} => ~wrapped /\ sent = 0
    /\ phase = "sending" => wrapped
    /\ UDP => \A n : IsFirstPacket(n) =>
                /\ wrapped /\ ~response.parsed => sent = 0
                /\ phase = "sending" => ~response.parsed /\ data = FirstPacket(n)
                /\ response.parsed => /\ response.code = scenario.answer[1]
                                      /\ response.buf = FirstPacket(n)

\* What the first chain of datagrams holds is the first packet.
LEMMA FirstChain ==
    ASSUME TypeOK, UDP, NEW n, IsFirstPacket(n), sent = 0, NEW to \in Positions, to > 0
    PROVE  Gathered(Chain(to)) = FirstPacket(n) /\ Len(Gathered(Chain(to))) >= HeaderLen
<1>1. to \in scenario.ends
  BY DEF Positions
<1>2. /\ scenario.answer \in Seq(Byte) /\ Len(scenario.answer) \in Nat
      /\ scenario.ends \subseteq 1..Len(scenario.answer)
  BY SessionFacts
<1>3. n \in Nat /\ n <= to /\ InRange(n) /\ Declared(SubSeq(scenario.answer, 1, n)) = n
  BY <1>1, <1>2 DEF IsFirstPacket, FirstPacket
<1>4. to \in n..Len(scenario.answer)
  BY <1>1, <1>2, <1>3
<1>5. Chain(to) = SubSeq(scenario.answer, 1, to)
  BY DEF Chain
<1>6. n >= HeaderLen
  BY <1>3, HeaderAssumption, SizeAssumption DEF InRange
<1>7. QED BY <1>2, <1>3, <1>4, <1>5, <1>6, GatheredFirst DEF FirstPacket

LEMMA InitRInv == Init => RInv
  BY DEF Init, RInv, NoResponse, Before

\* Steps that leave the response side and the packet alone.
LEMMA OtherStepRInv ==
    ASSUME RInv, UNCHANGED <<scenario, wrapped, responseVars>>,
           \/ UNCHANGED <<phase, data>>
           \/ phase' \notin {"sending"} /\ (phase' \in Before \cup {"parsing"} =>
                                              phase \in Before \cup {"parsing"})
    PROVE  RInv'
<1>1. UNCHANGED <<scenario, wrapped, response, sent>>
  BY DEF responseVars
<1>2. UDP' = UDP /\ \A n : IsFirstPacket(n)' = IsFirstPacket(n)
                       /\ FirstPacket(n)' = FirstPacket(n)
  BY <1>1 DEF UDP, IsFirstPacket, FirstPacket, Declared
<1>3. QED BY <1>1, <1>2 DEF RInv

LEMMA StepRInv == SInv /\ RInv /\ [Next]_vars => RInv'
<1>1. SUFFICES ASSUME SInv, RInv, [Next]_vars PROVE RInv'
  OBVIOUS
<1>2. TypeOK
  BY <1>1 DEF SInv
<1>3. UNCHANGED scenario
      => UDP' = UDP /\ \A n : IsFirstPacket(n)' = IsFirstPacket(n)
                          /\ FirstPacket(n)' = FirstPacket(n)
  BY DEF UDP, IsFirstPacket, FirstPacket, Declared
<1>4. CASE \/ Arrive \/ NothingYet \/ NoRoom \/ TooShort \/ BadLength \/ TooLong \/ AwaitRest
           \/ StartRequest \/ CoreReads \/ Timeout \/ Close \/ Closed
  <2>1. UNCHANGED <<scenario, wrapped, responseVars>>
    BY <1>4 DEF Arrive, NothingYet, NoRoom, TooShort, BadLength, TooLong, AwaitRest, GiveUp,
       StartRequest, CoreReads, Timeout, Close, Closed, requestVars, vars
  <2>2. CASE Arrive \/ Closed
    BY <1>1, <2>1, <2>2, OtherStepRInv DEF Arrive, Closed, vars, parserVars
  <2>3. CASE \/ NothingYet \/ NoRoom \/ TooShort \/ BadLength \/ TooLong \/ AwaitRest
             \/ StartRequest \/ CoreReads \/ Timeout \/ Close
    <3>1. phase' \in {"waiting", "closed", "proxying", "parsing", "receiving"}
      BY <2>3 DEF NothingYet, NoRoom, TooShort, BadLength, TooLong, AwaitRest, GiveUp,
         StartRequest, CoreReads, Timeout, Close
    <3>2. phase' \in Before \cup {"parsing"} => phase \in Before
      BY <2>3 DEF NothingYet, NoRoom, TooShort, BadLength, TooLong, AwaitRest, GiveUp,
         StartRequest, CoreReads, Timeout, Close, Incomplete, Receive, Called, Before
    <3>3. QED BY <1>1, <2>1, <3>1, <3>2, OtherStepRInv
  <2>4. QED BY <1>4, <2>2, <2>3
<1>5. CASE UNCHANGED vars
  BY <1>1, <1>5, OtherStepRInv DEF vars, parserVars, requestVars
<1>6. CASE ParseStep
  <2>1. UNCHANGED data
    BY <1>1, <1>6, IterateInv DEF ParseStep, SInv, TypeOK, PInv
  <2>2. QED BY <1>1, <1>6, <2>1, OtherStepRInv DEF ParseStep, requestVars
<1>7. CASE EndRequest
  <2>1. /\ UNCHANGED <<scenario, response, sent>>
        /\ phase = "parsing" /\ phase' = "proxying"
    BY <1>7 DEF EndRequest, responseVars
  <2>2. ~wrapped /\ sent = 0 /\ ~response.parsed
    BY <1>1, <2>1 DEF RInv
  <2>3. QED BY <1>3, <2>1, <2>2 DEF RInv, Before
<1>8. CASE Forward
  <2>1. /\ UNCHANGED <<scenario, wrapped, response, data>>
        /\ phase = "proxying" /\ phase' = "proxying"
    BY <1>8 DEF Forward, parserVars, requestVars
  <2>2. PICK to \in Positions : to > sent /\ ~Inspects(Chain(to))
    BY <1>8 DEF Forward
  <2>3. ASSUME UDP, NEW n, IsFirstPacket(n), wrapped, ~response.parsed
        PROVE  FALSE
    <3>1. sent = 0
      BY <1>1, <2>3 DEF RInv
    <3>2. to > 0
      BY <2>2, <3>1
    <3>3. Len(Gathered(Chain(to))) >= HeaderLen
      BY <1>2, <2>3, <3>1, <3>2, FirstChain
    <3>4. QED BY <2>2, <2>3, <3>3 DEF Inspects
  <2>4. QED BY <1>1, <1>3, <2>1, <2>3 DEF RInv, Before
<1>9. CASE StartResponse
  <2>1. /\ UNCHANGED <<scenario, wrapped, response, sent>>
        /\ phase = "proxying" /\ phase' = "sending"
    BY <1>9 DEF StartResponse, requestVars
  <2>2. PICK to \in Positions : /\ to > sent /\ Inspects(Chain(to))
                                /\ Parse(Gathered(Chain(to)))
    BY <1>9 DEF StartResponse
  <2>3. wrapped /\ ~response.parsed /\ data' = Gathered(Chain(to))
    BY <2>2 DEF Inspects, Parse
  <2>4. ASSUME UDP, NEW n, IsFirstPacket(n)
        PROVE  sent = 0 /\ data' = FirstPacket(n)
    <3>1. sent = 0
      BY <1>1, <2>3, <2>4 DEF RInv
    <3>2. to > 0
      BY <2>2, <3>1
    <3>3. QED BY <1>2, <2>3, <2>4, <3>1, <3>2, FirstChain
  <2>5. QED BY <1>3, <2>1, <2>3, <2>4 DEF RInv, Before
<1>10. CASE EndResponse
  <2>1. /\ UNCHANGED <<scenario, wrapped, data>>
        /\ phase = "sending" /\ phase' = "proxying"
        /\ response'.parsed /\ response'.code = data[1] /\ response'.buf = data
    BY <1>10 DEF EndResponse, requestVars, parserVars
  <2>2. wrapped
    BY <1>1, <2>1 DEF RInv
  <2>3. ASSUME UDP, NEW n, IsFirstPacket(n)
        PROVE  data = FirstPacket(n) /\ data[1] = scenario.answer[1]
    <3>1. data = FirstPacket(n)
      BY <1>1, <2>1, <2>3 DEF RInv
    <3>2. scenario.answer \in Seq(Byte) /\ n \in 1..Len(scenario.answer)
      BY <1>2, <2>3, SessionFacts DEF IsFirstPacket
    <3>3. FirstPacket(n)[1] = scenario.answer[1]
      <4>1. n \in 0..Len(scenario.answer) /\ 1 \in Nat \ {0} /\ 1 \in 1..(n - 1 + 1)
        BY <3>2
      <4>2. SubSeq(scenario.answer, 1, n)[1] = scenario.answer[1 + 1 - 1]
        BY <3>2, <4>1, Slice
      <4>3. 1 + 1 - 1 = 1
        OBVIOUS
      <4>4. QED BY <4>2, <4>3, Zenon DEF FirstPacket
    <3>4. QED BY <3>1, <3>3
  <2>4. QED BY <1>3, <2>1, <2>2, <2>3 DEF RInv, Before
<1>11. QED
  BY <1>1, <1>4, <1>5, <1>6, <1>7, <1>8, <1>9, <1>10 DEF Next, Preread

\* Over UDP the recorded response is the first packet of the answer, whatever the
\* upstream sends, repeats, or the proxy hands over together.
THEOREM RadiusDatagramRecorded == Spec => []DatagramRecorded
<1>1. RInv => DatagramRecorded
  BY DEF RInv, DatagramRecorded, RecordsFirst, IsFirstPacket
<1>2. QED BY <1>1, InitSInv, InitRInv, StepSInv, StepRInv, PTL DEF Spec

-----------------------------------------------------------------------------
(* What the walk finds                                                     *)

\* A set of places that is not empty has a first one.
LEMMA LeastOf ==
    ASSUME NEW m \in Nat, NEW S \in SUBSET (1..m), S # {}
    PROVE  \E i \in S : \A j \in S : i <= j
<1> DEFINE R == {ss \in Nat \X Nat : ss[1] < ss[2]}
<1>1. IsWellFoundedOn(R, Nat)
  BY NatLessThanWellFounded DEF OpToRel
<1>2. \A x, y \in Nat : x < y => <<x, y>> \in R
  OBVIOUS
<1> HIDE DEF R
<1>3. S \subseteq Nat
  OBVIOUS
<1>4. PICK x \in S : \A y \in S : ~ (<<y, x>> \in R)
  BY <1>1, <1>3, WFMin
<1>5. \A y \in S : x <= y
  <2> TAKE y \in S
  <2>1. x \in Nat /\ y \in Nat
    BY <1>3
  <2>2. ~(y < x)
    BY <1>2, <1>4, <2>1
  <2>3. QED BY <2>1, <2>2
<1>6. QED BY <1>5

LEMMA HopIs ==
    ASSUME NEW o, NEW end
    PROVE  Hop(data, o, end) = IF Fits(o, end) THEN {o + ALen(o)} ELSE {}
  BY DEF Hop, Fits, ALen

\* What is closed under the lengths holds all offsets they lead to.
LEMMA ReachedLeast ==
    ASSUME NEW from, NEW end, NEW S \in SUBSET (from..end), from \in S,
           \A q \in S : Fits(q, end) => q + ALen(q) \in S
    PROVE  Reached(data, from, end) \subseteq S
<1>1. \A q \in S : Hop(data, q, end) \subseteq S
  BY HopIs
<1>2. QED BY <1>1 DEF Reached

LEMMA ReachedFrom ==
    ASSUME NEW from \in Nat, NEW end \in Nat, from <= end
    PROVE  from \in Reached(data, from, end)
<1>1. from \in from..end
  OBVIOUS
<1>2. QED BY <1>1 DEF Reached

LEMMA ReachedHop ==
    ASSUME PInv, NEW from \in Nat, NEW end \in Nat, end <= End,
           NEW o \in Reached(data, from, end), Fits(o, end)
    PROVE  o + ALen(o) \in Reached(data, from, end)
<1>1. o \in from..end /\ o \in Nat
  BY DEF Reached
<1>2. /\ ALen(o) \in 2..255 /\ o + ALen(o) \in Nat /\ o + ALen(o) <= end
  BY <1>1, FitsFacts
<1>3. PICK n \in 2..255 : n = ALen(o)
  BY <1>2
<1>4. o + n \in from..end
  BY <1>1, <1>2, <1>3
<1>5. ASSUME NEW S \in SUBSET (from..end), from \in S, \A q \in S : Hop(data, q, end) \subseteq S
      PROVE  o + n \in S
  <2>1. o \in S
    BY <1>5 DEF Reached
  <2>2. Hop(data, o, end) = {o + n}
    BY <1>3, HopIs
  <2>3. QED BY <1>5, <2>1, <2>2
<1>6. QED BY <1>3, <1>4, <1>5 DEF Reached

\* The walk is at q: every offset before it leads no farther than to q.
Swept(from, end, q) ==
    /\ q \in Reached(data, from, end)
    /\ \A o \in Reached(data, from, end) : o < q => Fits(o, end) /\ o + ALen(o) <= q

LEMMA SweptFrom ==
    ASSUME NEW from \in Nat, NEW end \in Nat, from <= end
    PROVE  Swept(from, end, from)
<1>1. \A o \in Reached(data, from, end) : o \in Nat /\ o >= from
  BY DEF Reached
<1>2. \A o \in Reached(data, from, end) : ~(o < from)
  BY <1>1
<1>3. QED BY <1>2, ReachedFrom DEF Swept

\* The lengths lead over the attribute at q, to no offset inside it.
LEMMA SweptHop ==
    ASSUME PInv, NEW from \in Nat, NEW end \in Nat, from <= end, end <= End,
           NEW q, Swept(from, end, q), Fits(q, end)
    PROVE  /\ Swept(from, end, q + ALen(q))
           /\ \A o \in Reached(data, from, end) : o < q + ALen(q) => o <= q
<1>1. q \in from..end /\ q \in Nat /\ Reached(data, from, end) \subseteq from..end
  BY DEF Swept, Reached
<1>2. q + ALen(q) \in Nat /\ q + ALen(q) <= end /\ ALen(q) \in 2..255
  BY <1>1, FitsFacts
<1>3. PICK n \in Nat : n = q + ALen(q) /\ n <= end /\ q < n
  <2>1. PICK k \in 2..255 : k = ALen(q)
    BY <1>2
  <2>2. q + k \in Nat /\ q < q + k /\ q + k <= end
    BY <1>1, <1>2, <2>1
  <2>3. QED BY <2>1, <2>2
<1>4. DEFINE R == Reached(data, from, end)
             S == {o \in R : o <= q \/ o >= n}
<1>5. R \subseteq S
  <2>1. S \in SUBSET (from..end)
    BY <1>1
  <2>2. from \in S
    BY <1>1, ReachedFrom
  <2>3. ASSUME NEW o \in S, Fits(o, end)
        PROVE  o + ALen(o) \in S
    <3>1. o + ALen(o) \in R
      BY <2>3, ReachedHop
    <3>2. o \in from..end /\ o \in Nat
      BY <1>1
    <3>3. o + ALen(o) \in Nat /\ ALen(o) \in 2..255
      BY <2>3, <3>2, FitsFacts
    <3>4. PICK m \in Nat : m = o + ALen(o) /\ o < m
      <4>1. PICK k \in 2..255 : k = ALen(o)
        BY <3>3
      <4>2. o + k \in Nat /\ o < o + k
        BY <3>2, <4>1
      <4>3. QED BY <4>1, <4>2
    <3>5. CASE o < q
      <4>1. m <= q
        BY <3>4, <3>5 DEF Swept
      <4>2. QED BY <3>1, <3>4, <4>1
    <3>6. CASE o = q
      <4>1. m = n
        BY <1>3, <3>4, <3>6
      <4>2. QED BY <3>1, <3>4, <4>1, <1>3
    <3>7. CASE o >= n
      <4>1. m >= n
        BY <1>3, <3>2, <3>4, <3>7
      <4>2. QED BY <3>1, <3>4, <4>1
    <3>8. o < q \/ o = q \/ o >= n
      <4>1. o <= q \/ o >= n
        OBVIOUS
      <4>2. QED BY <4>1, <3>2, <1>1
    <3>9. QED BY <3>5, <3>6, <3>7, <3>8
  <2>4. HIDE DEF S
  <2>5. QED BY <2>1, <2>2, <2>3, ReachedLeast
<1>6. \A o \in R : o < n => o <= q
  <2>1. TAKE o \in R
  <2>2. o \in Nat /\ (o <= q \/ o >= n)
    BY <1>1, <1>5
  <2>3. QED BY <1>3, <2>2
<1>7. n \in R
  BY <1>3, ReachedHop DEF Swept
<1>8. \A o \in R : o < n => Fits(o, end) /\ o + ALen(o) <= n
  <2>1. TAKE o \in R
  <2>2. HAVE o < n
  <2>3. o <= q /\ o \in Nat
    BY <1>1, <1>6, <2>2
  <2>4. CASE o = q
    BY <1>3, <2>4
  <2>5. CASE o < q
    <3>1. Fits(o, end) /\ o + ALen(o) <= q
      BY <2>5 DEF Swept
    <3>2. o + ALen(o) \in Nat
      BY <2>3, <3>1, FitsFacts
    <3>3. QED BY <1>1, <1>3, <3>1, <3>2
  <2>6. QED BY <1>1, <2>3, <2>4, <2>5
<1>9. QED BY <1>3, <1>6, <1>7, <1>8 DEF Swept

\* Where no attribute fits, the lengths lead no farther.
LEMMA SweptEnd ==
    ASSUME PInv, NEW from \in Nat, NEW end \in Nat, from <= end, end <= End,
           NEW q, Swept(from, end, q), ~Fits(q, end)
    PROVE  \A o \in Reached(data, from, end) : o <= q
<1>1. q \in Nat /\ from <= q /\ Reached(data, from, end) \subseteq from..end
  BY DEF Swept, Reached
<1>2. DEFINE R == Reached(data, from, end)
             S == {o \in R : o <= q}
<1>3. S \in SUBSET (from..end) /\ from \in S
  BY <1>1, ReachedFrom
<1>4. ASSUME NEW o \in S, Fits(o, end)
      PROVE  o + ALen(o) \in S
  <2>1. o # q /\ o <= q /\ o \in Nat
    BY <1>1, <1>4
  <2>2. o < q
    BY <1>1, <2>1
  <2>3. o + ALen(o) <= q
    BY <2>2 DEF Swept
  <2>4. QED BY <1>4, <2>3, ReachedHop
<1>5. R \subseteq S
  <2>1. HIDE DEF S
  <2>2. QED BY <1>3, <1>4, ReachedLeast
<1>6. QED BY <1>5

\* A standard attribute at o, a vendor-specific one that is taken apart, and its parts.
Plain(o)  == o \in Attributes(data, HeaderLen, End) /\ AType(o) # VendorSpecific
Holder(o) == /\ o \in Attributes(data, HeaderLen, End)
             /\ AType(o) = VendorSpecific /\ ALen(o) >= VendorLen + 4
Parts(o)  == Attributes(data, o + 2 + VendorLen, o + ALen(o))

\* The row a of the table tells of the bytes at n.
TellsOf(a, n) ==
    \/ Plain(n) /\ a = Standard(n)
    \/ \E o : Holder(o) /\ n \in Parts(o) /\ a = VSA(o, n)

\* All rows for places before n are in the first k.
Told(n, k) == \A a, m : TellsOf(a, m) /\ m < n => \E j \in 1..k : attrs[j] = a

\* The rows tell of places before n, each after the ones before it.
Rows(n) ==
    \A i \in 1..Len(attrs) : \E m \in Nat : m < n /\ TellsOf(attrs[i], m) /\ Told(m, i - 1)

Reach == IF loop = "vsa" THEN sub ELSE p

\* Inductive, while a packet is parsed: the rows are what the offsets lead to, in their
\* order and none left out, up to where the walk is or the table was full.
Walk ==
    /\ HeaderLen <= End
    /\ Swept(HeaderLen, End, p)
    /\ loop = "vsa" => Holder(p) /\ Swept(p + 2 + VendorLen, p + ALen(p), sub)
    /\ Rows(Reach)
    /\ ~Full => Told(Reach, Len(attrs))
    /\ loop = "error" => p < End /\ ~Fits(p, End)
    /\ loop = "ok" => p = End \/ Full

WInv == phase \in {"parsing", "sending"} => loop = "nomem" \/ Walk

LEMMA AttributesFacts ==
    ASSUME PInv, NEW from \in Nat, NEW end \in Nat, end <= End, NEW o \in Attributes(data, from, end)
    PROVE  /\ o \in Reached(data, from, end) /\ o \in Nat /\ from <= o
           /\ Fits(o, end) /\ ALen(o) \in 2..255 /\ AType(o) \in Byte
           /\ o + ALen(o) \in Nat /\ o + ALen(o) <= end /\ o < o + ALen(o)
<1>1. o \in Reached(data, from, end) /\ Hop(data, o, end) # {}
  BY DEF Attributes
<1>2. o \in Nat /\ from <= o
  BY <1>1 DEF Reached
<1>3. Fits(o, end)
  BY <1>1, HopIs
<1>4. ALen(o) \in 2..255 /\ AType(o) \in Byte /\ o + ALen(o) \in Nat /\ o + ALen(o) <= end
  BY <1>2, <1>3, FitsFacts
<1>5. PICK k \in 2..255 : k = ALen(o)
  BY <1>4
<1>6. o < o + k
  BY <1>2
<1>7. QED BY <1>1, <1>2, <1>3, <1>4, <1>5, <1>6

\* An offset that is reached and fits is one of an attribute.
LEMMA IsAttribute ==
    ASSUME NEW from, NEW end, NEW o \in Reached(data, from, end), Fits(o, end)
    PROVE  o \in Attributes(data, from, end)
  BY HopIs DEF Attributes

LEMMA PlainFacts ==
    ASSUME PInv, NEW o, Plain(o)
    PROVE  o \in Nat /\ o + 2 <= End /\ Standard(o).from = o + 2 /\ Fits(o, End)
<1>1. o \in Nat /\ Fits(o, End)
  BY AttributesFacts, HeaderAssumption DEF Plain, End, PInv, ParserTypeOK
<1>2. o + 2 <= End
  BY <1>1 DEF Fits
<1>3. QED BY <1>1, <1>2 DEF Standard

LEMMA PartFacts ==
    ASSUME PInv, NEW o, Holder(o), NEW s \in Parts(o)
    PROVE  /\ o \in Nat /\ s \in Nat /\ o + 2 + VendorLen <= s /\ Fits(o, End)
           /\ Fits(s, o + ALen(o)) /\ s + 2 <= o + ALen(o) /\ o + ALen(o) <= End
           /\ o + ALen(o) \in Nat /\ VSA(o, s).from = s + 2
<1>1. End \in Nat
  BY DEF End, PInv, ParserTypeOK
<1>2. o \in Nat /\ Fits(o, End) /\ o + ALen(o) \in Nat /\ o + ALen(o) <= End
  BY <1>1, AttributesFacts, HeaderAssumption DEF Holder
<1>3. o + 2 + VendorLen \in Nat
  BY <1>2, VendorAssumption
<1>4. s \in Nat /\ o + 2 + VendorLen <= s /\ Fits(s, o + ALen(o))
  BY <1>2, <1>3, AttributesFacts DEF Parts
<1>5. s + 2 <= o + ALen(o)
  BY <1>4 DEF Fits
<1>6. QED BY <1>2, <1>4, <1>5 DEF VSA

\* The place a row tells of is where it says, and inside the packet.
LEMMA RowPlace ==
    ASSUME PInv, NEW a, NEW n, TellsOf(a, n)
    PROVE  n \in Nat /\ a.from = n + 2 /\ n < End
<1>1. CASE Plain(n) /\ a = Standard(n)
  <2>1. n \in Nat /\ n + 2 <= End /\ End \in Nat /\ a.from = n + 2
    BY <1>1, PlainFacts DEF End, PInv, ParserTypeOK
  <2>2. QED BY <2>1
<1>2. CASE \E o : Holder(o) /\ n \in Parts(o) /\ a = VSA(o, n)
  <2>1. PICK o : Holder(o) /\ n \in Parts(o) /\ a = VSA(o, n)
    BY <1>2
  <2>2. PICK e \in Nat : e = o + ALen(o)
    BY <2>1, PartFacts
  <2>3. n \in Nat /\ n + 2 <= e /\ e <= End /\ End \in Nat /\ a.from = n + 2
    BY <2>1, <2>2, PartFacts DEF End, PInv, ParserTypeOK
  <2>4. QED BY <2>3
<1>3. QED BY <1>1, <1>2 DEF TellsOf

\* Of the attribute the walk is at: a place before its end is before the attribute, or is
\* the attribute, or is a part of it.
LEMMA RowHere ==
    ASSUME PInv, HeaderLen <= End, Swept(HeaderLen, End, p), Fits(p, End),
           NEW a, NEW n, TellsOf(a, n), n < p + ALen(p)
    PROVE  \/ n < p
           \/ Plain(p) /\ n = p /\ a = Standard(p)
           \/ Holder(p) /\ n \in Parts(p) /\ a = VSA(p, n)
<1>1. End \in Nat /\ HeaderLen \in Nat /\ p \in Nat /\ n \in Nat
  BY HeaderAssumption, RowPlace DEF End, PInv, ParserTypeOK
<1>2. PICK e \in Nat : e = p + ALen(p)
  BY <1>1, FitsFacts
<1>3. \A o \in Reached(data, HeaderLen, End) : o < e => o <= p
  BY <1>1, <1>2, SweptHop
<1>4. CASE Plain(n) /\ a = Standard(n)
  <2>1. n \in Reached(data, HeaderLen, End)
    BY <1>4 DEF Plain, Attributes
  <2>2. n <= p
    BY <1>2, <1>3, <2>1
  <2>3. n < p \/ n = p
    BY <1>1, <2>2
  <2>4. QED BY <1>4, <2>3
<1>5. CASE \E o : Holder(o) /\ n \in Parts(o) /\ a = VSA(o, n)
  <2>1. PICK o : Holder(o) /\ n \in Parts(o) /\ a = VSA(o, n)
    BY <1>5
  <2>2. o \in Reached(data, HeaderLen, End)
    BY <2>1 DEF Holder, Attributes
  <2>3. /\ o \in Nat /\ o + 2 + VendorLen <= n /\ n + 2 <= o + ALen(o) /\ o + ALen(o) \in Nat
    BY <2>1, PartFacts
  <2>4. o < e
    BY <1>1, <1>2, <2>3, VendorAssumption
  <2>5. o <= p
    BY <1>3, <2>2, <2>4
  <2>6. CASE o = p
    BY <2>1, <2>6
  <2>7. CASE o < p
    <3>1. o + ALen(o) <= p
      BY <2>2, <2>7 DEF Swept
    <3>2. n < p
      <4>1. PICK m \in Nat : m = o + ALen(o)
        BY <2>3
      <4>2. n + 2 <= m /\ m <= p
        BY <2>3, <3>1, <4>1
      <4>3. QED BY <1>1, <4>2
    <3>3. QED BY <3>2
  <2>8. QED BY <1>1, <2>3, <2>5, <2>6, <2>7
<1>6. QED BY <1>4, <1>5 DEF TellsOf

\* What rows tell of depends on the packet alone.
LEMMA TellsStays ==
    ASSUME UNCHANGED data
    PROVE  /\ End' = End
           /\ \A o, e : Fits(o, e)' = Fits(o, e)
           /\ \A o : ALen(o)' = ALen(o) /\ AType(o)' = AType(o)
           /\ \A o : Plain(o)' = Plain(o) /\ Holder(o)' = Holder(o) /\ Parts(o)' = Parts(o)
           /\ \A a, n : TellsOf(a, n)' = TellsOf(a, n)
<1>1. End' = End
  BY DEF End
<1>2. \A o : ALen(o)' = ALen(o) /\ AType(o)' = AType(o)
  BY DEF ALen, AType
<1>3. \A o, e : Fits(o, e)' = Fits(o, e)
  BY DEF ALen, Fits
<1>4. \A o : Plain(o)' = Plain(o)
  BY <1>1, <1>2 DEF Plain
<1>5. \A o : Holder(o)' = Holder(o)
  BY <1>1, <1>2 DEF Holder
<1>6. \A o : Parts(o)' = Parts(o)
  BY <1>2 DEF Parts
<1>7. \A o : Standard(o)' = Standard(o)
  BY DEF Standard, AType, ALen
<1>8. \A o, s : VSA(o, s)' = VSA(o, s)
  BY DEF VSA, Vendor, AType, ALen
<1>9. \A a, n : TellsOf(a, n)' = TellsOf(a, n)
  BY <1>4, <1>5, <1>6, <1>7, <1>8 DEF TellsOf
<1>10. QED BY <1>1, <1>2, <1>3, <1>4, <1>5, <1>6, <1>9

LEMMA SweptKept ==
    ASSUME UNCHANGED data
    PROVE  \A from, end, q : Swept(from, end, q)' = Swept(from, end, q)
  BY DEF Swept, Fits, ALen

\* With the same table the walk may go on.
LEMMA RowsKept ==
    ASSUME PInv, UNCHANGED <<data, attrs>>, NEW m \in Nat, NEW n \in Nat, m <= n, Rows(m)
    PROVE  Rows(n)' /\ \A f, k : Told(f, k) => Told(f, k)'
<1>1. \A a, f : TellsOf(a, f)' = TellsOf(a, f)
  BY TellsStays
<1>2. \A f, k : Told(f, k) => Told(f, k)'
  BY <1>1 DEF Told
<1>3. Rows(n)'
  <2> SUFFICES ASSUME NEW i \in 1..Len(attrs)
               PROVE  \E f \in Nat : f < n /\ TellsOf(attrs[i], f)' /\ Told(f, i - 1)'
    BY DEF Rows
  <2>1. PICK f \in Nat : f < m /\ TellsOf(attrs[i], f) /\ Told(f, i - 1)
    BY DEF Rows
  <2>2. f < n
    BY <2>1
  <2>3. TellsOf(attrs[i], f)'
    <3>1. PICK a : a = attrs[i]
      OBVIOUS
    <3>2. TellsOf(a, f)'
      BY <1>1, <2>1, <3>1
    <3>3. attrs'[i] = a
      BY <3>1
    <3>4. QED BY <3>2, <3>3
  <2>4. QED BY <1>2, <2>1, <2>2, <2>3
<1>4. QED BY <1>2, <1>3

\* With a row for the place it is at behind the table, the walk may go on to the next.
LEMMA RowAdded ==
    ASSUME PInv, NEW m \in Nat, NEW n \in Nat, m < n, Rows(m), Told(m, Len(attrs)),
           NEW row \in Attr, TellsOf(row, m), attrs' = Append(attrs, row), UNCHANGED data,
           \A a, f : TellsOf(a, f) /\ f < n => f < m \/ a = row
    PROVE  Rows(n)' /\ Told(n, Len(attrs))'
<1>1. attrs \in Seq(Attr) /\ Len(attrs) \in Nat
  BY DEF PInv, ParserTypeOK
<1>2. /\ Len(attrs') = Len(attrs) + 1
      /\ \A i \in 1..Len(attrs) : attrs'[i] = attrs[i]
      /\ attrs'[Len(attrs) + 1] = row
  BY <1>1, AppendAttr
<1>3. \A a, f : TellsOf(a, f)' = TellsOf(a, f)
  BY TellsStays
<1>4. \A f, k : k \in 0..Len(attrs) /\ Told(f, k) => Told(f, k)'
  <2>1. TAKE f, k
  <2>2. HAVE k \in 0..Len(attrs) /\ Told(f, k)
  <2>3. SUFFICES ASSUME NEW a, NEW g, TellsOf(a, g), g < f
                 PROVE  \E j \in 1..k : attrs'[j] = a
    BY <1>3 DEF Told
  <2>4. PICK j \in 1..k : attrs[j] = a
    BY <2>2, <2>3 DEF Told
  <2>5. j \in 1..Len(attrs)
    BY <1>1, <2>2
  <2>6. QED BY <1>2, <2>4, <2>5
<1>5. Told(n, Len(attrs))'
  <2>1. SUFFICES ASSUME NEW a, NEW f, TellsOf(a, f), f < n
                 PROVE  \E j \in 1..Len(attrs') : attrs'[j] = a
    BY <1>3 DEF Told
  <2>2. CASE f < m
    <3>1. PICK j \in 1..Len(attrs) : attrs[j] = a
      BY <2>1, <2>2 DEF Told
    <3>2. j \in 1..Len(attrs')
      BY <1>1, <1>2
    <3>3. QED BY <1>2, <3>1, <3>2
  <2>3. CASE a = row
    <3>1. Len(attrs) + 1 \in 1..Len(attrs')
      BY <1>1, <1>2
    <3>2. QED BY <1>2, <2>3, <3>1
  <2>4. QED BY <2>1, <2>2, <2>3
<1>6. Rows(n)'
  <2>1. SUFFICES ASSUME NEW i \in 1..Len(attrs')
                 PROVE  \E f \in Nat : f < n /\ TellsOf(attrs[i], f)' /\ Told(f, i - 1)'
    BY DEF Rows
  <2>2. PICK a : a = attrs'[i]
    OBVIOUS
  <2>3. \E f \in Nat : f < n /\ TellsOf(a, f) /\ Told(f, i - 1)'
    <3>1. CASE i \in 1..Len(attrs)
      <4>1. PICK f \in Nat : f < m /\ TellsOf(attrs[i], f) /\ Told(f, i - 1)
        BY <3>1 DEF Rows
      <4>2. f < n /\ i - 1 \in 0..Len(attrs)
        BY <1>1, <3>1, <4>1
      <4>3. a = attrs[i]
        BY <1>2, <2>2, <3>1
      <4>4. Told(f, i - 1)'
        BY <1>4, <4>1, <4>2
      <4>5. QED BY <4>1, <4>2, <4>3, <4>4
    <3>2. CASE i = Len(attrs) + 1
      <4>1. a = row
        BY <1>2, <2>2, <3>2
      <4>2. i - 1 = Len(attrs) /\ Len(attrs) \in 0..Len(attrs)
        BY <1>1, <3>2
      <4>3. Told(m, i - 1)'
        BY <1>4, <4>2
      <4>4. QED BY <4>1, <4>3
    <3>3. i \in 1..Len(attrs) \/ i = Len(attrs) + 1
      BY <1>1, <1>2
    <3>4. QED BY <3>1, <3>2, <3>3
  <2>4. PICK f \in Nat : f < n /\ TellsOf(a, f) /\ Told(f, i - 1)'
    BY <2>3
  <2>5. TellsOf(attrs[i], f)'
    <3>1. TellsOf(a, f)'
      BY <1>3, <2>4
    <3>2. QED BY <2>2, <3>1
  <2>6. QED BY <2>4, <2>5
<1>7. QED BY <1>5, <1>6

\* Nothing is told of between the old place and the new one.
LEMMA ToldFarther ==
    ASSUME NEW m, NEW n, NEW k, Told(m, k), \A a, f : TellsOf(a, f) /\ f < n => f < m
    PROVE  Told(n, k)
  BY DEF Told

WalkFacts ==
    /\ p \in Nat /\ sub \in Nat /\ End \in Nat /\ HeaderLen \in Nat /\ HeaderLen <= End
    /\ Swept(HeaderLen, End, p)
    /\ p \in Reached(data, HeaderLen, End)

LEMMA WalkBasics ==
    ASSUME PInv, Walk
    PROVE  WalkFacts
  BY HeaderAssumption DEF Walk, WalkFacts, PInv, ParserTypeOK, End, Swept

\* Over an attribute that fits, the walk gets to the next one.
LEMMA WalkOver ==
    ASSUME PInv, Walk, Fits(p, End), UNCHANGED data, p' = p + ALen(p)
    PROVE  /\ p' \in Nat /\ p < p' /\ p' <= End /\ HeaderLen <= End' /\ Swept(HeaderLen, End, p)'
           /\ p \in Attributes(data, HeaderLen, End)
<1>1. WalkFacts
  BY WalkBasics
<1>2. p + ALen(p) \in Nat /\ p + ALen(p) <= End /\ ALen(p) \in 2..255
  BY <1>1, FitsFacts DEF WalkFacts
<1>3. p < p'
  <2>1. PICK k \in 2..255 : k = ALen(p)
    BY <1>2
  <2>2. p < p + k
    BY <1>1 DEF WalkFacts
  <2>3. QED BY <2>1, <2>2
<1>4. Swept(HeaderLen, End, p')
  BY <1>1, SweptHop DEF WalkFacts
<1>5. End' = End
  BY DEF End
<1>6. Swept(HeaderLen, End, p)'
  <2>1. PICK q : q = p'
    OBVIOUS
  <2>2. PICK e : e = End
    OBVIOUS
  <2>3. Swept(HeaderLen, e, q)'
    BY <1>4, <2>1, <2>2, SweptKept
  <2>4. QED BY <1>5, <2>1, <2>2, <2>3
<1>7. QED BY <1>1, <1>2, <1>3, <1>5, <1>6, IsAttribute DEF WalkFacts

\* The walk stays where it is.
LEMMA WalkStill ==
    ASSUME PInv, Walk, UNCHANGED <<data, p, attrs>>, loop = "avp", loop' \in {"ok", "error"},
           loop' = "error" => p < End /\ ~Fits(p, End),
           loop' = "ok" => p = End \/ Full
    PROVE  Walk'
<1>1. WalkFacts
  BY WalkBasics
<1>2. Reach = p /\ Reach' = p
  BY DEF Reach
<1>3. End' = End /\ Fits(p, End)' = Fits(p, End) /\ Full' = Full
  BY DEF End, Fits, ALen, Full
<1>4. Swept(HeaderLen, End, p)'
  <2>1. PICK q : q = p
    OBVIOUS
  <2>2. PICK e : e = End
    OBVIOUS
  <2>3. Swept(HeaderLen, e, q)'
    BY <1>1, <2>1, <2>2, SweptKept DEF WalkFacts
  <2>4. QED BY <1>3, <2>1, <2>2, <2>3
<1>5. PICK f \in Nat : f = p
  BY <1>1 DEF WalkFacts
<1>6. Rows(f) /\ (~Full => Told(f, Len(attrs)))
  BY <1>2, <1>5 DEF Walk
<1>7. Rows(f)' /\ (~Full => Told(f, Len(attrs))')
  <2>1. PICK k : k = Len(attrs)
    OBVIOUS
  <2>2. Rows(f)' /\ (~Full => Told(f, k)')
    BY <1>6, <2>1, RowsKept
  <2>3. QED BY <2>1, <2>2
<1>8. Rows(Reach)' /\ (~Full => Told(Reach, Len(attrs)))'
  BY <1>2, <1>3, <1>5, <1>7
<1>9. QED BY <1>1, <1>3, <1>4, <1>8 DEF Walk, WalkFacts

LEMMA WalkTake ==
    ASSUME PInv, Walk, Take
    PROVE  Walk'
<1>1. /\ UNCHANGED data /\ p' = p + ALen(p) /\ attrs' = Append(attrs, Standard(p)) /\ ~Full
      /\ loop = "avp" /\ loop' = "avp" /\ Fits(p, End) /\ AType(p) # VendorSpecific
  BY DEF Take
<1>2. WalkFacts
  BY WalkBasics
<1>3. /\ p' \in Nat /\ p < p' /\ p' <= End /\ HeaderLen <= End' /\ Swept(HeaderLen, End, p)'
      /\ p \in Attributes(data, HeaderLen, End)
  BY <1>1, WalkOver
<1>4. PICK m, n \in Nat : m = p /\ n = p'
  BY <1>2, <1>3 DEF WalkFacts
<1>5. PICK row : row = Standard(p)
  OBVIOUS
<1>6. row \in Attr
  BY <1>1, <1>5, StandardFacts DEF PInv, InsidePacket
<1>7. TellsOf(row, m)
  BY <1>1, <1>3, <1>4, <1>5 DEF TellsOf, Plain
<1>8. Reach = m /\ Reach' = n
  BY <1>1, <1>4 DEF Reach
<1>9. Rows(m) /\ Told(m, Len(attrs))
  BY <1>1, <1>8 DEF Walk
<1>10. ASSUME NEW a, NEW f, TellsOf(a, f), f < n
       PROVE  f < m \/ a = row
  <2>1. f < p + ALen(p)
    BY <1>1, <1>4, <1>10
  <2>2. \/ f < p
        \/ Plain(p) /\ f = p /\ a = Standard(p)
        \/ Holder(p) /\ f \in Parts(p) /\ a = VSA(p, f)
    BY <1>1, <1>2, <1>10, <2>1, RowHere DEF WalkFacts
  <2>3. ~Holder(p)
    BY <1>1 DEF Holder
  <2>4. QED BY <1>4, <1>5, <2>2, <2>3
<1>11. Rows(n)' /\ Told(n, Len(attrs))'
  <2>1. m < n
    BY <1>3, <1>4
  <2>2. attrs' = Append(attrs, row) /\ UNCHANGED data
    BY <1>1, <1>5
  <2>3. QED BY <1>6, <1>7, <1>9, <1>10, <2>1, <2>2, RowAdded
<1>12. Rows(Reach)' /\ Told(Reach, Len(attrs))'
  BY <1>8, <1>11
<1>13. QED BY <1>1, <1>3, <1>12 DEF Walk

LEMMA WalkSkip ==
    ASSUME PInv, Walk, SkipVSA
    PROVE  Walk'
<1>1. /\ UNCHANGED <<data, attrs>> /\ p' = p + ALen(p) /\ loop = "avp" /\ loop' = "avp"
      /\ Fits(p, End) /\ AType(p) = VendorSpecific /\ ALen(p) - 2 < VendorLen + 2
  BY DEF SkipVSA
<1>2. WalkFacts
  BY WalkBasics
<1>3. /\ p' \in Nat /\ p < p' /\ p' <= End /\ HeaderLen <= End' /\ Swept(HeaderLen, End, p)'
  BY <1>1, WalkOver
<1>4. PICK m, n \in Nat : m = p /\ n = p'
  BY <1>2, <1>3 DEF WalkFacts
<1>5. Reach = m /\ Reach' = n /\ Full' = Full
  BY <1>1, <1>4 DEF Reach, Full
<1>6. Rows(m) /\ (~Full => Told(m, Len(attrs)))
  BY <1>5 DEF Walk
<1>7. ASSUME NEW a, NEW f, TellsOf(a, f), f < n
      PROVE  f < m
  <2>1. f < p + ALen(p)
    BY <1>1, <1>4, <1>7
  <2>2. \/ f < p
        \/ Plain(p) /\ f = p /\ a = Standard(p)
        \/ Holder(p) /\ f \in Parts(p) /\ a = VSA(p, f)
    BY <1>1, <1>2, <1>7, <2>1, RowHere DEF WalkFacts
  <2>3. ~Plain(p)
    BY <1>1 DEF Plain
  <2>4. ~Holder(p)
    <3>1. ALen(p) \in 2..255
      BY <1>1, <1>2, FitsFacts DEF WalkFacts
    <3>2. PICK k \in 2..255 : k = ALen(p)
      BY <3>1
    <3>3. k - 2 < VendorLen + 2
      BY <1>1, <3>2
    <3>4. ~(k >= VendorLen + 4)
      BY <3>3, VendorAssumption
    <3>5. QED BY <3>2, <3>4 DEF Holder
  <2>5. QED BY <1>4, <2>2, <2>3, <2>4
<1>8. PICK k : k = Len(attrs)
  OBVIOUS
<1>9. ~Full => Told(n, k)
  BY <1>6, <1>7, <1>8, ToldFarther
<1>10. Rows(n)' /\ (~Full => Told(n, k)')
  <2>1. m <= n
    BY <1>3, <1>4
  <2>2. QED BY <1>1, <1>6, <1>9, <2>1, RowsKept
<1>11. Rows(Reach)' /\ (~Full => Told(Reach, Len(attrs)))'
  BY <1>1, <1>5, <1>8, <1>10
<1>12. QED BY <1>1, <1>3, <1>11 DEF Walk

LEMMA WalkEnter ==
    ASSUME PInv, Walk, EnterVSA, PInv'
    PROVE  Walk'
<1>1. /\ UNCHANGED <<data, p, attrs>> /\ sub' = p + 2 + VendorLen /\ loop = "avp" /\ loop' = "vsa"
      /\ Fits(p, End) /\ AType(p) = VendorSpecific /\ ALen(p) - 2 >= VendorLen + 2
  BY DEF EnterVSA
<1>2. WalkFacts
  BY WalkBasics
<1>3. /\ p + ALen(p) \in Nat /\ ALen(p) \in 2..255 /\ p + ALen(p) <= End
  BY <1>1, <1>2, FitsFacts DEF WalkFacts
<1>4. PICK k \in 2..255 : k = ALen(p)
  BY <1>3
<1>5. PICK m, n, e, z \in Nat : /\ m = p /\ n = sub' /\ e = p + ALen(p) /\ z = End
                                /\ n = m + 2 + VendorLen /\ n <= e /\ m < n /\ e <= z
                                /\ k >= VendorLen + 4
  <2>1. k - 2 >= VendorLen + 2
    BY <1>1, <1>4
  <2>2. k >= VendorLen + 4
    BY <2>1, VendorAssumption
  <2>3. p + 2 + VendorLen \in Nat /\ p + 2 + VendorLen <= p + k /\ p < p + 2 + VendorLen
    BY <1>2, <2>2, VendorAssumption DEF WalkFacts
  <2>4. p \in Nat /\ sub' \in Nat /\ sub' = p + 2 + VendorLen
    BY <1>1, <1>2, <2>3 DEF WalkFacts
  <2>5. p + ALen(p) \in Nat /\ sub' <= p + ALen(p) /\ p < sub'
    BY <1>3, <1>4, <2>3, <2>4
  <2>6. End \in Nat
    BY <1>2 DEF WalkFacts
  <2>7. QED BY <1>3, <2>2, <2>4, <2>5, <2>6
<1>6. Holder(p)
  BY <1>1, <1>2, <1>4, <1>5, IsAttribute DEF Holder, WalkFacts
<1>7. Swept(n, e, n) /\ Swept(HeaderLen, z, m)
  BY <1>2, <1>5, SweptFrom DEF WalkFacts
<1>8. /\ End' = z /\ (p + ALen(p))' = e /\ (p + 2 + VendorLen)' = n /\ p' = m /\ sub' = n
      /\ Full' = Full /\ Fits(p, End)' = Fits(p, End)
  BY <1>1, <1>5 DEF End, ALen, Full, Fits
<1>9. Swept(HeaderLen, End, p)' /\ Swept(p + 2 + VendorLen, p + ALen(p), sub)'
  <2>1. Swept(n, e, n)' /\ Swept(HeaderLen, z, m)'
    BY <1>1, <1>7, SweptKept
  <2>2. QED BY <1>8, <2>1
<1>10. Holder(p)'
  <2>1. Holder(m)
    BY <1>5, <1>6
  <2>2. Holder(m)'
    BY <1>1, <2>1, TellsStays
  <2>3. QED BY <1>8, <2>2
<1>11. Reach = m /\ Reach' = n
  BY <1>1, <1>5 DEF Reach
<1>12. Rows(m) /\ (~Full => Told(m, Len(attrs)))
  BY <1>11 DEF Walk
<1>13. ASSUME NEW a, NEW f, TellsOf(a, f), f < n
       PROVE  f < m
  <2>1. f \in Nat
    BY <1>13, RowPlace
  <2>2. f < p + ALen(p)
    BY <1>5, <1>13, <2>1
  <2>3. \/ f < p
        \/ Plain(p) /\ f = p /\ a = Standard(p)
        \/ Holder(p) /\ f \in Parts(p) /\ a = VSA(p, f)
    BY <1>1, <1>2, <1>13, <2>2, RowHere DEF WalkFacts
  <2>4. ~Plain(p)
    BY <1>1 DEF Plain
  <2>5. f \notin Parts(p)
    <3>1. SUFFICES ASSUME f \in Parts(p) PROVE FALSE
      OBVIOUS
    <3>2. p + 2 + VendorLen <= f
      BY <1>6, <3>1, PartFacts
    <3>3. n <= f
      BY <1>5, <3>2
    <3>4. QED BY <1>13, <2>1, <3>3
  <2>6. QED BY <1>5, <2>3, <2>4, <2>5
<1>14. PICK l : l = Len(attrs)
  OBVIOUS
<1>15. ~Full => Told(n, l)
  BY <1>12, <1>13, <1>14, ToldFarther
<1>16. Rows(n)' /\ (~Full => Told(n, l)')
  <2>1. m <= n
    BY <1>5
  <2>2. QED BY <1>1, <1>12, <1>15, <2>1, RowsKept
<1>17. Rows(Reach)' /\ (~Full => Told(Reach, Len(attrs)))'
  BY <1>1, <1>8, <1>11, <1>14, <1>16
<1>18. HeaderLen <= End'
  BY <1>2, <1>5, <1>8 DEF WalkFacts
<1>19. QED BY <1>1, <1>9, <1>10, <1>17, <1>18 DEF Walk

\* Inside a vendor-specific attribute.
LEMMA InsideFacts ==
    ASSUME PInv, Walk, loop = "vsa"
    PROVE  /\ WalkFacts /\ Holder(p) /\ AType(p) = VendorSpecific /\ Fits(p, End)
           /\ p + ALen(p) \in Nat /\ p + ALen(p) <= End
           /\ p + 2 + VendorLen \in Nat /\ p + 2 + VendorLen <= p + ALen(p)
           /\ p + 2 + VendorLen <= sub /\ sub <= p + ALen(p)
           /\ Swept(p + 2 + VendorLen, p + ALen(p), sub)
<1>1. /\ WalkFacts /\ Holder(p) /\ Swept(p + 2 + VendorLen, p + ALen(p), sub)
      /\ Fits(p, End) /\ p + 2 + VendorLen <= sub /\ sub <= p + ALen(p)
  BY WalkBasics DEF Walk, PInv, InsidePacket
<1>2. p + ALen(p) \in Nat /\ p + ALen(p) <= End
  BY <1>1, FitsFacts DEF WalkFacts
<1>3. p + 2 + VendorLen \in Nat
  BY <1>1, VendorAssumption DEF WalkFacts
<1>4. p + 2 + VendorLen <= p + ALen(p)
  <2>1. PICK m, n \in Nat : m = p + 2 + VendorLen /\ n = p + ALen(p)
    BY <1>2, <1>3
  <2>2. m <= sub /\ sub <= n /\ sub \in Nat
    BY <1>1, <2>1 DEF WalkFacts
  <2>3. m <= n
    BY <2>2
  <2>4. QED BY <2>1, <2>3
<1>5. QED BY <1>1, <1>2, <1>3, <1>4 DEF Holder

\* A place before the end of the attribute is behind no part that was seen, or is one of
\* its parts.
LEMMA RowInside ==
    ASSUME PInv, Walk, loop = "vsa", NEW a, NEW f, TellsOf(a, f), f < p + ALen(p)
    PROVE  f < sub \/ (f \in Parts(p) /\ a = VSA(p, f))
<1>1. WalkFacts /\ Holder(p) /\ AType(p) = VendorSpecific /\ Fits(p, End)
  BY InsideFacts
<1>2. \/ f < p
      \/ Plain(p) /\ f = p /\ a = Standard(p)
      \/ Holder(p) /\ f \in Parts(p) /\ a = VSA(p, f)
  BY <1>1, RowHere DEF WalkFacts
<1>3. ~Plain(p)
  BY <1>1 DEF Plain
<1>4. f < p => f < sub
  <2>1. p + 2 + VendorLen <= sub /\ p \in Nat /\ sub \in Nat /\ f \in Nat
    BY <1>1, InsideFacts, RowPlace DEF WalkFacts
  <2>2. QED BY <2>1, VendorAssumption
<1>5. QED BY <1>2, <1>3, <1>4

LEMMA WalkTakeVSA ==
    ASSUME PInv, Walk, TakeVSA
    PROVE  Walk'
<1>1. /\ UNCHANGED <<data, p>> /\ sub' = sub + ALen(sub) /\ attrs' = Append(attrs, VSA(p, sub))
      /\ loop = "vsa" /\ loop' = "vsa" /\ Fits(sub, p + ALen(p)) /\ ~Full
  BY DEF TakeVSA
<1>2. /\ WalkFacts /\ Holder(p) /\ Fits(p, End)
      /\ p + ALen(p) \in Nat /\ p + ALen(p) <= End
      /\ p + 2 + VendorLen \in Nat /\ p + 2 + VendorLen <= p + ALen(p)
      /\ p + 2 + VendorLen <= sub /\ sub <= p + ALen(p)
      /\ Swept(p + 2 + VendorLen, p + ALen(p), sub)
  BY <1>1, InsideFacts
<1>3. sub + ALen(sub) \in Nat /\ sub + ALen(sub) <= p + ALen(p) /\ ALen(sub) \in 2..255
  BY <1>1, <1>2, FitsFacts DEF WalkFacts
<1>4. PICK m, n, b, e, z, o \in Nat :
        /\ m = sub /\ n = sub' /\ b = p + 2 + VendorLen /\ e = p + ALen(p) /\ z = End /\ o = p
        /\ m < n /\ n <= e /\ b <= e /\ e <= z
  <2>1. PICK k \in 2..255 : k = ALen(sub)
    BY <1>3
  <2>2. sub < sub + k /\ sub \in Nat /\ End \in Nat /\ p \in Nat
    BY <1>2 DEF WalkFacts
  <2>3. sub < sub' /\ sub' \in Nat /\ sub' <= p + ALen(p)
    BY <1>1, <1>3, <2>1, <2>2
  <2>4. QED BY <1>2, <2>2, <2>3
<1>5. Swept(b, e, n) /\ (\A q \in Reached(data, b, e) : q < n => q <= m)
  <2>1. Swept(b, e, m) /\ Fits(m, e) /\ n = m + ALen(m)
    BY <1>1, <1>2, <1>4
  <2>2. e <= End
    BY <1>4
  <2>3. Swept(b, e, m + ALen(m)) /\ (\A q \in Reached(data, b, e) : q < m + ALen(m) => q <= m)
    BY <1>4, <2>1, <2>2, SweptHop
  <2>4. QED BY <2>1, <2>3
<1>6. /\ End' = z /\ (p + ALen(p))' = e /\ (p + 2 + VendorLen)' = b /\ p' = o
      /\ Fits(p, End)' = Fits(p, End)
  BY <1>1, <1>4 DEF End, ALen, Fits
<1>7. Swept(HeaderLen, End, p)' /\ Swept(p + 2 + VendorLen, p + ALen(p), sub)'
  <2>1. Swept(HeaderLen, z, o)
    BY <1>2, <1>4 DEF WalkFacts
  <2>2. Swept(b, e, n)' /\ Swept(HeaderLen, z, o)'
    BY <1>1, <1>5, <2>1, SweptKept
  <2>3. sub' = n
    BY <1>4
  <2>4. QED BY <1>6, <2>2, <2>3
<1>8. Holder(p)'
  <2>1. Holder(o)
    BY <1>2, <1>4
  <2>2. Holder(o)'
    BY <1>1, <2>1, TellsStays
  <2>3. QED BY <1>6, <2>2
<1>9. PICK row : row = VSA(p, sub)
  OBVIOUS
<1>10. row \in Attr
  BY <1>1, <1>9, VSAFacts
<1>11. TellsOf(row, m)
  <2>1. m \in Reached(data, b, e)
    BY <1>2, <1>4 DEF Swept
  <2>2. Fits(m, e)
    BY <1>1, <1>4
  <2>3. m \in Parts(o)
    <3>1. m \in Attributes(data, b, e)
      BY <2>1, <2>2, IsAttribute
    <3>2. b = o + 2 + VendorLen /\ e = o + ALen(o)
      BY <1>4
    <3>3. QED BY <3>1, <3>2 DEF Parts
  <2>4. Holder(o) /\ row = VSA(o, m)
    BY <1>2, <1>4, <1>9
  <2>5. QED BY <2>3, <2>4 DEF TellsOf
<1>12. Reach = m /\ Reach' = n
  BY <1>1, <1>4 DEF Reach
<1>13. Rows(m) /\ Told(m, Len(attrs))
  BY <1>1, <1>12 DEF Walk
<1>14. ASSUME NEW a, NEW f, TellsOf(a, f), f < n
       PROVE  f < m \/ a = row
  <2>1. f \in Nat
    BY <1>14, RowPlace
  <2>2. f < p + ALen(p)
    <3>1. f < e
      BY <1>4, <1>14, <2>1
    <3>2. QED BY <1>4, <3>1
  <2>3. f < sub \/ (f \in Parts(p) /\ a = VSA(p, f))
    BY <1>1, <1>14, <2>2, RowInside
  <2>4. CASE f \in Parts(p) /\ a = VSA(p, f)
    <3>1. f \in Reached(data, b, e)
      BY <1>4, <2>4 DEF Parts, Attributes
    <3>2. f <= m
      BY <1>5, <1>14, <3>1
    <3>3. f < m \/ f = m
      BY <2>1, <3>2
    <3>4. f = m => a = row
      BY <1>4, <1>9, <2>4
    <3>5. QED BY <3>3, <3>4
  <2>5. QED BY <1>4, <2>3, <2>4
<1>15. Rows(n)' /\ Told(n, Len(attrs))'
  <2>1. m < n
    BY <1>4
  <2>2. attrs' = Append(attrs, row) /\ UNCHANGED data
    BY <1>1, <1>9
  <2>3. QED BY <1>10, <1>11, <1>13, <1>14, <2>1, <2>2, RowAdded
<1>16. Rows(Reach)' /\ Told(Reach, Len(attrs))'
  BY <1>12, <1>15
<1>17. HeaderLen <= End'
  BY <1>2, <1>4, <1>6 DEF WalkFacts
<1>18. QED BY <1>1, <1>7, <1>8, <1>16, <1>17 DEF Walk

LEMMA WalkLeave ==
    ASSUME PInv, Walk, LeaveVSA
    PROVE  Walk'
<1>1. /\ UNCHANGED <<data, attrs>> /\ p' = p + ALen(p) /\ loop = "vsa" /\ loop' = "avp"
      /\ ~Fits(sub, p + ALen(p)) \/ Full
  BY DEF LeaveVSA
<1>2. /\ WalkFacts /\ Holder(p) /\ Fits(p, End)
      /\ p + ALen(p) \in Nat /\ p + ALen(p) <= End
      /\ p + 2 + VendorLen \in Nat /\ p + 2 + VendorLen <= p + ALen(p)
      /\ p + 2 + VendorLen <= sub /\ sub <= p + ALen(p)
      /\ Swept(p + 2 + VendorLen, p + ALen(p), sub)
  BY <1>1, InsideFacts
<1>3. HeaderLen <= End' /\ Swept(HeaderLen, End, p)'
  BY <1>1, <1>2, WalkOver
<1>4. PICK m, n \in Nat : m = sub /\ n = p' /\ m <= n /\ n = p + ALen(p)
  BY <1>1, <1>2 DEF WalkFacts
<1>5. Reach = m /\ Reach' = n /\ Full' = Full
  BY <1>1, <1>4 DEF Reach, Full
<1>6. Rows(m) /\ (~Full => Told(m, Len(attrs)))
  BY <1>5 DEF Walk
<1>7. ASSUME ~Full, NEW a, NEW f, TellsOf(a, f), f < n
      PROVE  f < m
  <2>1. ~Fits(m, n)
    BY <1>1, <1>4, <1>7
  <2>2. f < m \/ (f \in Parts(p) /\ a = VSA(p, f))
    BY <1>1, <1>4, <1>7, RowInside
  <2>3. CASE f \in Parts(p)
    <3>1. f \in Reached(data, p + 2 + VendorLen, n) /\ Fits(f, n) /\ f \in Nat
      <4>1. f \in Attributes(data, p + 2 + VendorLen, n)
        BY <1>4, <2>3 DEF Parts
      <4>2. f \in Reached(data, p + 2 + VendorLen, n)
        BY <4>1 DEF Attributes
      <4>3. Fits(f, p + ALen(p)) /\ f \in Nat
        BY <1>2, <2>3, PartFacts
      <4>4. QED BY <1>4, <4>2, <4>3
    <3>2. f <= m
      <4>1. PICK b \in Nat : b = p + 2 + VendorLen
        BY <1>2
      <4>2. b <= n /\ n <= End /\ Swept(b, n, m) /\ f \in Reached(data, b, n)
        BY <1>2, <1>4, <3>1, <4>1
      <4>3. QED BY <2>1, <4>2, SweptEnd
    <3>3. f # m
      BY <2>1, <3>1
    <3>4. QED BY <3>1, <3>2, <3>3
  <2>4. QED BY <2>2, <2>3
<1>8. PICK k : k = Len(attrs)
  OBVIOUS
<1>9. ~Full => Told(n, k)
  BY <1>6, <1>7, <1>8, ToldFarther
<1>10. Rows(n)' /\ (~Full => Told(n, k)')
  BY <1>1, <1>4, <1>6, <1>9, RowsKept
<1>11. Rows(Reach)' /\ (~Full => Told(Reach, Len(attrs)))'
  BY <1>1, <1>5, <1>8, <1>10
<1>12. QED BY <1>1, <1>3, <1>11 DEF Walk

\* An iteration keeps the invariant of the walk, or memory has run out.
LEMMA IterateWalk ==
    ASSUME PInv, Walk, Iterate
    PROVE  loop' = "nomem" \/ Walk'
<1>1. CASE Malformed
  BY <1>1, WalkStill DEF Malformed
<1>2. CASE Stop
  BY <1>2, WalkStill DEF Stop
<1>3. CASE Finish
  <2>1. p = End
    BY <1>3 DEF Finish, PInv, ParserTypeOK, InsidePacket, End
  <2>2. QED BY <1>3, <2>1, WalkStill DEF Finish
<1>4. CASE NoMemory
  BY <1>4 DEF NoMemory
<1>5. CASE EnterVSA
  BY <1>5, WalkEnter, IterateInv DEF Iterate
<1>6. QED BY <1>1, <1>2, <1>3, <1>4, <1>5, WalkTake, WalkSkip, WalkTakeVSA, WalkLeave DEF Iterate

\* A call begins with an empty table at the first attribute.
LEMMA WalkBegins ==
    ASSUME NEW bytes \in Seq(Byte), Len(bytes) >= HeaderLen, Parse(bytes)
    PROVE  Walk'
<1>1. /\ data' = bytes /\ loop' = "avp" /\ p' = HeaderLen /\ attrs' = <<>> /\ PInv'
  BY ParseInv DEF Parse
<1>2. End' \in Nat /\ HeaderLen <= End' /\ HeaderLen \in Nat
  BY <1>1, HeaderAssumption DEF End
<1>3. Swept(HeaderLen, End, p)'
  <2>1. p' \in Reached(data', HeaderLen, End')
    <3>1. HeaderLen \in HeaderLen..End'
      BY <1>2
    <3>2. QED BY <1>1, <3>1 DEF Reached
  <2>2. \A o \in Reached(data', HeaderLen, End') : ~(o < p')
    <3>1. \A o \in Reached(data', HeaderLen, End') : o \in Nat /\ HeaderLen <= o
      BY <1>2 DEF Reached
    <3>2. QED BY <1>1, <1>2, <3>1
  <2>3. QED BY <2>1, <2>2 DEF Swept
<1>4. Reach' = HeaderLen
  BY <1>1 DEF Reach
<1>5. Rows(Reach)'
  <2>1. 1..Len(attrs') = {}
    BY <1>1
  <2>2. QED BY <2>1 DEF Rows
<1>6. Told(Reach, Len(attrs))'
  <2>1. SUFFICES ASSUME NEW a, NEW n, TellsOf(a, n)', n < HeaderLen
                 PROVE  FALSE
    BY <1>4 DEF Told
  <2>2. CASE Plain(n)'
    <3>1. n \in Reached(data', HeaderLen, End')
      BY <2>2 DEF Plain, Attributes
    <3>2. n \in Nat /\ HeaderLen <= n
      BY <1>2, <3>1 DEF Reached
    <3>3. QED BY <1>2, <2>1, <3>2
  <2>3. CASE \E o : Holder(o)' /\ n \in Parts(o)'
    <3>1. PICK o : Holder(o)' /\ n \in Parts(o)'
      BY <2>3
    <3>2. o \in Reached(data', HeaderLen, End')
      BY <3>1 DEF Holder, Attributes
    <3>3. o \in Nat /\ HeaderLen <= o
      BY <1>2, <3>2 DEF Reached
    <3>4. o + 2 + VendorLen \in Nat /\ HeaderLen <= o + 2 + VendorLen
      BY <1>2, <3>3, VendorAssumption
    <3>5. n \in (o + 2 + VendorLen)..(o + ALen(o)')
      BY <3>1 DEF Parts, Attributes, Reached
    <3>6. n \in Int /\ o + 2 + VendorLen <= n
      BY <3>4, <3>5
    <3>7. QED BY <1>2, <2>1, <3>4, <3>6
  <2>4. QED BY <2>1, <2>2, <2>3 DEF TellsOf
<1>7. QED BY <1>1, <1>2, <1>3, <1>5, <1>6 DEF Walk

LEMMA WalkStays ==
    ASSUME PInv, Walk, UNCHANGED <<data, loop, p, sub, attrs>>
    PROVE  Walk'
<1>1. WalkFacts
  BY WalkBasics
<1>2. PICK m, n, q, e, z \in Int :
        m = p /\ n = sub /\ z = End /\ q = p + 2 + VendorLen /\ (loop = "vsa" => e = p + ALen(p))
  <2>1. p \in Int /\ sub \in Int /\ End \in Int /\ p + 2 + VendorLen \in Int
    BY <1>1, VendorAssumption DEF WalkFacts
  <2>2. CASE loop = "vsa"
    <3>1. p + ALen(p) \in Int
      BY <2>2, InsideFacts
    <3>2. QED BY <2>1, <3>1
  <2>3. CASE loop # "vsa"
    BY <2>1, <2>3
  <2>4. QED BY <2>2, <2>3
<1>3. /\ End' = z /\ p' = m /\ sub' = n /\ (p + 2 + VendorLen)' = q /\ Full' = Full
      /\ Fits(p, End)' = Fits(p, End) /\ (loop' = "vsa" => (p + ALen(p))' = e)
  BY <1>2 DEF End, ALen, Full, Fits
<1>4. Swept(HeaderLen, End, p)'
  <2>1. Swept(HeaderLen, z, m)'
    BY <1>1, <1>2, SweptKept DEF WalkFacts
  <2>2. QED BY <1>3, <2>1
<1>5. (loop = "vsa" => Holder(p) /\ Swept(p + 2 + VendorLen, p + ALen(p), sub))'
  <2>1. SUFFICES ASSUME loop' = "vsa"
                 PROVE  Holder(p)' /\ Swept(p + 2 + VendorLen, p + ALen(p), sub)'
    OBVIOUS
  <2>2. Holder(m) /\ Swept(q, e, n)
    BY <1>2, <2>1 DEF Walk
  <2>3. Holder(m)' /\ Swept(q, e, n)'
    BY <2>2, SweptKept, TellsStays
  <2>4. QED BY <1>3, <2>1, <2>3
<1>6. PICK f \in Nat : f = Reach
  BY <1>1 DEF Reach, WalkFacts
<1>7. Reach' = f
  BY <1>6 DEF Reach
<1>8. PICK k : k = Len(attrs)
  OBVIOUS
<1>9. Rows(f) /\ (~Full => Told(f, k))
  BY <1>6, <1>8 DEF Walk
<1>10. Rows(f)' /\ (~Full => Told(f, k)')
  BY <1>6, <1>9, RowsKept
<1>11. Rows(Reach)' /\ (~Full => Told(Reach, Len(attrs)))'
  BY <1>3, <1>7, <1>8, <1>10
<1>12. (/\ HeaderLen <= End
        /\ loop = "error" => p < End /\ ~Fits(p, End)
        /\ loop = "ok" => p = End \/ Full)'
  BY <1>2, <1>3 DEF Walk
<1>13. QED BY <1>4, <1>5, <1>11, <1>12 DEF Walk

LEMMA InitWInv == Init => WInv
  BY DEF Init, WInv

LEMMA StepWInv == SInv /\ WInv /\ [Next]_vars => WInv'
<1>1. SUFFICES ASSUME SInv, WInv, [Next]_vars PROVE WInv'
  OBVIOUS
<1>2. PInv /\ Client \in Seq(Byte) /\ scenario.answer \in Seq(Byte) /\ Len(Client) \in Nat
  BY <1>1, SessionFacts DEF SInv, TypeOK, PInv
<1>3. CASE \/ Arrive \/ NothingYet \/ NoRoom \/ TooShort \/ BadLength \/ TooLong \/ AwaitRest
           \/ CoreReads \/ Timeout \/ Close \/ Forward \/ EndRequest \/ EndResponse
  <2>1. phase' \notin {"parsing", "sending"}
    BY <1>3 DEF Arrive, NothingYet, NoRoom, TooShort, BadLength, TooLong, AwaitRest, GiveUp,
       CoreReads, Timeout, Close, Forward, EndRequest, EndResponse
  <2>2. QED BY <2>1 DEF WInv
<1>4. CASE Closed \/ UNCHANGED vars
  <2>1. UNCHANGED parserVars /\ UNCHANGED phase
    BY <1>4 DEF Closed, vars
  <2>2. UNCHANGED <<data, loop, p, sub, attrs, phase>>
    BY <2>1 DEF parserVars
  <2>3. Walk => Walk'
    BY <1>2, <2>2, WalkStays
  <2>4. QED BY <1>1, <2>2, <2>3 DEF WInv
<1>5. CASE StartRequest
  <2>1. Parse(SubSeq(Client, 1, Declared(Client))) /\ phase' = "parsing"
    BY <1>5 DEF StartRequest
  <2>2. SInv'
    BY <1>1, <1>5, StartRequestInv
  <2>3. data' \in Seq(Byte) /\ Len(data') >= HeaderLen
    BY <2>1, <2>2 DEF SInv, TypeOK, ParserTypeOK
  <2>4. data' = SubSeq(Client, 1, Declared(Client))
    BY <2>1 DEF Parse
  <2>5. Walk'
    BY <2>1, <2>3, <2>4, WalkBegins
  <2>6. QED BY <2>5 DEF WInv
<1>6. CASE StartResponse
  <2>1. PICK to \in Positions : Parse(Gathered(Chain(to)))
    BY <1>6 DEF StartResponse
  <2>2. phase' = "sending"
    BY <1>6 DEF StartResponse
  <2>3. SInv'
    BY <1>1, <1>6, StartResponseInv
  <2>4. data' \in Seq(Byte) /\ Len(data') >= HeaderLen
    BY <2>2, <2>3 DEF SInv, TypeOK, ParserTypeOK
  <2>5. data' = Gathered(Chain(to))
    BY <2>1 DEF Parse
  <2>6. Walk'
    BY <2>1, <2>4, <2>5, WalkBegins
  <2>7. QED BY <2>6 DEF WInv
<1>7. CASE ParseStep
  <2>1. phase \in {"parsing", "sending"} /\ Iterate
    BY <1>7 DEF ParseStep
  <2>2. loop # "nomem"
    BY <2>1 DEF Iterate, Malformed, Take, Stop, Finish, SkipVSA, EnterVSA, TakeVSA, LeaveVSA,
       NoMemory
  <2>3. Walk
    BY <1>1, <2>1, <2>2 DEF WInv
  <2>4. loop' = "nomem" \/ Walk'
    BY <1>2, <2>1, <2>3, IterateWalk
  <2>5. QED BY <2>4 DEF WInv
<1>8. QED BY <1>1, <1>3, <1>4, <1>5, <1>6, <1>7 DEF Next, Preread

\* The vendor-specific attributes of a type that a vendor put into the packet.
PartsOf(v, t) ==
    UNION {{s \in Parts(o) : AType(s) = t} : o \in {q \in Attributes(data, HeaderLen, End) :
                                              /\ AType(q) = VendorSpecific
                                              /\ ALen(q) >= VendorLen + 4
                                              /\ Vendor(q) = v}}

PlainOf(t) == {o \in Attributes(data, HeaderLen, End) : AType(o) = t}

\* Rows that a variable may mean are the ones that tell of the places it is to find.
Serves(found, S) ==
    /\ found = {} => S = {} \/ ~(Len(attrs) < MaxAttrs)
    /\ \A i \in found : IsFirst(attrs[i].from - 2, S)

\* A lookup takes the first row of a kind: it is the first place of that kind, if all rows
\* of the kind tell of such places and all such places have one.
LEMMA LookupServes ==
    ASSUME PInv, Walk, loop = "ok", NEW S, NEW K,
           K \subseteq 1..Len(attrs),
           \A i \in K : \A n : TellsOf(attrs[i], n) => n \in S,
           \A n \in S : \E a : TellsOf(a, n) /\ \A j \in 1..Len(attrs) : attrs[j] = a => j \in K
    PROVE  Serves({i \in K : \A j \in 1..i - 1 : j \notin K}, S)
<1> DEFINE found == {i \in K : \A j \in 1..i - 1 : j \notin K}
<1>1. attrs \in Seq(Attr) /\ Len(attrs) \in Nat /\ p \in Nat /\ End \in Nat
  BY DEF PInv, ParserTypeOK, End
<1>2. Rows(p)
  BY DEF Walk, Reach
<1>3. ASSUME NEW i \in found
      PROVE  IsFirst(attrs[i].from - 2, S)
  <2>1. i \in K /\ i \in 1..Len(attrs)
    OBVIOUS
  <2>2. PICK n \in Nat : TellsOf(attrs[i], n) /\ Told(n, i - 1)
    BY <1>2, <2>1 DEF Rows
  <2>3. PICK from : from = attrs[i].from
    OBVIOUS
  <2>4. from = n + 2
    BY <2>2, <2>3, RowPlace
  <2>5. from - 2 = n
    BY <2>4
  <2>6. n \in S
    BY <2>1, <2>2
  <2>7. ASSUME NEW q \in S
        PROVE  n <= q
    <3>1. PICK a : TellsOf(a, q) /\ \A j \in 1..Len(attrs) : attrs[j] = a => j \in K
      OBVIOUS
    <3>2. q \in Nat
      BY <3>1, RowPlace
    <3>3. ASSUME q < n PROVE FALSE
      <4>1. PICK j \in 1..i - 1 : attrs[j] = a
        BY <2>2, <3>1, <3>3 DEF Told
      <4>2. j \in 1..Len(attrs)
        BY <1>1, <2>1
      <4>3. j \in K
        BY <3>1, <4>1, <4>2
      <4>4. QED BY <4>1, <4>3
    <3>4. QED BY <3>2, <3>3
  <2>8. QED BY <2>3, <2>5, <2>6, <2>7 DEF IsFirst
<1>4. ASSUME found = {}, Len(attrs) < MaxAttrs
      PROVE  S = {}
  <2>1. SUFFICES ASSUME NEW n \in S PROVE FALSE
    OBVIOUS
  <2>2. PICK a : TellsOf(a, n) /\ \A j \in 1..Len(attrs) : attrs[j] = a => j \in K
    BY <2>1
  <2>3. ~Full
    BY <1>1, <1>4, TableAssumption DEF Full
  <2>4. Reach = p /\ p = End
    BY <2>3 DEF Walk, Reach
  <2>5. n < p
    BY <2>2, <2>4, RowPlace
  <2>6. PICK j \in 1..Len(attrs) : attrs[j] = a
    BY <2>2, <2>3, <2>4, <2>5 DEF Walk, Told
  <2>7. K # {}
    BY <2>2, <2>6
  <2>8. PICK i \in K : \A k \in K : i <= k
    BY <1>1, <2>7, LeastOf
  <2>9. \A k \in 1..i - 1 : k \notin K
    <3>1. TAKE k \in 1..i - 1
    <3>2. i \in Nat /\ k \in Nat /\ k < i
      BY <1>1
    <3>3. QED BY <2>8, <3>2
  <2>10. i \in found
    BY <2>8, <2>9
  <2>11. QED BY <1>4, <2>10
<1>5. QED BY <1>3, <1>4 DEF Serves

\* A row of a type other than that of vendors tells of a standard attribute.
LEMMA PlainRow ==
    ASSUME NEW a, NEW n, TellsOf(a, n), a.type # VendorSpecific
    PROVE  Plain(n) /\ a = Standard(n)
<1>1. \A o : VSA(o, n).type = VendorSpecific
  BY DEF VSA
<1>2. QED BY <1>1 DEF TellsOf

\* A row of a vendor tells of a part of an attribute.
LEMMA VendorRow ==
    ASSUME NEW a, NEW n, TellsOf(a, n), a.vendor # NoVendor
    PROVE  \E o : Holder(o) /\ n \in Parts(o) /\ a = VSA(o, n)
<1>1. Standard(n).vendor = NoVendor
  BY DEF Standard
<1>2. QED BY <1>1 DEF TellsOf

LEMMA StandardServes ==
    ASSUME PInv, Walk, loop = "ok", NEW t, t # VendorSpecific
    PROVE  Serves(FirstStandard(attrs, t), PlainOf(t))
<1> DEFINE K == {i \in 1..Len(attrs) : attrs[i].type = t /\ attrs[i].vendor = NoVendor}
           F == {i \in K : \A j \in 1..i - 1 : j \notin K}
<1>1. Len(attrs) \in Nat
  BY DEF PInv, ParserTypeOK
<1>2. ASSUME NEW i \in K, NEW n, TellsOf(attrs[i], n)
      PROVE  n \in PlainOf(t)
  <2>1. Plain(n) /\ attrs[i] = Standard(n)
    BY <1>2, PlainRow
  <2>2. AType(n) = t
    BY <2>1 DEF Standard
  <2>3. QED BY <2>1, <2>2 DEF Plain, PlainOf
<1>3. ASSUME NEW n \in PlainOf(t)
      PROVE  \E a : TellsOf(a, n) /\ \A j \in 1..Len(attrs) : attrs[j] = a => j \in K
  <2>1. Plain(n) /\ AType(n) = t
    BY DEF Plain, PlainOf
  <2>2. TellsOf(Standard(n), n) /\ Standard(n).type = t /\ Standard(n).vendor = NoVendor
    BY <2>1 DEF TellsOf, Standard
  <2>3. PICK a : a = Standard(n)
    OBVIOUS
  <2>4. TellsOf(a, n) /\ a.type = t /\ a.vendor = NoVendor
    BY <2>2, <2>3
  <2>5. QED BY <2>4
<1>4. Serves(F, PlainOf(t))
  <2>1. K \subseteq 1..Len(attrs)
    OBVIOUS
  <2>2. HIDE DEF K
  <2>3. QED BY <1>2, <1>3, <2>1, LookupServes
<1>5. F = FirstStandard(attrs, t)
  <2>1. ASSUME NEW i \in 1..Len(attrs), NEW j \in 1..i - 1
        PROVE  j \in 1..Len(attrs)
    BY <1>1
  <2>2. QED BY <2>1 DEF FirstStandard
<1>6. QED BY <1>4, <1>5

LEMMA VendorServes ==
    ASSUME PInv, Walk, loop = "ok", NEW v, NEW t, v # NoVendor
    PROVE  Serves(FirstVSA(attrs, v, t), PartsOf(v, t))
<1> DEFINE K == {i \in 1..Len(attrs) : attrs[i].vendor = v /\ attrs[i].vtype = t}
           F == {i \in K : \A j \in 1..i - 1 : j \notin K}
<1>1. Len(attrs) \in Nat
  BY DEF PInv, ParserTypeOK
<1>2. ASSUME NEW i \in K, NEW n, TellsOf(attrs[i], n)
      PROVE  n \in PartsOf(v, t)
  <2>1. PICK o : Holder(o) /\ n \in Parts(o) /\ attrs[i] = VSA(o, n)
    BY <1>2, VendorRow
  <2>2. Vendor(o) = v /\ AType(n) = t
    BY <2>1 DEF VSA
  <2>3. QED BY <2>1, <2>2 DEF Holder, PartsOf
<1>3. ASSUME NEW n \in PartsOf(v, t)
      PROVE  \E a : TellsOf(a, n) /\ \A j \in 1..Len(attrs) : attrs[j] = a => j \in K
  <2>1. PICK o : Holder(o) /\ Vendor(o) = v /\ n \in Parts(o) /\ AType(n) = t
    BY DEF Holder, PartsOf
  <2>2. TellsOf(VSA(o, n), n) /\ VSA(o, n).vendor = v /\ VSA(o, n).vtype = t
    BY <2>1 DEF TellsOf, VSA
  <2>3. PICK a : a = VSA(o, n)
    OBVIOUS
  <2>4. TellsOf(a, n) /\ a.vendor = v /\ a.vtype = t
    BY <2>2, <2>3
  <2>5. QED BY <2>4
<1>4. Serves(F, PartsOf(v, t))
  <2>1. K \subseteq 1..Len(attrs)
    OBVIOUS
  <2>2. HIDE DEF K
  <2>3. QED BY <1>2, <1>3, <2>1, LookupServes
<1>5. F = FirstVSA(attrs, v, t)
  <2>1. ASSUME NEW i \in 1..Len(attrs), NEW j \in 1..i - 1
        PROVE  j \in 1..Len(attrs)
    BY <1>1
  <2>2. QED BY <2>1 DEF FirstVSA
<1>6. QED BY <1>4, <1>5

\* A packet ends where its last attribute ends, or is malformed.
LEMMA WalkWellFormed ==
    ASSUME PInv, Walk
    PROVE  /\ loop = "error" => ~WellFormed(data)
           /\ loop = "ok" /\ Len(attrs) < MaxAttrs => WellFormed(data)
<1>1. WalkFacts
  BY WalkBasics
<1>2. ASSUME loop = "error" PROVE ~WellFormed(data)
  <2>1. p < End /\ ~Fits(p, End)
    BY <1>2 DEF Walk
  <2>2. \A o \in Reached(data, HeaderLen, End) : o <= p
    BY <1>1, <2>1, SweptEnd DEF WalkFacts
  <2>3. End \notin Reached(data, HeaderLen, End)
    BY <1>1, <2>1, <2>2 DEF WalkFacts
  <2>4. QED BY <2>3 DEF WellFormed, End
<1>3. ASSUME loop = "ok", Len(attrs) < MaxAttrs PROVE WellFormed(data)
  <2>1. Len(attrs) \in Nat
    BY DEF PInv, ParserTypeOK
  <2>2. p = End
    BY <1>3, <2>1, TableAssumption DEF Walk, Full
  <2>3. QED BY <1>1, <2>2 DEF WalkFacts, WellFormed, End
<1>4. QED BY <1>2, <1>3

LEMMA WalkParsedRight == SInv /\ WInv => ParsedRight
<1>1. SUFFICES ASSUME SInv, WInv, phase \in {"parsing", "sending"}, Returned
               PROVE  ParsedRight
  BY DEF ParsedRight
<1>2. PInv
  BY <1>1 DEF SInv, TypeOK, PInv
<1>3. loop \in {"ok", "error"} => Walk
  BY <1>1 DEF WInv
<1>4. loop = "error" => ~WellFormed(data)
  BY <1>2, <1>3, WalkWellFormed
<1>5. loop = "ok" /\ Len(attrs) < MaxAttrs => WellFormed(data)
  BY <1>2, <1>3, WalkWellFormed
<1>6. loop = "ok" => \A t : t # VendorSpecific => Serves(FirstStandard(attrs, t), PlainOf(t))
  BY <1>2, <1>3, StandardServes
<1>7. loop = "ok" => \A v, t : v # NoVendor => Serves(FirstVSA(attrs, v, t), PartsOf(v, t))
  BY <1>2, <1>3, VendorServes
<1> DEFINE As == Attributes(data, HeaderLen, End)
           room == Len(attrs) < MaxAttrs
           Std(t) == {o \in As : AType(o) = t}
           Sub(v, t) == UNION {{s \in Attributes(data, o + 2 + VendorLen, o + ALen(o)) :
                                  AType(s) = t} :
                                o \in {q \in As : /\ AType(q) = VendorSpecific
                                                  /\ ALen(q) >= VendorLen + 4
                                                  /\ Vendor(q) = v}}
           Finds(found, S) == /\ found = {} => S = {} \/ ~room
                              /\ \A i \in found : IsFirst(attrs[i].from - 2, S)
<1>8. \A found, S : Serves(found, S) => Finds(found, S)
  BY DEF Serves
<1>9. \A t : PlainOf(t) = Std(t)
  BY DEF PlainOf
<1>10. \A v, t : PartsOf(v, t) = Sub(v, t)
  BY Zenon DEF PartsOf, Parts
<1> HIDE DEF Finds, Std, Sub
<1>11. loop = "ok" => \A t : t # VendorSpecific => Finds(FirstStandard(attrs, t), Std(t))
  BY <1>6, <1>8, <1>9
<1>12. loop = "ok" => \A v, t : v # NoVendor => Finds(FirstVSA(attrs, v, t), Sub(v, t))
  BY <1>7, <1>8, <1>10
<1>13. /\ loop = "error" => ~WellFormed(data)
       /\ loop = "ok" =>
            /\ room => WellFormed(data)
            /\ \A t \in {AType(o) : o \in As} \ {VendorSpecific} :
                 Finds(FirstStandard(attrs, t), Std(t))
            /\ \A i \in 1..Len(attrs) :
                 attrs[i].type = VendorSpecific /\ attrs[i].vendor # NoVendor =>
                   Finds(FirstVSA(attrs, attrs[i].vendor, attrs[i].vtype),
                         Sub(attrs[i].vendor, attrs[i].vtype))
  BY <1>4, <1>5, <1>11, <1>12
<1>14. QED BY <1>13 DEF ParsedRight, Finds, Std, Sub

\* Whatever the packet: a call that fails had a malformed one, and after one that succeeds
\* every lookup by type, and by vendor and type, gives the first attribute of its kind
\* that the lengths of RFC 2865 lead to, unless the table was full.
THEOREM RadiusParsedRight == Spec => []ParsedRight
  BY WalkParsedRight, InitSInv, InitWInv, StepSInv, StepWInv, PTL DEF Spec

=============================================================================
