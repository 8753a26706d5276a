--------------------------- MODULE RadiusSession ---------------------------
(***************************************************************************)
(* ngx_stream_radius_module: one session.  The preread handler reads the   *)
(* client's request and parses it; the wrapped send_chain sees what the    *)
(* proxy forwards to the client and parses the first response.             *)
(*                                                                         *)
(* The core around it (sockets, the preread phase, the proxy) is external. *)
(* As the handler of ngx_stream_dns_module relies on, the core reads into  *)
(* c->buffer itself before it calls a handler that answered NGX_AGAIN.     *)
(***************************************************************************)
EXTENDS RadiusParser

CONSTANTS
    Scenario,   \* the sessions: transport, what the client and the upstream send
    BufferSize, \* radius_buffer_size
    MaxPacket   \* NGX_RADIUS_MAX_PACKET_LEN

ASSUME SizeAssumption ==
    BufferSize \in Nat \ {0} /\ MaxPacket \in Nat /\ HeaderLen <= MaxPacket

\* ends: where the packets of the answer end.
IsSession(s) ==
    /\ s.transport \in {"udp", "tcp"}
    /\ s.client \in Seq(Byte)
    /\ s.answer \in Seq(Byte)
    /\ s.ends \subseteq 1..Len(s.answer)

ASSUME ScenarioAssumption == \A s \in Scenario : IsSession(s)

VARIABLES
    scenario, \* the session that runs
    phase,    \* where it is
    arrived,  \* bytes of the client that reached the socket
    held,     \* bytes of them in c->buffer
    request,  \* ctx: parse_error, code, attrs
    response, \* ctx: response_parsed, response_code, resp_attrs, resp_buf
    wrapped,  \* c->send_chain is ngx_stream_radius_send_chain
    taken,    \* bytes of the answer that the proxy read
    sent      \* bytes of them that went to the client

requestVars  == <<arrived, held, request, wrapped>>
responseVars == <<response, taken, sent>>
vars == <<parserVars, scenario, phase, requestVars, responseVars>>

-----------------------------------------------------------------------------

Least(a, b) == IF a < b THEN a ELSE b

UDP    == scenario.transport = "udp"
Client == scenario.client

NoRequest  == [parsed |-> FALSE, error |-> FALSE, code |-> 0, attrs |-> <<>>]
NoResponse == [parsed |-> FALSE, code |-> 0, attrs |-> <<>>, buf |-> <<>>]

Room == IF UDP THEN Len(Client) ELSE BufferSize

\* The Length field of the packet that bytes begin with.
Declared(bytes) == 256 * bytes[3] + bytes[4]

InRange(n) == n \in HeaderLen..MaxPacket

-----------------------------------------------------------------------------
(* The preread handler                                                     *)

\* A TCP client's bytes arrive in segments.
Arrive ==
    /\ ~UDP
    /\ phase \in {"accepted", "waiting", "receiving"}
    /\ \E n \in arrived + 1 .. Len(Client) : arrived' = n
    /\ UNCHANGED <<parserVars, scenario, phase, held, request, wrapped, responseVars>>

Called == phase \in {"accepted", "receiving"}

\* A datagram is in the buffer; otherwise recv adds what has arrived.
Got     == IF UDP THEN Len(Client) ELSE Least(arrived, BufferSize)
Receive == Called /\ (UDP \/ Got > held)

\* recv has nothing, or no room to put it.
NothingYet ==
    /\ Called
    /\ ~UDP
    /\ held = arrived
    /\ held < BufferSize
    /\ phase' = "waiting"
    /\ UNCHANGED <<parserVars, scenario, requestVars, responseVars>>

NoRoom ==
    /\ Called
    /\ ~UDP
    /\ held = BufferSize
    /\ phase' = "closed"
    /\ UNCHANGED <<parserVars, scenario, requestVars, responseVars>>

\* The session goes on without a request.
GiveUp ==
    /\ held' = Got
    /\ request' = [request EXCEPT !.error = TRUE]
    /\ phase' = "proxying"
    /\ UNCHANGED <<parserVars, scenario, arrived, wrapped, responseVars>>

TooShort ==
    /\ Receive
    /\ Got < HeaderLen
    /\ GiveUp

BadLength ==
    /\ Receive
    /\ Got >= HeaderLen
    /\ ~InRange(Declared(Client))
    /\ GiveUp

Incomplete ==
    /\ Receive
    /\ Got >= HeaderLen
    /\ InRange(Declared(Client))
    /\ Got < Declared(Client)

TooLong ==
    /\ Incomplete
    /\ Room < Declared(Client)
    /\ GiveUp

\* Mutant of AwaitRest: a datagram waits too.
AwaitRestAlways ==
    /\ Incomplete
    /\ held' = Got
    /\ phase' = "waiting"
    /\ UNCHANGED <<parserVars, scenario, arrived, request, wrapped, responseVars>>

AwaitRest ==
    /\ Incomplete
    /\ Room >= Declared(Client)
    /\ held' = Got
    /\ phase' = "waiting"
    /\ UNCHANGED <<parserVars, scenario, arrived, request, wrapped, responseVars>>

\* Mutant of StartRequest: all bytes in the buffer are taken for the packet.
StartRequestAll ==
    /\ Receive
    /\ Got >= HeaderLen
    /\ InRange(Declared(Client))
    /\ Got >= Declared(Client)
    /\ held' = Got
    /\ Parse(SubSeq(Client, 1, Got))
    /\ phase' = "parsing"
    /\ UNCHANGED <<scenario, arrived, request, wrapped, responseVars>>

StartRequest ==
    /\ Receive
    /\ Got >= HeaderLen
    /\ InRange(Declared(Client))
    /\ Got >= Declared(Client)
    /\ held' = Got
    /\ Parse(SubSeq(Client, 1, Declared(Client)))
    /\ phase' = "parsing"
    /\ UNCHANGED <<scenario, arrived, request, wrapped, responseVars>>

EndRequest ==
    /\ phase = "parsing"
    /\ Returned
    /\ request' = [parsed |-> TRUE, error |-> loop # "ok", code |-> data[1], attrs |-> attrs]
    /\ wrapped' = (loop = "ok")
    /\ phase' = "proxying"
    /\ UNCHANGED <<parserVars, scenario, arrived, held, responseVars>>

ParseStep ==
    /\ phase \in {"parsing", "sending"}
    /\ Iterate
    /\ UNCHANGED <<scenario, phase, requestVars, responseVars>>

-----------------------------------------------------------------------------
(* The core's preread phase                                                *)

\* There is something to read: the core reads it, then calls the handler.
CoreReads ==
    /\ phase = "waiting"
    /\ held < Least(arrived, BufferSize)
    /\ held' = Least(arrived, BufferSize)
    /\ phase' = "receiving"
    /\ UNCHANGED <<parserVars, scenario, arrived, request, wrapped, responseVars>>

\* preread_timeout
Timeout ==
    /\ phase = "waiting"
    /\ phase' = "closed"
    /\ UNCHANGED <<parserVars, scenario, requestVars, responseVars>>

-----------------------------------------------------------------------------
(* The proxy and the wrapped send_chain                                    *)

\* The proxy hands over what it has not sent yet, with what it just read: whole
\* datagrams, or any part of a stream.
Positions ==
    IF UDP THEN {0} \cup scenario.ends ELSE 0..Len(scenario.answer)

Chain(to) == SubSeq(scenario.answer, sent + 1, to)

\* The bytes gathered from a chain: one packet, if it holds a whole one.
Gathered(chain) ==
    LET some == SubSeq(chain, 1, Least(Len(chain), MaxPacket))
        n    == IF Len(some) >= 4 THEN Declared(some) ELSE 0
    IN  IF InRange(n) /\ n <= Len(some) THEN SubSeq(some, 1, n) ELSE some

\* Mutant of Inspects: a response is parsed although one was parsed before.
InspectsAgain(chain) == wrapped /\ Len(Gathered(chain)) >= HeaderLen

Inspects(chain) ==
    wrapped /\ ~response.parsed /\ Len(Gathered(chain)) >= HeaderLen

SendTo(to) == \E n \in Positions : n \in sent..to /\ sent' = n

Forward ==
    /\ phase = "proxying"
    /\ \E to \in Positions :
         /\ to >= taken /\ to > sent
         /\ ~Inspects(Chain(to))
         /\ taken' = to
         /\ SendTo(to)
    /\ UNCHANGED <<parserVars, scenario, phase, requestVars, response>>

StartResponse ==
    /\ phase = "proxying"
    /\ \E to \in Positions :
         /\ to >= taken /\ to > sent
         /\ Inspects(Chain(to))
         /\ taken' = to
         /\ Parse(Gathered(Chain(to)))
    /\ phase' = "sending"
    /\ UNCHANGED <<scenario, requestVars, response, sent>>

\* The code is recorded even if the rest does not parse.
EndResponse ==
    /\ phase = "sending"
    /\ Returned
    /\ response' = [parsed |-> TRUE, code |-> data[1],
                    attrs |-> IF loop = "ok" THEN attrs ELSE <<>>, buf |-> data]
    /\ SendTo(taken)
    /\ phase' = "proxying"
    /\ UNCHANGED <<parserVars, scenario, requestVars, taken>>

\* The session is logged and closed.
Close ==
    /\ phase \in {"accepted", "waiting", "receiving", "proxying"}
    /\ phase' = "closed"
    /\ UNCHANGED <<parserVars, scenario, requestVars, responseVars>>

Closed ==
    /\ phase = "closed"
    /\ UNCHANGED vars

Init ==
    /\ scenario \in Scenario
    /\ phase = "accepted"
    /\ arrived = IF UDP THEN Len(Client) ELSE 0
    /\ held = 0
    /\ request = NoRequest
    /\ response = NoResponse
    /\ wrapped = FALSE
    /\ taken = 0
    /\ sent = 0
    /\ data = <<>>
    /\ loop = "ok"
    /\ p = 0
    /\ sub = 0
    /\ attrs = <<>>

Preread ==
    \/ NothingYet \/ NoRoom
    \/ TooShort \/ BadLength \/ TooLong \/ AwaitRest
    \/ StartRequest \/ EndRequest

Next ==
    \/ Arrive
    \/ Preread
    \/ CoreReads \/ Timeout
    \/ ParseStep
    \/ Forward \/ StartResponse \/ EndResponse
    \/ Close
    \/ Closed

\* A parse runs to its end before the worker does anything else.
Fairness == WF_vars(ParseStep) /\ WF_vars(EndRequest) /\ WF_vars(EndResponse)

Spec == Init /\ [][Next]_vars /\ Fairness

-----------------------------------------------------------------------------
(* Variables of the configuration                                          *)

\* $radius_attr_<type>: the first standard attribute of the type.
FirstStandard(table, type) ==
    {i \in 1..Len(table) : /\ table[i].type = type /\ table[i].vendor = NoVendor
                        /\ \A j \in 1..i - 1 : table[j].type # type \/ table[j].vendor # NoVendor}

\* $radius_vsa_<vendor>_<attribute>
FirstVSA(table, vendor, vtype) ==
    {i \in 1..Len(table) : /\ table[i].vendor = vendor /\ table[i].vtype = vtype
                        /\ \A j \in 1..i - 1 : table[j].vendor # vendor \/ table[j].vtype # vtype}

-----------------------------------------------------------------------------
(* RFC 2865, independently of the loops: what offsets the lengths lead to. *)

Hop(b, o, end) ==
    IF o + 2 <= end /\ b[o + 2] >= 2 /\ o + b[o + 2] <= end THEN {o + b[o + 2]} ELSE {}

Reached(b, from, end) ==
    {o \in from..end :
        \A S \in SUBSET (from..end) :
            from \in S /\ (\A q \in S : Hop(b, q, end) \subseteq S) => o \in S}

\* The offsets of the attributes between from and end.
Attributes(b, from, end) == {o \in Reached(b, from, end) : Hop(b, o, end) # {}}

WellFormed(b) == Len(b) \in Reached(b, HeaderLen, Len(b))

IsFirst(o, S) == o \in S /\ \A q \in S : o <= q

-----------------------------------------------------------------------------
(* Properties                                                              *)

TypeOK ==
    /\ ParserTypeOK
    /\ scenario \in Scenario
    /\ phase \in {"accepted", "waiting", "receiving", "parsing", "proxying", "sending", "closed"}
    /\ arrived \in 0..Len(Client)
    /\ held \in 0..Least(arrived, Room)
    /\ request \in [parsed : BOOLEAN, error : BOOLEAN, code : Byte, attrs : Seq(Attr)]
    /\ response \in [parsed : BOOLEAN, code : Byte, attrs : Seq(Attr), buf : Seq(Byte)]
    /\ wrapped \in BOOLEAN
    /\ taken \in 0..Len(scenario.answer)
    /\ sent \in 0..taken

\* The walk finds what RFC 2865 says: a call that fails had a malformed packet, and
\* after one that succeeds every variable has the value of the first attribute of its
\* type, unless the table was full before it came.  No variable asks for vendor 0, whose
\* number the standard attributes have in the table (ngx_stream_radius_vars.c:86-92).
ParsedRight ==
    phase \in {"parsing", "sending"} /\ Returned =>
      LET As      == Attributes(data, HeaderLen, End)
          room    == Len(attrs) < MaxAttrs
          Std(t)  == {o \in As : AType(o) = t}
          Sub(v, t) == UNION {{s \in Attributes(data, o + 2 + VendorLen, o + ALen(o)) :
                                 AType(s) = t} :
                               o \in {q \in As : /\ AType(q) = VendorSpecific
                                                 /\ ALen(q) >= VendorLen + 4
                                                 /\ Vendor(q) = v}}
          Finds(found, S) ==
            /\ found = {} => S = {} \/ ~room
            /\ \A i \in found : IsFirst(attrs[i].from - 2, S)
      IN  /\ loop = "error" => ~WellFormed(data)
          /\ loop = "ok" =>
               /\ room => WellFormed(data)
               /\ \A t \in {AType(o) : o \in As} \ {VendorSpecific} :
                    Finds(FirstStandard(attrs, t), Std(t))
               /\ \A i \in 1..Len(attrs) :
                    attrs[i].type = VendorSpecific /\ attrs[i].vendor # NoVendor =>
                      Finds(FirstVSA(attrs, attrs[i].vendor, attrs[i].vtype),
                            Sub(attrs[i].vendor, attrs[i].vtype))

\* What is known of a request comes from the client's first packet and from nothing
\* behind it, however the bytes were cut into segments.
RequestIsWhole ==
    request.parsed =>
      /\ held >= Declared(Client)
      /\ request.code = Client[1]
      /\ \A i \in 1..Len(request.attrs) :
           request.attrs[i].from + request.attrs[i].len <= Declared(Client)

\* ngx_stream_radius_module.c:693-698: a session over UDP does not stall in the preread
\* phase, whatever length its datagram declares.
DatagramNeverWaits == UDP => phase # "waiting"

FirstPacket(n) == SubSeq(scenario.answer, 1, n)

RecordsFirst ==
    response.parsed =>
      \A n \in scenario.ends :
        (\A m \in scenario.ends : n <= m) /\ InRange(n) /\ Declared(FirstPacket(n)) = n
        => response.code = scenario.answer[1] /\ response.buf = FirstPacket(n)

\* Over UDP the recorded response is the first one, whatever the proxy repeats or sends
\* together.
DatagramRecorded == UDP => RecordsFirst

\* A call of the parser ends.
ParseReturns == phase \in {"parsing", "sending"} ~> phase \notin {"parsing", "sending"}

\* ngx_stream_radius_module.c:983-984 "For TCP the chain may span multiple buffers; we
\* copy until we have a complete RADIUS packet": the recorded response is the whole first
\* packet of the stream.
StreamRecorded == ~UDP => RecordsFirst

\* ngx_stream_radius_module.c:700-702 "we allocate it and call c->recv() to accumulate
\* bytes until a full RADIUS packet is buffered": a request that begins well is not given
\* up because its header comes in two segments.
HeaderAccumulates ==
    ~UDP /\ phase = "proxying" /\ ~request.parsed /\ Len(Client) >= HeaderLen
    => ~InRange(Declared(Client)) \/ Declared(Client) > BufferSize

=============================================================================
