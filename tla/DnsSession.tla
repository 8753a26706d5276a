----------------------------- MODULE DnsSession -----------------------------
(***************************************************************************)
(* ngx_stream_dns_module: one session.  The preread handler parses what    *)
(* the core has buffered of the client; the filter sees every chain that   *)
(* the proxy sends on, in both directions, and parses what is still        *)
(* missing.  The variables of the configuration read what was parsed.      *)
(*                                                                         *)
(* The core (sockets, the preread phase, the proxy, directives that set a  *)
(* size) is external.  A chain of buffers is the octets it holds.          *)
(***************************************************************************)
EXTENDS DnsParser

CONSTANTS
    Talk,        \* the sessions: configuration, transport, and what both sides send
    DefaultSize, \* the default of dns_parse_max_size
    IpsSize,     \* the buffer of $dns_response_ips
    JsonSize,    \* the buffer of $dns_response_answers_json
    Unset        \* NGX_CONF_UNSET

ASSUME SizeAssumption ==
    /\ DefaultSize \in Nat \ {0} /\ IpsSize \in Nat \ {0} /\ JsonSize \in Nat \ {0}
    /\ Unset \notin Nat \cup {"on", "off"}

\* The directives of one level of the configuration.
Level == [dns_parse : Seq({"on", "off"}), max_size : Nat \cup {Unset}]

\* What one side sends; over UDP ends tells where its datagrams end.
Side == [octets : Seq(Byte), ends : SUBSET Nat]

ASSUME TalkAssumption ==
    \A t \in Talk :
        /\ t.transport \in {"udp", "tcp"}
        /\ t.stream \in Level /\ t.server \in Level
        /\ \A side \in {t.client, t.upstream} :
             side.octets \in Seq(Byte) /\ side.ends \subseteq 1..Len(side.octets)

VARIABLES
    talk,     \* the session that runs
    phase,    \* where it is
    held,     \* octets of the client that were in c->buffer when the preread phase ended
    up,       \* octets of the client that went through the filter
    down,     \* octets of the upstream that did
    request,  \* ctx: req_parsed, req_parse_ok, req_pkt
    response  \* ctx: resp_parsed, resp_parse_ok, resp_pkt

sessionVars == <<talk, held, up, down, request, response>>
vars == <<parserVars, phase, sessionVars>>

-----------------------------------------------------------------------------
(* Configuration                                                           *)

\* dns_parse, which may be given again: the last one counts.
Switch(values) == IF values = <<>> THEN Unset ELSE values[Len(values)]

\* Mutant of Merged: the outer level wins.
MergedOuter(outer, inner, default) ==
    IF outer # Unset THEN outer ELSE IF inner # Unset THEN inner ELSE default

\* ngx_conf_merge_value
Merged(outer, inner, default) ==
    IF inner # Unset THEN inner ELSE IF outer # Unset THEN outer ELSE default

Enabled == Merged(Switch(talk.stream.dns_parse), Switch(talk.server.dns_parse), "off") = "on"
MaxSize == Merged(talk.stream.max_size, talk.server.max_size, DefaultSize)

UDP == talk.transport = "udp"
TCP == talk.transport = "tcp"

Upto(octets, n) == SubSeq(octets, 1, Smaller(n, Len(octets)))

Nothing == [parsed |-> FALSE, pkt |-> NoPacket]

\* The call of the parser is over and its locals are gone.
Forget ==
    /\ buf' = <<>>
    /\ at' = "idle"
    /\ offset' = 0
    /\ sec' = 1
    /\ nm' = NoName
    /\ rr' = NoRecord
    /\ pkt' = NoPacket
    /\ reach' = 0

\* Mutant of Latch: an attempt that failed counts as well.
LatchAlways(ctx) == [parsed |-> TRUE, pkt |-> pkt]

\* Only a packet that could be parsed is kept; otherwise the next chain is tried.
Latch(ctx) == IF at = "ok" THEN [parsed |-> TRUE, pkt |-> pkt] ELSE ctx

-----------------------------------------------------------------------------
(* ngx_stream_dns_preread_handler                                          *)

Buffered == SubSeq(talk.client.octets, 1, held)

Declines ==
    /\ phase = "preread"
    /\ ~Enabled \/ request.parsed
    /\ phase' = "proxy"
    /\ UNCHANGED <<parserVars, sessionVars>>

\* At least a header: it is parsed, and whatever comes of it the session goes on.
PrereadParse ==
    /\ phase = "preread"
    /\ Enabled /\ ~request.parsed
    /\ held >= 12
    /\ Parse(IF MaxSize > 0 THEN Upto(Buffered, MaxSize) ELSE Buffered, TCP)
    /\ phase' = "preparsing"
    /\ UNCHANGED sessionVars

PrereadParsed ==
    /\ phase = "preparsing"
    /\ Returned
    /\ request' = Latch(request)
    /\ phase' = "proxy"
    /\ Forget
    /\ UNCHANGED <<talk, held, up, down, response>>

ShortDatagram ==
    /\ phase = "preread"
    /\ Enabled /\ ~request.parsed
    /\ held < 12
    /\ UDP
    /\ phase' = "proxy"
    /\ UNCHANGED <<parserVars, sessionVars>>

\* Mutant of AwaitMore: a datagram waits too.
AwaitMoreAlways ==
    /\ phase = "preread"
    /\ Enabled /\ ~request.parsed
    /\ held < 12
    /\ phase' = "waiting"
    /\ UNCHANGED <<parserVars, sessionVars>>

\* NGX_AGAIN
AwaitMore ==
    /\ phase = "preread"
    /\ Enabled /\ ~request.parsed
    /\ held < 12
    /\ TCP
    /\ phase' = "waiting"
    /\ UNCHANGED <<parserVars, sessionVars>>

-----------------------------------------------------------------------------
(* The core: where a read may end that starts after the first octets, at   *)
(* the end of the next datagram or anywhere in a stream.                   *)

Reads(side, after) ==
    IF UDP THEN {n \in side.ends : n > after /\ \A m \in side.ends : m > after => n <= m}
    ELSE after + 1 .. Len(side.octets)

\* More of a stream arrives and the handler is called again.
CoreReads ==
    /\ phase = "waiting"
    /\ held' \in Reads(talk.client, held)
    /\ phase' = "preread"
    /\ UNCHANGED <<parserVars, talk, up, down, request, response>>

\* The end of the stream, or preread_timeout
GivesUp ==
    /\ phase = "waiting"
    /\ phase' = "closed"
    /\ UNCHANGED <<parserVars, sessionVars>>

-----------------------------------------------------------------------------
(* ngx_stream_dns_filter                                                   *)

\* What is gathered of a chain.
Gathered(side, from, to) ==
    Upto(SubSeq(side.octets, from + 1, to), IF MaxSize > 0 THEN MaxSize ELSE 4096)

\* Mutant of Inspects: what was parsed is parsed again.
InspectsAgain(ctx, octets) == Enabled /\ Len(octets) >= 12

Inspects(ctx, octets) == Enabled /\ ~ctx.parsed /\ Len(octets) >= 12

\* What the preread phase buffered is sent on first, in one chain.
Outgoing == IF up < held THEN {held} ELSE Reads(talk.client, up)
Incoming == Reads(talk.upstream, down)

PassUp ==
    /\ phase = "proxy"
    /\ \E n \in Outgoing :
         /\ ~Inspects(request, Gathered(talk.client, up, n))
         /\ up' = n
    /\ UNCHANGED <<parserVars, phase, talk, held, down, request, response>>

ParseUp ==
    /\ phase = "proxy"
    /\ \E n \in Outgoing :
         /\ Inspects(request, Gathered(talk.client, up, n))
         /\ Parse(Gathered(talk.client, up, n), TCP)
         /\ up' = n
    /\ phase' = "parsing up"
    /\ UNCHANGED <<talk, held, down, request, response>>

ParsedUp ==
    /\ phase = "parsing up"
    /\ Returned
    /\ request' = Latch(request)
    /\ phase' = "proxy"
    /\ Forget
    /\ UNCHANGED <<talk, held, up, down, response>>

PassDown ==
    /\ phase = "proxy"
    /\ \E n \in Incoming :
         /\ ~Inspects(response, Gathered(talk.upstream, down, n))
         /\ down' = n
    /\ UNCHANGED <<parserVars, phase, talk, held, up, request, response>>

ParseDown ==
    /\ phase = "proxy"
    /\ \E n \in Incoming :
         /\ Inspects(response, Gathered(talk.upstream, down, n))
         /\ Parse(Gathered(talk.upstream, down, n), TCP)
         /\ down' = n
    /\ phase' = "parsing down"
    /\ UNCHANGED <<talk, held, up, request, response>>

ParsedDown ==
    /\ phase = "parsing down"
    /\ Returned
    /\ response' = Latch(response)
    /\ phase' = "proxy"
    /\ Forget
    /\ UNCHANGED <<talk, held, up, down, request>>

-----------------------------------------------------------------------------

InCall == phase \in {"preparsing", "parsing up", "parsing down"}

ParserStep ==
    /\ InCall
    /\ ParserNext
    /\ UNCHANGED <<phase, sessionVars>>

\* The session is logged and closed.
Close ==
    /\ phase = "proxy"
    /\ phase' = "closed"
    /\ UNCHANGED <<parserVars, sessionVars>>

Closed ==
    /\ phase = "closed"
    /\ UNCHANGED vars

\* A datagram is in c->buffer from the start.
Init ==
    /\ ParserInit
    /\ talk \in Talk
    /\ phase = "preread"
    /\ IF UDP THEN held \in Reads(talk.client, 0) ELSE held = 0
    /\ up = 0
    /\ down = 0
    /\ request = Nothing
    /\ response = Nothing

Next ==
    \/ Declines \/ PrereadParse \/ PrereadParsed \/ ShortDatagram \/ AwaitMore
    \/ CoreReads \/ GivesUp
    \/ PassUp \/ ParseUp \/ ParsedUp
    \/ PassDown \/ ParseDown \/ ParsedDown
    \/ ParserStep
    \/ Close \/ Closed

\* A call of the parser runs to its end before the worker does anything else.
Fairness ==
    WF_vars(ParserStep) /\ WF_vars(PrereadParsed) /\ WF_vars(ParsedUp) /\ WF_vars(ParsedDown)

Spec == Init /\ [][Next]_vars /\ Fairness

-----------------------------------------------------------------------------
(* Properties                                                              *)

\* Types of the parser (ngx_dns_parser.h:46-92) and of a session.
TypeOK ==
    /\ buf \in Seq(Byte)
    /\ at \in {"idle", "header", "name", "named", "noname", "section", "rdata", "ok", "error"}
    /\ offset \in Nat
    /\ sec \in Section
    /\ nm \in [goal : {"none", "qname", "owner", "target", "exchange", "mname", "rname"},
               start : Nat, max : Nat \ {0}, pos : Nat, jumps : Nat,
               out : Seq(Byte), consumed : Nat, counted : BOOLEAN]
    /\ rr \in Record
    /\ pkt \in Packet
    /\ reach \in Nat
    /\ phase \in {"preread", "preparsing", "waiting", "proxy", "parsing up", "parsing down",
                  "closed"}
    /\ held \in Nat /\ up \in Nat /\ down \in Nat
    /\ request \in [parsed : BOOLEAN, pkt : Packet]
    /\ response \in [parsed : BOOLEAN, pkt : Packet]

\* The parser reads no octet behind the packet and fills neither the buffer of a name nor
\* the table of a section beyond its end, whatever the octets are (ngx_dns_parser.c:62-346).
InBuffer ==
    /\ reach <= End
    /\ Len(nm.out) < nm.max
    /\ \A s \in Section :
         Len(pkt.records[s]) <= MaxRecords /\ Len(pkt.records[s]) <= pkt.count[s]

\* What was parsed stays: no later chain, in either direction, changes it.
ParsedOnce ==
    [][/\ request.parsed => request' = request
       /\ response.parsed => response' = response]_vars

\* Nothing is parsed unless the nearest level that has a dns_parse says on (README.md:178).
NearestLevelCounts ==
    request.parsed \/ response.parsed \/ InCall =>
      LET nearest == IF talk.server.dns_parse # <<>> THEN talk.server.dns_parse
                                                    ELSE talk.stream.dns_parse
      IN  nearest # <<>> /\ nearest[Len(nearest)] = "on"

\* ngx_stream_dns_module.c:80 "For UDP sockets, do not block or wait with NGX_AGAIN".
DatagramNeverHeld == UDP => phase # "waiting"

\* Every call of the parser ends, also for a name that points at itself.
CallEnds == InCall ~> ~InCall

=============================================================================
