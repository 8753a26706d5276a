------------------------------ MODULE MCRadius ------------------------------
(* Sessions with a header of 4 bytes and vendor ids of one: every datagram     *)
(* with up to Area bytes of attributes, and some sessions over TCP.            *)
EXTENDS RadiusSession, FiniteSets

CONSTANT Area

Bytes == {1, 2, 5, 7}

Packet(n, area) == <<1, 9, 0, n>> \o area

Areas == UNION {[1..n -> Bytes] : n \in 0..Area}

Reply(area) == Packet(HeaderLen + Len(area), area)

Session(tr, client, answer, ends) ==
    [transport |-> tr, client |-> client, answer |-> answer, ends |-> ends]

\* More attributes than fit the table, and a vendor that is 0.
Crowded == {<<1, 2, 2, 2, 1, 2, 2, 2>>, <<1, 2, 2, 2, 5, 5, 1, 2>>, <<1, 2, 2, 2, 1, 2, 2, 1>>,
            <<1, 2, 2, 2, 1, 2, 5, 1>>, <<1, 2, 5, 7, 1, 2, 2, 2>>,
            <<1, 2, 5, 5, 0, 0, 2>>}

\* Datagrams with right lengths and wrong ones, and two answers.
Datagrams ==
    {Session("udp", Packet(HeaderLen + Len(a), a), <<>>, {}) : a \in Areas \cup Crowded}
    \cup {Session("udp", Packet(n, <<1, 2, 2, 2>>), <<>>, {}) : n \in {3, 6, 7, 9, MaxPacket + 1}}
    \cup {Session("udp", <<1, 9>>, <<>>, {}), Session("udp", <<>>, <<>>, {})}
    \cup {Session("udp", Reply(<<>>), Reply(<<1, 2>>) \o Reply(<<7, 3, 3>>), {6, 13}),
          Session("udp", Reply(<<>>), Reply(<<1, 1>>) \o Reply(<<1, 2>>), {6, 12})}

\* A request in segments, with another behind it, too long for the buffer or for RADIUS.
Streams ==
    {Session("tcp", Reply(<<1, 2, 2, 3, 3>>), <<>>, {}),
     Session("tcp", Reply(<<1, 2>>) \o Reply(<<5, 2>>), <<>>, {}),
     Session("tcp", Packet(BufferSize + 1, <<1, 2>>), <<>>, {}),
     Session("tcp", Packet(MaxPacket + 1, <<1, 2>>), <<>>, {}),
     Session("tcp", Packet(BufferSize, [i \in 1..BufferSize - HeaderLen |-> 2]), <<>>, {}),
     Session("tcp", Reply(<<>>), Reply(<<1, 2, 2, 2>>) \o Reply(<<7, 3, 3>>), {8, 15})}

AllSessions == Datagrams \cup Streams

=============================================================================
