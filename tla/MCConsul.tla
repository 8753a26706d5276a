------------------------------ MODULE MCConsul ------------------------------
(* Files of two and three servers with every directive given, left out, empty, *)
(* repeated or wrong; and short files that are loaded one after another beside *)
(* two processes of the script and an agent that already knows services.       *)
EXTENDS ConsulAnswer

\* The location of the first server.
MCEndpoint == <<1, "list">>
MCLocation == {MCEndpoint, <<2, "list">>}

D(directive, args) == <<directive, args>>
T(text) == Chars(text)

On            == D("consul_service_discoverable", <<"on">>)
Off           == D("consul_service_discoverable", <<"off">>)
Named(text)   == D("consul_service_name", <<T(text)>>)
Id(text)      == D("consul_service_id", <<T(text)>>)
Tags(text)    == D("consul_service_tags", <<T(text)>>)
Address(text) == D("consul_service_address_override", <<T(text)>>)
Port(n)       == D("consul_service_port_override", <<n>>)
MetaOf(k, v)  == D("consul_service_meta", <<T(k), T(v)>>)
CheckAs(tokens) == D("consul_service_check", tokens)
Names(texts)  == D("server_name", [i \in 1..Len(texts) |-> T(texts[i])])
Socket(n, text) == D("listen", <<n, T(text)>>)
Endpoint_     == D("consul_service_discovery", <<"list", "on">>)
EndpointOff   == D("consul_service_discovery", <<"list", "off">>)

Token(key, text) == <<key, T(text)>>
Tcp     == CheckAs(<<Token("name", "t"), Token("tcp", "h:1"), Token("interval", "10s"), Token("timeout", "")>>)
Twofold == CheckAs(<<Token("http", "u\"\f"), Token("grpc", ""), Token("other", "x"), Token("timeout", "1s")>>)
Typeless == CheckAs(<<Token("name", "t")>>)
Bare    == CheckAs(<<Token("tcp", "h"), <<T("tcp")>>>>)

\* The server with the endpoint; other servers share its sockets.
First_ == <<Socket(8080, "0.0.0.0"), Socket(90, "1.1.1.1"), Endpoint_>>

Opt(line) == {<<>>, <<line>>}

Servers ==
    {<<on>> \o name \o id \o tags \o names :
        on \in {On, Off}, name \in Opt(Named("a")) \cup Opt(Named("")), id \in Opt(Id("i.1")) \cup Opt(Id("")),
        tags \in {<<>>, <<Tags("")>>, <<Tags(" ,x, y z ,")>>, <<Tags("v")>>},
        names \in {<<>>, <<Names(<<"n", "m">>)>>}}

Sockets ==
    {<<On>> \o one \o two \o port \o address :
        one \in Opt(Socket(90, "2.2.2.2")) \cup Opt(Socket(0, "unix:/s")), two \in Opt(Socket(8080, "0.0.0.0")),
        port \in Opt(Port(0)) \cup Opt(Port(65536)), address \in Opt(Address("h")) \cup Opt(Address(""))}

Lists ==
    {<<On, Named("q\"\t\f\\")>> \o m \o n \o c \o d :
        m \in Opt(MetaOf("k", "v")), n \in Opt(MetaOf("k", "\n")), c \in Opt(Tcp), d \in Opt(Twofold)}

Faults ==
    {<<On, On>>, <<D("consul_service_discoverable", <<"maybe">>)>>, <<Named("a"), Named("b")>>,
     <<Port(1), Port(2)>>, <<Tcp, Typeless>>, <<Bare>>, <<Socket(90, "h"), Socket(90, "h")>>,
     <<D("consul_service_discovery", <<"list", "perhaps">>)>>, <<EndpointOff, MetaOf("a", "b")>>}

Alone(files)  == [files |-> files, sidecars |-> {}, asked |-> TRUE, registered |-> <<>>]

Readable == {<<First_, s>> : s \in Servers \cup Sockets \cup Lists \cup {<<>>}}
         \cup {<<First_, <<On, Named("a")>>, s>> : s \in {<<On, Named("a")>>, <<On, Socket(90, "1.1.1.1")>>}}
         \cup {<<First_ \o <<EndpointOff>>>>, <<>>}

Refused == {<<First_, f>> : f \in Faults}

\* Small files for the processes of the script.
Listing(names) == <<<<Endpoint_>>>> \o [i \in 1..Len(names) |-> <<On, Id(names[i])>>]
Known(names) ==
    LET ids == {T(names[i]) : i \in 1..Len(names)}
    IN  [id \in ids |-> [id |-> id, name |-> <<>>, address |-> <<>>, port |-> 1, tags |-> <<>>,
                         meta |-> <<>>, checks |-> <<>>]]

Beside(files, names) == [files |-> files, sidecars |-> Sidecar, asked |-> FALSE, registered |-> Known(names)]

Plans ==
    {Alone(<<f>>) : f \in Readable}
    \cup {Alone(<<<<First_, <<On>>>>, f, <<First_, <<On, Named("b")>>>>>>) : f \in Refused}
    \cup {Beside(<<Listing(<<"a", "b">>), Listing(<<"b", "c">>)>>, <<"z">>),
          Beside(<<Listing(<<"ax">>), Listing(<<>>)>>, <<"a.", "ax">>),
          Beside(<<Listing(<<"abc">>)>>, <<"ab">>),
          Beside(<<Listing(<<"a", "a">>), <<<<On, On>>>>>>, <<"a">>)}

=============================================================================
