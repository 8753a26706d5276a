--------------------------- MODULE MCRadiusConfig ---------------------------
(* The sessions of MCRadius without a dictionary, and three sessions with      *)
(* vendor-specific attributes under every dictionary file of up to FileLen     *)
(* lines, and under pairs of shorter files with other variables around them.   *)
EXTENDS MCRadius, RadiusConfig

CONSTANT FileLen

Types == <<<<"string">>, <<"Integer">>, <<"ipaddr">>, <<"date">>, <<"tlv">>, <<"ether">>>>

Builtins == <<[code |-> 1, type |-> "string", name |-> <<"User">>],
              [code |-> 2, type |-> "octets", name |-> <<"Pass">>]>>

Capitals == [Acme |-> "acme", Name |-> "name", Integer |-> "integer"]

Numbers == <<"0">> :> 0 @@ <<"1">> :> 1 @@ <<"2">> :> 2 @@ <<"7">> :> 7
           @@ <<"257">> :> 257 @@ <<"258">> :> 258

Written(key, args) == [key |-> key, args |-> args]

VendorLine(name, id)     == Written("VENDOR", <<<<name>>, <<id>>>>)
Begin(token)          == Written("BEGIN-VENDOR", <<token>>)
EndBlock              == Written("END-VENDOR", <<>>)
AttributeLine(name, code, type) == Written("ATTRIBUTE", <<name, <<code>>, <<type>>>>)
Own(name, code, type, id) == Written("ATTRIBUTE", <<name, <<code>>, <<type>>, <<id>>>>)

Few == {VendorLine("Acme", "7"), Begin(<<"acme">>), EndBlock,
        AttributeLine(<<"Name">>, "1", "string"), Own(<<"name">>, "2", "Integer", "7"),
        Own(<<"X">>, "1", "date", "2")}

Lines == Few \cup
    {VendorLine("Bolt", "7"), VendorLine("acme", "2"), VendorLine("Acme", "258"),
     Begin(<<"7">>), Begin(<<"Acme", "-", "Name">>), Begin(<<"0">>),
     AttributeLine(<<"Name">>, "2", "tlv"), AttributeLine(<<"X", "-", "Name">>, "257", "ether"),
     Own(<<"Name">>, "1", "ipaddr", "0"), Own(<<"Name">>, "1", "ipaddr", "acme"),
     Written("ATTRIBUTE", <<<<"Name">>, <<"1">>>>), Written("VALUE", <<<<"Name">>>>)}

Files(S, n) == UNION {[1..k -> S] : k \in 0..n}

Dict(f)  == [kind |-> "radius_dict", file |-> f]
DefineLine(v)  == [kind |-> "define", name |-> <<"radius_vsa_">> \o v]
Taken    == {<<"acme", "_", "name">>, <<"_", "x">>}

Pairs == {<<Dict(f), Dict(g)>> : f \in Files(Few, 2), g \in Files(Few, 2)}

Mixed == UNION {{<<DefineLine(v), Dict(f)>>, <<Dict(f), DefineLine(v)>>, <<Dict(f), Dict(Null)>>,
                 <<DefineLine(v), DefineLine(v), Dict(f)>>, <<DefineLine(v), Dict(f), Dict(f), DefineLine(v)>>} :
                   v \in Taken, f \in Files(Few, 3)}

Vsa(area) == Session("udp", Reply(area), <<>>, {})

\* Sub-attributes of types 1 and 2, and an attribute that does not fit the packet.
Seven == Vsa(<<5, 7, 7, 1, 2, 2, 2>>)
Other == {Vsa(<<5, 5, 2, 1, 2>>), Vsa(<<5, 7, 7, 1, 2, 1, 2>>), Vsa(<<5, 7, 7, 1>>)}

Sessions == AllSessions \cup {Seven} \cup Other

Cases ==
    {<<<<>>, s>> : s \in AllSessions}
    \cup ({<<Dict(f)>> : f \in Files(Lines, FileLen)} \cup Pairs \cup Mixed)
         \X {Seven}
    \cup Pairs \X Other

=============================================================================
