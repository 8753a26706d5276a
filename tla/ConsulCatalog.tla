--------------------------- MODULE ConsulCatalog ---------------------------
(***************************************************************************)
(* ngx_http_consul_service_discovery_module: a configuration file is read  *)
(* directive by directive, the catalogue is built from it server by server *)
(* and handed to new workers; the workers of the configuration before go   *)
(* on answering with theirs until they exit.  A file that cannot be read   *)
(* changes nothing.                                                        *)
(*                                                                         *)
(* The core is external: it dispatches the directives, adds the sockets of *)
(* listen to the list of ports, gives every server a name and a socket,    *)
(* and starts and stops workers.                                           *)
(***************************************************************************)
EXTENDS ConsulJson, FiniteSets

CONSTANTS
    Plan,     \* the files that are loaded one after another, and who asks
    Location, \* the locations of a server
    Method,   \* the methods of requests
    MaxFaults,\* how often memory is short or a call fails in a behaviour
    Unset     \* NGX_CONF_UNSET, and a null pointer

VARIABLES
    plan,     \* what is still to be loaded
    stage,    \* what the master process does: idle, reading, building
    file,     \* the file that is loaded, a sequence of servers, each one of directives,
              \* each one its name and its arguments
    at,       \* the server and the directive that are read, or the server that is built
    servers,  \* the configuration of every server read so far
    ports,    \* cmcf->ports
    handlers, \* the locations in which the handler is installed, and those enabled
    services, \* mcf->services of the configuration that is loaded
    live,     \* the configurations that have workers, the newest last
    faults,
    reply     \* the last answer to another client than the sidecars

draftVars   == <<file, at, servers, ports, handlers, services>>
catalogVars == <<plan, stage, draftVars, live, faults, reply>>

-----------------------------------------------------------------------------
(* Configuration                                                           *)

\* What a text slot may be called in a file.
TextSlot == [consul_service_name |-> "name", consul_service_id |-> "id",
             consul_service_tags |-> "tags", consul_service_address_override |-> "address"]

Text == Seq(STRING)

IsSequence(s) == Len(s) \in Nat /\ s = [i \in 1..Len(s) |-> s[i]]

\* What the command tables of the module and of the core let through.
Takes(directive, args) ==
    /\ IsSequence(args) /\ args # <<>>
    /\ directive \in DOMAIN TextSlot => args[1] \in Text
    /\ directive = "consul_service_port_override" => args[1] \in Nat
    /\ directive = "consul_service_meta" => args \in Text \X Text
    /\ directive = "consul_service_check" =>
         \A i \in DOMAIN args :
            IsSequence(args[i]) /\ (Len(args[i]) = 2 => args[i] \in STRING \X Text)
    /\ directive = "server_name" => args \in Seq(Text)
    /\ directive = "listen" => args \in Nat \X Text

IsFile(f) ==
    /\ IsSequence(f)
    /\ \A b \in DOMAIN f :
         IsSequence(f[b]) /\ \A i \in DOMAIN f[b] : Takes(f[b][i][1], f[b][i][2])

ASSUME FaultsAssumption == MaxFaults \in Nat
ASSUME UnsetAssumption == Unset \notin Nat \cup Text \cup {"on", "off"}
ASSUME PlanAssumption ==
    \A p \in Plan :
        /\ DOMAIN p = {"files", "sidecars", "asked", "registered"}
        /\ IsSequence(p.files)
        /\ \A n \in DOMAIN p.files : IsFile(p.files[n])

\* The texts that are written in the code.
ASSUME LiteralAssumption ==
    {Chars("nginx"), Chars("0.0.0.0"), Chars("unknown"), Chars("tcp"), Chars("http"), Chars("grpc"),
     Chars("ttl"), <<"-">>} \subseteq Text

\* pcalloc and NGX_CONF_UNSET; no array is an empty one.
FreshServer ==
    [discoverable |-> Unset, name |-> Unset, id |-> Unset, tags |-> Unset, address |-> Unset,
     port |-> Unset, meta |-> <<>>, checks |-> <<>>, names |-> <<>>]

\* Mutant of Merged: the switch has no default.
MergedPartly(s) ==
    LET or(value, default) == IF value = Unset THEN default ELSE value
    IN  [s EXCEPT !.name = or(@, <<>>), !.id = or(@, <<>>),
                  !.tags = or(@, Chars("nginx")), !.address = or(@, <<>>)]

\* The directives are not allowed outside a server, so nothing is inherited.
Merged(s) ==
    LET or(value, default) == IF value = Unset THEN default ELSE value
    IN  [s EXCEPT !.discoverable = or(@, "off"), !.name = or(@, <<>>), !.id = or(@, <<>>),
                  !.tags = or(@, Chars("nginx")), !.address = or(@, <<>>)]

NoHandler == [installed |-> {}, enabled |-> {}]

Blank ==
    /\ file' = <<>> /\ at' = <<0, 0>> /\ servers' = <<>> /\ ports' = <<>>
    /\ handlers' = NoHandler /\ services' = <<>>

Load ==
    /\ stage = "idle"
    /\ plan.files # <<>>
    /\ stage' = "reading"
    /\ file' = Head(plan.files)
    /\ plan' = [plan EXCEPT !.files = Tail(@)]
    /\ at' = <<1, 0>>
    /\ UNCHANGED <<servers, ports, handlers, services, live, faults, reply>>

ServerBegins ==
    /\ stage = "reading"
    /\ at[1] <= Len(file) /\ at[2] = 0
    /\ servers' = Append(servers, FreshServer)
    /\ at' = <<at[1], 1>>
    /\ UNCHANGED <<plan, stage, file, ports, handlers, services, live, faults, reply>>

InServer  == stage = "reading" /\ at[1] <= Len(file) /\ at[2] > 0
Reads(directive) ==
    InServer /\ at[2] <= Len(file[at[1]]) /\ file[at[1]][at[2]][1] = directive
Args      == file[at[1]][at[2]][2]
Current   == servers[at[1]]
NextLine  == at' = <<at[1], at[2] + 1>>
Same      == UNCHANGED <<plan, stage, file, services, live, faults, reply>>

Set(server) ==
    /\ servers' = [servers EXCEPT ![at[1]] = server]
    /\ NextLine
    /\ UNCHANGED <<ports, handlers>>
    /\ Same

Discoverable ==
    /\ Reads("consul_service_discoverable")
    /\ Current.discoverable = Unset
    /\ Args[1] \in {"on", "off"}
    /\ Set([Current EXCEPT !.discoverable = Args[1]])

TextDirective(directive) ==
    /\ Reads(directive)
    /\ Current[TextSlot[directive]] = Unset
    /\ Set([Current EXCEPT ![TextSlot[directive]] = Args[1]])

PortOverride ==
    /\ Reads("consul_service_port_override")
    /\ Current.port = Unset
    /\ Set([Current EXCEPT !.port = Args[1]])

MetaDirective ==
    /\ Reads("consul_service_meta")
    /\ Set([Current EXCEPT !.meta = Append(@, Args)])

\* A token is a key and a value, or one text without an equals sign.
NoCheck == [name |-> <<>>, type |-> <<>>, target |-> <<>>, interval |-> <<>>, timeout |-> <<>>]

\* A token sets what it names; of several the last one counts.
CheckOf(tokens) ==
    LET read[n \in 0..Len(tokens)] ==
            IF n = 0 THEN NoCheck
            ELSE LET key == tokens[n][1] value == tokens[n][2]
                 IN  CASE key \in {"name", "interval", "timeout"} -> [read[n - 1] EXCEPT ![key] = value]
                       [] key \in {"tcp", "http", "grpc", "ttl"} ->
                            [read[n - 1] EXCEPT !.type = Chars(key), !.target = value]
                       [] OTHER -> read[n - 1]
    IN  read[Len(tokens)]

IsCheck(tokens) ==
    (\A i \in 1..Len(tokens) : Len(tokens[i]) = 2) /\ CheckOf(tokens).type # <<>>

CheckDirective ==
    /\ Reads("consul_service_check")
    /\ IsCheck(Args)
    /\ Set([Current EXCEPT !.checks = Append(@, CheckOf(Args))])

\* The handler stays installed if the directive is given again and says off.
Discovery ==
    /\ Reads("consul_service_discovery")
    /\ Args[2] \in {"on", "off"}
    /\ handlers' = IF Args[2] = "on"
                   THEN [installed |-> handlers.installed \cup {<<at[1], Args[1]>>},
                         enabled |-> handlers.enabled \cup {<<at[1], Args[1]>>}]
                   ELSE [handlers EXCEPT !.enabled = @ \ {<<at[1], Args[1]>>}]
    /\ NextLine
    /\ UNCHANGED <<servers, ports>>
    /\ Same

ServerName ==
    /\ Reads("server_name")
    /\ Set([Current EXCEPT !.names = @ \o Args])

\* ngx_http_add_listen: one entry per port, in it one per address, in it the servers.
WithServer(addrs, address, server) ==
    LET a == SelectInSeq(addrs, LAMBDA e : e.address = address)
        before == IF a = 0 THEN <<>> ELSE addrs[a].servers
        entry  == [address |-> address, servers |-> Append(before, server)]
    IN  IF a = 0 THEN Append(addrs, entry) ELSE [addrs EXCEPT ![a] = entry]

WithListen(ps, port, address, server) ==
    LET p == SelectInSeq(ps, LAMBDA e : e.port = port)
        before == IF p = 0 THEN <<>> ELSE ps[p].addrs
        entry  == [port |-> port, addrs |-> WithServer(before, address, server)]
    IN  IF p = 0 THEN Append(ps, entry) ELSE [ps EXCEPT ![p] = entry]

Listens(ps, server) ==
    UNION {{<<e.port, a.address>> : a \in {a \in Range(e.addrs) : server \in Range(a.servers)}}
           : e \in Range(ps)}

Listen ==
    /\ Reads("listen")
    /\ Args \notin Listens(ports, at[1])
    /\ ports' = WithListen(ports, Args[1], Args[2], at[1])
    /\ NextLine
    /\ UNCHANGED <<servers, handlers>>
    /\ Same

\* A server without listen gets port 80 of every address, one without a name an empty one.
ServerEnds ==
    /\ InServer
    /\ at[2] > Len(file[at[1]])
    /\ ports' = IF Listens(ports, at[1]) = {}
                THEN WithListen(ports, 80, Chars("0.0.0.0"), at[1]) ELSE ports
    /\ servers' = [servers EXCEPT ![at[1]].names = IF @ = <<>> THEN <<<<>>>> ELSE @]
    /\ at' = <<at[1] + 1, 0>>
    /\ UNCHANGED handlers
    /\ Same

\* The core refuses what is given twice or has no such value.
Faulty ==
    /\ InServer
    /\ at[2] <= Len(file[at[1]])
    /\ \/ Reads("consul_service_discoverable") /\ (Current.discoverable # Unset \/ Args[1] \notin {"on", "off"})
       \/ \E d \in DOMAIN TextSlot : Reads(d) /\ Current[TextSlot[d]] # Unset
       \/ Reads("consul_service_port_override") /\ Current.port # Unset
       \/ Reads("consul_service_check") /\ ~IsCheck(Args)
       \/ Reads("consul_service_discovery") /\ Args[2] \notin {"on", "off"}
       \/ Reads("listen") /\ Args \in Listens(ports, at[1])

\* The configuration is given up and its pool destroyed.
GiveUp ==
    /\ stage' = "idle"
    /\ Blank
    /\ UNCHANGED <<plan, live, reply>>

Refuse ==
    /\ Faulty
    /\ GiveUp
    /\ UNCHANGED faults

-----------------------------------------------------------------------------
(* The catalogue                                                           *)

\* Without the spaces at its ends.
Filled(s) == {k \in 1..Len(s) : s[k] # " "}
Trim(s)   == IF Filled(s) = {} THEN <<>> ELSE SubSeq(s, Min(Filled(s)), Max(Filled(s)))

\* A tag that starts at i ends at the next comma, or with the text.
TagEnd(csv, i) == Min({k \in i..Len(csv) : csv[k] = ","} \cup {Len(csv) + 1})

\* Mutant of SplitTags: only a comma ends a tag.
SplitTagsShort(csv) ==
    LET split[i \in 1..Len(csv) + 1] ==
            IF TagEnd(csv, i) > Len(csv) THEN <<>>
            ELSE LET tag == Trim(SubSeq(csv, i, TagEnd(csv, i) - 1))
                 IN  (IF tag = <<>> THEN <<>> ELSE <<tag>>) \o split[TagEnd(csv, i) + 1]
    IN  split[1]

\* Nothing but spaces is no tag.
SplitTags(csv) ==
    LET split[i \in 1..Len(csv) + 1] ==
            LET tag == Trim(SubSeq(csv, i, TagEnd(csv, i) - 1))
            IN  (IF tag = <<>> THEN <<>> ELSE <<tag>>)
                \o (IF TagEnd(csv, i) > Len(csv) THEN <<>> ELSE split[TagEnd(csv, i) + 1])
    IN  split[1]

\* The places of a server among the ports, in the order of the walk.
Places(server) ==
    UNION {{<<p, a>> : a \in {a \in DOMAIN ports[p].addrs : server \in Range(ports[p].addrs[a].servers)}}
           : p \in DOMAIN ports}

First(places) ==
    CHOOSE p \in places : \A q \in places : p[1] < q[1] \/ (p[1] = q[1] /\ p[2] <= q[2])

FindPort(server) ==
    IF Places(server) = {} THEN 0 ELSE ports[First(Places(server))[1]].port

\* Mutant of FindAddr: the address is the first one of the first port.
FindAddrAny(server) == ports[1].addrs[1].address

FindAddr(server) ==
    IF Places(server) = {} THEN Chars("0.0.0.0")
    ELSE LET p == First(Places(server)) IN ports[p[1]].addrs[p[2]].address

NameOf(s) ==
    IF s.name # <<>> THEN s.name
    ELSE IF s.names # <<>> THEN s.names[1] ELSE Chars("unknown")

IdOf(s, tags) ==
    IF s.id # <<>> THEN s.id
    ELSE IF tags # <<>> THEN NameOf(s) \o <<"-">> \o tags[1] ELSE NameOf(s)

ServiceOf(server) ==
    LET s    == servers[server]
        tags == SplitTags(s.tags)
    IN  [id |-> IdOf(s, tags), name |-> NameOf(s),
         address |-> IF s.address # <<>> THEN s.address ELSE FindAddr(server),
         port |-> IF s.port # Unset THEN s.port ELSE FindPort(server),
         tags |-> tags, meta |-> s.meta, checks |-> s.checks]

\* Every server is read: the levels are merged and postconfiguration starts.
Merge ==
    /\ stage = "reading"
    /\ at[1] > Len(file)
    /\ stage' = "building"
    /\ at' = <<1, 0>>
    /\ servers' = [i \in 1..Len(servers) |-> Merged(servers[i])]
    /\ UNCHANGED <<plan, file, ports, handlers, services, live, faults, reply>>

\* Mutant of Publish: a server that does not say so is listed too.
PublishAll ==
    /\ stage = "building"
    /\ at[1] <= Len(servers)
    /\ services' = Append(services, ServiceOf(at[1]))
    /\ at' = <<at[1] + 1, 0>>
    /\ UNCHANGED <<plan, stage, file, servers, ports, handlers, live, faults, reply>>

Publish ==
    /\ stage = "building"
    /\ at[1] <= Len(servers)
    /\ services' = IF servers[at[1]].discoverable = "on" THEN Append(services, ServiceOf(at[1]))
                   ELSE services
    /\ at' = <<at[1] + 1, 0>>
    /\ UNCHANGED <<plan, stage, file, servers, ports, handlers, live, faults, reply>>

\* An array or the text of an identifier cannot be allocated.
NoMemory ==
    /\ faults < MaxFaults
    /\ \/ Reads("consul_service_meta") \/ Reads("consul_service_check")
       \/ stage = "building"
    /\ faults' = faults + 1
    /\ GiveUp

\* New workers start; the ones before are told to exit when they are done.
Start ==
    /\ stage = "building"
    /\ at[1] > Len(servers)
    /\ live' = Append(live, [file |-> file, services |-> services, handlers |-> handlers])
    /\ stage' = "idle"
    /\ Blank
    /\ UNCHANGED <<plan, faults, reply>>

OldWorkersExit ==
    /\ Len(live) > 1
    /\ live' = Tail(live)
    /\ UNCHANGED <<plan, stage, draftVars, faults, reply>>

-----------------------------------------------------------------------------
(* ngx_http_consul_handler                                                 *)

Body(cycle) == IF cycle.services = <<>> THEN Empty ELSE JsonFill(cycle.services)

Answer(cycle, method) ==
    IF method \notin {"GET", "HEAD"} THEN [status |-> 405, length |-> 0, body |-> <<>>]
    ELSE [status |-> 200, length |-> Len(Body(cycle)),
          body |-> IF method = "HEAD" THEN <<>> ELSE Body(cycle)]

Asked(cycle, location) == location \in cycle.handlers.installed

\* Any worker may get the request.
Request ==
    /\ plan.asked
    /\ \E i \in 1..Len(live), l \in Location, m \in Method :
         /\ Asked(live[i], l)
         /\ reply' = [from |-> live[i], answer |-> Answer(live[i], m)]
    /\ UNCHANGED <<plan, stage, draftVars, live, faults>>

\* The body cannot be discarded or the buffer not be allocated.
RequestFails ==
    /\ plan.asked
    /\ faults < MaxFaults
    /\ faults' = faults + 1
    /\ \E i \in 1..Len(live), l \in Location :
         /\ Asked(live[i], l)
         /\ reply' = [from |-> live[i], answer |-> [status |-> 500, length |-> 0, body |-> <<>>]]
    /\ UNCHANGED <<plan, stage, draftVars, live>>

-----------------------------------------------------------------------------

LoadStep ==
    \/ Load \/ ServerBegins \/ Discoverable \/ PortOverride \/ MetaDirective \/ CheckDirective
    \/ \E d \in DOMAIN TextSlot : TextDirective(d)
    \/ Discovery \/ ServerName \/ Listen \/ ServerEnds \/ Refuse
    \/ Merge \/ Publish \/ Start

CatalogNext == LoadStep \/ NoMemory \/ OldWorkersExit \/ Request \/ RequestFails

CatalogInit ==
    /\ plan \in Plan
    /\ stage = "idle"
    /\ file = <<>> /\ at = <<0, 0>> /\ servers = <<>> /\ ports = <<>>
    /\ handlers = NoHandler /\ services = <<>>
    /\ live = <<>>
    /\ faults = 0
    /\ reply = Unset

=============================================================================
