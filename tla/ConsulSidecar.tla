--------------------------- MODULE ConsulSidecar ---------------------------
(***************************************************************************)
(* examples/register-services.sh beside the module: processes, started     *)
(* again and again, fetch the catalogue from any worker, deregister what   *)
(* the agent knows and the catalogue does not list, and register what it   *)
(* lists, one call after another.  The agent, curl, jq and grep are        *)
(* external.                                                               *)
(***************************************************************************)
EXTENDS ConsulCatalog, FiniteSetsExt

CONSTANTS
    Sidecar,  \* the processes that may run at a time
    Endpoint  \* the location that DISCOVERY_URL names

VARIABLES
    registry, \* what the agent knows: a service for each identifier
    run       \* of each process: its step, the catalogue it has, what it still has to do

vars == <<catalogVars, registry, run>>

\* What can be registered, and what the agent knows at first.
IsService(sv) ==
    /\ sv.port \in Nat
    /\ {sv.id, sv.name, sv.address} \cup Range(sv.tags) \subseteq Text

ASSUME RegisteredAssumption ==
    \A p \in Plan : \A id \in DOMAIN p.registered :
        p.registered[id].id = id /\ IsService(p.registered[id])

Idle == [step |-> "idle", listed |-> <<>>, stale |-> {}, next |-> 0]

Ids(list) == {sv.id : sv \in Range(list)}

\* Mutant of Matches: grep finds the pattern anywhere.
MatchesPart(pattern, id) ==
    \E i \in 0..Len(id) :
        /\ i + Len(pattern) <= Len(id)
        /\ \A k \in 1..Len(pattern) : pattern[k] \in {id[i + k], "."}

\* grep -x, for identifiers of letters, digits, hyphens and dots: a dot matches anything.
Matches(pattern, id) ==
    /\ Len(pattern) = Len(id)
    /\ \A k \in 1..Len(pattern) : pattern[k] \in {id[k], "."}

\* Mutant of Stale: the identifiers are looked for among the names.
StaleByName(listed) == {id \in DOMAIN registry : ~\E sv \in Range(listed) : Matches(id, sv.name)}

Stale(listed) == {id \in DOMAIN registry : ~\E sv \in Range(listed) : Matches(id, sv.id)}

Starts(s) == s \in plan.sidecars /\ run[s].step = "idle"

Fetch(s) ==
    /\ Starts(s)
    /\ \E i \in 1..Len(live) :
         /\ Asked(live[i], Endpoint)
         /\ run' = [run EXCEPT ![s] = [Idle EXCEPT !.step = "fetched", !.listed = live[i].services]]
    /\ UNCHANGED <<catalogVars, registry>>

\* A process that cannot reach the endpoint exits.
FetchFails(s) ==
    /\ Starts(s)
    /\ \A i \in 1..Len(live) : ~Asked(live[i], Endpoint)
    /\ UNCHANGED vars

ListRegistered(s) ==
    /\ run[s].step = "fetched"
    /\ run' = [run EXCEPT ![s].step = "sweeping", ![s].stale = Stale(run[s].listed)]
    /\ UNCHANGED <<catalogVars, registry>>

\* The list of the agent is not to be had: nothing is deregistered this time.
ListFails(s) ==
    /\ run[s].step = "fetched"
    /\ faults < MaxFaults
    /\ faults' = faults + 1
    /\ run' = [run EXCEPT ![s].step = "sweeping"]
    /\ UNCHANGED <<plan, stage, draftVars, live, reply, registry>>

Deregister(s) ==
    /\ run[s].step = "sweeping"
    /\ \E id \in run[s].stale :
         /\ run' = [run EXCEPT ![s].stale = @ \ {id}]
         /\ registry' = [i \in DOMAIN registry \ {id} |-> registry[i]]
    /\ UNCHANGED catalogVars

Swept(s) ==
    /\ run[s].step = "sweeping"
    /\ run[s].stale = {}
    /\ run' = [run EXCEPT ![s].step = "registering", ![s].next = 1]
    /\ UNCHANGED <<catalogVars, registry>>

More(s) == run[s].step = "registering" /\ run[s].next <= Len(run[s].listed)

Register(s) ==
    /\ More(s)
    /\ LET sv == run[s].listed[run[s].next]
       IN  registry' = [i \in DOMAIN registry \cup {sv.id} |->
                          IF i = sv.id THEN sv ELSE registry[i]]
    /\ run' = [run EXCEPT ![s].next = @ + 1]
    /\ UNCHANGED catalogVars

\* The agent refuses a call; the process goes on.
CallFails(s) ==
    /\ faults < MaxFaults
    /\ faults' = faults + 1
    /\ \/ /\ run[s].step = "sweeping"
          /\ \E id \in run[s].stale : run' = [run EXCEPT ![s].stale = @ \ {id}]
       \/ /\ More(s)
          /\ run' = [run EXCEPT ![s].next = @ + 1]
    /\ UNCHANGED <<plan, stage, draftVars, live, reply, registry>>

RunEnds(s) ==
    /\ run[s].step = "registering"
    /\ ~More(s)
    /\ run' = [run EXCEPT ![s] = Idle]
    /\ UNCHANGED <<catalogVars, registry>>

Killed(s) ==
    /\ run[s].step # "idle"
    /\ faults < MaxFaults
    /\ faults' = faults + 1
    /\ run' = [run EXCEPT ![s] = Idle]
    /\ UNCHANGED <<plan, stage, draftVars, live, reply, registry>>

RunStep(s) ==
    Fetch(s) \/ ListRegistered(s) \/ Deregister(s) \/ Swept(s) \/ Register(s) \/ RunEnds(s)

\* Nothing is left to load and nobody asks.
AllQuiet ==
    /\ plan.files = <<>> /\ stage = "idle" /\ Len(live) <= 1
    /\ plan.sidecars = {}
    /\ UNCHANGED vars

Init ==
    /\ CatalogInit
    /\ registry = plan.registered
    /\ run = [s \in Sidecar |-> Idle]

Next ==
    \/ CatalogNext /\ UNCHANGED <<registry, run>>
    \/ \E s \in Sidecar : RunStep(s) \/ FetchFails(s) \/ ListFails(s) \/ CallFails(s) \/ Killed(s)
    \/ AllQuiet

\* A load runs to its end, old workers exit, and the script is started again and again.
Fairness ==
    /\ WF_vars(LoadStep /\ UNCHANGED <<registry, run>>)
    /\ WF_vars(OldWorkersExit /\ UNCHANGED <<registry, run>>)
    /\ \A s \in Sidecar : WF_vars(RunStep(s))

Spec == Init /\ [][Next]_vars /\ Fairness

-----------------------------------------------------------------------------
(* What a file says                                                        *)

\* The lines of a directive, and the arguments it is given.
Which(block, directive) == {i \in DOMAIN block : block[i][1] = directive}

Said(block, directive) == {block[i][2] : i \in Which(block, directive)}

\* A directive that is allowed once; an empty text counts as none.
SaidOr(block, directive, default) ==
    LET texts == {args[1] : args \in Said(block, directive)} \ {<<>>}
    IN  IF texts = {} THEN default ELSE CHOOSE text \in texts : TRUE

\* A list of what there is at certain places, in their order.
Rank(S, i) == Cardinality({j \in S : j <= i})

Follows(list, given) ==
    /\ Len(list) = Cardinality(DOMAIN given)
    /\ \A i \in DOMAIN given : list[Rank(DOMAIN given, i)] = given[i]

SaidName(block) ==
    SaidOr(block, "consul_service_name",
           LET lines == Which(block, "server_name")
           IN  IF lines = {} THEN <<>> ELSE block[Min(lines)][2][1])

SaidCsv(block) ==
    LET given == Said(block, "consul_service_tags")
    IN  IF given = {} THEN Chars("nginx") ELSE (CHOOSE args \in given : TRUE)[1]

\* What there is but spaces between the comma at i, or the start, and the next one.
Between(csv, i) ==
    {k \in i + 1..Len(csv) : csv[k] # " " /\ \A c \in i + 1..k : csv[c] # ","}

TagStarts(csv) ==
    {i \in 0..Len(csv) : (i = 0 \/ csv[i] = ",") /\ Between(csv, i) # {}}

TagAt(csv, i) == SubSeq(csv, Min(Between(csv, i)), Max(Between(csv, i)))

SaidId(block) ==
    SaidOr(block, "consul_service_id",
           LET csv == SaidCsv(block)
           IN  SaidName(block) \o IF TagStarts(csv) = {} THEN <<>>
                                  ELSE <<"-">> \o TagAt(csv, Min(TagStarts(csv))))

\* The value of the last token with one of the keys.
SaidToken(tokens, keys, value(_)) ==
    LET of == {i \in 1..Len(tokens) : tokens[i][1] \in keys}
    IN  IF of = {} THEN <<>> ELSE value(tokens[Max(of)])

SaidCheck(tokens) ==
    LET second(t) == t[2]
        first(t)  == Chars(t[1])
        types     == {"tcp", "http", "grpc", "ttl"}
    IN  [name |-> SaidToken(tokens, {"name"}, second), type |-> SaidToken(tokens, types, first),
         target |-> SaidToken(tokens, types, second),
         interval |-> SaidToken(tokens, {"interval"}, second),
         timeout |-> SaidToken(tokens, {"timeout"}, second)]

\* The servers of a file that are discoverable, and the service of one of them.
Discovered(of) == {b \in DOMAIN of : \E args \in Said(of[b], "consul_service_discoverable") : args[1] = "on"}

ServiceFor(cycle, b) == cycle.services[Rank(Discovered(cycle.file), b)]

Newest == live[Len(live)].services

-----------------------------------------------------------------------------
(* Properties                                                              *)

\* Types of the configuration (ngx_http_consul_service_discovery_module.c:24-65); when the
\* catalogue is built nothing but a port is unset.
TypeOK ==
    /\ stage \in {"idle", "reading", "building"}
    /\ at \in Nat \X Nat
    /\ stage = "building" =>
         \A i \in DOMAIN servers : LET s == servers[i] IN
             s.discoverable \in {"on", "off"} /\ Unset \notin {s.name, s.id, s.tags, s.address}
    /\ \A i \in DOMAIN live : \A sv \in Range(live[i].services) : IsService(sv)
    /\ faults \in 0..MaxFaults
    /\ \A id \in DOMAIN registry : registry[id].id = id /\ IsService(registry[id])
    /\ \A s \in Sidecar :
         /\ run[s].step \in {"idle", "fetched", "sweeping", "registering"}
         /\ \A sv \in Range(run[s].listed) : IsService(sv)
         /\ run[s].next \in 0..Len(run[s].listed) + 1

\* What a worker serves is what its file says, one service for each server that is
\* discoverable, in their order, also after files that were refused half-way
\* (README.md:235-333, ngx_http_consul_service_discovery_module.c:860-949).
CatalogueRight ==
    \A i \in DOMAIN live :
        LET file_ == live[i].file
        IN  /\ Len(live[i].services) = Cardinality(Discovered(file_))
            /\ \A b \in Discovered(file_) :
                 LET block == file_[b]
                     sv    == ServiceFor(live[i], b)
                 IN  /\ sv.name = SaidName(block)
                     /\ sv.id = SaidId(block)
                     /\ Follows(sv.tags, [k \in TagStarts(SaidCsv(block)) |-> TagAt(SaidCsv(block), k)])
                     /\ Follows(sv.meta, [k \in Which(block, "consul_service_meta") |-> block[k][2]])
                     /\ Follows(sv.checks,
                                [k \in Which(block, "consul_service_check") |-> SaidCheck(block[k][2])])

\* Port and address are those that override, or else both of one socket of that very
\* server, although two walks over the sockets of all servers find them (423-484).
SocketRight ==
    \A i \in DOMAIN live : \A b \in Discovered(live[i].file) :
        LET block   == live[i].file[b]
            sv      == ServiceFor(live[i], b)
            listens == Said(block, "listen")
            sockets == IF listens = {} THEN {<<80, Chars("0.0.0.0")>>} ELSE listens
            ports_  == {args[1] : args \in Said(block, "consul_service_port_override")}
            address == {args[1] : args \in Said(block, "consul_service_address_override")} \ {<<>>}
        IN  /\ \A n \in ports_ : sv.port = n
            /\ \A text \in address : sv.address = text
            /\ \E socket \in sockets :
                 /\ ports_ = {} => sv.port = socket[1]
                 /\ address = {} => sv.address = socket[2]

\* "a safe upper bound" (ngx_http_consul_service_discovery_module.c:825): nothing is written
\* behind the octets that the length pass reserves.
NoOverrun ==
    \A i \in DOMAIN live :
        live[i].services # <<>> => Len(Body(live[i])) <= JsonLen(live[i].services)

\* While every process works with the catalogue that is served, none of them takes a
\* service of it from the agent (register-services.sh:29-37).
ListedStays ==
    [][live # <<>> /\ Len(live) = 1
       /\ (\A s \in Sidecar : run[s].step # "idle" => run[s].listed = Newest)
       => Ids(Newest) \cap DOMAIN registry \subseteq DOMAIN registry']_vars

\* The agent knows the services that are listed, as they are listed, and no others, but for
\* those that grep takes for one of them.
Reconciled ==
    /\ Ids(Newest) \subseteq DOMAIN registry
    /\ \A id \in DOMAIN registry :
         \/ \E sv \in Range(Newest) : sv.id = id /\ registry[id] = sv
         \/ /\ "." \in Range(id)
            /\ \E sv \in Range(Newest) : Len(sv.id) = Len(id) /\ sv.id # id

\* Once nothing more is loaded and no call fails any more the agent agrees with the
\* configuration for good, whatever it knew before, however often a process was killed and
\* whichever catalogue it had fetched (register-services.sh:23-87).
Converges == <>[](plan.sidecars # {} /\ live # <<>> => Reconciled)

=============================================================================
