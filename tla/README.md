# Verification of nginx-demos

TLA+ models of the programs in this repository, the TLC runs that check them on
small instances, and TLAPS proofs of what holds for every size.  `PROJECT.json`
maps every definition to the source lines it models.

    tlc -workers 2 -config MCGreylist.cfg MCGreylist.tla
    tlapm GreylistProofs.tla

## 1. The system

The repository is a collection of programs that extend nginx.  Each runs inside
the nginx worker processes, and they do not call each other.

| component | source | state | operations | what is hard |
|---|---|---|---|---|
| greylist | `ngx_http_greylist_module.c` | a red-black tree and an LRU queue of client entries and leaky buckets, in shared memory of bounded size | access handler, collector, reload | several workers with stale clocks, two kinds of clock, memory at its limit, workers of two configurations at once |
| consul service discovery | `ngx_http_consul_service_discovery_module.c`, `examples/register-services.sh` | the configuration of each server, the catalogue built from it; beside it an agent's registry | directives, building the catalogue, JSON in a length pass and a writing pass; a script that registers and deregisters | the two passes must agree; servers that share sockets; reloads that fail half-way; overlapping scripts that fetch from old and new workers |
| stream RADIUS | `ngx_stream_radius_*.c` | the attribute dictionary and the variables made of it; per session: parsed request and response, latched | dictionary load, registration of variables, preread handler, response filter, variable evaluation | lines that depend on lines before them, several dictionaries, TCP segments that split a packet, latches, length fields that lie |
| stream DNS | `ngx_stream_dns_module.c`, `ngx_dns_parser.c` | per session: parsed request and response | preread handler, filter in both directions, name decoder, variables | compressed names that loop, sections that end early, the TCP length prefix, messages that are none, lists that are cut |
| service discovery (njs) | `svcDiscovery.js` | a directory of JSON files, one per back end | collect, read, periodic cleanup | workers interleave over files without locks; writes are not atomic |
| AI proxy (njs) | `aiproxy.js` | none between requests | model choice, forwarding, one failover | failure of one step of several |
| API steering (njs) | `steering.js` and two Python services | none between requests | lookup, authorisation, forwarding in a callback chain | every path must answer exactly once |
| multicloud gateway (njs) | `3.mcgw.js.yaml` | none between requests | longest-prefix rule lookup | termination of the path loop |
| SOAP to REST, health checks, tutorials, packaging | | none | text conversion, thresholds, manifests | nothing a model would find |

Properties that make each correct:

* greylist: tree and queue agree and fit the memory; a penalised client is
  refused until its penalty is over and `Retry-After` is never too early; a
  bucket lets through what rate and burst allow; clients do not disturb each
  other.
* consul: the catalogue is what the file says; the length pass bounds the writing
  pass; the agent comes to agree with the catalogue.
* RADIUS, DNS: parsing never reads past the packet and terminates; what is
  latched is what one whole packet said, however it was cut into segments; a
  variable reads the attribute that the dictionary binds its name to.
* njs service discovery: a back end that keeps reporting is never removed; one
  that stopped is removed eventually; a reader never sees a half-written file.
* AI proxy, steering, gateway: each request is answered once, after at most one
  failover.

## 2. Modules

| module | what it is |
|---|---|
| `Greylist` | the greylist zone, its workers, clocks, reload |
| `PenaltyBox` | the abstract specification: what a zone promises its clients |
| `GreylistRate` | `Greylist` with a history of what each bucket granted |
| `GreylistProofs` | theorems about `Greylist` and `GreylistRate`: consistency, the refinement, rate, order of the queue, independence, service after a penalty |
| `MCGreylist`, `MCGreylistRate` | instances for TLC |
| `SvcDiscovery` | the njs service registry: files, workers, cleanup |
| `SvcListing` | `SvcDiscovery` with a history of what each query could see |
| `SvcDiscoveryProofs` | theorems about both |
| `MCSvcDiscovery` | instances for TLC |
| `RadiusParser` | the walk over the attributes of a RADIUS packet |
| `RadiusSession` | a RADIUS session: preread handler, wrapped `send_chain`, variables |
| `RadiusConfig` | the dictionary files and the variables they register, composed with a session that uses them |
| `RadiusProofs` | theorems about `RadiusParser` and `RadiusSession` |
| `RadiusConfigProofs` | theorems about `RadiusConfig` |
| `MCRadius`, `MCRadiusConfig` | instances for TLC |
| `DnsParser` | the DNS parser: header, names, sections, data of records |
| `DnsSession` | a DNS session: directives, preread handler, filter in both directions |
| `DnsReport` | the variables, and what they promise about the messages that were sent |
| `DnsProofs` | theorems about `DnsParser`, `DnsSession` and the lists of `DnsReport` |
| `MCDns` | instances for TLC |
| `ConsulJson` | the two passes of the JSON writer |
| `ConsulCatalog` | directives, the catalogue, workers of several configurations |
| `ConsulSidecar` | the registration script and the agent beside `ConsulCatalog` |
| `ConsulAnswer` | what an answer means: the values of the catalogue, written as RFC 8259 asks |
| `ConsulProofs` | theorems about `ConsulCatalog` and `ConsulSidecar` |
| `ConsulAnswerProofs` | theorems about the answers: `ConsulJson` and `ConsulAnswer` |
| `MCConsul` | instances for TLC |
| `FoldProofs` | lemmas for `DnsProofs` and the Consul proofs: least and greatest elements, induction up to a number, sums and concatenations of lists |

### Greylist

| state | code |
|---|---|
| `clock`, `cached[w]` | the host's monotonic clock and the worker's `ngx_current_msec`; `Wall` derives `ngx_time()` from it |
| `gen[w]`, `latest`, `Config` | which configuration a worker runs with: after `nginx -s reload` old workers go on with the old one |
| `zone.tree`, `zone.queue` | `gl_shm_t`: the rbtree as a function from keys to nodes, and the LRU queue of the same nodes, head first |
| `reply` | the status and `Retry-After` of the last request |

The tree is modelled as a function: `gl_lookup` compares the hash first and then
the whole key, so a lookup finds a node exactly when its key is in the tree.
Fingerprints, match subjects and patterns are values of small sets; a pattern is
the set of subjects it matches.  `Capacity` stands for the slab: how many nodes
fit.  Times keep the code's units (ms for the bucket, whole seconds for entries),
levels are in 1/1000 of a request as in the code, and the product of rate and
elapsed time is one of unsigned words (`Word`).

A worker reads its clocks and matches the rules before it takes the zone's mutex
and touches the zone only under it.  A request is therefore one step, with a
clock that may be arbitrarily older than the last writer's: `UpdateTime` is a
step of its own.  The handler's ways out are one action each:

| action | way out of `gl_handler` |
|---|---|
| `Block` | phase 1: an active entry, 429 |
| `PassUnmatched` | no rule matches |
| `StartBucket` / `PassUntracked` | first request under a rule, with and without memory for a bucket |
| `PassWithinRate` | level within the burst |
| `Penalise` / `RefuseUnrecorded` | level above it, with and without memory for an entry |

Each includes the eviction of a lapsed entry in phase 1 (`Admitted`) and the
collector's look at the queue's tail (`Expire`) where the code calls it.  The
branch for an entry that exists when a penalty is written (lines 662-666) cannot
be reached, because phase 1 evicted it under the same lock, and is left out.

The names `TouchLinkedTwice`, `CollectableUntimed` and the like, next to a
definition, are mutants: the definition as a plausible bug would have it.  With
one put in the place of the original TLC must find the property it is listed
with violated, which shows that the property can fail.

### Not modelled of the greylist module

The early returns before the zone is touched (no zone, no fingerprint source),
which change no state; fingerprint and match subject construction and the
directive parsers, which fill the model's constants; a reload that changes the zone's
size, where nginx makes a new zone; a worker that dies inside the mutex, of which
nothing in the repository says what should follow.

### SvcDiscovery

| state | code |
|---|---|
| `clock` | `Date.now()` |
| `file[s]` | what the registry directory holds for service `s`: no file, a file that `writeFile` has truncated and not yet written (torn), or a whole one with its `Updated` date |
| `job[w]` | the handler that worker `w` runs, with what it remembers between two file operations |
| `crashes` | how many workers died |

The file operations of njs complete before they return, so a worker runs one
handler at a time, to its end; the handlers of different workers interleave at
every file operation.

| actions | handler |
|---|---|
| `Collect`, `Open`, `Write`, `WriteFails` | `collect`: the clock is read, the file is truncated, then written; each can fail |
| `StartCleanup`, `ScanDir`, `Check`, `Remove`, `EndCleanup` | `cleanup`, run by the timer of one worker: the directory is listed, each file is read, and one that is stale or malformed is unlinked by a later step |
| `StartListing`, `ReadFile`, `Respond` | `readAllServices` and the three handlers that send what it returns |
| `Crash`, `Tick` | a worker dies and is replaced; time passes |

`linked` says whether a file that a collect has open still has its name: cleanup
may unlink it between the two, and what is then written is lost.  Files are read
in any order.  `Stall` bounds the time between the clock reading of a collect and
its write and is at most `TTL`: without such a bound a file could be stale when
it is written.

Not modelled: `sanitize`, which makes the path from the service's name, protocol,
address and port (the path stands for the service); the projections of a listing
to catalogue and health entries, which keep no state.

### RadiusParser and RadiusSession

| state | code |
|---|---|
| `data`, `loop`, `p`, `sub`, `attrs` | a call of `ngx_stream_radius_parse_packet`: the packet, which of the two loops runs or how the call ended, the two pointers as offsets, the table |
| `phase` | where the session is: in the preread phase, in a parse, proxying |
| `arrived`, `held` | the client's bytes that reached the socket, and those in `c->buffer` |
| `request` | `parse_error`, `code`, `attrs` of `ctx`; `parsed` says whether the parser was called |
| `response` | `response_parsed`, `response_code`, `resp_attrs`, `resp_buf` |
| `wrapped` | `c->send_chain` is the module's |
| `taken`, `sent` | how far the proxy has read, and sent, the upstream's answer |

Bytes stay bytes, because lengths are what can go wrong; what an attribute says is
named by its place in the packet, and how it is printed is left out.  The two
loops of the parser are one action per way through an iteration:

| actions | code |
|---|---|
| `Malformed`, `Take`, `Stop`, `Finish` | the loop over attributes |
| `SkipVSA`, `EnterVSA`, `TakeVSA`, `LeaveVSA` | `ngx_radius_parse_vsa` |
| `NoMemory` | `ngx_radius_decode_value` fails |
| `NothingYet`, `NoRoom`, `TooShort`, `BadLength`, `TooLong`, `AwaitRest`, `StartRequest`, `EndRequest` | the ways out of the preread handler |
| `Forward`, `StartResponse`, `EndResponse` | `ngx_stream_radius_send_chain` |
| `Arrive`, `CoreReads`, `Timeout`, `Close` | the client and nginx itself |

`RadiusSession` extends `RadiusParser` and calls it for a request and for a
response.  `FirstStandard` and `FirstVSA` are the scans of the variables.

The core of nginx is not in this repository.  It is modelled from how the modules
here use it: when a handler of the preread phase answered `NGX_AGAIN`, the core
reads into `c->buffer` and calls it again.  The handler of `ngx_stream_dns_module`
depends on that, as it never reads.  The RADIUS handler reads as well; if the core
got the last segment, it finds nothing, answers `NGX_AGAIN` once more and waits
for `preread_timeout` with the whole packet in its buffer.  The model has these
behaviours (`CoreReads`, then `NothingYet`, then `Timeout`); no property forbids
them.  How the proxy cuts an answer is equally open: whole datagrams, several at a
time, again if the client's socket took none; any part of a stream.

Not modelled: the printing of values, the variables of the header, the merging of
the server directives, and the module's early returns when it is off or out of
memory for its context.  `ngx_stream_radius_var_by_code` and the dynamic lookup of
README:491 are in the source but never installed.

### RadiusConfig

| state | code |
|---|---|
| `plan`, `at` | the directives in their order: `radius_dict` with the lines of its file, and others that define a variable (`map`, `set`) |
| `line`, `current` | the line `ngx_stream_radius_dict_load_file` is at, and `current_vendor_id` |
| `dict` | `ngx_radius_dict_t`: the standard attributes and the vendors with theirs, in order |
| `next` | the two loop counters of the registration in `ngx_stream_radius_dict_directive` |
| `registered` | nginx's variables: who defined each, and its `data` |
| `stage` | reading directives, loading a file, registering, serving, refused, crashed |

A line is a keyword and its tokens; a token is a sequence of pieces, so that hyphens,
capitals and names that begin with another name are told apart without spelling
characters.  `DeclareVendor`, `BeginById`, `BeginByName`, `EndVendor`, `Attribute` and
`Ignored` are the branches of `ngx_radius_dict_parse_line`; `Register`,
`RegisterAgain`, `NextVendor` and `EndDict` are the loops after it; `Define` and
`DefineAgain` are nginx's rule for names that are defined twice: a `map` may share its
name, a `radius_vsa_` variable may not.  When all directives are read the session of
`RadiusSession` begins.

A vendor's name is copied without a zero behind it and then compared as a C string.
What the comparison finds is undefined when the name is a prefix of the token, and
`BeginByName` leaves it open; `strayed` remembers that it went wrong, and the
properties claim nothing after that.  A vendor that only an `ATTRIBUTE` line mentioned
has no name at all, and the search crashes on it (`BeginFalls`).

Not modelled: exhausted memory while the configuration is read, `radius_secret` and the
prefixes (nothing uses them), lines of more than 511 bytes, which are read as two.

### DnsParser, DnsSession and DnsReport

| state | code |
|---|---|
| `buf`, `at`, `offset`, `sec`, `nm`, `rr`, `pkt` | a call of `ngx_dns_parse_packet`: the octets, the part that runs, and its locals; `nm` is the frame of `ngx_dns_parse_name`, `rr` the record being read |
| `reach` | a history: how far an octet was read |
| `talk` | the session: directives of both levels, transport, what client and upstream send |
| `phase`, `held`, `up`, `down` | where the session is, and how far each side's octets are |
| `request`, `response` | `req_parsed`, `req_pkt`, `resp_parsed`, `resp_pkt` |

The parser has one action for each way through an iteration of the name decoder and for
each part of a record.  Octets stay octets; numbers that are only printed are kept as
the octets they are printed from.  `DnsSession` calls it from `PrereadParse`, `ParseUp`
and `ParseDown`; an attempt that failed is not kept (`Latch`), and the next chain is
tried.  `Reads` is the core: over UDP one datagram at a time, over TCP any part of the
stream.  `DnsReport` holds the variables, with the widths that their two buffers are
filled by, and the meaning of messages: `says` gives for each message its names, types
and data as a writer of RFC 1035 meant them, and the properties compare the variables
with that.

A packet without a question leaves `qtype_str` and `qclass_str` null, and the getters
take their length: what happens then is undefined, and no property asks for it.

### ConsulJson, ConsulCatalog, ConsulSidecar and ConsulAnswer

| state | code |
|---|---|
| `plan`, `stage` | the files that are loaded one after another; what the master process does |
| `file`, `at`, `servers`, `ports`, `handlers`, `services` | the configuration under construction: `srv_conf` of each server, nginx's list of sockets, the locations with the handler, `mcf->services` |
| `live` | the configurations that have workers, the newest last |
| `reply` | the last answer |
| `registry` | what the agent knows |
| `run[s]` | a process of the script: its step, the catalogue it fetched, the identifiers it removes, the next service it registers |

Every directive of the module is an action, with its error paths; a file that is
refused leaves `live` as it is.  `FindPort` and `FindAddr` are the two walks over the
sockets of all servers.  `JsonLen` and `JsonFill` are the two passes; both are written
from the code, member by member, and `AnswerRight` compares the second with a writer
of JSON that has nothing in common with them.  Text is a sequence of characters of the
kinds the writer tells apart: plain, with an escape of its own, control.

The script's calls to the agent are steps of their own, any of which may fail, and a
process may be killed between any two (`Killed`, both bounded by `MaxFaults`).  Several
processes overlap, and a process may have fetched its catalogue from a worker of the
configuration before.  `Matches` is `grep -x`, where a dot in an identifier matches any
character: an identifier that only differs there is kept by mistake, and `Reconciled`
allows for it.

Not modelled: other directives of a server, the names and sockets nginx gives by default
other than the one used here, curl and jq.

## 3. Runs

| run | question | instance |
|---|---|---|
| `greylist` | is the zone consistent, and does it keep the promise of `PenaltyBox`? | two workers, two clients, two nodes, a reload that drops the burst and changes timeout and duration; time in half seconds up to 2.5 s |
| `greylist_rate` | does a bucket keep its rate, is the queue in order of use, are clients independent, is a lapsed client served? | one worker, 1 r/s, burst 1, penalty 3 s, zone timeout 2 s, up to 5 s |
| `greylist_skew` | the same rate with two workers | violated |
| `greylist_monotonic` | independence when wall and monotonic clock differ | violated |
| `svc_discovery` | does a cleanup run leave nothing stale, does a query see what nobody touched and nothing else, does a silent service disappear, does a torn file heal? | two workers, two services, TTL 1, time up to 4, one crash |
| `svc_fresh` | does cleanup spare a file that was just written? | violated |
| `radius` | does the walk stay in the packet, end, and find what RFC 2865 says? does a request come from one whole packet? is a recorded answer the first? is what dictionaries register, decode and refuse what their lines say? | header 4, vendor id 1, table 3, buffer 10, largest packet 12; all datagrams with up to 6 bytes of attributes over 4 byte values, 9 longer ones, 5 wrong lengths, 2 with answers, 6 streams in every segmentation; a session under each of the 6175 files of up to 3 lines out of 18, 1849 pairs of files of up to 2 lines out of 6 with four sessions, and 2590 mixtures with other variables |
| `radius_stream` | is a response over TCP recorded whole? | violated |
| `radius_header` | does the preread phase wait for a whole header? | violated |
| `dns` | do calls stay in their buffers and end? do the variables describe the first message of each side? is what was parsed kept, does the nearest level count, are the lists cut only at the end of their buffers? | names of up to 5 characters, data of 6, two records, two jumps; all questions of up to 5 arbitrary octets, records of 6 types with arbitrary data, 18 replies of two answers, messages after noise, 30 pairs of configuration levels, 4 streams in every segmentation |
| `dns_stream` | do the variables describe a message that comes over TCP? | violated |
| `consul` | is the catalogue what the file says, do the passes agree, does the agent come into step? | 200 files of up to three servers, 9 refused ones between two good ones, and 4 plans with two processes of the script, an agent that knows other services and two faults |

Bounds.  Two clients are enough for one to be evicted, blocked or collected by
the other's request; a slab of two nodes is full with one bucket and one entry,
so that every allocation both succeeds and fails.  `MaxClock` leaves time for a
penalty to begin, lapse, be collected `timeout` seconds later, and begin again
with the second configuration.  `MaxExcess` bounds the level of a bucket: a
client whose penalty cannot be recorded raises it with each request.  Half-second
ticks separate the millisecond arithmetic of buckets from the whole seconds of
entries.  Clients and workers are symmetric.

The registry needs the cleaner and one more worker, which collects, lists and dies
beside it, and two services for a run over the directory to be half done.  A file that
is written at 0 under TTL 1 is stale at 2, so that a clock up to 4 leaves room for a
second report, a cleanup that began too early, and the next.  No symmetry is used, as
the run has liveness properties.

The sizes of RADIUS are scaled down, so that every limit is met by short packets:
seven bytes of attributes hold a vendor-specific attribute with two parts, six hold three
attributes, which fill the table.  The four byte values serve as types and lengths
alike: too short, exact, `VendorSpecific`, too long.  Reference for the walk is
`Attributes`, the offsets reachable by hops over lengths, which is no loop.

Three lines of a dictionary are enough for a vendor, its block and an attribute, for a
block in a block, and for one left open; what needs a fourth, an attribute after the
end of a block, comes in the pairs and mixtures too.  The lines have a second name for
a number, a second number for a name, numbers above a byte and above the width of a
vendor id, and too few tokens.

Five octets of a question hold a pointer to itself or to another, a label that ends
behind the packet, and a whole name; a third jump is one too many.  With two
records a third is announced, sent and not kept.  22 octets of addresses cut the second
address, 100 of JSON the second entry.

Two scripts are enough for one to register what the other removes, and two loaded files
for a script to hold the catalogue of workers that have exited.  Two faults kill one
process and make a call of the other fail.

No run hides a stop of the system: deadlock is checked in all of them.

Fairness.  `Greylist` states safety only and assumes none.  `SvcDiscovery` assumes
that time passes, that a worker that runs a handler goes on with it (it waits for
nobody: there are no locks), and, strongly, that the cleaner starts the cleanup
it can start again and again: an event loop serves an expired timer between two
events, however busy it is.  No report and no query is promised.  `RadiusSession` assumes that a
call of the parser goes on: it is a loop of one thread that waits for nothing.
Whether the proxy reads, or a client sends, is not promised.  `RadiusConfig` assumes the
same and nothing of the configuration; so does `DnsSession` of its parser.
`ConsulSidecar` assumes that the master process finishes loading, that workers of an old
configuration exit in the end, and that the script is started again and goes on with
what it does (README:5 of the module has it polled by cron); a call that fails, or a process that dies,
is not excluded by it but happens at most `MaxFaults` times.

### What the violations show

* `greylist_skew`: `now_ms - last_ms` is negative in a worker whose cached clock
  is behind the one that used the bucket last.  The signed difference is
  multiplied by the unsigned rate and divided by 1000, the cast makes the leak
  huge and the level is clamped to 0: the bucket is as good as new.
* `greylist_monotonic`: `gl_expire` adds the timeout to the bucket's
  `last_ms / 1000`, a time since boot, and compares with `ngx_time()`, a time
  since 1970.  Every bucket at the tail is collectable.  With `WallOffset = 0` (a
  platform without a monotonic clock) the property holds.
* `svc_fresh`: a comment says that a collect and a cleanup of the same file cannot
  interleave.  They run in different processes: cleanup reads the file while it is
  truncated, or while it is old, collect writes it, and cleanup removes it.

* `radius_stream`: `send_chain` sees what the proxy has just read.  20 bytes of an
  incomplete response are parsed as if they were the whole, the attributes are
  lost or cut, and `response_parsed` keeps it so.
* `radius_header`: a first segment of fewer than 20 bytes ends the preread phase
  with `parse_error`, where the handler's comment says that bytes are accumulated.
* `dns_stream`: twelve octets of a TCP message are taken for a packet.  The prefix of two
  octets is recognised only if it equals the number of octets at hand; with the first
  segment of a message it is read as the identifier, everything behind it is shifted,
  and what comes of it is latched.

### Other disagreements

Found while modelling, and not the subject of a run:

* greylist README:416 says that a lapsed client is served; under a rule slower than one
  request per penalty it is penalised again, as the level stays in the bucket.
  README:456 says that a full zone fails open; a penalty that does not fit is announced
  with 429 and not recorded.
* radius: a dictionary that adds attributes to a vendor of an earlier one gets no
  variables for them (module.c:529 and :558 begin at the vendors that are new), where
  the directive's comment says that every VSA variable is registered.  `VsaRight` is
  about vendors that one file brings in.  README:514 allows a vendor's name behind an
  `ATTRIBUTE`; the code takes only a number.  `$INCLUDE` (README:41) is ignored.  A
  comment says that a name registered by a previous dictionary is kept; nginx refuses
  it before the comment's branch is reached.
* consul: the two passes are said to mirror each other exactly (591, 683); the length
  pass has one octet more for each check.  `consul_service_discovery on;` followed by
  `off;` leaves the handler installed.  The script deregisters every service of the
  agent that the catalogue does not list, also those it never registered.
* dns: lists are cut in the middle of an address or of a JSON text; text of records is
  not escaped.

## 4. Proofs

### Greylist

`GreylistProofs` proves, for any number of workers, clients, rules and
configurations, any capacity, rates, durations, word size and wall offset:

* `TypeCorrect`: `Spec => []TypeOK`
* `ZoneSafe`: `Spec => []ZoneConsistent`
* `Implementation`: `Spec => Penalty!Spec`, that is, `Greylist` implements
  `PenaltyBox`

Assumptions: there are workers; configurations have positive timeouts, rates and
durations (the parsers reject others); `WallOffset` is natural.

Argument.  Neither type correctness nor consistency is inductive alone: linking
a node needs it to be absent from the queue, and freeing one needs it to be
there.  `Sound(z)` says of any zone value, not only of the variable, that tree
and queue agree, are typed and fit; `DropSound`, `InsertSound`, `TouchSound` and
`ExpireSound` show that each operation keeps it, from `UnlinkFacts` and
`LinkFacts` about sequences without duplicates.  `IInv` adds that no entry's
expiry is 0, the value the refinement uses for "no entry".  `Outcome(c)` then
summarises a request: it serves, refuses or sentences `c`, and forgets of other
clients' entries only those that lapsed by the real clock, which holds because a
worker's clock is never ahead (`ClockFacts`).  Each way out of the handler has a
lemma that its outcome is such; invariance and refinement both follow from it.

Of `GreylistRate` it proves, for the same constants and the named hypotheses of each:

| theorem | statement | hypotheses |
|---|---|---|
| `RateIsZone` | `RateSpec => Spec`, the history of grants restrains nothing | |
| `RateLimit`, `LevelIsEnough` | `RateSpec => []RateRespected`, `[]LevelAccounts` | `OneWorker`, `SteadyRules`, `NoWrap` |
| `QueueInOrder` | `RateSpec => []LeastRecentLast` | `OneWorker` |
| `Independence` | `Spec => IndependentBuckets` | `WallOffset = 0` |
| `LapsedServed` | `Spec => LapsedIsServed` | `OneWorker`, `SteadyRules`, `NoWrap`, `Outlasting`, `Roomy` |

The hypotheses are where the module keeps the property and not what the code
guarantees.  `OneWorker`: one worker's clock stands for all; with two, run
`greylist_skew` violates the rate.  `SteadyRules`: no reload changes the rules.
`NoWrap`: rate times time fits a word.  `WallOffset = 0`: both clocks begin
together; otherwise run `greylist_monotonic` violates independence.  `Outlasting`:
every rule leaks two requests in any penalty less the second that is rounded away.
`Roomy`: the slab holds a node for every key.  The instance of run `greylist_rate`
satisfies all of them.

Argument.  That a bucket lets through no more than its rate is not inductive: the
level says nothing of grants unless it is known to pay for them.  `Accounted` relates the
two for a bucket as it was last used: the level is at least what was granted less what
has leaked, and what was granted is bounded by the time of the last use already.  `RInv`
has it for every bucket, with the fact that no bucket was used later than the workers'
clocks say (`Aged`).  Two spans leak together what each leaks, but for rounding
(`LeakAdds`), which the bound has to survive at each request.  `LapsedServed` rests on
`SInv`: a bucket is above its burst by one request at most, and only while the client's
entry is there or the penalty has passed since the bucket was used (`Levelled`).

### SvcDiscovery

`SvcDiscoveryProofs` proves, for any number of workers, services and crashes, any
`TTL` and any `Stall <= TTL`:

* `TypeCorrect`: `Spec => []TypeOK`
* `NextRunTheorem`: `Spec => NextRunEvicts`

Argument.  At the end of a run every file that was stale at its beginning must be
gone, but files appear, disappear and change under the run.  `IInv` adds to the
types `CleanupDone`: while a run checks files, each whole file it need not look at
any more (because it was checked, or was not there when the directory was listed)
is dated within `TTL` of the run's start.  A collect keeps it because no date lies
further back than `Stall` when it is written; this is where `Stall <= TTL` is used.  When nothing is left to check,
`CleanupDone` is the property.

Of `SvcListing` it proves, for the same constants:

* `ListingIsRegistry`: `ListSpec => Spec`, the history restrains nothing, so that what
  is proved of the registry holds of it
* `ListingTheorem`: `ListSpec => []ListingFaithful`

Argument.  A query remembers what it found and what it has yet to read.  A file that
nobody touched since the query began (`untouched`) is found if it was read, and a file
found was there at some time since (`seen`).  `LInv` adds that what is untouched is
still a whole file and is in `seen`; each file operation of another worker removes from
`untouched` exactly the file it works on.

Only model-checked: the liveness properties (fairness is beyond the prover).

### Radius

`RadiusProofs` proves, for any packets, segmentations, sizes of header (at least
4), vendor id, table and buffer:

* `RadiusTypeCorrect`: `Spec => []TypeOK`
* `RadiusInsidePacket`: `Spec => []InsidePacket`
* `RadiusParsedRight`: `Spec => []ParsedRight`
* `RadiusRequestIsWhole`: `Spec => []RequestIsWhole`
* `RadiusDatagramNeverWaits`: `Spec => []DatagramNeverWaits`
* `RadiusDatagramRecorded`: `Spec => []DatagramRecorded`

Assumptions: the named ones of the two modules; in particular a buffer of a
datagram is as large as the datagram (`Room`).

Argument.  The parser's part, `PInv`, is inductive alone (`IterateInv`): `FitsFacts`
says that an attribute that fits has its type and length inside the packet, and
`StandardFacts` and `VSAFacts` that what is appended does.  `SInv` adds what a
session knows when it calls the parser: while a request is parsed, `data` is the
declared part of the client's bytes, which is held.  `RInv`, with `SInv`, says that
over UDP nothing was sent before the first response is recorded, so that the chain
begins with the first packet; `GatheredFirst` shows that this packet is gathered
from any chain that begins with it.

`ParsedRight` relates what two nested loops leave behind to what the octets say, by chains
of lengths from the header to an attribute.  Those chains are sets, and induction over
their length is a least counterexample (`ReachedLeast`, by `LeastOf`).  `WInv` says how far
the walk has come: `Told` that the table has each attribute in front of the place (`Swept`:
those that a chain reaches and that begin before it), in this order, with a vendor's own in
their parts and only there.  `WalkTake`, `WalkSkip`, `WalkEnter`, `WalkTakeVSA` and
`WalkLeave` are the five ways on; at the end everything is swept, and the first row of
a type is the first attribute of it (`StandardServes`, `VendorServes`).  The statement
leaves out the vendor number 0, which the table uses for an attribute of no vendor: the
variables of a vendor cannot ask for it.  Run `radius_config` has a packet with
such a vendor.

Only model-checked: `ParseReturns` (fairness).

`RadiusConfigProofs` proves, for any directives, dictionary files, names and numbers:

* `ConfigTypeCorrect`: `ConfigSpec => []ConfigTypeOK`
* `VariablesAreBound`: `ConfigSpec => []VariablesBound`, each variable that the module
  adds has the name of an attribute of the dictionary, and its data are the attribute's
  vendor and type
* `VsaPacking`: a vendor and a type that fit their fields are recovered from those data
* `ConfigIsSession`: a configured module is a session, as its configuration stutters
* `ConfigSessionSafe`: so the theorems about a session hold under any configuration
* `ConfigDecodedRight`: `ConfigSpec => []DecodedRight`, an attribute is decoded by its
  built-in definition, or else by the first that the files give for its vendor
* `ConfigRefusedRight`: `ConfigSpec => []RefusedRight`, nginx refuses a missing file and a
  variable that is wanted twice, every one of them and nothing else, and a load crashes
  only where the files give a vendor no name
* `ConfigVsaRight`: `ConfigSpec => []VsaRight`, the variables are those of the attributes
  of the vendors that a file brings in, and each reads its attribute from the packet

It assumes `CaseAssumption`, `TextAssumption` and `NullAssumption`: directives, built-in
attributes and numbers have the types that the configuration's grammar gives them.

Argument.  `CInv` adds to the types what a stage relies on: there is a dictionary once a
file is loaded, and the directive that is read names a file while it is.
`WithVendorFacts` is the step that matters: a number is found or is new, so no number
comes twice, and `LeastOf` says that the search for a name returns a vendor.
`DictGrows` says that no step takes anything from the dictionary, through `Grown`, from
which `StepBound` concludes that a variable stays bound when a later file adds to it.

The last three compare a loader that goes line by line, and looks vendors up by number or
by name in what it has, with what the files say as a whole: places (a directive and a line),
their order, and for a vendor its `Origin`, the first place that mentions it.  `StepWhole`
keeps `WholeInv`, which adds two invariants to `CInv`.

* `LInv`: the dictionary is what the places before the present one say (`DictIs`).  Its
  vendors are those that were mentioned, in the order of their origins and with the names
  they have there (`VendorsAre`), and each carries the attributes that the places give it,
  in their order (`Carries`, `Lists`); `current` is the vendor of the block around the line
  (`BlockOwner`).  Each kind of line adds just its own place: `VendorLine`, `StandardLine`,
  `VendorAttributeLine`, `LineSkipped`, and `NextLine` for the block.  `MeantIs` is the step
  that needs the order: the scan takes the first vendor of a name that was mentioned.
* `VInv`: there is a set of attributes that were handled, such that the variables are those
  of `map` and one for each of the handled attributes that `map` did not forestall
  (`Registry`), and the set is as far as the two loops over new vendors and their attributes
  have come (`Handling`, `Progress`).  The vendors that the loop visits are those whose
  origin is in the file, since a line adds vendors only behind the others (`HandlingLine`);
  `RegistryHandled` is one turn of the loop, and where a name is taken the two attributes
  that want it are what `Unacceptable` asks for.

When the sessions begin every place has been read, so the first definition in a list is the
earliest place (`FirstListed`), and every attribute that is due has been handled.  All three
are conditional on `~strayed`, as the properties are: the scan by name reads beyond the end
of the name, and what it finds then is not in the files.

Only model-checked: `ParseReturns` under a configuration (fairness).

### DNS

`DnsProofs` proves, for any messages and segmentations, any sizes of names, data,
sections and buffers, and any number of jumps:

* `DnsInductive`: `Spec => []IInv`
* `DnsTypeCorrect`: `Spec => []TypeOK`
* `DnsInBuffer`: `Spec => []InBuffer`
* `DnsDatagramNeverHeld`: `Spec => []DatagramNeverHeld`
* `DnsNearestLevelCounts`: `Spec => []NearestLevelCounts`
* `DnsParsedOnce`: `Spec => ParsedOnce`
* `DnsListsFit`: `Spec => []ListsFit`

Assumptions: `DnsLimits`, `SizeAssumption` and `TalkAssumption` of the modules, and
`TypeStrAssumption`, how long the names of types are that the code writes.

Argument.  `IInv` is the conjunction of three parts.  `ParserInv` is what holds in a
call: `NameInv` relates the frame of the name decoder to the packet and to its buffer
(room is left for the end mark before each append), `TableInv` the tables to their
counts, `PlaceInv` the position to the part of the parser that runs, with what must
have been checked before an octet is read.  `SessionTypes` types the session, and
`CallInv` says in which phases a call may run, that it runs only when the directive is
on, that a side which was parsed is in no call, and that a datagram never waits.
Each action of the parser has a lemma for `ParserInv`; the session's actions begin and
end calls.

`ListsFit` needs more than the types: `ShapeInv` says that the data of a record have the
parts its type asks for, or none, also between the steps that read them (a mail exchanger
has a name, the start of a zone two), so that what one entry of the JSON takes is a number.
`WrittenIs` is one call of `snprintf`: what was cut stays cut, what fits is all there.
`IpsWritten` and `JsonWritten` follow the two loops address by address and entry by entry:
the lengths are folds (`PartialSums` and `FoldExists` of `FoldProofs` say what a fold is
after each element), and after each element the list is everything so far or is cut at the
end of its buffer.  `ListsOf` is the last element.

Only model-checked: `RequestRight`, `ResponseRight` and `CallEnds`.  The first two compare
what was read with what the writer of a message meant.  `says` is a constant: the instance
encodes each message it gives to it, and no assumption of the modules ties octets to
meanings.  A theorem would need the encoding as a definition, by recursion over labels
and records, and induction over it.  `CallEnds` rests on fairness.

### Consul

`ConsulProofs` proves, for any files that the command tables let through, any number of
loads, locations, processes and faults:

* `CatalogueIsRight`: `Spec => []CatalogueRight`
* `SocketsAreRight`: `Spec => []SocketRight`
* `ListedSafe`: `Spec => ListedStays`
* `ConsulTypes`: `Spec => []TypeOK`

Assumptions: `PlanAssumption`, what the parser of nginx and the command tables accept
(`Takes`: how many arguments, of which kind); `UnsetAssumption`, that the mark of what was
never given is no value that can be given; `LiteralAssumption`, that the texts in the code
are texts (string literals are opaque to the provers); `RegisteredAssumption`, that the
agent knows services at first; `FaultsAssumption`.

Argument.  A file is correct as a whole, but it is read line by line, merged, and built
server by server, and may be given up anywhere.  `CInv` says for each stage what is there
so far.  `Draft(s, block, n)` is a server with n lines of its block read: a slot is
unset exactly when no line named it, and metadata and checks follow the lines that gave
them.  `Within` and `Settled` add the servers before it and their sockets, `Merges` that
all are merged, `CatalogueTo` that the catalogue follows the discoverable servers up to
the one that is next.  Each directive has a lemma from `Draft(s, block, n)` to
`Draft(t, block, n + 1)`.  Under them:

* lists: `Follows(list, given)` says that a list has the values of `given` in the order of
  its places; it grows at either end (`FollowsAppend`, `FollowsPrepend`).
* sockets: `WithListenRight` says that a socket is added to the server that names it and to
  no other, though servers share ports and addresses; `FoundSocket`
  that both walks stop at the same socket of the server.
* tags and checks are recursive functions over a text and over the tokens.  What they return
  is stated for every prefix or suffix and proved of a least counterexample (`LeastNat`), as
  the induction theorems of the library cannot be instantiated: `SplitTagsRight`, that
  they are the pieces between commas without the spaces at their ends; `CheckOfRight`, that
  the last token with a key counts.

`ListedSafe` needs `StaleUnlisted`: what a process is going to deregister is not in
the catalogue that it fetched.

`ConsulAnswerProofs` proves, for the same constants:

* `NoAnswerOverruns`: `Spec => []NoOverrun`
* `AnswersAreRight`: `Spec => []AnswerRight`

Assumptions, besides those above: `CharacterAssumption`, that the characters the code writes
are characters; `KeyAssumption`, what the literals of the writing pass are character by
character, and `SizeAssumption`, what `sizeof` makes of them.  TLC evaluates all three.

Argument.  `CatalogueTo` keeps with each service that its texts are texts down to the
elements of its lists (`Worded`), so that every catalogue a worker has can be written
whatever it says.  Each lemma about the writer then says three things of one part of the
answer: that it is a text, that the length pass counts no less for it, and that it is the
value of `ConsulAnswer` in that place.  `EscapeRight` and `JStrRight` are about one text,
`PrintedRight` about a port (the digits that are counted are those that are written),
`ListedFits` about a list with its commas, and `CheckRight`, `TagsRight`, `MetaFits`,
`ChecksFits`, `ServiceFits` and `JsonFits` put these together.  The code ends an object
that it has written member by member, and RFC 8259 puts members between braces: `OpenFirst`,
`OpenMore` and `WhenRight` say that an object which is still open is the same with one member
more.  Of a check the length pass counts one octet more than is written; everything
else is counted exactly.  The reply may be of workers that are gone: `ReplyRight` keeps
that it is the answer of a configuration that was right.

Only model-checked: `Converges` (fairness).

## 5. What is left

* Greylist: fingerprint and subject keys, the parsers' arithmetic.  A key is a pair in
  the model, so that a key longer than its 8-bit length (609) does not occur.
* Njs: `aiproxy.js`, `steering.js` and the multicloud gateway keep nothing between
  requests; each is one chain of callbacks with a failover or a lookup, not modelled.
* Proofs: the refinement of an abstract registry, and that the DNS parser reads what a
  writer meant (`RequestRight`, `ResponseRight`).  Out of reach stays liveness.
