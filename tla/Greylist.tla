------------------------------ MODULE Greylist ------------------------------
(***************************************************************************)
(* ngx_http_greylist_module: one greylist_zone shared by the worker        *)
(* processes of one nginx instance.                                        *)
(*                                                                         *)
(* The zone is a red-black tree of nodes and an LRU queue through the same *)
(* nodes, in a slab of bounded size.  A node is either a greylist entry of *)
(* a client (key "GL:<fingerprint>") or the leaky bucket of a client for   *)
(* one rule (key "RL:<rule>:<fingerprint>").                               *)
(*                                                                         *)
(* A worker reads its own cached clock and matches the rules before it     *)
(* takes the zone's mutex and touches the zone only under it, so a request *)
(* is one step whose clock may be arbitrarily older than the real one.     *)
(* Workers of several configurations coexist after a reload.               *)
(***************************************************************************)
EXTENDS Integers, FiniteSets, SequencesExt

CONSTANTS
    Worker,      \* slots of worker processes
    Client,      \* client fingerprints
    Subject,     \* match subjects "METHOD:scheme://host/uri"
    Config,      \* successive configurations of the zone: Config[1], Config[2], ...
    Capacity,    \* nodes the zone's slab can hold
    WallOffset,  \* ngx_time() in ms minus ngx_current_msec: 0, or the boot time
    Word,        \* 2^w, w the width of ngx_uint_t
    Tick,        \* granularity of time, in ms
    MaxClock,    \* bound on the clock, in ms
    MaxExcess    \* bound on a bucket's level, in 1/1000 of a request

Rule == [pattern : SUBSET Subject, rate : Nat \ {0}, burst : Nat,
         duration : Nat \ {0}]

ASSUME WorkerAssumption   == Worker # {}
ASSUME ConfigAssumption   ==
    Config \in Seq([timeout : Nat \ {0}, rules : Seq(Rule)]) \ {<<>>}
ASSUME CapacityAssumption == Capacity \in Nat
ASSUME ClockAssumption    == WallOffset \in Nat /\ Tick \in Nat \ {0}
ASSUME WordAssumption     == Word \in Nat \ {0}

VARIABLES
    clock,    \* the monotonic clock, in ms
    cached,   \* cached[w]: ngx_current_msec of worker w
    gen,      \* gen[w]: the configuration worker w runs with
    latest,   \* the last configuration loaded
    zone,     \* gl_shm_t: the tree and the LRU queue, most recent first
    reply     \* what the last request was answered

vars == <<clock, cached, gen, latest, zone, reply>>

-----------------------------------------------------------------------------
(* Types                                                                   *)

RuleIndex == UNION {DOMAIN Config[g].rules : g \in DOMAIN Config}

GLKey(c)    == [type |-> "GL", rule |-> 0, client |-> c]
RLKey(i, c) == [type |-> "RL", rule |-> i, client |-> c]
Key == {GLKey(c) : c \in Client} \cup {RLKey(i, c) : i \in RuleIndex, c \in Client}

\* A node of either type; the fields of the other type hold 0 and are never read.
Node == [expiry : Nat, last_ms : Nat, excess : Nat]

GLNode(expiry)          == [expiry |-> expiry, last_ms |-> 0, excess |-> 0]
RLNode(last_ms, excess) == [expiry |-> 0, last_ms |-> last_ms, excess |-> excess]

Reply == [client : Client, status : {"declined", "429"}, retry_after : Nat]
NoReply == [client |-> "none", status |-> "none", retry_after |-> 0]

Declined(c)           == [client |-> c, status |-> "declined", retry_after |-> 0]
TooManyRequests(c, s) == [client |-> c, status |-> "429", retry_after |-> s]

-----------------------------------------------------------------------------
(* The clocks: ngx_time() counts whole seconds of the wall clock,          *)
(* ngx_current_msec the milliseconds of the monotonic one.                 *)

Wall(ms) == (WallOffset + ms) \div 1000

Now(w)  == Wall(cached[w])
Conf(w) == Config[gen[w]]

-----------------------------------------------------------------------------
(* The zone                                                                *)

Keys(z)    == DOMAIN z.tree
HasRoom(z) == Cardinality(Keys(z)) < Capacity

\* Free the node k: out of the queue, the tree and the slab.
Drop(z, k) == [tree  |-> [j \in Keys(z) \ {k} |-> z.tree[j]],
               queue |-> RemoveFirst(z.queue, k)]

\* A new node k, at the head of the queue.
Insert(z, k, node) ==
    [tree  |-> [j \in Keys(z) \cup {k} |-> IF j = k THEN node ELSE z.tree[j]],
     queue |-> Cons(k, z.queue)]

\* Mutants of Touch: linked without being unlinked, and left where it was.
TouchLinkedTwice(z, k, node) == [tree  |-> [z.tree EXCEPT ![k] = node],
                                 queue |-> Cons(k, z.queue)]
TouchInPlace(z, k, node)     == [z EXCEPT !.tree[k] = node]

\* The node k updated and moved to the head of the queue.
Touch(z, k, node) == [tree  |-> [z.tree EXCEPT ![k] = node],
                      queue |-> Cons(k, RemoveFirst(z.queue, k))]

\* Mutants of Collectable: an entry taken for a bucket, and no timeout for a bucket.
CollectableUntyped(k, node, now, timeout) == now >= node.last_ms \div 1000 + timeout
CollectableUntimed(k, node, now, timeout) == k.type = "RL" \/ now >= node.expiry + timeout

\* A node the collector may free: `timeout` seconds past a greylist entry's
\* expiry, or past a bucket's last use, whose time is not of the wall clock.
Collectable(k, node, now, timeout) ==
    now >= (IF k.type = "GL" THEN node.expiry ELSE node.last_ms \div 1000) + timeout

\* gl_expire(gz, 1): the collector looks at the queue's tail and nowhere else.
Expire(z, now, timeout) ==
    IF /\ z.queue # <<>>
       /\ Collectable(Last(z.queue), z.tree[Last(z.queue)], now, timeout)
    THEN Drop(z, Last(z.queue))
    ELSE z

-----------------------------------------------------------------------------
(* The rules                                                               *)

FirstMatch(rules, s, i) ==
    /\ i \in DOMAIN rules
    /\ s \in rules[i].pattern
    /\ \A j \in 1..(i - 1) : s \notin rules[j].pattern

NoMatch(rules, s) == \A i \in DOMAIN rules : s \notin rules[i].pattern

\* What a bucket leaks in `elapsed` ms.  The product is one of unsigned words:
\* a negative elapsed time wraps to a huge leak.
Leak(rate, elapsed) == ((rate * elapsed) % Word) \div 1000

\* Mutant of NewExcess: the level may fall below zero.
NewExcessUnclamped(rule, node, now_ms) ==
    node.excess - Leak(rule.rate, now_ms - node.last_ms) + 1000

\* The bucket's level after this request, in 1/1000 of a request.
NewExcess(rule, node, now_ms) ==
    LET level == node.excess - Leak(rule.rate, now_ms - node.last_ms) + 1000
    IN  IF level < 0 THEN 0 ELSE level

-----------------------------------------------------------------------------
(* A request of client c for subject s, handled by worker w.  One action   *)
(* per way out of gl_handler.                                              *)

Greylisted(w, c) ==
    /\ GLKey(c) \in Keys(zone)
    /\ Now(w) < zone.tree[GLKey(c)].expiry

\* Mutant of Admitted: the lapsed entry stays.
AdmittedUnevicted(c) == zone

\* The zone after phase 1 let c through: a lapsed entry is evicted.
Admitted(c) == IF GLKey(c) \in Keys(zone) THEN Drop(zone, GLKey(c)) ELSE zone

Answer(r) == reply' = r /\ UNCHANGED <<clock, cached, gen, latest>>

\* Phase 1: an active greylist entry.
Block(w, c) ==
    /\ Greylisted(w, c)
    /\ Answer(TooManyRequests(c, zone.tree[GLKey(c)].expiry - Now(w)))
    /\ UNCHANGED zone

\* Phase 2 without a matching rule.
PassUnmatched(w, c, s) ==
    /\ ~Greylisted(w, c)
    /\ NoMatch(Conf(w).rules, s)
    /\ zone' = Admitted(c)
    /\ Answer(Declined(c))

\* The first request of c under rule i starts a bucket ...
StartBucket(w, c, s, i) ==
    /\ ~Greylisted(w, c)
    /\ FirstMatch(Conf(w).rules, s, i)
    /\ RLKey(i, c) \notin Keys(zone)
    /\ LET z == Expire(Admitted(c), Now(w), Conf(w).timeout)
       IN  /\ HasRoom(z)
           /\ zone' = Insert(z, RLKey(i, c), RLNode(cached[w], 0))
    /\ Answer(Declined(c))

\* ... or passes without one when the slab is full.
PassUntracked(w, c, s, i) ==
    /\ ~Greylisted(w, c)
    /\ FirstMatch(Conf(w).rules, s, i)
    /\ RLKey(i, c) \notin Keys(zone)
    /\ LET z == Expire(Admitted(c), Now(w), Conf(w).timeout)
       IN  /\ ~HasRoom(z)
           /\ zone' = z
    /\ Answer(Declined(c))

\* The bucket of c has a level, with this request, of `excess`.
InBucket(w, c, s, i, excess) ==
    /\ ~Greylisted(w, c)
    /\ FirstMatch(Conf(w).rules, s, i)
    /\ RLKey(i, c) \in Keys(zone)
    /\ excess = NewExcess(Conf(w).rules[i], zone.tree[RLKey(i, c)], cached[w])
    /\ excess <= MaxExcess

\* Mutant of PassWithinRate: the time of the request is not recorded.
PassUnstamped(w, c, s, i) ==
    LET node   == zone.tree[RLKey(i, c)]
        excess == NewExcess(Conf(w).rules[i], node, cached[w])
    IN  /\ InBucket(w, c, s, i, excess)
        /\ excess <= Conf(w).rules[i].burst
        /\ zone' = Touch(Admitted(c), RLKey(i, c), RLNode(node.last_ms, excess))
        /\ Answer(Declined(c))

\* A request within the rate and the burst passes.
PassWithinRate(w, c, s, i) ==
    LET excess == NewExcess(Conf(w).rules[i], zone.tree[RLKey(i, c)], cached[w])
    IN  /\ InBucket(w, c, s, i, excess)
        /\ excess <= Conf(w).rules[i].burst
        /\ zone' = Touch(Admitted(c), RLKey(i, c), RLNode(cached[w], excess))
        /\ Answer(Declined(c))

\* Above the burst: the zone with the bucket touched and the tail collected.
Overflowed(w, c, i, excess) ==
    Expire(Touch(Admitted(c), RLKey(i, c), RLNode(cached[w], excess)),
           Now(w), Conf(w).timeout)

\* The client is greylisted for the rule's duration ...
Penalise(w, c, s, i) ==
    LET rule   == Conf(w).rules[i]
        excess == NewExcess(rule, zone.tree[RLKey(i, c)], cached[w])
        z      == Overflowed(w, c, i, excess)
    IN  /\ InBucket(w, c, s, i, excess)
        /\ excess > rule.burst
        /\ HasRoom(z)
        /\ zone' = Insert(z, GLKey(c), GLNode(Now(w) + rule.duration))
        /\ Answer(TooManyRequests(c, rule.duration))

\* ... or told so while no entry fits the slab.
RefuseUnrecorded(w, c, s, i) ==
    LET rule   == Conf(w).rules[i]
        excess == NewExcess(rule, zone.tree[RLKey(i, c)], cached[w])
        z      == Overflowed(w, c, i, excess)
    IN  /\ InBucket(w, c, s, i, excess)
        /\ excess > rule.burst
        /\ ~HasRoom(z)
        /\ zone' = z
        /\ Answer(TooManyRequests(c, rule.duration))

-----------------------------------------------------------------------------
(* The processes around the handler                                        *)

\* Time passes.
AdvanceClock ==
    /\ clock + Tick <= MaxClock
    /\ clock' = clock + Tick
    /\ UNCHANGED <<cached, gen, latest, zone, reply>>

\* ngx_time_update() of a worker, once per turn of its event loop.
UpdateTime(w) ==
    /\ cached[w] # clock
    /\ cached' = [cached EXCEPT ![w] = clock]
    /\ UNCHANGED <<clock, gen, latest, zone, reply>>

\* A reload: gl_shm_init hands the old zone's memory to the new configuration.
Reload ==
    /\ latest + 1 \in DOMAIN Config
    /\ latest' = latest + 1
    /\ UNCHANGED <<clock, cached, gen, zone, reply>>

\* An old worker is gone and a worker with the last configuration takes its slot.
ReplaceWorker(w) ==
    /\ gen[w] # latest
    /\ gen' = [gen EXCEPT ![w] = latest]
    /\ cached' = [cached EXCEPT ![w] = clock]
    /\ UNCHANGED <<clock, latest, zone, reply>>

Init ==
    /\ clock = 0
    /\ cached = [w \in Worker |-> 0]
    /\ gen = [w \in Worker |-> 1]
    /\ latest = 1
    /\ zone = [tree |-> [k \in {} |-> GLNode(0)], queue |-> <<>>]
    /\ reply = NoReply

Limit(w, c, s, i) ==
    \/ StartBucket(w, c, s, i)
    \/ PassUntracked(w, c, s, i)
    \/ PassWithinRate(w, c, s, i)
    \/ Penalise(w, c, s, i)
    \/ RefuseUnrecorded(w, c, s, i)

Request(w, c) ==
    \/ Block(w, c)
    \/ \E s \in Subject :
         \/ PassUnmatched(w, c, s)
         \/ \E i \in RuleIndex : Limit(w, c, s, i)

Next ==
    \/ AdvanceClock
    \/ Reload
    \/ \E w \in Worker :
         \/ UpdateTime(w)
         \/ ReplaceWorker(w)
         \/ \E c \in Client : Request(w, c)

Spec == Init /\ [][Next]_vars

-----------------------------------------------------------------------------
(* Properties                                                              *)

\* Types of the state: every worker runs a configuration that exists, with a
\* clock that is never ahead of time, and every node is of the zone's types.
TypeOK ==
    /\ clock \in Nat
    /\ cached \in [Worker -> 0..clock]
    /\ latest \in DOMAIN Config
    /\ gen \in [Worker -> 1..latest]
    /\ Keys(zone) \subseteq Key
    /\ zone.tree \in [Keys(zone) -> Node]
    /\ zone.queue \in Seq(Key)
    /\ reply \in Reply \cup {NoReply}

\* The tree and the LRU queue hold the same nodes, each once, and never more
\* than the slab has room for: no path through gl_handler and gl_expire leaks
\* a node, frees one that is still linked, or links two with one key.
ZoneConsistent ==
    /\ ToSet(zone.queue) = Keys(zone)
    /\ IsInjective(zone.queue)
    /\ Cardinality(Keys(zone)) <= Capacity

\* The zone, seen by its clients (README "persistent penalty period", "Greylist
\* entries ... survive a graceful reload"): a sentenced client is refused until
\* the sentence is served, however stale a worker's clock, full the slab, or
\* new the configuration; Retry-After never ends before the sentence does.
Penalty == INSTANCE PenaltyBox WITH
    time     <- Wall(clock),
    sentence <- [c \in Client |-> IF GLKey(c) \in Keys(zone)
                                  THEN zone.tree[GLKey(c)].expiry ELSE 0]

ImplementsPenaltyBox == Penalty!Spec

\* README "the entry is removed from the rbtree and the client is allowed through
\* immediately": a request that finds its own entry lapsed is let through.
LapsedIsServed ==
    [][\A c \in Client :
         /\ GLKey(c) \in Keys(zone)
         /\ reply'.client = c
         /\ GLKey(c) \in Keys(zone') => zone'.tree[GLKey(c)] # zone.tree[GLKey(c)]
         => reply'.status = "declined"]_vars

\* README "per client, per rule", "its own independent counter": a request of
\* one client leaves the bucket of another alone, unless that bucket has not
\* been used for the zone's timeout.
IndependentBuckets ==
    [][\A c \in Client, i \in RuleIndex :
         /\ RLKey(i, c) \in Keys(zone)
         /\ reply'.client # c
         => \/ RLKey(i, c) \in Keys(zone') /\ zone'.tree[RLKey(i, c)] = zone.tree[RLKey(i, c)]
            \/ \E g \in DOMAIN Config :
                 clock + 1000 > zone.tree[RLKey(i, c)].last_ms + 1000 * Config[g].timeout]_vars

=============================================================================
