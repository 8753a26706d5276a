---------------------------- MODULE GreylistRate ----------------------------
(***************************************************************************)
(* The rate limit of a greylist zone: Greylist with a history of what each *)
(* bucket has granted.  granted[k] counts the requests that bucket k let   *)
(* through since it was started, and keeps the clock reading that started  *)
(* it; the count of a bucket that does not exist means nothing.            *)
(***************************************************************************)
EXTENDS Greylist

VARIABLE granted

BucketKey == {RLKey(i, c) : i \in RuleIndex, c \in Client}

rateVars == <<vars, granted>>

\* A step that starts bucket k, and one that moves a request through it.
Starts(k) == k \notin Keys(zone) /\ k \in Keys(zone')

Grants(k) ==
    /\ k \in Keys(zone) /\ k \in Keys(zone')
    /\ zone'.tree[k] # zone.tree[k]
    /\ reply'.status = "declined"

Count ==
    granted' = [k \in BucketKey |->
        IF Starts(k) THEN [count |-> 1, since |-> zone'.tree[k].last_ms]
        ELSE IF Grants(k) THEN [granted[k] EXCEPT !.count = @ + 1]
        ELSE granted[k]]

RateInit == Init /\ granted = [k \in BucketKey |-> [count |-> 0, since |-> 0]]

RateNext == Next /\ Count

RateSpec == RateInit /\ [][RateNext]_rateVars

\* The limit README states ("rate: allowed request rate", "burst: extra requests
\* above the rate"): of the real time since a bucket was started, it has let
\* through its first request, the burst, and what the rate allows for that time.
\* Stated for a zone whose rules no reload changes.
RateRespected ==
    \A k \in BucketKey \cap Keys(zone) :
      LET rule == Config[1].rules[k.rule]
      IN  1000 * (granted[k].count - 1)
            <= rule.burst + (rule.rate * (clock - granted[k].since)) \div 1000

\* What makes the limit hold: the level of a bucket is at least what it granted
\* less what has leaked since it was started.
LevelAccounts ==
    \A k \in BucketKey \cap Keys(zone) :
      LET node == zone.tree[k]
          rule == Config[1].rules[k.rule]
      IN  node.excess >= 1000 * (granted[k].count - 1)
                         - (rule.rate * (node.last_ms - granted[k].since)) \div 1000

\* The queue is in order of last use among the buckets, so that the collector,
\* which looks at its tail only, finds the longest unused bucket there.
LeastRecentLast ==
    \A i, j \in DOMAIN zone.queue :
      i < j /\ zone.queue[i].type = "RL" /\ zone.queue[j].type = "RL"
      => zone.tree[zone.queue[i]].last_ms >= zone.tree[zone.queue[j]].last_ms

=============================================================================
