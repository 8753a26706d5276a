----------------------------- MODULE SvcListing -----------------------------
(***************************************************************************)
(* SvcDiscovery with a history of what a query could see: for each worker, *)
(* the services whose file has not been touched since the worker listed    *)
(* the directory last, and those whose file was whole at some time since.  *)
(***************************************************************************)
EXTENDS SvcDiscovery

VARIABLES untouched, seen

listVars == <<vars, untouched, seen>>

StartsListing(w) == job[w].op # "list" /\ job'[w].op = "list"

Watch ==
    /\ untouched' = [w \in Worker |->
         IF StartsListing(w) THEN IsWhole
         ELSE IF job'[w].op = "list" THEN {s \in untouched[w] : file'[s] = file[s]}
         ELSE {}]
    /\ seen' = [w \in Worker |->
         IF job'[w].op = "list" THEN seen[w] \cup IsWhole' ELSE {}]

ListInit ==
    /\ Init
    /\ untouched = [w \in Worker |-> {}]
    /\ seen = [w \in Worker |-> {}]

ListNext == Next /\ Watch

ListSpec == ListInit /\ [][ListNext]_listVars /\ Fairness

\* A query sees every service whose file nobody touched while it ran, and none that
\* was not registered at any time meanwhile.
ListingFaithful ==
    \A w \in Worker :
      job[w].op = "list" =>
        /\ untouched[w] \ job[w].todo \subseteq job[w].found
        /\ job[w].found \subseteq seen[w]

=============================================================================
