---------------------------- MODULE SvcDiscovery ----------------------------
(***************************************************************************)
(* nginx-service-discovery: svcDiscovery.js over its registry directory,   *)
(* one JSON file per service, shared by the worker processes without locks.*)
(*                                                                         *)
(* A handler runs to its end before its worker does anything else, since   *)
(* the file operations of njs complete before they return; the handlers of *)
(* different workers interleave at every file operation.  A service is a   *)
(* tuple (proto, name, addr, port), and stands for the path of its file.   *)
(***************************************************************************)
EXTENDS Integers, FiniteSets

CONSTANTS
    Service,    \* discoverable servers
    Worker,     \* worker processes
    Cleaner,    \* the worker that runs js_periodic
    TTL,        \* TTL_MS
    Stall,      \* bound on the time between the clock reading of a collect and its write
    MaxClock,   \* bound on the clock
    MaxCrashes  \* bound on crashes of workers

ASSUME CleanerAssumption == Cleaner \in Worker
ASSUME TimeAssumption    == TTL \in Nat /\ Stall \in Nat /\ Stall <= TTL

VARIABLES
    clock,   \* Date.now()
    file,    \* file[s]: what the registry directory holds for service s
    job,     \* job[w]: the handler that worker w runs, and what it remembers
    crashes  \* how many workers died

vars == <<clock, file, job, crashes>>

-----------------------------------------------------------------------------
(* Types                                                                   *)

Absent         == [state |-> "absent", updated |-> 0]
Torn           == [state |-> "torn", updated |-> 0]
Whole(updated) == [state |-> "whole", updated |-> updated]

File == [state : {"absent", "torn", "whole"}, updated : Nat]

Idle                      == [op |-> "idle"]
Opening(s, updated)       == [op |-> "open", svc |-> s, updated |-> updated]
Writing(s, updated, here) == [op |-> "write", svc |-> s, updated |-> updated,
                              linked |-> here]
Scanning(now)             == [op |-> "scan", now |-> now]
Checking(now, todo)       == [op |-> "check", now |-> now, todo |-> todo]
Removing(now, todo, s)    == [op |-> "remove", now |-> now, todo |-> todo, svc |-> s]
Listing(todo, found)      == [op |-> "list", todo |-> todo, found |-> found]

Job == [op : {"idle"}]
    \cup [op : {"open"}, svc : Service, updated : Nat]
    \cup [op : {"write"}, svc : Service, updated : Nat, linked : BOOLEAN]
    \cup [op : {"scan"}, now : Nat]
    \cup [op : {"check"}, now : Nat, todo : SUBSET Service]
    \cup [op : {"remove"}, now : Nat, todo : SUBSET Service, svc : Service]
    \cup [op : {"list"}, todo : SUBSET Service, found : SUBSET Service]

Exists  == {s \in Service : file[s].state # "absent"}
IsWhole == {s \in Service : file[s].state = "whole"}

-----------------------------------------------------------------------------
(* collect(): a mirrored request of a server reports its service.          *)

Collect(w, s) ==
    /\ job[w] = Idle
    /\ job' = [job EXCEPT ![w] = Opening(s, clock)]
    /\ UNCHANGED <<clock, file, crashes>>

\* writeFile opens the file and truncates it ...
Open(w) ==
    /\ job[w].op = "open"
    /\ file' = [file EXCEPT ![job[w].svc] = Torn]
    /\ job' = [job EXCEPT ![w] = Writing(@.svc, @.updated, TRUE)]
    /\ UNCHANGED <<clock, crashes>>

\* ... and writes it: to the file it opened, which may have lost its name.
Write(w) ==
    /\ job[w].op = "write"
    /\ file' = IF job[w].linked
               THEN [file EXCEPT ![job[w].svc] = Whole(job[w].updated)]
               ELSE file
    /\ job' = [job EXCEPT ![w] = Idle]
    /\ UNCHANGED <<clock, crashes>>

\* writeFile throws, before or after it truncated the file: 500.
WriteFails(w) ==
    /\ job[w].op \in {"open", "write"}
    /\ job' = [job EXCEPT ![w] = Idle]
    /\ UNCHANGED <<clock, file, crashes>>

-----------------------------------------------------------------------------
(* cleanup(): the periodic job of one worker.                              *)

\* Mutant of StartCleanup: the time is rounded up.
StartCleanupAhead ==
    /\ job[Cleaner] = Idle
    /\ job' = [job EXCEPT ![Cleaner] = Scanning(clock + 1)]
    /\ UNCHANGED <<clock, file, crashes>>

\* The timer of js_periodic fires.
StartCleanup ==
    /\ job[Cleaner] = Idle
    /\ job' = [job EXCEPT ![Cleaner] = Scanning(clock)]
    /\ UNCHANGED <<clock, file, crashes>>

ScanDir(w) ==
    /\ job[w].op = "scan"
    /\ job' = [job EXCEPT ![w] = Checking(@.now, Exists)]
    /\ UNCHANGED <<clock, file, crashes>>

\* Mutants of Stale: a file is kept for one unit of time more, and one that cannot
\* be parsed is kept.
StaleLater(s, now)   == file[s].state # "whole" \/ now - file[s].updated > TTL + 1
StaleIfWhole(s, now) == file[s].state = "whole" /\ now - file[s].updated > TTL

\* The file is to be removed: it is too old, or cannot be read or parsed.
Stale(s, now) == file[s].state # "whole" \/ now - file[s].updated > TTL

Check(w) ==
    /\ job[w].op = "check"
    /\ \E s \in job[w].todo :
         job' = [job EXCEPT ![w] = IF Stale(s, @.now)
                                   THEN Removing(@.now, @.todo, s)
                                   ELSE Checking(@.now, @.todo \ {s})]
    /\ UNCHANGED <<clock, file, crashes>>

\* unlink: the file loses its name, also for a collect that has it open.
Unlinked(j, s) ==
    IF j.op = "write" /\ j.svc = s THEN [j EXCEPT !.linked = FALSE] ELSE j

Remove(w) ==
    /\ job[w].op = "remove"
    /\ LET s == job[w].svc
       IN  /\ file' = [file EXCEPT ![s] = Absent]
           /\ job' = [v \in Worker |->
                        IF v = w THEN Checking(job[w].now, job[w].todo \ {s})
                                 ELSE Unlinked(job[v], s)]
    /\ UNCHANGED <<clock, crashes>>

EndCleanup(w) ==
    /\ job[w].op = "check"
    /\ job[w].todo = {}
    /\ job' = [job EXCEPT ![w] = Idle]
    /\ UNCHANGED <<clock, file, crashes>>

-----------------------------------------------------------------------------
(* readAllServices(): the part of the three query handlers that reads.     *)

StartListing(w) ==
    /\ job[w] = Idle
    /\ job' = [job EXCEPT ![w] = Listing(Exists, {})]
    /\ UNCHANGED <<clock, file, crashes>>

\* Mutant of ReadFile: a file that cannot be parsed loses those read before it.
ReadFileOrFail(w) ==
    /\ job[w].op = "list"
    /\ \E s \in job[w].todo :
         job' = [job EXCEPT ![w] = Listing(@.todo \ {s},
                                           IF s \in IsWhole THEN @.found \cup {s} ELSE {})]
    /\ UNCHANGED <<clock, file, crashes>>

\* A file that is gone or cannot be parsed is left out.
ReadFile(w) ==
    /\ job[w].op = "list"
    /\ \E s \in job[w].todo :
         job' = [job EXCEPT ![w] = Listing(@.todo \ {s}, @.found \cup ({s} \cap IsWhole))]
    /\ UNCHANGED <<clock, file, crashes>>

Respond(w) ==
    /\ job[w].op = "list"
    /\ job[w].todo = {}
    /\ job' = [job EXCEPT ![w] = Idle]
    /\ UNCHANGED <<clock, file, crashes>>

-----------------------------------------------------------------------------
(* The processes around the handlers                                       *)

\* A worker dies in the middle of a handler and is replaced.
Crash(w) ==
    /\ job[w] # Idle
    /\ crashes < MaxCrashes
    /\ crashes' = crashes + 1
    /\ job' = [job EXCEPT ![w] = Idle]
    /\ UNCHANGED <<clock, file>>

\* Time passes, but a collect does not hang for longer than Stall.
Tick ==
    /\ clock < MaxClock
    /\ \A w \in Worker :
         job[w].op \in {"open", "write"} => clock + 1 - job[w].updated <= Stall
    /\ clock' = clock + 1
    /\ UNCHANGED <<file, job, crashes>>

Init ==
    /\ clock = 0
    /\ file = [s \in Service |-> Absent]
    /\ job = [w \in Worker |-> Idle]
    /\ crashes = 0

\* What a worker does next in the handler it runs.
Step(w) ==
    \/ Open(w) \/ Write(w) \/ WriteFails(w)
    \/ ScanDir(w) \/ Check(w) \/ Remove(w) \/ EndCleanup(w)
    \/ ReadFile(w) \/ Respond(w)

Next ==
    \/ Tick
    \/ StartCleanup
    \/ \E w \in Worker :
         \/ Step(w)
         \/ StartListing(w)
         \/ Crash(w)
         \/ \E s \in Service : Collect(w, s)

\* A handler that runs goes on, and the timer of an event loop is served however
\* busy the worker is.  No report and no query is promised.
Fairness ==
    /\ WF_vars(Tick)
    /\ SF_vars(StartCleanup)
    /\ \A w \in Worker : WF_vars(Step(w))

Spec == Init /\ [][Next]_vars /\ Fairness

-----------------------------------------------------------------------------
(* Properties                                                              *)

\* Types of the state; only the cleaner cleans, and nothing is dated in the future.
TypeOK ==
    /\ clock \in Nat
    /\ crashes \in Nat
    /\ file \in [Service -> File]
    /\ job \in [Worker -> Job]
    /\ \A s \in Service : file[s].updated <= clock
    /\ \A w \in Worker :
         /\ job[w].op \in {"open", "write"} => clock - job[w].updated \in 0..Stall
         /\ job[w].op \in {"scan", "check", "remove"} => w = Cleaner /\ job[w].now <= clock

\* svcDiscovery.js:150-152 "After TTL_MS of silence its file will be removed by the
\* next cleanup() run": at the end of a run, whatever collects and crashes went on
\* beside it, no file is left that was too old when the run began.
NextRunEvicts ==
    [][\A s \in Service :
         /\ job[Cleaner].op = "check"
         /\ job'[Cleaner] = Idle
         /\ crashes' = crashes
         /\ file[s].state = "whole"
         => job[Cleaner].now - file[s].updated <= TTL]_vars

\* A service that falls silent disappears: no file keeps one date for ever (but
\* for the dates too close to the bound on the clock to become stale).
SilentIsForgotten ==
    \A s \in Service, t \in 0..(MaxClock - TTL - 1) :
        file[s] = Whole(t) ~> file[s] # Whole(t)

\* A file torn by a crash or a failed write does not stay so.
TornHeals == \A s \in Service : file[s] = Torn ~> file[s] # Torn

\* svcDiscovery.js:147-149 "a collect() and cleanup() for the same file cannot
\* interleave at the filesystem level": cleanup removes no file but those that are
\* stale when they are removed.
FreshIsKept ==
    [][\A s \in Service :
         file[s].state = "whole" /\ file'[s] = Absent => clock - file[s].updated > TTL]_vars

=============================================================================
