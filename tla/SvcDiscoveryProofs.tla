------------------------- MODULE SvcDiscoveryProofs -------------------------
(***************************************************************************)
(* Theorems about the registry, for any number of services, workers and    *)
(* crashes, any time to live and any clock; and about a query over it: the *)
(* history of SvcListing restrains nothing, and what a query has found     *)
(* lies between the files nobody touched and those that were whole at some *)
(* time while it ran.                                                      *)
(***************************************************************************)
EXTENDS SvcListing, TLAPS

\* What a cleanup run has done so far: a service it is through with has no file
\* that was too old when the run began.
CleanupDone ==
    \A s \in Service :
      /\ job[Cleaner].op \in {"check", "remove"}
      /\ s \notin job[Cleaner].todo
      /\ file[s].state = "whole"
      => job[Cleaner].now - file[s].updated <= TTL

IInv == TypeOK /\ CleanupDone

\* The fields of a job tell its kind.
LEMMA JobFields ==
    ASSUME TypeOK, NEW w \in Worker
    PROVE  /\ job[w].op \in {"idle", "open", "write", "scan", "check", "remove", "list"}
           /\ job[w].op \in {"open", "write"} => job[w].svc \in Service /\ job[w].updated \in Nat
           /\ job[w].op = "write" => job[w].linked \in BOOLEAN
           /\ job[w].op \in {"scan", "check", "remove"} => job[w].now \in Nat
           /\ job[w].op \in {"check", "remove", "list"} => job[w].todo \in SUBSET Service
           /\ job[w].op = "remove" => job[w].svc \in Service
           /\ job[w].op = "list" => job[w].found \in SUBSET Service
<1>1. job[w] \in Job
  BY DEF TypeOK
<1>2. QED BY <1>1 DEF Job

\* The jobs the handlers move to are jobs.
LEMMA JobTypes ==
    /\ Idle \in Job /\ Idle.op = "idle"
    /\ \A s \in Service, t \in Nat : Opening(s, t) \in Job
    /\ \A s \in Service, t \in Nat, b \in BOOLEAN : Writing(s, t, b) \in Job
    /\ \A t \in Nat : Scanning(t) \in Job
    /\ \A t \in Nat, S \in SUBSET Service : Checking(t, S) \in Job
    /\ \A t \in Nat, S \in SUBSET Service, s \in Service : Removing(t, S, s) \in Job
    /\ \A S, T \in SUBSET Service : Listing(S, T) \in Job
  BY DEF Job, Idle, Opening, Writing, Scanning, Checking, Removing, Listing

\* What a file can be: only a whole one is whole, and carries a date.
LEMMA FileTypes ==
    /\ Absent \in File /\ Torn \in File
    /\ \A t \in Nat : Whole(t) \in File /\ Whole(t).updated = t
    /\ Absent.updated = 0 /\ Torn.updated = 0
    /\ Absent.state # "whole" /\ Torn.state # "whole"
  BY DEF Absent, Torn, Whole, File

-----------------------------------------------------------------------------
(* Steps of one handler                                                    *)

\* A job that is dated right, and cleans only in the cleaner.
Dated(w, j) ==
    /\ j.op \in {"open", "write"} => clock - j.updated \in 0..Stall
    /\ j.op \in {"scan", "check", "remove"} => w = Cleaner /\ j.now <= clock

\* A worker's step that leaves the files alone keeps the types.
LEMMA JobStep ==
    ASSUME TypeOK, NEW w \in Worker, NEW j \in Job, Dated(w, j),
           job' = [job EXCEPT ![w] = j], UNCHANGED <<clock, file>>, crashes' \in Nat
    PROVE  TypeOK'
<1>1. job' \in [Worker -> Job]
  BY DEF TypeOK
<1>2. \A v \in Worker : job'[v] = IF v = w THEN j ELSE job[v]
  BY DEF TypeOK
<1>3. QED BY <1>1, <1>2 DEF TypeOK, Dated

\* ... and the progress of a cleanup, if it is not the cleaner's.
LEMMA OtherStep ==
    ASSUME IInv, NEW w \in Worker, NEW j \in Job, Dated(w, j),
           j.op \notin {"check", "remove"},
           job' = [job EXCEPT ![w] = j], UNCHANGED <<clock, file>>, crashes' \in Nat
    PROVE  IInv'
<1>1. TypeOK'
  BY JobStep DEF IInv
<1>2. job'[Cleaner] = IF Cleaner = w THEN j ELSE job[Cleaner]
  BY CleanerAssumption DEF IInv, TypeOK
<1>3. CleanupDone'
  BY <1>2 DEF IInv, CleanupDone
<1>4. QED BY <1>1, <1>3 DEF IInv

\* A report begins.
LEMMA CollectInv ==
    ASSUME IInv, NEW w \in Worker, NEW s \in Service, Collect(w, s)
    PROVE  IInv'
<1>1. Opening(s, clock) \in Job /\ crashes' \in Nat
  BY JobTypes DEF IInv, TypeOK, Collect
<1>2. Dated(w, Opening(s, clock)) /\ Opening(s, clock).op = "open"
  BY TimeAssumption DEF Dated, Opening, IInv, TypeOK
<1>3. QED BY <1>1, <1>2, OtherStep DEF Collect

\* Ending a handler without touching a file, in any way.
LEMMA IdleInv ==
    ASSUME IInv, NEW w \in Worker, job' = [job EXCEPT ![w] = Idle],
           UNCHANGED <<clock, file>>, crashes' \in Nat
    PROVE  IInv'
<1>1. Idle \in Job /\ Idle.op = "idle"
  BY JobTypes
<1>2. Dated(w, Idle)
  BY <1>1 DEF Dated
<1>3. QED BY <1>1, <1>2, OtherStep

\* The timer starts a run, dated now.
LEMMA StartCleanupInv ==
    ASSUME IInv, StartCleanup
    PROVE  IInv'
<1>1. Scanning(clock) \in Job /\ crashes' \in Nat
  BY JobTypes DEF IInv, TypeOK, StartCleanup
<1>2. Dated(Cleaner, Scanning(clock)) /\ Scanning(clock).op = "scan"
  BY DEF Dated, Scanning, IInv, TypeOK
<1>3. QED BY <1>1, <1>2, CleanerAssumption, OtherStep DEF StartCleanup

\* A query touches no file.
LEMMA ListInv ==
    ASSUME IInv, NEW w \in Worker, StartListing(w) \/ ReadFile(w)
    PROVE  IInv'
<1>1. PICK S \in SUBSET Service, T \in SUBSET Service :
        job' = [job EXCEPT ![w] = Listing(S, T)]
  <2>1. CASE StartListing(w)
    BY <2>1 DEF StartListing, Exists
  <2>2. CASE ReadFile(w)
    <3>1. PICK s \in job[w].todo :
            job' = [job EXCEPT ![w] = Listing(@.todo \ {s}, @.found \cup ({s} \cap IsWhole))]
      BY <2>2 DEF ReadFile
    <3>2. job[w].todo \in SUBSET Service /\ job[w].found \in SUBSET Service
      BY <2>2, JobFields DEF ReadFile, IInv
    <3>3. job' = [job EXCEPT ![w] = Listing(job[w].todo \ {s}, job[w].found \cup ({s} \cap IsWhole))]
      BY <3>1
    <3>4. job[w].found \cup ({s} \cap IsWhole) \in SUBSET Service
      BY <3>2 DEF IsWhole
    <3>5. QED BY <3>2, <3>3, <3>4
  <2>3. QED BY <2>1, <2>2
<1>2. Listing(S, T) \in Job /\ Listing(S, T).op = "list"
  BY JobTypes DEF Listing
<1>3. Dated(w, Listing(S, T))
  BY <1>2 DEF Dated
<1>4. crashes' \in Nat /\ UNCHANGED <<clock, file>>
  BY DEF IInv, TypeOK, StartListing, ReadFile
<1>5. QED BY <1>1, <1>2, <1>3, <1>4, OtherStep

\* The directory is read: whatever exists is still to be checked.
LEMMA ScanInv ==
    ASSUME IInv, NEW w \in Worker, ScanDir(w)
    PROVE  IInv'
<1>1. w = Cleaner /\ job[w].now \in Nat /\ job[w].now <= clock
  BY JobFields DEF ScanDir, IInv, TypeOK
<1> DEFINE j == Checking(job[w].now, Exists)
<1>2. j \in Job /\ j.op = "check" /\ j.now = job[w].now /\ j.todo = Exists
  BY <1>1, JobTypes DEF Checking, Exists
<1>3. /\ job' = [job EXCEPT ![w] = j] /\ UNCHANGED <<clock, file>>
      /\ crashes' \in Nat
  BY DEF ScanDir, IInv, TypeOK
<1> HIDE DEF j
<1>4. Dated(w, j)
  BY <1>1, <1>2 DEF Dated
<1>5. TypeOK'
  BY <1>2, <1>3, <1>4, JobStep DEF IInv
<1>6. job'[Cleaner] = j
  BY <1>1, <1>3 DEF IInv, TypeOK
<1>7. CleanupDone'
  BY <1>2, <1>3, <1>6 DEF CleanupDone, Exists
<1>8. QED BY <1>5, <1>7 DEF IInv

\* A file is checked: it is kept if it is fresh, and is still to be removed otherwise.
LEMMA CheckInv ==
    ASSUME IInv, NEW w \in Worker, Check(w)
    PROVE  IInv'
<1>1. /\ w = Cleaner /\ job[w].now \in Nat /\ job[w].now <= clock
      /\ job[w].op = "check" /\ job[w].todo \in SUBSET Service
  BY JobFields DEF Check, IInv, TypeOK
<1>2. PICK s \in job[w].todo :
        job' = [job EXCEPT ![w] = IF Stale(s, job[w].now)
                                  THEN Removing(job[w].now, job[w].todo, s)
                                  ELSE Checking(job[w].now, job[w].todo \ {s})]
  BY DEF Check
<1> DEFINE j == IF Stale(s, job[w].now) THEN Removing(job[w].now, job[w].todo, s)
                ELSE Checking(job[w].now, job[w].todo \ {s})
<1>3. /\ j \in Job /\ j.op \in {"check", "remove"} /\ j.now = job[w].now
      /\ Stale(s, job[w].now) => j.todo = job[w].todo
      /\ ~Stale(s, job[w].now) => j.todo = job[w].todo \ {s}
  BY <1>1, JobTypes DEF Checking, Removing
<1>4. /\ job' = [job EXCEPT ![w] = j] /\ UNCHANGED <<clock, file>>
      /\ crashes' \in Nat
  BY <1>2 DEF Check, IInv, TypeOK
<1> HIDE DEF j
<1>5. Dated(w, j)
  BY <1>1, <1>3 DEF Dated
<1>6. TypeOK'
  BY <1>3, <1>4, <1>5, JobStep DEF IInv
<1>7. job'[Cleaner] = j
  BY <1>1, <1>4 DEF IInv, TypeOK
<1>8. ASSUME NEW x \in Service, x \notin j.todo, file[x].state = "whole"
      PROVE  j.now - file[x].updated <= TTL
  <2>1. CASE x \notin job[w].todo
    BY <1>1, <1>3, <1>8, <2>1 DEF IInv, CleanupDone
  <2>2. CASE x \in job[w].todo
    <3>1. x = s /\ ~Stale(s, job[w].now)
      BY <1>3, <1>8, <2>2
    <3>2. job[w].now \in Nat /\ file[x].updated \in Nat
      BY <1>1 DEF IInv, TypeOK, File
    <3>3. QED BY <1>3, <1>8, <3>1, <3>2, TimeAssumption DEF Stale
  <2>3. QED BY <2>1, <2>2
<1>9. CleanupDone'
  BY <1>4, <1>7, <1>8 DEF CleanupDone
<1>10. QED BY <1>6, <1>9 DEF IInv

\* A file is removed, and the run is through with it.
LEMMA RemoveInv ==
    ASSUME IInv, NEW w \in Worker, Remove(w)
    PROVE  IInv'
<1> DEFINE s == job[w].svc
           j == Checking(job[w].now, job[w].todo \ {s})
<1>1. /\ w = Cleaner /\ job[w].now \in Nat /\ job[w].now <= clock
      /\ job[w].op = "remove" /\ job[w].todo \in SUBSET Service /\ s \in Service
  BY JobFields DEF Remove, IInv, TypeOK
<1>2. /\ j \in Job /\ j.op = "check" /\ j.now = job[w].now
      /\ j.todo = job[w].todo \ {s}
  BY <1>1, JobTypes DEF Checking
<1>3. /\ file' = [file EXCEPT ![s] = Absent]
      /\ job' = [v \in Worker |-> IF v = w THEN j ELSE Unlinked(job[v], s)]
      /\ UNCHANGED <<clock, crashes>>
  BY DEF Remove
<1> HIDE DEF s, j
<1>4. ASSUME NEW v \in Worker
      PROVE  /\ Unlinked(job[v], s) \in Job /\ Unlinked(job[v], s).op = job[v].op
             /\ job[v].op \in {"open", "write"} =>
                  Unlinked(job[v], s).updated = job[v].updated
             /\ job[v].op \in {"scan", "check", "remove"} => Unlinked(job[v], s) = job[v]
  <2>1. CASE job[v].op = "write"
    <3>1. job[v] \in [op : {"write"}, svc : Service, updated : Nat, linked : BOOLEAN]
      BY <2>1 DEF IInv, TypeOK, Job
    <3>2. QED BY <2>1, <3>1 DEF Unlinked, Job
  <2>2. CASE job[v].op # "write"
    BY <2>2 DEF Unlinked, IInv, TypeOK
  <2>3. QED BY <2>1, <2>2
<1>5. TypeOK'
  <2>1. file' \in [Service -> File] /\ \A x \in Service : file'[x].updated <= clock
    BY <1>1, <1>3, FileTypes DEF IInv, TypeOK
  <2>2. job' \in [Worker -> Job]
    BY <1>2, <1>3, <1>4
  <2>3. ASSUME NEW v \in Worker PROVE Dated(v, job'[v])
    BY <1>1, <1>2, <1>3, <1>4 DEF Dated, IInv, TypeOK
  <2>4. QED BY <1>3, <2>1, <2>2, <2>3 DEF IInv, TypeOK, Dated
<1>6. job'[Cleaner] = j
  BY <1>1, <1>3
<1>7. \A x \in Service : file'[x] = IF x = s THEN Absent ELSE file[x]
  BY <1>1, <1>3 DEF IInv, TypeOK
<1>8. CleanupDone'
  BY <1>1, <1>2, <1>6, <1>7, FileTypes DEF IInv, CleanupDone
<1>9. QED BY <1>5, <1>8 DEF IInv

\* A collect that opens its file tears it, whoever checks or has checked it.
LEMMA OpenInv ==
    ASSUME IInv, NEW w \in Worker, Open(w)
    PROVE  IInv'
<1> DEFINE s == job[w].svc
           j == Writing(s, job[w].updated, TRUE)
<1>1. job[w].op = "open" /\ s \in Service /\ job[w].updated \in Nat
  BY JobFields DEF Open, IInv
<1>2. /\ j \in Job /\ j.op = "write" /\ j.updated = job[w].updated
  BY <1>1, JobTypes DEF Writing
<1>3. /\ job' = [job EXCEPT ![w] = j] /\ UNCHANGED <<clock, crashes>>
      /\ file' = [file EXCEPT ![s] = Torn]
  BY DEF Open
<1> HIDE DEF s, j
<1>4. file' \in [Service -> File] /\ \A x \in Service : file'[x].updated <= clock
  BY <1>1, <1>3, FileTypes DEF IInv, TypeOK
<1>5. \A v \in Worker : job'[v] = IF v = w THEN j ELSE job[v]
  BY <1>3 DEF IInv, TypeOK
<1>6. TypeOK'
  BY <1>1, <1>2, <1>3, <1>4, <1>5 DEF IInv, TypeOK
<1>7. \A x \in Service : file'[x] = IF x = s THEN Torn ELSE file[x]
  BY <1>1, <1>3 DEF IInv, TypeOK
<1>8. CleanupDone'
  BY <1>2, <1>5, <1>7, FileTypes, CleanerAssumption DEF IInv, CleanupDone
<1>9. QED BY <1>6, <1>8 DEF IInv

\* A collect writes a date that is no older than Stall, hence not too old for a
\* cleanup that is under way.
LEMMA WriteInv ==
    ASSUME IInv, NEW w \in Worker, Write(w)
    PROVE  IInv'
<1> DEFINE s == job[w].svc
           t == job[w].updated
<1>1. /\ job[w].op = "write" /\ s \in Service /\ t \in Nat /\ clock \in Nat
      /\ clock - t \in 0..Stall
  BY JobFields DEF Write, IInv, TypeOK
<1>2. CASE file' = file
  BY <1>2, IdleInv DEF Write, IInv, TypeOK
<1>3. CASE file' = [file EXCEPT ![s] = Whole(t)]
  <2>1. job' = [job EXCEPT ![w] = Idle] /\ UNCHANGED <<clock, crashes>>
    BY DEF Write
  <2> HIDE DEF s, t
  <2>2. \A x \in Service : file'[x] = IF x = s THEN Whole(t) ELSE file[x]
    BY <1>1, <1>3 DEF IInv, TypeOK
  <2>3. file' \in [Service -> File] /\ \A x \in Service : file'[x].updated <= clock
    BY <1>1, <1>3, <2>2, FileTypes, TimeAssumption DEF IInv, TypeOK
  <2>4. \A v \in Worker : job'[v] = IF v = w THEN Idle ELSE job[v]
    BY <2>1 DEF IInv, TypeOK
  <2>5. TypeOK'
    BY <2>1, <2>3, <2>4, JobTypes DEF IInv, TypeOK
  <2>6. ASSUME NEW x \in Service, job'[Cleaner].op \in {"check", "remove"},
               x \notin job'[Cleaner].todo, file'[x].state = "whole"
        PROVE  job'[Cleaner].now - file'[x].updated <= TTL
    <3>1. job'[Cleaner] = job[Cleaner] /\ job[Cleaner].op \in {"check", "remove"}
      BY <2>4, <2>6, JobTypes, CleanerAssumption
    <3>2. job[Cleaner].now \in Nat /\ job[Cleaner].now <= clock
      BY <3>1, JobFields, CleanerAssumption DEF IInv, TypeOK
    <3>3. CASE x = s
      <4>1. file'[x].updated = t
        BY <2>2, <3>3, <1>1, FileTypes
      <4>2. QED BY <1>1, <3>1, <3>2, <4>1, TimeAssumption
    <3>4. CASE x # s
      BY <2>2, <2>6, <3>1, <3>4 DEF IInv, CleanupDone
    <3>5. QED BY <3>3, <3>4
  <2>7. QED BY <2>5, <2>6 DEF IInv, CleanupDone
<1>4. QED BY <1>2, <1>3 DEF Write

\* Time passing dates nothing in the future, and no collect beyond Stall.
LEMMA TickInv ==
    ASSUME IInv, Tick
    PROVE  IInv'
<1>1. clock \in Nat /\ clock' = clock + 1 /\ UNCHANGED <<file, job, crashes>>
  BY DEF Tick, IInv, TypeOK
<1>2. \A s \in Service : file[s].updated \in Nat /\ file[s].updated <= clock
  BY DEF IInv, TypeOK, File
<1>3. ASSUME NEW w \in Worker
      PROVE  /\ job[w].op \in {"open", "write"} => clock' - job[w].updated \in 0..Stall
             /\ job[w].op \in {"scan", "check", "remove"} => job[w].now <= clock'
  <2>1. /\ job[w].op \in {"open", "write"} => job[w].updated \in Nat
        /\ job[w].op \in {"scan", "check", "remove"} => job[w].now \in Nat
    BY JobFields DEF IInv
  <2>2. QED BY <1>1, <2>1, TimeAssumption DEF Tick, IInv, TypeOK
<1>4. TypeOK'
  BY <1>1, <1>2, <1>3 DEF IInv, TypeOK
<1>5. CleanupDone'
  BY <1>1 DEF IInv, CleanupDone
<1>6. QED BY <1>4, <1>5 DEF IInv

-----------------------------------------------------------------------------
(* The theorems                                                            *)

\* The empty registry satisfies the invariant.
LEMMA InitIInv == Init => IInv
<1> SUFFICES ASSUME Init PROVE IInv
  OBVIOUS
<1>1. TypeOK
  BY JobTypes, FileTypes DEF Init, TypeOK
<1>2. CleanupDone
  BY JobTypes, CleanerAssumption DEF Init, CleanupDone
<1>3. QED BY <1>1, <1>2 DEF IInv

\* Every step keeps the invariant.
LEMMA NextIInv ==
    ASSUME IInv, [Next]_vars
    PROVE  IInv'
<1>1. CASE Tick
  BY <1>1, TickInv
<1>2. CASE StartCleanup
  BY <1>2, StartCleanupInv
<1>3. ASSUME NEW w \in Worker, NEW s \in Service, Collect(w, s) PROVE IInv'
  BY <1>3, CollectInv
<1>4. ASSUME NEW w \in Worker, StartListing(w) \/ ReadFile(w) PROVE IInv'
  BY <1>4, ListInv
<1>5. ASSUME NEW w \in Worker,
             WriteFails(w) \/ EndCleanup(w) \/ Respond(w) \/ Crash(w)
      PROVE  IInv'
  <2>1. crashes' \in Nat
    BY <1>5 DEF WriteFails, EndCleanup, Respond, Crash, IInv, TypeOK
  <2>2. QED BY <1>5, <2>1, IdleInv DEF WriteFails, EndCleanup, Respond, Crash
<1>6. ASSUME NEW w \in Worker, Open(w) \/ Write(w) PROVE IInv'
  BY <1>6, OpenInv, WriteInv
<1>7. ASSUME NEW w \in Worker, ScanDir(w) \/ Check(w) \/ Remove(w) PROVE IInv'
  BY <1>7, ScanInv, CheckInv, RemoveInv
<1>8. CASE UNCHANGED vars
  BY <1>8 DEF vars, IInv, TypeOK, CleanupDone
<1>9. QED BY <1>1, <1>2, <1>3, <1>4, <1>5, <1>6, <1>7, <1>8 DEF Next, Step

\* The strengthened invariant: types, and what a cleanup under way has achieved.
THEOREM Inductive == Spec => []IInv
<1>1. IInv /\ [Next]_vars => IInv'
  BY NextIInv
<1>2. QED BY <1>1, InitIInv, PTL DEF Spec

\* Every reachable state is of the right types; only the cleaner cleans.
THEOREM TypeCorrect == Spec => []TypeOK
<1>1. IInv => TypeOK
  BY DEF IInv
<1>2. QED BY <1>1, Inductive, PTL

\* The only step that ends a cleanup, but for a crash, has nothing left to check.
LEMMA OnlyEndCleanup ==
    ASSUME IInv, Next, job[Cleaner].op = "check", job'[Cleaner] = Idle,
           crashes' = crashes
    PROVE  job[Cleaner].todo = {}
<1>1. Idle.op = "idle" /\ job[Cleaner] # Idle /\ job \in [Worker -> Job]
  BY JobTypes DEF IInv, TypeOK
<1>2. ~Tick /\ ~StartCleanup
  BY <1>1 DEF Tick, StartCleanup
<1>3. PICK w \in Worker : \/ Step(w) \/ StartListing(w) \/ Crash(w)
                         \/ \E s \in Service : Collect(w, s)
  BY <1>2 DEF Next
<1>4. ~Remove(w)
  <2>1. ASSUME Remove(w) PROVE FALSE
    <3>1. w # Cleaner
      BY <2>1 DEF Remove
    <3>2. job[w].op = "remove"
      BY <2>1 DEF Remove
    <3>3. QED BY <3>1, <3>2 DEF IInv, TypeOK
  <2>2. QED BY <2>1
<1>5. w = Cleaner
  <2>1. CASE w # Cleaner
    <3>1. job'[Cleaner] = job[Cleaner]
      BY <1>1, <1>3, <1>4, <2>1, CleanerAssumption
         DEF Step, Open, Write, WriteFails, ScanDir, Check, EndCleanup, ReadFile,
             Respond, StartListing, Crash, Collect
    <3>2. QED BY <1>1, <3>1
  <2>2. QED BY <2>1
<1>6. ~Crash(w)
  BY DEF Crash, IInv, TypeOK
<1>7. Check(w) \/ EndCleanup(w)
  BY <1>1, <1>3, <1>4, <1>5, <1>6
     DEF Step, Open, Write, WriteFails, ScanDir, ReadFile, Respond, StartListing, Collect
<1>8. ~Check(w)
  <2>1. ASSUME Check(w) PROVE FALSE
    <3>1. PICK s \in job[w].todo :
            job'[w] = IF Stale(s, job[w].now) THEN Removing(job[w].now, job[w].todo, s)
                      ELSE Checking(job[w].now, job[w].todo \ {s})
      BY <2>1, <1>1 DEF Check
    <3>2. job'[w].op \in {"check", "remove"}
      BY <3>1 DEF Removing, Checking
    <3>3. QED BY <3>2, <1>1, <1>5
  <2>2. QED BY <2>1
<1>9. QED BY <1>5, <1>7, <1>8 DEF EndCleanup

\* A cleanup run that ends leaves no file that was too old when it began,
\* however many workers report meanwhile.
THEOREM NextRunTheorem == Spec => NextRunEvicts
<1> DEFINE Evicts(s) == /\ job[Cleaner].op = "check"
                        /\ job'[Cleaner] = Idle
                        /\ crashes' = crashes
                        /\ file[s].state = "whole"
                        => job[Cleaner].now - file[s].updated <= TTL
<1>1. ASSUME IInv, [Next]_vars, NEW s \in Service PROVE Evicts(s) \/ UNCHANGED vars
  <2>1. CASE Next
    BY <1>1, <2>1, OnlyEndCleanup DEF IInv, CleanupDone
  <2>2. QED BY <1>1, <2>1
<1>2. IInv /\ [Next]_vars => [\A s \in Service : Evicts(s)]_vars
  BY <1>1
<1>3. QED BY <1>2, Inductive, PTL DEF Spec, NextRunEvicts

-----------------------------------------------------------------------------
(* Queries                                                                 *)

\* Of each query: what it has still to read or has found covers the untouched files,
\* which are whole; and it has found nothing that was not seen whole.
Covers(w) ==
    job[w].op = "list" =>
      /\ untouched[w] \subseteq IsWhole
      /\ untouched[w] \ job[w].todo \subseteq job[w].found
      /\ job[w].found \subseteq seen[w]

LInv == IInv /\ (\A w \in Worker : Covers(w))

\* What the steps of a worker leave of its own query, and of another's.
LEMMA ListedBefore ==
    ASSUME IInv, [Next]_vars, NEW w \in Worker, job[w].op = "list", job'[w].op = "list"
    PROVE  job'[w] = job[w] \/ ReadFile(w)
<1>0. job \in [Worker -> Job] /\ Idle.op = "idle"
  BY JobTypes DEF IInv, TypeOK
<1>1. CASE Tick \/ UNCHANGED vars
  BY <1>1 DEF Tick, vars
<1>2. CASE StartCleanup
  <2>1. w # Cleaner
    BY <1>0, <1>2 DEF StartCleanup
  <2>2. QED BY <1>0, <1>2, <2>1 DEF StartCleanup
<1>3. ASSUME NEW v \in Worker, Remove(v) PROVE job'[w] = job[w]
  <2>1. v # w
    BY <1>3 DEF Remove
  <2>2. job'[w] = Unlinked(job[w], job[v].svc)
    BY <1>3, <2>1 DEF Remove
  <2>3. QED BY <2>2 DEF Unlinked
<1>4. ASSUME NEW v \in Worker, v # w,
             \/ Step(v) \/ StartListing(v) \/ Crash(v)
             \/ \E s \in Service : Collect(v, s)
      PROVE  job'[w] = job[w]
  BY <1>0, <1>3, <1>4
     DEF Step, Open, Write, WriteFails, ScanDir, Check, EndCleanup, ReadFile, Respond,
         StartListing, Crash, Collect
<1>5. ASSUME \/ Step(w) \/ StartListing(w) \/ Crash(w)
             \/ \E s \in Service : Collect(w, s)
      PROVE  ReadFile(w)
  BY <1>0, <1>5
     DEF Step, Open, Write, WriteFails, ScanDir, Check, Remove, EndCleanup, Respond,
         StartListing, Crash, Collect
<1>6. QED BY <1>1, <1>2, <1>4, <1>5 DEF Next

\* A query begins by listing every file that exists, with nothing found.
LEMMA ListedAfresh ==
    ASSUME IInv, [Next]_vars, NEW w \in Worker, job[w].op # "list", job'[w].op = "list"
    PROVE  job'[w] = Listing(Exists, {}) /\ file' = file
<1>0. job \in [Worker -> Job] /\ Idle.op = "idle"
  BY JobTypes DEF IInv, TypeOK
<1>1. CASE Tick \/ UNCHANGED vars
  BY <1>1 DEF Tick, vars
<1>2. CASE StartCleanup
  <2>1. job'[w] = job[w] \/ job'[w] = Scanning(clock)
    BY <1>0, <1>2 DEF StartCleanup
  <2>2. QED BY <2>1 DEF Scanning
<1>3. ASSUME NEW v \in Worker, Remove(v) PROVE FALSE
  <2>1. job'[w] = IF w = v THEN Checking(job[v].now, job[v].todo \ {job[v].svc})
                  ELSE Unlinked(job[w], job[v].svc)
    BY <1>3 DEF Remove
  <2>2. CASE w = v
    BY <2>1, <2>2 DEF Checking
  <2>3. CASE w # v /\ job[w].op = "write" /\ job[w].svc = job[v].svc
    <3>1. job[w] \in [op : {"write"}, svc : Service, updated : Nat, linked : BOOLEAN]
      BY <1>0, <2>3 DEF Job
    <3>2. job'[w].op = "write"
      BY <2>1, <2>3, <3>1 DEF Unlinked
    <3>3. QED BY <3>2
  <2>4. CASE w # v /\ ~(job[w].op = "write" /\ job[w].svc = job[v].svc)
    BY <2>1, <2>4 DEF Unlinked
  <2>5. QED BY <2>2, <2>3, <2>4
<1>4. ASSUME NEW v \in Worker, v # w,
             \/ Step(v) \/ StartListing(v) \/ Crash(v)
             \/ \E s \in Service : Collect(v, s)
      PROVE  FALSE
  <2>1. ~Remove(v)
    BY <1>3
  <2>2. job'[w] = job[w]
    BY <1>0, <1>4, <2>1
       DEF Step, Open, Write, WriteFails, ScanDir, Check, EndCleanup, ReadFile, Respond,
           StartListing, Crash, Collect
  <2>3. QED BY <2>2
<1>5. ASSUME NEW s \in Service, Collect(w, s) PROVE FALSE
  BY <1>0, <1>5 DEF Collect, Opening
<1>6. ASSUME Step(w) \/ Crash(w) PROVE FALSE
  <2>1. ~Remove(w) /\ ~ReadFile(w)
    BY <1>3 DEF ReadFile
  <2>2. CASE Open(w)
    BY <1>0, <2>2 DEF Open, Writing
  <2>3. CASE ScanDir(w)
    BY <1>0, <2>3 DEF ScanDir, Checking
  <2>4. CASE Check(w)
    BY <1>0, <2>4 DEF Check, Checking, Removing
  <2>5. CASE Write(w) \/ WriteFails(w) \/ EndCleanup(w) \/ Respond(w) \/ Crash(w)
    BY <1>0, <2>5 DEF Write, WriteFails, EndCleanup, Respond, Crash
  <2>6. QED BY <1>6, <2>1, <2>2, <2>3, <2>4, <2>5 DEF Step
<1>7. CASE StartListing(w)
  BY <1>0, <1>7 DEF StartListing
<1>8. QED BY <1>1, <1>2, <1>4, <1>5, <1>6, <1>7 DEF Next

\* A query that begins covers the files that are whole; one that goes on reads one file,
\* which it finds if it is untouched, and keeps what is untouched whole.
LEMMA CoversStep ==
    ASSUME LInv, [Next]_vars, Watch, NEW w \in Worker, job'[w].op = "list"
    PROVE  Covers(w)'
<1>1. /\ untouched'[w] = IF StartsListing(w) THEN IsWhole
                         ELSE {s \in untouched[w] : file'[s] = file[s]}
      /\ seen'[w] = seen[w] \cup IsWhole'
  BY DEF Watch
<1>2. CASE job[w].op # "list"
  <2>1. job'[w] = Listing(Exists, {}) /\ file' = file
    BY <1>2, ListedAfresh DEF LInv
  <2>2. untouched'[w] = IsWhole /\ IsWhole' = IsWhole
    BY <1>1, <1>2, <2>1 DEF StartsListing, IsWhole
  <2>3. job'[w].todo = Exists /\ job'[w].found = {}
    BY <2>1 DEF Listing
  <2>4. IsWhole \subseteq Exists
    BY DEF IsWhole, Exists
  <2>5. QED BY <2>2, <2>3, <2>4 DEF Covers
<1>3. CASE job[w].op = "list"
  <2>1. untouched'[w] = {s \in untouched[w] : file'[s] = file[s]}
    BY <1>1, <1>3 DEF StartsListing
  <2>2. untouched[w] \subseteq IsWhole /\ untouched'[w] \subseteq untouched[w]
    BY <1>3, <2>1 DEF LInv, Covers
  <2>3. untouched'[w] \subseteq IsWhole'
    BY <2>1, <2>2 DEF IsWhole
  <2>4. CASE job'[w] = job[w]
    BY <1>1, <1>3, <2>2, <2>3, <2>4 DEF LInv, Covers
  <2>5. CASE ReadFile(w)
    <3>1. PICK s \in job[w].todo :
            /\ job'[w] = Listing(job[w].todo \ {s}, job[w].found \cup ({s} \cap IsWhole))
            /\ file' = file
      BY <2>5 DEF ReadFile, LInv, IInv, TypeOK
    <3>2. /\ job'[w].todo = job[w].todo \ {s}
          /\ job'[w].found = job[w].found \cup ({s} \cap IsWhole)
          /\ IsWhole' = IsWhole
      BY <3>1 DEF Listing, IsWhole
    <3>3. /\ untouched[w] \ job[w].todo \subseteq job[w].found
          /\ job[w].found \subseteq seen[w]
      BY <1>3 DEF LInv, Covers
    <3>4. untouched'[w] \ job'[w].todo \subseteq job'[w].found
      BY <2>2, <3>2, <3>3
    <3>5. job'[w].found \subseteq seen'[w]
      BY <1>1, <3>2, <3>3
    <3>6. QED BY <2>3, <3>4, <3>5 DEF Covers
  <2>6. QED BY <1>3, <2>4, <2>5, ListedBefore DEF LInv
<1>4. QED BY <1>2, <1>3

\* The history is a history: it lets the registry do what it does without.
THEOREM ListingIsRegistry == ListSpec => Spec
<1>1. ListInit => Init
  BY DEF ListInit
<1>2. [ListNext]_listVars => [Next]_vars
  BY DEF ListNext, listVars
<1>3. QED BY <1>1, <1>2, PTL DEF ListSpec, Spec

\* Whatever is collected, cleaned and crashes beside it, a query finds every service
\* whose file nobody touched while it ran, and none that was at no time registered.
THEOREM ListingTheorem == ListSpec => []ListingFaithful
<1>1. ListInit => LInv
  BY InitIInv, JobTypes DEF ListInit, Init, LInv, Covers
<1>2. LInv /\ [ListNext]_listVars => LInv'
  <2> SUFFICES ASSUME LInv, [ListNext]_listVars PROVE LInv'
    OBVIOUS
  <2>1. CASE ListNext
    <3>1. IInv'
      BY <2>1, NextIInv DEF ListNext, LInv
    <3>2. ASSUME NEW w \in Worker PROVE Covers(w)'
      <4>1. CASE job'[w].op = "list"
        BY <2>1, <4>1, CoversStep DEF ListNext
      <4>2. CASE job'[w].op # "list"
        BY <4>2 DEF Covers
      <4>3. QED BY <4>1, <4>2
    <3>3. QED BY <3>1, <3>2 DEF LInv
  <2>2. CASE UNCHANGED listVars
    <3>1. IInv'
      BY <2>2, NextIInv DEF listVars, LInv
    <3>2. (\A w \in Worker : Covers(w))'
      BY <2>2 DEF listVars, vars, LInv, Covers, IsWhole
    <3>3. QED BY <3>1, <3>2 DEF LInv
  <2>3. QED BY <2>1, <2>2
<1>3. LInv => ListingFaithful
  BY DEF LInv, Covers, ListingFaithful
<1>4. QED BY <1>1, <1>2, <1>3, PTL DEF ListSpec

=============================================================================
