------------------------- MODULE ResourceLifecycle -------------------------
(***************************************************************************)
(* How resources come and go: the handlers of POST and DELETE /resources   *)
(* (src/src/server.rs), ResourceManager with its table of running watchers *)
(* and the scan's report on the resource row (src/src/resource.rs), and    *)
(* the resumption of active resources when the daemon starts               *)
(* (src/src/main.rs).                                                      *)
(*                                                                         *)
(* Every handler is a sequence of awaits on the database and on the lock   *)
(* of the manager, and the server runs requests concurrently; a row is     *)
(* read, changed and written back as a whole, with other tasks in between. *)
(* Each start of a resource makes a new run: a cancellation token, a scan  *)
(* and a watcher loop.  A loop whose token is cancelled ends by itself.    *)
(***************************************************************************)
EXTENDS Naturals, FiniteSets

CONSTANTS
    Uri, Name,
    Request,   \* requests that can be in progress at once
    Main,      \* the daemon's main task
    None,      \* no row, no name, no URI
    MaxAdds, MaxRemoves, MaxFaults, MaxCrashes  \* bounds of a run of the model

Status == {"active", "inactive"}
Indexing == {"pending", "indexing", "indexed"}
Row == [name : Name, status : Status, indexing : Indexing]

ASSUME LifecycleAssumption ==
    /\ IsFiniteSet(Uri)
    /\ Main \notin Request
    /\ None \notin Name \cup Uri \cup Row
    /\ {MaxAdds, MaxRemoves, MaxFaults, MaxCrashes} \subseteq Nat

Task == Request \cup {Main}

\* A process starts a resource once for each add, and once to resume it.
Run == 1 .. MaxAdds + Cardinality(Uri)

VARIABLES
    rows,    \* the resources table, keyed by URI
    active,  \* ResourceManager.active: the run of a name, 0 for none
    runs,    \* runs[g]: the g-th run this process has started
    starts,  \* how many that are
    task,    \* task[p]: where a request, or main, stands and what it holds
    todo,    \* active resources main has still to resume
    \* bounds, and two history variables no guard reads
    adds, removes, faults, crashes,
    lapses,  \* <<name, pc>> where this process dropped a request half done, and
             \* <<name, "missed">> of a stop that came while a start was under way
    clashed  \* names of insertions that overtook the look-ups of others, and of those

counts == <<adds, removes, faults, crashes, lapses, clashed>>
vars == <<rows, active, runs, starts, task, todo, counts>>

\* A row as a task has read it.
Copy == [uri : Uri, row : Row]

NoRun == [name |-> None, cancelled |-> FALSE, scan |-> "none", loop |-> "none", copy |-> None]

IdleTask == [pc |-> "idle", name |-> None, uri |-> None, copy |-> None, run |-> 0]

\* What can go half done and leave a run, or a stopped row, behind.
Lapse == Name \X {"spawn", "register", "halt", "missed"}

Starting == {"stop", "load", "mark", "spawn", "register"}
StoreSteps == {"by_uri", "by_name", "insert", "load", "mark", "find", "deactivate", "list"}

Pc(p) == task[p].pc
Free(q) == Pc(q) = "idle"
Serving == Pc(Main) = "serving"

\* A process that has just started.
Process(where) ==
    [p \in Task |-> IF p = Main THEN [IdleTask EXCEPT !.pc = where] ELSE IdleTask]

Init ==
    /\ rows = [u \in Uri |-> None]
    /\ active = [n \in Name |-> 0]
    /\ runs = [g \in Run |-> NoRun]
    /\ starts = 0
    /\ task = Process("list")
    /\ todo = {}
    /\ adds = 0 /\ removes = 0 /\ faults = 0 /\ crashes = 0
    /\ lapses = {} /\ clashed = {}
----------------------------------------------------------------------------
Goto(p, where) == task' = [task EXCEPT ![p].pc = where]

\* A request is answered; a start that main has made is over.
Return(p) ==
    task' = [task EXCEPT ![p] = IF p = Main THEN [IdleTask EXCEPT !.pc = "next"] ELSE IdleTask]

\* get_resource_by_name returns one of the rows with that name, if any.
Copies(n) ==
    {[uri |-> u, row |-> rows[u]] : u \in {v \in Uri : rows[v] # None /\ rows[v].name = n}}

\* upsert_resource replaces the whole row of a URI.
Upsert(u, row) == rows' = [rows EXCEPT ![u] = row]

CanFail == faults < MaxFaults
CountFault == faults' = faults + 1 /\ UNCHANGED <<adds, removes, crashes, clashed>>
Abandon(q) == lapses' = lapses \cup ({<<task[q].name, Pc(q)>>} \cap Lapse)

\* All that the process holds is lost; main then stands at `where`.
ProcessEnds(where) ==
    /\ active' = [n \in Name |-> 0]
    /\ runs' = [g \in Run |-> NoRun]
    /\ starts' = 0
    /\ task' = Process(where)
    /\ todo' = {}
    /\ lapses' = {}
    /\ UNCHANGED rows
----------------------------------------------------------------------------
(* add_resource: two look-ups, an insertion, and a start.                  *)

Receive(q, n, u, where) ==
    /\ Serving
    /\ Free(q)
    /\ task' = [task EXCEPT ![q] =
                    [pc |-> where, name |-> n, uri |-> u, copy |-> None, run |-> 0]]
    /\ UNCHANGED <<rows, active, runs, starts, todo, faults, crashes, lapses, clashed>>

Add(q, n, u) ==
    /\ Receive(q, n, u, "by_uri")
    /\ adds < MaxAdds
    /\ adds' = adds + 1
    /\ UNCHANGED removes

\* Registered under this name, whatever its status: the answer is "ok".
AlreadyRegistered(q) ==
    /\ Pc(q) = "by_uri"
    /\ rows[task[q].uri] # None /\ rows[task[q].uri].name = task[q].name
    /\ Return(q)
    /\ UNCHANGED <<rows, active, runs, starts, todo, counts>>

\* Registered under another name: a conflict.
FindUri(q) ==
    /\ Pc(q) = "by_uri"
    /\ \/ rows[task[q].uri] = None /\ Goto(q, "by_name")
       \/ /\ rows[task[q].uri] # None /\ rows[task[q].uri].name # task[q].name
          /\ Return(q)
    /\ UNCHANGED <<rows, active, runs, starts, todo, counts>>

\* Mutant of FindName: a name in use is not refused.
FindNameUnchecked(q) ==
    /\ Pc(q) = "by_name"
    /\ Goto(q, "insert")
    /\ UNCHANGED <<rows, active, runs, starts, todo, counts>>

FindName(q) ==
    /\ Pc(q) = "by_name"
    /\ IF Copies(task[q].name) = {} THEN Goto(q, "insert") ELSE Return(q)
    /\ UNCHANGED <<rows, active, runs, starts, todo, counts>>

\* Not a file:// URI, or not the root of a git repository.
Reject(q) ==
    /\ Pc(q) = "insert"
    /\ Return(q)
    /\ UNCHANGED <<rows, active, runs, starts, todo, counts>>

\* Requests for which what they have looked up is no longer true.
Overtaken(q) ==
    {r \in Request \ {q} :
        \/ Pc(r) = "by_name" /\ task[r].uri = task[q].uri /\ task[r].name # task[q].name
        \/ Pc(r) = "insert" /\ (task[r].uri = task[q].uri \/ task[r].name = task[q].name)}

\* They do not look again: the row of a URI is replaced, a name given twice.
Insert(q) ==
    /\ Pc(q) = "insert"
    /\ Upsert(task[q].uri,
              [name |-> task[q].name, status |-> "active", indexing |-> "pending"])
    /\ clashed' = IF Overtaken(q) = {} THEN clashed
                  ELSE clashed \cup {task[r].name : r \in Overtaken(q) \cup {q}}
    /\ Goto(q, "stop")
    /\ UNCHANGED <<active, runs, starts, todo, adds, removes, faults, crashes, lapses>>
----------------------------------------------------------------------------
(* remove_resource: a look-up, an update, and a stop.                      *)

Remove(q, n) ==
    /\ Receive(q, n, None, "find")
    /\ removes < MaxRemoves
    /\ removes' = removes + 1
    /\ UNCHANGED adds

Find(q) ==
    /\ Pc(q) = "find"
    /\ \/ Copies(task[q].name) = {} /\ Return(q)
       \/ \E c \in Copies(task[q].name) :
            task' = [task EXCEPT ![q].pc = "deactivate", ![q].copy = c]
    /\ UNCHANGED <<rows, active, runs, starts, todo, counts>>

Deactivate(q) ==
    /\ Pc(q) = "deactivate"
    /\ Upsert(task[q].copy.uri, [task[q].copy.row EXCEPT !.status = "inactive"])
    /\ Goto(q, "halt")
    /\ UNCHANGED <<active, runs, starts, todo, counts>>

\* Mutant of StopRun: the entry is dropped and its token not cancelled.
StopRunQuietly(n) == active' = [active EXCEPT ![n] = 0] /\ UNCHANGED runs

\* ResourceManager.stop: forget the run of a name, if any, and cancel it.
StopRun(n) ==
    /\ active' = [active EXCEPT ![n] = 0]
    /\ runs' = IF active[n] = 0 THEN runs
               ELSE [runs EXCEPT ![active[n]].cancelled = TRUE]

BeingStarted(n) == \E p \in Task : Pc(p) \in Starting /\ task[p].name = n

\* It cannot stop a run that a start has not put into the manager yet.
Halt(q) ==
    /\ Pc(q) = "halt"
    /\ StopRun(task[q].name)
    /\ lapses' = IF BeingStarted(task[q].name)
                 THEN lapses \cup {<<task[q].name, "missed">>}
                 ELSE lapses
    /\ Return(q)
    /\ UNCHANGED <<rows, starts, todo, adds, removes, faults, crashes, clashed>>
----------------------------------------------------------------------------
(* ResourceManager.start, called by add_resource and by main.              *)

StopOld(p) ==
    /\ Pc(p) = "stop"
    /\ StopRun(task[p].name)
    /\ Goto(p, "load")
    /\ UNCHANGED <<rows, starts, todo, counts>>

Load(p) ==
    /\ Pc(p) = "load"
    /\ \/ Copies(task[p].name) = {} /\ Goto(p, "spawn")
       \/ \E c \in Copies(task[p].name) :
            task' = [task EXCEPT ![p].pc = "mark", ![p].copy = c]
    /\ UNCHANGED <<rows, active, runs, starts, todo, counts>>

Mark(p) ==
    /\ Pc(p) = "mark"
    /\ Upsert(task[p].copy.uri, [task[p].copy.row EXCEPT !.indexing = "indexing"])
    /\ task' = [task EXCEPT ![p].pc = "spawn", ![p].copy = None]
    /\ UNCHANGED <<active, runs, starts, todo, counts>>

\* The scan is spawned, then the watcher.
SpawnRun(p, loop) ==
    /\ Pc(p) = "spawn"
    /\ starts' = starts + 1
    /\ runs' = [runs EXCEPT ![starts + 1] =
                    [NoRun EXCEPT !.name = task[p].name, !.scan = "running", !.loop = loop]]

Spawn(p) ==
    /\ SpawnRun(p, "live")
    /\ task' = [task EXCEPT ![p].pc = "register", ![p].run = starts + 1]
    /\ UNCHANGED <<rows, active, todo, counts>>

\* Mutant of Register: the run is not put into the manager.
RegisterNothing(p) ==
    /\ Pc(p) = "register"
    /\ Return(p)
    /\ UNCHANGED <<rows, active, runs, starts, todo, counts>>

\* An entry of the same name is replaced: its OS watch is closed with it, but
\* its token is not cancelled, and its loop spins on the closed channel.
Register(p) ==
    /\ Pc(p) = "register"
    /\ active' = [active EXCEPT ![task[p].name] = task[p].run]
    /\ runs' = IF active[task[p].name] = 0 THEN runs
               ELSE [runs EXCEPT ![active[task[p].name]].loop = "spinning"]
    /\ Return(p)
    /\ UNCHANGED <<rows, starts, todo, counts>>

\* Mutant of GivesUp: main goes on with the next resource.
GivesUpOne(p) ==
    /\ Return(p)
    /\ UNCHANGED <<rows, active, runs, starts, todo, lapses>>

\* An error answers a request, and ends the process if main meets it.
GivesUp(p) ==
    IF p = Main
    THEN ProcessEnds("down")
    ELSE Return(p) /\ UNCHANGED <<rows, active, runs, starts, todo, lapses>>

StoreFails(p) ==
    /\ CanFail /\ CountFault
    /\ Pc(p) \in StoreSteps
    /\ GivesUp(p)

\* The OS watch cannot be registered.  The scan of a request runs on, under a
\* token that nobody holds.
WatchFails(q) ==
    /\ CanFail /\ CountFault
    /\ SpawnRun(q, "none")
    /\ Abandon(q)
    /\ Return(q)
    /\ UNCHANGED <<rows, active, todo>>

\* The client closes its connection and the handler is dropped at an await:
\* nothing of what it has done is undone.  A watcher not yet registered is
\* dropped with it, and its loop spins on the closed channel.
Disconnect(q) ==
    /\ CanFail /\ CountFault
    /\ ~Free(q)
    /\ runs' = IF Pc(q) = "register"
               THEN [runs EXCEPT ![task[q].run].loop = "spinning"]
               ELSE runs
    /\ Abandon(q)
    /\ Return(q)
    /\ UNCHANGED <<rows, active, starts, todo>>

MainWatchFails ==
    /\ CanFail /\ CountFault
    /\ Pc(Main) = "spawn"
    /\ GivesUp(Main)
----------------------------------------------------------------------------
(* A run's scan: when it is through, it reports on the row of its resource. *)

ScanReads(g) ==
    /\ runs[g].scan = "running"
    /\ \E c \in Copies(runs[g].name) :
        runs' = [runs EXCEPT ![g].scan = "report", ![g].copy = c]
    /\ UNCHANGED <<rows, active, starts, task, todo, counts>>

\* There is no row, or a storage error, which is ignored.
ScanReportsNothing(g) ==
    /\ \/ runs[g].scan = "running" /\ Copies(runs[g].name) = {} /\ UNCHANGED counts
       \/ runs[g].scan \in {"running", "report"} /\ CanFail /\ CountFault
    /\ runs' = [runs EXCEPT ![g].scan = "done", ![g].copy = None]
    /\ UNCHANGED <<rows, active, starts, task, todo, lapses>>

\* Mutant of ScanReports: the indexing status is not updated.
ScanReportsSame(g) ==
    /\ runs[g].scan = "report"
    /\ Upsert(runs[g].copy.uri, runs[g].copy.row)
    /\ runs' = [runs EXCEPT ![g].scan = "done", ![g].copy = None]
    /\ UNCHANGED <<active, starts, task, todo, counts>>

ScanReports(g) ==
    /\ runs[g].scan = "report"
    /\ Upsert(runs[g].copy.uri, [runs[g].copy.row EXCEPT !.indexing = "indexed"])
    /\ runs' = [runs EXCEPT ![g].scan = "done", ![g].copy = None]
    /\ UNCHANGED <<active, starts, task, todo, counts>>
----------------------------------------------------------------------------
(* main: resume what was left active, then serve.                          *)

IsActive(u) == rows[u] # None /\ rows[u].status = "active"

ListResources ==
    /\ Pc(Main) = "list"
    /\ todo' = {u \in Uri : IsActive(u)}
    /\ Goto(Main, "next")
    /\ UNCHANGED <<rows, active, runs, starts, counts>>

\* Mutant of Resume: a resumed resource stays on the list.
ResumeAgain ==
    /\ Pc(Main) = "next"
    /\ \E u \in todo :
        task' = [task EXCEPT ![Main].pc = "stop", ![Main].uri = u,
                             ![Main].name = rows[u].name]
    /\ UNCHANGED <<rows, active, runs, starts, todo, counts>>

Resume ==
    /\ Pc(Main) = "next"
    /\ \E u \in todo :
        /\ todo' = todo \ {u}
        /\ task' = [task EXCEPT ![Main].pc = "stop", ![Main].uri = u,
                                ![Main].name = rows[u].name]
    /\ UNCHANGED <<rows, active, runs, starts, counts>>

Serve ==
    /\ Pc(Main) = "next"
    /\ todo = {}
    /\ Goto(Main, "serving")
    /\ UNCHANGED <<rows, active, runs, starts, todo, counts>>

\* The process is killed, or has given up, and is started again.
Crash ==
    /\ crashes < MaxCrashes
    /\ crashes' = crashes + 1
    /\ ProcessEnds("list")
    /\ UNCHANGED <<adds, removes, faults, clashed>>

\* Nothing is in progress: the daemon waits for a request, or is down.
AtRest ==
    /\ \A q \in Request : Free(q)
    /\ Pc(Main) \in {"serving", "down"}
    /\ \A g \in Run : runs[g].scan \in {"none", "done"}
    /\ UNCHANGED vars

Handle(q) ==
    \/ AlreadyRegistered(q) \/ FindUri(q) \/ FindName(q) \/ Reject(q) \/ Insert(q)
    \/ Find(q) \/ Deactivate(q) \/ Halt(q)

Start(p) == StopOld(p) \/ Load(p) \/ Mark(p) \/ Spawn(p) \/ Register(p)

ScanTask(g) == ScanReads(g) \/ ScanReports(g) \/ ScanReportsNothing(g)

Next ==
    \/ \E q \in Request, n \in Name, u \in Uri : Add(q, n, u)
    \/ \E q \in Request, n \in Name : Remove(q, n)
    \/ \E q \in Request : Handle(q) \/ WatchFails(q) \/ Disconnect(q)
    \/ \E p \in Task : Start(p) \/ StoreFails(p)
    \/ MainWatchFails
    \/ \E g \in Run : ScanTask(g)
    \/ ListResources \/ Resume \/ Serve
    \/ Crash \/ AtRest

\* Each task is run by the tokio scheduler until it ends, and a scan ends
\* (ScanFinishes of IndexPipeline); requests, faults and crashes may happen or
\* not.
Fairness ==
    /\ \A q \in Request : WF_vars(Handle(q))
    /\ \A p \in Task : WF_vars(Start(p))
    /\ \A g \in Run : WF_vars(ScanTask(g))
    /\ WF_vars(ListResources \/ Resume \/ Serve)

Spec == Init /\ [][Next]_vars /\ Fairness
----------------------------------------------------------------------------
TypeOK ==
    /\ rows \in [Uri -> Row \cup {None}]
    /\ active \in [Name -> Run \cup {0}]
    /\ runs \in [Run -> [name : Name \cup {None}, cancelled : BOOLEAN,
                         scan : {"none", "running", "report", "done"},
                         loop : {"none", "live", "spinning"},
                         copy : Copy \cup {None}]]
    /\ starts \in Run \cup {0}
    /\ task \in [Task -> [pc : StoreSteps \cup {"idle", "stop", "spawn", "register", "halt",
                                                 "next", "serving", "down"},
                          name : Name \cup {None}, uri : Uri \cup {None},
                          copy : Copy \cup {None}, run : Run \cup {0}]]
    /\ todo \subseteq Uri
    /\ {adds, removes, faults, crashes} \subseteq Nat
    /\ lapses \subseteq Lapse
    /\ clashed \subseteq Name

\* README:140: a name "must be unique".  Each request looks its name and its URI
\* up and inserts them in steps of its own (server.rs:116-170), whole rows are
\* written back from old copies, and the database checks nothing.  Names are
\* unique but for an insertion that comes too late, when another request has
\* taken the name or the URI since the look-ups; no removal, report of a scan,
\* start or restart ever gives a name to a second row.
NamesUnique ==
    \A u, v \in Uri :
        rows[u] # None /\ rows[v] # None /\ rows[u].name = rows[v].name
            => u = v \/ rows[u].name \in clashed

\* resource.rs:380: a removed resource's watcher is stopped "rather than left
\* running against a resource that's gone": once no request on it is in progress,
\* an inactive resource has no entry in the manager, and every watcher loop it
\* had in this process has been told to stop.
Stopped(n) ==
    /\ active[n] = 0
    /\ \A g \in Run : runs[g].name = n /\ runs[g].loop = "live" => runs[g].cancelled

Settled(u) ==
    /\ rows[u] # None /\ rows[u].status = "inactive"
    /\ \A q \in Request : task[q].name # rows[u].name

RemovedIsStopped == \A u \in Uri : Settled(u) => Stopped(rows[u].name)

\* So it is, whatever fails and however requests, scans and restarts interleave,
\* with three exceptions: the stop came while the resource was being started
\* (before resource.rs:480), the client left between the update of the row and
\* the stop (server.rs:189-190), or two insertions clashed.
RemovedIsQuiet ==
    \A u \in Uri :
        /\ Settled(u)
        /\ {<<rows[u].name, "missed">>, <<rows[u].name, "halt">>} \cap lapses = {}
        /\ rows[u].name \notin clashed
        => Stopped(rows[u].name)

\* watcher.rs:51-53, resource.rs:380: what a start has spawned can be stopped: a
\* scan or a loop that has not been told to is one the manager holds, or is about
\* to.  It gets away in three cases only: the watch could not be registered
\* (resource.rs:471-479), the client left before line 480, or two insertions
\* clashed and the second start replaced the entry of the first at that line.
\* In the last two the loop goes on although its handle has been dropped.
Held(g) ==
    \/ active[runs[g].name] = g
    \/ \E p \in Task : Pc(p) = "register" /\ task[p].run = g

RunsHeld ==
    \A g \in Run :
        /\ runs[g].scan = "running" \/ runs[g].loop # "none"
        /\ ~runs[g].cancelled
        /\ {<<runs[g].name, "spawn">>, <<runs[g].name, "register">>} \cap lapses = {}
        /\ runs[g].name \notin clashed
        => Held(g)

\* main.rs:73: when the daemon begins to serve after a start, every resource
\* left active is watched again, under a token that has not been cancelled,
\* whatever storage errors the start-up met.
Watched(u) ==
    LET g == active[rows[u].name]
    IN  g # 0 /\ runs[g].loop = "live" /\ ~runs[g].cancelled

ServingResumed ==
    [][Serve => \A u \in Uri : IsActive(u) => Watched(u)]_vars

\* resource.rs:421: the row shows real progress instead of staying `pending`
\* or `indexing` for ever.  Without faults each active resource whose insertion
\* did not clash comes to be shown as indexed, although adds, removals, the
\* reports of other scans and restarts rewrite whole rows.
ScanReported ==
    <>[](faults = 0 /\ Serving =>
            \A u \in Uri : IsActive(u) /\ rows[u].name \notin clashed
                             => rows[u].indexing = "indexed")

\* README: DELETE deactivates a resource; it does not become active again by
\* itself.
RemovedStaysInactive ==
    [][\A u \in Uri : rows[u] # None /\ rows[u].status = "inactive"
                        => rows'[u].status = "inactive"]_vars

\* README: POST /resources registers a directory for indexing: when it is
\* answered with "ok", the resource is active.
AddedIsActive ==
    [][\A q \in Request : AlreadyRegistered(q) \/ Register(q)
                            => IsActive(task[q].uri)]_vars
============================================================================
