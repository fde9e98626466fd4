----------------------- MODULE ResourceLifecycleProofs -----------------------
(***************************************************************************)
(* What holds of resources for any number of them, of requests, of faults  *)
(* and of restarts, however requests overlap: the types; what copies of    *)
(* rows can still do to the table, and which names stay unique; which runs *)
(* can be stopped; what a restart resumes; and what a removal leaves.      *)
(***************************************************************************)
EXTENDS ResourceLifecycle, FiniteSetTheorems, TLAPS

USE LifecycleAssumption

\* Where an add stands, or a start of main, that is still to spawn its run.
Unspawned == {"by_uri", "by_name", "insert", "stop", "load", "mark", "spawn"}
RequestPlaces == {"idle", "by_uri", "by_name", "insert", "find", "deactivate", "halt"} \cup Starting
MainPlaces == {"list", "next", "serving", "down"} \cup Starting

TaskType == [pc : StoreSteps \cup {"idle", "stop", "spawn", "register", "halt",
                                   "next", "serving", "down"},
             name : Name \cup {None}, uri : Uri \cup {None},
             copy : Copy \cup {None}, run : Run \cup {0}]
RunType == [name : Name \cup {None}, cancelled : BOOLEAN,
            scan : {"none", "running", "report", "done"},
            loop : {"none", "live", "spinning"}, copy : Copy \cup {None}]
----------------------------------------------------------------------------
(* The inductive invariant behind TypeOK.                                  *)

Counted ==
    {removes, faults, crashes} \subseteq Nat /\ lapses \subseteq Lapse /\ clashed \subseteq Name

Places ==
    /\ Pc(Main) \in MainPlaces
    /\ \A q \in Request : Pc(q) \in RequestPlaces
    /\ ~Serving => \A q \in Request : Free(q)

\* What a task holds where it needs it, when n runs have been started.
Holds(t, n) ==
    /\ t.pc \in Unspawned \cup {"register"} => t.name \in Name /\ t.uri \in Uri
    /\ t.pc \in {"find", "deactivate", "halt"} => t.name \in Name
    /\ t.pc \in {"mark", "deactivate"} => t.copy \in Copy
    /\ t.pc = "register" => t.run \in 1 .. n

RunsTyped ==
    \A g \in Run :
        /\ g > starts => runs[g] = NoRun
        /\ g <= starts => runs[g].name \in Name
        /\ runs[g].scan = "report" => runs[g].copy \in Copy

ActiveStarted == \A n \in Name : active[n] \in 0 .. starts

\* Every run is paid for by a request, or by a resource that main has found
\* active; so are those still to be spawned.
Pending == {q \in Request : Pc(q) \in Unspawned}
Weight(t) == IF t.pc \in Unspawned THEN 1 ELSE 0
Owed == Cardinality(Pending) + Weight(task[Main])

Budget ==
    /\ IsFiniteSet(Pending)
    /\ starts + Owed + Cardinality(todo) <= adds + Cardinality(Uri)
    /\ adds <= MaxAdds
    /\ Pc(Main) = "list" => starts = 0

TInv ==
    /\ TypeOK
    /\ Places
    /\ \A p \in Task : Holds(task[p], starts)
    /\ \A u \in todo : rows[u] # None
    /\ RunsTyped /\ ActiveStarted
    /\ Budget
----------------------------------------------------------------------------
(* How the records of tasks and runs change.                               *)

LEMMA TypeFacts ==
    ASSUME TypeOK
    PROVE  /\ task \in [Task -> TaskType]
           /\ runs \in [Run -> RunType]
           /\ rows \in [Uri -> Row \cup {None}]
           /\ active \in [Name -> Run \cup {0}]
           /\ starts \in Run \cup {0}
           /\ todo \subseteq Uri
           /\ adds \in Nat /\ Counted
  BY DEF TypeOK, TaskType, RunType, Counted

LEMMA CountsType ==
    ASSUME TypeOK, UNCHANGED counts
    PROVE  adds' = adds /\ Counted'
  BY TypeFacts DEF counts, Counted

\* A fault is counted.
LEMMA FaultType ==
    ASSUME TypeOK, CountFault, lapses' \subseteq lapses \cup Lapse
    PROVE  adds' = adds /\ Counted'
<1>1. /\ adds' = adds /\ removes' = removes /\ crashes' = crashes /\ clashed' = clashed
      /\ faults' = faults + 1
  BY DEF CountFault
<1>2. Counted
  BY TypeFacts
<1> QED
  BY <1>1, <1>2 DEF Counted

LEMMA UriCount == Cardinality(Uri) \in Nat
  BY FS_CardinalityType

LEMMA RunFacts == 0 \notin Run /\ Run \subseteq Nat
  BY UriCount DEF Run

LEMMA NumberFacts ==
    ASSUME TypeOK
    PROVE  starts \in Nat /\ adds \in Nat /\ IsFiniteSet(todo) /\ Cardinality(todo) \in Nat
<1>1. starts \in Nat /\ adds \in Nat
  <2>1. starts \in Run \cup {0} /\ adds \in Nat
    BY TypeFacts
  <2> QED
    BY <2>1, RunFacts
<1>2. IsFiniteSet(todo) /\ Cardinality(todo) \in Nat
  BY TypeFacts, FS_Subset, FS_CardinalityType
<1> QED
  BY <1>1, <1>2

\* A task goes to another place with what it holds.
LEMMA GotoMoves ==
    ASSUME TypeOK, NEW p \in Task, NEW where, Goto(p, where),
           where \in StoreSteps \cup {"stop", "spawn", "register", "halt", "next", "serving"}
    PROVE  \E t \in TaskType :
              /\ task' = [task EXCEPT ![p] = t]
              /\ t.pc = where /\ t.name = task[p].name /\ t.uri = task[p].uri
              /\ t.copy = task[p].copy /\ t.run = task[p].run
<1> DEFINE t == [task[p] EXCEPT !.pc = where]
<1>1. task[p] \in TaskType
  BY TypeFacts
<1>2. t \in TaskType
  BY <1>1 DEF TaskType
<1>3. /\ t.pc = where /\ t.name = task[p].name /\ t.uri = task[p].uri
      /\ t.copy = task[p].copy /\ t.run = task[p].run
  BY <1>1 DEF TaskType
<1>4. task' = [task EXCEPT ![p] = t]
  BY DEF Goto
<1> HIDE DEF t
<1> QED
  BY <1>2, <1>3, <1>4

\* A task that has read a row goes on with the copy.
CopyTo(p, where, c) == task' = [task EXCEPT ![p].pc = where, ![p].copy = c]

LEMMA CopyMoves ==
    ASSUME TypeOK, NEW p \in Task, NEW where \in {"mark", "deactivate"}, NEW c \in Copy,
           CopyTo(p, where, c)
    PROVE  \E t \in TaskType :
              /\ task' = [task EXCEPT ![p] = t]
              /\ t.pc = where /\ t.name = task[p].name /\ t.uri = task[p].uri
              /\ t.copy = c /\ t.run = task[p].run
<1> DEFINE t == [task[p] EXCEPT !.pc = where, !.copy = c]
<1>1. task[p] \in TaskType
  BY TypeFacts
<1>2. t \in TaskType
  BY <1>1 DEF TaskType, StoreSteps
<1>3. /\ t.pc = where /\ t.name = task[p].name /\ t.uri = task[p].uri
      /\ t.copy = c /\ t.run = task[p].run
  BY <1>1 DEF TaskType
<1>4. task' = [task EXCEPT ![p] = t]
  BY TypeFacts DEF CopyTo
<1> HIDE DEF t
<1> QED
  BY <1>2, <1>3, <1>4

\* A task holds nothing any more.
LEMMA ReturnMoves ==
    ASSUME NEW p \in Task, Return(p)
    PROVE  \E t \in TaskType :
              /\ task' = [task EXCEPT ![p] = t]
              /\ t.pc = (IF p = Main THEN "next" ELSE "idle")
              /\ t.name = None /\ t.uri = None
<1> DEFINE t == IF p = Main THEN [IdleTask EXCEPT !.pc = "next"] ELSE IdleTask
<1>1. t \in TaskType
  BY DEF TaskType, IdleTask
<1>2. t.pc = (IF p = Main THEN "next" ELSE "idle") /\ t.name = None /\ t.uri = None
  BY DEF IdleTask
<1>3. task' = [task EXCEPT ![p] = t]
  BY DEF Return
<1> HIDE DEF t
<1> QED
  BY <1>1, <1>2, <1>3

\* The runs that are still to come, after one task has moved.
LEMMA OwedMoves ==
    ASSUME TypeOK, IsFiniteSet(Pending), NEW p \in Task, NEW t \in TaskType,
           task' = [task EXCEPT ![p] = t]
    PROVE  /\ IsFiniteSet(Pending')
           /\ Owed \in Nat /\ Owed' \in Nat
           /\ Owed' = Owed - Weight(task[p]) + Weight(t)
<1>1. /\ task \in [Task -> TaskType] /\ Main \in Task /\ Request \subseteq Task
      /\ task'[p] = t /\ \A o \in Task : o # p => task'[o] = task[o]
  BY TypeFacts DEF Task
<1>2. \A x : Weight(x) \in {0, 1}
  BY DEF Weight
<1>3. Cardinality(Pending) \in Nat
  BY FS_CardinalityType
<1>4. CASE p = Main
  <2>1. Pending' = Pending
    BY <1>1, <1>4 DEF Pending, Pc
  <2> QED
    BY <1>1, <1>2, <1>3, <1>4, <2>1 DEF Owed
<1>5. CASE p \in Request
  <2>1. task'[Main] = task[Main] /\ p # Main
    BY <1>1, <1>5
  <2>2. CASE t.pc \in Unspawned
    <3>1. Pending' = Pending \cup {p}
      BY <1>1, <1>5, <2>2 DEF Pending, Pc
    <3>2. /\ IsFiniteSet(Pending')
          /\ Cardinality(Pending') = IF p \in Pending THEN Cardinality(Pending)
                                     ELSE Cardinality(Pending) + 1
      BY <3>1, FS_AddElement
    <3>3. p \in Pending <=> task[p].pc \in Unspawned
      BY <1>5 DEF Pending, Pc
    <3>4. Weight(t) = 1 /\ Weight(task[p]) = IF p \in Pending THEN 1 ELSE 0
      BY <2>2, <3>3 DEF Weight
    <3> QED
      BY <1>2, <1>3, <2>1, <3>2, <3>4 DEF Owed
  <2>3. CASE t.pc \notin Unspawned
    <3>1. Pending' = Pending \ {p}
      BY <1>1, <1>5, <2>3 DEF Pending, Pc
    <3>2. /\ IsFiniteSet(Pending')
          /\ Cardinality(Pending') = IF p \in Pending THEN Cardinality(Pending) - 1
                                     ELSE Cardinality(Pending)
      BY <3>1, FS_RemoveElement
    <3>3. p \in Pending <=> task[p].pc \in Unspawned
      BY <1>5 DEF Pending, Pc
    <3>4. Weight(t) = 0 /\ Weight(task[p]) = IF p \in Pending THEN 1 ELSE 0
      BY <2>3, <3>3 DEF Weight
    <3>5. Cardinality(Pending') \in Nat
      BY <3>2, FS_CardinalityType
    <3> QED
      BY <1>2, <1>3, <2>1, <3>2, <3>4, <3>5 DEF Owed
  <2> QED
    BY <2>2, <2>3
<1> QED
  BY <1>4, <1>5 DEF Task
----------------------------------------------------------------------------
(* The types.                                                              *)

\* One task moves; the rest may change as long as it keeps its type.
LEMMA MoveType ==
    ASSUME TInv, NEW p \in Task, NEW t \in TaskType, task' = [task EXCEPT ![p] = t],
           p = Main => t.pc \in MainPlaces \ {"list"} /\ ~Serving,
           p \in Request => t.pc \in RequestPlaces /\ Serving,
           Holds(t, starts'),
           rows' \in [Uri -> Row \cup {None}],
           active' \in [Name -> Run \cup {0}], ActiveStarted',
           runs' \in [Run -> RunType], RunsTyped',
           starts' \in Run \cup {0}, starts <= starts',
           todo' \subseteq Uri, \A u \in todo' : rows'[u] # None,
           adds' \in Nat, adds' <= MaxAdds,
           Counted',
           starts' + (Owed - Weight(task[p]) + Weight(t)) + Cardinality(todo')
             <= adds' + Cardinality(Uri)
    PROVE  TInv'
<1>1. /\ task \in [Task -> TaskType] /\ Main \in Task /\ Request \subseteq Task /\ Main \notin Request
      /\ task'[p] = t /\ \A o \in Task : o # p => task'[o] = task[o]
      /\ task' \in [Task -> TaskType]
  BY TypeFacts DEF Task, TInv
<1>2. TypeOK'
  BY <1>1 DEF TInv, TypeOK, TaskType, RunType, Counted
<1>3. Places'
  BY <1>1 DEF TInv, Places, Pc, Serving, Free, Task
<1>4. ASSUME NEW o \in Task PROVE Holds(task[o], starts)'
  <2>1. CASE o = p
    BY <1>1, <2>1 DEF Holds
  <2>2. CASE o # p
    <3>1. 1 .. starts \subseteq 1 .. starts'
      BY RunFacts DEF TInv, TypeOK
    <3> QED
      BY <1>1, <2>2, <3>1 DEF Holds, TInv
  <2> QED
    BY <2>1, <2>2
<1>5. Budget'
  <2>1. /\ IsFiniteSet(Pending') /\ Owed' = Owed - Weight(task[p]) + Weight(t)
    BY OwedMoves DEF TInv, Budget
  <2>2. Pc(Main)' = "list" => starts' = 0
    <3>1. Pc(Main)' = "list" => FALSE
      <4>1. CASE p = Main
        BY <1>1, <4>1 DEF Pc
      <4>2. CASE p \in Request
        BY <1>1, <4>2 DEF Pc, Serving, TInv, Places
      <4> QED
        BY <4>1, <4>2 DEF Task
    <3> QED
      BY <3>1
  <2> QED
    BY <2>1, <2>2 DEF Budget
<1> QED
  BY <1>2, <1>3, <1>4, <1>5 DEF TInv

\* The budget of a step that spends no more than it frees.
LEMMA Affordable ==
    ASSUME TInv, NEW p \in Task, NEW t \in TaskType, task' = [task EXCEPT ![p] = t],
           NEW n \in Nat, NEW k \in Nat, NEW r \in Nat,
           n + Weight(t) + k - r <= starts + Weight(task[p]) + Cardinality(todo) - adds
    PROVE  n + (Owed - Weight(task[p]) + Weight(t)) + k <= r + Cardinality(Uri)
<1>1. TypeOK /\ IsFiniteSet(Pending)
  BY DEF TInv, Budget
<1>2. Owed \in Nat
  BY <1>1, OwedMoves
<1>3. Weight(t) \in Nat /\ Weight(task[p]) \in Nat
  BY DEF Weight
<1>4. starts \in Nat /\ adds \in Nat /\ Cardinality(todo) \in Nat
  BY <1>1, NumberFacts
<1>5. starts + Owed + Cardinality(todo) <= adds + Cardinality(Uri)
  BY DEF TInv, Budget
<1> QED
  BY <1>2, <1>3, <1>4, <1>5, UriCount

\* Rows stay, and other tasks keep what they hold, when one task moves on
\* without a new run.
LEMMA StepType ==
    ASSUME TInv, NEW p \in Task, NEW t \in TaskType, task' = [task EXCEPT ![p] = t],
           p = Main => t.pc \in MainPlaces \ {"list"} /\ ~Serving,
           p \in Request => t.pc \in RequestPlaces /\ Serving,
           Holds(t, starts),
           rows' \in [Uri -> Row \cup {None}],
           \A u \in Uri : rows[u] # None => rows'[u] # None,
           active' \in [Name -> Run \cup {0}], ActiveStarted',
           runs' \in [Run -> RunType], RunsTyped',
           UNCHANGED <<starts, todo, adds>>,
           Counted',
           Weight(t) <= Weight(task[p])
    PROVE  TInv'
<1>1. starts \in Nat /\ adds \in Nat /\ Cardinality(todo) \in Nat
  BY NumberFacts DEF TInv
<1>2. Weight(t) \in Nat /\ Weight(task[p]) \in Nat
  BY DEF Weight
<1>5. starts + Weight(t) + Cardinality(todo) - adds
        <= starts + Weight(task[p]) + Cardinality(todo) - adds
  BY <1>1, <1>2
<1>6. starts + (Owed - Weight(task[p]) + Weight(t)) + Cardinality(todo)
        <= adds + Cardinality(Uri)
  BY <1>1, <1>5, Affordable
<1>3. /\ starts' \in Run \cup {0} /\ starts <= starts' /\ todo' \subseteq Uri
      /\ \A u \in todo' : rows'[u] # None
      /\ adds' \in Nat /\ adds' <= MaxAdds
      /\ Holds(t, starts')
  <2>1. /\ starts \in Run \cup {0} /\ todo \subseteq Uri /\ \A u \in todo : rows[u] # None
        /\ adds <= MaxAdds
    BY TypeFacts DEF TInv, Budget
  <2> QED
    BY <1>1, <2>1
<1>4. starts' + (Owed - Weight(task[p]) + Weight(t)) + Cardinality(todo')
         <= adds' + Cardinality(Uri)
  BY <1>6
<1> QED
  BY <1>3, <1>4, MoveType

\* Where a task is not, given where it is.
LEMMA PlaceFacts ==
    ASSUME TInv, NEW p \in Task
    PROVE  /\ p = Main \/ p \in Request
           /\ Pc(p) \in Starting => (p = Main => ~Serving)
           /\ p \in Request /\ ~Free(p) => Serving
           /\ p \in Request => Pc(p) \in RequestPlaces
           /\ p = Main => Pc(p) \in MainPlaces
  BY DEF TInv, Places, Task, Serving, Free, Starting

\* What get_resource_by_name returns.
LEMMA CopiesFacts ==
    ASSUME TypeOK, NEW n, NEW c \in Copies(n)
    PROVE  c \in Copy /\ c.uri \in Uri /\ rows[c.uri] = c.row /\ c.row # None /\ c.row.name = n
  BY DEF TypeOK, Copies, Copy

\* A stop cancels a run that has been started.
LEMMA StopType ==
    ASSUME TInv, NEW n \in Name, StopRun(n), starts' = starts
    PROVE  /\ active' \in [Name -> Run \cup {0}] /\ ActiveStarted'
           /\ runs' \in [Run -> RunType] /\ RunsTyped'
<1>1. runs \in [Run -> RunType] /\ active \in [Name -> Run \cup {0}] /\ starts \in Nat
  BY TypeFacts, NumberFacts DEF TInv
<1>2. active' \in [Name -> Run \cup {0}] /\ ActiveStarted'
  BY <1>1 DEF StopRun, TInv, ActiveStarted
<1>3. active[n] # 0 => active[n] \in Run /\ active[n] <= starts
  BY <1>1 DEF TInv, ActiveStarted
<1>4. runs' \in [Run -> RunType]
  BY <1>1, <1>3 DEF StopRun, RunType
<1>5. ASSUME NEW g \in Run
      PROVE  \/ runs'[g] = runs[g]
             \/ /\ g = active[n] /\ active[n] # 0
                /\ runs'[g].name = runs[g].name /\ runs'[g].scan = runs[g].scan
                /\ runs'[g].copy = runs[g].copy
  BY <1>1, <1>3 DEF StopRun, RunType
<1>6. RunsTyped'
  <2> SUFFICES ASSUME NEW g \in Run
               PROVE  /\ g > starts => runs'[g] = NoRun
                      /\ g <= starts => runs'[g].name \in Name
                      /\ runs'[g].scan = "report" => runs'[g].copy \in Copy
    BY DEF RunsTyped
  <2>1. g > starts => runs'[g] = runs[g]
    BY <1>1, <1>3, <1>5, RunFacts
  <2> QED
    BY <1>5, <2>1 DEF RunsTyped, TInv
<1> QED
  BY <1>2, <1>4, <1>6

\* Only a task moves.
LEMMA TaskMovesType ==
    ASSUME TInv, NEW p \in Task, NEW t \in TaskType, task' = [task EXCEPT ![p] = t],
           p = Main => t.pc \in MainPlaces \ {"list"} /\ ~Serving,
           p \in Request => t.pc \in RequestPlaces /\ Serving,
           Holds(t, starts), Weight(t) <= Weight(task[p]),
           UNCHANGED <<rows, active, runs, starts, todo, counts>>
    PROVE  TInv'
<1>1. /\ rows' \in [Uri -> Row \cup {None}] /\ active' \in [Name -> Run \cup {0}]
      /\ runs' \in [Run -> RunType]
  BY TypeFacts DEF TInv, counts
<1>2. Counted'
  BY DEF TInv, TypeOK, counts, Counted
<1>3. RunsTyped' /\ ActiveStarted'
  BY DEF TInv, RunsTyped, ActiveStarted
<1>4. UNCHANGED <<starts, todo, adds>>
  BY DEF counts
<1>5. \A u \in Uri : rows[u] # None => rows'[u] # None
  OBVIOUS
<1> QED
  BY <1>1, <1>2, <1>3, <1>4, <1>5, StepType

\* A request is answered, whatever else changes.
LEMMA ReturnType ==
    ASSUME TInv, NEW q \in Request, ~Free(q), Return(q),
           active' \in [Name -> Run \cup {0}], ActiveStarted',
           runs' \in [Run -> RunType], RunsTyped',
           UNCHANGED <<rows, starts, todo, adds>>,
           Counted'
    PROVE  TInv'
<1>1. q \in Task /\ q # Main /\ Serving
  BY PlaceFacts DEF Task
<1>2. PICK t \in TaskType : task' = [task EXCEPT ![q] = t] /\ t.pc = "idle"
  BY <1>1, ReturnMoves
<1>3. /\ t.pc \in RequestPlaces /\ Holds(t, starts)
      /\ Weight(t) <= Weight(task[q])
  BY <1>2 DEF RequestPlaces, Holds, Weight, Unspawned
<1>4. rows' \in [Uri -> Row \cup {None}] /\ \A u \in Uri : rows[u] # None => rows'[u] # None
  BY TypeFacts DEF TInv
<1> QED
  BY <1>1, <1>2, <1>3, <1>4, StepType

\* A request is answered, and nothing else changes.
LEMMA AnswerType ==
    ASSUME TInv, NEW q \in Request, ~Free(q), Return(q),
           UNCHANGED <<rows, active, runs, starts, todo, counts>>
    PROVE  TInv'
<1>1. q \in Task /\ q # Main /\ Serving
  BY PlaceFacts DEF Task
<1>2. PICK t \in TaskType : task' = [task EXCEPT ![q] = t] /\ t.pc = "idle"
  BY <1>1, ReturnMoves
<1>3. /\ t.pc \in RequestPlaces /\ Holds(t, starts)
      /\ Weight(t) <= Weight(task[q])
  BY <1>2 DEF RequestPlaces, Holds, Weight, Unspawned
<1> QED
  BY <1>1, <1>2, <1>3, TaskMovesType

\* A request is received, with the run it may come to spawn.
LEMMA ReceiveType ==
    ASSUME TInv, NEW q \in Request, NEW n \in Name, NEW u \in Uri \cup {None},
           NEW where \in {"by_uri", "find"}, Receive(q, n, u, where),
           IF where = "by_uri" THEN u \in Uri /\ adds < MaxAdds /\ adds' = adds + 1
                               ELSE adds' = adds,
           removes' \in Nat
    PROVE  TInv'
<1> DEFINE t == [pc |-> where, name |-> n, uri |-> u, copy |-> None, run |-> 0]
<1>1. /\ q \in Task /\ q # Main /\ Serving /\ TypeOK
      /\ Pc(q) = "idle" /\ task' = [task EXCEPT ![q] = t]
      /\ UNCHANGED <<rows, active, runs, starts, todo, faults, crashes, lapses, clashed>>
  BY DEF Receive, Task, Free, TInv
<1>2. t \in TaskType
  BY DEF TaskType, StoreSteps
<1>3. /\ t.pc \in RequestPlaces /\ Holds(t, starts)
      /\ Weight(t) = (IF where = "by_uri" THEN 1 ELSE 0) /\ Weight(task[q]) = 0
  BY <1>1 DEF RequestPlaces, Holds, Weight, Unspawned, Pc
<1> HIDE DEF t
<1>4. /\ starts \in Nat /\ adds \in Nat /\ Cardinality(todo) \in Nat
      /\ adds <= MaxAdds
  BY <1>1, NumberFacts DEF TInv, Budget
<1>11. adds' \in Nat /\ adds' <= MaxAdds
  BY <1>4
<1>5. starts + (Owed - Weight(task[q]) + Weight(t)) + Cardinality(todo)
        <= adds' + Cardinality(Uri)
  <2>1. starts + Weight(t) + Cardinality(todo) - adds'
          <= starts + Weight(task[q]) + Cardinality(todo) - adds
    BY <1>1, <1>3, <1>4
  <2> QED
    BY <1>1, <1>2, <1>4, <1>11, <2>1, Affordable
<1>6. /\ rows' \in [Uri -> Row \cup {None}] /\ active' \in [Name -> Run \cup {0}]
      /\ runs' \in [Run -> RunType]
      /\ starts' \in Run \cup {0} /\ starts <= starts' /\ todo' \subseteq Uri
  BY <1>1, <1>4, TypeFacts
<1>7. Counted' /\ \A v \in todo' : rows'[v] # None
  BY <1>1, TypeFacts DEF TInv, Counted
<1>8. RunsTyped' /\ ActiveStarted'
  BY <1>1 DEF TInv, RunsTyped, ActiveStarted
<1>9. starts' + (Owed - Weight(task[q]) + Weight(t)) + Cardinality(todo')
        <= adds' + Cardinality(Uri)
  BY <1>1, <1>5
<1>10. Holds(t, starts')
  BY <1>1, <1>3
<1> QED
  BY <1>1, <1>2, <1>3, <1>11, <1>6, <1>7, <1>8, <1>9, <1>10, MoveType

\* The look-ups of a request, and the rejection of an add.
LEMMA LookType ==
    ASSUME TInv, NEW q \in Request,
           AlreadyRegistered(q) \/ FindUri(q) \/ FindName(q) \/ Reject(q) \/ Find(q)
    PROVE  TInv'
<1>1. /\ q \in Task /\ q # Main /\ TypeOK
      /\ UNCHANGED <<rows, active, runs, starts, todo, counts>>
      /\ Pc(q) \in {"by_uri", "by_name", "insert", "find"}
  BY DEF TInv, Task, AlreadyRegistered, FindUri, FindName, Reject, Find
<1>2. ~Free(q) /\ Serving /\ Holds(task[q], starts)
  BY <1>1, PlaceFacts DEF Free, TInv
<1>3. CASE Return(q)
  BY <1>1, <1>2, <1>3, AnswerType
<1>4. ASSUME NEW where \in {"by_name", "insert"}, Goto(q, where), Pc(q) \in {"by_uri", "by_name"}
      PROVE  TInv'
  <2>1. PICK t \in TaskType :
           /\ task' = [task EXCEPT ![q] = t]
           /\ t.pc = where /\ t.name = task[q].name /\ t.uri = task[q].uri
    BY <1>1, <1>4, GotoMoves DEF StoreSteps
  <2>2. /\ t.pc \in RequestPlaces /\ Holds(t, starts)
        /\ Weight(t) <= Weight(task[q])
    BY <1>2, <1>4, <2>1 DEF RequestPlaces, Holds, Weight, Unspawned, Pc
  <2> QED
    BY <1>1, <1>2, <2>1, <2>2, TaskMovesType
<1>5. ASSUME Pc(q) = "find", NEW c \in Copies(task[q].name),
             CopyTo(q, "deactivate", c)
      PROVE  TInv'
  <2>1. c \in Copy
    BY <1>1, CopiesFacts
  <2>2. PICK t \in TaskType :
           /\ task' = [task EXCEPT ![q] = t]
           /\ t.pc = "deactivate" /\ t.name = task[q].name /\ t.copy = c
    BY <1>1, <1>5, <2>1, CopyMoves
  <2>3. /\ t.pc \in RequestPlaces /\ Holds(t, starts)
        /\ Weight(t) <= Weight(task[q])
    BY <1>2, <1>5, <2>1, <2>2 DEF RequestPlaces, Holds, Weight, Unspawned, Pc
  <2> QED
    BY <1>1, <1>2, <2>2, <2>3, TaskMovesType
<1>6. CASE AlreadyRegistered(q)
  BY <1>3, <1>6 DEF AlreadyRegistered
<1>7. CASE FindUri(q)
  BY <1>3, <1>4, <1>7 DEF FindUri
<1>8. CASE FindName(q)
  BY <1>3, <1>4, <1>8 DEF FindName
<1>9. CASE Reject(q)
  BY <1>3, <1>9 DEF Reject
<1>10. CASE Find(q)
  BY <1>3, <1>5, <1>10 DEF Find, CopyTo
<1> QED
  BY <1>6, <1>7, <1>8, <1>9, <1>10

\* A row is written whole: it has the type of a row, and no row disappears.
LEMMA UpsertType ==
    ASSUME TypeOK, NEW u \in Uri, NEW r \in Row, Upsert(u, r)
    PROVE  /\ rows' \in [Uri -> Row \cup {None}]
           /\ rows'[u] = r /\ \A v \in Uri : v # u => rows'[v] = rows[v]
           /\ \A v \in Uri : rows[v] # None => rows'[v] # None
<1>1. rows \in [Uri -> Row \cup {None}] /\ None \notin Row
  BY TypeFacts
<1>2. /\ rows' \in [Uri -> Row \cup {None}] /\ rows'[u] = r
      /\ \A v \in Uri : v # u => rows'[v] = rows[v]
  BY <1>1 DEF Upsert
<1> QED
  BY <1>1, <1>2

\* Each of the three rows that tasks write is a row.
LEMMA RowsWritten ==
    /\ \A n \in Name : [name |-> n, status |-> "active", indexing |-> "pending"] \in Row
    /\ \A c \in Copy : /\ c.uri \in Uri
                       /\ [c.row EXCEPT !.status = "inactive"] \in Row
                       /\ [c.row EXCEPT !.indexing = "indexing"] \in Row
                       /\ [c.row EXCEPT !.indexing = "indexed"] \in Row
<1>1. \A n \in Name : [name |-> n, status |-> "active", indexing |-> "pending"] \in Row
  BY DEF Row, Status, Indexing
<1>2. ASSUME NEW c \in Copy
      PROVE  /\ c.uri \in Uri
             /\ [c.row EXCEPT !.status = "inactive"] \in Row
             /\ [c.row EXCEPT !.indexing = "indexing"] \in Row
             /\ [c.row EXCEPT !.indexing = "indexed"] \in Row
  <2>1. c.uri \in Uri /\ c.row \in Row
    BY DEF Copy
  <2> QED
    BY <2>1 DEF Row, Status, Indexing
<1> QED
  BY <1>1, <1>2

\* Insert, Deactivate and Mark.
LEMMA WriteType ==
    ASSUME TInv, NEW p \in Task, NEW u \in Uri, NEW r \in Row, Upsert(u, r),
           NEW t \in TaskType, task' = [task EXCEPT ![p] = t],
           p = Main => t.pc \in MainPlaces \ {"list"} /\ ~Serving,
           p \in Request => t.pc \in RequestPlaces /\ Serving,
           Holds(t, starts), Weight(t) <= Weight(task[p]),
           UNCHANGED <<active, runs, starts, todo, adds>>, Counted'
    PROVE  TInv'
<1>1. /\ active' \in [Name -> Run \cup {0}]
      /\ runs' \in [Run -> RunType]
  BY TypeFacts DEF TInv
<1>3. RunsTyped' /\ ActiveStarted'
  BY DEF TInv, RunsTyped, ActiveStarted
<1>5. /\ rows' \in [Uri -> Row \cup {None}]
      /\ \A v \in Uri : rows[v] # None => rows'[v] # None
  BY UpsertType DEF TInv
<1> QED
  BY <1>1, <1>3, <1>5, StepType

LEMMA RequestWritesType ==
    ASSUME TInv, NEW q \in Request, Insert(q) \/ Deactivate(q)
    PROVE  TInv'
<1>1. /\ q \in Task /\ q # Main /\ TypeOK /\ Pc(q) \in {"insert", "deactivate"}
      /\ UNCHANGED <<active, runs, starts, todo>>
  BY DEF Insert, Deactivate, Task, TInv
<1>2. Serving /\ Holds(task[q], starts)
  BY <1>1, PlaceFacts DEF Free, TInv
<1>3. CASE Insert(q)
  <2>1. PICK t \in TaskType :
           /\ task' = [task EXCEPT ![q] = t]
           /\ t.pc = "stop" /\ t.name = task[q].name /\ t.uri = task[q].uri
    BY <1>1, <1>3, GotoMoves DEF Insert
  <2>2. /\ t.pc \in RequestPlaces /\ Holds(t, starts)
        /\ Weight(t) <= Weight(task[q])
    BY <1>2, <1>3, <2>1 DEF RequestPlaces, Starting, Holds, Weight, Unspawned, Pc, Insert
  <2>3. task[q].name \in Name /\ task[q].uri \in Uri
    BY <1>2, <1>3 DEF Holds, Insert, Pc, Unspawned
  <2>4. ASSUME NEW r \in Overtaken(q) \cup {q} PROVE task[r].name \in Name
    <3>1. r \in Task /\ Pc(r) \in {"by_name", "insert"}
      BY <1>1, <1>3 DEF Overtaken, Insert, Task
    <3> QED
      BY <3>1 DEF TInv, Holds, Pc, Unspawned
  <2>5. adds' = adds /\ removes' = removes /\ faults' = faults /\ crashes' = crashes
        /\ lapses' = lapses /\ clashed' \subseteq clashed \cup {task[r].name : r \in Overtaken(q) \cup {q}}
    BY <1>3 DEF Insert
  <2>6. Counted'
    BY <1>1, <2>4, <2>5, TypeFacts DEF Counted
  <2> QED
    BY <1>1, <1>2, <1>3, <2>1, <2>2, <2>3, <2>5, <2>6, RowsWritten, WriteType DEF Insert
<1>4. CASE Deactivate(q)
  <2>1. PICK t \in TaskType :
           /\ task' = [task EXCEPT ![q] = t]
           /\ t.pc = "halt" /\ t.name = task[q].name
    BY <1>1, <1>4, GotoMoves DEF Deactivate
  <2>2. /\ t.pc \in RequestPlaces /\ Holds(t, starts)
        /\ Weight(t) <= Weight(task[q])
    BY <1>2, <1>4, <2>1 DEF RequestPlaces, Holds, Weight, Unspawned, Pc, Deactivate
  <2>3. task[q].copy \in Copy
    BY <1>2, <1>4 DEF Holds, Deactivate, Pc
  <2>4. adds' = adds /\ Counted'
    BY <1>1, <1>4, CountsType DEF Deactivate
  <2> QED
    BY <1>1, <1>2, <1>4, <2>1, <2>2, <2>3, <2>4, RowsWritten, WriteType DEF Deactivate
<1> QED
  BY <1>3, <1>4

\* A task that moves on in a start, or within its request, stands where such a
\* task may stand.
LEMMA StartPlace ==
    ASSUME TInv, NEW p \in Task, Pc(p) \in Starting
    PROVE  /\ p = Main => ~Serving
           /\ p \in Request => Serving
           /\ Starting \subseteq RequestPlaces /\ Starting \subseteq MainPlaces \ {"list"}
<1>1. p \in Request => ~Free(p)
  BY DEF Free, Starting
<1>2. Starting \subseteq RequestPlaces /\ Starting \subseteq MainPlaces \ {"list"}
  BY DEF Starting, RequestPlaces, MainPlaces
<1> QED
  BY <1>1, <1>2, PlaceFacts

\* The read and the write of the row by a start.
LEMMA LoadType ==
    ASSUME TInv, NEW p \in Task, Load(p)
    PROVE  TInv'
<1>1. /\ TypeOK /\ Pc(p) = "load" /\ Pc(p) \in Starting /\ Holds(task[p], starts)
      /\ UNCHANGED <<rows, active, runs, starts, todo, counts>>
  BY DEF TInv, Load, Starting
<1>2. CASE Goto(p, "spawn")
  <2>1. PICK t \in TaskType :
           /\ task' = [task EXCEPT ![p] = t]
           /\ t.pc = "spawn" /\ t.name = task[p].name /\ t.uri = task[p].uri
    BY <1>1, <1>2, GotoMoves
  <2>2. /\ t.pc \in Starting /\ Holds(t, starts)
        /\ Weight(t) <= Weight(task[p])
    BY <1>1, <2>1 DEF Starting, Holds, Weight, Unspawned, Pc
  <2> QED
    BY <1>1, <2>1, <2>2, StartPlace, TaskMovesType
<1>3. ASSUME NEW c \in Copies(task[p].name), CopyTo(p, "mark", c)
      PROVE  TInv'
  <2>1. c \in Copy
    BY <1>1, CopiesFacts
  <2>2. PICK t \in TaskType :
           /\ task' = [task EXCEPT ![p] = t]
           /\ t.pc = "mark" /\ t.name = task[p].name /\ t.uri = task[p].uri /\ t.copy = c
    BY <1>1, <1>3, <2>1, CopyMoves
  <2>3. /\ t.pc \in Starting /\ Holds(t, starts)
        /\ Weight(t) <= Weight(task[p])
    BY <1>1, <2>1, <2>2 DEF Starting, Holds, Weight, Unspawned, Pc
  <2> QED
    BY <1>1, <2>2, <2>3, StartPlace, TaskMovesType
<1> QED
  BY <1>2, <1>3 DEF Load, CopyTo

\* What Mark leaves in the task.
LEMMA MarkMoves ==
    ASSUME TypeOK, NEW p \in Task, Mark(p)
    PROVE  \E t \in TaskType :
              /\ task' = [task EXCEPT ![p] = t]
              /\ t.pc = "spawn" /\ t.name = task[p].name /\ t.uri = task[p].uri
<1> DEFINE t == [task[p] EXCEPT !.pc = "spawn", !.copy = None]
<1>1. task[p] \in TaskType
  BY TypeFacts
<1>2. t \in TaskType
  BY <1>1 DEF TaskType
<1>3. t.pc = "spawn" /\ t.name = task[p].name /\ t.uri = task[p].uri
  BY <1>1 DEF TaskType
<1>4. task' = [task EXCEPT ![p] = t]
  BY TypeFacts DEF Mark
<1> HIDE DEF t
<1> QED
  BY <1>2, <1>3, <1>4

LEMMA MarkType ==
    ASSUME TInv, NEW p \in Task, Mark(p)
    PROVE  TInv'
<1>1. /\ TypeOK /\ Pc(p) = "mark" /\ Pc(p) \in Starting /\ Holds(task[p], starts)
      /\ UNCHANGED <<active, runs, starts, todo, counts>>
  BY DEF TInv, Mark, Starting
<1>2. PICK t \in TaskType :
         /\ task' = [task EXCEPT ![p] = t]
         /\ t.pc = "spawn" /\ t.name = task[p].name /\ t.uri = task[p].uri
  BY <1>1, MarkMoves
<1>3. /\ t.pc \in Starting /\ Holds(t, starts)
      /\ Weight(t) <= Weight(task[p])
  BY <1>1, <1>2 DEF Starting, Holds, Weight, Unspawned, Pc
<1>4. task[p].copy \in Copy
  BY <1>1 DEF Holds, Pc
<1>5. PICK u \in Uri, r \in Row : Upsert(u, r)
  BY <1>4, RowsWritten DEF Mark
<1>6. adds' = adds /\ Counted'
  BY <1>1, CountsType
<1> QED
  BY <1>1, <1>2, <1>3, <1>5, <1>6, StartPlace, WriteType

\* A stop, in a removal or in a start.
LEMMA HaltType ==
    ASSUME TInv, NEW q \in Request, Halt(q)
    PROVE  TInv'
<1>1. /\ q \in Task /\ Pc(q) = "halt" /\ ~Free(q) /\ Return(q) /\ StopRun(task[q].name)
      /\ UNCHANGED <<rows, starts, todo, adds, removes, faults, crashes, clashed>>
  BY DEF Halt, Task, Free
<1>2. task[q].name \in Name
  BY <1>1 DEF TInv, Holds, Pc
<1>3. lapses' \subseteq lapses \cup {<<task[q].name, "missed">>}
  BY DEF Halt
<1>4. Counted'
  BY <1>1, <1>2, <1>3, TypeFacts DEF TInv, Counted, Lapse
<1> QED
  BY <1>1, <1>2, <1>4, StopType, ReturnType

LEMMA StopOldType ==
    ASSUME TInv, NEW p \in Task, StopOld(p)
    PROVE  TInv'
<1>1. /\ TypeOK /\ Pc(p) = "stop" /\ Pc(p) \in Starting /\ Holds(task[p], starts)
      /\ StopRun(task[p].name) /\ UNCHANGED <<rows, starts, todo, counts>>
  BY DEF StopOld, Starting, TInv
<1>2. task[p].name \in Name
  BY <1>1 DEF TInv, Holds, Pc, Unspawned
<1>3. /\ UNCHANGED <<starts, todo, adds>>
      /\ rows' \in [Uri -> Row \cup {None}] /\ \A u \in Uri : rows[u] # None => rows'[u] # None
  BY <1>1, TypeFacts DEF TInv, counts
<1>4. Counted'
  BY <1>1 DEF TInv, TypeOK, counts, Counted
<1>5. PICK t \in TaskType :
         /\ task' = [task EXCEPT ![p] = t]
         /\ t.pc = "load" /\ t.name = task[p].name /\ t.uri = task[p].uri
  BY <1>1, GotoMoves DEF StopOld, StoreSteps
<1>6. /\ t.pc \in Starting /\ Holds(t, starts)
      /\ Weight(t) <= Weight(task[p])
  BY <1>1, <1>5 DEF Starting, Holds, Weight, Unspawned, Pc
<1>7. /\ active' \in [Name -> Run \cup {0}] /\ ActiveStarted'
      /\ runs' \in [Run -> RunType] /\ RunsTyped'
  BY <1>1, <1>2, StopType
<1> QED
  BY <1>1, <1>3, <1>4, <1>5, <1>6, <1>7, StartPlace, StepType

\* A start's next run is within the budget.
LEMMA NextRun ==
    ASSUME TInv, NEW p \in Task, Pc(p) = "spawn"
    PROVE  starts \in Nat /\ starts + 1 \in Run
<1>1. /\ TypeOK /\ IsFiniteSet(Pending)
      /\ starts + Owed + Cardinality(todo) <= adds + Cardinality(Uri)
      /\ adds <= MaxAdds
  BY DEF TInv, Budget
<1>2. starts \in Nat /\ adds \in Nat /\ Cardinality(todo) \in Nat
  BY <1>1, NumberFacts
<1>3. Cardinality(Pending) \in Nat /\ Weight(task[Main]) \in {0, 1}
  BY <1>1, FS_CardinalityType DEF Weight
<1>4. p = Main => Weight(task[Main]) = 1
  BY DEF Weight, Pc, Unspawned
<1>5. p \in Request => Cardinality(Pending) # 0
  <2>1. p \in Request => p \in Pending
    BY DEF Pending, Unspawned
  <2> QED
    BY <1>1, <2>1, FS_EmptySet
<1>6. Owed \in Nat /\ Owed >= 1
  BY <1>3, <1>4, <1>5 DEF Owed, Task
<1> QED
  BY <1>1, <1>2, <1>6, UriCount DEF Run

\* The record of the run that is spawned, and the records that stay.
LEMMA SpawnRunType ==
    ASSUME TInv, NEW p \in Task, NEW loop \in {"live", "none"}, SpawnRun(p, loop),
           task[p].name \in Name, starts + 1 \in Run, active' = active
    PROVE  /\ starts' = starts + 1
           /\ runs'[starts + 1].name = task[p].name /\ ~runs'[starts + 1].cancelled
           /\ runs'[starts + 1].scan = "running" /\ runs'[starts + 1].loop = loop
           /\ \A g \in Run : g # starts + 1 => runs'[g] = runs[g]
           /\ runs' \in [Run -> RunType] /\ RunsTyped' /\ ActiveStarted'
<1> DEFINE r == [NoRun EXCEPT !.name = task[p].name, !.scan = "running", !.loop = loop]
<1>1. r.name = task[p].name /\ ~r.cancelled /\ r.scan = "running" /\ r.loop = loop
  BY DEF NoRun
<1>2. r \in RunType /\ r.name \in Name
  BY DEF RunType, NoRun
<1>3. /\ starts' = starts + 1 /\ runs' = [runs EXCEPT ![starts + 1] = r]
  BY DEF SpawnRun
<1> HIDE DEF r
<1>4. runs \in [Run -> RunType] /\ starts \in Nat
  BY TypeFacts, NumberFacts DEF TInv
<1>5. /\ runs' \in [Run -> RunType] /\ runs'[starts + 1] = r
      /\ \A g \in Run : g # starts + 1 => runs'[g] = runs[g]
  BY <1>2, <1>3, <1>4
<1>6. RunsTyped'
  <2> SUFFICES ASSUME NEW g \in Run
               PROVE  /\ g > starts' => runs'[g] = NoRun
                      /\ g <= starts' => runs'[g].name \in Name
                      /\ runs'[g].scan = "report" => runs'[g].copy \in Copy
    BY DEF RunsTyped
  <2>1. g \in Nat
    BY RunFacts
  <2>2. CASE g = starts + 1
    BY <1>1, <1>2, <1>3, <1>4, <1>5, <2>1, <2>2
  <2>3. CASE g # starts + 1
    <3>1. /\ g > starts' => g > starts
          /\ g <= starts' => g <= starts
      BY <1>3, <1>4, <2>1, <2>3
    <3> QED
      BY <1>5, <2>3, <3>1 DEF RunsTyped, TInv
  <2> QED
    BY <2>2, <2>3
<1>7. ActiveStarted'
  BY <1>3, <1>4 DEF ActiveStarted, TInv
<1> QED
  BY <1>1, <1>3, <1>5, <1>6, <1>7

LEMMA SpawnMoves ==
    ASSUME TypeOK, NEW p \in Task, starts + 1 \in Run, Spawn(p)
    PROVE  \E t \in TaskType :
              /\ task' = [task EXCEPT ![p] = t]
              /\ t.pc = "register" /\ t.name = task[p].name /\ t.uri = task[p].uri
              /\ t.run = starts + 1
<1> DEFINE t == [task[p] EXCEPT !.pc = "register", !.run = starts + 1]
<1>1. task[p] \in TaskType
  BY TypeFacts
<1>2. t \in TaskType
  BY <1>1 DEF TaskType
<1>3. t.pc = "register" /\ t.name = task[p].name /\ t.uri = task[p].uri /\ t.run = starts + 1
  BY <1>1 DEF TaskType
<1>4. task' = [task EXCEPT ![p] = t]
  BY TypeFacts DEF Spawn
<1> HIDE DEF t
<1> QED
  BY <1>2, <1>3, <1>4

\* A run is spawned, by a start that registers it next or by one whose watch
\* fails.
LEMMA SpawnedType ==
    ASSUME TInv, NEW p \in Task, NEW loop \in {"live", "none"}, SpawnRun(p, loop),
           NEW t \in TaskType, task' = [task EXCEPT ![p] = t], Weight(t) = 0,
           t.pc \in {"register", "idle"}, t.pc = "idle" => p \in Request, Holds(t, starts + 1),
           UNCHANGED <<rows, active, todo, adds>>,
           Counted'
    PROVE  TInv'
<1>1. TypeOK /\ Pc(p) = "spawn" /\ Pc(p) \in Starting /\ Holds(task[p], starts)
  BY DEF TInv, SpawnRun, Starting
<1>2. task[p].name \in Name
  BY <1>1 DEF Holds, Pc, Unspawned
<1>3. /\ starts \in Nat /\ starts + 1 \in Run
  BY <1>1, NextRun
<1>4. starts' = starts + 1 /\ runs' \in [Run -> RunType] /\ RunsTyped' /\ ActiveStarted'
  BY <1>2, <1>3, SpawnRunType
<1>5. /\ p = Main => t.pc \in MainPlaces \ {"list"} /\ ~Serving
      /\ p \in Request => t.pc \in RequestPlaces /\ Serving
  <2>1. p \in Request => p # Main
    OBVIOUS
  <2> QED
    BY <1>1, <2>1, StartPlace DEF Starting, RequestPlaces, MainPlaces
<1>6. /\ rows' \in [Uri -> Row \cup {None}] /\ active' \in [Name -> Run \cup {0}]
      /\ todo' \subseteq Uri /\ adds' \in Nat
  BY <1>1, TypeFacts
<1>7. (\A u \in todo' : rows'[u] # None) /\ adds' <= MaxAdds
  BY DEF TInv, Budget
<1>8. starts' \in Run \cup {0} /\ starts <= starts' /\ Holds(t, starts')
  BY <1>3, <1>4
<1>9. starts' + (Owed - Weight(task[p]) + Weight(t)) + Cardinality(todo')
        <= adds' + Cardinality(Uri)
  <2>1. Weight(task[p]) = 1
    BY <1>1 DEF Weight, Pc, Unspawned
  <2>2. starts + 1 \in Nat /\ adds \in Nat /\ Cardinality(todo) \in Nat
    BY <1>1, NumberFacts
  <2>3. starts + 1 + Weight(t) + Cardinality(todo) - adds
          <= starts + Weight(task[p]) + Cardinality(todo) - adds
    BY <1>3, <2>1, <2>2
  <2>4. starts + 1 + (Owed - Weight(task[p]) + Weight(t)) + Cardinality(todo)
          <= adds + Cardinality(Uri)
    BY <2>2, <2>3, Affordable
  <2> QED
    BY <1>4, <2>4
<1> QED
  BY <1>4, <1>5, <1>6, <1>7, <1>8, <1>9, MoveType

LEMMA SpawnType ==
    ASSUME TInv, NEW p \in Task, Spawn(p)
    PROVE  TInv'
<1>1. /\ TypeOK /\ Pc(p) = "spawn" /\ Holds(task[p], starts) /\ SpawnRun(p, "live")
      /\ UNCHANGED <<rows, active, todo, counts>>
  BY DEF TInv, Spawn, SpawnRun
<1>3. starts \in Nat /\ starts + 1 \in Run
  BY <1>1, NextRun
<1>4. PICK t \in TaskType :
         /\ task' = [task EXCEPT ![p] = t]
         /\ t.pc = "register" /\ t.name = task[p].name /\ t.uri = task[p].uri
         /\ t.run = starts + 1
  BY <1>1, <1>3, SpawnMoves
<1>5. Weight(t) = 0 /\ Holds(t, starts + 1)
  BY <1>1, <1>3, <1>4 DEF Weight, Unspawned, Holds, Pc
<1>6. /\ UNCHANGED <<rows, active, todo, adds>>
  BY <1>1, TypeFacts DEF counts
<1>7. Counted'
  BY <1>1 DEF TypeOK, counts, Counted
<1> QED
  BY <1>1, <1>4, <1>5, <1>6, <1>7, SpawnedType

LEMMA WatchFailsType ==
    ASSUME TInv, NEW q \in Request, WatchFails(q)
    PROVE  TInv'
<1>1. /\ q \in Task /\ q # Main /\ Pc(q) = "spawn" /\ SpawnRun(q, "none") /\ TypeOK
      /\ Abandon(q) /\ Return(q) /\ CountFault /\ UNCHANGED <<rows, active, todo>>
  BY DEF WatchFails, SpawnRun, Task, TInv
<1>2. PICK t \in TaskType : task' = [task EXCEPT ![q] = t] /\ t.pc = "idle"
  BY <1>1, ReturnMoves
<1>3. Weight(t) = 0 /\ Holds(t, starts + 1)
  BY <1>2 DEF Holds, Weight, Unspawned
<1>4. adds' = adds /\ Counted'
  BY <1>1, FaultType DEF Abandon
<1> QED
  BY <1>1, <1>2, <1>3, <1>4, SpawnedType

\* A loop whose watcher is closed spins.
LEMMA SpinType ==
    ASSUME TInv, NEW g \in Run, runs' = [runs EXCEPT ![g].loop = "spinning"], starts' = starts,
           g <= starts
    PROVE  runs' \in [Run -> RunType] /\ RunsTyped'
<1>1. runs \in [Run -> RunType] /\ starts \in Nat
  BY TypeFacts, NumberFacts DEF TInv
<1>2. runs' \in [Run -> RunType]
  BY <1>1 DEF RunType
<1>3. /\ runs'[g].name = runs[g].name /\ runs'[g].scan = runs[g].scan
      /\ runs'[g].copy = runs[g].copy
      /\ \A h \in Run : h # g => runs'[h] = runs[h]
  BY <1>1 DEF RunType
<1>4. RunsTyped'
  <2> SUFFICES ASSUME NEW h \in Run
               PROVE  /\ h > starts => runs'[h] = NoRun
                      /\ h <= starts => runs'[h].name \in Name
                      /\ runs'[h].scan = "report" => runs'[h].copy \in Copy
    BY DEF RunsTyped
  <2>1. h > starts => h # g
    BY <1>1, RunFacts
  <2> QED
    BY <1>3, <2>1 DEF RunsTyped, TInv
<1> QED
  BY <1>2, <1>4

LEMMA RegisterType ==
    ASSUME TInv, NEW p \in Task, Register(p)
    PROVE  TInv'
<1>1. /\ TypeOK /\ Pc(p) = "register" /\ Pc(p) \in Starting /\ Holds(task[p], starts)
      /\ Return(p) /\ UNCHANGED <<rows, starts, todo, counts>>
      /\ active' = [active EXCEPT ![task[p].name] = task[p].run]
  BY DEF Register, Starting, TInv
<1>2. task[p].name \in Name /\ task[p].run \in 1 .. starts
  BY <1>1 DEF Holds, Pc
<1>3. task[p].run \in Run /\ starts \in Nat
  BY <1>1, <1>2, TypeFacts, NumberFacts, UriCount DEF Run
<1>4. active' \in [Name -> Run \cup {0}] /\ ActiveStarted'
  BY <1>1, <1>2, <1>3, TypeFacts DEF ActiveStarted, TInv
<1>5. runs' \in [Run -> RunType] /\ RunsTyped'
  <2>1. CASE active[task[p].name] = 0
    <3>1. runs' = runs
      BY <2>1 DEF Register
    <3> QED
      BY <1>1, <3>1, TypeFacts DEF RunsTyped, TInv
  <2>2. CASE active[task[p].name] # 0
    <3>1. active[task[p].name] \in Run /\ active[task[p].name] <= starts
      BY <1>1, <1>2, <1>3, <2>2, TypeFacts DEF TInv, ActiveStarted
    <3>2. runs' = [runs EXCEPT ![active[task[p].name]].loop = "spinning"]
      BY <2>2 DEF Register
    <3> QED
      BY <1>1, <3>1, <3>2, SpinType
  <2> QED
    BY <2>1, <2>2
<1>6. PICK t \in TaskType :
         /\ task' = [task EXCEPT ![p] = t]
         /\ t.pc = (IF p = Main THEN "next" ELSE "idle")
  BY <1>1, ReturnMoves
<1>7. Holds(t, starts) /\ Weight(t) <= Weight(task[p])
  BY <1>6 DEF Holds, Weight, Unspawned
<1>8. /\ p = Main => t.pc \in MainPlaces \ {"list"} /\ ~Serving
      /\ p \in Request => t.pc \in RequestPlaces /\ Serving
  <2>1. p \in Request => p # Main
    OBVIOUS
  <2> QED
    BY <1>1, <1>6, <2>1, StartPlace DEF RequestPlaces, MainPlaces
<1>9. /\ UNCHANGED <<starts, todo, adds>>
      /\ rows' \in [Uri -> Row \cup {None}] /\ \A u \in Uri : rows[u] # None => rows'[u] # None
  BY <1>1, TypeFacts DEF counts
<1>10. Counted'
  BY <1>1 DEF TypeOK, counts, Counted
<1> QED
  BY <1>4, <1>5, <1>6, <1>7, <1>8, <1>9, <1>10, StepType

LEMMA DisconnectType ==
    ASSUME TInv, NEW q \in Request, Disconnect(q)
    PROVE  TInv'
<1>1. /\ TypeOK /\ q \in Task /\ ~Free(q) /\ Abandon(q) /\ Return(q) /\ Holds(task[q], starts)
      /\ UNCHANGED <<rows, active, starts, todo>> /\ CountFault
  BY DEF Disconnect, Task, TInv
<1>2. runs' \in [Run -> RunType] /\ RunsTyped'
  <2>1. CASE Pc(q) = "register"
    <3>1. task[q].run \in 1 .. starts
      BY <1>1, <2>1 DEF Holds, Pc
    <3>2. task[q].run \in Run /\ task[q].run <= starts
      BY <1>1, <3>1, TypeFacts, NumberFacts, UriCount DEF Run
    <3>3. runs' = [runs EXCEPT ![task[q].run].loop = "spinning"]
      BY <2>1 DEF Disconnect
    <3> QED
      BY <1>1, <3>2, <3>3, SpinType
  <2>2. CASE Pc(q) # "register"
    <3>1. runs' = runs
      BY <2>2 DEF Disconnect
    <3> QED
      BY <1>1, <3>1, TypeFacts DEF RunsTyped, TInv
  <2> QED
    BY <2>1, <2>2
<1>3. active' \in [Name -> Run \cup {0}] /\ ActiveStarted'
  BY <1>1, TypeFacts DEF ActiveStarted, TInv
<1>4. adds' = adds /\ Counted'
  BY <1>1, FaultType DEF Abandon
<1> QED
  BY <1>1, <1>2, <1>3, <1>4, ReturnType

\* A process that has just started, or has just ended.
Fresh ==
    /\ rows \in [Uri -> Row \cup {None}]
    /\ active = [n \in Name |-> 0]
    /\ runs = [g \in Run |-> NoRun]
    /\ starts = 0
    /\ task \in {Process("list"), Process("down")}
    /\ todo = {}
    /\ lapses = {}
    /\ adds \in Nat /\ adds <= MaxAdds /\ Counted

LEMMA FreshType == Fresh => TInv
<1> SUFFICES ASSUME rows \in [Uri -> Row \cup {None}], active = [n \in Name |-> 0],
                    runs = [g \in Run |-> NoRun], starts = 0,
                    NEW where \in {"list", "down"}, task = Process(where),
                    todo = {}, lapses = {},
                    adds \in Nat, adds <= MaxAdds, Counted
             PROVE  TInv
  BY DEF Fresh
<1>1. /\ Main \in Task /\ task[Main].pc = where
      /\ \A q \in Request : q \in Task /\ task[q].pc = "idle"
      /\ \A p \in Task : task[p].pc \in {"list", "down", "idle"}
  BY DEF Process, IdleTask, Task
<1>2. task \in [Task -> TaskType]
  BY DEF Process, IdleTask, TaskType, StoreSteps
<1>3. runs \in [Run -> RunType]
  BY DEF NoRun, RunType
<1>4. TypeOK
  BY <1>2, <1>3 DEF TypeOK, TaskType, RunType, Counted
<1>5. Places
  BY <1>1 DEF Places, Pc, Free, MainPlaces, RequestPlaces
<1>6. \A p \in Task : Holds(task[p], starts)
  BY <1>1 DEF Holds, Unspawned
<1>7. RunsTyped
  <2>1. \A g \in Run : g > starts
    BY RunFacts, UriCount DEF Run
  <2>2. \A g \in Run : runs[g] = NoRun /\ NoRun.scan # "report"
    BY DEF NoRun
  <2>3. \A g \in Run : ~(g <= starts)
    BY <2>1, RunFacts
  <2> QED
    BY <2>1, <2>2, <2>3 DEF RunsTyped
<1>8. ActiveStarted
  BY DEF ActiveStarted
<1>9. Budget
  <2>1. Pending = {} /\ Weight(task[Main]) = 0
    BY <1>1 DEF Pending, Pc, Unspawned, Weight
  <2>2. IsFiniteSet(Pending) /\ Owed = 0 /\ Cardinality(todo) = 0
    BY <2>1, FS_EmptySet DEF Owed
  <2> QED
    BY <2>2, UriCount DEF Budget
<1> QED
  BY <1>4, <1>5, <1>6, <1>7, <1>8, <1>9 DEF TInv

LEMMA InitType == Init => TInv
<1>1. Init => Fresh
  BY DEF Init, Fresh, Counted
<1> QED
  BY <1>1, FreshType

\* A crash, or an error that main meets.
LEMMA ProcessEndsType ==
    ASSUME TInv, NEW where \in {"list", "down"}, ProcessEnds(where), adds' = adds, Counted'
    PROVE  TInv'
<1>1. rows \in [Uri -> Row \cup {None}] /\ adds \in Nat /\ adds <= MaxAdds
  BY TypeFacts DEF TInv, Budget
<1>2. Process(where)' = Process(where)
  BY DEF Process, IdleTask
<1>3. Fresh'
  BY <1>1, <1>2 DEF Fresh, ProcessEnds
<1> QED
  BY <1>3, FreshType, PTL

LEMMA FailsType ==
    ASSUME TInv, (\E p \in Task : StoreFails(p)) \/ MainWatchFails \/ Crash
    PROVE  TInv'
<1>1. TypeOK /\ Counted /\ Main \in Task
  BY TypeFacts DEF TInv, Task
<1>2. ASSUME NEW p \in Task, StoreFails(p) PROVE TInv'
  <2>1. Pc(p) \in StoreSteps /\ GivesUp(p) /\ CountFault
    BY <1>2 DEF StoreFails
  <2>2. lapses' \subseteq lapses \cup Lapse
    BY <2>1 DEF GivesUp, ProcessEnds
  <2>3. adds' = adds /\ Counted'
    BY <1>1, <2>1, <2>2, FaultType
  <2>4. CASE p = Main
    BY <2>1, <2>3, <2>4, ProcessEndsType DEF GivesUp
  <2>5. CASE p \in Request
    <3>1. p # Main /\ ~Free(p) /\ Return(p) /\ UNCHANGED <<rows, active, runs, starts, todo>>
      BY <2>1, <2>5 DEF GivesUp, Free, StoreSteps
    <3>2. active' \in [Name -> Run \cup {0}] /\ runs' \in [Run -> RunType]
      BY <1>1, <3>1, TypeFacts
    <3>3. ActiveStarted' /\ RunsTyped'
      BY <3>1 DEF ActiveStarted, RunsTyped, TInv
    <3> QED
      BY <2>3, <2>5, <3>1, <3>2, <3>3, ReturnType
  <2> QED
    BY <2>4, <2>5 DEF Task
<1>3. ASSUME MainWatchFails PROVE TInv'
  <2>1. ProcessEnds("down") /\ CountFault
    BY <1>3 DEF MainWatchFails, GivesUp
  <2>2. adds' = adds /\ Counted'
    BY <1>1, <2>1, FaultType DEF ProcessEnds
  <2> QED
    BY <2>1, <2>2, ProcessEndsType
<1>4. ASSUME Crash PROVE TInv'
  <2>1. /\ ProcessEnds("list") /\ UNCHANGED <<adds, removes, faults, clashed>>
        /\ crashes' = crashes + 1 /\ lapses' = {}
    BY <1>4 DEF Crash, ProcessEnds
  <2>2. Counted'
    BY <1>1, <2>1 DEF Counted
  <2> QED
    BY <2>1, <2>2, ProcessEndsType
<1> QED
  BY <1>2, <1>3, <1>4

\* A step of a run's scan.
LEMMA RunMovesType ==
    ASSUME TInv, runs' \in [Run -> RunType], RunsTyped',
           rows' \in [Uri -> Row \cup {None}], \A u \in Uri : rows[u] # None => rows'[u] # None,
           UNCHANGED <<active, starts, task, todo, adds>>, Counted'
    PROVE  TInv'
<1>1. TypeOK'
  BY DEF TInv, TypeOK, RunType, Counted
<1>2. Places'
  BY DEF TInv, Places, Pc, Free, Serving
<1>3. \A p \in Task : Holds(task[p], starts)'
  BY DEF TInv, Holds
<1>4. \A u \in todo' : rows'[u] # None
  BY TypeFacts DEF TInv
<1>5. ActiveStarted'
  BY DEF TInv, ActiveStarted
<1>6. Budget'
  <2>1. Pending' = Pending /\ Owed' = Owed
    BY DEF Pending, Pc, Owed
  <2> QED
    BY <2>1 DEF TInv, Budget, Pc
<1> QED
  BY <1>1, <1>2, <1>3, <1>4, <1>5, <1>6 DEF TInv

\* Another stage of a scan, and the copy it has read.
LEMMA StageType ==
    ASSUME TInv, NEW g \in Run, runs[g].scan # "none", NEW r \in RunType,
           runs' = [runs EXCEPT ![g] = r], r.name = runs[g].name,
           r.scan = "report" => r.copy \in Copy, starts' = starts
    PROVE  runs' \in [Run -> RunType] /\ RunsTyped'
<1>1. runs \in [Run -> RunType] /\ starts \in Nat
  BY TypeFacts, NumberFacts DEF TInv
<1>2. /\ runs' \in [Run -> RunType] /\ runs'[g] = r
      /\ \A h \in Run : h # g => runs'[h] = runs[h]
  BY <1>1
<1>3. ~(g > starts)
  <2>1. NoRun.scan = "none"
    BY DEF NoRun
  <2> QED
    BY <2>1 DEF RunsTyped, TInv
<1>4. RunsTyped'
  BY <1>2, <1>3 DEF RunsTyped, TInv
<1> QED
  BY <1>2, <1>4

\* The record that each step of a scan leaves.
LEMMA ScanMoves ==
    ASSUME TInv, NEW g \in Run, ScanTask(g)
    PROVE  /\ runs[g].scan \in {"running", "report"}
           /\ \E r \in RunType :
                /\ runs' = [runs EXCEPT ![g] = r]
                /\ r.name = runs[g].name /\ r.cancelled = runs[g].cancelled
                /\ r.loop = runs[g].loop
                /\ \/ /\ ScanReads(g) /\ r.scan = "report"
                      /\ \E c \in Copies(runs[g].name) : r.copy = c
                   \/ (ScanReports(g) \/ ScanReportsNothing(g)) /\ r.scan = "done"
<1>1. runs[g] \in RunType /\ TypeOK
  BY TypeFacts DEF TInv
<1>3. CASE ScanReads(g)
  <2>1. PICK c \in Copies(runs[g].name) :
           runs' = [runs EXCEPT ![g].scan = "report", ![g].copy = c]
    BY <1>3 DEF ScanReads
  <2> DEFINE r == [runs[g] EXCEPT !.scan = "report", !.copy = c]
  <2>2. c \in Copy
    BY <1>1, CopiesFacts
  <2>3. r \in RunType
    BY <1>1, <2>2 DEF RunType
  <2>4. /\ r.name = runs[g].name /\ r.cancelled = runs[g].cancelled
        /\ r.loop = runs[g].loop /\ r.scan = "report" /\ r.copy = c
    BY <1>1 DEF RunType
  <2>5. runs' = [runs EXCEPT ![g] = r]
    BY <2>1, TypeFacts DEF TInv
  <2> HIDE DEF r
  <2> QED
    BY <1>3, <2>3, <2>4, <2>5 DEF ScanReads
<1>4. CASE ScanReports(g) \/ ScanReportsNothing(g)
  <2> DEFINE r == [runs[g] EXCEPT !.scan = "done", !.copy = None]
  <2>1. r \in RunType
    BY <1>1 DEF RunType
  <2>2. /\ r.name = runs[g].name /\ r.cancelled = runs[g].cancelled
        /\ r.loop = runs[g].loop /\ r.scan = "done"
    BY <1>1 DEF RunType
  <2>3. runs' = [runs EXCEPT ![g] = r]
    BY <1>4, TypeFacts DEF ScanReports, ScanReportsNothing, TInv
  <2>4. runs[g].scan \in {"running", "report"}
    BY <1>4 DEF ScanReports, ScanReportsNothing
  <2> HIDE DEF r
  <2> QED
    BY <1>4, <2>1, <2>2, <2>3, <2>4
<1> QED
  BY <1>3, <1>4 DEF ScanTask

LEMMA ScanType ==
    ASSUME TInv, NEW g \in Run, ScanTask(g)
    PROVE  TInv'
<1>1. TypeOK /\ runs[g].scan \in {"running", "report"}
  BY ScanMoves DEF TInv
<1>2. PICK r \in RunType :
         /\ runs' = [runs EXCEPT ![g] = r] /\ r.name = runs[g].name
         /\ \/ r.scan = "report" /\ \E c \in Copies(runs[g].name) : r.copy = c
            \/ r.scan = "done"
  BY ScanMoves
<1>3. r.scan = "report" => r.copy \in Copy
  BY <1>1, <1>2, CopiesFacts
<1>4. UNCHANGED <<active, starts, task, todo, adds>> /\ Counted'
  <2>1. UNCHANGED counts \/ (CountFault /\ lapses' = lapses)
    BY DEF ScanTask, ScanReads, ScanReports, ScanReportsNothing
  <2>2. adds' = adds /\ Counted'
    BY <1>1, <2>1, CountsType, FaultType
  <2> QED
    BY <2>2 DEF ScanTask, ScanReads, ScanReports, ScanReportsNothing
<1>5. runs' \in [Run -> RunType] /\ RunsTyped'
  <2>1. starts' = starts /\ runs[g].scan # "none"
    BY <1>1, <1>4
  <2> QED
    BY <1>2, <1>3, <2>1, StageType
<1>6. rows' \in [Uri -> Row \cup {None}] /\ \A u \in Uri : rows[u] # None => rows'[u] # None
  <2>1. CASE ScanReports(g)
    <3>1. runs[g].copy \in Copy
      BY <2>1 DEF ScanReports, RunsTyped, TInv
    <3>2. PICK u \in Uri, x \in Row : Upsert(u, x)
      BY <2>1, <3>1, RowsWritten DEF ScanReports
    <3> QED
      BY <1>1, <3>2, UpsertType
  <2>2. CASE ~ScanReports(g)
    <3>1. rows' = rows
      BY <2>2 DEF ScanTask, ScanReads, ScanReportsNothing
    <3> QED
      BY <1>1, <3>1, TypeFacts
  <2> QED
    BY <2>1, <2>2
<1> QED
  BY <1>4, <1>5, <1>6, RunMovesType

\* The list of what is left active costs what main may come to spawn.
LEMMA ListType ==
    ASSUME TInv, ListResources
    PROVE  TInv'
<1>1. /\ TypeOK /\ Main \in Task /\ Pc(Main) = "list" /\ Goto(Main, "next")
      /\ UNCHANGED <<rows, active, runs, starts, counts>>
      /\ todo' = {u \in Uri : IsActive(u)}
  BY DEF TInv, ListResources, Task
<1>2. starts = 0 /\ \A q \in Request : Free(q)
  BY <1>1 DEF TInv, Budget, Places, Serving
<1>3. Pending = {} /\ Weight(task[Main]) = 0
  BY <1>1, <1>2 DEF Pending, Free, Unspawned, Weight, Pc
<1>4. Owed = 0
  BY <1>3, FS_EmptySet DEF Owed
<1>5. IsFiniteSet(todo') /\ Cardinality(todo') \in Nat /\ Cardinality(todo') <= Cardinality(Uri)
  <2>1. todo' \subseteq Uri
    BY <1>1
  <2> QED
    BY <2>1, FS_Subset, FS_CardinalityType
<1>6. PICK t \in TaskType : task' = [task EXCEPT ![Main] = t] /\ t.pc = "next"
  BY <1>1, GotoMoves
<1>7. Weight(t) = 0 /\ Holds(t, starts') /\ t.pc \in MainPlaces \ {"list"}
  BY <1>6 DEF Weight, Unspawned, Holds, MainPlaces
<1>8. /\ rows' \in [Uri -> Row \cup {None}] /\ active' \in [Name -> Run \cup {0}]
      /\ runs' \in [Run -> RunType] /\ adds' \in Nat
  BY <1>1, TypeFacts DEF counts
<1>9. /\ Counted'
      /\ adds' <= MaxAdds
  BY <1>1 DEF TInv, TypeOK, Budget, counts, Counted
<1>10. RunsTyped' /\ ActiveStarted'
  BY <1>1 DEF RunsTyped, ActiveStarted, TInv
<1>11. starts' \in Run \cup {0} /\ starts <= starts' /\ todo' \subseteq Uri
       /\ \A u \in todo' : rows'[u] # None
  BY <1>1, <1>2 DEF IsActive
<1>12. starts' + (Owed - Weight(task[Main]) + Weight(t)) + Cardinality(todo')
         <= adds' + Cardinality(Uri)
  <2>1. /\ starts' = 0 /\ Owed = 0 /\ Weight(task[Main]) = 0 /\ Weight(t) = 0
        /\ adds' \in Nat
    BY <1>1, <1>2, <1>3, <1>4, <1>7, <1>8
  <2> QED
    BY <1>5, <2>1, UriCount
<1>13. ~Serving /\ Main \notin Request
  BY <1>1 DEF Serving
<1> QED
  BY <1>1, <1>6, <1>7, <1>8, <1>9, <1>10, <1>11, <1>12, <1>13, MoveType

\* What Resume leaves in the task of main.
LEMMA ResumeMoves ==
    ASSUME TInv, Resume
    PROVE  \E u \in todo, t \in TaskType :
              /\ todo' = todo \ {u} /\ task' = [task EXCEPT ![Main] = t]
              /\ t.pc = "stop" /\ t.uri = u /\ t.name = rows[u].name /\ t.name \in Name
<1>1. TypeOK /\ task[Main] \in TaskType /\ todo \subseteq Uri
  BY TypeFacts DEF TInv, Task
<1>2. PICK u \in todo :
        /\ todo' = todo \ {u}
        /\ task' = [task EXCEPT ![Main].pc = "stop", ![Main].uri = u,
                                ![Main].name = rows[u].name]
  BY DEF Resume
<1>3. rows[u].name \in Name
  <2>1. rows[u] \in Row
    BY <1>1, TypeFacts DEF TInv
  <2> QED
    BY <2>1 DEF Row
<1> DEFINE t == [task[Main] EXCEPT !.pc = "stop", !.uri = u, !.name = rows[u].name]
<1>4. t \in TaskType
  BY <1>1, <1>3 DEF TaskType
<1>5. t.pc = "stop" /\ t.uri = u /\ t.name = rows[u].name
  BY <1>1 DEF TaskType
<1>6. task' = [task EXCEPT ![Main] = t]
  BY <1>1, <1>2, TypeFacts DEF Task
<1> HIDE DEF t
<1> QED
  BY <1>2, <1>3, <1>4, <1>5, <1>6

LEMMA ResumeType ==
    ASSUME TInv, Resume
    PROVE  TInv'
<1>1. /\ TypeOK /\ Main \in Task /\ Main \notin Request /\ Pc(Main) = "next" /\ ~Serving
      /\ UNCHANGED <<rows, active, runs, starts, counts>>
  BY DEF TInv, Resume, Task, Serving
<1>2. PICK u \in todo, t \in TaskType :
              /\ todo' = todo \ {u} /\ task' = [task EXCEPT ![Main] = t]
              /\ t.pc = "stop" /\ t.uri = u /\ t.name \in Name
  BY ResumeMoves
<1>3. u \in Uri /\ todo' \subseteq Uri /\ \A v \in todo' : rows'[v] # None
  BY <1>1, <1>2, TypeFacts DEF TInv
<1>4. /\ Weight(t) = 1 /\ Weight(task[Main]) = 0 /\ Holds(t, starts)
      /\ t.pc \in MainPlaces \ {"list"}
  BY <1>1, <1>2, <1>3 DEF Weight, Unspawned, Holds, MainPlaces, Starting, Pc
<1>5. /\ starts \in Nat /\ adds \in Nat /\ Cardinality(todo) \in Nat
      /\ Cardinality(todo') \in Nat /\ Cardinality(todo') = Cardinality(todo) - 1
  <2>1. starts \in Nat /\ adds \in Nat /\ IsFiniteSet(todo) /\ Cardinality(todo) \in Nat
    BY <1>1, NumberFacts
  <2>2. IsFiniteSet(todo') /\ Cardinality(todo') = Cardinality(todo) - 1
    BY <1>2, <2>1, FS_RemoveElement
  <2> QED
    BY <2>1, <2>2, FS_CardinalityType
<1>6. starts + (Owed - Weight(task[Main]) + Weight(t)) + Cardinality(todo')
        <= adds + Cardinality(Uri)
  <2>1. starts + Weight(t) + Cardinality(todo') - adds
          <= starts + Weight(task[Main]) + Cardinality(todo) - adds
    BY <1>4, <1>5
  <2> QED
    BY <1>1, <1>2, <1>5, <2>1, Affordable
<1>7. /\ rows' \in [Uri -> Row \cup {None}] /\ active' \in [Name -> Run \cup {0}]
      /\ runs' \in [Run -> RunType] /\ adds' \in Nat
      /\ starts' \in Run \cup {0} /\ starts <= starts'
  BY <1>1, <1>5, TypeFacts DEF counts
<1>8. /\ Counted'
      /\ adds' <= MaxAdds
  BY <1>1 DEF TInv, TypeOK, Budget, counts, Counted
<1>9. RunsTyped' /\ ActiveStarted'
  BY <1>1 DEF RunsTyped, ActiveStarted, TInv
<1>10. /\ Holds(t, starts')
       /\ starts' + (Owed - Weight(task[Main]) + Weight(t)) + Cardinality(todo')
            <= adds' + Cardinality(Uri)
  BY <1>1, <1>4, <1>6 DEF counts
<1> QED
  BY <1>1, <1>2, <1>3, <1>4, <1>7, <1>8, <1>9, <1>10, MoveType

LEMMA ServeType ==
    ASSUME TInv, Serve
    PROVE  TInv'
<1>1. /\ TypeOK /\ Main \in Task /\ Main \notin Request /\ ~Serving
      /\ UNCHANGED <<rows, active, runs, starts, todo, counts>> /\ Goto(Main, "serving")
  BY DEF TInv, Serve, Task, Serving
<1>2. PICK t \in TaskType : task' = [task EXCEPT ![Main] = t] /\ t.pc = "serving"
  BY <1>1, GotoMoves
<1>3. /\ Weight(t) <= Weight(task[Main]) /\ Holds(t, starts) /\ t.pc \in MainPlaces \ {"list"}
  BY <1>2 DEF Weight, Unspawned, Holds, MainPlaces
<1> QED
  BY <1>1, <1>2, <1>3, TaskMovesType

LEMMA NextType ==
    ASSUME TInv, [Next]_vars
    PROVE  TInv'
<1>1. ASSUME NEW q \in Request, NEW n \in Name, NEW u \in Uri, Add(q, n, u) PROVE TInv'
  <2>1. removes' \in Nat
    BY <1>1 DEF Add, TInv, TypeOK
  <2> QED
    BY <1>1, <2>1, ReceiveType DEF Add
<1>2. ASSUME NEW q \in Request, NEW n \in Name, Remove(q, n) PROVE TInv'
  <2>1. removes' \in Nat
    BY <1>2 DEF Remove, TInv, TypeOK
  <2> QED
    BY <1>2, <2>1, ReceiveType DEF Remove
<1>3. ASSUME NEW q \in Request, Handle(q) \/ WatchFails(q) \/ Disconnect(q) PROVE TInv'
  BY <1>3, LookType, RequestWritesType, HaltType, WatchFailsType, DisconnectType DEF Handle
<1>4. ASSUME NEW p \in Task, Start(p) PROVE TInv'
  BY <1>4, StopOldType, LoadType, MarkType, SpawnType, RegisterType DEF Start
<1>5. ASSUME NEW g \in Run, ScanTask(g) PROVE TInv'
  BY <1>5, ScanType
<1>6. CASE ListResources \/ Resume \/ Serve
  BY <1>6, ListType, ResumeType, ServeType
<1>7. CASE (\E p \in Task : StoreFails(p)) \/ MainWatchFails \/ Crash
  BY <1>7, FailsType
<1>8. CASE UNCHANGED vars
  BY <1>8 DEF vars, counts, TInv, TypeOK, Places, Pc, Serving, Free, Holds, RunsTyped,
              ActiveStarted, Budget, Pending, Owed
<1> QED
  BY <1>1, <1>2, <1>3, <1>4, <1>5, <1>6, <1>7, <1>8 DEF Next, AtRest

\* Every variable keeps its type, whatever requests overlap, fail or are left
\* and however often the daemon restarts: in particular a task never comes to
\* a step without what that step uses, and the runs a process starts do not
\* outnumber the requests it has had and the resources it may resume.
THEOREM TypeCorrect == Spec => []TypeOK
<1>1. TInv /\ [Next]_vars => TInv'
  BY NextType
<1>2. TInv => TypeOK
  BY DEF TInv
<1> QED
  BY InitType, <1>1, <1>2, PTL DEF Spec
----------------------------------------------------------------------------
(* The invariants behind the safety properties.                            *)

Named(u, n) == rows[u] # None /\ rows[u].name = n

\* The row of u has the name n, or had it before a clash replaced it.
Shares(u, n) == rows[u] # None /\ (rows[u].name = n \/ {rows[u].name, n} \subseteq clashed)

\* What a task has looked up and read still holds where it relies on it.
TaskNamesOK(p) ==
    LET n == task[p].name
        u == task[p].uri
        c == task[p].copy
    IN  /\ Pc(p) = "by_name" => rows[u] = None \/ Shares(u, n)
        /\ Pc(p) = "insert" =>
              /\ rows[u] = None \/ {rows[u].name, n} \subseteq clashed
              /\ \A v \in Uri : Named(v, n) => n \in clashed
        /\ Pc(p) \in Starting => Shares(u, n)
        /\ Pc(p) \in {"mark", "deactivate"} => c.row.name = n /\ Shares(c.uri, n)

RunNamesOK(g) ==
    /\ runs[g].name # None => \E u \in Uri : Shares(u, runs[g].name)
    /\ runs[g].scan = "report" =>
          runs[g].copy.row.name = runs[g].name /\ Shares(runs[g].copy.uri, runs[g].name)

NInv ==
    /\ \A p \in Task : TaskNamesOK(p)
    /\ \A g \in Run : RunNamesOK(g)
    /\ NamesUnique

\* A run that can still watch is one the manager holds, or is about to.
LiveHeld == \A g \in Run : runs[g].loop = "live" /\ ~runs[g].cancelled => Held(g)

Registering(p, g) == Pc(p) = "register" /\ task[p].run = g

RInv ==
    /\ \A n \in Name : active[n] # 0 => runs[active[n]].name = n
    /\ \A p \in Task, g \in Run : Registering(p, g) =>
          /\ runs[g].name = task[p].name /\ runs[g].loop = "live" /\ ~runs[g].cancelled
          /\ \A n \in Name : active[n] # g
          /\ \A o \in Task : Registering(o, g) => o = p
    /\ LiveHeld

\* A name that no two insertions have disputed is started once in a process.
OneStart ==
    /\ \A p, o \in Task :
          Pc(p) \in Starting /\ Pc(o) \in Starting /\ task[p].name = task[o].name
            => p = o \/ task[p].name \in clashed
    /\ \A p \in Task, g \in Run :
          Pc(p) \in Starting /\ runs[g].name = task[p].name
            => Registering(p, g) \/ task[p].name \in clashed
    /\ \A g, h \in Run :
          runs[g].name # None /\ runs[g].name = runs[h].name => g = h \/ runs[g].name \in clashed

\* While main resumes, the rows keep name and status; what is on its list has
\* not been started, and what is not on it is watched.
AsRead(c) == rows[c.uri].name = c.row.name /\ rows[c.uri].status = c.row.status

Resuming ==
    ~Serving =>
    /\ Pc(Main) = "mark" => AsRead(task[Main].copy)
    /\ \A g \in Run : runs[g].scan = "report" => AsRead(runs[g].copy)
    /\ \A u \in todo :
          /\ IsActive(u)
          /\ rows[u].name \notin clashed =>
                /\ \A g \in Run : runs[g].name # rows[u].name
                /\ Pc(Main) \in Starting => task[Main].name # rows[u].name
    /\ Pc(Main) \in Starting \cup {"next"} =>
          \A u \in Uri : IsActive(u) =>
              \/ u \in todo
              \/ Pc(Main) \in Starting /\ task[Main].name = rows[u].name
              \/ Watched(u)

\* A copy that shows a row inactive is not older than the row.
Inactive(u) == rows[u] # None /\ rows[u].status = "inactive"
CopiesInactive ==
    /\ \A p \in Task : Pc(p) = "mark" /\ task[p].copy.row.status = "inactive" =>
          Inactive(task[p].copy.uri) \/ task[p].name \in clashed
    /\ \A g \in Run : runs[g].scan = "report" /\ runs[g].copy.row.status = "inactive" =>
          Inactive(runs[g].copy.uri) \/ runs[g].name \in clashed

\* A resource is inactive, and its removal is over.
Over(u) ==
    LET n == rows[u].name
    IN  /\ Inactive(u) /\ n \notin clashed
        /\ {<<n, "missed">>, <<n, "halt">>} \cap lapses = {}
        /\ \A q \in Request : Pc(q) = "halt" => task[q].name # n

Removed == \A u \in Uri : Over(u) => Stopped(rows[u].name) /\ ~BeingStarted(rows[u].name)

\* Where the cancellation of a run can no longer come from the manager.
Lost(g) ==
    /\ ~runs[g].cancelled /\ runs[g].loop # "live"
    /\ runs[g].scan = "running" \/ runs[g].loop = "spinning"

LostKnown ==
    \A g \in Run : Lost(g) =>
        \/ {<<runs[g].name, "spawn">>, <<runs[g].name, "register">>} \cap lapses # {}
        \/ runs[g].name \in clashed
----------------------------------------------------------------------------
(* What each step does to one task.                                        *)

Keeps(p) == task'[p].name = task[p].name /\ task'[p].uri = task[p].uri
RowsKept == UNCHANGED <<rows, clashed>>

\* A look-up or a read by a request or by a start.
Looks(p) ==
    /\ RowsKept
    /\ \/ Pc(p) = "by_uri" /\ task'[p].pc = "by_name" /\ rows[task[p].uri] = None
       \/ Pc(p) = "by_name" /\ task'[p].pc = "insert" /\ Copies(task[p].name) = {}
       \/ Pc(p) = "find" /\ task'[p].pc = "deactivate" /\ task'[p].copy \in Copies(task[p].name)
       \/ Pc(p) = "load" /\ task'[p].pc = "mark" /\ task'[p].copy \in Copies(task[p].name)

Advances(p) ==
    \/ Looks(p)
    \/ p \in Request /\ Insert(p) /\ task'[p].pc = "stop"
    \/ p \in Request /\ Deactivate(p) /\ task'[p].pc = "halt"
    \/ StopOld(p) /\ task'[p].pc = "load"
    \/ Load(p) /\ task'[p].pc = "spawn"
    \/ Mark(p) /\ task'[p].pc = "spawn"
    \/ Spawn(p) /\ task'[p].pc = "register" /\ task'[p].run = starts + 1

Resumes(p) ==
    /\ p = Main /\ Resume /\ task'[p].pc = "stop"
    /\ \E u \in todo : todo' = todo \ {u} /\ task'[p].uri = u /\ task'[p].name = rows[u].name

TaskStep(p) ==
    \/ task'[p] = task[p]
    \/ task'[p].pc \in {"idle", "by_uri", "find", "list", "next", "serving", "down"}
    \/ Keeps(p) /\ Advances(p)
    \/ Resumes(p)

LEMMA OneMoves ==
    ASSUME TypeOK, NEW p \in Task, NEW t, task' = [task EXCEPT ![p] = t]
    PROVE  task'[p] = t /\ \A o \in Task : o # p => task'[o] = task[o]
  BY TypeFacts

LEMMA ReturnStep ==
    ASSUME TypeOK, NEW p \in Task, Return(p)
    PROVE  \A o \in Task : TaskStep(o)
<1>1. PICK t \in TaskType : task' = [task EXCEPT ![p] = t] /\ t.pc \in {"idle", "next"}
  BY ReturnMoves
<1> QED
  BY <1>1, OneMoves DEF TaskStep

LEMMA ReceiveStep ==
    ASSUME TypeOK, NEW q \in Request, NEW n, NEW u, NEW where \in {"by_uri", "find"},
           Receive(q, n, u, where)
    PROVE  \A o \in Task : TaskStep(o)
<1> DEFINE t == [pc |-> where, name |-> n, uri |-> u, copy |-> None, run |-> 0]
<1>1. task' = [task EXCEPT ![q] = t] /\ t.pc \in {"by_uri", "find"} /\ q \in Task
  BY DEF Receive, Task
<1> HIDE DEF t
<1> QED
  BY <1>1, OneMoves DEF TaskStep

LEMMA GotoStep ==
    ASSUME TypeOK, NEW p \in Task, NEW where, Goto(p, where),
           where \in StoreSteps \cup {"stop", "spawn", "register", "halt", "next", "serving"}
    PROVE  /\ task'[p].pc = where /\ Keeps(p)
           /\ \A o \in Task : o # p => task'[o] = task[o]
<1>1. PICK t \in TaskType :
         /\ task' = [task EXCEPT ![p] = t]
         /\ t.pc = where /\ t.name = task[p].name /\ t.uri = task[p].uri
  BY GotoMoves
<1> QED
  BY <1>1, OneMoves DEF Keeps

LEMMA CopyStep ==
    ASSUME TypeOK, NEW p \in Task, NEW where \in {"mark", "deactivate"},
           NEW c \in Copies(task[p].name), CopyTo(p, where, c)
    PROVE  /\ task'[p].pc = where /\ task'[p].copy = c /\ Keeps(p)
           /\ \A o \in Task : o # p => task'[o] = task[o]
<1>1. c \in Copy
  BY CopiesFacts
<1>2. PICK t \in TaskType :
         /\ task' = [task EXCEPT ![p] = t]
         /\ t.pc = where /\ t.name = task[p].name /\ t.uri = task[p].uri /\ t.copy = c
  BY <1>1, CopyMoves
<1> QED
  BY <1>2, OneMoves DEF Keeps

LEMMA HandleStep ==
    ASSUME TInv, NEW q \in Request, Handle(q)
    PROVE  \A o \in Task : TaskStep(o)
<1>1. TypeOK /\ q \in Task
  BY DEF TInv, Task
<1>2. CASE Return(q)
  BY <1>1, <1>2, ReturnStep
<1>3. CASE Goto(q, "by_name") /\ FindUri(q)
  <2>1. Looks(q) /\ Keeps(q) /\ \A o \in Task : o # q => task'[o] = task[o]
    <3>1. ASSUME Return(q) PROVE FALSE
      <4>1. task'[q].pc = "idle"
        BY <1>1, <3>1, TypeFacts DEF Return, IdleTask, Task
      <4>2. task'[q].pc = "by_name"
        BY <1>1, <1>3, GotoStep DEF StoreSteps
      <4> QED
        BY <4>1, <4>2
    <3>2. rows[task[q].uri] = None
      BY <1>3, <3>1 DEF FindUri
    <3> QED
      BY <1>1, <1>3, <3>2, GotoStep DEF FindUri, Looks, RowsKept, counts, StoreSteps
  <2> QED
    BY <2>1 DEF TaskStep, Advances
<1>4. CASE Goto(q, "insert") /\ FindName(q) /\ Copies(task[q].name) = {}
  <2>1. Looks(q) /\ Keeps(q) /\ \A o \in Task : o # q => task'[o] = task[o]
    BY <1>1, <1>4, GotoStep DEF FindName, Looks, RowsKept, counts, StoreSteps
  <2> QED
    BY <2>1 DEF TaskStep, Advances
<1>5. CASE Insert(q)
  <2>1. task'[q].pc = "stop" /\ Keeps(q) /\ \A o \in Task : o # q => task'[o] = task[o]
    BY <1>1, <1>5, GotoStep DEF Insert
  <2> QED
    BY <1>5, <2>1 DEF TaskStep, Advances
<1>6. CASE Find(q) /\ ~Return(q)
  <2>1. PICK c \in Copies(task[q].name) : CopyTo(q, "deactivate", c)
    BY <1>6 DEF Find, CopyTo
  <2>2. Looks(q) /\ Keeps(q) /\ \A o \in Task : o # q => task'[o] = task[o]
    BY <1>1, <1>6, <2>1, CopyStep DEF Find, Looks, RowsKept, counts
  <2> QED
    BY <2>2 DEF TaskStep, Advances
<1>7. CASE Deactivate(q)
  <2>1. task'[q].pc = "halt" /\ Keeps(q) /\ \A o \in Task : o # q => task'[o] = task[o]
    BY <1>1, <1>7, GotoStep DEF Deactivate
  <2> QED
    BY <1>7, <2>1 DEF TaskStep, Advances
<1>8. CASE FindUri(q)
  BY <1>2, <1>3, <1>8 DEF FindUri
<1>9. CASE FindName(q)
  BY <1>2, <1>4, <1>9 DEF FindName
<1> QED
  BY <1>2, <1>5, <1>6, <1>7, <1>8, <1>9 DEF Handle, AlreadyRegistered, Reject, Halt

LEMMA StartStep ==
    ASSUME TInv, NEW p \in Task, Start(p)
    PROVE  \A o \in Task : TaskStep(o)
<1>1. TypeOK
  BY DEF TInv
<1>2. CASE StopOld(p)
  <2>1. task'[p].pc = "load" /\ Keeps(p) /\ \A o \in Task : o # p => task'[o] = task[o]
    BY <1>1, <1>2, GotoStep DEF StopOld, StoreSteps
  <2> QED
    BY <1>2, <2>1 DEF TaskStep, Advances
<1>3. CASE Load(p) /\ Goto(p, "spawn")
  <2>1. task'[p].pc = "spawn" /\ Keeps(p) /\ \A o \in Task : o # p => task'[o] = task[o]
    BY <1>1, <1>3, GotoStep
  <2> QED
    BY <1>3, <2>1 DEF TaskStep, Advances
<1>4. CASE Load(p) /\ ~Goto(p, "spawn")
  <2>1. PICK c \in Copies(task[p].name) : CopyTo(p, "mark", c)
    BY <1>4 DEF Load, CopyTo
  <2>2. Looks(p) /\ Keeps(p) /\ \A o \in Task : o # p => task'[o] = task[o]
    BY <1>1, <1>4, <2>1, CopyStep DEF Load, Looks, RowsKept, counts
  <2> QED
    BY <2>2 DEF TaskStep, Advances
<1>5. CASE Mark(p)
  <2>1. PICK t \in TaskType :
           /\ task' = [task EXCEPT ![p] = t]
           /\ t.pc = "spawn" /\ t.name = task[p].name /\ t.uri = task[p].uri
    BY <1>1, <1>5, MarkMoves
  <2>2. task'[p].pc = "spawn" /\ Keeps(p) /\ \A o \in Task : o # p => task'[o] = task[o]
    BY <1>1, <2>1, OneMoves DEF Keeps
  <2> QED
    BY <1>5, <2>2 DEF TaskStep, Advances
<1>6. CASE Spawn(p)
  <2>1. starts + 1 \in Run
    BY <1>6, NextRun DEF Spawn, SpawnRun
  <2>2. PICK t \in TaskType :
           /\ task' = [task EXCEPT ![p] = t]
           /\ t.pc = "register" /\ t.name = task[p].name /\ t.uri = task[p].uri
           /\ t.run = starts + 1
    BY <1>1, <1>6, <2>1, SpawnMoves
  <2>3. /\ task'[p].pc = "register" /\ task'[p].run = starts + 1 /\ Keeps(p)
        /\ \A o \in Task : o # p => task'[o] = task[o]
    BY <1>1, <2>2, OneMoves DEF Keeps
  <2> QED
    BY <1>6, <2>3 DEF TaskStep, Advances
<1>7. CASE Register(p)
  BY <1>1, <1>7, ReturnStep DEF Register
<1> QED
  BY <1>2, <1>3, <1>4, <1>5, <1>6, <1>7 DEF Start

\* The process ends: no task is where it was.
LEMMA EndStep ==
    ASSUME NEW where \in {"list", "down"}, ProcessEnds(where)
    PROVE  \A o \in Task : task'[o].pc \in {"idle", "list", "down"}
  BY DEF ProcessEnds, Process, IdleTask

LEMMA TasksStep ==
    ASSUME TInv, [Next]_vars
    PROVE  \A o \in Task : TaskStep(o)
<1>1. TypeOK /\ Main \in Task /\ Request \subseteq Task
  BY DEF TInv, Task
<1>2. ASSUME NEW q \in Request, NEW n \in Name, NEW u \in Uri, Add(q, n, u)
      PROVE  \A o \in Task : TaskStep(o)
  BY <1>1, <1>2, ReceiveStep DEF Add
<1>3. ASSUME NEW q \in Request, NEW n \in Name, Remove(q, n)
      PROVE  \A o \in Task : TaskStep(o)
  BY <1>1, <1>3, ReceiveStep DEF Remove
<1>4. ASSUME NEW q \in Request, WatchFails(q) \/ Disconnect(q)
      PROVE  \A o \in Task : TaskStep(o)
  BY <1>1, <1>4, ReturnStep DEF WatchFails, Disconnect
<1>5. ASSUME NEW p \in Task, StoreFails(p) \/ (p = Main /\ MainWatchFails)
      PROVE  \A o \in Task : TaskStep(o)
  <2>1. GivesUp(p)
    BY <1>5 DEF StoreFails, MainWatchFails
  <2> QED
    BY <1>1, <2>1, ReturnStep, EndStep DEF GivesUp, TaskStep
<1>6. CASE Crash
  BY <1>6, EndStep DEF Crash, TaskStep
<1>7. ASSUME NEW g \in Run, ScanTask(g) PROVE \A o \in Task : TaskStep(o)
  BY <1>7 DEF ScanTask, ScanReads, ScanReports, ScanReportsNothing, TaskStep
<1>8. CASE ListResources \/ Serve
  <2>1. PICK where \in {"next", "serving"} : Goto(Main, where)
    BY <1>8 DEF ListResources, Serve
  <2> QED
    BY <1>1, <2>1, GotoStep DEF TaskStep
<1>9. CASE Resume
  <2>1. PICK u \in todo, t \in TaskType :
              /\ todo' = todo \ {u} /\ task' = [task EXCEPT ![Main] = t]
              /\ t.pc = "stop" /\ t.uri = u /\ t.name = rows[u].name
    BY <1>9, ResumeMoves
  <2>2. Resumes(Main) /\ \A o \in Task : o # Main => task'[o] = task[o]
    BY <1>1, <1>9, <2>1, OneMoves DEF Resumes
  <2> QED
    BY <2>2 DEF TaskStep
<1>10. CASE UNCHANGED vars
  BY <1>10 DEF vars, TaskStep
<1> QED
  BY <1>1, <1>2, <1>3, <1>4, <1>5, <1>6, <1>7, <1>8, <1>9, <1>10, HandleStep, StartStep
     DEF Next, AtRest
----------------------------------------------------------------------------
(* What each step does to one run.                                         *)

SameRun(g) == runs'[g].name = runs[g].name /\ runs'[g].scan = runs[g].scan /\ runs'[g].copy = runs[g].copy

Scans(g) ==
    /\ runs'[g].name = runs[g].name /\ runs'[g].loop = runs[g].loop
    /\ runs'[g].cancelled = runs[g].cancelled
    /\ \/ ScanReads(g) /\ runs'[g].scan = "report" /\ runs'[g].copy \in Copies(runs[g].name)
       \/ (ScanReports(g) \/ ScanReportsNothing(g)) /\ runs'[g].scan = "done"

IsCancelled(g) ==
    /\ SameRun(g) /\ runs'[g].loop = runs[g].loop /\ runs'[g].cancelled
    /\ \E p \in Task : (StopOld(p) \/ (p \in Request /\ Halt(p))) /\ active[task[p].name] = g

Spins(g) ==
    /\ SameRun(g) /\ runs'[g].loop = "spinning" /\ runs'[g].cancelled = runs[g].cancelled
    /\ \E p \in Task : \/ Register(p) /\ active[task[p].name] = g
                       \/ p \in Request /\ Disconnect(p) /\ Registering(p, g)

Begins(g) ==
    /\ g = starts + 1 /\ starts' = g /\ runs[g] = NoRun
    /\ runs'[g].scan = "running" /\ ~runs'[g].cancelled
    /\ \E p \in Task :
         /\ Pc(p) = "spawn" /\ runs'[g].name = task[p].name
         /\ \/ Spawn(p) /\ runs'[g].loop = "live"
            \/ p \in Request /\ WatchFails(p) /\ runs'[g].loop = "none"

Ends(g) ==
    runs'[g] = NoRun /\ \E where \in {"list", "down"} : ProcessEnds(where)

RunStep(g) ==
    \/ runs'[g] = runs[g]
    \/ Scans(g) \/ IsCancelled(g) \/ Spins(g) \/ Begins(g) \/ Ends(g)

LEMMA StopStep ==
    ASSUME TInv, NEW p \in Task, StopOld(p) \/ (p \in Request /\ Halt(p)), NEW g \in Run
    PROVE  RunStep(g)
<1>1. TypeOK /\ StopRun(task[p].name) /\ runs \in [Run -> RunType]
  BY TypeFacts DEF TInv, StopOld, Halt
<1>2. task[p].name \in Name
  BY DEF TInv, Holds, Pc, Unspawned, StopOld, Halt
<1>3. CASE active[task[p].name] # g
  BY <1>1, <1>3 DEF StopRun, RunStep
<1>4. CASE active[task[p].name] = g
  <2>1. runs' = [runs EXCEPT ![g].cancelled = TRUE]
    BY <1>1, <1>4, RunFacts DEF StopRun
  <2>2. SameRun(g) /\ runs'[g].loop = runs[g].loop /\ runs'[g].cancelled
    BY <1>1, <2>1 DEF SameRun, RunType
  <2> QED
    BY <1>4, <2>2 DEF RunStep, IsCancelled
<1> QED
  BY <1>3, <1>4

LEMMA SpinStep ==
    ASSUME TInv, NEW p \in Task, Register(p) \/ (p \in Request /\ Disconnect(p)), NEW g \in Run
    PROVE  RunStep(g)
<1>1. TypeOK /\ runs \in [Run -> RunType]
  BY TypeFacts DEF TInv
<1>2. CASE runs' = runs
  BY <1>2 DEF RunStep
<1>3. ASSUME NEW h \in Run, runs' = [runs EXCEPT ![h].loop = "spinning"],
             \/ Register(p) /\ active[task[p].name] = h
             \/ p \in Request /\ Disconnect(p) /\ Registering(p, h)
      PROVE  RunStep(g)
  <2>1. CASE h # g
    BY <1>1, <1>3, <2>1 DEF RunStep
  <2>2. CASE h = g
    <3>1. /\ SameRun(g) /\ runs'[g].loop = "spinning"
          /\ runs'[g].cancelled = runs[g].cancelled
      BY <1>1, <1>3, <2>2 DEF SameRun, RunType
    <3> QED
      BY <1>3, <2>2, <3>1 DEF RunStep, Spins
  <2> QED
    BY <2>1, <2>2
<1>4. CASE Register(p) /\ runs' # runs
  <2>1. task[p].name \in Name
    BY <1>4 DEF Register, TInv, Holds, Pc
  <2>2. active[task[p].name] \in Run
    BY <1>1, <1>4, <2>1, TypeFacts DEF Register
  <2> QED
    BY <1>3, <1>4, <2>2 DEF Register
<1>5. CASE p \in Request /\ Disconnect(p) /\ runs' # runs
  <2>1. Pc(p) = "register" /\ runs' = [runs EXCEPT ![task[p].run].loop = "spinning"]
    BY <1>5 DEF Disconnect
  <2>2. task[p].run \in 1 .. starts
    BY <2>1 DEF TInv, Holds, Pc
  <2>3. task[p].run \in Run
    BY <1>1, <2>2, TypeFacts, NumberFacts, UriCount DEF Run
  <2> QED
    BY <1>3, <1>5, <2>1, <2>3 DEF Registering
<1> QED
  BY <1>2, <1>4, <1>5

LEMMA BeginStep ==
    ASSUME TInv, NEW p \in Task, Spawn(p) \/ (p \in Request /\ WatchFails(p)), NEW g \in Run
    PROVE  RunStep(g)
<1>1. PICK loop \in {"live", "none"} :
         /\ SpawnRun(p, loop)
         /\ \/ Spawn(p) /\ loop = "live"
            \/ p \in Request /\ WatchFails(p) /\ loop = "none"
  BY DEF Spawn, WatchFails
<1>2. Pc(p) = "spawn" /\ active' = active
  BY DEF SpawnRun, Spawn, WatchFails
<1>3. task[p].name \in Name /\ starts \in Nat /\ starts + 1 \in Run
  BY <1>2, NextRun DEF TInv, Holds, Pc, Unspawned
<1>4. /\ starts' = starts + 1
      /\ runs'[starts + 1].name = task[p].name /\ ~runs'[starts + 1].cancelled
      /\ runs'[starts + 1].scan = "running" /\ runs'[starts + 1].loop = loop
      /\ \A h \in Run : h # starts + 1 => runs'[h] = runs[h]
  BY <1>1, <1>2, <1>3, SpawnRunType
<1>5. runs[starts + 1] = NoRun
  BY <1>3 DEF TInv, RunsTyped
<1>6. CASE g # starts + 1
  BY <1>4, <1>6 DEF RunStep
<1>7. CASE g = starts + 1
  BY <1>1, <1>2, <1>4, <1>5, <1>7 DEF RunStep, Begins
<1> QED
  BY <1>6, <1>7

LEMMA EndRuns ==
    ASSUME NEW where \in {"list", "down"}, ProcessEnds(where), NEW g \in Run
    PROVE  RunStep(g)
  BY DEF ProcessEnds, RunStep, Ends

LEMMA ScanStep ==
    ASSUME TInv, NEW h \in Run, ScanTask(h), NEW g \in Run
    PROVE  RunStep(g)
<1>1. PICK r \in RunType :
         /\ runs' = [runs EXCEPT ![h] = r]
         /\ r.name = runs[h].name /\ r.cancelled = runs[h].cancelled
         /\ r.loop = runs[h].loop
         /\ \/ /\ ScanReads(h) /\ r.scan = "report"
               /\ \E c \in Copies(runs[h].name) : r.copy = c
            \/ (ScanReports(h) \/ ScanReportsNothing(h)) /\ r.scan = "done"
  BY ScanMoves
<1>2. runs'[h] = r /\ \A o \in Run : o # h => runs'[o] = runs[o]
  BY <1>1, TypeFacts DEF TInv
<1>3. Scans(h)
  BY <1>1, <1>2 DEF Scans
<1> QED
  BY <1>2, <1>3 DEF RunStep

LEMMA RunsStep ==
    ASSUME TInv, [Next]_vars, NEW g \in Run
    PROVE  RunStep(g)
<1>1. ASSUME UNCHANGED runs PROVE RunStep(g)
  BY <1>1 DEF RunStep
<1>2. ASSUME NEW q \in Request, Handle(q) PROVE RunStep(g)
  BY <1>1, <1>2, StopStep
     DEF Handle, AlreadyRegistered, FindUri, FindName, Reject, Insert, Find, Deactivate, Task
<1>3. ASSUME NEW q \in Request, WatchFails(q) \/ Disconnect(q) PROVE RunStep(g)
  BY <1>3, BeginStep, SpinStep DEF Task
<1>4. ASSUME NEW p \in Task, Start(p) PROVE RunStep(g)
  BY <1>1, <1>4, StopStep, BeginStep, SpinStep DEF Start, Load, Mark
<1>5. ASSUME NEW p \in Task, StoreFails(p) \/ (p = Main /\ MainWatchFails) PROVE RunStep(g)
  BY <1>1, <1>5, EndRuns DEF StoreFails, MainWatchFails, GivesUp
<1>6. CASE Crash
  BY <1>6, EndRuns DEF Crash
<1>7. CASE ListResources \/ Resume \/ Serve \/ UNCHANGED vars
  BY <1>1, <1>7 DEF ListResources, Resume, Serve, vars
<1>8. ASSUME NEW q \in Request, NEW n \in Name, NEW u \in Uri, Add(q, n, u) \/ Remove(q, n)
      PROVE  RunStep(g)
  BY <1>1, <1>8 DEF Add, Remove, Receive
<1>9. ASSUME NEW q \in Request, NEW n \in Name, Remove(q, n) PROVE RunStep(g)
  BY <1>1, <1>9 DEF Remove, Receive
<1> QED
  BY <1>2, <1>3, <1>4, <1>5, <1>6, <1>7, <1>8, <1>9, ScanStep DEF Next, AtRest, Task
----------------------------------------------------------------------------
(* Names.                                                                  *)

\* Rows are written from copies: a row keeps its name, or one it has clashed
\* with replaces it.
NamesSame ==
    /\ clashed' = clashed
    /\ \A u \in Uri :
         IF rows[u] = None THEN rows'[u] = None
         ELSE /\ rows'[u] # None
              /\ rows'[u].name = rows[u].name \/ {rows[u].name, rows'[u].name} \subseteq clashed

WritesCopy ==
    \/ \E q \in Request : Deactivate(q)
    \/ \E p \in Task : Mark(p)
    \/ \E g \in Run : ScanReports(g)

LEMMA RowsStep ==
    ASSUME TInv, [Next]_vars
    PROVE  RowsKept \/ (\E q \in Request : Insert(q)) \/ WritesCopy
<1>1. ASSUME NEW q \in Request, Handle(q)
      PROVE  RowsKept \/ Insert(q) \/ Deactivate(q)
  BY <1>1 DEF Handle, AlreadyRegistered, FindUri, FindName, Reject, Find, Halt, RowsKept, counts
<1>2. ASSUME NEW q \in Request, WatchFails(q) \/ Disconnect(q) PROVE RowsKept
  BY <1>2 DEF WatchFails, Disconnect, CountFault, RowsKept
<1>3. ASSUME NEW p \in Task, Start(p) PROVE RowsKept \/ Mark(p)
  BY <1>3 DEF Start, StopOld, Load, Spawn, Register, RowsKept, counts
<1>4. ASSUME NEW p \in Task, StoreFails(p) PROVE RowsKept
  BY <1>4 DEF StoreFails, GivesUp, ProcessEnds, CountFault, RowsKept
<1>5. CASE MainWatchFails \/ Crash
  BY <1>5 DEF MainWatchFails, Crash, GivesUp, ProcessEnds, CountFault, RowsKept
<1>6. ASSUME NEW g \in Run, ScanTask(g) PROVE RowsKept \/ ScanReports(g)
  BY <1>6 DEF ScanTask, ScanReads, ScanReportsNothing, CountFault, RowsKept, counts
<1>7. CASE ListResources \/ Resume \/ Serve \/ UNCHANGED vars
  BY <1>7 DEF ListResources, Resume, Serve, vars, counts, RowsKept
<1>8. ASSUME NEW q \in Request, NEW n \in Name, NEW u \in Uri, Add(q, n, u) PROVE RowsKept
  BY <1>8 DEF Add, Receive, RowsKept
<1>9. ASSUME NEW q \in Request, NEW n \in Name, Remove(q, n) PROVE RowsKept
  BY <1>9 DEF Remove, Receive, RowsKept
<1> QED
  BY <1>1, <1>2, <1>3, <1>4, <1>5, <1>6, <1>7, <1>8, <1>9 DEF Next, AtRest, WritesCopy

LEMMA CopyWritten ==
    ASSUME TInv, NEW c \in Copy, NEW r \in Row, Upsert(c.uri, r), r.name = c.row.name,
           Shares(c.uri, c.row.name), clashed' = clashed
    PROVE  NamesSame
<1>1. c.uri \in Uri
  BY DEF Copy
<1>2. /\ rows'[c.uri] = r /\ r # None
      /\ \A v \in Uri : v # c.uri => rows'[v] = rows[v]
  BY <1>1, UpsertType DEF TInv
<1> QED
  BY <1>1, <1>2 DEF NamesSame, Shares

\* The copy that is written, and the row it becomes.
LEMMA WritesOf ==
    ASSUME TInv, NInv, WritesCopy
    PROVE  /\ clashed' = clashed
           /\ \E c \in Copy : Shares(c.uri, c.row.name) /\
                \E r \in Row : Upsert(c.uri, r) /\ r.name = c.row.name
<1>1. ASSUME NEW c \in Copy
      PROVE  /\ [c.row EXCEPT !.status = "inactive"].name = c.row.name
             /\ [c.row EXCEPT !.indexing = "indexing"].name = c.row.name
             /\ [c.row EXCEPT !.indexing = "indexed"].name = c.row.name
  BY DEF Copy, Row
<1>2. ASSUME NEW q \in Request, Deactivate(q)
      PROVE  /\ task[q].copy \in Copy /\ clashed' = clashed
             /\ Shares(task[q].copy.uri, task[q].copy.row.name)
             /\ Upsert(task[q].copy.uri, [task[q].copy.row EXCEPT !.status = "inactive"])
  BY <1>2 DEF Deactivate, TInv, NInv, TaskNamesOK, Holds, Pc, Task, counts
<1>3. ASSUME NEW p \in Task, Mark(p)
      PROVE  /\ task[p].copy \in Copy /\ clashed' = clashed
             /\ Shares(task[p].copy.uri, task[p].copy.row.name)
             /\ Upsert(task[p].copy.uri, [task[p].copy.row EXCEPT !.indexing = "indexing"])
  BY <1>3 DEF Mark, TInv, NInv, TaskNamesOK, Holds, Pc, counts
<1>4. ASSUME NEW g \in Run, ScanReports(g)
      PROVE  /\ runs[g].copy \in Copy /\ clashed' = clashed
             /\ Shares(runs[g].copy.uri, runs[g].copy.row.name)
             /\ Upsert(runs[g].copy.uri, [runs[g].copy.row EXCEPT !.indexing = "indexed"])
  BY <1>4 DEF ScanReports, TInv, NInv, RunNamesOK, RunsTyped, counts
<1> QED
  BY <1>1, <1>2, <1>3, <1>4, RowsWritten DEF WritesCopy

LEMMA NamesStep ==
    ASSUME TInv, NInv, [Next]_vars
    PROVE  NamesSame \/ \E q \in Request : Insert(q)
<1>1. RowsKept => NamesSame
  BY DEF RowsKept, NamesSame
<1>2. WritesCopy => NamesSame
  BY WritesOf, CopyWritten
<1> QED
  BY <1>1, <1>2, RowsStep

\* An insertion: its row, and the names it marks.
LEMMA Inserted ==
    ASSUME TInv, NInv, NEW q \in Request, Insert(q)
    PROVE  /\ q \in Task /\ task[q].uri \in Uri /\ task[q].name \in Name
           /\ rows'[task[q].uri] # None
           /\ rows'[task[q].uri].name = task[q].name /\ rows'[task[q].uri].status = "active"
           /\ \A v \in Uri : v # task[q].uri => rows'[v] = rows[v]
           /\ rows[task[q].uri] = None \/ {rows[task[q].uri].name, task[q].name} \subseteq clashed
           /\ \A v \in Uri : Named(v, task[q].name) => task[q].name \in clashed
           /\ clashed \subseteq clashed'
           /\ \A r \in Overtaken(q) : {task[r].name, task[q].name} \subseteq clashed'
<1>1. q \in Task /\ Pc(q) = "insert" /\ task[q].uri \in Uri /\ task[q].name \in Name
  BY DEF Insert, TInv, Holds, Pc, Task, Unspawned
<1> DEFINE r == [name |-> task[q].name, status |-> "active", indexing |-> "pending"]
<1>2. Upsert(task[q].uri, r) /\ r \in Row
  BY <1>1, RowsWritten DEF Insert
<1>3. rows'[task[q].uri] = r /\ \A v \in Uri : v # task[q].uri => rows'[v] = rows[v]
  BY <1>1, <1>2, UpsertType DEF TInv
<1>4. r # None /\ r.name = task[q].name /\ r.status = "active"
  BY <1>2
<1>5. /\ clashed \subseteq clashed'
      /\ \A o \in Overtaken(q) : {task[o].name, task[q].name} \subseteq clashed'
  BY DEF Insert
<1>6. /\ rows[task[q].uri] = None \/ {rows[task[q].uri].name, task[q].name} \subseteq clashed
      /\ \A v \in Uri : Named(v, task[q].name) => task[q].name \in clashed
  BY <1>1 DEF NInv, TaskNamesOK
<1> HIDE DEF r
<1> QED
  BY <1>1, <1>3, <1>4, <1>5, <1>6

\* A row shares a name for good.
WillShare(u, n) == rows'[u] # None /\ (rows'[u].name = n \/ {rows'[u].name, n} \subseteq clashed')

LEMMA SharesKept ==
    ASSUME TInv, NInv, [Next]_vars
    PROVE  clashed \subseteq clashed' /\ \A u \in Uri : \A n : Shares(u, n) => WillShare(u, n)
<1>1. CASE NamesSame
  BY <1>1 DEF NamesSame, Shares, WillShare
<1>2. ASSUME NEW q \in Request, Insert(q)
      PROVE  clashed \subseteq clashed' /\ \A u \in Uri : \A n : Shares(u, n) => WillShare(u, n)
  <2> SUFFICES ASSUME NEW u \in Uri, NEW n, Shares(u, n) PROVE WillShare(u, n)
    BY <1>2, Inserted
  <2>1. CASE u = task[q].uri
    BY <1>2, <2>1, Inserted DEF Shares, WillShare
  <2>2. CASE u # task[q].uri
    BY <1>2, <2>2, Inserted DEF Shares, WillShare
  <2> QED
    BY <2>1, <2>2
<1> QED
  BY <1>1, <1>2, NamesStep

\* A row read under a name shares it.
LEMMA CopyShares ==
    ASSUME TypeOK, NEW n, NEW c \in Copies(n)
    PROVE  c \in Copy /\ c.row.name = n /\ Shares(c.uri, n) /\ c.row = rows[c.uri]
  BY CopiesFacts DEF Shares

LEMMA RunNamesKept ==
    ASSUME TInv, NInv, [Next]_vars, NEW g \in Run
    PROVE  RunNamesOK(g)'
<1>1. /\ runs[g].name # None => \E u \in Uri : Shares(u, runs[g].name)
      /\ runs[g].scan = "report" =>
            /\ runs[g].copy \in Copy /\ runs[g].copy.uri \in Uri
            /\ runs[g].copy.row.name = runs[g].name
            /\ Shares(runs[g].copy.uri, runs[g].name)
  BY DEF NInv, RunNamesOK, TInv, RunsTyped, Copy
<1>2. runs[g].name # None => \E u \in Uri : WillShare(u, runs[g].name)
  BY <1>1, SharesKept
<1>3. runs[g].scan = "report" => WillShare(runs[g].copy.uri, runs[g].name)
  BY <1>1, SharesKept
<1>4. CASE runs'[g] = runs[g] \/ IsCancelled(g) \/ Spins(g)
  <2>1. SameRun(g)
    BY <1>4 DEF SameRun, IsCancelled, Spins
  <2> QED
    BY <1>1, <1>2, <1>3, <2>1 DEF RunNamesOK, SameRun, Shares, WillShare
<1>5. CASE Scans(g)
  <2>1. runs'[g].name = runs[g].name
    BY <1>5 DEF Scans
  <2>2. CASE runs'[g].scan = "done"
    BY <1>2, <2>1, <2>2 DEF RunNamesOK, Shares, WillShare
  <2>3. CASE runs'[g].scan # "done"
    <3>1. runs'[g].copy \in Copies(runs[g].name)
      BY <1>5, <2>3 DEF Scans
    <3>2. /\ runs'[g].copy \in Copy /\ runs'[g].copy.row.name = runs[g].name
          /\ Shares(runs'[g].copy.uri, runs[g].name)
      BY <3>1, CopyShares DEF TInv
    <3>3. RowsKept
      BY <1>5, <2>3 DEF Scans, ScanReads, RowsKept, counts
    <3> QED
      BY <1>2, <2>1, <3>2, <3>3 DEF RunNamesOK, Shares, WillShare, RowsKept
  <2> QED
    BY <2>2, <2>3
<1>6. CASE Begins(g)
  <2>1. PICK p \in Task : Pc(p) = "spawn" /\ runs'[g].name = task[p].name
    BY <1>6 DEF Begins
  <2>2. task[p].uri \in Uri /\ Shares(task[p].uri, task[p].name)
    BY <2>1 DEF TInv, Holds, Pc, Unspawned, NInv, TaskNamesOK, Starting
  <2>3. RowsKept
    BY <1>6 DEF Begins, Spawn, WatchFails, CountFault, counts, RowsKept
  <2>4. runs'[g].scan # "report"
    BY <1>6 DEF Begins
  <2> QED
    BY <2>1, <2>2, <2>3, <2>4 DEF RunNamesOK, Shares, WillShare, RowsKept
<1>7. CASE Ends(g)
  BY <1>7 DEF Ends, NoRun, RunNamesOK
<1> QED
  BY <1>4, <1>5, <1>6, <1>7, RunsStep DEF RunStep

\* What a request that waits has looked up.
LEMMA WaitingKept ==
    ASSUME TInv, NInv, [Next]_vars, NEW p \in Task, task'[p] = task[p],
           Pc(p) \in {"by_name", "insert"}
    PROVE  TaskNamesOK(p)'
<1> DEFINE n == task[p].name
           u == task[p].uri
<1>1. n \in Name /\ u \in Uri /\ p \in Request
  BY DEF TInv, Holds, Pc, Unspawned, Places, MainPlaces, Starting, Task
<1>2. /\ Pc(p) = "by_name" => rows[u] = None \/ Shares(u, n)
      /\ Pc(p) = "insert" =>
            /\ rows[u] = None \/ {rows[u].name, n} \subseteq clashed
            /\ \A v \in Uri : Named(v, n) => n \in clashed
  BY DEF NInv, TaskNamesOK
<1>3. Shares(u, n) => WillShare(u, n)
  BY <1>1, SharesKept
<1>4. /\ Pc(p) = "by_name" => rows'[u] = None \/ WillShare(u, n)
      /\ Pc(p) = "insert" =>
            /\ rows'[u] = None \/ {rows'[u].name, n} \subseteq clashed'
            /\ \A v \in Uri : rows'[v] # None /\ rows'[v].name = n => n \in clashed'
  <2>1. CASE NamesSame
    <3>1. Pc(p) = "by_name" => rows'[u] = None \/ WillShare(u, n)
      BY <1>1, <1>2, <1>3, <2>1 DEF NamesSame
    <3>2. ASSUME Pc(p) = "insert"
          PROVE  rows'[u] = None \/ {rows'[u].name, n} \subseteq clashed'
      BY <1>1, <1>2, <2>1, <3>2 DEF NamesSame
    <3>3. ASSUME Pc(p) = "insert", NEW v \in Uri, rows'[v] # None, rows'[v].name = n
          PROVE  n \in clashed'
      <4>1. rows[v] # None
        BY <2>1, <3>3 DEF NamesSame
      <4>2. rows[v].name = n \/ n \in clashed
        BY <2>1, <3>3, <4>1 DEF NamesSame
      <4>3. clashed' = clashed
        BY <2>1 DEF NamesSame
      <4> QED
        BY <1>2, <3>3, <4>1, <4>2, <4>3 DEF Named
    <3> QED
      BY <3>1, <3>2, <3>3
  <2>2. ASSUME NEW q \in Request, Insert(q)
        PROVE  /\ Pc(p) = "by_name" => rows'[u] = None \/ WillShare(u, n)
               /\ Pc(p) = "insert" =>
                     /\ rows'[u] = None \/ {rows'[u].name, n} \subseteq clashed'
                     /\ \A v \in Uri : rows'[v] # None /\ rows'[v].name = n => n \in clashed'
    <3>1. q # p
      <4>1. task'[q].pc = "stop" /\ task[q].pc = "insert"
        BY <2>2, GotoStep DEF Insert, Pc, TInv, Task
      <4> QED
        BY <4>1
    <3>2. /\ task[q].uri \in Uri /\ rows'[task[q].uri].name = task[q].name
          /\ rows'[task[q].uri] # None
          /\ \A v \in Uri : v # task[q].uri => rows'[v] = rows[v]
          /\ clashed \subseteq clashed'
          /\ p \in Overtaken(q) => {n, task[q].name} \subseteq clashed'
      BY <2>2, Inserted
    <3>3. CASE Pc(p) = "by_name"
      <4>1. CASE u = task[q].uri /\ n # task[q].name
        <5>1. p \in Overtaken(q)
          BY <1>1, <3>1, <3>3, <4>1 DEF Overtaken
        <5> QED
          BY <3>2, <3>3, <4>1, <5>1 DEF WillShare
      <4>2. CASE u = task[q].uri /\ n = task[q].name
        BY <3>2, <3>3, <4>2 DEF WillShare
      <4>3. CASE u # task[q].uri
        BY <1>1, <1>2, <1>3, <3>2, <3>3, <4>3
      <4> QED
        BY <4>1, <4>2, <4>3
    <3>4. CASE Pc(p) = "insert"
      <4>1. CASE u = task[q].uri \/ n = task[q].name
        <5>1. p \in Overtaken(q)
          BY <1>1, <3>1, <3>4, <4>1 DEF Overtaken
        <5>2. {n, task[q].name} \subseteq clashed'
          BY <3>2, <5>1
        <5>3. rows'[u] = None \/ {rows'[u].name, n} \subseteq clashed'
          BY <1>1, <1>2, <3>2, <3>4, <5>2
        <5> QED
          BY <3>4, <5>2, <5>3
      <4>2. CASE u # task[q].uri /\ n # task[q].name
        BY <1>1, <1>2, <3>2, <3>4, <4>2 DEF Named
      <4> QED
        BY <4>1, <4>2
    <3> QED
      BY <3>3, <3>4
  <2> QED
    BY <2>1, <2>2, NamesStep
<1>5. Pc(p)' = Pc(p) /\ Pc(p) \notin Starting /\ Pc(p) \notin {"mark", "deactivate"}
  BY DEF Pc, Starting
<1>6. task'[p].name = n /\ task'[p].uri = u
  OBVIOUS
<1> HIDE DEF n, u
<1> QED
  BY <1>4, <1>5, <1>6 DEF TaskNamesOK, Shares, WillShare, Named

\* What a task holds that goes on, or stays where it is, in a start or with a copy.
LEMMA HeldNamesKept ==
    ASSUME TInv, NInv, [Next]_vars, NEW p \in Task, Keeps(p),
           Pc(p)' \notin {"by_name", "insert"},
           Pc(p)' \in Starting => Pc(p) \in Starting,
           Pc(p)' \in {"mark", "deactivate"} =>
                \/ Pc(p)' = Pc(p) /\ task'[p].copy = task[p].copy
                \/ RowsKept /\ task'[p].copy \in Copies(task[p].name)
    PROVE  TaskNamesOK(p)'
<1> DEFINE n == task[p].name
           u == task[p].uri
<1>1. Pc(p)' \in Starting => WillShare(u, n)
  <2>1. Pc(p) \in Starting => u \in Uri /\ Shares(u, n)
    BY DEF TInv, Holds, Pc, Starting, Unspawned, NInv, TaskNamesOK
  <2> QED
    BY <2>1, SharesKept
<1>2. ASSUME Pc(p)' \in {"mark", "deactivate"}
      PROVE  task'[p].copy.row.name = n /\ WillShare(task'[p].copy.uri, n)
  <2>1. CASE Pc(p)' = Pc(p) /\ task'[p].copy = task[p].copy
    <3>1. /\ task[p].copy \in Copy /\ task[p].copy.uri \in Uri
          /\ task[p].copy.row.name = n /\ Shares(task[p].copy.uri, n)
      BY <1>2, <2>1 DEF TInv, Holds, Pc, NInv, TaskNamesOK, Copy
    <3> QED
      BY <2>1, <3>1, SharesKept
  <2>2. CASE RowsKept /\ task'[p].copy \in Copies(task[p].name)
    <3>1. task'[p].copy.row.name = n /\ Shares(task'[p].copy.uri, n)
      BY <2>2, CopyShares DEF TInv
    <3> QED
      BY <2>2, <3>1 DEF Shares, WillShare, RowsKept
  <2> QED
    BY <1>2, <2>1, <2>2
<1>3. task'[p].name = n /\ task'[p].uri = u
  BY DEF Keeps
<1> HIDE DEF n, u
<1> QED
  BY <1>1, <1>2, <1>3 DEF TaskNamesOK, Shares, WillShare

LEMMA TaskNamesKept ==
    ASSUME TInv, NInv, [Next]_vars, NEW p \in Task
    PROVE  TaskNamesOK(p)'
<1>1. CASE task'[p] = task[p]
  <2>1. CASE Pc(p) \in {"by_name", "insert"}
    BY <1>1, <2>1, WaitingKept
  <2>2. CASE Pc(p) \notin {"by_name", "insert"}
    BY <1>1, <2>2, HeldNamesKept DEF Keeps, Pc
  <2> QED
    BY <2>1, <2>2
<1>2. CASE task'[p].pc \in {"idle", "by_uri", "find", "list", "next", "serving", "down"}
  BY <1>2 DEF TaskNamesOK, Pc, Starting
<1>3. CASE Resumes(p)
  <2>1. PICK u \in todo : task'[p].uri = u /\ task'[p].name = rows[u].name
    BY <1>3 DEF Resumes
  <2>2. RowsKept /\ rows[u] # None /\ task'[p].pc = "stop"
    BY <1>3 DEF Resumes, Resume, RowsKept, counts, TInv
  <2> QED
    BY <2>1, <2>2 DEF TaskNamesOK, Pc, Starting, Shares, RowsKept
<1>4. CASE Keeps(p) /\ Looks(p)
  <2>1. CASE Pc(p) = "by_uri" /\ task'[p].pc = "by_name" /\ rows[task[p].uri] = None
    BY <1>4, <2>1 DEF Keeps, Looks, RowsKept, TaskNamesOK, Pc, Starting
  <2>2. CASE Pc(p) = "by_name" /\ task'[p].pc = "insert" /\ Copies(task[p].name) = {}
    <3>1. \A v \in Uri : ~Named(v, task[p].name)
      BY <2>2 DEF Copies, Named
    <3>2. task[p].uri \in Uri /\ (rows[task[p].uri] = None \/ Shares(task[p].uri, task[p].name))
      BY <2>2 DEF NInv, TaskNamesOK, TInv, Holds, Pc, Unspawned
    <3>3. rows[task[p].uri] = None \/ {rows[task[p].uri].name, task[p].name} \subseteq clashed
      BY <3>1, <3>2 DEF Shares, Named
    <3> QED
      BY <1>4, <2>2, <3>1, <3>3 DEF Keeps, Looks, RowsKept, TaskNamesOK, Pc, Starting, Named
  <2>3. CASE Pc(p) = "find" /\ task'[p].pc = "deactivate" /\ task'[p].copy \in Copies(task[p].name)
    BY <1>4, <2>3, HeldNamesKept DEF Pc, Starting, Looks
  <2>4. CASE Pc(p) = "load" /\ task'[p].pc = "mark" /\ task'[p].copy \in Copies(task[p].name)
    BY <1>4, <2>4, HeldNamesKept DEF Pc, Starting, Looks
  <2> QED
    BY <1>4, <2>1, <2>2, <2>3, <2>4 DEF Looks
<1>5. CASE Keeps(p) /\ p \in Request /\ Insert(p) /\ task'[p].pc = "stop"
  <2>1. rows'[task[p].uri] # None /\ rows'[task[p].uri].name = task[p].name
    BY <1>5, Inserted
  <2> QED
    BY <1>5, <2>1 DEF Keeps, TaskNamesOK, Pc, Starting, Shares
<1>6. CASE Keeps(p) /\ Deactivate(p) /\ task'[p].pc = "halt"
  BY <1>6 DEF TaskNamesOK, Pc, Starting
<1>7. CASE Keeps(p) /\ StopOld(p) /\ task'[p].pc = "load"
  BY <1>7, HeldNamesKept DEF Pc, Starting, StopOld
<1>8. CASE Keeps(p) /\ (Load(p) \/ Mark(p)) /\ task'[p].pc = "spawn"
  BY <1>8, HeldNamesKept DEF Pc, Starting, Load, Mark
<1>9. CASE Keeps(p) /\ Spawn(p) /\ task'[p].pc = "register"
  BY <1>9, HeldNamesKept DEF Pc, Starting, Spawn, SpawnRun
<1> QED
  BY <1>1, <1>2, <1>3, <1>4, <1>5, <1>6, <1>7, <1>8, <1>9, TasksStep DEF TaskStep, Advances

LEMMA UniqueKept ==
    ASSUME TInv, NInv, [Next]_vars
    PROVE  NamesUnique'
<1> SUFFICES ASSUME NEW u \in Uri, NEW v \in Uri, u # v, rows'[u] # None, rows'[v] # None,
                    rows'[u].name = rows'[v].name
             PROVE  rows'[u].name \in clashed'
  BY DEF NamesUnique
<1>1. CASE NamesSame
  BY <1>1 DEF NamesSame, NInv, NamesUnique
<1>2. ASSUME NEW q \in Request, Insert(q) PROVE rows'[u].name \in clashed'
  <2>1. /\ task[q].uri \in Uri
        /\ rows'[task[q].uri] # None /\ rows'[task[q].uri].name = task[q].name
        /\ \A w \in Uri : w # task[q].uri => rows'[w] = rows[w]
        /\ \A w \in Uri : Named(w, task[q].name) => task[q].name \in clashed
        /\ clashed \subseteq clashed'
    BY <1>2, Inserted
  <2>2. CASE u = task[q].uri
    BY <2>1, <2>2 DEF Named
  <2>3. CASE v = task[q].uri
    BY <2>1, <2>3 DEF Named
  <2>4. CASE u # task[q].uri /\ v # task[q].uri
    BY <2>1, <2>4 DEF NInv, NamesUnique
  <2> QED
    BY <2>2, <2>3, <2>4
<1> QED
  BY <1>1, <1>2, NamesStep

LEMMA NamesKept ==
    ASSUME TInv, NInv, [Next]_vars
    PROVE  NInv'
  BY TaskNamesKept, RunNamesKept, UniqueKept DEF NInv

\* An empty table, and a process that has just started.
LEMMA FreshNames == Fresh /\ NamesUnique => NInv
<1> SUFFICES ASSUME Fresh, NamesUnique PROVE NInv
  OBVIOUS
<1>1. ASSUME NEW p \in Task PROVE TaskNamesOK(p)
  BY DEF Fresh, Process, IdleTask, TaskNamesOK, Pc, Starting
<1>2. ASSUME NEW g \in Run PROVE RunNamesOK(g)
  BY DEF Fresh, NoRun, RunNamesOK
<1> QED
  BY <1>1, <1>2 DEF NInv

LEMMA InitNames == Init => NInv
<1>1. Init => Fresh /\ NamesUnique
  BY DEF Init, Fresh, NamesUnique, Counted
<1> QED
  BY <1>1, FreshNames

LEMMA NamesInvariant == Spec => [](TInv /\ NInv)
<1>1. TInv /\ NInv /\ [Next]_vars => (TInv /\ NInv)'
  BY NextType, NamesKept
<1> QED
  BY InitType, InitNames, <1>1, PTL DEF Spec

\* README:140, a name "must be unique": whatever requests, faults and restarts
\* there are, a name is in two rows only after an insertion that overtook the
\* look-ups of another (server.rs:116-170).  No look-up is atomic with an
\* insertion and no check is repeated, and rows are written back whole from old
\* copies, by removals, starts and scans: none of them gives a name away.
THEOREM NamesStayUnique == Spec => []NamesUnique
<1>1. NInv => NamesUnique
  BY DEF NInv
<1> QED
  BY NamesInvariant, <1>1, PTL
----------------------------------------------------------------------------
(* What the manager holds.                                                 *)

OthersStay(p) == \A o \in Task : o # p => task'[o] = task[o]
SameLoop(g) ==
    /\ runs'[g].name = runs[g].name /\ runs'[g].loop = runs[g].loop
    /\ runs'[g].cancelled = runs[g].cancelled

\* A step that neither touches the manager or the runs' loops, nor begins or
\* ends a registration.
Quiet ==
    /\ active' = active
    /\ \A g \in Run : SameLoop(g)
    /\ \A p \in Task : task'[p] = task[p] \/ (Pc(p) # "register" /\ task'[p].pc # "register")

LEMMA QuietMove ==
    ASSUME TypeOK, UNCHANGED <<active, runs>>, NEW p \in Task, Pc(p) # "register", NEW t,
           task' = [task EXCEPT ![p] = t], t.pc # "register"
    PROVE  Quiet
<1>1. task'[p] = t /\ OthersStay(p)
  BY OneMoves DEF OthersStay
<1> QED
  BY <1>1 DEF Quiet, OthersStay, SameLoop

LEMMA QuietGoto ==
    ASSUME TypeOK, UNCHANGED <<active, runs>>, NEW p \in Task, Pc(p) # "register",
           NEW where \in StoreSteps \cup {"stop", "spawn", "halt", "next", "serving"},
           Goto(p, where)
    PROVE  Quiet
<1>1. PICK t \in TaskType : task' = [task EXCEPT ![p] = t] /\ t.pc = where
  BY GotoMoves
<1>2. where # "register"
  BY DEF StoreSteps
<1> QED
  BY <1>1, <1>2, QuietMove

LEMMA QuietReturn ==
    ASSUME TypeOK, UNCHANGED <<active, runs>>, NEW p \in Task, Pc(p) # "register", Return(p)
    PROVE  Quiet
<1>1. PICK t \in TaskType : task' = [task EXCEPT ![p] = t] /\ t.pc \in {"idle", "next"}
  BY ReturnMoves
<1> QED
  BY <1>1, QuietMove

LEMMA QuietCopy ==
    ASSUME TypeOK, UNCHANGED <<active, runs>>, NEW p \in Task, Pc(p) # "register",
           NEW where \in {"mark", "deactivate"}, NEW c \in Copies(task[p].name),
           CopyTo(p, where, c)
    PROVE  Quiet
<1>1. c \in Copy
  BY CopiesFacts
<1>2. PICK t \in TaskType : task' = [task EXCEPT ![p] = t] /\ t.pc = where
  BY <1>1, CopyMoves
<1> QED
  BY <1>2, QuietMove

\* The steps that are not.
Manages ==
    \/ \E p \in Task : StopOld(p) \/ Spawn(p) \/ Register(p)
    \/ \E q \in Request : Halt(q) \/ WatchFails(q) \/ (Disconnect(q) /\ Pc(q) = "register")
    \/ \E where \in {"list", "down"} : ProcessEnds(where)

LEMMA QuietHandle ==
    ASSUME TInv, NEW q \in Request, Handle(q)
    PROVE  Quiet \/ Halt(q)
<1>1. TypeOK /\ q \in Task
  BY DEF TInv, Task
<1>2. CASE AlreadyRegistered(q) \/ Reject(q)
  BY <1>1, <1>2, QuietReturn DEF AlreadyRegistered, Reject
<1>3. CASE FindUri(q)
  BY <1>1, <1>3, QuietReturn, QuietGoto DEF FindUri, StoreSteps
<1>4. CASE FindName(q)
  BY <1>1, <1>4, QuietReturn, QuietGoto DEF FindName, StoreSteps
<1>5. CASE Insert(q)
  BY <1>1, <1>5, QuietGoto DEF Insert
<1>6. CASE Deactivate(q)
  BY <1>1, <1>6, QuietGoto DEF Deactivate
<1>7. CASE Find(q)
  <2>1. Return(q) \/ \E c \in Copies(task[q].name) : CopyTo(q, "deactivate", c)
    BY <1>7 DEF Find, CopyTo
  <2> QED
    BY <1>1, <1>7, <2>1, QuietReturn, QuietCopy DEF Find
<1> QED
  BY <1>2, <1>3, <1>4, <1>5, <1>6, <1>7 DEF Handle

LEMMA QuietStart ==
    ASSUME TInv, NEW p \in Task, Load(p) \/ Mark(p)
    PROVE  Quiet
<1>1. TypeOK
  BY DEF TInv
<1>2. CASE Load(p)
  <2>1. Goto(p, "spawn") \/ \E c \in Copies(task[p].name) : CopyTo(p, "mark", c)
    BY <1>2 DEF Load, CopyTo
  <2> QED
    BY <1>1, <1>2, <2>1, QuietGoto, QuietCopy DEF Load
<1>3. CASE Mark(p)
  <2>1. PICK t \in TaskType : task' = [task EXCEPT ![p] = t] /\ t.pc = "spawn"
    BY <1>1, <1>3, MarkMoves
  <2> QED
    BY <1>1, <1>3, <2>1, QuietMove DEF Mark
<1> QED
  BY <1>2, <1>3

LEMMA QuietMain ==
    ASSUME TInv, ListResources \/ Resume \/ Serve
    PROVE  Quiet
<1>1. TypeOK /\ Main \in Task
  BY DEF TInv, Task
<1>2. CASE ListResources
  BY <1>1, <1>2, QuietGoto DEF ListResources
<1>3. CASE Resume
  <2>1. PICK t \in TaskType : task' = [task EXCEPT ![Main] = t] /\ t.pc = "stop"
    BY <1>3, ResumeMoves
  <2> QED
    BY <1>1, <1>3, <2>1, QuietMove DEF Resume
<1>4. CASE Serve
  BY <1>1, <1>4, QuietGoto DEF Serve
<1> QED
  BY <1>2, <1>3, <1>4

LEMMA QuietReceive ==
    ASSUME TInv, NEW q \in Request, NEW n, NEW u, NEW where \in {"by_uri", "find"},
           Receive(q, n, u, where)
    PROVE  Quiet
<1> DEFINE t == [pc |-> where, name |-> n, uri |-> u, copy |-> None, run |-> 0]
<1>1. /\ task' = [task EXCEPT ![q] = t] /\ t.pc \in {"by_uri", "find"} /\ q \in Task
      /\ TypeOK /\ Pc(q) # "register" /\ UNCHANGED <<active, runs>>
  BY DEF Receive, Task, TInv, Free
<1> HIDE DEF t
<1> QED
  BY <1>1, QuietMove

LEMMA QuietScan ==
    ASSUME TInv, NEW h \in Run, ScanTask(h)
    PROVE  Quiet
<1>1. PICK r \in RunType :
         /\ runs' = [runs EXCEPT ![h] = r]
         /\ r.name = runs[h].name /\ r.cancelled = runs[h].cancelled
         /\ r.loop = runs[h].loop
  BY ScanMoves
<1>2. runs'[h] = r /\ \A o \in Run : o # h => runs'[o] = runs[o]
  BY <1>1, TypeFacts DEF TInv
<1>3. UNCHANGED <<active, task>>
  BY DEF ScanTask, ScanReads, ScanReports, ScanReportsNothing
<1> QED
  BY <1>1, <1>2, <1>3 DEF Quiet, SameLoop

LEMMA ManagerStep ==
    ASSUME TInv, [Next]_vars
    PROVE  Quiet \/ Manages
<1>1. TypeOK
  BY DEF TInv
<1>2. ASSUME NEW q \in Request, Disconnect(q), Pc(q) # "register" PROVE Quiet
  <2>1. q \in Task /\ UNCHANGED <<active, runs>> /\ Return(q)
    BY <1>2 DEF Disconnect, Task
  <2> QED
    BY <1>1, <1>2, <2>1, QuietReturn
<1>3. ASSUME NEW p \in Task, StoreFails(p) PROVE Quiet \/ Manages
  <2>1. CASE p = Main
    BY <1>3, <2>1 DEF StoreFails, GivesUp, Manages
  <2>2. CASE p # Main
    BY <1>1, <1>3, <2>2, QuietReturn DEF StoreFails, GivesUp, StoreSteps
  <2> QED
    BY <2>1, <2>2
<1>4. CASE MainWatchFails \/ Crash
  BY <1>4 DEF MainWatchFails, Crash, GivesUp, Manages
<1>5. ASSUME NEW p \in Task, Start(p) PROVE Quiet \/ Manages
  BY <1>5, QuietStart DEF Start, Manages
<1>6. ASSUME NEW q \in Request, Handle(q) \/ WatchFails(q) \/ Disconnect(q)
      PROVE  Quiet \/ Manages
  <2>1. CASE Handle(q)
    BY <2>1, QuietHandle DEF Manages
  <2>2. CASE WatchFails(q)
    BY <2>2 DEF Manages
  <2>3. CASE Disconnect(q)
    BY <1>2, <2>3 DEF Manages
  <2> QED
    BY <1>6, <2>1, <2>2, <2>3
<1>7. CASE UNCHANGED vars
  BY <1>7 DEF vars, Quiet, SameLoop
<1>8. ASSUME NEW q \in Request, NEW n \in Name, NEW u \in Uri, Add(q, n, u) PROVE Quiet
  BY <1>8, QuietReceive DEF Add
<1>9. ASSUME NEW q \in Request, NEW n \in Name, Remove(q, n) PROVE Quiet
  BY <1>9, QuietReceive DEF Remove
<1> QED
  BY <1>3, <1>4, <1>5, <1>6, <1>7, <1>8, <1>9, QuietMain, QuietScan DEF Next, AtRest

LEMMA QuietHeld ==
    ASSUME TInv, RInv, Quiet
    PROVE  RInv'
<1>1. active' = active /\ \A n \in Name : active[n] \in Run \cup {0}
  BY TypeFacts DEF Quiet, TInv
<1>2. \A p \in Task, g \in Run : Registering(p, g)' <=> Registering(p, g)
  BY DEF Quiet, Registering, Pc
<1>3. \A p \in Task : Pc(p) = "register" => task'[p] = task[p]
  BY DEF Quiet
<1>4. \A n \in Name : active'[n] # 0 => runs'[active'[n]].name = n
  BY <1>1 DEF RInv, Quiet, SameLoop
<1>5. ASSUME NEW p \in Task, NEW g \in Run, Registering(p, g)'
      PROVE  /\ runs'[g].name = task'[p].name /\ runs'[g].loop = "live" /\ ~runs'[g].cancelled
             /\ \A n \in Name : active'[n] # g
             /\ \A o \in Task : Registering(o, g)' => o = p
  BY <1>1, <1>2, <1>3, <1>5 DEF RInv, Quiet, SameLoop, Registering
<1>6. ASSUME NEW g \in Run, runs'[g].loop = "live", ~runs'[g].cancelled PROVE Held(g)'
  <2>1. active[runs[g].name] = g \/ \E p \in Task : Registering(p, g)
    BY <1>6 DEF RInv, LiveHeld, Held, Quiet, SameLoop, Registering
  <2>2. \A p \in Task : Registering(p, g) => Pc(p)' = "register" /\ task'[p].run = g
    BY <1>3 DEF Registering, Pc
  <2> QED
    BY <1>1, <2>1, <2>2 DEF Held, Quiet, SameLoop
<1> QED
  BY <1>4, <1>5, <1>6 DEF RInv, LiveHeld

\* The run that is cancelled is the one the manager held.
LEMMA StopHeld ==
    ASSUME TInv, RInv, NEW p \in Task, StopOld(p) \/ (p \in Request /\ Halt(p))
    PROVE  RInv'
<1> DEFINE n == task[p].name
<1>1. /\ n \in Name /\ StopRun(n) /\ TypeOK /\ Pc(p) \in {"stop", "halt"}
      /\ active \in [Name -> Run \cup {0}] /\ runs \in [Run -> RunType]
  BY TypeFacts DEF TInv, Holds, Pc, Unspawned, StopOld, Halt
<1>2. OthersStay(p) /\ task'[p].pc \in {"load", "idle", "next"}
  <2>1. CASE StopOld(p)
    BY <1>1, <2>1, GotoStep DEF StopOld, StoreSteps, OthersStay
  <2>2. CASE p \in Request /\ Halt(p)
    <3>1. PICK t \in TaskType : task' = [task EXCEPT ![p] = t] /\ t.pc \in {"idle", "next"}
      BY <2>2, ReturnMoves DEF Halt
    <3> QED
      BY <1>1, <3>1, OneMoves DEF OthersStay
  <2> QED
    BY <2>1, <2>2
<1>3. active' = [active EXCEPT ![n] = 0]
  BY <1>1 DEF StopRun
<1>4. ASSUME NEW g \in Run
      PROVE  /\ active[n] # g => runs'[g] = runs[g]
             /\ active[n] = g => runs'[g].name = runs[g].name /\ runs'[g].cancelled
  BY <1>1, RunFacts DEF StopRun, RunType
<1> HIDE DEF n
<1>5. \A o \in Task, g \in Run : Registering(o, g)' <=> Registering(o, g)
  BY <1>1, <1>2 DEF Registering, Pc, OthersStay
<1>6. ASSUME NEW m \in Name, active'[m] # 0 PROVE runs'[active'[m]].name = m
  <2>1. active'[m] = active[m] /\ active[m] \in Run /\ active[m] # 0
    BY <1>1, <1>3, <1>6
  <2> QED
    BY <1>4, <2>1 DEF RInv
<1>7. ASSUME NEW o \in Task, NEW g \in Run, Registering(o, g)'
      PROVE  /\ runs'[g].name = task'[o].name /\ runs'[g].loop = "live" /\ ~runs'[g].cancelled
             /\ \A m \in Name : active'[m] # g
             /\ \A x \in Task : Registering(x, g)' => x = o
  <2>1. Registering(o, g) /\ task'[o] = task[o]
    BY <1>1, <1>2, <1>5, <1>7 DEF OthersStay, Registering, Pc
  <2>2. active[n] # g /\ \A m \in Name : active'[m] # g
    BY <1>1, <1>3, <2>1, RunFacts DEF RInv
  <2> QED
    BY <1>4, <1>5, <2>1, <2>2 DEF RInv
<1>8. ASSUME NEW g \in Run, runs'[g].loop = "live", ~runs'[g].cancelled PROVE Held(g)'
  <2>1. active[n] # g /\ runs'[g] = runs[g]
    BY <1>4, <1>8
  <2>2. active[runs[g].name] = g \/ \E o \in Task : Registering(o, g)
    BY <1>8, <2>1 DEF RInv, LiveHeld, Held, Registering
  <2>3. CASE active[runs[g].name] = g
    <3>1. runs[g].name # n
      BY <2>1, <2>3
    <3>2. active'[runs[g].name] = g
      BY <1>1, <1>3, <2>3, <3>1
    <3> QED
      BY <2>1, <3>2 DEF Held
  <2>4. CASE \E o \in Task : Registering(o, g)
    BY <1>5, <2>4 DEF Held, Registering
  <2> QED
    BY <2>2, <2>3, <2>4
<1> QED
  BY <1>6, <1>7, <1>8 DEF RInv, LiveHeld

\* A run that is spawned is about to be registered, or has no loop.
LEMMA SpawnHeld ==
    ASSUME TInv, RInv, NEW p \in Task, Spawn(p) \/ (p \in Request /\ WatchFails(p))
    PROVE  RInv'
<1> DEFINE s == starts + 1
<1>1. /\ Pc(p) = "spawn" /\ active' = active /\ TypeOK
      /\ active \in [Name -> Run \cup {0}]
  BY TypeFacts DEF Spawn, WatchFails, SpawnRun, TInv
<1>2. s \in Run /\ starts \in Nat /\ task[p].name \in Name
  BY <1>1, NextRun DEF TInv, Holds, Pc, Unspawned
<1>3. PICK loop \in {"live", "none"} :
         /\ SpawnRun(p, loop)
         /\ \/ Spawn(p) /\ loop = "live"
            \/ p \in Request /\ WatchFails(p) /\ loop = "none"
  BY DEF Spawn, WatchFails
<1>4. /\ runs'[s].name = task[p].name /\ ~runs'[s].cancelled /\ runs'[s].loop = loop
      /\ \A g \in Run : g # s => runs'[g] = runs[g]
  BY <1>1, <1>2, <1>3, SpawnRunType
<1>5. /\ OthersStay(p)
      /\ loop = "live" => task'[p].pc = "register" /\ task'[p].run = s /\ Keeps(p)
      /\ loop = "none" => task'[p].pc \in {"idle", "next"}
  <2>1. CASE Spawn(p) /\ loop = "live"
    <3>1. PICK t \in TaskType :
              /\ task' = [task EXCEPT ![p] = t]
              /\ t.pc = "register" /\ t.name = task[p].name /\ t.uri = task[p].uri /\ t.run = s
      BY <1>1, <1>2, <2>1, SpawnMoves
    <3> QED
      BY <1>1, <2>1, <3>1, OneMoves DEF OthersStay, Keeps
  <2>2. CASE WatchFails(p) /\ loop = "none"
    <3>1. PICK t \in TaskType : task' = [task EXCEPT ![p] = t] /\ t.pc \in {"idle", "next"}
      BY <2>2, ReturnMoves DEF WatchFails
    <3> QED
      BY <1>1, <2>2, <3>1, OneMoves DEF OthersStay
  <2> QED
    BY <1>3, <2>1, <2>2
<1>6. (\A n \in Name : active[n] # s) /\ \A o \in Task : ~Registering(o, s)
  <2>1. \A n \in Name : active[n] \in 0 .. starts
    BY DEF TInv, ActiveStarted
  <2>2. \A o \in Task : Pc(o) = "register" => task[o].run \in 1 .. starts
    BY DEF TInv, Holds, Pc
  <2> QED
    BY <1>2, <2>1, <2>2 DEF Registering
<1> HIDE DEF s
<1>7. ASSUME NEW n \in Name, active'[n] # 0 PROVE runs'[active'[n]].name = n
  BY <1>1, <1>4, <1>6, <1>7 DEF RInv
<1>8. \A o \in Task, g \in Run : Registering(o, g)' <=>
         (Registering(o, g) \/ (o = p /\ g = s /\ loop = "live"))
  <2> SUFFICES ASSUME NEW o \in Task, NEW g \in Run
               PROVE  Registering(o, g)' <=>
                        (Registering(o, g) \/ (o = p /\ g = s /\ loop = "live"))
    OBVIOUS
  <2>1. CASE o # p
    BY <1>5, <2>1 DEF OthersStay, Registering, Pc
  <2>2. CASE o = p
    BY <1>1, <1>5, <2>2 DEF Registering, Pc
  <2> QED
    BY <2>1, <2>2
<1>9. ASSUME NEW o \in Task, NEW g \in Run, Registering(o, g)'
      PROVE  /\ runs'[g].name = task'[o].name /\ runs'[g].loop = "live" /\ ~runs'[g].cancelled
             /\ \A n \in Name : active'[n] # g
             /\ \A x \in Task : Registering(x, g)' => x = o
  <2>1. CASE g = s
    <3>1. o = p /\ loop = "live"
      BY <1>6, <1>8, <1>9, <2>1
    <3>2. \A x \in Task : Registering(x, g)' => x = p
      BY <1>6, <1>8, <2>1
    <3> QED
      BY <1>1, <1>4, <1>5, <1>6, <2>1, <3>1, <3>2 DEF Keeps
  <2>2. CASE g # s
    <3>1. Registering(o, g) /\ o # p
      BY <1>1, <1>8, <1>9, <2>2 DEF Registering
    <3>2. task'[o] = task[o] /\ runs'[g] = runs[g]
      BY <1>4, <1>5, <2>2, <3>1 DEF OthersStay
    <3>3. \A x \in Task : Registering(x, g)' => Registering(x, g)
      BY <1>8, <2>2
    <3> QED
      BY <1>1, <3>1, <3>2, <3>3 DEF RInv
  <2> QED
    BY <2>1, <2>2
<1>10. ASSUME NEW g \in Run, runs'[g].loop = "live", ~runs'[g].cancelled PROVE Held(g)'
  <2>1. CASE g = s
    <3>1. Registering(p, g)'
      BY <1>4, <1>8, <1>10, <2>1
    <3> QED
      BY <3>1 DEF Held, Registering
  <2>2. CASE g # s
    <3>1. active[runs[g].name] = g \/ \E o \in Task : Registering(o, g)
      BY <1>4, <1>10, <2>2 DEF RInv, LiveHeld, Held, Registering
    <3>2. runs'[g] = runs[g]
      BY <1>4, <2>2
    <3> QED
      BY <1>1, <1>8, <3>1, <3>2 DEF Held, Registering
  <2> QED
    BY <2>1, <2>2
<1> QED
  BY <1>7, <1>9, <1>10 DEF RInv, LiveHeld

\* A run that is registered is held, and the one it replaces spins.
LEMMA RegisterHeld ==
    ASSUME TInv, RInv, NEW p \in Task, Register(p)
    PROVE  RInv'
<1> DEFINE n == task[p].name
           g == task[p].run
<1>1. /\ n \in Name /\ g \in 1 .. starts /\ TypeOK /\ Pc(p) = "register"
      /\ active \in [Name -> Run \cup {0}] /\ runs \in [Run -> RunType] /\ starts \in Nat
  BY TypeFacts, NumberFacts DEF TInv, Holds, Pc, Register
<1>2. g \in Run /\ Registering(p, g)
  BY <1>1, TypeFacts, UriCount DEF Run, Registering
<1>3. OthersStay(p) /\ task'[p].pc \in {"idle", "next"}
  <2>1. PICK t \in TaskType : task' = [task EXCEPT ![p] = t] /\ t.pc \in {"idle", "next"}
    BY ReturnMoves DEF Register
  <2> QED
    BY <1>1, <2>1, OneMoves DEF OthersStay
<1>4. active' = [active EXCEPT ![n] = g]
  BY DEF Register
<1>5. ASSUME NEW h \in Run
      PROVE  /\ active[n] # h => runs'[h] = runs[h]
             /\ active[n] = h => runs'[h].name = runs[h].name /\ runs'[h].loop = "spinning"
  BY <1>1, RunFacts DEF Register, RunType
<1> HIDE DEF n, g
<1>6. /\ runs[g].name = n /\ \A m \in Name : active[m] # g
      /\ \A o \in Task : Registering(o, g) => o = p
  BY <1>1, <1>2 DEF RInv, n
<1>7. \A o \in Task, h \in Run : Registering(o, h)' <=> Registering(o, h) /\ o # p
  <2> SUFFICES ASSUME NEW o \in Task, NEW h \in Run
               PROVE  Registering(o, h)' <=> (Registering(o, h) /\ o # p)
    OBVIOUS
  <2>1. CASE o # p
    BY <1>3, <2>1 DEF OthersStay, Registering, Pc
  <2>2. CASE o = p
    BY <1>3, <2>2 DEF Registering, Pc
  <2> QED
    BY <2>1, <2>2
<1>8. ASSUME NEW m \in Name, active'[m] # 0 PROVE runs'[active'[m]].name = m
  <2>1. CASE m = n
    BY <1>1, <1>2, <1>4, <1>5, <1>6, <2>1
  <2>2. CASE m # n
    <3>1. active'[m] = active[m] /\ active[m] \in Run /\ active[m] # 0
      BY <1>1, <1>4, <1>8, <2>2
    <3> QED
      BY <1>5, <3>1 DEF RInv
  <2> QED
    BY <2>1, <2>2
<1>9. ASSUME NEW o \in Task, NEW h \in Run, Registering(o, h)'
      PROVE  /\ runs'[h].name = task'[o].name /\ runs'[h].loop = "live" /\ ~runs'[h].cancelled
             /\ \A m \in Name : active'[m] # h
             /\ \A x \in Task : Registering(x, h)' => x = o
  <2>1. Registering(o, h) /\ o # p /\ task'[o] = task[o]
    BY <1>3, <1>7, <1>9 DEF OthersStay
  <2>2. h # g /\ active[n] # h
    BY <1>1, <1>6, <2>1 DEF RInv
  <2>3. \A m \in Name : active'[m] # h
    BY <1>1, <1>4, <2>1, <2>2 DEF RInv
  <2> QED
    BY <1>5, <1>7, <2>1, <2>2, <2>3 DEF RInv
<1>10. ASSUME NEW h \in Run, runs'[h].loop = "live", ~runs'[h].cancelled PROVE Held(h)'
  <2>1. active[n] # h /\ runs'[h] = runs[h]
    BY <1>5, <1>10
  <2>2. active[runs[h].name] = h \/ \E o \in Task : Registering(o, h)
    BY <1>10, <2>1 DEF RInv, LiveHeld, Held, Registering
  <2>3. CASE active[runs[h].name] = h
    <3>1. runs[h].name # n
      BY <2>1, <2>3
    <3>2. active'[runs[h].name] = h
      BY <1>1, <1>4, <2>3, <3>1
    <3> QED
      BY <2>1, <3>2 DEF Held
  <2>4. CASE Registering(p, h)
    <3>1. h = g
      BY <2>4 DEF Registering, g
    <3>2. active'[runs'[h].name] = h
      BY <1>1, <1>4, <1>6, <2>1, <3>1
    <3> QED
      BY <3>2 DEF Held
  <2>5. ASSUME NEW o \in Task, o # p, Registering(o, h) PROVE Held(h)'
    BY <1>7, <2>5 DEF Held, Registering
  <2> QED
    BY <2>2, <2>3, <2>4, <2>5
<1> QED
  BY <1>8, <1>9, <1>10 DEF RInv, LiveHeld

\* A client leaves before its start has registered: the run spins.
LEMMA DisconnectHeld ==
    ASSUME TInv, RInv, NEW p \in Request, Disconnect(p), Pc(p) = "register"
    PROVE  RInv'
<1> DEFINE g == task[p].run
<1>1. /\ p \in Task /\ g \in 1 .. starts /\ TypeOK /\ active' = active
      /\ active \in [Name -> Run \cup {0}] /\ runs \in [Run -> RunType] /\ starts \in Nat
  BY TypeFacts, NumberFacts DEF TInv, Holds, Pc, Disconnect, Task
<1>2. g \in Run /\ Registering(p, g)
  BY <1>1, TypeFacts, UriCount DEF Run, Registering
<1>3. OthersStay(p) /\ task'[p].pc \in {"idle", "next"}
  <2>1. PICK t \in TaskType : task' = [task EXCEPT ![p] = t] /\ t.pc \in {"idle", "next"}
    BY <1>1, ReturnMoves DEF Disconnect
  <2> QED
    BY <1>1, <2>1, OneMoves DEF OthersStay
<1>5. ASSUME NEW h \in Run
      PROVE  /\ g # h => runs'[h] = runs[h]
             /\ g = h => runs'[h].name = runs[h].name /\ runs'[h].loop = "spinning"
  BY <1>1 DEF Disconnect, RunType
<1> HIDE DEF g
<1>6. /\ \A m \in Name : active[m] # g
      /\ \A o \in Task : Registering(o, g) => o = p
  BY <1>1, <1>2 DEF RInv
<1>7. \A o \in Task, h \in Run : Registering(o, h)' <=> Registering(o, h) /\ o # p
  <2> SUFFICES ASSUME NEW o \in Task, NEW h \in Run
               PROVE  Registering(o, h)' <=> (Registering(o, h) /\ o # p)
    OBVIOUS
  <2>1. CASE o # p
    BY <1>3, <2>1 DEF OthersStay, Registering, Pc
  <2>2. CASE o = p
    BY <1>3, <2>2 DEF Registering, Pc
  <2> QED
    BY <2>1, <2>2
<1>8. ASSUME NEW m \in Name, active'[m] # 0 PROVE runs'[active'[m]].name = m
  <2>1. active[m] \in Run /\ active[m] # g
    BY <1>1, <1>6, <1>8
  <2> QED
    BY <1>1, <1>5, <1>8, <2>1 DEF RInv
<1>9. ASSUME NEW o \in Task, NEW h \in Run, Registering(o, h)'
      PROVE  /\ runs'[h].name = task'[o].name /\ runs'[h].loop = "live" /\ ~runs'[h].cancelled
             /\ \A m \in Name : active'[m] # h
             /\ \A x \in Task : Registering(x, h)' => x = o
  <2>1. Registering(o, h) /\ o # p /\ task'[o] = task[o]
    BY <1>3, <1>7, <1>9 DEF OthersStay
  <2>2. h # g
    BY <1>6, <2>1
  <2> QED
    BY <1>1, <1>5, <1>7, <2>1, <2>2 DEF RInv
<1>10. ASSUME NEW h \in Run, runs'[h].loop = "live", ~runs'[h].cancelled PROVE Held(h)'
  <2>1. g # h /\ runs'[h] = runs[h]
    BY <1>5, <1>10
  <2>2. active[runs[h].name] = h \/ \E o \in Task : Registering(o, h)
    BY <1>10, <2>1 DEF RInv, LiveHeld, Held, Registering
  <2>3. ~Registering(p, h)
    BY <2>1 DEF Registering, g
  <2>4. ASSUME NEW o \in Task, o # p, Registering(o, h) PROVE Held(h)'
    BY <1>7, <2>4 DEF Held, Registering
  <2> QED
    BY <1>1, <2>1, <2>2, <2>3, <2>4 DEF Held
<1> QED
  BY <1>8, <1>9, <1>10 DEF RInv, LiveHeld

\* A process that has just started.
LEMMA EndHeld ==
    ASSUME NEW where \in {"list", "down"}, ProcessEnds(where)
    PROVE  RInv'
<1>1. \A n \in Name : active'[n] = 0
  BY DEF ProcessEnds
<1>2. \A p \in Task : task'[p].pc # "register"
  BY EndStep
<1>3. \A g \in Run : runs'[g].loop # "live"
  BY DEF ProcessEnds, NoRun
<1> QED
  BY <1>1, <1>2, <1>3 DEF RInv, LiveHeld, Registering, Pc

LEMMA HeldKept ==
    ASSUME TInv, RInv, [Next]_vars
    PROVE  RInv'
<1>1. Request \subseteq Task
  BY DEF Task
<1> QED
  BY <1>1, ManagerStep, QuietHeld, StopHeld, SpawnHeld, RegisterHeld, DisconnectHeld, EndHeld
     DEF Manages

LEMMA InitHeld == Init => RInv
<1> SUFFICES ASSUME Init PROVE RInv
  OBVIOUS
<1>1. \A p \in Task : Pc(p) # "register"
  BY DEF Init, Process, IdleTask, Pc
<1>2. \A g \in Run : runs[g].loop # "live"
  BY DEF Init, NoRun
<1>3. \A n \in Name : active[n] = 0
  BY DEF Init
<1> QED
  BY <1>1, <1>2, <1>3 DEF RInv, LiveHeld, Registering

\* watcher.rs:130, resource.rs:380: a stop reaches every watcher that still
\* works: whatever clients leave, starts fail, insertions clash or entries are
\* overwritten, a live loop with an uncancelled token is one the manager holds,
\* or one that a start is about to give it.
THEOREM LoopsAreHeld == Spec => []LiveHeld
<1>1. TInv /\ RInv /\ [Next]_vars => (TInv /\ RInv)'
  BY NextType, HeldKept
<1>2. RInv => LiveHeld
  BY DEF RInv
<1> QED
  BY InitType, InitHeld, <1>1, <1>2, PTL DEF Spec
----------------------------------------------------------------------------
(* A name that no two insertions have disputed is started once.            *)

\* A task comes to a start, or goes on with one.
LEMMA StartsFrom ==
    ASSUME TInv, [Next]_vars, NEW p \in Task, Pc(p)' \in Starting
    PROVE  \/ Pc(p) \in Starting /\ Keeps(p) /\ (Pc(p) = "register" => task'[p] = task[p])
           \/ p \in Request /\ Insert(p) /\ Keeps(p)
           \/ Resumes(p)
<1>1. CASE task'[p] = task[p]
  BY <1>1 DEF Keeps, Pc
<1>2. CASE task'[p].pc \in {"idle", "by_uri", "find", "list", "next", "serving", "down"}
  BY <1>2 DEF Starting, Pc
<1>3. CASE Keeps(p) /\ Advances(p)
  <2>1. CASE Looks(p)
    BY <1>3, <2>1 DEF Looks, Starting, Pc
  <2>2. CASE ~Looks(p)
    BY <1>3, <2>2 DEF Advances, Starting, Pc, StopOld, Load, Mark, Spawn, SpawnRun
  <2> QED
    BY <2>1, <2>2
<1> QED
  BY <1>1, <1>2, <1>3, TasksStep DEF TaskStep

\* A run keeps its name, begins or ends.
LEMMA RunNamesFrom ==
    ASSUME TInv, [Next]_vars, NEW g \in Run
    PROVE  runs'[g].name = runs[g].name \/ Begins(g) \/ Ends(g)
  BY RunsStep DEF RunStep, Scans, IsCancelled, Spins, SameRun

LEMMA InsertAlone ==
    ASSUME TInv, NEW q \in Request, Insert(q)
    PROVE  OthersStay(q) /\ Pc(q) = "insert" /\ UNCHANGED runs
<1>1. TypeOK /\ q \in Task /\ Goto(q, "stop") /\ Pc(q) = "insert" /\ runs' = runs
  BY DEF TInv, Task, Insert
<1> QED
  BY <1>1, GotoStep DEF OthersStay

LEMMA ResumeAlone ==
    ASSUME TInv, Resume
    PROVE  /\ OthersStay(Main) /\ ~Serving /\ Pc(Main) = "next"
           /\ UNCHANGED <<rows, active, runs, starts, counts>>
           /\ \E u \in todo : todo' = todo \ {u} /\ task'[Main].name = rows[u].name
                              /\ task'[Main].pc = "stop"
<1>1. PICK u \in todo, t \in TaskType :
         /\ todo' = todo \ {u} /\ task' = [task EXCEPT ![Main] = t]
         /\ t.pc = "stop" /\ t.uri = u /\ t.name = rows[u].name
  BY ResumeMoves
<1>2. TypeOK /\ Main \in Task /\ Pc(Main) = "next" /\ ~Serving
  BY DEF TInv, Task, Resume, Serving
<1>3. task'[Main] = t /\ OthersStay(Main)
  BY <1>1, <1>2, OneMoves DEF OthersStay
<1> QED
  BY <1>1, <1>2, <1>3 DEF Resume

LEMMA BeginAlone ==
    ASSUME TInv, NEW p \in Task, Spawn(p) \/ (p \in Request /\ WatchFails(p))
    PROVE  /\ OthersStay(p) /\ Pc(p) = "spawn"
           /\ Pc(p)' \in Starting => Pc(p)' = "register" /\ task'[p].run = starts + 1
           /\ \A g \in Run : g # starts + 1 => runs'[g] = runs[g]
<1>1. Pc(p) = "spawn" /\ TypeOK /\ active' = active
  BY DEF TInv, Spawn, WatchFails, SpawnRun
<1>2. starts + 1 \in Run /\ task[p].name \in Name
  BY <1>1, NextRun DEF TInv, Holds, Pc, Unspawned
<1>3. \A g \in Run : g # starts + 1 => runs'[g] = runs[g]
  <2>1. PICK loop \in {"live", "none"} : SpawnRun(p, loop)
    BY DEF Spawn, WatchFails
  <2> QED
    BY <1>1, <1>2, <2>1, SpawnRunType
<1>4. CASE Spawn(p)
  <2>1. PICK t \in TaskType :
            /\ task' = [task EXCEPT ![p] = t]
            /\ t.pc = "register" /\ t.name = task[p].name /\ t.uri = task[p].uri
            /\ t.run = starts + 1
    BY <1>1, <1>2, <1>4, SpawnMoves
  <2>2. OthersStay(p) /\ Keeps(p) /\ task'[p].pc = "register" /\ task'[p].run = starts + 1
    BY <1>1, <2>1, OneMoves DEF OthersStay, Keeps
  <2> QED
    BY <1>1, <1>3, <2>2 DEF Pc
<1>5. CASE p \in Request /\ WatchFails(p)
  <2>1. PICK t \in TaskType : task' = [task EXCEPT ![p] = t] /\ t.pc \in {"idle", "next"}
    BY <1>5, ReturnMoves DEF WatchFails
  <2>2. OthersStay(p) /\ task'[p].pc \in {"idle", "next"}
    BY <1>1, <2>1, OneMoves DEF OthersStay
  <2> QED
    BY <1>1, <1>3, <2>2 DEF Pc, Starting
<1> QED
  BY <1>4, <1>5

\* Nothing of an undisputed name is there when it is inserted.
LEMMA InsertFresh ==
    ASSUME TInv, NInv, NEW q \in Request, Insert(q), task[q].name \notin clashed
    PROVE  /\ \A p \in Task : Pc(p) \in Starting => task[p].name # task[q].name
           /\ \A g \in Run : runs[g].name # task[q].name
<1> DEFINE n == task[q].name
<1>1. n \in Name /\ \A v \in Uri : ~Named(v, n)
  BY Inserted
<1>2. \A v \in Uri : ~Shares(v, n)
  BY <1>1 DEF Shares, Named
<1>3. ASSUME NEW p \in Task, Pc(p) \in Starting, task[p].name = n PROVE FALSE
  <2>1. task[p].uri \in Uri
    BY <1>3 DEF TInv, Holds, Pc, Starting, Unspawned
  <2>2. Shares(task[p].uri, task[p].name)
    BY <1>3 DEF NInv, TaskNamesOK
  <2> QED
    BY <1>2, <1>3, <2>1, <2>2
<1>4. ASSUME NEW g \in Run, runs[g].name = n PROVE FALSE
  BY <1>1, <1>2, <1>4 DEF NInv, RunNamesOK
<1> QED
  BY <1>3, <1>4

\* Nor when main resumes it.
LEMMA ResumeFresh ==
    ASSUME TInv, Resuming, Resume, task'[Main].name \notin clashed
    PROVE  /\ \A p \in Task : p # Main => Pc(p) \notin Starting
           /\ \A g \in Run : runs[g].name # task'[Main].name
<1>1. ~Serving /\ \E u \in todo : task'[Main].name = rows[u].name
  BY ResumeAlone
<1>2. \A q \in Request : Pc(q) \notin Starting
  BY <1>1 DEF TInv, Places, Free, Starting
<1> QED
  BY <1>1, <1>2 DEF Resuming, Task

\* Two starts.
LEMMA StartsDiffer ==
    ASSUME TInv, NInv, OneStart, Resuming, [Next]_vars,
           NEW p \in Task, NEW o \in Task, p # o,
           Pc(p)' \in Starting, Pc(o)' \in Starting, task'[p].name = task'[o].name
    PROVE  task'[p].name \in clashed'
<1>1. clashed \subseteq clashed'
  BY SharesKept
<1>2. ASSUME NEW x \in Task, NEW y \in Task, x # y, Pc(y)' \in Starting,
             x \in Request /\ Insert(x) /\ Keeps(x), task'[x].name = task'[y].name
      PROVE  task'[x].name \in clashed
  <2>1. task'[y] = task[y] /\ task'[x].name = task[x].name
    BY <1>2, InsertAlone DEF OthersStay, Keeps
  <2> QED
    BY <1>2, <2>1, InsertFresh DEF Pc
<1>3. ASSUME NEW x \in Task, NEW y \in Task, x # y, Pc(y)' \in Starting, Resumes(x),
             task'[x].name = task'[y].name
      PROVE  task'[x].name \in clashed
  <2>1. x = Main /\ Resume
    BY <1>3 DEF Resumes
  <2>2. task'[y] = task[y]
    BY <1>3, <2>1, ResumeAlone DEF OthersStay
  <2> QED
    BY <1>3, <2>1, <2>2, ResumeFresh DEF Pc
<1>4. CASE Pc(p) \in Starting /\ Keeps(p) /\ Pc(o) \in Starting /\ Keeps(o)
  BY <1>1, <1>4 DEF OneStart, Keeps
<1> QED
  BY <1>1, <1>2, <1>3, <1>4, StartsFrom

\* A start and a run.
LEMMA StartOwnsRun ==
    ASSUME TInv, NInv, OneStart, Resuming, [Next]_vars,
           NEW p \in Task, NEW g \in Run, Pc(p)' \in Starting, runs'[g].name = task'[p].name
    PROVE  Registering(p, g)' \/ task'[p].name \in clashed'
<1>1. clashed \subseteq clashed'
  BY SharesKept
<1>2. CASE runs'[g].name = runs[g].name /\ ~Begins(g)
  <2>1. CASE Pc(p) \in Starting /\ Keeps(p) /\ (Pc(p) = "register" => task'[p] = task[p])
    BY <1>1, <1>2, <2>1 DEF OneStart, Keeps, Registering, Pc
  <2>2. CASE p \in Request /\ Insert(p) /\ Keeps(p)
    BY <1>1, <1>2, <2>2, InsertFresh DEF Keeps
  <2>3. CASE Resumes(p)
    BY <1>1, <1>2, <2>3, ResumeFresh DEF Resumes
  <2> QED
    BY <2>1, <2>2, <2>3, StartsFrom
<1>3. CASE Begins(g)
  <2>1. PICK o \in Task :
           /\ Pc(o) = "spawn" /\ runs'[g].name = task[o].name
           /\ Spawn(o) \/ (o \in Request /\ WatchFails(o))
    BY <1>3 DEF Begins
  <2>2. /\ OthersStay(o)
        /\ Pc(o)' \in Starting => Pc(o)' = "register" /\ task'[o].run = starts + 1
    BY <2>1, BeginAlone
  <2>3. CASE p = o
    BY <1>3, <2>2, <2>3 DEF Begins, Registering, Pc
  <2>4. CASE p # o
    <3>1. task'[p] = task[p]
      BY <2>2, <2>4 DEF OthersStay
    <3> QED
      BY <1>1, <2>1, <2>4, <3>1 DEF OneStart, Starting, Pc
  <2> QED
    BY <2>3, <2>4
<1>4. CASE Ends(g)
  <2>1. Pc(p)' \notin Starting
    BY <1>4, EndStep DEF Ends, Starting, Pc
  <2> QED
    BY <2>1
<1> QED
  BY <1>2, <1>3, <1>4, RunNamesFrom

\* Two runs.
LEMMA RunsDiffer ==
    ASSUME TInv, NInv, OneStart, [Next]_vars, NEW g \in Run, NEW h \in Run, g # h,
           runs'[g].name # None, runs'[g].name = runs'[h].name
    PROVE  runs'[g].name \in clashed'
<1>1. clashed \subseteq clashed'
  BY SharesKept
<1>2. ~Ends(g) /\ ~Ends(h)
  BY DEF Ends, NoRun
<1>3. ASSUME NEW x \in Run, NEW y \in Run, x # y, Begins(x), runs'[x].name = runs'[y].name
      PROVE  runs'[x].name \in clashed
  <2>1. PICK o \in Task :
           /\ Pc(o) = "spawn" /\ runs'[x].name = task[o].name
           /\ Spawn(o) \/ (o \in Request /\ WatchFails(o))
    BY <1>3 DEF Begins
  <2>2. runs'[y] = runs[y]
    BY <1>3, <2>1, BeginAlone DEF Begins
  <2>3. ~Registering(o, y) /\ Pc(o) \in Starting
    BY <2>1 DEF Registering, Starting
  <2> QED
    BY <1>3, <2>1, <2>2, <2>3 DEF OneStart
<1>4. CASE runs'[g].name = runs[g].name /\ runs'[h].name = runs[h].name
  BY <1>1, <1>4 DEF OneStart
<1> QED
  BY <1>1, <1>2, <1>3, <1>4, RunNamesFrom

LEMMA OneStartKept ==
    ASSUME TInv, NInv, OneStart, Resuming, [Next]_vars
    PROVE  OneStart'
  BY StartsDiffer, StartOwnsRun, RunsDiffer DEF OneStart
----------------------------------------------------------------------------
(* What main resumes.                                                      *)

\* Until the daemon serves, only main, the scans and an end of the process act.
LEMMA StartUpSteps ==
    ASSUME TInv, ~Serving, [Next]_vars
    PROVE  \/ Start(Main) \/ ListResources \/ Resume \/ Serve \/ UNCHANGED vars
           \/ \E g \in Run : ScanTask(g)
           \/ \E where \in {"list", "down"} : ProcessEnds(where)
<1>1. \A q \in Request : Pc(q) = "idle"
  BY DEF TInv, Places, Free
<1>2. \A q \in Request : ~Handle(q) /\ ~WatchFails(q) /\ ~Disconnect(q) /\ ~Start(q) /\ ~StoreFails(q)
  BY <1>1 DEF Handle, AlreadyRegistered, FindUri, FindName, Reject, Insert, Find, Deactivate,
              Halt, WatchFails, SpawnRun, Disconnect, Free, Start, StopOld, Load, Mark, Spawn,
              Register, StoreFails, StoreSteps
<1>3. \A q \in Request, n \in Name : ~Remove(q, n) /\ \A u \in Uri : ~Add(q, n, u)
  BY DEF Add, Remove, Receive
<1>4. StoreFails(Main) \/ MainWatchFails \/ Crash
        => \E where \in {"list", "down"} : ProcessEnds(where)
  BY DEF StoreFails, MainWatchFails, GivesUp, Crash
<1> QED
  BY <1>2, <1>3, <1>4 DEF Next, AtRest, Task

\* The rows keep their names and their status.
Steady ==
    /\ clashed' = clashed
    /\ \A u \in Uri :
          /\ rows'[u] = None <=> rows[u] = None
          /\ rows[u] # None => rows'[u].name = rows[u].name /\ rows'[u].status = rows[u].status

LEMMA WrittenSteady ==
    ASSUME TInv, NEW c \in Copy, NEW r \in Row, Upsert(c.uri, r), clashed' = clashed,
           r.name = c.row.name, r.status = c.row.status, AsRead(c), rows[c.uri] # None
    PROVE  Steady
<1>1. c.uri \in Uri
  BY DEF Copy
<1>2. /\ rows'[c.uri] = r /\ r # None
      /\ \A v \in Uri : v # c.uri => rows'[v] = rows[v]
  BY <1>1, UpsertType DEF TInv
<1> QED
  BY <1>1, <1>2 DEF Steady, AsRead

LEMMA StartUpSteady ==
    ASSUME TInv, NInv, Resuming, ~Serving, [Next]_vars, UNCHANGED clashed
    PROVE  Steady
<1>1. RowsKept => Steady
  BY DEF RowsKept, Steady
<1>2. ASSUME NEW c \in Copy
      PROVE  LET r == [c.row EXCEPT !.indexing = "indexing"]
                 s == [c.row EXCEPT !.indexing = "indexed"]
             IN  /\ r \in Row /\ r.name = c.row.name /\ r.status = c.row.status
                 /\ s \in Row /\ s.name = c.row.name /\ s.status = c.row.status
  BY DEF Copy, Row, Indexing
<1>3. CASE Mark(Main)
  <2> DEFINE c == task[Main].copy
  <2>1. Main \in Task /\ Pc(Main) = "mark"
    BY <1>3 DEF Task, Mark
  <2>2. c \in Copy /\ rows[c.uri] # None /\ AsRead(c)
    BY <2>1 DEF TInv, Holds, Pc, NInv, TaskNamesOK, Shares, Resuming
  <2>3. Upsert(c.uri, [c.row EXCEPT !.indexing = "indexing"])
    BY <1>3 DEF Mark
  <2> HIDE DEF c
  <2> QED
    BY <1>2, <2>2, <2>3, WrittenSteady
<1>4. ASSUME NEW g \in Run, ScanReports(g) PROVE Steady
  <2> DEFINE c == runs[g].copy
  <2>1. c \in Copy /\ rows[c.uri] # None /\ AsRead(c)
    BY <1>4 DEF ScanReports, TInv, RunsTyped, NInv, RunNamesOK, Shares, Resuming
  <2>2. Upsert(c.uri, [c.row EXCEPT !.indexing = "indexed"])
    BY <1>4 DEF ScanReports
  <2> HIDE DEF c
  <2> QED
    BY <1>2, <2>1, <2>2, WrittenSteady
<1>5. ASSUME NEW q \in Request PROVE ~Insert(q) /\ ~Deactivate(q) /\ ~Mark(q)
  BY DEF TInv, Places, Free, Insert, Deactivate, Mark
<1> QED
  BY <1>1, <1>3, <1>4, <1>5, RowsStep DEF WritesCopy, Task

\* Insertions alone make names clash.
LEMMA StartUpClashes ==
    ASSUME TInv, NInv, ~Serving, [Next]_vars
    PROVE  UNCHANGED clashed
<1>1. \A q \in Request : ~Insert(q)
  BY DEF TInv, Places, Free, Insert
<1> QED
  BY <1>1, NamesStep DEF NamesSame

\* Copies of rows are as the rows.
LEMMA CopiesSteady ==
    ASSUME TInv, NInv, Resuming, ~Serving, [Next]_vars, Steady
    PROVE  /\ Pc(Main)' = "mark" => AsRead(task[Main].copy)'
           /\ \A g \in Run : runs'[g].scan = "report" => AsRead(runs[g].copy)'
<1>1. ASSUME NEW c \in Copy, AsRead(c), rows[c.uri] # None
      PROVE  rows'[c.uri].name = c.row.name /\ rows'[c.uri].status = c.row.status
  BY <1>1 DEF Steady, AsRead, Copy
<1>2. ASSUME NEW n, NEW c \in Copies(n)
      PROVE  rows'[c.uri].name = c.row.name /\ rows'[c.uri].status = c.row.status
  <2>1. c \in Copy /\ rows[c.uri] = c.row /\ c.row # None
    BY <1>2, CopiesFacts DEF TInv
  <2> QED
    BY <1>1, <2>1 DEF AsRead
<1>3. ASSUME Pc(Main)' = "mark" PROVE AsRead(task[Main].copy)'
  <2>1. Main \in Task
    BY DEF Task
  <2>2. CASE task'[Main] = task[Main]
    <3>1. /\ task[Main].copy \in Copy /\ AsRead(task[Main].copy)
          /\ rows[task[Main].copy.uri] # None
      BY <1>3, <2>1, <2>2 DEF TInv, Holds, Pc, NInv, TaskNamesOK, Shares, Resuming
    <3> QED
      BY <1>1, <2>2, <3>1 DEF AsRead
  <2>3. CASE task'[Main].copy \in Copies(task[Main].name)
    BY <1>2, <2>3 DEF AsRead
  <2>4. TaskStep(Main)
    BY <2>1, TasksStep
  <2> QED
    BY <1>3, <2>2, <2>3, <2>4 DEF TaskStep, Advances, Looks, Resumes, Pc
<1>4. ASSUME NEW g \in Run, runs'[g].scan = "report" PROVE AsRead(runs[g].copy)'
  <2>1. CASE runs'[g].scan = runs[g].scan /\ runs'[g].copy = runs[g].copy
    <3>1. /\ runs[g].copy \in Copy /\ AsRead(runs[g].copy)
          /\ rows[runs[g].copy.uri] # None
      BY <1>4, <2>1 DEF TInv, RunsTyped, NInv, RunNamesOK, Shares, Resuming
    <3> QED
      BY <1>1, <2>1, <3>1 DEF AsRead
  <2>2. CASE runs'[g].copy \in Copies(runs[g].name)
    BY <1>2, <2>2 DEF AsRead
  <2>3. RunStep(g)
    BY RunsStep
  <2> QED
    BY <1>4, <2>1, <2>2, <2>3
       DEF RunStep, Scans, IsCancelled, Spins, SameRun, Begins, Ends, NoRun
<1> QED
  BY <1>3, <1>4

\* What is on main's list is active and has not been started.
LEMMA TodoKept ==
    ASSUME TInv, NInv, Resuming, ~Serving, [Next]_vars, Steady, NEW u \in todo'
    PROVE  /\ IsActive(u)'
           /\ rows'[u].name \notin clashed' =>
                 /\ \A g \in Run : runs'[g].name # rows'[u].name
                 /\ Pc(Main)' \in Starting => task'[Main].name # rows'[u].name
<1>1. Main \in Task /\ Main \notin Request /\ \A q \in Request : Pc(q) = "idle"
  BY DEF Task, TInv, Places, Free
<1>2. ASSUME NEW v \in Uri, IsActive(v) PROVE IsActive(v)'
  BY <1>2 DEF Steady, IsActive
<1>3. CASE ListResources
  <2>1. u \in Uri /\ IsActive(u) /\ Pc(Main)' = "next"
    BY <1>1, <1>3, GotoStep DEF ListResources, TInv, Pc
  <2>2. \A g \in Run : runs'[g] = NoRun
    <3>1. starts = 0 /\ runs' = runs
      BY <1>3 DEF ListResources, TInv, Budget
    <3>2. \A g \in Run : g > 0
      BY RunFacts
    <3> QED
      BY <3>1, <3>2 DEF TInv, RunsTyped
  <2>3. rows'[u].name # None
    <3>1. rows[u] \in Row
      BY <2>1, TypeFacts DEF IsActive, TInv
    <3> QED
      BY <2>1, <3>1 DEF Steady, IsActive, Row
  <2> QED
    BY <1>2, <2>1, <2>2, <2>3 DEF NoRun, Starting
<1>4. CASE u \in todo
  <2>1. u \in Uri /\ IsActive(u) /\ rows'[u].name = rows[u].name /\ clashed' = clashed
    BY <1>4, TypeFacts DEF Resuming, TInv, Steady, IsActive
  <2>2. ASSUME rows[u].name \notin clashed, NEW g \in Run, runs'[g].name = rows[u].name
        PROVE  FALSE
    <3>1. CASE runs'[g].name = runs[g].name
      BY <1>4, <2>2, <3>1 DEF Resuming
    <3>2. CASE Begins(g)
      <4>1. PICK p \in Task : Pc(p) = "spawn" /\ runs'[g].name = task[p].name
        BY <3>2 DEF Begins
      <4>2. p = Main
        BY <1>1, <4>1 DEF Task
      <4> QED
        BY <1>4, <2>2, <4>1, <4>2 DEF Resuming, Starting
    <3>3. CASE Ends(g)
      <4>1. rows[u] \in Row
        BY <2>1, TypeFacts DEF IsActive, TInv
      <4> QED
        BY <2>2, <3>3, <4>1 DEF Ends, NoRun, Row
    <3> QED
      BY <3>1, <3>2, <3>3, RunNamesFrom
  <2>3. ASSUME rows[u].name \notin clashed, Pc(Main)' \in Starting,
               task'[Main].name = rows[u].name
        PROVE  FALSE
    <3>1. CASE Pc(Main) \in Starting /\ Keeps(Main)
      BY <1>4, <2>3, <3>1 DEF Resuming, Keeps
    <3>2. CASE Resumes(Main)
      <4>1. PICK v \in todo : todo' = todo \ {v} /\ task'[Main].name = rows[v].name
        BY <3>2 DEF Resumes
      <4>2. u # v /\ v \in Uri /\ rows[v] # None
        BY <4>1, TypeFacts DEF TInv
      <4> QED
        BY <2>1, <2>3, <4>1, <4>2 DEF NInv, NamesUnique, IsActive
    <3> QED
      BY <1>1, <2>3, <3>1, <3>2, StartsFrom
  <2> QED
    BY <1>2, <2>1, <2>2, <2>3
<1>5. CASE todo' \subseteq todo
  BY <1>4, <1>5
<1>6. ListResources \/ todo' \subseteq todo
  BY StartUpSteps DEF Start, StopOld, Load, Mark, Spawn, Register, Resume, Serve, vars,
                      ScanTask, ScanReads, ScanReports, ScanReportsNothing, ProcessEnds
<1> QED
  BY <1>3, <1>5, <1>6

\* A resource that is watched stays so, unless it is stopped or started again.
LEMMA WatchKept ==
    ASSUME TInv, RInv, Steady, NEW u \in Uri, IsActive(u), Watched(u), NEW p \in Task,
           \/ Quiet \/ Spawn(p)
           \/ (StopOld(p) \/ Register(p)) /\ task[p].name # rows[u].name
    PROVE  Watched(u)'
<1> DEFINE m == rows[u].name
           g == active[m]
<1>1. /\ m \in Name /\ rows'[u].name = m
      /\ TypeOK /\ active \in [Name -> Run \cup {0}] /\ runs \in [Run -> RunType]
  <2>1. rows[u] \in Row
    BY TypeFacts DEF IsActive, TInv
  <2> QED
    BY <2>1, TypeFacts DEF IsActive, Steady, Row, TInv
<1>2. g # 0 /\ g \in Run /\ g \in 0 .. starts /\ runs[g].loop = "live" /\ ~runs[g].cancelled
  BY <1>1 DEF Watched, TInv, ActiveStarted
<1> SUFFICES active'[m] = g /\ runs'[g].loop = "live" /\ ~runs'[g].cancelled
  BY <1>1, <1>2 DEF Watched
<1>3. CASE Quiet
  BY <1>2, <1>3 DEF Quiet, SameLoop
<1>4. CASE Spawn(p)
  <2>1. g # starts + 1
    BY <1>2, NumberFacts DEF TInv
  <2>2. active' = active
    BY <1>4 DEF Spawn
  <2> QED
    BY <1>2, <1>4, <2>1, <2>2, BeginAlone
<1>5. CASE (StopOld(p) \/ Register(p)) /\ task[p].name # m
  <2> DEFINE n == task[p].name
  <2>1. n \in Name
    BY <1>5 DEF StopOld, Register, TInv, Holds, Pc, Unspawned
  <2>2. active[n] # g
    BY <1>1, <1>2, <1>5, <2>1 DEF RInv
  <2>3. \E x : active' = [active EXCEPT ![n] = x]
    BY <1>5 DEF StopOld, StopRun, Register
  <2>4. runs'[g] = runs[g]
    BY <1>1, <1>2, <1>5, <2>2 DEF StopOld, StopRun, Register
  <2> HIDE DEF n
  <2> QED
    BY <1>1, <1>2, <1>5, <2>1, <2>3, <2>4 DEF n
<1> QED
  BY <1>3, <1>4, <1>5

LEMMA RegisterWatches ==
    ASSUME TInv, RInv, Steady, NEW u \in Uri, IsActive(u), NEW p \in Task, Register(p),
           task[p].name = rows[u].name
    PROVE  Watched(u)'
<1> DEFINE n == task[p].name
           g == task[p].run
<1>1. /\ n \in Name /\ g \in 1 .. starts /\ TypeOK /\ Pc(p) = "register"
      /\ active \in [Name -> Run \cup {0}] /\ runs \in [Run -> RunType] /\ starts \in Nat
  BY TypeFacts, NumberFacts DEF TInv, Holds, Pc, Register
<1>2. g \in Run /\ Registering(p, g)
  BY <1>1, TypeFacts, UriCount DEF Run, Registering
<1>3. runs[g].loop = "live" /\ ~runs[g].cancelled /\ active[n] # g
  BY <1>1, <1>2 DEF RInv
<1>4. active'[n] = g /\ g # 0
  BY <1>1 DEF Register
<1>5. runs'[g] = runs[g]
  BY <1>1, <1>2, <1>3 DEF Register
<1>6. rows'[u].name = n
  BY DEF Steady, IsActive
<1> HIDE DEF n, g
<1> QED
  BY <1>3, <1>4, <1>5, <1>6 DEF Watched

\* What is not on main's list is watched, but for the one it is starting.
LEMMA WatchingKept ==
    ASSUME TInv, NInv, RInv, Resuming, ~Serving, [Next]_vars, Steady,
           Pc(Main)' \in Starting \cup {"next"}, NEW u \in Uri, IsActive(u)'
    PROVE  \/ u \in todo'
           \/ Pc(Main)' \in Starting /\ task'[Main].name = rows'[u].name
           \/ Watched(u)'
<1>1. /\ Main \in Task /\ TypeOK
      /\ IsActive(u) /\ rows'[u].name = rows[u].name
  BY DEF Task, TInv, Steady, IsActive
<1>2. Pc(Main) \in Starting \cup {"next"} =>
        \/ u \in todo
        \/ Pc(Main) \in Starting /\ task[Main].name = rows[u].name
        \/ Watched(u)
  BY <1>1 DEF Resuming
<1>3. CASE ListResources
  BY <1>1, <1>3 DEF ListResources
<1>4. CASE Resume
  <2>1. Quiet
    BY <1>4, QuietMain
  <2>2. PICK v \in todo :
          todo' = todo \ {v} /\ task'[Main].name = rows[v].name /\ task'[Main].pc = "stop"
    BY <1>4, ResumeAlone
  <2>3. Pc(Main) = "next"
    BY <1>4 DEF Resume
  <2> QED
    BY <1>1, <1>2, <2>1, <2>2, <2>3, WatchKept DEF Starting, Pc
<1>5. CASE Start(Main)
  <2>1. Pc(Main) \in Starting /\ todo' = todo
    BY <1>5 DEF Start, StopOld, Load, Mark, Spawn, SpawnRun, Register, Starting
  <2>2. CASE Register(Main)
    <3>1. task[Main].name = rows[u].name => Watched(u)'
      BY <1>1, <2>2, RegisterWatches
    <3>2. task[Main].name # rows[u].name /\ Watched(u) => Watched(u)'
      BY <1>1, <2>2, WatchKept
    <3> QED
      BY <1>2, <2>1, <3>1, <3>2
  <2>3. CASE ~Register(Main)
    <3>1. Pc(Main)' \in Starting /\ Keeps(Main)
      <4>1. CASE StopOld(Main)
        BY <1>1, <4>1, GotoStep DEF StopOld, StoreSteps, Pc, Starting
      <4>2. CASE Load(Main)
        <5>1. Goto(Main, "spawn") \/ \E c \in Copies(task[Main].name) : CopyTo(Main, "mark", c)
          BY <4>2 DEF Load, CopyTo
        <5> QED
          BY <1>1, <5>1, GotoStep, CopyStep DEF Pc, Starting
      <4>3. CASE Mark(Main)
        <5>1. PICK t \in TaskType :
                 /\ task' = [task EXCEPT ![Main] = t]
                 /\ t.pc = "spawn" /\ t.name = task[Main].name /\ t.uri = task[Main].uri
          BY <1>1, <4>3, MarkMoves
        <5> QED
          BY <1>1, <5>1, OneMoves DEF Pc, Starting, Keeps
      <4>4. CASE Spawn(Main)
        <5>1. starts + 1 \in Run
          BY <1>1, <4>4, NextRun DEF Spawn, SpawnRun
        <5>2. PICK t \in TaskType :
                 /\ task' = [task EXCEPT ![Main] = t]
                 /\ t.pc = "register" /\ t.name = task[Main].name /\ t.uri = task[Main].uri
          BY <1>1, <4>4, <5>1, SpawnMoves
        <5> QED
          BY <1>1, <5>2, OneMoves DEF Pc, Starting, Keeps
      <4> QED
        BY <1>5, <2>3, <4>1, <4>2, <4>3, <4>4 DEF Start
    <3>2. task[Main].name # rows[u].name /\ Watched(u) => Watched(u)'
      BY <1>1, <1>5, <2>3, WatchKept, QuietStart DEF Start
    <3> QED
      BY <1>1, <1>2, <2>1, <3>1, <3>2 DEF Keeps
  <2> QED
    BY <2>2, <2>3
<1>6. CASE UNCHANGED vars \/ \E g \in Run : ScanTask(g)
  <2>1. UNCHANGED <<task, todo>>
    BY <1>6 DEF vars, ScanTask, ScanReads, ScanReports, ScanReportsNothing
  <2>2. Quiet
    BY <1>6, QuietScan DEF vars, Quiet, SameLoop
  <2> QED
    BY <1>1, <1>2, <2>1, <2>2, WatchKept DEF Pc
<1>7. CASE Serve
  BY <1>1, <1>7, GotoStep DEF Serve, Pc, Starting
<1>8. ASSUME NEW where \in {"list", "down"}, ProcessEnds(where) PROVE FALSE
  <2>1. task'[Main].pc \in {"idle", "list", "down"}
    BY <1>1, <1>8, EndStep
  <2> QED
    BY <2>1 DEF Pc, Starting
<1> QED
  BY <1>3, <1>4, <1>5, <1>6, <1>7, <1>8, StartUpSteps

\* A task moves by a step of its own, or with the end of the process.
Receives(q) == \E n \in Name : Remove(q, n) \/ \E u \in Uri : Add(q, n, u)
Acts(p) ==
    \/ p \in Request /\ (Handle(p) \/ WatchFails(p) \/ Disconnect(p) \/ Receives(p))
    \/ Start(p) \/ StoreFails(p)
    \/ p = Main /\ (MainWatchFails \/ ListResources \/ Resume \/ Serve)

LEMMA ActsAlone ==
    ASSUME TInv, [Next]_vars, NEW p \in Task
    PROVE  task'[p] = task[p] \/ Acts(p) \/ \E where \in {"list", "down"} : ProcessEnds(where)
<1>1. Main \in Task /\ Request \subseteq Task /\ task \in [Task -> TaskType] /\ TypeOK
  BY TypeFacts DEF Task, TInv
<1>2. ASSUME NEW o \in Task, o # p, NEW t, task' = [task EXCEPT ![o] = t] PROVE task'[p] = task[p]
  BY <1>1, <1>2
<1>3. ASSUME NEW o \in Task, o # p, NEW where, Return(o) \/ Goto(o, where)
      PROVE  task'[p] = task[p]
  BY <1>1, <1>2, <1>3 DEF Return, Goto
<1>4. ASSUME NEW q \in Request, q # p, Handle(q) PROVE task'[p] = task[p]
  <2>1. CASE Find(q)
    BY <1>1, <1>3, <1>4, <2>1 DEF Find
  <2>2. CASE ~Find(q)
    BY <1>1, <1>3, <1>4, <2>2
       DEF Handle, AlreadyRegistered, FindUri, FindName, Reject, Insert, Deactivate, Halt
  <2> QED
    BY <2>1, <2>2
<1>5. ASSUME NEW o \in Task, o # p, Start(o) PROVE task'[p] = task[p]
  <2>1. CASE Load(o) \/ Mark(o) \/ Spawn(o)
    BY <1>1, <1>3, <1>5, <2>1 DEF Load, Mark, Spawn
  <2>2. CASE StopOld(o) \/ Register(o)
    BY <1>3, <1>5, <2>2 DEF StopOld, Register
  <2> QED
    BY <1>5, <2>1, <2>2 DEF Start
<1>6. ASSUME NEW q \in Request, q # p, WatchFails(q) \/ Disconnect(q) PROVE task'[p] = task[p]
  BY <1>1, <1>3, <1>6 DEF WatchFails, Disconnect
<1>7. ASSUME NEW o \in Task, o # p, StoreFails(o)
      PROVE  task'[p] = task[p] \/ \E where \in {"list", "down"} : ProcessEnds(where)
  BY <1>3, <1>7 DEF StoreFails, GivesUp
<1>8. ASSUME NEW q \in Request, q # p, NEW n, NEW u, NEW where, Receive(q, n, u, where)
      PROVE  task'[p] = task[p]
  BY <1>1, <1>2, <1>8 DEF Receive
<1>9. CASE UNCHANGED vars \/ \E g \in Run : ScanTask(g)
  BY <1>9 DEF vars, ScanTask, ScanReads, ScanReports, ScanReportsNothing
<1>10. Crash \/ MainWatchFails => \E where \in {"list", "down"} : ProcessEnds(where)
  BY DEF Crash, MainWatchFails, GivesUp
<1>11. ASSUME p # Main, ListResources \/ Resume \/ Serve PROVE task'[p] = task[p]
  <2>1. CASE ListResources \/ Serve
    BY <1>1, <1>3, <1>11, <2>1 DEF ListResources, Serve
  <2>2. CASE Resume
    BY <1>11, <2>2, ResumeAlone DEF OthersStay
  <2> QED
    BY <1>11, <2>1, <2>2
<1>12. ASSUME NEW q \in Request, NEW n \in Name, NEW u \in Uri, Add(q, n, u)
       PROVE  task'[p] = task[p] \/ Acts(p)
  BY <1>8, <1>12 DEF Add, Acts, Receives
<1>13. ASSUME NEW q \in Request, NEW n \in Name, Remove(q, n)
       PROVE  task'[p] = task[p] \/ Acts(p)
  BY <1>8, <1>13 DEF Remove, Acts, Receives
<1> QED
  BY <1>1, <1>4, <1>5, <1>6, <1>7, <1>9, <1>10, <1>11, <1>12, <1>13 DEF Next, AtRest, Acts

\* A process that serves goes on serving until it ends.
LEMMA ServingStays ==
    ASSUME TInv, Serving, [Next]_vars
    PROVE  Serving' \/ \E where \in {"list", "down"} : ProcessEnds(where)
<1>1. Main \in Task /\ Main \notin Request /\ Pc(Main) = "serving"
  BY DEF Task, Serving
<1>2. ~Acts(Main)
  BY <1>1 DEF Acts, Start, StopOld, Load, Mark, Spawn, SpawnRun, Register, StoreFails,
              StoreSteps, MainWatchFails, ListResources, Resume, Serve
<1> QED
  BY <1>1, <1>2, ActsAlone DEF Serving, Pc

LEMMA EndResuming ==
    ASSUME NEW where \in {"list", "down"}, ProcessEnds(where)
    PROVE  Resuming'
<1>1. Pc(Main)' \in {"list", "down", "idle"}
  BY EndStep DEF Pc, Task
<1>2. todo' = {} /\ \A g \in Run : runs'[g].scan # "report"
  BY DEF ProcessEnds, NoRun
<1> QED
  BY <1>1, <1>2 DEF Resuming, Starting

LEMMA ResumingKept ==
    ASSUME TInv, NInv, RInv, Resuming, [Next]_vars
    PROVE  Resuming'
<1>1. CASE Serving
  BY <1>1, ServingStays, EndResuming DEF Resuming
<1>2. CASE ~Serving
  <2>1. Steady
    BY <1>2, StartUpClashes, StartUpSteady
  <2> QED
    BY <1>2, <2>1, CopiesSteady, TodoKept, WatchingKept DEF Resuming
<1> QED
  BY <1>1, <1>2

LEMMA InitResuming == Init => OneStart /\ Resuming
<1> SUFFICES ASSUME Init PROVE OneStart /\ Resuming
  OBVIOUS
<1>1. \A p \in Task : Pc(p) \in {"list", "idle"}
  BY DEF Init, Process, IdleTask, Pc
<1>2. (\A g \in Run : runs[g].name = None /\ runs[g].scan = "none") /\ todo = {}
  BY DEF Init, NoRun
<1> QED
  BY <1>1, <1>2 DEF OneStart, Resuming, Starting, Task

JInv == TInv /\ NInv /\ RInv /\ OneStart /\ Resuming

LEMMA JKept ==
    ASSUME JInv, [Next]_vars
    PROVE  JInv'
  BY NextType, NamesKept, HeldKept, OneStartKept, ResumingKept DEF JInv

LEMMA Joint == Spec => []JInv
<1>1. Init => JInv
  BY InitType, InitNames, InitHeld, InitResuming DEF JInv
<1> QED
  BY <1>1, JKept, PTL DEF Spec

\* main.rs:73: when the daemon begins to serve, every active resource is watched
\* under a token that has not been cancelled, for any tables, storage errors,
\* failing watches and restarts, and however the scans already begun rewrite the
\* rows meanwhile.
THEOREM ServesResumed == Spec => ServingResumed
<1>1. ASSUME JInv, Serve PROVE \A u \in Uri : IsActive(u) => Watched(u)
  BY <1>1 DEF JInv, Resuming, Serve, Serving, Starting
<1>2. JInv /\ [Next]_vars => [Serve => \A u \in Uri : IsActive(u) => Watched(u)]_vars
  BY <1>1
<1> QED
  BY Joint, <1>2, PTL DEF Spec, ServingResumed
----------------------------------------------------------------------------
(* Which runs can be stopped.                                              *)

\* What went half done is remembered as long as the process.
LEMMA LapsesKept ==
    ASSUME [Next]_vars
    PROVE  lapses \subseteq lapses' \/ \E where \in {"list", "down"} : ProcessEnds(where)
<1>1. ASSUME NEW p \in Task, StoreFails(p) \/ MainWatchFails \/ Crash
      PROVE  lapses \subseteq lapses' \/ \E where \in {"list", "down"} : ProcessEnds(where)
  BY <1>1 DEF StoreFails, MainWatchFails, Crash, GivesUp
<1>2. ASSUME NEW q \in Request, Handle(q) \/ WatchFails(q) \/ Disconnect(q)
      PROVE  lapses \subseteq lapses'
  BY <1>2 DEF Handle, AlreadyRegistered, FindUri, FindName, Reject, Insert, Find, Deactivate,
              Halt, WatchFails, Disconnect, Abandon, counts
<1>3. ASSUME NEW p \in Task, Start(p) PROVE lapses \subseteq lapses'
  BY <1>3 DEF Start, StopOld, Load, Mark, Spawn, Register, counts
<1>4. ASSUME NEW g \in Run, ScanTask(g) PROVE lapses \subseteq lapses'
  BY <1>4 DEF ScanTask, ScanReads, ScanReports, ScanReportsNothing, counts
<1>5. CASE ListResources \/ Resume \/ Serve \/ UNCHANGED vars
  BY <1>5 DEF ListResources, Resume, Serve, vars, counts
<1>6. ASSUME NEW q \in Request, NEW n \in Name, NEW u \in Uri, Add(q, n, u)
      PROVE  lapses \subseteq lapses'
  BY <1>6 DEF Add, Receive
<1>7. ASSUME NEW q \in Request, NEW n \in Name, Remove(q, n) PROVE lapses \subseteq lapses'
  BY <1>7 DEF Remove, Receive
<1> QED
  BY <1>1, <1>2, <1>3, <1>4, <1>5, <1>6, <1>7 DEF Next, AtRest, Task

LEMMA LostStep ==
    ASSUME JInv, LostKnown, [Next]_vars, NEW g \in Run, Lost(g)'
    PROVE  \/ {<<runs'[g].name, "spawn">>, <<runs'[g].name, "register">>} \cap lapses' # {}
           \/ runs'[g].name \in clashed'
<1>1. TInv /\ NInv /\ RInv /\ OneStart /\ clashed \subseteq clashed'
  BY SharesKept DEF JInv
<1>2. CASE Lost(g) /\ runs'[g].name = runs[g].name /\ lapses \subseteq lapses'
  BY <1>1, <1>2 DEF LostKnown
<1>3. CASE Ends(g)
  BY <1>3 DEF Ends, NoRun, Lost
<1>4. CASE Begins(g)
  <2>1. PICK p \in Task :
           /\ Pc(p) = "spawn" /\ runs'[g].name = task[p].name
           /\ \/ runs'[g].loop = "live"
              \/ WatchFails(p)
    BY <1>4 DEF Begins
  <2>2. WatchFails(p) /\ task[p].name \in Name
    BY <1>1, <2>1 DEF Lost, TInv, Holds, Pc, Unspawned
  <2>3. <<task[p].name, "spawn">> \in lapses'
    BY <2>1, <2>2 DEF WatchFails, Abandon, Lapse
  <2> QED
    BY <2>1, <2>3
<1>5. CASE Spins(g)
  <2>1. PICK p \in Task : \/ Register(p) /\ active[task[p].name] = g
                          \/ p \in Request /\ Disconnect(p) /\ Registering(p, g)
    BY <1>5 DEF Spins
  <2>2. runs'[g].name = runs[g].name /\ g # 0
    BY <1>5, RunFacts DEF Spins, SameRun
  <2>3. CASE Register(p) /\ active[task[p].name] = g
    <3>1. task[p].name \in Name /\ Pc(p) \in Starting
      BY <1>1, <2>3 DEF Register, TInv, Holds, Pc, Starting
    <3>2. runs[g].name = task[p].name /\ ~Registering(p, g)
      BY <1>1, <2>2, <2>3, <3>1 DEF RInv
    <3> QED
      BY <1>1, <2>2, <3>1, <3>2 DEF OneStart
  <2>4. CASE p \in Request /\ Disconnect(p) /\ Registering(p, g)
    <3>1. task[p].name \in Name /\ runs[g].name = task[p].name /\ Pc(p) = "register"
      BY <1>1, <2>4 DEF Registering, RInv, TInv, Holds, Pc
    <3>2. <<task[p].name, "register">> \in lapses'
      BY <2>4, <3>1 DEF Disconnect, Abandon, Lapse
    <3> QED
      BY <2>2, <3>1, <3>2
  <2> QED
    BY <2>1, <2>3, <2>4
<1>6. CASE runs'[g] = runs[g] \/ Scans(g) \/ IsCancelled(g)
  <2>1. Lost(g) /\ runs'[g].name = runs[g].name
    BY <1>6 DEF Scans, ScanReads, IsCancelled, Lost
  <2>2. ~Ends(g) => lapses \subseteq lapses'
    BY LapsesKept DEF Ends, ProcessEnds
  <2> QED
    BY <1>2, <1>3, <2>1, <2>2
<1> QED
  BY <1>3, <1>4, <1>5, <1>6, RunsStep, <1>1 DEF RunStep

LEMMA LostKept ==
    ASSUME JInv, LostKnown, [Next]_vars
    PROVE  LostKnown'
  BY LostStep DEF LostKnown

\* watcher.rs:51-53, resource.rs:380: what a start has spawned and nobody has told
\* to stop is held by the manager or about to be, except after a watch that
\* could not be registered, a client that left its start half done, or two
\* insertions that clashed; for any number of requests, faults and restarts,
\* which may overlap in any way.
THEOREM RunsAreHeld == Spec => []RunsHeld
<1>1. Init => LostKnown
  BY DEF Init, LostKnown, Lost, NoRun
<1>2. JInv /\ LostKnown /\ [Next]_vars => LostKnown'
  BY LostKept
<1>3. JInv /\ LostKnown => RunsHeld
  <2> SUFFICES ASSUME JInv, LostKnown, NEW g \in Run,
                      runs[g].scan = "running" \/ runs[g].loop # "none", ~runs[g].cancelled,
                      {<<runs[g].name, "spawn">>, <<runs[g].name, "register">>} \cap lapses = {},
                      runs[g].name \notin clashed
               PROVE  Held(g)
    BY DEF RunsHeld
  <2>1. runs[g].loop \in {"none", "live", "spinning"}
    BY TypeFacts DEF JInv, TInv, RunType
  <2>2. ~Lost(g)
    BY DEF LostKnown
  <2> QED
    BY <2>1, <2>2 DEF Lost, JInv, RInv, LiveHeld
<1> QED
  BY Joint, <1>1, <1>2, <1>3, PTL DEF Spec
----------------------------------------------------------------------------
(* What a removal leaves.                                                  *)

\* A row stays inactive unless it is inserted again, or an older copy of it is
\* written back.
LEMMA InactiveFate ==
    ASSUME TInv, NInv, [Next]_vars, NEW u \in Uri, Inactive(u)
    PROVE  \/ Inactive(u)'
           \/ \E q \in Request : Insert(q) /\ task[q].uri = u
           \/ \E p \in Task : Mark(p) /\ task[p].copy.uri = u
           \/ \E g \in Run : ScanReports(g) /\ runs[g].copy.uri = u
<1>1. CASE RowsKept
  BY <1>1 DEF RowsKept, Inactive
<1>2. ASSUME NEW q \in Request, Insert(q), task[q].uri # u PROVE Inactive(u)'
  BY <1>2, Inserted DEF Inactive
<1>3. ASSUME NEW c \in Copy, NEW r \in Row, Upsert(c.uri, r),
             c.uri # u \/ r.status = "inactive"
      PROVE  Inactive(u)'
  <2>1. c.uri \in Uri /\ rows \in [Uri -> Row \cup {None}]
    BY TypeFacts DEF Copy, TInv
  <2>2. rows'[c.uri] = r /\ \A v \in Uri : v # c.uri => rows'[v] = rows[v]
    BY <1>3, <2>1 DEF Upsert
  <2> QED
    BY <1>3, <2>2 DEF Inactive
<1>4. ASSUME NEW c \in Copy
      PROVE  /\ [c.row EXCEPT !.status = "inactive"] \in Row
             /\ [c.row EXCEPT !.status = "inactive"].status = "inactive"
             /\ [c.row EXCEPT !.indexing = "indexing"] \in Row
             /\ [c.row EXCEPT !.indexing = "indexed"] \in Row
  BY DEF Copy, Row, Status, Indexing
<1>5. ASSUME NEW q \in Request, Deactivate(q) PROVE Inactive(u)'
  <2>1. task[q].copy \in Copy
    BY <1>5 DEF Deactivate, TInv, Holds, Pc, Task
  <2>2. Upsert(task[q].copy.uri, [task[q].copy.row EXCEPT !.status = "inactive"])
    BY <1>5 DEF Deactivate
  <2> QED
    BY <1>3, <1>4, <2>1, <2>2
<1>6. ASSUME NEW p \in Task, Mark(p), task[p].copy.uri # u PROVE Inactive(u)'
  <2>1. task[p].copy \in Copy
    BY <1>6 DEF Mark, TInv, Holds, Pc
  <2>2. Upsert(task[p].copy.uri, [task[p].copy.row EXCEPT !.indexing = "indexing"])
    BY <1>6 DEF Mark
  <2> QED
    BY <1>3, <1>4, <1>6, <2>1, <2>2
<1>7. ASSUME NEW g \in Run, ScanReports(g), runs[g].copy.uri # u PROVE Inactive(u)'
  <2>1. runs[g].copy \in Copy
    BY <1>7 DEF ScanReports, TInv, RunsTyped
  <2>2. Upsert(runs[g].copy.uri, [runs[g].copy.row EXCEPT !.indexing = "indexed"])
    BY <1>7 DEF ScanReports
  <2> QED
    BY <1>3, <1>4, <1>7, <2>1, <2>2
<1> QED
  BY <1>1, <1>2, <1>5, <1>6, <1>7, RowsStep DEF WritesCopy

\* The older copy of an inactive row that a task or a scan holds is the only one
\* of an undisputed name.
LEMMA OldCopies ==
    ASSUME TInv, NInv, OneStart, [Next]_vars, NEW u \in Uri, Inactive(u), ~Inactive(u)',
           NEW n, Shares(u, n)
    PROVE  \/ n \in clashed'
           \/ \E p \in Task : Mark(p) /\ task[p].name = n
           \/ \E g \in Run : ScanReports(g) /\ runs[g].name = n
<1>1. clashed \subseteq clashed'
  BY SharesKept
<1>2. ASSUME NEW q \in Request, Insert(q), task[q].uri = u PROVE n \in clashed
  BY <1>2, Inserted DEF Shares, Inactive
<1>3. ASSUME NEW p \in Task, Mark(p), task[p].copy.uri = u
      PROVE  n \in clashed \/ task[p].name = n
  <2>1. Shares(u, task[p].name)
    BY <1>3 DEF Mark, NInv, TaskNamesOK
  <2> QED
    BY <2>1 DEF Shares
<1>4. ASSUME NEW g \in Run, ScanReports(g), runs[g].copy.uri = u
      PROVE  n \in clashed \/ runs[g].name = n
  <2>1. Shares(u, runs[g].name)
    BY <1>4 DEF ScanReports, NInv, RunNamesOK
  <2> QED
    BY <2>1 DEF Shares
<1> QED
  BY <1>1, <1>2, <1>3, <1>4, InactiveFate

LEMMA CopiesInactiveKept ==
    ASSUME JInv, CopiesInactive, [Next]_vars
    PROVE  CopiesInactive'
<1>1. TInv /\ NInv /\ OneStart /\ clashed \subseteq clashed'
  BY SharesKept DEF JInv
<1>2. ASSUME NEW n, NEW c \in Copies(n), RowsKept, c.row.status = "inactive"
      PROVE  rows'[c.uri] # None /\ rows'[c.uri].status = "inactive"
  <2>1. rows[c.uri] = c.row /\ c.row # None
    BY <1>1, CopiesFacts DEF TInv
  <2> QED
    BY <1>2, <2>1 DEF RowsKept
<1>3. ASSUME NEW p \in Task, Pc(p)' = "mark", task'[p].copy.row.status = "inactive"
      PROVE  Inactive(task[p].copy.uri)' \/ task'[p].name \in clashed'
  <2>1. CASE task'[p] = task[p]
    <3>0. Pc(p) = "mark" /\ task[p].copy.uri \in Uri
      BY <1>1, <1>3, <2>1 DEF Pc, TInv, Holds, Copy
    <3> PICK u \in Uri : u = task[p].copy.uri
      BY <3>0
    <3>1. /\ Pc(p) = "mark" /\ Shares(u, task[p].name)
          /\ Inactive(u) \/ task[p].name \in clashed
      BY <1>1, <1>3, <2>1, <3>0 DEF NInv, TaskNamesOK, CopiesInactive
    <3>2. ASSUME Inactive(u), ~Inactive(u)', task[p].name \notin clashed' PROVE FALSE
      <4>1. CASE \E o \in Task : Mark(o) /\ task[o].name = task[p].name
        <5>1. PICK o \in Task : Mark(o) /\ task[o].name = task[p].name
          BY <4>1
        <5>2. o = p
          BY <1>1, <3>1, <3>2, <5>1 DEF OneStart, Mark, Starting
        <5>3. task'[p].pc = "spawn"
          <6>1. PICK t \in TaskType : task' = [task EXCEPT ![p] = t] /\ t.pc = "spawn"
            BY <1>1, <5>1, <5>2, MarkMoves DEF TInv
          <6> QED
            BY <1>1, <6>1, OneMoves DEF TInv
        <5> QED
          BY <1>3, <5>3 DEF Pc
      <4>2. CASE \E g \in Run : ScanReports(g) /\ runs[g].name = task[p].name
        BY <1>1, <3>1, <3>2, <4>2 DEF OneStart, Starting, Registering
      <4> QED
        BY <1>1, <3>1, <3>2, <4>1, <4>2, OldCopies
    <3>3. Inactive(u)' \/ task[p].name \in clashed'
      BY <1>1, <3>1, <3>2
    <3> QED
      BY <2>1, <3>3 DEF Inactive
  <2>2. CASE RowsKept /\ task'[p].copy \in Copies(task[p].name)
    BY <1>2, <1>3, <2>2 DEF Inactive
  <2>3. TaskStep(p)
    BY <1>1, TasksStep
  <2> QED
    BY <1>3, <2>1, <2>2, <2>3 DEF TaskStep, Advances, Looks, Resumes, Pc
<1>4. ASSUME NEW g \in Run, runs'[g].scan = "report", runs'[g].copy.row.status = "inactive"
      PROVE  Inactive(runs[g].copy.uri)' \/ runs'[g].name \in clashed'
  <2>1. CASE SameRun(g)
    <3>0. runs[g].scan = "report" /\ runs[g].copy.uri \in Uri
      BY <1>1, <1>4, <2>1 DEF SameRun, TInv, RunsTyped, Copy
    <3> PICK u \in Uri : u = runs[g].copy.uri
      BY <3>0
    <3>1. /\ runs[g].scan = "report" /\ Shares(u, runs[g].name)
          /\ Inactive(u) \/ runs[g].name \in clashed
          /\ runs[g].name \in Name
      <4>1. runs[g].scan = "report" /\ runs[g].copy.row.status = "inactive"
        BY <1>4, <2>1 DEF SameRun
      <4>2. runs[g].copy \in Copy /\ Shares(u, runs[g].name)
        BY <1>1, <4>1 DEF TInv, RunsTyped, NInv, RunNamesOK
      <4>3. Inactive(u) \/ runs[g].name \in clashed
        BY <4>1 DEF CopiesInactive
      <4>4. runs[g].name \in Name
        <5>1. ~(g > starts)
          BY <1>1, <4>1 DEF TInv, RunsTyped, NoRun
        <5>2. g \in Nat /\ starts \in Nat
          BY <1>1, RunFacts, NumberFacts DEF TInv
        <5> QED
          BY <1>1, <5>1, <5>2 DEF TInv, RunsTyped
      <4> QED
        BY <4>1, <4>2, <4>3, <4>4 DEF Copy
    <3>2. ASSUME Inactive(u), ~Inactive(u)', runs[g].name \notin clashed' PROVE FALSE
      <4>1. CASE \E o \in Task : Mark(o) /\ task[o].name = runs[g].name
        BY <1>1, <3>2, <4>1 DEF OneStart, Mark, Starting, Registering
      <4>2. CASE \E h \in Run : ScanReports(h) /\ runs[h].name = runs[g].name
        <5>1. PICK h \in Run : ScanReports(h) /\ runs[h].name = runs[g].name
          BY <4>2
        <5>2. h = g
          BY <1>1, <3>1, <3>2, <5>1 DEF OneStart
        <5>3. runs'[g].scan = "done"
          <6>1. runs' = [runs EXCEPT ![g].scan = "done", ![g].copy = None]
            BY <5>1, <5>2 DEF ScanReports
          <6> QED
            BY <1>1, <6>1, TypeFacts DEF TInv, RunType
        <5> QED
          BY <1>4, <5>3
      <4> QED
        BY <1>1, <3>1, <3>2, <4>1, <4>2, OldCopies
    <3>3. Inactive(u)' \/ runs[g].name \in clashed'
      BY <1>1, <3>1, <3>2
    <3> QED
      BY <2>1, <3>3 DEF Inactive, SameRun
  <2>2. CASE Scans(g)
    <3>1. ScanReads(g) /\ runs'[g].copy \in Copies(runs[g].name)
      BY <1>4, <2>2 DEF Scans
    <3>2. RowsKept
      BY <3>1 DEF ScanReads, RowsKept, counts
    <3> QED
      BY <1>2, <1>4, <3>1, <3>2 DEF Inactive
  <2>3. RunStep(g)
    BY <1>1, RunsStep
  <2> QED
    BY <1>4, <2>1, <2>2, <2>3 DEF RunStep, IsCancelled, Spins, SameRun, Begins, Ends, NoRun
<1> QED
  BY <1>3, <1>4 DEF CopiesInactive

\* How a row comes to be inactive.
LEMMA InactiveFrom ==
    ASSUME TInv, NInv, CopiesInactive, [Next]_vars, NEW u \in Uri, Inactive(u)',
           rows'[u].name \notin clashed'
    PROVE  \/ Inactive(u) /\ rows[u].name = rows'[u].name
           \/ \E q \in Request : Deactivate(q) /\ task[q].name = rows'[u].name
<1> DEFINE n == rows'[u].name
<1>1. n \notin clashed
  BY SharesKept
<1>2. CASE RowsKept
  BY <1>2 DEF RowsKept, Inactive
<1>3. ASSUME NEW q \in Request, Insert(q) PROVE Inactive(u) /\ rows[u].name = n
  <2>1. u # task[q].uri
    BY <1>3, Inserted DEF Inactive
  <2> QED
    BY <1>3, <2>1, Inserted DEF Inactive
<1>4. ASSUME NEW c \in Copy, NEW r \in Row, Upsert(c.uri, r), r.name = c.row.name,
             Shares(c.uri, r.name)
      PROVE  \/ c.uri # u /\ Inactive(u) /\ rows[u].name = n
             \/ c.uri = u /\ r.name = n /\ r.status = "inactive" /\ rows[u].name = n
  <2>1. c.uri \in Uri /\ rows \in [Uri -> Row \cup {None}]
    BY TypeFacts DEF Copy, TInv
  <2>2. rows'[c.uri] = r /\ \A v \in Uri : v # c.uri => rows'[v] = rows[v]
    BY <1>4, <2>1 DEF Upsert
  <2> QED
    BY <1>1, <1>4, <2>2 DEF Inactive, Shares
<1>5. ASSUME NEW c \in Copy
      PROVE  LET d == [c.row EXCEPT !.status = "inactive"]
                 r == [c.row EXCEPT !.indexing = "indexing"]
                 s == [c.row EXCEPT !.indexing = "indexed"]
             IN  /\ d \in Row /\ d.name = c.row.name
                 /\ r \in Row /\ r.name = c.row.name /\ r.status = c.row.status
                 /\ s \in Row /\ s.name = c.row.name /\ s.status = c.row.status
  BY DEF Copy, Row, Status, Indexing
<1>6. ASSUME NEW q \in Request, Deactivate(q)
      PROVE  (Inactive(u) /\ rows[u].name = n) \/ task[q].name = n
  <2> DEFINE c == task[q].copy
             d == [c.row EXCEPT !.status = "inactive"]
  <2>1. c \in Copy /\ c.row.name = task[q].name /\ Shares(c.uri, c.row.name)
    BY <1>6 DEF Deactivate, TInv, Holds, Pc, Task, NInv, TaskNamesOK
  <2>2. d \in Row /\ d.name = c.row.name /\ Upsert(c.uri, d)
    BY <1>5, <1>6, <2>1 DEF Deactivate
  <2> HIDE DEF c, d
  <2> QED
    BY <1>4, <2>1, <2>2
<1>7. ASSUME NEW p \in Task, Mark(p) PROVE Inactive(u) /\ rows[u].name = n
  <2> DEFINE c == task[p].copy
             r == [c.row EXCEPT !.indexing = "indexing"]
  <2>1. /\ c \in Copy /\ c.row.name = task[p].name /\ Shares(c.uri, c.row.name)
        /\ c.row.status = "inactive" => Inactive(c.uri) \/ task[p].name \in clashed
    BY <1>7 DEF Mark, TInv, Holds, Pc, NInv, TaskNamesOK, CopiesInactive
  <2>2. r \in Row /\ r.name = c.row.name /\ r.status = c.row.status /\ Upsert(c.uri, r)
    BY <1>5, <1>7, <2>1 DEF Mark
  <2> HIDE DEF c, r
  <2> QED
    BY <1>1, <1>4, <2>1, <2>2
<1>8. ASSUME NEW g \in Run, ScanReports(g) PROVE Inactive(u) /\ rows[u].name = n
  <2> DEFINE c == runs[g].copy
             r == [c.row EXCEPT !.indexing = "indexed"]
  <2>1. /\ c \in Copy /\ c.row.name = runs[g].name /\ Shares(c.uri, c.row.name)
        /\ c.row.status = "inactive" => Inactive(c.uri) \/ runs[g].name \in clashed
    BY <1>8 DEF ScanReports, TInv, RunsTyped, NInv, RunNamesOK, CopiesInactive
  <2>2. r \in Row /\ r.name = c.row.name /\ r.status = c.row.status /\ Upsert(c.uri, r)
    BY <1>5, <1>8, <2>1 DEF ScanReports
  <2> HIDE DEF c, r
  <2> QED
    BY <1>1, <1>4, <2>1, <2>2
<1> QED
  BY <1>2, <1>3, <1>6, <1>7, <1>8, RowsStep DEF WritesCopy

\* No start of an undisputed name begins while its row is inactive.
LEMMA NoNewStart ==
    ASSUME TInv, NInv, Resuming, [Next]_vars, NEW u \in Uri, Inactive(u),
           NEW n, rows[u].name = n, n \notin clashed', NEW p \in Task,
           Pc(p)' \in Starting, task'[p].name = n
    PROVE  Pc(p) \in Starting /\ task[p].name = n
<1>1. n \notin clashed
  BY SharesKept
<1>2. CASE Pc(p) \in Starting /\ Keeps(p)
  BY <1>2 DEF Keeps
<1>3. CASE p \in Request /\ Insert(p) /\ Keeps(p)
  <2>1. \A v \in Uri : Named(v, n) => n \in clashed
    BY <1>3, Inserted DEF Keeps
  <2> QED
    BY <1>1, <2>1 DEF Named, Inactive
<1>4. CASE Resumes(p)
  <2>1. ~Serving
    BY <1>4, ResumeAlone DEF Resumes
  <2>2. PICK v \in todo : rows[v].name = n
    BY <1>4 DEF Resumes
  <2>3. v \in Uri /\ IsActive(v)
    BY <2>1, <2>2, TypeFacts DEF Resuming, TInv
  <2> QED
    BY <1>1, <2>2, <2>3 DEF NInv, NamesUnique, IsActive, Inactive
<1> QED
  BY <1>2, <1>3, <1>4, StartsFrom

\* A removal that is over was over before, or its request is answered now.
LEMMA HaltLeft ==
    ASSUME TInv, [Next]_vars, NEW q \in Request, Pc(q) = "halt", NEW n, task[q].name = n,
           Pc(q)' = "halt" => task'[q].name # n,
           <<n, "halt">> \notin lapses'
    PROVE  Halt(q) \/ \E where \in {"list", "down"} : ProcessEnds(where)
<1>1. q \in Task /\ q # Main /\ task[q].name \in Name
  BY DEF Task, TInv, Holds, Pc
<1>2. task'[q] # task[q]
  BY DEF Pc
<1>3. ~Disconnect(q)
  <2>1. ASSUME Disconnect(q) PROVE <<n, "halt">> \in lapses'
    BY <1>1, <2>1 DEF Disconnect, Abandon, Lapse
  <2> QED
    BY <2>1
<1>4. Acts(q) => Halt(q)
  <2>1. Handle(q) => Halt(q)
    BY DEF Handle, AlreadyRegistered, FindUri, FindName, Reject, Insert, Find, Deactivate
  <2>2. ~WatchFails(q) /\ ~Receives(q) /\ ~Start(q) /\ ~StoreFails(q)
    BY DEF WatchFails, SpawnRun, Receives, Add, Remove, Receive, Free, Start, StopOld, Load,
           Mark, Spawn, Register, StoreFails, StoreSteps
  <2> QED
    BY <1>1, <1>3, <2>1, <2>2 DEF Acts
<1> QED
  BY <1>1, <1>2, <1>4, ActsAlone

\* What a halt that meets no start leaves: the manager has forgotten the name,
\* and its loops are told to stop.
LEMMA HaltStops ==
    ASSUME TInv, RInv, NEW q \in Request, Halt(q), NEW n, task[q].name = n,
           <<n, "missed">> \notin lapses'
    PROVE  Stopped(n)' /\ ~BeingStarted(n)'
<1>1. /\ n \in Name /\ StopRun(n) /\ q \in Task /\ TypeOK
      /\ active \in [Name -> Run \cup {0}] /\ runs \in [Run -> RunType]
  BY TypeFacts DEF TInv, Holds, Pc, Unspawned, Halt, Task
<1>2. ~BeingStarted(n)
  BY DEF Halt
<1>3. OthersStay(q) /\ task'[q].pc \in {"idle", "next"}
  <2>1. PICK t \in TaskType : task' = [task EXCEPT ![q] = t] /\ t.pc \in {"idle", "next"}
    BY <1>1, ReturnMoves DEF Halt
  <2> QED
    BY <1>1, <2>1, OneMoves DEF OthersStay
<1>4. ~BeingStarted(n)'
  BY <1>2, <1>3 DEF BeingStarted, OthersStay, Pc, Starting
<1>5. active'[n] = 0
  BY <1>1 DEF StopRun
<1>6. ASSUME NEW g \in Run, runs'[g].name = n, runs'[g].loop = "live"
      PROVE  runs'[g].cancelled
  <2>1. CASE active[n] = g
    BY <1>1, <2>1, RunFacts DEF StopRun, RunType
  <2>2. CASE active[n] # g
    <3>1. runs'[g] = runs[g]
      BY <1>1, <2>2 DEF StopRun
    <3>2. ASSUME ~runs[g].cancelled PROVE FALSE
      <4>1. \E p \in Task : Registering(p, g)
        BY <1>6, <2>2, <3>1, <3>2 DEF RInv, LiveHeld, Held, Registering
      <4>2. \E p \in Task : Pc(p) = "register" /\ task[p].name = n
        BY <1>6, <3>1, <4>1 DEF RInv, Registering
      <4> QED
        BY <1>2, <4>2 DEF BeingStarted, Starting
    <3> QED
      BY <1>1, <3>1, <3>2 DEF RunType
  <2> QED
    BY <2>1, <2>2
<1> QED
  BY <1>4, <1>5, <1>6 DEF Stopped

\* A name that is stopped and not being started stays stopped.
LEMMA StoppedStays ==
    ASSUME TInv, RInv, [Next]_vars, NEW n \in Name, Stopped(n), ~BeingStarted(n)
    PROVE  Stopped(n)'
<1>1. \A p \in Task : Pc(p) \in Starting => task[p].name # n
  BY DEF BeingStarted
<1>2. ASSUME NEW g \in Run, runs'[g].name = n, runs'[g].loop = "live"
      PROVE  runs'[g].cancelled
  <2>1. CASE Begins(g)
    BY <1>1, <1>2, <2>1 DEF Begins, Starting
  <2>2. CASE Ends(g)
    BY <1>2, <2>2 DEF Ends, NoRun
  <2>3. CASE runs'[g] = runs[g] \/ Scans(g)
    BY <1>2, <2>3 DEF Scans, Stopped
  <2> QED
    BY <1>2, <2>1, <2>2, <2>3, RunsStep DEF RunStep, IsCancelled, Spins
<1>3. active'[n] = 0
  <2>1. active[n] = 0 /\ active \in [Name -> Run \cup {0}]
    BY TypeFacts DEF Stopped, TInv
  <2>2. CASE Quiet
    BY <2>1, <2>2 DEF Quiet
  <2>3. ASSUME NEW p \in Task, StopOld(p) \/ (p \in Request /\ Halt(p)) PROVE active'[n] = 0
    BY <2>1, <2>3 DEF StopOld, Halt, StopRun
  <2>4. ASSUME NEW p \in Task, Register(p) PROVE active'[n] = 0
    <3>1. task[p].name # n
      BY <1>1, <2>4 DEF Register, Starting
    <3> QED
      BY <2>1, <2>4, <3>1 DEF Register
  <2>5. ASSUME NEW p \in Task, Spawn(p) \/ WatchFails(p) \/ Disconnect(p) PROVE active'[n] = 0
    BY <2>1, <2>5 DEF Spawn, WatchFails, Disconnect
  <2>6. ASSUME NEW where \in {"list", "down"}, ProcessEnds(where) PROVE active'[n] = 0
    BY <2>6 DEF ProcessEnds
  <2> QED
    BY <2>2, <2>3, <2>4, <2>5, <2>6, ManagerStep DEF Manages, Task
<1> QED
  BY <1>2, <1>3 DEF Stopped

LEMMA RemovedKept ==
    ASSUME JInv, CopiesInactive, Removed, [Next]_vars
    PROVE  Removed'
<1> SUFFICES ASSUME NEW u \in Uri, Over(u)'
             PROVE  Stopped(rows[u].name)' /\ ~BeingStarted(rows[u].name)'
  BY DEF Removed
<1>1. TInv /\ NInv /\ RInv /\ Resuming /\ clashed \subseteq clashed'
  BY SharesKept DEF JInv
<1>2. PICK n \in Name : n = rows'[u].name
  <2>1. TInv'
    BY <1>1, NextType
  <2>2. rows'[u] \in Row
    BY <2>1 DEF Over, Inactive, TInv, TypeOK
  <2> QED
    BY <2>2 DEF Row
<1>3. /\ Inactive(u)' /\ n \notin clashed'
      /\ {<<n, "missed">>, <<n, "halt">>} \cap lapses' = {}
      /\ \A q \in Request : task'[q].pc = "halt" => task'[q].name # n
  BY <1>2 DEF Over, Pc
<1> SUFFICES Stopped(n)' /\ ~BeingStarted(n)'
  BY <1>2
<1>4. ASSUME NEW where \in {"list", "down"}, ProcessEnds(where)
      PROVE  Stopped(n)' /\ ~BeingStarted(n)'
  <2>1. \A p \in Task : task'[p].pc \notin Starting
    BY <1>4, EndStep DEF Starting
  <2>2. active'[n] = 0 /\ \A g \in Run : runs'[g].loop # "live"
    BY <1>4 DEF ProcessEnds, NoRun
  <2> QED
    BY <2>1, <2>2 DEF Stopped, BeingStarted, Pc
<1>5. CASE \A where \in {"list", "down"} : ~ProcessEnds(where)
  <2>1. ASSUME NEW q \in Request, Deactivate(q) PROVE task[q].name # n
    <3>1. task'[q].pc = "halt" /\ Keeps(q)
      BY <1>1, <2>1, GotoStep DEF Deactivate, TInv, Task
    <3> QED
      BY <1>3, <3>1 DEF Keeps
  <2>2. Inactive(u) /\ rows[u].name = n
    BY <1>1, <1>2, <1>3, <2>1, InactiveFrom
  <2>3. {<<n, "missed">>, <<n, "halt">>} \cap lapses = {}
    BY <1>3, <1>5, LapsesKept
  <2>4. CASE \A q \in Request : Pc(q) = "halt" => task[q].name # n
    <3>1. Over(u)
      BY <1>1, <1>3, <2>2, <2>3, <2>4 DEF Over
    <3>2. Stopped(n) /\ ~BeingStarted(n)
      BY <2>2, <3>1 DEF Removed
    <3>3. ASSUME NEW p \in Task, Pc(p)' \in Starting, task'[p].name = n PROVE FALSE
      BY <1>1, <1>3, <2>2, <3>2, <3>3, NoNewStart DEF BeingStarted
    <3>4. ~BeingStarted(n)'
      BY <3>3 DEF BeingStarted
    <3> QED
      BY <1>1, <3>2, <3>4, StoppedStays
  <2>5. ASSUME NEW q \in Request, Pc(q) = "halt", task[q].name = n
        PROVE  Stopped(n)' /\ ~BeingStarted(n)'
    <3>1. Halt(q)
      BY <1>1, <1>3, <1>5, <2>5, HaltLeft DEF Pc
    <3> QED
      BY <1>1, <1>3, <2>5, <3>1, HaltStops
  <2> QED
    BY <2>4, <2>5
<1> QED
  BY <1>4, <1>5

\* resource.rs:380: a removed resource is not left watched.  Once no request on
\* it is in progress an inactive resource has no entry in the manager and no loop
\* that has not been told to stop, unless the stop came while a start was under
\* way, the client left between the update and the stop, or two insertions
\* clashed; for any number of requests that overlap, of faults and of restarts.
THEOREM RemovedStops == Spec => []RemovedIsQuiet
<1>1. Init => CopiesInactive /\ Removed
  <2> SUFFICES ASSUME Init PROVE CopiesInactive /\ Removed
    OBVIOUS
  <2>1. \A p \in Task : Pc(p) \in {"list", "idle"}
    BY DEF Init, Process, IdleTask, Pc
  <2>2. (\A g \in Run : runs[g].scan = "none") /\ \A u \in Uri : rows[u] = None
    BY DEF Init, NoRun
  <2> QED
    BY <2>1, <2>2 DEF CopiesInactive, Removed, Over, Inactive
<1>2. JInv /\ CopiesInactive /\ Removed /\ [Next]_vars => (CopiesInactive /\ Removed)'
  BY CopiesInactiveKept, RemovedKept
<1>3. Removed => RemovedIsQuiet
  <2> SUFFICES ASSUME Removed, NEW u \in Uri, Settled(u),
                      {<<rows[u].name, "missed">>, <<rows[u].name, "halt">>} \cap lapses = {},
                      rows[u].name \notin clashed
               PROVE  Stopped(rows[u].name)
    BY DEF RemovedIsQuiet
  <2>1. Over(u)
    BY DEF Settled, Over, Inactive
  <2> QED
    BY <2>1 DEF Removed
<1> QED
  BY Joint, <1>1, <1>2, <1>3, PTL DEF Spec
=============================================================================
