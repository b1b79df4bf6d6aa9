---------------------- MODULE IncidentIngestionProofs ----------------------
(***************************************************************************)
(* Proofs about IncidentIngestion for any threads, workspaces, anomalies,  *)
(* playbooks and rules.                                                    *)
(*                                                                         *)
(* Inv relates what a request has read to the tables: what its anomaly,    *)
(* incident and runs were when it looked stays so, since no step takes     *)
(* back a row (Evolves).  It is proved action by action; a step of one     *)
(* worker keeps the others consistent (OthersStayConsistent).              *)
(***************************************************************************)
EXTENDS IncidentIngestion, FiniteSetTheorems, TLAPS

(* The inductive invariant *)

\* The positions that the requests of each kind pass through.
Path ==
  [load       |-> {"persist"},
   listing    |-> {"persist", "history", "automate", "ingest", "find",
                   "insert", "runs", "record"},
   trigger    |-> {"persist", "link", "runs", "record"},
   creation   |-> {"ingest", "find", "insert"},
   validation |-> {"alert", "ingest", "find", "insert", "runs", "record",
                   "resolve"}]

\* A validation event's anomaly is met in its own workspace only.
AtHome(a, o) ==
  a \in Validations => Raised(a) /\ validation_events[a].workspace = o

OnPath(w) ==
  /\ requests[w].pc \in Path[requests[w].kind]
  /\ requests[w].kind # "load" => requests[w].workspace \in Workspaces
  /\ At(w, "record") => requests[w].playbook \in requests[w].left

TodoConsistent(w) ==
  \A v \in requests[w].todo \cap Validations :
    /\ Raised(v)
    /\ LoadWorkspace(w) # NoWorkspace =>
         validation_events[v].workspace = LoadWorkspace(w)

BatchConsistent(w) ==
  /\ \A a \in requests[w].batch : AtHome(a, requests[w].workspace)
  /\ requests[w].kind = "validation" => requests[w].batch \subseteq Validations

\* A request that is ingesting has stored the anomaly.
AnomalyConsistent(w) ==
  requests[w].kind # "trigger" /\ requests[w].pc \in
    {"find", "insert", "runs", "record", "resolve"} =>
      /\ requests[w].anomaly \in Anomalies
      /\ anomalies[requests[w].anomaly].stored
      /\ AtHome(requests[w].anomaly, requests[w].workspace)
      /\ requests[w].kind = "validation" => requests[w].anomaly \in Validations

\* It has the incident, and the playbooks it is through with have their runs.
RunsConsistent(w) ==
  requests[w].kind # "trigger" /\ requests[w].pc \in {"runs", "record", "resolve"} =>
    /\ requests[w].owner = requests[w].workspace
    /\ requests[w].incident.workspace = requests[w].workspace
    /\ IncidentExists(requests[w].anomaly, requests[w].incident)
    /\ \A p \in Playbooks \ requests[w].left :
         playbook_runs[requests[w].anomaly][p].recorded
    /\ At(w, "resolve") => requests[w].left = {}

TriggerConsistent(w) ==
  requests[w].kind = "trigger" =>
    /\ requests[w].anomaly \in Anomalies
    /\ requests[w].incident = NoLink
         \/ IncidentExists(requests[w].anomaly, requests[w].incident)
    /\ ~At(w, "persist") => AtHome(requests[w].anomaly, requests[w].owner)

RequestConsistent(w) ==
  requests[w] # Idle =>
    /\ OnPath(w) /\ TodoConsistent(w) /\ BatchConsistent(w)
    /\ AnomalyConsistent(w) /\ RunsConsistent(w) /\ TriggerConsistent(w)

\* The request that raises the event of v and has not resolved it.
Raises(w, v) ==
  /\ requests[w] # Idle
  /\ requests[w].kind = "validation"
  /\ v \in requests[w].batch \cup {requests[w].anomaly}

OneRaises ==
  \A w \in Workers, v \in Validations :
    Raises(w, v) =>
      /\ validation_events[v].status = "open"
      /\ \A u \in Workers : Raises(u, v) => u = w

NothingBeforeItsEvent ==
  \A v \in Validations : ~Raised(v) => validation_events[v] = NoEvent

Tables ==
  /\ NothingBeforeItsEvent
  /\ ValidationStaysHome
  /\ NotifiedOnce
  /\ RunsAreLinked
  /\ ResolvedIsComplete

Inv ==
  /\ TypeOK
  /\ Tables
  /\ \A w \in Workers : RequestConsistent(w)
  /\ OneRaises

-----------------------------------------------------------------------------
(* Steps *)

\* What no step takes back.
Evolves ==
  /\ \A a \in Anomalies : anomalies[a].stored => anomalies'[a].stored
  /\ \A a \in Anomalies, o \in Workspaces : incidents'[a][o] >= incidents[a][o]
  /\ \A a \in Anomalies, p \in Playbooks :
       playbook_runs[a][p].recorded => playbook_runs'[a][p].recorded
  /\ \A v \in Validations :
       Raised(v) => /\ validation_events'[v].status # "none"
                    /\ validation_events'[v].workspace = validation_events[v].workspace

LEMMA RequestShape ==
  ASSUME TypeOK, NEW w \in Workers, requests[w] # Idle
  PROVE  requests[w] \in Requests
BY DEF TypeOK

LEMMA BusyShape ==
  ASSUME TypeOK, NEW w \in Workers, ~At(w, "idle")
  PROVE  requests[w] \in Requests /\ requests[w] # Idle
BY DEF TypeOK, At, Idle

\* A request that does nothing stays consistent while others step.
LEMMA OthersStayConsistent ==
  ASSUME TypeOK, TypeOK', Evolves, NEW u \in Workers,
         requests'[u] = requests[u], RequestConsistent(u)
  PROVE  RequestConsistent(u)'
<1> SUFFICES ASSUME requests[u] # Idle
             PROVE  RequestConsistent(u)'
  BY DEF RequestConsistent
<1> DEFINE r == requests[u]
<1>1. r \in Requests
  BY RequestShape
<1>2. /\ OnPath(u) /\ TodoConsistent(u) /\ BatchConsistent(u)
      /\ AnomalyConsistent(u) /\ RunsConsistent(u) /\ TriggerConsistent(u)
  BY DEF RequestConsistent
<1>3. \A a \in Anomalies, o \in Owners : AtHome(a, o) => AtHome(a, o)'
  BY DEF AtHome, Evolves, Raised
<1>4. \A a \in Anomalies, k \in Links : IncidentExists(a, k) => IncidentExists(a, k)'
  BY DEF IncidentExists, Evolves, TypeOK, Links
<1>5. OnPath(u)'
  BY <1>2 DEF OnPath, At
<1>6. TodoConsistent(u)'
  BY <1>2 DEF TodoConsistent, Evolves, Raised, LoadWorkspace
<1>7. BatchConsistent(u)'
  <2>1. r.batch \subseteq Anomalies /\ r.workspace \in Owners
    BY <1>1 DEF Requests
  <2> QED
    BY <1>2, <1>3, <2>1 DEF BatchConsistent
<1>8. AnomalyConsistent(u)'
  <2>1. r.workspace \in Owners
    BY <1>1 DEF Requests
  <2> QED
    BY <1>2, <1>3, <2>1 DEF AnomalyConsistent, Evolves
<1>9. RunsConsistent(u)'
  <2>1. r.incident \in Links
    BY <1>1 DEF Requests
  <2> QED
    BY <1>2, <1>4, <2>1 DEF RunsConsistent, AnomalyConsistent, Evolves, At
<1>10. TriggerConsistent(u)'
  <2>1. r.incident \in Links /\ r.owner \in Owners
    BY <1>1 DEF Requests
  <2> QED
    BY <1>2, <1>3, <1>4, <2>1 DEF TriggerConsistent, At
<1> QED
  BY <1>5, <1>6, <1>7, <1>8, <1>9, <1>10 DEF RequestConsistent

LEMMA InitInv == Init => Inv
<1> SUFFICES ASSUME Init PROVE Inv
  OBVIOUS
<1>1. TypeOK
  BY DEF Init, TypeOK, NoRow, NoRun, NoEvent, Event, NoLink, Link, Links, Owners
<1>2. NothingBeforeItsEvent
  BY DEF Init, NothingBeforeItsEvent
<1>3. ValidationStaysHome
  BY DEF Init, ValidationStaysHome, NoRow, NoRun, Anomalies
<1>4. NotifiedOnce
  BY DEF Init, NotifiedOnce, NoRun
<1>5. RunsAreLinked
  BY DEF Init, RunsAreLinked, NoRun, NoLink, Link
<1>6. ResolvedIsComplete
  BY DEF Init, ResolvedIsComplete, NoEvent, Event
<1>7. \A w \in Workers : requests[w] = Idle
  BY DEF Init
<1> QED
  BY <1>1, <1>2, <1>3, <1>4, <1>5, <1>6, <1>7
  DEF Inv, Tables, RequestConsistent, OneRaises, Raises

-----------------------------------------------------------------------------
(* How a step of one worker keeps the invariant *)

\* A step of w keeps the invariant, given that others stay consistent.
Kept(w) ==
  /\ TypeOK' /\ Evolves /\ Tables' /\ RequestConsistent(w)' /\ OneRaises'
  /\ \A u \in Workers \ {w} : requests'[u] = requests[u]

LEMMA KeptSuffices ==
  ASSUME Inv, NEW w \in Workers, Kept(w)
  PROVE  Inv'
<1>1. ASSUME NEW u \in Workers
      PROVE  RequestConsistent(u)'
  <2>1. CASE u = w
    BY <2>1 DEF Kept
  <2>2. CASE u # w
    BY <2>2, OthersStayConsistent DEF Kept, Inv
  <2> QED
    BY <2>1, <2>2
<1> QED
  BY <1>1 DEF Kept, Inv

LEMMA Served ==
  ASSUME TypeOK, NEW w \in Workers, NEW r \in Requests \cup {Idle}, Serve(w, r)
  PROVE  /\ requests' \in [Workers -> Requests \cup {Idle}]
         /\ requests'[w] = r
         /\ \A u \in Workers \ {w} : requests'[u] = requests[u]
BY DEF TypeOK, Serve

\* No new request raises an event.
LEMMA NobodyRaises ==
  ASSUME Inv, NEW w \in Workers,
         \A u \in Workers \ {w} : requests'[u] = requests[u],
         validation_events' = validation_events,
         \A v \in Validations : Raises(w, v)' => Raises(w, v)
  PROVE  OneRaises'
<1>1. \A u \in Workers, v \in Validations : Raises(u, v)' => Raises(u, v)
  BY DEF Raises
<1> QED
  BY <1>1 DEF Inv, OneRaises

\* A step that leaves the tables alone.
LEMMA ReadingKeeps ==
  ASSUME Inv, NEW w \in Workers, NEW r \in Requests \cup {Idle}, Serve(w, r),
         UNCHANGED tables,
         \A v \in Validations : Raises(w, v)' => Raises(w, v),
         RequestConsistent(w)'
  PROVE  Kept(w)
<1>1. TypeOK'
  BY Served DEF Inv, TypeOK, tables
<1>2. Evolves
  BY <1>1 DEF Inv, Evolves, tables, TypeOK, Raised
<1>3. Tables'
  BY DEF Inv, Tables, NothingBeforeItsEvent, ValidationStaysHome, NotifiedOnce,
     RunsAreLinked, ResolvedIsComplete, IncidentExists, Raised, tables
<1>4. OneRaises'
  BY Served, NobodyRaises DEF Inv, tables
<1> QED
  BY <1>1, <1>2, <1>3, <1>4, Served DEF Kept, Inv

\* A request that ends leaves nothing to be consistent about.
LEMMA FinishKeeps ==
  ASSUME Inv, NEW w \in Workers, Finish(w), UNCHANGED tables
  PROVE  Kept(w)
<1>1. Serve(w, Idle)
  BY DEF Finish
<1>2. requests'[w] = Idle
  BY <1>1, Served DEF Inv
<1>3. \A v \in Validations : ~Raises(w, v)'
  BY <1>2 DEF Raises
<1>4. RequestConsistent(w)'
  BY <1>2 DEF RequestConsistent
<1> QED
  BY <1>1, <1>3, <1>4, ReadingKeeps
-----------------------------------------------------------------------------
(* Steps that read *)

\* The requests that begin with a load.
LEMMA BeginReadingKeeps ==
  ASSUME Inv, NEW w \in Workers, NEW r \in Requests, Serve(w, r), UNCHANGED tables,
         r.pc = "persist", r.kind \in {"listing", "load", "trigger"},
         r.kind # "load" => r.workspace \in Workspaces,
         r.kind = "trigger" => r.anomaly \in Anomalies,
         r.todo \in _load_anomalies(IF r.kind = "trigger" THEN NoWorkspace
                                                          ELSE r.workspace),
         r.batch = {}, r.incident = NoLink
  PROVE  Kept(w)
<1>1. \A v \in r.todo \cap Validations :
        /\ Raised(v)
        /\ r.kind # "trigger" /\ r.workspace # NoWorkspace =>
             validation_events[v].workspace = r.workspace
  BY SourcesDiffer DEF _load_anomalies, _validation_anomalies
<1>2. requests'[w] = r
  BY Served DEF Inv
<1>3. \A v \in Validations : ~Raises(w, v)'
  BY <1>2 DEF Raises
<1>4. RequestConsistent(w)'
  BY <1>1, <1>2 DEF RequestConsistent, OnPath, Path, TodoConsistent,
     LoadWorkspace, BatchConsistent, AnomalyConsistent, RunsConsistent,
     TriggerConsistent, At, NoLink, Link, Raised, tables
<1> QED
  BY <1>3, <1>4, ReadingKeeps

LEMMA LoadTyped ==
  ASSUME NEW o \in Owners, NEW found \in _load_anomalies(o)
  PROVE  found \subseteq Anomalies
BY DEF _load_anomalies, _validation_anomalies, Anomalies

LEMMA BeginListingKeeps ==
  ASSUME Inv, NEW w \in Workers, NEW o \in Workspaces, BeginListing(w, o)
  PROVE  Kept(w)
<1>1. PICK found \in _load_anomalies(o) :
        Serve(w, [Request("persist", "listing", o) EXCEPT !.todo = found])
  BY DEF BeginListing
<1> DEFINE r == [Request("persist", "listing", o) EXCEPT !.todo = found]
<1>2. r \in Requests
  BY LoadTyped DEF Request, Requests, NoLink, Link, Links, Owners
<1>3. /\ r.pc = "persist" /\ r.kind = "listing" /\ r.workspace = o
      /\ r.todo = found /\ r.batch = {} /\ r.incident = NoLink
  BY DEF Request
<1>4. UNCHANGED tables
  BY DEF BeginListing
<1> QED
  BY <1>1, <1>2, <1>3, <1>4, BeginReadingKeeps

LEMMA BeginLoadKeeps ==
  ASSUME Inv, NEW w \in Workers, NEW o \in Owners, BeginLoad(w, o)
  PROVE  Kept(w)
<1>1. PICK found \in _load_anomalies(o) :
        Serve(w, [Request("persist", "load", o) EXCEPT !.todo = found])
  BY DEF BeginLoad
<1> DEFINE r == [Request("persist", "load", o) EXCEPT !.todo = found]
<1>2. r \in Requests
  BY LoadTyped DEF Request, Requests, NoLink, Link, Links, Owners
<1>3. /\ r.pc = "persist" /\ r.kind = "load" /\ r.workspace = o
      /\ r.todo = found /\ r.batch = {} /\ r.incident = NoLink
  BY DEF Request
<1>4. UNCHANGED tables
  BY DEF BeginLoad
<1> QED
  BY <1>1, <1>2, <1>3, <1>4, BeginReadingKeeps

LEMMA BeginTriggerKeeps ==
  ASSUME Inv, NEW w \in Workers, NEW o \in Workspaces, NEW a \in Anomalies,
         NEW p \in Playbooks, BeginTrigger(w, o, a, p)
  PROVE  Kept(w)
<1>1. PICK found \in _load_anomalies(NoWorkspace) :
        Serve(w, [Request("persist", "trigger", o) EXCEPT
                    !.todo = found, !.anomaly = a, !.left = {p}])
  BY DEF BeginTrigger
<1> DEFINE r == [Request("persist", "trigger", o) EXCEPT
                   !.todo = found, !.anomaly = a, !.left = {p}]
<1>2. r \in Requests
  BY LoadTyped DEF Request, Requests, NoLink, Link, Links, Owners
<1>3. /\ r.pc = "persist" /\ r.kind = "trigger" /\ r.workspace = o
      /\ r.todo = found /\ r.batch = {} /\ r.incident = NoLink
      /\ r.anomaly = a
  BY DEF Request
<1>4. UNCHANGED tables
  BY DEF BeginTrigger
<1> QED
  BY <1>1, <1>2, <1>3, <1>4, BeginReadingKeeps

\* What a worker reads into the request it serves.
LEMMA SelectForListingKeeps ==
  ASSUME Inv, NEW w \in Workers, SelectForListing(w)
  PROVE  Kept(w)
<1> DEFINE q == requests[w]
           r == [q EXCEPT !.pc = "history",
                          !.batch = _stored_anomalies(q.workspace)]
<1>1. q \in Requests /\ q # Idle /\ q.kind = "listing" /\ RequestConsistent(w)
  BY BusyShape DEF Inv, SelectForListing, Loaded, At
<1>2. q.workspace \in Workspaces /\ q.workspace # NoWorkspace
  BY <1>1, NoWorkspaceIsNone DEF RequestConsistent, OnPath
<1>3. \A a \in _stored_anomalies(q.workspace) : AtHome(a, q.workspace)
  BY <1>2 DEF _stored_anomalies, AtHome, Inv, Tables, ValidationStaysHome
<1>4. r \in Requests
  BY <1>1 DEF Requests, _stored_anomalies
<1>5. Serve(w, r) /\ UNCHANGED tables
  BY DEF SelectForListing
<1>6. requests'[w] = r
  BY <1>4, <1>5, Served DEF Inv
<1>7. \A v \in Validations : ~Raises(w, v)'
  BY <1>1, <1>6 DEF Raises, Requests
<1>8. \A a \in _stored_anomalies(q.workspace) : AtHome(a, q.workspace)'
  BY <1>3, <1>5, <1>6, <1>1 DEF AtHome, Raised, tables, Requests
<1>9. RequestConsistent(w)'
  BY <1>1, <1>2, <1>6, <1>8, <1>5 DEF RequestConsistent, OnPath, Path, TodoConsistent,
     LoadWorkspace, BatchConsistent, AnomalyConsistent, RunsConsistent, AtHome,
     TriggerConsistent, At, Raised, tables, Requests
<1> QED
  BY <1>4, <1>5, <1>7, <1>9, ReadingKeeps
LEMMA SelectForTriggerKeeps ==
  ASSUME Inv, NEW w \in Workers, SelectForTrigger(w)
  PROVE  Kept(w)
<1> DEFINE q == requests[w]
           a == q.anomaly
           r == [q EXCEPT !.pc = "link", !.owner = anomalies[a].workspace]
<1>1. q \in Requests /\ q # Idle /\ q.kind = "trigger" /\ RequestConsistent(w)
  BY BusyShape DEF Inv, SelectForTrigger, Loaded, At
<1>2. UNCHANGED tables
  BY DEF SelectForTrigger
<1>3. CASE a \notin _stored_anomalies(NoWorkspace)
  <2>1. Finish(w)
    BY <1>3 DEF SelectForTrigger
  <2> QED
    BY <1>2, <2>1, FinishKeeps
<1>4. CASE a \in _stored_anomalies(NoWorkspace)
  <2>1. Serve(w, r)
    BY <1>4 DEF SelectForTrigger
  <2>2. anomalies[a].stored /\ a \in Anomalies
    BY <1>4 DEF _stored_anomalies
  <2>3. r \in Requests
    BY <1>1, <2>2 DEF Requests, Inv, TypeOK
  <2>4. AtHome(a, anomalies[a].workspace)
    BY <2>2 DEF AtHome, Inv, Tables, ValidationStaysHome
  <2>5. requests'[w] = r
    BY <2>1, <2>3, Served DEF Inv
  <2>6. \A v \in Validations : ~Raises(w, v)'
    BY <1>1, <2>5 DEF Raises, Requests
  <2>7. RequestConsistent(w)'
    BY <1>1, <1>2, <2>4, <2>5 DEF RequestConsistent, OnPath, Path, TodoConsistent,
       LoadWorkspace, BatchConsistent, AnomalyConsistent, RunsConsistent, AtHome,
       IncidentExists, TriggerConsistent, At, Raised, tables, Requests
  <2> QED
    BY <1>2, <2>1, <2>3, <2>6, <2>7, ReadingKeeps
<1> QED
  BY <1>3, <1>4

LEMMA ReadHistoryKeeps ==
  ASSUME Inv, NEW w \in Workers, ReadHistory(w)
  PROVE  Kept(w)
<1> DEFINE q == requests[w]
           pending == {x \in AutomationRules \X q.batch :
                         automation_history[x[1]][x[2]] = 0}
           r == [q EXCEPT !.pc = ToApply(pending), !.pending = pending]
<1>1. q \in Requests /\ q # Idle /\ q.pc = "history" /\ RequestConsistent(w)
  BY BusyShape DEF Inv, ReadHistory, At
<1>2. q.kind = "listing"
  BY <1>1 DEF RequestConsistent, OnPath, Path, Requests
<1>3. Serve(w, r) /\ UNCHANGED tables
  BY DEF ReadHistory
<1>4. pending \subseteq AutomationRules \X Anomalies
  BY <1>1 DEF Requests
<1>5. r \in Requests
  BY <1>1, <1>4 DEF Requests, ToApply
<1>6. requests'[w] = r
  BY <1>3, <1>5, Served DEF Inv
<1>7. \A v \in Validations : ~Raises(w, v)'
  BY <1>1, <1>2, <1>6 DEF Raises, Requests
<1>8. /\ r.pc \in {"automate", "ingest"} /\ r.kind = "listing"
      /\ r.workspace = q.workspace /\ r.todo = q.todo /\ r.batch = q.batch
  BY <1>1, <1>2 DEF Requests, ToApply
<1>9. RequestConsistent(w)'
  BY <1>1, <1>2, <1>3, <1>6, <1>8 DEF RequestConsistent, OnPath, Path,
     TodoConsistent, LoadWorkspace, BatchConsistent, AnomalyConsistent,
     RunsConsistent, AtHome, TriggerConsistent, At, Raised, tables
<1> QED
  BY <1>3, <1>5, <1>7, <1>9, ReadingKeeps

LEMMA BeginCreationKeeps ==
  ASSUME Inv, NEW w \in Workers, NEW o \in Workspaces, NEW a \in Anomalies,
         BeginCreation(w, o, a)
  PROVE  Kept(w)
<1> DEFINE r == [Request("ingest", "creation", o) EXCEPT !.batch = {a}]
<1>1. Serve(w, r) /\ UNCHANGED tables /\ anomalies[a] = Row(o)
  BY DEF BeginCreation
<1>2. r \in Requests
  BY DEF Request, Requests, NoLink, Link, Links, Owners
<1>3. AtHome(a, o)
  BY <1>1 DEF AtHome, Row, Inv, Tables, ValidationStaysHome
<1>4. requests'[w] = r
  BY <1>1, <1>2, Served DEF Inv
<1>5. /\ r.pc = "ingest" /\ r.kind = "creation" /\ r.workspace = o
      /\ r.todo = {} /\ r.batch = {a}
  BY DEF Request
<1>6. \A v \in Validations : ~Raises(w, v)'
  BY <1>4, <1>5 DEF Raises
<1>7. RequestConsistent(w)'
  BY <1>1, <1>3, <1>4, <1>5 DEF RequestConsistent, OnPath, Path,
     TodoConsistent, LoadWorkspace, BatchConsistent, AnomalyConsistent,
     RunsConsistent, AtHome, TriggerConsistent, At, Raised, tables
<1> QED
  BY <1>1, <1>2, <1>6, <1>7, ReadingKeeps

\* The incident that a request has found or made.
LEMMA WithIncidentTyped ==
  ASSUME Inv, NEW w \in Workers, NEW n \in Nat, requests[w] \in Requests,
         requests[w].workspace \in Workspaces
  PROVE  WithIncident(w, n) \in Requests \cup {Idle}
BY DEF WithIncident, Requests, Link, Links, Owners

LEMMA FindIncidentKeeps ==
  ASSUME Inv, NEW w \in Workers, FindIncident(w)
  PROVE  Kept(w)
<1> DEFINE q == requests[w]
<1>1. q \in Requests /\ q # Idle /\ q.pc = "find" /\ RequestConsistent(w)
  BY BusyShape DEF Inv, FindIncident, At
<1>2. /\ q.kind \in {"listing", "creation", "validation"}
      /\ q.workspace \in Workspaces /\ q.anomaly \in Anomalies
      /\ OnPath(w) /\ TodoConsistent(w) /\ BatchConsistent(w) /\ AnomalyConsistent(w)
  BY <1>1 DEF RequestConsistent, OnPath, Path, AnomalyConsistent, Requests
<1>3. UNCHANGED tables
  BY DEF FindIncident
<1>4. ASSUME Serve(w, [q EXCEPT !.pc = "insert"])
      PROVE  Kept(w)
  <2> DEFINE r == [q EXCEPT !.pc = "insert"]
  <2>1. r \in Requests
    BY <1>1 DEF Requests
  <2>2. requests'[w] = r
    BY <1>4, <2>1, Served DEF Inv
  <2>3. \A v \in Validations : Raises(w, v)' => Raises(w, v)
    BY <1>1, <2>2 DEF Raises, Requests
  <2>4. RequestConsistent(w)'
    BY <1>1, <1>2, <1>3, <2>2 DEF RequestConsistent, OnPath, Path,
       TodoConsistent, LoadWorkspace, BatchConsistent, AnomalyConsistent,
       RunsConsistent, AtHome, TriggerConsistent, At, Raised, tables, Requests
  <2> QED
    BY <1>3, <1>4, <2>1, <2>3, <2>4, ReadingKeeps
<1>5. ASSUME NEW n \in 1 .. IncidentsOf(w), Serve(w, WithIncident(w, n))
      PROVE  Kept(w)
  <2> DEFINE r == WithIncident(w, n)
  <2>1. incidents[q.anomaly][q.workspace] \in Nat
    BY <1>2 DEF Inv, TypeOK
  <2>2. n \in Nat /\ r \in Requests \cup {Idle}
    BY <1>1, <1>2, <2>1, WithIncidentTyped DEF IncidentsOf
  <2>3. requests'[w] = r
    BY <1>5, <2>2, Served DEF Inv
  <2>4. CASE q.kind = "creation"
    <3>1. Finish(w)
      BY <1>5, <2>4 DEF WithIncident, Finish
    <3> QED
      BY <1>3, <3>1, FinishKeeps
  <2>5. CASE q.kind # "creation"
    <3>1. r = [q EXCEPT !.pc = "runs", !.incident = Link(q.workspace, n),
                        !.owner = q.workspace, !.left = Playbooks]
      BY <2>5 DEF WithIncident
    <3>2. \A v \in Validations : Raises(w, v)' => Raises(w, v)
      BY <1>1, <2>3, <3>1 DEF Raises, Requests
    <3>3. IncidentExists(q.anomaly, Link(q.workspace, n))
      BY <1>2 DEF IncidentExists, Link, IncidentsOf
    <3>4. RequestConsistent(w)'
      BY <1>1, <1>2, <1>3, <2>3, <2>5, <3>1, <3>3 DEF RequestConsistent, OnPath, Path,
         TodoConsistent, LoadWorkspace, BatchConsistent, AnomalyConsistent,
         RunsConsistent, AtHome, TriggerConsistent, At, Raised, tables, Requests,
         IncidentExists, Link
    <3> QED
      BY <1>3, <1>5, <2>2, <3>2, <3>4, ReadingKeeps
  <2> QED
    BY <2>4, <2>5
<1> QED
  BY <1>4, <1>5 DEF FindIncident

\* The steps of a request that leave the tables and the anomaly alone.
LEMMA FindLinkKeeps ==
  ASSUME Inv, NEW w \in Workers, FindLink(w)
  PROVE  Kept(w)
<1> DEFINE q == requests[w]
<1>1. q \in Requests /\ q # Idle /\ q.pc = "link" /\ RequestConsistent(w)
  BY BusyShape DEF Inv, FindLink, At
<1>2. /\ q.kind = "trigger" /\ q.workspace \in Workspaces /\ q.anomaly \in Anomalies
      /\ OnPath(w) /\ TodoConsistent(w) /\ BatchConsistent(w) /\ TriggerConsistent(w)
  BY <1>1 DEF RequestConsistent, OnPath, Path, TriggerConsistent, Requests
<1>3. UNCHANGED tables
  BY DEF FindLink
<1>4. ASSUME NEW k \in Links, Serve(w, [q EXCEPT !.pc = "runs", !.incident = k]),
             k = NoLink \/ IncidentExists(q.anomaly, k)
      PROVE  Kept(w)
  <2> DEFINE r == [q EXCEPT !.pc = "runs", !.incident = k]
  <2>1. r \in Requests
    BY <1>1 DEF Requests
  <2>2. requests'[w] = r
    BY <1>4, <2>1, Served DEF Inv
  <2>3. \A v \in Validations : ~Raises(w, v)'
    BY <1>1, <1>2, <2>2 DEF Raises, Requests
  <2>4. RequestConsistent(w)'
    BY <1>1, <1>2, <1>3, <1>4, <2>2 DEF RequestConsistent, OnPath, Path,
       TodoConsistent, LoadWorkspace, BatchConsistent, AnomalyConsistent,
       RunsConsistent, AtHome, TriggerConsistent, At, Raised, tables, Requests,
       IncidentExists
  <2> QED
    BY <1>3, <1>4, <2>1, <2>3, <2>4, ReadingKeeps
<1>5. CASE Serve(w, [q EXCEPT !.pc = "runs"])
  <2>1. [q EXCEPT !.pc = "runs"] = [q EXCEPT !.pc = "runs", !.incident = q.incident]
    BY <1>1 DEF Requests
  <2>2. q.incident \in Links
    BY <1>1 DEF Requests
  <2>3. q.incident = NoLink \/ IncidentExists(q.anomaly, q.incident)
    BY <1>1, <1>2 DEF TriggerConsistent
  <2> QED
    BY <1>4, <1>5, <2>1, <2>2, <2>3
<1>6. ASSUME NEW n \in 1 .. IncidentsOf(w),
             Serve(w, [q EXCEPT !.pc = "runs", !.incident = Link(q.workspace, n)])
      PROVE  Kept(w)
  <2>1. incidents[q.anomaly][q.workspace] \in Nat
    BY <1>2 DEF Inv, TypeOK
  <2>2. Link(q.workspace, n) \in Links
    BY <1>2, <2>1 DEF Link, Links, Owners, IncidentsOf
  <2>3. IncidentExists(q.anomaly, Link(q.workspace, n))
    BY <1>2 DEF IncidentExists, Link, IncidentsOf
  <2> QED
    BY <1>4, <1>6, <2>2, <2>3
<1> QED
  BY <1>5, <1>6 DEF FindLink

LEMMA CheckRunKeeps ==
  ASSUME Inv, NEW w \in Workers, CheckRun(w)
  PROVE  Kept(w)
<1> DEFINE q == requests[w]
<1>1. q \in Requests /\ q # Idle /\ q.pc = "runs" /\ RequestConsistent(w)
  BY BusyShape DEF Inv, CheckRun, At
<1>2. UNCHANGED tables
  BY DEF CheckRun
<1>3. PICK p \in q.left :
        Serve(w, IF RunOf(w, p).recorded
                   THEN [q EXCEPT !.left = @ \ {p}]
                   ELSE [q EXCEPT !.pc = "record", !.playbook = p])
  BY DEF CheckRun
<1>4. CASE RunOf(w, p).recorded
  <2> DEFINE r == [q EXCEPT !.left = @ \ {p}]
  <2>1. r \in Requests
    BY <1>1 DEF Requests
  <2>2. Serve(w, r)
    BY <1>3, <1>4
  <2>3. requests'[w] = r
    BY <2>1, <2>2, Served DEF Inv
  <2>4. \A v \in Validations : Raises(w, v)' => Raises(w, v)
    BY <1>1, <2>3 DEF Raises, Requests
  <2>5. RequestConsistent(w)'
    BY <1>1, <1>2, <1>4, <2>3 DEF RequestConsistent, OnPath, Path,
       TodoConsistent, LoadWorkspace, BatchConsistent, AnomalyConsistent,
       RunsConsistent, AtHome, TriggerConsistent, At, Raised, tables, Requests,
       IncidentExists, RunOf
  <2> QED
    BY <1>2, <2>1, <2>2, <2>4, <2>5, ReadingKeeps
<1>5. CASE ~RunOf(w, p).recorded
  <2> DEFINE r == [q EXCEPT !.pc = "record", !.playbook = p]
  <2>1. r \in Requests
    BY <1>1 DEF Requests
  <2>2. Serve(w, r)
    BY <1>3, <1>5
  <2>3. requests'[w] = r
    BY <2>1, <2>2, Served DEF Inv
  <2>4. \A v \in Validations : Raises(w, v)' => Raises(w, v)
    BY <1>1, <2>3 DEF Raises, Requests
  <2>5. RequestConsistent(w)'
    BY <1>1, <1>2, <2>3 DEF RequestConsistent, OnPath, Path,
       TodoConsistent, LoadWorkspace, BatchConsistent, AnomalyConsistent,
       RunsConsistent, AtHome, TriggerConsistent, At, Raised, tables, Requests,
       IncidentExists
  <2> QED
    BY <1>2, <2>1, <2>2, <2>4, <2>5, ReadingKeeps
<1> QED
  BY <1>4, <1>5

LEMMA RunsDoneKeeps ==
  ASSUME Inv, NEW w \in Workers, RunsDone(w)
  PROVE  Kept(w)
<1> DEFINE q == requests[w]
<1>1. q \in Requests /\ q # Idle /\ q.pc = "runs" /\ q.left = {} /\ RequestConsistent(w)
  BY BusyShape DEF Inv, RunsDone, At
<1>2. UNCHANGED tables
  BY DEF RunsDone
<1>3. ASSUME q.kind = "listing",
             Serve(w, [q EXCEPT !.pc = "ingest", !.anomaly = NoAnomaly,
                                !.incident = NoLink, !.owner = NoWorkspace])
      PROVE  Kept(w)
  <2> DEFINE r == [q EXCEPT !.pc = "ingest", !.anomaly = NoAnomaly,
                            !.incident = NoLink, !.owner = NoWorkspace]
  <2>1. r \in Requests
    BY <1>1 DEF Requests, NoLink, Link, Links, Owners
  <2>2. requests'[w] = r
    BY <1>3, <2>1, Served DEF Inv
  <2>3. \A v \in Validations : ~Raises(w, v)'
    BY <1>1, <1>3, <2>2 DEF Raises, Requests
  <2>4. RequestConsistent(w)'
    BY <1>1, <1>2, <1>3, <2>2 DEF RequestConsistent, OnPath, Path,
       TodoConsistent, LoadWorkspace, BatchConsistent, AnomalyConsistent,
       RunsConsistent, AtHome, TriggerConsistent, At, Raised, tables, Requests
  <2> QED
    BY <1>2, <1>3, <2>1, <2>3, <2>4, ReadingKeeps
<1>4. ASSUME q.kind = "validation", Serve(w, [q EXCEPT !.pc = "resolve"])
      PROVE  Kept(w)
  <2> DEFINE r == [q EXCEPT !.pc = "resolve"]
  <2>1. r \in Requests
    BY <1>1 DEF Requests
  <2>2. requests'[w] = r
    BY <1>4, <2>1, Served DEF Inv
  <2>3. \A v \in Validations : Raises(w, v)' => Raises(w, v)
    BY <1>1, <2>2 DEF Raises, Requests
  <2>4. RequestConsistent(w)'
    BY <1>1, <1>2, <1>4, <2>2 DEF RequestConsistent, OnPath, Path,
       TodoConsistent, LoadWorkspace, BatchConsistent, AnomalyConsistent,
       RunsConsistent, AtHome, TriggerConsistent, At, Raised, tables, Requests,
       IncidentExists
  <2> QED
    BY <1>2, <1>4, <2>1, <2>3, <2>4, ReadingKeeps
<1> QED
  BY <1>2, <1>3, <1>4, FinishKeeps DEF RunsDone

-----------------------------------------------------------------------------
(* Steps that write *)

\* The upsert of an anomaly that is met in its own workspace, or in none.
LEMMA PersistKeepsTables ==
  ASSUME Inv, NEW a \in Anomalies, NEW o \in Owners, _persist_anomaly(a, o),
         a \in Validations =>
           Raised(a) /\ (o # NoWorkspace => validation_events[a].workspace = o),
         UNCHANGED <<incidents, playbook_runs, validation_events,
                     automation_history, notified>>
  PROVE  /\ anomalies' \in [Anomalies -> [stored : BOOLEAN, workspace : Owners]]
         /\ anomalies'[a].stored
         /\ Evolves /\ Tables'
<1> DEFINE owner == IF o # NoWorkspace THEN o ELSE OwnWorkspace(a)
<1>1. owner \in Owners
  BY DEF OwnWorkspace, Inv, TypeOK, Owners
<1>2. anomalies' = [anomalies EXCEPT ![a] = Row(owner)]
  BY DEF _persist_anomaly
<1>3. anomalies' \in [Anomalies -> [stored : BOOLEAN, workspace : Owners]]
  BY <1>1, <1>2 DEF Inv, TypeOK, Row
<1>4. /\ anomalies'[a] = Row(owner)
      /\ \A b \in Anomalies \ {a} : anomalies'[b] = anomalies[b]
  BY <1>2 DEF Inv, TypeOK
<1>5. a \in Validations => owner = validation_events[a].workspace
  BY DEF OwnWorkspace
<1>6. Evolves
  <2>1. \A b \in Anomalies : anomalies[b].stored => anomalies'[b].stored
    BY <1>4 DEF Row
  <2>2. \A b \in Anomalies, x \in Workspaces : incidents[b][x] \in Nat
    BY DEF Inv, TypeOK
  <2> QED
    BY <2>1, <2>2 DEF Evolves, Raised
<1>7. ValidationStaysHome'
  BY <1>4, <1>5 DEF Inv, Tables, ValidationStaysHome, Row, Raised, Anomalies
<1>8. ResolvedIsComplete'
  BY <1>4, <1>5 DEF Inv, Tables, ResolvedIsComplete, IncidentExists, Anomalies
<1>9. Tables'
  BY <1>7, <1>8 DEF Inv, Tables, NothingBeforeItsEvent, NotifiedOnce, RunsAreLinked,
     IncidentExists, Raised
<1> QED
  BY <1>3, <1>4, <1>6, <1>9 DEF Row

LEMMA PersistDetectedKeeps ==
  ASSUME Inv, NEW w \in Workers, PersistDetected(w)
  PROVE  Kept(w)
<1> DEFINE q == requests[w]
<1>1. q \in Requests /\ q # Idle /\ q.pc = "persist" /\ RequestConsistent(w)
  BY BusyShape DEF Inv, PersistDetected, At
<1>2. /\ q.kind \in {"listing", "load", "trigger"}
      /\ OnPath(w) /\ TodoConsistent(w) /\ BatchConsistent(w) /\ TriggerConsistent(w)
  BY <1>1 DEF RequestConsistent, OnPath, Path, Requests
<1>3. UNCHANGED <<incidents, playbook_runs, validation_events,
                  automation_history, notified>>
  BY DEF PersistDetected
<1>4. PICK a \in q.todo :
        /\ _persist_anomaly(a, LoadWorkspace(w))
        /\ Serve(w, [q EXCEPT !.todo = @ \ {a}])
  BY DEF PersistDetected
<1> DEFINE r == [q EXCEPT !.todo = @ \ {a}]
<1>5. a \in Anomalies /\ LoadWorkspace(w) \in Owners
  BY <1>1 DEF Requests, LoadWorkspace, Owners
<1>6. a \in Validations =>
        /\ Raised(a)
        /\ LoadWorkspace(w) # NoWorkspace =>
             validation_events[a].workspace = LoadWorkspace(w)
  BY <1>2 DEF TodoConsistent
<1>7. /\ anomalies' \in [Anomalies -> [stored : BOOLEAN, workspace : Owners]]
      /\ Evolves /\ Tables'
  BY <1>3, <1>4, <1>5, <1>6, PersistKeepsTables
<1>8. r \in Requests
  BY <1>1 DEF Requests
<1>9. /\ requests' \in [Workers -> Requests \cup {Idle}]
      /\ requests'[w] = r
      /\ \A u \in Workers \ {w} : requests'[u] = requests[u]
  BY <1>4, <1>8, Served DEF Inv
<1>10. TypeOK'
  BY <1>3, <1>7, <1>9 DEF Inv, TypeOK
<1>11. \A v \in Validations : ~Raises(w, v)'
  BY <1>1, <1>2, <1>9 DEF Raises, Requests
<1>12. OneRaises'
  BY <1>3, <1>9, <1>11, NobodyRaises
<1>13. RequestConsistent(w)'
  BY <1>1, <1>2, <1>3, <1>9 DEF RequestConsistent, OnPath, Path, TodoConsistent,
     LoadWorkspace, BatchConsistent, AnomalyConsistent, RunsConsistent, AtHome,
     TriggerConsistent, At, Raised, Requests, IncidentExists
<1> QED
  BY <1>7, <1>9, <1>10, <1>12, <1>13 DEF Kept

LEMMA IngestAnomalyKeeps ==
  ASSUME Inv, NEW w \in Workers, IngestAnomaly(w)
  PROVE  Kept(w)
<1> DEFINE q == requests[w]
<1>1. q \in Requests /\ q # Idle /\ q.pc = "ingest" /\ RequestConsistent(w)
  BY BusyShape DEF Inv, IngestAnomaly, At
<1>2. /\ q.kind \in {"listing", "creation", "validation"}
      /\ q.workspace \in Workspaces
      /\ OnPath(w) /\ TodoConsistent(w) /\ BatchConsistent(w)
  BY <1>1 DEF RequestConsistent, OnPath, Path, Requests
<1>3. UNCHANGED <<incidents, playbook_runs, validation_events,
                  automation_history, notified>>
  BY DEF IngestAnomaly
<1>4. PICK a \in q.batch :
        /\ _persist_anomaly(a, q.workspace)
        /\ Serve(w, [q EXCEPT !.pc = "find", !.batch = @ \ {a}, !.anomaly = a])
  BY DEF IngestAnomaly
<1> DEFINE r == [q EXCEPT !.pc = "find", !.batch = @ \ {a}, !.anomaly = a]
<1>5. a \in Anomalies /\ AtHome(a, q.workspace) /\ q.workspace \in Owners
  BY <1>1, <1>2 DEF Requests, BatchConsistent
<1>6. /\ anomalies' \in [Anomalies -> [stored : BOOLEAN, workspace : Owners]]
      /\ anomalies'[a].stored
      /\ Evolves /\ Tables'
  BY <1>3, <1>4, <1>5, PersistKeepsTables DEF AtHome
<1>7. r \in Requests
  BY <1>1, <1>5 DEF Requests
<1>8. /\ requests' \in [Workers -> Requests \cup {Idle}]
      /\ requests'[w] = r
      /\ \A u \in Workers \ {w} : requests'[u] = requests[u]
  BY <1>4, <1>7, Served DEF Inv
<1>9. TypeOK'
  BY <1>3, <1>6, <1>8 DEF Inv, TypeOK
<1>10. \A v \in Validations : Raises(w, v)' => Raises(w, v)
  BY <1>1, <1>4, <1>8 DEF Raises, Requests
<1>11. OneRaises'
  BY <1>3, <1>8, <1>10, NobodyRaises
<1>12. q.kind = "validation" => a \in Validations
  BY <1>2, <1>4 DEF BatchConsistent
<1>13. RequestConsistent(w)'
  BY <1>1, <1>2, <1>3, <1>5, <1>6, <1>8, <1>12 DEF RequestConsistent, OnPath, Path,
     TodoConsistent, LoadWorkspace, BatchConsistent, AnomalyConsistent,
     RunsConsistent, AtHome, TriggerConsistent, At, Raised, Requests
<1> QED
  BY <1>6, <1>8, <1>9, <1>11, <1>13 DEF Kept

LEMMA RaiseAlertKeeps ==
  ASSUME Inv, NEW w \in Workers, RaiseAlert(w)
  PROVE  Kept(w)
<1> DEFINE q == requests[w]
           r == [q EXCEPT !.pc = "ingest"]
<1>1. q \in Requests /\ q # Idle /\ q.pc = "alert" /\ RequestConsistent(w)
  BY BusyShape DEF Inv, RaiseAlert, At
<1>2. /\ q.kind = "validation" /\ q.workspace \in Workspaces
      /\ OnPath(w) /\ TodoConsistent(w) /\ BatchConsistent(w)
  BY <1>1 DEF RequestConsistent, OnPath, Path, Requests
<1>3. UNCHANGED <<incidents, playbook_runs, validation_events,
                  automation_history, notified>>
  BY DEF RaiseAlert
<1>4. PICK v \in q.batch : _persist_anomaly(v, q.workspace)
  BY DEF RaiseAlert
<1>5. v \in Anomalies /\ AtHome(v, q.workspace) /\ q.workspace \in Owners
  BY <1>1, <1>2 DEF Requests, BatchConsistent
<1>6. /\ anomalies' \in [Anomalies -> [stored : BOOLEAN, workspace : Owners]]
      /\ Evolves /\ Tables'
  BY <1>3, <1>4, <1>5, PersistKeepsTables DEF AtHome
<1>7. r \in Requests
  BY <1>1 DEF Requests
<1>8. /\ requests' \in [Workers -> Requests \cup {Idle}]
      /\ requests'[w] = r
      /\ \A u \in Workers \ {w} : requests'[u] = requests[u]
  BY <1>7, Served DEF Inv, RaiseAlert
<1>9. TypeOK'
  BY <1>3, <1>6, <1>8 DEF Inv, TypeOK
<1>10. \A x \in Validations : Raises(w, x)' => Raises(w, x)
  BY <1>1, <1>8 DEF Raises, Requests
<1>11. OneRaises'
  BY <1>3, <1>8, <1>10, NobodyRaises
<1>12. RequestConsistent(w)'
  BY <1>1, <1>2, <1>3, <1>8 DEF RequestConsistent, OnPath, Path,
     TodoConsistent, LoadWorkspace, BatchConsistent, AnomalyConsistent,
     RunsConsistent, AtHome, TriggerConsistent, At, Raised, Requests
<1> QED
  BY <1>6, <1>8, <1>9, <1>11, <1>12 DEF Kept

\* An automation rule acts: only its history grows.
LEMMA apply_automation_rulesKeeps ==
  ASSUME Inv, NEW w \in Workers, apply_automation_rules(w)
  PROVE  Kept(w)
<1> DEFINE q == requests[w]
<1>1. q \in Requests /\ q # Idle /\ q.pc = "automate" /\ RequestConsistent(w)
  BY BusyShape DEF Inv, apply_automation_rules, At
<1>2. q.kind = "listing"
  BY <1>1 DEF RequestConsistent, OnPath, Path, Requests
<1>3. UNCHANGED <<anomalies, incidents, playbook_runs, validation_events, notified>>
  BY DEF apply_automation_rules
<1>4. PICK x \in q.pending :
        /\ automation_history' = [automation_history EXCEPT ![x[1]][x[2]] = @ + 1]
        /\ Serve(w, [q EXCEPT !.pc = ToApply(q.pending \ {x}),
                              !.pending = q.pending \ {x}])
  BY DEF apply_automation_rules
<1> DEFINE pending == q.pending \ {x}
           r == [q EXCEPT !.pc = ToApply(pending), !.pending = pending]
<1>5. x \in AutomationRules \X Anomalies
  BY <1>1 DEF Requests
<1>6. automation_history' \in [AutomationRules -> [Anomalies -> Nat]]
  BY <1>4, <1>5 DEF Inv, TypeOK
<1>7. r \in Requests
  BY <1>1 DEF Requests, ToApply
<1>8. Serve(w, r)
  BY <1>4
<1>9. /\ requests' \in [Workers -> Requests \cup {Idle}]
      /\ requests'[w] = r
      /\ \A u \in Workers \ {w} : requests'[u] = requests[u]
  BY <1>7, <1>8, Served DEF Inv
<1>10. TypeOK'
  BY <1>3, <1>6, <1>9 DEF Inv, TypeOK
<1>11. Evolves
  BY <1>3 DEF Evolves, Raised, Inv, TypeOK
<1>12. Tables'
  BY <1>3 DEF Inv, Tables, NothingBeforeItsEvent, ValidationStaysHome, NotifiedOnce,
     RunsAreLinked, ResolvedIsComplete, IncidentExists, Raised
<1>13. /\ r.pc \in {"automate", "ingest"} /\ r.kind = "listing"
       /\ r.workspace = q.workspace /\ r.todo = q.todo /\ r.batch = q.batch
  BY <1>1, <1>2 DEF Requests, ToApply
<1>14. \A v \in Validations : ~Raises(w, v)'
  BY <1>9, <1>13 DEF Raises
<1>15. OneRaises'
  BY <1>3, <1>9, <1>14, NobodyRaises
<1>16. RequestConsistent(w)'
  BY <1>1, <1>2, <1>3, <1>9, <1>13 DEF RequestConsistent, OnPath, Path,
     TodoConsistent, LoadWorkspace, BatchConsistent, AnomalyConsistent,
     RunsConsistent, AtHome, TriggerConsistent, At, Raised
<1> QED
  BY <1>9, <1>10, <1>11, <1>12, <1>15, <1>16 DEF Kept

\* A further incident leaves those that exist, and is one of the anomaly's
\* home.
LEMMA InsertIncidentKeepsTables ==
  ASSUME Inv, NEW a \in Anomalies, NEW o \in Workspaces, AtHome(a, o),
         incidents' = [incidents EXCEPT ![a][o] = @ + 1],
         UNCHANGED <<anomalies, playbook_runs, validation_events,
                     automation_history, notified>>
  PROVE  /\ incidents' \in [Anomalies -> [Workspaces -> Nat]]
         /\ incidents'[a][o] = incidents[a][o] + 1
         /\ Evolves /\ Tables'
<1>1. incidents \in [Anomalies -> [Workspaces -> Nat]]
  BY DEF Inv, TypeOK
<1>2. /\ incidents' \in [Anomalies -> [Workspaces -> Nat]]
      /\ incidents'[a][o] = incidents[a][o] + 1
  BY <1>1
<1>3. \A b \in Anomalies, x \in Workspaces :
        \/ incidents'[b][x] = incidents[b][x]
        \/ b = a /\ x = o /\ incidents'[b][x] = incidents[b][x] + 1
  BY <1>1
<1>4. \A b \in Anomalies, x \in Workspaces :
        incidents[b][x] \in Nat /\ incidents'[b][x] >= incidents[b][x]
  BY <1>1, <1>3
<1>5. Evolves
  BY <1>4 DEF Evolves, Raised
<1>6. \A b \in Anomalies, k \in Links : IncidentExists(b, k) => IncidentExists(b, k)'
  BY <1>2, <1>4 DEF IncidentExists, Links
<1>7. ValidationStaysHome'
  BY <1>3 DEF Inv, Tables, ValidationStaysHome, AtHome, Raised, Anomalies
<1>8. \A b \in Anomalies, p \in Playbooks : playbook_runs[b][p].incident \in Links
  BY DEF Inv, TypeOK
<1>9. RunsAreLinked'
  BY <1>6, <1>8 DEF Inv, Tables, RunsAreLinked
<1>10. \A v \in Validations : validation_events[v].incident \in Links
  BY DEF Inv, TypeOK
<1>11. ResolvedIsComplete'
  BY <1>6, <1>10 DEF Inv, Tables, ResolvedIsComplete, Anomalies
<1>12. Tables'
  BY <1>7, <1>9, <1>11 DEF Inv, Tables, NothingBeforeItsEvent, NotifiedOnce, Raised
<1> QED
  BY <1>2, <1>5, <1>12

LEMMA InsertIncidentKeeps ==
  ASSUME Inv, NEW w \in Workers, InsertIncident(w)
  PROVE  Kept(w)
<1> DEFINE q == requests[w]
           n == incidents[q.anomaly][q.workspace] + 1
           r == WithIncident(w, n)
<1>1. q \in Requests /\ q # Idle /\ q.pc = "insert" /\ RequestConsistent(w)
  BY BusyShape DEF Inv, InsertIncident, At
<1>2. /\ q.kind \in {"listing", "creation", "validation"}
      /\ q.workspace \in Workspaces /\ q.anomaly \in Anomalies
      /\ AtHome(q.anomaly, q.workspace)
      /\ OnPath(w) /\ TodoConsistent(w) /\ BatchConsistent(w) /\ AnomalyConsistent(w)
  BY <1>1 DEF RequestConsistent, OnPath, Path, AnomalyConsistent, Requests
<1>3. /\ incidents' = [incidents EXCEPT ![q.anomaly][q.workspace] = @ + 1]
      /\ Serve(w, r)
      /\ UNCHANGED <<anomalies, playbook_runs, validation_events,
                     automation_history, notified>>
  BY DEF InsertIncident, IncidentsOf
<1>4. /\ incidents' \in [Anomalies -> [Workspaces -> Nat]]
      /\ incidents'[q.anomaly][q.workspace] = n
      /\ Evolves /\ Tables'
  BY <1>2, <1>3, InsertIncidentKeepsTables
<1>5. n \in Nat \ {0}
  BY <1>2 DEF Inv, TypeOK
<1>6. r \in Requests \cup {Idle}
  BY <1>1, <1>2, <1>5, WithIncidentTyped
<1>7. /\ requests' \in [Workers -> Requests \cup {Idle}]
      /\ requests'[w] = r
      /\ \A u \in Workers \ {w} : requests'[u] = requests[u]
  BY <1>3, <1>6, Served DEF Inv
<1>8. TypeOK'
  BY <1>3, <1>4, <1>7 DEF Inv, TypeOK
<1>9. r # Idle =>
         /\ r.pc = "runs" /\ r.kind = q.kind /\ r.kind # "creation"
         /\ r.workspace = q.workspace /\ r.todo = q.todo /\ r.batch = q.batch
         /\ r.anomaly = q.anomaly /\ r.incident = Link(q.workspace, n)
         /\ r.owner = q.workspace /\ r.left = Playbooks
  <2>1. q.kind # "creation" =>
          r = [q EXCEPT !.pc = "runs", !.incident = Link(q.workspace, n),
                        !.owner = q.workspace, !.left = Playbooks]
    BY DEF WithIncident
  <2>2. q.kind = "creation" => r = Idle
    BY DEF WithIncident
  <2> QED
    BY <1>1, <2>1, <2>2 DEF Requests
<1> HIDE DEF r
<1>10. OneRaises'
  <2>1. \A v \in Validations : Raises(w, v)' => Raises(w, v)
    BY <1>1, <1>7, <1>9 DEF Raises
  <2> QED
    BY <1>3, <1>7, <2>1, NobodyRaises
<1>11. n \in 1 .. incidents'[q.anomaly][q.workspace]
  BY <1>4, <1>5
<1> HIDE DEF n
<1>12. RequestConsistent(w)'
  BY <1>1, <1>2, <1>3, <1>7, <1>9, <1>11 DEF RequestConsistent, OnPath, Path,
     TodoConsistent, LoadWorkspace, BatchConsistent, AnomalyConsistent,
     RunsConsistent, AtHome, TriggerConsistent, At, Raised, IncidentExists, Link
<1> QED
  BY <1>4, <1>7, <1>8, <1>10, <1>12 DEF Kept

\* A row is added for a run that has none; what it says is right.
LEMMA InsertRunKeepsTables ==
  ASSUME Inv, NEW a \in Anomalies, NEW p \in Playbooks, NEW o \in Owners, NEW k \in Links,
         ~playbook_runs[a][p].recorded,
         AtHome(a, o), k.number > 0 => IncidentExists(a, k),
         playbook_runs' = [playbook_runs EXCEPT ![a][p] = Run(o, k)],
         notified' = [notified EXCEPT ![a][p] = IF p \in Automatic THEN @ + 1 ELSE @],
         UNCHANGED <<anomalies, incidents, validation_events, automation_history>>
  PROVE  /\ playbook_runs' \in
              [Anomalies -> [Playbooks -> [recorded : BOOLEAN, workspace : Owners,
                                           incident : Links]]]
         /\ notified' \in [Anomalies -> [Playbooks -> Nat]]
         /\ playbook_runs'[a][p].recorded
         /\ Evolves /\ Tables'
<1>1. /\ playbook_runs' \in
           [Anomalies -> [Playbooks -> [recorded : BOOLEAN, workspace : Owners,
                                        incident : Links]]]
      /\ notified' \in [Anomalies -> [Playbooks -> Nat]]
  BY DEF Inv, TypeOK, Run
<1>2. /\ playbook_runs'[a][p] = Run(o, k)
      /\ \A b \in Anomalies, x \in Playbooks :
           playbook_runs'[b][x] = playbook_runs[b][x] \/ (b = a /\ x = p)
  BY DEF Inv, TypeOK
<1>3. /\ notified'[a][p] = IF p \in Automatic THEN notified[a][p] + 1 ELSE notified[a][p]
      /\ \A b \in Anomalies, x \in Playbooks :
           notified'[b][x] = notified[b][x] \/ (b = a /\ x = p)
  BY DEF Inv, TypeOK
<1>4. Evolves
  <2>1. \A b \in Anomalies, x \in Workspaces : incidents[b][x] \in Nat
    BY DEF Inv, TypeOK
  <2> QED
    BY <1>2, <2>1 DEF Evolves, Raised, Run
<1>5. NotifiedOnce'
  <2>1. notified[a][p] = 0
    BY DEF Inv, Tables, NotifiedOnce
  <2>2. SUFFICES ASSUME NEW b \in Anomalies, NEW x \in Playbooks
                 PROVE  notified'[b][x] =
                          IF playbook_runs'[b][x].recorded /\ x \in Automatic THEN 1 ELSE 0
    BY DEF NotifiedOnce
  <2>3. CASE b = a /\ x = p
    BY <1>2, <1>3, <2>1, <2>3 DEF Run
  <2>4. CASE ~(b = a /\ x = p)
    BY <1>2, <1>3, <2>4 DEF Inv, Tables, NotifiedOnce
  <2> QED
    BY <2>3, <2>4
<1>6. ValidationStaysHome'
  BY <1>2 DEF Inv, Tables, ValidationStaysHome, AtHome, Raised, Run, Anomalies
<1>7. RunsAreLinked'
  BY <1>2 DEF Inv, Tables, RunsAreLinked, Run, IncidentExists
<1>8. ResolvedIsComplete'
  BY <1>2 DEF Inv, Tables, ResolvedIsComplete, Run, IncidentExists, Anomalies
<1>9. Tables'
  BY <1>5, <1>6, <1>7, <1>8 DEF Inv, Tables, NothingBeforeItsEvent, Raised
<1> QED
  BY <1>1, <1>2, <1>4, <1>9 DEF Run

LEMMA RecordRunKeeps ==
  ASSUME Inv, NEW w \in Workers, RecordRun(w)
  PROVE  Kept(w)
<1> DEFINE q == requests[w]
           a == q.anomaly
           p == q.playbook
           r == [q EXCEPT !.pc = "runs", !.left = @ \ {p}, !.playbook = NoPlaybook]
<1>1. q \in Requests /\ q # Idle /\ q.pc = "record" /\ RequestConsistent(w)
  BY BusyShape DEF Inv, RecordRun, At
<1>2. /\ q.kind \in {"listing", "trigger", "validation"} /\ p \in q.left
      /\ OnPath(w) /\ TodoConsistent(w) /\ BatchConsistent(w)
      /\ AnomalyConsistent(w) /\ RunsConsistent(w) /\ TriggerConsistent(w)
  BY <1>1 DEF RequestConsistent, OnPath, Path, Requests, At
<1>3. a \in Anomalies /\ p \in Playbooks /\ q.owner \in Owners /\ q.incident \in Links
  BY <1>1, <1>2 DEF Requests, AnomalyConsistent, TriggerConsistent
<1>4. AtHome(a, q.owner)
  BY <1>1, <1>2 DEF AnomalyConsistent, RunsConsistent, TriggerConsistent, At
<1>5. q.incident.number > 0 => IncidentExists(a, q.incident)
  BY <1>1, <1>2 DEF RunsConsistent, TriggerConsistent, NoLink, Link
<1>6. /\ ~playbook_runs[a][p].recorded
      /\ playbook_runs' = [playbook_runs EXCEPT ![a][p] = Run(q.owner, q.incident)]
      /\ notified' = [notified EXCEPT ![a][p] = IF p \in Automatic THEN @ + 1 ELSE @]
      /\ Serve(w, r)
      /\ UNCHANGED <<anomalies, incidents, validation_events, automation_history>>
  BY DEF RecordRun, InsertRun, RunOf, NewRun
<1>7. /\ playbook_runs' \in
           [Anomalies -> [Playbooks -> [recorded : BOOLEAN, workspace : Owners,
                                        incident : Links]]]
      /\ notified' \in [Anomalies -> [Playbooks -> Nat]]
      /\ playbook_runs'[a][p].recorded
      /\ Evolves /\ Tables'
  BY <1>3, <1>4, <1>5, <1>6, InsertRunKeepsTables
<1>8. r \in Requests
  BY <1>1 DEF Requests
<1>9. /\ requests' \in [Workers -> Requests \cup {Idle}]
      /\ requests'[w] = r
      /\ \A u \in Workers \ {w} : requests'[u] = requests[u]
  BY <1>6, <1>8, Served DEF Inv
<1>10. TypeOK'
  BY <1>6, <1>7, <1>9 DEF Inv, TypeOK
<1>11. /\ r.pc = "runs" /\ r.kind = q.kind /\ r.workspace = q.workspace
       /\ r.todo = q.todo /\ r.batch = q.batch /\ r.anomaly = a
       /\ r.incident = q.incident /\ r.owner = q.owner /\ r.left = q.left \ {p}
  BY <1>1 DEF Requests
<1> HIDE DEF r
<1>12. OneRaises'
  <2>1. \A v \in Validations : Raises(w, v)' => Raises(w, v)
    BY <1>1, <1>9, <1>11 DEF Raises
  <2> QED
    BY <1>6, <1>9, <2>1, NobodyRaises
<1>13. RequestConsistent(w)'
  <2>1. RunsConsistent(w)'
    <3>1. q.kind # "trigger" =>
            \A x \in Playbooks \ r.left : playbook_runs'[a][x].recorded
      BY <1>1, <1>2, <1>3, <1>7, <1>11 DEF RunsConsistent, Evolves
    <3> QED
      BY <1>1, <1>2, <1>6, <1>9, <1>11, <3>1 DEF RunsConsistent, At, IncidentExists
  <2>2. OnPath(w)' /\ TodoConsistent(w)' /\ BatchConsistent(w)'
    BY <1>1, <1>2, <1>6, <1>9, <1>11 DEF OnPath, Path, TodoConsistent, LoadWorkspace,
       BatchConsistent, AtHome, At, Raised
  <2>3. AnomalyConsistent(w)' /\ TriggerConsistent(w)'
    BY <1>1, <1>2, <1>6, <1>9, <1>11 DEF AnomalyConsistent, TriggerConsistent, AtHome,
       At, Raised, IncidentExists
  <2> QED
    BY <2>1, <2>2, <2>3 DEF RequestConsistent
<1> QED
  BY <1>7, <1>9, <1>10, <1>12, <1>13 DEF Kept

\* An event that begins finds nothing of its anomaly.
LEMMA BeginValidationKeeps ==
  ASSUME Inv, NEW w \in Workers, NEW o \in Workspaces, NEW v \in Validations,
         BeginValidation(w, o, v)
  PROVE  Kept(w)
<1> DEFINE r == [Request("alert", "validation", o) EXCEPT !.batch = {v}]
<1>1. /\ ~Raised(v)
      /\ validation_events' = [validation_events EXCEPT ![v] = Event("open", o, NoLink)]
      /\ Serve(w, r)
      /\ UNCHANGED <<anomalies, incidents, playbook_runs, automation_history, notified>>
  BY DEF BeginValidation
<1>2. NoLink \in Links /\ o \in Owners /\ o # NoWorkspace /\ v \in Anomalies
  BY NoWorkspaceIsNone DEF NoLink, Link, Links, Owners, Anomalies
<1>3. /\ validation_events' \in
           [Validations -> [status : {"none", "open", "resolved"},
                            workspace : Owners, incident : Links]]
      /\ validation_events'[v] = Event("open", o, NoLink)
      /\ \A x \in Validations \ {v} : validation_events'[x] = validation_events[x]
  BY <1>1, <1>2 DEF Inv, TypeOK, Event
<1>4. r \in Requests
  BY <1>2 DEF Request, Requests, Owners
<1>5. /\ requests' \in [Workers -> Requests \cup {Idle}]
      /\ requests'[w] = r
      /\ \A u \in Workers \ {w} : requests'[u] = requests[u]
  BY <1>1, <1>4, Served DEF Inv
<1>6. TypeOK'
  BY <1>1, <1>3, <1>5 DEF Inv, TypeOK
<1>7. Evolves
  <2>1. \A b \in Anomalies, x \in Workspaces : incidents[b][x] \in Nat
    BY DEF Inv, TypeOK
  <2> QED
    BY <1>1, <1>3, <2>1 DEF Evolves, Raised
<1>8. /\ r.pc = "alert" /\ r.kind = "validation" /\ r.workspace = o
      /\ r.todo = {} /\ r.batch = {v} /\ r.anomaly = NoAnomaly
  BY DEF Request
<1> HIDE DEF r
<1>9. Tables'
  <2>1. validation_events[v] = NoEvent
    BY <1>1 DEF Inv, Tables, NothingBeforeItsEvent
  <2>2. /\ ~anomalies[v].stored
        /\ \A x \in Workspaces : incidents[v][x] = 0
        /\ \A p \in Playbooks : ~playbook_runs[v][p].recorded
    BY <1>1, <2>1, NoWorkspaceIsNone DEF Inv, Tables, ValidationStaysHome, NoEvent, Event
  <2>3. ValidationStaysHome'
    BY <1>1, <1>3, <2>2 DEF Inv, Tables, ValidationStaysHome, Raised
  <2>4. ResolvedIsComplete'
    BY <1>1, <1>3 DEF Inv, Tables, ResolvedIsComplete, IncidentExists, Event
  <2>5. NothingBeforeItsEvent'
    BY <1>3 DEF Inv, Tables, NothingBeforeItsEvent, Raised, Event
  <2> QED
    BY <1>1, <2>3, <2>4, <2>5 DEF Inv, Tables, NotifiedOnce, RunsAreLinked, IncidentExists
<1>10. OneRaises'
  <2>1. \A u \in Workers : ~Raises(u, v)
    BY <1>1 DEF Inv, OneRaises, Raised
  <2>2. v # NoAnomaly
    BY <1>2, NoAnomalyIsNone
  <2>3. \A x \in Validations : Raises(w, x)' => x = v
    BY <1>2, <1>5, <1>8, NoAnomalyIsNone DEF Raises, Anomalies
  <2>4. \A u \in Workers \ {w}, x \in Validations : Raises(u, x)' => Raises(u, x)
    BY <1>5 DEF Raises
  <2>5. \A u \in Workers, x \in Validations :
          Raises(u, x)' => IF x = v THEN u = w ELSE Raises(u, x)
    BY <2>1, <2>3, <2>4
  <2> QED
    BY <1>3, <2>5 DEF Inv, OneRaises, Event
<1>11. RequestConsistent(w)'
  BY <1>3, <1>5, <1>8 DEF RequestConsistent, OnPath, Path, TodoConsistent,
     BatchConsistent, AnomalyConsistent, RunsConsistent, TriggerConsistent,
     AtHome, At, Raised, Event
<1> QED
  BY <1>5, <1>6, <1>7, <1>9, <1>10, <1>11 DEF Kept

\* An event is resolved by the one request that raised it, which has stored
\* the anomaly, has the incident and has seen every run.
LEMMA ResolveEventKeeps ==
  ASSUME Inv, NEW w \in Workers, ResolveEvent(w)
  PROVE  /\ Kept(w)
         /\ requests[w].anomaly \in Validations
         /\ validation_events[requests[w].anomaly].status = "open"
<1> DEFINE q == requests[w]
           v == q.anomaly
<1>1. q \in Requests /\ q # Idle /\ q.pc = "resolve" /\ RequestConsistent(w)
  BY BusyShape DEF Inv, ResolveEvent, At
<1>2. /\ q.kind = "validation" /\ q.workspace \in Workspaces
      /\ AnomalyConsistent(w) /\ RunsConsistent(w)
  BY <1>1 DEF RequestConsistent, OnPath, Path, Requests
<1>3. /\ v \in Validations /\ v \in Anomalies
      /\ Raised(v) /\ validation_events[v].workspace = q.workspace
      /\ anomalies[v].stored
  BY <1>1, <1>2 DEF AnomalyConsistent, AtHome, Anomalies
<1>4. /\ q.incident.workspace = q.workspace
      /\ IncidentExists(v, q.incident)
      /\ \A p \in Playbooks : playbook_runs[v][p].recorded
  BY <1>1, <1>2 DEF RunsConsistent, At
<1>5. validation_events[v].status = "open"
  BY <1>1, <1>2, <1>3 DEF Inv, OneRaises, Raises
<1> DEFINE event == Event("resolved", q.workspace, q.incident)
<1>6. /\ validation_events' = [validation_events EXCEPT ![v] = event]
      /\ Serve(w, Idle)
      /\ UNCHANGED <<anomalies, incidents, playbook_runs, automation_history, notified>>
  BY <1>3 DEF ResolveEvent, Finish, Inv, TypeOK
<1>7. /\ validation_events' \in
           [Validations -> [status : {"none", "open", "resolved"},
                            workspace : Owners, incident : Links]]
      /\ validation_events'[v] = event
      /\ \A x \in Validations \ {v} : validation_events'[x] = validation_events[x]
  BY <1>1, <1>3, <1>6 DEF Inv, TypeOK, Event, Requests
<1>8. /\ requests' \in [Workers -> Requests \cup {Idle}]
      /\ requests'[w] = Idle
      /\ \A u \in Workers \ {w} : requests'[u] = requests[u]
  BY <1>6, Served DEF Inv
<1>9. TypeOK'
  BY <1>6, <1>7, <1>8 DEF Inv, TypeOK
<1>10. event.status = "resolved" /\ event.workspace = q.workspace
       /\ event.incident = q.incident
  BY DEF Event
<1>11. Evolves
  <2>1. \A b \in Anomalies, x \in Workspaces : incidents[b][x] \in Nat
    BY DEF Inv, TypeOK
  <2> QED
    BY <1>3, <1>6, <1>7, <1>10, <2>1 DEF Evolves, Raised
<1> HIDE DEF event
<1>12. Tables'
  <2>1. anomalies[v] \in [stored : BOOLEAN, workspace : Owners]
    BY <1>3 DEF Inv, TypeOK
  <2>2. anomalies[v].workspace = q.workspace
    BY <1>3 DEF Inv, Tables, ValidationStaysHome
  <2>3. anomalies[v] = Row(q.workspace)
    BY <1>3, <2>1, <2>2 DEF Row
  <2>4. ResolvedIsComplete'
    BY <1>4, <1>6, <1>7, <1>10, <2>3 DEF Inv, Tables, ResolvedIsComplete, IncidentExists, Row
  <2>5. ValidationStaysHome'
    BY <1>3, <1>6, <1>7, <1>10 DEF Inv, Tables, ValidationStaysHome, Raised
  <2>6. NothingBeforeItsEvent'
    BY <1>7, <1>10 DEF Inv, Tables, NothingBeforeItsEvent, Raised
  <2> QED
    BY <1>6, <2>4, <2>5, <2>6 DEF Inv, Tables, NotifiedOnce, RunsAreLinked, IncidentExists
<1>13. OneRaises'
  <2>1. \A u \in Workers, x \in Validations : Raises(u, x)' => u # w /\ Raises(u, x)
    BY <1>8 DEF Raises
  <2>2. Raises(w, v)
    BY <1>1, <1>2, <1>3 DEF Raises
  <2>3. \A u \in Workers, x \in Validations : Raises(u, x)' => x # v
    BY <1>3, <2>1, <2>2 DEF Inv, OneRaises
  <2> QED
    BY <1>7, <2>1, <2>3 DEF Inv, OneRaises
<1>14. RequestConsistent(w)'
  BY <1>8 DEF RequestConsistent
<1> QED
  BY <1>3, <1>5, <1>8, <1>9, <1>11, <1>12, <1>13, <1>14 DEF Kept

-----------------------------------------------------------------------------
(* The invariant *)

LEMMA BeginKeeps ==
  ASSUME Inv, NEW w \in Workers, Begin(w)
  PROVE  Kept(w)
<1>1. ASSUME NEW o \in Workspaces, BeginListing(w, o)
      PROVE  Kept(w)
  BY <1>1, BeginListingKeeps
<1>2. ASSUME NEW o \in Workspaces, NEW v \in Validations, BeginValidation(w, o, v)
      PROVE  Kept(w)
  BY <1>2, BeginValidationKeeps
<1>3. ASSUME NEW o \in Workspaces, NEW a \in Anomalies, BeginCreation(w, o, a)
      PROVE  Kept(w)
  BY <1>3, BeginCreationKeeps
<1>4. ASSUME NEW o \in Workspaces, NEW a \in Anomalies, NEW p \in Playbooks,
             BeginTrigger(w, o, a, p)
      PROVE  Kept(w)
  BY <1>4, BeginTriggerKeeps
<1>5. ASSUME NEW o \in Workspaces \cup {NoWorkspace}, BeginLoad(w, o)
      PROVE  Kept(w)
  BY <1>5, BeginLoadKeeps DEF Owners
<1> QED
  BY <1>1, <1>2, <1>3, <1>4, <1>5 DEF Begin

LEMMA ProceedKeeps ==
  ASSUME Inv, NEW w \in Workers, Proceed(w)
  PROVE  Kept(w)
<1>1. CASE SelectForLoad(w) \/ EndListing(w) \/ RecordRunConflict(w)
  BY <1>1, FinishKeeps DEF SelectForLoad, EndListing, RecordRunConflict
<1>2. CASE SelectForListing(w) \/ SelectForTrigger(w) \/ ReadHistory(w)
  BY <1>2, SelectForListingKeeps, SelectForTriggerKeeps, ReadHistoryKeeps
<1>3. CASE FindIncident(w) \/ FindLink(w) \/ CheckRun(w) \/ RunsDone(w)
  BY <1>3, FindIncidentKeeps, FindLinkKeeps, CheckRunKeeps, RunsDoneKeeps
<1>4. CASE PersistDetected(w) \/ IngestAnomaly(w) \/ RaiseAlert(w)
  BY <1>4, PersistDetectedKeeps, IngestAnomalyKeeps, RaiseAlertKeeps
<1>5. CASE apply_automation_rules(w) \/ InsertIncident(w) \/ RecordRun(w)
  BY <1>5, apply_automation_rulesKeeps, InsertIncidentKeeps, RecordRunKeeps
<1>6. CASE ResolveEvent(w)
  BY <1>6, ResolveEventKeeps
<1> QED
  BY <1>1, <1>2, <1>3, <1>4, <1>5, <1>6 DEF Proceed

LEMMA StepKeepsInv == Inv /\ [Next]_vars => Inv'
<1> SUFFICES ASSUME Inv, [Next]_vars
             PROVE  Inv'
  OBVIOUS
<1>1. ASSUME NEW w \in Workers, Begin(w) \/ Proceed(w)
      PROVE  Inv'
  BY <1>1, BeginKeeps, ProceedKeeps, KeptSuffices
<1>2. ASSUME NEW w \in Workers, StorageErrorAborts(w)
      PROVE  Inv'
  BY <1>2, FinishKeeps, KeptSuffices DEF StorageErrorAborts
<1>3. CASE UNCHANGED vars
  BY <1>3 DEF Inv, vars, tables, TypeOK, Tables, NothingBeforeItsEvent,
     ValidationStaysHome, NotifiedOnce, RunsAreLinked, ResolvedIsComplete,
     IncidentExists, Raised, OneRaises, Raises, RequestConsistent, OnPath,
     TodoConsistent, LoadWorkspace, BatchConsistent, AnomalyConsistent,
     RunsConsistent, TriggerConsistent, AtHome, At
<1> QED
  BY <1>1, <1>2, <1>3 DEF Next, CalmNext

LEMMA InvHolds == Spec => []Inv
<1>1. Init => Inv
  BY InitInv
<1>2. Inv /\ [Next]_vars => Inv'
  BY StepKeepsInv
<1> QED
  BY <1>1, <1>2, PTL DEF Spec

-----------------------------------------------------------------------------
(* Theorems *)

\* The tables and the requests have their types, in every state.
THEOREM TypeCorrect == Spec => []TypeOK
<1>1. Inv => TypeOK
  BY DEF Inv
<1> QED
  BY <1>1, InvHolds, PTL

\* _record_playbook_run notifies exactly for the automatic playbooks' runs
\* that it has inserted, once each, whichever requests meet at the index.
THEOREM RunsAreNotifiedOnce == Spec => []NotifiedOnce
<1>1. Inv => NotifiedOnce
  BY DEF Inv, Tables
<1> QED
  BY <1>1, InvHolds, PTL

\* An event that create_validation_event has marked as resolved has its
\* anomaly's row, its incident and the runs of all playbooks.
THEOREM ResolvedEventsAreComplete == Spec => []ResolvedIsComplete
<1>1. Inv => ResolvedIsComplete
  BY DEF Inv, Tables
<1> QED
  BY <1>1, InvHolds, PTL

\* The anomaly, the incidents and the runs of a validation event are those of
\* its workspace, whoever loads, lists or triggers in which workspace.
THEOREM EventsStayHome == Spec => []ValidationStaysHome
<1>1. Inv => ValidationStaysHome
  BY DEF Inv, Tables
<1> QED
  BY <1>1, InvHolds, PTL

\* The incident that a playbook run names is there, and about its anomaly.
THEOREM RunsNameTheirIncident == Spec => []RunsAreLinked
<1>1. Inv => RunsAreLinked
  BY DEF Inv, Tables
<1> QED
  BY <1>1, InvHolds, PTL

\* Every step of a worker keeps what is recorded.
LEMMA RecordedStays ==
  ASSUME Inv, [Next]_vars, NEW a \in Anomalies
  PROVE  /\ \A p \in Playbooks :
              playbook_runs[a][p].recorded =>
                playbook_runs'[a][p] = playbook_runs[a][p]
         /\ \A o \in Workspaces : incidents'[a][o] >= incidents[a][o]
         /\ a \in Validations /\ validation_events[a].status = "resolved" =>
              validation_events'[a] = validation_events[a]
<1> DEFINE Stay ==
      /\ \A p \in Playbooks :
           playbook_runs[a][p].recorded => playbook_runs'[a][p] = playbook_runs[a][p]
      /\ a \in Validations /\ validation_events[a].status = "resolved" =>
           validation_events'[a] = validation_events[a]
<1>1. ASSUME NEW w \in Workers, Begin(w) \/ Proceed(w)
      PROVE  Evolves
  BY <1>1, BeginKeeps, ProceedKeeps DEF Kept
<1>2. ASSUME NEW w \in Workers, StorageErrorAborts(w)
      PROVE  Evolves
  BY <1>2, FinishKeeps DEF StorageErrorAborts, Kept
<1>3. \A o \in Workspaces : incidents'[a][o] >= incidents[a][o]
  <2>1. CASE UNCHANGED vars
    BY <2>1 DEF vars, tables, Inv, TypeOK
  <2> QED
    BY <1>1, <1>2, <2>1 DEF Next, CalmNext, Evolves
<1>4. ASSUME NEW w \in Workers, NEW o \in Workspaces, NEW v \in Validations,
             BeginValidation(w, o, v)
      PROVE  Stay
  <2>1. ~Raised(v) /\ UNCHANGED playbook_runs
    BY <1>4 DEF BeginValidation
  <2>2. \A x \in Validations \ {v} : validation_events'[x] = validation_events[x]
    BY <1>4 DEF BeginValidation, Inv, TypeOK
  <2> QED
    BY <2>1, <2>2 DEF Raised
<1>5. ASSUME NEW w \in Workers, ResolveEvent(w)
      PROVE  Stay
  <2>1. /\ requests[w].anomaly \in Validations
        /\ validation_events[requests[w].anomaly].status = "open"
    BY <1>5, ResolveEventKeeps
  <2>2. \A x \in Validations \ {requests[w].anomaly} :
          validation_events'[x] = validation_events[x]
    BY <1>5 DEF ResolveEvent, Inv, TypeOK
  <2> QED
    BY <1>5, <2>1, <2>2 DEF ResolveEvent
<1>6. ASSUME NEW w \in Workers, RecordRun(w)
      PROVE  Stay
  <2>1. \A b \in Anomalies, p \in Playbooks :
          \/ playbook_runs'[b][p] = playbook_runs[b][p]
          \/ b = requests[w].anomaly /\ p = requests[w].playbook
    BY <1>6 DEF RecordRun, InsertRun, Inv, TypeOK
  <2> QED
    BY <1>6, <2>1 DEF RecordRun, InsertRun, RunOf
<1>7. ASSUME UNCHANGED <<playbook_runs, validation_events>>
      PROVE  Stay
  BY <1>7
<1>8. ASSUME NEW w \in Workers, Begin(w)
      PROVE  Stay
  BY <1>4, <1>7, <1>8 DEF Begin, BeginListing, BeginLoad, BeginTrigger,
     BeginCreation, tables
<1>9. ASSUME NEW w \in Workers, Proceed(w)
      PROVE  Stay
  BY <1>5, <1>6, <1>7, <1>9 DEF Proceed, PersistDetected, SelectForListing,
     SelectForLoad, SelectForTrigger, ReadHistory, apply_automation_rules,
     IngestAnomaly, EndListing, FindIncident, InsertIncident, FindLink, CheckRun,
     RecordRunConflict, RunsDone, RaiseAlert, tables
<1>10. Stay
  BY <1>7, <1>8, <1>9 DEF Next, CalmNext, StorageErrorAborts, vars, tables
<1> QED
  BY <1>3, <1>10

\* No statement of any handler replaces a run that is recorded, takes an
\* incident away, or touches an event that is resolved.
THEOREM RecordsAreKept == Spec => RecordsStay
<1> DEFINE A == \A a \in Anomalies :
       /\ \A p \in Playbooks :
            playbook_runs[a][p].recorded =>
              playbook_runs'[a][p] = playbook_runs[a][p]
       /\ \A o \in Workspaces : incidents'[a][o] >= incidents[a][o]
       /\ a \in Validations /\ validation_events[a].status = "resolved" =>
            validation_events'[a] = validation_events[a]
<1>1. Inv /\ [Next]_vars => [A]_vars
  BY RecordedStays
<1> QED
  BY <1>1, InvHolds, PTL DEF Spec, RecordsStay

-----------------------------------------------------------------------------
(* The contract *)

LEMMA ContractInit == Init => Contract!Init
BY DEF Init, Contract!Init, NoRun, NoEvent, Event, NoLink, Link, Contract!Run,
   Contract!Event, Contract!NoLink, Contract!Link

LEMMA ContractStutter ==
  ASSUME UNCHANGED <<incidents, playbook_runs, validation_events, notified>>
  PROVE  UNCHANGED Contract!contract
BY DEF Contract!contract

\* The incidents that the contract knows are those that exist.
LEMMA ContractLinks ==
  ASSUME NEW a \in Anomalies, NEW link \in Links, IncidentExists(a, link)
  PROVE  link \in Contract!IncidentsOf(a)
<1>1. link = Contract!Link(link.workspace, link.number)
  BY DEF Contract!Link, Links
<1> QED
  BY <1>1 DEF Contract!IncidentsOf, IncidentExists

\* At home is what the contract calls a concern of the workspace.
LEMMA ContractConcerns ==
  ASSUME NEW a \in Anomalies, NEW o \in Owners, AtHome(a, o)
  PROVE  Contract!Concerns(a, o)
BY DEF AtHome, Raised, Contract!Concerns

LEMMA ContractRaise ==
  ASSUME Inv, NEW w \in Workers, NEW o \in Workspaces, NEW v \in Validations,
         BeginValidation(w, o, v)
  PROVE  Contract!Next
<1>1. /\ ~Raised(v)
      /\ validation_events' = [validation_events EXCEPT ![v] = Event("open", o, NoLink)]
      /\ UNCHANGED <<incidents, playbook_runs, notified>>
  BY DEF BeginValidation
<1>2. validation_events[v] = NoEvent
  BY <1>1 DEF Inv, Tables, NothingBeforeItsEvent
<1>3. /\ \A x \in Workspaces : incidents[v][x] = 0
      /\ \A p \in Playbooks : ~playbook_runs[v][p].recorded
  BY <1>1, <1>2, NoWorkspaceIsNone DEF Inv, Tables, ValidationStaysHome, NoEvent, Event
<1>4. Contract!Raise(v, o)
  BY <1>1, <1>2, <1>3 DEF Contract!Raise, NoEvent, Event, NoLink, Link,
     Contract!Event, Contract!NoLink, Contract!Link
<1> QED
  BY <1>4 DEF Contract!Next

\* An incident is only inserted for an anomaly that is at home in the workspace.
LEMMA ContractOpenIncident ==
  ASSUME Inv, NEW w \in Workers, InsertIncident(w)
  PROVE  Contract!Next
<1> DEFINE q == requests[w]
<1>1. q \in Requests /\ q # Idle /\ q.pc = "insert" /\ RequestConsistent(w)
  BY BusyShape DEF Inv, InsertIncident, At
<1>2. /\ q.workspace \in Workspaces /\ q.anomaly \in Anomalies
      /\ AtHome(q.anomaly, q.workspace)
  BY <1>1 DEF RequestConsistent, OnPath, Path, AnomalyConsistent, Requests
<1>3. Contract!Concerns(q.anomaly, q.workspace)
  BY <1>2, ContractConcerns DEF Owners
<1>4. Contract!OpenIncident(q.anomaly, q.workspace)
  BY <1>3 DEF Contract!OpenIncident, InsertIncident
<1> QED
  BY <1>2, <1>4 DEF Contract!Next

\* A run is recorded where the index finds none, for an incident that is still
\* there, and notified in the same commit.
LEMMA ContractRecordRun ==
  ASSUME Inv, NEW w \in Workers, RecordRun(w)
  PROVE  Contract!Next
<1> DEFINE q == requests[w]
           a == q.anomaly
           p == q.playbook
<1>1. q \in Requests /\ q # Idle /\ q.pc = "record" /\ RequestConsistent(w)
  BY BusyShape DEF Inv, RecordRun, At
<1>2. /\ p \in q.left /\ AnomalyConsistent(w) /\ RunsConsistent(w) /\ TriggerConsistent(w)
  BY <1>1 DEF RequestConsistent, OnPath, At
<1>3. a \in Anomalies /\ p \in Playbooks /\ q.owner \in Owners /\ q.incident \in Links
  BY <1>1, <1>2 DEF Requests, AnomalyConsistent, TriggerConsistent
<1>4. AtHome(a, q.owner)
  BY <1>1, <1>2 DEF AnomalyConsistent, RunsConsistent, TriggerConsistent, At
<1>5. q.incident = NoLink \/ IncidentExists(a, q.incident)
  BY <1>1, <1>2 DEF RunsConsistent, TriggerConsistent
<1>6. q.incident \in Contract!IncidentsOf(a) \cup {Contract!NoLink}
  BY <1>3, <1>5, ContractLinks DEF NoLink, Link, Contract!NoLink, Contract!Link
<1>7. Contract!Concerns(a, q.owner)
  BY <1>3, <1>4, ContractConcerns
<1>8. /\ ~playbook_runs[a][p].recorded
      /\ playbook_runs' = [playbook_runs EXCEPT ![a][p] = Run(q.owner, q.incident)]
      /\ notified' = [notified EXCEPT ![a][p] = IF p \in Automatic THEN @ + 1 ELSE @]
      /\ UNCHANGED <<incidents, validation_events>>
  BY DEF RecordRun, InsertRun, RunOf, NewRun
<1>9. notified[a][p] = 0
  BY <1>3, <1>8 DEF Inv, Tables, NotifiedOnce
<1>10. notified' = [notified EXCEPT ![a][p] = IF p \in Automatic THEN 1 ELSE 0]
  <2>1. notified \in [Anomalies -> [Playbooks -> Nat]]
    BY DEF Inv, TypeOK
  <2> QED
    BY <1>3, <1>8, <1>9, <2>1
<1>11. Contract!RecordRun(a, p, q.owner, q.incident)
  BY <1>7, <1>8, <1>10 DEF Contract!RecordRun, Run, Contract!Run
<1> QED
  BY <1>3, <1>6, <1>11 DEF Contract!Next, Owners

\* The request that resolves an event has its incident and has seen all runs.
LEMMA ContractResolve ==
  ASSUME Inv, NEW w \in Workers, ResolveEvent(w)
  PROVE  Contract!Next
<1> DEFINE q == requests[w]
           v == q.anomaly
<1>1. q \in Requests /\ q # Idle /\ q.pc = "resolve" /\ RequestConsistent(w)
  BY BusyShape DEF Inv, ResolveEvent, At
<1>2. q.kind = "validation" /\ AnomalyConsistent(w) /\ RunsConsistent(w)
  BY <1>1 DEF RequestConsistent, OnPath, Path, Requests
<1>3. v \in Validations /\ v \in Anomalies /\ validation_events[v].status = "open"
  BY ResolveEventKeeps DEF Anomalies
<1>4. /\ q.incident \in Links
      /\ q.incident.workspace = validation_events[v].workspace
      /\ IncidentExists(v, q.incident)
      /\ \A p \in Playbooks : playbook_runs[v][p].recorded
  BY <1>1, <1>2, <1>3 DEF AnomalyConsistent, AtHome, RunsConsistent, At, Requests
<1>5. Contract!Resolve(v, q.incident)
  BY <1>3, <1>4 DEF Contract!Resolve, ResolveEvent, Event, Contract!Event
<1> QED
  BY <1>3, <1>4, <1>5, ContractLinks DEF Contract!Next

LEMMA ContractStep ==
  ASSUME Inv, [Next]_vars
  PROVE  Contract!Next \/ UNCHANGED Contract!contract
<1>1. ASSUME UNCHANGED <<incidents, playbook_runs, validation_events, notified>>
      PROVE  UNCHANGED Contract!contract
  BY <1>1, ContractStutter
<1>2. ASSUME NEW w \in Workers, Begin(w)
      PROVE  Contract!Next \/ UNCHANGED Contract!contract
  BY <1>1, <1>2, ContractRaise DEF Begin, BeginListing, BeginLoad, BeginTrigger,
     BeginCreation, tables
<1>3. ASSUME NEW w \in Workers, Proceed(w)
      PROVE  Contract!Next \/ UNCHANGED Contract!contract
  BY <1>1, <1>3, ContractOpenIncident, ContractRecordRun, ContractResolve
     DEF Proceed, PersistDetected, SelectForListing, SelectForLoad,
     SelectForTrigger, ReadHistory, apply_automation_rules, IngestAnomaly,
     EndListing, FindIncident, FindLink, CheckRun, RecordRunConflict, RunsDone,
     RaiseAlert, tables
<1> QED
  BY <1>1, <1>2, <1>3 DEF Next, CalmNext, StorageErrorAborts, vars, tables

\* Each commit of the handlers is one step of the contract or none: whatever
\* requests interleave and wherever they end, runs are recorded and notified
\* together and once, about incidents that exist, a validation event's rows stay
\* in its workspace, and it is resolved once, when they are all there.
THEOREM KeepsContract == Spec => ImplementsContract
<1>1. Init => Contract!Init
  BY ContractInit
<1>2. Inv /\ [Next]_vars => [Contract!Next]_(Contract!contract)
  BY ContractStep
<1> QED
  BY <1>1, <1>2, InvHolds, PTL DEF Spec, ImplementsContract, Contract!Spec

-----------------------------------------------------------------------------
(* How often the unguarded inserts repeat *)

\* The workers that have found no incident of a in o, and those that have
\* found no row of rule r about a.
Inserting(a, o) ==
  {w \in Workers : /\ At(w, "insert")
                   /\ requests[w].anomaly = a /\ requests[w].workspace = o}
Applying(r, a) ==
  {w \in Workers : At(w, "automate") /\ <<r, a>> \in requests[w].pending}

\* Who is about to insert and what is inserted are no more than the workers:
\* once something is inserted, nobody joins.
Counted ==
  \A a \in Anomalies :
    /\ \A o \in Workspaces :
         incidents[a][o] + Cardinality(Inserting(a, o)) <= Cardinality(Workers)
    /\ \A r \in AutomationRules :
         automation_history[r][a] + Cardinality(Applying(r, a))
           <= Cardinality(Workers)

LEMMA CrowdSize ==
  ASSUME NEW S \in SUBSET Workers, NEW T \in SUBSET S
  PROVE  /\ Cardinality(S) \in Nat /\ Cardinality(T) \in Nat
         /\ Cardinality(T) <= Cardinality(S)
         /\ Cardinality(S) <= Cardinality(Workers) /\ Cardinality(Workers) \in Nat
BY FiniteWorkers, FS_Subset, FS_CardinalityType

LEMMA CrowdLeft ==
  ASSUME NEW S \in SUBSET Workers, NEW w \in S, NEW T \in SUBSET (S \ {w})
  PROVE  Cardinality(T) + 1 <= Cardinality(S)
<1>1. IsFiniteSet(S)
  BY FiniteWorkers, FS_Subset
<1>2. Cardinality(S \ {w}) = Cardinality(S) - 1
  BY <1>1, FS_RemoveElement
<1>3. Cardinality(T) <= Cardinality(S \ {w}) /\ Cardinality(T) \in Nat
  BY CrowdSize
<1> QED
  BY <1>2, <1>3, CrowdSize

LEMMA InitCounted == Init => Counted
<1> SUFFICES ASSUME Init PROVE Counted
  OBVIOUS
<1>1. \A a \in Anomalies, o \in Workspaces :
        incidents[a][o] = 0 /\ Inserting(a, o) \in SUBSET Workers
  BY DEF Init, Inserting
<1>2. \A r \in AutomationRules, a \in Anomalies :
        automation_history[r][a] = 0 /\ Applying(r, a) \in SUBSET Workers
  BY DEF Init, Applying
<1>3. ASSUME NEW S \in SUBSET Workers
      PROVE  0 + Cardinality(S) <= Cardinality(Workers)
  BY CrowdSize
<1> QED
  BY <1>1, <1>2, <1>3 DEF Counted

\* A step after which w is not about to insert, and that inserts nothing.
Retires(w) ==
  /\ ~At(w, "insert")' /\ ~At(w, "automate")'
  /\ UNCHANGED <<incidents, automation_history>>

LEMMA RetiringCounted ==
  ASSUME Inv, Counted, NEW w \in Workers, Retires(w),
         \A u \in Workers \ {w} : requests'[u] = requests[u]
  PROVE  Counted'
<1>1. \A a \in Anomalies, o \in Workspaces :
        /\ Inserting(a, o)' \in SUBSET Inserting(a, o)
        /\ Inserting(a, o) \in SUBSET Workers
        /\ incidents[a][o] \in Nat
  BY DEF Inserting, At, Retires, Inv, TypeOK
<1>2. \A r \in AutomationRules, a \in Anomalies :
        /\ Applying(r, a)' \in SUBSET Applying(r, a)
        /\ Applying(r, a) \in SUBSET Workers
        /\ automation_history[r][a] \in Nat
  BY DEF Applying, At, Retires, Inv, TypeOK
<1>3. ASSUME NEW a \in Anomalies, NEW o \in Workspaces
      PROVE  incidents'[a][o] + Cardinality(Inserting(a, o)') <= Cardinality(Workers)
  <2>1. /\ Cardinality(Inserting(a, o)') <= Cardinality(Inserting(a, o))
        /\ Cardinality(Inserting(a, o)') \in Nat /\ Cardinality(Inserting(a, o)) \in Nat
        /\ Cardinality(Workers) \in Nat
    BY <1>1, CrowdSize
  <2> QED
    BY <1>1, <2>1 DEF Counted, Retires
<1>4. ASSUME NEW r \in AutomationRules, NEW a \in Anomalies
      PROVE  automation_history'[r][a] + Cardinality(Applying(r, a)') <= Cardinality(Workers)
  <2>1. /\ Cardinality(Applying(r, a)') <= Cardinality(Applying(r, a))
        /\ Cardinality(Applying(r, a)') \in Nat /\ Cardinality(Applying(r, a)) \in Nat
        /\ Cardinality(Workers) \in Nat
    BY <1>2, CrowdSize
  <2> QED
    BY <1>2, <2>1 DEF Counted, Retires
<1> QED
  BY <1>3, <1>4 DEF Counted

\* What a worker serves next, when it is not about to insert.
LEMMA ServedRetires ==
  ASSUME Inv, NEW w \in Workers, NEW r, Serve(w, r),
         r.pc \notin {"insert", "automate"},
         UNCHANGED <<incidents, automation_history>>
  PROVE  Retires(w)
<1>1. requests'[w] = r
  BY DEF Serve, Inv, TypeOK
<1> QED
  BY <1>1 DEF Retires, At

LEMMA FinishRetires ==
  ASSUME Inv, NEW w \in Workers, Finish(w), UNCHANGED tables
  PROVE  Retires(w)
BY ServedRetires DEF Finish, Idle, tables

LEMMA BeginRetires ==
  ASSUME Inv, NEW w \in Workers, Begin(w)
  PROVE  Retires(w)
<1>1. ASSUME NEW o \in Workspaces, BeginListing(w, o)
      PROVE  Retires(w)
  <2>1. PICK r : Serve(w, r) /\ r.pc = "persist"
    BY <1>1 DEF BeginListing, Request
  <2> QED
    BY <1>1, <2>1, ServedRetires DEF BeginListing, tables
<1>2. ASSUME NEW o \in Workspaces, NEW v \in Validations, BeginValidation(w, o, v)
      PROVE  Retires(w)
  <2>1. PICK r : Serve(w, r) /\ r.pc = "alert"
    BY <1>2 DEF BeginValidation, Request
  <2> QED
    BY <1>2, <2>1, ServedRetires DEF BeginValidation
<1>3. ASSUME NEW o \in Workspaces, NEW a \in Anomalies, BeginCreation(w, o, a)
      PROVE  Retires(w)
  <2>1. PICK r : Serve(w, r) /\ r.pc = "ingest"
    BY <1>3 DEF BeginCreation, Request
  <2> QED
    BY <1>3, <2>1, ServedRetires DEF BeginCreation, tables
<1>4. ASSUME NEW o \in Workspaces, NEW a \in Anomalies, NEW p \in Playbooks,
             BeginTrigger(w, o, a, p)
      PROVE  Retires(w)
  <2>1. PICK found \in _load_anomalies(NoWorkspace) :
          Serve(w, [Request("persist", "trigger", o) EXCEPT
                      !.todo = found, !.anomaly = a, !.left = {p}])
    BY <1>4 DEF BeginTrigger
  <2>2. [Request("persist", "trigger", o) EXCEPT
           !.todo = found, !.anomaly = a, !.left = {p}].pc = "persist"
    BY DEF Request
  <2> QED
    BY <1>4, <2>1, <2>2, ServedRetires DEF BeginTrigger, tables
<1>5. ASSUME NEW o \in Workspaces \cup {NoWorkspace}, BeginLoad(w, o)
      PROVE  Retires(w)
  <2>1. PICK found \in _load_anomalies(o) :
          Serve(w, [Request("persist", "load", o) EXCEPT !.todo = found])
    BY <1>5 DEF BeginLoad
  <2>2. [Request("persist", "load", o) EXCEPT !.todo = found].pc = "persist"
    BY DEF Request
  <2> QED
    BY <1>5, <2>1, <2>2, ServedRetires DEF BeginLoad, tables
<1> QED
  BY <1>1, <1>2, <1>3, <1>4, <1>5 DEF Begin

LEMMA LoadingRetires ==
  ASSUME Inv, NEW w \in Workers,
         \/ PersistDetected(w) \/ SelectForListing(w) \/ SelectForTrigger(w)
         \/ IngestAnomaly(w) \/ RaiseAlert(w)
  PROVE  Retires(w)
<1> DEFINE q == requests[w]
<1>1. requests[w] \in Requests
  BY BusyShape DEF Inv, PersistDetected, SelectForListing, SelectForTrigger, Loaded,
     IngestAnomaly, RaiseAlert, At
<1>2. UNCHANGED <<incidents, automation_history>>
  BY DEF PersistDetected, SelectForListing, SelectForTrigger, IngestAnomaly,
     RaiseAlert, tables
<1>3. CASE PersistDetected(w)
  <2>1. PICK a \in q.todo : Serve(w, [q EXCEPT !.todo = @ \ {a}])
    BY <1>3 DEF PersistDetected
  <2>2. [q EXCEPT !.todo = @ \ {a}].pc = "persist"
    BY <1>1, <1>3 DEF PersistDetected, Requests, At
  <2> QED
    BY <1>2, <2>1, <2>2, ServedRetires
<1>4. CASE SelectForListing(w)
  <2> DEFINE r == [q EXCEPT !.pc = "history", !.batch = _stored_anomalies(q.workspace)]
  <2>1. r.pc = "history"
    BY <1>1 DEF Requests
  <2>2. Serve(w, r)
    BY <1>4 DEF SelectForListing
  <2> QED
    BY <1>2, <2>1, <2>2, ServedRetires
<1>5. CASE SelectForTrigger(w)
  <2> DEFINE r == [q EXCEPT !.pc = "link", !.owner = anomalies[q.anomaly].workspace]
  <2>1. r.pc = "link"
    BY <1>1 DEF Requests
  <2>2. Serve(w, r) \/ Serve(w, Idle)
    BY <1>5 DEF SelectForTrigger, Finish
  <2> HIDE DEF r
  <2> QED
    BY <1>2, <2>1, <2>2, ServedRetires DEF Idle
<1>6. CASE IngestAnomaly(w)
  <2>1. PICK a \in q.batch :
          Serve(w, [q EXCEPT !.pc = "find", !.batch = @ \ {a}, !.anomaly = a])
    BY <1>6 DEF IngestAnomaly
  <2>2. [q EXCEPT !.pc = "find", !.batch = @ \ {a}, !.anomaly = a].pc = "find"
    BY <1>1 DEF Requests
  <2> QED
    BY <1>2, <2>1, <2>2, ServedRetires
<1>7. CASE RaiseAlert(w)
  <2> DEFINE r == [q EXCEPT !.pc = "ingest"]
  <2>1. r.pc = "ingest"
    BY <1>1 DEF Requests
  <2>2. Serve(w, r)
    BY <1>7 DEF RaiseAlert
  <2> QED
    BY <1>2, <2>1, <2>2, ServedRetires
<1> QED
  BY <1>3, <1>4, <1>5, <1>6, <1>7

LEMMA RunningRetires ==
  ASSUME Inv, NEW w \in Workers,
         FindLink(w) \/ CheckRun(w) \/ RecordRun(w) \/ RunsDone(w) \/ ResolveEvent(w)
  PROVE  Retires(w)
<1> DEFINE q == requests[w]
<1>1. requests[w] \in Requests
  BY BusyShape DEF Inv, FindLink, CheckRun, RecordRun, RunsDone, ResolveEvent, At
<1>2. UNCHANGED <<incidents, automation_history>>
  BY DEF FindLink, CheckRun, RecordRun, InsertRun, RunsDone, ResolveEvent, tables
<1>3. CASE FindLink(w)
  <2>1. ASSUME NEW k
        PROVE  [q EXCEPT !.pc = "runs", !.incident = k].pc = "runs"
    BY <1>1 DEF Requests
  <2>2. [q EXCEPT !.pc = "runs"].pc = "runs"
    BY <1>1 DEF Requests
  <2>3. \/ Serve(w, [q EXCEPT !.pc = "runs"])
        \/ \E n \in 1 .. IncidentsOf(w) :
             Serve(w, [q EXCEPT !.pc = "runs", !.incident = Link(q.workspace, n)])
    BY <1>3 DEF FindLink
  <2> QED
    BY <1>2, <2>1, <2>2, <2>3, ServedRetires
<1>4. CASE CheckRun(w)
  <2>1. ASSUME NEW p
        PROVE  /\ [q EXCEPT !.left = @ \ {p}].pc = "runs"
               /\ [q EXCEPT !.pc = "record", !.playbook = p].pc = "record"
    BY <1>1, <1>4 DEF Requests, CheckRun, At
  <2>2. \E p \in q.left :
          \/ Serve(w, [q EXCEPT !.left = @ \ {p}])
          \/ Serve(w, [q EXCEPT !.pc = "record", !.playbook = p])
    BY <1>4 DEF CheckRun
  <2> QED
    BY <1>2, <2>1, <2>2, ServedRetires
<1>5. CASE RecordRun(w)
  <2> DEFINE r == [q EXCEPT !.pc = "runs", !.left = @ \ {q.playbook},
                            !.playbook = NoPlaybook]
  <2>1. r.pc = "runs"
    BY <1>1 DEF Requests
  <2>2. Serve(w, r)
    BY <1>5 DEF RecordRun, InsertRun
  <2> QED
    BY <1>2, <2>1, <2>2, ServedRetires
<1>6. CASE RunsDone(w)
  <2> DEFINE next == [q EXCEPT !.pc = "ingest", !.anomaly = NoAnomaly,
                               !.incident = NoLink, !.owner = NoWorkspace]
             last == [q EXCEPT !.pc = "resolve"]
  <2>1. next.pc = "ingest"
    BY <1>1 DEF Requests
  <2>2. last.pc = "resolve"
    BY <1>1 DEF Requests
  <2>3. Serve(w, next) \/ Serve(w, last) \/ Serve(w, Idle)
    BY <1>6 DEF RunsDone, Finish
  <2> HIDE DEF next, last
  <2> QED
    BY <1>2, <2>1, <2>2, <2>3, ServedRetires DEF Idle
<1>7. CASE ResolveEvent(w)
  <2>1. Serve(w, Idle)
    BY <1>7 DEF ResolveEvent, Finish
  <2> QED
    BY <1>2, <2>1, ServedRetires DEF Idle
<1> QED
  BY <1>3, <1>4, <1>5, <1>6, <1>7

\* The crowds that a step of w leaves as they are, but for w.
LEMMA InsertingElsewhere ==
  ASSUME Inv, NEW w \in Workers, NEW a \in Anomalies, NEW o \in Workspaces,
         Counted, incidents'[a][o] = incidents[a][o],
         \A u \in Workers \ {w} : requests'[u] = requests[u],
         w \in Inserting(a, o)' => w \in Inserting(a, o)
  PROVE  incidents'[a][o] + Cardinality(Inserting(a, o)') <= Cardinality(Workers)
<1>1. Inserting(a, o)' \in SUBSET Inserting(a, o) /\ Inserting(a, o) \in SUBSET Workers
  BY DEF Inserting, At
<1>2. incidents[a][o] \in Nat
  BY DEF Inv, TypeOK
<1>3. /\ Cardinality(Inserting(a, o)') <= Cardinality(Inserting(a, o))
      /\ Cardinality(Inserting(a, o)') \in Nat /\ Cardinality(Inserting(a, o)) \in Nat
      /\ Cardinality(Workers) \in Nat
  BY <1>1, CrowdSize
<1> QED
  BY <1>2, <1>3 DEF Counted

LEMMA ApplyingElsewhere ==
  ASSUME Inv, NEW w \in Workers, NEW r \in AutomationRules, NEW a \in Anomalies,
         Counted, automation_history'[r][a] = automation_history[r][a],
         \A u \in Workers \ {w} : requests'[u] = requests[u],
         w \in Applying(r, a)' => w \in Applying(r, a)
  PROVE  automation_history'[r][a] + Cardinality(Applying(r, a)') <= Cardinality(Workers)
<1>1. Applying(r, a)' \in SUBSET Applying(r, a) /\ Applying(r, a) \in SUBSET Workers
  BY DEF Applying, At
<1>2. automation_history[r][a] \in Nat
  BY DEF Inv, TypeOK
<1>3. /\ Cardinality(Applying(r, a)') <= Cardinality(Applying(r, a))
      /\ Cardinality(Applying(r, a)') \in Nat /\ Cardinality(Applying(r, a)) \in Nat
      /\ Cardinality(Workers) \in Nat
  BY <1>1, CrowdSize
<1> QED
  BY <1>2, <1>3 DEF Counted

\* Only who finds no incident goes on to insert one.
LEMMA FindIncidentCounted ==
  ASSUME Inv, Counted, NEW w \in Workers, FindIncident(w)
  PROVE  Counted'
<1> DEFINE q == requests[w]
           r == [q EXCEPT !.pc = "insert"]
<1>1. q \in Requests /\ q.pc = "find"
  BY BusyShape DEF Inv, FindIncident, At
<1>2. UNCHANGED <<incidents, automation_history>>
  BY DEF FindIncident, tables
<1>3. \A u \in Workers \ {w} : requests'[u] = requests[u]
  BY FindIncidentKeeps DEF Kept
<1>4. CASE \E n \in 1 .. IncidentsOf(w) : Serve(w, WithIncident(w, n))
  <2>1. ASSUME NEW n
        PROVE  WithIncident(w, n).pc \in {"runs", "idle"}
    BY <1>1 DEF WithIncident, Idle, Requests
  <2>2. Retires(w)
    BY <1>2, <1>4, <2>1, ServedRetires
  <2> QED
    BY <1>3, <2>2, RetiringCounted
<1>5. CASE IncidentsOf(w) = 0 /\ Serve(w, r)
  <2>1. r.pc = "insert" /\ r.anomaly = q.anomaly /\ r.workspace = q.workspace
    BY <1>1 DEF Requests
  <2>2. requests'[w] = r
    BY <1>5 DEF Serve, Inv, TypeOK
  <2> HIDE DEF r
  <2>3. ASSUME NEW a \in Anomalies, NEW o \in Workspaces
        PROVE  incidents'[a][o] + Cardinality(Inserting(a, o)') <= Cardinality(Workers)
    <3>1. CASE a = q.anomaly /\ o = q.workspace
      <4>1. incidents'[a][o] = 0
        BY <1>2, <1>5, <3>1 DEF IncidentsOf
      <4>2. Inserting(a, o)' \in SUBSET Workers
        BY DEF Inserting
      <4>3. /\ Cardinality(Inserting(a, o)') \in Nat
            /\ Cardinality(Inserting(a, o)') <= Cardinality(Workers)
        BY <4>2, CrowdSize
      <4> QED
        BY <4>1, <4>3
    <3>2. CASE ~(a = q.anomaly /\ o = q.workspace)
      <4>1. w \notin Inserting(a, o)'
        BY <2>1, <2>2, <3>2 DEF Inserting
      <4> QED
        BY <1>2, <1>3, <4>1, InsertingElsewhere
    <3> QED
      BY <3>1, <3>2
  <2>4. ASSUME NEW x \in AutomationRules, NEW a \in Anomalies
        PROVE  automation_history'[x][a] + Cardinality(Applying(x, a)') <= Cardinality(Workers)
    <3>1. w \notin Applying(x, a)'
      BY <2>1, <2>2 DEF Applying, At
    <3> QED
      BY <1>2, <1>3, <3>1, ApplyingElsewhere
  <2> QED
    BY <2>3, <2>4 DEF Counted
<1> QED
  BY <1>4, <1>5 DEF FindIncident

\* Who inserts leaves the crowd.
LEMMA InsertIncidentCounted ==
  ASSUME Inv, Counted, NEW w \in Workers, InsertIncident(w)
  PROVE  Counted'
<1> DEFINE q == requests[w]
           r == WithIncident(w, IncidentsOf(w) + 1)
<1>1. q \in Requests /\ q # Idle /\ q.pc = "insert" /\ RequestConsistent(w)
  BY BusyShape DEF Inv, InsertIncident, At
<1>2. q.anomaly \in Anomalies /\ q.workspace \in Workspaces
  BY <1>1 DEF RequestConsistent, OnPath, Path, AnomalyConsistent, Requests
<1>3. /\ incidents' = [incidents EXCEPT ![q.anomaly][q.workspace] = @ + 1]
      /\ Serve(w, r)
      /\ UNCHANGED automation_history
  BY DEF InsertIncident
<1>4. \A u \in Workers \ {w} : requests'[u] = requests[u]
  BY InsertIncidentKeeps DEF Kept
<1>5. r.pc \in {"runs", "idle"}
  BY <1>1 DEF WithIncident, Idle, Requests
<1>6. requests'[w] = r
  BY <1>3 DEF Serve, Inv, TypeOK
<1> HIDE DEF r
<1>7. ASSUME NEW a \in Anomalies, NEW o \in Workspaces
      PROVE  incidents'[a][o] + Cardinality(Inserting(a, o)') <= Cardinality(Workers)
  <2>1. w \notin Inserting(a, o)'
    BY <1>5, <1>6 DEF Inserting, At
  <2>2. CASE a = q.anomaly /\ o = q.workspace
    <3>1. incidents'[a][o] = incidents[a][o] + 1 /\ incidents[a][o] \in Nat
      BY <1>3, <2>2 DEF Inv, TypeOK
    <3>2. w \in Inserting(a, o) /\ Inserting(a, o) \in SUBSET Workers
      BY <1>1, <2>2 DEF Inserting, At
    <3>3. Inserting(a, o)' \in SUBSET (Inserting(a, o) \ {w})
      BY <1>4, <2>1 DEF Inserting, At
    <3>4. Cardinality(Inserting(a, o)') + 1 <= Cardinality(Inserting(a, o))
      BY <3>2, <3>3, CrowdLeft
    <3>5. Inserting(a, o)' \in SUBSET Workers
      BY DEF Inserting
    <3>6. /\ Cardinality(Inserting(a, o)') \in Nat /\ Cardinality(Inserting(a, o)) \in Nat
          /\ Cardinality(Workers) \in Nat
      BY <3>2, <3>5, CrowdSize
    <3>7. incidents[a][o] + Cardinality(Inserting(a, o)) <= Cardinality(Workers)
      BY DEF Counted
    <3> QED
      BY <3>1, <3>4, <3>6, <3>7
  <2>3. CASE ~(a = q.anomaly /\ o = q.workspace)
    <3>1. incidents'[a][o] = incidents[a][o]
      BY <1>2, <1>3, <2>3 DEF Inv, TypeOK
    <3> QED
      BY <1>4, <2>1, <3>1, InsertingElsewhere
  <2> QED
    BY <2>2, <2>3
<1>8. ASSUME NEW x \in AutomationRules, NEW a \in Anomalies
      PROVE  automation_history'[x][a] + Cardinality(Applying(x, a)') <= Cardinality(Workers)
  <2>1. w \notin Applying(x, a)'
    BY <1>5, <1>6 DEF Applying, At
  <2> QED
    BY <1>3, <1>4, <2>1, ApplyingElsewhere
<1> QED
  BY <1>7, <1>8 DEF Counted

\* Only for pairs without a row of history does a rule go on to act.
LEMMA ReadHistoryCounted ==
  ASSUME Inv, Counted, NEW w \in Workers, ReadHistory(w)
  PROVE  Counted'
<1> DEFINE q == requests[w]
           pending == {x \in AutomationRules \X q.batch :
                         automation_history[x[1]][x[2]] = 0}
           r == [q EXCEPT !.pc = ToApply(pending), !.pending = pending]
<1>1. q \in Requests
  BY BusyShape DEF Inv, ReadHistory, At
<1>2. Serve(w, r) /\ UNCHANGED <<incidents, automation_history>>
  BY DEF ReadHistory, tables
<1>3. \A u \in Workers \ {w} : requests'[u] = requests[u]
  BY ReadHistoryKeeps DEF Kept
<1>4. r.pc # "insert" /\ r.pending = pending
  BY <1>1 DEF Requests, ToApply
<1>5. requests'[w] = r
  BY <1>2 DEF Serve, Inv, TypeOK
<1> HIDE DEF r
<1>6. ASSUME NEW a \in Anomalies, NEW o \in Workspaces
      PROVE  incidents'[a][o] + Cardinality(Inserting(a, o)') <= Cardinality(Workers)
  <2>1. w \notin Inserting(a, o)'
    BY <1>4, <1>5 DEF Inserting, At
  <2> QED
    BY <1>2, <1>3, <2>1, InsertingElsewhere
<1>7. ASSUME NEW x \in AutomationRules, NEW a \in Anomalies
      PROVE  automation_history'[x][a] + Cardinality(Applying(x, a)') <= Cardinality(Workers)
  <2>1. CASE automation_history[x][a] = 0
    <3>1. Applying(x, a)' \in SUBSET Workers
      BY DEF Applying
    <3>2. /\ Cardinality(Applying(x, a)') \in Nat
          /\ Cardinality(Applying(x, a)') <= Cardinality(Workers)
      BY <3>1, CrowdSize
    <3> QED
      BY <1>2, <2>1, <3>2
  <2>2. CASE automation_history[x][a] # 0
    <3>1. <<x, a>> \notin pending
      BY <2>2
    <3>2. w \notin Applying(x, a)'
      BY <1>4, <1>5, <3>1 DEF Applying
    <3> QED
      BY <1>2, <1>3, <3>2, ApplyingElsewhere
  <2> QED
    BY <2>1, <2>2
<1> QED
  BY <1>6, <1>7 DEF Counted

\* Who has acted has one pair less to apply.
LEMMA apply_automation_rulesCounted ==
  ASSUME Inv, Counted, NEW w \in Workers, apply_automation_rules(w)
  PROVE  Counted'
<1> DEFINE q == requests[w]
<1>1. q \in Requests /\ q.pc = "automate"
  BY BusyShape DEF Inv, apply_automation_rules, At
<1>2. UNCHANGED incidents
  BY DEF apply_automation_rules
<1>3. PICK x \in q.pending :
        /\ automation_history' = [automation_history EXCEPT ![x[1]][x[2]] = @ + 1]
        /\ Serve(w, [q EXCEPT !.pc = ToApply(q.pending \ {x}),
                              !.pending = q.pending \ {x}])
  BY DEF apply_automation_rules
<1> DEFINE r == [q EXCEPT !.pc = ToApply(q.pending \ {x}), !.pending = q.pending \ {x}]
<1>4. \A u \in Workers \ {w} : requests'[u] = requests[u]
  BY apply_automation_rulesKeeps DEF Kept
<1>5. r.pc # "insert" /\ r.pending = q.pending \ {x}
  BY <1>1 DEF Requests, ToApply
<1>6. requests'[w] = r
  BY <1>3 DEF Serve, Inv, TypeOK
<1>7. x[1] \in AutomationRules /\ x[2] \in Anomalies /\ x = <<x[1], x[2]>>
  BY <1>1 DEF Requests
<1> HIDE DEF r
<1>8. ASSUME NEW a \in Anomalies, NEW o \in Workspaces
      PROVE  incidents'[a][o] + Cardinality(Inserting(a, o)') <= Cardinality(Workers)
  <2>1. w \notin Inserting(a, o)'
    BY <1>5, <1>6 DEF Inserting, At
  <2> QED
    BY <1>2, <1>4, <2>1, InsertingElsewhere
<1>9. ASSUME NEW y \in AutomationRules, NEW a \in Anomalies
      PROVE  automation_history'[y][a] + Cardinality(Applying(y, a)') <= Cardinality(Workers)
  <2>1. CASE <<y, a>> = x
    <3>1. /\ automation_history'[y][a] = automation_history[y][a] + 1
          /\ automation_history[y][a] \in Nat
      BY <1>3, <1>7, <2>1 DEF Inv, TypeOK
    <3>2. w \in Applying(y, a) /\ Applying(y, a) \in SUBSET Workers
      BY <1>1, <1>3, <2>1 DEF Applying, At
    <3>3. w \notin Applying(y, a)'
      BY <1>5, <1>6, <2>1 DEF Applying
    <3>4. Applying(y, a)' \in SUBSET (Applying(y, a) \ {w})
      BY <1>4, <3>3 DEF Applying, At
    <3>5. Cardinality(Applying(y, a)') + 1 <= Cardinality(Applying(y, a))
      BY <3>2, <3>4, CrowdLeft
    <3>6. Applying(y, a)' \in SUBSET Workers
      BY DEF Applying
    <3>7. /\ Cardinality(Applying(y, a)') \in Nat /\ Cardinality(Applying(y, a)) \in Nat
          /\ Cardinality(Workers) \in Nat
      BY <3>2, <3>6, CrowdSize
    <3>8. automation_history[y][a] + Cardinality(Applying(y, a)) <= Cardinality(Workers)
      BY DEF Counted
    <3> QED
      BY <3>1, <3>5, <3>7, <3>8
  <2>2. CASE <<y, a>> # x
    <3>1. automation_history'[y][a] = automation_history[y][a]
      BY <1>3, <1>7, <2>2 DEF Inv, TypeOK
    <3>2. w \in Applying(y, a)' => w \in Applying(y, a)
      BY <1>1, <1>5, <1>6 DEF Applying, At
    <3> QED
      BY <1>4, <3>1, <3>2, ApplyingElsewhere
  <2> QED
    BY <2>1, <2>2
<1> QED
  BY <1>8, <1>9 DEF Counted

LEMMA StepKeepsCounted == Inv /\ Counted /\ [Next]_vars => Counted'
<1> SUFFICES ASSUME Inv, Counted, [Next]_vars
             PROVE  Counted'
  OBVIOUS
<1>1. ASSUME NEW w \in Workers, Begin(w)
      PROVE  Counted'
  BY <1>1, BeginKeeps, BeginRetires, RetiringCounted DEF Kept
<1>2. ASSUME NEW w \in Workers, Proceed(w)
      PROVE  Counted'
  <2>1. CASE FindIncident(w) \/ InsertIncident(w)
    BY <2>1, FindIncidentCounted, InsertIncidentCounted
  <2>2. CASE ReadHistory(w) \/ apply_automation_rules(w)
    BY <2>2, ReadHistoryCounted, apply_automation_rulesCounted
  <2>3. CASE \/ PersistDetected(w) \/ SelectForListing(w) \/ SelectForTrigger(w)
             \/ IngestAnomaly(w) \/ RaiseAlert(w)
    BY <1>2, <2>3, ProceedKeeps, LoadingRetires, RetiringCounted DEF Kept
  <2>4. CASE FindLink(w) \/ CheckRun(w) \/ RecordRun(w) \/ RunsDone(w) \/ ResolveEvent(w)
    BY <1>2, <2>4, ProceedKeeps, RunningRetires, RetiringCounted DEF Kept
  <2>5. CASE SelectForLoad(w) \/ EndListing(w) \/ RecordRunConflict(w)
    <3>1. Retires(w)
      BY <2>5, FinishRetires DEF SelectForLoad, EndListing, RecordRunConflict
    <3> QED
      BY <1>2, <3>1, ProceedKeeps, RetiringCounted DEF Kept
  <2> QED
    BY <1>2, <2>1, <2>2, <2>3, <2>4, <2>5 DEF Proceed
<1>3. ASSUME NEW w \in Workers, StorageErrorAborts(w)
      PROVE  Counted'
  BY <1>3, FinishKeeps, FinishRetires, RetiringCounted DEF StorageErrorAborts, Kept
<1>4. CASE UNCHANGED vars
  BY <1>4 DEF vars, tables, Counted, Inserting, Applying, At
<1> QED
  BY <1>1, <1>2, <1>3, <1>4 DEF Next, CalmNext

\* What is checked before it is inserted, with no index behind it, is inserted
\* no more often than there are threads, for any number of them: the incidents
\* of an anomaly in a workspace and the actions of a rule about an anomaly.
THEOREM InsertsAreBounded == Spec => []RepetitionsBounded
<1>1. Inv /\ Counted => RepetitionsBounded
  <2> SUFFICES ASSUME Inv, Counted, NEW a \in Anomalies
               PROVE  /\ \A o \in Workspaces : incidents[a][o] <= Cardinality(Workers)
                      /\ \A r \in AutomationRules :
                           automation_history[r][a] <= Cardinality(Workers)
    BY DEF RepetitionsBounded
  <2>1. ASSUME NEW o \in Workspaces
        PROVE  incidents[a][o] <= Cardinality(Workers)
    <3>1. Inserting(a, o) \in SUBSET Workers /\ incidents[a][o] \in Nat
      BY DEF Inserting, Inv, TypeOK
    <3>2. Cardinality(Inserting(a, o)) \in Nat /\ Cardinality(Workers) \in Nat
      BY <3>1, CrowdSize
    <3> QED
      BY <3>1, <3>2 DEF Counted
  <2>2. ASSUME NEW r \in AutomationRules
        PROVE  automation_history[r][a] <= Cardinality(Workers)
    <3>1. Applying(r, a) \in SUBSET Workers /\ automation_history[r][a] \in Nat
      BY DEF Applying, Inv, TypeOK
    <3>2. Cardinality(Applying(r, a)) \in Nat /\ Cardinality(Workers) \in Nat
      BY <3>1, CrowdSize
    <3> QED
      BY <3>1, <3>2 DEF Counted
  <2> QED
    BY <2>1, <2>2
<1>2. Inv /\ Counted /\ [Next]_vars => Counted'
  BY StepKeepsCounted
<1>3. Init => Counted
  BY InitCounted
<1> QED
  BY <1>1, <1>2, <1>3, InvHolds, PTL DEF Spec
=============================================================================
