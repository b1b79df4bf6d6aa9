------------------------------ MODULE Workbench ------------------------------
(***************************************************************************)
(* What administrators edit in web/saaoe_api.py: the status of incidents,  *)
(* and the anomaly and automation rules, whose rows are kept a second time  *)
(* in lists of the process that the detection reads.                       *)
(*                                                                         *)
(* Requests are served by threads; every statement on a table is a         *)
(* transaction of its own, and the lists are shared without a lock.        *)
(***************************************************************************)
EXTENDS Naturals, Sequences, FiniteSets, FiniteSetsExt

CONSTANTS
  Threads, Incidents,
  Lists,              \* the lists of rules, in the order that they are loaded
  RequestedStatuses,  \* what requests name as a status
  MaxId,              \* bound for model checking: identifiers of rules
  MaxRequests         \* bound for model checking

ASSUME BoundsAreNat == MaxId \in Nat \ {0} /\ MaxRequests \in Nat
ASSUME ListsAreNamed == Lists \in Seq(Range(Lists)) /\ Lists # <<>>

Kinds == Range(Lists)

VARIABLES
  incidents,   \* rows: status, and whether closed_at is set
  stored,      \* stored[k]: the identifiers in the table of k
  memory,      \* memory[k]: those in the list of k; repetitions are not told apart
  next,        \* next[k]: next_rule_id, next_automation_rule_id
  threads,     \* what each thread is at
  unsettled,   \* history: incidents that something else than closing and reopening changed
  unloaded,    \* history: lists that a reload which failed has left empty
  sent         \* requests so far

vars == <<incidents, stored, memory, next, threads, unsettled, unloaded, sent>>
rules == <<stored, memory, next, unloaded>>
desk == <<incidents, unsettled>>

Closed  == {"resolved", "dismissed"}
Working == {"open", "investigating", "waiting_for_approval"}
INCIDENT_STATUSES == Closed \cup Working \cup {"failed"}

\* Variant: the words of a client are written as they are.
RawStatus(value) == value

\* A few of the aliases stand for all; what is none of them is "open".
normalize_status(value) ==
  CASE value \in INCIDENT_STATUSES            -> value
    [] value \in {"closed", "completed"}      -> "resolved"
    [] value = "ignored"                      -> "dismissed"
    [] value = "approved"                     -> "waiting_for_approval"
    [] OTHER                                  -> "open"

\* The rules of an empty installation; one stands for all.
DefaultRules == {1}

IdleThread == [pc |-> "idle"]

At(t, pc) == threads[t].pc = pc
Become(t, thread) == threads' = [threads EXCEPT ![t] = thread]
GoTo(t, pc) == threads' = [threads EXCEPT ![t].pc = pc]
Receive(t, thread) ==
  /\ At(t, "idle")
  /\ sent < MaxRequests /\ sent' = sent + 1
  /\ Become(t, thread)

-----------------------------------------------------------------------------
(* Incidents *)

\* _update_incident reads the row first.
BeginUpdate(t, i, status) ==
  /\ Receive(t, [pc |-> "update", incident |-> i, status |-> status,
                 before |-> incidents[i].status])
  /\ UNCHANGED <<desk, rules>>

ChangeStatus(t, i, value) == BeginUpdate(t, i, normalize_status(value))

Close(t, i, value) ==
  BeginUpdate(t, i, IF normalize_status(value) \in Closed
                    THEN normalize_status(value) ELSE "resolved")

Reopen(t, i) == BeginUpdate(t, i, "open")

\* Variant: the stamp goes only with the status "open".
StampAfterOpening(before, status, stamp) ==
  IF status \in Closed THEN TRUE
  ELSE stamp /\ ~(before \in Closed /\ status = "open")

\* closed_at, from the status that was read, the one written and its value now.
StampAfter(before, status, stamp) ==
  IF status \in Closed THEN TRUE
  ELSE stamp /\ ~(before \in Closed /\ status \in Working)

WriteUpdate(t) ==
  /\ At(t, "update")
  /\ LET i        == threads[t].incident
         before   == threads[t].before
         status   == threads[t].status
         overtaken == incidents[i].status # before
         settles  == status \in Closed \/ (before \in Closed /\ status \in Working)
     IN /\ incidents' = [incidents EXCEPT ![i] =
                          [status |-> status, stamp |-> StampAfter(before, status, @.stamp)]]
        /\ unsettled' = IF overtaken \/ (before \in Closed /\ status = "failed")
                        THEN unsettled \cup {i}
                        ELSE IF settles THEN unsettled \ {i} ELSE unsettled
  /\ Become(t, IdleThread)
  /\ UNCHANGED <<rules, sent>>

\* An approval request that names the incident ends with this statement.
RequestApproval(t, i) ==
  /\ At(t, "idle")
  /\ sent < MaxRequests /\ sent' = sent + 1
  /\ incidents' = [incidents EXCEPT ![i].status = "waiting_for_approval"]
  /\ unsettled' = IF incidents[i].stamp THEN unsettled \cup {i} ELSE unsettled
  /\ UNCHANGED <<threads, rules>>

-----------------------------------------------------------------------------
(* Rules *)

\* The identifier of the new rule is the one in memory.
CreateRule(t, k) ==
  /\ next[k] <= MaxId
  /\ Receive(t, [pc |-> "insert", list |-> k, id |-> next[k]])
  /\ UNCHANGED <<desk, rules>>

DeleteRule(t, k, id) ==
  /\ Receive(t, IF id \in stored[k] THEN [pc |-> "delete", list |-> k, id |-> id]
                ELSE IdleThread)
  /\ UNCHANGED <<desk, rules>>

Loading(pc, k) == [pc |-> pc, list |-> k, rows |-> {}]

\* A change of a playbook reloads the rules as well.
ChangePlaybook(t) ==
  /\ Receive(t, Loading("clear", Head(Lists)))
  /\ UNCHANGED <<desk, rules>>

\* The identifier is the primary key: an insert that finds it fails.
InsertRule(t) ==
  /\ At(t, "insert")
  /\ LET k == threads[t].list
         id == threads[t].id
     IN /\ stored' = [stored EXCEPT ![k] = @ \cup {id}]
        /\ IF id \in stored[k] THEN Become(t, IdleThread) ELSE GoTo(t, "append")
  /\ UNCHANGED <<desk, memory, next, unloaded, sent>>

AppendRule(t) ==
  /\ At(t, "append")
  /\ memory' = [memory EXCEPT ![threads[t].list] = @ \cup {threads[t].id}]
  /\ GoTo(t, "advance")
  /\ UNCHANGED <<desk, stored, next, unloaded, sent>>

AdvanceNext(t) ==
  /\ At(t, "advance")
  /\ next' = [next EXCEPT ![threads[t].list] = @ + 1]
  /\ Become(t, IdleThread)
  /\ UNCHANGED <<desk, stored, memory, unloaded, sent>>

RemoveRule(t) ==
  /\ At(t, "delete")
  /\ stored' = [stored EXCEPT ![threads[t].list] = @ \ {threads[t].id}]
  /\ Become(t, Loading("clear", Head(Lists)))
  /\ UNCHANGED <<desk, memory, next, unloaded, sent>>

-----------------------------------------------------------------------------
(* load_persistent_state: one list after the other *)

ClearList(t) ==
  /\ At(t, "clear")
  /\ memory' = [memory EXCEPT ![threads[t].list] = {}]
  /\ GoTo(t, "query")
  /\ UNCHANGED <<desk, stored, next, unloaded, sent>>

QueryRows(t) ==
  /\ At(t, "query")
  /\ threads' = [threads EXCEPT ![t].pc = "fill", ![t].rows = stored[threads[t].list]]
  /\ UNCHANGED <<desk, rules, sent>>

\* Variant: the list is replaced by the rows that were read.
ReplaceList(t) ==
  /\ At(t, "fill")
  /\ threads[t].rows # {}
  /\ memory' = [memory EXCEPT ![threads[t].list] = threads[t].rows]
  /\ threads' = [threads EXCEPT ![t].rows = {}]
  /\ UNCHANGED <<desk, stored, next, unloaded, sent>>

\* Each row is appended to what the list is by then; their order is left out.
FillList(t) ==
  /\ At(t, "fill")
  /\ \E id \in threads[t].rows :
       /\ memory' = [memory EXCEPT ![threads[t].list] = @ \cup {id}]
       /\ threads' = [threads EXCEPT ![t].rows = @ \ {id}]
  /\ UNCHANGED <<desk, stored, next, unloaded, sent>>

NextOf(list) == IF list = {} THEN 1 ELSE Max(list) + 1

ListsAfter(k) == {l \in DOMAIN Lists : l > 1 /\ Lists[l - 1] = k}

NumberRules(t) ==
  /\ At(t, "fill")
  /\ threads[t].rows = {}
  /\ LET k == threads[t].list
     IN /\ next' = [next EXCEPT ![k] = NextOf(memory[k])]
        /\ \/ ListsAfter(k) = {} /\ Become(t, IdleThread)
           \/ \E l \in ListsAfter(k) : Become(t, Loading("clear", Lists[l]))
  /\ UNCHANGED <<desk, stored, memory, unloaded, sent>>

-----------------------------------------------------------------------------
(* Failures and restarts *)

\* A statement on a table fails, and the request with it.
StatementFails(t) ==
  /\ threads[t].pc \in {"update", "insert", "delete", "query"}
  /\ unloaded' = IF At(t, "query") THEN unloaded \cup {threads[t].list} ELSE unloaded
  /\ Become(t, IdleThread)
  /\ UNCHANGED <<desk, stored, memory, next, sent>>

\* The process ends and starts again.  A table that it finds empty gets the default
\* rules back, then the lists are loaded.
Restart ==
  /\ sent < MaxRequests /\ sent' = sent + 1
  /\ threads' = [t \in Threads |-> IdleThread]
  /\ stored' = [k \in Kinds |-> IF stored[k] = {} THEN DefaultRules ELSE stored[k]]
  /\ memory' = stored'
  /\ next' = [k \in Kinds |-> NextOf(memory'[k])]
  /\ unloaded' = {}
  /\ UNCHANGED desk

Init ==
  /\ incidents = [i \in Incidents |-> [status |-> "open", stamp |-> FALSE]]
  /\ stored = [k \in Kinds |-> DefaultRules]
  /\ memory = stored
  /\ next = [k \in Kinds |-> NextOf(memory[k])]
  /\ threads = [t \in Threads |-> IdleThread]
  /\ unsettled = {} /\ unloaded = {}
  /\ sent = 0

Step(t) ==
  \/ \E i \in Incidents :
       \/ \E value \in RequestedStatuses : ChangeStatus(t, i, value) \/ Close(t, i, value)
       \/ Reopen(t, i) \/ RequestApproval(t, i)
  \/ \E k \in Kinds : CreateRule(t, k) \/ \E id \in 1..MaxId : DeleteRule(t, k, id)
  \/ ChangePlaybook(t) \/ WriteUpdate(t)
  \/ InsertRule(t) \/ AppendRule(t) \/ AdvanceNext(t) \/ RemoveRule(t)
  \/ ClearList(t) \/ QueryRows(t) \/ FillList(t) \/ NumberRules(t)
  \/ StatementFails(t)

Next == Restart \/ \E t \in Threads : Step(t)

Spec == Init /\ [][Next]_vars

-----------------------------------------------------------------------------
(* Properties *)

\* Incidents have one of the six statuses, and lists hold identifiers.
TypeOK ==
  /\ incidents \in [Incidents -> [status : INCIDENT_STATUSES, stamp : BOOLEAN]]
  /\ stored \in [Kinds -> SUBSET (1..MaxId)]
  /\ memory \in [Kinds -> SUBSET (1..MaxId)]
  /\ next \in [Kinds -> Nat \ {0}]
  /\ unsettled \subseteq Incidents /\ unloaded \subseteq Kinds

\* closed_at tells the status.  A closed incident has its stamp whatever requests
\* overlap.  One that is not closed has none, unless an approval request or a
\* failure came over a closed one, or two updates overlapped: then the stamp stays
\* until the next close and reopening (_update_incident decides by what it read).
StampTellsStatus ==
  \A i \in Incidents :
    /\ incidents[i].status \in Closed => incidents[i].stamp
    /\ incidents[i].status \notin Closed /\ incidents[i].stamp => i \in unsettled

\* Whatever creations, deletions and reloads overlap, once none is between its
\* statement on the table and the end of its work on the list, every stored rule is
\* in the list that the detection reads (deleted rules may be, too).
\* A list that a failed reload left empty is exempt until the process restarts.
TableIsLoaded ==
  \A k \in Kinds :
    \/ k \in unloaded
    \/ \E t \in Threads : /\ threads[t].pc \in {"append", "query", "fill"}
                          /\ threads[t].list = k
    \/ stored[k] \subseteq memory[k]
=============================================================================
