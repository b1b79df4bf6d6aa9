--------------------------- MODULE WorkbenchProofs ---------------------------
(* Theorems about Workbench for every value of its constants. *)
EXTENDS Workbench, WellFoundedInduction, TLAPS

Ids == 1..MaxId

UpdateOf ==
  [pc : {"update"}, incident : Incidents, status : INCIDENT_STATUSES,
   before : INCIDENT_STATUSES]
ChangeOf == [pc : {"insert", "append", "advance", "delete"}, list : Kinds, id : Ids]
LoadOf == [pc : {"clear", "query", "fill"}, list : Kinds, rows : SUBSET Ids]
Served == {IdleThread} \cup UpdateOf \cup ChangeOf \cup LoadOf

\* The work of t ends with the rule id in the list of k, or with the failure of its load.
Provides(t, k, id) ==
  \/ At(t, "append") /\ threads[t].list = k /\ threads[t].id = id
  \/ At(t, "query") /\ threads[t].list = k
  \/ At(t, "fill") /\ threads[t].list = k /\ id \in threads[t].rows

Provided(k, id) == id \in memory[k] \/ \E t \in Threads : Provides(t, k, id)

\* Every stored rule is in its list or on its way to it.
EachIsProvided == \A k \in Kinds : k \in unloaded \/ \A id \in stored[k] : Provided(k, id)

Typed == TypeOK /\ threads \in [Threads -> Served]

-----------------------------------------------------------------------------
(* Operators *)

LEMMA NormalizedStatus == \A value : normalize_status(value) \in INCIDENT_STATUSES
BY DEF normalize_status, INCIDENT_STATUSES, Closed, Working

\* A list is numbered beyond what it holds.
LEMMA NextOfType ==
  ASSUME NEW list \in SUBSET Ids
  PROVE  NextOf(list) \in Nat \ {0}
<1>1. CASE list = {}
  BY <1>1 DEF NextOf
<1>2. CASE list # {}
  <2> DEFINE Gaps == {n \in Nat : \E id \in list : n = MaxId - id}
  <2>1. Gaps \subseteq Nat /\ Gaps # {}
    <3>1. PICK some \in list : TRUE
      BY <1>2
    <3>2. MaxId - some \in Gaps
      BY BoundsAreNat DEF Ids
    <3> QED
      BY <3>2
  <2>2. PICK g \in Gaps : \A n \in Gaps : ~ (<<n, g>> \in OpToRel(<, Nat))
    BY <2>1, NatLessThanWellFounded, WFMin
  <2>3. PICK top \in list : g = MaxId - top
    OBVIOUS
  <2>4. ASSUME NEW id \in list PROVE top >= id
    <3>1. MaxId - id \in Gaps
      BY BoundsAreNat DEF Ids
    <3>2. ~ (MaxId - id < g)
      BY <2>2, <3>1 DEF OpToRel
    <3> QED
      BY <2>3, <3>2, BoundsAreNat DEF Ids
  <2>5. Max(list) \in list
    BY <2>4 DEF Max
  <2> HIDE DEF Gaps
  <2>6. Max(list) \in Nat
    <3>1. Max(list) \in 1..MaxId
      BY <2>5 DEF Ids
    <3> QED
      BY <3>1, BoundsAreNat
  <2>7. NextOf(list) = Max(list) + 1
    BY <1>2 DEF NextOf
  <2> QED
    BY <2>6, <2>7
<1> QED
  BY <1>1, <1>2

LEMMA FirstIsKind == Head(Lists) \in Kinds
BY ListsAreNamed DEF Kinds, Range

LEMMA FollowingIsKind == \A k : \A l \in ListsAfter(k) : Lists[l] \in Kinds
BY DEF ListsAfter, Kinds, Range

-----------------------------------------------------------------------------
(* Types *)

LEMMA InitTyped == Init => Typed
<1> SUFFICES ASSUME Init PROVE Typed
  OBVIOUS
<1>1. DefaultRules \in SUBSET Ids
  BY BoundsAreNat DEF DefaultRules, Ids
<1>2. next \in [Kinds -> Nat \ {0}]
  BY <1>1, NextOfType DEF Init
<1> QED
  BY <1>1, <1>2 DEF Init, Typed, TypeOK, Served, INCIDENT_STATUSES, Working, Ids

LEMMA UpdateTyped ==
  ASSUME Typed, NEW t \in Threads, NEW i \in Incidents, NEW s \in INCIDENT_STATUSES,
         BeginUpdate(t, i, s)
  PROVE  Typed'
<1>1. [pc |-> "update", incident |-> i, status |-> s,
       before |-> incidents[i].status] \in Served
  BY DEF Typed, TypeOK, Served, UpdateOf
<1> QED
  BY <1>1 DEF BeginUpdate, Receive, Become, desk, rules, Typed, TypeOK

LEMMA StepTyped ==
  ASSUME Typed, NEW t \in Threads, Step(t)
  PROVE  Typed'
<1> USE DEF Typed
<1>1. ASSUME NEW i \in Incidents, NEW value \in RequestedStatuses, ChangeStatus(t, i, value)
      PROVE  Typed'
  BY <1>1, UpdateTyped, NormalizedStatus DEF ChangeStatus
<1>2. ASSUME NEW i \in Incidents, NEW value \in RequestedStatuses, Close(t, i, value)
      PROVE  Typed'
  <2>1. "resolved" \in INCIDENT_STATUSES
    BY DEF INCIDENT_STATUSES, Closed
  <2> QED
    BY <1>2, <2>1, UpdateTyped, NormalizedStatus DEF Close
<1>3. ASSUME NEW i \in Incidents, Reopen(t, i)
      PROVE  Typed'
  <2>1. "open" \in INCIDENT_STATUSES
    BY DEF INCIDENT_STATUSES, Working
  <2> QED
    BY <1>3, <2>1, UpdateTyped DEF Reopen
<1>4. ASSUME NEW i \in Incidents, RequestApproval(t, i)
      PROVE  Typed'
  <2>1. [incidents[i] EXCEPT !.status = "waiting_for_approval"]
           \in [status : INCIDENT_STATUSES, stamp : BOOLEAN]
    BY DEF TypeOK, INCIDENT_STATUSES, Working
  <2> QED
    BY <1>4, <2>1 DEF RequestApproval, rules, TypeOK
<1>5. ASSUME NEW k \in Kinds, CreateRule(t, k)
      PROVE  Typed'
  <2>1. [pc |-> "insert", list |-> k, id |-> next[k]] \in Served
    BY <1>5, BoundsAreNat DEF CreateRule, TypeOK, Served, ChangeOf, Ids
  <2> QED
    BY <1>5, <2>1 DEF CreateRule, Receive, Become, desk, rules, TypeOK
<1>6. ASSUME NEW k \in Kinds, NEW id \in 1..MaxId, DeleteRule(t, k, id)
      PROVE  Typed'
  <2>1. /\ [pc |-> "delete", list |-> k, id |-> id] \in Served
        /\ IdleThread \in Served
    BY DEF Served, ChangeOf, Ids
  <2> QED
    BY <1>6, <2>1 DEF DeleteRule, Receive, Become, desk, rules, TypeOK
<1>7. Loading("clear", Head(Lists)) \in Served
  BY FirstIsKind DEF Loading, Served, LoadOf
<1>8. ASSUME ChangePlaybook(t)
      PROVE  Typed'
  BY <1>7, <1>8 DEF ChangePlaybook, Receive, Become, desk, rules, TypeOK
<1>9. ASSUME WriteUpdate(t)
      PROVE  Typed'
  <2>1. threads[t] \in UpdateOf
    BY <1>9 DEF WriteUpdate, At, Served, IdleThread, ChangeOf, LoadOf
  <2>2. incidents' \in [Incidents -> [status : INCIDENT_STATUSES, stamp : BOOLEAN]]
    BY <1>9, <2>1 DEF WriteUpdate, StampAfter, TypeOK, UpdateOf
  <2>3. unsettled' \subseteq Incidents
    BY <1>9, <2>1 DEF WriteUpdate, TypeOK, UpdateOf
  <2> QED
    BY <1>9, <2>2, <2>3 DEF WriteUpdate, Become, rules, TypeOK, Served
<1>10. threads[t].pc \in {"insert", "append", "advance", "delete"} => threads[t] \in ChangeOf
  BY DEF Served, IdleThread, UpdateOf, LoadOf
<1>11. threads[t].pc \in {"clear", "query", "fill"} => threads[t] \in LoadOf
  BY DEF Served, IdleThread, UpdateOf, ChangeOf
<1>12. ASSUME InsertRule(t)
       PROVE  Typed'
  <2>1. [threads[t] EXCEPT !.pc = "append"] \in Served
    BY <1>10, <1>12 DEF InsertRule, At, ChangeOf, Served
  <2> QED
    BY <1>10, <1>12, <2>1
       DEF InsertRule, At, GoTo, Become, desk, ChangeOf, TypeOK, Served, Ids
<1>13. ASSUME AppendRule(t)
       PROVE  Typed'
  <2>1. [threads[t] EXCEPT !.pc = "advance"] \in Served
    BY <1>10, <1>13 DEF AppendRule, At, ChangeOf, Served
  <2> QED
    BY <1>10, <1>13, <2>1 DEF AppendRule, At, GoTo, desk, ChangeOf, TypeOK, Ids
<1>14. ASSUME AdvanceNext(t)
       PROVE  Typed'
  BY <1>10, <1>14 DEF AdvanceNext, At, Become, desk, ChangeOf, TypeOK, Served
<1>15. ASSUME RemoveRule(t)
       PROVE  Typed'
  BY <1>7, <1>10, <1>15 DEF RemoveRule, At, Become, desk, ChangeOf, TypeOK
<1>16. ASSUME ClearList(t)
       PROVE  Typed'
  <2>1. [threads[t] EXCEPT !.pc = "query"] \in Served
    BY <1>11, <1>16 DEF ClearList, At, LoadOf, Served
  <2> QED
    BY <1>11, <1>16, <2>1 DEF ClearList, At, GoTo, desk, LoadOf, TypeOK
<1>17. ASSUME QueryRows(t)
       PROVE  Typed'
  <2>1. [threads[t] EXCEPT !.pc = "fill", !.rows = stored[threads[t].list]] \in Served
    BY <1>11, <1>17 DEF QueryRows, At, LoadOf, Served, TypeOK, Ids
  <2> QED
    BY <1>17, <2>1 DEF QueryRows, desk, rules, TypeOK
<1>18. ASSUME FillList(t)
       PROVE  Typed'
  <2>1. PICK id \in threads[t].rows :
          /\ memory' = [memory EXCEPT ![threads[t].list] = @ \cup {id}]
          /\ threads' = [threads EXCEPT ![t].rows = @ \ {id}]
    BY <1>18 DEF FillList
  <2>2. threads[t] \in LoadOf
    BY <1>11, <1>18 DEF FillList, At
  <2>3. [threads[t] EXCEPT !.rows = @ \ {id}] \in Served
    BY <2>2 DEF LoadOf, Served
  <2> QED
    BY <1>18, <2>1, <2>2, <2>3 DEF FillList, desk, LoadOf, TypeOK, Ids
<1>19. ASSUME NumberRules(t)
       PROVE  Typed'
  <2>1. threads[t].list \in Kinds
    BY <1>11, <1>19 DEF NumberRules, At, LoadOf
  <2>2. NextOf(memory[threads[t].list]) \in Nat \ {0}
    BY <2>1, NextOfType DEF TypeOK, Ids
  <2>3. \A l \in ListsAfter(threads[t].list) : Loading("clear", Lists[l]) \in Served
    BY FollowingIsKind DEF Loading, Served, LoadOf
  <2> QED
    BY <1>19, <2>1, <2>2, <2>3 DEF NumberRules, Become, desk, TypeOK, Served
<1>20. ASSUME StatementFails(t)
       PROVE  Typed'
  BY <1>11, <1>20 DEF StatementFails, At, Become, desk, LoadOf, TypeOK, Served
<1> QED
  BY <1>1, <1>2, <1>3, <1>4, <1>5, <1>6, <1>8, <1>9, <1>12, <1>13, <1>14, <1>15, <1>16,
     <1>17, <1>18, <1>19, <1>20 DEF Step

LEMMA RestartTyped == Typed /\ Restart => Typed'
<1> SUFFICES ASSUME Typed, Restart PROVE Typed'
  OBVIOUS
<1>1. stored' \in [Kinds -> SUBSET Ids]
  BY BoundsAreNat DEF Typed, TypeOK, Restart, DefaultRules, Ids
<1>2. next' \in [Kinds -> Nat \ {0}]
  BY <1>1, NextOfType DEF Restart
<1> QED
  BY <1>1, <1>2 DEF Typed, TypeOK, Restart, desk, Served, Ids

LEMMA NextTyped == Typed /\ [Next]_vars => Typed'
<1>1. Typed /\ UNCHANGED vars => Typed'
  BY DEF Typed, TypeOK, vars
<1> QED
  BY <1>1, StepTyped, RestartTyped DEF Next

\* Incidents keep one of the six statuses, and lists hold identifiers.
THEOREM TypeCorrect == Spec => []TypeOK
<1>1. Spec => []Typed
  BY InitTyped, NextTyped, PTL DEF Spec
<1> QED
  BY <1>1, PTL DEF Typed

-----------------------------------------------------------------------------
(* The closing stamp *)

LEMMA StampKept == StampTellsStatus /\ UNCHANGED desk => StampTellsStatus'
BY DEF StampTellsStatus, desk

LEMMA UpdateStamps ==
  ASSUME Typed, StampTellsStatus, NEW t \in Threads, WriteUpdate(t)
  PROVE  StampTellsStatus'
<1> DEFINE i      == threads[t].incident
           status == threads[t].status
           before == threads[t].before
<1>1. threads[t] \in UpdateOf
  BY DEF WriteUpdate, At, Typed, Served, IdleThread, ChangeOf, LoadOf
<1>2. i \in Incidents /\ status \in INCIDENT_STATUSES
  BY <1>1 DEF UpdateOf
<1>3. /\ incidents'[i].status = status
      /\ incidents'[i].stamp = StampAfter(before, status, incidents[i].stamp)
  BY <1>2 DEF WriteUpdate, Typed, TypeOK
<1>4. status \in Closed => incidents'[i].stamp
  BY <1>3 DEF StampAfter
<1>5. ASSUME status \notin Closed, incidents'[i].stamp
      PROVE  i \in unsettled'
  <2>1. CASE incidents[i].status # before \/ (before \in Closed /\ status = "failed")
    BY <2>1 DEF WriteUpdate
  <2>2. CASE incidents[i].status = before /\ ~(before \in Closed /\ status = "failed")
    <3>1. ~(before \in Closed /\ status \in Working) /\ incidents[i].stamp
      BY <1>3, <1>5, <2>2 DEF StampAfter
    <3>2. before \notin Closed
      BY <1>2, <1>5, <2>2, <3>1 DEF INCIDENT_STATUSES
    <3>3. i \in unsettled
      BY <1>2, <2>2, <3>1, <3>2 DEF StampTellsStatus
    <3> QED
      BY <1>5, <2>2, <3>2, <3>3 DEF WriteUpdate
  <2> QED
    BY <2>1, <2>2
<1>6. ASSUME NEW j \in Incidents, j # i
      PROVE  incidents'[j] = incidents[j] /\ (j \in unsettled => j \in unsettled')
  BY <1>2, <1>6 DEF WriteUpdate, Typed, TypeOK
<1> HIDE DEF i, status, before
<1> QED
  BY <1>3, <1>4, <1>5, <1>6 DEF StampTellsStatus

LEMMA RequestStamps ==
  ASSUME Typed, StampTellsStatus, NEW t \in Threads, NEW i \in Incidents,
         RequestApproval(t, i)
  PROVE  StampTellsStatus'
<1>1. /\ incidents'[i].status = "waiting_for_approval"
      /\ incidents'[i].stamp = incidents[i].stamp
      /\ incidents[i].stamp => i \in unsettled'
  BY DEF RequestApproval, Typed, TypeOK
<1>2. ASSUME NEW j \in Incidents, j # i
      PROVE  incidents'[j] = incidents[j] /\ (j \in unsettled => j \in unsettled')
  BY <1>2 DEF RequestApproval, Typed, TypeOK
<1>3. "waiting_for_approval" \notin Closed
  BY DEF Closed
<1> QED
  BY <1>1, <1>2, <1>3 DEF StampTellsStatus

LEMMA NextStamps == Typed /\ StampTellsStatus /\ [Next]_vars => StampTellsStatus'
<1> SUFFICES ASSUME Typed, StampTellsStatus, [Next]_vars
             PROVE  StampTellsStatus'
  OBVIOUS
<1>1. CASE Restart
  BY <1>1, StampKept DEF Restart
<1>2. ASSUME NEW t \in Threads, Step(t)
      PROVE  StampTellsStatus'
  <2>1. CASE WriteUpdate(t)
    BY <2>1, UpdateStamps
  <2>2. CASE \E i \in Incidents : RequestApproval(t, i)
    BY <2>2, RequestStamps
  <2>3. CASE UNCHANGED desk
    BY <2>3, StampKept
  <2> QED
    BY <1>2, <2>1, <2>2, <2>3
       DEF Step, ChangeStatus, Close, Reopen, BeginUpdate, CreateRule, DeleteRule,
           ChangePlaybook, InsertRule, AppendRule, AdvanceNext, RemoveRule, ClearList,
           QueryRows, FillList, NumberRules, StatementFails
<1>3. CASE UNCHANGED vars
  BY <1>3, StampKept DEF vars, desk
<1> QED
  BY <1>1, <1>2, <1>3 DEF Next

\* Closed incidents are stamped, however requests overlap, and no other incident is
\* unless an approval request, a failure or an overlap came over a closed one.
THEOREM StampIsRight == Spec => []StampTellsStatus
<1>1. Init => StampTellsStatus
  BY DEF Init, StampTellsStatus, Closed
<1>2. Spec => [](Typed /\ StampTellsStatus)
  BY <1>1, InitTyped, NextTyped, NextStamps, PTL DEF Spec
<1> QED
  BY <1>2, PTL

-----------------------------------------------------------------------------
(* The lists in memory *)

\* A step of one thread leaves what another provides.
LEMMA OthersProvide ==
  ASSUME NEW t \in Threads, NEW u \in Threads, u # t, NEW k, NEW id,
         Provides(u, k, id), threads'[u] = threads[u]
  PROVE  Provides(u, k, id)'
BY DEF Provides, At

LEMMA StepProvides ==
  ASSUME Typed, EachIsProvided, NEW t \in Threads, Step(t)
  PROVE  EachIsProvided'
<1>1. \A u \in Threads : u # t => threads'[u] = threads[u]
  BY DEF Step, ChangeStatus, Close, Reopen, BeginUpdate, CreateRule, DeleteRule,
         ChangePlaybook, WriteUpdate, RequestApproval, InsertRule, AppendRule,
         AdvanceNext, RemoveRule, ClearList, QueryRows, FillList, NumberRules,
         StatementFails, Receive, Become, GoTo, Typed
<1> DEFINE Kept(k, id) ==
      \/ id \in memory'[k]
      \/ Provides(t, k, id)'
<1>2. ASSUME NEW k \in Kinds, NEW id, Provided(k, id),
             id \in memory[k] => Kept(k, id), Provides(t, k, id) => Kept(k, id)
      PROVE  Provided(k, id)'
  <2>1. CASE id \in memory[k] \/ Provides(t, k, id)
    BY <1>2, <2>1 DEF Provided
  <2>2. ASSUME NEW u \in Threads, u # t, Provides(u, k, id)
        PROVE  Provided(k, id)'
    BY <1>1, <2>2, OthersProvide DEF Provided
  <2> QED
    BY <1>2, <2>1, <2>2 DEF Provided
<1> HIDE DEF Kept
<1>3. ASSUME UNCHANGED <<stored, memory, unloaded>>,
             \A k, id : ~Provides(t, k, id)
      PROVE  EachIsProvided'
  <2>1. ASSUME NEW k \in Kinds, NEW id, Provided(k, id)
        PROVE  Provided(k, id)'
    BY <1>2, <1>3, <2>1 DEF Kept
  <2> QED
    BY <1>3, <2>1 DEF EachIsProvided
<1>4. ASSUME At(t, "idle") \/ At(t, "update") \/ At(t, "advance") \/ At(t, "clear")
               \/ At(t, "insert") \/ At(t, "delete")
      PROVE  \A k, id : ~Provides(t, k, id)
  BY <1>4 DEF Provides, At
<1>5. CASE At(t, "idle")
  <2>1. UNCHANGED <<stored, memory, unloaded>>
    BY <1>5 DEF Step, At, ChangeStatus, Close, Reopen, BeginUpdate, CreateRule,
         DeleteRule, ChangePlaybook, WriteUpdate, RequestApproval, InsertRule, AppendRule,
         AdvanceNext, RemoveRule, ClearList, QueryRows, FillList, NumberRules,
         StatementFails, rules
  <2> QED
    BY <1>3, <1>4, <1>5, <2>1
<1>6. CASE WriteUpdate(t) \/ AdvanceNext(t)
  <2>1. UNCHANGED <<stored, memory, unloaded>> /\ (At(t, "update") \/ At(t, "advance"))
    BY <1>6 DEF WriteUpdate, AdvanceNext, rules
  <2> QED
    BY <1>3, <1>4, <2>1
<1>7. CASE InsertRule(t)
  <2> DEFINE l == threads[t].list
             new == threads[t].id
  <2>1. threads[t] \in ChangeOf
    BY <1>7 DEF InsertRule, At, Typed, Served, IdleThread, UpdateOf, LoadOf
  <2>2. \A k \in Kinds : \A id \in stored'[k] :
          id \in stored[k] \/ (k = l /\ id = new /\ new \notin stored[k])
    BY <1>7, <2>1 DEF InsertRule, Typed, TypeOK, ChangeOf
  <2>3. ASSUME NEW k \in Kinds, NEW id, k = l, id = new, new \notin stored[k]
        PROVE  Provides(t, k, id)'
    BY <1>7, <2>1, <2>3 DEF InsertRule, GoTo, Provides, At, Typed, ChangeOf
  <2>4. ASSUME NEW k \in Kinds, NEW id, Provided(k, id)
        PROVE  Provided(k, id)'
    BY <1>2, <1>4, <1>7, <2>4 DEF InsertRule, Kept
  <2> HIDE DEF l, new
  <2>5. ASSUME NEW k \in Kinds, k \notin unloaded, NEW id \in stored'[k]
        PROVE  Provided(k, id)'
    <3>1. CASE id \in stored[k]
      BY <2>4, <2>5, <3>1 DEF EachIsProvided
    <3>2. CASE k = l /\ id = new /\ new \notin stored[k]
      BY <2>3, <3>2 DEF Provided
    <3> QED
      BY <2>2, <3>1, <3>2
  <2> QED
    BY <1>7, <2>5 DEF EachIsProvided, InsertRule
<1>8. CASE AppendRule(t)
  <2>1. threads[t] \in ChangeOf
    BY <1>8 DEF AppendRule, At, Typed, Served, IdleThread, UpdateOf, LoadOf
  <2>2. \A k \in Kinds : \A id : id \in memory[k] => id \in memory'[k]
    BY <1>8, <2>1 DEF AppendRule, Typed, TypeOK, ChangeOf
  <2>3. \A k \in Kinds : \A id : Provides(t, k, id) => id \in memory'[k]
    BY <1>8, <2>1 DEF AppendRule, Provides, At, Typed, TypeOK, ChangeOf
  <2>4. \A k \in Kinds : \A id : Provided(k, id) => Provided(k, id)'
    BY <1>2, <2>2, <2>3 DEF Kept
  <2> QED
    BY <1>8, <2>4 DEF AppendRule, EachIsProvided
<1>9. CASE RemoveRule(t)
  <2>1. threads[t] \in ChangeOf
    BY <1>9 DEF RemoveRule, At, Typed, Served, IdleThread, UpdateOf, LoadOf
  <2>2. \A k \in Kinds : stored'[k] \subseteq stored[k]
    BY <1>9, <2>1 DEF RemoveRule, Typed, TypeOK, ChangeOf
  <2>3. ASSUME NEW k \in Kinds, NEW id, Provided(k, id)
        PROVE  Provided(k, id)'
    BY <1>2, <1>4, <1>9, <2>3 DEF RemoveRule, Kept
  <2> QED
    BY <1>9, <2>2, <2>3 DEF RemoveRule, EachIsProvided
<1>10. ASSUME threads[t].pc \in {"clear", "query", "fill"}
       PROVE  threads[t] \in LoadOf
  BY <1>10 DEF Typed, Served, IdleThread, UpdateOf, ChangeOf
<1>11. CASE ClearList(t)
  <2> DEFINE l == threads[t].list
  <2>1. l \in Kinds /\ threads[t] \in LoadOf
    BY <1>10, <1>11 DEF ClearList, At, LoadOf
  <2>2. ASSUME NEW k \in Kinds, NEW id, k = l
        PROVE  Provides(t, k, id)'
    BY <1>11, <2>1, <2>2 DEF ClearList, GoTo, Provides, At, Typed, LoadOf
  <2>3. \A k \in Kinds : k # l => memory'[k] = memory[k]
    BY <1>11, <2>1 DEF ClearList, Typed, TypeOK
  <2> HIDE DEF l
  <2>4. ASSUME NEW k \in Kinds, NEW id, Provided(k, id)
        PROVE  Provided(k, id)'
    <3>1. CASE k = l
      BY <2>2, <3>1 DEF Provided
    <3>2. CASE k # l
      BY <1>2, <1>4, <1>11, <2>3, <2>4, <3>2 DEF ClearList, Kept
    <3> QED
      BY <3>1, <3>2
  <2> QED
    BY <1>11, <2>4 DEF ClearList, EachIsProvided
<1>12. CASE QueryRows(t)
  <2>1. threads[t] \in LoadOf
    BY <1>10, <1>12 DEF QueryRows, At
  <2>2. ASSUME NEW k \in Kinds, NEW id \in stored[k], Provides(t, k, id)
        PROVE  Provides(t, k, id)'
    BY <1>12, <2>1, <2>2 DEF QueryRows, Provides, At, Typed, LoadOf
  <2>3. ASSUME NEW k \in Kinds, NEW id \in stored[k], Provided(k, id)
        PROVE  Provided(k, id)'
    BY <1>2, <1>12, <2>2, <2>3 DEF QueryRows, rules, Kept
  <2> QED
    BY <1>12, <2>3 DEF QueryRows, rules, EachIsProvided
<1>13. CASE FillList(t)
  <2>1. PICK row \in threads[t].rows :
          /\ memory' = [memory EXCEPT ![threads[t].list] = @ \cup {row}]
          /\ threads' = [threads EXCEPT ![t].rows = @ \ {row}]
    BY <1>13 DEF FillList
  <2>2. threads[t] \in LoadOf
    BY <1>10, <1>13 DEF FillList, At
  <2>3. \A k \in Kinds : \A id : id \in memory[k] => id \in memory'[k]
    BY <2>1, <2>2 DEF Typed, TypeOK, LoadOf
  <2>4. ASSUME NEW k \in Kinds, NEW id, Provides(t, k, id)
        PROVE  Kept(k, id)
    <3>1. k = threads[t].list /\ id \in threads[t].rows
      BY <1>13, <2>4 DEF FillList, Provides, At
    <3>2. CASE id = row
      BY <2>1, <2>2, <3>1, <3>2 DEF Kept, Typed, TypeOK, LoadOf
    <3>3. CASE id # row
      BY <1>13, <2>1, <2>2, <3>1, <3>3 DEF FillList, Kept, Provides, At, Typed, LoadOf
    <3> QED
      BY <3>2, <3>3
  <2>5. \A k \in Kinds : \A id : Provided(k, id) => Provided(k, id)'
    BY <1>2, <2>3, <2>4 DEF Kept
  <2> QED
    BY <1>13, <2>5 DEF FillList, EachIsProvided
<1>14. CASE NumberRules(t)
  <2>1. UNCHANGED <<stored, memory, unloaded>>
    BY <1>14 DEF NumberRules
  <2>2. \A k, id : ~Provides(t, k, id)
    BY <1>14 DEF NumberRules, Provides, At
  <2> QED
    BY <1>3, <2>1, <2>2
<1>15. CASE StatementFails(t)
  <2>1. CASE At(t, "query")
    <3>1. unloaded' = unloaded \cup {threads[t].list}
      BY <1>15, <2>1 DEF StatementFails
    <3>2. ASSUME NEW k \in Kinds, k # threads[t].list, NEW id, Provided(k, id)
          PROVE  Provided(k, id)'
      <4>1. ~Provides(t, k, id)
        BY <2>1, <3>2 DEF Provides, At
      <4> QED
        BY <1>2, <1>15, <3>2, <4>1 DEF StatementFails, Kept
    <3> QED
      BY <1>15, <3>1, <3>2 DEF StatementFails, EachIsProvided
  <2>2. CASE ~At(t, "query")
    <3>1. UNCHANGED <<stored, memory, unloaded>> /\ \A k, id : ~Provides(t, k, id)
      BY <1>15, <2>2 DEF StatementFails, Provides, At
    <3> QED
      BY <1>3, <3>1
  <2> QED
    BY <2>1, <2>2
<1>16. \/ At(t, "idle") \/ WriteUpdate(t) \/ AdvanceNext(t) \/ InsertRule(t)
       \/ AppendRule(t) \/ RemoveRule(t) \/ ClearList(t) \/ QueryRows(t)
       \/ FillList(t) \/ NumberRules(t) \/ StatementFails(t)
  BY DEF Step, ChangeStatus, Close, Reopen, BeginUpdate, CreateRule, DeleteRule,
         ChangePlaybook, RequestApproval, Receive
<1> QED
  BY <1>5, <1>6, <1>7, <1>8, <1>9, <1>11, <1>12, <1>13, <1>14, <1>15, <1>16

LEMMA RestartProvides == Typed /\ Restart => EachIsProvided'
BY DEF Typed, TypeOK, Restart, EachIsProvided, Provided

LEMMA NextProvides == Typed /\ EachIsProvided /\ [Next]_vars => EachIsProvided'
<1>1. EachIsProvided /\ UNCHANGED vars => EachIsProvided'
  BY DEF EachIsProvided, Provided, Provides, At, vars
<1> QED
  BY <1>1, StepProvides, RestartProvides DEF Next

\* However creations, deletions, reloads, failures and restarts overlap, a stored rule
\* that no thread is bringing to its list is in it.
THEOREM RulesAreLoaded == Spec => []TableIsLoaded
<1>1. Init => EachIsProvided
  BY DEF Init, EachIsProvided, Provided
<1>2. EachIsProvided => TableIsLoaded
  <2> SUFFICES ASSUME EachIsProvided, NEW k \in Kinds, k \notin unloaded,
                      NEW id \in stored[k], id \notin memory[k]
               PROVE  \E t \in Threads : /\ threads[t].pc \in {"append", "query", "fill"}
                                         /\ threads[t].list = k
    BY DEF TableIsLoaded
  <2> QED
    BY DEF EachIsProvided, Provided, Provides, At
<1>3. Spec => [](Typed /\ EachIsProvided)
  BY <1>1, InitTyped, NextTyped, NextProvides, PTL DEF Spec
<1> QED
  BY <1>2, <1>3, PTL
=============================================================================
