------------------------ MODULE MissionServiceProofs ------------------------
(***************************************************************************)
(* Theorems about MissionService, for every finite set of concurrent       *)
(* requests and every number of registrations, policies and edits.         *)
(*                                                                         *)
(* The argument: reservations count their holders, so a pair somebody      *)
(* holds has a positive count and register refuses to replace it; hence    *)
(* what a holder reserved is still there when execute looks it up again.   *)
(***************************************************************************)
EXTENDS MissionService, FiniteSetTheorems, TLAPS

\* Where a request holds its reservation.
Holding == {"reserved", "current", "stale", "starting", "executing", "releasing"}

\* What dispatch can have returned, with the executor called and without.
Performed == {"succeeded", "failed", "cancelled", "timed_out"}
Unperformed == {"not_performed", "raised"}

\* One request: what its place in the code says of its registration and its task.
RequestInv(p) ==
  /\ selected[p] <= made
  /\ pc[p] \in Holding => entry[keyOf[p]] = selected[p]
  /\ pc[p] \notin {"received", "done"} => selected[p] # None
  /\ pc[p] \notin {"executing", "releasing", "recording", "done"} => ran[p] = None
  /\ pc[p] = "executing" => ran[p] # None
  /\ pc[p] \in {"releasing", "recording"} =>
       \/ ran[p] # None /\ outcome[p] \in Performed /\ task[p] = "in_progress"
       \/ ran[p] = None /\ outcome[p] \in Unperformed /\ task[p] = "assigned"
  /\ pc[p] = "received" => task[p] = "none" /\ selected[p] = None
  /\ pc[p] = "selected" => task[p] = "pending"
  /\ pc[p] \in {"authorised", "identified", "snapshot", "dispatching",
                "reserved", "current", "stale"} => task[p] = "assigned"
  /\ pc[p] \in {"starting", "executing"} => task[p] = "in_progress"
  /\ pc[p] = "done" <=> status[p] # "none"
  /\ ran[p] # None => ran[p] = selected[p]

IInv ==
  /\ TypeOK
  /\ ReservationsBalance
  /\ \A k \in Key : entry[k] <= made
  /\ \A p \in Request : RequestInv(p)
  /\ ResultMatchesTask

\* A step of one thread: the registry and every other request stay as they are.
OnlyThread(p) ==
  /\ UNCHANGED <<entry, made, keyOf>>
  /\ \A q \in Request \ {p} :
       /\ pc'[q] = pc[q] /\ selected'[q] = selected[q] /\ outcome'[q] = outcome[q]
       /\ task'[q] = task[q] /\ status'[q] = status[q] /\ ran'[q] = ran[q]

\* The result of one request agrees with its task.
ResultInv(p) ==
  /\ status[p] \in {"completed", "cancelled"} => task[p] = status[p] /\ Started(p)
  /\ status[p] = "rejected" => task[p] = "rejected" /\ ~Started(p)
  /\ status[p] = "awaiting_approval" => task[p] \in {"none", "blocked"} /\ ~Started(p)
  /\ status[p] = "failed" => (task[p] = "failed" <=> Started(p))
  /\ status[p] = "none" => task[p] \notin TerminalStates \cup {"failed", "blocked"}

-----------------------------------------------------------------------------
(* Counting holders.                                                       *)

\* There are finitely many holders of a pair.
LEMMA HoldersFinite ==
  ASSUME NEW k \in Key
  PROVE  IsFiniteSet(Holders(k)) /\ Cardinality(Holders(k)) \in Nat
<1>1. Holders(k) \subseteq Request
  BY DEF Holders
<1> QED
  BY <1>1, ServiceAssumption, FS_Subset, FS_CardinalityType DEF ServiceAssumption

\* A thread that neither takes nor releases a reservation leaves the balance alone.
LEMMA BalanceStays ==
  ASSUME TypeOK, ReservationsBalance, NEW p \in Request, NEW place \in Places,
         pc' = [pc EXCEPT ![p] = place],
         place \in Holding <=> pc[p] \in Holding,
         UNCHANGED <<keyOf, reservations>>
  PROVE  ReservationsBalance'
<1>1. \A k \in Key : Holders(k)' = Holders(k)
  BY DEF Holders, Holding, TypeOK
<1> QED
  BY <1>1 DEF ReservationsBalance

\* Taking a reservation adds one holder and one to the count.
LEMMA BalanceTaken ==
  ASSUME TypeOK, ReservationsBalance, NEW p \in Request, NEW place \in Holding,
         pc' = [pc EXCEPT ![p] = place], pc[p] \notin Holding,
         reservations' = [reservations EXCEPT ![keyOf[p]] = @ + 1],
         UNCHANGED keyOf
  PROVE  ReservationsBalance'
<1> SUFFICES ASSUME NEW k \in Key
             PROVE  reservations'[k] = Cardinality(Holders(k)')
  BY DEF ReservationsBalance
<1>1. reservations[k] = Cardinality(Holders(k)) /\ reservations[k] \in Nat
  BY DEF ReservationsBalance, TypeOK
<1>2. CASE k = keyOf[p]
  <2>1. Holders(k)' = Holders(k) \cup {p} /\ p \notin Holders(k)
    BY <1>2 DEF Holders, Holding, TypeOK
  <2>2. Cardinality(Holders(k)') = Cardinality(Holders(k)) + 1
    BY <2>1, HoldersFinite, FS_AddElement
  <2> QED
    BY <1>1, <1>2, <2>2 DEF TypeOK
<1>3. CASE k # keyOf[p]
  <2>1. Holders(k)' = Holders(k)
    BY <1>3 DEF Holders, Holding, TypeOK
  <2> QED
    BY <1>1, <1>3, <2>1 DEF TypeOK
<1> QED
  BY <1>2, <1>3

\* Releasing it removes one holder and one from the count.
LEMMA BalanceReleased ==
  ASSUME TypeOK, ReservationsBalance, NEW p \in Request, NEW place \in Places \ Holding,
         pc' = [pc EXCEPT ![p] = place], pc[p] \in Holding,
         reservations' = [reservations EXCEPT ![keyOf[p]] = @ - 1],
         UNCHANGED keyOf
  PROVE  ReservationsBalance' /\ reservations' \in [Key -> Nat]
<1>1. ASSUME NEW k \in Key
      PROVE  reservations'[k] = Cardinality(Holders(k)') /\ reservations'[k] \in Nat
  <2>1. reservations[k] = Cardinality(Holders(k)) /\ reservations[k] \in Nat
    BY DEF ReservationsBalance, TypeOK
  <2>2. CASE k = keyOf[p]
    <3>1. Holders(k)' = Holders(k) \ {p} /\ p \in Holders(k)
      BY <2>2 DEF Holders, Holding, TypeOK
    <3>2. Cardinality(Holders(k)') = Cardinality(Holders(k)) - 1 /\ IsFiniteSet(Holders(k)')
      BY <3>1, HoldersFinite, FS_RemoveElement
    <3>3. Cardinality(Holders(k)') \in Nat
      BY <3>2, FS_CardinalityType
    <3> QED
      BY <2>1, <2>2, <3>2, <3>3 DEF TypeOK
  <2>3. CASE k # keyOf[p]
    <3>1. Holders(k)' = Holders(k)
      BY <2>3 DEF Holders, Holding, TypeOK
    <3> QED
      BY <2>1, <2>3, <3>1 DEF TypeOK
  <2> QED
    BY <2>2, <2>3
<1>2. reservations' \in [Key -> Nat]
  BY <1>1 DEF TypeOK
<1> QED
  BY <1>1, <1>2 DEF ReservationsBalance

\* A pair somebody holds has a positive count.
LEMMA HeldIsCounted ==
  ASSUME ReservationsBalance, NEW k \in Key, Holders(k) # {}
  PROVE  reservations[k] # 0
BY HoldersFinite, FS_EmptySet DEF ReservationsBalance

\* A step of one thread keeps the invariant if it keeps that thread's part of it.
LEMMA OneThreadMoves ==
  ASSUME IInv, NEW p \in Request, OnlyThread(p),
         TypeOK', ReservationsBalance', RequestInv(p)', ResultInv(p)'
  PROVE  IInv'
<1>1. \A k \in Key : entry'[k] <= made'
  BY DEF IInv, OnlyThread
<1>2. ASSUME NEW q \in Request
      PROVE  RequestInv(q)' /\ ResultInv(q)'
  <2>1. CASE q = p
    BY <2>1
  <2>2. CASE q # p
    <3>1. /\ pc'[q] = pc[q] /\ selected'[q] = selected[q] /\ outcome'[q] = outcome[q]
          /\ task'[q] = task[q] /\ status'[q] = status[q] /\ ran'[q] = ran[q]
          /\ entry' = entry /\ made' = made /\ keyOf' = keyOf
      BY <2>2 DEF OnlyThread
    <3>2. RequestInv(q) /\ ResultInv(q)
      BY DEF IInv, ResultMatchesTask, ResultInv
    <3> QED
      BY <3>1, <3>2 DEF RequestInv, ResultInv, Started
  <2> QED
    BY <2>1, <2>2
<1>3. ResultMatchesTask'
  BY <1>2 DEF ResultMatchesTask, ResultInv
<1> QED
  BY <1>1, <1>2, <1>3 DEF IInv

-----------------------------------------------------------------------------
(* The actions of a request.                                               *)

\* What the invariant says of one request.
LEMMA AboutRequest ==
  ASSUME IInv, NEW p \in Request
  PROVE  TypeOK /\ ReservationsBalance /\ RequestInv(p) /\ ResultInv(p)
BY DEF IInv, ResultMatchesTask, ResultInv

\* A request refused at the front never touches the registry.
LEMMA RefusePreserves ==
  ASSUME IInv, NEW p \in Request, Refuse(p)
  PROVE  IInv'
<1> USE AboutRequest DEF At, Goto, Finish
<1>1. ReservationsBalance'
  <2>1. PICK place \in {"done"} : pc' = [pc EXCEPT ![p] = place]
    BY DEF Refuse
  <2>2. place \in Places /\ (place \in Holding <=> pc[p] \in Holding)
    BY <2>1 DEF Refuse, Places, Holding
  <2>3. UNCHANGED <<keyOf, reservations>>
    BY DEF Refuse, shared
  <2> QED
    BY <2>1, <2>2, <2>3, BalanceStays
<1>2. TypeOK'
  BY DEF Refuse, TypeOK, Places, TaskState, ApprovalState, Outcome, Status, shared, policies
<1>3. CASE Finish(p, "failed")
  <2>1. OnlyThread(p)
    BY <1>3 DEF Refuse, OnlyThread, TypeOK, shared
  <2>2. RequestInv(p)'
    BY <1>3 DEF Refuse, RequestInv, TypeOK, shared, Holding, Performed, Unperformed
  <2>3. ResultInv(p)'
    BY <1>3 DEF Refuse, ResultInv, RequestInv, Started, TypeOK, TerminalStates, Performed, Unperformed
  <2> QED
    BY <1>1, <1>2, <2>1, <2>2, <2>3, OneThreadMoves
<1>4. CASE Finish(p, "unrouteable")
  <2>1. OnlyThread(p)
    BY <1>4 DEF Refuse, OnlyThread, TypeOK, shared
  <2>2. RequestInv(p)'
    BY <1>4 DEF Refuse, RequestInv, TypeOK, shared, Holding, Performed, Unperformed
  <2>3. ResultInv(p)'
    BY <1>4 DEF Refuse, ResultInv, RequestInv, Started, TypeOK, TerminalStates, Performed, Unperformed
  <2> QED
    BY <1>1, <1>2, <2>1, <2>2, <2>3, OneThreadMoves
<1>5. CASE Finish(p, "awaiting_approval")
  <2>1. OnlyThread(p)
    BY <1>5 DEF Refuse, OnlyThread, TypeOK, shared
  <2>2. RequestInv(p)'
    BY <1>5 DEF Refuse, RequestInv, TypeOK, shared, Holding, Performed, Unperformed
  <2>3. ResultInv(p)'
    BY <1>5 DEF Refuse, ResultInv, RequestInv, Started, TypeOK, TerminalStates, Performed, Unperformed
  <2> QED
    BY <1>1, <1>2, <2>1, <2>2, <2>3, OneThreadMoves
<1> QED
  BY <1>3, <1>4, <1>5 DEF Refuse

\* Selecting a registration binds the request to it.
LEMMA SelectPreserves ==
  ASSUME IInv, NEW p \in Request, Select(p)
  PROVE  IInv'
<1> USE AboutRequest DEF At, Goto, Finish, SetTask
<1>1. ReservationsBalance'
  <2>1. PICK place \in {"done", "selected"} : pc' = [pc EXCEPT ![p] = place]
    BY DEF Select
  <2>2. place \in Places /\ (place \in Holding <=> pc[p] \in Holding)
    BY <2>1 DEF Select, Places, Holding
  <2>3. UNCHANGED <<keyOf, reservations>>
    BY DEF Select, shared
  <2> QED
    BY <2>1, <2>2, <2>3, BalanceStays
<1>2. TypeOK'
  <2>1. entry[keyOf[p]] \in Registration \cup {None}
    BY DEF TypeOK
  <2>2. pc' \in [Request -> Places] /\ status' \in [Request -> Status]
    BY DEF Select, TypeOK, Places, Status
  <2>3. selected' \in [Request -> Registration \cup {None}]
    BY <2>1 DEF Select, TypeOK
  <2>4. task' \in [Request -> TaskState \cup {"none"}] /\ approval' \in [Request -> ApprovalState]
    BY DEF Select, TypeOK, TaskState, ApprovalState
  <2>5. UNCHANGED <<shared, policies, keyOf, passed, outcome, ran>>
    BY DEF Select
  <2> QED
    BY <2>2, <2>3, <2>4, <2>5 DEF TypeOK, shared, policies
<1>3. CASE Finish(p, "unsupported") /\ UNCHANGED <<selected, task, approval>>
  <2>1. OnlyThread(p)
    BY <1>3 DEF Select, OnlyThread, TypeOK, shared
  <2>2. RequestInv(p)'
    BY <1>3 DEF Select, RequestInv, TypeOK, shared, Holding, Performed, Unperformed
  <2>3. ResultInv(p)'
    BY <1>3 DEF Select, ResultInv, RequestInv, Started, TypeOK, TerminalStates, Performed, Unperformed
  <2> QED
    BY <1>1, <1>2, <2>1, <2>2, <2>3, OneThreadMoves
<1>4. CASE Finish(p, "failed") /\ UNCHANGED <<selected, task, approval>>
  <2>1. OnlyThread(p)
    BY <1>4 DEF Select, OnlyThread, TypeOK, shared
  <2>2. RequestInv(p)'
    BY <1>4 DEF Select, RequestInv, TypeOK, shared, Holding, Performed, Unperformed
  <2>3. ResultInv(p)'
    BY <1>4 DEF Select, ResultInv, RequestInv, Started, TypeOK, TerminalStates, Performed, Unperformed
  <2> QED
    BY <1>1, <1>2, <2>1, <2>2, <2>3, OneThreadMoves
<1>5. CASE /\ Goto(p, "selected")
           /\ entry[keyOf[p]] # None
           /\ selected' = [selected EXCEPT ![p] = entry[keyOf[p]]]
           /\ SetTask(p, "pending", "not_required")
           /\ UNCHANGED status
  <2>1. OnlyThread(p)
    BY <1>5 DEF Select, OnlyThread, TypeOK, shared
  <2>2. entry[keyOf[p]] <= made
    BY DEF IInv, TypeOK
  <2>3. RequestInv(p)'
    BY <1>5, <2>2 DEF Select, RequestInv, TypeOK, shared, Holding, Performed, Unperformed
  <2>4. ResultInv(p)'
    BY <1>5 DEF Select, ResultInv, RequestInv, Started, TypeOK, TerminalStates, Performed, Unperformed
  <2> QED
    BY <1>1, <1>2, <2>1, <2>3, <2>4, OneThreadMoves
<1> QED
  BY <1>3, <1>4, <1>5 DEF Select

\* The first gate closes, parks or admits the task.
LEMMA GatePreserves ==
  ASSUME IInv, NEW p \in Request, Gate(p)
  PROVE  IInv'
<1> USE AboutRequest DEF At, Goto, Finish, SetTask
<1>1. ReservationsBalance'
  <2>1. PICK place \in {"done", "authorised"} : pc' = [pc EXCEPT ![p] = place]
    BY DEF Gate
  <2>2. place \in Places /\ (place \in Holding <=> pc[p] \in Holding)
    BY <2>1 DEF Gate, Places, Holding
  <2>3. UNCHANGED <<keyOf, reservations>>
    BY DEF Gate, shared
  <2> QED
    BY <2>1, <2>2, <2>3, BalanceStays
<1>2. TypeOK'
  BY DEF Gate, TypeOK, Places, TaskState, ApprovalState, Outcome, Status, shared, policies
<1>3. CASE Finish(p, "failed") /\ UNCHANGED <<task, approval>>
  <2>1. OnlyThread(p)
    BY <1>3 DEF Gate, OnlyThread, TypeOK, shared
  <2>2. RequestInv(p)'
    BY <1>3 DEF Gate, RequestInv, TypeOK, shared, Holding, Performed, Unperformed
  <2>3. ResultInv(p)'
    BY <1>3 DEF Gate, ResultInv, RequestInv, Started, TypeOK, TerminalStates, Performed, Unperformed
  <2> QED
    BY <1>1, <1>2, <2>1, <2>2, <2>3, OneThreadMoves
<1>4. CASE SetTask(p, "blocked", "pending") /\ Finish(p, "awaiting_approval")
  <2>1. OnlyThread(p)
    BY <1>4 DEF Gate, OnlyThread, TypeOK, shared
  <2>2. RequestInv(p)'
    BY <1>4 DEF Gate, RequestInv, TypeOK, shared, Holding, Performed, Unperformed
  <2>3. ResultInv(p)'
    BY <1>4 DEF Gate, ResultInv, RequestInv, Started, TypeOK, TerminalStates, Performed, Unperformed
  <2> QED
    BY <1>1, <1>2, <2>1, <2>2, <2>3, OneThreadMoves
<1>5. CASE SetTask(p, "blocked", "escalated") /\ Finish(p, "awaiting_approval")
  <2>1. OnlyThread(p)
    BY <1>5 DEF Gate, OnlyThread, TypeOK, shared
  <2>2. RequestInv(p)'
    BY <1>5 DEF Gate, RequestInv, TypeOK, shared, Holding, Performed, Unperformed
  <2>3. ResultInv(p)'
    BY <1>5 DEF Gate, ResultInv, RequestInv, Started, TypeOK, TerminalStates, Performed, Unperformed
  <2> QED
    BY <1>1, <1>2, <2>1, <2>2, <2>3, OneThreadMoves
<1>6. CASE SetTask(p, "rejected", approval[p]) /\ Finish(p, "rejected")
  <2>1. OnlyThread(p)
    BY <1>6 DEF Gate, OnlyThread, TypeOK, shared
  <2>2. RequestInv(p)'
    BY <1>6 DEF Gate, RequestInv, TypeOK, shared, Holding, Performed, Unperformed
  <2>3. ResultInv(p)'
    BY <1>6 DEF Gate, ResultInv, RequestInv, Started, TypeOK, TerminalStates, Performed, Unperformed
  <2> QED
    BY <1>1, <1>2, <2>1, <2>2, <2>3, OneThreadMoves
<1>7. CASE SetTask(p, "assigned", approval[p]) /\ Goto(p, "authorised") /\ UNCHANGED status
  <2>1. OnlyThread(p)
    BY <1>7 DEF Gate, OnlyThread, TypeOK, shared
  <2>2. RequestInv(p)'
    BY <1>7 DEF Gate, RequestInv, TypeOK, shared, Holding, Performed, Unperformed
  <2>3. ResultInv(p)'
    BY <1>7 DEF Gate, ResultInv, RequestInv, Started, TypeOK, TerminalStates, Performed, Unperformed
  <2> QED
    BY <1>1, <1>2, <2>1, <2>2, <2>3, OneThreadMoves
<1> QED
  BY <1>3, <1>4, <1>5, <1>6, <1>7 DEF Gate

\* Reading the policy identity moves no task and no reservation.
LEMMA ReadPolicyIdPreserves ==
  ASSUME IInv, NEW p \in Request, ReadPolicyId(p)
  PROVE  IInv'
<1> USE AboutRequest DEF At, Goto, ReadPolicyId
<1>1. TypeOK'
  BY DEF ReadPolicyId, TypeOK, Places, TaskState, ApprovalState, Outcome, Status, shared, policies
<1>2. OnlyThread(p)
  BY DEF ReadPolicyId, OnlyThread, TypeOK, shared
<1>3. ReservationsBalance'
  <2>1. PICK place \in {"identified"} : pc' = [pc EXCEPT ![p] = place]
    BY DEF ReadPolicyId
  <2>2. place \in Places /\ (place \in Holding <=> pc[p] \in Holding)
    BY <2>1 DEF ReadPolicyId, Places, Holding
  <2>3. UNCHANGED <<keyOf, reservations>>
    BY DEF ReadPolicyId, shared
  <2> QED
    BY <2>1, <2>2, <2>3, BalanceStays
<1>4. RequestInv(p)'
  BY DEF ReadPolicyId, RequestInv, TypeOK, shared, Holding, Performed, Unperformed
<1>5. ResultInv(p)'
  BY DEF ReadPolicyId, ResultInv, RequestInv, Started, TypeOK, TerminalStates, Performed, Unperformed
<1> QED
  BY <1>1, <1>2, <1>3, <1>4, <1>5, OneThreadMoves

\* Reading the policy version moves no task and no reservation.
LEMMA ReadPolicyVersionPreserves ==
  ASSUME IInv, NEW p \in Request, ReadPolicyVersion(p)
  PROVE  IInv'
<1> USE AboutRequest DEF At, Goto, ReadPolicyVersion
<1>1. TypeOK'
  BY DEF ReadPolicyVersion, TypeOK, Places, TaskState, ApprovalState, Outcome, Status, shared, policies
<1>2. OnlyThread(p)
  BY DEF ReadPolicyVersion, OnlyThread, TypeOK, shared
<1>3. ReservationsBalance'
  <2>1. PICK place \in {"snapshot"} : pc' = [pc EXCEPT ![p] = place]
    BY DEF ReadPolicyVersion
  <2>2. place \in Places /\ (place \in Holding <=> pc[p] \in Holding)
    BY <2>1 DEF ReadPolicyVersion, Places, Holding
  <2>3. UNCHANGED <<keyOf, reservations>>
    BY DEF ReadPolicyVersion, shared
  <2> QED
    BY <2>1, <2>2, <2>3, BalanceStays
<1>4. RequestInv(p)'
  BY DEF ReadPolicyVersion, RequestInv, TypeOK, shared, Holding, Performed, Unperformed
<1>5. ResultInv(p)'
  BY DEF ReadPolicyVersion, ResultInv, RequestInv, Started, TypeOK, TerminalStates, Performed, Unperformed
<1> QED
  BY <1>1, <1>2, <1>3, <1>4, <1>5, OneThreadMoves

\* Passing the policy moves no task and no reservation.
LEMMA CallDispatchPreserves ==
  ASSUME IInv, NEW p \in Request, CallDispatch(p)
  PROVE  IInv'
<1> USE AboutRequest DEF At, Goto, CallDispatch
<1>1. TypeOK'
  BY DEF CallDispatch, TypeOK, Places, TaskState, ApprovalState, Outcome, Status, shared, policies
<1>2. OnlyThread(p)
  BY DEF CallDispatch, OnlyThread, TypeOK, shared
<1>3. ReservationsBalance'
  <2>1. PICK place \in {"dispatching"} : pc' = [pc EXCEPT ![p] = place]
    BY DEF CallDispatch
  <2>2. place \in Places /\ (place \in Holding <=> pc[p] \in Holding)
    BY <2>1 DEF CallDispatch, Places, Holding
  <2>3. UNCHANGED <<keyOf, reservations>>
    BY DEF CallDispatch, shared
  <2> QED
    BY <2>1, <2>2, <2>3, BalanceStays
<1>4. RequestInv(p)'
  BY DEF CallDispatch, RequestInv, TypeOK, shared, Holding, Performed, Unperformed
<1>5. ResultInv(p)'
  BY DEF CallDispatch, ResultInv, RequestInv, Started, TypeOK, TerminalStates, Performed, Unperformed
<1> QED
  BY <1>1, <1>2, <1>3, <1>4, <1>5, OneThreadMoves

\* The snapshot check keeps the reservation whatever it finds.
LEMMA RecheckPreserves ==
  ASSUME IInv, NEW p \in Request, Recheck(p)
  PROVE  IInv'
<1> USE AboutRequest DEF At, Goto, Recheck
<1>1. TypeOK'
  BY DEF Recheck, TypeOK, Places, TaskState, ApprovalState, Outcome, Status, shared, policies
<1>2. OnlyThread(p)
  BY DEF Recheck, OnlyThread, TypeOK, shared
<1>3. ReservationsBalance'
  <2>1. PICK place \in {"current", "stale"} : pc' = [pc EXCEPT ![p] = place]
    BY DEF Recheck
  <2>2. place \in Places /\ (place \in Holding <=> pc[p] \in Holding)
    BY <2>1 DEF Recheck, Places, Holding
  <2>3. UNCHANGED <<keyOf, reservations>>
    BY DEF Recheck, shared
  <2> QED
    BY <2>1, <2>2, <2>3, BalanceStays
<1>4. RequestInv(p)'
  BY DEF Recheck, RequestInv, TypeOK, shared, Holding, Performed, Unperformed
<1>5. ResultInv(p)'
  BY DEF Recheck, ResultInv, RequestInv, Started, TypeOK, TerminalStates, Performed, Unperformed
<1> QED
  BY <1>1, <1>2, <1>3, <1>4, <1>5, OneThreadMoves

\* The second gate starts the task or leaves it assigned, still reserved.
LEMMA RegatePreserves ==
  ASSUME IInv, NEW p \in Request, Regate(p)
  PROVE  IInv'
<1> USE AboutRequest DEF At, Goto, Return, SetTask
<1>1. ReservationsBalance'
  <2>1. PICK place \in {"releasing", "starting"} : pc' = [pc EXCEPT ![p] = place]
    BY DEF Regate
  <2>2. place \in Places /\ (place \in Holding <=> pc[p] \in Holding)
    BY <2>1 DEF Regate, Places, Holding
  <2>3. UNCHANGED <<keyOf, reservations>>
    BY DEF Regate, shared
  <2> QED
    BY <2>1, <2>2, <2>3, BalanceStays
<1>2. TypeOK'
  BY DEF Regate, TypeOK, Places, TaskState, ApprovalState, Outcome, Status, shared, policies
<1>3. CASE Return(p, "raised") /\ Goto(p, "releasing") /\ UNCHANGED <<task, approval>>
  <2>1. OnlyThread(p)
    BY <1>3 DEF Regate, OnlyThread, TypeOK, shared
  <2>2. RequestInv(p)'
    BY <1>3 DEF Regate, RequestInv, TypeOK, shared, Holding, Performed, Unperformed
  <2>3. ResultInv(p)'
    BY <1>3 DEF Regate, ResultInv, RequestInv, Started, TypeOK, TerminalStates, Performed, Unperformed
  <2> QED
    BY <1>1, <1>2, <2>1, <2>2, <2>3, OneThreadMoves
<1>4. CASE Return(p, "not_performed") /\ Goto(p, "releasing") /\ UNCHANGED <<task, approval>>
  <2>1. OnlyThread(p)
    BY <1>4 DEF Regate, OnlyThread, TypeOK, shared
  <2>2. RequestInv(p)'
    BY <1>4 DEF Regate, RequestInv, TypeOK, shared, Holding, Performed, Unperformed
  <2>3. ResultInv(p)'
    BY <1>4 DEF Regate, ResultInv, RequestInv, Started, TypeOK, TerminalStates, Performed, Unperformed
  <2> QED
    BY <1>1, <1>2, <2>1, <2>2, <2>3, OneThreadMoves
<1>5. CASE SetTask(p, "in_progress", approval[p]) /\ Goto(p, "starting") /\ UNCHANGED outcome
  <2>1. OnlyThread(p)
    BY <1>5 DEF Regate, OnlyThread, TypeOK, shared
  <2>2. RequestInv(p)'
    BY <1>5 DEF Regate, RequestInv, TypeOK, shared, Holding, Performed, Unperformed
  <2>3. ResultInv(p)'
    BY <1>5 DEF Regate, ResultInv, RequestInv, Started, TypeOK, TerminalStates, Performed, Unperformed
  <2> QED
    BY <1>1, <1>2, <2>1, <2>2, <2>3, OneThreadMoves
<1> QED
  BY <1>3, <1>4, <1>5 DEF Regate

\* The executor found at execution is the one that was selected.
LEMMA ExecutePreserves ==
  ASSUME IInv, NEW p \in Request, Execute(p)
  PROVE  IInv'
<1> USE AboutRequest DEF At, Goto, Execute
<1>1. TypeOK'
  BY DEF Execute, TypeOK, Places, TaskState, ApprovalState, Outcome, Status, shared, policies
<1>2. OnlyThread(p)
  BY DEF Execute, OnlyThread, TypeOK, shared
<1>3. ReservationsBalance'
  <2>1. PICK place \in {"executing"} : pc' = [pc EXCEPT ![p] = place]
    BY DEF Execute
  <2>2. place \in Places /\ (place \in Holding <=> pc[p] \in Holding)
    BY <2>1 DEF Execute, Places, Holding
  <2>3. UNCHANGED <<keyOf, reservations>>
    BY DEF Execute, shared
  <2> QED
    BY <2>1, <2>2, <2>3, BalanceStays
<1>4. RequestInv(p)'
  BY DEF Execute, RequestInv, TypeOK, shared, Holding, Performed, Unperformed
<1>5. ResultInv(p)'
  BY DEF Execute, ResultInv, RequestInv, Started, TypeOK, TerminalStates, Performed, Unperformed
<1> QED
  BY <1>1, <1>2, <1>3, <1>4, <1>5, OneThreadMoves

\* However the executor ends, the reservation is still held.
LEMMA ExecutorReturnsPreserves ==
  ASSUME IInv, NEW p \in Request, ExecutorReturns(p)
  PROVE  IInv'
<1> USE AboutRequest DEF At, Goto, ExecutorReturns, Return
<1>1. TypeOK'
  BY DEF ExecutorReturns, TypeOK, Places, TaskState, ApprovalState, Outcome, Status, shared, policies
<1>2. OnlyThread(p)
  BY DEF ExecutorReturns, OnlyThread, TypeOK, shared
<1>3. ReservationsBalance'
  <2>1. PICK place \in {"releasing"} : pc' = [pc EXCEPT ![p] = place]
    BY DEF ExecutorReturns
  <2>2. place \in Places /\ (place \in Holding <=> pc[p] \in Holding)
    BY <2>1 DEF ExecutorReturns, Places, Holding
  <2>3. UNCHANGED <<keyOf, reservations>>
    BY DEF ExecutorReturns, shared
  <2> QED
    BY <2>1, <2>2, <2>3, BalanceStays
<1>4. RequestInv(p)'
  <2>1. PICK out \in Performed : outcome' = [outcome EXCEPT ![p] = out]
    BY DEF ExecutorReturns, Performed
  <2> QED
    BY <2>1 DEF ExecutorReturns, RequestInv, TypeOK, shared, Holding
<1>5. ResultInv(p)'
  BY DEF ExecutorReturns, ResultInv, RequestInv, Started, TypeOK, TerminalStates, Performed, Unperformed
<1> QED
  BY <1>1, <1>2, <1>3, <1>4, <1>5, OneThreadMoves

\* The result recorded agrees with the task.
LEMMA RecordPreserves ==
  ASSUME IInv, NEW p \in Request, Record(p)
  PROVE  IInv'
<1> USE AboutRequest DEF At, Goto, Finish, SetTask
<1>1. ReservationsBalance'
  <2>1. PICK place \in {"done"} : pc' = [pc EXCEPT ![p] = place]
    BY DEF Record
  <2>2. place \in Places /\ (place \in Holding <=> pc[p] \in Holding)
    BY <2>1 DEF Record, Places, Holding
  <2>3. UNCHANGED <<keyOf, reservations>>
    BY DEF Record, shared
  <2> QED
    BY <2>1, <2>2, <2>3, BalanceStays
<1>2. TypeOK'
  BY DEF Record, TypeOK, Places, TaskState, ApprovalState, Outcome, Status, shared, policies
<1>3. CASE outcome[p] = "not_performed" /\ SetTask(p, "rejected", approval[p]) /\ Finish(p, "rejected")
  <2>1. OnlyThread(p)
    BY <1>3 DEF Record, OnlyThread, TypeOK, shared
  <2>2. RequestInv(p)'
    BY <1>3 DEF Record, RequestInv, TypeOK, shared, Holding, Performed, Unperformed
  <2>3. ResultInv(p)'
    BY <1>3 DEF Record, ResultInv, RequestInv, Started, TypeOK, TerminalStates, Performed, Unperformed
  <2> QED
    BY <1>1, <1>2, <2>1, <2>2, <2>3, OneThreadMoves
<1>4. CASE outcome[p] = "raised" /\ UNCHANGED <<task, approval>> /\ Finish(p, "failed")
  <2>1. OnlyThread(p)
    BY <1>4 DEF Record, OnlyThread, TypeOK, shared
  <2>2. RequestInv(p)'
    BY <1>4 DEF Record, RequestInv, TypeOK, shared, Holding, Performed, Unperformed
  <2>3. ResultInv(p)'
    BY <1>4 DEF Record, ResultInv, RequestInv, Started, TypeOK, TerminalStates, Performed, Unperformed
  <2> QED
    BY <1>1, <1>2, <2>1, <2>2, <2>3, OneThreadMoves
<1>5. CASE outcome[p] = "succeeded" /\ SetTask(p, "completed", approval[p]) /\ Finish(p, "completed")
  <2>1. OnlyThread(p)
    BY <1>5 DEF Record, OnlyThread, TypeOK, shared
  <2>2. RequestInv(p)'
    BY <1>5 DEF Record, RequestInv, TypeOK, shared, Holding, Performed, Unperformed
  <2>3. ResultInv(p)'
    BY <1>5 DEF Record, ResultInv, RequestInv, Started, TypeOK, TerminalStates, Performed, Unperformed
  <2> QED
    BY <1>1, <1>2, <2>1, <2>2, <2>3, OneThreadMoves
<1>6. CASE outcome[p] = "cancelled" /\ SetTask(p, "cancelled", approval[p]) /\ Finish(p, "cancelled")
  <2>1. OnlyThread(p)
    BY <1>6 DEF Record, OnlyThread, TypeOK, shared
  <2>2. RequestInv(p)'
    BY <1>6 DEF Record, RequestInv, TypeOK, shared, Holding, Performed, Unperformed
  <2>3. ResultInv(p)'
    BY <1>6 DEF Record, ResultInv, RequestInv, Started, TypeOK, TerminalStates, Performed, Unperformed
  <2> QED
    BY <1>1, <1>2, <2>1, <2>2, <2>3, OneThreadMoves
<1>7. CASE outcome[p] \in {"failed", "timed_out"} /\ SetTask(p, "failed", approval[p]) /\ Finish(p, "failed")
  <2>1. OnlyThread(p)
    BY <1>7 DEF Record, OnlyThread, TypeOK, shared
  <2>2. RequestInv(p)'
    BY <1>7 DEF Record, RequestInv, TypeOK, shared, Holding, Performed, Unperformed
  <2>3. ResultInv(p)'
    BY <1>7 DEF Record, ResultInv, RequestInv, Started, TypeOK, TerminalStates, Performed, Unperformed
  <2> QED
    BY <1>1, <1>2, <2>1, <2>2, <2>3, OneThreadMoves
<1> QED
  BY <1>3, <1>4, <1>5, <1>6, <1>7 DEF Record

\* A reservation is taken on the selected registration, or the dispatch is refused.
LEMMA ReservePreserves ==
  ASSUME IInv, NEW p \in Request, Reserve(p)
  PROVE  IInv'
<1> USE AboutRequest DEF At, Goto
<1>1. CASE /\ entry[keyOf[p]] = selected[p]
           /\ reservations' = [reservations EXCEPT ![keyOf[p]] = @ + 1]
           /\ pc' = [pc EXCEPT ![p] = "reserved"]
           /\ UNCHANGED outcome
  <2>1. TypeOK'
    BY <1>1 DEF Reserve, TypeOK, Places, policies
  <2>2. OnlyThread(p)
    BY <1>1 DEF Reserve, OnlyThread, TypeOK
  <2>3. ReservationsBalance'
    <3>1. "reserved" \in Holding /\ pc[p] \notin Holding
      BY DEF Reserve, Holding
    <3>2. UNCHANGED keyOf
      BY DEF Reserve
    <3> QED
      BY <1>1, <3>1, <3>2, BalanceTaken
  <2>4. RequestInv(p)'
    BY <1>1 DEF Reserve, RequestInv, TypeOK, Holding
  <2>5. ResultInv(p)'
    BY <1>1 DEF Reserve, ResultInv, Started, TypeOK
  <2> QED
    BY <2>1, <2>2, <2>3, <2>4, <2>5, OneThreadMoves
<1>2. CASE /\ outcome' = [outcome EXCEPT ![p] = "not_performed"]
           /\ pc' = [pc EXCEPT ![p] = "recording"]
           /\ UNCHANGED reservations
  <2>1. TypeOK'
    BY <1>2 DEF Reserve, TypeOK, Places, Outcome, policies
  <2>2. OnlyThread(p)
    BY <1>2 DEF Reserve, OnlyThread, TypeOK
  <2>3. ReservationsBalance'
    <3>1. "recording" \in Places /\ ("recording" \in Holding <=> pc[p] \in Holding)
      BY DEF Reserve, Holding, Places
    <3>2. UNCHANGED keyOf
      BY DEF Reserve
    <3> QED
      BY <1>2, <3>1, <3>2, BalanceStays
  <2>4. RequestInv(p)'
    BY <1>2 DEF Reserve, RequestInv, TypeOK, Holding, Unperformed, Performed
  <2>5. ResultInv(p)'
    BY <1>2 DEF Reserve, ResultInv, Started, TypeOK
  <2> QED
    BY <2>1, <2>2, <2>3, <2>4, <2>5, OneThreadMoves
<1> QED
  BY <1>1, <1>2 DEF Reserve, Return

\* The reservation is released whatever the dispatch came to.
LEMMA ReleasePreserves ==
  ASSUME IInv, NEW p \in Request, Release(p)
  PROVE  IInv'
<1> USE AboutRequest DEF At, Goto
<1>1. ReservationsBalance' /\ reservations' \in [Key -> Nat]
  <2>1. /\ "recording" \in Places \ Holding /\ pc[p] \in Holding
        /\ pc' = [pc EXCEPT ![p] = "recording"]
        /\ reservations' = [reservations EXCEPT ![keyOf[p]] = @ - 1]
        /\ UNCHANGED keyOf
    BY DEF Release, Places, Holding
  <2> QED
    BY <2>1, BalanceReleased
<1>2. TypeOK'
  BY <1>1 DEF Release, TypeOK, Places, policies
<1>3. OnlyThread(p)
  BY DEF Release, OnlyThread, TypeOK
<1>4. RequestInv(p)'
  BY DEF Release, RequestInv, TypeOK, Holding
<1>5. ResultInv(p)'
  BY DEF Release, ResultInv, Started, TypeOK
<1> QED
  BY <1>1, <1>2, <1>3, <1>4, <1>5, OneThreadMoves

-----------------------------------------------------------------------------
(* The operator's actions, and the invariant.                              *)

\* register replaces only what nobody holds.
LEMMA RegisterPreserves ==
  ASSUME IInv, NEW k \in Key, Register(k)
  PROVE  IInv'
<1>1. TypeOK'
  BY ServiceAssumption DEF IInv, Register, TypeOK, Registration, policies, local, ServiceAssumption
<1>2. ReservationsBalance'
  BY DEF IInv, Register, ReservationsBalance, Holders, local
<1>3. \A j \in Key : entry'[j] <= made'
  BY DEF IInv, Register, TypeOK, Registration, None
<1>4. ASSUME NEW p \in Request
      PROVE  RequestInv(p)'
  <2>1. CASE pc[p] \in Holding
    <3>1. p \in Holders(keyOf[p])
      BY <2>1 DEF Holders, Holding
    <3>2. keyOf[p] # k
      BY <3>1, HeldIsCounted DEF IInv, Register
    <3>3. entry'[keyOf[p]] = entry[keyOf[p]]
      BY <3>2 DEF IInv, Register, TypeOK
    <3> QED
      BY <3>3 DEF IInv, Register, RequestInv, TypeOK, Registration, None, local
  <2>2. CASE pc[p] \notin Holding
    BY <2>2 DEF IInv, Register, RequestInv, TypeOK, Registration, None, local
  <2> QED
    BY <2>1, <2>2
<1>5. ResultMatchesTask'
  BY DEF IInv, Register, ResultMatchesTask, Started, local
<1> QED
  BY <1>1, <1>2, <1>3, <1>4, <1>5 DEF IInv

\* A step that changes policies only keeps the invariant, whatever they decide.
LEMMA PoliciesPreserve ==
  ASSUME IInv, NEW pol \in Policy, ReplacePolicy(pol) \/ EditPolicy(pol)
  PROVE  IInv'
<1>1. UNCHANGED <<shared, local>>
  BY DEF ReplacePolicy, EditPolicy
<1>2. TypeOK'
  BY <1>1, ServiceAssumption DEF IInv, ReplacePolicy, EditPolicy, TypeOK, shared, local,
     ServiceAssumption
<1>3. ReservationsBalance' /\ ResultMatchesTask' /\ \A p \in Request : RequestInv(p)'
  BY <1>1 DEF IInv, ReservationsBalance, Holders, ResultMatchesTask, Started, RequestInv, shared, local
<1> QED
  BY <1>1, <1>2, <1>3 DEF IInv, shared

\* Nothing is registered, reserved or running at first.
LEMMA InitEstablishes == Init => IInv
<1> SUFFICES ASSUME Init
             PROVE  IInv
  OBVIOUS
<1>1. TypeOK
  <2>1. verdict \in [Policy -> Verdict]
    BY ServiceAssumption DEF Init, ServiceAssumption
  <2>2. made \in 0 .. MaxRegistrations /\ edits \in 0 .. MaxEdits
    BY ServiceAssumption DEF Init, ServiceAssumption
  <2> QED
    BY <2>1, <2>2 DEF Init, TypeOK, Places, TaskState, ApprovalState, Outcome, Status, None
<1>2. ReservationsBalance
  <2>1. \A k \in Key : Holders(k) = {}
    BY DEF Init, Holders
  <2> QED
    BY <2>1, FS_EmptySet DEF Init, ReservationsBalance
<1>3. \A p \in Request : RequestInv(p)
  BY DEF Init, RequestInv, Holding, None
<1>4. ResultMatchesTask
  BY DEF Init, ResultMatchesTask, Started, TerminalStates
<1>5. \A k \in Key : entry[k] <= made
  BY DEF Init, None
<1> QED
  BY <1>1, <1>2, <1>3, <1>4, <1>5 DEF IInv

\* Every step of every thread and of the operator keeps the invariant.
LEMMA NextPreserves == IInv /\ [Next]_vars => IInv'
<1> SUFFICES ASSUME IInv, [Next]_vars
             PROVE  IInv'
  OBVIOUS
<1>1. CASE UNCHANGED vars
  BY <1>1 DEF vars, shared, policies, local, IInv, TypeOK, ReservationsBalance, Holders,
     RequestInv, ResultMatchesTask, Started
<1>2. CASE Operate
  BY <1>2, RegisterPreserves, PoliciesPreserve DEF Operate
<1>3. ASSUME NEW p \in Request, Step(p)
      PROVE  IInv'
  BY <1>3, RefusePreserves, SelectPreserves, GatePreserves, ReadPolicyIdPreserves,
     ReadPolicyVersionPreserves, CallDispatchPreserves, ReservePreserves, RecheckPreserves,
     RegatePreserves, ExecutePreserves, ExecutorReturnsPreserves, ReleasePreserves,
     RecordPreserves DEF Step
<1> QED
  BY <1>1, <1>2, <1>3 DEF Next

\* The invariant holds in every reachable state.
LEMMA Invariance == Spec => []IInv
  BY InitEstablishes, NextPreserves, PTL DEF Spec

-----------------------------------------------------------------------------
(* The theorems.                                                           *)

\* All state keeps its type; in particular no reservation count goes negative.
THEOREM TypeCorrect == Spec => []TypeOK
  BY Invariance, PTL DEF IInv

\* The registry's reservation counts are the numbers of dispatches under way, through
\* any interleaving of calls, refusals and exceptions.
THEOREM ReservationsAreCounted == Spec => []ReservationsBalance
  BY Invariance, PTL DEF IInv

\* The executor that runs is the one the request was authorised for, although execute
\* looks it up again after the checks.
THEOREM AuthorisedExecutorRuns == Spec => []RunsWhatWasAuthorised
<1>1. IInv => RunsWhatWasAuthorised
  BY DEF IInv, RequestInv, RunsWhatWasAuthorised, Started
<1> QED
  BY <1>1, Invariance, PTL

\* Every recorded result agrees with the final state of its task.
THEOREM ResultsAreTruthful == Spec => []ResultMatchesTask
  BY Invariance, PTL DEF IInv

\* No registration is replaced while a dispatch holds it.
THEOREM NothingReplacedInUse == Spec => NoReplacementInUse
<1>1. ASSUME IInv, [Next]_vars
      PROVE  [\A k \in Key : Holders(k) # {} => entry'[k] = entry[k]]_vars
  <2>1. CASE \E j \in Key : Register(j)
    <3>1. PICK j \in Key : Register(j)
      BY <2>1
    <3>2. ASSUME NEW k \in Key, Holders(k) # {}
          PROVE  entry'[k] = entry[k]
      <4>1. k # j
        BY <1>1, <3>1, <3>2, HeldIsCounted DEF IInv, Register
      <4> QED
        BY <1>1, <3>1, <4>1 DEF IInv, Register, TypeOK
    <3> QED
      BY <3>2
  <2>2. CASE ~\E j \in Key : Register(j)
    <3>1. UNCHANGED entry
      BY <1>1, <2>2 DEF Next, Operate, ReplacePolicy, EditPolicy, Step, Refuse, Select, Gate,
         ReadPolicyId, ReadPolicyVersion, CallDispatch, Reserve, Recheck, Regate, Execute,
         ExecutorReturns, Release, Record, vars, shared
    <3> QED
      BY <3>1
  <2> QED
    BY <2>1, <2>2
<1> QED
  BY <1>1, Invariance, PTL DEF Spec, NoReplacementInUse

-----------------------------------------------------------------------------
(* The refinement.                                                         *)

\* A step of one thread is a step of GovernedExecution as soon as it is one for that
\* thread: the others keep their phase.
LEMMA PhaseOfOthers ==
  ASSUME NEW p \in Request, OnlyThread(p), NEW ph, Phase(p)' = ph
  PROVE  [q \in Request |-> Phase(q)]' = [[q \in Request |-> Phase(q)] EXCEPT ![p] = ph]
<1>1. ASSUME NEW q \in Request, q # p
      PROVE  Phase(q)' = Phase(q)
  BY <1>1 DEF OnlyThread, Phase
<1> QED
  BY <1>1

\* A thread whose phase and answer stay the same stutters.
LEMMA Stutters ==
  ASSUME TypeOK, NEW p \in Request, OnlyThread(p),
         Phase(p)' = Phase(p), UNCHANGED <<keyOf, entry, selected, status>>
  PROVE  UNCHANGED Promise!vars
<1>1. [q \in Request |-> Phase(q)]' = [q \in Request |-> Phase(q)]
  BY PhaseOfOthers
<1> QED
  BY <1>1 DEF Promise!vars

\* A thread that is done after the step, and was not, answers: with a refusal if its
\* executor never ran, and with an outcome if it returned.
LEMMA Answers ==
  ASSUME TypeOK, NEW p \in Request, OnlyThread(p), NEW st,
         pc[p] \notin {"executing", "done"}, pc' = [pc EXCEPT ![p] = "done"],
         status' = [status EXCEPT ![p] = st],
         ran[p] = None => st \in {"failed", "unrouteable", "awaiting_approval", "unsupported", "rejected"},
         ran[p] # None => st \in {"completed", "cancelled", "failed"},
         UNCHANGED <<keyOf, entry, selected>>
  PROVE  Promise!Answer(p)
<1>1. Phase(p)' = "answered"
  BY DEF Phase, TypeOK
<1>2. [q \in Request |-> Phase(q)]' = [[q \in Request |-> Phase(q)] EXCEPT ![p] = "answered"]
  BY <1>1, PhaseOfOthers
<1>3. CASE ran[p] = None
  <2>1. Phase(p) \in {"open", "bound"}
    BY <1>3 DEF Phase
  <2> QED
    BY <1>2, <1>3, <2>1 DEF Promise!Answer, Promise!Refusals
<1>4. CASE ran[p] # None
  <2>1. Phase(p) = "returned"
    BY <1>4 DEF Phase
  <2> QED
    BY <1>2, <1>4, <2>1 DEF Promise!Answer, Promise!Outcomes
<1> QED
  BY <1>3, <1>4

\* The steps that only move a thread along are stuttering steps.
LEMMA QuietStepsStutter ==
  ASSUME IInv, NEW p \in Request,
         \/ ReadPolicyId(p) \/ ReadPolicyVersion(p) \/ CallDispatch(p) \/ Reserve(p)
         \/ Recheck(p) \/ Release(p)
  PROVE  UNCHANGED Promise!vars
<1> USE AboutRequest DEF At, Goto
<1>1. /\ pc'[p] \notin {"executing", "done"} /\ pc[p] \notin {"executing", "done"}
      /\ UNCHANGED <<entry, made, keyOf, selected, task, status, ran>>
      /\ \A q \in Request \ {p} : pc'[q] = pc[q]
  BY DEF ReadPolicyId, ReadPolicyVersion, CallDispatch, Reserve, Recheck, Release, TypeOK, shared
<1>2. \A q \in Request \ {p} : outcome'[q] = outcome[q]
  BY DEF ReadPolicyId, ReadPolicyVersion, CallDispatch, Reserve, Recheck, Release, Return, TypeOK
<1>3. OnlyThread(p)
  BY <1>1, <1>2 DEF OnlyThread
<1>4. Phase(p)' = Phase(p)
  BY <1>1 DEF Phase
<1> QED
  BY <1>1, <1>3, <1>4, Stutters

\* Refusing at the front answers.
LEMMA RefuseAnswers ==
  ASSUME IInv, NEW p \in Request, Refuse(p)
  PROVE  Promise!Answer(p)
<1> USE AboutRequest
<1>1. PICK st \in {"failed", "unrouteable", "awaiting_approval"} : Finish(p, st)
  BY DEF Refuse
<1>2. OnlyThread(p)
  BY <1>1 DEF Refuse, Finish, Goto, OnlyThread, TypeOK, shared
<1>3. /\ pc[p] \notin {"executing", "done"} /\ ran[p] = None
      /\ UNCHANGED <<keyOf, entry, selected>>
  BY DEF Refuse, At, RequestInv, shared
<1> QED
  BY <1>1, <1>2, <1>3, Answers DEF Finish, Goto

\* Selecting binds, or answers.
LEMMA SelectBindsOrAnswers ==
  ASSUME IInv, NEW p \in Request, Select(p)
  PROVE  Promise!Bind(p) \/ Promise!Answer(p)
<1> USE AboutRequest
<1>1. pc[p] = "received" /\ ran[p] = None /\ selected[p] = None /\ UNCHANGED <<keyOf, entry, made>>
  BY DEF Select, At, RequestInv, shared
<1>2. ASSUME NEW st \in {"unsupported", "failed"}, Finish(p, st), UNCHANGED <<selected, task, approval>>
      PROVE  Promise!Answer(p)
  <2>1. OnlyThread(p)
    BY <1>2 DEF Select, Finish, Goto, OnlyThread, TypeOK, shared
  <2> QED
    BY <1>1, <1>2, <2>1, Answers DEF Finish, Goto
<1>3. CASE /\ entry[keyOf[p]] # None
           /\ selected' = [selected EXCEPT ![p] = entry[keyOf[p]]]
           /\ SetTask(p, "pending", "not_required")
           /\ Goto(p, "selected")
           /\ UNCHANGED status
  <2>1. OnlyThread(p)
    BY <1>3 DEF Select, SetTask, Goto, OnlyThread, TypeOK, shared
  <2>2. Phase(p) = "open"
    BY <1>1 DEF Phase
  <2>3. Phase(p)' = "bound"
    BY <1>1, <1>3 DEF Select, Goto, Phase, TypeOK
  <2>4. [q \in Request |-> Phase(q)]' = [[q \in Request |-> Phase(q)] EXCEPT ![p] = "bound"]
    BY <2>1, <2>3, PhaseOfOthers
  <2> QED
    BY <1>1, <1>3, <2>2, <2>4 DEF Promise!Bind
<1> QED
  BY <1>2, <1>3 DEF Select

\* The first gate answers, or stutters.
LEMMA GateAnswersOrStutters ==
  ASSUME IInv, NEW p \in Request, Gate(p)
  PROVE  Promise!Answer(p) \/ UNCHANGED Promise!vars
<1> USE AboutRequest
<1>1. pc[p] = "selected" /\ ran[p] = None /\ UNCHANGED <<keyOf, entry, made, selected, ran, outcome>>
  BY DEF Gate, At, RequestInv, shared
<1>2. ASSUME NEW st \in {"failed", "awaiting_approval", "rejected"}, Finish(p, st),
             \A q \in Request \ {p} : task'[q] = task[q]
      PROVE  Promise!Answer(p)
  <2>1. OnlyThread(p)
    BY <1>1, <1>2 DEF Finish, Goto, OnlyThread, TypeOK
  <2> QED
    BY <1>1, <1>2, <2>1, Answers DEF Finish, Goto
<1>3. CASE SetTask(p, "assigned", approval[p]) /\ Goto(p, "authorised") /\ UNCHANGED status
  <2>1. OnlyThread(p)
    BY <1>1, <1>3 DEF SetTask, Goto, OnlyThread, TypeOK
  <2>2. Phase(p)' = Phase(p)
    BY <1>1, <1>3 DEF Goto, Phase, TypeOK
  <2> QED
    BY <1>1, <1>3, <2>1, <2>2, Stutters
<1>4. \A q \in Request \ {p} : task'[q] = task[q]
  BY DEF Gate, SetTask, TypeOK
<1> QED
  BY <1>2, <1>3, <1>4 DEF Gate

\* The second gate stutters: a started task is still bound until its executor is called.
LEMMA RegateStutters ==
  ASSUME IInv, NEW p \in Request, Regate(p)
  PROVE  UNCHANGED Promise!vars
<1> USE AboutRequest
<1>1. /\ pc[p] \in {"current", "stale"} /\ pc'[p] \in {"releasing", "starting"}
      /\ \A q \in Request \ {p} : pc'[q] = pc[q]
      /\ UNCHANGED <<entry, made, keyOf, selected, status, ran>>
  BY DEF Regate, At, Goto, TypeOK, shared
<1>2. \A q \in Request \ {p} : task'[q] = task[q] /\ outcome'[q] = outcome[q]
  <2>1. \A q \in Request \ {p} : task'[q] = task[q]
    BY DEF Regate, SetTask, TypeOK
  <2>2. \A q \in Request \ {p} : outcome'[q] = outcome[q]
    BY DEF Regate, Return, TypeOK
  <2> QED
    BY <2>1, <2>2
<1>3. OnlyThread(p)
  BY <1>1, <1>2 DEF OnlyThread
<1>4. Phase(p)' = Phase(p)
  BY <1>1 DEF Phase
<1> QED
  BY <1>1, <1>3, <1>4, Stutters

\* Execute runs the bound registration.
LEMMA ExecuteRuns ==
  ASSUME IInv, NEW p \in Request, Execute(p)
  PROVE  Promise!Run(p)
<1> USE AboutRequest
<1>1. pc[p] = "starting" /\ ran[p] = None /\ selected[p] # None /\ entry[keyOf[p]] = selected[p]
  BY DEF Execute, At, RequestInv, Holding
<1>2. OnlyThread(p)
  BY DEF Execute, Goto, OnlyThread, TypeOK, shared
<1>3. Phase(p) = "bound" /\ Phase(p)' = "running"
  BY <1>1 DEF Execute, Goto, Phase, TypeOK
<1>4. [q \in Request |-> Phase(q)]' = [[q \in Request |-> Phase(q)] EXCEPT ![p] = "running"]
  BY <1>2, <1>3, PhaseOfOthers
<1> QED
  BY <1>1, <1>3, <1>4 DEF Execute, Promise!Run, shared

\* The executor returns.
LEMMA ExecutorReturnsReturns ==
  ASSUME IInv, NEW p \in Request, ExecutorReturns(p)
  PROVE  Promise!Return(p)
<1> USE AboutRequest
<1>1. pc[p] = "executing" /\ ran[p] # None
  BY DEF ExecutorReturns, At, RequestInv
<1>2. OnlyThread(p)
  BY DEF ExecutorReturns, Goto, Return, OnlyThread, TypeOK, shared
<1>3. Phase(p) = "running" /\ Phase(p)' = "returned"
  BY <1>1 DEF ExecutorReturns, Goto, Phase, TypeOK
<1>4. [q \in Request |-> Phase(q)]' = [[q \in Request |-> Phase(q)] EXCEPT ![p] = "returned"]
  BY <1>2, <1>3, PhaseOfOthers
<1> QED
  BY <1>3, <1>4 DEF ExecutorReturns, Promise!Return, shared

\* Recording answers, with an outcome exactly when the executor was called.
LEMMA RecordAnswers ==
  ASSUME IInv, NEW p \in Request, Record(p)
  PROVE  Promise!Answer(p)
<1> USE AboutRequest
<1>1. pc[p] = "recording" /\ UNCHANGED <<keyOf, entry, made, selected, outcome, ran>>
  BY DEF Record, At, shared
<1>2. \A q \in Request \ {p} : task'[q] = task[q]
  BY DEF Record, SetTask, TypeOK
<1>3. ASSUME NEW st, Finish(p, st),
             \/ st \in {"rejected", "failed"} /\ outcome[p] \in Unperformed
             \/ st \in {"completed", "cancelled", "failed"} /\ outcome[p] \in Performed
      PROVE  Promise!Answer(p)
  <2>1. OnlyThread(p)
    BY <1>1, <1>2, <1>3 DEF Finish, Goto, OnlyThread, TypeOK
  <2>2. /\ ran[p] = None => st \in {"failed", "unrouteable", "awaiting_approval", "unsupported", "rejected"}
        /\ ran[p] # None => st \in {"completed", "cancelled", "failed"}
    BY <1>1, <1>3 DEF RequestInv, Performed, Unperformed
  <2> QED
    BY <1>1, <1>3, <2>1, <2>2, Answers DEF Finish, Goto
<1> QED
  BY <1>3 DEF Record, Performed, Unperformed

\* register is a Register step: nobody runs on the pair, and the identity is new.
LEMMA RegisterIsAllowed ==
  ASSUME IInv, NEW k \in Key, Register(k)
  PROVE  Promise!Register(k, made + 1)
<1>1. ASSUME NEW p \in Request, keyOf[p] = k
      PROVE  Phase(p) # "running"
  <2>1. pc[p] # "executing"
    BY <1>1, HeldIsCounted DEF IInv, Register, Holders
  <2> QED
    BY <2>1 DEF Phase
<1>2. \A p \in Request : selected[p] # made + 1
  BY DEF IInv, RequestInv, TypeOK, Registration, None
<1>3. [p \in Request |-> Phase(p)]' = [p \in Request |-> Phase(p)]
  BY DEF Register, Phase, local
<1> QED
  BY <1>1, <1>2, <1>3 DEF Register, Promise!Register, local

\* MissionService implements the safety part of GovernedExecution: every initial state
\* maps to an initial state, every step to a step or a stutter.
THEOREM RefinesGovernedExecution == Spec => KeepsPromise
<1>1. Init => Promise!Init
  <2> SUFFICES ASSUME Init
               PROVE  Promise!Init
    OBVIOUS
  <2>1. [p \in Request |-> Phase(p)] = [p \in Request |-> "open"]
    BY DEF Init, Phase
  <2> QED
    BY <2>1 DEF Init, Promise!Init
<1>2. IInv /\ [Next]_vars => [Promise!Next]_(Promise!vars)
  <2> SUFFICES ASSUME IInv, [Next]_vars
               PROVE  [Promise!Next]_(Promise!vars)
    OBVIOUS
  <2>1. CASE UNCHANGED vars
    <3>1. [p \in Request |-> Phase(p)]' = [p \in Request |-> Phase(p)]
      BY <2>1 DEF vars, local, Phase
    <3> QED
      BY <2>1, <3>1 DEF vars, shared, local, Promise!vars
  <2>2. ASSUME NEW k \in Key, Register(k)
        PROVE  Promise!Next
    <3>1. made + 1 \in Registration
      BY <2>2, ServiceAssumption DEF IInv, TypeOK, Register, Registration, ServiceAssumption
    <3> QED
      BY <2>2, <3>1, RegisterIsAllowed DEF Promise!Next
  <2>3. ASSUME NEW pol \in Policy, ReplacePolicy(pol) \/ EditPolicy(pol)
        PROVE  UNCHANGED Promise!vars
    <3>1. UNCHANGED <<shared, local>>
      BY <2>3 DEF ReplacePolicy, EditPolicy
    <3>2. [p \in Request |-> Phase(p)]' = [p \in Request |-> Phase(p)]
      BY <3>1 DEF local, Phase
    <3> QED
      BY <3>1, <3>2 DEF shared, local, Promise!vars
  <2>4. ASSUME NEW p \in Request, Step(p)
        PROVE  [Promise!Next]_(Promise!vars)
    BY <2>4, QuietStepsStutter, RefuseAnswers, SelectBindsOrAnswers, GateAnswersOrStutters,
       RegateStutters, ExecuteRuns, ExecutorReturnsReturns, RecordAnswers DEF Step, Promise!Next
  <2> QED
    BY <2>1, <2>2, <2>3, <2>4 DEF Next, Operate
<1> QED
  BY <1>1, <1>2, Invariance, PTL DEF Spec, KeepsPromise

-----------------------------------------------------------------------------
(* The policy a run is authorised under.                                   *)

\* From the check of the snapshot to the run the snapshot names the policy that was
\* passed; before it the two may come from different reads of self.policy.
SnapshotInv(p) ==
  pc[p] \in {"current", "starting"} \/ ran[p] # None => snapshot[p][1] = PolicyId[passed[p]]

\* Every request has its snapshot, and it satisfies SnapshotInv.
SnapshotsInv ==
  /\ snapshot = [p \in Request |-> snapshot[p]]
  /\ \A p \in Request : SnapshotInv(p)

\* Whatever a thread does, it leaves the policy reads of the others alone.
LEMMA OthersKeepSnapshots ==
  ASSUME TypeOK, SnapshotsInv, NEW p \in Request, Step(p)
  PROVE  /\ snapshot' = [q \in Request |-> snapshot'[q]]
         /\ \A q \in Request \ {p} :
              pc'[q] = pc[q] /\ ran'[q] = ran[q] /\ snapshot'[q] = snapshot[q] /\ passed'[q] = passed[q]
<1> USE DEF At, Goto, Finish, TypeOK, SnapshotsInv
<1>1. CASE Refuse(p) \/ Select(p) \/ Gate(p)
  BY <1>1 DEF Refuse, Select, Gate
<1>2. CASE ReadPolicyId(p)
  <2>1. snapshot' = [snapshot EXCEPT ![p] = <<PolicyId[policy], None>>]
    BY <1>2 DEF ReadPolicyId
  <2> QED
    BY <1>2, <2>1 DEF ReadPolicyId
<1>3. CASE ReadPolicyVersion(p)
  BY <1>3 DEF ReadPolicyVersion
<1>4. CASE CallDispatch(p)
  BY <1>4 DEF CallDispatch
<1>5. CASE Reserve(p) \/ Recheck(p)
  BY <1>5 DEF Reserve, Recheck
<1>6. CASE Regate(p)
  BY <1>6 DEF Regate
<1>7. CASE Execute(p) \/ ExecutorReturns(p) \/ Release(p)
  BY <1>7 DEF Execute, ExecutorReturns, Release
<1>8. CASE Record(p)
  BY <1>8 DEF Record
<1> QED
  BY <1>1, <1>2, <1>3, <1>4, <1>5, <1>6, <1>7, <1>8 DEF Step

\* The snapshot is written while nothing has run, checked before the second gate, and
\* read by nothing that moves it afterwards.
LEMMA SnapshotsStay ==
  ASSUME IInv, SnapshotsInv, [Next]_vars
  PROVE  SnapshotsInv'
<1>1. CASE UNCHANGED vars
  BY <1>1 DEF vars, local, SnapshotsInv, SnapshotInv
<1>2. CASE Operate
  BY <1>2 DEF Operate, Register, ReplacePolicy, EditPolicy, local, SnapshotsInv, SnapshotInv
<1>3. ASSUME NEW p \in Request, Step(p)
      PROVE  SnapshotsInv'
  <2>1. /\ TypeOK /\ RequestInv(p) /\ SnapshotInv(p)
        /\ snapshot = [q \in Request |-> snapshot[q]]
    BY AboutRequest DEF SnapshotsInv
  <2>2. SnapshotInv(p)'
    <3> USE <2>1 DEF At, Goto, Finish, TypeOK, SnapshotInv, RequestInv
    <3>1. CASE Refuse(p) \/ Select(p) \/ Gate(p) \/ Reserve(p)
      BY <3>1 DEF Refuse, Select, Gate, Reserve
    <3>2. CASE ReadPolicyId(p) \/ ReadPolicyVersion(p) \/ CallDispatch(p)
      <4>1. ran'[p] = None /\ pc'[p] \notin {"current", "starting"}
        BY <3>2 DEF ReadPolicyId, ReadPolicyVersion, CallDispatch
      <4> QED
        BY <4>1
    <3>3. CASE Recheck(p)
      BY <3>3 DEF Recheck
    <3>4. CASE Regate(p)
      BY <3>4 DEF Regate
    <3>5. CASE Execute(p) \/ ExecutorReturns(p) \/ Release(p)
      BY <3>5 DEF Execute, ExecutorReturns, Release
    <3>6. CASE Record(p)
      BY <3>6 DEF Record
    <3> QED
      BY <1>3, <3>1, <3>2, <3>3, <3>4, <3>5, <3>6 DEF Step
  <2>3. ASSUME NEW q \in Request \ {p}
        PROVE  SnapshotInv(q)'
    BY <1>3, <2>1, OthersKeepSnapshots DEF SnapshotsInv, SnapshotInv
  <2> QED
    BY <1>3, <2>1, <2>2, <2>3, OthersKeepSnapshots DEF SnapshotsInv
<1> QED
  BY <1>1, <1>2, <1>3 DEF Next

\* However often self.policy is replaced between its four reads, an executor is called
\* only under the policy identity its authorization snapshot names.
THEOREM RunsUnderOnePolicy == Spec => []RunsUnderSnapshotPolicy
<1>1. Init => SnapshotsInv
  BY DEF Init, SnapshotsInv, SnapshotInv
<1>2. SnapshotsInv => RunsUnderSnapshotPolicy
  BY DEF SnapshotsInv, SnapshotInv, RunsUnderSnapshotPolicy, Started
<1> QED
  BY <1>1, <1>2, SnapshotsStay, Invariance, PTL DEF Spec

-----------------------------------------------------------------------------
(* Permission withdrawn under a valid snapshot.                            *)

NoneAllows == \A pol \in Policy : verdict[pol] # "allow"

\* Nothing ran and the second gate was not passed.
Held(p) == ran[p] = None /\ pc[p] \notin {"starting", "executing"}

\* While no policy allows, no step lets a held request through the second gate.
LEMMA HeldStaysHeld ==
  ASSUME IInv, SnapshotsInv, NoneAllows, NEW p \in Request, Held(p), [Next]_vars
  PROVE  Held(p)'
<1> USE DEF Held
<1>1. CASE UNCHANGED vars
  BY <1>1 DEF vars, local
<1>2. CASE Operate
  BY <1>2 DEF Operate, Register, ReplacePolicy, EditPolicy, local
<1>3. ASSUME NEW q \in Request \ {p}, Step(q)
      PROVE  Held(p)'
  BY <1>3, OthersKeepSnapshots DEF IInv
<1>4. CASE Step(p)
  <2> USE DEF At, Goto, Finish
  <2>0. /\ TypeOK /\ passed[p] \in Policy
        /\ pc = [r \in Request |-> pc[r]]
    BY DEF IInv, TypeOK
  <2>1. CASE Refuse(p) \/ Select(p) \/ Gate(p)
    BY <2>0, <2>1 DEF Refuse, Select, Gate, TypeOK
  <2>2. CASE ReadPolicyId(p) \/ ReadPolicyVersion(p) \/ CallDispatch(p)
    BY <2>0, <2>2 DEF ReadPolicyId, ReadPolicyVersion, CallDispatch, TypeOK
  <2>3. CASE Reserve(p) \/ Recheck(p)
    BY <2>0, <2>3 DEF Reserve, Recheck, TypeOK
  <2>4. CASE Regate(p)
    <3>1. verdict[passed[p]] # "allow"
      BY <2>0 DEF NoneAllows
    <3> QED
      BY <2>0, <2>4, <3>1 DEF Regate, TypeOK
  <2>5. CASE Execute(p) \/ ExecutorReturns(p)
    BY <2>5 DEF Execute, ExecutorReturns
  <2>6. CASE Release(p) \/ Record(p)
    BY <2>0, <2>6 DEF Release, Record, TypeOK
  <2> QED
    BY <1>4, <2>1, <2>2, <2>3, <2>4, <2>5, <2>6 DEF Step
<1> QED
  BY <1>1, <1>2, <1>3, <1>4 DEF Next

\* Rules edited under an unchanged identity and version still count: once no policy
\* allows, a request with the second gate ahead of it never runs.
THEOREM RevocationIsHeeded == Spec => RevokedNeverRuns
<1> SUFFICES ASSUME NEW p \in Request
             PROVE  Spec => [](Ungated(p) /\ [](\A pol \in Policy : verdict[pol] # "allow")
                                 => [](ran[p] = None))
  BY DEF RevokedNeverRuns
<1>1. IInv /\ Ungated(p) => Held(p)
  BY AboutRequest DEF Ungated, Held, RequestInv
<1>2. Held(p) => ran[p] = None
  BY DEF Held
<1>3. IInv /\ SnapshotsInv /\ (\A pol \in Policy : verdict[pol] # "allow") /\ Held(p)
        /\ [Next]_vars => Held(p)'
  BY HeldStaysHeld DEF NoneAllows
<1>4. Spec => []SnapshotsInv
  <2>1. Init => SnapshotsInv
    BY DEF Init, SnapshotsInv, SnapshotInv
  <2> QED
    BY <2>1, SnapshotsStay, Invariance, PTL DEF Spec
<1> QED
  BY <1>1, <1>2, <1>3, <1>4, Invariance, PTL DEF Spec

=============================================================================
