------------------------- MODULE RequestQueueProofs -------------------------
(***************************************************************************)
(* Theorems about RequestQueue, for every set of requests and policies,    *)
(* with and without crashes of the API.                                    *)
(***************************************************************************)
EXTENDS RequestQueue, TLAPS

Intakes == [at: Stages, sawBusy: BOOLEAN, head: Requests \cup {None}]

(***************************************************************************)
(* Appending to the order of arrival adds one member at the end.           *)
(***************************************************************************)
LEMMA AppendOrder ==
    ASSUME NEW s \in Seq(Requests), NEW q \in Requests
    PROVE  LET t == Append(s, q) IN
           /\ t \in Seq(Requests)
           /\ DOMAIN t = DOMAIN s \cup {Len(s) + 1}
           /\ DOMAIN s = 1..Len(s) /\ Len(s) \in Nat
           /\ \A i \in DOMAIN s : t[i] = s[i]
           /\ t[Len(s) + 1] = q
  <1>1. /\ Append(s, q) \in Seq(Requests)
        /\ Len(Append(s, q)) = Len(s) + 1
        /\ Len(s) \in Nat
        /\ \A i \in 1..Len(s) : Append(s, q)[i] = s[i]
        /\ Append(s, q)[Len(s) + 1] = q
    OBVIOUS
  <1>2. DOMAIN s = 1..Len(s) /\ DOMAIN Append(s, q) = 1..(Len(s) + 1)
    BY <1>1
  <1>. QED
    BY <1>1, <1>2

(***************************************************************************)
(* What the commit of an intake leaves in the request table and the runs:  *)
(* its own request and the head change status, everything else stays.      *)
(***************************************************************************)
LEMMA DispatchRows ==
    ASSUME TypeOK, NEW q \in Requests, Dispatch(q)
    PROVE  /\ intake[q].at = "picked"
           /\ intake[q].head \in Requests
           /\ request' \in [Requests -> RequestRows]
           /\ run' \in [Requests -> {"none", "pending", "running", "completed", "failed"}]
           /\ intake' \in [Requests -> Intakes]
           /\ \A p \in Requests : request'[p].policy = request[p].policy
           /\ \A p \in Requests \ {q, intake[q].head} :
                 request'[p].status = request[p].status
           /\ \A p \in Requests \ {q} : intake'[p] = intake[p]
           /\ intake'[q].at \in {"finalizing", "done"}
           /\ intake'[q].sawBusy = intake[q].sawBusy
           /\ order' = Append(order, q)
           /\ UNCHANGED <<jobs, promoting>> /\ conversation'
           /\ \/ /\ Dispatches(q)
                 /\ request'[q].status = IF intake[q].head = q THEN "dispatched" ELSE "queued"
                 /\ intake[q].head # q =>
                      request'[intake[q].head].status =
                        IF request[intake[q].head].status = "queued" THEN "dispatched"
                        ELSE request[intake[q].head].status
                 /\ \A p \in Requests : run'[p] = IF p = intake[q].head THEN "pending" ELSE run[p]
              \/ /\ ~Dispatches(q)
                 /\ request'[q].status = IF request[q].policy = "reject" THEN "rejected" ELSE "queued"
                 /\ \A p \in Requests \ {q} : request'[p].status = request[p].status
                 /\ UNCHANGED run
  <1>. DEFINE h == intake[q].head
  <1>1. /\ intake \in [Requests -> Intakes]
        /\ request \in [Requests -> RequestRows]
        /\ run \in [Requests -> {"none", "pending", "running", "completed", "failed"}]
    BY DEF TypeOK, Intakes
  <1>2. intake[q].at = "picked" /\ h \in Requests
    BY <1>1 DEF Dispatch, TypeOK, Intakes
  <1>3. /\ order' = Append(order, q)
        /\ UNCHANGED <<jobs, promoting>> /\ conversation'
    BY DEF Dispatch, Commit
  <1>4. /\ intake' \in [Requests -> Intakes]
        /\ \A p \in Requests \ {q} : intake'[p] = intake[p]
        /\ intake'[q].at \in {"finalizing", "done"}
        /\ intake'[q].sawBusy = intake[q].sawBusy
    BY <1>1 DEF Dispatch, Go, Intakes, Stages
  <1>5. CASE Dispatches(q)
    <2>1. /\ run' = [run EXCEPT ![h] = "pending"]
          /\ request' = [p \in Requests |->
               [request[p] EXCEPT !.status =
                  IF p = h /\ (p = q \/ request[p].status = "queued") THEN "dispatched"
                  ELSE IF p = q THEN "queued" ELSE request[p].status]]
      BY <1>5 DEF Dispatch
    <2>2. \A p \in Requests :
             /\ request'[p] \in RequestRows
             /\ request'[p].policy = request[p].policy
             /\ request'[p].status =
                  IF p = h /\ (p = q \/ request[p].status = "queued") THEN "dispatched"
                  ELSE IF p = q THEN "queued" ELSE request[p].status
      BY <1>1, <2>1 DEF RequestRows
    <2>3. request' \in [Requests -> RequestRows]
      BY <2>1, <2>2
    <2>4. /\ run' \in [Requests -> {"none", "pending", "running", "completed", "failed"}]
          /\ \A p \in Requests : run'[p] = IF p = h THEN "pending" ELSE run[p]
      BY <1>1, <1>2, <2>1
    <2>. QED
      BY <1>2, <1>3, <1>4, <1>5, <2>2, <2>3, <2>4
  <1>6. CASE ~Dispatches(q)
    <2>1. /\ request' = [request EXCEPT ![q].status =
                 IF request[q].policy = "reject" THEN "rejected" ELSE "queued"]
          /\ UNCHANGED run
      BY <1>6 DEF Dispatch
    <2>2. /\ request' \in [Requests -> RequestRows]
          /\ \A p \in Requests : request'[p].policy = request[p].policy
          /\ \A p \in Requests \ {q} : request'[p].status = request[p].status
          /\ request'[q].status = IF request[q].policy = "reject" THEN "rejected" ELSE "queued"
      BY <1>1, <2>1 DEF RequestRows
    <2>. QED
      BY <1>1, <1>2, <1>3, <1>4, <1>6, <2>1, <2>2
  <1>. QED
    BY <1>5, <1>6

(***************************************************************************)
(* Type correctness.  Beside the types, TypeOK ties the order of arrival   *)
(* to the committed requests, so the commit of an intake is the only step  *)
(* with something to show.                                                 *)
(***************************************************************************)
Recorded(q) == \E i \in DOMAIN order : order[i] = q

LEMMA TypeStep == TypeOK /\ [Next]_vars => TypeOK'
  <1>. SUFFICES ASSUME TypeOK, [Next]_vars PROVE TypeOK'
    OBVIOUS
  <1>. USE DEF Intakes
  <1>0. /\ intake \in [Requests -> Intakes]
        /\ request \in [Requests -> RequestRows]
        /\ order \in Seq(Requests)
        /\ run \in [Requests -> {"none", "pending", "running", "completed", "failed"}]
    BY DEF TypeOK
  <1>1. ASSUME NEW q \in Requests, NEW p \in Policies, CheckPolicy(q, p),
               UNCHANGED <<conversation, order, run, jobs, promoting>>
        PROVE  TypeOK'
    <2>1. /\ intake' \in [Requests -> Intakes]
          /\ \A x \in Requests \ {q} : intake'[x] = intake[x]
          /\ intake'[q].at \in {"refused", "checked"}
      BY <1>0, <1>1 DEF CheckPolicy, Go, Stages
    <2>2. /\ request' \in [Requests -> RequestRows]
          /\ \A x \in Requests : request'[x].status = request[x].status
      <3>1. p \in SupportedPolicies
        BY QueueAssumption
      <3>2. UNCHANGED request \/ request' = [request EXCEPT ![q].policy = p]
        BY <1>1 DEF CheckPolicy
      <3>3. CASE request' = [request EXCEPT ![q].policy = p]
        <4>1. \A x \in Requests :
                 request'[x] = IF x = q THEN [request[x] EXCEPT !.policy = p] ELSE request[x]
          BY <1>0, <3>3
        <4>2. \A x \in Requests : request'[x] \in RequestRows /\ request'[x].status = request[x].status
          BY <1>0, <3>1, <4>1 DEF RequestRows
        <4>3. DOMAIN request' = Requests /\ request' = [x \in Requests |-> request'[x]]
          BY <1>0, <3>3
        <4>. QED
          BY <4>2, <4>3
      <3>. QED
        BY <1>0, <3>2, <3>3
    <2>. QED
      BY <1>1, <2>1, <2>2 DEF TypeOK
  <1>2. ASSUME NEW q \in Requests, NEW stage \in Stages \ {"picked"}, Go(q, stage),
               UNCHANGED <<conversation, request, order, run, promoting>>, jobs' \subseteq Requests
        PROVE  TypeOK'
    <2>1. /\ intake' \in [Requests -> Intakes]
          /\ \A x \in Requests \ {q} : intake'[x] = intake[x]
          /\ intake'[q].at = stage
      BY <1>0, <1>2 DEF Go
    <2>. QED
      BY <1>2, <2>1 DEF TypeOK
  <1>3. ASSUME NEW q \in Requests, NEW p \in Policies, Lock(q, p)
        PROVE  TypeOK'
    BY <1>1, <1>3 DEF Lock
  <1>4. ASSUME NEW q \in Requests, NEW p \in Policies, InsertConversation(q, p)
        PROVE  TypeOK'
    <2>1. CASE conversation
      BY <1>2, <1>4, <2>1 DEF InsertConversation, Stages, TypeOK
    <2>2. CASE ~conversation
      BY <1>1, <1>4, <2>2 DEF InsertConversation
    <2>. QED
      BY <2>1, <2>2
  <1>5. ASSUME NEW q \in Requests, FindNoConversation(q)
        PROVE  TypeOK'
    BY <1>2, <1>5 DEF FindNoConversation, Stages, TypeOK
  <1>6. ASSUME NEW q \in Requests, request' \in [Requests -> RequestRows],
               \A p \in Requests \ {q} : request'[p].status = "absent" <=> request[p].status = "absent",
               request'[q].status # "absent", order' = Append(order, q)
        PROVE  /\ order' \in Seq(Requests)
               /\ \A p \in Requests : request'[p].status # "absent" <=> Recorded(p)'
    <2>1. /\ order' \in Seq(Requests)
          /\ DOMAIN order' = DOMAIN order \cup {Len(order) + 1}
          /\ \A i \in DOMAIN order : order'[i] = order[i]
          /\ order'[Len(order) + 1] = q
      BY <1>0, <1>6, AppendOrder
    <2>2. ASSUME NEW p \in Requests PROVE request'[p].status # "absent" <=> Recorded(p)'
      <3>1. CASE p = q
        BY <1>6, <2>1, <3>1 DEF Recorded
      <3>2. CASE p # q
        BY <1>6, <2>1, <3>2 DEF Recorded, TypeOK
      <3>. QED
        BY <3>1, <3>2
    <2>. QED
      BY <2>1, <2>2
  <1>7. ASSUME NEW q \in Requests, Reject(q)
        PROVE  TypeOK'
    <2>1. /\ intake' \in [Requests -> Intakes]
          /\ \A x \in Requests \ {q} : intake'[x] = intake[x]
          /\ intake'[q].at = "done"
      BY <1>0, <1>7 DEF Reject, Go, Stages
    <2>2. /\ request' \in [Requests -> RequestRows]
          /\ \A x \in Requests \ {q} : request'[x].status = request[x].status
          /\ request'[q].status = "rejected"
      BY <1>0, <1>7 DEF Reject, RequestRows
    <2>3. order' = Append(order, q)
      BY <1>7 DEF Reject, Commit
    <2>4. /\ order' \in Seq(Requests)
          /\ \A p \in Requests : request'[p].status # "absent" <=> Recorded(p)'
      BY <1>6, <2>2, <2>3
    <2>. QED
      BY <1>7, <2>1, <2>2, <2>4 DEF TypeOK, Reject, Commit, Recorded
  <1>8. ASSUME NEW q \in Requests, PickHead(q)
        PROVE  TypeOK'
    <2>1. PICK h \in Heads(q) : intake' = [intake EXCEPT ![q].at = "picked", ![q].head = h]
      BY <1>8 DEF PickHead
    <2>2. h \in Requests /\ h # None
      BY <2>1, QueueAssumption DEF Heads, Queued
    <2>3. /\ intake' \in [Requests -> Intakes]
          /\ \A x \in Requests \ {q} : intake'[x] = intake[x]
          /\ intake'[q].head = h
      BY <1>0, <2>1, <2>2 DEF Stages
    <2>. QED
      BY <1>8, <2>2, <2>3 DEF TypeOK, PickHead
  <1>9. ASSUME NEW q \in Requests, Dispatch(q)
        PROVE  TypeOK'
    <2>. DEFINE h == intake[q].head
    <2>1. /\ request' \in [Requests -> RequestRows]
          /\ run' \in [Requests -> {"none", "pending", "running", "completed", "failed"}]
          /\ intake' \in [Requests -> Intakes]
          /\ \A p \in Requests \ {q, h} : request'[p].status = request[p].status
          /\ \A p \in Requests \ {q} : intake'[p] = intake[p]
          /\ intake'[q].at \in {"finalizing", "done"}
          /\ order' = Append(order, q)
          /\ UNCHANGED <<jobs, promoting>> /\ conversation'
      BY <1>9, DispatchRows
    <2>4. /\ request'[q].status # "absent"
          /\ h # q => request'[h].status = "absent" <=> request[h].status = "absent"
      <3>1. CASE Dispatches(q)
        BY <1>9, <3>1, DispatchRows
      <3>2. CASE ~Dispatches(q)
        BY <1>9, <3>2, DispatchRows
      <3>. QED
        BY <3>1, <3>2
    <2>2. \A p \in Requests \ {q} : request'[p].status = "absent" <=> request[p].status = "absent"
      BY <2>1, <2>4
    <2>3. /\ order' \in Seq(Requests)
          /\ \A p \in Requests : request'[p].status # "absent" <=> Recorded(p)'
      BY <1>6, <2>1, <2>2, <2>4
    <2>. QED
      BY <2>1, <2>3 DEF TypeOK, Recorded
  <1>10. ASSUME NEW q \in Requests, FinalizeIntake(q)
         PROVE  TypeOK'
    BY <1>2, <1>10 DEF FinalizeIntake, Stages, TypeOK
  <1>11. ASSUME NEW q \in Requests, ApiCrash(q)
         PROVE  TypeOK'
    <2>. DEFINE stage == IF intake[q].at = "finalizing" THEN "done" ELSE "refused"
    <2>1. stage \in Stages \ {"picked"} /\ Go(q, stage)
      BY <1>11 DEF ApiCrash, Stages
    <2>. QED
      BY <1>2, <1>11, <2>1 DEF ApiCrash, TypeOK
  <1>12. ASSUME NEW q \in Requests, PromoteCheck(q)
         PROVE  TypeOK'
    BY <1>12 DEF PromoteCheck, TypeOK
  <1>13. ASSUME NEW q \in Requests, request' = [request EXCEPT ![q].policy = "steer"],
                promoting' \subseteq Requests, UNCHANGED <<conversation, order, run, jobs, intake>>
         PROVE  TypeOK'
    <2>1. /\ request' \in [Requests -> RequestRows]
          /\ \A x \in Requests : request'[x].status = request[x].status
      BY <1>0, <1>13 DEF RequestRows, SupportedPolicies
    <2>. QED
      BY <1>13, <2>1 DEF TypeOK
  <1>14. ASSUME NEW q \in Requests, PromoteCommit(q)
         PROVE  TypeOK'
    BY <1>13, <1>14 DEF PromoteCommit, TypeOK
  <1>15. ASSUME NEW q \in Requests, CancelQueued(q)
         PROVE  TypeOK'
    <2>1. /\ request' \in [Requests -> RequestRows]
          /\ \A x \in Requests : request'[x].status = "absent" <=> request[x].status = "absent"
      BY <1>0, <1>15 DEF CancelQueued, RequestRows
    <2>. QED
      BY <1>15, <2>1 DEF TypeOK, CancelQueued
  <1>16. ASSUME NEW q \in Requests, StartRun(q) \/ EndRun(q) \/ SteerRun(q)
         PROVE  TypeOK'
    BY <1>0, <1>16 DEF StartRun, EndRun, SteerRun, TypeOK
  <1>17. CASE UNCHANGED vars
    BY <1>17 DEF vars, TypeOK
  <1>. QED
    BY <1>3, <1>4, <1>5, <1>7, <1>8, <1>9, <1>10, <1>11, <1>12, <1>14, <1>15, <1>16, <1>17
       DEF Next, Intake

LEMMA InitIsTyped == Init => TypeOK
  <1>. SUFFICES ASSUME Init PROVE TypeOK
    OBVIOUS
  <1>1. order = <<>> /\ <<>> \in Seq(Requests) /\ DOMAIN order = {}
    BY DEF Init
  <1>. QED
    BY <1>1 DEF Init, TypeOK, RequestRows, Stages, SupportedPolicies

(***************************************************************************)
(* Every reachable state is well typed; a chosen head is a request, and    *)
(* the order of arrival holds exactly the committed requests.              *)
(***************************************************************************)
THEOREM QueueTypeCorrect == Spec => []TypeOK
  BY InitIsTyped, TypeStep, PTL DEF Spec

-----------------------------------------------------------------------------
(***************************************************************************)
(* What the steps of an intake other than Reject, PickHead and Dispatch do *)
(* to the tables: the one that passes its checks holds the lock alone, and *)
(* the others touch no table.                                              *)
(***************************************************************************)
Holding == {"checked", "picked"}
Uncommitted == {"idle", "inserting", "checked", "picked", "refused"}

Enters(q) ==
    /\ intake[q].at \in {"idle", "inserting"}
    /\ ConversationFree
    /\ intake'[q].at = "checked"
    /\ intake'[q].sawBusy = (ActiveRuns \cup Queued # {})
    /\ \A x \in Requests \ {q} : intake'[x] = intake[x] /\ request'[x] = request[x]
    /\ request'[q].status = request[q].status
    /\ UNCHANGED <<order, run>>

Passes(q) ==
    /\ intake'[q].at \notin Holding
    /\ intake'[q].at \in Uncommitted => intake[q].at \in Uncommitted
    /\ intake'[q].sawBusy = intake[q].sawBusy
    /\ \A x \in Requests \ {q} : intake'[x] = intake[x]
    /\ UNCHANGED <<request, order, run>>

ActsOnRow(q) == PromoteCheck(q) \/ PromoteCommit(q) \/ CancelQueued(q)
ActsOnRun(q) == StartRun(q) \/ EndRun(q) \/ SteerRun(q)

LEMMA IntakeMoves ==
    ASSUME TypeOK, Next
    PROVE  \E q \in Requests : \/ Enters(q) \/ Passes(q)
                              \/ Reject(q) \/ PickHead(q) \/ Dispatch(q)
                              \/ ActsOnRow(q) \/ ActsOnRun(q)
  <1>0. /\ intake \in [Requests -> Intakes]
        /\ request \in [Requests -> RequestRows]
    BY DEF TypeOK, Intakes
  <1>1. ASSUME NEW q \in Requests, NEW stage, Go(q, stage), stage \notin Holding,
               stage \in Uncommitted => intake[q].at \in Uncommitted,
               UNCHANGED <<request, order, run>>
        PROVE  Passes(q)
    <2>1. /\ intake'[q].at = stage
          /\ intake'[q].sawBusy = intake[q].sawBusy
          /\ \A x \in Requests \ {q} : intake'[x] = intake[x]
      BY <1>0, <1>1 DEF Go, Intakes
    <2>. QED
      BY <1>1, <2>1 DEF Passes
  <1>2. ASSUME NEW q \in Requests, NEW p \in Policies, CheckPolicy(q, p), ConversationFree,
               intake[q].at \in {"idle", "inserting"}, UNCHANGED <<order, run>>
        PROVE  Enters(q) \/ Passes(q)
    <2>1. CASE Go(q, "refused") /\ UNCHANGED request
      BY <1>1, <1>2, <2>1 DEF Holding, Uncommitted
    <2>2. CASE /\ request' = [request EXCEPT ![q].policy = p]
               /\ intake' = [intake EXCEPT ![q].at = "checked",
                                           ![q].sawBusy = ActiveRuns \cup Queued # {}]
      <3>1. /\ intake'[q].at = "checked"
            /\ intake'[q].sawBusy = (ActiveRuns \cup Queued # {})
            /\ \A x \in Requests \ {q} : intake'[x] = intake[x]
        BY <1>0, <2>2 DEF Intakes
      <3>2. /\ request'[q].status = request[q].status
            /\ \A x \in Requests \ {q} : request'[x] = request[x]
        BY <1>0, <2>2 DEF RequestRows
      <3>. QED
        BY <1>2, <3>1, <3>2 DEF Enters
    <2>. QED
      BY <1>2, <2>1, <2>2 DEF CheckPolicy
  <1>3. ASSUME NEW q \in Requests, NEW p \in Policies, Lock(q, p)
        PROVE  Enters(q) \/ Passes(q)
    BY <1>2, <1>3 DEF Lock
  <1>4. ASSUME NEW q \in Requests, NEW p \in Policies, InsertConversation(q, p)
        PROVE  Enters(q) \/ Passes(q)
    <2>1. CASE conversation
      BY <1>1, <1>4, <2>1 DEF InsertConversation, Holding, Uncommitted
    <2>2. CASE ~conversation
      BY <1>2, <1>4, <2>2 DEF InsertConversation
    <2>. QED
      BY <2>1, <2>2
  <1>5. ASSUME NEW q \in Requests, FindNoConversation(q)
        PROVE  Passes(q)
    BY <1>1, <1>5 DEF FindNoConversation, Holding, Uncommitted
  <1>6. ASSUME NEW q \in Requests, FinalizeIntake(q)
        PROVE  Passes(q)
    BY <1>1, <1>6 DEF FinalizeIntake, Holding, Uncommitted
  <1>7. ASSUME NEW q \in Requests, ApiCrash(q)
        PROVE  Passes(q)
    <2>. DEFINE stage == IF intake[q].at = "finalizing" THEN "done" ELSE "refused"
    <2>1. /\ stage \notin Holding
          /\ stage \in Uncommitted => intake[q].at \in Uncommitted
      BY <1>7 DEF ApiCrash, Holding, Uncommitted
    <2>2. Go(q, stage) /\ UNCHANGED <<request, order, run>>
      BY <1>7 DEF ApiCrash
    <2>. HIDE DEF stage
    <2>. QED
      BY <1>1, <2>1, <2>2
  <1>. QED
    BY <1>3, <1>4, <1>5, <1>6, <1>7 DEF Next, Intake, ActsOnRow, ActsOnRun

(***************************************************************************)
(* The other steps, on one row each.                                       *)
(***************************************************************************)
LEMMA RejectRows ==
    ASSUME TypeOK, NEW q \in Requests, Reject(q)
    PROVE  /\ intake[q].at = "checked" /\ intake'[q].at = "done"
           /\ request[q].policy = "reject" /\ intake[q].sawBusy
           /\ intake'[q].sawBusy = intake[q].sawBusy
           /\ request'[q].status = "rejected" /\ request'[q].policy = request[q].policy
           /\ \A x \in Requests \ {q} : intake'[x] = intake[x] /\ request'[x] = request[x]
           /\ order' = Append(order, q) /\ UNCHANGED run
  <1>0. /\ intake \in [Requests -> Intakes]
        /\ request \in [Requests -> RequestRows]
    BY DEF TypeOK, Intakes
  <1>1. /\ intake[q].at = "checked"
        /\ request[q].policy = "reject" /\ intake[q].sawBusy
        /\ order' = Append(order, q) /\ UNCHANGED run
    BY DEF Reject, Commit
  <1>2. /\ intake'[q].at = "done"
        /\ intake'[q].sawBusy = intake[q].sawBusy
        /\ \A x \in Requests \ {q} : intake'[x] = intake[x]
    BY <1>0 DEF Reject, Go, Intakes
  <1>3. /\ request'[q].status = "rejected" /\ request'[q].policy = request[q].policy
        /\ \A x \in Requests \ {q} : request'[x] = request[x]
    BY <1>0 DEF Reject, RequestRows
  <1>. QED
    BY <1>1, <1>2, <1>3

LEMMA PickHeadRows ==
    ASSUME TypeOK, NEW q \in Requests, PickHead(q)
    PROVE  /\ intake[q].at = "checked" /\ intake'[q].at = "picked"
           /\ intake'[q].head \in Heads(q)
           /\ intake'[q].sawBusy = intake[q].sawBusy
           /\ ~(request[q].policy = "reject" /\ intake[q].sawBusy)
           /\ \A x \in Requests \ {q} : intake'[x] = intake[x]
           /\ UNCHANGED <<request, order, run>>
  BY DEF PickHead, TypeOK

LEMMA ActsOnRowRows ==
    ASSUME TypeOK, NEW q \in Requests, ActsOnRow(q)
    PROVE  /\ UNCHANGED <<intake, order, run>>
           /\ \A x \in Requests \ {q} : request'[x] = request[x]
           /\ \/ request'[q].status = request[q].status
              \/ /\ request[q].status = "queued" /\ request'[q].status = "cancelled"
                 /\ ~RowLocked(q)
           /\ \/ request'[q].policy = request[q].policy
              \/ request'[q].policy = "steer"
  BY DEF ActsOnRow, PromoteCheck, PromoteCommit, CancelQueued, TypeOK, RequestRows

LEMMA ActsOnRunRows ==
    ASSUME TypeOK, NEW q \in Requests, ActsOnRun(q)
    PROVE  /\ UNCHANGED <<intake, order, request>>
           /\ \A x \in Requests \ {q} : run'[x] = run[x]
           /\ run[q] \in {"pending", "running"} /\ run'[q] \in {"running", "completed", "failed"}
  BY DEF ActsOnRun, StartRun, EndRun, SteerRun, TypeOK

-----------------------------------------------------------------------------
(***************************************************************************)
(* The locks.  One intake at a time holds the conversation row, its        *)
(* request is not in the table before the commit, and the head it has      *)
(* chosen stays queued: nobody else may write the locked row.              *)
(***************************************************************************)
OneHolder ==
    \A p, q \in Requests : intake[p].at \in Holding /\ intake[q].at \in Holding => p = q

Unrecorded ==
    \A q \in Requests : intake[q].at \in Uncommitted => request[q].status = "absent"

HeadWaits ==
    \A q \in Requests : intake[q].at = "picked" =>
        intake[q].head = q \/ request[intake[q].head].status = "queued"

LockInv == OneHolder /\ Unrecorded /\ HeadWaits

LEMMA LockInit == Init => LockInv
  BY DEF Init, LockInv, OneHolder, Unrecorded, HeadWaits, Holding

LEMMA LockStep ==
    ASSUME TypeOK, LockInv, Next
    PROVE  LockInv'
  <1>. USE DEF LockInv
  <1>0. /\ intake \in [Requests -> Intakes]
        /\ \A q \in Requests : intake[q].at = "picked" => intake[q].head \in Requests
    BY DEF TypeOK, Intakes
  <1>1. ASSUME NEW q \in Requests, Enters(q)
        PROVE  LockInv'
    <2>1. OneHolder'
      BY <1>1 DEF Enters, OneHolder, Holding, ConversationFree
    <2>2. Unrecorded'
      BY <1>1 DEF Enters, Unrecorded, Uncommitted
    <2>3. HeadWaits'
      BY <1>1 DEF Enters, HeadWaits, ConversationFree
    <2>. QED
      BY <2>1, <2>2, <2>3
  <1>2. ASSUME NEW q \in Requests, Passes(q)
        PROVE  LockInv'
    <2>1. OneHolder'
      BY <1>2 DEF Passes, OneHolder
    <2>2. Unrecorded'
      BY <1>2 DEF Passes, Unrecorded
    <2>3. HeadWaits'
      BY <1>2 DEF Passes, HeadWaits, Holding
    <2>. QED
      BY <2>1, <2>2, <2>3
  <1>3. ASSUME NEW q \in Requests, Reject(q)
        PROVE  LockInv'
    <2>. USE <1>3, RejectRows
    <2>1. OneHolder'
      BY DEF OneHolder, Holding
    <2>2. Unrecorded'
      BY DEF Unrecorded, Uncommitted
    <2>3. HeadWaits'
      BY <1>0 DEF HeadWaits, Unrecorded, OneHolder, Holding
    <2>. QED
      BY <2>1, <2>2, <2>3
  <1>4. ASSUME NEW q \in Requests, PickHead(q)
        PROVE  LockInv'
    <2>. USE <1>4, PickHeadRows
    <2>1. OneHolder'
      BY DEF OneHolder, Holding
    <2>2. Unrecorded'
      BY DEF Unrecorded, Uncommitted
    <2>3. HeadWaits'
      BY DEF HeadWaits, Heads, Queued
    <2>. QED
      BY <2>1, <2>2, <2>3
  <1>5. ASSUME NEW q \in Requests, Dispatch(q)
        PROVE  LockInv'
    <2>1. /\ intake[q].at = "picked"
          /\ \A p \in Requests \ {q, intake[q].head} : request'[p].status = request[p].status
          /\ \A p \in Requests \ {q} : intake'[p] = intake[p]
          /\ intake'[q].at \in {"finalizing", "done"}
      BY <1>5, DispatchRows
    <2>2. OneHolder'
      BY <2>1 DEF OneHolder, Holding
    <2>3. \A p \in Requests : intake'[p].at \notin Holding
      BY <2>1 DEF OneHolder, Holding
    <2>4. Unrecorded'
      <3>. SUFFICES ASSUME NEW p \in Requests, intake'[p].at \in Uncommitted
                    PROVE  request'[p].status = "absent"
        BY DEF Unrecorded
      <3>1. p # q /\ intake[p].at \in Uncommitted /\ request[p].status = "absent"
        BY <2>1 DEF Unrecorded, Uncommitted
      <3>2. p # intake[q].head
        BY <2>1, <3>1 DEF HeadWaits
      <3>. QED
        BY <2>1, <3>1, <3>2
    <2>5. HeadWaits'
      BY <2>3 DEF HeadWaits, Holding
    <2>. QED
      BY <2>2, <2>4, <2>5
  <1>6. ASSUME NEW q \in Requests, ActsOnRow(q)
        PROVE  LockInv'
    <2>. USE <1>6, ActsOnRowRows
    <2>1. OneHolder'
      BY DEF OneHolder
    <2>2. Unrecorded'
      BY DEF Unrecorded
    <2>3. HeadWaits'
      BY <1>0 DEF HeadWaits, RowLocked
    <2>. QED
      BY <2>1, <2>2, <2>3
  <1>7. ASSUME NEW q \in Requests, ActsOnRun(q)
        PROVE  LockInv'
    BY <1>7, ActsOnRunRows DEF OneHolder, Unrecorded, HeadWaits
  <1>. QED
    BY <1>1, <1>2, <1>3, <1>4, <1>5, <1>6, <1>7, IntakeMoves

(***************************************************************************)
(* A request has a run exactly if it is dispatched.  mark_dispatched does  *)
(* not say whether it found the request queued, so this rests on the row   *)
(* lock taken with the head.                                               *)
(***************************************************************************)
LEMMA DispatchedStep ==
    ASSUME TypeOK, LockInv, DispatchedIffRun, Next
    PROVE  DispatchedIffRun'
  <1>1. ASSUME NEW q \in Requests, Enters(q) \/ Passes(q)
        PROVE  DispatchedIffRun'
    BY <1>1 DEF Enters, Passes, DispatchedIffRun
  <1>2. ASSUME NEW q \in Requests, Reject(q)
        PROVE  DispatchedIffRun'
    <2>1. request[q].status = "absent"
      BY <1>2, RejectRows DEF LockInv, Unrecorded, Uncommitted
    <2>. QED
      BY <1>2, <2>1, RejectRows DEF DispatchedIffRun
  <1>3. ASSUME NEW q \in Requests, PickHead(q)
        PROVE  DispatchedIffRun'
    BY <1>3, PickHeadRows DEF DispatchedIffRun
  <1>4. ASSUME NEW q \in Requests, Dispatch(q)
        PROVE  DispatchedIffRun'
    <2>. DEFINE h == intake[q].head
    <2>1. /\ request[q].status = "absent"
          /\ h # q => request[h].status = "queued"
          /\ h \in Requests
      BY <1>4, DispatchRows DEF LockInv, Unrecorded, HeadWaits, Uncommitted
    <2>2. run[q] = "none" /\ run[h] = "none"
      BY <2>1 DEF DispatchedIffRun
    <2>3. CASE Dispatches(q)
      <3>1. /\ request'[h].status = "dispatched"
            /\ h # q => request'[q].status = "queued"
            /\ \A p \in Requests \ {q, h} : request'[p].status = request[p].status
            /\ \A p \in Requests : run'[p] = IF p = h THEN "pending" ELSE run[p]
        BY <1>4, <2>1, <2>3, DispatchRows
      <3>. QED
        BY <2>1, <2>2, <3>1 DEF DispatchedIffRun
    <2>4. CASE ~Dispatches(q)
      <3>1. /\ request'[q].status \in {"queued", "rejected"}
            /\ \A p \in Requests \ {q} : request'[p].status = request[p].status
            /\ UNCHANGED run
        BY <1>4, <2>4, DispatchRows
      <3>. QED
        BY <2>2, <3>1 DEF DispatchedIffRun
    <2>. QED
      BY <2>3, <2>4
  <1>5. ASSUME NEW q \in Requests, ActsOnRow(q)
        PROVE  DispatchedIffRun'
    BY <1>5, ActsOnRowRows DEF DispatchedIffRun
  <1>6. ASSUME NEW q \in Requests, ActsOnRun(q)
        PROVE  DispatchedIffRun'
    BY <1>6, ActsOnRunRows DEF DispatchedIffRun
  <1>. QED
    BY <1>1, <1>2, <1>3, <1>4, <1>5, <1>6, IntakeMoves

DispatchInv == TypeOK /\ LockInv /\ DispatchedIffRun

LEMMA DispatchInvHolds == Spec => []DispatchInv
  <1>1. Init => DispatchInv
    BY LockInit, InitIsTyped DEF Init, DispatchInv, DispatchedIffRun
  <1>2. DispatchInv /\ [Next]_vars => DispatchInv'
    <2>. SUFFICES ASSUME DispatchInv, [Next]_vars PROVE DispatchInv'
      OBVIOUS
    <2>1. CASE Next
      BY <2>1, TypeStep, LockStep, DispatchedStep DEF DispatchInv
    <2>2. CASE UNCHANGED vars
      <3>1. TypeOK'
        BY <2>2, TypeStep DEF DispatchInv
      <3>2. LockInv' /\ DispatchedIffRun'
        BY <2>2 DEF DispatchInv, LockInv, OneHolder, Unrecorded, HeadWaits, DispatchedIffRun, vars
      <3>. QED
        BY <3>1, <3>2 DEF DispatchInv
    <2>. QED
      BY <2>1, <2>2
  <1>. QED
    BY <1>1, <1>2, PTL DEF Spec

(***************************************************************************)
(* A request is dispatched exactly if it has a run, in every interleaving  *)
(* of intakes, promotions, cancellations and crashes.                      *)
(***************************************************************************)
THEOREM DispatchedIffRunHolds == Spec => []DispatchedIffRun
  BY DispatchInvHolds, PTL DEF DispatchInv

-----------------------------------------------------------------------------
(***************************************************************************)
(* A thread never has two active runs.  A dispatch reads the active run    *)
(* again, and the run it creates is the only one; no other step makes a    *)
(* run active.                                                             *)
(***************************************************************************)
LEMMA ActiveStep ==
    ASSUME TypeOK, OneActiveRun, Next
    PROVE  OneActiveRun'
  <1>1. ASSUME NEW q \in Requests, Enters(q) \/ Passes(q)
        PROVE  OneActiveRun'
    BY <1>1 DEF Enters, Passes, OneActiveRun, ActiveRuns
  <1>2. ASSUME NEW q \in Requests, Reject(q) \/ PickHead(q) \/ ActsOnRow(q)
        PROVE  OneActiveRun'
    <2>1. UNCHANGED run
      BY <1>2, RejectRows, PickHeadRows, ActsOnRowRows
    <2>. QED
      BY <2>1 DEF OneActiveRun, ActiveRuns
  <1>3. ASSUME NEW q \in Requests, Dispatch(q)
        PROVE  OneActiveRun'
    <2>1. CASE Dispatches(q)
      <3>1. /\ ActiveRuns = {}
            /\ \A p \in Requests : run'[p] = IF p = intake[q].head THEN "pending" ELSE run[p]
        BY <1>3, <2>1, DispatchRows DEF Dispatches
      <3>. QED
        BY <3>1 DEF OneActiveRun, ActiveRuns
    <2>2. CASE ~Dispatches(q)
      BY <1>3, <2>2, DispatchRows DEF OneActiveRun, ActiveRuns
    <2>. QED
      BY <2>1, <2>2
  <1>4. ASSUME NEW q \in Requests, ActsOnRun(q)
        PROVE  OneActiveRun'
    BY <1>4, ActsOnRunRows DEF OneActiveRun, ActiveRuns
  <1>. QED
    BY <1>1, <1>2, <1>3, <1>4, IntakeMoves

THEOREM OneActiveRunHolds == Spec => []OneActiveRun
  <1>1. Init => OneActiveRun
    BY DEF Init, OneActiveRun, ActiveRuns
  <1>2. TypeOK /\ OneActiveRun /\ [Next]_vars => OneActiveRun'
    BY ActiveStep DEF vars, OneActiveRun, ActiveRuns
  <1>. QED
    BY <1>1, <1>2, QueueTypeCorrect, PTL DEF Spec

-----------------------------------------------------------------------------
(***************************************************************************)
(* A reject request that found the thread idle still finds it idle when it *)
(* dispatches: the runs and the queue grow only with the commit of an      *)
(* intake, and it holds the lock.  So its own request is the head.         *)
(***************************************************************************)
IdleForReject ==
    \A q \in Requests :
        /\ intake[q].at \in Holding /\ request[q].policy = "reject" /\ ~intake[q].sawBusy
        => ActiveRuns = {} /\ Queued = {}

RejectPicksItself ==
    \A q \in Requests : intake[q].at = "picked" /\ request[q].policy = "reject"
        => intake[q].head = q /\ ~intake[q].sawBusy

RejectInv == IdleForReject /\ RejectPicksItself /\ RejectedOnlyIfBusy

LEMMA RejectStep ==
    ASSUME TypeOK, LockInv, RejectInv, Next
    PROVE  RejectInv'
  <1>. USE DEF RejectInv
  <1>1. ASSUME NEW q \in Requests, Enters(q)
        PROVE  RejectInv'
    <2>1. IdleForReject'
      BY <1>1 DEF Enters, IdleForReject, ConversationFree, Holding, ActiveRuns, Queued
    <2>2. RejectPicksItself'
      BY <1>1 DEF Enters, RejectPicksItself, ConversationFree
    <2>3. RejectedOnlyIfBusy'
      BY <1>1 DEF Enters, RejectedOnlyIfBusy, LockInv, Unrecorded, Uncommitted
    <2>. QED
      BY <2>1, <2>2, <2>3
  <1>2. ASSUME NEW q \in Requests, Passes(q)
        PROVE  RejectInv'
    <2>1. ActiveRuns' = ActiveRuns /\ Queued' = Queued
      BY <1>2 DEF Passes, ActiveRuns, Queued
    <2>2. IdleForReject'
      BY <1>2, <2>1 DEF Passes, IdleForReject
    <2>3. RejectPicksItself'
      BY <1>2 DEF Passes, RejectPicksItself, Holding
    <2>4. RejectedOnlyIfBusy'
      BY <1>2 DEF Passes, RejectedOnlyIfBusy
    <2>. QED
      BY <2>2, <2>3, <2>4
  <1>3. ASSUME NEW q \in Requests, Reject(q)
        PROVE  RejectInv'
    <2>1. \A p \in Requests : intake'[p].at \notin Holding
      BY <1>3, RejectRows DEF LockInv, OneHolder, Holding
    <2>2. RejectedOnlyIfBusy'
      BY <1>3, RejectRows DEF RejectedOnlyIfBusy
    <2>. QED
      BY <2>1, <2>2 DEF IdleForReject, RejectPicksItself, Holding
  <1>4. ASSUME NEW q \in Requests, PickHead(q)
        PROVE  RejectInv'
    <2>. USE <1>4, PickHeadRows
    <2>1. ActiveRuns' = ActiveRuns /\ Queued' = Queued
      BY DEF ActiveRuns, Queued
    <2>2. IdleForReject'
      BY <2>1 DEF IdleForReject, Holding
    <2>3. request[q].policy = "reject" => Queued = {}
      BY DEF IdleForReject, Holding
    <2>4. request[q].policy = "reject" => intake'[q].head = q
      BY <2>3 DEF Heads
    <2>5. RejectPicksItself'
      BY <2>4 DEF RejectPicksItself
    <2>6. RejectedOnlyIfBusy'
      BY DEF RejectedOnlyIfBusy
    <2>. QED
      BY <2>2, <2>5, <2>6
  <1>5. ASSUME NEW q \in Requests, Dispatch(q)
        PROVE  RejectInv'
    <2>. DEFINE h == intake[q].head
    <2>1. /\ intake[q].at = "picked"
          /\ \A p \in Requests \ {q, h} : request'[p].status = request[p].status
          /\ \A p \in Requests \ {q} : intake'[p] = intake[p]
          /\ intake'[q].at \in {"finalizing", "done"}
          /\ intake'[q].sawBusy = intake[q].sawBusy
      BY <1>5, DispatchRows
    <2>2. \A p \in Requests : intake'[p].at \notin Holding
      BY <2>1 DEF LockInv, OneHolder, Holding
    <2>3. request'[q].status # "rejected"
      <3>1. CASE request[q].policy = "reject"
        <4>1. Dispatches(q)
          BY <2>1, <3>1 DEF Dispatches, IdleForReject, RejectPicksItself, Holding
        <4>. QED
          BY <1>5, <4>1, DispatchRows
      <3>2. CASE request[q].policy # "reject"
        BY <1>5, <3>2, DispatchRows
      <3>. QED
        BY <3>1, <3>2
    <2>4. h # q => request'[h].status \in {"dispatched", request[h].status}
      BY <1>5, DispatchRows
    <2>5. RejectedOnlyIfBusy'
      BY <2>1, <2>3, <2>4 DEF RejectedOnlyIfBusy
    <2>. QED
      BY <2>2, <2>5 DEF IdleForReject, RejectPicksItself, Holding
  <1>6. ASSUME NEW q \in Requests, ActsOnRow(q)
        PROVE  RejectInv'
    <2>. USE <1>6, ActsOnRowRows
    <2>1. ActiveRuns' = ActiveRuns /\ Queued' \subseteq Queued
      BY DEF ActiveRuns, Queued
    <2>2. \A p \in Requests : request'[p].policy = "reject" => request[p].policy = "reject"
      OBVIOUS
    <2>3. IdleForReject'
      BY <2>1, <2>2 DEF IdleForReject
    <2>4. RejectPicksItself'
      BY <2>2 DEF RejectPicksItself
    <2>5. RejectedOnlyIfBusy'
      BY DEF RejectedOnlyIfBusy
    <2>. QED
      BY <2>3, <2>4, <2>5
  <1>7. ASSUME NEW q \in Requests, ActsOnRun(q)
        PROVE  RejectInv'
    <2>1. ActiveRuns' \subseteq ActiveRuns /\ Queued' = Queued
      BY <1>7, ActsOnRunRows DEF ActiveRuns, Queued
    <2>. QED
      BY <1>7, <2>1, ActsOnRunRows DEF IdleForReject, RejectPicksItself, RejectedOnlyIfBusy
  <1>. QED
    BY <1>1, <1>2, <1>3, <1>4, <1>5, <1>6, <1>7, IntakeMoves

(***************************************************************************)
(* Only a thread that was busy at the lock turns a reject request away.    *)
(***************************************************************************)
THEOREM RejectedOnlyIfBusyHolds == Spec => []RejectedOnlyIfBusy
  <1>1. Init => RejectInv
    BY DEF Init, RejectInv, IdleForReject, RejectPicksItself, RejectedOnlyIfBusy, Holding
  <1>2. DispatchInv /\ RejectInv /\ [Next]_vars => RejectInv'
    <2>. SUFFICES ASSUME DispatchInv, RejectInv, [Next]_vars PROVE RejectInv'
      OBVIOUS
    <2>1. CASE Next
      BY <2>1, RejectStep DEF DispatchInv
    <2>2. CASE UNCHANGED vars
      BY <2>2 DEF vars, RejectInv, IdleForReject, RejectPicksItself, RejectedOnlyIfBusy,
                  ActiveRuns, Queued
    <2>. QED
      BY <2>1, <2>2
  <1>3. RejectInv => RejectedOnlyIfBusy
    BY DEF RejectInv
  <1>. QED
    BY <1>1, <1>2, <1>3, DispatchInvHolds, PTL DEF Spec

-----------------------------------------------------------------------------
(***************************************************************************)
(* FIFO.  A head that is no steer request was chosen when no steer request *)
(* waited, so it is the oldest in line, and the line does not grow before  *)
(* it is dispatched.  Arrival is an order since no request is in it twice. *)
(***************************************************************************)
DistinctOrder == \A i, j \in DOMAIN order : order[i] = order[j] => i = j

HeadIsFirst ==
    \A q \in Requests : LET h == intake[q].head IN
        intake[q].at = "picked" /\ request[h].policy = "enqueue" =>
            /\ h = q => Queued = {}
            /\ h # q => \A r \in Queued \ {h} : Before(h, r)

LEMMA DistinctAppend ==
    ASSUME TypeOK, DistinctOrder, NEW q \in Requests, ~Recorded(q), order' = Append(order, q)
    PROVE  DistinctOrder'
  <1>1. /\ DOMAIN order' = DOMAIN order \cup {Len(order) + 1}
        /\ \A i \in DOMAIN order : order'[i] = order[i]
        /\ order'[Len(order) + 1] = q
    BY AppendOrder DEF TypeOK
  <1>. SUFFICES ASSUME NEW i \in DOMAIN order', NEW j \in DOMAIN order', order'[i] = order'[j]
                PROVE  i = j
    BY DEF DistinctOrder
  <1>2. CASE i \in DOMAIN order /\ j \in DOMAIN order
    BY <1>1, <1>2 DEF DistinctOrder
  <1>3. CASE i \notin DOMAIN order \/ j \notin DOMAIN order
    BY <1>1, <1>3 DEF Recorded
  <1>. QED
    BY <1>2, <1>3

LEMMA DistinctStep ==
    ASSUME TypeOK, LockInv, DistinctOrder, Next
    PROVE  DistinctOrder'
  <1>1. ASSUME NEW q \in Requests, intake[q].at \in Uncommitted, order' = Append(order, q)
        PROVE  DistinctOrder'
    <2>1. ~Recorded(q)
      BY <1>1 DEF LockInv, Unrecorded, TypeOK, Recorded
    <2>. QED
      BY <1>1, <2>1, DistinctAppend
  <1>2. ASSUME NEW q \in Requests, Reject(q) \/ Dispatch(q)
        PROVE  DistinctOrder'
    BY <1>1, <1>2, RejectRows, DispatchRows DEF Uncommitted
  <1>3. ASSUME NEW q \in Requests,
               Enters(q) \/ Passes(q) \/ PickHead(q) \/ ActsOnRow(q) \/ ActsOnRun(q)
        PROVE  DistinctOrder'
    <2>1. UNCHANGED order
      BY <1>3, PickHeadRows, ActsOnRowRows, ActsOnRunRows DEF Enters, Passes
    <2>. QED
      BY <2>1 DEF DistinctOrder
  <1>. QED
    BY <1>2, <1>3, IntakeMoves

LEMMA HeadStep ==
    ASSUME TypeOK, LockInv, HeadIsFirst, Next
    PROVE  HeadIsFirst'
  <1>1. ASSUME NEW q \in Requests, Enters(q)
        PROVE  HeadIsFirst'
    <2>1. \A p \in Requests : intake'[p].at # "picked"
      BY <1>1 DEF Enters, ConversationFree
    <2>. QED
      BY <2>1 DEF HeadIsFirst
  <1>2. ASSUME NEW q \in Requests, Passes(q)
        PROVE  HeadIsFirst'
    <2>1. Queued' = Queued /\ \A x, y : Before(x, y)' = Before(x, y)
      BY <1>2 DEF Passes, Queued, Before
    <2>. QED
      BY <1>2, <2>1 DEF Passes, HeadIsFirst, Holding
  <1>3. ASSUME NEW q \in Requests, Reject(q) \/ Dispatch(q)
        PROVE  HeadIsFirst'
    <2>1. /\ intake[q].at \in Holding
          /\ intake'[q].at \notin Holding
          /\ \A p \in Requests \ {q} : intake'[p] = intake[p]
      BY <1>3, RejectRows, DispatchRows DEF Holding
    <2>2. \A p \in Requests : intake'[p].at # "picked"
      BY <2>1 DEF LockInv, OneHolder, Holding
    <2>. QED
      BY <2>2 DEF HeadIsFirst
  <1>4. ASSUME NEW q \in Requests, PickHead(q)
        PROVE  HeadIsFirst'
    <2>. DEFINE h == intake'[q].head
    <2>0. /\ intake[q].at = "checked"
          /\ h \in Heads(q)
          /\ \A x \in Requests \ {q} : intake'[x] = intake[x]
          /\ UNCHANGED <<request, order, run>>
      BY <1>4, PickHeadRows
    <2>1. \A p \in Requests \ {q} : intake'[p].at # "picked"
      BY <2>0 DEF LockInv, OneHolder, Holding
    <2>2. q \notin Queued
      BY <2>0 DEF LockInv, Unrecorded, Uncommitted, Queued
    <2>3. ASSUME request[h].policy = "enqueue", NEW r \in (Queued \cup {q}) \ {h}
          PROVE  h # q /\ (r = q \/ Before(h, r))
      BY <2>0, <2>3 DEF Heads, Precedes, Steers, Older
    <2>4. request[h].policy = "enqueue" =>
            /\ h = q => Queued = {}
            /\ h # q => \A r \in Queued \ {h} : Before(h, r)
      BY <2>2, <2>3
    <2>5. Queued' = Queued /\ \A x, y : Before(x, y)' = Before(x, y)
      BY <2>0 DEF Queued, Before
    <2>. QED
      BY <2>0, <2>1, <2>4, <2>5 DEF HeadIsFirst
  <1>5. ASSUME NEW q \in Requests, ActsOnRow(q) \/ ActsOnRun(q)
        PROVE  HeadIsFirst'
    <2>1. /\ UNCHANGED <<intake, order>>
          /\ \A p \in Requests : request'[p].policy = "enqueue" => request[p].policy = "enqueue"
          /\ \A p \in Requests : request'[p].status = "queued" => request[p].status = "queued"
      BY <1>5, ActsOnRowRows, ActsOnRunRows
    <2>2. Queued' \subseteq Queued /\ \A x, y : Before(x, y)' = Before(x, y)
      BY <2>1 DEF Queued, Before
    <2>3. \A p \in Requests : intake[p].at = "picked" => intake[p].head \in Requests
      BY DEF TypeOK
    <2>. QED
      BY <2>1, <2>2, <2>3 DEF HeadIsFirst
  <1>. QED
    BY <1>1, <1>2, <1>3, <1>4, <1>5, IntakeMoves

LEMMA FirstComeFirstServedStep ==
    ASSUME TypeOK, LockInv, DispatchedIffRun, DistinctOrder, HeadIsFirst, Next,
           NEW p \in Requests, NEW q \in Requests,
           run[q] = "none", run'[q] # "none",
           request[q].policy = "enqueue", request'[p].status = "queued"
    PROVE  ~Before(p, q)'
  <1>1. PICK x \in Requests : Dispatch(x) /\ Dispatches(x) /\ intake[x].head = q
    <2>1. ASSUME NEW x \in Requests,
                 Enters(x) \/ Passes(x) \/ Reject(x) \/ PickHead(x) \/ ActsOnRow(x) \/ ActsOnRun(x)
          PROVE  FALSE
      <3>1. CASE ActsOnRun(x)
        BY <3>1, ActsOnRunRows
      <3>2. CASE ~ActsOnRun(x)
        BY <2>1, <3>2, RejectRows, PickHeadRows, ActsOnRowRows DEF Enters, Passes
      <3>. QED
        BY <3>1, <3>2
    <2>2. PICK x \in Requests : Dispatch(x)
      BY <2>1, IntakeMoves
    <2>3. Dispatches(x) /\ intake[x].head = q
      BY <2>2, DispatchRows
    <2>. QED
      BY <2>2, <2>3
  <1>2. /\ intake[x].at = "picked"
        /\ order' = Append(order, x)
        /\ request'[x].status = IF q = x THEN "dispatched" ELSE "queued"
        /\ \A r \in Requests \ {x, q} : request'[r].status = request[r].status
        /\ q # x => request[q].status = "queued" /\ request'[q].status = "dispatched"
    BY <1>1, DispatchRows DEF LockInv, HeadWaits
  <1>3. /\ DOMAIN order' = DOMAIN order \cup {Len(order) + 1}
        /\ DOMAIN order = 1..Len(order) /\ Len(order) \in Nat
        /\ \A i \in DOMAIN order : order'[i] = order[i]
        /\ order'[Len(order) + 1] = x
    BY <1>2, AppendOrder DEF TypeOK
  <1>4. ~Recorded(x)
    BY <1>2 DEF LockInv, Unrecorded, Uncommitted, TypeOK, Recorded
  <1>5. p # q
    BY <1>2
  <1>6. CASE q = x
    <2>1. p \in Queued /\ Queued = {}
      BY <1>1, <1>2, <1>5, <1>6 DEF HeadIsFirst, Queued
    <2>. QED
      BY <2>1
  <1>7. CASE q # x /\ p = x
    <2>1. SUFFICES ASSUME NEW i \in DOMAIN order', NEW j \in DOMAIN order', i < j,
                          order'[i] = x, order'[j] = q
                   PROVE  FALSE
      BY <1>7 DEF Before
    <2>2. i = Len(order) + 1
      BY <1>3, <1>4, <2>1 DEF Recorded
    <2>. QED
      BY <1>3, <2>1, <2>2
  <1>8. CASE q # x /\ p # x
    <2>1. Before(q, p)
      BY <1>1, <1>2, <1>5, <1>8 DEF HeadIsFirst, Queued
    <2>2. PICK k \in DOMAIN order, l \in DOMAIN order : k < l /\ order[k] = q /\ order[l] = p
      BY <2>1 DEF Before
    <2>3. SUFFICES ASSUME NEW i \in DOMAIN order', NEW j \in DOMAIN order', i < j,
                          order'[i] = p, order'[j] = q
                   PROVE  FALSE
      BY DEF Before
    <2>4. i \in DOMAIN order /\ j \in DOMAIN order
      BY <1>3, <1>8, <2>3
    <2>5. i = l /\ j = k
      BY <1>3, <2>2, <2>3, <2>4 DEF DistinctOrder
    <2>. QED
      BY <1>3, <2>2, <2>3, <2>4, <2>5
  <1>. QED
    BY <1>6, <1>7, <1>8

(***************************************************************************)
(* Ordinary requests are served in the order of arrival.                   *)
(***************************************************************************)
THEOREM FirstComeFirstServedHolds == Spec => FirstComeFirstServed
  <1>. DEFINE Inv == DistinctOrder /\ HeadIsFirst
  <1>1. Init => Inv
    BY DEF Init, DistinctOrder, HeadIsFirst
  <1>2. DispatchInv /\ Inv /\ [Next]_vars => Inv'
    <2>. SUFFICES ASSUME DispatchInv, Inv, [Next]_vars PROVE Inv'
      OBVIOUS
    <2>1. CASE Next
      BY <2>1, DistinctStep, HeadStep DEF DispatchInv
    <2>2. CASE UNCHANGED vars
      BY <2>2 DEF vars, DistinctOrder, HeadIsFirst, Queued, Before
    <2>. QED
      BY <2>1, <2>2
  <1>3. DispatchInv /\ Inv /\ [Next]_vars =>
          [\A p, q \in Requests :
              /\ run[q] = "none" /\ run'[q] # "none"
              /\ request[q].policy = "enqueue" /\ request'[p].policy = "enqueue"
              /\ request'[p].status = "queued"
              => ~Before(p, q)']_vars
    BY FirstComeFirstServedStep DEF DispatchInv
  <1>. HIDE DEF Inv
  <1>. QED
    BY <1>1, <1>2, <1>3, DispatchInvHolds, PTL DEF Spec, FirstComeFirstServed
=============================================================================
