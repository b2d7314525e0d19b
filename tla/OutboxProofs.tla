----------------------------- MODULE OutboxProofs -----------------------------
(* Proofs about Outbox, for every value of its constants. *)
EXTENDS OutboxProperties, FiniteSetTheorems, TLAPS

-----------------------------------------------------------------------------
(* Types. *)

\* What a publisher stores or publishes is a reply, and next points into it.
SendingOK ==
    \A p \in Publisher :
        /\ pc[p] \in {"store", "publish", "sent"} =>
               sending[p] \in Reply /\ Len(sending[p].routes) > 0
        /\ pc[p] = "store" => next[p] = 1
        /\ pc[p] = "publish" => next[p] <= Len(sending[p].routes)
        /\ pc[p] = "idle" => next[p] = 1

\* A stored reply names at least one queue.
StoredOK ==
    /\ \A t \in Task : reply[t] # NoReply => Len(reply[t].routes) > 0
    /\ \A p \in Publisher : \A c \in work[p] : c.reply # NoReply => Len(c.reply.routes) > 0

TypeInv == TypeOK /\ SendingOK /\ StoredOK

LEMMA InitTypeInv == OutboxAssumption /\ Init => TypeInv
BY DEF Init, TypeInv, TypeOK, SendingOK, StoredOK, OutboxAssumption

\* The parts of TypeInv about the rows and about the publishers.
RowTypes ==
    /\ status \in [Task -> {Absent, "PENDING", "PROCESSING"} \cup FinalStatus]
    /\ token \in [Task -> Nat]
    /\ attempts \in [Task -> Nat]
    /\ reply \in [Task -> Reply \cup {NoReply}]
    /\ aged \subseteq Task
    /\ \A t \in Task : reply[t] # NoReply => Len(reply[t].routes) > 0

ProcTypes ==
    /\ pc \in [Publisher -> {"idle", "skip", "store", "publish", "sent", "fail"}]
    /\ claim \in [Publisher -> Claim \cup {NoClaim}]
    /\ \A p \in Publisher : pc[p] # "idle" => claim[p] \in Claim
    /\ sending \in [Publisher -> Reply \cup {NoReply}]
    /\ next \in [Publisher -> Nat \ {0}]
    /\ SendingOK

WorkTypes ==
    /\ work \in [Publisher -> SUBSET Claim]
    /\ \A p \in Publisher : \A c \in work[p] : c.reply # NoReply => Len(c.reply.routes) > 0

RestTypes ==
    /\ terminal \subseteq Task /\ deleted \subseteq Task
    /\ copies \in [Task -> [Queue -> [Body -> Nat]]]
    /\ faults \in 0..MaxFaults

LEMMA TypeInvParts == TypeInv <=> RowTypes /\ ProcTypes /\ WorkTypes /\ RestTypes
BY DEF TypeInv, TypeOK, StoredOK, RowTypes, ProcTypes, WorkTypes, RestTypes

\* The same of the next state.
LEMMA TypeInvPartsNext ==
    ASSUME RowTypes', ProcTypes', WorkTypes', RestTypes'
    PROVE  TypeInv'
BY DEF TypeInv, TypeOK, StoredOK, RowTypes, ProcTypes, WorkTypes, RestTypes

\* A busy publisher works on the claim of a task.
LEMMA BusyClaim ==
    ASSUME TypeInv, NEW p \in Publisher, pc[p] # "idle"
    PROVE  claim[p] \in Claim /\ claim[p].task \in Task /\ claim[p].token \in Nat
BY DEF TypeInv, TypeOK, Claim

\* Release and Goto lead to typed publishers.
LEMMA ReleaseTypes ==
    ASSUME TypeInv, NEW p \in Publisher, Release(p)
    PROVE  ProcTypes'
<1>1. ProcTypes
  BY TypeInvParts
<1>2. QED
  BY <1>1 DEF Release, ProcTypes, SendingOK

LEMMA GotoTypes ==
    ASSUME TypeInv, NEW p \in Publisher, NEW l \in {"publish", "fail"}, Goto(p, l),
           pc[p] # "idle", l = "publish" => pc[p] = "store"
    PROVE  ProcTypes'
<1>1. ProcTypes
  BY TypeInvParts
<1>2. QED
  BY <1>1 DEF Goto, ProcTypes, SendingOK

\* So does an update of the row that a publisher works on.
LEMMA SetOwnedTypes ==
    ASSUME TypeInv, NEW c \in Claim, NEW s \in {"PENDING"} \cup FinalStatus, SetOwned(c, s),
           attempts' \in [Task -> Nat], UNCHANGED <<token, reply>>
    PROVE  RowTypes'
<1>1. RowTypes /\ c.task \in Task
  BY TypeInvParts DEF Claim
<1>2. QED
  BY <1>1 DEF SetOwned, RowTypes

LEMMA TakeTypes ==
    ASSUME TypeInv, NEW p \in Publisher, NEW c \in work[p], NEW r \in Reply \cup {NoReply},
           NEW l \in {"skip", "store", "publish", "fail"},
           l \in {"store", "publish"} => r \in Reply /\ Len(r.routes) > 0,
           Take(p, c, l, r)
    PROVE  TypeInv'
<1> USE DEF Take, taskVars, rowVars
<1>1. RowTypes /\ ProcTypes /\ WorkTypes /\ RestTypes
  BY TypeInvParts
<1>2. RowTypes'
  BY <1>1 DEF RowTypes
<1>3. c \in Claim
  BY <1>1 DEF WorkTypes
<1>4. ProcTypes'
  <2>1. \A q \in Publisher : pc'[q] # "idle" => claim'[q] \in Claim
    BY <1>1, <1>3 DEF ProcTypes
  <2>2. SendingOK'
    BY <1>1 DEF ProcTypes, SendingOK
  <2>3. QED
    BY <1>1, <1>3, <2>1, <2>2 DEF ProcTypes
<1>5. WorkTypes'
  BY <1>1 DEF WorkTypes
<1>6. RestTypes'
  BY <1>1 DEF RestTypes
<1>7. QED
  BY <1>2, <1>4, <1>5, <1>6, TypeInvPartsNext

LEMMA ReceiveTypes ==
    ASSUME TypeInv, NEW p \in Publisher, Receive(p)
    PROVE  copies' \in [Task -> [Queue -> [Body -> Nat]]]
BY DEF Receive, TypeInv, TypeOK

LEMMA StepTypeInv ==
    ASSUME OutboxAssumption, TypeInv, [Next]_vars
    PROVE  TypeInv'
<1> USE DEF rowVars, procVars
<1>1. RowTypes /\ ProcTypes /\ WorkTypes /\ RestTypes
  BY TypeInvParts
<1>2. ASSUME NEW t \in Task, Terminate(t) \/ Delete(t) PROVE TypeInv'
  BY <1>2 DEF Terminate, Delete, Fault, OutboxAssumption, TypeInv, TypeOK, SendingOK, StoredOK
<1>3. ASSUME NEW t \in Task, LeaseLate(t) \/ LeaseExpires(t) PROVE TypeInv'
  BY <1>3 DEF LeaseLate, LeaseExpires, Age, Fault, OutboxAssumption, taskVars, TypeInv, TypeOK,
              SendingOK, StoredOK
<1>4. ASSUME NEW p \in Publisher, NEW S \in SUBSET Task, Reconcile(p, S) PROVE TypeInv'
  BY <1>4 DEF Reconcile, taskVars, TypeInv, TypeOK, SendingOK, StoredOK
<1>5. ASSUME NEW p \in Publisher, NEW S \in SUBSET Task, ClaimRows(p, S) PROVE TypeInv'
  <2>1. RowTypes'
    BY <1>1, <1>5 DEF ClaimRows, RowTypes
  <2>2. WorkTypes'
    <3>1. ASSUME NEW t \in S
          PROVE  /\ [task |-> t, token |-> token[t] + 1, reply |-> reply[t]] \in Claim
                 /\ reply[t] # NoReply => Len(reply[t].routes) > 0
      BY <1>1 DEF RowTypes, Claim
    <3>2. QED
      BY <1>1, <1>5, <3>1 DEF ClaimRows, WorkTypes
  <2>3. ProcTypes' /\ RestTypes'
    BY <1>1, <1>5 DEF ClaimRows, ProcTypes, SendingOK, RestTypes, taskVars
  <2>4. QED
    BY <2>1, <2>2, <2>3, TypeInvPartsNext
<1>6. ASSUME NEW p \in Publisher, NEW c \in work[p],
             TakeUnhooked(p, c) \/ TakeNothing(p, c) \/ TakeRaises(p, c)
      PROVE  TypeInv'
  BY <1>6, TakeTypes DEF TakeUnhooked, TakeNothing, TakeRaises
<1>7. ASSUME NEW p \in Publisher, NEW c \in work[p], TakeStored(p, c)
      PROVE  TypeInv'
  <2>1. c \in Claim /\ c.reply # NoReply /\ Take(p, c, "publish", c.reply)
    BY <1>1, <1>7 DEF TakeStored, WorkTypes
  <2>2. c.reply \in Reply /\ Len(c.reply.routes) > 0
    BY <1>1, <2>1 DEF WorkTypes, Claim
  <2>3. QED
    BY <2>1, <2>2, TakeTypes
<1>8. ASSUME NEW p \in Publisher, NEW c \in work[p], TakeDraft(p, c)
      PROVE  TypeInv'
  <2>1. PICK b \in Body, routes \in DraftRoutes :
            /\ Routes(c.task, routes) # <<>>
            /\ Take(p, c, "store", [body |-> b, routes |-> Routes(c.task, routes)])
    BY <1>8 DEF TakeDraft
  <2>2. Routes(c.task, routes) \in Seq(Queue)
    BY <1>1 DEF Routes, OutboxAssumption, Claim, WorkTypes
  <2>3. Len(Routes(c.task, routes)) > 0
    BY <2>1, <2>2
  <2>4. [body |-> b, routes |-> Routes(c.task, routes)] \in Reply
    BY <2>2 DEF Reply
  <2>5. QED
    BY <2>1, <2>3, <2>4, TakeTypes
<1>9. ASSUME NEW p \in Publisher, Store(p) PROVE TypeInv'
  <2>1. pc[p] = "store" /\ claim[p].task \in Task /\ claim[p] \in Claim
    BY <1>9, BusyClaim DEF Store
  <2>2. sending[p] \in Reply /\ Len(sending[p].routes) > 0
    BY <1>1, <2>1 DEF ProcTypes, SendingOK
  <2>3. RowTypes'
    BY <1>1, <1>9, <2>1, <2>2 DEF Store, RowTypes
  <2>4. ProcTypes'
    BY <1>9, <2>1, GotoTypes, ReleaseTypes DEF Store
  <2>5. WorkTypes' /\ RestTypes'
    BY <1>1, <1>9 DEF Store, WorkTypes, RestTypes, taskVars
  <2>6. QED
    BY <2>3, <2>4, <2>5, TypeInvPartsNext
<1>10. ASSUME NEW p \in Publisher, Publish(p) PROVE TypeInv'
  <2>1. pc[p] = "publish" /\ sending[p] \in Reply /\ next[p] <= Len(sending[p].routes)
    BY <1>1, <1>10 DEF Publish, ProcTypes, SendingOK
  <2>2. Len(sending[p].routes) \in Nat /\ next[p] \in Nat \ {0}
    BY <1>1, <2>1 DEF Reply, ProcTypes
  <2>3. SendingOK'
    BY <1>1, <1>10, <2>1, <2>2 DEF Publish, ProcTypes, SendingOK
  <2>4. ProcTypes'
    <3>1. /\ pc' \in [Publisher -> {"idle", "skip", "store", "publish", "sent", "fail"}]
          /\ \A q \in Publisher : pc'[q] # "idle" => pc[q] # "idle"
      BY <1>1, <1>10, <2>1 DEF Publish, ProcTypes
    <3>2. next' \in [Publisher -> Nat \ {0}]
      BY <1>1, <1>10, <2>2 DEF Publish, ProcTypes
    <3>3. UNCHANGED <<claim, sending>>
      BY <1>10 DEF Publish
    <3>4. QED
      BY <1>1, <2>3, <3>1, <3>2, <3>3 DEF ProcTypes
  <2>5. RowTypes' /\ WorkTypes'
    BY <1>1, <1>10 DEF Publish, RowTypes, WorkTypes
  <2>6. RestTypes'
    BY <1>1, <1>10, ReceiveTypes DEF Publish, RestTypes, taskVars
  <2>7. QED
    BY <2>4, <2>5, <2>6, TypeInvPartsNext
<1>11. ASSUME NEW p \in Publisher, PublishFails(p) PROVE TypeInv'
  <2>1. ProcTypes'
    BY <1>11, GotoTypes DEF PublishFails
  <2>2. RowTypes' /\ WorkTypes'
    BY <1>1, <1>11 DEF PublishFails, RowTypes, WorkTypes
  <2>3. RestTypes'
    BY <1>1, <1>11, ReceiveTypes DEF PublishFails, RestTypes, taskVars
  <2>4. QED
    BY <2>1, <2>2, <2>3, TypeInvPartsNext
<1>12. ASSUME NEW p \in Publisher, MarkSent(p) \/ MarkSkipped(p) PROVE TypeInv'
  <2>1. claim[p] \in Claim
    BY <1>12, BusyClaim DEF MarkSent, MarkSkipped
  <2>2. RowTypes'
    BY <1>1, <1>12, <2>1, SetOwnedTypes DEF MarkSent, MarkSkipped, RowTypes, FinalStatus
  <2>3. ProcTypes'
    BY <1>12, ReleaseTypes DEF MarkSent, MarkSkipped
  <2>4. WorkTypes' /\ RestTypes'
    BY <1>1, <1>12 DEF MarkSent, MarkSkipped, WorkTypes, RestTypes, taskVars
  <2>5. QED
    BY <2>2, <2>3, <2>4, TypeInvPartsNext
<1>13. ASSUME NEW p \in Publisher, MarkFailure(p) PROVE TypeInv'
  <2>1. claim[p] \in Claim /\ claim[p].task \in Task
    BY <1>13, BusyClaim DEF MarkFailure
  <2>2. attempts' \in [Task -> Nat]
    BY <1>1, <1>13, <2>1 DEF MarkFailure, RowTypes
  <2>3. RowTypes'
    BY <1>13, <2>1, <2>2, SetOwnedTypes DEF MarkFailure, AfterFailure, FinalStatus
  <2>4. ProcTypes'
    BY <1>13, ReleaseTypes DEF MarkFailure
  <2>5. WorkTypes' /\ RestTypes'
    BY <1>1, <1>13 DEF MarkFailure, WorkTypes, RestTypes, taskVars
  <2>6. QED
    BY <2>3, <2>4, <2>5, TypeInvPartsNext
<1>14. ASSUME NEW p \in Publisher, UpdateFails(p) PROVE TypeInv'
  <2>1. ProcTypes'
    BY <1>14, GotoTypes DEF UpdateFails
  <2>2. RowTypes' /\ WorkTypes' /\ RestTypes'
    BY <1>1, <1>14 DEF UpdateFails, Fault, RowTypes, WorkTypes, RestTypes, taskVars, OutboxAssumption
  <2>3. QED
    BY <2>1, <2>2, TypeInvPartsNext
<1>15. ASSUME NEW p \in Publisher, Crash(p) PROVE TypeInv'
  <2>1. ProcTypes'
    BY <1>15, ReleaseTypes DEF Crash
  <2>2. RowTypes' /\ WorkTypes' /\ RestTypes'
    BY <1>1, <1>15 DEF Crash, Fault, RowTypes, WorkTypes, RestTypes, taskVars, OutboxAssumption
  <2>3. QED
    BY <2>1, <2>2, TypeInvPartsNext
<1>16. CASE UNCHANGED vars
  BY <1>16 DEF vars, taskVars, TypeInv, TypeOK, SendingOK, StoredOK
<1>17. QED
  BY <1>2, <1>3, <1>4, <1>5, <1>6, <1>7, <1>8, <1>9, <1>10, <1>11, <1>12, <1>13, <1>14,
     <1>15, <1>16 DEF Next, RowStep

\* The rows, the claims and the copies are always typed.
THEOREM OutboxTypeCorrect == Spec => []TypeOK
<1>1. TypeInv => TypeOK
  BY DEF TypeInv
<1>2. QED
  BY <1>1, InitTypeInv, StepTypeInv, OutboxAssumption, PTL DEF Spec

-----------------------------------------------------------------------------
(* The fence: a claim_token is held by one publisher, once. *)

Held(p) == work[p] \cup (IF pc[p] = "idle" THEN {} ELSE {claim[p]})

Fence ==
    /\ \A p \in Publisher : \A c \in Held(p) : c.token <= token[c.task]
    /\ \A p, q \in Publisher : \A c \in Held(p), d \in Held(q) :
           c.task = d.task /\ c.token = d.token => p = q /\ c = d
    /\ \A p \in Publisher : pc[p] # "idle" => claim[p] \notin work[p]

LEMMA HeldTypes ==
    ASSUME TypeInv, NEW p \in Publisher
    PROVE  Held(p) \subseteq Claim
BY DEF Held, TypeInv, TypeOK

\* Only ClaimRows hands out claims and counts tokens.
LEMMA OthersHandOutNothing ==
    ASSUME TypeInv, [Next]_vars,
           ~ \E p \in Publisher, S \in SUBSET Task : ClaimRows(p, S)
    PROVE  /\ \A p \in Publisher : Held(p)' \subseteq Held(p)
           /\ \A p \in Publisher : pc[p] # "idle" \/ pc'[p] = "idle" =>
                  work'[p] \subseteq work[p] /\ (pc'[p] # "idle" => claim'[p] = claim[p])
           /\ UNCHANGED token
<1> USE DEF TypeInv, TypeOK, rowVars, procVars, Held
<1>1. ASSUME NEW p \in Publisher, NEW c \in work[p], NEW l, NEW r, Take(p, c, l, r),
             l # "idle"
      PROVE  /\ \A q \in Publisher : Held(q)' \subseteq Held(q)
             /\ \A q \in Publisher : pc[q] # "idle" \/ pc'[q] = "idle" =>
                  work'[q] \subseteq work[q] /\ (pc'[q] # "idle" => claim'[q] = claim[q])
             /\ UNCHANGED token
  BY <1>1 DEF Take
<1>2. ASSUME NEW p \in Publisher, NEW c \in work[p],
             TakeUnhooked(p, c) \/ TakeStored(p, c) \/ TakeNothing(p, c) \/ TakeDraft(p, c)
             \/ TakeRaises(p, c)
      PROVE  \E l, r : l # "idle" /\ Take(p, c, l, r)
  BY <1>2 DEF TakeUnhooked, TakeStored, TakeNothing, TakeDraft, TakeRaises
<1>3. ASSUME NEW p \in Publisher,
             Store(p) \/ Publish(p) \/ PublishFails(p) \/ UpdateFails(p)
      PROVE  /\ UNCHANGED <<work, token>> /\ (UNCHANGED claim \/ Release(p))
             /\ pc[p] # "idle"
             /\ \A q \in Publisher \ {p} : pc'[q] = pc[q]
  BY <1>3 DEF Store, Publish, PublishFails, UpdateFails, Goto, Release
<1>4. ASSUME NEW p \in Publisher,
             MarkSent(p) \/ MarkSkipped(p) \/ MarkFailure(p)
      PROVE  Release(p) /\ UNCHANGED <<work, token>>
  BY <1>4 DEF MarkSent, MarkSkipped, MarkFailure
<1>5. CASE \E p \in Publisher, S \in SUBSET Task : Reconcile(p, S)
  BY <1>5 DEF Reconcile
<1>6. CASE \E t \in Task : Terminate(t) \/ Delete(t) \/ LeaseLate(t) \/ LeaseExpires(t)
  BY <1>6 DEF Terminate, Delete, LeaseLate, LeaseExpires, Age
<1>7. CASE \E p \in Publisher : Crash(p)
  BY <1>7 DEF Crash, Release
<1>8. CASE \E p \in Publisher : \E c \in work[p] :
               TakeUnhooked(p, c) \/ TakeStored(p, c) \/ TakeNothing(p, c) \/ TakeDraft(p, c)
               \/ TakeRaises(p, c)
  BY <1>1, <1>2, <1>8
<1>9. CASE \E p \in Publisher : MarkSent(p) \/ MarkSkipped(p) \/ MarkFailure(p)
  BY <1>4, <1>9 DEF Release
<1>10. CASE \E p \in Publisher :
               Store(p) \/ Publish(p) \/ PublishFails(p) \/ UpdateFails(p)
  BY <1>3, <1>10 DEF Release
<1>11. CASE UNCHANGED vars
  BY <1>11 DEF vars
<1>12. QED
  BY <1>5, <1>6, <1>7, <1>8, <1>9, <1>10, <1>11 DEF Next, RowStep

LEMMA StepFence ==
    ASSUME OutboxAssumption, TypeInv, Fence, [Next]_vars
    PROVE  Fence'
<1>1. CASE ~ \E p \in Publisher, S \in SUBSET Task : ClaimRows(p, S)
  <2>1. /\ \A p \in Publisher : Held(p)' \subseteq Held(p)
        /\ UNCHANGED token
    BY <1>1, OthersHandOutNothing
  <2>2. \A p \in Publisher : pc'[p] # "idle" => claim'[p] \notin work'[p]
    <3>1. ASSUME NEW p \in Publisher, pc[p] # "idle", pc'[p] # "idle"
          PROVE  claim'[p] \notin work'[p]
      BY <1>1, <3>1, OthersHandOutNothing DEF Fence
    <3>2. ASSUME NEW p \in Publisher, NEW c \in work[p], NEW l, NEW r, Take(p, c, l, r)
          PROVE  claim'[p] \notin work'[p]
      BY <3>2 DEF Take, TypeInv, TypeOK
    <3>3. ASSUME NEW p \in Publisher, pc[p] = "idle", pc'[p] # "idle"
          PROVE  \E l, r : \E c \in work[p] : Take(p, c, l, r)
      BY <1>1, <3>3 DEF Next, RowStep, TakeUnhooked, TakeStored, TakeNothing, TakeDraft,
         TakeRaises, Terminate, Delete, LeaseLate, LeaseExpires, Age, Reconcile, Store, Publish,
         PublishFails, MarkSent, MarkSkipped, MarkFailure, UpdateFails, Crash, Release, Goto,
         vars, procVars, TypeInv, TypeOK, Take
    <3>4. QED
      BY <3>1, <3>2, <3>3
  <2>3. QED
    BY <2>1, <2>2 DEF Fence
<1>2. ASSUME NEW p \in Publisher, NEW S \in SUBSET Task, ClaimRows(p, S) PROVE Fence'
  <2> DEFINE New == {[task |-> t, token |-> token[t] + 1, reply |-> reply[t]] : t \in S}
  <2>1. /\ \A q \in Publisher \ {p} : Held(q)' = Held(q)
        /\ Held(p)' = New
        /\ pc[p] = "idle" /\ UNCHANGED pc
        /\ \A q \in Publisher : q # p => work'[q] = work[q] /\ claim'[q] = claim[q]
    BY <1>2 DEF ClaimRows, Held, TypeInv, TypeOK
  <2>2. \A t \in Task : /\ token[t] \in Nat /\ token'[t] \in Nat /\ token[t] <= token'[t]
                        /\ t \in S => token'[t] = token[t] + 1
    BY <1>2 DEF ClaimRows, TypeInv, TypeOK
  <2>3. \A q \in Publisher : \A c \in Held(q) : c.task \in Task /\ c.token \in Nat
    BY HeldTypes DEF Claim
  <2>4. \A c \in New : c.task \in S /\ c.task \in Task /\ c.token = token[c.task] + 1
    OBVIOUS
  <2>5. \A q \in Publisher : \A c \in Held(q) : c.token <= token[c.task]
    BY DEF Fence
  <2>6. \A c, d \in New : c.task = d.task => c = d
    OBVIOUS
  <2> HIDE DEF New
  <2>7. \A q \in Publisher : \A c \in Held(q), d \in New : c.task = d.task => c.token # d.token
    <3> SUFFICES ASSUME NEW q \in Publisher, NEW c \in Held(q), NEW d \in New, c.task = d.task
                 PROVE  c.token # d.token
      OBVIOUS
    <3>1. c.task \in Task /\ c.token <= token[c.task] /\ d.token = token[c.task] + 1
      BY <2>3, <2>4, <2>5
    <3>2. QED
      BY <2>2, <2>3, <3>1
  <2>8. \A q \in Publisher : \A c \in Held(q)' : c.token <= token'[c.task]
    <3>1. ASSUME NEW q \in Publisher, NEW c \in Held(q) PROVE c.token <= token'[c.task]
      <4>1. c.task \in Task /\ c.token \in Nat /\ c.token <= token[c.task]
        BY <2>3, <2>5
      <4>2. QED
        BY <2>2, <4>1
    <3>2. ASSUME NEW c \in New PROVE c.token <= token'[c.task]
      <4>1. c.task \in Task /\ c.token = token'[c.task]
        BY <2>2, <2>4
      <4>2. QED
        BY <2>2, <4>1
    <3>3. QED
      BY <2>1, <3>1, <3>2
  <2>9. \A q, u \in Publisher : \A c \in Held(q)', d \in Held(u)' :
            c.task = d.task /\ c.token = d.token => q = u /\ c = d
    BY <2>1, <2>6, <2>7 DEF Fence
  <2>10. \A q \in Publisher : pc'[q] # "idle" => claim'[q] \notin work'[q]
    BY <2>1 DEF Fence
  <2>11. QED
    BY <2>8, <2>9, <2>10 DEF Fence
<1>3. QED
  BY <1>1, <1>2

LEMMA InitFence == OutboxAssumption /\ Init => Fence
BY DEF Init, Fence, Held

-----------------------------------------------------------------------------
(* Replies: what a claim says about the stored reply is true as long as the  *)
(* claim is live, and a reply is published only if it is the stored one.     *)

StoredReply ==
    /\ \A p \in Publisher : \A c \in work[p] :
           /\ c.reply # NoReply => reply[c.task] = c.reply
           /\ c.reply = NoReply /\ c.token = token[c.task] => reply[c.task] = NoReply
    /\ \A p \in Publisher :
           /\ pc[p] = "store" /\ claim[p].token = token[claim[p].task] =>
                  reply[claim[p].task] = NoReply
           /\ pc[p] \in {"publish", "sent"} => reply[claim[p].task] = sending[p]

\* The copies that were sent are those the publishers and the rows count on.
Delivered ==
    /\ \A p \in Publisher :
           /\ pc[p] = "publish" => \A i \in 1..(next[p] - 1) :
                  copies[claim[p].task][sending[p].routes[i]][sending[p].body] > 0
           /\ pc[p] = "sent" => \A i \in DOMAIN sending[p].routes :
                  copies[claim[p].task][sending[p].routes[i]][sending[p].body] > 0
    /\ SentReachedEveryQueue
    /\ OneReply

OutboxInv == TypeInv /\ Fence /\ StoredReply /\ Delivered

LEMMA InitOutboxInv == OutboxAssumption /\ Init => OutboxInv
<1>1. ASSUME OutboxAssumption, Init PROVE StoredReply /\ Delivered
  BY <1>1 DEF Init, StoredReply, Delivered, SentReachedEveryQueue, OneReply, Absent
<1>2. QED
  BY <1>1, InitTypeInv, InitFence DEF OutboxInv

\* Steps that store no reply and hand out no claim keep StoredReply.
LEMMA QuietStoredReply ==
    ASSUME StoredReply, UNCHANGED <<reply, token>>,
           \A p \in Publisher :
               /\ work'[p] \subseteq work[p]
               /\ pc'[p] = "store" => pc[p] = "store" /\ claim'[p] = claim[p]
               /\ pc'[p] \in {"publish", "sent"} =>
                      /\ pc[p] \in {"publish", "sent"}
                      /\ claim'[p] = claim[p] /\ sending'[p] = sending[p]
    PROVE  StoredReply'
BY DEF StoredReply

\* A publisher takes the next claim of its batch.
LEMMA TakeStoredReply ==
    ASSUME TypeInv, StoredReply, NEW p \in Publisher, NEW c \in work[p], NEW l, NEW r,
           Take(p, c, l, r), l \notin {"sent"},
           l = "store" => c.reply = NoReply,
           l = "publish" => c.reply # NoReply /\ r = c.reply
    PROVE  StoredReply'
<1> USE DEF Take, TypeInv, TypeOK, rowVars
<1>1. \A q \in Publisher \ {p} : /\ work'[q] = work[q] /\ pc'[q] = pc[q]
                                /\ claim'[q] = claim[q] /\ sending'[q] = sending[q]
  OBVIOUS
<1>2. work'[p] \subseteq work[p] /\ pc'[p] = l /\ claim'[p] = c /\ sending'[p] = r
  OBVIOUS
<1>3. UNCHANGED <<reply, token>>
  OBVIOUS
<1>4. QED
  BY <1>1, <1>2, <1>3 DEF StoredReply

LEMMA StoreStoredReply ==
    ASSUME TypeInv, Fence, StoredReply, NEW p \in Publisher, Store(p)
    PROVE  StoredReply'
<1> USE DEF Store, rowVars
<1>1. CASE ~Owned(claim[p])
  <2>1. UNCHANGED <<reply, token, work>> /\ Release(p)
    BY <1>1
  <2>2. QED
    BY <2>1, QuietStoredReply DEF Release, TypeInv, TypeOK
<1>2. CASE Owned(claim[p])
  <2> DEFINE t == claim[p].task
  <2>1. /\ pc[p] = "store" /\ t \in Task /\ claim[p].token = token[t]
        /\ reply' = [reply EXCEPT ![t] = sending[p]]
        /\ pc' = [pc EXCEPT ![p] = "publish"]
        /\ UNCHANGED <<token, work, claim, sending>>
    BY <1>2, BusyClaim DEF Owned, Goto
  <2>2. reply[t] = NoReply
    BY <2>1 DEF StoredReply
  <2>3. \A q \in Publisher : \A c \in work[q] :
            c.task = t => c.reply = NoReply /\ c.token # token[t]
    BY <2>1, <2>2 DEF StoredReply, Fence, Held
  <2>4. \A q \in Publisher \ {p} : pc[q] # "idle" /\ claim[q].task = t =>
            claim[q].token # token[t]
    BY <2>1 DEF Fence, Held
  <2>5. \A q \in Publisher \ {p} : pc[q] \in {"publish", "sent"} => claim[q].task # t
    <3>1. \A q \in Publisher : pc[q] \in {"publish", "sent"} => sending[q] # NoReply
      BY DEF TypeInv, SendingOK, NoReply
    <3>2. QED
      BY <2>2, <3>1 DEF StoredReply
  <2>6. \A q \in Publisher : \A c \in work[q] :
            /\ c.reply # NoReply => reply'[c.task] = c.reply
            /\ c.reply = NoReply /\ c.token = token[c.task] => reply'[c.task] = NoReply
    <3>1. ASSUME NEW q \in Publisher, NEW c \in work[q]
          PROVE  /\ c.reply # NoReply => reply'[c.task] = c.reply
                 /\ c.reply = NoReply /\ c.token = token[c.task] => reply'[c.task] = NoReply
      <4>1. CASE c.task = t
        BY <2>3, <4>1
      <4>2. CASE c.task # t
        <5>1. reply'[c.task] = reply[c.task]
          BY <2>1, <4>2, <3>1, HeldTypes DEF Held, Claim, TypeInv, TypeOK
        <5>2. QED
          BY <5>1 DEF StoredReply
      <4>3. QED
        BY <4>1, <4>2
    <3>2. QED
      BY <3>1
  <2>7. \A q \in Publisher \ {p} :
            /\ pc[q] = "store" /\ claim[q].token = token[claim[q].task] =>
                   reply'[claim[q].task] = NoReply
            /\ pc[q] \in {"publish", "sent"} => reply'[claim[q].task] = sending[q]
    <3>1. \A q \in Publisher \ {p} : pc[q] # "idle" /\ claim[q].task # t =>
              reply'[claim[q].task] = reply[claim[q].task]
      BY <2>1, BusyClaim DEF TypeInv, TypeOK
    <3>2. QED
      BY <2>4, <2>5, <3>1 DEF StoredReply
  <2>8. reply'[t] = sending[p] /\ pc'[p] = "publish" /\ \A q \in Publisher \ {p} : pc'[q] = pc[q]
    BY <2>1 DEF TypeInv, TypeOK
  <2>9. QED
    BY <2>1, <2>6, <2>7, <2>8 DEF StoredReply
<1>3. QED
  BY <1>1, <1>2

LEMMA ClaimStoredReply ==
    ASSUME TypeInv, Fence, StoredReply, NEW p \in Publisher, NEW S \in SUBSET Task,
           ClaimRows(p, S)
    PROVE  StoredReply'
<1> DEFINE New == {[task |-> t, token |-> token[t] + 1, reply |-> reply[t]] : t \in S}
<1>1. /\ work'[p] = New /\ \A q \in Publisher \ {p} : work'[q] = work[q]
      /\ UNCHANGED <<reply, pc, claim, sending>>
  BY DEF ClaimRows, TypeInv, TypeOK
<1>2. \A t \in Task : /\ token[t] \in Nat
                      /\ t \in S => token'[t] = token[t] + 1
                      /\ t \notin S => token'[t] = token[t]
  BY DEF ClaimRows, TypeInv, TypeOK
<1>3. \A c \in New : c.reply = reply[c.task]
  OBVIOUS
<1> HIDE DEF New
<1>4. ASSUME NEW q \in Publisher, NEW c \in Held(q), c.token = token'[c.task]
      PROVE  c.token = token[c.task]
  <2>1. c.task \in Task /\ c.token \in Nat /\ c.token <= token[c.task]
    BY HeldTypes DEF Fence, Claim
  <2>2. QED
    BY <1>2, <1>4, <2>1
<1>5. \A q \in Publisher : \A c \in work'[q] :
          /\ c.reply # NoReply => reply[c.task] = c.reply
          /\ c.reply = NoReply /\ c.token = token'[c.task] => reply[c.task] = NoReply
  BY <1>1, <1>3, <1>4 DEF StoredReply, Held
<1>6. \A q \in Publisher : pc[q] = "store" /\ claim[q].token = token'[claim[q].task] =>
          reply[claim[q].task] = NoReply
  BY <1>4 DEF StoredReply, Held
<1>7. QED
  BY <1>1, <1>5, <1>6 DEF StoredReply

LEMMA StepStoredReply ==
    ASSUME OutboxAssumption, TypeInv, Fence, StoredReply, [Next]_vars
    PROVE  StoredReply'
<1> USE DEF rowVars, procVars
<1>1. ASSUME NEW p \in Publisher, NEW c \in work[p],
             TakeUnhooked(p, c) \/ TakeNothing(p, c) \/ TakeRaises(p, c)
             \/ TakeStored(p, c) \/ TakeDraft(p, c)
      PROVE  StoredReply'
  <2>1. CASE TakeUnhooked(p, c) \/ TakeNothing(p, c) \/ TakeRaises(p, c)
    <3>1. Take(p, c, "skip", NoReply) \/ Take(p, c, "fail", NoReply)
      BY <2>1 DEF TakeUnhooked, TakeNothing, TakeRaises
    <3>2. QED
      BY <3>1, TakeStoredReply
  <2>2. CASE TakeStored(p, c)
    BY <2>2, TakeStoredReply DEF TakeStored
  <2>3. CASE TakeDraft(p, c)
    <3>1. c.reply = NoReply /\ \E r : Take(p, c, "store", r)
      BY <2>3 DEF TakeDraft
    <3>2. QED
      BY <3>1, TakeStoredReply
  <2>4. QED
    BY <1>1, <2>1, <2>2, <2>3
<1>2. ASSUME NEW p \in Publisher, Publish(p) \/ PublishFails(p) \/ UpdateFails(p)
      PROVE  StoredReply'
  BY <1>2, QuietStoredReply DEF Publish, PublishFails, UpdateFails, Goto, TypeInv, TypeOK
<1>3. ASSUME NEW p \in Publisher, MarkSent(p) \/ MarkSkipped(p) \/ MarkFailure(p)
      PROVE  StoredReply'
  BY <1>3, QuietStoredReply DEF MarkSent, MarkSkipped, MarkFailure, Release, TypeInv, TypeOK
<1>4. ASSUME NEW p \in Publisher, Crash(p) PROVE StoredReply'
  BY <1>4, QuietStoredReply DEF Crash, Release, TypeInv, TypeOK
<1>5. ASSUME NEW p \in Publisher, NEW S \in SUBSET Task, Reconcile(p, S) PROVE StoredReply'
  BY <1>5, QuietStoredReply DEF Reconcile
<1>6. ASSUME NEW t \in Task, Terminate(t) \/ Delete(t) \/ LeaseLate(t) \/ LeaseExpires(t) PROVE StoredReply'
  BY <1>6, QuietStoredReply DEF Terminate, Delete, LeaseLate, LeaseExpires, Age
<1>7. CASE UNCHANGED vars
  BY <1>7, QuietStoredReply DEF vars
<1>8. QED
  BY <1>1, <1>2, <1>3, <1>4, <1>5, <1>6, <1>7, StoreStoredReply, ClaimStoredReply
     DEF Next, RowStep

\* A copy is never taken back, and Receive adds the one that is due.
LEMMA ReceiveAdds ==
    ASSUME TypeInv, NEW p \in Publisher, Receive(p), pc[p] = "publish"
    PROVE  /\ \A t \in Task, q \in Queue, b \in Body :
                  copies[t][q][b] > 0 => copies'[t][q][b] > 0
           /\ \A t \in Task, q \in Queue, b \in Body :
                  copies'[t][q][b] > 0 =>
                      \/ copies[t][q][b] > 0
                      \/ /\ t = claim[p].task /\ b = sending[p].body
                         /\ q = sending[p].routes[next[p]]
           /\ copies'[claim[p].task][sending[p].routes[next[p]]][sending[p].body] > 0
<1> DEFINE t0 == claim[p].task
           q0 == sending[p].routes[next[p]]
           b0 == sending[p].body
<1>1. \A t \in Task, q \in Queue, b \in Body : copies[t][q][b] \in Nat
  BY DEF TypeInv, TypeOK
<1>2. t0 \in Task /\ q0 \in Queue /\ b0 \in Body
  <2>1. sending[p] \in Reply /\ next[p] \in 1..Len(sending[p].routes)
    BY DEF TypeInv, TypeOK, SendingOK
  <2>2. QED
    BY <2>1, BusyClaim DEF Reply
<1>3. \A t \in Task, q \in Queue, b \in Body :
          copies'[t][q][b] = IF t = t0 /\ q = q0 /\ b = b0 THEN copies[t][q][b] + 1
                             ELSE copies[t][q][b]
  BY DEF Receive
<1> HIDE DEF t0, q0, b0
<1>4. copies'[t0][q0][b0] = copies[t0][q0][b0] + 1
  BY <1>2, <1>3
<1>5. copies'[t0][q0][b0] > 0
  BY <1>1, <1>2, <1>4
<1>6. \A t \in Task, q \in Queue, b \in Body : copies[t][q][b] > 0 => copies'[t][q][b] > 0
  BY <1>1, <1>3
<1>7. \A t \in Task, q \in Queue, b \in Body :
          copies'[t][q][b] > 0 => copies[t][q][b] > 0 \/ (t = t0 /\ b = b0 /\ q = q0)
  BY <1>3
<1>8. QED
  BY <1>5, <1>6, <1>7 DEF t0, q0, b0

\* A publisher that is not at Publish, Store or MarkSent keeps Delivered.
LEMMA QuietDelivered ==
    ASSUME Delivered, UNCHANGED <<reply, copies>>,
           \A t \in Task : status'[t] = "SENT" => status[t] = "SENT",
           \A p \in Publisher :
               pc'[p] \in {"publish", "sent"} =>
                   \/ /\ pc'[p] = pc[p]
                      /\ claim'[p] = claim[p] /\ sending'[p] = sending[p] /\ next'[p] = next[p]
                   \/ pc'[p] = "publish" /\ next'[p] = 1
    PROVE  Delivered'
<1>1. SentReachedEveryQueue' /\ OneReply'
  <2>1. OneReply /\ SentReachedEveryQueue
    BY DEF Delivered
  <2>2. OneReply'
    BY <2>1 DEF OneReply
  <2>3. SentReachedEveryQueue'
    BY <2>1 DEF SentReachedEveryQueue
  <2>4. QED
    BY <2>2, <2>3
<1>2. ASSUME NEW p \in Publisher
      PROVE  /\ pc'[p] = "publish" => \A i \in 1..(next'[p] - 1) :
                    copies'[claim'[p].task][sending'[p].routes[i]][sending'[p].body] > 0
             /\ pc'[p] = "sent" => \A i \in DOMAIN sending'[p].routes :
                    copies'[claim'[p].task][sending'[p].routes[i]][sending'[p].body] > 0
  <2>1. CASE next'[p] = 1 /\ pc'[p] = "publish"
    BY <2>1
  <2>2. CASE ~(next'[p] = 1 /\ pc'[p] = "publish")
    BY <2>2 DEF Delivered
  <2>3. QED
    BY <2>1, <2>2
<1>3. QED
  BY <1>1, <1>2 DEF Delivered

LEMMA StoreDelivered ==
    ASSUME OutboxAssumption, TypeInv, StoredReply, Delivered, NEW p \in Publisher, Store(p)
    PROVE  Delivered'
<1> USE DEF Store, rowVars
<1>1. CASE ~Owned(claim[p])
  BY <1>1, QuietDelivered DEF Release, TypeInv, TypeOK
<1>2. CASE Owned(claim[p])
  <2> DEFINE t0 == claim[p].task
  <2>1. /\ t0 \in Task /\ reply[t0] = NoReply /\ status[t0] = "PROCESSING"
        /\ UNCHANGED <<status, copies, claim, sending, next>>
        /\ \A t \in Task \ {t0} : reply'[t] = reply[t]
        /\ pc[p] = "store" /\ pc' = [pc EXCEPT ![p] = "publish"]
    BY <1>2, BusyClaim DEF Owned, Goto, StoredReply, TypeInv, TypeOK
  <2>2. next[p] = 1
    BY <2>1 DEF TypeInv, SendingOK
  <2>3. \A q \in Queue, b \in Body : ~(copies[t0][q][b] > 0)
    <3>1. OneReply /\ NoBody \notin Body
      BY DEF Delivered, OutboxAssumption
    <3>2. reply[t0].body = NoBody
      BY <2>1 DEF NoReply
    <3>3. QED
      BY <2>1, <3>1, <3>2 DEF OneReply
  <2>4. OneReply'
    <3>1. OneReply
      BY DEF Delivered
    <3>2. ASSUME NEW t \in Task, NEW q \in Queue, NEW b \in Body, copies[t][q][b] > 0
          PROVE  reply'[t] = reply[t]
      BY <2>1, <2>3, <3>2
    <3>3. \A t \in Task, q \in Queue, b \in Body : copies[t][q][b] > 0 => reply'[t] = reply[t]
      BY <3>2
    <3>4. copies' = copies
      BY <2>1
    <3>5. QED
      BY <3>1, <3>3, <3>4 DEF OneReply
  <2>5. SentReachedEveryQueue'
    BY <2>1 DEF Delivered, SentReachedEveryQueue
  <2>6. \A q \in Publisher \ {p} : pc'[q] = pc[q]
    BY <2>1
  <2>7. pc'[p] = "publish"
    BY <2>1 DEF TypeInv, TypeOK
  <2>8. ASSUME NEW q \in Publisher
        PROVE  /\ pc'[q] = "publish" => \A i \in 1..(next[q] - 1) :
                      copies[claim[q].task][sending[q].routes[i]][sending[q].body] > 0
               /\ pc'[q] = "sent" => \A i \in DOMAIN sending[q].routes :
                      copies[claim[q].task][sending[q].routes[i]][sending[q].body] > 0
    <3>1. CASE q = p
      <4>1. 1..(next[q] - 1) = {}
        BY <2>2, <3>1
      <4>2. QED
        BY <2>7, <3>1, <4>1
    <3>2. CASE q # p
      BY <2>6, <3>2 DEF Delivered
    <3>3. QED
      BY <3>1, <3>2
  <2>9. QED
    BY <2>1, <2>4, <2>5, <2>8 DEF Delivered
<1>3. QED
  BY <1>1, <1>2

\* What was delivered before Receive is delivered after it.
LEMMA ReceiveDelivered ==
    ASSUME TypeInv, StoredReply, Delivered, NEW p \in Publisher, Receive(p),
           pc[p] = "publish", UNCHANGED <<reply, status>>
    PROVE  OneReply' /\ SentReachedEveryQueue'
<1>1. sending[p] \in Reply /\ next[p] \in DOMAIN sending[p].routes
      /\ reply[claim[p].task] = sending[p]
  BY DEF TypeInv, TypeOK, SendingOK, StoredReply, Reply
<1>2. OneReply'
  <2>1. OneReply
    BY DEF Delivered
  <2>2. SUFFICES ASSUME NEW t \in Task, NEW q \in Queue, NEW b \in Body, copies'[t][q][b] > 0
                 PROVE  b = reply[t].body /\ \E i \in DOMAIN reply[t].routes : reply[t].routes[i] = q
    BY DEF OneReply
  <2>3. \/ copies[t][q][b] > 0
        \/ t = claim[p].task /\ b = sending[p].body /\ q = sending[p].routes[next[p]]
    BY <2>2, ReceiveAdds
  <2>4. QED
    BY <1>1, <2>1, <2>3 DEF OneReply
<1>3. SentReachedEveryQueue'
  <2>1. SUFFICES ASSUME NEW t \in Task, status[t] = "SENT"
                 PROVE  /\ reply[t] # NoReply
                        /\ \A i \in DOMAIN reply[t].routes :
                               copies'[t][reply[t].routes[i]][reply[t].body] > 0
    BY DEF SentReachedEveryQueue
  <2>2. reply[t] # NoReply /\ reply[t] \in Reply
    BY <2>1 DEF Delivered, SentReachedEveryQueue, TypeInv, TypeOK
  <2>3. reply[t].body \in Body /\ \A i \in DOMAIN reply[t].routes : reply[t].routes[i] \in Queue
    BY <2>2 DEF Reply
  <2>4. QED
    BY <2>1, <2>2, <2>3, ReceiveAdds DEF Delivered, SentReachedEveryQueue
<1>4. QED
  BY <1>2, <1>3

LEMMA PublishDelivered ==
    ASSUME TypeInv, StoredReply, Delivered, NEW p \in Publisher, Publish(p)
    PROVE  Delivered'
<1> DEFINE At(f, q, i) == f[claim[q].task][sending[q].routes[i]][sending[q].body]
<1>1. /\ Receive(p) /\ pc[p] = "publish"
      /\ UNCHANGED <<reply, status, claim, sending>>
      /\ \A q \in Publisher \ {p} : pc'[q] = pc[q] /\ next'[q] = next[q]
  BY DEF Publish, rowVars, TypeInv, TypeOK
<1>2. OneReply' /\ SentReachedEveryQueue'
  BY <1>1, ReceiveDelivered
<1>3. ASSUME NEW q \in Publisher, pc[q] \in {"publish", "sent"},
             NEW i \in DOMAIN sending[q].routes, At(copies, q, i) > 0
      PROVE  At(copies', q, i) > 0
  <2>1. sending[q].routes[i] \in Queue /\ sending[q].body \in Body
    BY <1>3 DEF TypeInv, SendingOK, Reply
  <2>2. claim[q].task \in Task
    BY <1>3, BusyClaim
  <2>3. QED
    BY <1>1, <1>3, <2>1, <2>2, ReceiveAdds
<1>4. At(copies', p, next[p]) > 0
  BY <1>1, ReceiveAdds
<1>5. /\ Len(sending[p].routes) \in Nat /\ DOMAIN sending[p].routes = 1..Len(sending[p].routes)
      /\ next[p] \in DOMAIN sending[p].routes /\ next[p] \in Nat
  BY <1>1 DEF TypeInv, TypeOK, SendingOK, Reply
<1>6. \A i \in 1..(next[p] - 1) : At(copies, p, i) > 0
  BY <1>1 DEF Delivered
<1>7. \A i \in 1..next[p] : At(copies', p, i) > 0
  <2>1. ASSUME NEW i \in 1..next[p] PROVE At(copies', p, i) > 0
    <3>1. CASE i = next[p]
      BY <1>4, <3>1
    <3>2. CASE i # next[p]
      <4>1. i \in 1..(next[p] - 1) /\ i \in DOMAIN sending[p].routes
        BY <1>5, <3>2
      <4>2. QED
        BY <1>1, <1>3, <1>6, <4>1
    <3>3. QED
      BY <3>1, <3>2
  <2>2. QED
    BY <2>1
<1>8. ASSUME NEW q \in Publisher \ {p}
      PROVE  /\ pc[q] = "publish" => \A i \in 1..(next[q] - 1) : At(copies', q, i) > 0
             /\ pc[q] = "sent" => \A i \in DOMAIN sending[q].routes : At(copies', q, i) > 0
  <2>1. ASSUME pc[q] = "publish", NEW i \in 1..(next[q] - 1) PROVE At(copies', q, i) > 0
    <3>1. At(copies, q, i) > 0
      BY <2>1 DEF Delivered
    <3>2. i \in DOMAIN sending[q].routes
      BY <2>1 DEF TypeInv, TypeOK, SendingOK, Reply
    <3>3. QED
      BY <1>3, <2>1, <3>1, <3>2
  <2>2. ASSUME pc[q] = "sent", NEW i \in DOMAIN sending[q].routes PROVE At(copies', q, i) > 0
    BY <1>3, <2>2 DEF Delivered
  <2>3. QED
    BY <2>1, <2>2
<1>9. \/ /\ pc'[p] = "sent" /\ next'[p] = next[p] /\ next[p] = Len(sending[p].routes)
      \/ /\ pc'[p] = "publish" /\ next'[p] = next[p] + 1
  BY <1>1 DEF Publish, TypeInv, TypeOK
<1>10. /\ pc'[p] = "publish" => \A i \in 1..(next'[p] - 1) : At(copies', p, i) > 0
       /\ pc'[p] = "sent" => \A i \in DOMAIN sending[p].routes : At(copies', p, i) > 0
  <2> HIDE DEF At
  <2>1. ASSUME pc'[p] = "publish" PROVE next'[p] - 1 = next[p]
    BY <1>5, <1>9, <2>1
  <2>2. ASSUME pc'[p] = "sent" PROVE DOMAIN sending[p].routes = 1..next[p]
    BY <1>5, <1>9, <2>2
  <2>3. QED
    BY <1>7, <2>1, <2>2
<1>11. ASSUME NEW q \in Publisher
       PROVE  /\ pc'[q] = "publish" => \A i \in 1..(next'[q] - 1) : At(copies', q, i) > 0
              /\ pc'[q] = "sent" => \A i \in DOMAIN sending[q].routes : At(copies', q, i) > 0
  <2> HIDE DEF At
  <2>1. CASE q = p
    BY <1>10, <2>1
  <2>2. CASE q # p
    BY <1>1, <1>8, <2>2
  <2>3. QED
    BY <2>1, <2>2
<1>12. QED
  BY <1>1, <1>2, <1>11 DEF Delivered

LEMMA PublishFailsDelivered ==
    ASSUME TypeInv, StoredReply, Delivered, NEW p \in Publisher, PublishFails(p)
    PROVE  Delivered'
<1> USE DEF PublishFails, Goto, rowVars
<1>1. CASE UNCHANGED copies
  BY <1>1, QuietDelivered DEF TypeInv, TypeOK
<1>2. CASE Receive(p)
  <2>1. OneReply' /\ SentReachedEveryQueue'
    BY <1>2, ReceiveDelivered
  <2>2. /\ pc'[p] = "fail" /\ \A q \in Publisher \ {p} : pc'[q] = pc[q]
        /\ UNCHANGED <<claim, sending, next>>
    BY DEF TypeInv, TypeOK
  <2>3. ASSUME NEW q \in Publisher, pc[q] \in {"publish", "sent"},
               NEW i \in DOMAIN sending[q].routes,
               copies[claim[q].task][sending[q].routes[i]][sending[q].body] > 0
        PROVE  copies'[claim[q].task][sending[q].routes[i]][sending[q].body] > 0
    <3>1. sending[q].routes[i] \in Queue /\ sending[q].body \in Body
      BY <2>3 DEF TypeInv, SendingOK, Reply
    <3>2. QED
      BY <1>2, <2>3, <3>1, BusyClaim, ReceiveAdds
  <2>4. \A q \in Publisher : pc[q] = "publish" =>
            next[q] - 1 \in Nat /\ 1..(next[q] - 1) \subseteq DOMAIN sending[q].routes
    BY DEF TypeInv, TypeOK, SendingOK, Reply
  <2>5. \A q \in Publisher :
            /\ pc'[q] = "publish" => \A i \in 1..(next[q] - 1) :
                   copies'[claim[q].task][sending[q].routes[i]][sending[q].body] > 0
            /\ pc'[q] = "sent" => \A i \in DOMAIN sending[q].routes :
                   copies'[claim[q].task][sending[q].routes[i]][sending[q].body] > 0
    BY <2>2, <2>3, <2>4 DEF Delivered
  <2>6. QED
    BY <2>1, <2>2, <2>5 DEF Delivered
<1>3. QED
  BY <1>1, <1>2

LEMMA MarkSentDelivered ==
    ASSUME TypeInv, StoredReply, Delivered, NEW p \in Publisher, MarkSent(p)
    PROVE  Delivered'
<1>1. /\ pc[p] = "sent" /\ Release(p) /\ UNCHANGED <<reply, copies>>
      /\ \A t \in Task \ {claim[p].task} : status'[t] = status[t]
  BY BusyClaim DEF MarkSent, SetOwned, TypeInv, TypeOK
<1>2. /\ reply[claim[p].task] = sending[p] /\ sending[p] # NoReply
      /\ \A i \in DOMAIN sending[p].routes :
             copies[claim[p].task][sending[p].routes[i]][sending[p].body] > 0
  <2>1. reply[claim[p].task] = sending[p]
    BY <1>1 DEF StoredReply
  <2>2. sending[p] # NoReply
    <3>1. Len(sending[p].routes) > 0
      BY <1>1 DEF TypeInv, SendingOK
    <3>2. QED
      BY <3>1 DEF NoReply
  <2>3. QED
    BY <1>1, <2>1, <2>2 DEF Delivered
<1>3. SentReachedEveryQueue'
  BY <1>1, <1>2 DEF Delivered, SentReachedEveryQueue
<1>4. OneReply'
  <2>1. OneReply
    BY DEF Delivered
  <2>2. QED
    BY <1>1, <2>1 DEF OneReply
<1>5. /\ pc'[p] = "idle"
      /\ \A q \in Publisher \ {p} : /\ pc'[q] = pc[q] /\ claim'[q] = claim[q]
                                    /\ sending'[q] = sending[q] /\ next'[q] = next[q]
  BY <1>1 DEF Release, TypeInv, TypeOK
<1>6. QED
  BY <1>1, <1>3, <1>4, <1>5 DEF Delivered

LEMMA StepDelivered ==
    ASSUME OutboxAssumption, TypeInv, StoredReply, Delivered, [Next]_vars
    PROVE  Delivered'
<1> USE DEF rowVars, procVars
<1>1. ASSUME NEW p \in Publisher, NEW c \in work[p], NEW l, NEW r, Take(p, c, l, r),
             l # "sent"
      PROVE  Delivered'
  <2>1. l = "publish" => next[p] = 1
    BY <1>1 DEF Take, TypeInv, SendingOK
  <2>2. QED
    BY <1>1, <2>1, QuietDelivered DEF Take, TypeInv, TypeOK
<1>2. ASSUME NEW p \in Publisher, NEW c \in work[p],
             TakeUnhooked(p, c) \/ TakeStored(p, c) \/ TakeNothing(p, c) \/ TakeDraft(p, c)
             \/ TakeRaises(p, c)
      PROVE  Delivered'
  BY <1>1, <1>2 DEF TakeUnhooked, TakeStored, TakeNothing, TakeDraft, TakeRaises
<1>3. ASSUME NEW p \in Publisher, MarkSkipped(p) PROVE Delivered'
  BY <1>3, QuietDelivered, BusyClaim DEF MarkSkipped, SetOwned, Release, TypeInv, TypeOK
<1>4. ASSUME NEW p \in Publisher, MarkFailure(p) PROVE Delivered'
  BY <1>4, QuietDelivered, BusyClaim DEF MarkFailure, AfterFailure, SetOwned, Release, TypeInv, TypeOK
<1>5. ASSUME NEW p \in Publisher, UpdateFails(p) PROVE Delivered'
  BY <1>5, QuietDelivered DEF UpdateFails, Goto, TypeInv, TypeOK
<1>6. ASSUME NEW p \in Publisher, Crash(p) PROVE Delivered'
  BY <1>6, QuietDelivered DEF Crash, Release, TypeInv, TypeOK
<1>7. ASSUME NEW p \in Publisher, NEW S \in SUBSET Task, Reconcile(p, S) \/ ClaimRows(p, S)
      PROVE  Delivered'
  BY <1>7, QuietDelivered DEF Reconcile, ClaimRows, TypeInv, TypeOK
<1>8. ASSUME NEW t \in Task, Terminate(t) \/ Delete(t) \/ LeaseLate(t) \/ LeaseExpires(t) PROVE Delivered'
  BY <1>8, QuietDelivered DEF Terminate, Delete, LeaseLate, LeaseExpires, Age
<1>9. CASE UNCHANGED vars
  BY <1>9, QuietDelivered DEF vars
<1>10. QED
  BY <1>2, <1>3, <1>4, <1>5, <1>6, <1>7, <1>8, <1>9, StoreDelivered, PublishDelivered,
     PublishFailsDelivered, MarkSentDelivered DEF Next, RowStep

\* The inductive invariant of the outbox.
THEOREM OutboxInvariant == Spec => []OutboxInv
<1>1. OutboxInv /\ [Next]_vars => OutboxInv'
  BY OutboxAssumption, StepTypeInv, StepFence, StepStoredReply, StepDelivered DEF OutboxInv
<1>2. QED
  BY <1>1, InitOutboxInv, OutboxAssumption, PTL DEF Spec

\* Whatever crashes, errors and lost leases happen, all copies of a reply are
\* the stored one (store_outbox_reply before the first publish).
THEOREM RepliesAgree == Spec => []OneReply
<1>1. OutboxInv => OneReply
  BY DEF OutboxInv, Delivered
<1>2. QED
  BY <1>1, OutboxInvariant, PTL

\* A row is SENT only when every queue of its reply has a copy
\* (_publish_all_queues before mark_outbox_sent).
THEOREM SentIsDelivered == Spec => []SentReachedEveryQueue
<1>1. OutboxInv => SentReachedEveryQueue
  BY DEF OutboxInv, Delivered
<1>2. QED
  BY <1>1, OutboxInvariant, PTL

\* A step changes no final row and replaces no stored reply.
LEMMA StepFinal ==
    ASSUME OutboxInv, [Next]_vars
    PROVE  \A t \in Task :
               /\ status[t] \in FinalStatus =>
                      status'[t] = status[t] /\ token'[t] = token[t] /\ attempts'[t] = attempts[t]
               /\ reply[t] # NoReply => reply'[t] = reply[t]
<1> USE DEF OutboxInv, TypeInv, TypeOK, rowVars, procVars, FinalStatus
<1>1. ASSUME NEW p \in Publisher, Store(p)
      PROVE  UNCHANGED <<status, token, attempts>>
             /\ \A t \in Task : reply[t] # NoReply => reply'[t] = reply[t]
  <2>1. CASE Owned(claim[p])
    <3>1. reply[claim[p].task] = NoReply
      BY <1>1, <2>1 DEF Store, Owned, StoredReply
    <3>2. QED
      BY <1>1, <2>1, <3>1, BusyClaim DEF Store
  <2>2. CASE ~Owned(claim[p])
    BY <1>1, <2>2 DEF Store
  <2>3. QED
    BY <2>1, <2>2
<1>2. ASSUME NEW p \in Publisher, MarkSent(p) \/ MarkSkipped(p) \/ MarkFailure(p)
      PROVE  /\ UNCHANGED <<token, reply>>
             /\ \A t \in Task : status[t] \in FinalStatus =>
                    status'[t] = status[t] /\ attempts'[t] = attempts[t]
  BY <1>2, BusyClaim DEF MarkSent, MarkSkipped, MarkFailure, SetOwned, Owned
<1>3. ASSUME NEW p \in Publisher, NEW S \in SUBSET Task, ClaimRows(p, S) \/ Reconcile(p, S)
      PROVE  /\ UNCHANGED <<attempts, reply>>
             /\ \A t \in Task : status[t] \in FinalStatus =>
                    status'[t] = status[t] /\ token'[t] = token[t]
  BY <1>3 DEF ClaimRows, Reconcile, Claimable, Absent
<1>4. ASSUME NEW p \in Publisher,
             (\E c \in work[p] : TakeUnhooked(p, c) \/ TakeStored(p, c) \/ TakeNothing(p, c)
                                 \/ TakeDraft(p, c) \/ TakeRaises(p, c))
             \/ Publish(p) \/ PublishFails(p) \/ UpdateFails(p) \/ Crash(p)
      PROVE  UNCHANGED <<status, token, attempts, reply>>
  BY <1>4 DEF TakeUnhooked, TakeStored, TakeNothing, TakeDraft, TakeRaises, Take, Publish,
     PublishFails, UpdateFails, Crash
<1>5. ASSUME NEW t \in Task, Terminate(t) \/ Delete(t) \/ LeaseLate(t) \/ LeaseExpires(t)
      PROVE  UNCHANGED <<status, token, attempts, reply>>
  BY <1>5 DEF Terminate, Delete, LeaseLate, LeaseExpires, Age
<1>6. CASE UNCHANGED vars
  BY <1>6 DEF vars
<1>7. QED
  BY <1>1, <1>2, <1>3, <1>4, <1>5, <1>6 DEF Next, RowStep

\* A final row stays final and a stored reply is never replaced, although late
\* publishers still run (_owned_processing).
THEOREM FinalRowsStay == Spec => FinalIsForever
<1>1. OutboxInv /\ [Next]_vars =>
          [\A t \in Task :
              /\ status[t] \in FinalStatus =>
                     status'[t] = status[t] /\ token'[t] = token[t] /\ attempts'[t] = attempts[t]
              /\ reply[t] # NoReply => reply'[t] = reply[t]]_vars
  BY StepFinal
<1>2. QED
  BY <1>1, OutboxInvariant, PTL DEF Spec, FinalIsForever

-----------------------------------------------------------------------------
(* Attempts: the row is FAILED from the failure on that uses them up.        *)

LEMMA StepExhausted ==
    ASSUME OutboxAssumption, TypeInv, FailedWhenExhausted, [Next]_vars
    PROVE  FailedWhenExhausted'
<1>1. /\ MaxAttempts \in Nat /\ attempts \in [Task -> Nat]
      /\ status \in [Task -> {Absent, "PENDING", "PROCESSING"} \cup FinalStatus]
  BY DEF OutboxAssumption, TypeInv, TypeOK
<1>2. CASE UNCHANGED <<status, attempts>>
  BY <1>2 DEF FailedWhenExhausted
<1>3. ASSUME UNCHANGED attempts,
             \A t \in Task : status'[t] = "FAILED" <=> status[t] = "FAILED"
      PROVE  FailedWhenExhausted'
  BY <1>3 DEF FailedWhenExhausted
<1>4. ASSUME NEW p \in Publisher, NEW S \in SUBSET Task, Reconcile(p, S) PROVE FailedWhenExhausted'
  BY <1>1, <1>3, <1>4 DEF Reconcile, Absent
<1>5. ASSUME NEW p \in Publisher, NEW S \in SUBSET Task, ClaimRows(p, S) PROVE FailedWhenExhausted'
  BY <1>1, <1>3, <1>5 DEF ClaimRows, Claimable
<1>6. ASSUME NEW p \in Publisher, MarkSent(p) \/ MarkSkipped(p) PROVE FailedWhenExhausted'
  BY <1>1, <1>3, <1>6, BusyClaim DEF MarkSent, MarkSkipped, SetOwned, Owned
<1>7. ASSUME NEW p \in Publisher, MarkFailure(p) PROVE FailedWhenExhausted'
  <2> DEFINE t0 == claim[p].task
             n == attempts[t0] + 1
  <2>1. t0 \in Task
    BY <1>7, BusyClaim DEF MarkFailure
  <2>2. CASE ~Owned(claim[p])
    BY <1>2, <1>7, <2>2 DEF MarkFailure, SetOwned
  <2>3. CASE Owned(claim[p])
    <3>1. status' = [status EXCEPT ![t0] = AfterFailure(n)] /\ attempts' = [attempts EXCEPT ![t0] = n]
      BY <1>7, <2>3 DEF MarkFailure, SetOwned
    <3>2. attempts[t0] \in Nat /\ attempts[t0] <= MaxAttempts /\ attempts[t0] # MaxAttempts
      BY <1>1, <2>1, <2>3 DEF Owned, FailedWhenExhausted
    <3>3. n \in Nat /\ n <= MaxAttempts
      BY <1>1, <3>2
    <3>4. AfterFailure(n) = "FAILED" <=> n = MaxAttempts
      BY <1>1, <3>3 DEF AfterFailure
    <3>5. /\ status'[t0] = AfterFailure(n) /\ attempts'[t0] = n
          /\ \A t \in Task \ {t0} : status'[t] = status[t] /\ attempts'[t] = attempts[t]
      BY <1>1, <2>1, <3>1
    <3> HIDE DEF t0, n
    <3>6. QED
      BY <3>3, <3>4, <3>5 DEF FailedWhenExhausted
  <2>4. QED
    BY <2>2, <2>3
<1>8. ASSUME NEW p \in Publisher, NEW c \in work[p],
             TakeUnhooked(p, c) \/ TakeStored(p, c) \/ TakeNothing(p, c)
             \/ TakeDraft(p, c) \/ TakeRaises(p, c)
      PROVE  FailedWhenExhausted'
  BY <1>2, <1>8 DEF TakeUnhooked, TakeStored, TakeNothing, TakeDraft, TakeRaises, Take, rowVars
<1>9. ASSUME NEW p \in Publisher,
             Store(p) \/ Publish(p) \/ PublishFails(p) \/ UpdateFails(p) \/ Crash(p)
      PROVE  FailedWhenExhausted'
  BY <1>2, <1>9 DEF Store, Publish, PublishFails, UpdateFails, Crash, rowVars
<1>10. ASSUME NEW t \in Task, Terminate(t) \/ Delete(t) \/ LeaseLate(t) \/ LeaseExpires(t)
       PROVE  FailedWhenExhausted'
  BY <1>2, <1>10 DEF Terminate, Delete, LeaseLate, LeaseExpires, Age, rowVars
<1>11. CASE UNCHANGED vars
  BY <1>2, <1>11 DEF vars, rowVars
<1>12. QED
  BY <1>4, <1>5, <1>6, <1>7, <1>8, <1>9, <1>10, <1>11 DEF Next, RowStep

\* A row is FAILED if and only if its last attempt was used up, whoever made the
\* attempts (mark_outbox_publish_failure).
THEOREM FailedIsExhausted == Spec => []FailedWhenExhausted
<1>1. Init => FailedWhenExhausted
  BY OutboxAssumption DEF Init, FailedWhenExhausted, OutboxAssumption, Absent
<1>2. OutboxInv /\ FailedWhenExhausted /\ [Next]_vars => FailedWhenExhausted'
  BY OutboxAssumption, StepExhausted DEF OutboxInv
<1>3. QED
  BY <1>1, <1>2, OutboxInvariant, PTL DEF Spec

-----------------------------------------------------------------------------
(* Skips: a live claim of a task whose hooks every process has is skipped    *)
(* only while no reply is stored.                                            *)

SkipsNothing ==
    /\ \A p \in Publisher :
           /\ pc[p] = "skip" /\ claim[p].token = token[claim[p].task]
           /\ claim[p].task \in Covered
           => reply[claim[p].task] = NoReply
    /\ \A t \in Covered : status[t] = "SKIPPED" => reply[t] = NoReply

\* A step that skips no row, stores no reply and takes no claim to skip.
LEMMA QuietSkips ==
    ASSUME SkipsNothing, UNCHANGED <<reply, token>>,
           \A t \in Task : status'[t] = "SKIPPED" => status[t] = "SKIPPED",
           \A p \in Publisher : pc'[p] = "skip" => pc[p] = "skip" /\ claim'[p] = claim[p]
    PROVE  SkipsNothing'
BY DEF SkipsNothing, Covered

LEMMA TakeSkips ==
    ASSUME TypeInv, StoredReply, SkipsNothing,
           NEW p \in Publisher, NEW c \in work[p],
           TakeUnhooked(p, c) \/ TakeStored(p, c) \/ TakeNothing(p, c)
           \/ TakeDraft(p, c) \/ TakeRaises(p, c)
    PROVE  SkipsNothing'
<1>1. c.task \in Task
  BY DEF TypeInv, TypeOK, Claim
<1>2. TakeUnhooked(p, c) => Take(p, c, "skip", NoReply) /\ c.task \notin Covered
  BY <1>1 DEF Covered, TakeUnhooked
<1>3. PICK l : /\ \E r : Take(p, c, l, r)
               /\ l = "skip" /\ c.task \in Covered => c.reply = NoReply
  <2>1. CASE TakeStored(p, c)
    <3>1. Take(p, c, "publish", c.reply)
      BY <2>1 DEF TakeStored
    <3>2. QED
      BY <3>1
  <2>2. CASE TakeNothing(p, c)
    <3>1. Take(p, c, "skip", NoReply) /\ c.reply = NoReply
      BY <2>2 DEF TakeNothing
    <3>2. QED
      BY <3>1
  <2>3. CASE TakeDraft(p, c)
    <3>1. \E r : Take(p, c, "store", r)
      BY <2>3 DEF TakeDraft
    <3>2. QED
      BY <3>1
  <2>4. CASE TakeRaises(p, c)
    <3>1. Take(p, c, "fail", NoReply)
      BY <2>4 DEF TakeRaises
    <3>2. QED
      BY <3>1
  <2>5. QED
    BY <1>2, <2>1, <2>2, <2>3, <2>4
<1>4. /\ pc'[p] = l /\ claim'[p] = c /\ UNCHANGED <<reply, token, status>>
      /\ \A q \in Publisher \ {p} : pc'[q] = pc[q] /\ claim'[q] = claim[q]
  BY <1>3 DEF Take, rowVars, TypeInv, TypeOK
<1>5. l = "skip" /\ c.token = token[c.task] /\ c.task \in Covered => reply[c.task] = NoReply
  BY <1>3 DEF StoredReply
<1>6. QED
  BY <1>4, <1>5 DEF SkipsNothing, Covered

LEMMA StoreSkips ==
    ASSUME TypeInv, Fence, SkipsNothing, NEW p \in Publisher, Store(p)
    PROVE  SkipsNothing'
<1>1. CASE ~Owned(claim[p])
  BY <1>1, QuietSkips DEF Store, Release, TypeInv, TypeOK
<1>2. CASE Owned(claim[p])
  <2> DEFINE t0 == claim[p].task
  <2>1. /\ pc[p] = "store" /\ pc' = [pc EXCEPT ![p] = "publish"]
        /\ reply' = [reply EXCEPT ![t0] = sending[p]] /\ UNCHANGED <<claim, token, status>>
        /\ status[t0] = "PROCESSING" /\ token[t0] = claim[p].token
    BY <1>2 DEF Store, Goto, Owned
  <2>2. t0 \in Task /\ \A t \in Task \ {t0} : reply'[t] = reply[t]
    BY <2>1, BusyClaim DEF TypeInv, TypeOK
  <2>3. ASSUME NEW q \in Publisher, pc'[q] = "skip", claim[q].token = token[claim[q].task],
               claim[q].task \in Covered
        PROVE  reply'[claim[q].task] = NoReply
    <3>1. q # p /\ pc[q] = "skip"
      BY <2>1, <2>3 DEF TypeInv, TypeOK
    <3>2. claim[q] \in Held(q) /\ claim[p] \in Held(p)
      BY <2>1, <3>1 DEF Held
    <3>3. claim[q].task # t0
      BY <2>1, <2>3, <3>1, <3>2 DEF Fence
    <3>4. claim[q].task \in Task
      BY <3>1, BusyClaim
    <3>5. QED
      BY <2>2, <2>3, <3>1, <3>3, <3>4 DEF SkipsNothing
  <2>4. QED
    BY <2>1, <2>2, <2>3 DEF SkipsNothing, Covered
<1>3. QED
  BY <1>1, <1>2

LEMMA ClaimSkips ==
    ASSUME TypeInv, Fence, SkipsNothing, NEW p \in Publisher, NEW S \in SUBSET Task,
           ClaimRows(p, S)
    PROVE  SkipsNothing'
<1>1. /\ UNCHANGED <<reply, pc, claim>>
      /\ \A t \in Task : /\ status'[t] = "SKIPPED" => status[t] = "SKIPPED"
                         /\ token'[t] = IF t \in S THEN token[t] + 1 ELSE token[t]
                         /\ token[t] \in Nat
  BY DEF ClaimRows, TypeInv, TypeOK
<1>2. ASSUME NEW q \in Publisher, pc[q] = "skip", claim[q].token = token'[claim[q].task]
      PROVE  claim[q].token = token[claim[q].task]
  <2>1. claim[q].task \in Task /\ claim[q].token \in Nat
    BY <1>2, BusyClaim
  <2>2. claim[q].token <= token[claim[q].task]
    BY <1>2 DEF Fence, Held
  <2>3. QED
    BY <1>1, <1>2, <2>1, <2>2
<1>3. QED
  BY <1>1, <1>2 DEF SkipsNothing, Covered

LEMMA StepSkips ==
    ASSUME TypeInv, Fence, StoredReply, SkipsNothing, [Next]_vars
    PROVE  SkipsNothing'
<1> USE DEF rowVars, procVars
<1>1. ASSUME NEW p \in Publisher, MarkSkipped(p) PROVE SkipsNothing'
  <2>1. /\ pc[p] = "skip" /\ Release(p) /\ UNCHANGED <<reply, token>>
        /\ SetOwned(claim[p], "SKIPPED")
    BY <1>1 DEF MarkSkipped
  <2>2. \A t \in Task : status'[t] = "SKIPPED" =>
            status[t] = "SKIPPED" \/ (t = claim[p].task /\ claim[p].token = token[t])
    <3>1. CASE Owned(claim[p])
      <4>1. status' = [status EXCEPT ![claim[p].task] = "SKIPPED"]
        BY <2>1, <3>1 DEF SetOwned
      <4>2. \A t \in Task \ {claim[p].task} : status'[t] = status[t]
        BY <4>1 DEF TypeInv, TypeOK
      <4>3. token[claim[p].task] = claim[p].token
        BY <3>1 DEF Owned
      <4>4. QED
        BY <4>2, <4>3
    <3>2. CASE ~Owned(claim[p])
      <4>1. status' = status
        BY <2>1, <3>2 DEF SetOwned
      <4>2. QED
        BY <4>1
    <3>3. QED
      BY <3>1, <3>2
  <2>3. \A q \in Publisher : pc'[q] = "skip" => pc[q] = "skip" /\ claim'[q] = claim[q]
    BY <2>1 DEF Release, TypeInv, TypeOK
  <2>4. QED
    BY <2>1, <2>2, <2>3 DEF SkipsNothing, Covered
<1>2. ASSUME NEW p \in Publisher, MarkSent(p) \/ MarkFailure(p) PROVE SkipsNothing'
  BY <1>2, QuietSkips DEF MarkSent, MarkFailure, AfterFailure, SetOwned, Release, TypeInv, TypeOK
<1>3. ASSUME NEW p \in Publisher, Publish(p) \/ PublishFails(p) \/ UpdateFails(p)
      PROVE  SkipsNothing'
  BY <1>3, QuietSkips DEF Publish, PublishFails, UpdateFails, Goto, TypeInv, TypeOK
<1>4. ASSUME NEW p \in Publisher, Crash(p) PROVE SkipsNothing'
  BY <1>4, QuietSkips DEF Crash, Release, TypeInv, TypeOK
<1>5. ASSUME NEW p \in Publisher, NEW S \in SUBSET Task, Reconcile(p, S) PROVE SkipsNothing'
  BY <1>5, QuietSkips DEF Reconcile
<1>6. ASSUME NEW t \in Task, Terminate(t) \/ Delete(t) \/ LeaseLate(t) \/ LeaseExpires(t) PROVE SkipsNothing'
  BY <1>6, QuietSkips DEF Terminate, Delete, LeaseLate, LeaseExpires, Age
<1>7. CASE UNCHANGED vars
  BY <1>7, QuietSkips DEF vars
<1>8. QED
  BY <1>1, <1>2, <1>3, <1>4, <1>5, <1>6, <1>7, TakeSkips, StoreSkips, ClaimSkips
     DEF Next, RowStep

LEMMA NothingIsSkipped == Spec => []SkipsNothing
<1>1. Init => SkipsNothing
  BY DEF Init, SkipsNothing, Absent, Covered
<1>2. OutboxInv /\ SkipsNothing /\ [Next]_vars => SkipsNothing'
  BY StepSkips DEF OutboxInv
<1>3. QED
  BY <1>1, <1>2, OutboxInvariant, PTL DEF Spec

\* A row that is skipped although a queue has a copy of its reply.
SkippedHalfway(t) == status[t] = "SKIPPED" /\ \E q \in Queue, b \in Body : copies[t][q][b] > 0

\* A reply that some queue received is skipped for the others only where a broker
\* process has no hooks or settings for the plugin (mark_outbox_skipped).
THEOREM SkipsNeedMissingHooks ==
    Spec => [](\A t \in Task : SkippedHalfway(t) => \E p \in Publisher : t \notin Hooked[p])
<1>1. OutboxInv /\ SkipsNothing =>
          \A t \in Task : SkippedHalfway(t) => \E p \in Publisher : t \notin Hooked[p]
  <2> SUFFICES ASSUME OutboxInv, SkipsNothing, NEW t \in Covered, status[t] = "SKIPPED",
                      NEW q \in Queue, NEW b \in Body
               PROVE  ~(copies[t][q][b] > 0)
    BY DEF SkippedHalfway, Covered
  <2>1. reply[t].body \notin Body
    BY OutboxAssumption DEF SkipsNothing, NoReply, OutboxAssumption
  <2>2. OneReply
    BY DEF OutboxInv, Delivered
  <2>3. QED
    BY <2>1, <2>2 DEF OneReply, Covered
<1>2. QED
  BY <1>1, NothingIsSkipped, OutboxInvariant, PTL

HookedEverywhere == \A p \in Publisher : Hooked[p] = Task

\* Where every broker process has the hooks of every plugin, a reply is skipped only
\* as a whole.
THEOREM SkipsAreWhole == HookedEverywhere /\ Spec => []SkippedSentNothing
<1>1. ASSUME HookedEverywhere, OutboxInv,
             \A t \in Task : SkippedHalfway(t) => \E p \in Publisher : t \notin Hooked[p]
      PROVE  SkippedSentNothing
  <2> SUFFICES ASSUME NEW t \in Task, status[t] = "SKIPPED", NEW q \in Queue, NEW b \in Body
               PROVE  copies[t][q][b] = 0
    BY DEF SkippedSentNothing
  <2>1. ~SkippedHalfway(t)
    BY <1>1 DEF HookedEverywhere
  <2>2. copies[t][q][b] \in Nat
    BY <1>1 DEF OutboxInv, TypeInv, TypeOK
  <2>3. QED
    BY <2>1, <2>2 DEF SkippedHalfway
<1>2. HookedEverywhere => HookedEverywhere'
  BY DEF HookedEverywhere
<1>3. QED
  BY <1>1, <1>2, SkipsNeedMissingHooks, OutboxInvariant, PTL

-----------------------------------------------------------------------------
(* The abstract specification of the delivery.                               *)

DeliveryStep == [Delivery!Next]_(Delivery!deliveryVars)

LEMMA StutterDelivers ==
    ASSUME UNCHANGED <<outcome, reply, copies>>
    PROVE  DeliveryStep
BY DEF DeliveryStep, Delivery!deliveryVars

\* A step that changes no final status and makes none does not show.
LEMMA OpenRowsDoNotShow ==
    ASSUME \A t \in Task : status'[t] \in FinalStatus \/ status[t] \in FinalStatus =>
               status'[t] = status[t]
    PROVE  UNCHANGED outcome
<1>1. \A t \in Task : (IF status'[t] \in FinalStatus THEN status'[t] ELSE "open")
                        = (IF status[t] \in FinalStatus THEN status[t] ELSE "open")
  OBVIOUS
<1>2. QED
  BY <1>1 DEF outcome, FinalStatus

\* A claim that is still owned belongs to an open outcome.
LEMMA OwnedIsOpen ==
    ASSUME NEW t \in Task, status[t] = "PROCESSING"
    PROVE  outcome[t] = "open"
BY DEF outcome, FinalStatus

LEMMA StoreDecides ==
    ASSUME TypeInv, StoredReply, NEW p \in Publisher, Store(p)
    PROVE  DeliveryStep
<1>1. CASE ~Owned(claim[p])
  BY <1>1, StutterDelivers DEF Store, outcome
<1>2. CASE Owned(claim[p])
  <2> DEFINE t == claim[p].task
  <2>1. /\ pc[p] = "store" /\ status[t] = "PROCESSING" /\ token[t] = claim[p].token
        /\ reply' = [reply EXCEPT ![t] = sending[p]]
        /\ UNCHANGED <<status, copies>>
    BY <1>2 DEF Store, Owned
  <2>2. t \in Task
    BY <2>1, BusyClaim
  <2>3. outcome[t] = "open" /\ UNCHANGED outcome
    BY <2>1, <2>2, OwnedIsOpen DEF outcome
  <2>4. reply[t] = NoReply
    BY <2>1 DEF StoredReply
  <2>5. sending[p] \in Reply /\ Len(sending[p].routes) > 0
    BY <2>1 DEF TypeInv, SendingOK, TypeOK, Reply, NoReply
  <2>6. reply'[t] = sending[p]
    BY <2>1, <2>2 DEF TypeInv, TypeOK
  <2>7. reply'[t].body \in Body /\ reply'[t].routes \in Seq(Queue) \ {<<>>}
    BY <2>5, <2>6 DEF Reply
  <2> HIDE DEF t
  <2>8. reply' = [reply EXCEPT ![t] = reply'[t]]
    BY <2>1, <2>6 DEF t
  <2>9. Delivery!Decide(t)
    BY <2>1, <2>3, <2>4, <2>7, <2>8 DEF Delivery!Decide
  <2>10. QED
    BY <2>2, <2>9 DEF DeliveryStep, Delivery!Next
<1>3. QED
  BY <1>1, <1>2

LEMMA PublishDelivers ==
    ASSUME TypeInv, StoredReply, NEW p \in Publisher, pc[p] = "publish", Receive(p),
           UNCHANGED <<status, reply>>
    PROVE  DeliveryStep
<1> DEFINE t == claim[p].task
           i == next[p]
           q == reply[t].routes[i]
           b == reply[t].body
<1>1. t \in Task /\ reply[t] = sending[p]
  BY BusyClaim DEF StoredReply
<1>2. /\ reply[t] \in Reply /\ reply[t] # NoReply
      /\ i \in 1..Len(reply[t].routes)
  <2>1. sending[p] \in Reply /\ i <= Len(sending[p].routes) /\ i \in Nat \ {0}
    BY DEF TypeInv, SendingOK, TypeOK
  <2>2. Len(sending[p].routes) \in Nat
    BY <2>1 DEF Reply
  <2>3. sending[p] # NoReply
    BY <2>1, <2>2 DEF NoReply
  <2>4. QED
    BY <1>1, <2>1, <2>2, <2>3
<1>3. i \in DOMAIN reply[t].routes /\ q \in Queue /\ b \in Body
  BY <1>2 DEF Reply
<1>4. copies' = [u \in Task |-> [x \in Queue |-> [y \in Body |->
                    IF u = t /\ x = q /\ y = b THEN copies[u][x][y] + 1 ELSE copies[u][x][y]]]]
  BY <1>1 DEF Receive
<1> HIDE DEF t, i, q, b
<1>5. copies' = [copies EXCEPT ![t][q][b] = @ + 1]
  <2>1. copies \in [Task -> [Queue -> [Body -> Nat]]]
    BY DEF TypeInv, TypeOK
  <2> DEFINE n == copies[t][q][b] + 1
             atQueue == [y \in Body |-> IF y = b THEN n ELSE copies[t][q][y]]
             atTask == [x \in Queue |-> IF x = q THEN atQueue ELSE copies[t][x]]
  <2>2. [copies[t][q] EXCEPT ![b] = n] = atQueue
    BY <1>1, <1>3, <2>1
  <2>3. [copies[t] EXCEPT ![q] = atQueue] = atTask
    BY <1>1, <1>3, <2>1
  <2>4. [copies EXCEPT ![t] = atTask] = [u \in Task |-> IF u = t THEN atTask ELSE copies[u]]
    BY <1>1, <2>1
  <2>5. ASSUME NEW u \in Task
        PROVE  copies'[u] = IF u = t THEN atTask ELSE copies[u]
    <3>1. copies'[u] = [x \in Queue |-> [y \in Body |->
              IF u = t /\ x = q /\ y = b THEN copies[u][x][y] + 1 ELSE copies[u][x][y]]]
      BY <1>4
    <3>2. CASE u = t
      <4>1. ASSUME NEW x \in Queue PROVE copies'[t][x] = IF x = q THEN atQueue ELSE copies[t][x]
        BY <1>1, <2>1, <3>1, <3>2
      <4>2. QED
        BY <3>1, <3>2, <4>1
    <3>3. CASE u # t
      <4>1. ASSUME NEW x \in Queue PROVE copies'[u][x] = copies[u][x]
        BY <2>1, <3>1, <3>3
      <4>2. copies[u] \in [Queue -> [Body -> Nat]]
        BY <2>1
      <4>3. QED
        BY <3>1, <3>3, <4>1, <4>2
    <3>4. QED
      BY <3>2, <3>3
  <2>6. copies' = [u \in Task |-> IF u = t THEN atTask ELSE copies[u]]
    BY <1>4, <2>5
  <2>7. QED
    BY <2>2, <2>3, <2>4, <2>6
<1>6. UNCHANGED outcome
  BY DEF outcome
<1>7. Delivery!Deliver(t, i)
  BY <1>2, <1>5, <1>6 DEF Delivery!Deliver, q, b
<1>8. QED
  BY <1>1, <1>3, <1>7 DEF DeliveryStep, Delivery!Next

\* A claimed row gets its last status.
LEMMA MarkSettles ==
    ASSUME TypeInv, NEW p \in Publisher, pc[p] # "idle", NEW s \in FinalStatus,
           SetOwned(claim[p], s), UNCHANGED <<reply, copies>>,
           s = "SENT" => reply[claim[p].task] # NoReply /\ Delivery!Reached(claim[p].task),
           s = "SKIPPED" /\ Owned(claim[p]) /\ claim[p].task \in Covered =>
               reply[claim[p].task] = NoReply
    PROVE  DeliveryStep
<1> DEFINE t == claim[p].task
<1>1. CASE ~Owned(claim[p])
  <2>1. UNCHANGED status
    BY <1>1 DEF SetOwned
  <2>2. QED
    BY <2>1, StutterDelivers DEF outcome
<1>2. CASE Owned(claim[p])
  <2>1. t \in Task /\ status[t] = "PROCESSING" /\ status' = [status EXCEPT ![t] = s]
    BY <1>2, BusyClaim DEF SetOwned, Owned
  <2>2. outcome[t] = "open"
    BY <2>1, OwnedIsOpen
  <2>3. \A u \in Task : status'[u] = IF u = t THEN s ELSE status[u]
    BY <2>1 DEF TypeInv, TypeOK
  <2>4. outcome' = [outcome EXCEPT ![t] = s]
    BY <2>1, <2>3 DEF outcome
  <2>5. Delivery!Settle(t, s)
    BY <1>2, <2>2, <2>4 DEF Delivery!Settle
  <2>6. QED
    BY <2>1, <2>5 DEF DeliveryStep, Delivery!Next, FinalStatus
<1>3. QED
  BY <1>1, <1>2

LEMMA MarksSettle ==
    ASSUME OutboxInv, SkipsNothing, NEW p \in Publisher,
           MarkSent(p) \/ MarkSkipped(p) \/ MarkFailure(p)
    PROVE  DeliveryStep
<1>1. TypeInv /\ StoredReply /\ Delivered
  BY DEF OutboxInv
<1>2. CASE MarkSent(p)
  <2>1. pc[p] = "sent" /\ SetOwned(claim[p], "SENT") /\ UNCHANGED <<reply, copies>>
    BY <1>2 DEF MarkSent
  <2>2. reply[claim[p].task] = sending[p]
    BY <1>1, <2>1 DEF StoredReply
  <2>3. sending[p] \in Reply /\ Len(sending[p].routes) > 0
    BY <1>1, <2>1 DEF TypeInv, SendingOK, TypeOK
  <2>4. sending[p] # NoReply
    BY <2>3 DEF NoReply
  <2>5. Delivery!Reached(claim[p].task)
    BY <1>1, <2>1, <2>2 DEF Delivery!Reached, Delivered
  <2>6. QED
    BY <1>1, <2>1, <2>2, <2>4, <2>5, MarkSettles DEF FinalStatus
<1>3. CASE MarkSkipped(p)
  <2>1. pc[p] = "skip" /\ SetOwned(claim[p], "SKIPPED") /\ UNCHANGED <<reply, copies>>
    BY <1>3 DEF MarkSkipped
  <2>2. Owned(claim[p]) /\ claim[p].task \in Covered => reply[claim[p].task] = NoReply
    BY <2>1 DEF SkipsNothing, Owned
  <2>3. QED
    BY <1>1, <2>1, <2>2, MarkSettles DEF FinalStatus
<1>4. CASE MarkFailure(p)
  <2> DEFINE n == attempts[claim[p].task] + 1
  <2>1. pc[p] = "fail" /\ SetOwned(claim[p], AfterFailure(n)) /\ UNCHANGED <<reply, copies>>
    BY <1>4 DEF MarkFailure
  <2>2. CASE AfterFailure(n) = "FAILED"
    BY <1>1, <2>1, <2>2, MarkSettles DEF FinalStatus
  <2>3. CASE AfterFailure(n) = "PENDING"
    <3>1. claim[p].task \in Task
      BY <1>1, <2>1, BusyClaim
    <3>2. \A t \in Task : status'[t] = status[t]
                          \/ (status'[t] = "PENDING" /\ status[t] = "PROCESSING")
      BY <1>1, <2>1, <2>3, <3>1 DEF SetOwned, Owned, TypeInv, TypeOK
    <3>3. UNCHANGED outcome
      BY <3>2, OpenRowsDoNotShow DEF FinalStatus
    <3>4. QED
      BY <2>1, <3>3, StutterDelivers
  <2>4. QED
    BY <2>2, <2>3 DEF AfterFailure
<1>5. QED
  BY <1>2, <1>3, <1>4

LEMMA NextImplementsDelivery ==
    ASSUME OutboxInv, SkipsNothing, [Next]_vars
    PROVE  DeliveryStep
<1>1. TypeInv /\ StoredReply /\ status \in [Task -> {Absent, "PENDING", "PROCESSING"} \cup FinalStatus]
  BY DEF OutboxInv, TypeInv, TypeOK
<1>2. ASSUME UNCHANGED <<status, reply, copies>> PROVE DeliveryStep
  BY <1>2, StutterDelivers DEF outcome
<1>3. ASSUME NEW p \in Publisher, NEW S \in SUBSET Task, Reconcile(p, S) \/ ClaimRows(p, S)
      PROVE  DeliveryStep
  <2>1. \A t \in Task : \/ status'[t] = status[t]
                        \/ /\ status[t] \in {Absent, "PENDING", "PROCESSING"}
                           /\ status'[t] \in {"PENDING", "PROCESSING"}
    BY <1>3 DEF Reconcile, ClaimRows, Claimable
  <2>2. UNCHANGED outcome
    BY <2>1, OpenRowsDoNotShow DEF FinalStatus, Absent
  <2>3. UNCHANGED <<reply, copies>>
    BY <1>3 DEF Reconcile, ClaimRows
  <2>4. QED
    BY <2>2, <2>3, StutterDelivers
<1>4. ASSUME NEW p \in Publisher, NEW c \in work[p],
             TakeUnhooked(p, c) \/ TakeStored(p, c) \/ TakeNothing(p, c) \/ TakeDraft(p, c)
             \/ TakeRaises(p, c)
      PROVE  DeliveryStep
  <2>1. \E l, r : Take(p, c, l, r)
    BY <1>4 DEF TakeUnhooked, TakeStored, TakeNothing, TakeDraft, TakeRaises
  <2>2. UNCHANGED <<status, reply, copies>>
    BY <2>1 DEF Take, rowVars
  <2>3. QED
    BY <1>2, <2>2
<1>5. ASSUME NEW p \in Publisher, Publish(p) \/ PublishFails(p) PROVE DeliveryStep
  <2>1. pc[p] = "publish" /\ UNCHANGED <<status, reply>> /\ (UNCHANGED copies \/ Receive(p))
    BY <1>5 DEF Publish, PublishFails, rowVars
  <2>2. QED
    BY <1>1, <1>2, <2>1, PublishDelivers
<1>6. ASSUME NEW p \in Publisher, UpdateFails(p) \/ Crash(p) PROVE DeliveryStep
  BY <1>2, <1>6 DEF UpdateFails, Crash, rowVars
<1>7. ASSUME NEW t \in Task, Terminate(t) \/ Delete(t) \/ LeaseLate(t) \/ LeaseExpires(t) PROVE DeliveryStep
  BY <1>2, <1>7 DEF Terminate, Delete, LeaseLate, LeaseExpires, Age, rowVars
<1>8. CASE UNCHANGED vars
  BY <1>2, <1>8 DEF vars, rowVars
<1>9. QED
  BY <1>1, <1>3, <1>4, <1>5, <1>6, <1>7, <1>8, StoreDecides, MarksSettle DEF Next, RowStep

\* To the consumers of the replies the outbox is ReplyDelivery, for any number of
\* tasks, publishers, queues and faults: they cannot tell that replies are stored,
\* published and settled in separate steps by publishers that may have lost their
\* claim in between.
THEOREM OutboxImplementsDelivery == Spec => ImplementsDelivery
<1>1. Init => Delivery!Init
  BY DEF Init, Delivery!Init, outcome, FinalStatus, Absent
<1>2. OutboxInv /\ SkipsNothing /\ [Next]_vars => [Delivery!Next]_(Delivery!deliveryVars)
  BY NextImplementsDelivery DEF DeliveryStep
<1>3. QED
  BY <1>1, <1>2, OutboxInvariant, NothingIsSkipped, PTL
     DEF Spec, ImplementsDelivery, Delivery!Spec

-----------------------------------------------------------------------------
(* Duplicates. A delivery is the position of a queue in the reply, done under  *)
(* a claim_token. A claim does each of its deliveries at most once, whatever   *)
(* other publishers do, so that a queue has no more copies than there are      *)
(* pairs of a token handed out and a position that names the queue.            *)

Positions(t, q) == {i \in DOMAIN reply[t].routes : reply[t].routes[i] = q}

\* The delivery to position i is still ahead of the claim c of p.
Ahead(p, c, i) ==
    \/ c \in work[p]
    \/ /\ c = claim[p]
       /\ pc[p] = "store" \/ (pc[p] = "publish" /\ i >= next[p])

Counted(t, q, b, X) ==
    /\ X \subseteq (1 .. token[t]) \X Positions(t, q)
    /\ IsFiniteSet(X)
    /\ copies[t][q][b] <= Cardinality(X)
    /\ \A p \in Publisher : \A c \in Held(p), i \in Nat :
           c.task = t /\ <<c.token, i>> \in X => ~Ahead(p, c, i)

CopiesCounted ==
    /\ \A p \in Publisher : \A c \in Held(p) : c.token > 0
    /\ \A t \in Task, q \in Queue, b \in Body : \E X : Counted(t, q, b, X)

\* A claim that is still held has no more ahead of it than before.
NothingNewAhead ==
    \A p \in Publisher : \A c \in Held(p)' :
        \/ c.token > token[c.task] /\ c.token > 0
        \/ c \in Held(p) /\ \A i \in Nat : Ahead(p, c, i)' => Ahead(p, c, i)

\* A step that delivers nothing.
LEMMA QuietCopies ==
    ASSUME TypeInv, CopiesCounted, UNCHANGED copies, NothingNewAhead,
           \A t \in Task : token'[t] \in Nat /\ token[t] <= token'[t],
           \A t \in Task, q \in Queue : Positions(t, q) \subseteq Positions(t, q)'
    PROVE  CopiesCounted'
<1>1. \A p \in Publisher : \A c \in Held(p)' : c.token > 0
  BY DEF CopiesCounted, NothingNewAhead
<1>2. ASSUME NEW t \in Task, NEW q \in Queue, NEW b \in Body
      PROVE  \E X : Counted(t, q, b, X)'
  <2>1. PICK X : Counted(t, q, b, X)
    BY DEF CopiesCounted
  <2>2. X \subseteq (1 .. token'[t]) \X Positions(t, q)'
    <3>1. token[t] \in Nat /\ token'[t] \in Nat /\ token[t] <= token'[t]
      BY DEF TypeInv, TypeOK
    <3>2. 1 .. token[t] \subseteq 1 .. token'[t]
      BY <3>1
    <3>3. QED
      BY <2>1, <3>2 DEF Counted
  <2>3. ASSUME NEW p \in Publisher, NEW c \in Held(p)', NEW i \in Nat,
               c.task = t, <<c.token, i>> \in X
        PROVE  ~Ahead(p, c, i)'
    <3>1. c.token \in 1 .. token[t]
      BY <2>1, <2>3 DEF Counted
    <3>2. ~(c.token > token[c.task])
      BY <2>3, <3>1 DEF TypeInv, TypeOK
    <3>3. c \in Held(p) /\ (Ahead(p, c, i)' => Ahead(p, c, i))
      BY <2>3, <3>2 DEF NothingNewAhead
    <3>4. QED
      BY <2>1, <2>3, <3>3 DEF Counted
  <2>4. Counted(t, q, b, X)'
    BY <2>1, <2>2, <2>3 DEF Counted
  <2>5. QED
    BY <2>4
<1>3. QED
  BY <1>1, <1>2 DEF CopiesCounted

\* The positions of a queue change only with the reply.
LEMMA SamePositions ==
    ASSUME UNCHANGED reply, NEW t, NEW q
    PROVE  Positions(t, q)' = Positions(t, q)
BY DEF Positions

LEMMA SameReply ==
    ASSUME TypeInv, CopiesCounted, UNCHANGED <<copies, reply, token>>, NothingNewAhead
    PROVE  CopiesCounted'
<1>1. \A t \in Task, q \in Queue : Positions(t, q) \subseteq Positions(t, q)'
  BY SamePositions
<1>2. \A t \in Task : token'[t] \in Nat /\ token[t] <= token'[t]
  BY DEF TypeInv, TypeOK
<1>3. QED
  BY <1>1, <1>2, QuietCopies

\* Claims that are dropped, kept, or taken up at the first queue.
LEMMA NothingNew ==
    ASSUME \A p \in Publisher :
               /\ work'[p] \subseteq work[p]
               /\ \/ pc'[p] = "idle"
                  \/ claim'[p] \in work[p]
                  \/ /\ pc[p] # "idle" /\ claim'[p] = claim[p]
                     /\ pc'[p] = "store" => pc[p] = "store"
                     /\ pc'[p] = "publish" => pc[p] = "store" \/ next'[p] = next[p]
                     /\ pc'[p] = "publish" => pc[p] \in {"store", "publish"}
    PROVE  NothingNewAhead
<1> SUFFICES ASSUME NEW p \in Publisher, NEW c \in Held(p)'
             PROVE  c \in Held(p) /\ \A i \in Nat : Ahead(p, c, i)' => Ahead(p, c, i)
  BY DEF NothingNewAhead
<1>1. work'[p] \subseteq work[p]
  OBVIOUS
<1>2. CASE c \in work'[p]
  BY <1>1, <1>2 DEF Held, Ahead
<1>3. CASE c \notin work'[p]
  <2>1. pc'[p] # "idle" /\ c = claim'[p]
    BY <1>3 DEF Held
  <2>2. CASE claim'[p] \in work[p]
    BY <2>1, <2>2 DEF Held, Ahead
  <2>3. CASE /\ pc[p] # "idle" /\ claim'[p] = claim[p]
             /\ pc'[p] = "store" => pc[p] = "store"
             /\ pc'[p] = "publish" => pc[p] = "store" \/ next'[p] = next[p]
             /\ pc'[p] = "publish" => pc[p] \in {"store", "publish"}
    <3>1. c \in Held(p)
      BY <2>1, <2>3 DEF Held
    <3>2. ASSUME NEW i \in Nat, Ahead(p, c, i)' PROVE Ahead(p, c, i)
      BY <1>3, <2>1, <2>3, <3>2 DEF Ahead
    <3>3. QED
      BY <3>1, <3>2
  <2>4. QED
    BY <2>1, <2>2, <2>3
<1>4. QED
  BY <1>2, <1>3

LEMMA StoreCopies ==
    ASSUME OutboxAssumption, OutboxInv, CopiesCounted, NEW p \in Publisher, Store(p)
    PROVE  CopiesCounted'
<1>1. CASE ~Owned(claim[p])
  <2>1. UNCHANGED <<copies, reply, token, work>> /\ Release(p)
    BY <1>1 DEF Store
  <2>2. NothingNewAhead
    BY <2>1, NothingNew DEF Release, OutboxInv, TypeInv, TypeOK
  <2>3. QED
    BY <2>1, <2>2, SameReply DEF OutboxInv
<1>2. CASE Owned(claim[p])
  <2> DEFINE t0 == claim[p].task
  <2>1. /\ pc[p] = "store" /\ pc' = [pc EXCEPT ![p] = "publish"]
        /\ reply' = [reply EXCEPT ![t0] = sending[p]]
        /\ UNCHANGED <<claim, token, work, copies, next>>
        /\ token[t0] = claim[p].token
    BY <1>2 DEF Store, Goto, Owned
  <2>2. reply[t0] = NoReply
    BY <2>1 DEF OutboxInv, StoredReply
  <2>3. NothingNewAhead
    BY <2>1, NothingNew DEF OutboxInv, TypeInv, TypeOK
  <2>4. ASSUME NEW t \in Task, NEW q \in Queue
        PROVE  Positions(t, q) \subseteq Positions(t, q)'
    <3>1. CASE t = t0
      BY <2>2, <3>1 DEF Positions, NoReply
    <3>2. CASE t # t0
      <4>1. reply'[t] = reply[t]
        BY <2>1, <3>2 DEF OutboxInv, TypeInv, TypeOK
      <4>2. QED
        BY <4>1 DEF Positions
    <3>3. QED
      BY <3>1, <3>2
  <2>5. \A t \in Task : token'[t] \in Nat /\ token[t] <= token'[t]
    BY <2>1 DEF OutboxInv, TypeInv, TypeOK
  <2>6. QED
    BY <2>1, <2>3, <2>4, <2>5, QuietCopies DEF OutboxInv
<1>3. QED
  BY <1>1, <1>2

LEMMA ClaimCopies ==
    ASSUME OutboxInv, CopiesCounted, NEW p \in Publisher, NEW S \in SUBSET Task,
           ClaimRows(p, S)
    PROVE  CopiesCounted'
<1> DEFINE New == {[task |-> t, token |-> token[t] + 1, reply |-> reply[t]] : t \in S}
<1>1. /\ work'[p] = New /\ \A q \in Publisher \ {p} : work'[q] = work[q]
      /\ UNCHANGED <<reply, pc, claim, next, copies>>
      /\ pc[p] = "idle"
      /\ \A t \in Task : token'[t] = IF t \in S THEN token[t] + 1 ELSE token[t]
      /\ \A t \in Task : token[t] \in Nat
  BY DEF ClaimRows, OutboxInv, TypeInv, TypeOK
<1>2. \A c \in New : c.token > token[c.task] /\ c.token > 0
  BY <1>1
<1> HIDE DEF New
<1>3. ASSUME NEW q \in Publisher, NEW c \in Held(q)'
      PROVE  \/ c.token > token[c.task] /\ c.token > 0
             \/ c \in Held(q) /\ \A i \in Nat : Ahead(q, c, i)' => Ahead(q, c, i)
  <2>1. CASE q = p
    BY <1>1, <1>2, <1>3, <2>1 DEF Held
  <2>2. CASE q # p
    BY <1>1, <1>3, <2>2 DEF Held, Ahead
  <2>3. QED
    BY <2>1, <2>2
<1>4. NothingNewAhead
  BY <1>3 DEF NothingNewAhead
<1>5. \A t \in Task, q \in Queue : Positions(t, q) \subseteq Positions(t, q)'
  BY <1>1, SamePositions
<1>6. \A t \in Task : token'[t] \in Nat /\ token[t] <= token'[t]
  BY <1>1
<1>7. QED
  BY <1>1, <1>4, <1>5, <1>6, QuietCopies DEF OutboxInv

\* A copy is a delivery that was ahead of the claim and is not any more.
LEMMA ReceiveCopies ==
    ASSUME OutboxInv, CopiesCounted, NEW p \in Publisher, pc[p] = "publish", Receive(p),
           UNCHANGED <<reply, token, work, claim>>,
           \A q \in Publisher \ {p} : pc'[q] = pc[q] /\ next'[q] = next[q],
           pc'[p] \in {"sent", "fail"} \/ (pc'[p] = "publish" /\ next'[p] = next[p] + 1)
    PROVE  CopiesCounted'
<1> DEFINE t0 == claim[p].task
           k0 == claim[p].token
           n0 == next[p]
           q0 == sending[p].routes[n0]
           b0 == sending[p].body
<1>1. /\ t0 \in Task /\ k0 \in Nat /\ n0 \in Nat /\ claim[p] \in Held(p)
      /\ token[t0] \in Nat /\ copies \in [Task -> [Queue -> [Body -> Nat]]]
  BY BusyClaim DEF OutboxInv, TypeInv, TypeOK, Held
<1>2. k0 \in 1 .. token[t0]
  BY <1>1 DEF OutboxInv, Fence, CopiesCounted
<1>3. n0 \in Positions(t0, q0) /\ q0 \in Queue /\ b0 \in Body
  <2>1. sending[p] \in Reply /\ n0 \in DOMAIN sending[p].routes
    BY DEF OutboxInv, TypeInv, TypeOK, SendingOK, Reply
  <2>2. reply[t0] = sending[p]
    BY DEF OutboxInv, StoredReply
  <2>3. QED
    BY <2>1, <2>2 DEF Positions, Reply
<1>4. \A t \in Task, q \in Queue, b \in Body :
          copies'[t][q][b] = IF t = t0 /\ q = q0 /\ b = b0 THEN copies[t][q][b] + 1
                             ELSE copies[t][q][b]
  BY DEF Receive
<1>5. Ahead(p, claim[p], n0)
  BY <1>1 DEF Ahead
<1>6. ASSUME NEW c, c = claim[p], NEW i, i = n0 PROVE ~Ahead(p, c, i)'
  <2>1. c \notin work'[p]
    BY <1>6 DEF OutboxInv, Fence
  <2>2. pc'[p] # "store" /\ (pc'[p] = "publish" => ~(n0 >= next'[p]))
    BY <1>1
  <2>3. QED
    BY <1>6, <2>1, <2>2 DEF Ahead
<1>7. ASSUME NEW r \in Publisher, NEW c \in Held(r)'
      PROVE  c \in Held(r) /\ \A i \in Nat : Ahead(r, c, i)' => Ahead(r, c, i)
  <2>1. CASE r = p
    <3>1. c \in Held(r)
      BY <1>7, <2>1 DEF Held
    <3>2. ASSUME NEW i \in Nat, Ahead(r, c, i)' PROVE Ahead(r, c, i)
      <4>1. CASE c \in work[p]
        BY <2>1, <4>1 DEF Ahead
      <4>2. CASE c \notin work[p]
        <5>1. c = claim[p] /\ pc'[p] = "publish" /\ i >= next'[p] /\ next'[p] = n0 + 1
          BY <2>1, <3>2, <4>2 DEF Ahead
        <5>2. i >= n0
          BY <1>1, <5>1
        <5>3. QED
          BY <2>1, <5>1, <5>2 DEF Ahead
      <4>3. QED
        BY <4>1, <4>2
    <3>3. QED
      BY <3>1, <3>2
  <2>2. CASE r # p
    BY <1>7, <2>2 DEF Held, Ahead
  <2>3. QED
    BY <2>1, <2>2
<1>8. \A r \in Publisher : \A c \in Held(r)' : c.token > 0
  BY <1>7 DEF CopiesCounted
<1>9. ASSUME NEW r \in Publisher, NEW c \in Held(r)', c.task = t0, c.token = k0
      PROVE  r = p /\ c = claim[p]
  BY <1>1, <1>7, <1>9 DEF OutboxInv, Fence
<1>10. \A t, q : Positions(t, q)' = Positions(t, q)
  BY SamePositions
<1> HIDE DEF t0, k0, n0, q0, b0
<1>11. ASSUME NEW t \in Task, NEW q \in Queue, NEW b \in Body
       PROVE  \E X : Counted(t, q, b, X)'
  <2>1. PICK X : Counted(t, q, b, X)
    BY DEF CopiesCounted
  <2>2. /\ X \subseteq (1 .. token[t]) \X Positions(t, q) /\ IsFiniteSet(X)
        /\ copies[t][q][b] <= Cardinality(X)
        /\ \A r \in Publisher : \A c \in Held(r), i \in Nat :
               c.task = t /\ <<c.token, i>> \in X => ~Ahead(r, c, i)
    BY <2>1 DEF Counted
  <2>3. \A r \in Publisher : \A c \in Held(r)', i \in Nat :
            c.task = t /\ <<c.token, i>> \in X => ~Ahead(r, c, i)'
    BY <1>7, <2>2
  <2>4. CASE ~(t = t0 /\ q = q0 /\ b = b0)
    <3>1. copies'[t][q][b] = copies[t][q][b]
      BY <1>4, <2>4
    <3>2. Counted(t, q, b, X)'
      BY <1>10, <2>2, <2>3, <3>1 DEF Counted
    <3>3. QED
      BY <3>2
  <2>5. CASE t = t0 /\ q = q0 /\ b = b0
    <3>0. PICK Y : Y = X \cup {<<k0, n0>>}
      OBVIOUS
    <3>1. <<k0, n0>> \notin X
      <4>1. claim[p].task = t /\ claim[p].token = k0
        BY <2>5 DEF t0, k0
      <4>2. QED
        BY <1>1, <1>5, <2>2, <4>1
    <3>2. IsFiniteSet(Y) /\ Cardinality(Y) = Cardinality(X) + 1
      BY <2>2, <3>0, <3>1, FS_AddElement
    <3>3. Y \subseteq (1 .. token[t]) \X Positions(t, q)
      BY <1>2, <1>3, <2>2, <2>5, <3>0
    <3>4. copies'[t][q][b] <= Cardinality(Y)
      <4>1. copies'[t][q][b] = copies[t][q][b] + 1 /\ copies[t][q][b] \in Nat
        BY <1>1, <1>4, <2>5
      <4>2. Cardinality(X) \in Nat
        BY <2>2, FS_CardinalityType
      <4>3. QED
        BY <2>2, <3>2, <4>1, <4>2
    <3>5. ASSUME NEW r \in Publisher, NEW c \in Held(r)', NEW i \in Nat,
                 c.task = t, <<c.token, i>> \in Y
          PROVE  ~Ahead(r, c, i)'
      <4>1. CASE <<c.token, i>> \in X
        BY <2>3, <3>5, <4>1
      <4>2. CASE <<c.token, i>> = <<k0, n0>>
        <5>1. r = p /\ c = claim[p] /\ i = n0
          BY <1>9, <2>5, <3>5, <4>2
        <5>2. QED
          BY <1>6, <5>1
      <4>3. QED
        BY <3>0, <3>5, <4>1, <4>2
    <3>6. Counted(t, q, b, Y)'
      BY <1>10, <3>2, <3>3, <3>4, <3>5 DEF Counted
    <3>7. QED
      BY <3>6
  <2>6. QED
    BY <2>4, <2>5
<1>12. QED
  BY <1>8, <1>11 DEF CopiesCounted

LEMMA StepCopies ==
    ASSUME OutboxAssumption, OutboxInv, CopiesCounted, [Next]_vars
    PROVE  CopiesCounted'
<1> USE DEF rowVars, procVars
<1>1. ASSUME UNCHANGED <<copies, reply, token>>, NothingNewAhead PROVE CopiesCounted'
  BY <1>1, SameReply DEF OutboxInv
<1>2. ASSUME NEW p \in Publisher, NEW c \in work[p],
             TakeUnhooked(p, c) \/ TakeStored(p, c) \/ TakeNothing(p, c)
             \/ TakeDraft(p, c) \/ TakeRaises(p, c)
      PROVE  CopiesCounted'
  <2>1. PICK l, r : Take(p, c, l, r)
    BY <1>2 DEF TakeUnhooked, TakeStored, TakeNothing, TakeDraft, TakeRaises
  <2>2. UNCHANGED <<copies, reply, token, next>> /\ claim'[p] = c /\ work'[p] \subseteq work[p]
        /\ \A q \in Publisher \ {p} : /\ work'[q] = work[q] /\ pc'[q] = pc[q]
                                      /\ claim'[q] = claim[q]
    BY <2>1 DEF Take, OutboxInv, TypeInv, TypeOK
  <2>3. NothingNewAhead
    BY <2>2, NothingNew
  <2>4. QED
    BY <1>1, <2>2, <2>3
<1>3. ASSUME NEW p \in Publisher, Publish(p) PROVE CopiesCounted'
  <2>1. /\ pc[p] = "publish" /\ Receive(p) /\ UNCHANGED <<reply, token, work, claim>>
        /\ \A q \in Publisher \ {p} : pc'[q] = pc[q] /\ next'[q] = next[q]
        /\ pc'[p] = "sent" \/ (pc'[p] = "publish" /\ next'[p] = next[p] + 1)
    BY <1>3 DEF Publish, OutboxInv, TypeInv, TypeOK
  <2>2. QED
    BY <2>1, ReceiveCopies
<1>4. ASSUME NEW p \in Publisher, PublishFails(p) PROVE CopiesCounted'
  <2>1. /\ pc[p] = "publish" /\ UNCHANGED <<reply, token, work, claim, next>>
        /\ \A q \in Publisher \ {p} : pc'[q] = pc[q]
        /\ pc'[p] = "fail"
    BY <1>4 DEF PublishFails, Goto, OutboxInv, TypeInv, TypeOK
  <2>2. CASE Receive(p)
    BY <2>1, <2>2, ReceiveCopies
  <2>3. CASE UNCHANGED copies
    <3>1. NothingNewAhead
      BY <2>1, NothingNew
    <3>2. QED
      BY <1>1, <2>1, <2>3, <3>1
  <2>4. QED
    BY <1>4, <2>2, <2>3 DEF PublishFails
<1>5. ASSUME NEW p \in Publisher, UpdateFails(p) PROVE CopiesCounted'
  <2>1. NothingNewAhead
    BY <1>5, NothingNew DEF UpdateFails, Goto, OutboxInv, TypeInv, TypeOK
  <2>2. QED
    BY <1>1, <1>5, <2>1 DEF UpdateFails
<1>6. ASSUME NEW p \in Publisher, MarkSent(p) \/ MarkSkipped(p) \/ MarkFailure(p) \/ Crash(p)
      PROVE  CopiesCounted'
  <2>1. UNCHANGED <<copies, reply, token>> /\ Release(p)
    BY <1>6 DEF MarkSent, MarkSkipped, MarkFailure, Crash
  <2>2. \A q \in Publisher : work'[q] \subseteq work[q]
    BY <1>6 DEF MarkSent, MarkSkipped, MarkFailure, Crash, OutboxInv, TypeInv, TypeOK
  <2>3. NothingNewAhead
    BY <2>1, <2>2, NothingNew DEF Release, OutboxInv, TypeInv, TypeOK
  <2>4. QED
    BY <1>1, <2>1, <2>3
<1>7. CASE \/ \E p \in Publisher, S \in SUBSET Task : Reconcile(p, S)
           \/ \E t \in Task : Terminate(t) \/ Delete(t) \/ LeaseLate(t) \/ LeaseExpires(t)
           \/ UNCHANGED vars
  <2>1. UNCHANGED <<copies, reply, token, procVars>>
    BY <1>7 DEF Reconcile, Terminate, Delete, LeaseLate, LeaseExpires, Age, vars
  <2>2. NothingNewAhead
    BY <2>1, NothingNew
  <2>3. QED
    BY <1>1, <2>1, <2>2
<1>8. QED
  BY <1>2, <1>3, <1>4, <1>5, <1>6, <1>7, StoreCopies, ClaimCopies DEF Next, RowStep

LEMMA InitCopies == OutboxAssumption /\ Init => CopiesCounted
<1> SUFFICES ASSUME Init PROVE CopiesCounted
  OBVIOUS
<1>1. \A p \in Publisher : Held(p) = {}
  BY DEF Init, Held
<1>2. \A t \in Task, q \in Queue, b \in Body : copies[t][q][b] = 0
  BY DEF Init
<1>3. \A t \in Task, q \in Queue, b \in Body : Counted(t, q, b, {})
  BY <1>1, <1>2, FS_EmptySet DEF Counted
<1>4. QED
  BY <1>1, <1>3 DEF CopiesCounted

\* A queue that the reply names once receives at most one copy for each claim of
\* the row, although a publisher that lost its claim goes on publishing.
THEOREM DuplicatesAreClaims == Spec => []OneCopyPerClaim
<1>1. Init => CopiesCounted
  BY OutboxAssumption, InitCopies
<1>2. OutboxInv /\ CopiesCounted /\ [Next]_vars => CopiesCounted'
  BY OutboxAssumption, StepCopies
<1>3. OutboxInv /\ CopiesCounted => OneCopyPerClaim
  <2> SUFFICES ASSUME OutboxInv, CopiesCounted, NEW t \in Task, NEW q \in Queue, NEW b \in Body
               PROVE  copies[t][q][b] <= token[t] * Cardinality(Positions(t, q))
    BY DEF OneCopyPerClaim, Positions
  <2>1. PICK X : Counted(t, q, b, X)
    BY DEF CopiesCounted
  <2> DEFINE K == 1 .. token[t]
             P == Positions(t, q)
  <2>2. token[t] \in Nat /\ reply[t] \in Reply \cup {NoReply} /\ copies[t][q][b] \in Nat
    BY DEF OutboxInv, TypeInv, TypeOK
  <2>3. IsFiniteSet(K) /\ Cardinality(K) = token[t]
    <3>1. 1 \in Int /\ token[t] \in Int
      BY <2>2
    <3>2. IsFiniteSet(K) /\ Cardinality(K) = IF 1 > token[t] THEN 0 ELSE token[t] - 1 + 1
      BY <3>1, FS_Interval
    <3> HIDE DEF K
    <3>3. QED
      BY <2>2, <3>2
  <2>4. IsFiniteSet(P) /\ Cardinality(P) \in Nat
    <3>1. IsFiniteSet(DOMAIN reply[t].routes)
      <4>1. PICK n \in Nat : DOMAIN reply[t].routes = 1 .. n
        BY <2>2 DEF Reply, NoReply
      <4>2. 1 \in Int /\ n \in Int
        OBVIOUS
      <4>3. QED
        BY <4>1, <4>2, FS_Interval
    <3>2. P \in SUBSET DOMAIN reply[t].routes
      BY DEF Positions
    <3> HIDE DEF P
    <3>3. QED
      BY <3>1, <3>2, FS_Subset, FS_CardinalityType
  <2>5. X \in SUBSET (K \X P) /\ copies[t][q][b] <= Cardinality(X)
    BY <2>1 DEF Counted
  <2> HIDE DEF K, P
  <2>6. IsFiniteSet(K \X P) /\ Cardinality(K \X P) = Cardinality(K) * Cardinality(P)
    BY <2>3, <2>4, FS_Product
  <2>7. Cardinality(X) <= Cardinality(K \X P) /\ Cardinality(X) \in Nat
    BY <2>5, <2>6, FS_Subset, FS_CardinalityType
  <2>8. copies[t][q][b] <= token[t] * Cardinality(P)
    <3>1. token[t] * Cardinality(P) \in Nat
      BY <2>2, <2>4
    <3>2. Cardinality(X) <= token[t] * Cardinality(P)
      BY <2>3, <2>6, <2>7
    <3>3. QED
      BY <2>2, <2>5, <2>7, <3>1, <3>2
  <2>9. QED
    BY <2>8 DEF P
<1>4. QED
  BY <1>1, <1>2, <1>3, OutboxInvariant, PTL DEF Spec
=============================================================================
