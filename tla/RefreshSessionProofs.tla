------------------------ MODULE RefreshSessionProofs ------------------------
(***************************************************************************)
(* Proofs about RefreshSession, for any number of sessions, requests and   *)
(* instances: the lock is a lock, and, when one instance serves a session, *)
(* the service implements AtomicSessions.  Then about SigningKeys: the     *)
(* rotation of the keys of the access tokens signs nobody out.             *)
(***************************************************************************)
EXTENDS RefreshSession, SigningKeys, FiniteSetTheorems, TLAPS

\* The steps a handler takes, by name, so that a proof can list them.
HandlerStep(r) ==
    \/ BeginUnverified(r)
    \/ \E s \in Sessions, i \in Instances : Issue(r, i, s)
    \/ \E s \in Sessions, i \in Instances, op \in {"rotate", "revoke"} :
         \E t \in 1..signed[s] : Begin(r, i, op, s, t)
    \/ ReadDead(r) \/ ReadCurrent(r) \/ ReadStale(r) \/ ReadForRevoke(r)
    \/ Write(r) \/ WriteIssued(r)
    \/ ReadFails(r) \/ WriteFails(r) \/ IssueFails(r)
    \/ Deliver(r) \/ LoseAnswer(r)

LEMMA StepCases ==
    ASSUME [Next]_vars
    PROVE  \/ \E r \in Reqs : HandlerStep(r)
           \/ \E i \in Instances : Crash(i)
           \/ \E s \in Sessions : Expire(s)
           \/ UNCHANGED vars
  BY DEF Next, Arrive, Read, HandlerStep

-----------------------------------------------------------------------------
(* Types *)

LEMMA RecordTypes ==
    /\ Absent \in Record
    /\ \A t \in Nat : /\ Active(t) \in Record
                      /\ Revoked(t, "logout") \in Record
                      /\ Revoked(t, "refresh_token_reuse") \in Record
    /\ \A x \in Record : /\ x.token \in Nat
                         /\ x.status \in {"absent", "active", "revoked"}
                         /\ x.status = "absent" => x = Absent
                         /\ x.status = "active" => x = Active(x.token)
                         /\ x.status = "revoked" =>
                              x \in {Revoked(x.token, "logout"),
                                    Revoked(x.token, "refresh_token_reuse")}
  BY DEF Record, ActiveRecord, RevokedRecord, Absent, Active, Revoked,
         Atomic!Absent, Atomic!Active, Atomic!Revoked

LEMMA LeaveTypes ==
    ASSUME TypeOK, NEW i \in Instances, NEW s \in Sessions, Leave(i, s)
    PROVE  lock' \in [Instances -> [Sessions -> [tail : Nat, pending : Int]]]
  BY DEF TypeOK, Leave, FreeLock

\* The initial state and every step give each variable a value of its type.
THEOREM TypeCorrect == Spec => []TypeOK
<1>1. Init => TypeOK
  BY RecordTypes DEF Init, TypeOK, FreeLock, Answer
<1>2. ASSUME TypeOK, [Next]_vars PROVE TypeOK'
  <2> USE <1>2 DEF TypeOK
  <2>1. ASSUME NEW r \in Reqs, BeginUnverified(r) PROVE TypeOK'
    BY <2>1 DEF BeginUnverified, Answer
  <2>2. ASSUME NEW r \in Reqs, NEW s \in Sessions, NEW i \in Instances, Issue(r, i, s)
        PROVE  TypeOK'
    BY <2>2, RecordTypes DEF Issue, Call
  <2>3. ASSUME NEW r \in Reqs, NEW s \in Sessions, NEW i \in Instances,
               NEW op \in {"rotate", "revoke"}, NEW t \in 1..signed[s],
               Begin(r, i, op, s, t)
        PROVE  TypeOK'
    BY <2>3 DEF Begin, Enter, Call
  <2>4. ASSUME NEW r \in Reqs, ReadDead(r) PROVE TypeOK'
    BY <2>4, LeaveTypes DEF ReadDead, Finish, Answer, Call
  <2>5. ASSUME NEW r \in Reqs, ReadCurrent(r) PROVE TypeOK'
    BY <2>5, RecordTypes DEF ReadCurrent, Prepare, Call
  <2>6. ASSUME NEW r \in Reqs, ReadStale(r) PROVE TypeOK'
    BY <2>6, RecordTypes DEF ReadStale, Prepare, Call, Record
  <2>7. ASSUME NEW r \in Reqs, ReadForRevoke(r) PROVE TypeOK'
    BY <2>7, RecordTypes DEF ReadForRevoke, Prepare, Call, Record
  <2>8. ASSUME NEW r \in Reqs, Write(r) PROVE TypeOK'
    BY <2>8, LeaveTypes DEF Write, Apply, AnswerOf, Finish, Answer, Call
  <2>9. ASSUME NEW r \in Reqs, WriteIssued(r) PROVE TypeOK'
    BY <2>9 DEF WriteIssued, Apply, Answer, Call
  <2>10. ASSUME NEW r \in Reqs, ReadFails(r) PROVE TypeOK'
    BY <2>10, LeaveTypes DEF ReadFails, Finish, Answer, Call
  <2>11. ASSUME NEW r \in Reqs, WriteFails(r) PROVE TypeOK'
    BY <2>11, LeaveTypes DEF WriteFails, Apply, Finish, Answer, Call
  <2>12. ASSUME NEW r \in Reqs, IssueFails(r) PROVE TypeOK'
    BY <2>12 DEF IssueFails, Apply, Answer, Call
  <2>13. ASSUME NEW r \in Reqs, Deliver(r) PROVE TypeOK'
    BY <2>13, RecordTypes DEF Deliver, Call
  <2>14. ASSUME NEW r \in Reqs, LoseAnswer(r) PROVE TypeOK'
    BY <2>14 DEF LoseAnswer
  <2>15. ASSUME NEW i \in Instances, Crash(i) PROVE TypeOK'
    BY <2>15 DEF Crash, FreeLock, Answer
  <2>16. ASSUME NEW s \in Sessions, Expire(s) PROVE TypeOK'
    BY <2>16, RecordTypes DEF Expire
  <2>17. CASE UNCHANGED vars
    BY <2>17 DEF vars
  <2> QED
    BY StepCases, <2>1, <2>2, <2>3, <2>4, <2>5, <2>6, <2>7, <2>8, <2>9, <2>10,
       <2>11, <2>12, <2>13, <2>14, <2>15, <2>16, <2>17 DEF HandlerStep
<1>3. QED
  BY <1>1, <1>2, PTL DEF Spec

-----------------------------------------------------------------------------
(* The chain of promises *)

LEMMA LiveCall ==
    ASSUME TypeOK, NEW r \in Reqs, Live(r)
    PROVE  /\ call[r] \in Call
           /\ call[r].inst \in Instances /\ call[r].sess \in Sessions
           /\ call[r].ticket \in Nat /\ call[r].token \in Nat
           /\ r \in Claimants(call[r].inst, call[r].sess)
  BY DEF TypeOK, Live, Call, Claimants

\* The handler whose turn it is has the lowest place of its chain.
LEMMA TurnIsFirst ==
    ASSUME TypeOK, LockInv, NEW r \in Reqs, Live(r), HasTurn(r),
           NEW q \in Reqs, Live(q), SameLock(q, r)
    PROVE  call[r].ticket <= call[q].ticket
<1>1. /\ call[r].ticket \in Nat /\ call[q].ticket \in Nat
      /\ call[r].ticket \in 1..lock[call[r].inst][call[r].sess].tail
      /\ lock[call[r].inst][call[r].sess].tail \in Nat
  BY LiveCall DEF LockInv, TypeOK
<1>2. SUFFICES ASSUME call[q].ticket < call[r].ticket PROVE FALSE
  BY <1>1
<1>3. call[r].ticket - 1 \in call[q].ticket..lock[call[q].inst][call[q].sess].tail
  BY <1>1, <1>2 DEF SameLock
<1>4. PICK p \in Reqs : Live(p) /\ SameLock(p, q) /\ call[p].ticket = call[r].ticket - 1
  BY <1>3 DEF LockInv
<1>5. SameLock(p, r)
  BY <1>4 DEF SameLock
<1> QED
  BY <1>4, <1>5 DEF HasTurn

LEMMA ClaimantsFinite ==
    ASSUME NEW i, NEW s
    PROVE  /\ IsFiniteSet(Claimants(i, s))
           /\ Cardinality(Claimants(i, s)) \in Nat
           /\ Cardinality(Claimants(i, s)) = 0 <=> Claimants(i, s) = {}
<1>1. Claimants(i, s) \subseteq Reqs
  BY DEF Claimants
<1> QED
  BY <1>1, ReqsAssumption, FS_Subset, FS_CardinalityType, FS_EmptySet

\* A step that touches neither the locks nor the handlers in the chains.
LockIdle ==
    /\ lock' = lock
    /\ \A q \in Reqs : /\ Live(q)' <=> Live(q)
                       /\ Live(q) => call'[q] = call[q]
                       /\ pc'[q] = "writing" => pc[q] = "writing"

LEMMA LockIdlePreserves ==
    ASSUME LockInv, LockIdle PROVE LockInv'
<1>1. \A i, s : Claimants(i, s)' = Claimants(i, s)
  BY DEF LockIdle, Claimants
<1>2. LockTableExact'
  BY <1>1 DEF LockInv, LockTableExact, LockIdle
<1>3. \A q, r \in Reqs : Live(q) /\ Live(r) => (SameLock(q, r)' <=> SameLock(q, r))
  BY DEF LockIdle, SameLock
<1>4. \A r \in Reqs : Live(r) /\ HasTurn(r) => HasTurn(r)'
  BY <1>3 DEF LockIdle, HasTurn
<1> QED
  BY <1>2, <1>3, <1>4 DEF LockInv, LockIdle, Live

\* A step that starts the write of the handler whose turn it is.
LEMMA PreparePreserves ==
    ASSUME TypeOK, LockInv, NEW r \in Reqs, pc[r] = "queued", HasTurn(r),
           pc' = [pc EXCEPT ![r] = "writing"], lock' = lock, call' = call
    PROVE  LockInv'
<1>1. \A q \in Reqs : Live(q)' <=> Live(q)
  BY DEF TypeOK, Live
<1>2. \A i, s : Claimants(i, s)' = Claimants(i, s)
  BY <1>1 DEF Claimants
<1>3. LockTableExact'
  BY <1>2 DEF LockInv, LockTableExact
<1>4. \A q \in Reqs : HasTurn(q) => HasTurn(q)'
  BY <1>1 DEF HasTurn, SameLock
<1>5. \A q \in Reqs : pc'[q] = "writing" => q = r \/ pc[q] = "writing"
  BY DEF TypeOK
<1> QED
  BY <1>1, <1>3, <1>4, <1>5 DEF LockInv, SameLock

LEMMA EnterPreserves ==
    ASSUME TypeOK, LockInv, NEW r \in Reqs, NEW i \in Instances, NEW op,
           NEW s \in Sessions, NEW t, Begin(r, i, op, s, t)
    PROVE  LockInv'
<1> DEFINE n == lock[i][s].tail + 1
<1>1. /\ ~Live(r) /\ Live(r)' /\ pc'[r] # "writing"
      /\ call'[r].inst = i /\ call'[r].sess = s /\ call'[r].ticket = n
      /\ \A q \in Reqs : q # r => call'[q] = call[q] /\ pc'[q] = pc[q] /\ (Live(q)' <=> Live(q))
  BY DEF TypeOK, Begin, Live
<1>2. /\ lock'[i][s] = [tail |-> n, pending |-> lock[i][s].pending + 1]
      /\ \A j \in Instances, u \in Sessions : <<j, u>> # <<i, s>> => lock'[j][u] = lock[j][u]
  BY DEF TypeOK, Begin, Enter
<1>3. n \in Nat /\ n >= 1
  BY DEF TypeOK
<1>4. LockTableExact'
  <2>1. ASSUME NEW j \in Instances, NEW u \in Sessions
        PROVE  Claimants(j, u)' = IF j = i /\ u = s THEN Claimants(j, u) \cup {r} ELSE Claimants(j, u)
    BY <1>1 DEF Claimants
  <2>2. r \notin Claimants(i, s)
    BY <1>1 DEF Claimants
  <2>3. Cardinality(Claimants(i, s) \cup {r}) = Cardinality(Claimants(i, s)) + 1
    BY <2>2, ClaimantsFinite, FS_AddElement
  <2>4. ASSUME NEW j \in Instances, NEW u \in Sessions
        PROVE  /\ lock'[j][u].pending = Cardinality(Claimants(j, u)')
               /\ Claimants(j, u)' = {} => lock'[j][u] = FreeLock
    <3>1. CASE j = i /\ u = s
      <4>1. lock'[i][s].pending = lock[i][s].pending + 1
        BY <1>2
      <4>2. lock[i][s].pending = Cardinality(Claimants(i, s))
        BY DEF LockInv, LockTableExact
      <4>3. Claimants(j, u)' = Claimants(i, s) \cup {r} /\ Claimants(j, u)' # {}
        BY <3>1, <2>1
      <4> QED
        BY <3>1, <4>1, <4>2, <4>3, <2>3
    <3>2. CASE ~(j = i /\ u = s)
      BY <3>2, <1>2, <2>1 DEF LockInv, LockTableExact
    <3> QED
      BY <3>1, <3>2
  <2> QED
    BY <2>4 DEF LockTableExact
<1>5. \A q, p \in Reqs : q # r /\ p # r => (SameLock(q, p)' <=> SameLock(q, p))
  BY <1>1 DEF SameLock
<1>6. ASSUME NEW q \in Reqs, Live(q)', q # r,
             ~(call[q].inst = i /\ call[q].sess = s)
      PROVE  LET last == lock[call[q].inst][call[q].sess].tail IN
             /\ call'[q] = call[q] /\ Live(q)
             /\ lock'[call[q].inst][call[q].sess].tail = last
             /\ ~SameLock(r, q)'
  BY <1>1, <1>2, <1>6, LiveCall DEF SameLock
<1>7. ASSUME NEW q \in Reqs, Live(q)', q # r, call[q].inst = i, call[q].sess = s
      PROVE  /\ call'[q] = call[q] /\ Live(q)
             /\ call[q].ticket \in 1..(n - 1)
             /\ lock'[i][s].tail = n
             /\ lock[i][s].tail = n - 1
             /\ SameLock(r, q)'
  <2>1. lock[i][s].tail = n - 1 /\ lock'[i][s].tail = n
    BY <1>2 DEF TypeOK
  <2>2. call'[q] = call[q] /\ Live(q) /\ SameLock(r, q)'
    BY <1>1, <1>7 DEF SameLock
  <2>3. call[q].ticket \in 1..lock[i][s].tail
    BY <2>2, <1>7 DEF LockInv
  <2> QED
    BY <2>1, <2>2, <2>3
<1>8. \A q \in Reqs : q # r /\ Live(q)' /\ HasTurn(q) => HasTurn(q)'
  <2> SUFFICES ASSUME NEW q \in Reqs, q # r, Live(q)', HasTurn(q),
                      NEW p \in Reqs, Live(p)', SameLock(p, q)'
               PROVE  call'[p].ticket # call'[q].ticket - 1
    BY DEF HasTurn
  <2>1. CASE p = r
    <3>1. call[q].inst = i /\ call[q].sess = s
      BY <2>1, <1>1 DEF SameLock
    <3> QED
      BY <3>1, <1>7, <1>1, <1>3, <2>1
  <2>2. CASE p # r
    BY <2>2, <1>5, <1>1 DEF HasTurn
  <2> QED
    BY <2>1, <2>2
<1>9. ASSUME NEW q \in Reqs, Live(q)'
      PROVE  LET last == lock'[call'[q].inst][call'[q].sess].tail IN
             /\ call'[q].ticket \in 1..last
             /\ \A k \in call'[q].ticket..last :
                  \E p \in Reqs : Live(p)' /\ SameLock(p, q)' /\ call'[p].ticket = k
             /\ \A p \in Reqs : Live(p)' /\ SameLock(p, q)' /\ p # q
                                  => call'[p].ticket # call'[q].ticket
             /\ pc'[q] = "writing" => HasTurn(q)'
  <2>1. CASE q = r
    <3>1. \A p \in Reqs : Live(p)' /\ SameLock(p, r)' /\ p # r
                          => call[p].inst = i /\ call[p].sess = s
      BY <1>1 DEF SameLock
    <3>2. \A p \in Reqs : Live(p)' /\ SameLock(p, r)' /\ p # r => call'[p].ticket # n
      BY <3>1, <1>7, <1>3
    <3>3. SameLock(r, r)' /\ \A k \in n..n : k = n
      BY <1>3 DEF SameLock
    <3> QED
      BY <1>1, <1>2, <1>3, <2>1, <3>2, <3>3
  <2>2. CASE q # r /\ ~(call[q].inst = i /\ call[q].sess = s)
    <3>1. \A p \in Reqs : Live(p) /\ SameLock(p, q) => p # r /\ Live(p)' /\ SameLock(p, q)'
      BY <1>1, <1>5, <2>2
    <3>2. \A p \in Reqs : Live(p)' /\ SameLock(p, q)' => p # r /\ Live(p) /\ SameLock(p, q)
      BY <1>1, <1>5, <1>6, <1>9, <2>2
    <3> QED
      BY <1>1, <1>6, <1>8, <1>9, <2>2, <3>1, <3>2 DEF LockInv
  <2>3. CASE q # r /\ call[q].inst = i /\ call[q].sess = s
    <3>1. \A p \in Reqs : Live(p) /\ SameLock(p, q) => p # r /\ Live(p)' /\ SameLock(p, q)'
      BY <1>1, <1>5, <2>3
    <3>2. \A p \in Reqs : Live(p)' /\ SameLock(p, q)' /\ p # r => Live(p) /\ SameLock(p, q)
      BY <1>1, <1>5, <2>3
    <3>3. \A k \in call[q].ticket..n : k \in call[q].ticket..(n - 1) \/ k = n
      BY <1>3, <1>7, <1>9, <2>3
    <3>4. \A k \in call[q].ticket..(n - 1) :
            \E p \in Reqs : Live(p) /\ SameLock(p, q) /\ call[p].ticket = k /\ call'[p] = call[p]
      BY <1>1, <1>7, <1>9, <2>3, <3>1 DEF LockInv
    <3>5. pc'[q] = "writing" => HasTurn(q)'
      BY <1>1, <1>7, <1>8, <1>9, <2>3 DEF LockInv
    <3>6. call[q].ticket \in 1..n /\ call[q].ticket # n
      BY <1>3, <1>7, <1>9, <2>3
    <3>7. \A p \in Reqs : Live(p)' /\ SameLock(p, q)' /\ p # q => call'[p].ticket # call[q].ticket
      BY <1>1, <1>7, <1>9, <2>3, <3>2, <3>6 DEF LockInv
    <3>8. \A k \in call[q].ticket..n :
            \E p \in Reqs : Live(p)' /\ SameLock(p, q)' /\ call'[p].ticket = k
      BY <1>1, <1>7, <1>9, <2>3, <3>1, <3>3, <3>4
    <3> QED
      BY <1>7, <1>9, <2>3, <3>5, <3>6, <3>7, <3>8
  <2> QED
    BY <2>1, <2>2, <2>3
<1> QED
  BY <1>4, <1>9 DEF LockInv

LEMMA LeavePreserves ==
    ASSUME TypeOK, LockInv, NEW r \in Reqs, Live(r), HasTurn(r),
           pc' = [pc EXCEPT ![r] = "answered"], call' = call,
           Leave(call[r].inst, call[r].sess)
    PROVE  LockInv'
<1> DEFINE i == call[r].inst
           s == call[r].sess
<1>1. i \in Instances /\ s \in Sessions /\ call[r].ticket \in Nat /\ r \in Claimants(i, s)
  BY LiveCall
<1>2. /\ ~Live(r)'
      /\ \A q \in Reqs : q # r => pc'[q] = pc[q] /\ (Live(q)' <=> Live(q))
  BY DEF TypeOK, Live
<1>3. \A q, p : SameLock(q, p)' <=> SameLock(q, p)
  BY DEF SameLock
<1>4. /\ lock[i][s].pending = 1 => lock'[i][s] = FreeLock
      /\ lock[i][s].pending # 1 => /\ lock'[i][s].tail = lock[i][s].tail
                                   /\ lock'[i][s].pending = lock[i][s].pending - 1
      /\ \A j \in Instances, u \in Sessions : ~(j = i /\ u = s) => lock'[j][u] = lock[j][u]
  BY <1>1 DEF Leave, TypeOK
<1>5. ASSUME NEW j \in Instances, NEW u \in Sessions
      PROVE  Claimants(j, u)' = IF j = i /\ u = s THEN Claimants(j, u) \ {r} ELSE Claimants(j, u)
  BY <1>2 DEF Claimants
<1>6. /\ lock[i][s].pending = Cardinality(Claimants(i, s))
      /\ Cardinality(Claimants(i, s) \ {r}) = Cardinality(Claimants(i, s)) - 1
      /\ lock[i][s].pending \in Nat
  <2>1. lock[i][s].pending = Cardinality(Claimants(i, s))
    BY <1>1 DEF LockInv, LockTableExact
  <2>2. IsFiniteSet(Claimants(i, s)) /\ Cardinality(Claimants(i, s)) \in Nat
    BY ClaimantsFinite
  <2>3. Cardinality(Claimants(i, s) \ {r}) = Cardinality(Claimants(i, s)) - 1
    BY <1>1, <2>2, FS_RemoveElement
  <2> QED
    BY <2>1, <2>2, <2>3
<1>7. lock[i][s].pending = 1 <=> Claimants(i, s)' = {}
  <2>1. IsFiniteSet(Claimants(i, s)) /\ Claimants(i, s)' = Claimants(i, s) \ {r}
    BY <1>1, <1>5, ClaimantsFinite
  <2>2. IsFiniteSet(Claimants(i, s)')
    BY <2>1, FS_RemoveElement
  <2> QED
    BY <1>6, <2>1, <2>2, FS_EmptySet
<1>8. LockTableExact'
  <2>1. ASSUME NEW j \in Instances, NEW u \in Sessions
        PROVE  /\ lock'[j][u].pending = Cardinality(Claimants(j, u)')
               /\ Claimants(j, u)' = {} => lock'[j][u] = FreeLock
    <3>1. CASE j = i /\ u = s /\ lock[i][s].pending = 1
      <4>1. Claimants(j, u)' = {} /\ lock'[j][u] = FreeLock
        BY <3>1, <1>4, <1>7
      <4> QED
        BY <4>1, FS_EmptySet DEF FreeLock
    <3>2. CASE j = i /\ u = s /\ lock[i][s].pending # 1
      BY <3>2, <1>1, <1>4, <1>5, <1>6, <1>7
    <3>3. CASE ~(j = i /\ u = s)
      BY <3>3, <1>4, <1>5 DEF LockInv, LockTableExact
    <3> QED
      BY <3>1, <3>2, <3>3
  <2> QED
    BY <2>1 DEF LockTableExact
<1>9. \A q \in Reqs : HasTurn(q) => HasTurn(q)'
  BY <1>2, <1>3 DEF HasTurn
<1>10. ASSUME NEW q \in Reqs, Live(q)'
       PROVE  /\ q # r /\ Live(q) /\ pc'[q] = pc[q]
              /\ lock'[call[q].inst][call[q].sess].tail = lock[call[q].inst][call[q].sess].tail
  <2>1. q # r /\ Live(q) /\ pc'[q] = pc[q]
    BY <1>2, <1>10
  <2>2. CASE call[q].inst = i /\ call[q].sess = s
    <3>1. q \in Claimants(i, s)'
      BY <2>1, <2>2, <1>1, <1>5 DEF Claimants
    <3> QED
      BY <2>1, <2>2, <3>1, <1>4, <1>7
  <2>3. CASE ~(call[q].inst = i /\ call[q].sess = s)
    BY <2>1, <2>3, <1>4, LiveCall
  <2> QED
    BY <2>1, <2>2, <2>3
<1>11. ASSUME NEW q \in Reqs, Live(q)', NEW k \in call[q].ticket..lock[call[q].inst][call[q].sess].tail
       PROVE  \E p \in Reqs : Live(p)' /\ SameLock(p, q) /\ call[p].ticket = k
  <2>1. PICK p \in Reqs : Live(p) /\ SameLock(p, q) /\ call[p].ticket = k
    BY <1>10, <1>11 DEF LockInv
  <2>2. ASSUME p = r PROVE FALSE
    <3>1. SameLock(q, r) /\ call[r].ticket <= call[q].ticket
      BY <2>1, <2>2, <1>10, <1>11, TurnIsFirst DEF SameLock
    <3>2. call[q].ticket # call[r].ticket
      BY <3>1, <1>10, <1>11 DEF LockInv
    <3>3. call[q].ticket \in Nat /\ call[q].ticket <= k
      BY <1>10, <1>11, LiveCall
    <3> QED
      BY <1>1, <2>1, <2>2, <3>1, <3>2, <3>3
  <2> QED
    BY <2>1, <2>2, <1>2
<1>12. \A q \in Reqs : Live(q)' =>
         LET last == lock'[call'[q].inst][call'[q].sess].tail IN
         /\ call'[q].ticket \in 1..last
         /\ \A k \in call'[q].ticket..last :
              \E p \in Reqs : Live(p)' /\ SameLock(p, q)' /\ call'[p].ticket = k
         /\ \A p \in Reqs : Live(p)' /\ SameLock(p, q)' /\ p # q
                              => call'[p].ticket # call'[q].ticket
         /\ pc'[q] = "writing" => HasTurn(q)'
  BY <1>2, <1>3, <1>9, <1>10, <1>11 DEF LockInv
<1> QED
  BY <1>8, <1>12 DEF LockInv

LEMMA CrashPreserves ==
    ASSUME TypeOK, LockInv, NEW i \in Instances, Crash(i) PROVE LockInv'
<1>1. ASSUME NEW q \in Reqs
      PROVE  /\ Live(q)' <=> Live(q) /\ call[q].inst # i
             /\ pc'[q] = "writing" => pc[q] = "writing" /\ Live(q)'
             /\ call'[q] = call[q]
  BY DEF Crash, Live, TypeOK
<1>2. /\ \A s \in Sessions : lock'[i][s] = FreeLock
      /\ \A j \in Instances : j # i => lock'[j] = lock[j]
  BY DEF Crash, TypeOK
<1>3. ASSUME NEW j \in Instances, NEW s \in Sessions
      PROVE  Claimants(j, s)' = IF j = i THEN {} ELSE Claimants(j, s)
  BY <1>1 DEF Claimants
<1>4. LockTableExact'
  <2>1. ASSUME NEW j \in Instances, NEW s \in Sessions
        PROVE  /\ lock'[j][s].pending = Cardinality(Claimants(j, s)')
               /\ Claimants(j, s)' = {} => lock'[j][s] = FreeLock
    <3>1. CASE j = i
      BY <3>1, <1>2, <1>3, FS_EmptySet DEF FreeLock
    <3>2. CASE j # i
      BY <3>2, <1>2, <1>3 DEF LockInv, LockTableExact
    <3> QED
      BY <3>1, <3>2
  <2> QED
    BY <2>1 DEF LockTableExact
<1>5. \A q, p \in Reqs : SameLock(q, p)' <=> SameLock(q, p)
  BY <1>1 DEF SameLock
<1>6. \A q \in Reqs : HasTurn(q) => HasTurn(q)'
  BY <1>1, <1>5 DEF HasTurn
<1>7. \A q \in Reqs : Live(q)' => /\ Live(q) /\ call[q].inst # i /\ call[q].inst \in Instances
                                  /\ lock'[call[q].inst] = lock[call[q].inst]
  BY <1>1, <1>2, LiveCall
<1>8. \A q, p \in Reqs : Live(q)' /\ Live(p) /\ SameLock(p, q) => Live(p)'
  BY <1>1 DEF SameLock
<1>9. \A q \in Reqs : Live(q)' =>
        LET last == lock'[call'[q].inst][call'[q].sess].tail IN
        /\ call'[q].ticket \in 1..last
        /\ \A k \in call'[q].ticket..last :
             \E p \in Reqs : Live(p)' /\ SameLock(p, q)' /\ call'[p].ticket = k
        /\ \A p \in Reqs : Live(p)' /\ SameLock(p, q)' /\ p # q
                             => call'[p].ticket # call'[q].ticket
        /\ pc'[q] = "writing" => HasTurn(q)'
  BY <1>1, <1>5, <1>6, <1>7, <1>8 DEF LockInv
<1> QED
  BY <1>4, <1>9 DEF LockInv

(* Whatever the interleaving, errors and crashes, the chain of promises of *)
(* a session stays a queue whose head alone works on the record.           *)
THEOREM LockInvariant == Spec => []LockInv
<1>1. Init => LockInv
  <2> SUFFICES ASSUME Init PROVE LockInv
    OBVIOUS
  <2>1. \A r \in Reqs : ~Live(r)
    BY DEF Init, Live
  <2>2. \A i, s : Claimants(i, s) = {}
    BY <2>1 DEF Claimants
  <2> QED
    BY <2>1, <2>2, FS_EmptySet DEF Init, LockInv, LockTableExact, FreeLock
<1>2. ASSUME TypeOK, LockInv, [Next]_vars PROVE LockInv'
  <2> USE <1>2
  <2>1. ASSUME NEW r \in Reqs, NEW s \in Sessions, NEW i \in Instances,
               NEW op \in {"rotate", "revoke"}, NEW t \in 1..signed[s],
               Begin(r, i, op, s, t)
        PROVE  LockInv'
    BY <2>1, EnterPreserves
  <2>2. ASSUME NEW r \in Reqs, ReadCurrent(r) \/ ReadStale(r) \/ ReadForRevoke(r)
        PROVE  LockInv'
    BY <2>2, PreparePreserves DEF ReadCurrent, ReadStale, ReadForRevoke, Prepare
  <2>3. ASSUME NEW r \in Reqs, ReadDead(r) \/ ReadFails(r) \/ Write(r) \/ WriteFails(r)
        PROVE  LockInv'
    <3>1. Live(r)
      BY <2>3 DEF Live, ReadDead, ReadFails, Write, WriteFails
    <3>2. HasTurn(r)
      BY <2>3, <3>1 DEF ReadDead, ReadFails, Write, WriteFails, LockInv
    <3>3. /\ pc' = [pc EXCEPT ![r] = "answered"] /\ call' = call
          /\ Leave(call[r].inst, call[r].sess)
      BY <2>3 DEF ReadDead, ReadFails, Write, WriteFails, Finish
    <3> QED
      BY <3>1, <3>2, <3>3, LeavePreserves
  <2>4. ASSUME NEW r \in Reqs,
               \/ BeginUnverified(r)
               \/ \E s \in Sessions, i \in Instances : Issue(r, i, s)
               \/ WriteIssued(r) \/ IssueFails(r) \/ Deliver(r) \/ LoseAnswer(r)
        PROVE  LockInv'
    <3>1. LockIdle
      BY <2>4 DEF BeginUnverified, Issue, WriteIssued, IssueFails, Deliver, LoseAnswer,
                  LockIdle, Live, TypeOK
    <3> QED
      BY <3>1, LockIdlePreserves
  <2>5. ASSUME NEW i \in Instances, Crash(i) PROVE LockInv'
    BY <2>5, CrashPreserves
  <2>6. CASE (\E s \in Sessions : Expire(s)) \/ UNCHANGED vars
    <3>1. LockIdle
      BY <2>6 DEF Expire, vars, LockIdle, Live
    <3> QED
      BY <3>1, LockIdlePreserves
  <2> QED
    BY StepCases, <2>1, <2>2, <2>3, <2>4, <2>5, <2>6 DEF HandlerStep
<1>3. QED
  BY <1>1, <1>2, TypeCorrect, PTL DEF Spec

\* The lock excludes, for any number of handlers and instances.
THEOREM LockExcludes == Spec => []LockExclusive
<1>1. ASSUME TypeOK, LockInv PROVE LockExclusive
  <2> SUFFICES ASSUME NEW r \in Reqs, NEW q \in Reqs, r # q, Live(q),
                      pc[r] = "writing", SameLock(q, r), HasTurn(q)
               PROVE  FALSE
    BY DEF LockExclusive
  <2>1. Live(r) /\ HasTurn(r) /\ SameLock(r, q)
    BY <1>1 DEF Live, LockInv, SameLock
  <2>2. call[r].ticket <= call[q].ticket /\ call[q].ticket <= call[r].ticket
    BY <1>1, <2>1, TurnIsFirst
  <2>3. call[r].ticket # call[q].ticket
    BY <1>1, <2>1 DEF LockInv
  <2> QED
    BY <1>1, <2>1, <2>2, <2>3, LiveCall
<1>2. QED
  BY <1>1, TypeCorrect, LockInvariant, PTL

\* The Map of locks has an entry exactly while some handler needs it.
THEOREM LockTableIsExact == Spec => []LockTableExact
<1>1. LockInv => LockTableExact
  BY DEF LockInv
<1>2. QED
  BY <1>1, LockInvariant, PTL

-----------------------------------------------------------------------------
(* What a handler decided on is still true when it writes.                 *)

LEMMA TurnMeansNoWriter ==
    ASSUME Sticky, TypeOK, LockInv, SessionInv,
           NEW r \in Reqs, Live(r), HasTurn(r),
           NEW q \in Reqs, q # r, call[q].sess = call[r].sess
    PROVE  pc[q] # "writing"
<1> SUFFICES ASSUME pc[q] = "writing" PROVE FALSE
  OBVIOUS
<1>1. Live(q) /\ HasTurn(q)
  BY DEF Live, LockInv
<1>2. call[q].inst = call[r].inst
  BY <1>1, LiveCall, RouteAssumption DEF Sticky, SessionInv, HandlerInv, Live
<1>3. SameLock(q, r) /\ SameLock(r, q)
  BY <1>2 DEF SameLock
<1>4. call[r].ticket <= call[q].ticket /\ call[q].ticket <= call[r].ticket
  BY <1>1, <1>3, TurnIsFirst
<1>5. call[r].ticket # call[q].ticket
  BY <1>1, <1>3 DEF LockInv
<1> QED
  BY <1>1, <1>4, <1>5, LiveCall

LEMMA SessionInvInit == Init => SessionInv
  BY RecordTypes DEF Init, SessionInv, StoreInv, HandlerInv, WriterInv, RotatedInv, Unused,
                     Absent, Atomic!Absent

LEMMA BeginUnverifiedKeepsSessions ==
    ASSUME TypeOK, SessionInv, NEW r \in Reqs, BeginUnverified(r) PROVE SessionInv'
  BY DEF TypeOK, BeginUnverified, SessionInv, StoreInv, HandlerInv, WriterInv, RotatedInv, Unused

LEMMA IssueKeepsSessions ==
    ASSUME TypeOK, SessionInv, NEW r \in Reqs, NEW i \in Instances, NEW s \in Sessions,
           Issue(r, i, s)
    PROVE  SessionInv'
<1>1. StoreInv'
  BY RecordTypes DEF TypeOK, Issue, SessionInv, StoreInv, Unused
<1>2. ASSUME NEW q \in Reqs PROVE HandlerInv(q)'
  BY DEF TypeOK, Issue, SessionInv, StoreInv, HandlerInv, Unused
<1>3. ASSUME NEW q \in Reqs PROVE WriterInv(q)'
  BY DEF TypeOK, Issue, SessionInv, StoreInv, WriterInv, Unused
<1>4. ASSUME NEW q \in Reqs PROVE RotatedInv(q)'
  BY DEF TypeOK, Issue, SessionInv, StoreInv, HandlerInv, RotatedInv, Unused
<1> QED
  BY <1>1, <1>2, <1>3, <1>4 DEF SessionInv

LEMMA BeginKeepsSessions ==
    ASSUME TypeOK, SessionInv, NEW r \in Reqs, NEW i \in Instances,
           NEW op \in {"rotate", "revoke"}, NEW s \in Sessions, NEW t \in 1..signed[s],
           Begin(r, i, op, s, t)
    PROVE  SessionInv'
<1>1. StoreInv'
  BY DEF TypeOK, Begin, SessionInv, StoreInv, Unused
<1>2. ASSUME NEW q \in Reqs PROVE HandlerInv(q)'
  BY DEF TypeOK, Begin, SessionInv, StoreInv, HandlerInv, Unused
<1>3. ASSUME NEW q \in Reqs PROVE WriterInv(q)'
  BY DEF TypeOK, Begin, SessionInv, WriterInv
<1>4. ASSUME NEW q \in Reqs PROVE RotatedInv(q)'
  BY DEF TypeOK, Begin, SessionInv, HandlerInv, RotatedInv
<1> QED
  BY <1>1, <1>2, <1>3, <1>4 DEF SessionInv

LEMMA AnswerKeepsSessions ==
    ASSUME TypeOK, SessionInv, NEW r \in Reqs, ReadDead(r) \/ ReadFails(r)
    PROVE  SessionInv'
<1>1. /\ pc' = [pc EXCEPT ![r] = "answered"]
      /\ \E a \in {"noop", "invalid", "revoked", "error"} : result' = [result EXCEPT ![r] = a]
      /\ UNCHANGED <<store, call, plan, signed, known, closed>>
  BY DEF ReadDead, ReadFails, Finish
<1> QED
  BY <1>1 DEF TypeOK, SessionInv, StoreInv, HandlerInv, WriterInv, RotatedInv, Unused

LEMMA PrepareKeepsSessions ==
    ASSUME Sticky, TypeOK, LockInv, SessionInv, NEW r \in Reqs,
           ReadCurrent(r) \/ ReadStale(r) \/ ReadForRevoke(r)
    PROVE  SessionInv'
<1> DEFINE s == call[r].sess
<1>1. /\ pc[r] = "queued" /\ s \in Sessions /\ store[s].status = "active"
      /\ pc' = [pc EXCEPT ![r] = "writing"]
      /\ store' = store /\ call' = call /\ result' = result /\ known' = known /\ closed' = closed
      /\ result[r] = "none" /\ s \notin closed /\ store[s].token \in 1..signed[s]
      /\ call[r].token \in Nat /\ call[r].op \in {"rotate", "revoke"}
  BY DEF TypeOK, Call, ReadCurrent, ReadStale, ReadForRevoke, Prepare, SessionInv, StoreInv, HandlerInv
<1>2. \/ /\ signed' = [signed EXCEPT ![s] = @ + 1]
         /\ plan' = [plan EXCEPT ![r] = Active(signed[s] + 1)]
         /\ call[r].op = "rotate" /\ store[s].token = call[r].token
      \/ /\ signed' = signed
         /\ \E why \in {"logout", "refresh_token_reuse"} :
              plan' = [plan EXCEPT ![r] = Revoked(store[s].token, why)]
  BY DEF ReadCurrent, ReadStale, ReadForRevoke, Prepare
<1>3. signed[s] \in Nat /\ \A u \in Sessions : signed[u] \in Nat /\ signed'[u] \in Nat /\ signed'[u] >= signed[u]
  BY <1>1, <1>2 DEF TypeOK
<1>4. \/ /\ plan'[r].status = "active" /\ plan'[r].token = signed[s] + 1
         /\ signed'[s] = signed[s] + 1
         /\ call[r].op = "rotate" /\ store[s].token = call[r].token
      \/ plan'[r].status = "revoked" /\ plan'[r].token = store[s].token
  BY <1>1, <1>2 DEF TypeOK, Active, Revoked, Atomic!Active, Atomic!Revoked
<1>5. \A q \in Reqs : q # r => plan'[q] = plan[q] /\ pc'[q] = pc[q]
  BY <1>1, <1>2 DEF TypeOK
<1>6. \A u \in Sessions : \A R : Unused(u, R) => Unused(u, R)'
  BY <1>1 DEF Unused
<1>7. StoreInv'
  BY <1>1, <1>2, <1>3, <1>6 DEF TypeOK, SessionInv, StoreInv
<1>8. ASSUME NEW q \in Reqs PROVE HandlerInv(q)'
  <2>1. CASE q = r
    BY <1>1, <2>1 DEF TypeOK, SessionInv, HandlerInv
  <2>2. CASE q # r
    <3>1. pc[q] = "issuing" => call[q].sess # s
      BY <1>1, <2>2 DEF TypeOK, SessionInv, HandlerInv, Unused, Call, NoCall
    <3>2. pc[q] = "issuing" => signed'[call[q].sess] = signed[call[q].sess]
      BY <3>1, <1>2 DEF TypeOK, Call
    <3> QED
      BY <1>1, <1>5, <1>6, <2>2, <3>2 DEF TypeOK, SessionInv, HandlerInv, Unused
  <2> QED
    BY <2>1, <2>2
<1>9. ASSUME NEW q \in Reqs PROVE WriterInv(q)'
  <2>1. CASE q = r
    BY <1>1, <1>3, <1>4, <2>1 DEF WriterInv
  <2>2. CASE q # r
    BY <1>1, <1>3, <1>5, <2>2 DEF TypeOK, Call, SessionInv, WriterInv
  <2> QED
    BY <2>1, <2>2
<1>10. ASSUME NEW q \in Reqs PROVE RotatedInv(q)'
  BY <1>1, <1>4, <1>5 DEF SessionInv, RotatedInv
<1> QED
  BY <1>7, <1>8, <1>9, <1>10 DEF SessionInv

\* A handler's record replaces the one it was decided on.
LEMMA ApplyKeepsSessions ==
    ASSUME Sticky, TypeOK, LockInv, SessionInv, NEW r \in Reqs, pc[r] = "writing", Apply(r),
           pc' = [pc EXCEPT ![r] = "answered"],
           \/ result' = [result EXCEPT ![r] = "error"]
           \/ plan[r].status = "active" /\ result' = [result EXCEPT ![r] = "rotated"]
           \/ plan[r].status = "revoked" /\ \E a \in {"loggedOut", "reuse"} :
                                               result' = [result EXCEPT ![r] = a],
           UNCHANGED <<call, plan, signed, known>>
    PROVE  SessionInv'
<1> DEFINE s == call[r].sess
<1>1. /\ call[r] \in Call /\ call[r] # NoCall /\ s \in Sessions /\ s \notin closed
      /\ call[r].token \in Nat
      /\ store' = [store EXCEPT ![s] = plan[r]]
      /\ closed' = IF plan[r].status = "revoked" THEN closed \cup {s} ELSE closed
      /\ signed[s] \in Nat
  BY DEF TypeOK, Call, NoCall, Apply, SessionInv, WriterInv
<1>2. /\ plan[r] \in Record
      /\ \/ /\ plan[r].status = "active" /\ plan[r].token \in 1..signed[s]
            /\ plan[r].token > call[r].token
         \/ plan[r].status = "revoked"
  BY DEF TypeOK, SessionInv, WriterInv
<1>3. \A q \in Reqs : q # r /\ pc[q] = "writing" => call[q].sess # s
  BY TurnMeansNoWriter DEF Live, LockInv
<1>4. \A q \in Reqs : pc[q] = "issuing" => q # r /\ call[q].sess # s
  BY <1>1 DEF SessionInv, HandlerInv, Unused
<1>5. signed[s] # 0
  BY <1>1 DEF SessionInv, StoreInv, Unused
<1>6. \A u \in Sessions : \A R : u # s /\ Unused(u, R) => Unused(u, R)'
  BY <1>1 DEF TypeOK, Unused
<1>7. StoreInv'
  BY <1>1, <1>2, <1>5, <1>6 DEF TypeOK, SessionInv, StoreInv
<1>8. ASSUME NEW q \in Reqs PROVE HandlerInv(q)'
  <2>1. CASE q = r
    BY <1>1, <2>1 DEF TypeOK, SessionInv, HandlerInv
  <2>2. CASE q # r
    BY <1>1, <1>4, <1>6, <2>2 DEF TypeOK, Call, SessionInv, HandlerInv
  <2> QED
    BY <2>1, <2>2
<1>9. ASSUME NEW q \in Reqs PROVE WriterInv(q)'
  <2>1. CASE q = r
    BY <2>1 DEF TypeOK, WriterInv
  <2>2. CASE q # r
    BY <1>1, <1>3, <2>2 DEF TypeOK, Call, SessionInv, WriterInv
  <2> QED
    BY <2>1, <2>2
<1>10. ASSUME NEW q \in Reqs PROVE RotatedInv(q)'
  <2> SUFFICES ASSUME result'[q] = "rotated" PROVE RotatedInv(q)'
    BY DEF RotatedInv
  <2>0. call[q] \in Call /\ call[q].sess \in Sessions /\ call[q].token \in Nat
    BY <1>1 DEF TypeOK, Call
  <2>1. CASE q = r
    <3>1. plan[r].status = "active"
      BY <2>1 DEF TypeOK
    <3>2. \A p \in Reqs : pc'[p] = "writing" => call[p].sess # s
      BY <1>3 DEF TypeOK
    <3> QED
      BY <1>1, <1>2, <2>1, <3>1, <3>2 DEF TypeOK, RotatedInv
  <2>2. CASE q # r
    <3>1. result[q] = "rotated"
      BY <2>2 DEF TypeOK
    <3>2. \A p \in Reqs : pc'[p] = "writing" => pc[p] = "writing"
      BY DEF TypeOK
    <3>3. \A p \in Reqs : /\ pc'[p] = "writing" /\ plan'[p].status = "active" /\ call'[p].sess = call[q].sess
                         => call[p].token > call[q].token
      BY <3>1, <3>2 DEF SessionInv, RotatedInv
    <3>4. call[q].sess = s /\ plan[r].status = "active" => call[r].token > call[q].token
      BY <3>1 DEF SessionInv, RotatedInv
    <3>5. store'[call[q].sess].status = "active" => store'[call[q].sess].token > call[q].token
      <4>1. CASE call[q].sess = s
        BY <4>1, <1>1, <1>2, <2>0, <3>4 DEF TypeOK
      <4>2. CASE call[q].sess # s
        BY <4>2, <1>1, <2>0, <3>1 DEF TypeOK, SessionInv, RotatedInv
      <4> QED
        BY <4>1, <4>2
    <3> QED
      BY <3>3, <3>5 DEF RotatedInv
  <2> QED
    BY <2>1, <2>2
<1> QED
  BY <1>7, <1>8, <1>9, <1>10 DEF SessionInv

LEMMA WriteKeepsSessions ==
    ASSUME Sticky, TypeOK, LockInv, SessionInv, NEW r \in Reqs, Write(r) \/ WriteFails(r)
    PROVE  SessionInv'
<1>1. pc[r] = "writing" /\ pc' = [pc EXCEPT ![r] = "answered"] /\ UNCHANGED <<call, plan, signed, known>>
  BY DEF Write, WriteFails, Finish
<1>2. CASE Write(r)
  <2>1. Apply(r) /\ result' = [result EXCEPT ![r] = AnswerOf(r)]
    BY <1>2 DEF Write, Finish
  <2>2. /\ plan[r].status \in {"active", "revoked"} /\ call[r].op \in {"rotate", "revoke"}
        /\ plan[r].status = "active" => call[r].op = "rotate"
    BY <1>1 DEF SessionInv, WriterInv, HandlerInv
  <2>3. CASE plan[r].status = "active"
    <3>1. AnswerOf(r) = "rotated"
      BY <2>2, <2>3 DEF AnswerOf
    <3> QED
      BY <1>1, <2>1, <2>3, <3>1, ApplyKeepsSessions
  <2>4. CASE plan[r].status = "revoked"
    <3>1. AnswerOf(r) \in {"loggedOut", "reuse"}
      BY <2>2, <2>4 DEF AnswerOf
    <3> QED
      BY <1>1, <2>1, <2>4, <3>1, ApplyKeepsSessions
  <2> QED
    BY <2>2, <2>3, <2>4
<1>3. CASE WriteFails(r) /\ Apply(r)
  <2>1. result' = [result EXCEPT ![r] = "error"]
    BY <1>3 DEF WriteFails, Finish
  <2> QED
    BY <1>1, <1>3, <2>1, ApplyKeepsSessions
<1>4. CASE WriteFails(r) /\ UNCHANGED <<store, closed>>
  <2>1. result' = [result EXCEPT ![r] = "error"]
    BY <1>4 DEF WriteFails, Finish
  <2> QED
    BY <1>1, <1>4, <2>1 DEF TypeOK, SessionInv, StoreInv, HandlerInv, WriterInv, RotatedInv, Unused
<1> QED
  BY <1>2, <1>3, <1>4 DEF WriteFails

LEMMA IssueEndKeepsSessions ==
    ASSUME TypeOK, SessionInv, NEW r \in Reqs, WriteIssued(r) \/ IssueFails(r)
    PROVE  SessionInv'
<1> DEFINE s == call[r].sess
<1>1. /\ pc[r] = "issuing" /\ pc' = [pc EXCEPT ![r] = "answered"]
      /\ \E a \in {"issued", "error"} : result' = [result EXCEPT ![r] = a]
      /\ UNCHANGED <<call, plan, signed, known>>
      /\ Apply(r) \/ UNCHANGED <<store, closed>>
  BY DEF WriteIssued, IssueFails
<1>2. /\ call[r] \in Call /\ call[r] # NoCall /\ s \in Sessions
      /\ Unused(s, {r}) /\ signed[s] = 1 /\ plan[r] = Active(1)
  <2>1. call[r] \in Call
    BY <1>1 DEF TypeOK
  <2>2. call[r] # NoCall /\ s \in Sessions
    BY <2>1 DEF Call, NoCall
  <2>3. Unused(s, {r}) /\ signed[s] = 1 /\ plan[r] = Active(1)
    BY <1>1 DEF SessionInv, HandlerInv
  <2> QED
    BY <2>1, <2>2, <2>3
<1>3. /\ closed' = closed
      /\ store' = store \/ store' = [store EXCEPT ![s] = Active(1)]
      /\ Active(1).status = "active" /\ Active(1).token = 1
  BY <1>1, <1>2 DEF Apply, Active, Atomic!Active
<1>4. \A q \in Reqs : q # r /\ call[q] # NoCall => call[q].sess # s
  BY <1>2 DEF Unused
<1>5. \A u \in Sessions : \A R : u # s /\ Unused(u, R) => Unused(u, R)'
  BY <1>1, <1>3 DEF TypeOK, Unused
<1>6. StoreInv'
  BY <1>1, <1>2, <1>3, <1>5 DEF TypeOK, SessionInv, StoreInv, Unused
<1>7. ASSUME NEW q \in Reqs, q # r, call[q] # NoCall
      PROVE  call[q].sess # s /\ store'[call[q].sess] = store[call[q].sess]
  BY <1>3, <1>4, <1>7 DEF TypeOK, Call
<1>8. ASSUME NEW q \in Reqs PROVE HandlerInv(q)'
  <2>1. CASE q = r
    BY <1>1, <2>1 DEF TypeOK, HandlerInv
  <2>2. CASE q # r
    <3>1. pc[q] = "issuing" => call[q].sess # s /\ call[q].sess \in Sessions
      BY <1>7, <2>2 DEF TypeOK, Call, NoCall
    <3> QED
      BY <1>1, <1>3, <1>5, <2>2, <3>1 DEF TypeOK, SessionInv, HandlerInv
  <2> QED
    BY <2>1, <2>2
<1>9. ASSUME NEW q \in Reqs PROVE WriterInv(q)'
  BY <1>1, <1>3, <1>7 DEF TypeOK, Call, NoCall, SessionInv, WriterInv
<1>10. ASSUME NEW q \in Reqs PROVE RotatedInv(q)'
  BY <1>1, <1>3, <1>7 DEF TypeOK, Call, NoCall, SessionInv, RotatedInv
<1> QED
  BY <1>6, <1>8, <1>9, <1>10 DEF SessionInv

LEMMA DeliverKeepsSessions ==
    ASSUME TypeOK, SessionInv, NEW r \in Reqs, Deliver(r) \/ LoseAnswer(r)
    PROVE  SessionInv'
<1>1. /\ pc[r] = "answered" /\ pc' = [pc EXCEPT ![r] = "done"]
      /\ UNCHANGED <<store, call, plan, result, signed, closed>>
  BY DEF Deliver, LoseAnswer
<1>2. \/ known' = known
      \/ /\ call[r] # NoCall
         /\ known' = known \cup {<<call[r].sess, plan[r].token>>}
  BY DEF TypeOK, Call, NoCall, Deliver, LoseAnswer
<1>3. \A u \in Sessions : \A R : r \notin R /\ Unused(u, R) => Unused(u, R)'
  BY <1>1, <1>2 DEF Unused
<1>4. StoreInv'
  BY <1>1, <1>3 DEF SessionInv, StoreInv
<1>5. ASSUME NEW q \in Reqs PROVE HandlerInv(q)'
  BY <1>1, <1>3 DEF TypeOK, Call, SessionInv, HandlerInv
<1> QED
  BY <1>1, <1>4, <1>5 DEF TypeOK, SessionInv, WriterInv, RotatedInv

LEMMA CrashKeepsSessions ==
    ASSUME TypeOK, SessionInv, NEW i \in Instances, Crash(i) PROVE SessionInv'
<1>1. UNCHANGED <<store, call, plan, signed, known, closed>>
  BY DEF Crash
<1>2. \A r \in Reqs : \/ pc'[r] = pc[r] /\ result'[r] = result[r]
                      \/ pc'[r] = "done" /\ result'[r] = "lost"
  BY DEF TypeOK, Crash
<1> QED
  BY <1>1, <1>2 DEF TypeOK, SessionInv, StoreInv, HandlerInv, WriterInv, RotatedInv, Unused

LEMMA ExpireKeepsSessions ==
    ASSUME TypeOK, SessionInv, NEW s \in Sessions, Expire(s) PROVE SessionInv'
<1>1. /\ store' = [store EXCEPT ![s] = Absent] /\ Absent.status = "absent"
      /\ UNCHANGED <<pc, call, plan, result, signed, known, closed>>
  BY DEF Expire, Absent, Atomic!Absent
<1>2. \A u \in Sessions : store'[u] = store[u] \/ store'[u] = Absent
  BY <1>1 DEF TypeOK
<1>3. \A u \in Sessions : \A R : Unused(u, R) => Unused(u, R)'
  BY <1>1, <1>2 DEF Unused
<1>4. StoreInv'
  BY <1>1, <1>2, <1>3 DEF SessionInv, StoreInv
<1>5. ASSUME NEW q \in Reqs PROVE HandlerInv(q)' /\ WriterInv(q)' /\ RotatedInv(q)'
  <2>1. HandlerInv(q)'
    BY <1>1, <1>3 DEF TypeOK, Call, SessionInv, HandlerInv
  <2>2. WriterInv(q)'
    BY <1>1, <1>2 DEF TypeOK, Call, SessionInv, WriterInv
  <2>3. RotatedInv(q)'
    BY <1>1, <1>2 DEF TypeOK, Call, SessionInv, RotatedInv
  <2> QED
    BY <2>1, <2>2, <2>3
<1> QED
  BY <1>4, <1>5 DEF SessionInv

\* The invariant that ties the decisions of the handlers to the store.
THEOREM SessionInvariant == ASSUME Sticky PROVE Spec => []SessionInv
<1>1. ASSUME TypeOK, LockInv, SessionInv, [Next]_vars PROVE SessionInv'
  <2> USE <1>1
  <2>1. ASSUME NEW r \in Reqs, HandlerStep(r) PROVE SessionInv'
    BY <2>1, BeginUnverifiedKeepsSessions, IssueKeepsSessions, BeginKeepsSessions,
       AnswerKeepsSessions, PrepareKeepsSessions, WriteKeepsSessions, IssueEndKeepsSessions,
       DeliverKeepsSessions DEF HandlerStep
  <2>2. CASE UNCHANGED vars
    BY <2>2 DEF vars, SessionInv, StoreInv, HandlerInv, WriterInv, RotatedInv, Unused
  <2> QED
    BY <2>1, <2>2, StepCases, CrashKeepsSessions, ExpireKeepsSessions
<1>2. QED
  BY <1>1, SessionInvInit, TypeCorrect, LockInvariant, PTL DEF Spec

(* After a logout, or after a stale token closed the session, no handler   *)
(* makes it active again.                                                  *)
THEOREM SignOutHolds == ASSUME Sticky PROVE Spec => []SignOutIsFinal
<1>1. ASSUME TypeOK, SessionInv PROVE SignOutIsFinal
  BY <1>1 DEF TypeOK, SessionInv, StoreInv, HandlerInv, SignOutIsFinal
<1>2. QED
  BY <1>1, SessionInvariant, TypeCorrect, PTL

-----------------------------------------------------------------------------
(* Two rotations and the abstract specification *)

\* Only a write makes a rotation; answers and what they answer to stay.
LEMMA OnlyWriteRotates ==
    ASSUME TypeOK, SessionInv, [Next]_vars, NEW r \in Reqs, result'[r] = "rotated"
    PROVE  \/ result[r] = "rotated" /\ call'[r] = call[r]
           \/ Write(r) /\ AnswerOf(r) = "rotated"
<1>1. ASSUME NEW q \in Reqs, NEW a \in Answer \ {"rotated"}, UNCHANGED call,
             result' = [result EXCEPT ![q] = a]
      PROVE  result[r] = "rotated" /\ call'[r] = call[r]
  BY <1>1 DEF TypeOK
<1>2. ASSUME NEW q \in Reqs, NEW s \in Sessions, NEW i \in Instances,
             NEW op, NEW t, Issue(q, i, s) \/ Begin(q, i, op, s, t)
      PROVE  result[r] = "rotated" /\ call'[r] = call[r]
  BY <1>2 DEF TypeOK, Issue, Begin, SessionInv, HandlerInv
<1>3. ASSUME NEW q \in Reqs,
             ReadDead(q) \/ ReadFails(q) \/ WriteFails(q) \/ WriteIssued(q) \/ IssueFails(q)
               \/ BeginUnverified(q)
      PROVE  result[r] = "rotated" /\ call'[r] = call[r]
  <2>1. \E a \in Answer \ {"rotated"} : result' = [result EXCEPT ![q] = a]
    BY <1>3 DEF ReadDead, ReadFails, WriteFails, WriteIssued, IssueFails, BeginUnverified, Finish, Answer
  <2>2. UNCHANGED call
    BY <1>3 DEF ReadDead, ReadFails, WriteFails, WriteIssued, IssueFails, BeginUnverified
  <2> QED
    BY <2>1, <2>2, <1>1
<1>4. ASSUME NEW q \in Reqs,
             ReadCurrent(q) \/ ReadStale(q) \/ ReadForRevoke(q) \/ Deliver(q) \/ LoseAnswer(q)
      PROVE  result[r] = "rotated" /\ call'[r] = call[r]
  BY <1>4 DEF ReadCurrent, ReadStale, ReadForRevoke, Deliver, LoseAnswer
<1>5. ASSUME NEW q \in Reqs, Write(q)
      PROVE  \/ result[r] = "rotated" /\ call'[r] = call[r]
             \/ Write(r) /\ AnswerOf(r) = "rotated"
  BY <1>5 DEF TypeOK, Write, Finish
<1>6. ASSUME NEW i \in Instances, Crash(i)
      PROVE  result[r] = "rotated" /\ call'[r] = call[r]
  BY <1>6 DEF TypeOK, Crash
<1>7. CASE (\E s \in Sessions : Expire(s)) \/ UNCHANGED vars
  BY <1>7 DEF Expire, vars
<1> QED
  BY StepCases, <1>2, <1>3, <1>4, <1>5, <1>6, <1>7 DEF HandlerStep

\* One token buys one successor, however many handlers present it.
THEOREM OneRotationPerToken == ASSUME Sticky PROVE Spec => []RotatedAtMostOnce
<1>1. Init => RotatedAtMostOnce
  BY DEF Init, RotatedAtMostOnce
<1>2. ASSUME TypeOK, SessionInv, RotatedAtMostOnce, [Next]_vars PROVE RotatedAtMostOnce'
  <2> SUFFICES ASSUME NEW r \in Reqs, NEW q \in Reqs, r # q,
                      result'[r] = "rotated", result'[q] = "rotated",
                      call'[r].sess = call'[q].sess
               PROVE  call'[r].token # call'[q].token
    BY DEF RotatedAtMostOnce
  <2> USE <1>2
  <2>1. ASSUME NEW x \in Reqs, NEW y \in Reqs, result[x] = "rotated", call[y].sess = call[x].sess,
               Write(y), AnswerOf(y) = "rotated"
        PROVE  call[y].token # call[x].token /\ call' = call
    <3>1. pc[y] = "writing" /\ call' = call /\ call[y] \in Call /\ call[x] \in Call
      BY <2>1 DEF Write, TypeOK
    <3>2. plan[y].status = "active"
      BY <2>1 DEF AnswerOf
    <3>3. call[y].token > call[x].token
      BY <2>1, <3>1, <3>2 DEF SessionInv, RotatedInv
    <3> QED
      BY <3>1, <3>3 DEF Call
  <2>2. CASE result[r] = "rotated" /\ result[q] = "rotated"
    <3>1. call'[r] = call[r] \/ call' = call
      BY OnlyWriteRotates DEF Write
    <3>2. call'[q] = call[q] \/ call' = call
      BY OnlyWriteRotates DEF Write
    <3> QED
      BY <2>2, <3>1, <3>2 DEF RotatedAtMostOnce
  <2>3. CASE result[r] = "rotated" /\ result[q] # "rotated"
    <3>1. Write(q) /\ AnswerOf(q) = "rotated" /\ call' = call
      BY <2>3, OnlyWriteRotates DEF Write
    <3> QED
      BY <2>1, <2>3, <3>1
  <2>4. CASE result[r] # "rotated" /\ result[q] = "rotated"
    <3>1. Write(r) /\ AnswerOf(r) = "rotated" /\ call' = call
      BY <2>4, OnlyWriteRotates DEF Write
    <3> QED
      BY <2>1, <2>4, <3>1
  <2>5. CASE result[r] # "rotated" /\ result[q] # "rotated"
    <3>1. Write(r) /\ Write(q)
      BY <2>5, OnlyWriteRotates
    <3> QED
      BY <2>5, <3>1 DEF Write, Finish, TypeOK
  <2> QED
    BY <2>2, <2>3, <2>4, <2>5
<1>3. QED
  BY <1>1, <1>2, TypeCorrect, SessionInvariant, PTL DEF Spec

\* The write of a record is one step of the abstract session.
LEMMA ApplyIsAtomic ==
    ASSUME TypeOK, SessionInv, NEW r \in Reqs, pc[r] = "writing", Apply(r)
    PROVE  Atomic!Next
<1> DEFINE s == call[r].sess
<1>1. /\ s \in Sessions /\ s \notin closed /\ store[s] \in Record /\ plan[r] \in Record
      /\ call[r].token \in Nat
  BY DEF TypeOK, Call, SessionInv, WriterInv
<1>2. /\ store' = [store EXCEPT ![s] = plan[r]] /\ store'[s] = plan[r]
      /\ plan[r].status = "revoked" => closed' = closed \cup {s}
      /\ plan[r].status # "revoked" => closed' = closed
  BY <1>1 DEF Apply, TypeOK
<1>3. CASE plan[r].status = "active"
  <2>1. /\ plan[r].token \in Nat /\ plan[r].token > call[r].token
        /\ \/ store[s] = Absent
           \/ store[s].status = "active" /\ store[s].token = call[r].token
    BY <1>3, RecordTypes, <1>1 DEF SessionInv, WriterInv
  <2>2. plan[r].token > store[s].token
    BY <1>1, <2>1 DEF Absent, Atomic!Absent
  <2>3. plan[r] = Atomic!Active(plan[r].token)
    BY <1>1, <1>3, RecordTypes DEF Active
  <2>4. Atomic!Install(s)
    BY <1>1, <1>2, <1>3, <2>2, <2>3 DEF Atomic!Install
  <2> QED
    BY <1>1, <2>1, <2>4 DEF Atomic!Next, Atomic!Open, Atomic!Rotate, Absent
<1>4. CASE plan[r].status = "revoked"
  <2>1. store[s] = Absent \/ store[s].token = plan[r].token
    BY <1>4 DEF SessionInv, WriterInv
  <2>2. \E why \in {"logout", "refresh_token_reuse"} : plan[r] = Atomic!Revoked(plan[r].token, why)
    BY <1>1, <1>4, RecordTypes DEF Revoked
  <2>3. Atomic!Close(s)
    BY <1>1, <1>2, <1>4, <2>1, <2>2 DEF Atomic!Close, Absent
  <2> QED
    BY <1>1, <2>3 DEF Atomic!Next
<1> QED
  BY <1>3, <1>4 DEF SessionInv, WriterInv

(* Seen through the store, the concurrent service is the sequential one:   *)
(* each step of it is a step of AtomicSessions or changes nothing there.   *)
THEOREM ServiceIsAtomic == ASSUME Sticky PROVE Spec => ImplementsAtomicSessions
<1>1. Init => Atomic!Init
  BY DEF Init, Atomic!Init, Absent
<1>2. ASSUME TypeOK, SessionInv, [Next]_vars PROVE [Atomic!Next]_(Atomic!vars)
  <2> USE <1>2
  <2>1. ASSUME NEW r \in Reqs, Write(r) \/ WriteFails(r)
        PROVE  Atomic!Next \/ UNCHANGED <<store, closed>>
    <3>1. pc[r] = "writing" /\ (Apply(r) \/ UNCHANGED <<store, closed>>)
      BY <2>1 DEF Write, WriteFails
    <3> QED
      BY <3>1, ApplyIsAtomic
  <2>2. ASSUME NEW r \in Reqs, WriteIssued(r) \/ IssueFails(r)
        PROVE  Atomic!Next \/ UNCHANGED <<store, closed>>
    <3> DEFINE s == call[r].sess
    <3>1. pc[r] = "issuing" /\ (Apply(r) \/ UNCHANGED <<store, closed>>)
      BY <2>2 DEF WriteIssued, IssueFails
    <3>2. s \in Sessions /\ store[s] = Absent /\ s \notin closed /\ plan[r] = Active(1)
      BY <3>1 DEF TypeOK, Call, SessionInv, HandlerInv, Unused
    <3>3. CASE Apply(r)
      <4>1. store' = [store EXCEPT ![s] = Active(1)] /\ store'[s] = Active(1) /\ closed' = closed
        BY <3>2, <3>3 DEF Apply, TypeOK, Active, Atomic!Active
      <4>2. Active(1).token = 1 /\ Absent.token = 0 /\ Active(1) = Atomic!Active(1)
        BY DEF Active, Atomic!Active, Absent, Atomic!Absent
      <4>3. Atomic!Install(s)
        <5>1. store'[s].token = 1 /\ store[s].token = 0
          BY <3>2, <4>1, <4>2
        <5>2. store'[s].token > store[s].token
          BY <5>1
        <5>3. store' = [store EXCEPT ![s] = Atomic!Active(store'[s].token)]
          BY <4>1, <4>2, <5>1
        <5> QED
          BY <3>2, <4>1, <4>2, <5>2, <5>3 DEF Atomic!Install
      <4> QED
        BY <3>2, <4>3 DEF Atomic!Next, Atomic!Open, Absent
    <3> QED
      BY <3>1, <3>3
  <2>3. ASSUME NEW s \in Sessions, Expire(s) PROVE Atomic!Next
    BY <2>3 DEF Expire, Atomic!Next, Atomic!Lapse, Absent
  <2>4. ASSUME NEW r \in Reqs, HandlerStep(r),
               ~(Write(r) \/ WriteFails(r) \/ WriteIssued(r) \/ IssueFails(r))
        PROVE  UNCHANGED <<store, closed>>
    BY <2>4 DEF HandlerStep, BeginUnverified, Issue, Begin, ReadDead, ReadCurrent, ReadStale,
                ReadForRevoke, ReadFails, Deliver, LoseAnswer
  <2>5. ASSUME NEW i \in Instances, Crash(i) PROVE UNCHANGED <<store, closed>>
    BY <2>5 DEF Crash
  <2>6. CASE UNCHANGED vars
    BY <2>6 DEF vars, Atomic!vars
  <2> QED
    BY StepCases, <2>1, <2>2, <2>3, <2>4, <2>5, <2>6 DEF Atomic!vars
<1>3. QED
  BY <1>1, <1>2, TypeCorrect, SessionInvariant, PTL
     DEF Spec, ImplementsAtomicSessions, Atomic!Spec
-----------------------------------------------------------------------------
(***************************************************************************)
(* The keys that sign the access tokens of the sessions.  A rotation signs *)
(* nobody out, for any number of replicas, keys and tokens.                *)
(* RotationSignsNobodyOut says nothing of the keys a process will find     *)
(* when it starts, nor of the tokens a replica is about to sign.  The      *)
(* inductive invariant adds that a key never changes its secret while it   *)
(* is known anywhere, that whoever signs, now or after the next start,     *)
(* signs with a key all running replicas have, and that the key of a       *)
(* living token is still in the configuration.                             *)
(***************************************************************************)
\* A kid has one secret, in the configuration and in the processes.
KidsAgree ==
    \A r \in Running, k \in Kids :
        config[r].keys[k] # None /\ env.keys[k] # None => config[r].keys[k] = env.keys[k]

ActiveIsKey == env.active # None => env.keys[env.active] # None

\* Everyone has the secret s of k.
Known(k, s) ==
    /\ s # None /\ env.keys[k] = s
    /\ \A r \in Running : config[r].keys[k] = s

SignersAreKnown ==
    \A r \in Running : Known(config[r].active, config[r].keys[config[r].active])

NextSignerIsKnown ==
    \A k \in Kids : ActiveKids(env) = {k} => Known(k, env.keys[k])

LiveTokensAreKnown ==
    \A i \in Pairs : token[i].live # {} =>
        /\ token[i].kid # None => Known(token[i].kid, token[i].secret)
        /\ token[i].kid = None => \E k \in Kids : Known(k, token[i].secret)

KeysInv == /\ KeysTypeOK /\ KidsAgree /\ ActiveIsKey
           /\ SignersAreKnown /\ NextSignerIsKnown /\ LiveTokensAreKnown

-----------------------------------------------------------------------------
(* The invariant implies the property.                                     *)
LEMMA KeysInvImpliesProperty == KeysInv => RotationSignsNobodyOut
<1> SUFFICES ASSUME KeysInv, NEW r \in Running, NEW i \in Pairs, token[i].live # {}
             PROVE  Verifies(config[r], token[i])
    BY DEF RotationSignsNobodyOut, Authenticate, VerifyRefreshToken
<1> USE NoneAssumption DEF Known, Verifies, Candidates, Named
<1>1. token[i].kid \in Kids \cup {None} /\ r \in Replicas
    BY DEF KeysInv, KeysTypeOK, Tokens, Running
<1>2. CASE token[i].kid # None
    BY <1>1, <1>2 DEF KeysInv, LiveTokensAreKnown
<1>3. CASE token[i].kid = None
    <2>1. PICK k \in Kids : Known(k, token[i].secret)
        BY <1>3 DEF KeysInv, LiveTokensAreKnown
    <2> QED BY <2>1, <1>3
<1> QED BY <1>2, <1>3

\* Before anything runs the one key is known.
LEMMA KeysInvInit == KeysInit => KeysInv
<1> SUFFICES ASSUME KeysInit PROVE KeysInv
    OBVIOUS
<1> USE NoneAssumption
<1>1. PICK k \in Kids, s \in Secrets :
        /\ \E active \in {None, k} :
             env = [keys |-> [j \in Kids |-> IF j = k THEN s ELSE None], active |-> active]
        /\ config = [r \in Replicas |-> None]
        /\ token \in [Pairs -> {Unissued,
                                [kid |-> None, secret |-> s, live |-> {"access", "refresh"}]}]
    BY DEF KeysInit
<1>2. /\ env.keys = [j \in Kids |-> IF j = k THEN s ELSE None]
      /\ env.active \in {None, k}
      /\ env \in [keys : Keyring, active : Kids \cup {None}]
    BY <1>1 DEF Keyring
<1>3. Running = {}
    BY <1>1 DEF Running
<1>4. /\ {"access", "refresh"} \in SUBSET {"access", "refresh"}
      /\ {} \in SUBSET {"access", "refresh"}
    OBVIOUS
<1>5. token \in [Pairs -> Tokens]
    BY <1>1, <1>4 DEF Unissued, Tokens
<1>6. KeysTypeOK
    BY <1>1, <1>2, <1>5 DEF KeysTypeOK
<1>7. KidsAgree /\ ActiveIsKey /\ SignersAreKnown
    BY <1>2, <1>3 DEF KidsAgree, ActiveIsKey, SignersAreKnown
<1>8. NextSignerIsKnown
    BY <1>2, <1>3 DEF NextSignerIsKnown, ActiveKids, Named, Known
<1>9. LiveTokensAreKnown
    <2> SUFFICES ASSUME NEW i \in Pairs, token[i].live # {}
                 PROVE  token[i].kid = None /\ Known(k, token[i].secret)
        BY DEF LiveTokensAreKnown
    <2>1. token[i] = [kid |-> None, secret |-> s, live |-> {"access", "refresh"}]
        BY <1>1 DEF Unissued
    <2> QED BY <2>1, <1>2, <1>3 DEF Known
<1> QED BY <1>6, <1>7, <1>8, <1>9 DEF KeysInv

-----------------------------------------------------------------------------
(* The processes.                                                          *)

\* A process that starts takes the keys and the signer of the configuration.
LEMMA StartPreserves == ASSUME KeysInv, NEW r \in Replicas, Start(r) PROVE KeysInv'
<1> USE NoneAssumption DEF KeysInv
<1>1. PICK k \in Kids :
        /\ ActiveKids(env) = {k}
        /\ config' = [config EXCEPT ![r] = [keys |-> env.keys, active |-> k]]
    BY DEF Start
<1>2. env' = env /\ token' = token
    BY DEF Start
<1>3. KeysTypeOK'
    BY <1>1, <1>2 DEF KeysTypeOK
<1>4. /\ config'[r] = [keys |-> env.keys, active |-> k]
      /\ \A q \in Replicas \ {r} : config'[q] = config[q]
    BY <1>1 DEF KeysTypeOK
<1>5. ASSUME NEW j \in Kids, NEW s \in Secrets, Known(j, s) PROVE Known(j, s)'
    BY <1>2, <1>4, <1>5 DEF Known, Running
<1>6. Known(k, env.keys[k]) /\ env.keys[k] \in Secrets
    BY <1>1 DEF NextSignerIsKnown, Known, KeysTypeOK, Keyring
<1>7. KidsAgree'
    BY <1>2, <1>4 DEF KidsAgree, Running
<1>8. ActiveIsKey'
    BY <1>2 DEF ActiveIsKey
<1>9. SignersAreKnown'
    <2> SUFFICES ASSUME NEW q \in Running'
                 PROVE  Known(config[q].active, config[q].keys[config[q].active])'
        BY DEF SignersAreKnown
    <2>1. CASE q = r
        BY <2>1, <1>4, <1>5, <1>6
    <2>2. CASE q # r
        <3>1. q \in Running /\ config'[q] = config[q]
            BY <2>2, <1>4 DEF Running
        <3>2. Known(config[q].active, config[q].keys[config[q].active])
            BY <3>1 DEF SignersAreKnown
        <3>3. config[q].active \in Kids /\ config[q].keys[config[q].active] \in Secrets
            BY <3>1, <3>2 DEF KeysTypeOK, Keyring, Running, Known
        <3> QED BY <3>1, <3>2, <3>3, <1>5
    <2> QED BY <2>1, <2>2
<1>10. NextSignerIsKnown'
    <2> SUFFICES ASSUME NEW j \in Kids, ActiveKids(env) = {j} PROVE Known(j, env.keys[j])'
        BY <1>2 DEF NextSignerIsKnown, ActiveKids, Named
    <2> QED BY <1>1, <1>2, <1>5, <1>6
<1>11. LiveTokensAreKnown'
    <2> SUFFICES ASSUME NEW i \in Pairs, token[i].live # {}
                 PROVE  /\ token[i].kid # None => Known(token[i].kid, token[i].secret)'
                        /\ token[i].kid = None => \E j \in Kids : Known(j, token[i].secret)'
        BY <1>2 DEF LiveTokensAreKnown
    <2>1. /\ token[i].kid \in Kids \cup {None} /\ token[i].secret \in Secrets \cup {None}
        BY DEF KeysTypeOK, Tokens
    <2>2. CASE token[i].kid # None
        BY <2>1, <2>2, <1>2, <1>5 DEF LiveTokensAreKnown, Known
    <2>3. CASE token[i].kid = None
        BY <2>1, <2>3, <1>2, <1>5 DEF LiveTokensAreKnown, Known
    <2> QED BY <2>2, <2>3
<1> QED BY <1>3, <1>7, <1>8, <1>9, <1>10, <1>11

\* A process that stops knows nothing any more.
LEMMA StopPreserves == ASSUME KeysInv, NEW r \in Replicas, Stop(r) PROVE KeysInv'
<1> USE NoneAssumption DEF KeysInv
<1>1. /\ config' = [config EXCEPT ![r] = None]
      /\ env' = env /\ token' = token
    BY DEF Stop
<1>2. KeysTypeOK'
    BY <1>1 DEF KeysTypeOK
<1>3. \A q \in Running' : q \in Running /\ config'[q] = config[q]
    BY <1>1 DEF KeysTypeOK, Running
<1>4. ASSUME NEW j, NEW s, Known(j, s) PROVE Known(j, s)'
    BY <1>1, <1>3, <1>4 DEF Known
<1>5. KidsAgree' /\ ActiveIsKey'
    BY <1>1, <1>3 DEF KidsAgree, ActiveIsKey
<1>6. SignersAreKnown'
    BY <1>3, <1>4 DEF SignersAreKnown
<1>7. NextSignerIsKnown'
    <2> SUFFICES ASSUME NEW j \in Kids, ActiveKids(env) = {j} PROVE Known(j, env.keys[j])'
        BY <1>1 DEF NextSignerIsKnown, ActiveKids, Named
    <2> QED BY <1>1, <1>4 DEF NextSignerIsKnown
<1>8. LiveTokensAreKnown'
    BY <1>1, <1>4 DEF LiveTokensAreKnown
<1> QED BY <1>2, <1>5, <1>6, <1>7, <1>8

-----------------------------------------------------------------------------
(* The tokens.                                                             *)

\* A new pair of tokens has the key of its signer.
LEMMA SignedPreserves ==
    ASSUME KeysInv, NEW r \in Replicas, NEW i \in Pairs, config[r] # None,
           token' = [token EXCEPT ![i] = Signed(r)], UNCHANGED <<env, config>>
    PROVE  KeysInv'
<1> USE NoneAssumption DEF KeysInv
<1>1. /\ r \in Running /\ config[r].active \in Kids
      /\ Known(config[r].active, config[r].keys[config[r].active])
    BY DEF SignersAreKnown, Running, KeysTypeOK
<1>2. /\ config[r].keys[config[r].active] \in Secrets
      /\ {"access", "refresh"} \in SUBSET {"access", "refresh"}
    BY <1>1 DEF Known, KeysTypeOK, Keyring
<1>3. KeysTypeOK'
    <2>1. Signed(r) \in Tokens
        BY <1>1, <1>2 DEF Signed, Tokens
    <2> QED BY <2>1 DEF KeysTypeOK
<1>4. /\ token'[i] = Signed(r) /\ \A j \in Pairs \ {i} : token'[j] = token[j]
    BY DEF KeysTypeOK
<1>5. /\ KidsAgree' /\ ActiveIsKey' /\ SignersAreKnown' /\ NextSignerIsKnown'
    BY DEF KidsAgree, ActiveIsKey, SignersAreKnown, NextSignerIsKnown, Known, Running,
           ActiveKids, Named
<1>6. \A j, s : Known(j, s)' <=> Known(j, s)
    BY DEF Known, Running
<1>7. LiveTokensAreKnown'
    <2> SUFFICES ASSUME NEW j \in Pairs, token'[j].live # {}
                 PROVE  /\ token'[j].kid # None => Known(token'[j].kid, token'[j].secret)
                        /\ token'[j].kid = None => \E k \in Kids : Known(k, token'[j].secret)
        BY <1>6 DEF LiveTokensAreKnown
    <2>1. CASE j = i
        BY <2>1, <1>1, <1>4 DEF Signed
    <2>2. CASE j # i
        BY <2>2, <1>4 DEF LiveTokensAreKnown
    <2> QED BY <2>1, <2>2
<1> QED BY <1>3, <1>5, <1>7

\* A token that expires was known, and needs to be so no longer.
LEMMA TokenExpiresPreserves ==
    ASSUME KeysInv, NEW i \in Pairs, NEW kind \in {"access", "refresh"}, TokenExpires(i, kind)
    PROVE  KeysInv'
<1> USE NoneAssumption DEF KeysInv
<1>1. /\ token' = [token EXCEPT ![i].live = @ \ {kind}]
      /\ env' = env /\ config' = config /\ token[i].live # {}
    BY DEF TokenExpires
<1>2. token[i] \in Tokens /\ [token[i] EXCEPT !.live = @ \ {kind}] \in Tokens
    BY DEF KeysTypeOK, Tokens
<1>3. KeysTypeOK'
    BY <1>1, <1>2 DEF KeysTypeOK
<1>4. \A j \in Pairs : token'[j].kid = token[j].kid /\ token'[j].secret = token[j].secret
                       /\ (token'[j].live # {} => token[j].live # {})
    BY <1>1, <1>2 DEF KeysTypeOK, Tokens
<1>5. /\ KidsAgree' /\ ActiveIsKey' /\ SignersAreKnown' /\ NextSignerIsKnown'
    BY <1>1 DEF KidsAgree, ActiveIsKey, SignersAreKnown, NextSignerIsKnown, Known, Running,
                ActiveKids, Named
<1>6. \A j, s : Known(j, s)' <=> Known(j, s)
    BY <1>1 DEF Known, Running
<1>7. LiveTokensAreKnown'
    BY <1>4, <1>6 DEF LiveTokensAreKnown
<1> QED BY <1>3, <1>5, <1>7

-----------------------------------------------------------------------------
(* The rotation.                                                           *)

\* What is known has a secret, so it is not the key that is added.
LEMMA AddKeyPreserves ==
    ASSUME KeysInv, NEW k \in Kids, NEW s \in Secrets, AddKey(k, s) PROVE KeysInv'
<1> USE NoneAssumption DEF KeysInv
<1>1. /\ env.keys[k] = None /\ \A r \in Running : config[r].keys[k] = None
      /\ env' = [env EXCEPT !.keys[k] = s]
      /\ config' = config /\ token' = token
    BY DEF AddKey
<1>2. /\ env.keys \in Keyring /\ env'.keys = [env.keys EXCEPT ![k] = s]
      /\ env'.active = env.active /\ env' \in [keys : Keyring, active : Kids \cup {None}]
    BY <1>1 DEF KeysTypeOK, Keyring
<1>3. KeysTypeOK'
    BY <1>1, <1>2 DEF KeysTypeOK
<1>4. ASSUME NEW j \in Kids, NEW x, Known(j, x) PROVE Known(j, x)'
    BY <1>1, <1>2, <1>4 DEF Known, Running, Keyring
<1>5. KidsAgree' /\ ActiveIsKey'
    BY <1>1, <1>2 DEF KidsAgree, ActiveIsKey, Running, Keyring
<1>6. SignersAreKnown'
    BY <1>1, <1>4 DEF SignersAreKnown, Running, KeysTypeOK
<1>7. NextSignerIsKnown'
    <2> SUFFICES ASSUME NEW j \in Kids, ActiveKids(env)' = {j} PROVE Known(j, env.keys[j])'
        BY DEF NextSignerIsKnown
    <2>1. CASE j # k
        \* It was the next signer before.
        <3>1. ActiveKids(env) = {j}
            BY <2>1, <1>1, <1>2 DEF ActiveKids, Named, Keyring
        <3>2. Known(j, env.keys[j]) /\ env'.keys[j] = env.keys[j]
            BY <3>1, <2>1, <1>2 DEF NextSignerIsKnown, Keyring
        <3> QED BY <3>2, <1>4
    <2>2. CASE j = k
        \* The only key: nothing runs, since what runs signs with a known key.
        <3>1. env.active = None
            BY <2>2, <1>1, <1>2 DEF ActiveKids, ActiveIsKey
        <3>2. \A x \in Kids \ {k} : env.keys[x] = None
            BY <2>2, <3>1, <1>2 DEF ActiveKids, Named, Keyring
        <3>3. Running = {}
            BY <3>2, <1>1 DEF SignersAreKnown, Known, KeysTypeOK, Running
        <3> QED BY <2>2, <3>3, <1>1, <1>2 DEF Known, Running, Keyring
    <2> QED BY <2>1, <2>2
<1>8. LiveTokensAreKnown'
    BY <1>1, <1>4 DEF LiveTokensAreKnown, KeysTypeOK, Tokens
<1> QED BY <1>3, <1>5, <1>6, <1>7, <1>8

\* The active key is one that every running replica has.
LEMMA ActivatePreserves ==
    ASSUME KeysInv, NEW k \in Kids, Activate(k) PROVE KeysInv'
<1> USE NoneAssumption DEF KeysInv
<1>1. /\ env.keys[k] # None /\ \A r \in Running : config[r].keys[k] = env.keys[k]
      /\ env' = [env EXCEPT !.active = k]
      /\ config' = config /\ token' = token
    BY DEF Activate
<1>2. /\ env'.keys = env.keys /\ env'.active = k
      /\ env' \in [keys : Keyring, active : Kids \cup {None}]
    BY <1>1 DEF KeysTypeOK
<1>3. KeysTypeOK'
    BY <1>1, <1>2 DEF KeysTypeOK
<1>4. \A j, x : Known(j, x)' <=> Known(j, x)
    BY <1>1, <1>2 DEF Known, Running
<1>5. KidsAgree' /\ ActiveIsKey'
    BY <1>1, <1>2 DEF KidsAgree, ActiveIsKey, Running
<1>6. SignersAreKnown' /\ LiveTokensAreKnown'
    BY <1>1, <1>4 DEF SignersAreKnown, LiveTokensAreKnown, Running
<1>7. NextSignerIsKnown'
    BY <1>1, <1>2 DEF NextSignerIsKnown, ActiveKids, Named, Known, Running
<1> QED BY <1>3, <1>5, <1>6, <1>7

\* The key that leaves signs nothing and has signed nothing that lives.
LEMMA RemoveKeyPreserves ==
    ASSUME KeysInv, NEW k \in Kids, RemoveKey(k) PROVE KeysInv'
<1> USE NoneAssumption DEF KeysInv
<1>1. /\ env.keys[k] # None /\ env.active # k
      /\ \A r \in Running : config[r].active # k
      /\ \A i \in Pairs : token[i].live # {} => token[i].secret # env.keys[k]
      /\ env' = [env EXCEPT !.keys[k] = None]
      /\ config' = config /\ token' = token
    BY DEF RemoveKey
<1>2. /\ env.keys \in Keyring /\ env'.keys = [env.keys EXCEPT ![k] = None]
      /\ env'.active = env.active /\ env' \in [keys : Keyring, active : Kids \cup {None}]
    BY <1>1 DEF KeysTypeOK, Keyring
<1>3. KeysTypeOK'
    BY <1>1, <1>2 DEF KeysTypeOK
<1>4. ASSUME NEW j \in Kids \ {k}, NEW x, Known(j, x) PROVE Known(j, x)'
    BY <1>1, <1>2, <1>4 DEF Known, Running, Keyring
<1>5. KidsAgree' /\ ActiveIsKey'
    BY <1>1, <1>2 DEF KidsAgree, ActiveIsKey, Running, Keyring, KeysTypeOK
<1>6. SignersAreKnown'
    BY <1>1, <1>4 DEF SignersAreKnown, Running, KeysTypeOK
<1>7. NextSignerIsKnown'
    <2> SUFFICES ASSUME NEW j \in Kids, ActiveKids(env)' = {j} PROVE Known(j, env.keys[j])'
        BY DEF NextSignerIsKnown
    <2>1. j # k /\ env.keys[j] # None /\ env'.keys[j] = env.keys[j]
        BY <1>1, <1>2 DEF ActiveKids, Named, Keyring
    <2>2. CASE env.active # None
        <3>1. ActiveKids(env) = {j}
            BY <2>1, <2>2, <1>2 DEF ActiveKids, Named, Keyring
        <3> QED BY <3>1, <2>1, <1>4 DEF NextSignerIsKnown
    <2>3. CASE env.active = None
        \* What runs signs with a known key, and j is the only one left.
        <3>1. \A x \in Kids \ {j, k} : env.keys[x] = None
            BY <2>3, <1>2 DEF ActiveKids, Named, Keyring
        <3>2. \A r \in Running : config[r].active = j /\ Known(j, config[r].keys[j])
            BY <3>1, <1>1 DEF SignersAreKnown, Known, KeysTypeOK, Running
        <3>3. Known(j, env.keys[j])
            BY <3>2, <2>1 DEF Known
        <3> QED BY <3>3, <2>1, <1>4
    <2> QED BY <2>2, <2>3
<1>8. LiveTokensAreKnown'
    <2> SUFFICES ASSUME NEW i \in Pairs, token[i].live # {}
                 PROVE  /\ token[i].kid # None => Known(token[i].kid, token[i].secret)'
                        /\ token[i].kid = None => \E j \in Kids : Known(j, token[i].secret)'
        BY <1>1 DEF LiveTokensAreKnown
    <2>1. ~Known(k, token[i].secret) /\ token[i].kid \in Kids \cup {None}
        BY <1>1 DEF Known, KeysTypeOK, Tokens
    <2>2. CASE token[i].kid # None
        BY <2>1, <2>2, <1>1, <1>4 DEF LiveTokensAreKnown
    <2>3. CASE token[i].kid = None
        <3>1. PICK j \in Kids : Known(j, token[i].secret)
            BY <2>3 DEF LiveTokensAreKnown
        <3> QED BY <3>1, <2>1, <2>3, <1>1, <1>4
    <2> QED BY <2>2, <2>3
<1> QED BY <1>3, <1>5, <1>6, <1>7, <1>8

-----------------------------------------------------------------------------

\* The invariant is inductive.
LEMMA KeysStepPreserves == KeysInv /\ [KeysNext]_keyVars => KeysInv'
<1> SUFFICES ASSUME KeysInv, [KeysNext]_keyVars PROVE KeysInv'
    OBVIOUS
<1>1. ASSUME NEW r \in Replicas, Start(r) PROVE KeysInv'
    BY <1>1, StartPreserves
<1>2. ASSUME NEW r \in Replicas, Stop(r) PROVE KeysInv'
    BY <1>2, StopPreserves
<1>3. ASSUME NEW r \in Replicas, NEW i \in Pairs, SignIn(r, i) \/ Rotate(r, i) PROVE KeysInv'
    BY <1>3, SignedPreserves DEF SignIn, Rotate
<1>4. ASSUME NEW i \in Pairs, NEW kind \in {"access", "refresh"}, TokenExpires(i, kind) PROVE KeysInv'
    BY <1>4, TokenExpiresPreserves
<1>5. ASSUME NEW k \in Kids, NEW s \in Secrets, AddKey(k, s) PROVE KeysInv'
    BY <1>5, AddKeyPreserves
<1>6. ASSUME NEW k \in Kids, Activate(k) PROVE KeysInv'
    BY <1>6, ActivatePreserves
<1>7. ASSUME NEW k \in Kids, RemoveKey(k) PROVE KeysInv'
    BY <1>7, RemoveKeyPreserves
<1>8. CASE UNCHANGED keyVars
    BY <1>8 DEF keyVars, KeysInv, KeysTypeOK, KidsAgree, ActiveIsKey, SignersAreKnown,
                NextSignerIsKnown, LiveTokensAreKnown, Known, Running, ActiveKids, Named
<1> QED BY <1>1, <1>2, <1>3, <1>4, <1>5, <1>6, <1>7, <1>8 DEF KeysNext

(* Whatever the number of replicas, keys and tokens: every running replica *)
(* accepts every token that has not expired (resolveVerificationCandidates *)
(* and the signers, while keys are added, made active and removed in the   *)
(* order SigningKeys states).                                              *)
THEOREM RotationIsSafe == KeysSpec => []RotationSignsNobodyOut
<1>1. KeysInit => KeysInv
    BY KeysInvInit
<1>2. KeysInv /\ [KeysNext]_keyVars => KeysInv'
    BY KeysStepPreserves
<1>3. KeysInv => RotationSignsNobodyOut
    BY KeysInvImpliesProperty
<1> QED BY <1>1, <1>2, <1>3, PTL DEF KeysSpec
=============================================================================
