--------------------------- MODULE RefreshSession ---------------------------
(***************************************************************************)
(* The refresh-token service of the backend (refresh-token.service.ts),    *)
(* the Redis store behind it and the routes /auth/login, /auth/refresh and *)
(* /auth/logout that call it.                                              *)
(*                                                                         *)
(* A session is one Redis record.  Rotating or revoking it is a read of    *)
(* the record, a decision, and a write; the await between the two lets     *)
(* other requests in, so the service serialises the operations on one      *)
(* session with a chain of promises (withSessionLock) kept in the memory   *)
(* of the backend instance.  Redis executes each command atomically.       *)
(*                                                                         *)
(* Instances are backend processes.  Route[s] is the set of instances that *)
(* serve session s: a singleton when one backend runs (docker-compose) or  *)
(* when routing is sticky.                                                 *)
(*                                                                         *)
(* A request handler is used once (Reqs bounds the number of calls).  The  *)
(* refresh tokens of a session are numbered in the order they are signed;  *)
(* the number stands for the jti, hence for the SHA-256 of the token.      *)
(***************************************************************************)
EXTENDS Integers, FiniteSets

CONSTANTS
    Sessions,   \* session ids (randomUUID)
    Reqs,       \* request handlers
    Instances,  \* backend processes
    Route       \* Route[s]: the instances that serve session s

ASSUME RouteAssumption == Route \in [Sessions -> SUBSET Instances]
ASSUME ReqsAssumption  == IsFiniteSet(Reqs)

VARIABLES
    store,   \* Redis: session id -> record
    lock,    \* lock[i][s]: entry of sessionLocks in instance i
    pc,      \* progress of each request handler
    call,    \* what each request asks for, and its place in the chain
    plan,    \* the record a handler is about to write
    result,  \* the answer of each handler
    signed,  \* signed[s]: how many refresh tokens of s have been signed
    known,   \* tokens <<s, n>> that reached the browser
    closed   \* history: sessions for which a revoked record was written

vars == <<store, lock, pc, call, plan, result, signed, known, closed>>

Atomic == INSTANCE AtomicSessions WITH
    Sessions <- Sessions, store <- store, closed <- closed

Active(t)       == Atomic!Active(t)
Revoked(t, why) == Atomic!Revoked(t, why)
Absent          == Atomic!Absent

ActiveRecord  == [status : {"active"}, token : Nat, reason : {"none"}]
RevokedRecord == [status : {"revoked"}, token : Nat,
                  reason : {"logout", "refresh_token_reuse"}]
Record == {Absent} \cup ActiveRecord \cup RevokedRecord
Call   == [inst : Instances, op : {"issue", "rotate", "revoke"},
           sess : Sessions, token : Nat, ticket : Nat]
NoCall == [op |-> "none"]
Answer == {"none", "issued", "rotated", "loggedOut", "invalid", "revoked",
           "reuse", "noop", "error", "lost"}

-----------------------------------------------------------------------------
(* The per-session chain of promises.  Each arrival gets the next number   *)
(* (the promise it appends as tail) and waits for the one before it.       *)

FreeLock == [tail |-> 0, pending |-> 0]   \* no entry in the Map

Live(r) == pc[r] \in {"queued", "writing"}

Claimants(i, s) == {r \in Reqs : Live(r) /\ call[r].inst = i /\ call[r].sess = s}

SameLock(q, r) == call[q].inst = call[r].inst /\ call[q].sess = call[r].sess

\* Mutant: the operation runs without waiting for previousTail.
HasTurnAtOnce(r) == r \in Reqs

\* Mutant: previousTail is read after the handler's own promise became tail.
HasTurnAfterItself(r) ==
    \A q \in Reqs : Live(q) /\ SameLock(q, r) => call[q].ticket # call[r].ticket

\* previousTail has resolved: nobody holds the place before r's.
HasTurn(r) ==
    \A q \in Reqs : Live(q) /\ SameLock(q, r) => call[q].ticket # call[r].ticket - 1

Enter(i, s) ==
    lock' = [lock EXCEPT ![i][s] = [tail |-> @.tail + 1, pending |-> @.pending + 1]]

\* Mutant: the finally block always deletes the entry.
LeaveAlwaysDeletes(i, s) == lock' = [lock EXCEPT ![i][s] = FreeLock]

\* The finally block: the entry leaves the Map when nobody is pending.
Leave(i, s) ==
    lock' = [lock EXCEPT ![i][s] =
               IF @.pending = 1 THEN FreeLock
                                ELSE [tail |-> @.tail, pending |-> @.pending - 1]]

-----------------------------------------------------------------------------
Init ==
    /\ store = [s \in Sessions |-> Absent]
    /\ lock = [i \in Instances |-> [s \in Sessions |-> FreeLock]]
    /\ pc = [r \in Reqs |-> "idle"]
    /\ call = [r \in Reqs |-> NoCall]
    /\ plan = [r \in Reqs |-> Absent]
    /\ result = [r \in Reqs |-> "none"]
    /\ signed = [s \in Sessions |-> 0]
    /\ known = {}
    /\ closed = {}

(***************************************************************************)
(* POST /auth/login and /auth/register: a fresh session id, a first token, *)
(* and the write of its record without the lock.                           *)
(***************************************************************************)
Issue(r, i, s) ==
    /\ pc[r] = "idle"
    /\ i \in Route[s]
    /\ signed[s] = 0
    /\ signed' = [signed EXCEPT ![s] = 1]
    /\ call' = [call EXCEPT ![r] = [inst |-> i, op |-> "issue", sess |-> s,
                                    token |-> 1, ticket |-> 0]]
    /\ plan' = [plan EXCEPT ![r] = Active(1)]
    /\ pc' = [pc EXCEPT ![r] = "issuing"]
    /\ UNCHANGED <<store, lock, result, known, closed>>

(***************************************************************************)
(* POST /auth/refresh and /auth/logout with a token the browser once got:  *)
(* the signature verifies and the handler joins the chain of the session.  *)
(***************************************************************************)
Begin(r, i, op, s, t) ==
    /\ pc[r] = "idle"
    /\ i \in Route[s]
    /\ <<s, t>> \in known
    /\ Enter(i, s)
    /\ call' = [call EXCEPT ![r] = [inst |-> i, op |-> op, sess |-> s, token |-> t,
                                    ticket |-> lock[i][s].tail + 1]]
    /\ pc' = [pc EXCEPT ![r] = "queued"]
    /\ UNCHANGED <<store, plan, result, signed, known, closed>>

\* No cookie, or a token that does not verify (malformed, or past its exp).
BeginUnverified(r) ==
    /\ pc[r] = "idle"
    /\ pc' = [pc EXCEPT ![r] = "answered"]
    /\ \E a \in {"invalid", "noop"} : result' = [result EXCEPT ![r] = a]
    /\ UNCHANGED <<store, lock, call, plan, signed, known, closed>>

Finish(r, answer) ==
    /\ pc' = [pc EXCEPT ![r] = "answered"]
    /\ result' = [result EXCEPT ![r] = answer]
    /\ Leave(call[r].inst, call[r].sess)

Prepare(r, record) ==
    /\ pc' = [pc EXCEPT ![r] = "writing"]
    /\ plan' = [plan EXCEPT ![r] = record]

\* The record read is gone or revoked: the handler answers at once.
ReadDead(r) ==
    LET s == call[r].sess IN
    /\ pc[r] = "queued" /\ HasTurn(r)
    /\ store[s].status # "active"
    /\ Finish(r, CASE call[r].op = "revoke"     -> "noop"
                   [] store[s].status = "absent" -> "invalid"
                   [] OTHER                      -> "revoked")
    /\ UNCHANGED <<store, call, plan, signed, known, closed>>

\* Mutant: hashesMatch is not consulted.
ReadAnyToken(r) ==
    LET s == call[r].sess IN
    /\ pc[r] = "queued" /\ HasTurn(r)
    /\ call[r].op = "rotate"
    /\ store[s].status = "active"
    /\ signed' = [signed EXCEPT ![s] = @ + 1]
    /\ Prepare(r, Active(signed[s] + 1))
    /\ UNCHANGED <<store, lock, call, result, known, closed>>

\* rotateSession with the current token: sign its successor.
ReadCurrent(r) ==
    LET s == call[r].sess IN
    /\ pc[r] = "queued" /\ HasTurn(r)
    /\ call[r].op = "rotate"
    /\ store[s].status = "active" /\ store[s].token = call[r].token
    /\ signed' = [signed EXCEPT ![s] = @ + 1]
    /\ Prepare(r, Active(signed[s] + 1))
    /\ UNCHANGED <<store, lock, call, result, known, closed>>

\* rotateSession with an older token: the whole session is to be revoked.
ReadStale(r) ==
    LET s == call[r].sess IN
    /\ pc[r] = "queued" /\ HasTurn(r)
    /\ call[r].op = "rotate"
    /\ store[s].status = "active" /\ store[s].token # call[r].token
    /\ Prepare(r, Revoked(store[s].token, "refresh_token_reuse"))
    /\ UNCHANGED <<store, lock, call, result, signed, known, closed>>

\* revokeSession does not compare the token with the stored one.
ReadForRevoke(r) ==
    LET s == call[r].sess IN
    /\ pc[r] = "queued" /\ HasTurn(r)
    /\ call[r].op = "revoke"
    /\ store[s].status = "active"
    /\ Prepare(r, Revoked(store[s].token, "logout"))
    /\ UNCHANGED <<store, lock, call, result, signed, known, closed>>

\* The effect on Redis of the SET a handler has sent.
Apply(r) ==
    /\ store' = [store EXCEPT ![call[r].sess] = plan[r]]
    /\ closed' = IF plan[r].status = "revoked" THEN closed \cup {call[r].sess} ELSE closed

AnswerOf(r) ==
    CASE call[r].op = "revoke"     -> "loggedOut"
      [] plan[r].status = "active" -> "rotated"
      [] OTHER                     -> "reuse"

Write(r) ==
    /\ pc[r] = "writing"
    /\ Apply(r)
    /\ Finish(r, AnswerOf(r))
    /\ UNCHANGED <<call, plan, signed, known>>

WriteIssued(r) ==
    /\ pc[r] = "issuing"
    /\ Apply(r)
    /\ pc' = [pc EXCEPT ![r] = "answered"]
    /\ result' = [result EXCEPT ![r] = "issued"]
    /\ UNCHANGED <<lock, call, plan, signed, known>>

(***************************************************************************)
(* A Redis command rejects: the handler answers 500 and leaves the chain.  *)
(* A SET that rejects (connection lost) may have been executed or not.     *)
(***************************************************************************)
ReadFails(r) ==
    /\ pc[r] = "queued" /\ HasTurn(r)
    /\ Finish(r, "error")
    /\ UNCHANGED <<store, call, plan, signed, known, closed>>

WriteFails(r) ==
    /\ pc[r] = "writing"
    /\ Apply(r) \/ UNCHANGED <<store, closed>>
    /\ Finish(r, "error")
    /\ UNCHANGED <<call, plan, signed, known>>

IssueFails(r) ==
    /\ pc[r] = "issuing"
    /\ Apply(r) \/ UNCHANGED <<store, closed>>
    /\ pc' = [pc EXCEPT ![r] = "answered"]
    /\ result' = [result EXCEPT ![r] = "error"]
    /\ UNCHANGED <<lock, call, plan, signed, known>>

\* The answer reaches the browser, which stores the new cookie, or is lost.
Deliver(r) ==
    /\ pc[r] = "answered"
    /\ pc' = [pc EXCEPT ![r] = "done"]
    /\ known' = IF result[r] \in {"issued", "rotated"}
                THEN known \cup {<<call[r].sess, plan[r].token>>} ELSE known
    /\ UNCHANGED <<store, lock, call, plan, result, signed, closed>>

LoseAnswer(r) ==
    /\ pc[r] = "answered"
    /\ pc' = [pc EXCEPT ![r] = "done"]
    /\ UNCHANGED <<store, lock, call, plan, result, signed, known, closed>>

(***************************************************************************)
(* An instance stops: its locks and its handlers are gone.  A SET that was *)
(* executed although the handler died is a Write followed by the Crash and *)
(* LoseAnswer; one that is still under way when the process dies is not    *)
(* executed later.                                                         *)
(***************************************************************************)
Crash(i) ==
    LET dying == {r \in Reqs : pc[r] \in {"queued", "writing", "issuing"}
                               /\ call[r].inst = i}
    IN  /\ dying # {}
        /\ lock' = [lock EXCEPT ![i] = [s \in Sessions |-> FreeLock]]
        /\ pc' = [r \in Reqs |-> IF r \in dying THEN "done" ELSE pc[r]]
        /\ result' = [r \in Reqs |-> IF r \in dying THEN "lost" ELSE result[r]]
        /\ UNCHANGED <<store, call, plan, signed, known, closed>>

\* The TTL of the Redis record (EX refreshTokenTtlSeconds) runs out.
Expire(s) ==
    /\ store[s] # Absent
    /\ store' = [store EXCEPT ![s] = Absent]
    /\ UNCHANGED <<lock, pc, call, plan, result, signed, known, closed>>

-----------------------------------------------------------------------------
Arrive(r) ==
    \/ BeginUnverified(r)
    \/ \E s \in Sessions, i \in Instances :
         \/ Issue(r, i, s)
         \/ \E op \in {"rotate", "revoke"}, t \in 1..signed[s] : Begin(r, i, op, s, t)

Read(r) == ReadDead(r) \/ ReadCurrent(r) \/ ReadStale(r) \/ ReadForRevoke(r)

Next ==
    \/ \E r \in Reqs :
         \/ Arrive(r)
         \/ Read(r) \/ Write(r) \/ WriteIssued(r)
         \/ ReadFails(r) \/ WriteFails(r) \/ IssueFails(r)
         \/ Deliver(r) \/ LoseAnswer(r)
    \/ \E i \in Instances : Crash(i)
    \/ \E s \in Sessions : Expire(s)

\* The event loop resumes every continuation whose promise has resolved, and
\* the Redis client answers or rejects every command.
Fairness == \A r \in Reqs : WF_vars(Read(r) \/ Write(r) \/ WriteIssued(r))

Spec     == Init /\ [][Next]_vars
FairSpec == Spec /\ Fairness

-----------------------------------------------------------------------------
(* Properties *)

TypeOK ==
    /\ store  \in [Sessions -> Record]
    /\ lock   \in [Instances -> [Sessions -> [tail : Nat, pending : Int]]]
    /\ pc     \in [Reqs -> {"idle", "queued", "writing", "issuing", "answered", "done"}]
    /\ call   \in [Reqs -> Call \cup {NoCall}]
    /\ plan   \in [Reqs -> Record]
    /\ result \in [Reqs -> Answer]
    /\ signed \in [Sessions -> Nat]
    /\ known  \subseteq Sessions \X Nat
    /\ closed \subseteq Sessions
    /\ \A r \in Reqs : \/ pc[r] \in {"queued", "writing", "issuing"}
                       \/ result[r] \in {"issued", "rotated", "loggedOut", "reuse"}
                       => call[r] \in Call

(* withSessionLock is a lock: while a handler sits between its read and    *)
(* its write, no other handler of that instance and session has its turn.  *)
LockExclusive ==
    \A r, q \in Reqs :
        r # q /\ Live(q) /\ pc[r] = "writing" /\ SameLock(q, r) => ~HasTurn(q)

(* The Map of locks never leaks and never forgets: it counts exactly the   *)
(* handlers that are waiting or working, and is empty when there is none.  *)
LockTableExact ==
    \A i \in Instances, s \in Sessions :
        /\ lock[i][s].pending = Cardinality(Claimants(i, s))
        /\ Claimants(i, s) = {} => lock[i][s] = FreeLock

(* One refresh token buys at most one new token, however many handlers     *)
(* present it at once (refresh-token.service.test.ts:48).                  *)
RotatedAtMostOnce ==
    \A r, q \in Reqs :
        /\ r # q
        /\ result[r] = "rotated" /\ result[q] = "rotated"
        /\ call[r].sess = call[q].sess
        => call[r].token # call[q].token

(* A user who was told that the session ended (logout, or a stale token    *)
(* that made the service revoke it) never sees it alive again, even after  *)
(* the revoked record itself has expired.                                  *)
SignOutIsFinal ==
    /\ \A s \in closed : store[s].status # "active"
    /\ \A r \in Reqs : result[r] \in {"loggedOut", "reuse"} => call[r].sess \in closed

(* Seen through the store, every operation is one atomic step: a handler   *)
(* never overwrites a record other than the one it decided on.             *)
ImplementsAtomicSessions == Atomic!Spec

(* Nobody waits forever behind a lock that nobody releases: not after an   *)
(* error in Redis, not after a rejected token.                             *)
EveryCallEnds ==
    \A r \in Reqs : pc[r] \in {"queued", "writing", "issuing"}
                        ~> pc[r] \in {"answered", "done"}

-----------------------------------------------------------------------------
(* The inductive invariants that the proofs use (RefreshSessionProofs).    *)

(* The live places of a chain are consecutive and end at its tail, and the *)
(* handler between its read and its write has the first of them.           *)
LockInv ==
    /\ LockTableExact
    /\ \A r \in Reqs : Live(r) =>
          LET last == lock[call[r].inst][call[r].sess].tail IN
          /\ call[r].ticket \in 1..last
          /\ \A k \in call[r].ticket..last :
               \E q \in Reqs : Live(q) /\ SameLock(q, r) /\ call[q].ticket = k
          /\ \A q \in Reqs : Live(q) /\ SameLock(q, r) /\ q # r
                               => call[q].ticket # call[r].ticket
          /\ pc[r] = "writing" => HasTurn(r)

\* Session s has no token in the browser and no handler other than those of R.
Unused(s, R) ==
    /\ store[s] = Absent /\ s \notin closed
    /\ \A k \in known : k[1] # s
    /\ \A q \in Reqs \ R : call[q] # NoCall => call[q].sess # s

StoreInv ==
    \A s \in Sessions :
      /\ store[s].status = "active" => s \notin closed /\ store[s].token \in 1..signed[s]
      /\ signed[s] = 0 => Unused(s, {})

HandlerInv(r) ==
    LET s == call[r].sess IN
    /\ pc[r] \in {"queued", "writing", "issuing"} => call[r].inst \in Route[s]
    /\ result[r] # "none" => pc[r] \in {"answered", "done"}
    /\ result[r] \in {"loggedOut", "reuse"} => s \in closed
    /\ pc[r] \in {"queued", "writing"} => call[r].op \in {"rotate", "revoke"}
    /\ pc[r] = "issuing" => Unused(s, {r}) /\ signed[s] = 1 /\ plan[r] = Active(1)

(* What a handler decided on is still there when it writes, unless the     *)
(* record lapsed meanwhile.                                                *)
WriterInv(r) ==
    LET s == call[r].sess IN
    pc[r] = "writing" =>
      /\ s \notin closed
      /\ \/ /\ call[r].op = "rotate" /\ plan[r].status = "active"
            /\ plan[r].token \in 1..signed[s]
            /\ plan[r].token > call[r].token
            /\ store[s] = Absent \/ /\ store[s].status = "active"
                                     /\ store[s].token = call[r].token
         \/ /\ plan[r].status = "revoked"
            /\ store[s] = Absent \/ /\ store[s].status = "active"
                                     /\ store[s].token = plan[r].token

\* A token that was rotated is behind the store and behind every writer.
RotatedInv(r) ==
    LET s == call[r].sess IN
    result[r] = "rotated" =>
      /\ store[s].status = "active" => store[s].token > call[r].token
      /\ \A q \in Reqs :
           /\ pc[q] = "writing" /\ plan[q].status = "active" /\ call[q].sess = s
           => call[q].token > call[r].token

(* Holds when one instance serves each session (Sticky).                   *)
Sticky == \A s \in Sessions : \A i, j \in Route[s] : i = j

SessionInv ==
    /\ StoreInv
    /\ \A r \in Reqs : HandlerInv(r) /\ WriterInv(r) /\ RotatedInv(r)
=============================================================================
