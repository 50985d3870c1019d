------------------------------ MODULE Handlers ------------------------------
(***************************************************************************)
(* The request handlers of the REST backend, for the components whose      *)
(* routes only read and write the database and Redis: posts, presence,     *)
(* communities, the library and the showcase.                              *)
(*                                                                         *)
(* A handler serves one request: it awaits one query after the other,      *)
(* other handlers run in between, and any query may fail (connection,      *)
(* deadlock, a crash of the process), which ends it where it is: what it   *)
(* wrote before stays.  A handler is used once.                            *)
(***************************************************************************)
EXTENDS UserIds

CONSTANTS
    Handlers    \* bound: the requests of a behaviour

VARIABLES
    pc,    \* pc[h]: the query the handler awaits
    job,   \* job[h]: the request and what the handler has read so far
    ans    \* ans[h]: the answer, and the query after which it was given

handlerVars == <<pc, job, ans>>

HandlersInit ==
    /\ pc = [h \in Handlers |-> "idle"]
    /\ job = [h \in Handlers |-> [op |-> "none"]]
    /\ ans = [h \in Handlers |-> None]

Live(h) == pc[h] \notin {"idle", "done"}
At(h, op, query) == pc[h] = query /\ job[h].op = op

Begin(h, query, request) ==
    /\ pc[h] = "idle"
    /\ pc' = [pc EXCEPT ![h] = query]
    /\ job' = [job EXCEPT ![h] = request]
    /\ UNCHANGED ans

Await(h, query) == pc' = [pc EXCEPT ![h] = query] /\ UNCHANGED <<job, ans>>

\* The same, with a value read that the handler keeps.
AwaitWith(h, query, read) ==
    /\ pc' = [pc EXCEPT ![h] = query]
    /\ job' = [job EXCEPT ![h] = read]
    /\ UNCHANGED ans

\* The answer tells the caller `what`, and shows him what was read.
AnswerWith(h, what, read) ==
    /\ ans' = [ans EXCEPT ![h] = [what |-> what, at |-> pc[h]]]
    /\ pc' = [pc EXCEPT ![h] = "done"]
    /\ job' = [job EXCEPT ![h] = read]

Answer(h, what) == AnswerWith(h, what, job[h])

\* The request ends with an answer no property compares: it is forgotten.
End(h) ==
    /\ pc' = [pc EXCEPT ![h] = "done"]
    /\ job' = [job EXCEPT ![h] = [op |-> "none"]]
    /\ UNCHANGED ans

\* A query fails; of interest only after a write that stays without the next.
QueryFails(h, halfDone) ==
    Live(h) /\ IF pc[h] \in halfDone THEN Answer(h, "error") ELSE End(h)

Answered(h, what)  == ans[h] # None /\ ans[h].what = what
FailedAt(h, query) == Answered(h, "error") /\ ans[h].at = query
=============================================================================
