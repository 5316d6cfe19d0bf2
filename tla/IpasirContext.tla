--------------------------- MODULE IpasirContext ---------------------------
(***************************************************************************)
(* One instance of the IPASIR interface                                    *)
(* (libjamsat/api/ipasir/JamSatIpasir.cpp): the client's thread, which     *)
(* adds clauses, assumes, solves and releases the instance, and the        *)
(* kill-thread, which polls the client's callback every 100 ms and stops   *)
(* the solver.  The two share the solver's stop flag and a context under a *)
(* lock.                                                                   *)
(*                                                                         *)
(* Clauses and assumptions are sets of literals.  What the solver answers  *)
(* is open, except that failed assumptions are assumptions; it may search  *)
(* for ever.  The client's critical sections are single steps, so only the *)
(* kill-thread is ever seen to hold the lock.  External: the callback      *)
(* returns, and thread creation succeeds.                                  *)
(***************************************************************************)
EXTENDS Naturals

CONSTANTS
  Lits,          \* the client's literals
  MaxCallbacks   \* bound: the number of calls of ipasir_set_terminate()

ASSUME CallbacksAssumption == MaxCallbacks \in Nat

VARIABLES
  client,        \* where the client's thread is
  call,          \* the call it is in
  solver,        \* "none", "alive" or "destroyed": what m_solver points to
  failed,        \* m_failed
  clauseAdd,     \* m_clauseAddBuffer
  assumption,    \* m_assumptionBuffer
  failedAssumptions, \* m_failedAssumptions
  answer,        \* what ipasir_solve() returned last
  thread,        \* where the kill-thread is
  context,       \* *m_killThreadContext
  calling,       \* kill-thread: the callback it is in
  stopRequested, \* CDCLSatSolver's m_stopRequested
  wanted,        \* what the client's callback returns at the moment
  meant          \* history: what the client has passed, whatever was kept

buffers == <<clauseAdd, assumption, failedAssumptions>>
threadVars == <<thread, calling>>
vars == <<client, call, solver, failed, buffers, answer, threadVars, context,
          stopRequested, wanted, meant>>

Indeterminate == 0
Satisfiable   == 10
Unsatisfiable == 20

Calls == {[name |-> n, lit |-> l] : n \in {"add", "assume"}, l \in Lits}
           \cup {[name |-> n] : n \in {"endClause", "solve", "setLogger"}}

NoCall == [name |-> "none"]

(* No context yet: callback number 0, m_killThreadContext = nullptr.       *)
NoContext == [parent |-> FALSE, solver |-> FALSE, callback |-> 0]

HasContext == context.callback # 0

(* Faulty variant: the client takes no lock.                               *)
LockIgnored == TRUE

(* The kill-thread holds the lock from its first test to the end of its    *)
(* round.                                                                  *)
LockFree == thread \notin {"callback", "stop"}

Init ==
  /\ client = "input" /\ call = NoCall
  /\ solver = "none" /\ failed = FALSE
  /\ clauseAdd = {} /\ assumption = {} /\ failedAssumptions = {}
  /\ answer = Indeterminate
  /\ thread = "none" /\ calling = 0 /\ context = NoContext
  /\ stopRequested = FALSE /\ wanted = FALSE
  /\ meant = [clause |-> {}, assumed |-> {}, last |-> {}]

----------------------------------------------------------------------------
(* The client's thread.  Calls that need a solver create it first.         *)

Refused(c) == failed /\ c.name # "setLogger"

Enter(c) ==
  /\ client = "input" /\ ~Refused(c)
  /\ call' = c
  /\ client' = IF solver = "none" THEN "create" ELSE "act"
  /\ UNCHANGED <<solver, failed, buffers, answer, threadVars, context,
                 stopRequested, wanted, meant>>

(* With m_failed, ipasir_solve() returns at once, the other calls do       *)
(* nothing.                                                                *)
RefuseSolve ==
  /\ client = "input" /\ failed
  /\ answer' = Indeterminate
  /\ meant' = [meant EXCEPT !.last = meant.assumed, !.assumed = {}]
  /\ UNCHANGED <<client, call, solver, failed, buffers, threadVars, context,
                 stopRequested, wanted>>

CreateSolver ==
  /\ client = "create"
  /\ solver' = "alive" /\ stopRequested' = FALSE
  /\ client' = IF HasContext THEN "publish" ELSE "act"
  /\ UNCHANGED <<call, failed, buffers, answer, threadVars, context, wanted,
                 meant>>

(* Faulty variant: the kill-thread is not told of the new solver.          *)
PublishedNot(c) == c

Published(c) == [c EXCEPT !.solver = TRUE]

PublishSolver ==
  /\ client = "publish" /\ LockFree
  /\ context' = Published(context)
  /\ client' = "act"
  /\ UNCHANGED <<call, solver, failed, buffers, answer, threadVars,
                 stopRequested, wanted, meant>>

Doing(name) == client = "act" /\ call.name = name

Done == client' = "input" /\ call' = NoCall

AddLiteral ==
  /\ Doing("add")
  /\ clauseAdd' = clauseAdd \cup {call.lit}
  /\ meant' = [meant EXCEPT !.clause = @ \cup {call.lit}]
  /\ Done
  /\ UNCHANGED <<solver, failed, assumption, failedAssumptions, answer,
                 threadVars, context, stopRequested, wanted>>

(* The clause goes to the solver.                                          *)
EndClause ==
  /\ Doing("endClause")
  /\ clauseAdd' = {}
  /\ meant' = [meant EXCEPT !.clause = {}]
  /\ Done
  /\ UNCHANGED <<solver, failed, assumption, failedAssumptions, answer,
                 threadVars, context, stopRequested, wanted>>

Assume ==
  /\ Doing("assume")
  /\ assumption' = assumption \cup {call.lit}
  /\ meant' = [meant EXCEPT !.assumed = @ \cup {call.lit}]
  /\ Done
  /\ UNCHANGED <<solver, failed, clauseAdd, failedAssumptions, answer,
                 threadVars, context, stopRequested, wanted>>

SetLogger ==
  /\ Doing("setLogger")
  /\ Done
  /\ UNCHANGED <<solver, failed, buffers, answer, threadVars, context,
                 stopRequested, wanted, meant>>

(* The catch-all handlers.  A call of ipasir_solve() returns 0 then, with  *)
(* its assumptions still in the buffer.                                    *)
Throw ==
  /\ \/ client \in {"create", "act", "restart", "search"}
     \/ client = "setTerminate" /\ ~HasContext
  /\ failed' = TRUE
  /\ IF call.name = "solve"
       THEN /\ answer' = Indeterminate
            /\ meant' = [meant EXCEPT !.last = meant.assumed, !.assumed = {}]
       ELSE UNCHANGED <<answer, meant>>
  /\ Done
  /\ UNCHANGED <<solver, buffers, threadVars, context, stopRequested, wanted>>

(* CDCLSatSolver::solve(): the flag is cleared, then tested before every   *)
(* restart and now and then in the search between two.                     *)
BeginSolve ==
  /\ Doing("solve")
  /\ stopRequested' = FALSE
  /\ client' = "restart"
  /\ UNCHANGED <<call, solver, failed, buffers, answer, threadVars, context,
                 wanted, meant>>

Restart ==
  /\ client = "restart" /\ ~stopRequested
  /\ client' = "search"
  /\ UNCHANGED <<call, solver, failed, buffers, answer, threadVars, context,
                 stopRequested, wanted, meant>>

SearchRestarts ==
  /\ client = "search"
  /\ client' = "restart"
  /\ UNCHANGED <<call, solver, failed, buffers, answer, threadVars, context,
                 stopRequested, wanted, meant>>

(* Faulty variant: the assumptions of the call are kept for the next.      *)
AssumptionsKept == assumption

AssumptionsAfterSolve == {}

(* ipasir_solve() gets the result a with failed assumptions F.             *)
SolveReturns(a, F) ==
  /\ answer' = a
  /\ assumption' = AssumptionsAfterSolve
  /\ failedAssumptions' = F
  /\ meant' = [meant EXCEPT !.last = meant.assumed, !.assumed = {}]
  /\ Done
  /\ UNCHANGED <<solver, failed, clauseAdd, threadVars, context,
                 stopRequested, wanted>>

Stopped ==
  /\ client \in {"restart", "search"} /\ stopRequested
  /\ SolveReturns(Indeterminate, {})

Solved ==
  /\ client = "search"
  /\ \/ SolveReturns(Satisfiable, {})
     \/ \E F \in SUBSET assumption : SolveReturns(Unsatisfiable, F)

(* Found before the search, now or in an earlier call.                     *)
DetectedUnsat ==
  /\ client = "restart"
  /\ SolveReturns(Unsatisfiable, {})

(* ipasir_set_terminate(): the first call makes the context, which the     *)
(* kill-thread owns from its start on.                                     *)
EnterSetTerminate ==
  /\ client = "input" /\ context.callback < MaxCallbacks
  /\ client' = "setTerminate"
  /\ UNCHANGED <<call, solver, failed, buffers, answer, threadVars, context,
                 stopRequested, wanted, meant>>

SetTerminate ==
  /\ client = "setTerminate" /\ LockFree
  /\ context' =
       [parent |-> TRUE, callback |-> context.callback + 1,
        solver |-> IF HasContext THEN context.solver ELSE solver = "alive"]
  /\ thread' = IF HasContext THEN thread ELSE "sleep"
  /\ client' = "input"
  /\ UNCHANGED <<call, solver, failed, buffers, answer, calling,
                 stopRequested, wanted, meant>>

(* ipasir_release(): the destructor's body, then that of the members.      *)
EnterRelease ==
  /\ client = "input"
  /\ client' = IF HasContext THEN "release" ELSE "destroy"
  /\ UNCHANGED <<call, solver, failed, buffers, answer, threadVars, context,
                 stopRequested, wanted, meant>>

Release ==
  /\ client = "release" /\ LockFree
  /\ context' = [context EXCEPT !.parent = FALSE, !.solver = FALSE]
  /\ client' = "destroy"
  /\ UNCHANGED <<call, solver, failed, buffers, answer, threadVars,
                 stopRequested, wanted, meant>>

Destroy ==
  /\ client = "destroy"
  /\ solver' = "destroyed"
  /\ client' = "gone"
  /\ UNCHANGED <<call, failed, buffers, answer, threadVars, context,
                 stopRequested, wanted, meant>>

(* External: something makes the callback return another value.            *)
ChangeMind ==
  /\ client # "gone"
  /\ wanted' = ~wanted
  /\ UNCHANGED <<client, call, solver, failed, buffers, answer, threadVars,
                 context, stopRequested, meant>>

----------------------------------------------------------------------------
(* The kill-thread.  It wakes up and takes the lock.                       *)

Finish ==
  /\ thread = "sleep" /\ ~context.parent
  /\ thread' = "ended"
  /\ UNCHANGED <<client, call, solver, failed, buffers, answer, calling,
                 context, stopRequested, wanted, meant>>

(* Without a solver (continue) the round ends as it began.                 *)
Call ==
  /\ thread = "sleep" /\ context.parent /\ context.solver
  /\ thread' = "callback" /\ calling' = context.callback
  /\ UNCHANGED <<client, call, solver, failed, buffers, answer, context,
                 stopRequested, wanted, meant>>

Answered ==
  /\ thread = "callback"
  /\ thread' = IF wanted THEN "stop" ELSE "sleep"
  /\ calling' = 0
  /\ UNCHANGED <<client, call, solver, failed, buffers, answer, context,
                 stopRequested, wanted, meant>>

StopSolver ==
  /\ thread = "stop"
  /\ stopRequested' = TRUE
  /\ thread' = "sleep"
  /\ UNCHANGED <<client, call, solver, failed, buffers, answer, calling,
                 context, wanted, meant>>

----------------------------------------------------------------------------
ClientInput ==
  \/ \E c \in Calls : Enter(c)
  \/ RefuseSolve \/ EnterSetTerminate \/ EnterRelease \/ ChangeMind

ClientLocked == PublishSolver \/ SetTerminate \/ Release

ClientCall ==
  \/ CreateSolver \/ AddLiteral \/ EndClause \/ Assume \/ SetLogger \/ Throw
  \/ BeginSolve \/ Restart \/ SearchRestarts \/ Stopped \/ Solved
  \/ DetectedUnsat \/ Destroy

KillThread == Finish \/ Call \/ Answered \/ StopSolver

Next == ClientInput \/ ClientLocked \/ ClientCall \/ KillThread

Spec == Init /\ [][Next]_vars

(* A call goes on until it waits for the lock, and so does the thread.     *)
(* Between two rounds the thread sleeps 100 ms without the lock, so a      *)
(* client that waits gets it.  The client may stay away for ever.          *)
FairSpec ==
  /\ Spec
  /\ WF_vars(ClientCall) /\ SF_vars(ClientLocked) /\ WF_vars(KillThread)

----------------------------------------------------------------------------
(* The kill-thread stops no destroyed solver; while it is in a callback,   *)
(* that callback has not been replaced, nor has ipasir_release() returned, *)
(* so the client may free the callback's state after either call; and it   *)
(* does not free the context while the client still uses it.               *)
KillThreadSafe ==
  /\ thread = "stop" => solver = "alive"
  /\ thread = "callback" =>
       calling = context.callback /\ solver = "alive" /\ client # "gone"
  /\ thread = "ended" => client \in {"destroy", "gone"}

(* Between two calls of an instance that has not failed, its buffers hold  *)
(* what the client has added and assumed since the last 0 and the last     *)
(* solve; failed assumptions were assumed for the last call of             *)
(* ipasir_solve() and exist only if it returned 20.                        *)
BuffersOfThisCall ==
  client = "input" /\ ~failed =>
    /\ clauseAdd = meant.clause /\ assumption = meant.assumed
    /\ failedAssumptions \subseteq meant.last
    /\ answer # Unsatisfiable => failedAssumptions = {}

Solving == client \in {"restart", "search"}

(* When the callback returns 1 from some time on, every ipasir_solve()     *)
(* under way with a callback returns, although starting to solve forgets   *)
(* a stop requested just before; and after ipasir_release() the            *)
(* kill-thread ends.                                                       *)
KillThreadServes ==
  /\ <>[]wanted => (Solving /\ HasContext ~> ~Solving)
  /\ client = "gone" ~> thread \in {"none", "ended"}
=============================================================================
