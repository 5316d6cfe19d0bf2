---------------------------- MODULE IpasirProofs ----------------------------
(***************************************************************************)
(* Safety of the kill-thread of an IPASIR instance, for any literals and   *)
(* any number of calls of ipasir_set_terminate().                          *)
(***************************************************************************)
EXTENDS IpasirContext, TLAPS

(* The context is the kill-thread's from its start to its end, names a     *)
(* solver only while that solver lives, and cannot change while the        *)
(* kill-thread holds the lock.                                             *)
ContextType ==
  context \in [parent: BOOLEAN, solver: BOOLEAN, callback: Nat]

Ownership ==
  /\ ~HasContext => thread = "none" /\ ~context.parent /\ ~context.solver
  /\ HasContext /\ client \notin {"destroy", "gone"} => context.parent
  /\ client \in {"destroy", "gone"} => ~context.parent /\ ~context.solver
  /\ client \in {"publish", "release"} => HasContext

SolverNamed ==
  /\ solver \in {"none", "alive", "destroyed"}
  /\ solver = "destroyed" => client = "gone"
  /\ context.solver => solver = "alive"
  /\ client \in {"publish", "act", "restart", "search"} => solver = "alive"

RoundInv ==
  /\ thread \in {"callback", "stop"} => context.parent /\ context.solver
  /\ thread = "callback" => calling = context.callback
  /\ thread = "ended" => ~context.parent

KillThreadInv == ContextType /\ Ownership /\ SolverNamed /\ RoundInv

LEMMA InvInit == Init => KillThreadInv
BY DEF Init, KillThreadInv, ContextType, Ownership, SolverNamed, RoundInv,
       NoContext, HasContext

LEMMA InvSafe == KillThreadInv => KillThreadSafe
BY DEF KillThreadInv, ContextType, Ownership, SolverNamed, RoundInv,
       KillThreadSafe, HasContext

(* Steps of the client that leave the context alone and keep the solver.   *)
LEMMA InvClient ==
  ASSUME KillThreadInv, UNCHANGED <<threadVars, context>>,
         \/ UNCHANGED solver
         \/ client = "create" /\ solver' = "alive",
         client' \in {"publish", "release"} => HasContext,
         client \notin {"destroy", "gone"},
         client' = "destroy" => ~HasContext,
         client' # "gone",
         client' \in {"publish", "act", "restart", "search"} =>
           solver' = "alive"
  PROVE  KillThreadInv'
<1>1. ContextType'
  BY DEF KillThreadInv, ContextType
<1>2. Ownership'
  BY DEF KillThreadInv, ContextType, Ownership, HasContext, threadVars
<1>3. SolverNamed'
  BY DEF KillThreadInv, SolverNamed
<1>4. RoundInv'
  BY DEF KillThreadInv, RoundInv, threadVars
<1> QED
  BY <1>1, <1>2, <1>3, <1>4 DEF KillThreadInv

LEMMA InvInput ==
  ASSUME KillThreadInv, ClientInput
  PROVE  KillThreadInv'
<1>1. ASSUME NEW c \in Calls, Enter(c) PROVE KillThreadInv'
  <2>1. client' = "act" => solver' = "alive"
    BY <1>1 DEF Enter, KillThreadInv, SolverNamed, Ownership
  <2> QED
    BY <1>1, <2>1, InvClient DEF Enter
<1>2. CASE RefuseSolve
  BY <1>2, InvClient DEF RefuseSolve
<1>3. CASE EnterSetTerminate
  BY <1>3, InvClient DEF EnterSetTerminate
<1>4. CASE EnterRelease
  BY <1>4, InvClient DEF EnterRelease
<1>5. CASE ChangeMind
  BY <1>5 DEF ChangeMind, KillThreadInv, ContextType, Ownership, SolverNamed,
              RoundInv, HasContext, threadVars
<1> QED
  BY <1>1, <1>2, <1>3, <1>4, <1>5 DEF ClientInput

(* The critical sections: the kill-thread is not in a round.               *)
LEMMA InvLocked ==
  ASSUME KillThreadInv, ClientLocked
  PROVE  KillThreadInv'
<1> USE DEF KillThreadInv, ContextType, Ownership, SolverNamed, RoundInv,
            HasContext, LockFree, threadVars
<1>1. CASE PublishSolver
  BY <1>1 DEF PublishSolver, Published
<1>2. CASE SetTerminate
  <2> DEFINE named == IF HasContext THEN context.solver ELSE solver = "alive"
  <2>1. named \in BOOLEAN /\ (named => solver = "alive")
    OBVIOUS
  <2> HIDE DEF named
  <2>2. context' = [parent |-> TRUE, callback |-> context.callback + 1,
                    solver |-> named]
    BY <1>2 DEF SetTerminate, named
  <2>3. context' \in [parent: BOOLEAN, solver: BOOLEAN, callback: Nat]
    BY <2>1, <2>2
  <2>4. context'.parent /\ context'.callback # 0
    BY <2>2
  <2>5. context'.solver => solver = "alive"
    BY <2>1, <2>2
  <2>6. thread' \notin {"callback", "stop", "ended"}
    BY <1>2 DEF SetTerminate
  <2> QED
    BY <1>2, <2>3, <2>4, <2>5, <2>6 DEF SetTerminate
<1>3. CASE Release
  BY <1>3 DEF Release
<1> QED
  BY <1>1, <1>2, <1>3 DEF ClientLocked

LEMMA InvCall ==
  ASSUME KillThreadInv, ClientCall
  PROVE  KillThreadInv'
<1>1. CASE CreateSolver
  BY <1>1, InvClient DEF CreateSolver
<1>2. CASE AddLiteral \/ EndClause \/ Assume \/ SetLogger
  BY <1>2, InvClient DEF AddLiteral, EndClause, Assume, SetLogger, Doing, Done
<1>3. CASE Throw
  BY <1>3, InvClient DEF Throw, Done
<1>4. CASE BeginSolve
  BY <1>4, InvClient DEF BeginSolve, Doing, KillThreadInv, SolverNamed
<1>5. CASE Restart \/ SearchRestarts
  BY <1>5, InvClient DEF Restart, SearchRestarts, KillThreadInv, SolverNamed
<1>6. CASE Stopped
  BY <1>6, InvClient DEF Stopped, SolveReturns, Done
<1>7. CASE Solved
  BY <1>7, InvClient DEF Solved, SolveReturns, Done
<1>8. CASE DetectedUnsat
  BY <1>8, InvClient DEF DetectedUnsat, SolveReturns, Done
<1>9. CASE Destroy
  BY <1>9 DEF Destroy, KillThreadInv, ContextType, Ownership, SolverNamed,
              RoundInv, HasContext, threadVars
<1> QED
  BY <1>1, <1>2, <1>3, <1>4, <1>5, <1>6, <1>7, <1>8, <1>9 DEF ClientCall

LEMMA InvThread ==
  ASSUME KillThreadInv, KillThread
  PROVE  KillThreadInv'
<1> USE DEF KillThreadInv, ContextType, Ownership, SolverNamed, RoundInv,
            HasContext
<1>1. CASE Finish
  BY <1>1 DEF Finish
<1>2. CASE Call
  BY <1>2 DEF Call
<1>3. CASE Answered
  BY <1>3 DEF Answered
<1>4. CASE StopSolver
  BY <1>4 DEF StopSolver
<1> QED
  BY <1>1, <1>2, <1>3, <1>4 DEF KillThread

LEMMA InvStep ==
  ASSUME KillThreadInv, [Next]_vars
  PROVE  KillThreadInv'
<1>1. CASE UNCHANGED vars
  BY <1>1 DEF vars, threadVars, KillThreadInv, ContextType, Ownership,
              SolverNamed, RoundInv, HasContext
<1> QED
  BY <1>1, InvInput, InvLocked, InvCall, InvThread DEF Next

(* The kill-thread never stops a solver that has been destroyed, never is  *)
(* in a callback that was replaced or whose instance was released, and     *)
(* never frees the context while the client uses it.                       *)
THEOREM KillThreadSafety == Spec => []KillThreadSafe
<1>1. Spec => []KillThreadInv
  <2>1. KillThreadInv /\ [Next]_vars => KillThreadInv'
    BY InvStep
  <2> QED
    BY <2>1, InvInit, PTL DEF Spec
<1> QED
  BY <1>1, InvSafe, PTL

----------------------------------------------------------------------------
(* The buffers agree with what the client has passed at every step of a    *)
(* call, not only between calls, as long as the instance has not failed.   *)
BuffersInv ==
  /\ failed \in BOOLEAN
  /\ meant = [clause |-> meant.clause, assumed |-> meant.assumed, last |-> meant.last]
  /\ ~failed => /\ clauseAdd = meant.clause /\ assumption = meant.assumed
                /\ failedAssumptions \subseteq meant.last
                /\ answer # Unsatisfiable => failedAssumptions = {}

LEMMA BuffersInit == Init => BuffersInv
<1> SUFFICES ASSUME Init PROVE BuffersInv
  OBVIOUS
<1>1. /\ failed = FALSE
      /\ clauseAdd = {} /\ assumption = {} /\ failedAssumptions = {}
  BY DEF Init
<1>2. meant = [clause |-> {}, assumed |-> {}, last |-> {}]
  BY DEF Init
<1> QED
  BY <1>1, <1>2 DEF BuffersInv

(* A call that takes its literals from the buffers returns: the failed     *)
(* assumptions are among those of the call.                                *)
LEMMA BuffersReturn ==
  ASSUME BuffersInv, NEW a, NEW F, SolveReturns(a, F),
         ~failed => F \subseteq assumption,
         a # Unsatisfiable => F = {}
  PROVE  BuffersInv'
<1>1. /\ meant' = [clause |-> meant.clause, assumed |-> {}, last |-> meant.assumed]
      /\ assumption' = {} /\ failedAssumptions' = F /\ answer' = a
      /\ UNCHANGED <<failed, clauseAdd>>
  BY DEF SolveReturns, AssumptionsAfterSolve, BuffersInv
<1> QED
  BY <1>1 DEF BuffersInv

LEMMA BuffersStep ==
  ASSUME BuffersInv, [Next]_vars
  PROVE  BuffersInv'
<1>1. ASSUME UNCHANGED <<failed, buffers, answer, meant>>
      PROVE  BuffersInv'
  BY <1>1 DEF buffers, BuffersInv
<1>2. CASE UNCHANGED vars
  BY <1>1, <1>2 DEF vars
<1>3. CASE ClientInput
  <2>1. CASE RefuseSolve
    <3>1. failed /\ failed' = failed
          /\ meant' = [clause |-> meant.clause, assumed |-> {}, last |-> meant.assumed]
      BY <2>1 DEF RefuseSolve, BuffersInv
    <3> QED
      BY <3>1 DEF BuffersInv
  <2>2. CASE (\E c \in Calls : Enter(c)) \/ EnterSetTerminate \/ EnterRelease \/ ChangeMind
    BY <1>1, <2>2 DEF Enter, EnterSetTerminate, EnterRelease, ChangeMind
  <2> QED
    BY <1>3, <2>1, <2>2 DEF ClientInput
<1>4. CASE ClientLocked
  BY <1>1, <1>4 DEF ClientLocked, PublishSolver, SetTerminate, Release
<1>5. CASE KillThread
  BY <1>1, <1>5 DEF KillThread, Finish, Call, Answered, StopSolver
<1>6. CASE ClientCall
  <2>1. CASE CreateSolver \/ SetLogger \/ BeginSolve \/ Restart \/ SearchRestarts \/ Destroy
    BY <1>1, <2>1 DEF CreateSolver, SetLogger, BeginSolve, Restart, SearchRestarts, Destroy
  <2>2. CASE AddLiteral
    <3>1. /\ clauseAdd' = clauseAdd \cup {call.lit}
          /\ meant' = [clause |-> meant.clause \cup {call.lit}, assumed |-> meant.assumed,
                       last |-> meant.last]
          /\ UNCHANGED <<failed, assumption, failedAssumptions, answer>>
      BY <2>2 DEF AddLiteral, BuffersInv
    <3> QED
      BY <3>1 DEF BuffersInv
  <2>3. CASE EndClause
    <3>1. /\ clauseAdd' = {}
          /\ meant' = [clause |-> {}, assumed |-> meant.assumed, last |-> meant.last]
          /\ UNCHANGED <<failed, assumption, failedAssumptions, answer>>
      BY <2>3 DEF EndClause, BuffersInv
    <3> QED
      BY <3>1 DEF BuffersInv
  <2>4. CASE Assume
    <3>1. /\ assumption' = assumption \cup {call.lit}
          /\ meant' = [clause |-> meant.clause, assumed |-> meant.assumed \cup {call.lit},
                       last |-> meant.last]
          /\ UNCHANGED <<failed, clauseAdd, failedAssumptions, answer>>
      BY <2>4 DEF Assume, BuffersInv
    <3> QED
      BY <3>1 DEF BuffersInv
  <2>5. CASE Throw
    <3>1. failed' = TRUE
      BY <2>5 DEF Throw
    <3>2. \/ meant' = meant
          \/ meant' = [clause |-> meant.clause, assumed |-> {}, last |-> meant.assumed]
      BY <2>5 DEF Throw, BuffersInv
    <3> QED
      BY <3>1, <3>2 DEF BuffersInv
  <2>6. CASE Stopped
    BY <2>6, BuffersReturn DEF Stopped, Indeterminate, Unsatisfiable
  <2>7. CASE Solved
    <3>1. CASE SolveReturns(Satisfiable, {})
      BY <3>1, BuffersReturn
    <3>2. CASE \E F \in SUBSET assumption : SolveReturns(Unsatisfiable, F)
      BY <3>2, BuffersReturn
    <3> QED
      BY <2>7, <3>1, <3>2 DEF Solved
  <2>8. CASE DetectedUnsat
    BY <2>8, BuffersReturn DEF DetectedUnsat
  <2> QED
    BY <1>6, <2>1, <2>2, <2>3, <2>4, <2>5, <2>6, <2>7, <2>8 DEF ClientCall
<1> QED
  BY <1>2, <1>3, <1>4, <1>5, <1>6 DEF Next

(* Clauses and assumptions are kept for the call they are meant for, and   *)
(* failed assumptions are those of the last call, whatever exceptions,     *)
(* callbacks and the kill-thread do in between.                            *)
THEOREM BuffersCorrect == Spec => []BuffersOfThisCall
<1>1. BuffersInv /\ [Next]_vars => BuffersInv'
  BY BuffersStep
<1>2. BuffersInv => BuffersOfThisCall
  BY DEF BuffersInv, BuffersOfThisCall
<1> QED
  BY <1>1, <1>2, BuffersInit, PTL DEF Spec
=============================================================================
