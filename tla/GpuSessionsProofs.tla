-------------------------- MODULE GpuSessionsProofs --------------------------
(***************************************************************************)
(* Proofs about interactive GPU sessions: the types, the pool the          *)
(* gpu_usage rows implement, and that reservations stay within the         *)
(* capacity, for every number of users, requests, GPUs and starts.         *)
(***************************************************************************)
EXTENDS GpuSessions, FiniteSetTheorems, TLAPS

(* A coroutine that has answered is a coroutine. *)
LEMMA FreeType == Free \in Coroutine
<1>1. (CHOOSE u \in Users : TRUE) \in Users
  BY SessionsAssumption
<1> QED
  BY <1>1 DEF Free, Coroutine, Pc, Operation, Accelerator, Answer, ServerState

(* A Hub answer only ever closes rows. *)
LEMMA ReconciledCloses ==
  ASSUME NEW u, NEW state
  PROVE  Reconciled(u, state) \subseteq open
BY DEF Reconciled, RowsOf

(* The Hub answers with the state of a server. *)
LEMMA StateType ==
  ASSUME TypeOK, NEW u \in Users
  PROVE  State(u) \in ServerState
BY DEF TypeOK, State

(* Every step keeps the types. *)
LEMMA StepType ==
  ASSUME TypeOK, NEW p \in Process, Step(p)
  PROVE  TypeOK'
<1> USE FreeType, SessionsAssumption
<1>0. /\ req \in [Process -> Coroutine] /\ open \subseteq Usage /\ starts \in 0..MaxStarts
      /\ req[p] \in Coroutine /\ req[p].user \in Users
      /\ hub \in [Users -> [state : ServerState, accelerator : Accelerator]]
  BY DEF TypeOK, Coroutine
<1>1. CASE Ask(p)
  <2>1. State(req[p].user) \in Answer
    BY <1>0, StateType DEF Answer
  <2>2. req' \in [Process -> Coroutine]
    BY <2>1, <1>0, <1>1 DEF Ask, Coroutine, Pc
  <2> QED
    BY <2>2, <1>0, <1>1 DEF Ask, TypeOK
<1>2. CASE AnswerStatus(p)
  BY <1>0, <1>2, ReconciledCloses DEF AnswerStatus, Return, TypeOK
<1>3. CASE AnswerStart(p)
  <2>1. open' \subseteq open /\ hub' = hub /\ starts' = starts
    BY <1>3, ReconciledCloses DEF AnswerStart
  <2>2. {k[1] : k \in open'} \subseteq Users
    BY <2>1, <1>0 DEF Usage
  <2>3. req' \in [Process -> Coroutine]
    BY <2>2, <1>0, <1>3 DEF AnswerStart, Return, Goto, Coroutine, Pc
  <2> QED
    BY <2>1, <2>3, <1>0 DEF TypeOK
<1>4. CASE AnswerStop(p)
  <2>1. open' \subseteq open /\ starts' = starts
    BY <1>4, ReconciledCloses DEF AnswerStop
  <2>2. req' \in [Process -> Coroutine]
    BY <1>0, <1>4 DEF AnswerStop, Return, Goto, Coroutine, Pc
  <2>3. hub' \in [Users -> [state : ServerState, accelerator : Accelerator]]
    BY <1>0, <1>4 DEF AnswerStop, ServerState
  <2> QED
    BY <2>1, <2>2, <2>3, <1>0 DEF TypeOK
<1>5. CASE CloseStopped(p)
  BY <1>0, <1>5 DEF CloseStopped, Return, TypeOK
<1>6. CASE \E u \in Users : SweepAsk(p, u)
  <2> PICK u \in Users : SweepAsk(p, u)
    BY <1>6
  <2>1. <<u, State(u)>> \in Users \X ServerState
    BY StateType
  <2>2. [req[p] EXCEPT !.pc = "swept", !.todo = @ \ {u}, !.swept = <<u, State(u)>>]
           \in Coroutine
    BY <2>1, <1>0 DEF Coroutine, Pc
  <2>3. req' \in [Process -> Coroutine]
    BY <2>2, <1>0 DEF SweepAsk
  <2> QED
    BY <2>3, <1>0 DEF SweepAsk, TypeOK
<1>7. CASE SweepAnswer(p)
  BY <1>0, <1>7, ReconciledCloses DEF SweepAnswer, TypeOK, Coroutine, Pc
<1>8. CASE SweepDone(p)
  BY <1>0, <1>8 DEF SweepDone, Return, Goto, TypeOK, Coroutine, Pc
<1>9. CASE ReserveRefused(p)
  BY <1>0, <1>9 DEF ReserveRefused, Return, TypeOK
<1>10. CASE Reserve(p)
  <2>1. starts' \in 1..MaxStarts /\ hub' = hub
    BY <1>0, <1>10 DEF Reserve
  <2>2. <<req[p].user, starts'>> \in Usage
    BY <2>1, <1>0 DEF Usage
  <2>3. req' \in [Process -> Coroutine]
    BY <2>2, <1>0, <1>10 DEF Reserve, Coroutine, Pc
  <2> QED
    BY <2>1, <2>2, <2>3, <1>0, <1>10 DEF Reserve, TypeOK
<1>11. CASE Post(p)
  <2>1. req' \in [Process -> Coroutine]
    <3>1. \A answer \in Answer :
             [req[p] EXCEPT !.pc = "posted", !.state = answer] \in Coroutine
      BY <1>0 DEF Coroutine, Pc
    <3>2. PICK answer \in Answer :
             req' = [req EXCEPT ![p].pc = "posted", ![p].state = answer]
      BY <1>11 DEF Post, Answer
    <3>3. req' = [req EXCEPT ![p] = [req[p] EXCEPT !.pc = "posted", !.state = answer]]
      BY <1>0, <3>2
    <3> QED
      BY <3>1, <3>3, <1>0
  <2>2. hub' \in [Users -> [state : ServerState, accelerator : Accelerator]]
    <3>1. req[p].accelerator \in Accelerator
      BY <1>0 DEF Coroutine
    <3>2. hub' = hub \/ \E state \in ServerState :
             hub' = [hub EXCEPT ![req[p].user] =
                        [state |-> state, accelerator |-> req[p].accelerator]]
      BY <1>11 DEF Post, ServerState
    <3>3. CASE hub' = hub
      BY <3>3, <1>0
    <3>4. ASSUME NEW state \in ServerState,
                 hub' = [hub EXCEPT ![req[p].user] =
                            [state |-> state, accelerator |-> req[p].accelerator]]
          PROVE  hub' \in [Users -> [state : ServerState, accelerator : Accelerator]]
      <4>1. [state |-> state, accelerator |-> req[p].accelerator]
               \in [state : ServerState, accelerator : Accelerator]
        BY <3>1
      <4> QED
        BY <4>1, <3>4, <1>0
    <3> QED
      BY <3>2, <3>3, <3>4
  <2> QED
    BY <2>1, <2>2, <1>0, <1>11 DEF Post, TypeOK
<1>12. CASE PostFails(p)
  <2>1. req' \in [Process -> Coroutine]
    <3>1. [req[p] EXCEPT !.pc = "posted", !.state = "error"] \in Coroutine
      BY <1>0 DEF Coroutine, Pc, Answer
    <3> QED
      BY <3>1, <1>0, <1>12 DEF PostFails
  <2> QED
    BY <2>1, <1>0, <1>12 DEF PostFails, TypeOK
<1>13. CASE PostStarted(p)
  BY <1>0, <1>13 DEF PostStarted, Return, TypeOK
<1>14. CASE PostRaised(p)
  BY <1>0, <1>14 DEF PostRaised, Return, TypeOK
<1>15. CASE Recheck(p)
  <2>1. State(req[p].user) \in Answer
    BY <1>0, StateType DEF Answer
  <2>2. [req[p] EXCEPT !.pc = "recheck", !.state = State(req[p].user)] \in Coroutine
    BY <2>1, <1>0 DEF Coroutine, Pc
  <2>3. req' \in [Process -> Coroutine]
    BY <2>2, <1>0, <1>15 DEF Recheck
  <2> QED
    BY <2>3, <1>0, <1>15 DEF Recheck, TypeOK
<1>16. CASE Rechecked(p)
  BY <1>0, <1>16 DEF Rechecked, Return, TypeOK
<1> QED
  BY <1>1, <1>2, <1>3, <1>4, <1>5, <1>6, <1>7, <1>8, <1>9, <1>10, <1>11, <1>12,
     <1>13, <1>14, <1>15, <1>16 DEF Step

(* Hub servers, gpu_usage rows and coroutines have their types in every      *)
(* reachable state of notebook_runtime.py.                                   *)
THEOREM TypeCorrect == Spec => []TypeOK
<1>1. Init => TypeOK
  BY FreeType, SessionsAssumption DEF Init, TypeOK, ServerState, Accelerator
<1>2. TypeOK /\ [Next]_vars => TypeOK'
  <2> SUFFICES ASSUME TypeOK, [Next]_vars PROVE TypeOK'
    OBVIOUS
  <2>1. ASSUME NEW u \in Users, HubStep(u) PROVE TypeOK'
    BY <2>1 DEF HubStep, TypeOK
  <2>2. ASSUME NEW p \in Requests, NEW u \in Users, NEW op \in Operation,
               NEW accelerator \in Accelerator, Receive(p, u, op, accelerator)
        PROVE  TypeOK'
    <3>1. [Free EXCEPT !.pc = "ask", !.op = op, !.user = u, !.accelerator = accelerator]
             \in Coroutine
      BY FreeType DEF Coroutine, Pc
    <3> QED
      BY <2>2, <3>1 DEF Receive, TypeOK
  <2>3. ASSUME StartLoop PROVE TypeOK'
    <3>1. {k[1] : k \in open} \subseteq Users
      BY DEF TypeOK, Usage
    <3>2. req' \in [Process -> Coroutine]
      <4>1. req[Loop] \in Coroutine
        BY DEF TypeOK, Process
      <4>2. [req[Loop] EXCEPT !.pc = "sweep", !.todo = {k[1] : k \in open}] \in Coroutine
        BY <3>1, <4>1 DEF Coroutine, Pc
      <4> QED
        BY <2>3, <4>2 DEF StartLoop, TypeOK
    <3> QED
      BY <2>3, <3>2 DEF StartLoop, TypeOK
  <2>4. ASSUME UNCHANGED vars PROVE TypeOK'
    BY <2>4 DEF vars, TypeOK
  <2> QED
    BY <2>1, <2>2, <2>3, <2>4, StepType DEF Next, Operation, Accelerator
<1> QED
  BY <1>1, <1>2, PTL DEF Spec

-------------------------------------------------------------------------------
(* The only step that opens a row is a reservation, which fits the pool; the *)
(* number it takes was never used, so it opens a row that was not open.      *)
LEMMA OnlyReserveOpens ==
  ASSUME [Next]_vars
  PROVE  \/ open' \subseteq open /\ starts' = starts
         \/ \E p \in Process : Reserve(p)
<1>1. ASSUME NEW p \in Process, Step(p)
      PROVE  (open' \subseteq open /\ starts' = starts) \/ Reserve(p)
  <2> DEFINE Closes == open' \subseteq open /\ starts' = starts
  <2>1. Ask(p) \/ ReserveRefused(p) \/ SweepDone(p) \/ (\E u \in Users : SweepAsk(p, u))
           => Closes
    BY DEF Ask, ReserveRefused, SweepDone, SweepAsk
  <2>2. AnswerStatus(p) \/ AnswerStart(p) \/ SweepAnswer(p) => Closes
    BY ReconciledCloses DEF AnswerStatus, AnswerStart, SweepAnswer
  <2>3. AnswerStop(p) \/ CloseStopped(p) => Closes
    BY ReconciledCloses DEF AnswerStop, CloseStopped
  <2>4. Post(p) \/ PostFails(p) \/ PostStarted(p) => Closes
    BY DEF Post, PostFails, PostStarted
  <2>5. PostRaised(p) \/ Recheck(p) \/ Rechecked(p) => Closes
    BY DEF PostRaised, Recheck, Rechecked
  <2> QED
    BY <1>1, <2>1, <2>2, <2>3, <2>4, <2>5 DEF Step
<1>2. ASSUME NEW u \in Users, HubStep(u)
      PROVE  open' \subseteq open /\ starts' = starts
  BY <1>2 DEF HubStep
<1>3. ASSUME NEW p \in Requests, NEW u \in Users, NEW op, NEW accelerator,
             Receive(p, u, op, accelerator)
      PROVE  open' \subseteq open /\ starts' = starts
  BY <1>3 DEF Receive
<1>4. StartLoop \/ UNCHANGED vars => open' \subseteq open /\ starts' = starts
  BY DEF StartLoop, vars
<1> QED
  BY <1>1, <1>2, <1>3, <1>4 DEF Next

RowsNumbered == \A k \in open : k[2] <= starts

(* No open row has a number that was not yet given: the next reservation    *)
(* opens a new row.                                                         *)
LEMMA RowsNumberedInvariant == Spec => []RowsNumbered
<1>1. Init => RowsNumbered
  BY DEF Init, RowsNumbered
<1>2. TypeOK /\ RowsNumbered /\ [Next]_vars => RowsNumbered'
  <2> SUFFICES ASSUME TypeOK, RowsNumbered, [Next]_vars PROVE RowsNumbered'
    OBVIOUS
  <2>1. \A k \in open : k[2] \in Nat
    BY SessionsAssumption DEF TypeOK, Usage
  <2>2. starts \in Nat
    BY SessionsAssumption DEF TypeOK
  <2>3. CASE open' \subseteq open /\ starts' = starts
    BY <2>3 DEF RowsNumbered
  <2>4. ASSUME NEW p \in Process, Reserve(p) PROVE RowsNumbered'
    BY <2>1, <2>2, <2>4 DEF Reserve, RowsNumbered
  <2> QED
    BY <2>3, <2>4, OnlyReserveOpens
<1> QED
  BY <1>1, <1>2, TypeCorrect, PTL DEF Spec

(* The session rows of gpu_usage implement the abstract pool: a step of any  *)
(* request, of the reconcile loop or of the Hub closes rows, or opens one    *)
(* that fits the capacity it reads under the pool lock.                      *)
THEOREM SessionsImplementPool == Spec => PoolSpec
<1>1. Init => Pool!Init
  BY DEF Init, Pool!Init
<1>2. TypeOK /\ RowsNumbered /\ [Next]_vars => [Pool!Next]_open
  <2> SUFFICES ASSUME TypeOK, RowsNumbered, [Next]_vars PROVE [Pool!Next]_open
    OBVIOUS
  <2>1. CASE open' \subseteq open
    <3>1. open' = open \ (open \ open')
      BY <2>1
    <3>2. open' # open => open \ open' # {}
      BY <2>1
    <3> QED
      BY <3>1, <3>2 DEF Pool!Next, Pool!Release
  <2>2. ASSUME NEW p \in Process, Reserve(p) PROVE Pool!Next
    <3> DEFINE k == <<req[p].user, starts'>>
    <3>1. /\ starts \in Nat /\ starts' = starts + 1 /\ starts' \in 1..MaxStarts
          /\ req[p].user \in Users
      BY <2>2, SessionsAssumption DEF Reserve, TypeOK, Coroutine
    <3>2. k \in Usage
      BY <3>1 DEF Usage
    <3>3. k \notin open
      BY <3>1 DEF RowsNumbered
    <3>4. Pool!InUse(open) = InUse
      BY Zenon DEF Pool!InUse, InUse, Pool!Cardinality, Cardinality
    <3>5. Pool!Acquire(k)
      BY <2>2, <3>3, <3>4, Zenon DEF Reserve, Fits, Pool!Acquire
    <3> QED
      BY <3>2, <3>5 DEF Pool!Next
  <2> QED
    BY <2>1, <2>2, OnlyReserveOpens
<1> QED
  BY <1>1, <1>2, TypeCorrect, RowsNumberedInvariant, PTL DEF Spec, PoolSpec, Pool!Spec

(* Multiplication by a natural number is monotonic. *)
LEMMA Times ==
  ASSUME NEW a \in Nat, NEW b \in Nat, NEW c \in Nat, b <= c
  PROVE  a * b <= a * c
OBVIOUS

(* The GPUs reserved for sessions never exceed the capacity, however starts, *)
(* stops and sweeps interleave.                                              *)
ReservedWithinCapacity == InUse <= Capacity

(* It is an invariant, from the pool's own steps: closing rows frees GPUs,   *)
(* and open_usage() comes after require_gpu() under the pool lock.           *)
THEOREM ReservationsFit == Spec => []ReservedWithinCapacity
<1>1. TypeOK => IsFiniteSet(open)
  <2>1. IsFiniteSet(Usage)
    <3>1. IsFiniteSet(Users) /\ IsFiniteSet(1..MaxStarts)
      BY SessionsAssumption, FS_Interval
    <3> QED
      BY <3>1, FS_Product, Zenon DEF Usage
  <2> QED
    BY <2>1, FS_Subset DEF TypeOK
<1>2. Init => ReservedWithinCapacity
  BY FS_EmptySet, SessionsAssumption DEF Init, ReservedWithinCapacity, InUse
<1>3. TypeOK /\ ReservedWithinCapacity /\ [Next]_vars => ReservedWithinCapacity'
  <2> SUFFICES ASSUME TypeOK, ReservedWithinCapacity, [Next]_vars
               PROVE  ReservedWithinCapacity'
    OBVIOUS
  <2>1. IsFiniteSet(open) /\ Cardinality(open) \in Nat
    BY <1>1, FS_CardinalityType
  <2>2. CASE open' \subseteq open
    <3>1. Cardinality(open') <= Cardinality(open) /\ Cardinality(open') \in Nat
      BY <2>1, <2>2, FS_Subset, FS_CardinalityType
    <3>2. GpuCount * Cardinality(open') <= GpuCount * Cardinality(open)
      BY <2>1, <3>1, SessionsAssumption, Times
    <3> QED
      BY <2>1, <3>1, <3>2, SessionsAssumption DEF ReservedWithinCapacity, InUse
  <2>3. ASSUME NEW p \in Process, Reserve(p) PROVE ReservedWithinCapacity'
    <3>1. PICK k : open' = open \cup {k}
      BY <2>3 DEF Reserve
    <3>2. Cardinality(open') <= Cardinality(open) + 1 /\ Cardinality(open') \in Nat
      <4>1. IsFiniteSet(open') /\ Cardinality(open') = IF k \in open
               THEN Cardinality(open) ELSE Cardinality(open) + 1
        BY <2>1, <3>1, FS_AddElement, Zenon
      <4> QED
        BY <2>1, <4>1
    <3>3. GpuCount * Cardinality(open) + GpuCount <= Capacity
      BY <2>3 DEF Reserve, Fits, InUse
    <3>4. GpuCount * Cardinality(open') <= GpuCount * (Cardinality(open) + 1)
      BY <2>1, <3>2, SessionsAssumption, Times
    <3> QED
      BY <2>1, <3>2, <3>3, <3>4, SessionsAssumption DEF ReservedWithinCapacity, InUse
  <2> QED
    BY <2>2, <2>3, OnlyReserveOpens
<1> QED
  BY <1>2, <1>3, TypeCorrect, PTL DEF Spec
===============================================================================
