----------------------------- MODULE GpuSessions -----------------------------
(***************************************************************************)
(* Interactive notebook servers: start, stop and status requests of        *)
(* notebook_runtime.py, the background reconcile_gpu_sessions() loop, and  *)
(* JupyterHub, which holds the truth about the servers.                    *)
(*                                                                         *)
(* The handlers are coroutines: every call to the Hub is an await, where   *)
(* other requests (of other tabs, users or API replicas) run.  A Hub       *)
(* answer is a snapshot that is used only when the coroutine resumes.      *)
(***************************************************************************)
EXTENDS Integers, FiniteSets

CONSTANTS
    Users,
    Requests,      \* requests in flight at once, over all users
    Loop,          \* the background loop
    GpuCount, Capacity,
    MaxStarts,     \* bound: GPU reservations ever made
    LostAnswers    \* BOOLEAN: a Hub answer to a start may be lost

ASSUME SessionsAssumption ==
    /\ IsFiniteSet(Users) /\ Users # {}
    /\ Loop \notin Requests
    /\ GpuCount \in Nat \ {0} /\ Capacity \in Nat /\ MaxStarts \in Nat
    /\ LostAnswers \in BOOLEAN

Process == Requests \cup {Loop}
ServerState == {"stopped", "starting", "ready", "stopping"}
Accelerator == {"cpu", "gpu"}
Usage == Users \X (1..MaxStarts)      \* gpu_usage rows of kind "session"
NoRow == <<>>
Operation == {"status", "start", "stop"}
(* What the Hub said of a server, or of the request to start one. *)
Answer == ServerState \cup {"started", "400", "error"}

VARIABLES
    hub,       \* [Users -> [state, accelerator]]: the user's server at the Hub
    open,      \* gpu_usage rows with ended_at null
    starts,    \* reservations made so far
    req        \* [Process -> ...]: the coroutines

vars == <<hub, open, starts, req>>

RowsOf(u) == {k \in open : k[1] = u}
InUse == GpuCount * Cardinality(open)

Pc == {"idle", "ask", "answered", "sweep", "swept", "reserve", "post", "posted",
       "recheck", "close"}
(* A coroutine: the request and what it has read or reserved so far.  In a   *)
(* sweep "swept" is the user that was asked for and the Hub's answer.        *)
Coroutine == [pc : Pc, op : Operation, user : Users, accelerator : Accelerator,
              state : Answer, row : {NoRow} \cup Usage,
              swept : {NoRow} \cup (Users \X ServerState), todo : SUBSET Users]
Free == [pc |-> "idle", op |-> "status", user |-> CHOOSE u \in Users : TRUE,
         accelerator |-> "cpu", state |-> "stopped", row |-> NoRow, swept |-> NoRow,
         todo |-> {}]

Init ==
    /\ hub = [u \in Users |-> [state |-> "stopped", accelerator |-> "cpu"]]
    /\ open = {} /\ starts = 0
    /\ req = [p \in Process |-> Free]

Goto(p, pc) == req' = [req EXCEPT ![p].pc = pc]
Return(p) == req' = [req EXCEPT ![p] = Free]
State(u) == hub[u].state

-------------------------------------------------------------------------------
(* JupyterHub: a spawn ends, a server stops by itself or finishes stopping. *)

HubStep(u) ==
    /\ \E state \in ServerState :
          /\ \/ State(u) = "starting" /\ state \in {"ready", "stopped"}
             \/ State(u) = "ready" /\ state = "stopped"
             \/ State(u) = "stopping" /\ state = "stopped"
          /\ hub' = [hub EXCEPT ![u].state = state]
    /\ UNCHANGED <<open, starts, req>>

-------------------------------------------------------------------------------
(* Requests *)

Receive(p, u, op, accelerator) ==
    /\ p \in Requests /\ req[p].pc = "idle"
    /\ req' = [req EXCEPT ![p] = [Free EXCEPT !.pc = "ask", !.op = op, !.user = u,
                                              !.accelerator = accelerator]]
    /\ UNCHANGED <<hub, open, starts>>

(* hub.status() *)
Ask(p) ==
    /\ req[p].pc = "ask"
    /\ req' = [req EXCEPT ![p].pc = "answered", ![p].state = State(req[p].user)]
    /\ UNCHANGED <<hub, open, starts>>

(* reconcile_session() *)
Reconciled(u, state) == IF state = "stopped" THEN open \ RowsOf(u) ELSE open

(* Mutant: only a user's own poll closes the rows of a stopped server. *)
SweepAnswerKeeps(p) ==
    /\ req[p].pc = "swept"
    /\ req' = [req EXCEPT ![p].pc = "sweep", ![p].swept = NoRow]
    /\ UNCHANGED <<hub, open, starts>>

AnswerStatus(p) ==
    /\ req[p].pc = "answered" /\ req[p].op = "status"
    /\ open' = Reconciled(req[p].user, req[p].state)
    /\ Return(p)
    /\ UNCHANGED <<hub, starts>>

(* ensure_server() up to its reservation: a server that is not stopped is    *)
(* returned, or refused with 409 when it runs on the other accelerator.      *)
AnswerStart(p) ==
    /\ req[p].pc = "answered" /\ req[p].op = "start"
    /\ open' = Reconciled(req[p].user, req[p].state)
    /\ IF req[p].state # "stopped" THEN Return(p)
       ELSE IF req[p].accelerator = "cpu" THEN Goto(p, "post")
       ELSE req' = [req EXCEPT ![p].pc = "sweep",
                               ![p].todo = {k[1] : k \in open'}]
    /\ UNCHANGED <<hub, starts>>

AnswerStop(p) ==
    /\ req[p].pc = "answered" /\ req[p].op = "stop"
    /\ IF req[p].state = "ready"
       THEN /\ \/ /\ State(req[p].user) = "ready"
                  /\ \E state \in {"stopped", "stopping"} :
                        hub' = [hub EXCEPT ![req[p].user].state = state]
               \/ State(req[p].user) # "ready" /\ hub' = hub
            /\ Goto(p, "close") /\ open' = open
       ELSE /\ open' = IF req[p].state = "starting" THEN open
                       ELSE Reconciled(req[p].user, req[p].state)
            /\ Return(p) /\ hub' = hub
    /\ UNCHANGED starts

(* close_usage(db, "session", user_id) after the Hub confirmed the DELETE. *)
CloseStopped(p) ==
    /\ req[p].pc = "close"
    /\ open' = open \ RowsOf(req[p].user)
    /\ Return(p)
    /\ UNCHANGED <<hub, starts>>

-------------------------------------------------------------------------------
(* reconcile_all_sessions(): one Hub call per user with an open row *)

StartLoop ==
    /\ req[Loop].pc = "idle" /\ open # {}
    /\ req' = [req EXCEPT ![Loop].pc = "sweep", ![Loop].todo = {k[1] : k \in open}]
    /\ UNCHANGED <<hub, open, starts>>

SweepAsk(p, u) ==
    /\ req[p].pc = "sweep" /\ u \in req[p].todo
    /\ req' = [req EXCEPT ![p].pc = "swept", ![p].todo = @ \ {u},
                          ![p].swept = <<u, State(u)>>]
    /\ UNCHANGED <<hub, open, starts>>

SweepAnswer(p) ==
    /\ req[p].pc = "swept"
    /\ open' = Reconciled(req[p].swept[1], req[p].swept[2])
    /\ req' = [req EXCEPT ![p].pc = "sweep", ![p].swept = NoRow]
    /\ UNCHANGED <<hub, starts>>

SweepDone(p) ==
    /\ req[p].pc = "sweep" /\ req[p].todo = {}
    /\ IF p = Loop THEN Return(p) ELSE Goto(p, "reserve")
    /\ UNCHANGED <<hub, open, starts>>

-------------------------------------------------------------------------------
(* lock_pool(), require_gpu(), open_usage(), commit: no await in between *)

Fits == InUse + GpuCount <= Capacity

ReserveRefused(p) ==
    /\ req[p].pc = "reserve"      \* over capacity, over quota, or GPUs are off
    /\ Return(p)
    /\ UNCHANGED <<hub, open, starts>>

Reserve(p) ==
    /\ req[p].pc = "reserve" /\ starts < MaxStarts
    /\ Fits
    /\ starts' = starts + 1
    /\ open' = open \cup {<<req[p].user, starts'>>}
    /\ req' = [req EXCEPT ![p].pc = "post", ![p].row = <<req[p].user, starts'>>]
    /\ UNCHANGED hub

(* POST /users/{name}/server: 400 unless the server is stopped. *)
Post(p) ==
    /\ req[p].pc = "post"
    /\ IF State(req[p].user) = "stopped"
       THEN /\ \E state \in {"starting", "ready"} :
                  hub' = [hub EXCEPT ![req[p].user] =
                             [state |-> state, accelerator |-> req[p].accelerator]]
            /\ \E answer \in {"started"} \cup (IF LostAnswers THEN {"error"} ELSE {}) :
                  req' = [req EXCEPT ![p].pc = "posted", ![p].state = answer]
       ELSE /\ req' = [req EXCEPT ![p].pc = "posted", ![p].state = "400"]
            /\ hub' = hub
    /\ UNCHANGED <<open, starts>>

(* The Hub refuses the spawn or cannot be reached: nothing was started. *)
PostFails(p) ==
    /\ req[p].pc = "post"
    /\ req' = [req EXCEPT ![p].pc = "posted", ![p].state = "error"]
    /\ UNCHANGED <<hub, open, starts>>

PostStarted(p) ==
    /\ req[p].pc = "posted" /\ req[p].state = "started"
    /\ Return(p)
    /\ UNCHANGED <<hub, open, starts>>

(* except Exception: db.delete(reservation) *)
PostRaised(p) ==
    /\ req[p].pc = "posted" /\ req[p].state = "error"
    /\ open' = open \ {req[p].row}
    /\ Return(p)
    /\ UNCHANGED <<hub, starts>>

Recheck(p) ==
    /\ req[p].pc = "posted" /\ req[p].state = "400"
    /\ req' = [req EXCEPT ![p].pc = "recheck", ![p].state = State(req[p].user)]
    /\ UNCHANGED <<hub, open, starts>>

(* Another request started the server; only a second reservation is dropped. *)
Rechecked(p) ==
    /\ req[p].pc = "recheck"
    /\ open' = IF \/ req[p].state \notin {"starting", "ready"}
                  \/ Cardinality(RowsOf(req[p].user)) > 1
               THEN open \ {req[p].row} ELSE open
    /\ Return(p)
    /\ UNCHANGED <<hub, starts>>

Step(p) ==
    \/ Ask(p) \/ AnswerStatus(p) \/ AnswerStart(p) \/ AnswerStop(p) \/ CloseStopped(p)
    \/ (\E u \in Users : SweepAsk(p, u)) \/ SweepAnswer(p) \/ SweepDone(p)
    \/ ReserveRefused(p) \/ Reserve(p) \/ Post(p) \/ PostFails(p) \/ PostStarted(p)
    \/ PostRaised(p) \/ Recheck(p) \/ Rechecked(p)

Next ==
    \/ \E u \in Users : HubStep(u)
    \/ \E p \in Requests, u \in Users :
          \/ \E op \in {"status", "stop"} : Receive(p, u, op, "cpu")
          \/ \E accelerator \in Accelerator : Receive(p, u, "start", accelerator)
    \/ StartLoop
    \/ \E p \in Process : Step(p)

Spec == Init /\ [][Next]_vars
FairSpec == Spec /\ WF_vars(StartLoop) /\ \A p \in Process : WF_vars(Step(p))

-------------------------------------------------------------------------------
(* Properties *)

(* Servers, gpu_usage rows and coroutines have their types. *)
TypeOK ==
    /\ hub \in [Users -> [state : ServerState, accelerator : Accelerator]]
    /\ open \subseteq Usage /\ starts \in 0..MaxStarts
    /\ req \in [Process -> Coroutine]

(* Reservations never exceed gpu_capacity: requests that passed the check    *)
(* together do not both reserve the last GPU.                                *)
Pool == INSTANCE GpuPool WITH Holder <- Usage, holders <- open
PoolSpec == Pool!Spec

(* A row of a server that is not running is closed in the end, also when the *)
(* browser is gone: a reservation never holds the pool for good.             *)
StoppedIsReleased ==
    \A u \in Users : (RowsOf(u) # {} /\ State(u) = "stopped")
                        ~> (RowsOf(u) = {} \/ State(u) # "stopped")

(* "Reserve before starting, so a concurrent start sees the GPU as           *)
(* allocated" (notebook_runtime.py); "concurrent starts cannot exceed        *)
(* capacity" (docs/compute.md).                                              *)
StartsWithinCapacity ==
    GpuCount * Cardinality({u \in Users : /\ hub[u].accelerator = "gpu"
                                          /\ State(u) \in {"starting", "ready"}}) <= Capacity
===============================================================================
