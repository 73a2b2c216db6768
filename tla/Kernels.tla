------------------------------ MODULE Kernels ------------------------------
(***************************************************************************)
(* Running cells of one user's documents in the kernels of their Jupyter   *)
(* server: kernel_for(), control_kernel(), execute() and its stream        *)
(* (notebook_editor.py), wait_for_kernel() (kernel_channels.py) and the    *)
(* sessions that remove_file() ends (notebook_drafts.py).  A draft and the *)
(* notebook saved from it share one folder, and so one scoped session;     *)
(* JupyterLab may open each of them under its own path.                    *)
(***************************************************************************)
EXTENDS Naturals, Sequences, SequencesExt

CONSTANTS
    Documents,   \* the draft and the saved notebook
    Requests,    \* browser requests
    MaxKernels,  \* bound on kernels
    Backlog,     \* bound on the cells a kernel has waiting
    None

KernelsAssumption ==
    /\ MaxKernels \in Nat /\ Backlog \in Nat
    /\ None \notin Documents \cup Requests \cup (1 .. MaxKernels)
    /\ "lab" \notin Requests /\ "scoped" \notin Documents

VARIABLES
    session,     \* Jupyter sessions: path to kernel
    started,     \* kernels started so far; their ids are not used again
    cells,       \* what each kernel runs and has waiting, by sender
    request,     \* where a request is: its step, document and kernel
    userLock,    \* user_lock(): the request that has it
    kernelLock   \* kernel_lock(): the request that has a kernel's lock

vars == <<session, started, cells, request, userLock, kernelLock>>

KernelIds == 1 .. MaxKernels

Paths == Documents \cup {"scoped"}

Idle == [pc |-> "idle", for |-> "execute", doc |-> None, kernel |-> None]

TypeOK ==
    /\ session \in [Paths -> KernelIds \cup {None}]
    /\ started \in 0 .. MaxKernels
    /\ cells \in [KernelIds -> UNION {[1 .. n -> Requests \cup {"lab"}] : n \in 0 .. Backlog}]
    /\ request \in [Requests -> [pc : {"idle", "lock", "sessions", "create", "control",
                                       "connect", "stream", "interrupt"},
                                 for : {"execute", "restart", "interrupt"},
                                 doc : Documents \cup {None}, kernel : KernelIds \cup {None}]]
    /\ userLock \in Requests \cup {None}
    /\ kernelLock \in [KernelIds -> Requests \cup {None}]

Init ==
    /\ session = [p \in Paths |-> None]
    /\ started = 0
    /\ cells = [k \in KernelIds |-> <<>>]
    /\ request = [r \in Requests |-> Idle]
    /\ userLock = None
    /\ kernelLock = [k \in KernelIds |-> None]

Alive(k) == \E p \in Paths : session[p] = k

\* A kernel, and the cells in it, go with its sessions.
End(paths) ==
    LET kept == [p \in Paths |-> IF p \in paths THEN None ELSE session[p]] IN
    /\ session' = kept
    /\ cells' = [k \in KernelIds |-> IF \E p \in Paths : kept[p] = k THEN cells[k] ELSE <<>>]

-----------------------------------------------------------------------------
(* JupyterLab, and the server.                                             *)

LabOpens(d) ==
    /\ session[d] = None
    /\ started < MaxKernels
    /\ started' = started + 1
    /\ session' = [session EXCEPT ![d] = started + 1]
    /\ UNCHANGED <<cells, request, userLock, kernelLock>>

LabRuns(k) ==
    /\ Alive(k)
    /\ Len(cells[k]) < Backlog
    /\ cells' = [cells EXCEPT ![k] = Append(@, "lab")]
    /\ UNCHANGED <<session, started, request, userLock, kernelLock>>

CellEnds(k) ==
    /\ cells[k] # <<>>
    /\ cells' = [cells EXCEPT ![k] = Tail(@)]
    /\ UNCHANGED <<session, started, request, userLock, kernelLock>>

ServerStops ==
    /\ \E k \in KernelIds : Alive(k)
    /\ End(Paths)
    /\ UNCHANGED <<started, request, userLock, kernelLock>>

-----------------------------------------------------------------------------
(* kernel_for(), under the user's lock.                                    *)

Ask(r, for, d) ==
    /\ request[r].pc = "idle"
    /\ request' = [request EXCEPT ![r] = [pc |-> "lock", for |-> for, doc |-> d, kernel |-> None]]
    /\ UNCHANGED <<started, userLock, kernelLock>>

Execute(r, d) == Ask(r, "execute", d) /\ UNCHANGED <<session, cells>>

\* A restart first ends the session that JupyterLab has on the document.
Control(r, action, d) ==
    /\ Ask(r, action, d)
    /\ IF action = "restart" THEN End({d}) ELSE UNCHANGED <<session, cells>>

TakeUserLock(r) ==
    /\ request[r].pc = "lock"
    /\ userLock = None
    /\ userLock' = r
    /\ request' = [request EXCEPT ![r].pc = "sessions"]
    /\ UNCHANGED <<session, started, cells, kernelLock>>

\* The answer of kernel_for().  execute() refuses a kernel that runs a cell for
\* another stream, and locks it without a pause in between.
Use(r, k) ==
    /\ userLock' = None
    /\ IF request[r].for # "execute"
       THEN /\ request' = [request EXCEPT ![r].pc = "control", ![r].kernel = k]
            /\ UNCHANGED kernelLock
       ELSE IF kernelLock[k] # None
       THEN /\ request' = [request EXCEPT ![r] = Idle]
            /\ UNCHANGED kernelLock
       ELSE /\ request' = [request EXCEPT ![r].pc = "connect", ![r].kernel = k]
            /\ kernelLock' = [kernelLock EXCEPT ![k] = r]

FindSession(r) ==
    /\ request[r].pc = "sessions"
    /\ LET found == {session[p] : p \in {request[r].doc, "scoped"}} \ {None} IN
       \/ /\ found = {}
          /\ request' = [request EXCEPT ![r].pc = "create"]
          /\ UNCHANGED <<userLock, kernelLock>>
       \/ \E k \in found : Use(r, k)
    /\ UNCHANGED <<session, started, cells>>

CreateSession(r) ==
    /\ request[r].pc = "create"
    /\ started < MaxKernels
    /\ started' = started + 1
    /\ session' = [session EXCEPT !["scoped"] = started + 1]
    /\ Use(r, started + 1)
    /\ UNCHANGED cells

\* The Hub fails before there is a kernel.
KernelFails(r) ==
    /\ request[r].pc \in {"sessions", "create"}
    /\ userLock' = None
    /\ request' = [request EXCEPT ![r] = Idle]
    /\ UNCHANGED <<session, started, cells, kernelLock>>

\* control_kernel(): what the kernel was asked to run is dropped.
ControlKernel(r) ==
    /\ request[r].pc = "control"
    /\ cells' = [cells EXCEPT ![request[r].kernel] = <<>>]
    /\ request' = [request EXCEPT ![r] = Idle]
    /\ UNCHANGED <<session, started, userLock, kernelLock>>

ControlFails(r) ==
    /\ request[r].pc = "control"
    /\ request' = [request EXCEPT ![r] = Idle]
    /\ UNCHANGED <<session, started, cells, userLock, kernelLock>>

-----------------------------------------------------------------------------
(* The stream of execute().                                                *)

\* wait_for_kernel(): a probe comes back when the kernel has nothing else to run;
\* then the code is sent, once.
SendCell(r) ==
    LET k == request[r].kernel IN
    /\ request[r].pc = "connect"
    /\ Alive(k)
    /\ cells[k] = <<>>
    /\ \E other \in {<<>>, <<"lab">>} : cells' = [cells EXCEPT ![k] = other \o <<r>>]
    /\ request' = [request EXCEPT ![r].pc = "stream"]
    /\ UNCHANGED <<session, started, userLock, kernelLock>>

Release(r) ==
    /\ kernelLock' = [kernelLock EXCEPT ![request[r].kernel] = None]
    /\ request' = [request EXCEPT ![r] = Idle]

\* The kernel says that the cell is done.
StreamDone(r) ==
    /\ request[r].pc = "stream"
    /\ Alive(request[r].kernel)
    /\ ~Contains(cells[request[r].kernel], r)
    /\ Release(r)
    /\ UNCHANGED <<session, started, cells, userLock>>

\* Mutant: the lock is given back before the interrupt is sent.
StreamFailsUnlocked(r) ==
    /\ request[r].pc \in {"connect", "stream"}
    /\ request' = [request EXCEPT ![r].pc = "interrupt"]
    /\ kernelLock' = [kernelLock EXCEPT ![request[r].kernel] = None]
    /\ UNCHANGED <<session, started, cells, userLock>>

\* A deadline, a lost connection, too much output, or a reader who left.
StreamFails(r) ==
    /\ request[r].pc \in {"connect", "stream"}
    /\ request' = [request EXCEPT ![r].pc = "interrupt"]
    /\ UNCHANGED <<session, started, cells, userLock, kernelLock>>

\* The cell is interrupted before the lock goes; a refused interrupt is ignored.
InterruptCell(r) ==
    LET k == request[r].kernel IN
    /\ request[r].pc = "interrupt"
    /\ \E answered \in BOOLEAN : cells' = IF answered THEN [cells EXCEPT ![k] = <<>>] ELSE cells
    /\ Release(r)
    /\ UNCHANGED <<session, started, userLock>>

\* remove_file() ends the sessions of a draft.
RemoveFile(d) ==
    /\ userLock = None
    /\ End({d, "scoped"})
    /\ UNCHANGED <<started, request, userLock, kernelLock>>

-----------------------------------------------------------------------------
Steps(r) ==
    \/ TakeUserLock(r) \/ FindSession(r) \/ CreateSession(r) \/ KernelFails(r)
    \/ ControlKernel(r) \/ ControlFails(r)
    \/ SendCell(r) \/ StreamDone(r) \/ StreamFails(r) \/ InterruptCell(r)

Next ==
    \/ ServerStops
    \/ \E d \in Documents : LabOpens(d) \/ RemoveFile(d)
    \/ \E k \in KernelIds : LabRuns(k) \/ CellEnds(k)
    \/ \E r \in Requests :
           \/ Steps(r)
           \/ \E d \in Documents :
                  Execute(r, d) \/ \E a \in {"restart", "interrupt"} : Control(r, a, d)

Spec == Init /\ [][Next]_vars

\* Every call has a deadline.
FairSpec == Spec /\ \A r \in Requests : WF_vars(Steps(r))

-----------------------------------------------------------------------------
(* Properties                                                              *)

\* The interrupt of a stream that failed never stops the cell of another stream, of
\* either document, which would look to its reader like a cell that failed by itself.
InterruptsOwnCell ==
    [][\A r \in Requests :
           (request[r].pc = "interrupt" /\ request'[r].pc = "idle") =>
               \A s \in Requests \ {r} :
                   request[s].pc = "stream" /\ request[s].kernel = request[r].kernel =>
                       ~Contains(cells[request[s].kernel], s)]_vars

\* "This notebook is already running a cell" does not last: every lock is given back.
KernelsAreFreed ==
    \A k \in KernelIds : kernelLock[k] # None ~> kernelLock[k] = None

\* Cells run undisturbed, and kernels are free again after them.
CellsServed == []TypeOK /\ InterruptsOwnCell /\ KernelsAreFreed
=============================================================================
