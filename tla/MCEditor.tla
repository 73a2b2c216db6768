----------------------------- MODULE MCEditor -------------------------------
(***************************************************************************)
(* The notebook editor's two parts, checked side by side: the draft and    *)
(* the notebook on a user's server (Workspace), and their kernels          *)
(* (Kernels).  Each behaviour follows one of the two, and the other keeps  *)
(* its initial state.                                                      *)
(***************************************************************************)
EXTENDS MCWorkspace

CONSTANTS Documents, Requests, MaxKernels, Backlog

VARIABLES focus, session, started, cells, request, userLock, kernelLock

kernels == <<session, started, cells, request, userLock, kernelLock>>

K == INSTANCE Kernels

ASSUME EditorAssumption == K!KernelsAssumption

MCInit ==
    /\ focus \in {"workspace", "kernels"} /\ Init /\ K!Init
    /\ focus = "kernels" => \A u \in Users : notebook[u] = "none"

MCNext ==
    \/ focus = "workspace" /\ Next /\ UNCHANGED <<focus, kernels>>
    \/ focus = "kernels" /\ K!Next /\ UNCHANGED <<focus, vars>>

\* The fairness of the two specifications, where each is followed
Drafts ==
    LET Here(A) == focus = "workspace" /\ A IN
    /\ WF_vars(Here(Tick))
    /\ WF_vars(Here(ThreadEnds))
    /\ WF_vars(Here(CleanSelect))
    /\ \A t \in Tabs : WF_vars(Here(TabStep(t))) /\ SF_vars(Here(Unblock(t)))
    /\ \A u \in Users :
           /\ SF_vars(Here(CleanLock(u)))
           /\ SF_vars(Here(CleanRemove(u)))
           /\ WF_vars(Here(CleanRemove(u) \/ CleanFails(u)))

Cells == \A r \in Requests : WF_kernels(focus = "kernels" /\ K!Steps(r))

MCSpec == MCInit /\ [][MCNext]_<<focus, vars, kernels>> /\ Drafts /\ Cells

-----------------------------------------------------------------------------
\* The interrupt of a stream that failed never stops the cell of another stream, and
\* every lock of a kernel is given back (notebook_editor.py).
CellsServed == K!CellsServed
=============================================================================
