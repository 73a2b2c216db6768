------------------------------- MODULE GpuPool -------------------------------
(***************************************************************************)
(* What the gpu_usage table promises, whoever allocates: a workload that   *)
(* holds GPUs holds GpuCount of them, and the rows that are open together  *)
(* never hold more than the gpu_capacity setting.  Interactive sessions,   *)
(* background runs and exercise attempts all allocate from this pool; the  *)
(* detailed modules implement it.                                          *)
(***************************************************************************)
EXTENDS Naturals, FiniteSets

CONSTANTS
    Holder,     \* every workload that may own an open gpu_usage row
    GpuCount,   \* NOTEBOOK_GPU_COUNT, the GPUs of one workload
    Capacity    \* the gpu_capacity setting

VARIABLE holders    \* the workloads with an open row

(* in_use(): the GPUs of the open rows. *)
InUse(set) == GpuCount * Cardinality(set)

Init == holders = {}

Acquire(h) ==
    /\ h \notin holders
    /\ InUse(holders) + GpuCount <= Capacity
    /\ holders' = holders \cup {h}

(* Several rows may close together: a restart closes all of them. *)
Release == \E gone \in SUBSET holders :
              gone # {} /\ holders' = holders \ gone

Next == Release \/ \E h \in Holder : Acquire(h)

Spec == Init /\ [][Next]_holders

(* Only known workloads hold GPUs. *)
TypeOK == holders \subseteq Holder

(* The open allocations never exceed the configured capacity. *)
WithinCapacity == InUse(holders) <= Capacity
==============================================================================
