------------------------------ MODULE Pipeline ------------------------------
(***************************************************************************)
(* The build-and-deploy pipeline: one `run' or `rollback' at a time (the   *)
(* lock of main()), the working tree it builds from, the registry, the     *)
(* objects of the cluster and the recorded releases (deploy/pipeline.py,   *)
(* overlay.py).  Every command it calls may fail, and it may be killed.    *)
(* Downloads of dependencies, log files and local images are left out.     *)
(***************************************************************************)
EXTENDS Naturals, Sequences

CONSTANTS
    Sources,      \* the trees that people write: [component -> version], in order
    Broken,       \* <<component, version>> that cannot become healthy
    MaxReleases   \* bound on recorded releases

Components == {"api", "hub", "web", "runtime"}

PipelineAssumption ==
    /\ Sources \in Seq([Components -> Nat \ {0}]) /\ Sources # <<>>
    /\ MaxReleases \in Nat

VARIABLES
    tree,       \* the working tree, as an index of Sources
    head,       \* the commit
    registry,   \* what was pushed under a tag src-<hash>: the version it was built from
    cluster,    \* the objects as they were last applied
    releases,   \* releases/<id>/release.json, oldest first
    current,    \* releases/current, or 0
    command,    \* where the command is
    settled     \* history: the last deploy that touched the cluster ended well

vars == <<tree, head, registry, cluster, releases, current, command, settled>>

Versions(c) == {Sources[k][c] : k \in DOMAIN Sources}

AllVersions == UNION {Versions(c) : c \in Components}

Images == [Components -> AllVersions]

\* The images of the tags that component_image() computes from HEAD.
ImagesOf(commit) == Sources[commit]

Objects == {"config", "api", "evaluation-worker", "jupyterhub", "web", "prepull"}

\* render(): what is applied.  Pods carry a hash of the configuration, which names the
\* runtime image, and restart when it changes.
Manifest(images) ==
    [o \in Objects |->
        CASE o \in {"api", "evaluation-worker"} -> <<images["api"], images["runtime"]>>
          [] o = "jupyterhub" -> <<images["hub"], images["runtime"]>>
          [] o = "web" -> <<images["web"]>>
          [] o \in {"config", "prepull"} -> <<images["runtime"]>>]

\* live_images()
Live == [c \in Components |->
            CASE c = "api" -> cluster["api"][1]
              [] c = "hub" -> cluster["jupyterhub"][1]
              [] c = "web" -> cluster["web"][1]
              [] c = "runtime" -> cluster["config"][1]]

\* smoke_test() and the rollouts before it
Healthy == \A c \in Components : <<c, Live[c]>> \notin Broken

Idle == [pc |-> "idle", mode |-> "run", keep |-> FALSE, snapshot |-> 1,
         images |-> Sources[1], live |-> Sources[1], previous |-> 0, release |-> 0]

TypeOK ==
    /\ tree \in DOMAIN Sources /\ head \in DOMAIN Sources
    /\ registry \in [Components -> [AllVersions -> AllVersions \cup {0}]]
    /\ DOMAIN cluster = Objects
    /\ settled \in BOOLEAN
    /\ Len(releases) <= MaxReleases
    /\ \A k \in DOMAIN releases : releases[k] \in
           [images : Images, status : {"baseline", "deploying", "deployed", "failed", "cancelled"}]
    /\ current \in 0 .. Len(releases)
    /\ command \in [pc : {"idle", "plan", "build", "record", "compare", "deploy", "apply",
                          "verify", "finish"},
                    mode : {"run", "undo", "rollback"}, keep : BOOLEAN,
                    snapshot : DOMAIN Sources, images : Images, live : Images,
                    previous : 0 .. MaxReleases, release : 0 .. MaxReleases]

Init ==
    /\ tree = 1 /\ head = 1
    /\ registry = [c \in Components |->
           [v \in AllVersions |-> IF v = Sources[1][c] THEN v ELSE 0]]
    /\ cluster = Manifest(Sources[1])
    /\ releases = <<>>
    /\ current = 0
    /\ command = Idle
    /\ settled = TRUE

-----------------------------------------------------------------------------
(* People.                                                                 *)

Edit ==
    /\ tree < Len(Sources)
    /\ tree' = tree + 1
    /\ UNCHANGED <<head, registry, cluster, releases, current, command, settled>>

CommitTree ==
    /\ head < tree
    /\ head' = tree
    /\ UNCHANGED <<tree, registry, cluster, releases, current, command, settled>>

-----------------------------------------------------------------------------
(* command_run(), up to the cluster.                                       *)

Release(images, status) == [images |-> images, status |-> status]

\* No uncommitted changes; ensure_baseline(); the snapshot of the working tree.
StartRun(keep) ==
    /\ command.pc = "idle"
    /\ tree = head
    /\ Len(releases) + (IF current = 0 THEN 2 ELSE 1) <= MaxReleases
    /\ IF current = 0
       THEN /\ releases' = Append(releases, Release(Live, "baseline"))
            /\ current' = Len(releases) + 1
       ELSE UNCHANGED <<releases, current>>
    /\ command' = [Idle EXCEPT !.pc = "plan", !.keep = keep, !.snapshot = tree,
                               !.previous = current']
    /\ UNCHANGED <<tree, head, registry, cluster, settled>>

\* compute_plan() names the images after what HEAD is now.
ComputePlan ==
    /\ command.pc = "plan"
    /\ command' = [command EXCEPT !.pc = "build", !.images = ImagesOf(head), !.live = Live]
    /\ UNCHANGED <<tree, head, registry, cluster, releases, current, settled>>

ToBuild ==
    {c \in Components : /\ command.live[c] # command.images[c]
                        /\ registry[c][command.images[c]] = 0}

\* Tests, then build() and push() of each image, from the snapshot; one of them may fail.
Build ==
    /\ command.pc = "build"
    /\ \E built \in SUBSET ToBuild :
           /\ registry' = [c \in Components |->
                  IF c \in built
                  THEN [registry[c] EXCEPT ![command.images[c]] = Sources[command.snapshot][c]]
                  ELSE registry[c]]
           /\ command' = IF built = ToBuild THEN [command EXCEPT !.pc = "record"] ELSE Idle
    /\ UNCHANGED <<tree, head, cluster, releases, current, settled>>

\* new_release()
Record ==
    /\ command.pc = "record"
    /\ releases' = Append(releases, Release(command.images, "deploying"))
    /\ command' = [command EXCEPT !.pc = "compare", !.release = Len(releases) + 1]
    /\ UNCHANGED <<tree, head, registry, cluster, current, settled>>

\* manifest_changes() finds nothing to do.
NothingToDeploy ==
    /\ command.pc = "compare"
    /\ cluster = Manifest(command.images)
    /\ releases' = [releases EXCEPT ![command.release].status = "deployed"]
    /\ current' = command.release
    /\ command' = Idle
    /\ settled' = TRUE
    /\ UNCHANGED <<tree, head, registry, cluster>>

Interrupts == command.live["api"] # command.images["api"]

\* active_evaluations() finds Jobs that a new API would interrupt, and stops the run.
Postpone ==
    /\ command.pc = "compare"
    /\ cluster # Manifest(command.images)
    /\ Interrupts
    /\ releases' = [releases EXCEPT ![command.release].status = "cancelled"]
    /\ command' = Idle
    /\ UNCHANGED <<tree, head, registry, cluster, current, settled>>

\* There are none, or --force was given.
StartDeploy ==
    /\ command.pc = "compare"
    /\ cluster # Manifest(command.images)
    /\ command' = [command EXCEPT !.pc = "deploy"]
    /\ UNCHANGED <<tree, head, registry, cluster, releases, current, settled>>

-----------------------------------------------------------------------------
(* deploy() of a run, of its undoing, or of a rollback.                    *)

Target == releases[command.release].images

\* A runtime image that is not live is cached on every node first, which is waited for.
Prepull ==
    /\ command.pc = "deploy"
    /\ settled' = FALSE
    /\ cluster' = IF Target["runtime"] # command.live["runtime"]
                  THEN [cluster EXCEPT !["prepull"] = <<Target["runtime"]>>]
                  ELSE cluster
    /\ command' = [command EXCEPT !.pc = "apply"]
    /\ UNCHANGED <<tree, head, registry, releases, current>>

Apply ==
    /\ command.pc = "apply"
    /\ cluster' = Manifest(Target)
    /\ command' = [command EXCEPT !.pc = "verify"]
    /\ UNCHANGED <<tree, head, registry, releases, current, settled>>

Verify ==
    /\ command.pc = "verify"
    /\ Healthy
    /\ releases' = IF command.mode = "run"
                   THEN [releases EXCEPT ![command.release].status = "deployed"]
                   ELSE releases
    /\ command' = [command EXCEPT !.pc = "finish"]
    /\ UNCHANGED <<tree, head, registry, cluster, current, settled>>

\* Mutant: the release is not made the current one.
FinishKeepsCurrent ==
    /\ command.pc = "finish"
    /\ command' = Idle
    /\ settled' = TRUE
    /\ UNCHANGED <<tree, head, registry, cluster, releases, current>>

\* set_current()
Finish ==
    /\ command.pc = "finish"
    /\ current' = command.release
    /\ command' = Idle
    /\ settled' = TRUE
    /\ UNCHANGED <<tree, head, registry, cluster, releases>>

\* redeploy() of the previous release, after another look at the cluster
Undo ==
    command' = [command EXCEPT !.pc = "deploy", !.mode = "undo", !.release = command.previous,
                               !.live = Live']

\* A command of deploy() fails; `oc apply' may have applied some of the objects.
DeployFails ==
    /\ command.pc \in {"deploy", "apply", "verify"}
    /\ \E applied \in SUBSET {o \in Objects : cluster[o] # Manifest(Target)[o]} :
           /\ command.pc # "apply" => applied = {}
           /\ cluster' = [o \in Objects |->
                  IF o \in applied THEN Manifest(Target)[o] ELSE cluster[o]]
    /\ settled' = FALSE
    /\ IF command.mode = "run"
       THEN /\ releases' = [releases EXCEPT ![command.release].status = "failed"]
            /\ IF command.keep THEN command' = Idle ELSE Undo
       ELSE /\ command' = Idle
            /\ UNCHANGED releases
    /\ UNCHANGED <<tree, head, registry, current>>

\* command_rollback(), to an earlier release or to a chosen one
Rollback ==
    /\ command.pc = "idle"
    /\ \E k \in DOMAIN releases :
           /\ releases[k].status \in {"deployed", "baseline"}
           /\ command' = [Idle EXCEPT !.pc = "deploy", !.mode = "rollback", !.release = k,
                                      !.live = Live]
    /\ UNCHANGED <<tree, head, registry, cluster, releases, current, settled>>

\* Another command of the run fails, or the process is killed anywhere.
Killed ==
    /\ command.pc # "idle"
    /\ command' = Idle
    /\ UNCHANGED <<tree, head, registry, cluster, releases, current, settled>>

-----------------------------------------------------------------------------
Next ==
    \/ Edit \/ CommitTree
    \/ \E keep \in BOOLEAN : StartRun(keep)
    \/ ComputePlan \/ Build \/ Record
    \/ NothingToDeploy \/ Postpone \/ StartDeploy
    \/ Prepull \/ Apply \/ Verify \/ Finish \/ DeployFails
    \/ Rollback \/ Killed

Spec == Init /\ [][Next]_vars

-----------------------------------------------------------------------------
(* Properties                                                              *)

\* What the pipeline says is current is what the cluster runs, once a deploy, its
\* undoing after a failure or a rollback went well, however many failed, postponed or
\* killed runs, also half applied ones, came before and after.
CurrentServes ==
    command.pc = "idle" /\ settled /\ current # 0 =>
        /\ cluster = Manifest(releases[current].images)
        /\ releases[current].status \in {"deployed", "baseline"}

\* pipeline.py:1-6: "Builds only components whose committed sources changed" under tags
\* of their sources: what a tag names was built from those sources.
TagsNameSources ==
    \A c \in Components, v \in AllVersions : registry[c][v] \in {0, v}

\* pipeline.py:7: "run  test, build, push, deploy and verify": what is listed as deployed,
\* and so may be rolled back to, was healthy when it was.
DeployedWasVerified ==
    \A k \in DOMAIN releases, c \in Components :
        releases[k].status = "deployed" => <<c, releases[k].images[c]>> \notin Broken
=============================================================================
