----------------------------- MODULE Sandboxes -----------------------------
(***************************************************************************)
(* Live sandboxes, the warm pool and snapshot artifacts: the sandbox       *)
(* router, SandboxService and its two providers (a Docker daemon, a        *)
(* Kubernetes namespace), the warm-pool refresh, the lifecycle sweep and   *)
(* the snapshot routes.  Neither the daemon nor the API server offers a    *)
(* transaction, so every call to them is a step of its own and any step    *)
(* may be the last one of its thread (an exception, a cancelled request,   *)
(* a lost process).                                                        *)
(*                                                                         *)
(* Sandboxes are numbered in the order they are generated, which is the    *)
(* order "oldest first" refers to.  All belong to one template.  The        *)
(* proxies keep no state of their own and are left out, as is the content  *)
(* of a workspace.                                                         *)
(***************************************************************************)
EXTENDS Naturals, FiniteSets, FiniteSetsExt

CONSTANTS
    Requests,    \* threads that serve requests and lifecycle sweeps
    Loops,       \* warm-pool refresh loops: one per process, none elected
    ProcessOf,   \* the application process of a thread (the claim lock is per process)
    Configs,     \* sandbox configs: the owners of claimed sandboxes
    Warm, Nobody,
    Snapshots, NoSnapshot,
    MaxBoxes,    \* bound: sandboxes ever generated
    MaxTarget,   \* bound: num_warm
    LoopKey      \* what the refresh passes as template_id: "tag" or "uuid"

ASSUME WarmAssumption == /\ {Warm, Nobody} \cap Configs = {} /\ Warm # Nobody
                         /\ Requests \cap Loops = {} /\ NoSnapshot \notin Snapshots
                         /\ IsFiniteSet(Loops)
ASSUME BoundAssumption == MaxBoxes \in Nat /\ MaxTarget \in Nat /\ LoopKey \in {"tag", "uuid"}

VARIABLES
    provider,    \* which SandboxService this deployment configures
    made,        \* sandbox ids generated so far
    box,         \* containers / Deployments
    disk,        \* workspace directories / PersistentVolumeClaims
    service,     \* Kubernetes Services
    tar,         \* snapshot_dir: the tarball of a snapshot
    rows,        \* committed sandbox_snapshot rows
    act          \* what each thread is doing

vars == <<provider, made, box, disk, service, tar, rows, act>>
cluster == <<made, box, disk, service>>

Threads == Requests \cup Loops
Ids == 1..MaxBoxes
Docker == provider = "docker"
Absent == [owner |-> Nobody, life |-> "none", stamp |-> FALSE]
Exists(b) == box[b].owner # Nobody
Claimed == {b \in Ids : box[b].owner \in Configs}
WarmBoxes == {b \in Ids : box[b].owner = Warm}

Idle == [op |-> "none", pc |-> "idle", box |-> 0, owner |-> Nobody, life |-> "none",
         cands |-> {}, mark |-> {}, count |-> 0, goal |-> 0, snap |-> NoSnapshot]

(* A thread goes on as `next'; a write to sandbox b makes the resource      *)
(* versions other claims have listed for it stale.                         *)
Go(t, next, b) ==
    act' = [u \in Threads |->
              IF u = t THEN next
              ELSE IF act[u].pc = "patch" THEN [act[u] EXCEPT !.mark = @ \cup ({b} \cap act[u].cands)]
              ELSE act[u]]

(* What follows the last step on one sandbox: the next sandbox of a sweep, *)
(* the next turn of a refresh, or the answer to the request.               *)
After(t, count) ==
    CASE act[t].op = "refresh" ->
           [Idle EXCEPT !.op = "refresh", !.pc = "turn", !.count = count, !.goal = act[t].goal]
      [] act[t].op = "sweep" ->
           [Idle EXCEPT !.op = "sweep", !.pc = "sweep", !.cands = act[t].cands, !.mark = act[t].mark]
      [] OTHER -> Idle
Done(t) == After(t, act[t].count)

At(t, pc) == act[t].pc = pc
Begin(op, pc) == [Idle EXCEPT !.op = op, !.pc = pc]
ColdStart == IF Docker THEN "workspace" ELSE "pvc"

Init ==
    /\ provider \in {"docker", "k8s"}
    /\ made = 0
    /\ box = [b \in Ids |-> Absent]
    /\ disk = {}
    /\ service = {}
    /\ tar = [n \in Snapshots |-> "none"]
    /\ rows = {}
    /\ act = [t \in Threads |-> Idle]

-----------------------------------------------------------------------------
(* Creation.                                                               *)

(* POST /sandbox/sandboxes: a warm sandbox is claimed unless a snapshot is *)
(* to be restored.                                                         *)
CreateSandbox(t, c, n) ==
    /\ At(t, "idle")
    /\ act' = [act EXCEPT ![t] = [Begin("create", IF n = NoSnapshot THEN "list" ELSE ColdStart)
                                  EXCEPT !.owner = c, !.snap = n]]
    /\ UNCHANGED <<provider, cluster, tar, rows>>

(* The claim of Docker runs under the lock of its process from the listing *)
(* to the return.                                                          *)
ClaimLock(t) == \A u \in Threads \ {t} : ProcessOf[u] = ProcessOf[t] =>
                                            act[u].pc \notin {"rename", "unpause"}

DockerListWarm(t) ==
    /\ Docker /\ At(t, "list") /\ ClaimLock(t)
    /\ act' = [act EXCEPT ![t] =
                 IF WarmBoxes = {} THEN [@ EXCEPT !.pc = "workspace"]
                 ELSE [@ EXCEPT !.pc = "rename", !.cands = WarmBoxes]]
    /\ UNCHANGED <<provider, cluster, tar, rows>>

(* The rename addresses the container by its id, so it also succeeds on a  *)
(* container somebody else has renamed since it was listed.                *)
DockerRename(t) ==
    /\ Docker /\ At(t, "rename")
    /\ LET b == Min(act[t].cands)
           rest == act[t].cands \ {b}
       IN \/ /\ Exists(b) /\ box[b].owner # act[t].owner
             /\ box' = [box EXCEPT ![b].owner = act[t].owner]
             /\ act' = [act EXCEPT ![t] = [@ EXCEPT !.pc = "unpause", !.box = b, !.cands = {}]]
          \/ /\ ~Exists(b) \/ box[b].owner = act[t].owner
             /\ act' = [act EXCEPT ![t] =
                          [act[t] EXCEPT !.cands = rest, !.pc = IF rest = {} THEN "workspace" ELSE @]]
             /\ UNCHANGED box
    /\ UNCHANGED <<provider, made, disk, service, tar, rows>>

(* Unpausing what is gone or not paused is an error.  The attributes of    *)
(* the container object still hold the warm name, which reads as "no       *)
(* sandbox": the caller goes on to create one.                             *)
DockerUnpause(t) ==
    /\ Docker /\ At(t, "unpause")
    /\ LET b == act[t].box
       IN \/ /\ box[b].life = "paused"
             /\ box' = [box EXCEPT ![b].life = "running"]
             /\ act' = [act EXCEPT ![t] = [@ EXCEPT !.pc = "workspace", !.box = 0]]
          \/ /\ box[b].life # "paused"
             /\ act' = [act EXCEPT ![t] = Idle]
             /\ UNCHANGED box
    /\ UNCHANGED <<provider, made, disk, service, tar, rows>>

DockerWorkspace(t) ==
    /\ Docker /\ At(t, "workspace") /\ made < MaxBoxes
    /\ act[t].snap # NoSnapshot => tar[act[t].snap] = "whole"
    /\ made' = made + 1
    /\ disk' = disk \cup {made'}
    /\ act' = [act EXCEPT ![t] = [@ EXCEPT !.pc = "run", !.box = made']]
    /\ UNCHANGED <<provider, box, service, tar, rows>>

DockerRun(t) ==
    /\ Docker /\ At(t, "run") /\ act[t].op = "create"
    /\ box' = [box EXCEPT ![act[t].box] =
                 [owner |-> act[t].owner, life |-> "running", stamp |-> FALSE]]
    /\ act' = [act EXCEPT ![t] = Idle]
    /\ UNCHANGED <<provider, made, disk, service, tar, rows>>

(* A warm container is visible, running, before it is paused.              *)
DockerRunWarm(t) ==
    /\ Docker /\ At(t, "run") /\ act[t].op = "refresh"
    /\ box' = [box EXCEPT ![act[t].box] = [owner |-> Warm, life |-> "running", stamp |-> FALSE]]
    /\ act' = [act EXCEPT ![t] = [@ EXCEPT !.pc = "pause"]]
    /\ UNCHANGED <<provider, made, disk, service, tar, rows>>

DockerPauseWarm(t) ==
    /\ Docker /\ At(t, "pause")
    /\ LET b == act[t].box
       IN \/ /\ box[b].life = "running"
             /\ box' = [box EXCEPT ![b].life = "paused"]
             /\ act' = [act EXCEPT ![t] = After(t, act[t].count + 1)]
          \/ /\ box[b].life # "running"
             /\ act' = [act EXCEPT ![t] = Idle]
             /\ UNCHANGED box
    /\ UNCHANGED <<provider, made, disk, service, tar, rows>>

K8sListWarm(t) ==
    /\ ~Docker /\ At(t, "list")
    /\ act' = [act EXCEPT ![t] =
                 IF WarmBoxes = {} THEN [@ EXCEPT !.pc = "pvc"]
                 ELSE [@ EXCEPT !.pc = "patch", !.cands = WarmBoxes]]
    /\ UNCHANGED <<provider, cluster, tar, rows>>

(* Mutant: the claim's patch carries no resource version.                  *)
AlwaysFresh(t, b) == TRUE

Fresh(t, b) == b \notin act[t].mark

(* The patch names the resource version that was listed: 409 skips the     *)
(* candidate, 404 fails the request.                                       *)
K8sPatchClaim(t) ==
    /\ ~Docker /\ At(t, "patch")
    /\ LET b == Min(act[t].cands)
           rest == act[t].cands \ {b}
       IN \/ /\ Exists(b) /\ Fresh(t, b)
             /\ box' = [box EXCEPT ![b].owner = act[t].owner]
             /\ Go(t, Idle, b)
          \/ /\ Exists(b) /\ ~Fresh(t, b)
             /\ act' = [act EXCEPT ![t] = [act[t] EXCEPT !.cands = rest, !.mark = @ \ {b},
                                                         !.pc = IF rest = {} THEN "pvc" ELSE @]]
             /\ UNCHANGED box
          \/ /\ ~Exists(b)
             /\ act' = [act EXCEPT ![t] = Idle]
             /\ UNCHANGED box
    /\ UNCHANGED <<provider, made, disk, service, tar, rows>>

(* Mutant: the Deployment is created before the Service.                   *)
K8sCreatePvcOnly(t) ==
    /\ ~Docker /\ At(t, "pvc") /\ made < MaxBoxes
    /\ made' = made + 1
    /\ disk' = disk \cup {made'}
    /\ act' = [act EXCEPT ![t] = [@ EXCEPT !.box = made', !.pc = "deployment"]]
    /\ UNCHANGED <<provider, box, service, tar, rows>>

K8sCreatePvc(t) ==
    /\ ~Docker /\ At(t, "pvc") /\ made < MaxBoxes
    /\ made' = made + 1
    /\ disk' = disk \cup {made'}
    /\ act' = [act EXCEPT ![t] =
                 [@ EXCEPT !.box = made',
                           !.pc = IF act[t].snap = NoSnapshot THEN "service" ELSE "restore"]]
    /\ UNCHANGED <<provider, box, service, tar, rows>>

(* Without the tarball the request fails here and leaves the claim behind; *)
(* the result of the restore pod is not read.                              *)
K8sRestore(t) ==
    /\ ~Docker /\ At(t, "restore")
    /\ act' = [act EXCEPT ![t] = IF tar[@.snap] = "none" THEN Idle ELSE [@ EXCEPT !.pc = "service"]]
    /\ UNCHANGED <<provider, cluster, tar, rows>>

K8sCreateService(t) ==
    /\ ~Docker /\ At(t, "service")
    /\ service' = service \cup {act[t].box}
    /\ act' = [act EXCEPT ![t] = [@ EXCEPT !.pc = "deployment"]]
    /\ UNCHANGED <<provider, made, box, disk, tar, rows>>

K8sCreateDeployment(t) ==
    /\ ~Docker /\ At(t, "deployment") /\ act[t].op = "create"
    /\ box' = [box EXCEPT ![act[t].box] =
                 [owner |-> act[t].owner, life |-> "running", stamp |-> FALSE]]
    /\ act' = [act EXCEPT ![t] = Idle]
    /\ UNCHANGED <<provider, made, disk, service, tar, rows>>

K8sCreateWarmDeployment(t) ==
    /\ ~Docker /\ At(t, "deployment") /\ act[t].op = "refresh"
    /\ box' = [box EXCEPT ![act[t].box] = [owner |-> Warm, life |-> "running", stamp |-> FALSE]]
    /\ act' = [act EXCEPT ![t] = After(t, act[t].count + 1)]
    /\ UNCHANGED <<provider, made, disk, service, tar, rows>>

-----------------------------------------------------------------------------
(* Pause and resume, deletion.                                             *)

(* PATCH /sandbox/sandboxes/{id} after get_sandbox found it.               *)
UpdateSandbox(t, b, life) ==
    /\ At(t, "idle") /\ b \in Claimed
    /\ act' = [act EXCEPT ![t] = [Begin("update", "desire") EXCEPT !.box = b, !.life = life]]
    /\ UNCHANGED <<provider, cluster, tar, rows>>

DockerSetLife(t) ==
    /\ Docker /\ At(t, "desire")
    /\ LET b == act[t].box
       IN \/ /\ Exists(b)
             /\ box' = [box EXCEPT ![b].life = act[t].life]
             /\ act' = [act EXCEPT ![t] = Done(t)]
          \/ /\ ~Exists(b)
             /\ act' = [act EXCEPT ![t] = Idle]
             /\ UNCHANGED box
    /\ UNCHANGED <<provider, made, disk, service, tar, rows>>

(* The annotation is patched best-effort, then the Deployment is scaled.   *)
K8sStampPause(t) ==
    /\ ~Docker /\ At(t, "desire")
    /\ LET b == act[t].box
       IN \/ /\ Exists(b)
             /\ box' = [box EXCEPT ![b].stamp = act[t].life = "paused"]
             /\ Go(t, [act[t] EXCEPT !.pc = "scale"], b)
          \/ /\ Exists(b)
             /\ act' = [act EXCEPT ![t] = [@ EXCEPT !.pc = "scale"]]
             /\ UNCHANGED box
          \/ /\ ~Exists(b)
             /\ act' = [act EXCEPT ![t] = Idle]
             /\ UNCHANGED box
    /\ UNCHANGED <<provider, made, disk, service, tar, rows>>

K8sScale(t) ==
    /\ ~Docker /\ At(t, "scale")
    /\ LET b == act[t].box
       IN \/ /\ Exists(b)
             /\ box' = [box EXCEPT ![b].life = act[t].life]
             /\ Go(t, Done(t), b)
          \/ /\ ~Exists(b)
             /\ act' = [act EXCEPT ![t] = Idle]
             /\ UNCHANGED box
    /\ UNCHANGED <<provider, made, disk, service, tar, rows>>

(* DELETE /sandbox/sandboxes/{id} after get_sandbox found it.              *)
DeleteSandbox(t, b) ==
    /\ At(t, "idle") /\ b \in Claimed
    /\ act' = [act EXCEPT ![t] = [Begin("delete", "remove") EXCEPT !.box = b]]
    /\ UNCHANGED <<provider, cluster, tar, rows>>

DockerRemove(t) ==
    /\ Docker /\ At(t, "remove")
    /\ LET b == act[t].box
       IN \/ /\ Exists(b)
             /\ box' = [box EXCEPT ![b] = Absent]
             /\ act' = [act EXCEPT ![t] = [@ EXCEPT !.pc = "rmdir"]]
          \/ /\ ~Exists(b)
             /\ act' = [act EXCEPT ![t] = Idle]
             /\ UNCHANGED box
    /\ UNCHANGED <<provider, made, disk, service, tar, rows>>

(* rmdir only removes an empty directory; its failure is suppressed.       *)
DockerRmdir(t) ==
    /\ Docker /\ At(t, "rmdir")
    /\ \/ disk' = disk \ {act[t].box}
       \/ UNCHANGED disk
    /\ act' = [act EXCEPT ![t] = Done(t)]
    /\ UNCHANGED <<provider, made, box, service, tar, rows>>

(* The refresh suppresses the error of an absent Deployment, a request     *)
(* answers 404.                                                            *)
K8sDeleteDeployment(t) ==
    /\ ~Docker /\ At(t, "remove")
    /\ LET b == act[t].box
       IN \/ /\ Exists(b)
             /\ box' = [box EXCEPT ![b] = Absent]
             /\ Go(t, [act[t] EXCEPT !.pc = "rmservice"], b)
          \/ /\ ~Exists(b) \/ act[t].op = "refresh"
             /\ act' = [act EXCEPT ![t] =
                          IF @.op = "refresh" THEN [@ EXCEPT !.pc = "rmservice"] ELSE Idle]
             /\ UNCHANGED box
    /\ UNCHANGED <<provider, made, disk, service, tar, rows>>

K8sDeleteService(t) ==
    /\ ~Docker /\ At(t, "rmservice")
    /\ \/ service' = service \ {act[t].box}
       \/ UNCHANGED service
    /\ act' = [act EXCEPT ![t] = [@ EXCEPT !.pc = "rmpvc"]]
    /\ UNCHANGED <<provider, made, box, disk, tar, rows>>

K8sDeletePvc(t) ==
    /\ ~Docker /\ At(t, "rmpvc")
    /\ \/ disk' = disk \ {act[t].box}
       \/ UNCHANGED disk
    /\ act' = [act EXCEPT ![t] = Done(t)]
    /\ UNCHANGED <<provider, made, box, service, tar, rows>>

-----------------------------------------------------------------------------
(* The lifecycle sweep, one loop per process: it lists the sandboxes once  *)
(* and judges each by that listing.                                        *)

SweepList(t) ==
    /\ At(t, "idle") /\ Claimed # {}
    /\ \A u \in Threads : ProcessOf[u] = ProcessOf[t] => act[u].op # "sweep"
    /\ act' = [act EXCEPT ![t] = [Begin("sweep", "sweep") EXCEPT
                 !.cands = Claimed,
                 !.mark = {b \in Claimed : box[b].life = "paused"}]]
    /\ UNCHANGED <<provider, cluster, tar, rows>>

(* Older than max_age_seconds: deleted.  Listed active and, by the probe   *)
(* of its agent server, idle: paused.  Otherwise left alone.               *)
Judge(t, b, rest) ==
    \/ act' = [act EXCEPT ![t] = rest]
    \/ act' = [act EXCEPT ![t] = [rest EXCEPT !.pc = "remove", !.box = b]]
    \/ /\ b \notin act[t].mark
       /\ act' = [act EXCEPT ![t] = [rest EXCEPT !.pc = "desire", !.box = b, !.life = "paused"]]

(* No container carries a pause stamp: paused_delete_seconds has no effect. *)
DockerSweep(t) ==
    /\ Docker /\ At(t, "sweep")
    /\ \E b \in act[t].cands :
         Judge(t, b, [act[t] EXCEPT !.cands = @ \ {b}, !.mark = @ \ {b}])
    /\ UNCHANGED <<provider, cluster, tar, rows>>

(* Listed inactive: deleted if the pause stamp, read now, is old enough.   *)
K8sSweep(t) ==
    /\ ~Docker /\ At(t, "sweep")
    /\ \E b \in act[t].cands :
         LET rest == [act[t] EXCEPT !.cands = @ \ {b}, !.mark = @ \ {b}]
         IN \/ Judge(t, b, rest)
            \/ /\ b \in act[t].mark /\ box[b].stamp
               /\ act' = [act EXCEPT ![t] = [rest EXCEPT !.pc = "remove", !.box = b]]
    /\ UNCHANGED <<provider, cluster, tar, rows>>

SweepEnds(t) ==
    /\ At(t, "sweep") /\ act[t].cands = {}
    /\ act' = [act EXCEPT ![t] = Idle]
    /\ UNCHANGED <<provider, cluster, tar, rows>>

-----------------------------------------------------------------------------
(* The warm-pool refresh.                                                  *)

(* Only templates whose num_warm is positive are refreshed; an              *)
(* administrator sets it to anything between two refreshes.  The sandboxes *)
(* are labelled with the image tag of the template.                        *)
RefreshCount(t) ==
    /\ At(t, "idle")
    /\ \E num_warm \in 1..MaxTarget :
         act' = [act EXCEPT ![t] = [Begin("refresh", "turn") EXCEPT
                   !.goal = num_warm,
                   !.count = IF LoopKey = "tag" THEN Cardinality(WarmBoxes) ELSE 0]]
    /\ UNCHANGED <<provider, cluster, tar, rows>>

(* A template_id the provider can create from: a sandbox image, or a name  *)
(* under which a template ConfigMap exists.                                *)
Resolves(template_id) == template_id = "tag"

(* Mutant: one more than num_warm.                                         *)
RefreshCreatesOneMore(t) ==
    /\ At(t, "turn") /\ act[t].count <= act[t].goal
    /\ act' = [act EXCEPT ![t] =
                 IF Resolves(LoopKey) THEN [@ EXCEPT !.pc = ColdStart, !.owner = Warm] ELSE Idle]
    /\ UNCHANGED <<provider, cluster, tar, rows>>

(* No image (Docker) and no template ConfigMap (Kubernetes) carries the    *)
(* uuid of a template row: the creation raises and the template is given   *)
(* up until the next interval.                                             *)
RefreshCreates(t) ==
    /\ At(t, "turn") /\ act[t].count < act[t].goal
    /\ act' = [act EXCEPT ![t] =
                 IF Resolves(LoopKey) THEN [@ EXCEPT !.pc = ColdStart, !.owner = Warm] ELSE Idle]
    /\ UNCHANGED <<provider, cluster, tar, rows>>

(* _delete_warm lists, then removes what it listed.                        *)
RefreshDeletes(t) ==
    /\ At(t, "turn") /\ act[t].count > act[t].goal
    /\ act' = [act EXCEPT ![t] =
                 IF WarmBoxes = {} THEN [act[t] EXCEPT !.count = @ - 1]
                 ELSE [act[t] EXCEPT !.pc = "remove", !.box = Min(WarmBoxes), !.count = @ - 1]]
    /\ UNCHANGED <<provider, cluster, tar, rows>>

RefreshEnds(t) ==
    /\ At(t, "turn") /\ act[t].count = act[t].goal
    /\ act' = [act EXCEPT ![t] = Idle]
    /\ UNCHANGED <<provider, cluster, tar, rows>>

-----------------------------------------------------------------------------
(* Snapshots: a tarball in snapshot_dir and a row.                         *)

(* POST /sandbox/sandbox-snapshots with a sandbox id.                      *)
CaptureSnapshot(t, n, b) ==
    /\ At(t, "idle") /\ n \notin rows /\ tar[n] = "none"
    /\ \A u \in Threads : act[u].snap # n
    /\ act' = [act EXCEPT ![t] = [Begin("capture", "capture") EXCEPT !.box = b, !.snap = n]]
    /\ UNCHANGED <<provider, cluster, tar, rows>>

(* Mutant: a failed archive is not noticed.                                *)
DockerTarUnchecked(t) ==
    /\ Docker /\ At(t, "capture")
    /\ tar' \in {[tar EXCEPT ![act[t].snap] = w] : w \in {"part", "whole"}}
    /\ act' = [act EXCEPT ![t] = [@ EXCEPT !.pc = "row", !.box = 0]]
    /\ UNCHANGED <<provider, cluster, rows>>

(* The archive is written in place: a failure leaves a partial one.        *)
DockerTar(t) ==
    /\ Docker /\ At(t, "capture")
    /\ \/ /\ act[t].box \in disk
          /\ tar' = [tar EXCEPT ![act[t].snap] = "whole"]
          /\ act' = [act EXCEPT ![t] = [@ EXCEPT !.pc = "row", !.box = 0]]
       \/ /\ act[t].box \in disk
          /\ tar' = [tar EXCEPT ![act[t].snap] = "part"]
          /\ act' = [act EXCEPT ![t] = Idle]
       \/ /\ act[t].box \notin disk
          /\ act' = [act EXCEPT ![t] = Idle]
          /\ UNCHANGED tar
    /\ UNCHANGED <<provider, cluster, rows>>

(* The pod writes the archive; the request waits for its end or 120 s and  *)
(* goes on in either case.                                                 *)
K8sTar(t) ==
    /\ ~Docker /\ At(t, "capture")
    /\ \/ /\ act[t].box \in Claimed
          /\ tar' \in {[tar EXCEPT ![act[t].snap] = w] : w \in {"none", "part", "whole"}}
          /\ act' = [act EXCEPT ![t] = [@ EXCEPT !.pc = "row", !.box = 0]]
       \/ /\ act[t].box \notin Claimed
          /\ act' = [act EXCEPT ![t] = Idle]
          /\ UNCHANGED tar
    /\ UNCHANGED <<provider, cluster, rows>>

(* POST /sandbox/sandbox-snapshots with a file.                            *)
ImportSnapshot(t, n) ==
    /\ At(t, "idle") /\ n \notin rows /\ tar[n] = "none"
    /\ \A u \in Threads : act[u].snap # n
    /\ tar' = [tar EXCEPT ![n] = "whole"]
    /\ act' = [act EXCEPT ![t] = [Begin("capture", "row") EXCEPT !.snap = n]]
    /\ UNCHANGED <<provider, cluster, rows>>

CommitSnapshotRow(t) ==
    /\ At(t, "row")
    /\ rows' = rows \cup {act[t].snap}
    /\ act' = [act EXCEPT ![t] = Idle]
    /\ UNCHANGED <<provider, cluster, tar>>

(* DELETE /sandbox/sandbox-snapshots/{id}: the row is deleted and flushed, *)
(* the artifact is removed, the transaction is committed.                  *)
DeleteSnapshot(t, n) ==
    /\ At(t, "idle") /\ n \in rows
    /\ \A u \in Threads : ~(act[u].op = "unsnap" /\ act[u].snap = n)
    /\ act' = [act EXCEPT ![t] = [Begin("unsnap", "artifact") EXCEPT !.snap = n]]
    /\ UNCHANGED <<provider, cluster, tar, rows>>

DeleteSnapshotArtifact(t) ==
    /\ At(t, "artifact")
    /\ \/ /\ tar[act[t].snap] # "none"
          /\ tar' = [tar EXCEPT ![act[t].snap] = "none"]
          /\ act' = [act EXCEPT ![t] = [@ EXCEPT !.pc = "commit"]]
       \/ /\ tar[act[t].snap] = "none"
          /\ act' = [act EXCEPT ![t] = Idle]
          /\ UNCHANGED tar
    /\ UNCHANGED <<provider, cluster, rows>>

CommitSnapshotDelete(t) ==
    /\ At(t, "commit")
    /\ rows' = rows \ {act[t].snap}
    /\ act' = [act EXCEPT ![t] = Idle]
    /\ UNCHANGED <<provider, cluster, tar>>

(* POST /sandbox/sandbox-snapshots/batch deletes rows only.                *)
BatchDeleteSnapshots(t, n) ==
    /\ At(t, "idle") /\ n \in rows
    /\ \A u \in Threads : ~(act[u].op = "unsnap" /\ act[u].snap = n)
    /\ rows' = rows \ {n}
    /\ UNCHANGED <<provider, cluster, tar, act>>

-----------------------------------------------------------------------------
(* A thread ends before its next step.                                     *)
Fails(t) ==
    /\ ~At(t, "idle")
    /\ act' = [act EXCEPT ![t] = Idle]
    /\ UNCHANGED <<provider, cluster, tar, rows>>

Provision(t) ==
    \/ DockerWorkspace(t) \/ DockerRun(t) \/ DockerRunWarm(t) \/ DockerPauseWarm(t)
    \/ K8sCreatePvc(t) \/ K8sRestore(t) \/ K8sCreateService(t)
    \/ K8sCreateDeployment(t) \/ K8sCreateWarmDeployment(t)
Remove(t) ==
    \/ DockerRemove(t) \/ DockerRmdir(t)
    \/ K8sDeleteDeployment(t) \/ K8sDeleteService(t) \/ K8sDeletePvc(t)
Claim(t) ==
    \/ DockerListWarm(t) \/ DockerRename(t) \/ DockerUnpause(t)
    \/ K8sListWarm(t) \/ K8sPatchClaim(t)
Refresh(t) == RefreshCount(t) \/ RefreshCreates(t) \/ RefreshDeletes(t) \/ RefreshEnds(t)

Request(t) ==
    \/ \E c \in Configs, n \in Snapshots \cup {NoSnapshot} : CreateSandbox(t, c, n)
    \/ \E b \in Ids : DeleteSandbox(t, b)
    \/ \E b \in Ids, life \in {"running", "paused"} : UpdateSandbox(t, b, life)
    \/ SweepList(t)
    \/ \E n \in Snapshots : ImportSnapshot(t, n) \/ DeleteSnapshot(t, n) \/ BatchDeleteSnapshots(t, n)
    \/ \E n \in Snapshots, b \in Claimed : CaptureSnapshot(t, n, b)

Serve(t) ==
    \/ Claim(t) \/ DockerSetLife(t) \/ K8sStampPause(t) \/ K8sScale(t)
    \/ DockerSweep(t) \/ K8sSweep(t) \/ SweepEnds(t)
    \/ DockerTar(t) \/ K8sTar(t) \/ CommitSnapshotRow(t)
    \/ DeleteSnapshotArtifact(t) \/ CommitSnapshotDelete(t)

Next ==
    \/ \E t \in Requests : Request(t) \/ Serve(t)
    \/ \E t \in Loops : Refresh(t)
    \/ \E t \in Threads : Provision(t) \/ Remove(t) \/ Fails(t)

Spec == Init /\ [][Next]_vars
-----------------------------------------------------------------------------
(* Properties.                                                             *)

(* A claimed sandbox stays its config's until it is removed: however many  *)
(* claims, refreshes and sweeps overlap, no sandbox is handed out twice.   *)
(* Docker relies on the claim lock (all claims in one process), Kubernetes *)
(* on the resource version in the claim's patch.                           *)
ClaimIsExclusive ==
    [][\A b \in Claimed : box'[b].owner \in {box[b].owner, Nobody}]_vars

(* A sandbox only comes into being on storage that is already there (the   *)
(* volume is mounted, the snapshot restored, before the container starts), *)
(* and only by the thread that was given its id.                           *)
StorageComesFirst ==
    [][\A b \in Ids : ~Exists(b) /\ box'[b] # Absent =>
          /\ b \in disk
          /\ ~Docker => b \in service
          /\ \E t \in Threads : act[t].box = b /\ act[t].pc \in {"run", "deployment"}]_vars

(* Every process runs a refresh loop and nothing elects one of them: a loop *)
(* creates what it counted missing, whatever the others create meanwhile.  *)
(* The pool still never holds more than each loop adding its whole target; *)
(* with one loop, not more than the largest num_warm.                      *)
OverfillIsBounded == Cardinality(WarmBoxes) <= Cardinality(Loops) * MaxTarget

(* A snapshot row is committed only after its artifact is complete.  (The  *)
(* Kubernetes provider does not read the result of the pod that writes it.) *)
RowsFollowArtifacts ==
    [][\A n \in rows' \ rows : Docker => tar[n] = "whole"]_vars

(* sandbox/README.md: the background loop "creates warm resources until    *)
(* the count reaches num_warm".                                            *)
WarmPoolFills == <>(WarmBoxes # {})
RefreshSpec ==
    /\ Init
    /\ [][\E t \in Loops : Refresh(t) \/ Provision(t)]_vars
    /\ \A t \in Loops : WF_vars(Refresh(t)) /\ WF_vars(Provision(t))
=============================================================================
