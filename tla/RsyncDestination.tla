-------------------------- MODULE RsyncDestination --------------------------
(***************************************************************************)
(* The destination side of the rsync-with-stunnel / rsync-with-null mover *)
(* (src/unnamed/part_000, Mover.Synchronize and Mover.Cleanup), composed   *)
(* with the transfer, transport and endpoint layers it drives, against a   *)
(* Kubernetes API whose objects outlive any single reconcile.              *)
(*                                                                         *)
(* One reconcile of an owner (a ReplicationDestination) is a sequence of   *)
(* API calls; each is one step, so that Kubernetes (the route/LB          *)
(* controller, the kubelet) and the reconciles of other owners interleave  *)
(* between them.  Every API call may fail, and the controller may crash;   *)
(* both end the reconcile, and the next reconcile starts from the top.    *)
(* The outer reconciler runs Synchronize until it reports completion,      *)
(* then Cleanup until it succeeds, then the next iteration.                *)
(***************************************************************************)
EXTENDS Naturals, Sequences, FiniteSetsExt, Functions, PortChain

CONSTANTS
    Owners,        \* ReplicationDestination objects (their UIDs)
    Namespaces,    \* namespaces they live in
    NsOf,          \* [Owners -> Namespaces]
    TransportOf,   \* [Owners -> {"stunnel", "null"}], from the CR annotation
    NoOwner,       \* model value: no owner / no cleanup label
    MaxIter,       \* replication iterations per owner
    MaxFaults,     \* API errors and controller crashes in a behaviour
    MaxRestarts,   \* kubelet restarts of a server's rsync container
    CrashLoop      \* TRUE: the kubelet keeps restarting it, past MaxRestarts

ASSUME /\ NsOf \in [Owners -> Namespaces]
       /\ TransportOf \in [Owners -> {"stunnel", "null"}]
       /\ NoOwner \notin Owners
       /\ MaxIter \in Nat \ {0} /\ MaxFaults \in Nat /\ MaxRestarts \in Nat
       /\ CrashLoop \in BOOLEAN

VARIABLES
    obj,     \* the config maps, secrets, routes and services in the API
    pod,     \* [Namespaces -> the pod named "rsync-server" there]
    pc,      \* [Owners -> the API call the owner's reconcile is at]
    ci,      \* [Owners -> index into CleanupTypes during Cleanup]
    phase,   \* [Owners -> "sync" | "cleanup" | "done"], the outer reconciler
    iter,    \* [Owners -> current iteration]
    faults,  \* API errors and crashes so far
    address  \* [Owners -> destinationStatus.Address, with the iteration that set it]

vars == <<obj, pod, pc, ci, phase, iter, faults, address>>

-----------------------------------------------------------------------------
(* Objects.  The transport and transfer objects have fixed names per       *)
(* namespace (stunnelConfig, stunnelSecret, crane2-rsync-config,           *)
(* crane2-rsync); the endpoint is named after the owner's PVC.  A record   *)
(* keeps what the properties tell apart: who created it, its cleanup      *)
(* label, the address kinds in the endpoint's status (the first ingress   *)
(* record of a Service, the host of a Route), and whether an rsyncd.conf  *)
(* allows only loopback clients.                                           *)

Fixed == "fixed"
FixedKinds == {"stunnelConfig", "stunnelSecret", "rsyncConfig", "rsyncSecret"}

Fx(k, ns) == <<k, ns, Fixed>>
EndpointKind(o) == IF TransportOf[o] = "stunnel" THEN "Route" ELSE "Service"
EpKey(o) == <<EndpointKind(o), NsOf[o], o>>
PodKey(ns) == <<"Pod", ns, Fixed>>

ObjKeys == {Fx(k, ns) : k \in FixedKinds, ns \in Namespaces}
             \cup {EpKey(o) : o \in Owners}

\* The API kind of each object, as the cleanup sweeper selects them.
APIKind == [stunnelConfig |-> "ConfigMap", rsyncConfig |-> "ConfigMap",
            stunnelSecret |-> "Secret", rsyncSecret |-> "Secret",
            Route |-> "Route", Service |-> "Service", Pod |-> "Pod"]

AddrKinds == {"hostname", "ip"}
ObjRec == [exists: BOOLEAN, owner: Owners \cup {NoOwner},
           mark: Owners \cup {NoOwner}, ingress: SUBSET AddrKinds,
           localOnly: BOOLEAN]
Absent == [exists |-> FALSE, owner |-> NoOwner, mark |-> NoOwner,
           ingress |-> {}, localOnly |-> FALSE]

\* The address an endpoint reports: a Route's host (route.IsHealthy); for
\* a Service, loadbalancer.IsHealthy copies Ingress[0].Hostname if set and
\* then Ingress[0].IP if set, so the IP wins.
EndpointHostname(ing) ==
    IF "ip" \in ing THEN "ip" ELSE IF "hostname" \in ing THEN "hostname" ELSE "none"
NoAddress == [val |-> "none", port |-> 0, iter |-> 0]

(* The rsync-server pod: its creator and creator's iteration, whether it   *)
(* has the stunnel sidecar, deletion, the cleanup label, the state of each *)
(* container ("none" before the kubelet reports statuses), and whether the *)
(* rsync daemon started with a config that admits every host.              *)
CState == {"none", "waiting", "running", "terminated"}
PodRec == [exists: BOOLEAN, owner: Owners \cup {NoOwner}, iter: 0..MaxIter,
           sidecar: BOOLEAN, terminating: BOOLEAN, mark: Owners \cup {NoOwner},
           rsync: CState, stunnel: CState, restarts: 0..MaxRestarts,
           allowAll: BOOLEAN]
NoPod == [exists |-> FALSE, owner |-> NoOwner, iter |-> 0, sidecar |-> FALSE,
          terminating |-> FALSE, mark |-> NoOwner, rsync |-> "none",
          stunnel |-> "none", restarts |-> 0, allowAll |-> FALSE]

Present(key) == IF key[1] = "Pod" THEN pod[key[2]].exists ELSE obj[key].exists

\* Every create in this code path is c.Create followed by
\* "if err != nil && !IsAlreadyExists(err)": an existing object wins.
CreateIfAbsent(key, rec) ==
    IF obj[key].exists THEN obj ELSE [obj EXCEPT ![key] = rec]

NewObj(o) == [Absent EXCEPT !.exists = TRUE, !.owner = o]

Steps == {"idle", "endpoint", "epHealthy", "tcm", "tsecret", "tsecretE",
          "tfields", "rcm", "rsecret", "rpod", "health", "completed", "mark",
          "image", "delAll", "svc"}

Goto(o, s) == pc' = [pc EXCEPT ![o] = s]

-----------------------------------------------------------------------------
(* Helpers of lib/transfer (part_001).                                     *)

NumStatuses(p) == IF p.rsync = "none" THEN 0 ELSE IF p.sidecar THEN 2 ELSE 1

\* areContainersReady: exactly two container statuses, all ready.
areContainersReady(p) ==
    /\ NumStatuses(p) = 2
    /\ p.rsync = "running" /\ (p.sidecar => p.stunnel = "running")

\* IsPodCompleted(c, key, "rsync"): exactly two statuses are required; the
\* kubelet lists them sorted by name, so "rsync" is met first and its
\* Terminated state is the answer.
IsPodCompleted(p) == NumStatuses(p) = 2 /\ p.rsync = "terminated"

\* cleanupTypes (deleted with DeleteAllOf, in this order), then the
\* iterativeCleanupTypes (Service) by list and delete.
CleanupTypes == <<"PersistentVolumeClaim", "ConfigMap", "VolumeSnapshot",
                  "Secret", "Route", "Pod">>

\* The objects TransferServer.MarkForCleanup labels, in its order.
MarkKeys(o) ==
    LET ns == NsOf[o]
        common == <<PodKey(ns), Fx("rsyncConfig", ns), Fx("rsyncSecret", ns),
                    EpKey(o)>>
    IN IF TransportOf[o] = "stunnel"
       THEN common \o <<Fx("stunnelSecret", ns), Fx("stunnelConfig", ns)>>
       ELSE common

-----------------------------------------------------------------------------
Init ==
    /\ obj = [k \in ObjKeys |-> Absent]
    /\ pod = [ns \in Namespaces |-> NoPod]
    /\ pc = [o \in Owners |-> "idle"]
    /\ ci = [o \in Owners |-> 1]
    /\ phase = [o \in Owners |-> "sync"]
    /\ iter = [o \in Owners |-> 1]
    /\ faults = 0
    /\ address = [o \in Owners |-> NoAddress]

(* The outer reconciler calls Synchronize, or Cleanup once an iteration    *)
(* has completed.  Getting the data PVC is folded into the first call.     *)
Reconcile(o) ==
    /\ pc[o] = "idle" /\ phase[o] \in {"sync", "cleanup"}
    /\ Goto(o, IF phase[o] = "sync" THEN "endpoint" ELSE "delAll")
    /\ ci' = [ci EXCEPT ![o] = 1]
    /\ UNCHANGED <<obj, pod, phase, iter, faults, address>>

\* route.NewEndpoint: a passthrough route named after the PVC.
CreateRoute(o) ==
    /\ pc[o] = "endpoint" /\ TransportOf[o] = "stunnel"
    /\ obj' = CreateIfAbsent(EpKey(o), NewObj(o))
    /\ Goto(o, "epHealthy")
    /\ UNCHANGED <<pod, ci, phase, iter, faults, address>>

\* loadbalancer.createService: CreateOrUpdate, whose mutate function sets
\* the service's labels to the mover's labels, dropping a cleanup label.
CreateService(o) ==
    /\ pc[o] = "endpoint" /\ TransportOf[o] = "null"
    /\ obj' = IF obj[EpKey(o)].exists
              THEN [obj EXCEPT ![EpKey(o)].mark = NoOwner]
              ELSE [obj EXCEPT ![EpKey(o)] = NewObj(o)]
    /\ Goto(o, "epHealthy")
    /\ UNCHANGED <<pod, ci, phase, iter, faults, address>>

\* e.IsHealthy: not healthy ends the reconcile ("waiting for the route/load
\* balancer to be healthy"); healthy, it keeps the hostname in the endpoint
\* object.  With the null transport the transport is built in memory and
\* the next call creates the rsync config.
EndpointHealthy(o) ==
    /\ pc[o] = "epHealthy"
    /\ Goto(o, IF obj[EpKey(o)].ingress = {} THEN "idle"
               ELSE IF TransportOf[o] = "stunnel" THEN "tcm" ELSE "rcm")
    /\ UNCHANGED <<obj, pod, ci, phase, iter, faults, address>>

\* stunnel.NewTransportServer -> createStunnelServerConfig.  Its error is
\* aggregated, not returned: see ApiError.
CreateStunnelServerConfig(o) ==
    /\ pc[o] = "tcm"
    /\ obj' = CreateIfAbsent(Fx("stunnelConfig", NsOf[o]), NewObj(o))
    /\ Goto(o, "tsecret")
    /\ UNCHANGED <<pod, ci, phase, iter, faults, address>>

\* createStunnelServerSecret (a fresh key pair, kept only if the secret is
\* absent).  In "tsecretE" the config create already failed, so after the
\* secret the aggregated error ends the reconcile.
CreateStunnelServerSecret(o) ==
    /\ pc[o] \in {"tsecret", "tsecretE"}
    /\ obj' = CreateIfAbsent(Fx("stunnelSecret", NsOf[o]), NewObj(o))
    /\ Goto(o, IF pc[o] = "tsecret" THEN "tfields" ELSE "idle")
    /\ UNCHANGED <<pod, ci, phase, iter, faults, address>>

\* setFields: both the config map and the secret must be found.
SetFields(o) ==
    /\ pc[o] = "tfields"
    /\ Goto(o, IF /\ obj[Fx("stunnelConfig", NsOf[o])].exists
                  /\ obj[Fx("stunnelSecret", NsOf[o])].exists
               THEN "rcm" ELSE "idle")
    /\ UNCHANGED <<obj, pod, ci, phase, iter, faults, address>>

\* createConfig: rsyncd.conf with "hosts allow" limited to loopback iff the
\* transport is stunnel.
CreateConfig(o) ==
    /\ pc[o] = "rcm"
    /\ obj' = CreateIfAbsent(Fx("rsyncConfig", NsOf[o]),
                  [NewObj(o) EXCEPT !.localOnly = (TransportOf[o] = "stunnel")])
    /\ Goto(o, "rsecret")
    /\ UNCHANGED <<pod, ci, phase, iter, faults, address>>

\* createSecret: the rsync credentials secret.
CreateSecret(o) ==
    /\ pc[o] = "rsecret"
    /\ obj' = CreateIfAbsent(Fx("rsyncSecret", NsOf[o]), NewObj(o))
    /\ Goto(o, "rpod")
    /\ UNCHANGED <<pod, ci, phase, iter, faults, address>>

\* Transport().Containers(): the stunnel server adds one container running
\* stunnel (createStunnelServerContainers), the null transport none.
SidecarOf(o) == TransportOf[o] = "stunnel"

\* createRsyncServer: the pod "rsync-server", the rsync container plus the
\* transport's containers.
CreateRsyncServer(o) ==
    /\ pc[o] = "rpod"
    /\ pod' = IF pod[NsOf[o]].exists THEN pod
              ELSE [pod EXCEPT ![NsOf[o]] =
                      [NoPod EXCEPT !.exists = TRUE, !.owner = o,
                                    !.iter = iter[o],
                                    !.sidecar = SidecarOf(o)]]
    /\ Goto(o, "health")
    /\ UNCHANGED <<obj, ci, phase, iter, faults, address>>

\* rsyncServer.IsHealthy: a NotFound is an API error and ends the reconcile;
\* a healthy server publishes the endpoint's hostname as
\* destinationStatus.Address and reports InProgress; the other errors of
\* areContainersReady are not API errors and fall through.  The hostname
\* was read at EndpointHealthy; no step of this model changes an ingress
\* record once written, so reading it here gives the same value.
Publish(o) ==
    address' = [address EXCEPT ![o] = [val |-> EndpointHostname(obj[EpKey(o)].ingress),
                                       port |-> PublishedPort(TransportOf[o]),
                                       iter |-> iter[o]]]

\* TransferServer.IsHealthy: the pod "rsync-server" in the first PVC's
\* namespace.
ServerPod(o) == pod[NsOf[o]]

\* transfer.IsPodHealthy: Get the pod, then areContainersReady.
IsPodHealthy(p) == p.exists /\ areContainersReady(p)

IsHealthy(o) ==
    /\ pc[o] = "health"
    /\ LET p == ServerPod(o) IN
       IF IsPodHealthy(p)
       THEN Goto(o, "idle") /\ Publish(o)
       ELSE Goto(o, IF p.exists THEN "completed" ELSE "idle") /\ UNCHANGED address
    /\ UNCHANGED <<obj, pod, ci, phase, iter, faults>>

\* rsyncServer.Completed (not under src; spec 4.4): IsPodCompleted for the
\* rsync container.  An error or "not completed" ends the reconcile.
Completed(o) ==
    /\ pc[o] = "completed"
    /\ LET p == pod[NsOf[o]] IN
       IF p.exists /\ IsPodCompleted(p)
       THEN Goto(o, "mark") /\ Publish(o)
       ELSE Goto(o, "idle") /\ UNCHANGED address
    /\ UNCHANGED <<obj, pod, ci, phase, iter, faults>>

(* rsyncServer.MarkForCleanup labels its objects one by one and stops at   *)
(* the first failure: a missing object, or an API error.  The mover        *)
(* swallows the error and reports InProgress.  k objects get labelled.     *)
Labelled(o, k) ==
    LET S == Range(SubSeq(MarkKeys(o), 1, k)) IN
    /\ obj' = [key \in ObjKeys |->
                 IF key \in S THEN [obj[key] EXCEPT !.mark = o] ELSE obj[key]]
    /\ pod' = [ns \in Namespaces |->
                 IF PodKey(ns) \in S THEN [pod[ns] EXCEPT !.mark = o]
                 ELSE pod[ns]]

ExistingPrefix(o) ==
    Max({j \in 0..Len(MarkKeys(o)) : \A i \in 1..j : Present(MarkKeys(o)[i])})

\* Mutant of MarkForCleanup: a labelling error is ignored and the
\* iteration completes.
MarkForCleanupIgnoreError(o) ==
    /\ pc[o] = "mark"
    /\ \E k \in 0..ExistingPrefix(o) :
          /\ k < ExistingPrefix(o) => faults < MaxFaults
          /\ faults' = IF k < ExistingPrefix(o) THEN faults + 1 ELSE faults
          /\ Labelled(o, k)
          /\ Goto(o, "image")
    /\ UNCHANGED <<ci, phase, iter, address>>

MarkForCleanup(o) ==
    /\ pc[o] = "mark"
    /\ \E k \in 0..ExistingPrefix(o) :
          /\ k < ExistingPrefix(o) => faults < MaxFaults
          /\ faults' = IF k < ExistingPrefix(o) THEN faults + 1 ELSE faults
          /\ Labelled(o, k)
          /\ Goto(o, IF k = Len(MarkKeys(o)) THEN "image" ELSE "idle")
    /\ UNCHANGED <<ci, phase, iter, address>>

\* vh.EnsureImage: once the snapshot is ready, CompleteWithImage; the outer
\* reconciler then moves to Cleanup.
ImageReady(o) ==
    /\ pc[o] = "image"
    /\ Goto(o, "idle")
    /\ phase' = [phase EXCEPT ![o] = "cleanup"]
    /\ UNCHANGED <<obj, pod, ci, iter, faults, address>>

ImageNotReady(o) ==
    /\ pc[o] = "image"
    /\ Goto(o, "idle")
    /\ UNCHANGED <<obj, pod, ci, phase, iter, faults, address>>

-----------------------------------------------------------------------------
(* Cleanup -> CleanupObjects (controllers/utils/cleanup.go).               *)

\* DeleteAllOf one type, selecting the owner's cleanup label in its
\* namespace; an error returns at once.  Pods are deleted gracefully: they
\* stay, terminating, until the kubelet has stopped them.
\* Mutant of DeleteAllOf: the loop over cleanupTypes runs one index past
\* its end.
DeleteAllOfPastEnd(o) ==
    /\ pc[o] = "delAll"
    /\ LET T == CleanupTypes[ci[o]]
           ns == NsOf[o]
       IN /\ obj' = [k \in ObjKeys |->
                       IF obj[k].exists /\ APIKind[k[1]] = T /\ k[2] = ns
                          /\ obj[k].mark = o
                       THEN Absent ELSE obj[k]]
          /\ pod' = IF T = "Pod" /\ pod[ns].exists /\ pod[ns].mark = o
                    THEN [pod EXCEPT ![ns].terminating = TRUE]
                    ELSE pod
    /\ IF ci[o] <= Len(CleanupTypes)
       THEN ci' = [ci EXCEPT ![o] = @ + 1] /\ UNCHANGED pc
       ELSE Goto(o, "svc") /\ UNCHANGED ci
    /\ UNCHANGED <<phase, iter, faults, address>>

DeleteAllOf(o) ==
    /\ pc[o] = "delAll"
    /\ LET T == CleanupTypes[ci[o]]
           ns == NsOf[o]
       IN /\ obj' = [k \in ObjKeys |->
                       IF obj[k].exists /\ APIKind[k[1]] = T /\ k[2] = ns
                          /\ obj[k].mark = o
                       THEN Absent ELSE obj[k]]
          /\ pod' = IF T = "Pod" /\ pod[ns].exists /\ pod[ns].mark = o
                    THEN [pod EXCEPT ![ns].terminating = TRUE]
                    ELSE pod
    /\ IF ci[o] < Len(CleanupTypes)
       THEN ci' = [ci EXCEPT ![o] = @ + 1] /\ UNCHANGED pc
       ELSE Goto(o, "svc") /\ UNCHANGED ci
    /\ UNCHANGED <<phase, iter, faults, address>>

\* The Service type: list by label, delete each; with no error Cleanup
\* reports Complete and the next iteration (if any) begins.
CleanupServices(o) ==
    /\ pc[o] = "svc"
    /\ obj' = [k \in ObjKeys |->
                 IF obj[k].exists /\ APIKind[k[1]] = "Service"
                    /\ k[2] = NsOf[o] /\ obj[k].mark = o
                 THEN Absent ELSE obj[k]]
    /\ Goto(o, "idle")
    /\ phase' = [phase EXCEPT ![o] = IF iter[o] < MaxIter THEN "sync" ELSE "done"]
    /\ iter' = [iter EXCEPT ![o] = IF iter[o] < MaxIter THEN @ + 1 ELSE @]
    /\ UNCHANGED <<pod, ci, faults, address>>

-----------------------------------------------------------------------------
(* Failures.  An API call returns an error: the reconcile returns          *)
(* InProgress with it, except that NewTransportServer aggregates the error *)
(* of the stunnel config create and still creates the secret.  A crash of  *)
(* the controller ends every reconcile in flight.                          *)

ApiError(o) ==
    /\ faults < MaxFaults
    /\ pc[o] \notin {"idle", "mark"}
    /\ Goto(o, IF pc[o] = "tcm" THEN "tsecretE" ELSE "idle")
    /\ faults' = faults + 1
    /\ UNCHANGED <<obj, pod, ci, phase, iter, address>>

Crash ==
    /\ faults < MaxFaults
    /\ \E o \in Owners : pc[o] # "idle"
    /\ pc' = [o \in Owners |-> "idle"]
    /\ faults' = faults + 1
    /\ UNCHANGED <<obj, pod, ci, phase, iter, address>>

-----------------------------------------------------------------------------
(* Kubernetes.  The route controller or the cloud load balancer gives the  *)
(* endpoint an address; the kubelet runs the rsync-server pod: a container *)
(* starts only once the config map and secret it mounts exist; the pod's   *)
(* restartPolicy is the default, Always; a deleted pod has its containers  *)
(* stopped and then disappears.  The rsync daemon exits when the transfer  *)
(* is over (or fails).                                                     *)

\* The route controller sets the route's host; the cloud load balancer
\* writes the Service's first ingress record, with a hostname, an IP or both.
AdmitEndpoint(o) ==
    /\ obj[EpKey(o)].exists /\ obj[EpKey(o)].ingress = {}
    /\ \E ing \in IF EndpointKind(o) = "Route" THEN {{"hostname"}}
                  ELSE SUBSET AddrKinds \ {{}} :
          obj' = [obj EXCEPT ![EpKey(o)].ingress = ing]
    /\ UNCHANGED <<pod, pc, ci, phase, iter, faults, address>>

SchedulePod(ns) ==
    /\ pod[ns].exists /\ ~pod[ns].terminating /\ pod[ns].rsync = "none"
    /\ pod' = [pod EXCEPT ![ns].rsync = "waiting",
                          ![ns].stunnel = IF pod[ns].sidecar THEN "waiting" ELSE "none"]
    /\ UNCHANGED <<obj, pc, ci, phase, iter, faults, address>>

RsyncMountsPresent(ns) ==
    obj[Fx("rsyncConfig", ns)].exists /\ obj[Fx("rsyncSecret", ns)].exists

StartRsync(ns) ==
    /\ pod[ns].exists /\ ~pod[ns].terminating /\ pod[ns].rsync = "waiting"
    /\ RsyncMountsPresent(ns)
    /\ pod' = [pod EXCEPT ![ns].rsync = "running",
                          ![ns].allowAll = ~obj[Fx("rsyncConfig", ns)].localOnly]
    /\ UNCHANGED <<obj, pc, ci, phase, iter, faults, address>>

StartStunnel(ns) ==
    /\ pod[ns].exists /\ ~pod[ns].terminating /\ pod[ns].stunnel = "waiting"
    /\ obj[Fx("stunnelConfig", ns)].exists /\ obj[Fx("stunnelSecret", ns)].exists
    /\ pod' = [pod EXCEPT ![ns].stunnel = "running"]
    /\ UNCHANGED <<obj, pc, ci, phase, iter, faults, address>>

\* restartPolicy Always: the kubelet restarts an exited rsync container;
\* until it runs again its state is Waiting (CrashLoopBackOff), no longer
\* Terminated.  With CrashLoop the restarts never stop; the counter then
\* saturates at MaxRestarts.
RestartRsync(ns) ==
    /\ pod[ns].exists /\ ~pod[ns].terminating /\ pod[ns].rsync = "terminated"
    /\ pod[ns].restarts < MaxRestarts \/ CrashLoop
    /\ pod' = [pod EXCEPT ![ns].rsync = "waiting",
                          ![ns].restarts = IF @ < MaxRestarts THEN @ + 1 ELSE @]
    /\ UNCHANGED <<obj, pc, ci, phase, iter, faults, address>>

RsyncExits(ns) ==
    /\ pod[ns].exists /\ ~pod[ns].terminating /\ pod[ns].rsync = "running"
    /\ pod' = [pod EXCEPT ![ns].rsync = "terminated"]
    /\ UNCHANGED <<obj, pc, ci, phase, iter, faults, address>>

Stop(c) == IF c \in {"waiting", "running"} THEN "terminated" ELSE c

KillPod(ns) ==
    /\ pod[ns].exists /\ pod[ns].terminating
    /\ pod[ns].rsync # Stop(pod[ns].rsync) \/ pod[ns].stunnel # Stop(pod[ns].stunnel)
    /\ pod' = [pod EXCEPT ![ns].rsync = Stop(@), ![ns].stunnel = Stop(@)]
    /\ UNCHANGED <<obj, pc, ci, phase, iter, faults, address>>

RemovePod(ns) ==
    /\ pod[ns].exists /\ pod[ns].terminating
    /\ pod[ns].rsync = Stop(pod[ns].rsync) /\ pod[ns].stunnel = Stop(pod[ns].stunnel)
    /\ pod' = [pod EXCEPT ![ns] = NoPod]
    /\ UNCHANGED <<obj, pc, ci, phase, iter, faults, address>>

-----------------------------------------------------------------------------
MoverStep(o) ==
    \/ Reconcile(o)
    \/ CreateRoute(o) \/ CreateService(o) \/ EndpointHealthy(o)
    \/ CreateStunnelServerConfig(o) \/ CreateStunnelServerSecret(o)
    \/ SetFields(o)
    \/ CreateConfig(o) \/ CreateSecret(o) \/ CreateRsyncServer(o)
    \/ IsHealthy(o) \/ Completed(o) \/ MarkForCleanup(o)
    \/ ImageReady(o) \/ ImageNotReady(o)
    \/ DeleteAllOf(o) \/ CleanupServices(o)

Kubelet(ns) ==
    \/ SchedulePod(ns) \/ StartRsync(ns) \/ RestartRsync(ns) \/ StartStunnel(ns)
    \/ RsyncExits(ns) \/ KillPod(ns) \/ RemovePod(ns)

Next ==
    \/ \E o \in Owners : MoverStep(o) \/ ApiError(o) \/ AdmitEndpoint(o)
    \/ \E ns \in Namespaces : Kubelet(ns)
    \/ Crash

(* The outer reconciler requeues every owner until it is done, so each     *)
(* mover step is weakly fair; the snapshot becomes ready and is seen while *)
(* the mover keeps polling (strong fairness).  Kubernetes makes progress,  *)
(* and the kubelet acts on the pod's restartPolicy, Always (createRsync-   *)
(* Server sets none): an exited rsync container is restarted.  The daemon's *)
(* exit is the spec's "the transfer ends"; rsync --daemon --no-detach does  *)
(* not exit by itself.  Failures are never forced.                         *)
Fairness ==
    /\ \A o \in Owners : WF_vars(MoverStep(o)) /\ SF_vars(ImageReady(o))
                       /\ WF_vars(AdmitEndpoint(o))
    /\ \A ns \in Namespaces :
          /\ WF_vars(SchedulePod(ns)) /\ WF_vars(StartStunnel(ns))
          /\ WF_vars(RsyncExits(ns)) /\ WF_vars(KillPod(ns))
          /\ WF_vars(RemovePod(ns))
          /\ WF_vars(StartRsync(ns)) /\ WF_vars(RestartRsync(ns))

Spec == Init /\ [][Next]_vars /\ Fairness

-----------------------------------------------------------------------------
(* Properties.                                                             *)

TypeOK ==
    /\ obj \in [ObjKeys -> ObjRec]
    /\ pod \in [Namespaces -> PodRec]
    /\ pc \in [Owners -> Steps]
    /\ ci \in [Owners -> 1..Len(CleanupTypes)]
    /\ phase \in [Owners -> {"sync", "cleanup", "done"}]
    /\ iter \in [Owners -> 1..MaxIter]
    /\ faults \in 0..MaxFaults
    /\ address \in [Owners -> [val: AddrKinds \cup {"none"}, port: Nat, iter: 0..MaxIter]]

(* A server behind stunnel (createConfig's AllowLocalhostOnly): whenever   *)
(* the rsync daemon of a pod with the stunnel sidecar is running, it       *)
(* started from an rsyncd.conf that admits only loopback clients, so the   *)
(* daemon can be reached only through the TLS tunnel.  The config map and  *)
(* the pod are separate create-if-absent calls with fixed names.           *)
LocalhostOnly ==
    \A ns \in Namespaces :
        (pod[ns].exists /\ pod[ns].sidecar /\ pod[ns].rsync = "running")
            => ~pod[ns].allowAll

\* Nothing the owner created is left in its namespace but pods already
\* being deleted.
NothingLeft(o) ==
    /\ \A k \in ObjKeys : (obj[k].exists /\ k[2] = NsOf[o]) => obj[k].owner # o
    /\ (pod[NsOf[o]].exists /\ pod[NsOf[o]].owner = o)
           => pod[NsOf[o]].terminating

(* The mover implements MoverIteration, the protocol it promises the     *)
(* outer reconciler: objects appear only while syncing; Synchronize        *)
(* reports Complete only after publishing this iteration's address;        *)
(* objects disappear only while cleaning up; Cleanup reports Complete with *)
(* nothing of the owner left; iterations follow one another by one.  The   *)
(* cleanup part takes the labelling of every object (MarkForCleanup)       *)
(* before Synchronize reports Complete, across failed and crashed          *)
(* reconciles, and every deletion (CleanupObjects) before Cleanup does.    *)
(* The mapping: an owner's address is published in the iteration recorded *)
(* with it, and something is left while NothingLeft does not hold.        *)
Iteration == INSTANCE MoverIteration
                 WITH published <- [o \in Owners |-> address[o].iter],
                      left <- [o \in Owners |-> ~NothingLeft(o)]

IterationRefined == Iteration!Spec

(* Completion is observed on this iteration's server: when Synchronize     *)
(* passes rsyncServer.Completed, the rsync-server pod it read was created  *)
(* by this owner in this iteration and is not being deleted.  A pod left   *)
(* terminating by the previous iteration's Cleanup keeps the name.         *)
ObservesOwnPod ==
    [][\A o \in Owners :
          (pc[o] = "completed" /\ pc'[o] = "mark") =>
              LET p == pod[NsOf[o]] IN
              p.owner = o /\ p.iter = iter[o] /\ ~p.terminating
      ]_vars

(* Every iteration of every owner completes and is cleaned up, under the   *)
(* fairness above and the bounded failures and restarts.                   *)
IterationsComplete == <>(\A o \in Owners : phase[o] = "done")

(* Once a destination has published destinationStatus.Address and Port, a *)
(* source of its transport given them reaches its rsync daemon: each hop   *)
(* is accepted by exactly one process (no two processes of a pod bind one  *)
(* port) and forwards to a port the next one listens on.  The ports come   *)
(* from the mover's publish and dial, the endpoints, both transports and   *)
(* both rsync sides (PortChain); no unit test follows them end to end.     *)
PortsConnect ==
    \A o \in Owners :
        address[o] # NoAddress => PathConnects(TransportOf[o], address[o].port)
=============================================================================
