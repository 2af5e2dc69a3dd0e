---------------------------- MODULE RsyncSource ----------------------------
(***************************************************************************)
(* The source side of the rsync-with-stunnel / rsync-with-null mover       *)
(* (src/unnamed/part_000, Synchronize with isSource, and Cleanup), composed *)
(* with the rsync transfer client (lib/transfer/rsync/client.go) and the   *)
(* stunnel transport client (lib/transport/stunnel/client.go).             *)
(*                                                                         *)
(* As on the destination, a reconcile is a chain of API calls, one step    *)
(* each; an error or a crash ends it.  The client pods have generated      *)
(* names ("rsync-" + suffix), carry the owner's labels, and are found      *)
(* again only by listing on those labels.  Reads may be served from the    *)
(* controller's informer cache, which lags behind the API server.          *)
(***************************************************************************)
EXTENDS Naturals, FiniteSets, Sequences

CONSTANTS
    Owners,        \* ReplicationSource objects (their UIDs)
    Namespaces,
    NsOf,          \* [Owners -> Namespaces]
    Names,         \* owner names: the pod label is "volsync-src-" + name
    NameOf,        \* [Owners -> Names]
    TransportOf,   \* [Owners -> {"stunnel", "null"}]
    PodIds,        \* the generated names the API server can hand out
    NoOwner,       \* model value: no owner / no cleanup label
    MaxIter,
    MaxFaults,
    StaleCache     \* TRUE: List and Get are served by a lagging cache

ASSUME /\ NsOf \in [Owners -> Namespaces] /\ NameOf \in [Owners -> Names]
       /\ TransportOf \in [Owners -> {"stunnel", "null"}]
       /\ NoOwner \notin Owners \cup Names
       /\ MaxIter \in Nat \ {0} /\ MaxFaults \in Nat /\ StaleCache \in BOOLEAN

VARIABLES
    clientCfg, \* [Namespaces -> the stunnel client config map "stunnelConfig"]
    secret,    \* [Namespaces -> does the TLS secret "stunnelSecret" exist]
    cpod,      \* [PodIds -> a client pod]
    cache,     \* [PodIds -> what the informer cache shows of it]
    pc, ci, phase, iter, faults

vars == <<clientCfg, secret, cpod, cache, pc, ci, phase, iter, faults>>

-----------------------------------------------------------------------------
(* The client config map keeps who created it (whose destination its       *)
(* "connect" line names) and whether it has a "verify" line.  A client pod *)
(* keeps its namespace, label, creator and iteration, whether it has the   *)
(* stunnel sidecar, its containers, deletion, the cleanup label, and the   *)
(* config its stunnel started with.                                        *)
CfgRec == [exists: BOOLEAN, target: Owners \cup {NoOwner}, verify: BOOLEAN]
NoCfg == [exists |-> FALSE, target |-> NoOwner, verify |-> FALSE]

RsyncState == {"none", "running", "succeeded", "failed"}
PodRec == [exists: BOOLEAN, ns: Namespaces, name: Names \cup {NoOwner},
           owner: Owners \cup {NoOwner}, iter: 0..MaxIter, sidecar: BOOLEAN,
           rsync: RsyncState, stunnel: {"none", "running", "terminated"},
           terminating: BOOLEAN, mark: Owners \cup {NoOwner},
           target: Owners \cup {NoOwner}, verify: BOOLEAN]
AnyNs == CHOOSE ns \in Namespaces : TRUE
NoPod == [exists |-> FALSE, ns |-> AnyNs, name |-> NoOwner, owner |-> NoOwner,
          iter |-> 0, sidecar |-> FALSE, rsync |-> "none", stunnel |-> "none",
          terminating |-> FALSE, mark |-> NoOwner, target |-> NoOwner,
          verify |-> FALSE]

\* Every container of the pod has terminated (restartPolicy Never).
Done(p) == p.rsync \in {"succeeded", "failed"}
           /\ (p.sidecar => p.stunnel = "terminated")

\* What a List or Get of a client pod shows: the fields the mover reads.
ListRec == [exists: BOOLEAN, ns: Namespaces, name: Names \cup {NoOwner},
            done: BOOLEAN]
Shown(p) == [exists |-> p.exists, ns |-> p.ns, name |-> p.name, done |-> Done(p)]
View == IF StaleCache THEN cache ELSE [i \in PodIds |-> Shown(cpod[i])]

Steps == {"idle", "cfg", "creds", "list", "create", "completed", "mark",
          "delAll", "svc"}

Goto(o, s) == pc' = [pc EXCEPT ![o] = s]

-----------------------------------------------------------------------------
(* strconv.FormatBool, and the client template's condition                 *)
(* {{- if not (eq .noVerifyCA "false") }} in front of the verify line.      *)
FormatBool(b) == IF b THEN "true" ELSE "false"
EmitsVerify(noVerifyCA) == FormatBool(noVerifyCA) # "false"

\* The only caller builds transport.Options{ObjMeta: ...}: NoVerifyCA keeps
\* its zero value.
NoVerifyCA == FALSE

\* The stunnel client's container list (one stunnel container mounting the
\* config map and the secret); the null transport has none.
SidecarOf(o) == TransportOf[o] = "stunnel"

\* List with client.MatchingLabels and no namespace: pods of every
\* namespace whose owner has the same name match.
Listed(o) == {i \in PodIds : View[i].exists /\ View[i].name = NameOf[o]}

\* rsyncClient.IsCompleted: the owner's client pods in its namespace have
\* all their containers terminated (AND over the pods).
ClientPods(o) == {i \in Listed(o) : View[i].ns = NsOf[o]}
ClientsCompleted(o) == ClientPods(o) # {} /\ \A i \in ClientPods(o) : View[i].done

\* Mutant of CleanupTypes: the Pod type left out of the list.
CleanupTypesNoPod == <<"PersistentVolumeClaim", "ConfigMap", "VolumeSnapshot",
                       "Secret", "Route">>

CleanupTypes == <<"PersistentVolumeClaim", "ConfigMap", "VolumeSnapshot",
                  "Secret", "Route", "Pod">>

-----------------------------------------------------------------------------
Init ==
    /\ clientCfg = [ns \in Namespaces |-> NoCfg]
    /\ secret = [ns \in Namespaces |-> FALSE]
    /\ cpod = [i \in PodIds |-> NoPod]
    /\ cache = [i \in PodIds |-> Shown(NoPod)]
    /\ pc = [o \in Owners |-> "idle"]
    /\ ci = [o \in Owners |-> 1]
    /\ phase = [o \in Owners |-> "sync"]
    /\ iter = [o \in Owners |-> 1]
    /\ faults = 0

(* Synchronize (source branch): the source PVC and its copy are folded     *)
(* into the first call; the transport annotation selects the client.      *)
Reconcile(o) ==
    /\ pc[o] = "idle" /\ phase[o] \in {"sync", "cleanup"}
    /\ Goto(o, IF phase[o] = "cleanup" THEN "delAll"
               ELSE IF TransportOf[o] = "stunnel" THEN "cfg" ELSE "list")
    /\ ci' = [ci EXCEPT ![o] = 1]
    /\ UNCHANGED <<clientCfg, secret, cpod, cache, phase, iter, faults>>

\* NewTransportClient -> createClientConfig: create-if-absent of the fixed
\* name "stunnelConfig", connecting to this owner's destination address.
CreateClientConfig(o) ==
    /\ pc[o] = "cfg"
    /\ clientCfg' = IF clientCfg[NsOf[o]].exists THEN clientCfg
                    ELSE [clientCfg EXCEPT ![NsOf[o]] =
                            [exists |-> TRUE, target |-> o,
                             verify |-> EmitsVerify(NoVerifyCA)]]
    /\ Goto(o, "creds")
    /\ UNCHANGED <<secret, cpod, cache, ci, phase, iter, faults>>

\* credentials: the TLS secret must already be in the namespace.
Credentials(o) ==
    /\ pc[o] = "creds"
    /\ Goto(o, IF secret[NsOf[o]] THEN "list" ELSE "idle")
    /\ UNCHANGED <<clientCfg, secret, cpod, cache, ci, phase, iter, faults>>

\* Mutant of ListClients: the list result is not consulted.
ListClientsAlwaysCreate(o) ==
    /\ pc[o] = "list"
    /\ Goto(o, "create")
    /\ UNCHANGED <<clientCfg, secret, cpod, cache, ci, phase, iter, faults>>

\* createRsyncClient: any pod with the owner's labels means "already made".
ListClients(o) ==
    /\ pc[o] = "list"
    /\ Goto(o, IF Listed(o) # {} THEN "completed" ELSE "create")
    /\ UNCHANGED <<clientCfg, secret, cpod, cache, ci, phase, iter, faults>>

\* One pod per PVC, with GenerateName "rsync-": the API server picks a
\* fresh name; a generated name that is taken fails the create.  A create
\* error is aggregated and returned.
FreeIds == {i \in PodIds : ~cpod[i].exists}

CreateClientPod(o) ==
    /\ pc[o] = "create"
    /\ \/ \E i \in FreeIds :
             /\ cpod' = [cpod EXCEPT ![i] =
                           [NoPod EXCEPT !.exists = TRUE, !.ns = NsOf[o],
                                         !.name = NameOf[o], !.owner = o,
                                         !.iter = iter[o], !.sidecar = SidecarOf(o)]]
             /\ Goto(o, "completed")
       \/ FreeIds = {} /\ Goto(o, "idle") /\ UNCHANGED cpod
    /\ UNCHANGED <<clientCfg, secret, cache, ci, phase, iter, faults>>

\* Mutant of IsCompleted: only a successful rsync counts as completion.
IsCompletedSucceeded(o) ==
    /\ pc[o] = "completed"
    /\ Goto(o, IF ClientsCompleted(o)
                  /\ \A i \in ClientPods(o) : cpod[i].rsync = "succeeded"
               THEN "mark" ELSE "idle")
    /\ UNCHANGED <<clientCfg, secret, cpod, cache, ci, phase, iter, faults>>

\* rsyncClient.IsCompleted; not complete returns InProgress.
IsCompleted(o) ==
    /\ pc[o] = "completed"
    /\ Goto(o, IF ClientsCompleted(o) THEN "mark" ELSE "idle")
    /\ UNCHANGED <<clientCfg, secret, cpod, cache, ci, phase, iter, faults>>

\* rsyncClient.MarkForCleanup labels each client pod; the source then
\* reports Complete and the outer reconciler moves to Cleanup.
MarkForCleanup(o) ==
    /\ pc[o] = "mark"
    /\ cpod' = [i \in PodIds |->
                  IF i \in ClientPods(o) /\ cpod[i].exists
                  THEN [cpod[i] EXCEPT !.mark = o] ELSE cpod[i]]
    /\ Goto(o, "idle")
    /\ phase' = [phase EXCEPT ![o] = "cleanup"]
    /\ UNCHANGED <<clientCfg, secret, cache, ci, iter, faults>>

\* CleanupObjects: DeleteAllOf each type by the owner's cleanup label in its
\* namespace.  The only labelled objects of the source are its pods; they
\* are deleted gracefully.
DeleteAllOf(o) ==
    /\ pc[o] = "delAll"
    /\ cpod' = [i \in PodIds |->
                  IF /\ CleanupTypes[ci[o]] = "Pod" /\ cpod[i].exists
                     /\ cpod[i].ns = NsOf[o] /\ cpod[i].mark = o
                  THEN [cpod[i] EXCEPT !.terminating = TRUE] ELSE cpod[i]]
    /\ IF ci[o] < Len(CleanupTypes)
       THEN ci' = [ci EXCEPT ![o] = @ + 1] /\ UNCHANGED pc
       ELSE Goto(o, "svc") /\ UNCHANGED ci
    /\ UNCHANGED <<clientCfg, secret, cache, phase, iter, faults>>

\* Mutant of CleanupServices: the iteration counter advances past the last
\* iteration.
CleanupServicesPastLast(o) ==
    /\ pc[o] = "svc"
    /\ Goto(o, "idle")
    /\ phase' = [phase EXCEPT ![o] = IF iter[o] < MaxIter THEN "sync" ELSE "done"]
    /\ iter' = [iter EXCEPT ![o] = @ + 1]
    /\ UNCHANGED <<clientCfg, secret, cpod, cache, ci, faults>>

\* The Service list finds nothing on the source; Cleanup reports Complete.
CleanupServices(o) ==
    /\ pc[o] = "svc"
    /\ Goto(o, "idle")
    /\ phase' = [phase EXCEPT ![o] = IF iter[o] < MaxIter THEN "sync" ELSE "done"]
    /\ iter' = [iter EXCEPT ![o] = IF iter[o] < MaxIter THEN @ + 1 ELSE @]
    /\ UNCHANGED <<clientCfg, secret, cpod, cache, ci, faults>>

ApiError(o) ==
    /\ faults < MaxFaults
    /\ pc[o] # "idle"
    /\ Goto(o, "idle")
    /\ faults' = faults + 1
    /\ UNCHANGED <<clientCfg, secret, cpod, cache, ci, phase, iter>>

Crash ==
    /\ faults < MaxFaults
    /\ \E o \in Owners : pc[o] # "idle"
    /\ pc' = [o \in Owners |-> "idle"]
    /\ faults' = faults + 1
    /\ UNCHANGED <<clientCfg, secret, cpod, cache, ci, phase, iter>>
-----------------------------------------------------------------------------
(* Kubernetes.  The outer reconciler copies the TLS secret from the        *)
(* destination; the informer cache catches up with the API server one pod *)
(* at a time; the kubelet starts a pod once the volumes it mounts exist.   *)
(* The rsync script runs rsync once, with success or failure, and touches  *)
(* the "done" file on exit; the rewritten stunnel command then exits.      *)
(* restartPolicy is Never.  A deleted pod is stopped, then removed.        *)

ProvideSecret(ns) ==
    /\ ~secret[ns]
    /\ secret' = [secret EXCEPT ![ns] = TRUE]
    /\ UNCHANGED <<clientCfg, cpod, cache, pc, ci, phase, iter, faults>>

SyncCache(i) ==
    /\ StaleCache /\ cache[i] # Shown(cpod[i])
    /\ cache' = [cache EXCEPT ![i] = Shown(cpod[i])]
    /\ UNCHANGED <<clientCfg, secret, cpod, pc, ci, phase, iter, faults>>

\* The destination a client pod dials: the "connect" line of the stunnel
\* client config its stunnel starts with, or, with the null transport, the
\* hostname given to null.NewTransport, this owner's own sourceSpec.Address.
DialTarget(p) == IF p.sidecar THEN clientCfg[p.ns].target ELSE p.owner

StartPod(i) ==
    LET p == cpod[i] IN
    /\ p.exists /\ ~p.terminating /\ p.rsync = "none"
    /\ p.sidecar => clientCfg[p.ns].exists /\ secret[p.ns]
    /\ cpod' = [cpod EXCEPT ![i].rsync = "running",
                            ![i].stunnel = IF p.sidecar THEN "running" ELSE "none",
                            ![i].target = DialTarget(p),
                            ![i].verify = p.sidecar /\ clientCfg[p.ns].verify]
    /\ UNCHANGED <<clientCfg, secret, cache, pc, ci, phase, iter, faults>>

RsyncEnds(i) ==
    /\ cpod[i].exists /\ cpod[i].rsync = "running"
    /\ \E r \in {"succeeded", "failed"} : cpod' = [cpod EXCEPT ![i].rsync = r]
    /\ UNCHANGED <<clientCfg, secret, cache, pc, ci, phase, iter, faults>>

StunnelExits(i) ==
    /\ cpod[i].exists /\ cpod[i].stunnel = "running"
    /\ cpod[i].rsync \in {"succeeded", "failed"}
    /\ cpod' = [cpod EXCEPT ![i].stunnel = "terminated"]
    /\ UNCHANGED <<clientCfg, secret, cache, pc, ci, phase, iter, faults>>

KillPod(i) ==
    /\ cpod[i].exists /\ cpod[i].terminating /\ ~Done(cpod[i])
    /\ cpod' = [cpod EXCEPT
                  ![i].rsync = IF @ \in {"none", "running"} THEN "failed" ELSE @,
                  ![i].stunnel = IF cpod[i].sidecar THEN "terminated" ELSE "none"]
    /\ UNCHANGED <<clientCfg, secret, cache, pc, ci, phase, iter, faults>>

RemovePod(i) ==
    /\ cpod[i].exists /\ cpod[i].terminating /\ Done(cpod[i])
    /\ cpod' = [cpod EXCEPT ![i] = NoPod]
    /\ UNCHANGED <<clientCfg, secret, cache, pc, ci, phase, iter, faults>>

Finished ==
    /\ \A o \in Owners : phase[o] = "done"
    /\ UNCHANGED vars

-----------------------------------------------------------------------------
MoverStep(o) ==
    \/ Reconcile(o) \/ CreateClientConfig(o) \/ Credentials(o)
    \/ ListClients(o) \/ CreateClientPod(o) \/ IsCompleted(o)
    \/ MarkForCleanup(o) \/ DeleteAllOf(o) \/ CleanupServices(o)

Kubelet(i) ==
    \/ StartPod(i) \/ RsyncEnds(i) \/ StunnelExits(i) \/ KillPod(i)
    \/ RemovePod(i) \/ SyncCache(i)

Next ==
    \/ \E o \in Owners : MoverStep(o) \/ ApiError(o)
    \/ \E ns \in Namespaces : ProvideSecret(ns)
    \/ \E i \in PodIds : Kubelet(i)
    \/ Crash
    \/ Finished

(* The outer reconciler requeues every owner until it is done; the secret  *)
(* is copied, the cache catches up and the kubelet runs pods.  Faults are   *)
(* never forced.                                                           *)
Fairness ==
    /\ \A o \in Owners : WF_vars(MoverStep(o))
    /\ \A ns \in Namespaces : WF_vars(ProvideSecret(ns))
    /\ \A i \in PodIds : WF_vars(Kubelet(i))

Spec == Init /\ [][Next]_vars /\ Fairness

-----------------------------------------------------------------------------
(* Properties.                                                             *)

TypeOK ==
    /\ clientCfg \in [Namespaces -> CfgRec]
    /\ secret \in [Namespaces -> BOOLEAN]
    /\ cpod \in [PodIds -> PodRec]
    /\ cache \in [PodIds -> ListRec]
    /\ pc \in [Owners -> Steps]
    /\ ci \in [Owners -> 1..Len(CleanupTypes)]
    /\ phase \in [Owners -> {"sync", "cleanup", "done"}]
    /\ iter \in [Owners -> 1..MaxIter]
    /\ faults \in 0..MaxFaults

\* A pod whose rsync container runs now or will run.
Active(p) == p.exists /\ (p.rsync = "running" \/ (p.rsync = "none" /\ ~p.terminating))

(* One transfer at a time (createRsyncClient's list-before-create): an      *)
(* owner never has two client pods whose rsync is running or still to run, *)
(* across reconciles that each list, create and return InProgress.         *)
SingleClient ==
    \A o \in Owners :
        Cardinality({i \in PodIds : Active(cpod[i]) /\ cpod[i].owner = o}) <= 1

(* The mover implements SourceIteration, what it promises the outer       *)
(* reconciler: client transfers start only while syncing; Synchronize      *)
(* reports Complete only when none of the owner's transfers is running or  *)
(* still to run (IsCompleted over the listed pods, across reconciles that  *)
(* fail or crash between IsCompleted and MarkForCleanup); Cleanup reports  *)
(* Complete only when every client pod of the owner is being deleted      *)
(* (label-complete cleanup: MarkForCleanup labels what IsCompleted listed, *)
(* CleanupObjects deletes what is labelled).                               *)
Iteration == INSTANCE SourceIteration
                 WITH running <- [o \in Owners |->
                                    \E i \in PodIds : Active(cpod[i]) /\ cpod[i].owner = o],
                      left <- [o \in Owners |->
                                 \E i \in PodIds : /\ cpod[i].exists /\ cpod[i].owner = o
                                                  /\ ~cpod[i].terminating]

SourceIterationRefined == Iteration!Spec

(* Data goes to the owner's own destination: a running client pod's        *)
(* stunnel was started from a config whose "connect" line is this owner's  *)
(* destination address (the config map has a fixed name per namespace).   *)
ConnectsToOwnDestination ==
    \A i \in PodIds :
        (cpod[i].exists /\ cpod[i].rsync = "running") => cpod[i].target = cpod[i].owner

(* Completion is observed on this iteration's transfer (spec 4.5, one     *)
(* client pod per PVC per iteration): when Synchronize passes IsCompleted, *)
(* some pod it listed was created by this owner in this iteration.  The    *)
(* previous iteration's finished pod, still terminating after Cleanup,     *)
(* keeps the owner's labels and matches createRsyncClient's List.          *)
ObservesOwnClient ==
    [][\A o \in Owners :
          (pc[o] = "completed" /\ pc'[o] = "mark") =>
              \E i \in ClientPods(o) : cpod[i].owner = o /\ cpod[i].iter = iter[o]
      ]_vars

(* Every iteration of every source owner completes and is cleaned up.      *)
SourceIterationsComplete == <>(\A o \in Owners : phase[o] = "done")
====
