# TLA+ models of the volsync rsync/stunnel data mover

These modules model the rsync-based data mover in `src/` and the Kubernetes
objects it creates. Each module is written from the Go source. The runs below
check the modules with TLC.

## The system

A higher-level reconciler calls the mover once per replication iteration. On
the destination, `Mover.Synchronize` (`src/unnamed/part_000`) is a chain of API
calls. Every step is a create-if-absent that treats AlreadyExists as success.
Any error ends the call with `InProgress`, and the next call starts again from
the top. The layers compose as transfer → transport → endpoint:

| Part | Source | State it changes | Operations |
|---|---|---|---|
| Mover | `unnamed/part_000` | none of its own; it drives the others | Synchronize, Cleanup, reconcileRsyncStunnelDestination / Source |
| Builder | `unnamed/part_000` 353-490 | none | chooses stunnel or null from an annotation |
| Rsync transfer server | `lib/transfer/rsync/server.go` | config map `rsyncConfig`, secret `rsyncSecretPrefix`, pod `rsync-server`, all with fixed names per namespace | createConfig, createSecret, createRsyncServer, IsHealthy |
| Rsync transfer client | `lib/transfer/rsync/client.go` | `rsync-` client pods (GenerateName) | createRsyncClient, completion |
| Rsync options | `lib/transfer/rsync/options.go` | the `TransferOptions` a server or client is built with | Apply with every option's ApplyTo, AsRsyncCommandOptions |
| Stunnel server | `lib/transport/stunnel/server.go` | stunnel config map and secret | createStunnelServerConfig, createStunnelServerSecret, setFields |
| Stunnel client | `lib/transport/stunnel/client.go` | client config map `stunnelConfig` (it only reads the TLS secret) | createClientConfig, credentials |
| Null transport | `lib/transport/null/null.go` | none | no containers, no objects |
| Load-balancer endpoint | `lib/endpoint/loadbalancer/loadbalancer.go` | a `LoadBalancer` Service (CreateOrUpdate) | createService, IsHealthy, MarkForCleanup |
| Route endpoint | not under `src/` | a passthrough Route | NewEndpoint, IsHealthy |
| Pod helpers | `unnamed/part_001` (`transfer.go` is an older copy) | none | areContainersReady, IsPodCompleted |
| Cleanup | `controllers/utils/cleanup.go` | deletes labelled objects | MarkForCleanup, CleanupObjects |
| rclone image | `mover-rclone/Dockerfile` | none | build file only |

These parts run concurrently with other actors:
- other owners' reconciles, which share the fixed-name objects of a namespace;
- the route controller or cloud load balancer, which admits the endpoint;
- the kubelet, which starts each container once the config map and secret it
  mounts exist, restarts the rsync container (restartPolicy Always), and
  stops a deleted pod before removing it;
- controller crashes and API errors, which can end a reconcile between any two
  calls.

## Modules

### `RsyncDestination` (with `MCRsyncDestination`)

This module models the destination side of one or more ReplicationDestinations.
It covers Synchronize and Cleanup, composed with the transfer server, the
stunnel or null transport, the route or load-balancer endpoint, and the cleanup
utilities.

State:
- `obj`: the config maps, secrets, routes and services. Each is keyed by
  `<<kind, namespace, name>>`. Transport and transfer objects use the name
  `"fixed"`, as in the code; endpoints are named after their owner.
- `pod`: the `rsync-server` pod of each namespace: its creator, the iteration
  that created it, sidecar, terminating, the cleanup label, and the state of each
  container.
- `pc`: the API call each owner's reconcile is at.
- `ci`: the index into `cleanupTypes`.
- `phase`: sync, cleanup or done (the outer reconciler).
- `iter`: the owner's iteration.
- `faults`: API errors and crashes so far.
- `address`: `destinationStatus.Address` of each owner, with the iteration
  that set it.

Actions (each one API call of the code, in the code's order):

| Action | Code |
|---|---|
| `Reconcile` | `Synchronize` / `Cleanup` entry |
| `CreateRoute` | `route.NewEndpoint` (spec-modelled) |
| `CreateService` | `createService`: CreateOrUpdate that resets labels |
| `EndpointHealthy` | the health gate in `NewRsyncTransferServerWith{Stunnel,Null}` |
| `CreateStunnelServerConfig`, `CreateStunnelServerSecret`, `SetFields` | `stunnel.NewTransportServer`, with its aggregated errors |
| `CreateConfig`, `CreateSecret`, `CreateRsyncServer` | `NewRsyncTransferServer` |
| `IsHealthy`, `Completed`, `MarkForCleanup` | `reconcileRsyncStunnelDestination` 205-240 |
| `ImageReady`, `ImageNotReady` | `EnsureImage` in `Synchronize` |
| `DeleteAllOf`, `CleanupServices` | `CleanupObjects` |
| `ApiError`, `Crash` | an error return at any call; a controller restart |
| `AdmitEndpoint`, `SchedulePod`, `StartRsync`, `StartStunnel`, `RsyncExits`, `RestartRsync`, `KillPod`, `RemovePod` | the environment |

`IsHealthy` and `Completed` publish the endpoint's address (`Publish`) as the
code does after its health checks. For a load balancer, `EndpointHostname`
models `Endpoint.IsHealthy`, where the first ingress's IP overwrites its
hostname. The pod spec sets no `RestartPolicy`, so it is `Always`:
`RestartRsync` restarts an exited rsync container. Runs with `CrashLoop =
FALSE` allow `MaxRestarts` restarts. With `CrashLoop = TRUE` the restarts are
unbounded, as the kubelet's are.

`Completed` models `TransferServer.Completed`, and `Labelled` models the
labelling of `TransferServer.MarkForCleanup`. Neither is under `src/`, so both
come from the spec (4.4) and from the helpers they call (`IsPodCompleted` in
`part_001`).

Data is abstracted to what the properties distinguish. An rsyncd.conf is only
its `hosts allow` choice (`localOnly`), and a pod spec is only whether it has
the stunnel sidecar. `setFields` only reads, so skipping it after an aggregated
error changes no state. `PROJECT.json` maps every definition to its source lines.

### `MoverIteration`

`MoverIteration` is the abstract specification of what a destination mover
promises its outer reconciler (spec sections 5 and 7), per owner:
- `Provision`: the owner's objects appear, only while syncing.
- `Publish`: this iteration's address is published.
- `Complete`: Synchronize reports Complete, only once this iteration's address
  is published.
- `Remove`: objects disappear, only while cleaning up.
- `Cleaned`: Cleanup reports Complete with nothing of the owner left, and the
  next iteration begins.

`RsyncDestination` instantiates it with a refinement mapping: `phase` and
`iter` as they are, `published` the iteration recorded with
`destinationStatus.Address`, and `left` the negation of `NothingLeft`.
`IterationRefined` (`Iteration!Spec`) is a property of `dest_safety`. API
errors, crashes, the kubelet and the load balancer are stuttering steps of the
abstract spec.

### `SourceIteration`

`SourceIteration` is the source side's abstract specification: what a source
mover promises its outer reconciler (spec sections 5 and 7, `Transfer.Client`),
per owner:
- `Launch`: a client transfer starts, only while syncing.
- `Finish`: the owner's last running transfer ends, in any phase.
- `Complete`: Synchronize reports Complete, only when no transfer of the owner
  is running or still to run.
- `Remove`: client pods start being deleted, only while cleaning up.
- `Cleaned`: Cleanup reports Complete only when every client pod of the owner
  is being deleted, and the next iteration begins.

It deliberately does not promise that the transfer ran in the current
iteration, because the code does not guarantee that (`client.go:119`,
`src_stale_pod`). `RsyncSource` instantiates it:
- `running` is "some pod of the owner is `Active`";
- `left` is "some pod of the owner exists and is not terminating".

`SourceIterationRefined` is a property of `src_safety`.

### `PortChain`

`PortChain` is the data path of one transfer as a chain of listeners, for
each transport. It composes the port constants and getters of the mover
(publish and dial, `part_000:224-229`, `260-272`), the endpoints, both
transports, the rsync server and the rsync client. It has no state.
`RsyncDestination` extends it: `Publish` records the port the mover publishes
(`Endpoint().IngressPort()`) with the address.
- `EndpointOf`: a route (`RouteIngressPort` 443, `RouteBackendPort` 6443,
  constants because `route` is not under `src/`) for stunnel, and a load
  balancer forwarding 8080 to 2222 for null.
- `TransportServer` and `TransportClient`: the stunnel server listens on the
  endpoint's backend port and connects to 8080. The stunnel client listens on
  6443 and connects to `route.IngressPort`. `NewTransport` is the null
  transport, with one port for both directions, given the published port.
- `DaemonPort`: the daemon runs on the transport's `ConnectPort`.
- `RsyncDial`: the client's rsync dials `Hostname():ListenPort()`, which is
  loopback for stunnel and the published address for null.
- `IngressListener`, `StunnelServerListener`, `StunnelClientListener` and
  `DaemonListener`: each process's accept port and forward address, taken
  from the Service's ports, the two stunnel templates and `rsync --port`.
  `Listeners` is the set of processes on the path.
- `Reaches`: follows a connection hop by hop (RECURSIVE, bounded by the
  number of listeners). At each hop exactly one process must accept it.

`PortsConnect` (in `RsyncDestination`) says that once a destination has
published, a source given what it published reaches its daemon. In the runs
only stunnel destinations publish; a null server never passes `IsHealthy`
(`dest_null_liveness`), so its chain is never exercised. With
`RouteBackendPort` = 8080 the property fails, because the stunnel server and
the daemon would both bind 8080 in the server pod. The route's real value is
not in `src/`.

### `RsyncSource` (with `MCRsyncSource`)

This module models the source side: `reconcileRsyncStunnelSource` with
`rsync.NewRsyncTransferClientWith{Stunnel,NullTransport}`, the stunnel
client's `createClientConfig` and `credentials`, `createRsyncClient`, and
Cleanup.

State:
- `clientCfg`: the fixed-name stunnel client config of each namespace. It
  records whose destination its `connect` line names, and whether it has a
  `verify` line.
- `secret`: the TLS secret, copied in out-of-band.
- `cpod`: client pods, keyed by a small set `PodIds` of generated names.
- `cache`: what the informer cache shows of each pod, for runs with
  `StaleCache = TRUE`.
- `pc`, `ci`, `phase`, `iter`, `faults`: as on the destination.

The pod label is the owner's name (`volsync-src-<name>`). The List in
`createRsyncClient` has no namespace, so same-named owners in other namespaces
match. `Client.IsCompleted` and `Client.MarkForCleanup` are not under `src/`;
they are modelled from the spec:
- completion means all containers of the owner's pods have terminated;
- cleanup labels each client pod.

The client pod's script runs rsync once and touches the done file, and the
rewritten stunnel command then exits. These are the environment actions
`RsyncEnds` and `StunnelExits`. The template condition in front of `verify` is
modelled by what it does: `FormatBool(noVerifyCA) # "false"`.

### `RsyncOptions` and `RsyncArgv` (with `MCRsyncOptions`)

`RsyncOptions` models `TransferOptions.Apply`. The caller's option list is
applied one option at a time, and each step is one `ApplyTo`, named after its
type (`ArchiveFiles`, `StandardProgress`, `SourcePodSpecMutation`, and so on).
The `Kinds` constant restricts which option types a list may contain.
- `opts`: the command options, the meta mutations, the user name and the
  password.
- `slices`: the four mutation lists as Go slice headers (array, len, cap).
- `heap`: the backing arrays. `GoAppend` writes in place when the capacity
  allows. Otherwise it copies into a new array with double the capacity (1, 2,
  4, 8), as the Go runtime does for these element types. So
  `DestinationContainerMutations = append(SourceContainerMutations, m)` can
  share the source's array.
- `applied`: the mutations the caller gave for each list, the reference the
  properties compare with.
- `n`: options applied so far.

`RsyncArgv` holds `AsRsyncCommandOptions`, `filterRsyncInfoOptions` and
`filterRsyncExtraOptions` as operators. The regular expressions are automata
over character classes (`Run` is RECURSIVE). fmt and strings.Join are modelled
by what they produce. Beside these operators it states the spec's contract
declaratively (`ContractFlags`). `RsyncOptions` instantiates it as `Argv`.

## Runs

| Run | Expect | What it shows |
|---|---|---|
| `dest_safety` | pass | Checks a stunnel owner and a null owner in separate namespaces, over 2 iterations, with one API error or crash. The kubelet restarts exited rsync containers without bound. `TypeOK` holds. `IterationRefined` holds: the mover implements `MoverIteration`. In particular, when Cleanup reports Complete none of the owner's objects remain and its pod is terminating. `PortsConnect` holds: once a destination publishes, a source given its address and port reaches its daemon through every hop. |
| `dest_stale_pod` | violation | `ObservesOwnPod`: iteration 2 reuses the still-terminating pod of iteration 1 (AlreadyExists swallowed) and reports completion from its terminated rsync container. No transfer happened. |
| `dest_null_liveness` | violation | `IterationsComplete`: a null destination never completes, because `IsPodCompleted` demands two container statuses and its pod has one. |
| `dest_shared_ns` | violation | `LocalhostOnly`: a null and a stunnel destination in one namespace share the fixed-name rsyncd config. The stunnel server's daemon then admits all hosts. |
| `dest_restart_race` | violation | `IterationsComplete`, with the kubelet's restart weakly fair, as `restartPolicy: Always` makes it: the rsync container exits, the kubelet restarts it before the mover's next poll, and this repeats, so `Completed` never sees a terminated container. |
| `src_safety` | pass | Checks a stunnel source and a null source with the same name in two namespaces, over 2 iterations with one fault. `SingleClient`: no owner ever has two client pods running or due to run. `SourceIterationRefined`: the source implements `SourceIteration`. Synchronize never reports Complete while a transfer of the owner runs or is still to run, even across a failure between `IsCompleted` and `MarkForCleanup`. When Cleanup reports Complete, all its client pods are being deleted. `SourceIterationsComplete`: both sources finish; the cross-namespace list delays one but does not block it. |
| `src_cache_liveness` | pass | `SourceIterationsComplete` with a lagging cache, over 2 iterations with one fault. |
| `src_stale_pod` | violation | `ObservesOwnClient`: in iteration 2, `createRsyncClient` lists the finished pod of iteration 1, which Cleanup left terminating with the owner's labels. It creates no pod, and Synchronize reports completion without a transfer. |
| `src_stale_cache` | violation | `SingleClient`: with a lagging cache, the next reconcile misses the new pod and creates a second client. |
| `src_shared_ns` | violation | `ConnectsToOwnDestination`: two stunnel sources in one namespace share the client config, so the second tunnels to the first one's destination. |
| `opts_apply` | pass | Every list of up to three options of all 14 types. `CommandValidates`: the command validates, and its argv holds each flag the options turned on, once, and nothing else. |
| `opts_dest_mutations` | violation | `DestinationMutationsKept`: a source container mutation followed by a destination one leaves both in the destination's list, because the destination list is `append(<source list>, m)`. This answers the spec's open question (b): the source lists are never affected, and it is the destination's list that is built on the source's. |

Each property of a passing run has a mutant in `PROJECT.json` that TLC catches:
- an off-by-one in the cleanup loop;
- a labelling error ignored;
- the daemon run on the transport's listen port instead of its connect port.

The source side has these mutants:
- the iteration counter stepping past the last iteration;
- the list result not consulted;
- Pod missing from `cleanupTypes`;
- only a successful rsync counting as completion.

The options have these mutants:
- the info pattern without its optional digit.

### Bounds

- Two owners and two namespaces are the fewest that separate "shared
  namespace" from "separate namespaces".
- Two iterations are the fewest that reach the previous iteration's leftovers.
- One fault is enough to interrupt a reconcile or the labelling at every step.
- Container restarts are unbounded (`CrashLoop = TRUE`) in `dest_safety`,
  `dest_null_liveness` and `dest_restart_race`. `dest_stale_pod` and
  `dest_shared_ns` need no restart to reach their violations.
- Source runs use two or three generated pod names. A taken generated name
  fails the create, as the API server does, so the bound acts as an error and
  not as a deadlock.
- `dest_safety` explores about 580 thousand distinct states in under 2
  minutes.
- `src_safety` explores about 580 thousand distinct states in about 2
  minutes, including the liveness check.
- `opts_apply` lists of three options reach every pair of option kinds in
  both orders. `opts_dest_mutations` needs only two. Three source appends
  followed by a destination append are the shortest list in which the
  destination shares the source's array. This is why `MaxCap` is `2 * MaxOpts`.

### Fairness

The outer reconciler requeues an owner until it reports Complete, so each
owner's mover step is weakly fair. The endpoint is eventually admitted. The
kubelet schedules, starts and stops containers, and restarts an exited rsync
container. The pod sets no `RestartPolicy`, so it is `Always`, and
`RestartRsync` is weakly fair. The rsync daemon's exit is weakly fair because
the spec says the transfer ends; `rsync --daemon --no-detach` does not exit by
itself. A ready snapshot is seen only while the mover polls, so `ImageReady`
is strongly fair. Faults and crashes are never forced. On the source, the outer reconciler
copies the TLS secret eventually and the informer cache eventually catches up.
Both are weakly fair.

Under this fairness no destination liveness property holds. The kubelet's
restart can always come before the mover's next poll (`dest_restart_race`).
The project therefore checks no passing liveness property on the destination.
When every owner is done the outer reconciler stops calling the mover, so
`dest_restart_race`, whose one owner can finish, does not check deadlock
(`CHECK_DEADLOCK FALSE`). `dest_safety` does: its null owner never finishes
and keeps reconciling.

The options run has no fairness: Apply is a bounded loop, and its runs stop
after the last option (`CHECK_DEADLOCK FALSE`).

## Observations without a run

- The stunnel client template emits its `verify` line only when `NoVerifyCA`
  is true (`stunnel/client.go:46`), and the only caller leaves it false. The
  client therefore never verifies the server. `RsyncSource` models the
  condition (`EmitsVerify`), but it is a single guard, so no run is spent on
  it.
- The stunnel client config map is never labelled. `Transport.MarkForCleanup`
  (`stunnel/client.go:74`) exists, but the transfer client labels only its
  pods (spec section 5), so every Cleanup leaves `stunnelConfig` behind. A
  later source in the namespace then tunnels to the address it names; this is
  part of what `src_shared_ns` shows. Spec invariant 2 (label-complete
  cleanup) is therefore not met on the source side for that object.
- The stunnel client's `credentials` stores the certificate in the `key`
  buffer (`t.key = crt`). The pod mounts the secret's files directly, so the
  buffers never reach a pod, and no model state depends on them.
- `StandardProgress(false)` sets the same values as `StandardProgress(true)`,
  because the receiver is not read.
- A load balancer's published address is the IP when both are present, while
  the spec prefers the hostname. The model has it (`EndpointHostname`), but the
  mover publishes only after `IsHealthy` or `Completed`, and a null-transport
  server (the load-balancer case) reaches neither.

- With a proxy, the stunnel client's template sends `protocolHost =
  <hostname>:<listenPort>` (`stunnel/client.go:36`), which is its own
  loopback port 6443 and not the destination's ingress port. The spec copies
  the template. No code under `src/` sets `ProxyURL` (both transports get
  `Options{ObjMeta}` only), so the branch is unreachable and `PortChain` models
  the direct `connect` line only.
- The source mover dereferences `sourceSpec.Address`, and for null
  `sourceSpec.Port`, without a nil check (`part_000:263`, `268`). A source
  reconciled before its outer reconciler copies the destination's published
  address panics the reconcile. The address is an input of the outer
  reconciler, which is not under `src/`, so the models take it as given.

## Not modelled yet, and the plan

- **Replication** would compose RsyncSource and RsyncDestination through the
  published address and the copied TLS secret. It is not built, for three
  reasons. First, the data path between the two pods is decided by the
  rsync-transfer image: `rsync --daemon --no-detach` (`server.go:372`) never
  exits by itself in `src/`, and the spec calls the server long-running.
  "The destination completes after its source's transfer" would therefore
  rest on an assumption about the image, not on the code. Second, the address
  handoff and the secret copy are done by the outer reconciler, which is not
  under `src/`. Third, the product of the two state spaces exceeds the time
  the runs are given. Each side already treats the other as its environment:
  `AdmitEndpoint`, `RsyncExits` and `ProvideSecret`, `RsyncEnds`.
- **Load balancer, first version.** `loadbalancer.go` holds two revisions of
  the file. The first (lines 1-110) creates the Service with `Create` and
  ignores AlreadyExists; the second uses `CreateOrUpdate` and is the one
  modelled (`CreateService`). A build compiles one of them, and the only
  passing run with a load-balancer owner (`dest_safety`) can hold one, so the
  first revision is not a second action.
- **Not modelled at all**: certificate generation (crypto), the password and
  its generation, the stunnel proxy lines (unreachable, see above), the rclone Dockerfile, and log text.
  `transport.go` holds the Transport interface, its options and
  `GenerateSSLCert` (crypto only). `transfer.go` holds the Server and Client
  interfaces and older copies of the pod health helpers that `part_001`
  replaces. Neither has state of its own.
