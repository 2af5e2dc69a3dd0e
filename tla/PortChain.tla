------------------------------ MODULE PortChain ------------------------------
(***************************************************************************)
(* The data path of one transfer, hop by hop: which port the source's     *)
(* rsync dials, which process listens on it and where that process        *)
(* forwards, down to the destination's rsync daemon.  Ports are the        *)
(* code's int32 constants; every process is a listener at a place, with    *)
(* the address it forwards to (place "end" for the daemon, which ends the  *)
(* path).                                                                  *)
(*                                                                         *)
(* Places: "client" is the source pod's loopback, "ingress" the address    *)
(* the destination publishes (route or load-balancer service), "server"    *)
(* the rsync-server pod.                                                   *)
(***************************************************************************)
EXTENDS Naturals, FiniteSets

CONSTANTS
    RouteIngressPort,  \* route.IngressPort: route is not under src
    RouteBackendPort   \* the route's BackendPort, the service port behind it

Transports == {"stunnel", "null"}

\* rsync/server.go: the null server's load-balancer ports.
NullTransportIngressPort == 8080
NullTransportBackendPort == 2222

\* stunnel/server.go: the port the server stunnel connects to.
stunnelConnectPort == 8080

\* stunnel/client.go: the loopback port of the client stunnel.
ClientListenPort == 6443

\* The endpoint each destination transport is built on: a passthrough route
\* for stunnel, a load balancer forwarding 8080 to 2222 for null.
EndpointOf(t) ==
    IF t = "stunnel"
    THEN [ingress |-> RouteIngressPort, backend |-> RouteBackendPort]
    ELSE [ingress |-> NullTransportIngressPort, backend |-> NullTransportBackendPort]

\* null.NewTransport: one port for both directions.
NewTransport(port) == [listen |-> port, connect |-> port]

\* The destination's transport: stunnel.NewTransportServer listens on the
\* endpoint's backend port and connects to stunnelConnectPort;
\* NewRsyncTransferServerWithNull builds null.NewTransport(e.BackendPort()).
TransportServer(t) ==
    IF t = "stunnel"
    THEN [listen |-> EndpointOf(t).backend, connect |-> stunnelConnectPort]
    ELSE NewTransport(EndpointOf(t).backend)

\* Mutant: the daemon built with t.ListenPort() in place of t.ConnectPort().
DaemonPortListen(t) == TransportServer(t).listen

\* NewRsyncTransferServer: listenPort = t.ConnectPort(), run as rsync --port.
DaemonPort(t) == TransportServer(t).connect

\* The port the destination mover publishes: Endpoint().IngressPort().
PublishedPort(t) == EndpointOf(t).ingress

\* The port the source mover hands to the client: route.IngressPort for
\* stunnel, whatever was published; the source's Port for null, which the
\* outer reconciler copies from the published one.
ServerPort(t, published) == IF t = "stunnel" THEN RouteIngressPort ELSE published

\* The source's transport: stunnel.NewTransportClient listens on
\* ClientListenPort and connects to the ingress port; null.NewTransport.
TransportClient(t, published) ==
    IF t = "stunnel"
    THEN [listen |-> ClientListenPort, connect |-> ServerPort(t, published)]
    ELSE NewTransport(ServerPort(t, published))

\* getRsyncCommand: rsync://<user>@<Hostname()>/... --port <ListenPort()>,
\* where Hostname() is "localhost" for stunnel and the endpoint's for null.
RsyncDial(t, c) ==
    [place |-> IF t = "stunnel" THEN "client" ELSE "ingress", port |-> c.listen]

\* The endpoint's ingress: the load-balancer Service's one port, Port
\* ingressPort with TargetPort backendPort (a route does the same).
IngressListener(t) ==
    [place |-> "ingress", port |-> EndpointOf(t).ingress,
     to |-> [place |-> "server", port |-> EndpointOf(t).backend]]

\* The server stunnel: accept = ListenPort(), connect = ConnectPort().
StunnelServerListener(t) ==
    [place |-> "server", port |-> TransportServer(t).listen,
     to |-> [place |-> "server", port |-> TransportServer(t).connect]]

\* The client stunnel (no proxy): accept = listenPort, connect =
\* hostname:connectPort.
StunnelClientListener(c) ==
    [place |-> "client", port |-> c.listen,
     to |-> [place |-> "ingress", port |-> c.connect]]

\* The rsync container: rsync --daemon --port=ListenPort(); the path ends.
DaemonListener(t) ==
    [place |-> "server", port |-> DaemonPort(t), to |-> [place |-> "end", port |-> 0]]

\* The processes of the path: the server pod's containers are the rsync
\* container and the transport's (none for null); a stunnel source adds its
\* client sidecar.
Listeners(t, c) ==
    {IngressListener(t), DaemonListener(t)}
    \cup (IF t = "stunnel" THEN {StunnelServerListener(t), StunnelClientListener(c)}
          ELSE {})

\* The listeners in L a connection to address a reaches.
At(L, a) == {l \in L : l.place = a.place /\ l.port = a.port}

\* Follow a connection from a through L, at most n hops; TRUE when it ends
\* at the daemon, and only one process accepts it at each hop.
RECURSIVE Reaches(_, _, _)
Reaches(L, a, n) ==
    /\ n > 0
    /\ Cardinality(At(L, a)) = 1
    /\ LET l == CHOOSE x \in At(L, a) : TRUE
       IN l.to.place = "end" \/ Reaches(L, l.to, n - 1)

\* A source of transport t, given the published port, reaches the daemon.
PathConnects(t, published) ==
    LET c == TransportClient(t, published)
        L == Listeners(t, c)
    IN Reaches(L, RsyncDial(t, c), Cardinality(L))
====
