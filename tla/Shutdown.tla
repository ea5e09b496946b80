------------------------------ MODULE Shutdown ------------------------------
(***************************************************************************)
(* How one pod goes down: the drain of main.ts and Nest's own shutdown     *)
(* hooks, both of which listen to SIGTERM and SIGINT, the requests in      *)
(* flight, and the load balancer that polls /health/ready.                 *)
(*                                                                         *)
(* Source: src/src/main.ts, src/src/shared/health/health.controller.ts,    *)
(* onModuleDestroy of src/src/shared/redis/redis.service.ts,               *)
(* src/src/docket-alarm/docket-alarm.http.ts and docket-alarm.limiter.ts.  *)
(* Nest runs the destroy hooks before it closes the HTTP server, in its    *)
(* handler of a signal as in app.close(), and then kills the process with  *)
(* the signal it received.                                                 *)
(***************************************************************************)
EXTENDS Naturals

CONSTANTS
    Request,
    None,
    MaxPings  \* bound: polls of the load balancer that await their ping

(* Nest listens to all signals that end a process, main.ts to two of them. *)
Drains  == {"SIGTERM", "SIGINT"}
Signals == Drains \cup {"SIGHUP"}

ASSUME ShutdownConstants ==
    /\ None \notin Signals \cup {"0", "1", "SIGKILL"}
    /\ MaxPings \in Nat

VARIABLES
    req,       \* what has become of each request
    routes,    \* does the load balancer send requests to this pod?
    pings,     \* polls that are past the flag and await their ping
    ready,     \* isReadyFlag
    redisUp,   \* does Redis answer?
    clients,   \* Redis connections, limiters and the undici agent
    server,    \* the HTTP server
    nest,      \* the signal Nest's handler is cleaning up for
    drain,     \* handleShutdown: "idle", "window" or "closing"
    drains,    \* how often handleShutdown has got past its guard
    exit       \* how the process has ended

vars == <<req, routes, pings, ready, redisUp, clients, server, nest, drain, drains, exit>>

Alive == exit = None

Working == {r \in Request : req[r] = "working"}

Init ==
    /\ req = [r \in Request |-> "outside"]
    /\ routes = TRUE
    /\ pings = 0
    /\ ready = TRUE
    /\ redisUp = TRUE
    /\ clients = "open"
    /\ server = "listening"
    /\ nest = None
    /\ drain = "idle"
    /\ drains = 0
    /\ exit = None

-----------------------------------------------------------------------------
(* The load balancer and the requests                                      *)

(* Mutant: /health/ready only pings Redis. *)
PingOnly == Alive /\ server = "listening" /\ clients # "closed"

(* GET /health/ready reads the flag and goes on to its ping. A ping on a   *)
(* closed connection throws at once.                                       *)
CheckReadiness == Alive /\ server = "listening" /\ ready /\ clients # "closed"

Poll ==
    /\ \/ CheckReadiness /\ pings < MaxPings /\ pings' = pings + 1 /\ UNCHANGED routes
       \/ ~CheckReadiness /\ routes' = FALSE /\ UNCHANGED pings
    /\ UNCHANGED <<req, ready, redisUp, clients, server, nest, drain, drains, exit>>

(* Redis answers the ping, or the poll fails: the load balancer gives up   *)
(* on it, the connection is closed or the process is gone. While Redis is  *)
(* down the ping hangs. Nobody looks at the flag again.                    *)
Ping ==
    /\ pings > 0 /\ pings' = pings - 1
    /\ routes' = FALSE \/ (Alive /\ redisUp /\ routes' = TRUE)
    /\ UNCHANGED <<req, ready, redisUp, clients, server, nest, drain, drains, exit>>

Arrive(r) ==
    /\ routes /\ req[r] = "outside"
    /\ req' = [req EXCEPT ![r] =
                 IF Alive /\ server = "listening" THEN "working" ELSE "refused"]
    /\ UNCHANGED <<routes, pings, ready, redisUp, clients, server, nest, drain, drains, exit>>

Answer(r) ==
    /\ Alive /\ req[r] = "working"
    /\ req' = [req EXCEPT ![r] = "answered"]
    /\ UNCHANGED <<routes, pings, ready, redisUp, clients, server, nest, drain, drains, exit>>

(* The cache, the limiter or the agent turns the request down because it   *)
(* is closed. A request may as well hang in one of them.                   *)
Fail(r) ==
    /\ Alive /\ req[r] = "working" /\ clients # "open"
    /\ req' = [req EXCEPT ![r] = "failed"]
    /\ UNCHANGED <<routes, pings, ready, redisUp, clients, server, nest, drain, drains, exit>>

Redis ==
    /\ redisUp' = ~redisUp
    /\ UNCHANGED <<req, routes, pings, ready, clients, server, nest, drain, drains, exit>>

-----------------------------------------------------------------------------
(* Signals                                                                 *)

(* A second signal finds receivedSignal set.                               *)
NestHears(sig) ==
    IF nest = None
    THEN nest' = sig /\ clients' = IF clients = "open" THEN "closing" ELSE clients
    ELSE UNCHANGED <<nest, clients>>

(* Mutant: every first SIGTERM and every first SIGINT starts a drain. *)
DrainsAgain(sig) ==
    IF sig \in Drains /\ (drain = "idle" \/ drains < 2)
    THEN drain' = "window" /\ drains' = drains + 1 /\ ready' = FALSE
    ELSE UNCHANGED <<drain, drains, ready>>

HandleShutdown(sig) ==
    IF sig \in Drains /\ drain = "idle"
    THEN drain' = "window" /\ drains' = drains + 1 /\ ready' = FALSE
    ELSE UNCHANGED <<drain, drains, ready>>

(* The listeners run one after the other in the same turn of the loop.     *)
Signal(sig) ==
    /\ Alive
    /\ NestHears(sig) /\ HandleShutdown(sig)
    /\ UNCHANGED <<req, routes, pings, redisUp, server, exit>>

-----------------------------------------------------------------------------
(* Closing                                                                 *)

(* Redis quits, the limiters disconnect, and the agent closes once its     *)
(* requests are answered. A quit that Redis does not answer hangs.         *)
ClientsClosed ==
    /\ Alive /\ clients = "closing" /\ redisUp
    /\ clients' = "closed"
    /\ UNCHANGED <<req, routes, pings, ready, redisUp, server, nest, drain, drains, exit>>

(* dispose(), of Nest's handler or of app.close(): no more connections.    *)
CloseServer ==
    /\ Alive /\ clients = "closed" /\ server = "listening"
    /\ server' = "closing"
    /\ UNCHANGED <<req, routes, pings, ready, redisUp, clients, nest, drain, drains, exit>>

(* A poll that awaits its ping is a request in flight as well.             *)
ServerClosed ==
    /\ Alive /\ server = "closing" /\ Working = {} /\ pings = 0
    /\ server' = "closed"
    /\ UNCHANGED <<req, routes, pings, ready, redisUp, clients, nest, drain, drains, exit>>

(* The process ends, with whatever it was working on.                      *)
Ends(how) ==
    /\ exit' = how
    /\ req' = [r \in Request |-> IF r \in Working THEN "cut" ELSE req[r]]
    /\ UNCHANGED <<routes, pings, ready, redisUp, clients, server, nest, drain, drains>>

(* Nest removes its listeners and kills the process with the signal it got,*)
(* whose listeners of main.ts are used up.                                 *)
KilledByNest ==
    /\ Alive /\ nest # None /\ server = "closed"
    /\ Ends(nest)

(* The 5 s of the propagation window are over: app.close().                *)
WindowOver ==
    /\ Alive /\ drain = "window"
    /\ drain' = "closing"
    /\ UNCHANGED <<req, routes, pings, ready, redisUp, clients, server, nest, drains, exit>>

(* Mutant: the drain does not wait for the requests. *)
ExitUndrained ==
    /\ Alive /\ drain = "closing" /\ clients = "closed"
    /\ Ends("0")

ExitDrained ==
    /\ Alive /\ drain = "closing" /\ clients = "closed" /\ server = "closed"
    /\ Ends("0")

(* Mutant: nothing races the drain while Redis does not answer. *)
TimeoutOfServer ==
    /\ Alive /\ drain = "closing" /\ clients = "closed"
    /\ Ends("1")

(* 25 s later the other side of the race rejects.                          *)
DrainTimeout ==
    /\ Alive /\ drain = "closing"
    /\ Ends("1")

(* The orchestrator loses patience: docker-compose.yml leaves its 10 s.    *)
Kill ==
    /\ Alive /\ nest # None
    /\ Ends("SIGKILL")

-----------------------------------------------------------------------------
Next ==
    \/ Poll \/ Ping \/ Redis
    \/ \E r \in Request : Arrive(r) \/ Answer(r) \/ Fail(r)
    \/ \E sig \in Signals : Signal(sig)
    \/ ClientsClosed \/ CloseServer \/ ServerClosed \/ KilledByNest
    \/ WindowOver \/ ExitDrained \/ DrainTimeout \/ Kill

(* The two timers of handleShutdown fire. Nothing is assumed of Redis, of  *)
(* the requests or of the load balancer.                                   *)
Spec     == Init /\ [][Next]_vars
FairSpec == Spec /\ WF_vars(WindowOver) /\ WF_vars(DrainTimeout)

-----------------------------------------------------------------------------
(* Properties                                                              *)

(* Types; and handleShutdown gets past its guard once, whatever signals    *)
(* come (main.ts:31).                                                      *)
TypeOK ==
    /\ req \in [Request -> {"outside", "working", "answered", "failed",
                            "refused", "cut"}]
    /\ routes \in BOOLEAN /\ pings \in 0..MaxPings
    /\ ready \in BOOLEAN /\ redisUp \in BOOLEAN
    /\ clients \in {"open", "closing", "closed"}
    /\ server \in {"listening", "closing", "closed"}
    /\ nest \in Signals \cup {None}
    /\ drain \in {"idle", "window", "closing"}
    /\ drains \in 0..1
    /\ exit \in Signals \cup {None, "0", "1", "SIGKILL"}

(* A process that ends by itself cuts no request short, unless the drain   *)
(* has timed out: neither of the two shutdowns ends it while the other is  *)
(* still waiting for requests (main.ts:62-67).                             *)
CutOnlyByTimeout ==
    (\E r \in Request : req[r] = "cut") => exit \in {"1", "SIGKILL"}

(* Only a poll that read the flag before the signal can take a draining    *)
(* pod back, when Redis answers its ping at last, and each of them once: no*)
(* poll gets as far any more, although Redis comes back and the server     *)
(* still listens (health.controller.ts:48-58).                             *)
StaysOut ==
    [][drain # "idle" =>
         pings' <= pings /\ (~routes /\ routes' => pings' < pings)]_vars

(* A drain ends, even if Redis never answers the quit or a request hangs   *)
(* in a closed client (main.ts:54-62).                                     *)
DrainEnds == drain # "idle" ~> ~Alive

(* README.md:19: in-flight requests are drained, then Redis, Bottleneck    *)
(* and the agent are closed.                                               *)
ClientsOutliveRequests == Alive /\ clients # "open" => Working = {}
=============================================================================
