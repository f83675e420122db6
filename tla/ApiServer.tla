------------------------------ MODULE ApiServer ------------------------------
(***************************************************************************)
(* The API server (apps/api: server.ts, app.ts and the /v1 routes, with    *)
(* packages/auth) over the kernel it starts and stops.  A request passes   *)
(* the hooks of the application, the route's handler and the onResponse    *)
(* hook; SIGTERM stops the kernel, closes the application, which waits for *)
(* the requests under way, and exits, or the timer does.                   *)
(*                                                                         *)
(* The routes that only read are one kind of request, "read".  A CORS      *)
(* preflight is answered by @fastify/cors in an onRequest hook registered  *)
(* before the one of the metrics.                                          *)
(***************************************************************************)
EXTENDS Integers, Sequences, FiniteSets

CONSTANTS
    ApiRequests,
    Specs, Owner    \* the kernel's: module specs, and what its lifecycle's owner does

VARIABLES
    life, modules, stops, drained,    \* the kernel
    server,     \* "starting", "listening", "stopping", "closing", "exit 0", "exit 1"
    auth,       \* authentication is configured
    apiRequests,
    activeRequests    \* the metric

apiVars == <<life, modules, stops, drained, server, auth, apiRequests, activeRequests>>

kernel == <<life, modules, stops, drained>>

Signal == "signal"

(* A signal is nobody's request.                                            *)
ASSUME ApiAssumption == Signal \notin ApiRequests

Kernel == INSTANCE HermesKernel
    WITH Stoppers <- ApiRequests \cup {Signal}, Reactions <- {"none"}, calls <- drained

Kinds == {"preflight", "public", "read", "start", "stop"}
Credentials == {"absent", "invalid", "valid"}

Exited == server \in {"exit 0", "exit 1"}

Open(r) == apiRequests[r].pc \in {"preflight", "authenticating", "admitted", "stopping", "responding"}

ApiInit ==
    /\ Kernel!Init
    /\ server = "starting" /\ auth \in BOOLEAN /\ activeRequests = 0
    /\ apiRequests = [r \in ApiRequests |->
                         [pc |-> "idle", kind |-> "none", credential |-> "none", code |-> 0]]

RequestBecomes(r, request) ==
    /\ apiRequests' = [apiRequests EXCEPT ![r] = request]
    /\ UNCHANGED <<server, auth>>

(* reply.send(): the onResponse hooks run when the response is out.         *)
Reply(r, code) ==
    RequestBecomes(r, [apiRequests[r] EXCEPT !.pc = "responding", !.code = code]) /\ UNCHANGED activeRequests

-----------------------------------------------------------------------------
(* main() and the signals (server.ts)                                       *)

Listen ==
    /\ server = "starting" /\ Kernel!Start
    /\ server' \in {"listening", "exit 1"}
    /\ UNCHANGED <<auth, apiRequests, activeRequests>>

(* A second signal is ignored.                                              *)
Terminate ==
    /\ server = "listening" /\ Kernel!Stop(Signal)
    /\ server' = "stopping"
    /\ UNCHANGED <<auth, apiRequests, activeRequests>>

(* A stop() that failed is logged and no more.                              *)
CloseApp ==
    /\ server = "stopping" /\ Kernel!Returned(Signal)
    /\ server' = "closing"
    /\ UNCHANGED <<kernel, auth, apiRequests, activeRequests>>

(* mutant: nobody waits for app.close()                                     *)
ExitAtOnce ==
    /\ server = "closing" /\ server' = "exit 0"
    /\ UNCHANGED <<kernel, auth, apiRequests, activeRequests>>

ExitCleanly ==
    /\ server = "closing" /\ \A r \in ApiRequests : ~Open(r)
    /\ server' = "exit 0"
    /\ UNCHANGED <<kernel, auth, apiRequests, activeRequests>>

(* mutant: the timer is cleared when the kernel has stopped                 *)
ExitTimerFiresEarly ==
    /\ server = "stopping"
    /\ server' = "exit 1"
    /\ UNCHANGED <<kernel, auth, apiRequests, activeRequests>>

ExitTimerFires ==
    /\ server \in {"stopping", "closing"}
    /\ server' = "exit 1"
    /\ UNCHANGED <<kernel, auth, apiRequests, activeRequests>>

(* The rest of the kernel's life: its owner, its modules, its drains.       *)
KernelMoves ==
    /\ ~Exited
    /\ \/ \E to \in Owner : Kernel!OwnerTransition(to)
       \/ \E spec \in Specs : Kernel!RegisterModule(spec)
       \/ \E c \in ApiRequests \cup {Signal} : Kernel!Settles(c)
    /\ UNCHANGED <<server, auth, apiRequests, activeRequests>>

-----------------------------------------------------------------------------
(* The hooks (app.ts, authPlugin.ts)                                        *)

Arriving(r, kind, credential) ==
    /\ server \in {"listening", "stopping"} /\ apiRequests[r].pc = "idle"
    /\ UNCHANGED kernel
    /\ LET request == [apiRequests[r] EXCEPT !.kind = kind, !.credential = credential] IN
       \/ /\ kind = "preflight"
          /\ RequestBecomes(r, [request EXCEPT !.pc = "preflight", !.code = 204])
          /\ UNCHANGED activeRequests
       \/ /\ kind # "preflight"
          /\ activeRequests' = activeRequests + 1
          /\ \/ /\ ~auth \/ kind = "public"
                /\ RequestBecomes(r, [request EXCEPT !.pc = "admitted"])
             \/ /\ auth /\ kind # "public" /\ credential = "absent"
                /\ RequestBecomes(r, [request EXCEPT !.pc = "responding", !.code = 401])
             \/ /\ auth /\ kind # "public" /\ credential # "absent"
                /\ RequestBecomes(r, [request EXCEPT !.pc = "authenticating"])

(* mutant: an answer, whatever it is, lets the request through              *)
AuthenticateAnyone(r) ==
    /\ ~Exited /\ apiRequests[r].pc = "authenticating" /\ UNCHANGED <<kernel, activeRequests>>
    /\ RequestBecomes(r, [apiRequests[r] EXCEPT !.pc = "admitted"])

Authenticate(r) ==
    /\ ~Exited /\ apiRequests[r].pc = "authenticating" /\ UNCHANGED kernel
    /\ \/ /\ apiRequests[r].credential = "valid"
          /\ RequestBecomes(r, [apiRequests[r] EXCEPT !.pc = "admitted"]) /\ UNCHANGED activeRequests
       \/ apiRequests[r].credential # "valid" /\ Reply(r, 403)

(* onResponse, which sees the preflights as well.                           *)
Respond(r) ==
    /\ ~Exited /\ apiRequests[r].pc \in {"preflight", "responding"} /\ UNCHANGED kernel
    /\ activeRequests' = IF activeRequests > 0 THEN activeRequests - 1 ELSE 0
    /\ RequestBecomes(r, [apiRequests[r] EXCEPT !.pc = "done"])

-----------------------------------------------------------------------------
(* The routes (routes/), and the errors of the kernel (adapter-errors.ts)   *)

AdapterErrorHttpStatus ==
    [VALIDATION_ERROR |-> 400, AUTH_MISSING |-> 401, AUTH_FORBIDDEN |-> 403, NOT_FOUND |-> 404,
     PHASE_CONFLICT |-> 409, RATE_LIMITED |-> 429, HERMES_ERROR |-> 500,
     SERVICE_UNAVAILABLE |-> 503]

(* The kernel's errors are told apart by their wording: start() in a        *)
(* terminal phase says "cannot start from", which none looks for.           *)
MapKernelError(message) ==
    IF message \in {"operation not allowed in phase", "illegal transition", "cannot stop from"}
    THEN "PHASE_CONFLICT" ELSE "HERMES_ERROR"

ErrorReply(message) == AdapterErrorHttpStatus[MapKernelError(message)]

Handling(r, kind) == ~Exited /\ apiRequests[r].pc = "admitted" /\ apiRequests[r].kind = kind

(* /health and /version: readiness is HealthManager's.                      *)
HandlePublic(r) ==
    /\ Handling(r, "public") /\ UNCHANGED kernel
    /\ Reply(r, 200) \/ Reply(r, 503)

HandleRead(r) ==
    /\ Handling(r, "read") /\ Reply(r, 200) /\ UNCHANGED kernel

HandleStart(r) ==
    /\ Handling(r, "start") /\ UNCHANGED kernel
    /\ Reply(r, CASE life.phase = "RUNNING" -> 200
                  [] life.phase \in Kernel!TerminalPhases -> ErrorReply("cannot start from")
                  [] OTHER -> ErrorReply("illegal transition"))

HandleStop(r) ==
    /\ Handling(r, "stop") /\ Kernel!Stop(r)
    /\ RequestBecomes(r, [apiRequests[r] EXCEPT !.pc = "stopping"]) /\ UNCHANGED activeRequests

StopReturns(r) ==
    /\ ~Exited /\ apiRequests[r].pc = "stopping" /\ Kernel!Returned(r) /\ UNCHANGED kernel
    /\ Reply(r, IF stops[r].pc = "ok" THEN 200 ELSE ErrorReply("cannot stop from"))

ApiNext ==
    \/ Listen \/ Terminate \/ CloseApp \/ ExitCleanly \/ ExitTimerFires \/ KernelMoves
    \/ \E r \in ApiRequests :
          \/ Authenticate(r) \/ Respond(r) \/ HandlePublic(r) \/ HandleRead(r)
          \/ HandleStart(r) \/ HandleStop(r) \/ StopReturns(r)
          \/ \E kind \in Kinds, credential \in Credentials : Arriving(r, kind, credential)

(* The timer is the only thing that has to happen: a module may hold its    *)
(* drain, and a handler its request.                                        *)
ApiFairness == WF_apiVars(ExitTimerFires)

ApiSpec == ApiInit /\ [][ApiNext]_apiVars

-----------------------------------------------------------------------------

(* A request has a kind once it came and a code once it is answered.        *)
ApiTypeOK ==
    /\ auth \in BOOLEAN /\ activeRequests \in 0..Cardinality(ApiRequests)
    /\ \A r \in ApiRequests :
          /\ apiRequests[r].code \in {0, 200, 204, 401, 403, 409, 500, 503}
          /\ apiRequests[r].pc \in {"responding", "done", "preflight"} => apiRequests[r].code # 0
          /\ apiRequests[r].pc # "idle" => apiRequests[r].kind \in Kinds

(* What is answered is what happened to the kernel: a stop answered with    *)
(* 200 left it in a terminal phase, and one that was refused for its        *)
(* credentials never reached it.  A clean exit comes after the kernel's     *)
(* stop() has returned and every request under way was answered (app.ts,    *)
(* authPlugin.ts, routes/hermes.ts, server.ts).                             *)
AnswersMatchTheKernel ==
    /\ \A r \in ApiRequests :
          /\ apiRequests[r].kind = "stop" /\ apiRequests[r].code = 200
             => life.phase \in Kernel!TerminalPhases
          /\ stops[r].pc # "idle"
             => apiRequests[r].kind = "stop" /\ (auth => apiRequests[r].credential = "valid")
          /\ server = "exit 0" => ~Open(r)
    /\ server = "exit 0" => Kernel!Returned(Signal)

(* After a signal and before the end of the process, which the shutdown     *)
(* timer of server.ts brings about whatever the drain and the requests do.  *)
Stopping == server \in {"stopping", "closing"}

(* The gauge of active requests is their number ("Gauges track current      *)
(* values (active requests, loaded modules).", adapter-metrics.ts).         *)
GaugeIsTheActiveRequests ==
    activeRequests = Cardinality({r \in ApiRequests : Open(r) /\ apiRequests[r].kind # "preflight"})
=============================================================================
