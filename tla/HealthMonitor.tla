---------------------------- MODULE HealthMonitor ----------------------------
(***************************************************************************)
(* The kernel's health monitor (packages/hermes/src/HermesHealthMonitor.ts *)
(* over the module registry): health() probes all modules at once,         *)
(* moduleHealth() one, and both leave what they found in a cache that the  *)
(* synchronous views read.                                                 *)
(***************************************************************************)
EXTENDS Naturals, FiniteSets

CONSTANTS
    Modules,    \* the names modules may have
    Asks        \* the calls of health() and moduleHealth()

None == "none"

VARIABLES
    initializing,   \* the lifecycle has not left its first phase
    registered,     \* the modules in the registry
    asks,
    cached          \* the status last found of each module

vars == <<initializing, registered, asks, cached>>

Statuses == {"healthy", "degraded", "failed", "unknown"}

(* mutant: one healthy module makes the kernel healthy                      *)
AggregateLeniently(found) ==
    CASE "failed" \in found -> "failed"
      [] "failed" \notin found /\ "degraded" \in found -> "degraded"
      [] {"failed", "degraded"} \cap found = {} /\ "healthy" \in found -> "healthy"
      [] OTHER -> "unknown"

Aggregate(found) ==
    CASE "failed" \in found -> "failed"
      [] "failed" \notin found /\ "degraded" \in found -> "degraded"
      [] found = {"healthy"} -> "healthy"
      [] OTHER -> "unknown"

StatusesOf(details) == {details[n] : n \in DOMAIN details}

OverallStatus == Aggregate(StatusesOf(cached))

Init ==
    /\ initializing = TRUE /\ registered = {} /\ cached = <<>>
    /\ asks = [a \in Asks |-> [pc |-> "idle", of |-> None, pending |-> {}, details |-> <<>>,
                               status |-> None]]

LeavesInitializing ==
    /\ initializing /\ initializing' = FALSE
    /\ UNCHANGED <<registered, asks, cached>>

RegisterModule(name) ==
    /\ name \notin registered /\ registered' = registered \cup {name}
    /\ UNCHANGED <<initializing, asks, cached>>

RemoveModule(name) ==
    /\ name \in registered /\ registered' = registered \ {name}
    /\ UNCHANGED <<initializing, asks, cached>>

(* While the kernel initializes nobody is probed.                           *)
HealthTooEarly(a) ==
    /\ asks[a].pc = "idle" /\ initializing
    /\ asks' = [asks EXCEPT ![a] = [@ EXCEPT !.pc = "answered", !.of = "all",
                                             !.status = "unknown"]]
    /\ cached' = <<>>
    /\ UNCHANGED <<initializing, registered>>

Health(a) ==
    /\ asks[a].pc = "idle" /\ ~initializing
    /\ asks' = [asks EXCEPT ![a] = [@ EXCEPT !.pc = "probing", !.of = "all",
                                             !.pending = registered]]
    /\ UNCHANGED <<initializing, registered, cached>>

ModuleHealth(a, name) ==
    /\ asks[a].pc = "idle" /\ name \in registered
    /\ asks' = [asks EXCEPT ![a] = [@ EXCEPT !.pc = "probing", !.of = name,
                                             !.pending = {name}]]
    /\ UNCHANGED <<initializing, registered, cached>>

(* A probe that throws counts as failed, an answer that is no status as     *)
(* unknown.                                                                 *)
ProbeSettles(a, name, status) ==
    /\ asks[a].pc = "probing" /\ name \in asks[a].pending
    /\ asks' = [asks EXCEPT ![a] =
                   [@ EXCEPT !.pending = @ \ {name},
                             !.details = [n \in DOMAIN @ \cup {name} |->
                                             IF n = name THEN status ELSE @[n]]]]
    /\ UNCHANGED <<initializing, registered, cached>>

(* Promise.all has all the answers: they replace the whole cache.           *)
HealthEnds(a) ==
    /\ asks[a].pc = "probing" /\ asks[a].of = "all" /\ asks[a].pending = {}
    /\ LET status == Aggregate(StatusesOf(asks[a].details)) IN
       asks' = [asks EXCEPT ![a] = [@ EXCEPT !.pc = "answered", !.status = status]]
    /\ cached' = asks[a].details
    /\ UNCHANGED <<initializing, registered>>

(* The cache as it is now gets the one entry.                               *)
ModuleHealthEnds(a) ==
    LET name == asks[a].of IN
    /\ asks[a].pc = "probing" /\ name # "all" /\ asks[a].pending = {}
    /\ asks' = [asks EXCEPT ![a] = [@ EXCEPT !.pc = "answered",
                                             !.status = asks[a].details[name]]]
    /\ cached' = [n \in DOMAIN cached \cup {name} |->
                     IF n = name THEN asks[a].details[name] ELSE cached[n]]
    /\ UNCHANGED <<initializing, registered>>

Next ==
    \/ LeavesInitializing
    \/ \E name \in Modules : RegisterModule(name) \/ RemoveModule(name)
    \/ \E a \in Asks :
          \/ HealthTooEarly(a) \/ Health(a) \/ HealthEnds(a) \/ ModuleHealthEnds(a)
          \/ \E name \in Modules :
                ModuleHealth(a, name) \/ \E s \in Statuses : ProbeSettles(a, name, s)

Spec == Init /\ [][Next]_vars

-----------------------------------------------------------------------------

(* Statuses are what they may be, and a call has the answers it does not    *)
(* wait for (HermesHealthMonitor).                                          *)
TypeOK ==
    /\ initializing \in BOOLEAN /\ registered \subseteq Modules
    /\ DOMAIN cached \subseteq Modules /\ StatusesOf(cached) \subseteq Statuses
    /\ \A a \in Asks :
          /\ asks[a].pc \in {"idle", "probing", "answered"}
          /\ asks[a].pending \cap DOMAIN asks[a].details = {}
          /\ StatusesOf(asks[a].details) \subseteq Statuses

(* Whatever other calls are under way: health() says healthy only if every  *)
(* module it asked was, and failed whenever one was; and the cache behind   *)
(* overallStatus() holds, of each module, an answer that some call really   *)
(* got (health(), moduleHealth()).                                          *)
HealthTellsTheProbes ==
    /\ \A a \in Asks : asks[a].pc = "answered" /\ asks[a].of = "all" =>
          LET details == asks[a].details IN
          /\ asks[a].status = "healthy" => \A n \in DOMAIN details : details[n] = "healthy"
          /\ (\E n \in DOMAIN details : details[n] = "failed") => asks[a].status = "failed"
    /\ \A n \in DOMAIN cached : \E a \in Asks :
          n \in DOMAIN asks[a].details /\ asks[a].details[n] = cached[n]
    /\ OverallStatus = "healthy" => \A n \in DOMAIN cached : cached[n] = "healthy"
=============================================================================
