---------------------------- MODULE HermesKernel ----------------------------
(***************************************************************************)
(* The Hermes kernel (packages/hermes/src): createHermes() over the        *)
(* lifecycle state machine, the module registry and the event dispatcher.  *)
(*                                                                         *)
(* Everything but the drain is synchronous, so a call is one step.  stop() *)
(* awaits the shutdown handle of one module after the other, each raced    *)
(* against its deadline, and any other call may run at each of those       *)
(* awaits, another stop() among them.                                      *)
(*                                                                         *)
(* createHermes() itself never moves the lifecycle to RUNNING; whoever     *)
(* supplied options.lifecycle does, and may fail it (OwnerTransition).     *)
(***************************************************************************)
EXTENDS Naturals, Sequences, FiniteSets

CONSTANTS
    Specs,     \* module specs: [name, deps, required]
    Stoppers,  \* the callers of stop(), each calls it once
    Owner,     \* transitions the lifecycle's owner makes by itself
    Reactions  \* transitions an onTransition handler may ask for; "none" for none

Phases == {"INITIALIZING", "STARTING", "RUNNING", "STOPPING", "STOPPED", "FAILED"}

ASSUME KernelAssumption ==
    /\ \A spec \in Specs : spec.required \in BOOLEAN
    /\ Owner \subseteq Phases
    /\ Reactions \subseteq Phases \cup {"none"}

VARIABLES
    life,     \* the lifecycle: its phase, and the transitions fired so far
    modules,  \* the registry's records, in registration order
    stops,    \* the calls of stop()
    calls     \* the records whose shutdown handle was invoked, in order

vars == <<life, modules, stops, calls>>

-----------------------------------------------------------------------------
(* The lifecycle (HermesLifecycle.ts)                                       *)

LegalTransitions ==
    [from \in Phases |->
        CASE from = "INITIALIZING" -> {"STARTING", "FAILED"}
          [] from = "STARTING"     -> {"RUNNING", "FAILED"}
          [] from = "RUNNING"      -> {"STOPPING", "FAILED"}
          [] from = "STOPPING"     -> {"STOPPED", "FAILED"}
          [] OTHER                 -> {}]

TerminalPhases == {"STOPPED", "FAILED"}

phase == life.phase

Legal(l, to) == to \in LegalTransitions[l.phase]

(* applyTransition(): the phase is set, then every handler is told.         *)
Applied(l, to) ==
    [phase |-> to, trail |-> Append(l.trail, [from |-> l.phase, to |-> to])]

(* mutant: the transition a handler asks for is made inside that handler,   *)
(* so the others hear of it before the one that caused it                   *)
MovedInline(l, to, reaction) ==
    IF reaction \in LegalTransitions[to]
    THEN [phase |-> reaction,
          trail |-> l.trail \o <<[from |-> to, to |-> reaction],
                                 [from |-> l.phase, to |-> to]>>]
    ELSE Applied(l, to)

(* transition(to) where it is legal.  A transition a handler asks for       *)
(* meanwhile is queued until all handlers have seen this one, and dropped   *)
(* when it is illegal by then.                                              *)
Moved(l, to, reaction) ==
    IF Legal(Applied(l, to), reaction)
    THEN Applied(Applied(l, to), reaction)
    ELSE Applied(l, to)

(* mutant: the kernel is failed only when it was already going down         *)
FailedWhenStopping(l, reaction) ==
    IF l.phase = "STOPPING" THEN Moved(l, "FAILED", reaction) ELSE l

(* try { transition('FAILED') } catch { already terminal }                  *)
Failed(l, reaction) ==
    IF Legal(l, "FAILED") THEN Moved(l, "FAILED", reaction) ELSE l

-----------------------------------------------------------------------------
(* The registry (HermesModuleRegistry.ts)                                   *)

Registered == {modules[i].name : i \in 1..Len(modules)}

Registrable(spec) ==
    /\ spec.name \notin Registered
    /\ spec.name \notin spec.deps
    /\ spec.deps \subseteq Registered

(* mutant: a module counts as healthy before anyone asked it                *)
AddHealthy(spec) ==
    modules' = Append(modules, [name |-> spec.name, deps |-> spec.deps, health |-> "healthy"])

AddModule(spec) ==
    modules' = Append(modules, [name |-> spec.name, deps |-> spec.deps, health |-> "unknown"])

IndexOf(name) == CHOOSE i \in 1..Len(modules) : modules[i].name = name

Rest(name, i) == modules[IF i < IndexOf(name) THEN i ELSE i + 1]

(* mutant: dependents are left as they are                                  *)
RemoveQuietly(name) ==
    modules' = [i \in 1..(Len(modules) - 1) |-> Rest(name, i)]

(* The record is spliced out and its dependents are marked degraded.        *)
RemoveModule(name) ==
    modules' = [i \in 1..(Len(modules) - 1) |->
                   IF name \in Rest(name, i).deps
                   THEN [Rest(name, i) EXCEPT !.health = "degraded"]
                   ELSE Rest(name, i)]

-----------------------------------------------------------------------------

Init ==
    /\ life = [phase |-> "INITIALIZING", trail |-> <<>>]
    /\ modules = <<>>
    /\ stops = [c \in Stoppers |-> [pc |-> "idle", todo |-> <<>>, threw |-> FALSE]]
    /\ calls = <<>>

(* start(): from RUNNING it does nothing, from any other phase it fails     *)
Start ==
    /\ phase = "INITIALIZING"
    /\ \E reaction \in Reactions : life' = Moved(life, "STARTING", reaction)
    /\ UNCHANGED <<modules, stops, calls>>

OwnerTransition(to) ==
    /\ Legal(life, to)
    /\ \E reaction \in Reactions : life' = Moved(life, to, reaction)
    /\ UNCHANGED <<modules, stops, calls>>

(* registerModule(): a required module that is not registered, even because *)
(* the phase is wrong, fails the kernel                                     *)
RegisterModule(spec) ==
    /\ \/ /\ phase = "STARTING" /\ Registrable(spec)
          /\ AddModule(spec)
          /\ UNCHANGED life
       \/ /\ spec.required
          /\ phase = "STARTING" => ~Registrable(spec)
          /\ \E reaction \in Reactions : life' = Failed(life, reaction)
          /\ UNCHANGED modules
    /\ UNCHANGED <<stops, calls>>

UnregisterModule(name) ==
    /\ phase \in {"RUNNING", "STOPPING"}
    /\ name \in Registered
    /\ RemoveModule(name)
    /\ UNCHANGED <<life, stops, calls>>

(* The plugin loader's facade and unloadPlugin() go to the registry itself, *)
(* in any phase.                                                            *)
FacadeRegister(spec) ==
    /\ Registrable(spec)
    /\ AddModule(spec)
    /\ UNCHANGED <<life, stops, calls>>

UnloadPlugin(name) ==
    /\ name \in Registered
    /\ RemoveModule(name)
    /\ UNCHANGED <<life, stops, calls>>

-----------------------------------------------------------------------------
(* stop() of caller c                                                       *)

Returned(c) == stops[c].pc \in {"ok", "err"}

(* From STOPPED and FAILED stop() returns at once.                          *)
StopAtEnd(c) ==
    /\ stops[c].pc = "idle" /\ phase \in TerminalPhases
    /\ stops' = [stops EXCEPT ![c].pc = IF phase = "STOPPED" THEN "ok" ELSE "err"]
    /\ UNCHANGED <<life, modules, calls>>

(* From a phase that has no transition to STOPPING it fails the kernel.     *)
StopIllegal(c) ==
    /\ stops[c].pc = "idle" /\ phase \notin TerminalPhases /\ ~Legal(life, "STOPPING")
    /\ \E reaction \in Reactions : life' = Failed(life, reaction)
    /\ stops' = [stops EXCEPT ![c].pc = "err"]
    /\ UNCHANGED <<modules, calls>>

(* mutant: the drain's failures are forgotten                               *)
DrainTargetAlwaysStopped(threw) == "STOPPED"

DrainTarget(threw) == IF threw THEN "FAILED" ELSE "STOPPED"

(* The drain goes on from lifecycle l with the modules in todo: it invokes  *)
(* the handle of the last one and awaits it, or ends when none is left.     *)
(* When the phase has become terminal by then the final transition throws   *)
(* and stop() returns an error.                                             *)
GoOn(c, l, todo, threw) ==
    \/ /\ todo # <<>>
       /\ life' = l
       /\ calls' = Append(calls, todo[Len(todo)])
       /\ stops' = [stops EXCEPT ![c] = [pc |-> "awaiting", threw |-> threw,
                                         todo |-> SubSeq(todo, 1, Len(todo) - 1)]]
    \/ /\ todo = <<>> /\ Legal(l, DrainTarget(threw))
       /\ \E reaction \in Reactions : life' = Moved(l, DrainTarget(threw), reaction)
       /\ stops' = [stops EXCEPT ![c] = [pc |-> "ok", threw |-> threw, todo |-> <<>>]]
       /\ UNCHANGED calls
    \/ /\ todo = <<>> /\ ~Legal(l, DrainTarget(threw))
       /\ \E reaction \in Reactions : life' = Failed(l, reaction)
       /\ stops' = [stops EXCEPT ![c] = [pc |-> "err", threw |-> threw, todo |-> <<>>]]
       /\ UNCHANGED calls

(* mutant: stop() drains in registration order                              *)
StopDrainsForward(c) ==
    /\ stops[c].pc = "idle" /\ Legal(life, "STOPPING")
    /\ \E reaction \in Reactions :
          GoOn(c, Moved(life, "STOPPING", reaction),
               [i \in 1..Len(modules) |-> modules[Len(modules) + 1 - i]], FALSE)
    /\ UNCHANGED modules

(* It drains the modules registered now, whatever happens to the registry   *)
(* meanwhile.                                                               *)
StopDrains(c) ==
    /\ stops[c].pc = "idle" /\ Legal(life, "STOPPING")
    /\ \E reaction \in Reactions : GoOn(c, Moved(life, "STOPPING", reaction), modules, FALSE)
    /\ UNCHANGED modules

(* mutant: a drain notices that the kernel has failed and leaves off        *)
ShutdownUnlessFailed(c, fails) ==
    /\ stops[c].pc = "awaiting" /\ phase = "STOPPING"
    /\ GoOn(c, life, stops[c].todo, stops[c].threw \/ fails)
    /\ UNCHANGED modules

(* The handle settles, or its deadline passes, which counts as a failure.   *)
ShutdownSettles(c, fails) ==
    /\ stops[c].pc = "awaiting"
    /\ GoOn(c, life, stops[c].todo, stops[c].threw \/ fails)
    /\ UNCHANGED modules

Settles(c) == \E fails \in BOOLEAN : ShutdownSettles(c, fails)

Stop(c) == StopAtEnd(c) \/ StopIllegal(c) \/ StopDrains(c)

Next ==
    \/ Start
    \/ \E to \in Owner : OwnerTransition(to)
    \/ \E spec \in Specs : RegisterModule(spec) \/ FacadeRegister(spec)
    \/ \E spec \in Specs : UnregisterModule(spec.name) \/ UnloadPlugin(spec.name)
    \/ \E c \in Stoppers : Stop(c) \/ Settles(c)

Spec == Init /\ [][Next]_vars

(* The timers settle every await of a drain, even on a handle that never    *)
(* does.  Nobody has to call anything.                                      *)
FairSpec == Spec /\ \A c \in Stoppers : WF_vars(Settles(c))

-----------------------------------------------------------------------------
(* What the Hermes kernel promises (docs/architecture/hermes.md, sections 3, *)
(* 5 and 7).                                                                 *)

(* Only a drain moves the kernel to STOPPED: its owner and the handlers do  *)
(* not.                                                                     *)
ASSUME OnlyDrainsStop == "STOPPED" \notin Owner \cup Reactions

Records == [name : {spec.name : spec \in Specs},
            deps : {spec.deps : spec \in Specs},
            health : {"unknown", "degraded"}]

(* The kernel's state is well formed.                                       *)
TypeOK ==
    /\ phase \in Phases
    /\ life.trail \in Seq([from : Phases, to : Phases])
    /\ modules \in Seq(Records)
    /\ calls \in Seq(Records)
    /\ stops \in [Stoppers -> [pc : {"idle", "awaiting", "ok", "err"},
                               todo : Seq(Records), threw : BOOLEAN]]

(* What the handlers and the event bus are told is one unbroken walk along  *)
(* the legal edges, from INITIALIZING to the phase the kernel is in, even   *)
(* when handlers ask for transitions of their own (HermesLifecycle.fire,    *)
(* transition).                                                             *)
TrailIsAWalk ==
    LET trail == life.trail IN
    /\ \A i \in 1..Len(trail) :
          /\ trail[i].to \in LegalTransitions[trail[i].from]
          /\ trail[i].from = IF i = 1 THEN "INITIALIZING" ELSE trail[i - 1].to
    /\ phase = IF trail = <<>> THEN "INITIALIZING" ELSE trail[Len(trail)].to

(* Names are unique, and whatever a module depends on was registered before *)
(* it and still is, unless the module is marked degraded                    *)
(* (HermesModuleRegistry.registerModule, unregisterModule).                 *)
RegistryClosed ==
    \A i \in 1..Len(modules) :
       /\ \A j \in 1..Len(modules) : modules[i].name = modules[j].name => i = j
       /\ \/ modules[i].health = "degraded"
          \/ modules[i].deps \subseteq {modules[j].name : j \in 1..(i - 1)}

(* A drain shuts a module down before anything it depends on, unless that   *)
(* dependency had been taken away from it, which leaves it degraded         *)
(* (drainModules).                                                          *)
DependentsDrainFirst ==
    \A i, j \in 1..Len(calls) :
       (i < j /\ calls[i].name \in calls[j].deps) => calls[j].health = "degraded"

(* STOPPED is reached only through a drain that asked every one of its      *)
(* modules to shut down and was refused by none: the code is stricter than  *)
(* hermes.md 5.2, step 4, and 7.5, which have STOPPED also when some of the *)
(* modules fail to drain.                                                   *)
StoppedMeansDrained ==
    phase = "STOPPED" =>
        /\ \A c \in Stoppers : stops[c].pc # "awaiting" /\ ~stops[c].threw
        /\ \E c \in Stoppers : stops[c].pc = "ok"

(* A call of stop() that has returned leaves a kernel that is STOPPED or    *)
(* FAILED, whatever phase it was made in (hermes.md 5.2, post-condition).   *)
StopReturnsAtTheEnd == \A c \in Stoppers : Returned(c) => phase \in TerminalPhases

(* A drain ends, even when handles hang or fail.                            *)
DrainsEnd == \A c \in Stoppers : (stops[c].pc = "awaiting") ~> Returned(c)

-----------------------------------------------------------------------------

(* "Drain all registered modules in reverse registration order" (hermes.md  *)
(* 5.2): a kernel that was started and then stopped has told every module   *)
(* that is registered with it.  Does not hold: see README.                  *)
StopDrainsEverything ==
    \A c \in Stoppers :
       (Returned(c) /\ life.trail # <<>> /\ life.trail[1].to = "STARTING")
          => Registered \subseteq {calls[i].name : i \in 1..Len(calls)}
=============================================================================
