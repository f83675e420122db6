--------------------------- MODULE PluginPlatform ---------------------------
(***************************************************************************)
(* The plugin platform (packages/plugins/src): one registry, the lifecycle *)
(* manager over it, and loadAll(), which registers a placeholder for every *)
(* plugin discovered and replaces it by the real one once its module is    *)
(* imported.                                                               *)
(*                                                                         *)
(* A lifecycle call walks a snapshot of the registry and awaits one plugin *)
(* after the other; a load awaits one import after the other.  Any number  *)
(* of such calls may be under way at once.                                 *)
(***************************************************************************)
EXTENDS Naturals, Sequences, SequencesExt, SequenceFilters

CONSTANTS
    Entries,    \* what discovery finds, in order: [id, source, compatible]
    Calls,      \* the calls made of the platform
    Op,         \* what each of them asks for
    GlobalConfig, EnvOverride   \* the value of each id's setting in either source

Ids == {Entries[i].id : i \in 1..Len(Entries)}
Sources == {Entries[i].source : i \in 1..Len(Entries)}

Found == [id : Ids, source : Sources, compatible : BOOLEAN]

Placeholder == "placeholder"

Work == {"initialize", "startup", "shutdown", "dispose"}

(* A source is a folder, and a folder has one manifest; an id may be found  *)
(* in several of them.                                                      *)
ASSUME PlatformAssumption ==
    /\ Entries \in Seq(Found)
    /\ \A i, j \in 1..Len(Entries) :
          Entries[i].source = Entries[j].source => Entries[i].id = Entries[j].id
    /\ Placeholder \notin Sources
    /\ Op \in [Calls -> Work \cup {"load"}]

(* The platform's own methods never call initializeAll(): it is there for a *)
(* caller of the lifecycle manager.                                         *)
PlatformMethodsOnly == \A c \in Calls : Op[c] # "initialize"

(* Discovery finds id once.                                                 *)
FoundOnce(id) ==
    \A i, j \in 1..Len(Entries) : Entries[i].id = id /\ Entries[j].id = id => i = j

(* The plugins that are not found with the id of another.                   *)
Alone ==
    {s \in Sources : \A i \in 1..Len(Entries) : Entries[i].source = s => FoundOnce(Entries[i].id)}

VARIABLES
    plugins,   \* the registry's records, in the order they were registered
    calls,
    asked      \* what each plugin was asked to do since it was registered

vars == <<plugins, calls, asked>>

-----------------------------------------------------------------------------
(* The phases (types.ts, phaseForAction)                                    *)

ValidTransitions ==
    [REGISTERED |-> {"INITIALIZING", "FAILED"}, INITIALIZING |-> {"INITIALIZED", "FAILED"},
     INITIALIZED |-> {"STARTING", "STOPPING", "FAILED"}, STARTING |-> {"RUNNING", "FAILED"},
     RUNNING |-> {"STOPPING", "FAILED"}, STOPPING |-> {"STOPPED", "FAILED"},
     STOPPED |-> {"DISPOSED", "FAILED"}, DISPOSED |-> {}, FAILED |-> {}]

Phases == DOMAIN ValidTransitions

Expected ==
    [initialize |-> "REGISTERED", startup |-> "INITIALIZED",
     shutdown |-> "RUNNING", dispose |-> "STOPPED"]

Intermediate ==
    [initialize |-> "INITIALIZING", startup |-> "STARTING",
     shutdown |-> "STOPPING", dispose |-> "DISPOSED"]

(* mutant: the line for startup was copied from the one above               *)
TargetCopied ==
    [initialize |-> "INITIALIZED", startup |-> "INITIALIZED",
     shutdown |-> "STOPPED", dispose |-> "DISPOSED"]

Target ==
    [initialize |-> "INITIALIZED", startup |-> "RUNNING",
     shutdown |-> "STOPPED", dispose |-> "DISPOSED"]

-----------------------------------------------------------------------------
(* The registry (PluginRegistry.ts)                                         *)

Registered(ps) == {ps[i].id : i \in 1..Len(ps)}

Register(ps, id, plugin) ==
    IF id \in Registered(ps) THEN ps
    ELSE Append(ps, [id |-> id, plugin |-> plugin, phase |-> "REGISTERED"])

Unregister(ps, id) == KeepIn(ps, {r \in Range(ps) : r.id # id})

(* updatePhase(), and updateError() with FAILED: nothing without a record   *)
UpdatePhase(ps, id, phase) ==
    [i \in 1..Len(ps) |-> IF ps[i].id = id THEN [ps[i] EXCEPT !.phase = phase] ELSE ps[i]]

-----------------------------------------------------------------------------

Idle == [pc |-> "idle", todo |-> <<>>]

Init ==
    /\ plugins = <<>>
    /\ calls = [c \in Calls |-> Idle]
    /\ asked = [s \in Sources |-> <<>>]

(* mutant: the phase is taken from the snapshot                             *)
ReadyBySnapshot(ps, op, r) == r.id \in Registered(ps) /\ r.phase = Expected[op]

(* executeTransition() looks the plugin up again.                           *)
Ready(ps, op, r) == \E i \in 1..Len(ps) : ps[i].id = r.id /\ ps[i].phase = Expected[op]

(* Call c goes on over the registry ps with the snapshot's records in todo: *)
(* those not ready any more are passed over, the first that is becomes the  *)
(* one awaited.  The plugin asked is the snapshot's.                        *)
GoOn(c, ps, todo) ==
    \/ /\ \A k \in 1..Len(todo) : ~Ready(ps, Op[c], todo[k])
       /\ plugins' = ps
       /\ calls' = [calls EXCEPT ![c] = [pc |-> "done", todo |-> <<>>]]
       /\ UNCHANGED asked
    \/ \E i \in 1..Len(todo) :
       /\ Ready(ps, Op[c], todo[i])
       /\ \A k \in 1..(i - 1) : ~Ready(ps, Op[c], todo[k])
       /\ plugins' = UpdatePhase(ps, todo[i].id, Intermediate[Op[c]])
       /\ calls' = [calls EXCEPT ![c] = [pc |-> "awaiting",
                                         todo |-> SubSeq(todo, i, Len(todo))]]
       /\ asked' = IF todo[i].plugin = Placeholder \/ Op[c] = "initialize"
                   THEN asked
                   ELSE [asked EXCEPT ![todo[i].plugin] = Append(@, Op[c])]

(* initializeAll(), startAll(), stopAll(), disposeAll()                     *)
Walk(c) ==
    /\ Op[c] \in Work /\ calls[c].pc = "idle"
    /\ GoOn(c, plugins, KeepIn(plugins, {r \in Range(plugins) : r.phase = Expected[Op[c]]}))

(* The plugin awaited returns, even an error, or throws.  A placeholder and *)
(* an initialize() do nothing that could throw.                             *)
WalkSettles(c, fails) ==
    /\ calls[c].pc = "awaiting"
    /\ fails => Head(calls[c].todo).plugin # Placeholder /\ Op[c] # "initialize"
    /\ GoOn(c, UpdatePhase(plugins, Head(calls[c].todo).id,
                           IF fails THEN "FAILED" ELSE Target[Op[c]]),
            Tail(calls[c].todo))

-----------------------------------------------------------------------------
(* loadAll() (PluginPlatform.ts)                                            *)

(* The places of the entries to register: compatible, and the first of      *)
(* their id.                                                                *)
Valid ==
    {k \in 1..Len(Entries) :
        /\ Entries[k].compatible
        /\ \A j \in 1..(k - 1) : Entries[j].compatible => Entries[j].id # Entries[k].id}

(* With nothing left to import the load is over.                            *)
LoadGoesOn(c, todo) ==
    calls' = [calls EXCEPT ![c] = IF todo = <<>> THEN [pc |-> "done", todo |-> <<>>]
                                  ELSE [pc |-> "importing", todo |-> todo]]

New(ps) ==
    KeepIn([k \in 1..Len(Entries) |-> k], {k \in Valid : Entries[k].id \notin Registered(ps)})

Placeholders(new) ==
    [i \in 1..Len(new) |->
        [id |-> Entries[new[i]].id, plugin |-> Placeholder, phase |-> "REGISTERED"]]

(* Placeholders are registered for what is not in the registry yet; what is *)
(* imported are all entries of the ids so registered, even those found      *)
(* invalid.                                                                 *)
LoadRegisters(c) ==
    /\ Op[c] = "load" /\ calls[c].pc = "idle"
    /\ LET new == New(plugins) IN
       /\ plugins' = plugins \o Placeholders(new)
       /\ LoadGoesOn(c, KeepIn(Entries, {e \in Range(Entries) :
                                           \E k \in Range(new) : Entries[k].id = e.id}))
    /\ UNCHANGED asked

(* mutant: one module that cannot be imported ends the load                 *)
ImportFailureAborts(c) ==
    /\ calls[c].pc = "importing"
    /\ plugins' = UpdatePhase(plugins, Head(calls[c].todo).id, "FAILED")
    /\ LoadGoesOn(c, <<>>)
    /\ UNCHANGED asked

ImportFails(c) ==
    /\ calls[c].pc = "importing"
    /\ plugins' = UpdatePhase(plugins, Head(calls[c].todo).id, "FAILED")
    /\ LoadGoesOn(c, Tail(calls[c].todo))
    /\ UNCHANGED asked

(* createPluginConfig(): the sources are merged by ascending priority       *)
(* number, a later one over an earlier one: the environment's is 0, the     *)
(* global's 10.                                                             *)
Config(id) == IF GlobalConfig[id] = "unset" THEN EnvOverride[id] ELSE GlobalConfig[id]

Replaced(id, plugin) == Register(Unregister(plugins, id), id, plugin)

(* The module is there: the real plugin takes the placeholder's place, or   *)
(* that of whatever has the id now, and is initialized unless its           *)
(* configuration is invalid.                                                *)
ImportSettles(c) ==
    /\ calls[c].pc = "importing"
    /\ LET entry == Head(calls[c].todo)
           ps    == Replaced(entry.id, entry.source)
       IN  /\ asked' = [asked EXCEPT ![entry.source] = <<>>]
           /\ \/ /\ Config(entry.id) = "invalid"
                 /\ plugins' = UpdatePhase(ps, entry.id, "FAILED")
                 /\ LoadGoesOn(c, Tail(calls[c].todo))
              \/ /\ Config(entry.id) # "invalid"
                 /\ plugins' = UpdatePhase(ps, entry.id, "INITIALIZING")
                 /\ calls' = [calls EXCEPT ![c].pc = "initializing"]

InitializeSettles(c) ==
    /\ calls[c].pc = "initializing"
    /\ plugins' = UpdatePhase(plugins, Head(calls[c].todo).id, "INITIALIZED")
    /\ LoadGoesOn(c, Tail(calls[c].todo))
    /\ UNCHANGED asked

-----------------------------------------------------------------------------

Busy(id) ==
    \E c \in Calls : \E i \in 1..Len(calls[c].todo) : calls[c].todo[i].id = id

(* registry.unregister(), by a caller who lets plugins come to rest first   *)
UnregisterPlugin(id) ==
    /\ ~Busy(id)
    /\ \E i \in 1..Len(plugins) :
          plugins[i].id = id /\ plugins[i].phase \in {"STOPPED", "DISPOSED", "FAILED"}
    /\ plugins' = Unregister(plugins, id)
    /\ UNCHANGED <<calls, asked>>

Next ==
    \/ \E c \in Calls :
          \/ Walk(c) \/ LoadRegisters(c)
          \/ ImportFails(c) \/ ImportSettles(c) \/ InitializeSettles(c)
          \/ \E fails \in BOOLEAN : WalkSettles(c, fails)
    \/ \E id \in Ids : UnregisterPlugin(id)

Spec == Init /\ [][Next]_vars
-----------------------------------------------------------------------------

Records == [id : Ids, plugin : Sources \cup {Placeholder}, phase : Phases]

Resting == [pc : {"idle", "done"}, todo : {<<>>}]
Loading == [pc : {"importing", "initializing"}, todo : Seq(Found) \ {<<>>}]
Walking == [pc : {"awaiting"}, todo : Seq(Records) \ {<<>>}]

RegisteredOnce(ps) == \A i, j \in 1..Len(ps) : ps[i].id = ps[j].id => i = j

(* The registry and the calls are well formed: no id is registered twice,   *)
(* and a call under way has something to await.                             *)
TypeOK ==
    /\ plugins \in Seq(Records) /\ RegisteredOnce(plugins)
    /\ asked \in [Sources -> Seq(Work)]
    /\ calls \in [Calls -> Resting \cup Loading \cup Walking]
    /\ \A c \in Calls : Op[c] = "load" => calls[c] \notin Walking
    /\ \A c \in Calls : Op[c] # "load" => calls[c] \notin Loading

(* However many calls are under way, a plugin is asked to start, to stop    *)
(* and to dispose at most once each, and in that order.  (One whose id is   *)
(* found twice is not: loadAll() imports both, and the second takes the     *)
(* place of the first in whatever the registry does next.)                  *)
AskedInOrder ==
    \A s \in Alone : IsPrefix(asked[s], <<"startup", "shutdown", "dispose">>)

(* A plugin that is RUNNING was asked to start and nothing since, one that  *)
(* is STOPPED was asked to stop: the phase in the registry is that of the   *)
(* plugin in the registry.                                                  *)
PhaseTellsWhatWasAsked ==
    \A i \in 1..Len(plugins) : plugins[i].plugin \in Alone =>
        LET was == asked[plugins[i].plugin] IN
        /\ plugins[i].phase = "INITIALIZED" => was = <<>>
        /\ plugins[i].phase = "RUNNING" => was = <<"startup">>
        /\ plugins[i].phase = "STOPPED" => was = <<"startup", "shutdown">>

(* "A failed plugin does not stop the platform" (PluginPlatform.ts): when   *)
(* no load is under way no placeholder is left but those of failed imports. *)
LoadsHandleEverything ==
    (\A c \in Calls : Op[c] = "load" => calls[c].pc \in {"idle", "done"}) =>
        \A i \in 1..Len(plugins) :
           plugins[i].plugin = Placeholder => plugins[i].phase = "FAILED"

=============================================================================
