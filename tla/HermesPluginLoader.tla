------------------------- MODULE HermesPluginLoader -------------------------
(***************************************************************************)
(* The kernel's plugin loader (packages/hermes/src/HermesPluginLoader.ts)  *)
(* over the registry of HermesKernel.  loadPlugins() imports one entry of  *)
(* the modules directory after the other, calls its register() and awaits  *)
(* it; what came of it is read off the number of modules before and after. *)
(* Those that brought nothing are tried once more.  loadPlugin() does this *)
(* once, for one entry.                                                    *)
(*                                                                         *)
(* What a register() does is the plugin's: it may register the entry's     *)
(* module through the facade, at once or after an await, and then return   *)
(* or throw, whatever the facade answered.                                 *)
(***************************************************************************)
EXTENDS HermesKernel, FiniteSets, SequencesExt

CONSTANTS
    Entries,   \* what the directory holds, sorted by path: [path, spec]
    Loads      \* the calls of loadPlugins() and loadPlugin()

VARIABLES
    files,     \* the entries still there
    loads

loaderVars == <<life, modules, stops, calls, files, loads>>

kernel == <<life, stops, calls>>

LoadIdle ==
    [pc |-> "idle", pass |-> "first", todo |-> <<>>, before |-> 0,
     registered |-> <<>>, skipped |-> <<>>,
     added |-> {},           \* names registered during a register() it awaited
     disturbed |-> FALSE]    \* somebody else changed the registry during one

LoaderInit ==
    /\ Init
    /\ files = ToSet(Entries)
    /\ loads = [c \in Loads |-> LoadIdle]

(* Entries are read again before they are retried, outside of the try.      *)
ReadsNext(load) ==
    [load EXCEPT !.pc = IF load.todo = <<>> THEN "done"
                        ELSE IF load.pass = "retry" /\ Head(load.todo) \notin files THEN "threw"
                        ELSE "importing"]

(* mutant: what the first pass skipped is left there                        *)
RetriesAndKeeps(load) ==
    [load EXCEPT !.pass = "retry", !.todo = load.skipped]

RetriesSkipped(load) ==
    [load EXCEPT !.pass = "retry", !.todo = load.skipped, !.skipped = <<>>]

LoadGoesOn(load) ==
    ReadsNext(IF load.todo = <<>> /\ load.pass = "first" THEN RetriesSkipped(load) ELSE load)

Skipping(load) ==
    [load EXCEPT !.todo = Tail(load.todo), !.skipped = Append(@, Head(load.todo))]

-----------------------------------------------------------------------------

LoadPlugins(c) ==
    /\ loads[c].pc = "idle"
    /\ loads' = [loads EXCEPT ![c] =
                    LoadGoesOn([LoadIdle EXCEPT !.todo = SelectSeq(Entries, LAMBDA e : e \in files)])]
    /\ UNCHANGED <<kernel, modules, files>>

LoadPlugin(c, entry) ==
    /\ loads[c].pc = "idle"
    /\ loads' = [loads EXCEPT ![c] =
                    [LoadIdle EXCEPT !.pc = "importing", !.pass = "only", !.todo = <<entry>>]]
    /\ UNCHANGED <<kernel, modules, files>>

(* importEntry(), and the call of register()                                *)
ImportFails(c) ==
    /\ loads[c].pc = "importing"
    /\ loads' = [loads EXCEPT ![c] = LoadGoesOn(Skipping(loads[c]))]
    /\ UNCHANGED <<kernel, modules, files>>

ImportSettles(c) ==
    /\ loads[c].pc = "importing"
    /\ loads' = [loads EXCEPT ![c].pc = "registering", ![c].before = Len(modules)]
    /\ UNCHANGED <<kernel, modules, files>>

Witnessed(name, who) ==
    loads' = [c \in Loads |->
                 IF loads[c].pc = "registering"
                 THEN [loads[c] EXCEPT !.added = @ \cup {name}, !.disturbed = @ \/ c # who]
                 ELSE loads[c]]

(* The entry's code calls facade.registerModule().                          *)
EntryRegisters(c) ==
    /\ loads[c].pc = "registering"
    /\ LET spec == Head(loads[c].todo).spec IN
       /\ Registrable(spec) /\ AddModule(spec) /\ Witnessed(spec.name, c)
    /\ UNCHANGED <<kernel, files>>

(* mutant: an entry that brought nothing is taken for the last that did     *)
CameInLoosely(load) == modules # <<>> /\ Len(modules) >= load.before

CameIn(load) == Len(modules) > load.before

(* register() returns or throws.                                            *)
RegisterSettles(c, throws) ==
    /\ loads[c].pc = "registering"
    /\ LET load == loads[c]
           last == [path |-> Head(load.todo).path, name |-> Last(modules).name]
       IN  loads' = [loads EXCEPT ![c] = LoadGoesOn(
                        IF ~throws /\ CameIn(load)
                        THEN [load EXCEPT !.todo = Tail(load.todo),
                                          !.registered = Append(@, last)]
                        ELSE Skipping(load))]
    /\ UNCHANGED <<kernel, modules, files>>

-----------------------------------------------------------------------------
(* Meanwhile: the kernel starts and takes modules, plugins register late,   *)
(* are unloaded, and their files go.                                        *)

Disturbs(name) == Witnessed(name, "nobody") /\ UNCHANGED files

KernelStarts == Start /\ UNCHANGED <<files, loads>>

KernelRegisters(spec) == RegisterModule(spec) /\ modules' # modules /\ Disturbs(spec.name)

PluginRegistersLate(spec) == FacadeRegister(spec) /\ Disturbs(spec.name)

(* unloadPlugin()                                                           *)
Unloads(name) ==
    /\ UnloadPlugin(name)
    /\ loads' = [c \in Loads |-> [loads[c] EXCEPT !.disturbed =
                                     @ \/ loads[c].pc = "registering"]]
    /\ UNCHANGED files

FileGoes(entry) ==
    /\ entry \in files /\ files' = files \ {entry}
    /\ UNCHANGED <<kernel, modules, loads>>

LoaderNext ==
    \/ KernelStarts
    \/ \E c \in Loads :
          \/ LoadPlugins(c) \/ \E entry \in files : LoadPlugin(c, entry)
          \/ ImportFails(c) \/ ImportSettles(c) \/ EntryRegisters(c)
          \/ \E throws \in BOOLEAN : RegisterSettles(c, throws)
    \/ \E spec \in Specs :
          KernelRegisters(spec) \/ PluginRegistersLate(spec) \/ Unloads(spec.name)
    \/ \E entry \in ToSet(Entries) : FileGoes(entry)

LoaderSpec == LoaderInit /\ [][LoaderNext]_loaderVars

-----------------------------------------------------------------------------

(* The calls keep their shape.                                              *)
LoaderTypeOK ==
    /\ files \subseteq ToSet(Entries)
    /\ \A c \in Loads :
          /\ loads[c].pc \in {"idle", "importing", "registering", "done", "threw"}
          /\ ToSet(loads[c].todo \o loads[c].skipped) \subseteq ToSet(Entries)
          /\ (loads[c].todo = <<>>) = (loads[c].pc \in {"idle", "done"})

(* A load names as registered only modules that came in while it awaited a  *)
(* register(), and the entry's own module if nobody else was at work on the *)
(* registry then; and its summary has each entry once, registered or        *)
(* skipped (invokeEntry(), loadPlugins()).                                  *)
SummariesTellWhatCameIn ==
    \A c \in Loads : LET load == loads[c] IN
        /\ \A i \in 1..Len(load.registered) : load.registered[i].name \in load.added
        /\ ~load.disturbed =>
              \A i \in 1..Len(load.registered) : \E k \in 1..Len(Entries) :
                  /\ Entries[k].path = load.registered[i].path
                  /\ Entries[k].spec.name = load.registered[i].name
        /\ LET seen == [i \in 1..Len(load.registered) |-> load.registered[i].path]
                       \o [i \in 1..Len(load.skipped) |-> load.skipped[i].path]
           IN  load.pc = "done" => IsInjective(seen)
=============================================================================
