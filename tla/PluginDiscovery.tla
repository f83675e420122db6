--------------------------- MODULE PluginDiscovery ---------------------------
(***************************************************************************)
(* Discovery of plugins and the checks a load makes of what it finds       *)
(* (packages/plugins/src: PluginDiscovery.ts, PluginMetadataValidator.ts,  *)
(* PluginDependencyValidator.ts).  discover() awaits the file system for   *)
(* every directory and every file, and the disk may change at each await.  *)
(*                                                                         *)
(* A version is [prefix, n] with n = <<major, minor, patch>>; the prefix   *)
(* is "" in one that is plain semver.  One file pattern, package.json.     *)
(***************************************************************************)
EXTENDS Naturals, Sequences, SequencesExt, FiniteSets

CONSTANTS
    Directories,    \* the directories to scan, in order
    Disks,          \* what each may be: [kind, folders], a folder is [name, content]
    LegalIds,       \* the ids that match the pattern
    AgentOSVersion,
    Loaded          \* the manifests of the plugins that an earlier load brought

VARIABLES disk, scan

vars == <<disk, scan>>

Plain(n) == [prefix |-> "", n |-> n]

-----------------------------------------------------------------------------
(* Versions                                                                 *)

(* mutant: a minor version may be newer than the one required only if the   *)
(* patch is as well                                                         *)
NotBeforeEach(v, w) == \A i \in 1..3 : w[i] <= v[i]

(* validateAgentOSCompatibility(), and the bounds of "^" and "~"            *)
NotBefore(v, w) ==
    \/ v[1] > w[1]
    \/ v[1] = w[1] /\ v[2] > w[2]
    \/ v[1] = w[1] /\ v[2] = w[2] /\ v[3] >= w[3]

VersionMatches(required, available) ==
    CASE required.prefix = "^" ->
            available[1] = required.n[1] /\ NotBefore(available, required.n)
      [] required.prefix = "~" ->
            /\ available[1] = required.n[1] /\ available[2] = required.n[2]
            /\ available[3] >= required.n[3]
      [] OTHER -> available = required.n

-----------------------------------------------------------------------------
(* Manifests                                                                *)

Given(content, field, fallback, default) ==
    IF field \in DOMAIN content.section THEN content.section[field]
    ELSE IF fallback \in DOMAIN content.package THEN content.package[fallback]
    ELSE default

(* extractManifest(): of the section for Agent OS, then of the package      *)
Manifest(content, folder) ==
    [id           |-> Given(content, "id", "name", folder),
     version      |-> Given(content, "version", "version", Plain(<<0, 0, 0>>)),
     description  |-> Given(content, "description", "description", ""),
     minimum      |-> Given(content, "minimum", "none", Plain(<<0, 0, 0>>)),
     dependencies |-> Given(content, "dependencies", "none", <<>>)]

(* validatePluginManifest(): versions are plain, those required of a        *)
(* dependency too; a description has no default that would do.              *)
ValidManifest(m) ==
    /\ m.id \in LegalIds /\ m.description # ""
    /\ m.version.prefix = "" /\ m.minimum.prefix = ""
    /\ \A i \in 1..Len(m.dependencies) : m.dependencies[i].version.prefix = ""

(* A folder without a package.json, or with one that is not JSON or has no  *)
(* section, holds no plugin; nor does one whose manifest is not valid.      *)
IsPlugin(folder) ==
    /\ folder.content.plugin
    /\ ValidManifest(Manifest(folder.content, folder.name))

Found(dir, folder) ==
    [dir |-> dir, folder |-> folder.name, manifest |-> Manifest(folder.content, folder.name)]

-----------------------------------------------------------------------------
(* discover()                                                               *)

Idle ==
    [pc |-> "idle", todo |-> <<>>, folders |-> <<>>, entries |-> <<>>, errors |-> <<>>,
     touched |-> {}]     \* directories that changed meanwhile

Init == disk \in [ToSet(Directories) -> Disks] /\ scan = Idle

Discover ==
    /\ scan.pc = "idle"
    /\ scan' = [Idle EXCEPT !.todo = Directories,
                            !.pc = IF Directories = <<>> THEN "done" ELSE "stat"]
    /\ UNCHANGED disk

NextDirectory(s) ==
    [s EXCEPT !.todo = Tail(s.todo), !.pc = IF Tail(s.todo) = <<>> THEN "done" ELSE "stat"]

NextFolder(s) == IF s.folders = <<>> THEN NextDirectory(s) ELSE [s EXCEPT !.pc = "reading"]

(* mutant: a directory that is not there ends the scan                      *)
StatOrStop ==
    /\ scan.pc = "stat"
    /\ scan' = IF disk[Head(scan.todo)].kind # "directory"
               THEN [scan EXCEPT !.pc = "done", !.errors = Append(@, Head(scan.todo))]
               ELSE [scan EXCEPT !.pc = "listing"]
    /\ UNCHANGED disk

StatSettles ==
    /\ scan.pc = "stat"
    /\ scan' = IF disk[Head(scan.todo)].kind # "directory"
               THEN NextDirectory([scan EXCEPT !.errors = Append(@, Head(scan.todo))])
               ELSE [scan EXCEPT !.pc = "listing"]
    /\ UNCHANGED disk

(* scanDirectory(): what cannot be listed any more has nothing in it.       *)
ReaddirSettles ==
    /\ scan.pc = "listing"
    /\ LET was == disk[Head(scan.todo)].folders IN
       scan' = NextFolder([scan EXCEPT !.folders = [i \in 1..Len(was) |-> was[i].name]])
    /\ UNCHANGED disk

(* What the file of the next folder holds by now: files that are not there, *)
(* not JSON, not a plugin's or not valid are passed over.                   *)
ReadFileSettles ==
    /\ scan.pc = "reading"
    /\ LET dir  == Head(scan.todo)
           read == SelectSeq(disk[dir].folders, LAMBDA f : f.name = Head(scan.folders) /\ IsPlugin(f))
       IN  scan' = NextFolder([scan EXCEPT !.folders = Tail(@),
                                           !.entries = @ \o [i \in 1..Len(read) |->
                                                                Found(dir, read[i])]])
    /\ UNCHANGED disk

(* Somebody installs or removes plugins.                                    *)
DiskChanges(dir, now) ==
    /\ scan.pc \in {"stat", "listing", "reading"} /\ disk[dir] # now
    /\ disk' = [disk EXCEPT ![dir] = now]
    /\ scan' = [scan EXCEPT !.touched = @ \cup {dir}]

Next ==
    \/ Discover \/ StatSettles \/ ReaddirSettles \/ ReadFileSettles
    \/ \E dir \in ToSet(Directories), now \in Disks : DiskChanges(dir, now)

Spec == Init /\ [][Next]_vars

-----------------------------------------------------------------------------
(* What loadAll() makes of the manifests found: those that can run on this  *)
(* Agent OS, the first of each id, and what their dependencies lack.        *)

Compatible ==
    SelectSeq(scan.entries, LAMBDA e : NotBefore(AgentOSVersion, e.manifest.minimum.n))

Accepted ==
    {Compatible[i].manifest : i \in {k \in 1..Len(Compatible) :
        \A j \in 1..(k - 1) : Compatible[j].manifest.id # Compatible[k].manifest.id}}

Registry ==
    Loaded \cup {m \in Accepted : \A other \in Loaded : other.id # m.id}

(* validateAllDependencies(), of one dependency                             *)
Judged(need) ==
    LET there == {m \in Registry : m.id = need.id} IN
    IF there = {} THEN "missing"
    ELSE IF \A m \in there : VersionMatches(need.version, m.version.n) THEN "met" ELSE "conflict"

-----------------------------------------------------------------------------

(* The scan keeps its shape.                                                *)
TypeOK ==
    /\ disk \in [ToSet(Directories) -> Disks]
    /\ scan.pc \in {"idle", "stat", "listing", "reading", "done"}
    /\ (scan.pc = "reading") => scan.folders # <<>>
    /\ ToSet(scan.todo \o scan.errors) \subseteq ToSet(Directories)

(* Whatever else is missing, broken or changing, a scan finds the plugins   *)
(* of every directory that was left alone, each once and in order, and      *)
(* reports the directory if it is none (discover(), scanDirectory()).       *)
FindsWhatStays ==
    scan.pc = "done" =>
        \A dir \in ToSet(Directories) \ scan.touched :
            LET mine == SelectSeq(scan.entries, LAMBDA e : e.dir = dir)
                all  == SelectSeq(disk[dir].folders, IsPlugin)
            IN  IF disk[dir].kind # "directory"
                THEN mine = <<>> /\ Len(SelectSeq(scan.errors, LAMBDA d : d = dir)) = 1
                ELSE /\ dir \notin ToSet(scan.errors)
                     /\ mine = [i \in 1..Len(all) |-> Found(dir, all[i])]

Number(n) == 100 * n[1] + 10 * n[2] + n[3]

(* The range a required version stands for, with parts below 10             *)
VersionRange(required) ==
    CASE required.prefix = "^" -> Number(required.n)..(Number(<<required.n[1] + 1, 0, 0>>) - 1)
      [] required.prefix = "~" ->
            Number(required.n)..(Number(<<required.n[1], required.n[2] + 1, 0>>) - 1)
      [] OTHER -> {Number(required.n)}

(* A dependency is reported missing or conflicting only if no plugin at     *)
(* hand is in its range, "^" up to the next major version and "~" up to the *)
(* next minor one, and no plugin is let in that asks for a later Agent OS   *)
(* (validatePluginDependencies(), versionMatches()).                        *)
DependenciesAreJudgedRight ==
    scan.pc = "done" =>
        /\ \A m \in Registry : \A i \in 1..Len(m.dependencies) :
              LET need == m.dependencies[i] IN
              Judged(need) = "met" <=>
                  \E other \in Registry :
                      other.id = need.id /\ Number(other.version.n) \in VersionRange(need.version)
        /\ \A i \in 1..Len(Compatible) :
              Number(Compatible[i].manifest.minimum.n) <= Number(AgentOSVersion)
=============================================================================
