-------------------------- MODULE WorkspaceScripts --------------------------
(***************************************************************************)
(* The scripts that keep the workspace's manifests                         *)
(* (scripts/version-manager.ts, scripts/validate-packages.ts): the version *)
(* manager rewrites the version of every package, one file after the       *)
(* other, and may be killed between two of them or while one is being      *)
(* written; meanwhile, and in between, developers change manifests.  The   *)
(* validators read and change nothing.                                     *)
(***************************************************************************)
EXTENDS Integers, Sequences, SequencesExt, FiniteSets

CONSTANTS
    Packages,       \* in the order they are read, the root's manifest first
    Apps,           \* those of them that are apps
    Contents,       \* what else a package may have: [name, license, build, dist,
                    \*    entry, typeEntry, types, exports], no export for none
    Versions,       \* versions a developer may write
    MaxEdits, MaxRuns       \* bounds

VARIABLES
    manifests,      \* of each package, [version, torn]
    content,
    run,            \* of the version manager
    edits, runs

vars == <<manifests, content, run, edits, runs>>

Root == Head(Packages)
Names == ToSet(Packages)

-----------------------------------------------------------------------------
(* Versions: three numbers and perhaps a suffix after them.                 *)

NaN == -1

Version(major, minor, patch, suffix) ==
    [major |-> major, minor |-> minor, patch |-> patch, suffix |-> suffix]

IsValidSemver(v) == v.major # NaN /\ v.minor # NaN /\ v.patch # NaN

BumpTypes == {"major", "minor", "patch"}

(* mutant: the smaller numbers are not reset                                *)
BumpWithoutReset(v, type) ==
    CASE type = "major" -> Version(v.major + 1, v.minor, v.patch, FALSE)
      [] type = "minor" -> Version(v.major, v.minor + 1, v.patch, FALSE)
      [] type = "patch" -> Version(v.major, v.minor,
                                   IF v.suffix \/ v.patch = NaN THEN NaN ELSE v.patch + 1, FALSE)

(* Number() of a patch with a suffix is NaN.                                *)
BumpVersion(v, type) ==
    CASE type = "major" -> Version(v.major + 1, 0, 0, FALSE)
      [] type = "minor" -> Version(v.major, v.minor + 1, 0, FALSE)
      [] type = "patch" -> Version(v.major, v.minor,
                                   IF v.suffix \/ v.patch = NaN THEN NaN ELSE v.patch + 1, FALSE)

(* getWorkspacePackages(): a manifest that does not parse is passed over,   *)
(* but the root's.                                                          *)
WorkspacePackages == SelectSeq(Packages, LAMBDA p : ~manifests[p].torn)

RootReads == ~manifests[Root].torn

ValidateVersions ==
    LET read == {manifests[p].version : p \in ToSet(WorkspacePackages)} IN
    /\ RootReads
    /\ \A v \in read : IsValidSemver(v)
    /\ Cardinality(read) <= 1

-----------------------------------------------------------------------------
(* validate-packages.ts, over packages and apps                             *)

ValidatePackageJson(p) ==
    LET c == content[p] IN
    (IF c.name THEN {} ELSE {"name"}) \cup (IF c.license THEN {} ELSE {"license"})
    \cup (IF IsValidSemver(manifests[p].version) THEN {} ELSE {"version"})
    \cup (IF c.exports # {} /\ \A e \in c.exports : e.path \notin {".", "./package.json"}
            THEN {"exports"} ELSE {})
    \cup (IF c.types /\ c.exports = {} THEN {"types"} ELSE {})

ValidateBuildOutputs(p) ==
    LET c == content[p] IN
    IF p \in Apps \/ ~c.build THEN {}
    ELSE IF ~c.dist THEN {"dist"}
    ELSE (IF c.entry THEN {} ELSE {"dist/index.js"})
         \cup (IF c.typeEntry THEN {} ELSE {"dist/index.d.ts"})

(* Of a plain export the path it goes by is looked up, not the file it      *)
(* names; of a conditional one the types only.                              *)
ValidateExports(p) ==
    {"exports " \o e.path : e \in
        {x \in content[p].exports : ~x.wildcard /\
            CASE x.kind = "plain"       -> ~x.pathExists
              [] x.kind = "conditional" -> ~x.typesExist}}

(* mutant: a manifest that does not parse is passed over here as well       *)
ValidateReadable(p) ==
    IF manifests[p].torn THEN {}
    ELSE ValidatePackageJson(p) \cup ValidateBuildOutputs(p) \cup ValidateExports(p)

ValidatePackage(p) ==
    IF manifests[p].torn THEN {"package.json"}
    ELSE ValidatePackageJson(p) \cup ValidateBuildOutputs(p) \cup ValidateExports(p)

ValidationErrors == UNION {ValidatePackage(p) : p \in Names \ {Root}}

-----------------------------------------------------------------------------

Idle == [pc |-> "idle", target |-> Version(0, 0, 0, FALSE), todo |-> <<>>, quiet |-> TRUE]

Init ==
    /\ manifests \in [Names -> {[version |-> v, torn |-> FALSE] : v \in Versions}]
    /\ \A p \in Names : manifests[p] = manifests[Root]
    /\ content \in [Names \ {Root} -> Contents]
    /\ run = Idle /\ edits = 0 /\ runs = 0

(* syncVersions(): which packages to rewrite is decided before the first.   *)
SyncVersions(target) ==
    /\ run.pc # "writing" /\ runs < MaxRuns /\ RootReads
    /\ run' = [pc |-> "writing", target |-> target, quiet |-> TRUE,
               todo |-> SelectSeq(WorkspacePackages,
                                  LAMBDA p : manifests[p].version # target)]
    /\ runs' = runs + 1
    /\ UNCHANGED <<manifests, content, edits>>

Sync(target) == IsValidSemver(target) /\ SyncVersions(target)

(* What a bump makes of the root's version is not validated.                *)
Bump(type) == SyncVersions(BumpVersion(manifests[Root].version, type))

(* updatePackageVersion(): the file is read again, which may throw.         *)
Write ==
    /\ run.pc = "writing" /\ run.todo # <<>>
    /\ LET p == Head(run.todo) IN
       IF manifests[p].torn
       THEN run' = [run EXCEPT !.pc = "threw"] /\ UNCHANGED manifests
       ELSE /\ manifests' = [manifests EXCEPT ![p].version = run.target]
            /\ run' = [run EXCEPT !.todo = Tail(@)]
    /\ UNCHANGED <<content, edits, runs>>

Done ==
    /\ run.pc = "writing" /\ run.todo = <<>>
    /\ run' = [run EXCEPT !.pc = "done"]
    /\ UNCHANGED <<manifests, content, edits, runs>>

(* Killed, perhaps with a file half written.                                *)
Kill ==
    /\ run.pc = "writing" /\ run' = [run EXCEPT !.pc = "killed"]
    /\ \/ UNCHANGED manifests
       \/ /\ run.todo # <<>>
          /\ manifests' = [manifests EXCEPT ![Head(run.todo)].torn = TRUE]
    /\ UNCHANGED <<content, edits, runs>>

(* A developer writes a manifest anew.                                      *)
Edit(p, v) ==
    /\ edits < MaxEdits /\ edits' = edits + 1
    /\ manifests' = [manifests EXCEPT ![p] = [version |-> v, torn |-> FALSE]]
    /\ run' = [run EXCEPT !.quiet = FALSE]
    /\ UNCHANGED <<content, runs>>

Next ==
    \/ Write \/ Done \/ Kill
    \/ \E v \in Versions : Sync(v)
    \/ \E type \in BumpTypes : Bump(type)
    \/ \E p \in Names, v \in Versions : Edit(p, v)

Spec == Init /\ [][Next]_vars

-----------------------------------------------------------------------------

Later(v, w) ==
    \/ v.major > w.major
    \/ v.major = w.major /\ v.minor > w.minor
    \/ v.major = w.major /\ v.minor = w.minor /\ v.patch > w.patch

(* Whatever runs were killed before: a run that ends, no manifest being     *)
(* changed under it, leaves every manifest it can read at its target, and   *)
(* the version validator content with them unless the target was bumped     *)
(* from a suffix.  A workspace both validators pass can be read whole and   *)
(* has one well-formed version; one torn file is not to be seen by the      *)
(* version validator alone.  A bump of a plain version is the next of its   *)
(* kind.                                                                    *)
(* (version-manager.ts, validate-packages.ts)                               *)
WhatPassesIsConsistent ==
    /\ run.pc = "done" /\ run.quiet =>
          /\ \A p \in ToSet(WorkspacePackages) : manifests[p].version = run.target
          /\ ValidateVersions <=> IsValidSemver(run.target)
    /\ ValidateVersions /\ ValidationErrors = {} =>
          \A p \in Names :
             /\ ~manifests[p].torn /\ manifests[p].version = manifests[Root].version
             /\ IsValidSemver(manifests[p].version)
             /\ p # Root => content[p].name /\ content[p].license
             /\ p \notin Apps \cup {Root} /\ content[p].build =>
                   content[p].dist /\ content[p].entry /\ content[p].typeEntry
    /\ \A p \in Names, type \in BumpTypes :
          LET v == manifests[p].version  bumped == BumpVersion(v, type) IN
          ~v.suffix /\ IsValidSemver(v) =>
             /\ Later(bumped, v)
             /\ \A w \in Versions : Later(w, v) /\ ~w.suffix =>
                   \/ ~Later(bumped, w)
                   \/ type # "patch" /\ w.major = v.major /\ (type = "minor" => w.minor = v.minor)
=============================================================================
