---------------------------- MODULE Configuration ----------------------------
(***************************************************************************)
(* The configuration package (packages/config/src): sources merged in      *)
(* their order, schema defaults, validation, and the registry of providers.*)
(*                                                                         *)
(* A configuration is the function from the paths of its leaves to their   *)
(* values, [kind, size]: size is what the bounds of a field speak of (a    *)
(* length, a number, which member of an enum); patterns and the items of   *)
(* arrays are left out.  Merging objects key by key is then a matter of    *)
(* which paths lie on one another.                                         *)
(***************************************************************************)
EXTENDS Integers, Sequences, SequencesExt, FiniteSetsExt

CONSTANTS
    Attempts,   \* the providers somebody tries to make
    Names,      \* they go by
    Schema,     \* of each path: [type, required, default, min, max, closed]
    Given,      \* what a source of each kind may hold: of "env" sequences of
                \* [path, raw], of the others configurations
    Orders,     \* sequences of kinds, as a caller may list its sources
    Numeral     \* the number that a raw text stands for

Undefined == [kind |-> "undefined", size |-> 0]
Null == [kind |-> "null", size |-> 0]

Empty == <<>>

VARIABLES
    attempts,
    registry    \* the provider of each name registered

vars == <<attempts, registry>>

-----------------------------------------------------------------------------
(* ConfigLoader.ts                                                          *)

OnOnePath(p, q) == IsPrefix(p, q) \/ IsPrefix(q, p)

(* mutant: a section is replaced as a whole                                 *)
ShallowMerge(target, source) ==
    LET kept == {p \in DOMAIN target : \A q \in DOMAIN source : Head(p) # Head(q)}
    IN  [p \in kept \cup DOMAIN source |-> IF p \in DOMAIN source THEN source[p] ELSE target[p]]

DeepMerge(target, source) ==
    LET kept == {p \in DOMAIN target : \A q \in DOMAIN source : ~OnOnePath(p, q)}
    IN  [p \in kept \cup DOMAIN source |-> IF p \in DOMAIN source THEN source[p] ELSE target[p]]

CoerceEnvValue(raw) ==
    CASE raw \in {"true", "false"} -> [kind |-> "boolean", size |-> 0]
      [] raw = "null" -> Null
      [] raw = "undefined" -> Undefined
      [] raw \in DOMAIN Numeral -> [kind |-> "number", size |-> Numeral[raw]]
      [] OTHER -> [kind |-> "string", size |-> Len(raw)]

Setting(variable) == [p \in {variable.path} |-> CoerceEnvValue(variable.raw)]

(* Each variable sets its leaf and makes way for it.                        *)
EnvToConfig(env) == FoldLeft(LAMBDA result, v : DeepMerge(result, Setting(v)), Empty, env)

(* null counts as an object to look into, which throws.                     *)
EnvThrows(env) ==
    \E i, j \in 1..Len(env) :
        i < j /\ env[i].raw = "null" /\ IsStrictPrefix(env[i].path, env[j].path)

(* mutant: a default takes the place of what was given                      *)
ApplyDefaultsOver(data, defaults) == DeepMerge(data, defaults)

(* Only the keys that the defaults name are kept.                           *)
ApplyDefaults(data, defaults) ==
    LET keys == {Head(p) : p \in DOMAIN defaults}
        kept == {p \in DOMAIN data :
                    Head(p) \in keys /\ (Len(p) > 1 \/ data[p] # Undefined)}
        rest == {p \in DOMAIN defaults : \A q \in kept : Head(p) # Head(q)}
    IN  [p \in kept \cup rest |-> IF p \in kept THEN data[p] ELSE defaults[p]]

Merged(merged, source) ==
    CASE source.kind = "defaults" -> ApplyDefaults(merged, source.values)
      [] source.kind = "env" -> DeepMerge(merged, EnvToConfig(source.values))
      [] source.kind \in {"file", "runtime"} -> DeepMerge(merged, source.values)

Load(sources) == FoldLeft(Merged, Empty, sources)

LoadThrows(sources) ==
    \E i \in 1..Len(sources) : sources[i].kind = "env" /\ EnvThrows(sources[i].values)

-----------------------------------------------------------------------------
(* ConfigProvider.ts, ConfigValidator.ts                                    *)

IsObject(config, path) == \E q \in DOMAIN config : IsStrictPrefix(path, q)

At(config, path) == IF path \in DOMAIN config THEN config[path] ELSE Undefined

ApplySchemaDefaults(data) ==
    LET missing == {p \in DOMAIN Schema :
                       /\ Len(p) = 1 /\ Schema[p].default # Undefined
                       /\ At(data, p) = Undefined /\ ~IsObject(data, p)}
    IN  [p \in DOMAIN data \cup missing |->
            IF p \in missing THEN Schema[p].default ELSE data[p]]

ValidateField(config, path) ==
    LET field == Schema[path]
        value == At(config, path)
    IN  IF field.type = "object"
        THEN /\ IsObject(config, path)
             /\ field.closed => \A q \in DOMAIN config : IsStrictPrefix(path, q) =>
                    SubSeq(q, 1, Len(path) + 1) \in DOMAIN Schema
        ELSE /\ ~IsObject(config, path)
             /\ value.kind \in IF field.type = "enum" THEN {"string", "number"} ELSE {field.type}
             /\ value.size \in field.min..field.max

(* The fields of an object are looked at only when there is one.            *)
Validate(config) ==
    \A path \in DOMAIN Schema :
        (Len(path) = 1 \/ IsObject(config, Front(path))) =>
            IF At(config, path) \in {Undefined, Null} /\ ~IsObject(config, path)
            THEN ~Schema[path].required
            ELSE ValidateField(config, path)

-----------------------------------------------------------------------------

Init ==
    /\ attempts = [a \in Attempts |-> [pc |-> "idle", name |-> "none", sources |-> <<>>,
                                       config |-> Empty]]
    /\ registry = <<>>

SourcesOf(order) ==
    FoldLeft(LAMBDA lists, kind : {Append(list, [kind |-> kind, values |-> given]) :
                                      list \in lists, given \in Given[kind]},
             {<<>>}, order)

(* createConfigProvider(): a load that throws, or an invalid configuration, *)
(* makes none.                                                              *)
CreateProvider(a, name, sources) ==
    LET config == ApplySchemaDefaults(Load(sources))
        made == ~LoadThrows(sources) /\ Validate(config)
    IN  /\ attempts[a].pc = "idle"
        /\ attempts' = [attempts EXCEPT ![a] =
                           [pc |-> IF made THEN "created" ELSE "failed", name |-> name,
                            sources |-> sources, config |-> IF made THEN config ELSE Empty]]
        /\ UNCHANGED registry

(* mutant: a later provider takes the name                                  *)
RegisterOver(a) ==
    /\ attempts[a].pc = "created"
    /\ attempts' = [attempts EXCEPT ![a].pc = "registered"]
    /\ registry' = [n \in DOMAIN registry \cup {attempts[a].name} |->
                       IF n = attempts[a].name THEN a ELSE registry[n]]

Register(a) ==
    /\ attempts[a].pc = "created"
    /\ \/ /\ attempts[a].name \in DOMAIN registry
          /\ attempts' = [attempts EXCEPT ![a].pc = "refused"]
          /\ UNCHANGED registry
       \/ /\ attempts[a].name \notin DOMAIN registry
          /\ attempts' = [attempts EXCEPT ![a].pc = "registered"]
          /\ registry' = [n \in DOMAIN registry \cup {attempts[a].name} |->
                             IF n = attempts[a].name THEN a ELSE registry[n]]

Next ==
    \E a \in Attempts :
        \/ Register(a)
        \/ \E name \in Names, order \in Orders :
              \E sources \in SourcesOf(order) : CreateProvider(a, name, sources)

Spec == Init /\ [][Next]_vars

-----------------------------------------------------------------------------

(* Who is registered by a name was made by it, and only a provider that was *)
(* made has a configuration (ConfigRegistry.register()).                    *)
TypeOK ==
    /\ DOMAIN registry \subseteq Names
    /\ \A n \in DOMAIN registry :
          attempts[registry[n]].pc = "registered" /\ attempts[registry[n]].name = n
    /\ \A a \in Attempts :
          /\ attempts[a].pc \in {"idle", "created", "failed", "registered", "refused"}
          /\ attempts[a].pc \in {"idle", "failed"} => attempts[a].config = Empty

(* What the sources say, one after the other; the variables of an env       *)
(* source each for itself.                                                  *)
Statements(sources) ==
    FlattenSeq([i \in 1..Len(sources) |->
        IF sources[i].kind = "env"
        THEN [k \in 1..Len(sources[i].values) |-> Setting(sources[i].values[k])]
        ELSE <<sources[i].values>>])

(* Every value of a provider's configuration is the one that the last       *)
(* source to speak of that setting, of its section or of a part of it gave  *)
(* it, defaults first and the environment's variables in their order; a     *)
(* setting nobody gave has the default of the schema.  One name has one     *)
(* provider (ConfigLoader.ts, applySchemaDefaults(), ConfigRegistry).       *)
LaterSourcesWin ==
    /\ \A a \in Attempts :
          LET config == attempts[a].config
              sources == attempts[a].sources
              said == Statements(sources)
              SpokenOf(p) == {i \in 1..Len(said) : \E q \in DOMAIN said[i] : OnOnePath(p, q)}
              IsLastWord(i, p) == SpokenOf(p) # {} /\ i = Max(SpokenOf(p))
          IN  /\ config # Empty
              /\ \A i \in 2..Len(sources) : sources[i].kind # "defaults"
              => /\ \A i \in 1..Len(said) : \A p \in DOMAIN said[i] :
                       IsLastWord(i, p) => p \in DOMAIN config
                 /\ \A p \in DOMAIN config :
                       \/ \E i \in SpokenOf(p) : /\ IsLastWord(i, p)
                                                /\ p \in DOMAIN said[i]
                                                /\ config[p] = said[i][p]
                       \/ /\ config[p] = Schema[p].default
                          /\ \A i \in SpokenOf(p) : IsLastWord(i, p) => said[i][p] = Undefined
    /\ \A a, b \in Attempts :
          /\ attempts[a].pc = "registered" /\ attempts[b].pc = "registered"
          /\ attempts[a].name = attempts[b].name
          => a = b

(* Defaults that come after other sources give a section only if none of    *)
(* them said anything of it, leave alone what they said of the sections     *)
(* they name, and drop the others (applyDefaults()).                        *)
LateDefaultsOnlyFill ==
    \A a \in Attempts :
        LET config == attempts[a].config
            sources == attempts[a].sources
            late == Last(sources).values
            sections == {Head(p) : p \in DOMAIN late}
            said == Statements(Front(sources))
            SpokenOf(p) == {i \in 1..Len(said) : \E q \in DOMAIN said[i] : OnOnePath(p, q)}
            Untold(section) ==
                \A i \in 1..Len(said) : \A q \in DOMAIN said[i] : Head(q) # section
        IN  config # Empty /\ Len(sources) > 1 /\ Last(sources).kind = "defaults" =>
               /\ \A p \in DOMAIN config :
                     Head(p) \in sections \/ config[p] = Schema[p].default
               /\ \A p \in DOMAIN late : Untold(Head(p)) => config[p] = late[p]
               /\ \A i \in 1..Len(said) : \A p \in DOMAIN said[i] :
                     Head(p) \in sections /\ said[i][p] # Undefined /\ i = Max(SpokenOf(p))
                        => p \in DOMAIN config /\ config[p] = said[i][p]
=============================================================================
