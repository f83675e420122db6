------------------------- MODULE ProviderRegistries -------------------------
(***************************************************************************)
(* The two registries of providers with a default one: DefaultLLMRegistry  *)
(* (packages/llm/src/registry) and MemoryProviderRegistry (packages/       *)
(* memory).  Both keep providers in the order of registration.  They       *)
(* differ in register(): the first replaces a provider of the same id and  *)
(* sets the default when there is none, the second refuses it and sets the *)
(* default when the provider is the only one.                              *)
(***************************************************************************)
EXTENDS Naturals, Sequences, SequencesExt

CONSTANT ProviderIds    \* "none" is not one

Kinds == {"llm", "memory"}
None == "none"

VARIABLES providers, default

registryVars == <<providers, default>>

RegistriesInit ==
    /\ providers = [k \in Kinds |-> <<>>]
    /\ default = [k \in Kinds |-> None]

Has(k, id) == id \in ToSet(providers[k])

RegisterLLM(id) ==
    /\ providers' = IF Has("llm", id) THEN providers
                    ELSE [providers EXCEPT !["llm"] = Append(@, id)]
    /\ default' = IF default["llm"] = None THEN [default EXCEPT !["llm"] = id] ELSE default

RegisterMemory(id) ==
    /\ ~Has("memory", id)
    /\ providers' = [providers EXCEPT !["memory"] = Append(@, id)]
    /\ default' = IF Len(providers["memory"]) = 0 THEN [default EXCEPT !["memory"] = id]
                  ELSE default

(* mutant: the default outlives its provider                                *)
UnregisterOnly(k, id) ==
    /\ \E i \in 1..Len(providers[k]) :
          /\ providers[k][i] = id
          /\ providers' = [providers EXCEPT ![k] = RemoveAt(@, i)]
    /\ UNCHANGED default

(* The default passes to the oldest provider left.                          *)
Unregister(k, id) ==
    \E i \in 1..Len(providers[k]) :
        /\ providers[k][i] = id
        /\ LET left == RemoveAt(providers[k], i) IN
           /\ providers' = [providers EXCEPT ![k] = left]
           /\ default' = IF default[k] # id THEN default
                         ELSE [default EXCEPT ![k] = IF left = <<>> THEN None ELSE left[1]]

SetDefault(k, id) ==
    /\ Has(k, id)
    /\ default' = [default EXCEPT ![k] = id]
    /\ UNCHANGED providers

(* MemoryProviderRegistry.clear(), resetGlobalRegistry()                    *)
ClearProviders(k) ==
    /\ providers[k] # <<>>
    /\ providers' = [providers EXCEPT ![k] = <<>>]
    /\ default' = [default EXCEPT ![k] = None]

RegistriesNext ==
    \E id \in ProviderIds :
        \/ RegisterLLM(id) \/ RegisterMemory(id)
        \/ \E k \in Kinds : Unregister(k, id) \/ SetDefault(k, id) \/ ClearProviders(k)

RegistriesSpec == RegistriesInit /\ [][RegistriesNext]_registryVars

-----------------------------------------------------------------------------

(* A registry of providers s with the default d.                            *)
WellKept(s, d) ==
    /\ d = None <=> s = <<>>
    /\ d # None => \E i \in 1..Len(s) : s[i] = d
    /\ \A i, j \in 1..Len(s) : i # j => s[i] # s[j]

(* After any history of calls there is a default exactly if there is a      *)
(* provider, and it is a registered one, which defaultProvider() can        *)
(* return: removing the default makes another the default, where llm.md     *)
(* says there is none then; and no provider is registered twice.            *)
DefaultIsRegistered == \A k \in Kinds : WellKept(providers[k], default[k])
=============================================================================
