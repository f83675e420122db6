------------------------- MODULE HermesKernelProofs -------------------------
(***************************************************************************)
(* Proofs about the kernel, for every set of module specs, every number of *)
(* callers of stop(), and every set of transitions its owner and the       *)
(* handlers may ask for, STOPPED excepted (OnlyDrainsStop).                *)
(***************************************************************************)
EXTENDS HermesKernel, SequenceTheorems, FiniteSetTheorems, TLAPS

-----------------------------------------------------------------------------
(* The lifecycle.                                                           *)

(* A lifecycle whose trail is a walk along the legal edges to its phase.    *)
GoodLife(l) ==
    /\ l.phase \in Phases
    /\ l.trail \in Seq([from : Phases, to : Phases])
    /\ \A i \in 1..Len(l.trail) :
          /\ l.trail[i].to \in LegalTransitions[l.trail[i].from]
          /\ l.trail[i].from = IF i = 1 THEN "INITIALIZING" ELSE l.trail[i - 1].to
    /\ l.phase = IF l.trail = <<>> THEN "INITIALIZING" ELSE l.trail[Len(l.trail)].to

(* The table, spelled out for the provers.                                  *)
LEMMA Table ==
    /\ LegalTransitions["INITIALIZING"] = {"STARTING", "FAILED"}
    /\ LegalTransitions["STARTING"] = {"RUNNING", "FAILED"}
    /\ LegalTransitions["RUNNING"] = {"STOPPING", "FAILED"}
    /\ LegalTransitions["STOPPING"] = {"STOPPED", "FAILED"}
    /\ LegalTransitions["STOPPED"] = {}
    /\ LegalTransitions["FAILED"] = {}
BY DEF LegalTransitions, Phases

LEMMA AppliedIsGood ==
    ASSUME NEW l, NEW to, GoodLife(l), Legal(l, to)
    PROVE  GoodLife(Applied(l, to)) /\ Applied(l, to).phase = to
<1> DEFINE edge == [from |-> l.phase, to |-> to]
           longer == Append(l.trail, edge)
<1>1. l.phase \in Phases /\ to \in Phases
  BY Table DEF GoodLife, Legal, Phases
<1>2. edge \in [from : Phases, to : Phases]
  BY <1>1
<1>3. /\ longer \in Seq([from : Phases, to : Phases])
      /\ Len(longer) = Len(l.trail) + 1
      /\ \A i \in 1..Len(l.trail) : longer[i] = l.trail[i]
      /\ longer[Len(l.trail) + 1] = edge
      /\ Len(l.trail) \in Nat
      /\ longer # <<>>
  BY <1>2 DEF GoodLife
<1>4. ASSUME NEW i \in 1..Len(longer)
      PROVE  /\ longer[i].to \in LegalTransitions[longer[i].from]
             /\ longer[i].from = IF i = 1 THEN "INITIALIZING" ELSE longer[i - 1].to
  <2>1. CASE i \in 1..Len(l.trail)
    <3>1. i = 1 \/ i - 1 \in 1..Len(l.trail)
      BY <2>1, <1>3
    <3> QED BY <2>1, <3>1, <1>3 DEF GoodLife
  <2>2. CASE i = Len(l.trail) + 1
    <3>1. longer[i] = edge /\ edge.to = to /\ edge.from = l.phase
      BY <2>2, <1>3
    <3>2. to \in LegalTransitions[l.phase]
      BY DEF Legal
    <3>3. CASE l.trail = <<>>
      BY <2>2, <3>1, <3>2, <3>3 DEF GoodLife
    <3>4. CASE l.trail # <<>>
      <4>1. Len(l.trail) # 0 /\ i # 1 /\ i - 1 = Len(l.trail)
        BY <3>4, <2>2, <1>3, EmptySeq DEF GoodLife
      <4>2. longer[i - 1] = l.trail[Len(l.trail)]
        BY <4>1, <1>3
      <4> QED BY <3>1, <3>2, <3>4, <4>1, <4>2 DEF GoodLife
    <3> QED BY <3>3, <3>4
  <2> QED BY <2>1, <2>2, <1>3
<1>5. Applied(l, to).phase = to /\ Applied(l, to).trail = longer
  BY DEF Applied
<1> QED BY <1>1, <1>3, <1>4, <1>5 DEF GoodLife

(* transition(): the phase asked for, or one step beyond it.                *)
LEMMA MovedIsGood ==
    ASSUME NEW l, NEW to, NEW reaction, GoodLife(l), Legal(l, to)
    PROVE  /\ GoodLife(Moved(l, to, reaction))
           /\ \/ Moved(l, to, reaction).phase = to
              \/ /\ Moved(l, to, reaction).phase = reaction
                 /\ reaction \in LegalTransitions[to]
<1>1. GoodLife(Applied(l, to)) /\ Applied(l, to).phase = to
  BY AppliedIsGood
<1>2. CASE Legal(Applied(l, to), reaction)
  <2>1. /\ GoodLife(Applied(Applied(l, to), reaction))
        /\ Applied(Applied(l, to), reaction).phase = reaction
    BY <1>1, <1>2, AppliedIsGood
  <2> QED BY <1>1, <1>2, <2>1 DEF Moved, Legal
<1>3. CASE ~Legal(Applied(l, to), reaction)
  BY <1>1, <1>3 DEF Moved
<1> QED BY <1>2, <1>3

(* A failed transition leaves a terminal phase, and a terminal phase alone. *)
LEMMA FailedIsGood ==
    ASSUME NEW l, NEW reaction, GoodLife(l)
    PROVE  /\ GoodLife(Failed(l, reaction))
           /\ Failed(l, reaction).phase \in TerminalPhases
           /\ l.phase \in TerminalPhases => Failed(l, reaction).phase = l.phase
           /\ l.phase \notin TerminalPhases => Failed(l, reaction).phase = "FAILED"
<1>1. l.phase \in Phases
  BY DEF GoodLife
<1>2. Legal(l, "FAILED") <=> l.phase \notin TerminalPhases
  BY <1>1, Table DEF Legal, TerminalPhases, Phases
<1>3. CASE Legal(l, "FAILED")
  BY <1>2, <1>3, MovedIsGood, Table DEF Failed, TerminalPhases
<1>4. CASE ~Legal(l, "FAILED")
  BY <1>2, <1>4 DEF Failed
<1> QED BY <1>3, <1>4

-----------------------------------------------------------------------------
(* The registry.                                                            *)

(* A sequence of records that could be a registry: what RegistryClosed says *)
(* of modules, and of what a drain still has to do.                         *)
Registry(s) ==
    /\ s \in Seq(Records)
    /\ \A i, j \in 1..Len(s) : s[i].name = s[j].name => i = j
    /\ \A i \in 1..Len(s) :
          \/ s[i].health = "degraded"
          \/ s[i].deps \subseteq {s[j].name : j \in 1..(i - 1)}

LEMMA RegistryIsClosed == Registry(modules) => RegistryClosed
BY DEF Registry, RegistryClosed

(* Registering keeps a registry one.                                        *)
LEMMA AddKeepsRegistry ==
    ASSUME Registry(modules), NEW spec \in Specs, Registrable(spec), AddModule(spec)
    PROVE  Registry(modules')
<1> DEFINE new == [name |-> spec.name, deps |-> spec.deps, health |-> "unknown"]
           n == Len(modules)
<1>1. new \in Records /\ modules \in Seq(Records)
  BY DEF Records, Registry
<1>2. /\ modules' \in Seq(Records)
      /\ n \in Nat /\ Len(modules') = n + 1
      /\ \A i \in 1..n : modules'[i] = modules[i]
      /\ modules'[n + 1] = new
  BY <1>1 DEF AddModule
<1>3. /\ \A i \in 1..n : modules[i].name # spec.name
      /\ spec.deps \subseteq {modules[i].name : i \in 1..n}
  BY DEF Registrable, Registered
<1> HIDE DEF n
<1>4. ASSUME NEW i \in 1..Len(modules'), NEW j \in 1..Len(modules'),
             modules'[i].name = modules'[j].name
      PROVE  i = j
  <2>1. (i \in 1..n \/ i = n + 1) /\ (j \in 1..n \/ j = n + 1)
    BY <1>2
  <2>2. CASE i \in 1..n /\ j \in 1..n
    BY <2>2, <1>2, <1>4 DEF Registry, n
  <2>3. CASE i = n + 1 /\ j \in 1..n
    BY <2>3, <1>2, <1>3, <1>4
  <2>4. CASE i \in 1..n /\ j = n + 1
    BY <2>4, <1>2, <1>3, <1>4
  <2> QED BY <2>1, <2>2, <2>3, <2>4
<1>5. ASSUME NEW i \in 1..Len(modules')
      PROVE  \/ modules'[i].health = "degraded"
             \/ modules'[i].deps \subseteq {modules'[j].name : j \in 1..(i - 1)}
  <2>1. CASE i \in 1..n
    <3>1. \A j \in 1..(i - 1) : modules'[j] = modules[j]
      BY <2>1, <1>2
    <3>2. modules'[i] = modules[i] /\ {modules'[j].name : j \in 1..(i - 1)}
                                       = {modules[j].name : j \in 1..(i - 1)}
      BY <2>1, <3>1, <1>2
    <3> QED BY <2>1, <3>2 DEF Registry, n
  <2>2. CASE i = n + 1
    <3>1. {modules'[j].name : j \in 1..(i - 1)} = {modules[j].name : j \in 1..n}
      BY <2>2, <1>2
    <3> QED BY <2>2, <3>1, <1>2, <1>3
  <2> QED BY <2>1, <2>2, <1>2
<1> QED BY <1>2, <1>4, <1>5 DEF Registry

(* Removing a module keeps it one: its dependents are marked.               *)
LEMMA RemoveKeepsRegistry ==
    ASSUME Registry(modules), NEW name \in Registered, RemoveModule(name)
    PROVE  Registry(modules')
<1> DEFINE k == IndexOf(name)
           n == Len(modules)
           old(i) == IF i < k THEN i ELSE i + 1
<1>1. k \in 1..n /\ modules[k].name = name /\ n \in Nat
  BY DEF IndexOf, Registered, Registry
<1>2. \A i \in 1..(n - 1) : old(i) \in 1..n /\ old(i) # k
  BY <1>1
<1>3. \A i \in 1..(n - 1) : Rest(name, i) = modules[old(i)] /\ Rest(name, i) \in Records
  BY <1>2 DEF Rest, Registry
<1>4. ASSUME NEW i \in 1..(n - 1)
      PROVE  /\ modules'[i] \in Records
             /\ modules'[i].name = modules[old(i)].name
             /\ modules'[i].deps = modules[old(i)].deps
             /\ name \in modules[old(i)].deps => modules'[i].health = "degraded"
             /\ modules[old(i)].health = "degraded" => modules'[i].health = "degraded"
  <2>1. modules'[i] = IF name \in Rest(name, i).deps
                      THEN [Rest(name, i) EXCEPT !.health = "degraded"]
                      ELSE Rest(name, i)
    BY DEF RemoveModule
  <2>2. Rest(name, i) \in Records /\ Rest(name, i) = modules[old(i)]
    BY <1>3
  <2> HIDE DEF old
  <2> QED BY <2>1, <2>2 DEF Records
<1>5. modules' \in Seq(Records) /\ Len(modules') = n - 1
  <2>1. n - 1 \in Nat /\ modules' = [i \in 1..(n - 1) |-> modules'[i]]
    BY <1>1 DEF RemoveModule
  <2> QED BY <2>1, <1>4
<1>6. ASSUME NEW i \in 1..(n - 1), NEW j \in 1..(n - 1), modules'[i].name = modules'[j].name
      PROVE  i = j
  <2>1. old(i) = old(j)
    BY <1>2, <1>4, <1>6 DEF Registry
  <2> QED BY <2>1, <1>1
<1>7. ASSUME NEW i \in 1..(n - 1), modules'[i].health # "degraded"
      PROVE  modules'[i].deps \subseteq {modules'[j].name : j \in 1..(i - 1)}
  <2>1. /\ name \notin modules[old(i)].deps
        /\ modules[old(i)].health # "degraded"
        /\ modules'[i].deps = modules[old(i)].deps
    BY <1>4, <1>7
  <2>2. modules[old(i)].deps \subseteq {modules[j].name : j \in 1..(old(i) - 1)}
    BY <2>1, <1>2 DEF Registry
  <2>3. SUFFICES ASSUME NEW d \in modules[old(i)].deps
                 PROVE  \E j \in 1..(i - 1) : modules'[j].name = d
    BY <2>1
  <2>4. PICK m \in 1..(old(i) - 1) : modules[m].name = d
    BY <2>2
  <2>5. m # k
    BY <2>1, <2>4, <1>1
  <2>6. \E j \in 1..(i - 1) : old(j) = m /\ j \in 1..(n - 1)
    <3>1. CASE m < k
      <4>1. m \in 1..(i - 1) /\ old(m) = m /\ m \in 1..(n - 1)
        BY <3>1, <1>1
      <4> QED BY <4>1
    <3>2. CASE m > k
      <4>1. m - 1 \in 1..(i - 1) /\ old(m - 1) = m /\ m - 1 \in 1..(n - 1)
        BY <3>2, <1>1
      <4> QED BY <4>1
    <3> QED BY <3>1, <3>2, <2>5, <1>1, <1>2
  <2> QED BY <2>6, <2>4, <1>4
<1> QED BY <1>5, <1>6, <1>7 DEF Registry

-----------------------------------------------------------------------------
(* The inductive invariant.                                                 *)

Awaiting(c) == stops[c].pc = "awaiting"

Apart(s, t) == \A i \in 1..Len(s), j \in 1..Len(t) : s[i].name # t[j].name

(* What the drain and the calls of stop() keep true between them.           *)
DrainInv ==
    /\ \A c, d \in Stoppers : Awaiting(c) /\ Awaiting(d) => c = d
    /\ \A c \in Stoppers : Awaiting(c) => phase \in {"STOPPING", "FAILED"}
    /\ \A c \in Stoppers : Returned(c) => phase \in TerminalPhases
    /\ \A c \in Stoppers : stops[c].threw /\ ~Awaiting(c) => phase = "FAILED"
    /\ phase = "STOPPED" => \E c \in Stoppers : stops[c].pc = "ok"
    /\ calls # <<>> => phase \in {"STOPPING", "STOPPED", "FAILED"}
    /\ \A i, j \in 1..Len(calls) : calls[i].name = calls[j].name => i = j
    /\ \A c \in Stoppers : Awaiting(c) => Registry(stops[c].todo) /\ Apart(stops[c].todo, calls)
    /\ DependentsDrainFirst

IInv ==
    /\ TypeOK
    /\ GoodLife(life)
    /\ Registry(modules)
    /\ DrainInv

LEMMA InitIInv == Init => IInv
<1> SUFFICES ASSUME Init PROVE IInv
  OBVIOUS
<1>1. life.phase = "INITIALIZING" /\ life.trail = <<>> /\ modules = <<>> /\ calls = <<>>
  BY DEF Init
<1>2. GoodLife(life)
  BY <1>1 DEF GoodLife, Phases
<1>3. Registry(modules)
  BY <1>1 DEF Registry
<1>4. TypeOK
  BY <1>1, <1>2 DEF TypeOK, GoodLife, phase, Init
<1>5. \A c \in Stoppers : stops[c].pc = "idle" /\ stops[c].threw = FALSE
  BY DEF Init
<1>6. DrainInv
  BY <1>1, <1>5 DEF DrainInv, DependentsDrainFirst, Awaiting, Returned, phase
<1> QED BY <1>2, <1>3, <1>4, <1>6 DEF IInv

(* The lifecycle moves with no drain's doing: it neither stops nor leaves   *)
(* the phases at its end.                                                   *)
LEMMA LifeMoves ==
    ASSUME IInv, GoodLife(life'), Registry(modules'), UNCHANGED <<stops, calls>>,
           phase' = "STOPPED" => phase = "STOPPED",
           phase = "STOPPING" => phase' \in {"STOPPING", "FAILED"},
           phase \in TerminalPhases => phase' = phase
    PROVE  IInv'
<1>1. TypeOK'
  BY DEF IInv, TypeOK, GoodLife, Registry, phase
<1>2. DrainInv'
  BY DEF IInv, DrainInv, DependentsDrainFirst, Awaiting, Returned, TerminalPhases, Apart, Registry
<1> QED BY <1>1, <1>2 DEF IInv

(* A transition its owner or a handler may ask for is one of those.         *)
LEMMA MovedSafely ==
    ASSUME IInv, NEW to, NEW reaction \in Reactions, to # "STOPPED", Legal(life, to)
    PROVE  /\ GoodLife(Moved(life, to, reaction))
           /\ Moved(life, to, reaction).phase # "STOPPED"
           /\ phase \notin TerminalPhases
           /\ phase = "STOPPING" => Moved(life, to, reaction).phase = "FAILED"
           /\ to = "STOPPING" => Moved(life, to, reaction).phase \in {"STOPPING", "FAILED"}
           /\ to = "STOPPING" => phase = "RUNNING"
<1>1. GoodLife(life) /\ phase \in Phases /\ reaction # "STOPPED"
  BY OnlyDrainsStop DEF IInv, GoodLife, phase
<1>2. to \in LegalTransitions[phase]
  BY DEF Legal, phase
<1>3. /\ GoodLife(Moved(life, to, reaction))
      /\ \/ Moved(life, to, reaction).phase = to
         \/ /\ Moved(life, to, reaction).phase = reaction
            /\ reaction \in LegalTransitions[to]
  BY <1>1, MovedIsGood
<1>4. phase \notin TerminalPhases /\ (phase = "STOPPING" => to = "FAILED")
      /\ (to = "STOPPING" => phase = "RUNNING")
  BY <1>1, <1>2, Table DEF Phases, TerminalPhases
<1>5. to = "FAILED" => Moved(life, to, reaction).phase = "FAILED"
  BY <1>3, Table
<1>6. to = "STOPPING" => Moved(life, to, reaction).phase \in {"STOPPING", "FAILED"}
  BY <1>1, <1>3, Table
<1> QED BY <1>1, <1>3, <1>4, <1>5, <1>6

-----------------------------------------------------------------------------
(* One step of a drain.                                                     *)

(* What is known whenever drainModules() goes on, at its start and after    *)
(* every await: only c drains, and what it has to do is a registry no       *)
(* module of which was told yet.                                            *)
DrainReady(c, l, todo, threw) ==
    /\ GoodLife(l)
    /\ l.phase \in {"STOPPING", "FAILED"}
    /\ phase \in TerminalPhases => l.phase = phase
    /\ threw \in BOOLEAN
    /\ Registry(todo) /\ Apart(todo, calls)
    /\ \A d \in Stoppers \ {c} : ~Awaiting(d)

(* It tells the last module of todo.                                        *)
LEMMA TellKeepsOrder ==
    ASSUME IInv, NEW todo, Registry(todo), Apart(todo, calls), todo # <<>>,
           calls' = Append(calls, todo[Len(todo)])
    PROVE  /\ calls' \in Seq(Records)
           /\ \A i, j \in 1..Len(calls') : calls'[i].name = calls'[j].name => i = j
           /\ Registry(SubSeq(todo, 1, Len(todo) - 1))
           /\ \A i \in 1..Len(SubSeq(todo, 1, Len(todo) - 1)), j \in 1..Len(calls') :
                 SubSeq(todo, 1, Len(todo) - 1)[i].name # calls'[j].name
           /\ DependentsDrainFirst'
<1> DEFINE m == Len(todo)
           n == Len(calls)
           rest == SubSeq(todo, 1, m - 1)
<1>1. todo \in Seq(Records) /\ m \in Nat /\ m # 0 /\ m \in 1..m /\ todo[m] \in Records
  BY EmptySeq DEF Registry
<1>2. calls \in Seq(Records) /\ n \in Nat
  BY DEF IInv, TypeOK
<1>3. /\ calls' \in Seq(Records) /\ Len(calls') = n + 1
      /\ \A i \in 1..n : calls'[i] = calls[i]
      /\ calls'[n + 1] = todo[m]
  BY <1>1, <1>2
<1>4. /\ rest \in Seq(Records) /\ Len(rest) = m - 1
      /\ \A i \in 1..(m - 1) : rest[i] = todo[i]
  <2>1. /\ m - 1 \in Nat /\ m - 1 \in 0..Len(todo)
        /\ \A i \in 1..(m - 1) : todo[i] \in Records
    BY <1>1
  <2>2. rest = Restrict(todo, 1..(m - 1))
    BY <1>1, <2>1, SubSeqRestrict
  <2>3. rest = [i \in 1..(m - 1) |-> todo[i]]
    BY <2>2 DEF Restrict
  <2> HIDE DEF rest, m
  <2> QED BY <2>1, <2>3
<1> HIDE DEF rest, m, n
<1>5. \A j \in 1..n : calls[j].name # todo[m].name
  BY <1>1 DEF Apart, m, n
<1>6. \A i, j \in 1..(n + 1) : calls'[i].name = calls'[j].name => i = j
  <2> SUFFICES ASSUME NEW i \in 1..(n + 1), NEW j \in 1..(n + 1),
                      calls'[i].name = calls'[j].name
               PROVE  i = j
    OBVIOUS
  <2>1. (i \in 1..n \/ i = n + 1) /\ (j \in 1..n \/ j = n + 1)
    BY <1>2
  <2>2. CASE i \in 1..n /\ j \in 1..n
    BY <2>2, <1>3 DEF IInv, DrainInv, n
  <2> QED BY <2>1, <2>2, <1>3, <1>5
<1>7. Registry(rest)
  <2>1. \A i \in 1..(m - 1) : i \in 1..m /\ \A j \in 1..(i - 1) : rest[j] = todo[j]
    BY <1>1, <1>4
  <2>2. \A i, j \in 1..(m - 1) : rest[i].name = rest[j].name => i = j
    BY <2>1, <1>4 DEF Registry, m
  <2>3. ASSUME NEW i \in 1..(m - 1)
        PROVE  \/ rest[i].health = "degraded"
               \/ rest[i].deps \subseteq {rest[j].name : j \in 1..(i - 1)}
    <3>1. {rest[j].name : j \in 1..(i - 1)} = {todo[j].name : j \in 1..(i - 1)}
      BY <2>1
    <3> QED BY <3>1, <2>1, <1>4 DEF Registry, m
  <2> QED BY <1>4, <2>2, <2>3 DEF Registry
<1>8. \A i \in 1..(m - 1), j \in 1..(n + 1) : rest[i].name # calls'[j].name
  <2> SUFFICES ASSUME NEW i \in 1..(m - 1), NEW j \in 1..(n + 1)
               PROVE  rest[i].name # calls'[j].name
    OBVIOUS
  <2>1. i \in 1..m /\ i # m /\ rest[i] = todo[i] /\ (j \in 1..n \/ j = n + 1)
    BY <1>1, <1>2, <1>4
  <2>2. CASE j \in 1..n
    BY <2>1, <2>2, <1>3 DEF Apart, m, n
  <2>3. CASE j = n + 1
    BY <2>1, <2>3, <1>1, <1>3 DEF Registry, m
  <2> QED BY <2>1, <2>2, <2>3
<1>9. DependentsDrainFirst'
  <2> SUFFICES ASSUME NEW i \in 1..(n + 1), NEW j \in 1..(n + 1),
                      i < j, calls'[i].name \in calls'[j].deps
               PROVE  calls'[j].health = "degraded"
    BY <1>3 DEF DependentsDrainFirst
  <2>1. i \in 1..n /\ calls'[i] = calls[i] /\ (j \in 1..n \/ j = n + 1)
    BY <1>2, <1>3
  <2>2. CASE j \in 1..n
    BY <2>1, <2>2, <1>3 DEF IInv, DrainInv, DependentsDrainFirst, n
  <2>3. CASE j = n + 1
    <3>1. calls[i].name \in todo[m].deps
      BY <2>1, <2>3, <1>3
    <3>2. calls[i].name \notin {todo[h].name : h \in 1..(m - 1)}
      <4>1. \A h \in 1..Len(todo) : todo[h].name # calls[i].name
        BY <2>1 DEF Apart, n
      <4>2. \A h \in 1..(m - 1) : h \in 1..Len(todo)
        BY <1>1 DEF m
      <4> QED BY <4>1, <4>2
    <3> QED BY <2>3, <3>1, <3>2, <1>1, <1>3 DEF Registry, m
  <2> QED BY <2>1, <2>2, <2>3
<1>10. /\ calls' \in Seq(Records)
       /\ \A i, j \in 1..Len(calls') : calls'[i].name = calls'[j].name => i = j
  BY <1>3, <1>6
<1>11. \A i \in 1..Len(rest), j \in 1..Len(calls') : rest[i].name # calls'[j].name
  BY <1>3, <1>4, <1>8
<1> QED BY <1>7, <1>9, <1>10, <1>11 DEF rest, m

(* However the drain goes on, the invariant holds after it.                 *)
LEMMA GoOnKeepsIInv ==
    ASSUME IInv, NEW c \in Stoppers, NEW l, NEW todo, NEW threw,
           DrainReady(c, l, todo, threw), GoOn(c, l, todo, threw), UNCHANGED modules
    PROVE  IInv'
<1> DEFINE told == SubSeq(todo, 1, Len(todo) - 1)
<1>1. /\ stops \in [Stoppers -> [pc : {"idle", "awaiting", "ok", "err"},
                                 todo : Seq(Records), threw : BOOLEAN]]
      /\ calls \in Seq(Records) /\ modules \in Seq(Records) /\ Registry(modules')
  BY DEF IInv, TypeOK
<1>2. l.phase \in Phases /\ GoodLife(l) /\ threw \in BOOLEAN
  BY DEF DrainReady, Phases
<1>3. CASE todo # <<>>
  <2>1. /\ life' = l
        /\ calls' = Append(calls, todo[Len(todo)])
        /\ stops' = [stops EXCEPT ![c] = [pc |-> "awaiting", threw |-> threw, todo |-> told]]
    BY <1>3 DEF GoOn
  <2>2. /\ calls' \in Seq(Records) /\ calls' # <<>>
        /\ \A i, j \in 1..Len(calls') : calls'[i].name = calls'[j].name => i = j
        /\ Registry(told)
        /\ \A i \in 1..Len(told), j \in 1..Len(calls') : told[i].name # calls'[j].name
        /\ DependentsDrainFirst'
    <3>1. Registry(todo) /\ Apart(todo, calls)
      BY DEF DrainReady
    <3>2. calls' = Append(calls, todo[Len(todo)])
      BY <2>1
    <3>3. /\ calls' \in Seq(Records)
          /\ \A i, j \in 1..Len(calls') : calls'[i].name = calls'[j].name => i = j
          /\ Registry(told)
          /\ \A i \in 1..Len(told), j \in 1..Len(calls') : told[i].name # calls'[j].name
          /\ DependentsDrainFirst'
      BY <1>3, <3>1, <3>2, TellKeepsOrder
    <3>4. calls' # <<>>
      BY <1>1, <3>2
    <3> QED BY <3>3, <3>4
  <2> HIDE DEF told
  <2>3. /\ stops'[c] = [pc |-> "awaiting", threw |-> threw, todo |-> told]
        /\ \A d \in Stoppers \ {c} : stops'[d] = stops[d] /\ stops[d].pc # "awaiting"
    BY <1>1, <2>1 DEF DrainReady, Awaiting
  <2>4. TypeOK'
    BY <1>1, <1>2, <2>1, <2>2 DEF TypeOK, GoodLife, Registry, phase
  <2>5. phase' = l.phase /\ phase' \in {"STOPPING", "FAILED"}
        /\ (phase \in TerminalPhases => phase' = phase)
    BY <2>1 DEF phase, DrainReady
  <2>6. DrainInv'
    <3>1. \A d, e \in Stoppers : Awaiting(d)' /\ Awaiting(e)' => d = e
      BY <2>3 DEF Awaiting
    <3>2. \A d \in Stoppers : Awaiting(d)' => phase' \in {"STOPPING", "FAILED"}
      BY <2>5
    <3>3. \A d \in Stoppers : Returned(d)' => phase' \in TerminalPhases
      BY <2>3, <2>5 DEF Returned, IInv, DrainInv
    <3>4. \A d \in Stoppers : stops'[d].threw /\ ~Awaiting(d)' => phase' = "FAILED"
      BY <2>3, <2>5 DEF Awaiting, IInv, DrainInv, TerminalPhases
    <3>5. \A d \in Stoppers : Awaiting(d)' => Registry(stops'[d].todo) /\ Apart(stops[d].todo, calls)'
      BY <2>2, <2>3 DEF Awaiting, Apart
    <3> QED BY <2>2, <2>5, <3>1, <3>2, <3>3, <3>4, <3>5 DEF DrainInv, Registry
  <2> QED BY <1>1, <1>2, <2>1, <2>4, <2>6 DEF IInv, GoodLife
<1>4. CASE todo = <<>>
  <2>1. PICK pc \in {"ok", "err"} :
           /\ stops' = [stops EXCEPT ![c] = [pc |-> pc, threw |-> threw, todo |-> <<>>]]
           /\ \/ /\ pc = "ok" /\ Legal(l, DrainTarget(threw))
                 /\ \E reaction \in Reactions : life' = Moved(l, DrainTarget(threw), reaction)
              \/ /\ pc = "err" /\ ~Legal(l, DrainTarget(threw))
                 /\ \E reaction \in Reactions : life' = Failed(l, reaction)
           /\ UNCHANGED calls
    BY <1>4 DEF GoOn
  <2>2. /\ GoodLife(life')
        /\ phase' \in TerminalPhases
        /\ phase' = "STOPPED" => ~threw /\ l.phase = "STOPPING" /\ pc = "ok"
        /\ l.phase = "FAILED" => phase' = "FAILED"
    <3>1. CASE Legal(l, DrainTarget(threw))
      <4>1. PICK reaction \in Reactions : life' = Moved(l, DrainTarget(threw), reaction)
        BY <2>1, <3>1
      <4>2. l.phase = "STOPPING" /\ pc = "ok"
        BY <2>1, <3>1, Table DEF Legal, DrainReady
      <4>3. GoodLife(life') /\ phase' = DrainTarget(threw)
        BY <1>2, <3>1, <4>1, MovedIsGood, Table DEF DrainTarget, phase
      <4> QED BY <4>2, <4>3 DEF DrainTarget, TerminalPhases
    <3>2. CASE ~Legal(l, DrainTarget(threw))
      <4>1. PICK reaction \in Reactions : life' = Failed(l, reaction)
        BY <2>1, <3>2
      <4>2. l.phase = "FAILED"
        BY <3>2, Table DEF Legal, DrainReady, DrainTarget
      <4>3. GoodLife(life') /\ phase' = "FAILED"
        BY <1>2, <4>1, <4>2, FailedIsGood DEF phase, TerminalPhases
      <4> QED BY <4>2, <4>3 DEF TerminalPhases
    <3> QED BY <3>1, <3>2
  <2>3. /\ stops'[c] = [pc |-> pc, threw |-> threw, todo |-> <<>>]
        /\ \A d \in Stoppers \ {c} : stops'[d] = stops[d] /\ stops[d].pc # "awaiting"
    BY <1>1, <2>1 DEF DrainReady, Awaiting
  <2>4. TypeOK'
    BY <1>1, <1>2, <2>1, <2>2 DEF TypeOK, GoodLife, phase
  <2>5. /\ phase \in TerminalPhases => l.phase = phase
        /\ l.phase \in {"STOPPING", "FAILED"}
    BY DEF DrainReady
  <2>6. DrainInv'
    <3>1. \A d \in Stoppers : ~Awaiting(d)'
      BY <2>3 DEF Awaiting
    <3>2. \A d \in Stoppers : stops'[d].threw /\ ~Awaiting(d)' => phase' = "FAILED"
      <4>1. threw => phase' = "FAILED"
        BY <2>2 DEF TerminalPhases
      <4>2. \A d \in Stoppers \ {c} : stops[d].threw => phase = "FAILED"
        BY <2>3 DEF Awaiting, IInv, DrainInv
      <4>3. phase = "FAILED" => phase' = "FAILED"
        BY <2>2, <2>5 DEF TerminalPhases
      <4> QED BY <2>3, <4>1, <4>2, <4>3
    <3>3. phase' = "STOPPED" => \E d \in Stoppers : stops'[d].pc = "ok"
      BY <2>2, <2>3
    <3> QED BY <2>1, <2>2, <3>1, <3>2, <3>3
            DEF DrainInv, IInv, DependentsDrainFirst, TerminalPhases
  <2> QED BY <1>1, <2>2, <2>4, <2>6 DEF IInv
<1> QED BY <1>3, <1>4

(* A call of stop() that does not drain returns from a kernel at its end.   *)
LEMMA ReturnKeepsDrainInv ==
    ASSUME IInv, NEW c \in Stoppers, stops[c].pc = "idle", stops'[c].pc \in {"ok", "err"},
           stops'[c].threw = stops[c].threw,
           \A d \in Stoppers \ {c} : stops'[d] = stops[d],
           UNCHANGED calls, phase' \in TerminalPhases,
           phase' = "STOPPED" => phase = "STOPPED",
           phase = "FAILED" => phase' = "FAILED"
    PROVE  DrainInv'
<1>1. DrainInv /\ calls \in Seq(Records)
  BY DEF IInv, TypeOK
<1>2. \A d \in Stoppers : Awaiting(d)' <=> (d # c /\ Awaiting(d))
  BY DEF Awaiting
<1>3. ASSUME NEW d \in Stoppers, Awaiting(d)'
      PROVE  /\ phase' = "FAILED"
             /\ Registry(stops'[d].todo) /\ Apart(stops[d].todo, calls)'
  <2>1. d # c /\ Awaiting(d) /\ stops'[d] = stops[d]
    BY <1>2, <1>3
  <2>2. phase \in {"STOPPING", "FAILED"} /\ Registry(stops[d].todo) /\ Apart(stops[d].todo, calls)
    BY <1>1, <2>1 DEF DrainInv
  <2>3. Apart(stops[d].todo, calls)'
    BY <2>1, <2>2 DEF Apart
  <2> QED BY <2>1, <2>2, <2>3 DEF TerminalPhases
<1>4. \A d, e \in Stoppers : Awaiting(d)' /\ Awaiting(e)' => d = e
  BY <1>1, <1>2 DEF DrainInv
<1>5. \A d \in Stoppers : stops'[d].threw /\ ~Awaiting(d)' => phase' = "FAILED"
  BY <1>1, <1>2 DEF DrainInv, Awaiting
<1>6. phase' = "STOPPED" => \E d \in Stoppers : stops'[d].pc = "ok"
  BY <1>1 DEF DrainInv
<1>7. DependentsDrainFirst'
  BY <1>1 DEF DrainInv, DependentsDrainFirst
<1> QED BY <1>1, <1>3, <1>4, <1>5, <1>6, <1>7 DEF DrainInv, TerminalPhases, Registry

-----------------------------------------------------------------------------
(* Every step keeps the invariant.                                          *)

LEMMA StepIInv == IInv /\ [Next]_vars => IInv'
<1> SUFFICES ASSUME IInv, [Next]_vars PROVE IInv'
  OBVIOUS
<1>0. /\ TypeOK /\ GoodLife(life) /\ Registry(modules) /\ DrainInv
      /\ phase \in Phases
      /\ stops \in [Stoppers -> [pc : {"idle", "awaiting", "ok", "err"},
                                 todo : Seq(Records), threw : BOOLEAN]]
  BY DEF IInv, TypeOK
<1>1. CASE Start
  <2>1. PICK reaction \in Reactions : life' = Moved(life, "STARTING", reaction)
    BY <1>1 DEF Start
  <2>2. Legal(life, "STARTING")
    BY <1>1, Table DEF Start, Legal, phase
  <2> QED BY <1>0, <1>1, <2>1, <2>2, MovedSafely, LifeMoves DEF Start, phase
<1>2. ASSUME NEW to \in Owner, OwnerTransition(to)
      PROVE  IInv'
  <2>1. PICK reaction \in Reactions : life' = Moved(life, to, reaction)
    BY <1>2 DEF OwnerTransition
  <2>2. to # "STOPPED" /\ Legal(life, to)
    BY <1>2, OnlyDrainsStop DEF OwnerTransition
  <2> QED BY <1>0, <1>2, <2>1, <2>2, MovedSafely, LifeMoves DEF OwnerTransition, phase
<1>3. ASSUME NEW reaction \in Reactions, life' = Failed(life, reaction)
      PROVE  /\ GoodLife(life')
             /\ phase' \in TerminalPhases
             /\ phase \in TerminalPhases => phase' = phase
             /\ phase \notin TerminalPhases => phase' = "FAILED"
  BY <1>0, <1>3, FailedIsGood DEF phase
<1>4. ASSUME NEW spec \in Specs, RegisterModule(spec)
      PROVE  IInv'
  <2>1. CASE Registrable(spec) /\ AddModule(spec) /\ UNCHANGED life
    <3>1. Registry(modules') /\ UNCHANGED <<stops, calls>>
      BY <1>0, <1>4, <2>1, AddKeepsRegistry DEF RegisterModule
    <3> QED BY <1>0, <2>1, <3>1, LifeMoves DEF GoodLife, phase
  <2>2. CASE UNCHANGED modules /\ \E reaction \in Reactions : life' = Failed(life, reaction)
    <3>1. PICK reaction \in Reactions : life' = Failed(life, reaction)
      BY <2>2
    <3>2. Registry(modules') /\ UNCHANGED <<stops, calls>>
      BY <1>0, <1>4, <2>2 DEF RegisterModule
    <3>3. /\ GoodLife(life')
          /\ phase' = "STOPPED" => phase = "STOPPED"
          /\ phase = "STOPPING" => phase' \in {"STOPPING", "FAILED"}
          /\ phase \in TerminalPhases => phase' = phase
      BY <1>3, <3>1 DEF TerminalPhases
    <3> QED BY <3>2, <3>3, LifeMoves
  <2> QED BY <1>4, <2>1, <2>2 DEF RegisterModule
<1>5. ASSUME NEW spec \in Specs, FacadeRegister(spec)
      PROVE  IInv'
  <2>1. Registry(modules') /\ UNCHANGED <<life, stops, calls>>
    BY <1>0, <1>5, AddKeepsRegistry DEF FacadeRegister
  <2> QED BY <1>0, <2>1, LifeMoves DEF phase
<1>6. ASSUME NEW spec \in Specs, UnregisterModule(spec.name) \/ UnloadPlugin(spec.name)
      PROVE  IInv'
  <2>1. Registry(modules') /\ UNCHANGED <<life, stops, calls>>
    BY <1>0, <1>6, RemoveKeepsRegistry DEF UnregisterModule, UnloadPlugin
  <2> QED BY <1>0, <2>1, LifeMoves DEF phase
<1>7. ASSUME NEW c \in Stoppers, StopAtEnd(c)
      PROVE  IInv'
  <2>1. PICK pc \in {"ok", "err"} : stops' = [stops EXCEPT ![c].pc = pc]
    BY <1>7 DEF StopAtEnd
  <2>2. /\ stops'[c].pc = pc /\ stops'[c].threw = stops[c].threw /\ stops[c].pc = "idle"
        /\ \A d \in Stoppers \ {c} : stops'[d] = stops[d]
        /\ UNCHANGED <<life, modules, calls>> /\ phase \in TerminalPhases
    BY <1>0, <1>7, <2>1 DEF StopAtEnd
  <2>3. TypeOK'
    BY <1>0, <2>1, <2>2 DEF TypeOK, phase
  <2>4. DrainInv'
    BY <2>2, ReturnKeepsDrainInv DEF phase
  <2> QED BY <1>0, <2>2, <2>3, <2>4 DEF IInv
<1>8. ASSUME NEW c \in Stoppers, StopIllegal(c)
      PROVE  IInv'
  <2>1. PICK reaction \in Reactions : life' = Failed(life, reaction)
    BY <1>8 DEF StopIllegal
  <2>2. GoodLife(life') /\ phase' = "FAILED" /\ phase \notin TerminalPhases
    BY <1>3, <1>8, <2>1 DEF StopIllegal
  <2>3. /\ stops'[c].pc = "err" /\ stops[c].pc = "idle"
        /\ stops'[c].threw = stops[c].threw
        /\ \A d \in Stoppers \ {c} : stops'[d] = stops[d]
        /\ stops' \in [Stoppers -> [pc : {"idle", "awaiting", "ok", "err"},
                                    todo : Seq(Records), threw : BOOLEAN]]
        /\ UNCHANGED <<modules, calls>>
    BY <1>0, <1>8 DEF StopIllegal
  <2>4. TypeOK'
    BY <1>0, <2>2, <2>3 DEF TypeOK, GoodLife, phase
  <2>5. DrainInv'
    BY <2>2, <2>3, ReturnKeepsDrainInv DEF TerminalPhases
  <2> QED BY <1>0, <2>2, <2>3, <2>4, <2>5 DEF IInv
<1>9. ASSUME NEW c \in Stoppers, StopDrains(c)
      PROVE  IInv'
  <2>1. PICK reaction \in Reactions : GoOn(c, Moved(life, "STOPPING", reaction), modules, FALSE)
    BY <1>9 DEF StopDrains
  <2>2. /\ GoodLife(Moved(life, "STOPPING", reaction))
        /\ Moved(life, "STOPPING", reaction).phase \in {"STOPPING", "FAILED"}
        /\ phase = "RUNNING"
    BY <1>9, MovedSafely DEF StopDrains
  <2>3. calls = <<>> /\ \A d \in Stoppers : ~Awaiting(d)
    BY <1>0, <2>2 DEF DrainInv
  <2>4. DrainReady(c, Moved(life, "STOPPING", reaction), modules, FALSE)
    BY <1>0, <2>2, <2>3 DEF DrainReady, Apart, TerminalPhases
  <2> QED BY <1>9, <2>1, <2>4, GoOnKeepsIInv DEF StopDrains
<1>10. ASSUME NEW c \in Stoppers, NEW fails \in BOOLEAN, ShutdownSettles(c, fails)
       PROVE  IInv'
  <2>1. Awaiting(c) /\ GoOn(c, life, stops[c].todo, stops[c].threw \/ fails) /\ UNCHANGED modules
    BY <1>10 DEF ShutdownSettles, Awaiting
  <2>2. DrainReady(c, life, stops[c].todo, stops[c].threw \/ fails)
    BY <1>0, <2>1 DEF DrainReady, DrainInv, phase
  <2> QED BY <2>1, <2>2, GoOnKeepsIInv
<1>11. CASE UNCHANGED vars
  BY <1>0, <1>11, LifeMoves DEF vars, phase
<1> QED BY <1>1, <1>2, <1>4, <1>5, <1>6, <1>7, <1>8, <1>9, <1>10, <1>11
        DEF Next, Stop, Settles

LEMMA InvariantHolds == Spec => []IInv
BY InitIInv, StepIInv, PTL DEF Spec

-----------------------------------------------------------------------------
(* The theorems.                                                            *)

(* The kernel's state is always well formed.                                *)
THEOREM TypeCorrect == Spec => []TypeOK
BY InvariantHolds, PTL DEF IInv

(* What the lifecycle's listeners are told is one unbroken walk along the   *)
(* legal edges (HermesLifecycle.transition and its queue of pending ones).  *)
THEOREM TrailHolds == Spec => []TrailIsAWalk
<1>1. IInv => TrailIsAWalk
  BY DEF IInv, GoodLife, TrailIsAWalk, phase
<1> QED BY <1>1, InvariantHolds, PTL

(* The registry's names are unique and its dependencies are met by modules  *)
(* registered earlier, or marked (HermesModuleRegistry).                    *)
THEOREM RegistryStaysClosed == Spec => []RegistryClosed
<1>1. IInv => RegistryClosed
  BY RegistryIsClosed DEF IInv
<1> QED BY <1>1, InvariantHolds, PTL

(* Modules shut down before what they depend on, however many calls of      *)
(* stop() there are and whatever the registry does meanwhile (drainModules).*)
THEOREM DrainOrder == Spec => []DependentsDrainFirst
<1>1. IInv => DependentsDrainFirst
  BY DEF IInv, DrainInv
<1> QED BY <1>1, InvariantHolds, PTL

(* STOPPED is reached only through a drain no module refused (drainModules).*)
THEOREM StoppedOnlyByDrain == Spec => []StoppedMeansDrained
<1>1. IInv => StoppedMeansDrained
  BY DEF IInv, DrainInv, StoppedMeansDrained, Awaiting
<1> QED BY <1>1, InvariantHolds, PTL

(* stop() returns only in a kernel that is STOPPED or FAILED (stop).        *)
THEOREM StopSettlesThePhase == Spec => []StopReturnsAtTheEnd
<1>1. IInv => StopReturnsAtTheEnd
  BY DEF IInv, DrainInv, StopReturnsAtTheEnd
<1> QED BY <1>1, InvariantHolds, PTL
=============================================================================
